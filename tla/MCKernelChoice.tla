--------------------------- MODULE MCKernelChoice ---------------------------
(* Transitions for TLC, from scripts of events.  When a choice point fails    *)
(* the system call goes on ("retries"), it returns ("unwinds"), or it returns *)
(* and the driver makes no further calls ("stops").  Outside of calls it goes *)
(* on.                                                                        *)
EXTENDS KernelChoice

Unwound(s, q, mode) ==
    LET brackets == {r \in q .. Len(s) : s[r] \in {"call", "return"}}
        next == CHOOSE r \in brackets : \A x \in brackets : r <= x
    IN  CASE mode = "retries" \/ brackets = {} -> q + 1
          [] s[next] = "call" -> q + 1
          [] mode = "unwinds" -> next
          [] OTHER -> Len(s)

\* The event after the results h of script s.
EventOf(s, mode, h) ==
    LET pos[i \in 0 .. Len(h)] ==
          IF i = 0 THEN 1
          ELSE IF s[pos[i - 1]] \in Cps /\ h[i] = 1 THEN Unwound(s, pos[i - 1], mode)
          ELSE pos[i - 1] + 1
        p == pos[Len(h)]
    IN  IF h # << >> /\ s[pos[Len(h) - 1]] = "check" /\ h[Len(h)] = 0 THEN "skip"
        ELSE IF p > Len(s) THEN "end" ELSE s[p]

\* The nodes, by depth.
Nodes(s, mode) ==
    LET level[n \in 0 .. Len(s)] ==
          IF n = 0 THEN {<< >>}
          ELSE UNION {{Append(h, x) : x \in IF EventOf(s, mode, h) \in Cps \cup {"check"}
                                            THEN 0 .. 1 ELSE {0}} :
                        h \in {g \in level[n - 1] : EventOf(s, mode, g) \notin {"end", "skip"}}}
    IN  UNION {level[n] : n \in 0 .. Len(s)}

Program(s, mode) == [h \in Nodes(s, mode) |-> EventOf(s, mode, h)]

MCScripts == {
    <<"call", "kmalloc", "kmalloc", "kmalloc", "bread", "return">>,
    <<"call", "kmalloc", "bread", "return", "kmalloc", "call", "kmalloc", "kmalloc", "return">>,
    <<"kmalloc", "call", "off", "kmalloc", "on", "bread", "return", "check", "call", "bread", "return">>}
MCPrograms == {Program(s, m) : s \in MCScripts, m \in {"retries", "unwinds", "stops"}}

\* The programs of the passing run, not the one below, keep to the brackets.
ASSUME MCBracketed == \A t \in MCPrograms : Bracketed(t) /\ Rooted(t) /\ Paired(t)

\* bi_sync: crashes are checked between pre_syscall and post_syscall.
MCSync == {Program(<<"call", "kmalloc", "check", "return">>, "unwinds")}
=============================================================================
