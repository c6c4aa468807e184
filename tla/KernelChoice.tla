---------------------------- MODULE KernelChoice ----------------------------
(***************************************************************************)
(* Kernel failures as choices of the search: around a system call the      *)
(* simulator arms the one choice record of the kernel module               *)
(* (crash/CrashSim.C pre_choose, post_choose; ekm-linux-2.6/ekm_choice.c), *)
(* so that the n-th choice point the call passes fails, and the search     *)
(* enumerates n with the generator of mcl/Random.C until nothing fails any *)
(* more.  The record belongs to the kernel: it outlives an execution, and  *)
(* the kernel threads under test share it.  The option is                  *)
(* ekm::choice_ioctl; the machine has one processor, so that a hook runs   *)
(* without interruption, but may be disabled by a thread that sleeps.      *)
(*                                                                         *)
(* A transition is a tree.  A node is the list of results of the events    *)
(* that lead to it (0, or 1 for a choice point that fails and for a crash  *)
(* check that is passed over); prog[h] is the event that comes next:       *)
(*   "call", "return"  pre_syscall and post_syscall of the test driver     *)
(*   a member of Cps   a choice point that the process reaches in the      *)
(*                     kernel, during such a call or elsewhere             *)
(*   "off", "on"       disable_choose and enable_choose in the kernel      *)
(*   "check"           check_now_crashes or check_all_crashes              *)
(*   "skip", "end"     the transition is left by xe_skip, or returns       *)
(***************************************************************************)
EXTENDS Random, FiniteSets

CONSTANTS
    Cps,           \* enum choice_point
    Programs,      \* transitions
    MaxPoints,     \* option ekm::max_kernel_choicepoints
    MaxExtra,      \* largest option ekm::extra_kernel_failures considered
    MaxOthers      \* bound: steps of other kernel threads

Events == Cps \cup {"call", "return", "off", "on", "check", "skip", "end"}

ASSUME ChoiceAssumption ==
    /\ MaxPoints \in Nat \ {0} /\ MaxExtra \in Nat /\ MaxOthers \in Nat
    /\ Cps \cap {"none", "any", "call", "return", "off", "on", "check", "skip", "end"} = {}
    /\ \A t \in Programs : << >> \in DOMAIN t /\ \A h \in DOMAIN t : t[h] \in Events

VARIABLES
    prog,     \* the transition
    extra,    \* option ekm::extra_kernel_failures
    alone,    \* no other kernel thread runs
    fail,     \* the choice record: [pass_count, choice, extra_failures, armed]
    off,      \* - choices_enabled
    theirs,   \* how many of them are disable_choose calls of other threads
    others,   \* steps of other threads
    should,   \* _should_fail
    debug,    \* _debug_choice
    rand,     \* the EnumRandom object of the search
    rest,     \* choices a ReplayRandom has still to play back
    hist,     \* results of the events of this execution
    nfail,    \* history: failures since the record was set
    skipped,  \* history: this execution, or the one it repeats, called xe_random_skip_rest
    log,      \* history: executions, [choices, hist, skipped]
    goal,     \* history: what the execution being regenerated did
    pc        \* "run", "count", "ret", "done", "regen...", "panic"

driver == <<should, debug, rand, rest, hist, skipped, log, goal, pc>>
kernel == <<fail, off, nfail>>
env == <<prog, extra, alone>>
vars == <<env, kernel, theirs, others, driver>>

-----------------------------------------------------------------------------
(* ekm_choice.c                                                            *)

\* Plausible faults: a failure after which the record stays armed ...
FailedOn(f, cp) == f
\* ... and a record that is read without being reset.
GetChoiceArmed(f) == f

\* ekm_set_choice.  armed says that the process ids in the record are valid.
SetChoice(n) == [pass_count |-> n, choice |-> "any", extra_failures |-> extra, armed |-> TRUE]

\* ekm_get_choice: "always reset after a call to get_choice".
GetChoice(f) == [f EXCEPT !.pass_count = -1]

\* The record after a choice point that lets one more pass ...
Counted(f) == [f EXCEPT !.pass_count = @ - 1]

\* ... and after one that fails.
Failed(f, cp) ==
    IF f.extra_failures = 0 THEN [f EXCEPT !.pass_count = -1]
    ELSE [f EXCEPT !.choice = cp, !.extra_failures = @ - 1]

\* Whether the hook looks at the count: the filters of ekm_mod_filter_choose.
Looks(cp) == /\ fail.armed /\ off = 0
             /\ fail.pass_count >= 0
             /\ fail.choice \in {"any", cp}

\* ekm_mod_filter_choose in a process whose id is in the record: the result
\* is 1 when the choice point fails.
Choose(cp, result) ==
    /\ result = IF Looks(cp) /\ fail.pass_count = 0 THEN 1 ELSE 0
    /\ fail' = IF ~Looks(cp) THEN fail
               ELSE IF result = 1 THEN Failed(fail, cp) ELSE Counted(fail)
    /\ nfail' = nfail + result
    /\ UNCHANGED off

-----------------------------------------------------------------------------
(* The simulator and the checked program                                   *)

Regenerating == goal # << >>

Init ==
    /\ prog \in Programs /\ extra \in 0 .. MaxExtra /\ alone \in BOOLEAN
    /\ fail = [pass_count |-> 0, choice |-> "any", extra_failures |-> 0, armed |-> FALSE]
    /\ off = 0 /\ theirs = 0 /\ others = 0 /\ nfail = 0
    /\ should = FALSE /\ debug = 0
    /\ rand = EnumReset /\ rest = << >> /\ goal = << >>
    /\ hist = << >> /\ skipped = FALSE /\ log = {}
    /\ pc = "run"

\* xe_random(ceil), of the search or of a ReplayRandom, which has to have a
\* choice left that is below the ceiling.
CanDraw(ceil) == Regenerating /\ ceil # 1 => rest # << >> /\ Head(rest) < ceil
Drawn(ceil) == IF ~Regenerating THEN EnumValue(rand, ceil)
               ELSE IF ceil = 1 THEN 0 ELSE Head(rest)
Draw(ceil) ==
    IF Regenerating THEN rest' = (IF ceil = 1 THEN rest ELSE Tail(rest)) /\ UNCHANGED rand
                    ELSE rand' = EnumRandom(rand, ceil) /\ UNCHANGED rest

Event == IF pc = "run" THEN prog[hist] ELSE "none"
Happened(result) == hist' = Append(hist, result)

\* pre_choose up to its test for re-entrance ("pre_syscall re-entrant!").
PreChoose ==
    /\ Event = "call" /\ CanDraw(2)
    /\ Draw(2)
    /\ should' = (Drawn(2) # 0)
    /\ IF should' THEN /\ debug' = 1
                       /\ pc' = IF debug = 0 THEN "count" ELSE "panic"
                       /\ UNCHANGED hist
                  ELSE Happened(0) /\ UNCHANGED <<debug, pc>>
    /\ UNCHANGED <<env, kernel, theirs, others, skipped, log, goal>>

\* The rest of pre_choose: which choice point is to fail.
SetCount ==
    /\ pc = "count" /\ CanDraw(MaxPoints)
    /\ Draw(MaxPoints)
    /\ fail' = SetChoice(Drawn(MaxPoints))
    /\ nfail' = 0
    /\ Happened(0)
    /\ pc' = "run"
    /\ UNCHANGED <<env, off, theirs, others, should, debug, skipped, log, goal>>

\* The process reaches a choice point in the kernel.
Point ==
    /\ Event \in Cps
    /\ \E result \in 0 .. 1 : Choose(Event, result) /\ Happened(result)
    /\ UNCHANGED <<env, theirs, others, should, debug, rand, rest, skipped, log, goal, pc>>

\* disable_choose and enable_choose around code that must not fail.
Disable ==
    /\ Event = "off"
    /\ off' = off + 1
    /\ Happened(0)
    /\ UNCHANGED <<env, fail, nfail, theirs, others, should, debug, rand, rest, skipped, log, goal, pc>>

Enable ==
    /\ Event = "on"
    /\ off' = off - 1
    /\ Happened(0)
    /\ UNCHANGED <<env, fail, nfail, theirs, others, should, debug, rand, rest, skipped, log, goal, pc>>

\* post_choose of a call without an armed failure.
PostNothing ==
    /\ Event = "return" /\ ~should
    /\ Happened(0)
    /\ UNCHANGED <<env, kernel, theirs, others, should, debug, rand, rest, skipped, log, goal, pc>>

\* A test that takes a failure for none, one that reads the record after it was
\* reset, and a flag that is not reset.
UnfailedSwapped == fail.pass_count < 0
UnfailedLate == GetChoice(fail).pass_count >= 0
FlagKept == debug' = debug

\* What post_choose takes for "nothing failed".
Unfailed == fail.pass_count >= 0
FlagReset == debug' = 0

\* post_choose when a failure happened.
PostFailed ==
    /\ Event = "return" /\ should /\ ~Unfailed
    /\ pc' = IF debug = 1 THEN pc ELSE "panic"
    /\ FlagReset
    /\ fail' = GetChoice(fail)
    /\ Happened(0)
    /\ UNCHANGED <<env, off, nfail, theirs, others, should, rand, rest, skipped, log, goal>>

\* post_choose when none happened: larger counts will not fail either, and are
\* skipped.  xe_random_skip_rest casts the generator to an EnumRandom, which a
\* ReplayRandom is not, and uses the null pointer.
PostUnfailed ==
    /\ Event = "return" /\ should /\ Unfailed
    /\ FlagReset
    /\ fail' = GetChoice(fail)
    /\ Happened(0)
    /\ skipped' = (skipped \/ ~Regenerating)
    /\ pc' = IF debug = 1 /\ ~Regenerating THEN pc ELSE "panic"
    /\ rand' = IF pc' = "panic" THEN rand ELSE SkipRest(rand)
    /\ UNCHANGED <<env, off, nfail, theirs, others, should, rest, log, goal>>

\* CHECK_CRASHES_PREFIX: crashes are checked here, and xe_skip ends the path,
\* or they are not.
Check ==
    /\ Event = "check" /\ CanDraw(2)
    /\ Draw(2)
    /\ Happened(IF Drawn(2) = 1 THEN 1 ELSE 0)
    /\ UNCHANGED <<env, kernel, theirs, others, should, debug, skipped, log, goal, pc>>

\* An assertion of ReplayRandom::random fails.
ReplayPanic ==
    /\ \/ Event \in {"call", "check"} /\ ~CanDraw(2)
       \/ pc = "count" /\ ~CanDraw(MaxPoints)
    /\ pc' = "panic"
    /\ UNCHANGED <<env, kernel, theirs, others, should, debug, rand, rest, hist, skipped, log, goal>>

\* The execution ends, and if it returned normally its state is queued.
Return ==
    /\ Event \in {"end", "skip"}
    /\ pc' = IF Regenerating THEN "regenerated" ELSE "ret"
    /\ log' = IF Regenerating THEN log
              ELSE log \cup {[choices |-> rand.choices, hist |-> hist, skipped |-> skipped,
                              queued |-> Event = "end"]}
    /\ UNCHANGED <<env, kernel, theirs, others, should, debug, rand, rest, hist, skipped, goal>>

\* while(_rand->repeat())
Again ==
    /\ pc = "ret"
    /\ IF Repeats(rand) THEN rand' = Repeat(rand) /\ hist' = << >> /\ skipped' = FALSE /\ pc' = "run"
                        ELSE pc' = "done" /\ UNCHANGED <<rand, hist, skipped>>
    /\ UNCHANGED <<env, kernel, theirs, others, should, debug, rest, log, goal>>

\* set_state of a queued state, whatever its execution did: its choices are
\* played back.
Regenerate ==
    /\ pc = "done"
    /\ \E e \in log : /\ e.queued /\ e.choices # << >>
                      /\ rest' = e.choices /\ goal' = e.hist /\ skipped' = e.skipped
    /\ hist' = << >>
    /\ pc' = "run"
    /\ UNCHANGED <<env, kernel, theirs, others, should, debug, rand, log>>

-----------------------------------------------------------------------------
(* Other kernel threads, at any time                                       *)

Other == ~alone /\ others < MaxOthers /\ pc # "panic" /\ others' = others + 1

\* A thread under test (its id is in the record) reaches a choice point.
OtherPoint ==
    /\ Other
    /\ \E cp \in Cps, result \in 0 .. 1 : Choose(cp, result)
    /\ UNCHANGED <<env, theirs, driver>>

\* Any thread disables choices, and enables them later.
OtherDisable ==
    /\ Other
    /\ off' = off + 1 /\ theirs' = theirs + 1
    /\ UNCHANGED <<env, fail, nfail, driver>>

OtherEnable ==
    /\ Other /\ theirs > 0
    /\ off' = off - 1 /\ theirs' = theirs - 1
    /\ UNCHANGED <<env, fail, nfail, driver>>

Next == \/ PreChoose \/ SetCount \/ Point \/ Disable \/ Enable
        \/ PostNothing \/ PostFailed \/ PostUnfailed
        \/ Check \/ ReplayPanic \/ Return \/ Again \/ Regenerate
        \/ OtherPoint \/ OtherDisable \/ OtherEnable

Spec == Init /\ [][Next]_vars

-----------------------------------------------------------------------------
(* Properties                                                              *)

TypeOK ==
    /\ hist \in DOMAIN prog
    /\ fail.pass_count \in -1 .. (MaxPoints - 1)
    /\ fail.choice \in Cps \cup {"any"} /\ fail.extra_failures \in 0 .. extra
    /\ off \in Nat /\ theirs \in 0 .. off /\ others \in 0 .. MaxOthers
    /\ should \in BOOLEAN /\ debug \in 0 .. 1
    /\ rand.cur <= Len(rand.choices) /\ Len(rand.ceils) = Len(rand.choices)

\* Failures are injected only into a call that pre_choose armed and
\* post_choose has not disarmed yet: not into what the process does in the
\* kernel between calls, not into the next execution, and not by way of
\* another thread.
OnlyInCall == [][nfail' > nfail => debug = 1 /\ pc = "run"]_vars

\* A call gets at most one failure, and as many more as the option
\* ekm::extra_kernel_failures says, however many threads pass choice points.
FewFailures == nfail <= 1 + extra

\* post_choose tells from the record whether the call failed ("if nothing
\* failed.  skip the rest choices", kernel_failures ++), and is right.
KnowsFailures == [][extra = 0 => /\ PostUnfailed => nfail = 0
                                 /\ PostFailed => nfail = 1]_vars

\* Whether choice point i of an execution could have been chosen to fail: it
\* is in a call, not in a region where choices are disabled, the first of the
\* call to fail, and among the first MaxPoints choice points of the call.
EventAt(h, i) == prog[SubSeq(h, 1, i - 1)]
Between(h, i, j, e) == \E k \in (i + 1) .. (j - 1) : EventAt(h, k) = e
Hidden(h, i) == \E j \in 1 .. (i - 1) : EventAt(h, j) = "off" /\ ~Between(h, j, i, "on")
Selectable(h, i) ==
    /\ ~Hidden(h, i)
    /\ \E j \in 1 .. (i - 1) :
         /\ EventAt(h, j) = "call" /\ ~Between(h, j, i, "return")
         /\ LET before == {k \in (j + 1) .. (i - 1) : EventAt(h, k) \in Cps /\ ~Hidden(h, k)}
            IN  Cardinality(before) < MaxPoints /\ \A k \in before : h[k] = 0

\* The executions of the transition with at most one failure in each call.
Wanted == {h \in DOMAIN prog :
             /\ prog[h] \in {"end", "skip"}
             /\ \A i \in 1 .. Len(h) : EventAt(h, i) \in Cps /\ h[i] = 1 => Selectable(h, i)}

\* The search executes the transition with every such combination of
\* failures, of different calls and of different choice points of a call, and
\* with nothing else, although it knows neither how many choice points there
\* are nor where, and skips what it takes for redundant.
EveryFailureTried == pc = "done" /\ alone /\ extra = 0 => {e.hist : e \in log} = Wanted

\* Playing the choices of an execution back makes the same choice points fail,
\* although the record in the kernel is not what it was.  An execution that
\* called xe_random_skip_rest (no failure came of an armed call) is excepted:
\* its replay meets the null pointer, or differs, as skip_rest has put the
\* largest count into its choices.
Reproduced == pc = "regenerated" /\ alone /\ ~skipped => hist = goal

\* A transition as the drivers write them: the results of a node are zeros and
\* ones, a node that is not a leaf has successors, a call is over before
\* crashes are checked, the next one is made, or the transition is left, and
\* only a call returns.
Within(t, h, from, to) ==
    \E j \in 1 .. Len(h) : /\ t[SubSeq(h, 1, j - 1)] = from
                           /\ \A k \in (j + 1) .. Len(h) : t[SubSeq(h, 1, k - 1)] # to
InCall(t, h) == Within(t, h, "call", "return")
Bracketed(t) ==
    \A h \in DOMAIN t :
        /\ h \in Seq(0 .. 1)
        /\ t[h] \notin {"skip", "end"} => Append(h, 0) \in DOMAIN t
        /\ t[h] \in Cps \cup {"check"} => Append(h, 1) \in DOMAIN t
        /\ t[h] \in {"call", "check", "skip", "end"} => ~InCall(t, h)
        /\ t[h] = "return" => InCall(t, h)

\* It is a tree: what comes before a node is a node that has this result.
Rooted(t) ==
    \A h \in DOMAIN t : \A i \in 1 .. Len(h) :
        LET g == SubSeq(h, 1, i - 1)
        IN  /\ g \in DOMAIN t /\ t[g] \notin {"skip", "end"}
            /\ h[i] = 1 => t[g] \in Cps \cup {"check"}

\* Choices are disabled and enabled in turns, and enabled in the end, as long
\* as nothing fails where they are disabled.
Disabled(t, h) == Within(t, h, "off", "on")
Possible(t, h) ==
    \A i \in 1 .. Len(h) :
        t[SubSeq(h, 1, i - 1)] \in Cps /\ h[i] = 1 => ~Disabled(t, SubSeq(h, 1, i - 1))
Paired(t) ==
    \A h \in DOMAIN t :
        Possible(t, h) => /\ t[h] \in {"off", "skip", "end"} => ~Disabled(t, h)
                          /\ t[h] = "on" => Disabled(t, h)

\* No assertion of simulator or generator fails in the search and in replays of
\* executions that skipped nothing, and these never use the null pointer of
\* xe_random_skip_rest: nothing in them gets to where it is called.  Replays of
\* executions that did skip use it, and are excepted.
NoPanic == alone /\ ~(Regenerating /\ skipped) => pc # "panic"
=============================================================================
