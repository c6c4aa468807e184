------------------------- MODULE KernelChoiceProofs -------------------------
(****************************************************************************)
(* Kernel failures as choices, for transitions, choice points and limits of *)
(* any number.                                                              *)
(*                                                                          *)
(* First what other threads cannot change: failures are granted and in      *)
(* calls.  Then, without them, an execution is a function of its choices    *)
(* (Conf, After, IsRun), so that what is played back happens again          *)
(* (Steady, Recorded).  The choices asked for make a tree (Chart), which    *)
(* the generator enumerates up to the counts that skip_rest passes over     *)
(* (Settled, Leaf, Charted); with extra failures skip_rest may change a     *)
(* choice under the execution, which then strays from its record (Matching).*)
(* Last, the failures of an execution are those that may be chosen (Sound), *)
(* and all of these are reached by choices of the tree (Reach).             *)
(****************************************************************************)
EXTENDS KernelChoice, RandomProofs, FiniteSetTheorems

\* A choice point can only fail while the record is armed and counts.
Live == fail.armed /\ fail.pass_count >= 0

\* The failures of the call so far and those the record still grants.
Granted ==
    /\ extra \in Nat /\ nfail \in Nat /\ fail.extra_failures \in Nat
    /\ DOMAIN fail = {"pass_count", "choice", "extra_failures", "armed"}
    /\ Live => nfail + fail.extra_failures <= extra
    /\ nfail <= 1 + extra

\* A choice point takes from what is granted, fails only if the record is live,
\* and never makes it so.
LEMMA ChooseGrants ==
    ASSUME Granted, NEW cp, NEW result, Choose(cp, result), extra' = extra
    PROVE  Granted' /\ (Live' => Live) /\ (nfail' > nfail => Live)
<1>0. fail.extra_failures \in Nat /\ nfail \in Nat /\ extra \in Nat
  BY DEF Granted
<1>1. CASE ~Looks(cp)
  <2>1. fail' = fail /\ nfail' = nfail
    BY <1>1, <1>0 DEF Choose
  <2> QED
    BY <2>1, <1>0 DEF Granted, Live
<1>2. CASE Looks(cp) /\ fail.pass_count = 0
  <2>1. Live /\ nfail' = nfail + 1 /\ fail' = Failed(fail, cp)
    BY <1>2 DEF Choose, Looks, Live
  <2>2. CASE fail.extra_failures = 0
    <3>1. /\ fail'.pass_count = -1 /\ fail'.extra_failures = 0
          /\ DOMAIN fail' = DOMAIN fail
      BY <2>1, <2>2 DEF Failed, Granted
    <3> QED
      BY <2>1, <3>1, <1>0 DEF Granted, Live
  <2>3. CASE fail.extra_failures # 0
    <3>1. /\ fail'.extra_failures = fail.extra_failures - 1
          /\ DOMAIN fail' = DOMAIN fail
      BY <2>1, <2>3 DEF Failed, Granted
    <3> QED
      BY <2>1, <2>3, <3>1, <1>0 DEF Granted, Live
  <2> QED
    BY <2>2, <2>3
<1>3. CASE Looks(cp) /\ fail.pass_count # 0
  <2>1. Live /\ nfail' = nfail /\ fail' = Counted(fail)
    BY <1>3, <1>0 DEF Choose, Looks, Live
  <2>2. /\ fail'.extra_failures = fail.extra_failures
        /\ DOMAIN fail' = DOMAIN fail
    BY <2>1 DEF Counted, Granted
  <2> QED
    BY <2>1, <2>2, <1>0 DEF Granted, Live
<1> QED
  BY <1>1, <1>2, <1>3

\* Setting the record grants one failure and the extra ones.
LEMMA SetGrants ==
    ASSUME Granted, SetCount
    PROVE  Granted'
<1>1. PICK n : fail' = SetChoice(n)
  BY DEF SetCount
<1>2. fail'.extra_failures = extra /\ DOMAIN fail' = {"pass_count", "choice", "extra_failures", "armed"}
  BY <1>1 DEF SetChoice
<1> QED
  BY <1>2 DEF SetCount, env, Granted, Live

\* Reading it ends the call's failures.
LEMMA GetGrants ==
    ASSUME Granted, fail' = GetChoice(fail), nfail' = nfail, extra' = extra
    PROVE  Granted' /\ ~Live'
<1>1. fail'.pass_count = -1 /\ fail'.extra_failures = fail.extra_failures /\ DOMAIN fail' = DOMAIN fail
  BY DEF GetChoice, Granted
<1> QED
  BY <1>1 DEF Granted, Live

\* The steps that leave record and failures alone.
Idle == \/ PreChoose \/ Disable \/ Enable \/ PostNothing
        \/ Check \/ ReplayPanic \/ Return \/ Again \/ Regenerate
        \/ OtherDisable \/ OtherEnable

\* Steps that grant no failure leave the grants alone.
LEMMA IdleGrants ==
    ASSUME Granted, Idle \/ UNCHANGED vars
    PROVE  Granted' /\ fail' = fail /\ nfail' = nfail
<1>1. fail' = fail /\ nfail' = nfail /\ extra' = extra
  BY DEF Idle, PreChoose, Disable, Enable, PostNothing, Check, ReplayPanic, Return, Again,
         Regenerate, OtherDisable, OtherEnable, vars, env, kernel
<1> QED
  BY <1>1 DEF Granted, Live

\* Every step keeps the bound on the failures of a call.
LEMMA StepGrants ==
    ASSUME Granted, [Next]_vars
    PROVE  Granted'
<1>1. CASE Idle \/ UNCHANGED vars
  BY <1>1, IdleGrants
<1>2. CASE SetCount
  BY <1>2, SetGrants
<1>3. CASE Point
  BY <1>3, ChooseGrants DEF Point, env
<1>4. CASE OtherPoint
  BY <1>4, ChooseGrants DEF OtherPoint, env
<1>5. CASE PostFailed \/ PostUnfailed
  BY <1>5, GetGrants DEF PostFailed, PostUnfailed, env
<1> QED
  BY <1>1, <1>2, <1>3, <1>4, <1>5 DEF Next, Idle

\* A call gets at most one failure and the extra ones that were asked for
\* (ekm_mod_filter_choose, post_choose), however many choice points it and
\* other threads pass, whatever transitions there are.
THEOREM FailuresAreBounded == Spec => []FewFailures
<1>1. Init => Granted
  BY ChoiceAssumption DEF Init, Granted, Live
<1>2. Granted => FewFailures
  BY DEF Granted, FewFailures
<1> QED
  BY <1>1, <1>2, StepGrants, PTL DEF Spec

-----------------------------------------------------------------------------
\* Appending a result keeps the beginnings of a history.
LEMMA PrefixOfAppend ==
    ASSUME NEW h \in Seq(0 .. 1), NEW x \in 0 .. 1, NEW n \in 0 .. Len(h)
    PROVE  SubSeq(Append(h, x), 1, n) = SubSeq(h, 1, n)
<1> DEFINE g == Append(h, x)
<1>1. g \in Seq(0 .. 1) /\ Len(g) = Len(h) + 1 /\ \A i \in 1 .. Len(h) : g[i] = h[i]
  BY AppendProperties
<1> HIDE DEF g
<1>2. /\ SubSeq(g, 1, n) \in Seq(0 .. 1) /\ Len(SubSeq(g, 1, n)) = n
      /\ \A i \in 1 .. n : SubSeq(g, 1, n)[i] = g[i]
  BY <1>1, SubSeqProperties
<1>3. /\ SubSeq(h, 1, n) \in Seq(0 .. 1) /\ Len(SubSeq(h, 1, n)) = n
      /\ \A i \in 1 .. n : SubSeq(h, 1, n)[i] = h[i]
  BY SubSeqProperties
<1>4. \A i \in 1 .. n : SubSeq(g, 1, n)[i] = SubSeq(h, 1, n)[i]
  BY <1>1, <1>2, <1>3
<1>5. SubSeq(g, 1, n) = SubSeq(h, 1, n)
  BY <1>2, <1>3, <1>4, SeqEqual
<1> QED
  BY <1>5 DEF g

\* A call is under way after it was made ...
LEMMA CallBegins ==
    ASSUME NEW t, NEW from, NEW to, from # to, NEW h \in Seq(0 .. 1), NEW x \in 0 .. 1, t[h] = from
    PROVE  Within(t, Append(h, x), from, to)
<1>1. Len(Append(h, x)) = Len(h) + 1 /\ Len(h) \in Nat
  BY AppendProperties, LenProperties
<1>2. SubSeq(Append(h, x), 1, Len(h)) = h
  BY <1>1, PrefixOfAppend, SubSeqFull
<1> DEFINE g == Append(h, x)
           n == Len(h) + 1
<1>3. n \in 1 .. Len(g) /\ n - 1 = Len(h)
  BY <1>1
<1>4. t[SubSeq(g, 1, n - 1)] = from
  BY <1>2, <1>3
<1>5. \A k \in (n + 1) .. Len(g) : FALSE
  BY <1>1
<1> HIDE DEF g, n
<1>6. \A k \in (n + 1) .. Len(g) : t[SubSeq(g, 1, k - 1)] # to
  BY <1>5
<1>7. Within(t, g, from, to)
  BY <1>3, <1>4, <1>6, Zenon DEF Within
<1> QED
  BY <1>7 DEF g

\* ... until it returns.
LEMMA CallGoesOn ==
    ASSUME NEW t, NEW from, NEW to, from # to, NEW h \in Seq(0 .. 1), NEW x \in 0 .. 1, Within(t, h, from, to), t[h] # to
    PROVE  Within(t, Append(h, x), from, to)
<1>1. Len(Append(h, x)) = Len(h) + 1 /\ Len(h) \in Nat
  BY AppendProperties, LenProperties
<1>2. PICK j \in 1 .. Len(h) : /\ t[SubSeq(h, 1, j - 1)] = from
                               /\ \A k \in (j + 1) .. Len(h) : t[SubSeq(h, 1, k - 1)] # to
  BY DEF Within
<1>3. j \in 1 .. Len(Append(h, x)) /\ t[SubSeq(Append(h, x), 1, j - 1)] = from
  <2>1. j - 1 \in 0 .. Len(h)
    BY <1>1
  <2>2. SubSeq(Append(h, x), 1, j - 1) = SubSeq(h, 1, j - 1)
    BY <2>1, PrefixOfAppend
  <2>3. j \in 1 .. Len(Append(h, x))
    BY <1>1
  <2> QED
    BY <1>2, <2>2, <2>3
<1>4. ASSUME NEW k \in (j + 1) .. Len(Append(h, x))
      PROVE  t[SubSeq(Append(h, x), 1, k - 1)] # to
  <2>1. k - 1 \in 0 .. Len(h)
    BY <1>1
  <2>2. SubSeq(Append(h, x), 1, k - 1) = SubSeq(h, 1, k - 1)
    BY <2>1, PrefixOfAppend
  <2>3. CASE k - 1 = Len(h)
    <3>1. SubSeq(h, 1, k - 1) = h
      BY <2>3, SubSeqFull
    <3> QED
      BY <2>2, <3>1
  <2>4. CASE k - 1 # Len(h)
    <3>1. k \in (j + 1) .. Len(h)
      BY <1>1, <2>1, <2>4
    <3> QED
      BY <1>2, <2>2, <3>1
  <2> QED
    BY <2>3, <2>4
<1> QED
  BY <1>3, <1>4 DEF Within

-----------------------------------------------------------------------------
\* The record is live only in a call that pre_choose armed; the flag of the
\* simulator is set only there, and between the two choices of pre_choose.
Armed ==
    /\ prog \in Programs /\ hist \in DOMAIN prog
    /\ debug \in 0 .. 1
    /\ Live => debug = 1 /\ pc = "run"
    /\ debug = 1 => \/ pc = "run" /\ should /\ InCall(prog, hist)
                    \/ pc = "count" /\ should
                    \/ pc = "panic"
    /\ pc = "count" => prog[hist] = "call" /\ debug = 1

AllBracketed == \A t \in Programs : Bracketed(t)

\* What the brackets say of the node that an execution has reached.
LEMMA NodeIsBracketed ==
    ASSUME AllBracketed, Armed
    PROVE  /\ hist \in Seq(0 .. 1)
           /\ prog[hist] \notin {"skip", "end"} => Append(hist, 0) \in DOMAIN prog
           /\ prog[hist] \in Cps \cup {"check"} => Append(hist, 1) \in DOMAIN prog
           /\ prog[hist] \in {"call", "check", "skip", "end"} => ~InCall(prog, hist)
           /\ prog[hist] = "return" => InCall(prog, hist)
BY DEF AllBracketed, Armed, Bracketed

\* Outside of a call nothing is armed.
LEMMA NothingArmed ==
    ASSUME AllBracketed, Armed, pc = "run", prog[hist] \in {"call", "check", "skip", "end"}
    PROVE  debug = 0 /\ ~Live
BY NodeIsBracketed DEF Armed

\* Every step keeps the record armed in calls only.
LEMMA StepArmed ==
    ASSUME AllBracketed, Granted, Armed, [Next]_vars
    PROVE  Armed'
<1>n. /\ hist \in Seq(0 .. 1)
      /\ prog[hist] \notin {"skip", "end"} => Append(hist, 0) \in DOMAIN prog
      /\ prog[hist] \in Cps \cup {"check"} => Append(hist, 1) \in DOMAIN prog
  BY NodeIsBracketed
<1>e. \A e \in {"call", "return", "off", "on", "check", "skip", "end"} \cup Cps :
         Event = e => pc = "run" /\ prog[hist] = e
  BY ChoiceAssumption DEF Event
<1>1. CASE PreChoose
  <2>1. pc = "run" /\ prog[hist] = "call" /\ debug = 0 /\ ~Live
    BY <1>1, <1>e, NothingArmed DEF PreChoose
  <2>2. prog' = prog /\ fail' = fail
    BY <1>1 DEF PreChoose, env, kernel
  <2>3. CASE should'
    BY <1>1, <2>1, <2>2, <2>3 DEF PreChoose, Armed, Live
  <2>4. CASE ~should'
    <3>1. hist' = Append(hist, 0) /\ debug' = debug /\ pc' = pc
      BY <1>1, <2>4 DEF PreChoose, Happened
    <3> QED
      BY <2>1, <2>2, <3>1, <1>n DEF Armed, Live
  <2> QED
    BY <2>3, <2>4
<1>2. CASE SetCount
  <2>1. /\ prog' = prog /\ hist' = Append(hist, 0) /\ pc = "count" /\ pc' = "run"
        /\ debug' = debug /\ should' = should
    BY <1>2 DEF SetCount, env, Happened
  <2>2. prog[hist] = "call"
    BY <2>1 DEF Armed
  <2>3. InCall(prog', hist') /\ hist' \in DOMAIN prog'
    BY <2>1, <2>2, <1>n, CallBegins DEF InCall
  <2> QED
    BY <2>1, <2>3 DEF Armed
<1>3. CASE Point
  <2>1. PICK r \in 0 .. 1 : Choose(Event, r) /\ Happened(r)
    BY <1>3 DEF Point
  <2>2. /\ prog' = prog /\ extra' = extra /\ hist' = Append(hist, r)
        /\ debug' = debug /\ should' = should /\ pc' = pc
    BY <1>3, <2>1 DEF Point, env, Happened
  <2>3. pc = "run" /\ prog[hist] \in Cps
    BY <1>3, <1>e DEF Point
  <2>4. Live' => Live
    BY <2>1, <2>2, ChooseGrants
  <2>5. hist' \in DOMAIN prog'
    BY <2>2, <2>3, <1>n, ChoiceAssumption
  <2>6. InCall(prog, hist) => InCall(prog', hist')
    BY <2>2, <2>3, <1>n, CallGoesOn, ChoiceAssumption DEF InCall
  <2> QED
    BY <2>2, <2>3, <2>4, <2>5, <2>6 DEF Armed
<1>4. CASE Disable \/ Enable
  <2>1. /\ prog' = prog /\ fail' = fail /\ hist' = Append(hist, 0)
        /\ debug' = debug /\ should' = should /\ pc' = pc
    BY <1>4 DEF Disable, Enable, env, Happened
  <2>2. pc = "run" /\ prog[hist] \in {"off", "on"}
    BY <1>4, <1>e DEF Disable, Enable
  <2>3. hist' \in DOMAIN prog'
    BY <2>1, <2>2, <1>n
  <2>4. InCall(prog, hist) => InCall(prog', hist')
    BY <2>1, <2>2, <1>n, CallGoesOn DEF InCall
  <2> QED
    BY <2>1, <2>2, <2>3, <2>4 DEF Armed, Live
<1>5. CASE PostNothing
  <2>1. /\ prog' = prog /\ fail' = fail /\ hist' = Append(hist, 0)
        /\ debug' = debug /\ pc' = pc /\ ~should
    BY <1>5 DEF PostNothing, env, kernel, Happened
  <2>2. pc = "run" /\ prog[hist] = "return"
    BY <1>5, <1>e DEF PostNothing
  <2>3. hist' \in DOMAIN prog'
    BY <2>1, <2>2, <1>n
  <2> QED
    BY <2>1, <2>2, <2>3 DEF Armed, Live
<1>6. CASE PostFailed \/ PostUnfailed
  <2>1. /\ prog' = prog /\ extra' = extra /\ nfail' = nfail /\ fail' = GetChoice(fail)
        /\ hist' = Append(hist, 0) /\ debug' = 0 /\ pc' \in {pc, "panic"}
    BY <1>6 DEF PostFailed, PostUnfailed, env, Happened, FlagReset
  <2>2. pc = "run" /\ prog[hist] = "return"
    BY <1>6, <1>e DEF PostFailed, PostUnfailed
  <2>3. ~Live'
    BY <2>1, GetGrants
  <2>4. hist' \in DOMAIN prog'
    BY <2>1, <2>2, <1>n
  <2> QED
    BY <2>1, <2>2, <2>3, <2>4 DEF Armed
<1>7. CASE Check
  <2>1. pc = "run" /\ prog[hist] = "check"
    BY <1>7, <1>e DEF Check
  <2>2. debug = 0 /\ ~Live
    BY <2>1, NothingArmed
  <2>3. /\ prog' = prog /\ fail' = fail /\ debug' = debug /\ pc' = pc
        /\ hist' \in {Append(hist, 0), Append(hist, 1)}
    BY <1>7 DEF Check, env, kernel, Happened
  <2>4. hist' \in DOMAIN prog'
    BY <2>1, <2>3, <1>n
  <2> QED
    BY <2>1, <2>2, <2>3, <2>4 DEF Armed, Live
<1>8. CASE ReplayPanic
  <2>1. /\ prog' = prog /\ fail' = fail /\ debug' = debug /\ hist' = hist /\ pc' = "panic"
    BY <1>8 DEF ReplayPanic, env, kernel
  <2>2. ~Live
    <3>1. CASE pc = "count"
      BY <3>1 DEF Armed
    <3>2. CASE Event \in {"call", "check"}
      BY <3>2, <1>e, NothingArmed
    <3> QED
      BY <1>8, <3>1, <3>2 DEF ReplayPanic
  <2> QED
    BY <2>1, <2>2 DEF Armed, Live
<1>9. CASE Return
  <2>1. pc = "run" /\ prog[hist] \in {"skip", "end"}
    BY <1>9, <1>e DEF Return
  <2>2. debug = 0 /\ ~Live
    BY <2>1, NothingArmed
  <2>3. /\ prog' = prog /\ fail' = fail /\ debug' = debug /\ hist' = hist
        /\ pc' \in {"regenerated", "ret"}
    BY <1>9 DEF Return, env, kernel
  <2> QED
    BY <2>2, <2>3 DEF Armed, Live
<1>10. CASE Again \/ Regenerate
  <2>1. /\ prog' = prog /\ fail' = fail /\ debug' = debug /\ pc \in {"ret", "done"}
        /\ pc' \in {"run", "done"} /\ (hist' = hist \/ hist' = << >>)
    BY <1>10 DEF Again, Regenerate, env, kernel
  <2>2. hist' \in DOMAIN prog'
    BY <2>1, ChoiceAssumption DEF Armed
  <2> QED
    BY <2>1, <2>2 DEF Armed, Live
<1>11. CASE OtherPoint
  <2>1. PICK cp, r : Choose(cp, r)
    BY <1>11 DEF OtherPoint
  <2>2. /\ prog' = prog /\ extra' = extra /\ hist' = hist
        /\ debug' = debug /\ should' = should /\ pc' = pc
    BY <1>11 DEF OtherPoint, env, driver
  <2>3. Live' => Live
    BY <2>1, <2>2, ChooseGrants
  <2> QED
    BY <2>2, <2>3 DEF Armed
<1>12. CASE OtherDisable \/ OtherEnable \/ UNCHANGED vars
  <2>1. /\ prog' = prog /\ fail' = fail /\ hist' = hist
        /\ debug' = debug /\ should' = should /\ pc' = pc
    BY <1>12 DEF OtherDisable, OtherEnable, vars, env, kernel, driver
  <2> QED
    BY <2>1 DEF Armed, Live
<1> QED
  BY <1>1, <1>2, <1>3, <1>4, <1>5, <1>6, <1>7, <1>8, <1>9, <1>10, <1>11, <1>12 DEF Next

\* The step in which a choice point fails.
LEMMA FailureInCall ==
    ASSUME AllBracketed, Granted, Armed, [Next]_vars
    PROVE  nfail' > nfail => debug = 1 /\ pc = "run"
<1>0. nfail \in Nat
  BY DEF Granted
<1>1. CASE Idle \/ UNCHANGED vars
  BY <1>0, <1>1, IdleGrants
<1>2. CASE SetCount
  BY <1>0, <1>2 DEF SetCount
<1>3. CASE Point
  <2>1. nfail' > nfail => Live
    BY <1>3, ChooseGrants DEF Point, env
  <2> QED
    BY <2>1 DEF Armed
<1>4. CASE OtherPoint
  <2>1. nfail' > nfail => Live
    BY <1>4, ChooseGrants DEF OtherPoint, env
  <2> QED
    BY <2>1 DEF Armed
<1>5. CASE PostFailed \/ PostUnfailed
  BY <1>0, <1>5 DEF PostFailed, PostUnfailed
<1> QED
  BY <1>1, <1>2, <1>3, <1>4, <1>5 DEF Next, Idle

\* When the transitions keep to the brackets (bi_sync of the drivers does not),
\* failures hit only calls that pre_choose armed and post_choose has not
\* disarmed, also by way of other threads, in later executions and in replays.
THEOREM FailuresAreInCalls ==
    ASSUME AllBracketed
    PROVE  Spec => OnlyInCall
<1>1. Init => Granted /\ Armed
  BY ChoiceAssumption DEF Init, Granted, Armed, Live
<1>2. Granted /\ Armed /\ [Next]_vars => (Granted /\ Armed)'
  BY StepGrants, StepArmed
<1>3. Granted /\ Armed /\ [Next]_vars => [nfail' > nfail => debug = 1 /\ pc = "run"]_vars
  BY FailureInCall
<1> QED
  BY <1>1, <1>2, <1>3, PTL DEF Spec, OnlyInCall

-----------------------------------------------------------------------------
\* A call that has returned is not under way any more.
LEMMA CallEnds ==
    ASSUME NEW t, NEW from, NEW to, from # to, NEW h \in Seq(0 .. 1), NEW x \in 0 .. 1, t[h] = to
    PROVE  ~Within(t, Append(h, x), from, to)
<1>1. Len(Append(h, x)) = Len(h) + 1 /\ Len(h) \in Nat
  BY AppendProperties, LenProperties
<1>2. SubSeq(Append(h, x), 1, Len(h)) = h
  BY <1>1, PrefixOfAppend, SubSeqFull
<1>3. SUFFICES ASSUME NEW j \in 1 .. Len(Append(h, x)),
                      t[SubSeq(Append(h, x), 1, j - 1)] = from,
                      \A k \in (j + 1) .. Len(Append(h, x)) : t[SubSeq(Append(h, x), 1, k - 1)] # to
               PROVE  FALSE
  BY DEF Within
<1>4. CASE j - 1 = Len(h)
  BY <1>2, <1>3, <1>4
<1>5. CASE j - 1 # Len(h)
  <2>1. Len(h) + 1 \in (j + 1) .. Len(Append(h, x)) /\ (Len(h) + 1) - 1 = Len(h)
    BY <1>1, <1>5
  <2> QED
    BY <1>2, <1>3, <2>1
<1> QED
  BY <1>4, <1>5

\* Without extra failures the record of an armed call tells whether it has
\* failed: it counts as long as nothing has.
Telling ==
    pc = "run" /\ should /\ InCall(prog, hist) /\ extra = 0 =>
        /\ fail.armed
        /\ fail.pass_count \in Int /\ fail.pass_count >= -1
        /\ nfail = IF fail.pass_count >= 0 THEN 0 ELSE 1

\* A choice point that fails leaves a record that does not count.
LEMMA ChooseTells ==
    ASSUME Granted, NEW cp, NEW result, Choose(cp, result), extra = 0, extra' = extra,
           fail.armed, fail.pass_count \in Int, fail.pass_count >= -1,
           nfail = IF fail.pass_count >= 0 THEN 0 ELSE 1
    PROVE  /\ fail'.armed /\ fail'.pass_count \in Int /\ fail'.pass_count >= -1
           /\ nfail' = IF fail'.pass_count >= 0 THEN 0 ELSE 1
<1>0. /\ fail.extra_failures \in Nat /\ nfail \in Nat
      /\ DOMAIN fail = {"pass_count", "choice", "extra_failures", "armed"}
      /\ Live => nfail + fail.extra_failures <= 0
  BY DEF Granted
<1>1. CASE ~Looks(cp)
  <2>1. fail' = fail /\ nfail' = nfail
    BY <1>1, <1>0 DEF Choose
  <2> QED
    BY <2>1
<1>2. CASE Looks(cp) /\ fail.pass_count = 0
  <2>1. Live /\ nfail' = nfail + 1 /\ fail' = Failed(fail, cp)
    BY <1>2 DEF Choose, Looks, Live
  <2>2. fail.extra_failures = 0 /\ nfail = 0
    BY <1>0, <2>1
  <2>3. fail'.pass_count = -1 /\ fail'.armed = fail.armed
    BY <2>1, <2>2, <1>0 DEF Failed
  <2> QED
    BY <2>1, <2>2, <2>3
<1>3. CASE Looks(cp) /\ fail.pass_count # 0
  <2>1. Live /\ nfail' = nfail /\ fail' = Counted(fail)
    BY <1>3, <1>0 DEF Choose, Looks, Live
  <2>2. fail'.pass_count = fail.pass_count - 1 /\ fail'.armed = fail.armed
    BY <2>1, <1>0 DEF Counted
  <2> QED
    BY <1>3, <2>1, <2>2 DEF Live
<1> QED
  BY <1>1, <1>2, <1>3

\* Only a call begins one.
LEMMA NoNewCall ==
    ASSUME NEW t, NEW from, NEW to, from # to, NEW h \in Seq(0 .. 1), NEW x \in 0 .. 1, t[h] # from, Within(t, Append(h, x), from, to)
    PROVE  Within(t, h, from, to)
<1>1. Len(Append(h, x)) = Len(h) + 1 /\ Len(h) \in Nat
  BY AppendProperties, LenProperties
<1>2. SubSeq(Append(h, x), 1, Len(h)) = h
  BY <1>1, PrefixOfAppend, SubSeqFull
<1>3. PICK j \in 1 .. Len(Append(h, x)) :
         /\ t[SubSeq(Append(h, x), 1, j - 1)] = from
         /\ \A k \in (j + 1) .. Len(Append(h, x)) : t[SubSeq(Append(h, x), 1, k - 1)] # to
  BY DEF Within
<1>4. j - 1 # Len(h)
  BY <1>2, <1>3
<1>5. j \in 1 .. Len(h)
  BY <1>1, <1>4
<1>6. t[SubSeq(h, 1, j - 1)] = from
  <2>1. j - 1 \in 0 .. Len(h)
    BY <1>1, <1>5
  <2>2. SubSeq(Append(h, x), 1, j - 1) = SubSeq(h, 1, j - 1)
    BY <2>1, PrefixOfAppend
  <2> QED
    BY <1>3, <2>2
<1>7. ASSUME NEW k \in (j + 1) .. Len(h)
      PROVE  t[SubSeq(h, 1, k - 1)] # to
  <2>1. k - 1 \in 0 .. Len(h) /\ k \in (j + 1) .. Len(Append(h, x))
    BY <1>1, <1>5
  <2>2. SubSeq(Append(h, x), 1, k - 1) = SubSeq(h, 1, k - 1)
    BY <2>1, PrefixOfAppend
  <2> QED
    BY <1>3, <2>1, <2>2
<1> QED
  BY <1>5, <1>6, <1>7 DEF Within

-----------------------------------------------------------------------------
\* Generator, recorded choices and those to be played back are numbers.
Numbers ==
    /\ IsGenerator(rand) /\ rest \in Seq(Nat)
    /\ \A e \in log : e.choices \in Seq(Nat)

\* What is drawn for a choice point is a number.
LEMMA DrawnIsNat ==
    ASSUME Numbers, NEW ceil \in Nat \ {0}, CanDraw(ceil)
    PROVE  Drawn(ceil) \in Nat
<1>1. CASE ~Regenerating
  BY <1>1, ValueIsNat DEF Numbers, Drawn
<1>2. CASE Regenerating /\ ceil = 1
  BY <1>2 DEF Drawn
<1>3. CASE Regenerating /\ ceil # 1
  <2>1. rest \in Seq(Nat) /\ rest # << >>
    BY <1>3 DEF Numbers, CanDraw
  <2>2. Head(rest) \in Nat
    BY <2>1, HeadTailProperties
  <2> QED
    BY <1>3, <2>2 DEF Drawn
<1> QED
  BY <1>1, <1>2, <1>3

\* Drawing a choice keeps the counters numbers.
LEMMA DrawNumbers ==
    ASSUME Numbers, NEW ceil \in Nat \ {0}, CanDraw(ceil), Draw(ceil), log' = log
    PROVE  Numbers'
<1>1. CASE ~Regenerating
  <2>1. rand' = EnumRandom(rand, ceil) /\ rest' = rest
    BY <1>1 DEF Draw
  <2>2. IsGenerator(rand')
    BY <2>1, DrawIsGenerator DEF Numbers
  <2> QED
    BY <2>1, <2>2 DEF Numbers
<1>2. CASE Regenerating
  <2>1. rand' = rand /\ rest' = IF ceil = 1 THEN rest ELSE Tail(rest)
    BY <1>2 DEF Draw
  <2>2. rest \in Seq(Nat) /\ (ceil # 1 => rest # << >>)
    BY <1>2 DEF Numbers, CanDraw
  <2>3. rest' \in Seq(Nat)
    BY <2>1, <2>2, HeadTailProperties
  <2> QED
    BY <2>1, <2>3 DEF Numbers
<1> QED
  BY <1>1, <1>2

\* Every step keeps the counters numbers.
LEMMA StepNumbers ==
    ASSUME Numbers, [Next]_vars
    PROVE  Numbers'
<1>0. MaxPoints \in Nat \ {0} /\ 2 \in Nat \ {0}
  BY ChoiceAssumption
<1>1. CASE PreChoose \/ Check
  <2>1. CanDraw(2) /\ Draw(2) /\ log' = log
    BY <1>1 DEF PreChoose, Check
  <2> QED
    BY <1>0, <2>1, DrawNumbers
<1>2. CASE SetCount
  <2>1. CanDraw(MaxPoints) /\ Draw(MaxPoints) /\ log' = log
    BY <1>2 DEF SetCount
  <2> QED
    BY <1>0, <2>1, DrawNumbers
<1>3. CASE PostUnfailed
  <2>1. rest' = rest /\ log' = log /\ (rand' = rand \/ rand' = SkipRest(rand))
    BY <1>3 DEF PostUnfailed
  <2>2. IsGenerator(rand')
    BY <2>1, SkipIsGenerator DEF Numbers
  <2> QED
    BY <2>1, <2>2 DEF Numbers
<1>4. CASE Again
  <2>1. rest' = rest /\ log' = log /\ (rand' = rand \/ (Repeats(rand) /\ rand' = Repeat(rand)))
    BY <1>4 DEF Again
  <2>2. IsGenerator(rand')
    BY <2>1, RepeatIsGenerator DEF Numbers
  <2> QED
    BY <2>1, <2>2 DEF Numbers
<1>5. CASE Regenerate
  BY <1>5 DEF Regenerate, Numbers
<1>6. CASE Return
  <2>1. rand' = rand /\ rest' = rest
    BY <1>6 DEF Return
  <2>2. rand.choices \in Seq(Nat)
    BY DEF Numbers, IsGenerator
  <2>3. \A e \in log' : e \in log \/ e.choices = rand.choices
    BY <1>6 DEF Return
  <2> QED
    BY <2>1, <2>2, <2>3 DEF Numbers
<1>7. CASE \/ Point \/ Disable \/ Enable \/ PostNothing \/ PostFailed \/ ReplayPanic
           \/ OtherPoint \/ OtherDisable \/ OtherEnable \/ UNCHANGED vars
  <2>1. rand' = rand /\ rest' = rest /\ log' = log
    BY <1>7 DEF Point, Disable, Enable, PostNothing, PostFailed, ReplayPanic,
                OtherPoint, OtherDisable, OtherEnable, vars, driver
  <2> QED
    BY <2>1 DEF Numbers
<1> QED
  BY <1>1, <1>2, <1>3, <1>4, <1>5, <1>6, <1>7 DEF Next

\* Every step keeps the record telling whether the call failed.
LEMMA StepTells ==
    ASSUME AllBracketed, Granted, Armed, Numbers, Telling, [Next]_vars
    PROVE  Telling'
<1>n. /\ hist \in Seq(0 .. 1)
      /\ prog[hist] \in {"call", "check", "skip", "end"} => ~InCall(prog, hist)
  BY NodeIsBracketed
<1>e. \A e \in {"call", "return", "off", "on", "check", "skip", "end"} \cup Cps :
         Event = e => pc = "run" /\ prog[hist] = e
  BY ChoiceAssumption DEF Event
<1>0. 0 \in 0 .. 1 /\ 1 \in 0 .. 1
  OBVIOUS
<1>1. CASE PreChoose
  <2>1. pc' = "run" => ~should'
    <3>1. CASE should'
      BY <1>1, <3>1 DEF PreChoose
    <3> QED
      BY <3>1
  <2> QED
    BY <2>1 DEF Telling
<1>2. CASE SetCount
  <2>1. Drawn(MaxPoints) \in Nat
    BY <1>2, DrawnIsNat, ChoiceAssumption DEF SetCount
  <2>2. fail' = SetChoice(Drawn(MaxPoints)) /\ nfail' = 0
    BY <1>2 DEF SetCount
  <2>3. fail'.armed /\ fail'.pass_count = Drawn(MaxPoints)
    BY <2>2 DEF SetChoice
  <2> QED
    BY <2>1, <2>2, <2>3 DEF Telling
<1>3. CASE Point
  <2>1. PICK r \in 0 .. 1 : Choose(Event, r) /\ Happened(r)
    BY <1>3 DEF Point
  <2>2. /\ prog' = prog /\ extra' = extra /\ hist' = Append(hist, r)
        /\ should' = should /\ pc' = pc
    BY <1>3, <2>1 DEF Point, env, Happened
  <2>3. pc = "run" /\ prog[hist] # "call"
    BY <1>3, <1>e, ChoiceAssumption DEF Point
  <2>4. InCall(prog', hist') => InCall(prog, hist)
    BY <2>2, <2>3, <1>n, NoNewCall DEF InCall
  <2>5. SUFFICES ASSUME should, InCall(prog, hist), extra = 0
                 PROVE  /\ fail'.armed /\ fail'.pass_count \in Int /\ fail'.pass_count >= -1
                        /\ nfail' = IF fail'.pass_count >= 0 THEN 0 ELSE 1
    BY <2>2, <2>4 DEF Telling
  <2>6. /\ fail.armed /\ fail.pass_count \in Int /\ fail.pass_count >= -1
        /\ nfail = IF fail.pass_count >= 0 THEN 0 ELSE 1
    BY <2>3, <2>5 DEF Telling
  <2> QED
    BY <2>1, <2>2, <2>5, <2>6, ChooseTells
<1>4. CASE Disable \/ Enable \/ Check
  <2>1. /\ prog' = prog /\ extra' = extra /\ fail' = fail /\ nfail' = nfail
        /\ should' = should /\ pc' = pc
        /\ hist' \in {Append(hist, 0), Append(hist, 1)}
    BY <1>4 DEF Disable, Enable, Check, env, kernel, Happened
  <2>2. pc = "run" /\ prog[hist] # "call"
    BY <1>4, <1>e DEF Disable, Enable, Check
  <2>3. InCall(prog', hist') => InCall(prog, hist)
    BY <2>1, <2>2, <1>n, <1>0, NoNewCall DEF InCall
  <2> QED
    BY <2>1, <2>3 DEF Telling
<1>5. CASE PostNothing \/ PostFailed \/ PostUnfailed
  <2>1. prog' = prog /\ hist' = Append(hist, 0)
    BY <1>5 DEF PostNothing, PostFailed, PostUnfailed, env, Happened
  <2>2. prog[hist] = "return"
    BY <1>5, <1>e DEF PostNothing, PostFailed, PostUnfailed
  <2>3. ~InCall(prog', hist')
    BY <2>1, <2>2, <1>n, <1>0, CallEnds DEF InCall
  <2> QED
    BY <2>3 DEF Telling
<1>6. CASE ReplayPanic \/ Return
  <2>1. pc' # "run"
    BY <1>6 DEF ReplayPanic, Return
  <2> QED
    BY <2>1 DEF Telling
<1>7. CASE Again \/ Regenerate
  <2>1. pc' # "run" \/ hist' = << >>
    BY <1>7 DEF Again, Regenerate
  <2>2. \A t : ~InCall(t, << >>)
    BY DEF InCall, Within
  <2> QED
    BY <2>1, <2>2 DEF Telling
<1>8. CASE OtherPoint
  <2>1. PICK cp, r : Choose(cp, r)
    BY <1>8 DEF OtherPoint
  <2>2. /\ prog' = prog /\ extra' = extra /\ hist' = hist
        /\ should' = should /\ pc' = pc
    BY <1>8 DEF OtherPoint, env, driver
  <2>5. SUFFICES ASSUME pc = "run", should, InCall(prog, hist), extra = 0
                 PROVE  /\ fail'.armed /\ fail'.pass_count \in Int /\ fail'.pass_count >= -1
                        /\ nfail' = IF fail'.pass_count >= 0 THEN 0 ELSE 1
    BY <2>2 DEF Telling
  <2>6. /\ fail.armed /\ fail.pass_count \in Int /\ fail.pass_count >= -1
        /\ nfail = IF fail.pass_count >= 0 THEN 0 ELSE 1
    BY <2>5 DEF Telling
  <2> QED
    BY <2>1, <2>2, <2>5, <2>6, ChooseTells
<1>9. CASE OtherDisable \/ OtherEnable \/ UNCHANGED vars
  <2>1. /\ prog' = prog /\ extra' = extra /\ fail' = fail /\ nfail' = nfail /\ hist' = hist
        /\ should' = should /\ pc' = pc
    BY <1>9 DEF OtherDisable, OtherEnable, vars, env, kernel, driver
  <2> QED
    BY <2>1 DEF Telling
<1> QED
  BY <1>1, <1>2, <1>3, <1>4, <1>5, <1>6, <1>7, <1>8, <1>9 DEF Next

\* What post_choose reads, in a step of any kind.
LEMMA PostReads ==
    ASSUME AllBracketed, Armed, Telling, extra = 0
    PROVE  (PostUnfailed => nfail = 0) /\ (PostFailed => nfail = 1)
<1>1. ASSUME Event = "return", should
      PROVE  /\ fail.pass_count >= 0 => nfail = 0
             /\ ~(fail.pass_count >= 0) => nfail = 1
  <2>1. pc = "run" /\ prog[hist] = "return"
    BY <1>1 DEF Event
  <2>2. InCall(prog, hist)
    BY <2>1, NodeIsBracketed
  <2> QED
    BY <1>1, <2>1, <2>2 DEF Telling
<1> QED
  BY <1>1 DEF PostUnfailed, PostFailed, Unfailed

\* When the transitions keep to the brackets, post_choose tells from the record
\* alone whether the call has failed, whatever other kernel threads have made
\* of the record, the search has drawn or a replay has played back.
THEOREM FailuresAreKnown ==
    ASSUME AllBracketed
    PROVE  Spec => KnowsFailures
<1> DEFINE I == Granted /\ Armed /\ Numbers /\ Telling
<1>1. Init => I
  <2>1. Init => Granted /\ Armed /\ Telling
    BY ChoiceAssumption DEF Init, Granted, Armed, Live, Telling
  <2>2. Init => Numbers
    BY ResetIsGenerator DEF Init, Numbers
  <2> QED
    BY <2>1, <2>2
<1>2. I /\ [Next]_vars => I'
  BY StepGrants, StepArmed, StepNumbers, StepTells
<1>3. I /\ [Next]_vars => [extra = 0 => /\ PostUnfailed => nfail = 0
                                        /\ PostFailed => nfail = 1]_vars
  BY PostReads
<1> QED
  BY <1>1, <1>2, <1>3, PTL DEF Spec, KnowsFailures

-----------------------------------------------------------------------------
(* An execution without other threads is a function of the choices it draws.  *)

\* What of the state decides how an execution with the choices c goes on when
\* it has used u of them: the record counts only in an armed call, and then
\* from the count that was drawn.
Conf(h, at, armed, gone, choice, x, over, u) ==
    [h |-> h, at |-> at, armed |-> armed, gone |-> gone, choice |-> choice, x |-> x,
     over |-> over, used |-> u]
Fresh(h, u) == Conf(h, "run", 0, 0, "any", 0, 0, u)
Target(c, u) == IF MaxPoints = 1 \/ u = 0 THEN 0 ELSE c[u]
InArms == debug = 1 /\ pc = "run"
Gone(c, u) == IF ~InArms THEN 0
              ELSE IF fail.pass_count < 0 THEN Target(c, u) ELSE Target(c, u) - fail.pass_count
Now(c, u) ==
    Conf(hist, pc, IF InArms THEN 1 ELSE 0, Gone(c, u),
         IF InArms THEN fail.choice ELSE "any",
         IF InArms THEN fail.extra_failures ELSE 0,
         IF InArms /\ fail.pass_count < 0 THEN 1 ELSE 0, u)

\* The ceiling of the next choice, 1 when there is none, its value, and how
\* many have been used then.
Ceil(t, s) == IF s.at = "count" THEN MaxPoints
              ELSE IF t[s.h] \in {"call", "check"} THEN 2 ELSE 1
Value(t, c, s) == IF Ceil(t, s) = 1 THEN 0 ELSE c[s.used + 1]
Consumed(t, s) == IF Ceil(t, s) = 1 THEN s.used ELSE s.used + 1

\* Whether the hook looks at the count.
Sees(t, s) == /\ s.armed = 1 /\ s.over = 0 /\ ~Disabled(t, s.h)
              /\ t[s.h] \in Cps /\ s.choice \in {"any", t[s.h]}

\* The step of an execution with the choices c and x extra failures.
After(t, x, c, s) ==
    IF s.at = "count" THEN Conf(Append(s.h, 0), "run", 1, 0, "any", x, 0, Consumed(t, s))
    ELSE IF t[s.h] = "call" /\ Value(t, c, s) # 0 THEN Conf(s.h, "count", 0, 0, "any", 0, 0, s.used + 1)
    ELSE IF t[s.h] \in {"call", "return"} THEN Fresh(Append(s.h, 0), Consumed(t, s))
    ELSE IF t[s.h] = "check" THEN Fresh(Append(s.h, IF Value(t, c, s) = 1 THEN 1 ELSE 0), s.used + 1)
    ELSE IF ~Sees(t, s)
        THEN Conf(Append(s.h, 0), s.at, s.armed, s.gone, s.choice, s.x, s.over, s.used)
    ELSE IF s.gone # Target(c, s.used)
        THEN Conf(Append(s.h, 0), s.at, s.armed, s.gone + 1, s.choice, s.x, s.over, s.used)
    ELSE IF s.x = 0 THEN Conf(Append(s.h, 1), s.at, s.armed, s.gone, s.choice, s.x, 1, s.used)
    ELSE Conf(Append(s.h, 1), s.at, s.armed, s.gone, t[s.h], s.x - 1, s.over, s.used)

Terminal(t, s) == s.at = "run" /\ t[s.h] \in {"end", "skip"}

\* f is an execution of n steps.
IsRun(t, x, c, f, n) ==
    /\ f[0] = Fresh(<< >>, 0)
    /\ \A i \in 0 .. (n - 1) : /\ ~Terminal(t, f[i])
                               /\ f[i + 1] = After(t, x, c, f[i])
                               /\ f[i + 1].used <= Len(c)

\* Two executions with the same choices agree as long as both last.
LEMMA RunsAgree ==
    ASSUME NEW t, NEW x, NEW c, NEW n \in Nat, NEW m \in Nat, NEW f, NEW g,
           IsRun(t, x, c, f, n), IsRun(t, x, c, g, m)
    PROVE  \A i \in Nat : i <= n /\ i <= m => f[i] = g[i]
<1> DEFINE S == {i \in Nat : i <= n /\ i <= m => f[i] = g[i]}
<1>1. 0 \in S
  BY DEF IsRun
<1>2. ASSUME NEW i \in Nat, i \in S PROVE i + 1 \in S
  <2>1. SUFFICES ASSUME i + 1 <= n, i + 1 <= m PROVE f[i + 1] = g[i + 1]
    OBVIOUS
  <2>2. i \in 0 .. (n - 1) /\ i \in 0 .. (m - 1) /\ f[i] = g[i]
    BY <1>2, <2>1
  <2> QED
    BY <2>2 DEF IsRun
<1> HIDE DEF S
<1>3. \A i \in Nat : i \in S
  BY <1>1, <1>2, Induction
<1> QED
  BY <1>3 DEF S

\* An execution that has ended has taken as many steps as any other with the
\* same choices, and one that has not takes the same steps as one that has.
LEMMA RunWithin ==
    ASSUME NEW t, NEW x, NEW c, NEW n \in Nat, NEW m \in Nat, NEW f, NEW g,
           IsRun(t, x, c, f, n), IsRun(t, x, c, g, m), Terminal(t, f[n])
    PROVE  /\ m <= n /\ f[m] = g[m]
           /\ ~Terminal(t, g[m]) => m < n
           /\ Terminal(t, g[m]) => m = n
<1>1. m <= n
  <2>1. SUFFICES ASSUME n < m PROVE FALSE
    OBVIOUS
  <2>2. g[n] = f[n] /\ n \in 0 .. (m - 1)
    BY <2>1, RunsAgree
  <2> QED
    BY <2>2 DEF IsRun
<1>2. f[m] = g[m]
  BY <1>1, RunsAgree
<1>3. m < n => ~Terminal(t, f[m])
  BY DEF IsRun
<1> QED
  BY <1>1, <1>2, <1>3

\* An execution of one step more.
More(f, n, s) == [i \in 0 .. (n + 1) |-> IF i = n + 1 THEN s ELSE f[i]]

\* Another step makes a longer execution.
LEMMA RunGoesOn ==
    ASSUME NEW t, NEW x, NEW c, NEW n \in Nat, NEW f, IsRun(t, x, c, f, n),
           ~Terminal(t, f[n]), After(t, x, c, f[n]).used <= Len(c)
    PROVE  /\ IsRun(t, x, c, More(f, n, After(t, x, c, f[n])), n + 1)
           /\ More(f, n, After(t, x, c, f[n]))[n + 1] = After(t, x, c, f[n])
           /\ \A i \in 0 .. n : More(f, n, After(t, x, c, f[n]))[i] = f[i]
<1> DEFINE s == After(t, x, c, f[n])
           g == More(f, n, s)
<1>1. g[n + 1] = s /\ \A i \in 0 .. n : g[i] = f[i]
  BY DEF More
<1> HIDE DEF g
<1>2. IsRun(t, x, c, g, n + 1)
  <2>1. g[0] = Fresh(<< >>, 0)
    BY <1>1 DEF IsRun
  <2>2. ASSUME NEW i \in 0 .. ((n + 1) - 1)
        PROVE  ~Terminal(t, g[i]) /\ g[i + 1] = After(t, x, c, g[i]) /\ g[i + 1].used <= Len(c)
    <3>1. CASE i = n
      BY <1>1, <3>1
    <3>2. CASE i # n
      <4>1. i \in 0 .. (n - 1) /\ i \in 0 .. n /\ i + 1 \in 0 .. n
        BY <3>2
      <4>2. g[i] = f[i] /\ g[i + 1] = f[i + 1]
        BY <1>1, <4>1
      <4> QED
        BY <4>1, <4>2 DEF IsRun
    <3> QED
      BY <3>1, <3>2
  <2> HIDE DEF s
  <2> QED
    BY <2>1, <2>2 DEF IsRun
<1> QED
  BY <1>1, <1>2 DEF g

\* An execution uses choices in turn.
LEMMA UsedGrows ==
    ASSUME NEW t, NEW x, NEW c, NEW s, s.used \in Nat
    PROVE  /\ After(t, x, c, s).used = Consumed(t, s)
           /\ Consumed(t, s) \in {s.used, s.used + 1} /\ Consumed(t, s) \in Nat
<1>1. Consumed(t, s) \in {s.used, s.used + 1} /\ Consumed(t, s) \in Nat
  BY DEF Consumed
<1>2. \A h : s.at # "count" /\ t[s.h] = "call" /\ Value(t, c, s) # 0 => Consumed(t, s) = s.used + 1
  BY DEF Consumed, Ceil
<1> QED
  BY <1>1, <1>2 DEF After, Fresh, Conf, Consumed, Ceil

\* What has been used at a step of an execution is used later.
LEMMA RunUses ==
    ASSUME NEW t, NEW x, NEW c, NEW n \in Nat, NEW f, IsRun(t, x, c, f, n)
    PROVE  \A k \in Nat : k <= n => \A i \in 0 .. k : f[i].used \in Nat /\ f[i].used <= f[k].used
<1> DEFINE S == {k \in Nat : k <= n => \A i \in 0 .. k : f[i].used \in Nat /\ f[i].used <= f[k].used}
<1>1. 0 \in S
  <2>1. f[0].used = 0
    BY DEF IsRun, Fresh, Conf
  <2> QED
    BY <2>1
<1>2. ASSUME NEW k \in Nat, k \in S PROVE k + 1 \in S
  <2>1. SUFFICES ASSUME k + 1 <= n
                 PROVE  \A i \in 0 .. (k + 1) : f[i].used \in Nat /\ f[i].used <= f[k + 1].used
    OBVIOUS
  <2>2. \A i \in 0 .. k : f[i].used \in Nat /\ f[i].used <= f[k].used
    BY <1>2, <2>1
  <2>3. f[k + 1] = After(t, x, c, f[k])
    BY <2>1 DEF IsRun
  <2>4. f[k].used \in Nat /\ f[k + 1].used \in Nat /\ f[k].used <= f[k + 1].used
    BY <2>2, <2>3, UsedGrows
  <2>5. ASSUME NEW i \in 0 .. (k + 1) PROVE f[i].used \in Nat /\ f[i].used <= f[k + 1].used
    <3>1. CASE i = k + 1
      BY <3>1, <2>4
    <3>2. CASE i # k + 1
      <4>1. f[i].used \in Nat /\ f[i].used <= f[k].used
        BY <2>2, <3>2
      <4> QED
        BY <2>4, <4>1
    <3> QED
      BY <3>1, <3>2
  <2> QED
    BY <2>5
<1> HIDE DEF S
<1>3. \A k \in Nat : k \in S
  BY <1>1, <1>2, Induction
<1> QED
  BY <1>3 DEF S

\* The choices that a step looks at.
LEMMA SameAfter ==
    ASSUME NEW t, NEW x, NEW c, NEW d, NEW s, s.used \in Nat,
           \A k \in 1 .. Consumed(t, s) : c[k] = d[k]
    PROVE  After(t, x, c, s) = After(t, x, d, s)
<1>1. Consumed(t, s) \in {s.used, s.used + 1}
  BY UsedGrows
<1>2. Value(t, c, s) = Value(t, d, s)
  BY DEF Value, Consumed
<1>3. Target(c, s.used) = Target(d, s.used)
  <2>1. s.used # 0 => s.used \in 1 .. Consumed(t, s)
    BY <1>1
  <2> QED
    BY <2>1 DEF Target
<1> QED
  BY <1>2, <1>3 DEF After

\* Choices that agree as far as they have been used lead to the same place.
LEMMA RunTransfers ==
    ASSUME NEW t, NEW x, NEW c, NEW d, NEW n \in Nat, NEW f, IsRun(t, x, c, f, n),
           f[n].used <= Len(d), Len(d) \in Nat, \A k \in 1 .. f[n].used : c[k] = d[k]
    PROVE  IsRun(t, x, d, f, n)
<1>0. \A i \in 0 .. n : f[i].used \in Nat /\ f[i].used <= f[n].used
  BY RunUses, SMTT(30)
<1>1. ASSUME NEW i \in 0 .. (n - 1)
      PROVE  ~Terminal(t, f[i]) /\ f[i + 1] = After(t, x, d, f[i]) /\ f[i + 1].used <= Len(d)
  <2>1. i \in 0 .. n /\ i + 1 \in 0 .. n
    OBVIOUS
  <2>2. ~Terminal(t, f[i]) /\ f[i + 1] = After(t, x, c, f[i])
    BY DEF IsRun
  <2>3. f[i].used \in Nat /\ f[i + 1].used \in Nat /\ f[i + 1].used <= f[n].used /\ f[n].used \in Nat
    BY <1>0, <2>1
  <2>4. f[i + 1].used = Consumed(t, f[i])
    BY <2>2, <2>3, UsedGrows
  <2>5. \A k \in 1 .. Consumed(t, f[i]) : c[k] = d[k]
    BY <2>3, <2>4, SMTT(30)
  <2>6. After(t, x, c, f[i]) = After(t, x, d, f[i])
    BY <2>3, <2>5, SameAfter
  <2> QED
    BY <2>2, <2>3, <2>6
<1>2. f[0] = Fresh(<< >>, 0)
  BY DEF IsRun
<1> QED
  BY <1>1, <1>2 DEF IsRun

-----------------------------------------------------------------------------
\* Without other threads choices are disabled where the transition does so, the
\* record of an armed call is valid, and a call that is to fail is armed.
Steady ==
    alone => /\ Possible(prog, hist)
             /\ off = IF Disabled(prog, hist) THEN 1 ELSE 0
             /\ pc \in {"ret", "done", "regenerated"} => prog[hist] \in {"end", "skip"}
             /\ InArms => fail.armed /\ fail.pass_count \in Int /\ fail.pass_count >= -1
             /\ pc = "run" /\ should /\ InCall(prog, hist) => debug = 1

AllPaired == \A t \in Programs : Paired(t)

\* A choice point in an execution without other threads.
LEMMA PointMoves ==
    ASSUME AllBracketed, Granted, Armed, Steady, alone, Point, NEW c, NEW u \in Nat,
           InArms => Target(c, u) \in Int
    PROVE  Now(c, u)' = After(prog, extra, c, Now(c, u))
<1>e. pc = "run" /\ prog[hist] \in Cps /\ Event = prog[hist]
  BY ChoiceAssumption DEF Point, Event
<1>n. prog[hist] \notin {"call", "return", "check", "off", "on", "end", "skip"}
  BY <1>e, ChoiceAssumption
<1>1. PICK r \in 0 .. 1 : Choose(prog[hist], r) /\ Happened(r)
  BY <1>e DEF Point
<1>2. /\ prog' = prog /\ extra' = extra /\ hist' = Append(hist, r)
      /\ debug' = debug /\ should' = should /\ pc' = pc
  BY <1>1 DEF Point, env, Happened
<1> DEFINE s == Now(c, u)
<1>3. /\ s.h = hist /\ s.at = "run" /\ s.armed = (IF InArms THEN 1 ELSE 0) /\ s.used = u
      /\ s.choice = (IF InArms THEN fail.choice ELSE "any")
      /\ s.x = (IF InArms THEN fail.extra_failures ELSE 0)
      /\ s.over = (IF InArms /\ fail.pass_count < 0 THEN 1 ELSE 0)
      /\ s.gone = Gone(c, u)
  BY <1>e DEF Now, Conf
<1>d. /\ DOMAIN fail = {"pass_count", "choice", "extra_failures", "armed"}
      /\ fail.extra_failures \in Nat
  BY DEF Granted
<1>4. Sees(prog, s) <=> Looks(prog[hist])
  <2>1. CASE InArms
    <3>1. fail.armed /\ fail.pass_count \in Int /\ (off = 0 <=> ~Disabled(prog, hist))
      BY <2>1 DEF Steady
    <3> QED
      BY <1>e, <1>3, <2>1, <3>1 DEF Sees, Looks
  <2>2. CASE ~InArms
    <3>1. ~Live
      BY <2>2 DEF Armed, InArms
    <3> QED
      BY <1>3, <2>2, <3>1 DEF Sees, Looks, Live
  <2> QED
    BY <2>1, <2>2
<1>i. InArms' <=> InArms
  BY <1>2 DEF InArms
<1>a. Sees(prog, s) => InArms /\ ~(fail.pass_count < 0) /\ fail.pass_count \in Int /\ Target(c, u) \in Int
  BY <1>3 DEF Sees, Steady
<1>g. Sees(prog, s) => s.gone = Target(c, u) - fail.pass_count
  BY <1>3, <1>a DEF Gone
<1>5. CASE ~Sees(prog, s)
  <2>1. r = 0 /\ fail' = fail
    BY <1>1, <1>4, <1>5 DEF Choose
  <2>2. After(prog, extra, c, s) = Conf(Append(hist, 0), "run", s.armed, s.gone, s.choice, s.x, s.over, u)
    BY <1>3, <1>5, <1>n DEF After
  <2>3. Gone(c, u)' = Gone(c, u)
    BY <1>i, <2>1 DEF Gone
  <2>4. Now(c, u)' = Conf(Append(hist, 0), "run", s.armed, s.gone, s.choice, s.x, s.over, u)
    BY <1>2, <1>e, <1>3, <1>i, <2>1, <2>3 DEF Now
  <2> QED
    BY <2>2, <2>4
<1>6. CASE Sees(prog, s) /\ s.gone # Target(c, u)
  <2>1. fail.pass_count # 0
    BY <1>g, <1>6, <1>a
  <2>2. r = 0 /\ fail' = Counted(fail)
    BY <1>1, <1>4, <1>6, <2>1 DEF Choose
  <2>3. /\ fail'.pass_count = fail.pass_count - 1 /\ fail'.choice = fail.choice
        /\ fail'.extra_failures = fail.extra_failures
    BY <1>d, <2>2 DEF Counted
  <2>4. After(prog, extra, c, s) = Conf(Append(hist, 0), "run", s.armed, s.gone + 1, s.choice, s.x, s.over, u)
    BY <1>3, <1>6, <1>n DEF After
  <2>5. ~(fail'.pass_count < 0) /\ Target(c, u) - fail'.pass_count = s.gone + 1
    BY <1>6, <1>a, <1>g, <2>1, <2>3
  <2>6. Gone(c, u)' = s.gone + 1
    BY <1>6, <1>i, <1>a, <2>5 DEF Gone
  <2>7. Now(c, u)' = Conf(Append(hist, 0), "run", s.armed, s.gone + 1, s.choice, s.x, s.over, u)
    BY <1>2, <1>e, <1>3, <1>6, <1>i, <1>a, <2>2, <2>3, <2>5, <2>6 DEF Now
  <2> QED
    BY <2>4, <2>7
<1>7. CASE Sees(prog, s) /\ s.gone = Target(c, u)
  <2>1. fail.pass_count = 0
    BY <1>g, <1>7, <1>a
  <2>2. r = 1 /\ fail' = Failed(fail, prog[hist])
    BY <1>1, <1>4, <1>7, <2>1 DEF Choose
  <2>3. CASE s.x = 0
    <3>1. fail.extra_failures = 0
      BY <1>3, <1>7, <1>a, <2>3
    <3>2. /\ fail'.pass_count = -1 /\ fail'.choice = fail.choice
          /\ fail'.extra_failures = fail.extra_failures
      BY <1>d, <2>2, <3>1 DEF Failed
    <3>3. After(prog, extra, c, s) = Conf(Append(hist, 1), "run", s.armed, s.gone, s.choice, s.x, 1, u)
      BY <1>3, <1>7, <1>n, <2>3 DEF After
    <3>4. fail'.pass_count < 0
      BY <3>2
    <3>5. Gone(c, u)' = s.gone
      BY <1>7, <1>i, <1>a, <3>4 DEF Gone
    <3>6. Now(c, u)' = Conf(Append(hist, 1), "run", s.armed, s.gone, s.choice, s.x, 1, u)
      BY <1>2, <1>e, <1>3, <1>7, <1>i, <1>a, <2>2, <3>2, <3>4, <3>5 DEF Now
    <3> QED
      BY <3>3, <3>6
  <2>4. CASE s.x # 0
    <3>1. fail.extra_failures # 0
      BY <1>3, <1>7, <1>a, <2>4
    <3>2. /\ fail'.pass_count = 0 /\ fail'.choice = prog[hist]
          /\ fail'.extra_failures = fail.extra_failures - 1
      BY <1>d, <2>1, <2>2, <3>1 DEF Failed
    <3>3. After(prog, extra, c, s) = Conf(Append(hist, 1), "run", s.armed, s.gone, prog[hist], s.x - 1, s.over, u)
      BY <1>3, <1>7, <1>n, <2>4 DEF After
    <3>4. ~(fail'.pass_count < 0) /\ Target(c, u) - fail'.pass_count = s.gone
      BY <1>7, <1>a, <3>2
    <3>5. Gone(c, u)' = s.gone
      BY <1>7, <1>i, <1>a, <3>4 DEF Gone
    <3>6. Now(c, u)' = Conf(Append(hist, 1), "run", s.armed, s.gone, prog[hist], s.x - 1, s.over, u)
      BY <1>2, <1>e, <1>3, <1>7, <1>i, <1>a, <2>2, <3>2, <3>4, <3>5 DEF Now
    <3> QED
      BY <3>3, <3>6
  <2> QED
    BY <2>3, <2>4
<1> QED
  BY <1>3, <1>5, <1>6, <1>7

\* What drives an execution.
Driven == \/ PreChoose \/ SetCount \/ Point \/ Disable \/ Enable
          \/ PostNothing \/ PostFailed \/ PostUnfailed \/ Check

\* A step of an execution without other threads is the step that its choices
\* determine.
LEMMA Moves ==
    ASSUME AllBracketed, Granted, Armed, Steady, alone, Driven, pc' # "panic",
           NEW c, NEW u \in Nat, NEW v \in Nat, v = Consumed(prog, Now(c, u)),
           Ceil(prog, Now(c, u)) # 1 => Drawn(Ceil(prog, Now(c, u))) = c[u + 1] /\ c[u + 1] \in Nat,
           Ceil(prog, Now(c, u)) = 1 => Drawn(1) = 0,
           InArms => Target(c, u) \in Int
    PROVE  /\ Now(c, v)' = After(prog, extra, c, Now(c, u))
           /\ ~Terminal(prog, Now(c, u))
<1> DEFINE s == Now(c, u)
<1>e. \A e \in {"call", "return", "off", "on", "check", "skip", "end"} \cup Cps :
         Event = e => pc = "run" /\ prog[hist] = e
  BY ChoiceAssumption DEF Event
<1>3. s.h = hist /\ s.at = pc /\ s.used = u /\ s.armed = (IF InArms THEN 1 ELSE 0)
  BY DEF Now, Conf
<1>m. MaxPoints \in Nat \ {0} /\ Cps \cap {"none", "any", "call", "return", "off", "on", "check", "skip", "end"} = {}
  BY ChoiceAssumption
<1>u. ASSUME ~InArms', pc' = "run" PROVE Now(c, v)' = Fresh(hist', v)
  BY <1>u DEF Now, Fresh, Gone
<1>1. CASE PreChoose
  <2>1. pc = "run" /\ prog[hist] = "call" /\ debug = 0
    BY <1>1, <1>e, NothingArmed DEF PreChoose
  <2>2. Ceil(prog, s) = 2 /\ v = u + 1 /\ Value(prog, c, s) = c[u + 1]
    BY <1>3, <2>1 DEF Ceil, Consumed, Value
  <2>3. prog' = prog /\ should' = (c[u + 1] # 0) /\ Drawn(2) = c[u + 1]
    BY <1>1, <2>2 DEF PreChoose, env
  <2>4. CASE should'
    <3>1. pc' = "count" /\ hist' = hist
      BY <1>1, <2>1, <2>4 DEF PreChoose
    <3>2. After(prog, extra, c, s) = Conf(hist, "count", 0, 0, "any", 0, 0, v)
      BY <1>3, <2>1, <2>2, <2>3, <2>4 DEF After
    <3>3. ~InArms'
      BY <3>1 DEF InArms
    <3>4. Now(c, v)' = Conf(hist, "count", 0, 0, "any", 0, 0, v)
      BY <3>1, <3>3 DEF Now, Gone
    <3> QED
      BY <1>3, <2>1, <3>2, <3>4 DEF Terminal
  <2>5. CASE ~should'
    <3>1. pc' = "run" /\ hist' = Append(hist, 0) /\ ~InArms'
      BY <1>1, <2>1, <2>5 DEF PreChoose, Happened, InArms
    <3>2. After(prog, extra, c, s) = Fresh(Append(hist, 0), v)
      BY <1>3, <2>1, <2>2, <2>3, <2>5 DEF After
    <3> QED
      BY <1>3, <1>u, <2>1, <3>1, <3>2 DEF Terminal
  <2> QED
    BY <2>4, <2>5
<1>2. CASE SetCount
  <2>1. /\ pc = "count" /\ pc' = "run" /\ hist' = Append(hist, 0) /\ debug' = debug
        /\ fail' = SetChoice(Drawn(MaxPoints))
    BY <1>2 DEF SetCount, Happened
  <2>2. Ceil(prog, s) = MaxPoints
    BY <1>3, <2>1 DEF Ceil
  <2>3. InArms'
    BY <2>1 DEF Armed, InArms
  <2>4. Drawn(MaxPoints) = Target(c, v) /\ Target(c, v) \in Nat
    <3>1. CASE MaxPoints = 1
      BY <2>2, <3>1 DEF Target
    <3>2. CASE MaxPoints # 1
      <4>1. v = u + 1 /\ v # 0
        BY <1>3, <2>2, <3>2 DEF Consumed
      <4> QED
        BY <2>2, <3>2, <4>1 DEF Target
    <3> QED
      BY <3>1, <3>2
  <2>5. fail'.pass_count = Target(c, v) /\ fail'.choice = "any" /\ fail'.extra_failures = extra
    BY <2>1, <2>4 DEF SetChoice
  <2>6. ~(fail'.pass_count < 0) /\ Target(c, v) - fail'.pass_count = 0
    BY <2>4, <2>5
  <2>7. After(prog, extra, c, s) = Conf(Append(hist, 0), "run", 1, 0, "any", extra, 0, v)
    BY <1>3, <2>1 DEF After
  <2>8. Now(c, v)' = Conf(Append(hist, 0), "run", 1, 0, "any", extra, 0, v)
    BY <2>1, <2>3, <2>5, <2>6 DEF Now, Gone
  <2> QED
    BY <1>3, <2>1, <2>7, <2>8 DEF Terminal
<1>4. CASE Point
  <2>1. pc = "run" /\ prog[hist] \in Cps
    BY <1>4, <1>e DEF Point
  <2>2. v = u
    BY <1>3, <1>m, <2>1 DEF Consumed, Ceil
  <2> QED
    BY <1>3, <1>4, <1>m, <2>1, <2>2, PointMoves DEF Terminal
<1>5. CASE Disable \/ Enable
  <2>1. pc = "run" /\ prog[hist] \in {"off", "on"}
    BY <1>5, <1>e DEF Disable, Enable
  <2>2. v = u
    BY <1>3, <2>1 DEF Consumed, Ceil
  <2>3. hist' = Append(hist, 0) /\ pc' = pc /\ debug' = debug /\ fail' = fail
    BY <1>5 DEF Disable, Enable, Happened
  <2>4. ~Sees(prog, s)
    BY <1>3, <1>m, <2>1 DEF Sees
  <2>5. After(prog, extra, c, s) = Conf(Append(hist, 0), "run", s.armed, s.gone, s.choice, s.x, s.over, u)
    BY <1>3, <2>1, <2>4 DEF After
  <2>i. InArms' <=> InArms
    BY <2>3 DEF InArms
  <2>g. Gone(c, v)' = Gone(c, u)
    BY <2>2, <2>3, <2>i DEF Gone
  <2>s. /\ s.choice = (IF InArms THEN fail.choice ELSE "any")
        /\ s.x = (IF InArms THEN fail.extra_failures ELSE 0)
        /\ s.over = (IF InArms /\ fail.pass_count < 0 THEN 1 ELSE 0)
        /\ s.gone = Gone(c, u)
    BY DEF Now, Conf
  <2>6. Now(c, v)' = Conf(Append(hist, 0), "run", s.armed, s.gone, s.choice, s.x, s.over, u)
    BY <1>3, <2>1, <2>2, <2>3, <2>i, <2>g, <2>s DEF Now
  <2> QED
    BY <1>3, <2>1, <2>5, <2>6 DEF Terminal
<1>6. CASE PostNothing \/ PostFailed \/ PostUnfailed
  <2>1. pc = "run" /\ prog[hist] = "return"
    BY <1>6, <1>e DEF PostNothing, PostFailed, PostUnfailed
  <2>2. v = u
    BY <1>3, <2>1 DEF Consumed, Ceil
  <2>3. hist' = Append(hist, 0) /\ pc' = "run"
    BY <1>6, <2>1 DEF PostNothing, PostFailed, PostUnfailed, Happened
  <2>4. debug' # 1
    BY <1>6, <2>1 DEF PostNothing, PostFailed, PostUnfailed, FlagReset, Armed
  <2>5. After(prog, extra, c, s) = Fresh(Append(hist, 0), v)
    BY <1>3, <2>1, <2>2 DEF After, Consumed, Ceil
  <2> QED
    BY <1>3, <1>u, <2>1, <2>3, <2>4, <2>5 DEF Terminal, InArms
<1>7. CASE Check
  <2>1. pc = "run" /\ prog[hist] = "check" /\ debug = 0
    BY <1>7, <1>e, NothingArmed DEF Check
  <2>2. Ceil(prog, s) = 2 /\ v = u + 1 /\ Value(prog, c, s) = c[u + 1]
    BY <1>3, <2>1 DEF Ceil, Consumed, Value
  <2>3. pc' = "run" /\ ~InArms' /\ hist' = Append(hist, IF c[u + 1] = 1 THEN 1 ELSE 0)
    BY <1>7, <2>1, <2>2 DEF Check, Happened, InArms
  <2>4. After(prog, extra, c, s) = Fresh(Append(hist, IF c[u + 1] = 1 THEN 1 ELSE 0), v)
    BY <1>3, <2>1, <2>2 DEF After
  <2> QED
    BY <1>3, <1>u, <2>1, <2>3, <2>4 DEF Terminal
<1> QED
  BY <1>1, <1>2, <1>4, <1>5, <1>6, <1>7 DEF Driven

-----------------------------------------------------------------------------
\* Where choices are disabled after another event ...
LEMMA DisabledNext ==
    ASSUME NEW t, NEW h \in Seq(0 .. 1), NEW x \in 0 .. 1
    PROVE  /\ t[h] = "off" => Disabled(t, Append(h, x))
           /\ t[h] = "on" => ~Disabled(t, Append(h, x))
           /\ t[h] \notin {"off", "on"} => (Disabled(t, Append(h, x)) <=> Disabled(t, h))
<1>1. t[h] = "off" => Disabled(t, Append(h, x))
  BY CallBegins DEF Disabled
<1>2. t[h] = "on" => ~Disabled(t, Append(h, x))
  BY CallEnds DEF Disabled
<1>3. t[h] # "on" /\ Disabled(t, h) => Disabled(t, Append(h, x))
  BY CallGoesOn DEF Disabled
<1>4. t[h] # "off" /\ Disabled(t, Append(h, x)) => Disabled(t, h)
  BY NoNewCall DEF Disabled
<1> QED
  BY <1>1, <1>2, <1>3, <1>4

\* ... and that nothing has failed there.
LEMMA PossibleNext ==
    ASSUME NEW t, NEW h \in Seq(0 .. 1), NEW x \in 0 .. 1, Possible(t, h),
           t[h] \in Cps /\ x = 1 => ~Disabled(t, h)
    PROVE  Possible(t, Append(h, x))
<1> DEFINE g == Append(h, x)
<1>1. g \in Seq(0 .. 1) /\ Len(g) = Len(h) + 1 /\ Len(h) \in Nat /\ g[Len(h) + 1] = x
      /\ \A i \in 1 .. Len(h) : g[i] = h[i]
  BY AppendProperties, LenProperties
<1>2. \A n \in 0 .. Len(h) : SubSeq(g, 1, n) = SubSeq(h, 1, n)
  BY PrefixOfAppend
<1>3. SubSeq(h, 1, Len(h)) = h
  BY SubSeqFull
<1> HIDE DEF g
<1>4. ASSUME NEW i \in 1 .. Len(g), t[SubSeq(g, 1, i - 1)] \in Cps, g[i] = 1
      PROVE  ~Disabled(t, SubSeq(g, 1, i - 1))
  <2>1. i - 1 \in 0 .. Len(h)
    BY <1>1
  <2>2. SubSeq(g, 1, i - 1) = SubSeq(h, 1, i - 1)
    BY <1>2, <2>1
  <2>3. CASE i = Len(h) + 1
    <3>1. i - 1 = Len(h) /\ g[i] = x
      BY <1>1, <2>3
    <3>2. SubSeq(g, 1, i - 1) = h
      BY <1>3, <2>2, <3>1
    <3> QED
      BY <1>4, <3>1, <3>2
  <2>4. CASE i # Len(h) + 1
    <3>1. i \in 1 .. Len(h)
      BY <1>1, <2>4
    <3>2. g[i] = h[i]
      BY <1>1, <3>1
    <3> QED
      BY <1>4, <2>2, <3>1, <3>2 DEF Possible
  <2> QED
    BY <2>3, <2>4
<1> QED
  BY <1>4 DEF Possible, g

\* Every step keeps the record and the disabled regions in order.
LEMMA StepSteady ==
    ASSUME AllBracketed, AllPaired, Granted, Armed, Numbers, Steady, [Next]_vars
    PROVE  Steady'
<1>n. /\ hist \in Seq(0 .. 1) /\ 0 \in 0 .. 1 /\ 1 \in 0 .. 1
      /\ prog[hist] \in {"call", "check", "skip", "end"} => ~InCall(prog, hist)
  BY NodeIsBracketed
<1>e. \A e \in {"call", "return", "off", "on", "check", "skip", "end"} \cup Cps :
         Event = e => pc = "run" /\ prog[hist] = e
  BY ChoiceAssumption DEF Event
<1>a. alone' = alone
  BY DEF Next, PreChoose, SetCount, Point, Disable, Enable, PostNothing, PostFailed, PostUnfailed,
         Check, ReplayPanic, Return, Again, Regenerate, OtherPoint, OtherDisable, OtherEnable, vars, env
<1>s. SUFFICES ASSUME alone
               PROVE  /\ Possible(prog', hist')
                      /\ off' = IF Disabled(prog', hist') THEN 1 ELSE 0
                      /\ pc' \in {"ret", "done", "regenerated"} => prog'[hist'] \in {"end", "skip"}
                      /\ InArms' => fail'.armed /\ fail'.pass_count \in Int /\ fail'.pass_count >= -1
                      /\ pc' = "run" /\ should' /\ InCall(prog', hist') => debug' = 1
  BY <1>a DEF Steady
<1>f. /\ Possible(prog, hist)
      /\ off = IF Disabled(prog, hist) THEN 1 ELSE 0
      /\ pc \in {"ret", "done", "regenerated"} => prog[hist] \in {"end", "skip"}
      /\ InArms => fail.armed /\ fail.pass_count \in Int /\ fail.pass_count >= -1
      /\ pc = "run" /\ should /\ InCall(prog, hist) => debug = 1
  BY <1>s DEF Steady
<1>p. /\ prog[hist] \in {"off", "skip", "end"} => ~Disabled(prog, hist)
      /\ prog[hist] = "on" => Disabled(prog, hist)
  BY <1>f DEF AllPaired, Armed, Paired
<1>d. /\ DOMAIN fail = {"pass_count", "choice", "extra_failures", "armed"}
      /\ fail.extra_failures \in Nat
  BY DEF Granted
\* An event that is neither a choice point nor disables or enables choices.
<1>q. ASSUME prog' = prog, off' = off, NEW r \in 0 .. 1, hist' = Append(hist, r),
             prog[hist] \notin Cps \cup {"off", "on"}
      PROVE  Possible(prog', hist') /\ off' = IF Disabled(prog', hist') THEN 1 ELSE 0
  <2>1. Possible(prog, Append(hist, r))
    BY <1>q, <1>n, <1>f, PossibleNext
  <2>2. Disabled(prog, Append(hist, r)) <=> Disabled(prog, hist)
    BY <1>q, <1>n, DisabledNext
  <2> QED
    BY <1>q, <1>f, <2>1, <2>2
<1>c. \A e \in {"call", "return", "off", "on", "check", "skip", "end"} : e \notin Cps
  BY ChoiceAssumption
<1>1. CASE PreChoose
  <2>1. pc = "run" /\ prog[hist] = "call" /\ debug = 0
    BY <1>1, <1>e, NothingArmed DEF PreChoose
  <2>2. prog' = prog /\ off' = off /\ fail' = fail
    BY <1>1 DEF PreChoose, env, kernel
  <2>3. CASE should'
    <3>1. pc' = "count" /\ hist' = hist
      BY <1>1, <2>1, <2>3 DEF PreChoose
    <3> QED
      BY <1>f, <2>2, <3>1 DEF InArms
  <2>4. CASE ~should'
    <3>1. pc' = "run" /\ hist' = Append(hist, 0) /\ debug' = 0
      BY <1>1, <2>1, <2>4 DEF PreChoose, Happened
    <3>2. Possible(prog', hist') /\ off' = IF Disabled(prog', hist') THEN 1 ELSE 0
      BY <1>q, <1>n, <1>c, <2>1, <2>2, <3>1
    <3> QED
      BY <2>4, <3>1, <3>2 DEF InArms
  <2> QED
    BY <2>3, <2>4
<1>2. CASE SetCount
  <2>1. /\ prog' = prog /\ off' = off /\ hist' = Append(hist, 0) /\ pc = "count" /\ pc' = "run"
        /\ debug' = debug /\ fail' = SetChoice(Drawn(MaxPoints))
    BY <1>2 DEF SetCount, env, Happened
  <2>2. prog[hist] = "call" /\ debug = 1
    BY <2>1 DEF Armed
  <2>3. Drawn(MaxPoints) \in Nat
    BY <1>2, DrawnIsNat, ChoiceAssumption DEF SetCount
  <2>4. Possible(prog', hist') /\ off' = IF Disabled(prog', hist') THEN 1 ELSE 0
    BY <1>q, <1>n, <1>c, <2>1, <2>2
  <2>5. fail'.armed /\ fail'.pass_count \in Int /\ fail'.pass_count >= -1
    BY <2>1, <2>3 DEF SetChoice
  <2> QED
    BY <2>1, <2>2, <2>4, <2>5
<1>3. CASE Point
  <2>1. PICK r \in 0 .. 1 : Choose(Event, r) /\ Happened(r)
    BY <1>3 DEF Point
  <2>2. /\ prog' = prog /\ hist' = Append(hist, r) /\ off' = off
        /\ debug' = debug /\ should' = should /\ pc' = pc
    BY <1>3, <2>1 DEF Point, env, Happened, Choose
  <2>3. pc = "run" /\ prog[hist] \in Cps
    BY <1>3, <1>e DEF Point
  <2>4. r = 1 => ~Disabled(prog, hist)
    BY <2>1, <1>f DEF Choose, Looks
  <2>5. Possible(prog', hist')
    BY <1>n, <1>f, <2>2, <2>4, PossibleNext
  <2>6. Disabled(prog', hist') <=> Disabled(prog, hist)
    BY <1>n, <1>c, <2>2, <2>3, DisabledNext
  <2>7. ASSUME InArms'
        PROVE  fail'.armed /\ fail'.pass_count \in Int /\ fail'.pass_count >= -1
    <3>1. fail.armed /\ fail.pass_count \in Int /\ fail.pass_count >= -1
      BY <1>f, <2>2, <2>7 DEF InArms
    <3>2. CASE ~Looks(Event)
      BY <2>1, <3>1, <3>2 DEF Choose
    <3>3. CASE Looks(Event) /\ r = 1
      <4>1. fail' = Failed(fail, Event)
        BY <2>1, <3>3 DEF Choose
      <4> QED
        BY <1>d, <3>1, <4>1 DEF Failed
    <3>4. CASE Looks(Event) /\ r # 1
      <4>1. fail' = Counted(fail) /\ fail.pass_count # 0 /\ fail.pass_count >= 0
        BY <2>1, <3>4 DEF Choose, Looks
      <4> QED
        BY <1>d, <3>1, <4>1 DEF Counted
    <3> QED
      BY <3>2, <3>3, <3>4
  <2>8. InCall(prog', hist') => InCall(prog, hist)
    BY <1>n, <1>c, <2>2, <2>3, NoNewCall DEF InCall
  <2> QED
    BY <1>f, <2>2, <2>3, <2>5, <2>6, <2>7, <2>8
<1>4. CASE Disable \/ Enable
  <2>1. /\ prog' = prog /\ fail' = fail /\ hist' = Append(hist, 0)
        /\ debug' = debug /\ should' = should /\ pc' = pc
    BY <1>4 DEF Disable, Enable, env, Happened
  <2>2. pc = "run" /\ prog[hist] \in {"off", "on"}
    BY <1>4, <1>e DEF Disable, Enable
  <2>3. Possible(prog', hist')
    BY <1>n, <1>f, <1>c, <2>1, <2>2, PossibleNext
  <2>4. off' = IF Disabled(prog', hist') THEN 1 ELSE 0
    <3>1. CASE Disable
      <4>1. prog[hist] = "off" /\ off' = off + 1
        BY <3>1, <1>e DEF Disable
      <4>2. Disabled(prog', hist') /\ off = 0
        BY <1>n, <1>f, <1>p, <2>1, <4>1, DisabledNext
      <4> QED
        BY <4>1, <4>2
    <3>2. CASE Enable
      <4>1. prog[hist] = "on" /\ off' = off - 1
        BY <3>2, <1>e DEF Enable
      <4>2. ~Disabled(prog', hist') /\ off = 1
        BY <1>n, <1>f, <1>p, <2>1, <4>1, DisabledNext
      <4> QED
        BY <4>1, <4>2
    <3> QED
      BY <1>4, <3>1, <3>2
  <2>5. InCall(prog', hist') => InCall(prog, hist)
    BY <1>n, <2>1, <2>2, NoNewCall DEF InCall
  <2>6. InArms' <=> InArms
    BY <2>1 DEF InArms
  <2> QED
    BY <1>f, <2>1, <2>2, <2>3, <2>4, <2>5, <2>6
<1>5. CASE PostNothing \/ PostFailed \/ PostUnfailed
  <2>1. prog' = prog /\ off' = off /\ hist' = Append(hist, 0) /\ pc' \in {pc, "panic"}
    BY <1>5 DEF PostNothing, PostFailed, PostUnfailed, env, kernel, Happened
  <2>2. pc = "run" /\ prog[hist] = "return"
    BY <1>5, <1>e DEF PostNothing, PostFailed, PostUnfailed
  <2>3. ~InCall(prog', hist')
    BY <2>1, <2>2, <1>n, CallEnds DEF InCall
  <2>4. Possible(prog', hist') /\ off' = IF Disabled(prog', hist') THEN 1 ELSE 0
    BY <1>q, <1>n, <1>c, <2>1, <2>2
  <2>5. debug' # 1
    BY <1>5, <2>2 DEF PostNothing, PostFailed, PostUnfailed, FlagReset, Armed
  <2> QED
    BY <2>1, <2>2, <2>3, <2>4, <2>5 DEF InArms
<1>6. CASE Check
  <2>1. pc = "run" /\ prog[hist] = "check" /\ debug = 0
    BY <1>6, <1>e, NothingArmed DEF Check
  <2>2. /\ prog' = prog /\ off' = off /\ debug' = debug /\ pc' = pc /\ should' = should
        /\ hist' = Append(hist, IF Drawn(2) = 1 THEN 1 ELSE 0)
    BY <1>6 DEF Check, env, kernel, Happened
  <2>3. Possible(prog', hist') /\ off' = IF Disabled(prog', hist') THEN 1 ELSE 0
    BY <1>q, <1>n, <1>c, <2>1, <2>2
  <2>4. InCall(prog', hist') => InCall(prog, hist)
    BY <1>n, <2>1, <2>2, NoNewCall DEF InCall
  <2> QED
    BY <1>n, <2>1, <2>2, <2>3, <2>4 DEF InArms
<1>7. CASE ReplayPanic \/ Return
  <2>1. /\ prog' = prog /\ off' = off /\ hist' = hist
        /\ pc' \in {"panic", "regenerated", "ret"}
        /\ pc' # "panic" => Return
    BY <1>7 DEF ReplayPanic, Return, env, kernel
  <2>2. pc' # "panic" => prog[hist] \in {"end", "skip"}
    BY <1>e, <2>1 DEF Return
  <2> QED
    BY <1>f, <2>1, <2>2 DEF InArms
<1>8. CASE Again \/ Regenerate
  <2>1. /\ prog' = prog /\ off' = off /\ pc \in {"ret", "done"} /\ debug' = debug
        /\ \/ pc' = "done" /\ hist' = hist
           \/ pc' = "run" /\ hist' = << >>
    BY <1>8 DEF Again, Regenerate, env, kernel
  <2>2. off = 0 /\ debug # 1
    BY <1>f, <1>p, <2>1 DEF Armed
  <2>3. \A t : Possible(t, << >>) /\ ~Disabled(t, << >>) /\ ~InCall(t, << >>)
    BY DEF Possible, Disabled, InCall, Within
  <2> QED
    BY <1>f, <2>1, <2>2, <2>3 DEF InArms
<1>9. CASE UNCHANGED vars
  BY <1>9, <1>f DEF vars, env, kernel, driver, InArms
<1> QED
  BY <1>s, <1>1, <1>2, <1>3, <1>4, <1>5, <1>6, <1>7, <1>8, <1>9
  DEF Next, OtherPoint, OtherDisable, OtherEnable, Other

-----------------------------------------------------------------------------
\* What random() of the search does to the list of choices.
LEMMA EnumDraws ==
    ASSUME NEW r, IsGenerator(r), NEW ceil \in Nat \ {0}
    PROVE  /\ EnumRandom(r, ceil).choices \in Seq(Nat)
           /\ Len(r.choices) <= Len(EnumRandom(r, ceil).choices)
           /\ \A k \in 1 .. Len(r.choices) : EnumRandom(r, ceil).choices[k] = r.choices[k]
           /\ ceil = 1 => EnumRandom(r, ceil).cur = r.cur /\ EnumValue(r, ceil) = 0
           /\ ceil # 1 => /\ EnumRandom(r, ceil).cur = r.cur + 1
                          /\ r.cur + 1 <= Len(EnumRandom(r, ceil).choices)
                          /\ EnumRandom(r, ceil).choices[r.cur + 1] = EnumValue(r, ceil)
           /\ r.cur < Len(r.choices) => EnumRandom(r, ceil).choices = r.choices
           /\ ceil # 1 /\ r.cur = Len(r.choices) =>
                /\ EnumRandom(r, ceil).choices = Append(r.choices, 0) /\ EnumValue(r, ceil) = 0
                /\ EnumRandom(r, ceil).ceils = Append(r.ceils, ceil)
<1>0. /\ r.choices \in Seq(Nat) /\ r.ceils \in Seq(Nat) /\ r.cur \in Nat
      /\ Len(r.choices) \in Nat /\ Len(r.ceils) = Len(r.choices) /\ r.cur <= Len(r.choices)
  BY DEF IsGenerator
<1>1. CASE ceil = 1
  BY <1>0, <1>1 DEF EnumRandom, EnumValue
<1>2. CASE ceil # 1 /\ r.cur < Len(r.choices)
  <2>1. EnumRandom(r, ceil).choices = r.choices /\ EnumRandom(r, ceil).cur = r.cur + 1
    BY <1>0, <1>2 DEF EnumRandom
  <2>2. EnumValue(r, ceil) = r.choices[r.cur + 1]
    BY <1>0, <1>2 DEF EnumValue
  <2> QED
    BY <1>0, <1>2, <2>1, <2>2
<1>3. CASE ceil # 1 /\ r.cur = Len(r.choices)
  <2>1. /\ EnumRandom(r, ceil).choices = Append(r.choices, 0) /\ EnumRandom(r, ceil).cur = r.cur + 1
        /\ EnumRandom(r, ceil).ceils = Append(r.ceils, ceil)
    BY <1>0, <1>3 DEF EnumRandom
  <2>2. EnumValue(r, ceil) = 0
    BY <1>0, <1>3 DEF EnumValue
  <2>3. /\ Append(r.choices, 0) \in Seq(Nat) /\ Len(Append(r.choices, 0)) = Len(r.choices) + 1
        /\ Append(r.choices, 0)[Len(r.choices) + 1] = 0
        /\ \A k \in 1 .. Len(r.choices) : Append(r.choices, 0)[k] = r.choices[k]
    BY <1>0, AppendProperties
  <2> QED
    BY <1>0, <1>3, <2>1, <2>2, <2>3
<1> QED
  BY <1>0, <1>1, <1>2, <1>3

\* The place of an execution does not depend on choices it has not used.
LEMMA NowSame ==
    ASSUME NEW c, NEW d, NEW u \in Nat, \A k \in 1 .. u : c[k] = d[k]
    PROVE  Now(c, u) = Now(d, u)
<1>1. u # 0 => u \in 1 .. u
  OBVIOUS
<1>2. Target(c, u) = Target(d, u)
  BY <1>1 DEF Target
<1>3. Gone(c, u) = Gone(d, u)
  BY <1>2 DEF Gone
<1> QED
  BY <1>3 DEF Now

\* The count that an armed call is to reach is a number.
LEMMA TargetIsNat ==
    ASSUME NEW c \in Seq(Nat), NEW u \in 0 .. Len(c)
    PROVE  Target(c, u) \in Nat
<1>1. u # 0 => u \in 1 .. Len(c)
  OBVIOUS
<1>2. u # 0 => c[u] \in Nat
  BY <1>1, ElementOfSeq
<1> QED
  BY <1>2 DEF Target

\* What a step of the checked program draws.
LEMMA DrivenDraws ==
    ASSUME Armed, Driven, ~PostUnfailed, NEW c, NEW u, NEW s, s = Now(c, u)
    PROVE  /\ Ceil(prog, s) \in Nat \ {0}
           /\ log' = log /\ goal' = goal /\ prog' = prog /\ extra' = extra /\ alone' = alone
           /\ skipped' = skipped
           /\ CanDraw(Ceil(prog, s))
           /\ Regenerating => /\ rand' = rand
                              /\ Ceil(prog, s) = 1 => rest' = rest /\ Drawn(1) = 0
                              /\ Ceil(prog, s) # 1 => rest' = Tail(rest) /\ Drawn(Ceil(prog, s)) = Head(rest)
           /\ ~Regenerating => /\ rest' = rest
                               /\ Drawn(Ceil(prog, s)) = EnumValue(rand, Ceil(prog, s))
                               /\ rand' = EnumRandom(rand, Ceil(prog, s))
<1>e. \A e \in {"call", "return", "off", "on", "check", "skip", "end"} \cup Cps :
         Event = e => pc = "run" /\ prog[hist] = e
  BY ChoiceAssumption DEF Event
<1>3. s.h = hist /\ s.at = pc
  BY DEF Now, Conf
<1>m. MaxPoints \in Nat \ {0} /\ Cps \cap {"none", "any", "call", "return", "off", "on", "check", "skip", "end"} = {}
  BY ChoiceAssumption
<1>r. EnumRandom(rand, 1) = rand
  BY DEF EnumRandom
<1>1. CASE PreChoose \/ Check
  <2>1. pc = "run" /\ prog[hist] \in {"call", "check"}
    BY <1>1, <1>e DEF PreChoose, Check
  <2>2. Ceil(prog, s) = 2
    BY <1>3, <2>1 DEF Ceil
  <2>3. CanDraw(2) /\ Draw(2)
    BY <1>1 DEF PreChoose, Check
  <2>4. log' = log /\ goal' = goal /\ prog' = prog /\ extra' = extra /\ alone' = alone /\ skipped' = skipped
    BY <1>1 DEF PreChoose, Check, env
  <2> QED
    BY <2>2, <2>3, <2>4 DEF Draw, Drawn
<1>2. CASE SetCount
  <2>1. pc = "count" /\ CanDraw(MaxPoints) /\ Draw(MaxPoints)
    BY <1>2 DEF SetCount
  <2>2. Ceil(prog, s) = MaxPoints
    BY <1>3, <2>1 DEF Ceil
  <2>3. log' = log /\ goal' = goal /\ prog' = prog /\ extra' = extra /\ alone' = alone /\ skipped' = skipped
    BY <1>2 DEF SetCount, env
  <2> QED
    BY <1>m, <2>1, <2>2, <2>3 DEF Draw, Drawn
<1>4. CASE Point \/ Disable \/ Enable \/ PostNothing \/ PostFailed
  <2>0. Event \in Cps \cup {"off", "on", "return"}
    BY <1>4 DEF Point, Disable, Enable, PostNothing, PostFailed
  <2>1. pc = "run" /\ prog[hist] \in Cps \cup {"off", "on", "return"}
    BY <2>0, ChoiceAssumption DEF Event
  <2>2. Ceil(prog, s) = 1
    BY <1>3, <1>m, <2>1 DEF Ceil
  <2>3. /\ log' = log /\ goal' = goal /\ prog' = prog /\ extra' = extra /\ alone' = alone
        /\ skipped' = skipped /\ rand' = rand /\ rest' = rest
    BY <1>4 DEF Point, Disable, Enable, PostNothing, PostFailed, env
  <2>4. Drawn(1) = 0 /\ EnumValue(rand, 1) = 0 /\ CanDraw(1)
    BY DEF Drawn, EnumValue, CanDraw
  <2> QED
    BY <1>r, <2>2, <2>3, <2>4
<1> QED
  BY <1>1, <1>2, <1>4 DEF Driven

\* A step of the search goes on with the execution of its choices.
LEMMA EnumMoves ==
    ASSUME AllBracketed, Granted, Armed, Numbers, Steady, alone, ~Regenerating,
           Driven, ~PostUnfailed, pc' # "panic",
           NEW n \in Nat, NEW f, IsRun(prog, extra, rand.choices, f, n),
           f[n] = Now(rand.choices, rand.cur)
    PROVE  /\ ~Terminal(prog, f[n])
           /\ Now(rand.choices, rand.cur)' = After(prog, extra, rand'.choices, f[n])
           /\ rand' = EnumRandom(rand, Ceil(prog, f[n])) /\ Ceil(prog, f[n]) \in Nat \ {0}
           /\ rand'.cur = Consumed(prog, f[n]) /\ rand'.cur <= Len(rand'.choices)
           /\ IsRun(prog, extra, rand'.choices, f, n)
           /\ IsRun(prog, extra, rand'.choices, More(f, n, After(prog, extra, rand'.choices, f[n])), n + 1)
<1>0. PICK c, d, u, v : c = rand.choices /\ d = rand'.choices /\ u = rand.cur /\ v = rand'.cur
  OBVIOUS
<1>1. c \in Seq(Nat) /\ u \in Nat /\ u <= Len(c) /\ Len(c) \in Nat /\ IsGenerator(rand)
  BY <1>0 DEF Numbers, IsGenerator
<1> DEFINE ceil == Ceil(prog, f[n])
<1>2. f[n] = Now(c, u) /\ f[n].used = u
  BY <1>0 DEF Now, Conf
<1>3. /\ ceil \in Nat \ {0} /\ rand' = EnumRandom(rand, ceil) /\ Drawn(ceil) = EnumValue(rand, ceil)
  BY <1>2, DrivenDraws
<1>4. /\ d \in Seq(Nat) /\ Len(c) <= Len(d) /\ Len(d) \in Nat
      /\ \A k \in 1 .. Len(c) : d[k] = c[k]
      /\ ceil = 1 => v = u /\ EnumValue(rand, ceil) = 0
      /\ ceil # 1 => v = u + 1 /\ u + 1 <= Len(d) /\ d[u + 1] = EnumValue(rand, ceil)
  <2> HIDE DEF ceil
  <2> QED
    BY <1>0, <1>1, <1>3, EnumDraws, SMTT(30)
<1>5. \A k \in 1 .. u : c[k] = d[k]
  BY <1>1, <1>4
<1>6. Now(d, u) = f[n]
  BY <1>1, <1>2, <1>5, NowSame
<1>7. v = Consumed(prog, f[n]) /\ v \in Nat /\ v <= Len(d)
  BY <1>1, <1>2, <1>4 DEF Consumed
<1>8. ceil # 1 => Drawn(ceil) = d[u + 1] /\ d[u + 1] \in Nat
  <2>1. ceil # 1 => u + 1 \in 1 .. Len(d)
    BY <1>1, <1>4
  <2>2. ceil # 1 => d[u + 1] \in Nat
    BY <1>4, <2>1, ElementOfSeq
  <2> HIDE DEF ceil
  <2> QED
    BY <1>3, <1>4, <2>2
<1>9. ceil = 1 => Drawn(1) = 0
  <2> HIDE DEF ceil
  <2> QED
    BY <1>3, <1>4
<1>10. Target(d, u) \in Int
  <2>1. u \in 0 .. Len(d)
    BY <1>1, <1>4
  <2> QED
    BY <1>4, <2>1, TargetIsNat
<1>11. Now(d, v)' = After(prog, extra, d, f[n]) /\ ~Terminal(prog, f[n])
  BY <1>1, <1>6, <1>7, <1>8, <1>9, <1>10, Moves
<1>12. Now(rand.choices, rand.cur)' = Now(d, v)'
  BY <1>0 DEF Now, Gone, Target
<1>13. IsRun(prog, extra, d, f, n)
  <2>1. IsRun(prog, extra, c, f, n) /\ f[n].used <= Len(d)
    BY <1>0, <1>1, <1>2, <1>4
  <2> QED
    BY <1>2, <1>4, <1>5, <2>1, RunTransfers
<1>14. After(prog, extra, d, f[n]).used <= Len(d)
  BY <1>1, <1>2, <1>7, UsedGrows
<1>15. IsRun(prog, extra, d, More(f, n, After(prog, extra, d, f[n])), n + 1)
  BY <1>11, <1>13, <1>14, RunGoesOn
<1> QED
  BY <1>0, <1>3, <1>7, <1>11, <1>12, <1>13, <1>15

\* Playing back takes the choices from the front.
LEMMA RestOf ==
    ASSUME NEW c \in Seq(Nat), NEW u \in 0 .. Len(c)
    PROVE  /\ u = Len(c) <=> SubSeq(c, u + 1, Len(c)) = << >>
           /\ u < Len(c) => /\ Head(SubSeq(c, u + 1, Len(c))) = c[u + 1]
                            /\ Tail(SubSeq(c, u + 1, Len(c))) = SubSeq(c, (u + 1) + 1, Len(c))
<1>0. Len(c) \in Nat /\ u \in Nat /\ u <= Len(c)
  OBVIOUS
<1> DEFINE r == SubSeq(c, u + 1, Len(c))
<1>1. /\ r \in Seq(Nat) /\ Len(r) = Len(c) - u
      /\ \A i \in 1 .. (Len(c) - u) : r[i] = c[u + i]
  <2>1. u + 1 \in 1 .. (Len(c) + 1) /\ Len(c) \in u .. Len(c)
    BY <1>0
  <2> QED
    BY <1>0, SMTT(30)
<1>2. u = Len(c) <=> r = << >>
  <2> HIDE DEF r
  <2>1. Len(r) = 0 <=> r = << >>
    BY <1>1
  <2> QED
    BY <1>0, <1>1, <2>1
<1>3. ASSUME u < Len(c)
      PROVE  Head(r) = c[u + 1] /\ Tail(r) = SubSeq(c, (u + 1) + 1, Len(c))
  <2>1. r # << >> /\ 1 \in 1 .. (Len(c) - u)
    BY <1>0, <1>2, <1>3
  <2>2. Head(r) = c[u + 1]
    <3>1. Head(r) = r[1]
      BY <1>1, <2>1
    <3> QED
      BY <1>1, <2>1, <3>1
  <2> DEFINE q == SubSeq(c, (u + 1) + 1, Len(c))
  <2>3. /\ q \in Seq(Nat) /\ Len(q) = Len(c) - (u + 1)
        /\ \A i \in 1 .. (Len(c) - (u + 1)) : q[i] = c[(u + 1) + i]
    BY <1>0, <1>3, SMTT(30)
  <2>4. /\ Tail(r) \in Seq(Nat) /\ Len(Tail(r)) = Len(r) - 1
        /\ \A i \in 1 .. (Len(r) - 1) : Tail(r)[i] = r[i + 1]
    <3> HIDE DEF r
    <3> QED
      BY <1>1, <2>1, HeadTailProperties
  <2> HIDE DEF r, q
  <2>5. ASSUME NEW i \in 1 .. Len(q) PROVE Tail(r)[i] = q[i]
    <3>1. i \in 1 .. (Len(r) - 1) /\ i + 1 \in 1 .. (Len(c) - u) /\ u + (i + 1) = (u + 1) + i
          /\ i \in 1 .. (Len(c) - (u + 1))
      BY <1>0, <1>1, <2>3
    <3>2. Tail(r)[i] = r[i + 1] /\ r[i + 1] = c[u + (i + 1)] /\ q[i] = c[(u + 1) + i]
      BY <1>1, <2>3, <2>4, <3>1
    <3> QED
      BY <3>1, <3>2
  <2>6. Len(Tail(r)) = Len(q)
    BY <1>0, <1>1, <2>3, <2>4
  <2>7. Tail(r) = q
    BY <2>3, <2>4, <2>5, <2>6, SeqEqual
  <2> QED
    BY <2>2, <2>7 DEF q
<1> QED
  BY <1>2, <1>3 DEF r

\* A step of a replay goes on with the execution of the choices played back.
LEMMA ReplayMoves ==
    ASSUME AllBracketed, Granted, Armed, Numbers, Steady, alone, Regenerating,
           Driven, pc' # "panic",
           NEW c \in Seq(Nat), NEW u \in 0 .. Len(c), rest = SubSeq(c, u + 1, Len(c)),
           NEW n \in Nat, NEW f, IsRun(prog, extra, c, f, n), f[n] = Now(c, u)
    PROVE  /\ \E v \in 0 .. Len(c) :
                /\ rest' = SubSeq(c, v + 1, Len(c))
                /\ Now(c, v)' = After(prog, extra, c, f[n])
                /\ IsRun(prog, extra, c, More(f, n, After(prog, extra, c, f[n])), n + 1)
           /\ ~PostUnfailed
<1>0. ~PostUnfailed
  BY DEF PostUnfailed
<1>1. u \in Nat /\ Len(c) \in Nat /\ u <= Len(c)
  OBVIOUS
<1> DEFINE ceil == Ceil(prog, f[n])
           v == Consumed(prog, f[n])
<1>2. f[n].used = u
  BY DEF Now, Conf
<1>3. /\ ceil \in Nat \ {0} /\ CanDraw(ceil)
      /\ ceil = 1 => rest' = rest /\ Drawn(1) = 0
      /\ ceil # 1 => rest' = Tail(rest) /\ Drawn(ceil) = Head(rest)
  BY <1>0, DrivenDraws
<1>4. ceil = 1 => v = u
  BY <1>2 DEF Consumed
<1>5. ceil # 1 => v = u + 1 /\ u < Len(c)
  <2>1. ceil # 1 => rest # << >>
    BY <1>3 DEF CanDraw
  <2>2. ceil # 1 => u # Len(c)
    BY <2>1, RestOf
  <2> QED
    BY <1>1, <1>2, <2>2 DEF Consumed
<1>6. ceil # 1 => Head(rest) = c[u + 1] /\ rest' = SubSeq(c, (u + 1) + 1, Len(c)) /\ c[u + 1] \in Nat
  <2>1. ceil # 1 => u + 1 \in 1 .. Len(c)
    BY <1>1, <1>5
  <2>2. ceil # 1 => c[u + 1] \in Nat
    BY <2>1, ElementOfSeq
  <2> HIDE DEF ceil
  <2> QED
    BY <1>3, <1>5, <2>2, RestOf
<1>7. v \in 0 .. Len(c) /\ v \in Nat /\ rest' = SubSeq(c, v + 1, Len(c))
  <2>1. CASE ceil = 1
    BY <1>1, <1>3, <1>4, <2>1
  <2>2. CASE ceil # 1
    BY <1>1, <1>5, <1>6, <2>2
  <2> QED
    BY <2>1, <2>2
<1>8. ceil # 1 => Drawn(ceil) = c[u + 1] /\ c[u + 1] \in Nat
  BY <1>3, <1>6
<1>9. Target(c, u) \in Int
  BY TargetIsNat
<1>10. PICK w \in Nat : w = v
  BY <1>7
<1>11. Now(c, w)' = After(prog, extra, c, f[n]) /\ ~Terminal(prog, f[n])
  BY <1>1, <1>3, <1>8, <1>9, <1>10, Moves
<1>12. After(prog, extra, c, f[n]).used <= Len(c)
  <2>1. After(prog, extra, c, f[n]).used = Consumed(prog, f[n])
    BY <1>1, <1>2, UsedGrows
  <2> QED
    BY <1>1, <1>7, <2>1
<1>13. IsRun(prog, extra, c, More(f, n, After(prog, extra, c, f[n])), n + 1)
  BY <1>11, <1>12, RunGoesOn
<1>14. w \in 0 .. Len(c) /\ rest' = SubSeq(c, w + 1, Len(c))
  BY <1>7, <1>10
<1> HIDE DEF ceil, v
<1>15. \E z \in 0 .. Len(c) :
          /\ rest' = SubSeq(c, z + 1, Len(c))
          /\ Now(c, z)' = After(prog, extra, c, f[n])
          /\ IsRun(prog, extra, c, More(f, n, After(prog, extra, c, f[n])), n + 1)
  BY <1>11, <1>13, <1>14, Zenon
<1> QED
  BY <1>0, <1>15

-----------------------------------------------------------------------------
\* An execution in which post_choose finds that nothing has failed.
Unfailing(t, s) == s.at = "run" /\ t[s.h] = "return" /\ s.armed = 1 /\ s.over = 0

\* An execution with the choices c comes to s, ...
OnRun(t, x, c, s) == \E n \in Nat : \E f : IsRun(t, x, c, f, n) /\ f[n] = s
\* ... and skips nothing on its way.
OnClean(t, x, c, s) ==
    \E n \in Nat : \E f : /\ IsRun(t, x, c, f, n) /\ f[n] = s
                          /\ \A i \in 0 .. (n - 1) : ~Unfailing(t, f[i])

\* Every execution starts an execution of its choices.
LEMMA CleanStart ==
    ASSUME NEW t, NEW x, NEW c
    PROVE  OnClean(t, x, c, Fresh(<< >>, 0)) /\ OnRun(t, x, c, Fresh(<< >>, 0))
<1> DEFINE f == [i \in {0} |-> Fresh(<< >>, 0)]
<1>1. f[0] = Fresh(<< >>, 0)
  OBVIOUS
<1>2. \A i \in 0 .. (0 - 1) : FALSE
  OBVIOUS
<1> HIDE DEF f
<1>3. IsRun(t, x, c, f, 0)
  BY <1>1, <1>2 DEF IsRun
<1>4. 0 \in Nat
  OBVIOUS
<1>5. OnClean(t, x, c, Fresh(<< >>, 0))
  BY <1>1, <1>2, <1>3, <1>4, Zenon DEF OnClean
<1>6. OnRun(t, x, c, Fresh(<< >>, 0))
  BY <1>1, <1>3, <1>4, Zenon DEF OnRun
<1> QED
  BY <1>5, <1>6

\* Only post_choose that finds no failure is a step that skips.
LEMMA StepSkips ==
    ASSUME AllBracketed, Armed, Steady, alone, Driven, NEW c, NEW u
    PROVE  PostUnfailed <=> Unfailing(prog, Now(c, u))
<1>3. /\ Now(c, u).h = hist /\ Now(c, u).at = pc /\ Now(c, u).armed = (IF InArms THEN 1 ELSE 0)
      /\ Now(c, u).over = (IF InArms /\ fail.pass_count < 0 THEN 1 ELSE 0)
  BY DEF Now, Conf
<1>e. \A e \in {"call", "return", "off", "on", "check", "skip", "end"} \cup Cps :
         Event = e => pc = "run" /\ prog[hist] = e
  BY ChoiceAssumption DEF Event
<1>1. ASSUME PostUnfailed PROVE Unfailing(prog, Now(c, u))
  <2>1. pc = "run" /\ prog[hist] = "return" /\ should /\ fail.pass_count >= 0
    BY <1>1, <1>e DEF PostUnfailed, Unfailed
  <2>2. debug = 1
    BY <2>1, NodeIsBracketed DEF Steady
  <2>3. InArms /\ fail.pass_count \in Int
    BY <2>1, <2>2 DEF InArms, Steady
  <2> QED
    BY <1>3, <2>1, <2>3 DEF Unfailing
<1>2. ASSUME Unfailing(prog, Now(c, u)) PROVE PostUnfailed
  <2>1. pc = "run" /\ prog[hist] = "return" /\ InArms /\ ~(fail.pass_count < 0)
    BY <1>2, <1>3 DEF Unfailing
  <2>2. fail.pass_count \in Int /\ fail.pass_count >= 0 /\ should
    BY <2>1 DEF Steady, InArms, Armed
  <2>3. Event = "return" /\ "return" \notin Cps
    BY <2>1, ChoiceAssumption DEF Event
  <2>4. pc # "count"
    BY <2>1
  <2>5. ~PreChoose /\ ~Check /\ ~Disable /\ ~Enable /\ ~Point /\ ~SetCount
    BY <2>3, <2>4 DEF PreChoose, Check, Disable, Enable, Point, SetCount
  <2>6. ~PostNothing /\ ~PostFailed
    BY <2>2 DEF PostNothing, PostFailed, Unfailed
  <2> QED
    BY <2>5, <2>6 DEF Driven
<1> QED
  BY <1>1, <1>2

\* Executions that skipped nothing can be repeated, the present one is the one
\* of its choices, and the replay of one of them is on the way of the execution
\* it repeats.
Recorded ==
    alone =>
      /\ \A e \in log :
           /\ prog[e.hist] \in {"end", "skip"}
           /\ e.choices # << >> => prog[<< >>] \notin {"end", "skip"}
           /\ ~e.skipped => \E s : /\ OnClean(prog, extra, e.choices, s)
                                   /\ Terminal(prog, s) /\ s.h = e.hist
      /\ hist # << >> \/ rand.choices # << >> \/ pc = "count" => prog[<< >>] \notin {"end", "skip"}
      /\ pc \in {"ret", "done"} => ~Regenerating
      /\ ~Regenerating /\ pc \in {"run", "count"} /\ ~skipped =>
            OnClean(prog, extra, rand.choices, Now(rand.choices, rand.cur))
      /\ Regenerating /\ pc \in {"run", "count"} /\ ~skipped =>
            \E e \in log : /\ ~e.skipped /\ goal = e.hist
                           /\ \E u \in 0 .. Len(e.choices) :
                                /\ rest = SubSeq(e.choices, u + 1, Len(e.choices))
                                /\ OnRun(prog, extra, e.choices, Now(e.choices, u))
      /\ pc = "regenerated" /\ ~skipped => hist = goal

\* The parts of it, for the steps.
LEMMA RecordedFacts ==
    ASSUME Recorded, alone
    PROVE  /\ \A e \in log :
                /\ prog[e.hist] \in {"end", "skip"}
                /\ e.choices # << >> => prog[<< >>] \notin {"end", "skip"}
                /\ ~e.skipped => \E s : /\ OnClean(prog, extra, e.choices, s)
                                        /\ Terminal(prog, s) /\ s.h = e.hist
           /\ hist # << >> \/ rand.choices # << >> \/ pc = "count" => prog[<< >>] \notin {"end", "skip"}
           /\ pc \in {"ret", "done"} => ~Regenerating
           /\ ~Regenerating /\ pc \in {"run", "count"} /\ ~skipped =>
                 OnClean(prog, extra, rand.choices, Now(rand.choices, rand.cur))
           /\ Regenerating /\ pc \in {"run", "count"} /\ ~skipped =>
                 \E e \in log : /\ ~e.skipped /\ goal = e.hist
                                /\ \E u \in 0 .. Len(e.choices) :
                                     /\ rest = SubSeq(e.choices, u + 1, Len(e.choices))
                                     /\ OnRun(prog, extra, e.choices, Now(e.choices, u))
           /\ pc = "regenerated" /\ ~skipped => hist = goal
BY DEF Recorded

\* The execution of the search goes on cleanly as long as it does not skip.
LEMMA CleanEnum ==
    ASSUME AllBracketed, Granted, Armed, Numbers, Steady, alone, ~Regenerating,
           Driven, ~PostUnfailed, pc' # "panic",
           OnClean(prog, extra, rand.choices, Now(rand.choices, rand.cur))
    PROVE  OnClean(prog, extra, rand.choices, Now(rand.choices, rand.cur))'
<1>1. PICK n \in Nat : \E f : /\ IsRun(prog, extra, rand.choices, f, n) /\ f[n] = Now(rand.choices, rand.cur)
                              /\ \A i \in 0 .. (n - 1) : ~Unfailing(prog, f[i])
  BY DEF OnClean
<1>2. PICK f : /\ IsRun(prog, extra, rand.choices, f, n) /\ f[n] = Now(rand.choices, rand.cur)
               /\ \A i \in 0 .. (n - 1) : ~Unfailing(prog, f[i])
  BY <1>1
<1> DEFINE d == rand'.choices
           s == After(prog, extra, d, f[n])
           g == More(f, n, s)
<1>3. Now(rand.choices, rand.cur)' = s /\ IsRun(prog, extra, d, g, n + 1)
  BY <1>2, EnumMoves
<1>4. g[n + 1] = s /\ \A i \in 0 .. n : g[i] = f[i]
  BY DEF More
<1>5. PICK c, u : c = rand.choices /\ u = rand.cur
  OBVIOUS
<1>6. ~Unfailing(prog, f[n])
  BY <1>2, <1>5, StepSkips
<1> HIDE DEF s, g
<1>7. ASSUME NEW i \in 0 .. ((n + 1) - 1) PROVE ~Unfailing(prog, g[i])
  <2>1. i \in 0 .. n /\ (i = n \/ i \in 0 .. (n - 1))
    OBVIOUS
  <2> QED
    BY <1>2, <1>4, <1>6, <2>1
<1>8. prog' = prog /\ extra' = extra
  BY <1>5, DrivenDraws
<1>9. n + 1 \in Nat
  OBVIOUS
<1>10. OnClean(prog, extra, d, s)
  BY <1>3, <1>4, <1>7, <1>9, Zenon DEF OnClean
<1> QED
  BY <1>3, <1>8, <1>10 DEF OnClean

\* A replay goes on with the execution it repeats.
LEMMA ReplayOn ==
    ASSUME AllBracketed, Granted, Armed, Numbers, Steady, alone, Regenerating,
           Driven, pc' # "panic",
           NEW c \in Seq(Nat), NEW u \in 0 .. Len(c), rest = SubSeq(c, u + 1, Len(c)),
           OnRun(prog, extra, c, Now(c, u))
    PROVE  \E v \in 0 .. Len(c) : /\ rest' = SubSeq(c, v + 1, Len(c))
                                  /\ OnRun(prog, extra, c, Now(c, v)')
<1>1. PICK n \in Nat : \E f : IsRun(prog, extra, c, f, n) /\ f[n] = Now(c, u)
  BY DEF OnRun
<1>2. PICK f : IsRun(prog, extra, c, f, n) /\ f[n] = Now(c, u)
  BY <1>1
<1> DEFINE s == After(prog, extra, c, f[n])
           g == More(f, n, s)
<1>3. PICK v \in 0 .. Len(c) : /\ rest' = SubSeq(c, v + 1, Len(c)) /\ Now(c, v)' = s
                               /\ IsRun(prog, extra, c, g, n + 1)
  BY <1>2, ReplayMoves
<1>4. g[n + 1] = s /\ n + 1 \in Nat
  BY DEF More
<1> HIDE DEF s, g
<1>5. OnRun(prog, extra, c, s)
  BY <1>3, <1>4, Zenon DEF OnRun
<1> QED
  BY <1>3, <1>5

\* When a replay ends it is where the execution it repeats has ended.
LEMMA ReplayEnds ==
    ASSUME NEW t, NEW x, NEW c, NEW s, NEW r, OnRun(t, x, c, s), OnRun(t, x, c, r),
           Terminal(t, s), Terminal(t, r)
    PROVE  s = r
<1>1. PICK n \in Nat : \E f : IsRun(t, x, c, f, n) /\ f[n] = s
  BY DEF OnRun
<1>2. PICK f : IsRun(t, x, c, f, n) /\ f[n] = s
  BY <1>1
<1>3. PICK m \in Nat : \E g : IsRun(t, x, c, g, m) /\ g[m] = r
  BY DEF OnRun
<1>4. PICK g : IsRun(t, x, c, g, m) /\ g[m] = r
  BY <1>3
<1>5. f[m] = g[m] /\ m = n
  BY <1>2, <1>4, RunWithin
<1> QED
  BY <1>2, <1>4, <1>5

\* Every step keeps executions repeatable and replays on their way.
LEMMA StepRecorded ==
    ASSUME AllBracketed, Granted, Armed, Numbers, Steady, Recorded, [Next]_vars
    PROVE  Recorded'
<1>a. alone' = alone /\ prog' = prog /\ extra' = extra
  BY DEF Next, PreChoose, SetCount, Point, Disable, Enable, PostNothing, PostFailed, PostUnfailed,
         Check, ReplayPanic, Return, Again, Regenerate, OtherPoint, OtherDisable, OtherEnable, vars, env
<1> DEFINE Log(l) ==
        \A e \in l :
           /\ prog[e.hist] \in {"end", "skip"}
           /\ e.choices # << >> => prog[<< >>] \notin {"end", "skip"}
           /\ ~e.skipped => \E s : /\ OnClean(prog, extra, e.choices, s)
                                   /\ Terminal(prog, s) /\ s.h = e.hist
<1>s. SUFFICES ASSUME alone
      PROVE  /\ Log(log')
             /\ hist' # << >> \/ rand'.choices # << >> \/ pc' = "count" => prog[<< >>] \notin {"end", "skip"}
             /\ pc' \in {"ret", "done"} => ~Regenerating'
             /\ ~Regenerating' /\ pc' \in {"run", "count"} /\ ~skipped' =>
                   OnClean(prog, extra, rand.choices, Now(rand.choices, rand.cur))'
             /\ Regenerating' /\ pc' \in {"run", "count"} /\ ~skipped' =>
                   \E e \in log' : /\ ~e.skipped /\ goal' = e.hist
                                  /\ \E u \in 0 .. Len(e.choices) :
                                       /\ rest' = SubSeq(e.choices, u + 1, Len(e.choices))
                                       /\ OnRun(prog, extra, e.choices, Now(e.choices, u)')
             /\ pc' = "regenerated" /\ ~skipped' => hist' = goal'
  BY <1>a DEF Recorded
<1>f. /\ Log(log)
      /\ hist # << >> \/ rand.choices # << >> \/ pc = "count" => prog[<< >>] \notin {"end", "skip"}
      /\ pc \in {"ret", "done"} => ~Regenerating
      /\ ~Regenerating /\ pc \in {"run", "count"} /\ ~skipped =>
            OnClean(prog, extra, rand.choices, Now(rand.choices, rand.cur))
      /\ pc = "regenerated" /\ ~skipped => hist = goal
  BY <1>s, RecordedFacts
<1>g. Regenerating /\ pc \in {"run", "count"} /\ ~skipped =>
            \E e \in log : /\ ~e.skipped /\ goal = e.hist
                           /\ \E u \in 0 .. Len(e.choices) :
                                /\ rest = SubSeq(e.choices, u + 1, Len(e.choices))
                                /\ OnRun(prog, extra, e.choices, Now(e.choices, u))
  BY <1>s, RecordedFacts
<1>e. \A e \in {"call", "return", "off", "on", "check", "skip", "end"} \cup Cps :
         Event = e => pc = "run" /\ prog[hist] = e
  BY ChoiceAssumption DEF Event
<1> HIDE DEF Log
<1>1. CASE Driven /\ pc' # "panic"
  <2>0. /\ log' = log /\ goal' = goal /\ (Regenerating' <=> Regenerating)
        /\ pc \in {"run", "count"} /\ pc' \in {"run", "count"}
    <3>1. log' = log /\ goal' = goal
      BY <1>1 DEF Driven, PreChoose, SetCount, Point, Disable, Enable, PostNothing, PostFailed,
                  PostUnfailed, Check
    <3>2. pc \in {"run", "count"}
      BY <1>1, <1>e DEF Driven, PreChoose, SetCount, Point, Disable, Enable, PostNothing, PostFailed,
                  PostUnfailed, Check
    <3>3. pc' \in {"run", "count"}
      BY <1>1, <3>2 DEF Driven, PreChoose, SetCount, Point, Disable, Enable, PostNothing, PostFailed,
                  PostUnfailed, Check
    <3> QED
      BY <3>1, <3>2, <3>3 DEF Regenerating
  <2>1. prog[<< >>] \notin {"end", "skip"}
    <3>1. CASE pc = "run"
      <4>1. prog[hist] \notin {"end", "skip"}
        <5>1. PICK c, u : c = << >> /\ u = 0
          OBVIOUS
        <5>2. Event \in Cps \cup {"call", "off", "on", "return", "check"}
          BY <1>1, <3>1 DEF Driven, PreChoose, SetCount, Point, Disable, Enable, PostNothing, PostFailed,
                  PostUnfailed, Check
        <5> QED
          BY <3>1, <5>2, ChoiceAssumption DEF Event
      <4> QED
        BY <1>f, <4>1
    <3>2. CASE pc = "count"
      BY <1>f, <3>2
    <3> QED
      BY <2>0, <3>1, <3>2
  <2>2. ASSUME ~Regenerating, ~skipped'
        PROVE  OnClean(prog, extra, rand.choices, Now(rand.choices, rand.cur))'
    <3>1. ~PostUnfailed
      BY <2>2 DEF PostUnfailed
    <3>2. PICK c, u : c = rand.choices /\ u = rand.cur
      OBVIOUS
    <3>3. ~skipped
      BY <1>1, <2>2, <3>1, DrivenDraws
    <3> QED
      BY <1>1, <1>f, <1>s, <2>0, <2>2, <3>1, <3>3, CleanEnum
  <2>3. ASSUME Regenerating, ~skipped'
        PROVE  \E e \in log : /\ ~e.skipped /\ goal = e.hist
                              /\ \E u \in 0 .. Len(e.choices) :
                                   /\ rest' = SubSeq(e.choices, u + 1, Len(e.choices))
                                   /\ OnRun(prog, extra, e.choices, Now(e.choices, u)')
    <3>0. ~skipped
      <4>1. PICK c, u : c = << >> /\ u = 0
        OBVIOUS
      <4>2. CASE PostUnfailed
        BY <2>3, <4>2 DEF PostUnfailed
      <4>3. CASE ~PostUnfailed
        BY <1>1, <2>3, <4>3, DrivenDraws
      <4> QED
        BY <4>2, <4>3
    <3>1. PICK e \in log : /\ ~e.skipped /\ goal = e.hist
                           /\ \E u \in 0 .. Len(e.choices) :
                                /\ rest = SubSeq(e.choices, u + 1, Len(e.choices))
                                /\ OnRun(prog, extra, e.choices, Now(e.choices, u))
      BY <1>g, <2>0, <2>3, <3>0
    <3>2. PICK c \in Seq(Nat) : c = e.choices
      BY DEF Numbers
    <3>3. PICK u \in 0 .. Len(c) : rest = SubSeq(c, u + 1, Len(c)) /\ OnRun(prog, extra, c, Now(c, u))
      BY <3>1, <3>2
    <3>4. \E v \in 0 .. Len(c) : rest' = SubSeq(c, v + 1, Len(c)) /\ OnRun(prog, extra, c, Now(c, v)')
      BY <1>1, <1>s, <2>3, <3>3, ReplayOn
    <3> QED
      BY <3>1, <3>2, <3>4
  <2> QED
    BY <1>f, <2>0, <2>1, <2>2, <2>3
<1>2. CASE (Driven \/ ReplayPanic) /\ pc' = "panic"
  <2>1. log' = log
    BY <1>2 DEF Driven, PreChoose, SetCount, Point, Disable, Enable, PostNothing, PostFailed,
                  PostUnfailed, Check, ReplayPanic
  <2>2. prog[<< >>] \notin {"end", "skip"}
    <3>1. CASE pc = "run"
      <4>1. prog[hist] \notin {"end", "skip"}
        <5>2. Event \in Cps \cup {"call", "off", "on", "return", "check"}
          BY <1>2, <3>1 DEF Driven, PreChoose, SetCount, Point, Disable, Enable, PostNothing, PostFailed,
                  PostUnfailed, Check, ReplayPanic
        <5> QED
          BY <3>1, <5>2, ChoiceAssumption DEF Event
      <4> QED
        BY <1>f, <4>1
    <3>2. CASE pc = "count"
      BY <1>f, <3>2
    <3>3. pc \in {"run", "count"}
      BY <1>2, <1>e DEF Driven, PreChoose, SetCount, Point, Disable, Enable, PostNothing, PostFailed,
                  PostUnfailed, Check, ReplayPanic
    <3> QED
      BY <3>1, <3>2, <3>3
  <2> QED
    BY <1>f, <1>2, <2>1, <2>2
<1>3. CASE Return
  <2>1. pc = "run" /\ prog[hist] \in {"end", "skip"}
    BY <1>3, <1>e DEF Return
  <2>2. /\ goal' = goal /\ hist' = hist /\ rand' = rand /\ skipped' = skipped
        /\ pc' = IF Regenerating THEN "regenerated" ELSE "ret"
    BY <1>3 DEF Return
  <2>3. Log(log')
    <3>1. CASE Regenerating
      BY <1>3, <1>f, <3>1 DEF Return
    <3>2. CASE ~Regenerating
      <4> DEFINE e0 == [choices |-> rand.choices, hist |-> hist, skipped |-> skipped,
                        queued |-> Event = "end"]
      <4>1. log' = log \cup {e0}
        BY <1>3, <3>2 DEF Return
      <4>2. e0.choices = rand.choices /\ e0.hist = hist /\ (e0.skipped <=> skipped)
        OBVIOUS
      <4>3. ~skipped => \E s : OnClean(prog, extra, rand.choices, s) /\ Terminal(prog, s) /\ s.h = hist
        <5>1. Terminal(prog, Now(rand.choices, rand.cur)) /\ Now(rand.choices, rand.cur).h = hist
          BY <2>1 DEF Terminal, Now, Conf
        <5> QED
          BY <1>f, <2>1, <3>2, <5>1
      <4> HIDE DEF e0
      <4> QED
        BY <1>f, <2>1, <4>1, <4>2, <4>3 DEF Log
    <3> QED
      BY <3>1, <3>2
  <2>4. ASSUME Regenerating, ~skipped PROVE hist = goal
    <3>1. PICK e \in log : /\ ~e.skipped /\ goal = e.hist
                           /\ \E u \in 0 .. Len(e.choices) :
                                /\ rest = SubSeq(e.choices, u + 1, Len(e.choices))
                                /\ OnRun(prog, extra, e.choices, Now(e.choices, u))
      BY <1>g, <2>1, <2>4
    <3>2. PICK u : OnRun(prog, extra, e.choices, Now(e.choices, u))
      BY <3>1
    <3>3. PICK s : OnClean(prog, extra, e.choices, s) /\ Terminal(prog, s) /\ s.h = e.hist
      BY <1>f, <3>1 DEF Log
    <3>4. OnRun(prog, extra, e.choices, s)
      BY <3>3 DEF OnClean, OnRun
    <3>5. Terminal(prog, Now(e.choices, u)) /\ Now(e.choices, u).h = hist
      BY <2>1 DEF Terminal, Now, Conf
    <3>6. s = Now(e.choices, u)
      BY <3>2, <3>3, <3>4, <3>5, ReplayEnds
    <3> QED
      BY <3>1, <3>3, <3>5, <3>6
  <2>5. Regenerating' <=> Regenerating
    BY <2>2 DEF Regenerating
  <2> QED
    BY <1>f, <2>1, <2>2, <2>3, <2>4, <2>5
<1>4. CASE Again
  <2>1. /\ pc = "ret" /\ log' = log /\ goal' = goal /\ debug' = debug
    BY <1>4 DEF Again
  <2>2. ~Regenerating /\ ~Regenerating' /\ debug # 1
    BY <1>f, <2>1 DEF Regenerating, Armed
  <2>3. CASE Repeats(rand)
    <3>1. rand' = Repeat(rand) /\ hist' = << >> /\ pc' = "run"
      BY <1>4, <2>3 DEF Again
    <3>2. rand'.cur = 0
      BY <3>1 DEF Repeat
    <3>3. rand.choices # << >>
      BY <2>3 DEF Repeats, Open, Numbers, IsGenerator
    <3>4. ~InArms'
      BY <2>1, <2>2 DEF InArms
    <3>5. Now(rand.choices, rand.cur)' = Fresh(<< >>, 0)
      BY <3>1, <3>2, <3>4 DEF Now, Fresh, Gone
    <3>6. OnClean(prog, extra, rand'.choices, Fresh(<< >>, 0))
      BY CleanStart
    <3>7. OnClean(prog, extra, rand.choices, Now(rand.choices, rand.cur))'
      BY <1>a, <3>5, <3>6 DEF OnClean
    <3> QED
      BY <1>f, <2>1, <2>2, <3>1, <3>3, <3>7
  <2>4. CASE ~Repeats(rand)
    <3>1. rand' = rand /\ hist' = hist /\ pc' = "done"
      BY <1>4, <2>4 DEF Again
    <3> QED
      BY <1>f, <2>1, <2>2, <3>1
  <2> QED
    BY <2>3, <2>4
<1>5. CASE Regenerate
  <2>1. PICK e \in log : /\ e.queued /\ e.choices # << >>
                         /\ rest' = e.choices /\ goal' = e.hist /\ skipped' = e.skipped
    BY <1>5 DEF Regenerate
  <2>2. /\ log' = log /\ hist' = << >> /\ rand' = rand /\ pc = "done" /\ pc' = "run" /\ debug' = debug
    BY <1>5 DEF Regenerate
  <2>3. debug # 1
    BY <2>2 DEF Armed
  <2>4. prog[<< >>] \notin {"end", "skip"} /\ goal' # << >>
    BY <1>f, <2>1 DEF Log
  <2>5. PICK c \in Seq(Nat) : c = e.choices
    BY DEF Numbers
  <2>6. Len(c) \in Nat /\ 0 \in 0 .. Len(c) /\ SubSeq(c, 0 + 1, Len(c)) = c
    BY SubSeqFull
  <2>7. Now(c, 0)' = Fresh(<< >>, 0)
    BY <2>2, <2>3 DEF Now, Fresh, Gone, InArms
  <2>8. OnRun(prog, extra, c, Now(c, 0)')
    BY <2>7, CleanStart
  <2>9. \E u \in 0 .. Len(c) : rest' = SubSeq(c, u + 1, Len(c)) /\ OnRun(prog, extra, c, Now(c, u)')
    BY <2>1, <2>5, <2>6, <2>8, Zenon
  <2>10. ~skipped' =>
         \E e1 \in log' : /\ ~e1.skipped /\ goal' = e1.hist
                         /\ \E u \in 0 .. Len(e1.choices) :
                              /\ rest' = SubSeq(e1.choices, u + 1, Len(e1.choices))
                              /\ OnRun(prog, extra, e1.choices, Now(e1.choices, u)')
    BY <2>1, <2>2, <2>5, <2>9
  <2> QED
    BY <1>f, <2>2, <2>4, <2>10 DEF Regenerating
<1>6. CASE UNCHANGED vars
  <2>1. /\ prog' = prog /\ extra' = extra /\ fail' = fail /\ debug' = debug /\ rand' = rand
        /\ rest' = rest /\ hist' = hist /\ skipped' = skipped /\ log' = log /\ goal' = goal /\ pc' = pc
    BY <1>6 DEF vars, env, kernel, driver
  <2>2. \A c, u : Now(c, u)' = Now(c, u)
    BY <2>1 DEF Now, Gone, InArms
  <2>3. Now(rand.choices, rand.cur)' = Now(rand.choices, rand.cur)
    BY <2>1 DEF Now, Gone, InArms, Target
  <2>4. OnClean(prog, extra, rand.choices, Now(rand.choices, rand.cur))' <=>
        OnClean(prog, extra, rand.choices, Now(rand.choices, rand.cur))
    BY <2>1, <2>3 DEF OnClean
  <2>5. Regenerating' <=> Regenerating
    BY <2>1 DEF Regenerating
  <2> QED
    BY <1>f, <1>g, <2>1, <2>2, <2>4, <2>5
<1> QED
  BY <1>s, <1>1, <1>2, <1>3, <1>4, <1>5, <1>6
  DEF Next, Driven, ReplayPanic, OtherPoint, OtherDisable, OtherEnable, Other

\* The initial states are recorded, steady and so on.
LEMMA InitRecorded ==
    ASSUME AllBracketed, AllPaired, Init
    PROVE  Granted /\ Armed /\ Numbers /\ Steady /\ Recorded
<1>1. Granted /\ Armed
  BY ChoiceAssumption DEF Init, Granted, Armed, Live
<1>2. Numbers
  BY ResetIsGenerator DEF Init, Numbers
<1>3. \A t : Possible(t, << >>) /\ ~Disabled(t, << >>) /\ ~InCall(t, << >>)
  BY DEF Possible, Disabled, InCall, Within
<1>4. Steady
  BY <1>3 DEF Init, Steady, InArms
<1>5. Now(rand.choices, rand.cur) = Fresh(<< >>, 0)
  BY DEF Init, Now, Fresh, Gone, InArms, EnumReset
<1>6. OnClean(prog, extra, rand.choices, Now(rand.choices, rand.cur))
  BY <1>5, CleanStart
<1>7. Recorded
  BY <1>6 DEF Init, Recorded, Regenerating, EnumReset
<1> QED
  BY <1>1, <1>2, <1>4, <1>7

\* Playing back the choices of an execution that skipped nothing makes the same
\* choice points fail (CrashSim::pre_choose, ekm_mod_filter_choose), for any
\* transitions that keep to the brackets, any number of extra failures and
\* whatever earlier executions have left in the record of the kernel, as long
\* as no other thread runs.
THEOREM ReplaysReproduce ==
    ASSUME AllBracketed, AllPaired
    PROVE  Spec => []Reproduced
<1> DEFINE I == Granted /\ Armed /\ Numbers /\ Steady /\ Recorded
<1>1. Init => I
  BY InitRecorded
<1>2. I /\ [Next]_vars => I'
  BY StepGrants, StepArmed, StepNumbers, StepSteady, StepRecorded
<1>3. I => Reproduced
  BY DEF Recorded, Reproduced
<1> QED
  BY <1>1, <1>2, <1>3, PTL DEF Spec

-----------------------------------------------------------------------------
(* The tree of the choices of a transition                                 *)

\* The choices that an execution uses are below their ceilings.
Fits(t, c, f, n) ==
    \A i \in 0 .. (n - 1) : Ceil(t, f[i]) # 1 => c[f[i].used + 1] < Ceil(t, f[i])

\* An execution that has used all of the choices p, and asks for another one.
Asks(t, x, p, s) ==
    \E n \in Nat : \E f : /\ IsRun(t, x, p, f, n) /\ Fits(t, p, f, n)
                          /\ f[n] = s /\ s.used = Len(p) /\ Ceil(t, s) # 1

\* The lists of choices that executions can use up, and the ceilings they ask
\* for next.
UsedUp(t, x, p) ==
    \E n \in Nat : \E f : IsRun(t, x, p, f, n) /\ Fits(t, p, f, n) /\ f[n].used = Len(p)
Chart(t, x) ==
    [p \in {q \in Seq(Nat) : UsedUp(t, x, q)} |->
        IF \E s : Asks(t, x, p, s) THEN Ceil(t, CHOOSE s : Asks(t, x, p, s)) ELSE 0]

\* A step that asks for a choice uses one more, and one that ends asks for none.
LEMMA AskingUses ==
    ASSUME NEW t, NEW x, NEW c, NEW s, s.used \in Nat
    PROVE  /\ Ceil(t, s) # 1 => After(t, x, c, s).used = s.used + 1
           /\ Ceil(t, s) = 1 => After(t, x, c, s).used = s.used
           /\ Terminal(t, s) => Ceil(t, s) = 1
           /\ Ceil(t, s) \in Nat \ {0}
<1>1. After(t, x, c, s).used = Consumed(t, s)
  BY UsedGrows
<1> QED
  BY <1>1, ChoiceAssumption DEF Consumed, Terminal, Ceil

\* An execution that asks for a choice it does not have takes no more steps.
LEMMA AskingStops ==
    ASSUME NEW t, NEW x, NEW p, NEW n \in Nat, NEW m \in Nat, NEW f, NEW g,
           IsRun(t, x, p, f, n), IsRun(t, x, p, g, m), f[n].used = Len(p), Ceil(t, f[n]) # 1
    PROVE  m <= n
<1> SUFFICES ASSUME n < m PROVE FALSE
  OBVIOUS
<1>1. g[n] = f[n] /\ n \in 0 .. (m - 1)
  BY RunsAgree
<1>2. f[n].used \in Nat
  BY RunUses
<1>3. g[n + 1].used = Len(p) + 1 /\ g[n + 1].used <= Len(p)
  BY <1>1, <1>2, AskingUses DEF IsRun
<1> QED
  BY <1>2, <1>3

\* It asks at one place only.
LEMMA AsksOnce ==
    ASSUME NEW t, NEW x, NEW p, NEW s, NEW r, Asks(t, x, p, s), Asks(t, x, p, r)
    PROVE  s = r
<1>1. PICK n \in Nat : \E f : /\ IsRun(t, x, p, f, n) /\ Fits(t, p, f, n)
                              /\ f[n] = s /\ s.used = Len(p) /\ Ceil(t, s) # 1
  BY DEF Asks
<1>2. PICK f : IsRun(t, x, p, f, n) /\ f[n] = s /\ s.used = Len(p) /\ Ceil(t, s) # 1
  BY <1>1
<1>3. PICK m \in Nat : \E g : /\ IsRun(t, x, p, g, m) /\ Fits(t, p, g, m)
                              /\ g[m] = r /\ r.used = Len(p) /\ Ceil(t, r) # 1
  BY DEF Asks
<1>4. PICK g : IsRun(t, x, p, g, m) /\ g[m] = r /\ r.used = Len(p) /\ Ceil(t, r) # 1
  BY <1>3
<1>5. m <= n /\ n <= m
  BY <1>2, <1>4, AskingStops
<1>6. m = n
  BY <1>5
<1>7. \A i \in Nat : i <= n /\ i <= m => f[i] = g[i]
  BY <1>2, <1>4, RunsAgree
<1>8. f[n] = g[n]
  BY <1>6, <1>7
<1> QED
  BY <1>2, <1>4, <1>6, <1>8

\* Every used choice was asked for at some step: the i-th one is drawn.
Crosses(t, f, n, i) ==
    \E k \in 0 .. (n - 1) : f[k].used = i - 1 /\ f[k + 1].used = i /\ Ceil(t, f[k]) # 1

\* An execution crosses each of the choices it has used.
LEMMA Crossing ==
    ASSUME NEW t, NEW x, NEW c, NEW n \in Nat, NEW f, IsRun(t, x, c, f, n)
    PROVE  \A i \in Nat \ {0} : i <= f[n].used => Crosses(t, f, n, i)
<1> SUFFICES ASSUME NEW i \in Nat \ {0}, i <= f[n].used
             PROVE  \E k \in 0 .. (n - 1) : f[k].used = i - 1 /\ f[k + 1].used = i /\ Ceil(t, f[k]) # 1
  BY DEF Crosses
<1> DEFINE P(j) == \E k \in 0 .. (j - 1) : f[k].used = i - 1 /\ f[k + 1].used = i /\ Ceil(t, f[k]) # 1
           S == {j \in Nat : j <= n /\ i <= f[j].used => P(j)}
<1>1. 0 \in S
  <2>1. f[0].used = 0
    BY DEF IsRun, Fresh, Conf
  <2> QED
    BY <2>1
<1>2. ASSUME NEW j \in Nat, j \in S PROVE j + 1 \in S
  <2>1. SUFFICES ASSUME j + 1 <= n, i <= f[j + 1].used PROVE P(j + 1)
    OBVIOUS
  <2>2. j \in 0 .. (n - 1) /\ f[j + 1] = After(t, x, c, f[j])
    BY <2>1 DEF IsRun
  <2>3. f[j].used \in Nat
    BY <2>2, RunUses
  <2>4. /\ Ceil(t, f[j]) # 1 => f[j + 1].used = f[j].used + 1
        /\ Ceil(t, f[j]) = 1 => f[j + 1].used = f[j].used
    BY <2>2, <2>3, AskingUses
  <2>5. CASE i <= f[j].used
    <3>1. P(j)
      BY <1>2, <2>2, <2>5
    <3>2. \A k \in 0 .. (j - 1) : k \in 0 .. ((j + 1) - 1)
      OBVIOUS
    <3> QED
      BY <3>1, <3>2
  <2>6. CASE ~(i <= f[j].used)
    <3>1. f[j].used = i - 1 /\ f[j + 1].used = i /\ Ceil(t, f[j]) # 1
      BY <2>1, <2>3, <2>4, <2>6
    <3>2. j \in 0 .. ((j + 1) - 1)
      OBVIOUS
    <3> QED
      BY <3>1, <3>2
  <2> QED
    BY <2>5, <2>6
<1> HIDE DEF S
<1>3. \A j \in Nat : j \in S
  BY <1>1, <1>2, Induction
<1>4. n \in S
  BY <1>3
<1> QED
  BY <1>4 DEF S

\* The beginning of an execution is the execution of a beginning of its choices.
LEMMA RunPrefix ==
    ASSUME NEW t, NEW x, NEW c \in Seq(Nat), NEW n \in Nat, NEW f, IsRun(t, x, c, f, n),
           NEW k \in 0 .. n, NEW d \in Seq(Nat), f[k].used <= Len(d),
           \A j \in 1 .. f[k].used : c[j] = d[j]
    PROVE  /\ IsRun(t, x, d, f, k)
           /\ Fits(t, c, f, n) => Fits(t, d, f, k)
<1>0. /\ \A i \in 0 .. (k - 1) : i \in 0 .. (n - 1) /\ i \in 0 .. k /\ i + 1 \in 0 .. k
      /\ k \in Nat /\ k <= n
  OBVIOUS
<1>1. IsRun(t, x, c, f, k)
  BY <1>0 DEF IsRun
<1>2. IsRun(t, x, d, f, k)
  <2>1. PICK j \in Nat : j = k
    BY <1>0
  <2>2. Len(d) \in Nat /\ IsRun(t, x, c, f, j) /\ f[j].used <= Len(d)
        /\ \A i \in 1 .. f[j].used : c[i] = d[i]
    BY <1>1, <2>1
  <2>3. IsRun(t, x, d, f, j)
    BY <2>2, RunTransfers
  <2> QED
    BY <2>1, <2>3
<1>3. ASSUME Fits(t, c, f, n), NEW i \in 0 .. (k - 1), Ceil(t, f[i]) # 1
      PROVE  d[f[i].used + 1] < Ceil(t, f[i])
  <2>1. c[f[i].used + 1] < Ceil(t, f[i])
    BY <1>0, <1>3 DEF Fits
  <2>u. \A b \in Nat : b <= k => \A a \in 0 .. b : f[a].used \in Nat /\ f[a].used <= f[b].used
    BY <1>0, <1>1, RunUses
  <2>2. f[i].used \in Nat /\ f[i + 1].used \in Nat /\ f[k].used \in Nat /\ f[i + 1].used <= f[k].used
    BY <1>0, <2>u
  <2>3. f[i + 1].used = f[i].used + 1
    BY <1>1, <1>3, <2>2, AskingUses, SMTT(30) DEF IsRun
  <2>4. f[i].used + 1 \in 1 .. f[k].used
    BY <2>2, <2>3
  <2> QED
    BY <2>1, <2>4
<1> QED
  BY <1>2, <1>3 DEF Fits

\* What the chart says where an execution has used its choices up.
Marks(t, x, p, s) ==
    /\ p \in DOMAIN Chart(t, x)
    /\ Ceil(t, s) # 1 => Chart(t, x)[p] = Ceil(t, s)
    /\ Terminal(t, s) => Chart(t, x)[p] = 0

\* The chart says where an execution has used its choices up what it asks for.
LEMMA ChartNode ==
    ASSUME NEW t, NEW x, NEW p \in Seq(Nat), NEW n \in Nat, NEW f,
           IsRun(t, x, p, f, n), Fits(t, p, f, n), f[n].used = Len(p)
    PROVE  Marks(t, x, p, f[n])
<1>1. UsedUp(t, x, p)
  BY DEF UsedUp
<1>2. /\ p \in DOMAIN Chart(t, x)
      /\ Chart(t, x)[p] = IF \E s : Asks(t, x, p, s) THEN Ceil(t, CHOOSE s : Asks(t, x, p, s)) ELSE 0
  BY <1>1 DEF Chart
<1>3. ASSUME Ceil(t, f[n]) # 1 PROVE Chart(t, x)[p] = Ceil(t, f[n])
  <2>1. Asks(t, x, p, f[n])
    BY <1>3 DEF Asks
  <2>2. Asks(t, x, p, CHOOSE s : Asks(t, x, p, s))
    BY <2>1
  <2>3. (CHOOSE s : Asks(t, x, p, s)) = f[n]
    BY <2>1, <2>2, AsksOnce
  <2> QED
    BY <1>2, <2>1, <2>3
<1>4. ASSUME Terminal(t, f[n]) PROVE Chart(t, x)[p] = 0
  <2>1. ASSUME NEW s, Asks(t, x, p, s) PROVE FALSE
    <3>1. PICK m \in Nat : \E g : /\ IsRun(t, x, p, g, m) /\ Fits(t, p, g, m)
                                  /\ g[m] = s /\ s.used = Len(p) /\ Ceil(t, s) # 1
      BY <2>1 DEF Asks
    <3>2. PICK g : IsRun(t, x, p, g, m) /\ g[m] = s /\ s.used = Len(p) /\ Ceil(t, s) # 1
      BY <3>1
    <3>3. g[m].used \in Nat
      BY <3>2, RunUses
    <3>4. ~Terminal(t, g[m])
      BY <3>2, <3>3, AskingUses
    <3>5. m < n
      BY <1>4, <3>2, <3>4, RunWithin
    <3>6. n <= m
      BY <3>2, AskingStops
    <3> QED
      BY <3>5, <3>6
  <2> QED
    BY <1>2, <2>1
<1> QED
  BY <1>2, <1>3, <1>4 DEF Marks

\* The execution that reaches a node of the chart.
LEMMA ChartRun ==
    ASSUME NEW t, NEW x, NEW p \in DOMAIN Chart(t, x)
    PROVE  /\ p \in Seq(Nat)
           /\ \E n \in Nat : \E f : IsRun(t, x, p, f, n) /\ Fits(t, p, f, n) /\ f[n].used = Len(p)
           /\ Chart(t, x)[p] # 0 => \E s : Asks(t, x, p, s) /\ Chart(t, x)[p] = Ceil(t, s)
           /\ Chart(t, x)[p] \in Nat \ {1}
<1>1. p \in Seq(Nat) /\ UsedUp(t, x, p)
  BY DEF Chart
<1>2. Chart(t, x)[p] = IF \E s : Asks(t, x, p, s) THEN Ceil(t, CHOOSE s : Asks(t, x, p, s)) ELSE 0
  BY DEF Chart
<1>3. CASE \E s : Asks(t, x, p, s)
  <2>1. PICK s : s = CHOOSE r : Asks(t, x, p, r)
    OBVIOUS
  <2>2. Asks(t, x, p, s) /\ Chart(t, x)[p] = Ceil(t, s)
    BY <1>2, <1>3, <2>1
  <2>3. Ceil(t, s) # 1 /\ s.used = Len(p)
    BY <2>2 DEF Asks
  <2>4. Len(p) \in Nat
    BY <1>1
  <2>5. Ceil(t, s) \in Nat \ {0}
    BY <2>3, <2>4, AskingUses
  <2> QED
    BY <1>1, <2>2, <2>3, <2>5 DEF UsedUp
<1>4. CASE ~(\E s : Asks(t, x, p, s))
  BY <1>1, <1>2, <1>4 DEF UsedUp
<1> QED
  BY <1>3, <1>4

-----------------------------------------------------------------------------
\* The execution without choices.
LEMMA EmptyRun ==
    ASSUME NEW t, NEW x, NEW c
    PROVE  \E f : /\ IsRun(t, x, c, f, 0) /\ Fits(t, c, f, 0) /\ f[0] = Fresh(<< >>, 0)
                  /\ f[0].used = 0
<1> DEFINE f == [i \in {0} |-> Fresh(<< >>, 0)]
<1>1. f[0] = Fresh(<< >>, 0)
  OBVIOUS
<1>2. \A i \in 0 .. (0 - 1) : FALSE
  OBVIOUS
<1> HIDE DEF f
<1>3. f[0].used = 0
  BY <1>1 DEF Fresh, Conf
<1>4. IsRun(t, x, c, f, 0) /\ Fits(t, c, f, 0)
  BY <1>1, <1>2 DEF IsRun, Fits
<1> QED
  BY <1>1, <1>3, <1>4

\* One choice more for an execution that asks for it.
LEMMA ChartChild ==
    ASSUME NEW t, NEW x, NEW p \in Seq(Nat), NEW n \in Nat, NEW f,
           IsRun(t, x, p, f, n), Fits(t, p, f, n), f[n].used = Len(p), Ceil(t, f[n]) # 1,
           NEW v \in 0 .. (Ceil(t, f[n]) - 1)
    PROVE  Append(p, v) \in DOMAIN Chart(t, x)
<1> DEFINE d == Append(p, v)
<1>0. Len(p) \in Nat /\ v \in Nat
  OBVIOUS
<1>1. /\ d \in Seq(Nat) /\ Len(d) = Len(p) + 1 /\ d[Len(p) + 1] = v
      /\ \A k \in 1 .. Len(p) : d[k] = p[k]
  BY <1>0, AppendProperties
<1> HIDE DEF d
<1> DEFINE s == After(t, x, d, f[n])
           g == More(f, n, s)
<1>2. IsRun(t, x, d, f, n)
  BY <1>0, <1>1, RunTransfers
<1>3. ~Terminal(t, f[n]) /\ s.used = Len(d) /\ s.used <= Len(d) /\ Ceil(t, f[n]) \in Nat
  BY <1>0, <1>1, AskingUses
<1>4. /\ IsRun(t, x, d, g, n + 1) /\ g[n + 1] = s
      /\ \A i \in 0 .. n : g[i] = f[i]
  <2>1. IsRun(t, x, d, g, n + 1)
    BY <1>2, <1>3, RunGoesOn
  <2> HIDE DEF s
  <2> QED
    BY <2>1 DEF More
<1>u. \A b \in Nat : b <= n => \A a \in 0 .. b : f[a].used \in Nat /\ f[a].used <= f[b].used
  BY RunUses
<1> HIDE DEF s, g
<1>5. ASSUME NEW i \in 0 .. ((n + 1) - 1), Ceil(t, g[i]) # 1
      PROVE  d[g[i].used + 1] < Ceil(t, g[i])
  <2>0. i \in 0 .. n /\ g[i] = f[i]
    BY <1>4
  <2>1. CASE i = n
    <3>1. v < Ceil(t, f[n])
      BY <1>0, <1>3
    <3> QED
      BY <1>1, <2>0, <2>1, <3>1
  <2>2. CASE i # n
    <3>1. i \in 0 .. (n - 1)
      BY <2>0, <2>2
    <3>2. p[f[i].used + 1] < Ceil(t, f[i])
      BY <1>5, <2>0, <3>1 DEF Fits
    <3>3. f[i].used \in Nat /\ f[i + 1].used <= f[n].used /\ f[i + 1] = After(t, x, p, f[i])
      <4>1. i + 1 \in 0 .. n
        BY <3>1
      <4>2. f[i + 1] = After(t, x, p, f[i])
        BY <3>1 DEF IsRun
      <4> QED
        BY <1>u, <2>0, <4>1, <4>2
    <3>4. f[i + 1].used = f[i].used + 1
      BY <1>5, <2>0, <3>3, AskingUses
    <3>5. f[i].used + 1 \in 1 .. Len(p)
      BY <1>0, <3>3, <3>4
    <3> QED
      BY <1>1, <2>0, <3>2, <3>5, SMTT(30)
  <2> QED
    BY <2>1, <2>2
<1>6. Fits(t, d, g, n + 1)
  BY <1>5 DEF Fits
<1>7. n + 1 \in Nat /\ g[n + 1].used = Len(d)
  BY <1>3, <1>4
<1> QED
  BY <1>1, <1>4, <1>6, <1>7, ChartNode DEF d, Marks

\* The beginnings of an execution whose choices are below their ceilings.
LEMMA ChartPrefix ==
    ASSUME NEW t, NEW x, NEW p \in Seq(Nat), NEW n \in Nat, NEW f,
           IsRun(t, x, p, f, n), Fits(t, p, f, n), NEW k \in 0 .. n,
           NEW d \in Seq(Nat), f[k].used = Len(d), \A j \in 1 .. Len(d) : p[j] = d[j]
    PROVE  Marks(t, x, d, f[k])
<1>0. k \in Nat /\ Len(d) \in Nat
  OBVIOUS
<1>1. f[k].used <= Len(d) /\ \A j \in 1 .. f[k].used : p[j] = d[j]
  BY <1>0
<1>2. IsRun(t, x, d, f, k) /\ Fits(t, d, f, k)
  BY <1>1, RunPrefix
<1> QED
  BY <1>0, <1>2, ChartNode

\* The chart is a tree.
LEMMA ChartTree ==
    ASSUME NEW t, NEW x
    PROVE  IsTree(Chart(t, x))
<1>1. << >> \in DOMAIN Chart(t, x)
  <2>1. PICK f : IsRun(t, x, << >>, f, 0) /\ Fits(t, << >>, f, 0) /\ f[0].used = 0
    BY EmptyRun
  <2>2. << >> \in Seq(Nat) /\ Len(<< >>) = 0 /\ 0 \in Nat
    OBVIOUS
  <2> QED
    BY <2>1, <2>2, ChartNode DEF Marks
<1>2. ASSUME NEW p \in DOMAIN Chart(t, x), NEW v \in 0 .. (Chart(t, x)[p] - 1)
      PROVE  Append(p, v) \in DOMAIN Chart(t, x)
  <2>1. p \in Seq(Nat) /\ Chart(t, x)[p] # 0 /\ Chart(t, x)[p] \in Nat
    BY ChartRun
  <2>2. PICK s : Asks(t, x, p, s) /\ Chart(t, x)[p] = Ceil(t, s)
    BY <2>1, ChartRun
  <2>3. PICK n \in Nat : \E f : /\ IsRun(t, x, p, f, n) /\ Fits(t, p, f, n)
                                /\ f[n] = s /\ s.used = Len(p) /\ Ceil(t, s) # 1
    BY <2>2 DEF Asks
  <2>4. PICK f : /\ IsRun(t, x, p, f, n) /\ Fits(t, p, f, n)
                 /\ f[n] = s /\ s.used = Len(p) /\ Ceil(t, s) # 1
    BY <2>3
  <2> QED
    BY <2>1, <2>2, <2>4, ChartChild
<1>3. ASSUME NEW p \in DOMAIN Chart(t, x), NEW i \in 1 .. Len(p)
      PROVE  /\ SubSeq(p, 1, i - 1) \in DOMAIN Chart(t, x)
             /\ p[i] < Chart(t, x)[SubSeq(p, 1, i - 1)]
  <2>1. p \in Seq(Nat) /\ Len(p) \in Nat
    BY ChartRun
  <2>2. PICK n \in Nat : \E f : IsRun(t, x, p, f, n) /\ Fits(t, p, f, n) /\ f[n].used = Len(p)
    BY ChartRun
  <2>3. PICK f : IsRun(t, x, p, f, n) /\ Fits(t, p, f, n) /\ f[n].used = Len(p)
    BY <2>2
  <2>4. i \in Nat \ {0} /\ i <= f[n].used
    BY <2>1, <2>3
  <2>5. PICK k \in 0 .. (n - 1) : f[k].used = i - 1 /\ f[k + 1].used = i /\ Ceil(t, f[k]) # 1
    <3>1. \A j \in Nat \ {0} : j <= f[n].used => Crosses(t, f, n, j)
      BY <2>3, Crossing
    <3>2. Crosses(t, f, n, i)
      BY <2>4, <3>1, Zenon
    <3> QED
      BY <3>2 DEF Crosses
  <2> DEFINE d == SubSeq(p, 1, i - 1)
  <2>6. d \in Seq(Nat) /\ Len(d) = i - 1 /\ \A j \in 1 .. (i - 1) : p[j] = d[j]
    BY <2>1, SMTT(30)
  <2> HIDE DEF d
  <2>7. k \in 0 .. n /\ f[k].used = Len(d) /\ \A j \in 1 .. Len(d) : p[j] = d[j]
    BY <2>5, <2>6
  <2>8. d \in DOMAIN Chart(t, x) /\ Chart(t, x)[d] = Ceil(t, f[k])
    <3>1. Marks(t, x, d, f[k])
      BY <2>1, <2>3, <2>6, <2>7, ChartPrefix
    <3> QED
      BY <2>5, <3>1 DEF Marks
  <2>9. p[i] < Ceil(t, f[k])
    <3>1. p[f[k].used + 1] < Ceil(t, f[k]) /\ f[k].used + 1 = i
      BY <2>3, <2>5 DEF Fits
    <3> QED
      BY <3>1
  <2> QED
    BY <2>8, <2>9 DEF d
<1>4. \A p \in DOMAIN Chart(t, x) : p \in Seq(Nat) /\ Chart(t, x)[p] \in Nat \ {1}
  BY ChartRun
<1> QED
  BY <1>1, <1>2, <1>3, <1>4 DEF IsTree

\* An execution over choices on the chart has them below their ceilings.
LEMMA ChartFits ==
    ASSUME NEW t, NEW x, NEW c \in DOMAIN Chart(t, x), NEW m \in Nat, NEW g, IsRun(t, x, c, g, m)
    PROVE  Fits(t, c, g, m)
<1>1. c \in Seq(Nat) /\ Len(c) \in Nat
  BY ChartRun
<1>2. PICK n \in Nat : \E f : IsRun(t, x, c, f, n) /\ Fits(t, c, f, n) /\ f[n].used = Len(c)
  BY ChartRun
<1>3. PICK f : IsRun(t, x, c, f, n) /\ Fits(t, c, f, n) /\ f[n].used = Len(c)
  BY <1>2
<1>r. \A i \in Nat : i <= n /\ i <= m => f[i] = g[i]
  BY <1>3, RunsAgree
<1>u. \A b \in Nat : b <= m => \A a \in 0 .. b : g[a].used \in Nat /\ g[a].used <= g[b].used
  BY RunUses
<1>4. ASSUME NEW i \in 0 .. (m - 1), Ceil(t, g[i]) # 1
      PROVE  c[g[i].used + 1] < Ceil(t, g[i])
  <2>0. i \in Nat /\ i <= m /\ i + 1 \in Nat /\ i + 1 <= m
    OBVIOUS
  <2>1. g[i + 1] = After(t, x, c, g[i]) /\ g[i + 1].used <= Len(c)
    BY DEF IsRun
  <2>2. g[i].used \in Nat
    BY <1>u, <2>0
  <2>3. g[i].used + 1 <= Len(c)
    BY <1>4, <2>1, <2>2, AskingUses
  <2>4. CASE i < n
    <3>1. i \in 0 .. (n - 1) /\ f[i] = g[i]
      BY <1>r, <2>0, <2>4
    <3> QED
      BY <1>3, <1>4, <3>1 DEF Fits
  <2>5. CASE ~(i < n)
    <3>1. n \in 0 .. i /\ n <= m
      BY <2>0, <2>5
    <3>2. f[n] = g[n] /\ g[n].used <= g[i].used
      BY <1>r, <1>u, <2>0, <3>1
    <3> QED
      BY <1>1, <1>3, <2>2, <2>3, <3>2
  <2> QED
    BY <2>4, <2>5
<1> QED
  BY <1>4 DEF Fits

-----------------------------------------------------------------------------
(* What an execution does to the count when there are no extra failures    *)

\* The place s of an execution with the choices c.
Shaped(c, s) ==
    /\ s.used \in Nat /\ s.armed \in 0 .. 1 /\ s.over \in 0 .. 1 /\ s.x = 0 /\ s.choice = "any"
    /\ s.at \in {"run", "count"} /\ (s.armed = 1 => s.at = "run")
    /\ s.armed = 1 /\ s.over = 0 => s.gone \in Nat /\ s.gone <= Target(c, s.used)

\* Every step keeps to that ...
LEMMA AfterShaped ==
    ASSUME NEW t, NEW c \in Seq(Nat), NEW s, Shaped(c, s), After(t, 0, c, s).used <= Len(c)
    PROVE  Shaped(c, After(t, 0, c, s))
<1>0. /\ s.used \in Nat /\ s.armed \in 0 .. 1 /\ s.over \in 0 .. 1 /\ s.x = 0 /\ s.choice = "any"
      /\ s.at \in {"run", "count"} /\ (s.armed = 1 => s.at = "run")
      /\ (s.armed = 1 /\ s.over = 0 => s.gone \in Nat /\ s.gone <= Target(c, s.used))
  BY DEF Shaped
<1>1. After(t, 0, c, s).used = Consumed(t, s) /\ Consumed(t, s) \in Nat
  BY <1>0, UsedGrows
<1>c. ASSUME NEW h, NEW at \in {"run", "count"}, NEW u \in Nat
      PROVE  Shaped(c, Conf(h, at, 0, 0, "any", 0, 0, u))
  BY DEF Shaped, Conf
<1>2. CASE s.at = "count"
  <2>1. Target(c, Consumed(t, s)) \in Nat
    <3>1. Consumed(t, s) \in 0 .. Len(c)
      BY <1>1
    <3> QED
      BY <3>1, TargetIsNat
  <2>2. After(t, 0, c, s) = Conf(Append(s.h, 0), "run", 1, 0, "any", 0, 0, Consumed(t, s))
    BY <1>2 DEF After
  <2> QED
    BY <1>1, <2>1, <2>2 DEF Shaped, Conf
<1>3. CASE s.at # "count" /\ t[s.h] \in {"call", "return", "check"}
  <2>1. CASE t[s.h] = "call" /\ Value(t, c, s) # 0
    <3>1. After(t, 0, c, s) = Conf(s.h, "count", 0, 0, "any", 0, 0, s.used + 1) /\ s.used + 1 \in Nat
      BY <1>0, <1>3, <2>1 DEF After
    <3> QED
      BY <1>c, <3>1
  <2>2. CASE t[s.h] \in {"call", "return"} /\ ~(t[s.h] = "call" /\ Value(t, c, s) # 0)
    <3>1. After(t, 0, c, s) = Conf(Append(s.h, 0), "run", 0, 0, "any", 0, 0, Consumed(t, s))
      BY <1>3, <2>2 DEF After, Fresh
    <3> QED
      BY <1>c, <1>1, <3>1
  <2>3. CASE t[s.h] = "check"
    <3>1. /\ After(t, 0, c, s) = Conf(Append(s.h, IF Value(t, c, s) = 1 THEN 1 ELSE 0), "run",
                                      0, 0, "any", 0, 0, s.used + 1)
          /\ s.used + 1 \in Nat
      BY <1>0, <1>3, <2>3 DEF After, Fresh
    <3> QED
      BY <1>c, <3>1
  <2> QED
    BY <1>3, <2>1, <2>2, <2>3
<1>4. CASE s.at # "count" /\ t[s.h] \notin {"call", "return", "check"}
  <2>1. CASE ~Sees(t, s)
    <3>1. After(t, 0, c, s) = Conf(Append(s.h, 0), s.at, s.armed, s.gone, s.choice, s.x, s.over, s.used)
      BY <1>4, <2>1 DEF After
    <3> QED
      BY <1>0, <3>1 DEF Shaped, Conf
  <2>2. CASE Sees(t, s) /\ s.gone # Target(c, s.used)
    <3>1. After(t, 0, c, s) = Conf(Append(s.h, 0), s.at, s.armed, s.gone + 1, s.choice, s.x, s.over, s.used)
      BY <1>4, <2>2 DEF After
    <3>2. s.armed = 1 /\ s.over = 0
      BY <2>2 DEF Sees
    <3>3. Target(c, s.used) \in Nat
      <4>1. s.used \in 0 .. Len(c)
        BY <1>0, <3>1 DEF Conf
      <4> QED
        BY <4>1, TargetIsNat
    <3>4. s.gone + 1 \in Nat /\ s.gone + 1 <= Target(c, s.used)
      BY <1>0, <2>2, <3>2, <3>3
    <3> QED
      BY <1>0, <3>1, <3>2, <3>4 DEF Shaped, Conf
  <2>3. CASE Sees(t, s) /\ s.gone = Target(c, s.used)
    <3>1. After(t, 0, c, s) = Conf(Append(s.h, 1), s.at, s.armed, s.gone, s.choice, s.x, 1, s.used)
      BY <1>0, <1>4, <2>3 DEF After
    <3> QED
      BY <1>0, <3>1 DEF Shaped, Conf
  <2> QED
    BY <2>1, <2>2, <2>3
<1> QED
  BY <1>2, <1>3, <1>4

\* ... so that all of the places of an execution do.
LEMMA RunShaped ==
    ASSUME NEW t, NEW c \in Seq(Nat), NEW n \in Nat, NEW f, IsRun(t, 0, c, f, n)
    PROVE  \A k \in Nat : k <= n => Shaped(c, f[k])
<1> DEFINE S == {k \in Nat : k <= n => Shaped(c, f[k])}
<1>1. 0 \in S
  BY DEF IsRun, Fresh, Conf, Shaped
<1>2. ASSUME NEW k \in Nat, k \in S PROVE k + 1 \in S
  <2>1. SUFFICES ASSUME k + 1 <= n PROVE Shaped(c, f[k + 1])
    OBVIOUS
  <2>2. k \in 0 .. (n - 1) /\ Shaped(c, f[k])
    BY <1>2, <2>1
  <2>3. f[k + 1] = After(t, 0, c, f[k]) /\ f[k + 1].used <= Len(c)
    BY <2>2 DEF IsRun
  <2> QED
    BY <2>2, <2>3, AfterShaped
<1> HIDE DEF S
<1>3. \A k \in Nat : k \in S
  BY <1>1, <1>2, Induction
<1> QED
  BY <1>3 DEF S

\* How an execution comes to a place where the record is armed and has not
\* failed: the count was drawn, or it was such a place before, and would be for
\* any larger count.
LEMMA ArmedBefore ==
    ASSUME NEW t, NEW c, NEW s, Shaped(c, s), Target(c, s.used) \in Nat,
           After(t, 0, c, s).armed = 1, After(t, 0, c, s).over = 0, s.at # "count"
    PROVE  /\ s.armed = 1 /\ s.over = 0 /\ After(t, 0, c, s).used = s.used
           /\ \A d : Target(d, s.used) \in Nat /\ Target(c, s.used) <= Target(d, s.used)
                       => After(t, 0, d, s) = After(t, 0, c, s)
<1>0. s.used \in Nat /\ s.armed \in 0 .. 1 /\ s.over \in 0 .. 1 /\ s.x = 0
  BY DEF Shaped
<1>1. t[s.h] \notin {"call", "return", "check"}
  BY DEF After, Fresh, Conf
<1>2. CASE ~Sees(t, s)
  <2>1. \A d : After(t, 0, d, s) = Conf(Append(s.h, 0), s.at, s.armed, s.gone, s.choice, s.x, s.over, s.used)
    BY <1>1, <1>2 DEF After
  <2> QED
    BY <2>1, SMTT(30) DEF Conf
<1>3. CASE Sees(t, s)
  <2>1. s.armed = 1 /\ s.over = 0 /\ s.gone \in Nat /\ s.gone <= Target(c, s.used)
    BY <1>3 DEF Sees, Shaped
  <2>2. s.gone # Target(c, s.used)
    <3>1. SUFFICES ASSUME s.gone = Target(c, s.used) PROVE FALSE
      OBVIOUS
    <3>2. After(t, 0, c, s) = Conf(Append(s.h, 1), s.at, s.armed, s.gone, s.choice, s.x, 1, s.used)
      BY <1>0, <1>1, <1>3, <3>1 DEF After
    <3> QED
      BY <3>2 DEF Conf
  <2>3. \A d : s.gone # Target(d, s.used) =>
          After(t, 0, d, s) = Conf(Append(s.h, 0), s.at, s.armed, s.gone + 1, s.choice, s.x, s.over, s.used)
    BY <1>1, <1>3 DEF After
  <2>4. After(t, 0, c, s) = Conf(Append(s.h, 0), s.at, s.armed, s.gone + 1, s.choice, s.x, s.over, s.used)
    BY <2>2, <2>3
  <2>5. ASSUME NEW d, Target(d, s.used) \in Nat, Target(c, s.used) <= Target(d, s.used)
        PROVE  After(t, 0, d, s) = After(t, 0, c, s)
    <3>1. s.gone # Target(d, s.used)
      BY <2>1, <2>2, <2>5
    <3> QED
      BY <2>3, <2>4, <3>1
  <2> QED
    BY <2>1, <2>4, <2>5 DEF Conf
<1> QED
  BY <1>2, <1>3

\* The beginning of an execution is one.
LEMMA RunShorter ==
    ASSUME NEW t, NEW x, NEW c, NEW n \in Nat, NEW f, IsRun(t, x, c, f, n), NEW k \in Nat, k <= n
    PROVE  IsRun(t, x, c, f, k)
<1>1. \A i \in 0 .. (k - 1) : i \in 0 .. (n - 1)
  OBVIOUS
<1> QED
  BY <1>1 DEF IsRun

\* The choices d have the same beginning as c, but for a larger one at u.
Larger(c, d, u) ==
    /\ u \in Nat \ {0} /\ u <= Len(c) /\ u <= Len(d)
    /\ (\A k \in 1 .. (u - 1) : c[k] = d[k]) /\ c[u] <= d[u]

\* An armed call in which nothing has failed so far goes on in the same way
\* when a larger count is drawn for it.
LEMMA Robust ==
    ASSUME NEW t, NEW c \in Seq(Nat), NEW n \in Nat, NEW f, IsRun(t, 0, c, f, n),
           f[n].armed = 1, f[n].over = 0, MaxPoints # 1,
           NEW d \in Seq(Nat), Larger(c, d, f[n].used)
    PROVE  IsRun(t, 0, d, f, n)
<1>u. PICK u \in Nat \ {0} : u = f[n].used
  BY DEF Larger
<1>l. Len(c) \in Nat /\ Len(d) \in Nat
  OBVIOUS
<1>p. u <= Len(c) /\ u <= Len(d) /\ (\A k \in 1 .. (u - 1) : c[k] = d[k])
  BY <1>u DEF Larger
<1>t. /\ Target(c, u) \in Nat /\ Target(d, u) \in Nat
      /\ Target(c, u) <= Target(d, u)
  <2>1. u \in 0 .. Len(c) /\ u \in 0 .. Len(d)
    BY <1>l, <1>p
  <2>2. Target(c, u) \in Nat /\ Target(d, u) \in Nat
    BY <2>1, TargetIsNat
  <2>3. Target(c, u) = c[u] /\ Target(d, u) = d[u]
    BY DEF Target
  <2>4. c[u] <= d[u]
    BY <1>u DEF Larger
  <2> QED
    BY <2>2, <2>3, <2>4
<1> DEFINE S == {k \in Nat : k <= n /\ f[k].armed = 1 /\ f[k].over = 0 /\ f[k].used = u => IsRun(t, 0, d, f, k)}
<1>1. 0 \in S
  <2>1. f[0].used = 0
    BY DEF IsRun, Fresh, Conf
  <2> QED
    BY <2>1
<1>s. \A k \in Nat : k <= n => Shaped(c, f[k])
  BY RunShaped
<1>2. ASSUME NEW k \in Nat, k \in S PROVE k + 1 \in S
  <2>1. SUFFICES ASSUME k + 1 <= n, f[k + 1].armed = 1, f[k + 1].over = 0, f[k + 1].used = u
                 PROVE  IsRun(t, 0, d, f, k + 1)
    OBVIOUS
  <2>2. k \in 0 .. (n - 1) /\ k <= n /\ Shaped(c, f[k])
    BY <1>s, <2>1
  <2>3. f[k + 1] = After(t, 0, c, f[k]) /\ ~Terminal(t, f[k])
    BY <2>2 DEF IsRun
  <2>4. f[k].used \in Nat
    BY <2>2 DEF Shaped
  <2>5. IsRun(t, 0, c, f, k)
    BY <2>2, RunShorter
  <2>6. IsRun(t, 0, d, f, k) /\ f[k + 1] = After(t, 0, d, f[k])
    <3>1. CASE f[k].at = "count"
      <4>1. f[k].used = u - 1
        <5>1. Ceil(t, f[k]) # 1
          BY <3>1 DEF Ceil
        <5>2. After(t, 0, c, f[k]).used = f[k].used + 1
          BY <2>4, <5>1, AskingUses
        <5>3. f[k + 1].used = f[k].used + 1
          BY <2>3, <5>2
        <5>4. u = f[k].used + 1
          BY <2>1, <5>3
        <5> QED
          BY <2>4, <5>4
      <4>2. f[k].used <= Len(d) /\ \A j \in 1 .. f[k].used : c[j] = d[j]
        BY <1>l, <1>p, <4>1
      <4>3. IsRun(t, 0, d, f, k)
        BY <1>l, <2>5, <4>2, RunTransfers
      <4>4. After(t, 0, d, f[k]) = After(t, 0, c, f[k])
        BY <3>1 DEF After
      <4> QED
        BY <2>3, <4>3, <4>4
    <3>2. CASE f[k].at # "count"
      <4>1. Target(c, f[k].used) \in Nat
        <5>1. f[k].used \in 0 .. Len(c)
          <6>1. f[k].used <= f[k + 1].used
            BY <2>3, <2>4, UsedGrows
          <6> QED
            BY <1>l, <1>p, <2>1, <2>4, <6>1
        <5> QED
          BY <5>1, TargetIsNat
      <4>2. /\ f[k].armed = 1 /\ f[k].over = 0 /\ f[k].used = u
            /\ \A b : Target(b, f[k].used) \in Nat /\ Target(c, f[k].used) <= Target(b, f[k].used)
                        => After(t, 0, b, f[k]) = After(t, 0, c, f[k])
        <5>1. PICK s : s = f[k]
          OBVIOUS
        <5>2. /\ Shaped(c, s) /\ Target(c, s.used) \in Nat /\ s.at # "count"
              /\ After(t, 0, c, s).armed = 1 /\ After(t, 0, c, s).over = 0 /\ After(t, 0, c, s).used = u
          BY <2>1, <2>2, <2>3, <3>2, <4>1, <5>1
        <5>3. /\ s.armed = 1 /\ s.over = 0 /\ After(t, 0, c, s).used = s.used
              /\ \A b : Target(b, s.used) \in Nat /\ Target(c, s.used) <= Target(b, s.used)
                          => After(t, 0, b, s) = After(t, 0, c, s)
          BY <5>2, ArmedBefore
        <5> QED
          BY <5>1, <5>2, <5>3
      <4>3. IsRun(t, 0, d, f, k)
        BY <1>2, <2>2, <4>2
      <4>4. After(t, 0, d, f[k]) = After(t, 0, c, f[k])
        BY <1>t, <4>2
      <4> QED
        BY <2>3, <4>3, <4>4
    <3> QED
      BY <3>1, <3>2
  <2>7. ASSUME NEW i \in 0 .. ((k + 1) - 1)
        PROVE  ~Terminal(t, f[i]) /\ f[i + 1] = After(t, 0, d, f[i]) /\ f[i + 1].used <= Len(d)
    <3>1. CASE i = k
      BY <1>p, <2>1, <2>3, <2>6, <3>1
    <3>2. CASE i # k
      <4>1. i \in 0 .. (k - 1)
        BY <3>2
      <4> QED
        BY <2>6, <4>1 DEF IsRun
    <3> QED
      BY <3>1, <3>2
  <2> QED
    BY <2>6, <2>7 DEF IsRun
<1> HIDE DEF S
<1>3. \A k \in Nat : k \in S
  BY <1>1, <1>2, Induction
<1>4. n \in S
  BY <1>3
<1> QED
  BY <1>u, <1>4 DEF S

-----------------------------------------------------------------------------
\* The last choice used at step k was asked for with this ceiling.
AskedFor(t, f, k, ceil) ==
    \E j \in 0 .. (k - 1) : f[j].used + 1 = f[k].used /\ Ceil(t, f[j]) = ceil

\* What has been drawn last where a count is to be drawn, and where the record
\* is armed.
Asked(t, c, f, k) ==
    /\ f[k].at = "count" => AskedFor(t, f, k, 2) /\ c[f[k].used] # 0
    /\ f[k].armed = 1 /\ MaxPoints = 1 => AskedFor(t, f, k, 2) /\ c[f[k].used] # 0
    /\ f[k].armed = 1 /\ MaxPoints # 1 => AskedFor(t, f, k, MaxPoints)

\* A step without a choice keeps it.
LEMMA AskedStays ==
    ASSUME NEW t, NEW f, NEW k \in Nat, NEW ceil, AskedFor(t, f, k, ceil), f[k + 1].used = f[k].used
    PROVE  AskedFor(t, f, k + 1, ceil)
<1>1. PICK j \in 0 .. (k - 1) : f[j].used + 1 = f[k].used /\ Ceil(t, f[j]) = ceil
  BY DEF AskedFor
<1>2. j \in 0 .. ((k + 1) - 1) /\ f[j].used + 1 = f[k + 1].used
  BY <1>1
<1> QED
  BY <1>1, <1>2, Zenon DEF AskedFor

\* A step with one replaces it.
LEMMA AskedNow ==
    ASSUME NEW t, NEW f, NEW k \in Nat, f[k + 1].used = f[k].used + 1
    PROVE  AskedFor(t, f, k + 1, Ceil(t, f[k]))
<1>1. k \in 0 .. ((k + 1) - 1)
  OBVIOUS
<1> QED
  BY <1>1 DEF AskedFor

\* All along an execution.
LEMMA RunAsked ==
    ASSUME NEW t, NEW c \in Seq(Nat), NEW n \in Nat, NEW f, IsRun(t, 0, c, f, n)
    PROVE  \A k \in Nat : k <= n => Asked(t, c, f, k)
<1> DEFINE S == {k \in Nat : k <= n => Asked(t, c, f, k)}
<1>1. 0 \in S
  BY DEF IsRun, Fresh, Conf, Asked
<1>s. \A k \in Nat : k <= n => Shaped(c, f[k])
  BY RunShaped
<1>2. ASSUME NEW k \in Nat, k \in S PROVE k + 1 \in S
  <2>1. SUFFICES ASSUME k + 1 <= n PROVE Asked(t, c, f, k + 1)
    OBVIOUS
  <2>2. k \in 0 .. (n - 1) /\ Shaped(c, f[k]) /\ Asked(t, c, f, k)
    BY <1>2, <1>s, <2>1
  <2>3. PICK s : s = f[k]
    OBVIOUS
  <2>4. PICK r : r = f[k + 1]
    OBVIOUS
  <2>5. r = After(t, 0, c, s) /\ Shaped(c, s)
    BY <2>2, <2>3, <2>4 DEF IsRun
  <2>6. s.used \in Nat /\ s.at \in {"run", "count"} /\ s.armed \in 0 .. 1
    BY <2>5 DEF Shaped
  <2>7. /\ Ceil(t, s) # 1 => r.used = s.used + 1
        /\ Ceil(t, s) = 1 => r.used = s.used
    BY <2>5, <2>6, AskingUses
  <2>8. CASE s.at = "count" /\ MaxPoints # 1
    <3>1. Ceil(t, s) = MaxPoints /\ r.used = s.used + 1 /\ r.at = "run" /\ r.armed = 1
      BY <2>5, <2>7, <2>8 DEF Ceil, After, Conf
    <3>2. AskedFor(t, f, k + 1, MaxPoints)
      BY <2>3, <2>4, <3>1, AskedNow
    <3> QED
      BY <2>4, <2>8, <3>1, <3>2 DEF Asked
  <2>9. CASE s.at = "count" /\ MaxPoints = 1
    <3>1. r.used = s.used /\ r.at = "run" /\ r.armed = 1
      BY <2>5, <2>7, <2>9 DEF Ceil, After, Conf
    <3>2. AskedFor(t, f, k, 2) /\ c[s.used] # 0
      BY <2>2, <2>3, <2>9 DEF Asked
    <3>3. AskedFor(t, f, k + 1, 2) /\ c[r.used] # 0
      BY <2>3, <2>4, <3>1, <3>2, AskedStays
    <3> QED
      BY <2>4, <2>9, <3>1, <3>3 DEF Asked
  <2>10. CASE s.at # "count" /\ t[s.h] = "call" /\ Value(t, c, s) # 0
    <3>1. Ceil(t, s) = 2 /\ r.used = s.used + 1 /\ r.at = "count" /\ r.armed = 0 /\ c[s.used + 1] # 0
      BY <2>5, <2>7, <2>10 DEF Ceil, After, Conf, Value
    <3>2. AskedFor(t, f, k + 1, 2) /\ c[r.used] # 0
      BY <2>3, <2>4, <3>1, AskedNow
    <3> QED
      BY <2>4, <3>1, <3>2 DEF Asked
  <2>11. CASE /\ s.at # "count" /\ t[s.h] \in {"call", "return", "check"}
              /\ ~(t[s.h] = "call" /\ Value(t, c, s) # 0)
    <3>1. r.at = "run" /\ r.armed = 0
      BY <2>5, <2>11 DEF After, Fresh, Conf
    <3> QED
      BY <2>4, <3>1 DEF Asked
  <2>12. CASE s.at # "count" /\ t[s.h] \notin {"call", "return", "check"}
    <3>1. r.at = s.at /\ r.armed = s.armed
      BY <2>5, <2>12 DEF After, Conf
    <3>2. r.used = s.used
      BY <2>7, <2>12 DEF Ceil
    <3>3. \A ceil : AskedFor(t, f, k, ceil) => AskedFor(t, f, k + 1, ceil)
      BY <2>3, <2>4, <3>2, AskedStays
    <3> QED
      BY <2>2, <2>3, <2>4, <2>12, <3>1, <3>2, <3>3 DEF Asked
  <2> QED
    BY <2>8, <2>9, <2>10, <2>11, <2>12
<1> HIDE DEF S
<1>3. \A k \in Nat : k \in S
  BY <1>1, <1>2, Induction
<1> QED
  BY <1>3 DEF S

\* What the chart says where the last choice has been drawn.
LEMMA ChartAsked ==
    ASSUME NEW t, NEW x, NEW c \in Seq(Nat), NEW n \in Nat, NEW f, IsRun(t, x, c, f, n),
           Fits(t, c, f, n), NEW ceil, ceil # 1, AskedFor(t, f, n, ceil)
    PROVE  /\ f[n].used \in 1 .. Len(c)
           /\ Chart(t, x)[SubSeq(c, 1, f[n].used - 1)] = ceil
           /\ c[f[n].used] < ceil
<1>1. PICK j \in 0 .. (n - 1) : f[j].used + 1 = f[n].used /\ Ceil(t, f[j]) = ceil
  BY DEF AskedFor
<1>u. \A b \in Nat : b <= n => \A a \in 0 .. b : f[a].used \in Nat /\ f[a].used <= f[b].used
  BY RunUses
<1>2. j \in 0 .. n /\ j + 1 \in 0 .. n /\ n \in 0 .. n /\ n <= n
  OBVIOUS
<1>3. f[j].used \in Nat /\ f[j + 1].used \in Nat /\ f[n].used \in Nat
  BY <1>u, <1>2
<1>4. f[n].used <= Len(c)
  <2>1. n - 1 \in 0 .. (n - 1) /\ (n - 1) + 1 = n
    BY <1>1
  <2>2. f[(n - 1) + 1].used <= Len(c)
    BY <2>1 DEF IsRun
  <2> QED
    BY <2>1, <2>2
<1>5. Len(c) \in Nat
  OBVIOUS
<1>6. f[n].used \in 1 .. Len(c)
  BY <1>1, <1>3, <1>4, <1>5
<1> DEFINE d == SubSeq(c, 1, f[n].used - 1)
<1>7. d \in Seq(Nat) /\ Len(d) = f[n].used - 1 /\ \A i \in 1 .. (f[n].used - 1) : c[i] = d[i]
  BY <1>6, SMTT(30)
<1> HIDE DEF d
<1>8. f[j].used = Len(d) /\ \A i \in 1 .. Len(d) : c[i] = d[i]
  BY <1>1, <1>3, <1>7, SMTT(30)
<1>9. Marks(t, x, d, f[j])
  BY <1>2, <1>7, <1>8, ChartPrefix
<1>10. c[f[j].used + 1] < Ceil(t, f[j])
  BY <1>1 DEF Fits
<1> QED
  BY <1>1, <1>6, <1>9, <1>10 DEF Marks, d

-----------------------------------------------------------------------------
(* Lists of choices in which calls that do not fail have the largest count *)

\* A call that did not fail at s had the largest count, ...
Settles(t, c, s) == Unfailing(t, s) => Target(c, s.used) = MaxPoints - 1
\* ... as all such calls of an execution, ...
Settled(t, c, f, n) == \A i \in 0 .. (n - 1) : Settles(t, c, f[i])
OnSettled(t, c, s) ==
    \E n \in Nat : \E f : IsRun(t, 0, c, f, n) /\ f[n] = s /\ Settled(t, c, f, n)
\* ... and all that the choices c, but for the last one, lead to.
Kept(t, c) == \A s : OnRun(t, 0, c, s) /\ s.used < Len(c) => Settles(t, c, s)

\* It depends on the choices used only.
LEMMA SettlesSame ==
    ASSUME NEW t, NEW c, NEW d, NEW s, s.used \in Nat, \A k \in 1 .. s.used : c[k] = d[k]
    PROVE  Settles(t, c, s) <=> Settles(t, d, s)
<1>1. s.used # 0 => s.used \in 1 .. s.used
  OBVIOUS
<1>2. Target(c, s.used) = Target(d, s.used)
  BY <1>1 DEF Target
<1> QED
  BY <1>2 DEF Settles

\* The same for the calls of an execution.
LEMMA SettledSame ==
    ASSUME NEW t, NEW c, NEW d, NEW n \in Nat, NEW f, IsRun(t, 0, c, f, n), Settled(t, c, f, n),
           \A k \in 1 .. f[n].used : c[k] = d[k]
    PROVE  Settled(t, d, f, n)
<1>u. \A b \in Nat : b <= n => \A a \in 0 .. b : f[a].used \in Nat /\ f[a].used <= f[b].used
  BY RunUses
<1>1. ASSUME NEW i \in 0 .. (n - 1) PROVE Settles(t, d, f[i])
  <2>1. i \in 0 .. n /\ n \in 0 .. n /\ n <= n
    OBVIOUS
  <2>2. f[i].used \in Nat /\ f[i].used <= f[n].used /\ f[n].used \in Nat
    BY <1>u, <2>1
  <2>3. \A k \in 1 .. f[i].used : c[k] = d[k]
    BY <2>2
  <2>4. Settles(t, c, f[i])
    BY DEF Settled
  <2> QED
    BY <2>2, <2>3, <2>4, SettlesSame
<1> QED
  BY <1>1 DEF Settled

\* A step after one that settles.
LEMMA SettledMore ==
    ASSUME NEW t, NEW c, NEW n \in Nat, NEW f, NEW s, IsRun(t, 0, c, More(f, n, s), n + 1),
           Settled(t, c, f, n), Settles(t, c, f[n])
    PROVE  OnSettled(t, c, s)
<1> DEFINE g == More(f, n, s)
<1>1. g[n + 1] = s /\ \A i \in 0 .. n : g[i] = f[i]
  BY DEF More
<1> HIDE DEF g
<1>2. ASSUME NEW i \in 0 .. ((n + 1) - 1) PROVE Settles(t, c, g[i])
  <2>1. i \in 0 .. n /\ (i = n \/ i \in 0 .. (n - 1))
    OBVIOUS
  <2> QED
    BY <1>1, <2>1 DEF Settled
<1>3. Settled(t, c, g, n + 1)
  BY <1>2 DEF Settled
<1>4. n + 1 \in Nat /\ IsRun(t, 0, c, g, n + 1)
  BY DEF g
<1> QED
  BY <1>1, <1>3, <1>4, Zenon DEF OnSettled

\* A list that is the same but for its last choice.
LEMMA KeptShorter ==
    ASSUME NEW t, NEW c \in Seq(Nat), NEW d \in Seq(Nat), Kept(t, c), Len(d) <= Len(c),
           \A k \in 1 .. (Len(d) - 1) : c[k] = d[k]
    PROVE  Kept(t, d)
<1>l. Len(c) \in Nat /\ Len(d) \in Nat
  OBVIOUS
<1>1. SUFFICES ASSUME NEW s, OnRun(t, 0, d, s), s.used < Len(d) PROVE Settles(t, d, s)
  BY DEF Kept
<1>2. PICK n \in Nat : \E f : IsRun(t, 0, d, f, n) /\ f[n] = s
  BY <1>1 DEF OnRun
<1>3. PICK f : IsRun(t, 0, d, f, n) /\ f[n] = s
  BY <1>2
<1>u. \A b \in Nat : b <= n => \A a \in 0 .. b : f[a].used \in Nat /\ f[a].used <= f[b].used
  BY <1>3, RunUses
<1>4. s.used \in Nat
  <2>1. n \in 0 .. n /\ n <= n
    OBVIOUS
  <2> QED
    BY <1>3, <1>u, <2>1
<1>5. /\ f[n].used <= Len(c) /\ s.used < Len(c)
      /\ \A k \in 1 .. s.used : d[k] = c[k]
  BY <1>1, <1>3, <1>4, <1>l
<1>6. IsRun(t, 0, c, f, n)
  BY <1>3, <1>5, <1>l, RunTransfers
<1>7. OnRun(t, 0, c, s)
  BY <1>3, <1>6, Zenon DEF OnRun
<1>8. Settles(t, c, s)
  BY <1>5, <1>7 DEF Kept
<1> QED
  BY <1>4, <1>5, <1>8, SettlesSame

\* A list with one choice more.
LEMMA KeptAppend ==
    ASSUME NEW t, NEW c \in Seq(Nat), Kept(t, c), NEW n \in Nat, NEW f, IsRun(t, 0, c, f, n),
           Settled(t, c, f, n), f[n].used = Len(c), Ceil(t, f[n]) # 1
    PROVE  Kept(t, Append(c, 0))
<1> DEFINE d == Append(c, 0)
<1>l. Len(c) \in Nat
  OBVIOUS
<1>d. /\ d \in Seq(Nat) /\ Len(d) = Len(c) + 1 /\ \A k \in 1 .. Len(c) : d[k] = c[k]
  BY AppendProperties
<1> HIDE DEF d
<1>1. SUFFICES ASSUME NEW s, OnRun(t, 0, d, s), s.used < Len(d) PROVE Settles(t, d, s)
  BY DEF Kept, d
<1>2. PICK m \in Nat : \E g : IsRun(t, 0, d, g, m) /\ g[m] = s
  BY <1>1 DEF OnRun
<1>3. PICK g : IsRun(t, 0, d, g, m) /\ g[m] = s
  BY <1>2
<1>u. \A b \in Nat : b <= m => \A a \in 0 .. b : g[a].used \in Nat /\ g[a].used <= g[b].used
  BY <1>3, RunUses
<1>4. s.used \in Nat
  <2>1. m \in 0 .. m /\ m <= m
    OBVIOUS
  <2> QED
    BY <1>3, <1>u, <2>1
<1>5. s.used <= Len(c) /\ \A k \in 1 .. s.used : d[k] = c[k]
  BY <1>1, <1>4, <1>d, <1>l
<1>6. IsRun(t, 0, c, g, m)
  <2>1. g[m].used <= Len(c) /\ \A k \in 1 .. g[m].used : d[k] = c[k]
    BY <1>3, <1>5
  <2> QED
    BY <1>3, <1>l, <2>1, RunTransfers
<1>7. m <= n
  BY <1>6, AskingStops
<1>8. Settles(t, c, s)
  <2>1. \A i \in Nat : i <= n /\ i <= m => f[i] = g[i]
    BY <1>6, RunsAgree
  <2>2. f[m] = s
    BY <1>3, <1>7, <2>1
  <2>3. CASE m = n
    BY <2>2, <2>3 DEF Settles, Unfailing, Ceil
  <2>4. CASE m # n
    <3>1. m \in 0 .. (n - 1)
      BY <1>7, <2>4
    <3> QED
      BY <2>2, <3>1 DEF Settled
  <2> QED
    BY <2>3, <2>4
<1> QED
  BY <1>4, <1>5, <1>8, SettlesSame

-----------------------------------------------------------------------------
(* The search follows the chart                                            *)

\* The object of the search follows the chart.
LEMMA ChartFollowed ==
    ASSUME NEW t, NEW r, Follows(Chart(t, 0), r)
    PROVE  /\ r.choices \in Seq(Nat) /\ r.ceils \in Seq(Nat) /\ r.cur \in Nat
           /\ Len(r.choices) \in Nat /\ Len(r.ceils) = Len(r.choices) /\ r.cur <= Len(r.choices)
           /\ r.choices \in DOMAIN Chart(t, 0)
           /\ \A i \in 1 .. Len(r.choices) : r.ceils[i] = Chart(t, 0)[SubSeq(r.choices, 1, i - 1)]
BY DEF Follows

\* The node to which an execution of the search has come.
LEMMA ChartAt ==
    ASSUME NEW t, NEW r, Follows(Chart(t, 0), r),
           NEW n \in Nat, NEW f, IsRun(t, 0, r.choices, f, n), f[n].used = r.cur
    PROVE  \E p \in DOMAIN Chart(t, 0) : At(r, p) /\ Marks(t, 0, p, f[n])
<1>1. /\ r.choices \in Seq(Nat) /\ r.cur \in Nat /\ Len(r.choices) \in Nat
      /\ r.cur <= Len(r.choices) /\ r.choices \in DOMAIN Chart(t, 0)
  BY ChartFollowed
<1>2. PICK c \in Seq(Nat) : c = r.choices
  BY <1>1
<1>3. PICK u \in 0 .. Len(c) : u = r.cur
  BY <1>1, <1>2
<1> DEFINE p == SubSeq(c, 1, u)
<1>4. p \in Seq(Nat) /\ Len(p) = u /\ \A i \in 1 .. u : c[i] = p[i]
  BY SMTT(30)
<1> HIDE DEF p
<1>5. Fits(t, c, f, n)
  BY <1>1, <1>2, ChartFits
<1>6. n \in 0 .. n /\ f[n].used = Len(p) /\ \A j \in 1 .. Len(p) : c[j] = p[j]
  BY <1>3, <1>4
<1>7. Marks(t, 0, p, f[n])
  <2>1. IsRun(t, 0, c, f, n)
    BY <1>2
  <2> QED
    BY <1>4, <1>5, <1>6, <2>1, ChartPrefix
<1>8. At(r, p)
  BY <1>2, <1>3, <1>4 DEF At
<1>9. p \in DOMAIN Chart(t, 0)
  BY <1>7 DEF Marks
<1> QED
  BY <1>7, <1>8, <1>9

\* The object after a draw: it follows, keeps and leaves to come what it did.
LEMMA DrawCharted ==
    ASSUME NEW t, NEW r, Follows(Chart(t, 0), r), Kept(t, r.choices),
           NEW n \in Nat, NEW f, IsRun(t, 0, r.choices, f, n), f[n].used = r.cur,
           Settled(t, r.choices, f, n)
    PROVE  /\ Follows(Chart(t, 0), EnumRandom(r, Ceil(t, f[n])))
           /\ Kept(t, EnumRandom(r, Ceil(t, f[n])).choices)
           /\ Settled(t, EnumRandom(r, Ceil(t, f[n])).choices, f, n)
           /\ \A q \in DOMAIN Chart(t, 0) : Chart(t, 0)[q] = 0 =>
                (ToCome(EnumRandom(r, Ceil(t, f[n])), q) <=> ToCome(r, q))
<1>1. /\ r.choices \in Seq(Nat) /\ r.ceils \in Seq(Nat) /\ r.cur \in Nat
      /\ Len(r.choices) \in Nat /\ Len(r.ceils) = Len(r.choices) /\ r.cur <= Len(r.choices)
  BY ChartFollowed
<1>2. PICK c \in Seq(Nat) : c = r.choices
  BY <1>1
<1>3. PICK ceil : ceil = Ceil(t, f[n])
  OBVIOUS
<1>4. PICK r2 : r2 = EnumRandom(r, ceil)
  OBVIOUS
<1>5. CASE ceil = 1
  <2>1. r2 = r
    BY <1>4, <1>5 DEF EnumRandom
  <2> QED
    BY <1>3, <1>4, <2>1
<1>6. CASE ceil # 1
  <2>1. PICK p \in DOMAIN Chart(t, 0) : At(r, p) /\ Marks(t, 0, p, f[n])
    BY ChartAt
  <2>2. Chart(t, 0)[p] = ceil /\ ceil \in Nat
    <3>1. Ceil(t, f[n]) \in Nat
      BY <1>1, AskingUses
    <3> QED
      BY <1>3, <1>6, <2>1, <3>1 DEF Marks
  <2>3. ceil # 0
    BY <1>1, <1>3, AskingUses
  <2>4. PICK T : T = Chart(t, 0)
    OBVIOUS
  <2>5. /\ Follows(T, r2)
        /\ \A q \in DOMAIN T : T[q] = 0 => (ToCome(r2, q) <=> ToCome(r, q))
    BY <1>4, <2>1, <2>2, <2>3, <2>4, DrawFollows
  <2>6. r2.choices = IF r.cur < Len(c) THEN c ELSE Append(c, 0)
    BY <1>1, <1>2, <1>4, <1>6 DEF EnumRandom
  <2>7. IsRun(t, 0, c, f, n) /\ Settled(t, c, f, n) /\ Kept(t, c)
    BY <1>2
  <2>8. Kept(t, r2.choices)
    <3>1. CASE r.cur < Len(c)
      BY <2>6, <2>7, <3>1
    <3>2. CASE ~(r.cur < Len(c))
      <4>1. f[n].used = Len(c) /\ Ceil(t, f[n]) # 1
        BY <1>1, <1>2, <1>3, <1>6, <3>2
      <4> QED
        BY <2>6, <2>7, <3>2, <4>1, KeptAppend
    <3> QED
      BY <3>1, <3>2
  <2>9. Settled(t, r2.choices, f, n)
    <3>1. \A k \in 1 .. f[n].used : c[k] = r2.choices[k]
      <4>1. \A k \in 1 .. Len(c) : c[k] = Append(c, 0)[k]
        BY AppendProperties
      <4> QED
        BY <1>1, <1>2, <2>6, <4>1
    <3>2. PICK d : d = r2.choices
      OBVIOUS
    <3> QED
      BY <2>7, <3>1, <3>2, SettledSame
  <2> QED
    BY <1>3, <1>4, <2>4, <2>5, <2>8, <2>9
<1> QED
  BY <1>5, <1>6

-----------------------------------------------------------------------------
\* The lists of choices with which the transition ends, having used all of
\* them, and in which calls that do not fail have the largest count: these are
\* what is left of the chart when the rest of the counts is skipped.
Ends(t, q, h) == \E s : OnSettled(t, q, s) /\ Terminal(t, s) /\ s.used = Len(q) /\ s.h = h
Leaf(t, q) == q \in DOMAIN Chart(t, 0) /\ \E h : Ends(t, q, h)

\* A call that does not fail has the largest count in them.
LEMMA LeafSettles ==
    ASSUME NEW t, NEW q, Leaf(t, q), NEW n \in Nat, NEW f, IsRun(t, 0, q, f, n), Unfailing(t, f[n])
    PROVE  Target(q, f[n].used) = MaxPoints - 1
<1>1. PICK s : OnSettled(t, q, s) /\ Terminal(t, s)
  BY DEF Leaf, Ends
<1>2. PICK m \in Nat : \E g : IsRun(t, 0, q, g, m) /\ g[m] = s /\ Settled(t, q, g, m)
  BY <1>1 DEF OnSettled
<1>3. PICK g : IsRun(t, 0, q, g, m) /\ g[m] = s /\ Settled(t, q, g, m)
  BY <1>2
<1>4. ~Terminal(t, f[n])
  BY DEF Unfailing, Terminal
<1>5. Terminal(t, g[m])
  BY <1>1, <1>3
<1>6. g[n] = f[n] /\ n < m
  BY <1>3, <1>4, <1>5, RunWithin
<1>7. n \in 0 .. (m - 1)
  BY <1>6
<1> QED
  BY <1>3, <1>6, <1>7 DEF Settled, Settles

\* The first v of the choices c.
LEMMA Beginning ==
    ASSUME NEW c \in Seq(Nat), NEW v \in 0 .. Len(c)
    PROVE  /\ SubSeq(c, 1, v) \in Seq(Nat) /\ Len(SubSeq(c, 1, v)) = v
           /\ \A k \in 1 .. v : SubSeq(c, 1, v)[k] = c[k]
BY SMTT(30)

\* What skip_rest works on: the count of the call that did not fail, which is
\* the largest one, or the last of the choices.
LEMMA SkipAt ==
    ASSUME NEW t, NEW r, Follows(Chart(t, 0), r), Kept(t, r.choices),
           NEW n \in Nat, NEW f, IsRun(t, 0, r.choices, f, n), f[n].used = r.cur, Unfailing(t, f[n])
    PROVE  /\ r.cur \in 1 .. Len(r.choices)
           /\ \/ r.choices[r.cur] = r.ceils[r.cur] - 1 /\ Target(r.choices, r.cur) = MaxPoints - 1
              \/ /\ MaxPoints # 1 /\ r.cur = Len(r.choices) /\ r.ceils[r.cur] = MaxPoints
                 /\ Chart(t, 0)[SubSeq(r.choices, 1, r.cur - 1)] = MaxPoints
                 /\ r.choices[r.cur] < MaxPoints
<1>1. /\ r.choices \in Seq(Nat) /\ r.cur \in Nat /\ Len(r.choices) \in Nat
      /\ r.cur <= Len(r.choices) /\ r.choices \in DOMAIN Chart(t, 0)
      /\ \A i \in 1 .. Len(r.choices) : r.ceils[i] = Chart(t, 0)[SubSeq(r.choices, 1, i - 1)]
  BY ChartFollowed
<1>2. PICK c \in Seq(Nat) : c = r.choices
  BY <1>1
<1>3. IsRun(t, 0, c, f, n) /\ Fits(t, c, f, n)
  BY <1>1, <1>2, ChartFits
<1>4. Asked(t, c, f, n)
  <2>1. \A k \in Nat : k <= n => Asked(t, c, f, k)
    BY <1>3, RunAsked
  <2> QED
    BY <2>1
<1>5. f[n].armed = 1
  BY DEF Unfailing
<1>6. CASE MaxPoints = 1
  <2>1. AskedFor(t, f, n, 2) /\ c[r.cur] # 0
    BY <1>4, <1>5, <1>6 DEF Asked
  <2>2. r.cur \in 1 .. Len(c) /\ Chart(t, 0)[SubSeq(c, 1, r.cur - 1)] = 2 /\ c[r.cur] < 2
    BY <1>3, <2>1, ChartAsked
  <2>3. c[r.cur] \in Nat
    BY <2>2, ElementOfSeq
  <2>4. c[r.cur] = 1 /\ r.ceils[r.cur] = 2
    BY <1>1, <1>2, <2>1, <2>2, <2>3, SMTT(30)
  <2>5. Target(c, r.cur) = MaxPoints - 1
    BY <1>6 DEF Target
  <2> QED
    BY <1>2, <2>2, <2>4, <2>5
<1>7. CASE MaxPoints # 1
  <2>1. AskedFor(t, f, n, MaxPoints)
    BY <1>4, <1>5, <1>7 DEF Asked
  <2>2. /\ r.cur \in 1 .. Len(c) /\ Chart(t, 0)[SubSeq(c, 1, r.cur - 1)] = MaxPoints
        /\ c[r.cur] < MaxPoints
    BY <1>3, <1>7, <2>1, ChartAsked
  <2>3. r.ceils[r.cur] = MaxPoints
    BY <1>1, <1>2, <2>2
  <2>4. CASE r.cur = Len(c)
    BY <1>2, <1>7, <2>2, <2>3, <2>4
  <2>5. CASE r.cur # Len(c)
    <3>1. r.cur < Len(c)
      BY <1>1, <1>2, <2>5
    <3>2. OnRun(t, 0, c, f[n])
      BY <1>3 DEF OnRun
    <3>3. Target(c, r.cur) = MaxPoints - 1
      BY <1>2, <3>1, <3>2 DEF Kept, Settles
    <3>4. Target(c, r.cur) = c[r.cur]
      BY <1>7, <2>2 DEF Target
    <3> QED
      BY <1>2, <2>2, <2>3, <3>3, <3>4
  <2> QED
    BY <2>4, <2>5
<1> QED
  BY <1>6, <1>7

\* skip_rest leaves everything that is to come and not redundant.
LEMMA SkipCharted ==
    ASSUME NEW t, NEW r, Follows(Chart(t, 0), r), Kept(t, r.choices),
           NEW n \in Nat, NEW f, IsRun(t, 0, r.choices, f, n), f[n].used = r.cur,
           Settled(t, r.choices, f, n), Unfailing(t, f[n])
    PROVE  /\ Follows(Chart(t, 0), SkipRest(r)) /\ SkipRest(r).cur = r.cur
           /\ Kept(t, SkipRest(r).choices)
           /\ IsRun(t, 0, SkipRest(r).choices, f, n) /\ Settled(t, SkipRest(r).choices, f, n)
           /\ Settles(t, SkipRest(r).choices, f[n])
           /\ \A q : Leaf(t, q) /\ ToCome(r, q) => ToCome(SkipRest(r), q)
<1>1. /\ r.choices \in Seq(Nat) /\ r.ceils \in Seq(Nat) /\ r.cur \in Nat
      /\ Len(r.choices) \in Nat /\ Len(r.ceils) = Len(r.choices)
      /\ r.cur <= Len(r.choices) /\ r.choices \in DOMAIN Chart(t, 0)
      /\ \A i \in 1 .. Len(r.choices) : r.ceils[i] = Chart(t, 0)[SubSeq(r.choices, 1, i - 1)]
      /\ r \in [choices : Seq(Nat), ceils : Seq(Nat), cur : Nat]
  BY ChartFollowed DEF Follows
<1>2. PICK c \in Seq(Nat) : c = r.choices
  BY <1>1
<1>3. r.cur \in 1 .. Len(c)
  BY <1>2, SkipAt
<1>4. CASE c[r.cur] = r.ceils[r.cur] - 1 /\ Target(c, r.cur) = MaxPoints - 1
  <2>1. [c EXCEPT ![r.cur] = r.ceils[r.cur] - 1] = c
    BY <1>3, <1>4
  <2>2. SkipRest(r) = r
    BY <1>1, <1>2, <2>1 DEF SkipRest
  <2> QED
    BY <1>2, <1>4, <2>2 DEF Settles
<1>5. CASE /\ MaxPoints # 1 /\ r.cur = Len(c) /\ r.ceils[r.cur] = MaxPoints
           /\ Chart(t, 0)[SubSeq(c, 1, r.cur - 1)] = MaxPoints /\ c[r.cur] < MaxPoints
  <2>m. MaxPoints \in Nat
    BY ChoiceAssumption
  <2> DEFINE u == Len(c)
             w == MaxPoints - 1
             d == [c EXCEPT ![u] = w]
             r2 == SkipRest(r)
  <2>u. u \in Nat \ {0} /\ w \in Nat /\ c[u] \in Nat /\ c[u] <= w /\ r.cur = u
    <3>1. c[u] \in Nat
      BY <1>3, <1>5, ElementOfSeq
    <3> QED
      BY <1>3, <1>5, <2>m, <3>1
  <2>2. d \in Seq(Nat) /\ Len(d) = u /\ d[u] = w /\ \A k \in 1 .. (u - 1) : c[k] = d[k]
    BY <2>u, SMTT(30)
  <2>1. /\ r2.choices = d /\ r2.ceils = r.ceils /\ r2.cur = u
        /\ r2 \in [choices : Seq(Nat), ceils : Seq(Nat), cur : Nat]
    <3>1. [r.choices EXCEPT ![r.cur] = r.ceils[r.cur] - 1] = d
      BY <1>2, <1>5, <2>u
    <3>2. PICK e \in Seq(Nat) : e = d
      BY <2>2
    <3>3. r2 = [r EXCEPT !.choices = e]
      BY <3>1, <3>2 DEF SkipRest
    <3>4. r2.choices = e /\ r2.ceils = r.ceils /\ r2.cur = r.cur
      <4> HIDE DEF r2
      <4> QED
        BY <1>1, <3>3
    <3>5. r2 \in [choices : Seq(Nat), ceils : Seq(Nat), cur : Nat]
      <4> HIDE DEF r2
      <4> QED
        BY <1>1, <3>3
    <3> QED
      BY <2>u, <3>2, <3>4, <3>5
  <2> DEFINE p == SubSeq(c, 1, u - 1)
  <2>p. p \in Seq(Nat) /\ Len(p) = u - 1 /\ \A k \in 1 .. (u - 1) : p[k] = c[k]
    <3>0. u - 1 \in 0 .. Len(c)
      BY <2>u
    <3>1. PICK v \in 0 .. Len(c) : v = u - 1
      BY <3>0
    <3> QED
      BY <3>1, Beginning
  <2>q. p = SubSeq(c, 1, r.cur - 1) /\ p = SubSeq(c, 1, u - 1)
    BY <2>u
  <2> HIDE DEF p
  <2> HIDE DEF d, w, u, r2
  <2>3. Larger(c, d, f[n].used)
    BY <1>2, <1>5, <2>u, <2>2 DEF Larger, u
  <2>4. f[n].armed = 1 /\ f[n].over = 0 /\ IsRun(t, 0, c, f, n)
    BY <1>2 DEF Unfailing
  <2>5. IsRun(t, 0, d, f, n)
    BY <1>5, <2>2, <2>3, <2>4, Robust
  <2>6. d \in DOMAIN Chart(t, 0)
    <3>1. p \in DOMAIN Chart(t, 0) /\ w \in 0 .. (Chart(t, 0)[p] - 1)
      <4>1. p \in DOMAIN Chart(t, 0)
        <5>1. \A i \in 1 .. Len(c) : SubSeq(c, 1, i - 1) \in DOMAIN Chart(t, 0)
          BY <1>1, <1>2, ChartTree, TreeFacts
        <5>2. u \in 1 .. Len(c)
          BY <2>u DEF u
        <5> QED
          BY <2>q, <5>1, <5>2
      <4>2. Chart(t, 0)[p] = MaxPoints
        BY <1>5, <2>q
      <4> QED
        BY <2>m, <2>u, <4>1, <4>2 DEF w
    <3>2. Append(p, w) \in DOMAIN Chart(t, 0)
      BY <3>1, ChartTree, TreeFacts
    <3>3. /\ Append(p, w) \in Seq(Nat) /\ Len(Append(p, w)) = u /\ Append(p, w)[u] = w
          /\ \A k \in 1 .. (u - 1) : Append(p, w)[k] = c[k]
      <4>1. PICK a : a = Append(p, w)
        OBVIOUS
      <4>2. a \in Seq(Nat) /\ Len(a) = Len(p) + 1 /\ a[Len(p) + 1] = w /\ \A k \in 1 .. Len(p) : a[k] = p[k]
        BY <2>u, <2>p, <4>1, AppendProperties
      <4> QED
        BY <2>u, <2>p, <4>1, <4>2
    <3>4. \A k \in 1 .. u : d[k] = Append(p, w)[k]
      <4>1. PICK a : a = Append(p, w)
        OBVIOUS
      <4>2. a[u] = w /\ \A k \in 1 .. (u - 1) : a[k] = c[k]
        BY <3>3, <4>1
      <4>3. d[u] = w /\ \A k \in 1 .. (u - 1) : d[k] = c[k]
        BY <2>u, <2>2
      <4>4. ASSUME NEW k \in 1 .. u PROVE d[k] = a[k]
        <5>1. k = u \/ k \in 1 .. (u - 1)
          BY <2>u
        <5> QED
          BY <4>2, <4>3, <5>1
      <4> QED
        BY <4>1, <4>4
    <3>5. d = Append(p, w)
      BY <2>2, <3>3, <3>4, SeqEqual
    <3> QED
      BY <3>2, <3>5
  <2>7. Follows(Chart(t, 0), r2)
    <3>1. ASSUME NEW i \in 1 .. Len(d) PROVE r.ceils[i] = Chart(t, 0)[SubSeq(d, 1, i - 1)]
      <4>0. i \in 1 .. Len(c) /\ i - 1 \in Nat /\ i - 1 <= Len(c) /\ i - 1 <= Len(d) /\ i - 1 <= u - 1
        BY <2>u, <2>2 DEF u
      <4>1. SubSeq(d, 1, i - 1) = SubSeq(c, 1, i - 1)
        <5>1. \A k \in 1 .. (i - 1) : d[k] = c[k]
          BY <2>u, <2>2, <4>0
        <5> QED
          BY <2>2, <4>0, <5>1, SamePrefix
      <4> QED
        BY <1>1, <1>2, <4>0, <4>1
    <3>2. Len(r2.ceils) = Len(r2.choices) /\ r2.cur <= Len(r2.choices)
      BY <1>1, <1>2, <2>u, <2>1, <2>2 DEF u
    <3> QED
      BY <2>1, <2>6, <3>1, <3>2, ChartTree DEF Follows
  <2>8. Kept(t, d)
    <3>1. Len(d) = Len(c) /\ Len(c) \in Nat
      BY <2>2 DEF u
    <3>2. \A k \in 1 .. (Len(d) - 1) : c[k] = d[k]
      BY <2>2, <3>1 DEF u
    <3>3. Kept(t, c)
      BY <1>2
    <3>4. Len(d) <= Len(c)
      BY <3>1
    <3> QED
      BY <2>2, <3>2, <3>3, <3>4, KeptShorter
  <2>t. Target(d, u) = w /\ f[n].used = u
    BY <1>5, <2>u, <2>2 DEF Target
  <2>9. ASSUME NEW i \in 0 .. (n - 1) PROVE Settles(t, d, f[i])
    <3>1. f[i].used \in Nat /\ f[i].used <= u
      <4>1. \A b \in Nat : b <= n => \A a \in 0 .. b : f[a].used \in Nat /\ f[a].used <= f[b].used
        BY <2>4, RunUses
      <4>2. i \in 0 .. n /\ n \in 0 .. n /\ n <= n
        OBVIOUS
      <4> QED
        BY <2>t, <4>1, <4>2
    <3>2. CASE f[i].used = u
      BY <2>t, <3>2 DEF Settles, w
    <3>3. CASE f[i].used # u
      <4>1. \A k \in 1 .. f[i].used : c[k] = d[k]
        BY <2>u, <2>2, <3>1, <3>3
      <4>2. Settles(t, c, f[i])
        BY <1>2 DEF Settled
      <4> QED
        BY <3>1, <4>1, <4>2, SettlesSame
    <3> QED
      BY <3>2, <3>3
  <2>10. Settles(t, d, f[n])
    BY <2>t DEF Settles, w
  <2>11. ASSUME NEW q, Leaf(t, q), Larger(c, q, u) PROVE Extends(d, q)
    <3>1. q \in Seq(Nat)
      BY <2>11, ChartRun DEF Leaf
    <3>2. IsRun(t, 0, q, f, n)
      BY <1>5, <2>t, <2>4, <2>11, <3>1, Robust
    <3>3. Target(q, u) = w
      BY <2>t, <2>11, <3>2, LeafSettles DEF w
    <3>4. q[u] = w
      BY <1>5, <2>u, <3>3 DEF Target
    <3> QED
      BY <2>u, <2>2, <2>11, <3>4, SMTT(30) DEF Larger, Extends
  <2>12. ASSUME NEW q, Leaf(t, q), ToCome(r, q) PROVE ToCome(r2, q)
    <3>0. q \in Seq(Nat) /\ Len(q) \in Nat
      <4>1. q \in Seq(Nat)
        BY <2>12, ChartRun DEF Leaf
      <4> QED
        BY <4>1
    <3>1. CASE Extends(c, q)
      <4>0. u \in 1 .. Len(c)
        BY <2>u DEF u
      <4>1. c[u] = q[u] /\ (\A k \in 1 .. (u - 1) : c[k] = q[k]) /\ u <= Len(q) /\ u <= Len(c)
        BY <2>u, <3>1, <4>0 DEF Extends, u
      <4>2. Larger(c, q, u)
        BY <2>u, <4>1 DEF Larger
      <4> QED
        BY <2>1, <2>11, <2>12, <4>2 DEF ToCome
    <3>2. CASE Before(c, q)
      <4>1. PICK i \in 1 .. Len(c) : /\ i <= Len(q) /\ (\A j \in 1 .. (i - 1) : c[j] = q[j])
                                     /\ c[i] < q[i]
        BY <3>2 DEF Before
      <4>2. CASE i = u
        <5>1. i \in 1 .. Len(q)
          BY <3>0, <4>1
        <5>2. q[i] \in Nat
          BY <3>0, <5>1, ElementOfSeq
        <5>3. Larger(c, q, u)
          BY <2>u, <3>0, <4>1, <4>2, <5>2 DEF Larger, u
        <5> QED
          BY <2>1, <2>11, <2>12, <5>3 DEF ToCome
      <4>3. CASE i # u
        <5>1. i \in 1 .. (u - 1) /\ i \in 1 .. Len(d)
          BY <2>u, <2>2, <4>1, <4>3 DEF u
        <5>2. d[i] < q[i] /\ \A j \in 1 .. (i - 1) : d[j] = q[j]
          BY <2>2, <4>1, <5>1
        <5> QED
          BY <2>1, <4>1, <5>1, <5>2 DEF ToCome, Before
      <4> QED
        BY <4>2, <4>3
    <3> QED
      BY <1>2, <2>12, <3>1, <3>2 DEF ToCome
  <2>13. Settled(t, d, f, n)
    BY <2>9 DEF Settled
  <2> QED
    BY <2>u, <2>1, <2>5, <2>7, <2>8, <2>10, <2>12, <2>13 DEF r2
<1> QED
  BY <1>2, <1>4, <1>5, SkipAt

-----------------------------------------------------------------------------
\* An execution of the search is at s.
Underway(t, r, s) ==
    Follows(Chart(t, 0), r) /\ Kept(t, r.choices) /\ OnSettled(t, r.choices, s)

\* One of the executions l has had the choices q.
Logged(l, q) == \E e \in l : e.choices = q

\* Without other threads and extra failures the search follows the chart of the
\* transition, every execution ends with choices that are left of it, and those
\* that have not been executed are to come.
LogCharted(t, l) == \A e \in l : e.choices \in DOMAIN Chart(t, 0) /\ Ends(t, e.choices, e.hist)
RunCharted(t, l, r, s) == Underway(t, r, s) /\ \A q : Leaf(t, q) => Logged(l, q) \/ ToCome(r, q)
RetCharted(t, l, r) ==
    /\ Follows(Chart(t, 0), r) /\ Kept(t, r.choices) /\ r.cur = Len(r.choices)
    /\ \A q : Leaf(t, q) => Logged(l, q) \/ Before(r.choices, q)
AllCharted(t, l) == \A q : Leaf(t, q) => Logged(l, q)
Charted ==
    alone /\ extra = 0 =>
      /\ LogCharted(prog, log)
      /\ ~Regenerating /\ pc \in {"run", "count"} =>
            RunCharted(prog, log, rand, Now(rand.choices, rand.cur))
      /\ pc = "ret" => RetCharted(prog, log, rand)
      /\ pc = "done" => AllCharted(prog, log)

\* The chart ends at the leaves.
LEMMA LeafIsEnd ==
    ASSUME NEW t, NEW q, Leaf(t, q)
    PROVE  q \in DOMAIN Chart(t, 0) /\ Chart(t, 0)[q] = 0
<1>0. q \in DOMAIN Chart(t, 0) /\ q \in Seq(Nat)
  BY ChartRun DEF Leaf
<1>1. PICK s : OnSettled(t, q, s) /\ Terminal(t, s) /\ s.used = Len(q)
  BY DEF Leaf, Ends
<1>2. PICK m \in Nat : \E g : IsRun(t, 0, q, g, m) /\ g[m] = s
  BY <1>1 DEF OnSettled
<1>3. PICK g : IsRun(t, 0, q, g, m) /\ g[m] = s
  BY <1>2
<1>4. Fits(t, q, g, m)
  BY <1>0, <1>3, ChartFits
<1>5. Marks(t, 0, q, g[m])
  BY <1>0, <1>1, <1>3, <1>4, ChartNode
<1> QED
  BY <1>0, <1>1, <1>3, <1>5 DEF Marks

\* A step of the search that does not skip.
LEMMA EnumCharted ==
    ASSUME AllBracketed, Granted, Armed, Numbers, Steady, alone, extra = 0, ~Regenerating,
           Driven, ~PostUnfailed, pc' # "panic",
           Underway(prog, rand, Now(rand.choices, rand.cur))
    PROVE  /\ Underway(prog, rand', Now(rand.choices, rand.cur)')
           /\ \A q : Leaf(prog, q) /\ ToCome(rand, q) => ToCome(rand', q)
<1>0. PICK s : s = Now(rand.choices, rand.cur)
  OBVIOUS
<1>t. PICK t : t = prog
  OBVIOUS
<1>u. Follows(Chart(t, 0), rand) /\ Kept(t, rand.choices) /\ OnSettled(t, rand.choices, s)
  BY <1>0, <1>t DEF Underway
<1>1. PICK n \in Nat : \E f : IsRun(t, 0, rand.choices, f, n) /\ f[n] = s /\ Settled(t, rand.choices, f, n)
  BY <1>u DEF OnSettled
<1>2. PICK f : IsRun(t, 0, rand.choices, f, n) /\ f[n] = s /\ Settled(t, rand.choices, f, n)
  BY <1>1
<1>3. f[n].used = rand.cur
  BY <1>0, <1>2 DEF Now, Conf
<1>4. IsRun(prog, extra, rand.choices, f, n) /\ f[n] = Now(rand.choices, rand.cur)
  BY <1>0, <1>t, <1>2
<1>5. PICK a : a = After(prog, extra, rand'.choices, f[n])
  OBVIOUS
<1>6. /\ Now(rand.choices, rand.cur)' = a
      /\ rand' = EnumRandom(rand, Ceil(prog, f[n]))
      /\ IsRun(prog, extra, rand'.choices, More(f, n, a), n + 1)
  BY <1>4, <1>5, EnumMoves
<1>7. PICK r : r = rand'
  OBVIOUS
<1>8. PICK r0 : r0 = rand
  OBVIOUS
<1>9. /\ Follows(Chart(t, 0), r0) /\ Kept(t, r0.choices) /\ IsRun(t, 0, r0.choices, f, n)
      /\ f[n].used = r0.cur /\ Settled(t, r0.choices, f, n) /\ r = EnumRandom(r0, Ceil(t, f[n]))
  BY <1>t, <1>u, <1>2, <1>3, <1>6, <1>7, <1>8
<1>10. /\ Follows(Chart(t, 0), r) /\ Kept(t, r.choices) /\ Settled(t, r.choices, f, n)
       /\ \A q \in DOMAIN Chart(t, 0) : Chart(t, 0)[q] = 0 => (ToCome(r, q) <=> ToCome(r0, q))
  BY <1>9, DrawCharted
<1>11. ~Unfailing(t, f[n])
  BY <1>t, <1>4, StepSkips
<1>12. OnSettled(t, r.choices, a)
  <2>1. IsRun(t, 0, r.choices, More(f, n, a), n + 1)
    BY <1>t, <1>6, <1>7
  <2>2. Settles(t, r.choices, f[n])
    BY <1>11 DEF Settles
  <2> QED
    BY <1>10, <2>1, <2>2, SettledMore
<1>13. \A q : Leaf(t, q) /\ ToCome(r0, q) => ToCome(r, q)
  BY <1>10, LeafIsEnd
<1> QED
  BY <1>t, <1>6, <1>7, <1>8, <1>10, <1>12, <1>13 DEF Underway

\* A step of the search that does.
LEMMA PostCharted ==
    ASSUME AllBracketed, Granted, Armed, Numbers, Steady, alone, extra = 0, ~Regenerating,
           PostUnfailed, pc' # "panic",
           Underway(prog, rand, Now(rand.choices, rand.cur))
    PROVE  /\ Underway(prog, rand', Now(rand.choices, rand.cur)')
           /\ \A q : Leaf(prog, q) /\ ToCome(rand, q) => ToCome(rand', q)
<1>0. PICK s : s = Now(rand.choices, rand.cur)
  OBVIOUS
<1>t. PICK t : t = prog
  OBVIOUS
<1>u. Follows(Chart(t, 0), rand) /\ Kept(t, rand.choices) /\ OnSettled(t, rand.choices, s)
  BY <1>0, <1>t DEF Underway
<1>1. PICK n \in Nat : \E f : IsRun(t, 0, rand.choices, f, n) /\ f[n] = s /\ Settled(t, rand.choices, f, n)
  BY <1>u DEF OnSettled
<1>2. PICK f : IsRun(t, 0, rand.choices, f, n) /\ f[n] = s /\ Settled(t, rand.choices, f, n)
  BY <1>1
<1>3. s.used = rand.cur /\ s.h = hist /\ s.at = pc
  BY <1>0 DEF Now, Conf
<1>4. PICK r : r = rand
  OBVIOUS
<1>5. PICK r2 : r2 = SkipRest(r)
  OBVIOUS
<1>6. rand' = r2 /\ hist' = Append(hist, 0) /\ debug' = 0 /\ pc' = pc
  BY <1>4, <1>5 DEF PostUnfailed, Happened, FlagReset
<1>7. Unfailing(t, s)
  <2>1. Driven
    BY DEF Driven
  <2> QED
    BY <1>0, <1>t, <2>1, StepSkips
<1>8. /\ Follows(Chart(t, 0), r2) /\ r2.cur = r.cur /\ Kept(t, r2.choices)
      /\ IsRun(t, 0, r2.choices, f, n) /\ Settled(t, r2.choices, f, n)
      /\ Settles(t, r2.choices, f[n])
      /\ \A q : Leaf(t, q) /\ ToCome(r, q) => ToCome(r2, q)
  <2>1. /\ Follows(Chart(t, 0), r) /\ Kept(t, r.choices) /\ IsRun(t, 0, r.choices, f, n)
        /\ f[n].used = r.cur /\ Settled(t, r.choices, f, n) /\ Unfailing(t, f[n])
    BY <1>u, <1>2, <1>3, <1>4, <1>7
  <2> QED
    BY <1>5, <2>1, SkipCharted
<1>9. pc = "run" /\ t[hist] = "return"
  BY <1>3, <1>7 DEF Unfailing
<1>10. ~InArms' /\ pc' = "run"
  BY <1>6, <1>9 DEF InArms
<1>11. Now(rand.choices, rand.cur)' = Fresh(Append(hist, 0), r.cur)
  BY <1>6, <1>8, <1>10 DEF Now, Fresh, Gone
<1>12. PICK a : a = After(t, 0, r2.choices, f[n])
  OBVIOUS
<1>13. a = Fresh(Append(hist, 0), r.cur) /\ ~Terminal(t, f[n])
  BY <1>2, <1>3, <1>4, <1>9, <1>12 DEF After, Consumed, Ceil, Terminal
<1>14. a.used <= Len(r2.choices)
  <2>1. r2.cur <= Len(r2.choices)
    BY <1>8, ChartFollowed
  <2> QED
    BY <1>8, <1>13, <2>1 DEF Fresh, Conf
<1>15. IsRun(t, 0, r2.choices, More(f, n, a), n + 1)
  BY <1>8, <1>12, <1>13, <1>14, RunGoesOn
<1>16. OnSettled(t, r2.choices, a)
  BY <1>8, <1>15, SettledMore
<1> QED
  BY <1>t, <1>4, <1>6, <1>8, <1>11, <1>13, <1>16 DEF Underway

\* The search is where the execution ends.
LEMMA ReturnCharted ==
    ASSUME NEW t, NEW r, NEW s, Underway(t, r, s), Terminal(t, s), s.used = r.cur
    PROVE  /\ r.cur = Len(r.choices) /\ Leaf(t, r.choices) /\ Ends(t, r.choices, s.h)
           /\ \A q : Leaf(t, q) => (ToCome(r, q) <=> (q = r.choices \/ Before(r.choices, q)))
<1>u. Follows(Chart(t, 0), r) /\ Kept(t, r.choices) /\ OnSettled(t, r.choices, s)
  BY DEF Underway
<1>1. PICK n \in Nat : \E f : IsRun(t, 0, r.choices, f, n) /\ f[n] = s /\ Settled(t, r.choices, f, n)
  BY <1>u DEF OnSettled
<1>2. PICK f : IsRun(t, 0, r.choices, f, n) /\ f[n] = s /\ Settled(t, r.choices, f, n)
  BY <1>1
<1>3. PICK p \in DOMAIN Chart(t, 0) : At(r, p) /\ Marks(t, 0, p, f[n])
  BY <1>u, <1>2, ChartAt
<1>4. Chart(t, 0)[p] = 0
  BY <1>2, <1>3 DEF Marks
<1>5. PICK T : T = Chart(t, 0)
  OBVIOUS
<1>6. /\ p = r.choices /\ r.cur = Len(r.choices)
      /\ \A q \in DOMAIN T : ToCome(r, q) <=> (q = p \/ Before(r.choices, q))
  BY <1>u, <1>3, <1>4, <1>5, LeafReached
<1>7. Ends(t, r.choices, s.h)
  BY <1>u, <1>6 DEF Ends
<1>8. Leaf(t, r.choices)
  BY <1>3, <1>6, <1>7 DEF Leaf
<1>9. \A q : Leaf(t, q) => q \in DOMAIN T
  BY <1>5 DEF Leaf
<1> QED
  BY <1>6, <1>7, <1>8, <1>9

\* repeat() leaves nothing out.
LEMMA AgainCharted ==
    ASSUME NEW t, NEW r, Follows(Chart(t, 0), r), Kept(t, r.choices), r.cur = Len(r.choices)
    PROVE  /\ Repeats(r) => /\ Underway(t, Repeat(r), Fresh(<< >>, 0)) /\ Repeat(r).cur = 0
                            /\ \A q : Leaf(t, q) /\ Before(r.choices, q) => ToCome(Repeat(r), q)
           /\ ~Repeats(r) => \A q : Leaf(t, q) => ~Before(r.choices, q)
<1>5. PICK T : T = Chart(t, 0)
  OBVIOUS
<1>9. \A q : Leaf(t, q) => q \in DOMAIN T
  BY <1>5 DEF Leaf
<1>1. ASSUME ~Repeats(r), NEW q, Leaf(t, q) PROVE ~Before(r.choices, q)
  BY <1>1, <1>5, <1>9, NothingToCome
<1>2. ASSUME Repeats(r)
      PROVE  /\ Underway(t, Repeat(r), Fresh(<< >>, 0)) /\ Repeat(r).cur = 0
             /\ \A q : Leaf(t, q) /\ Before(r.choices, q) => ToCome(Repeat(r), q)
  <2>1. /\ Follows(T, Repeat(r)) /\ Repeat(r).cur = 0
        /\ \A q \in DOMAIN T : Before(r.choices, q) <=> ToCome(Repeat(r), q)
    BY <1>2, <1>5, RepeatFollows
  <2>2. Kept(t, Repeat(r).choices)
    <3>1. /\ r.choices \in Seq(Nat) /\ Len(r.choices) \in Nat /\ r.cur <= Len(r.choices)
          /\ Len(r.ceils) = Len(r.choices)
          /\ r \in [choices : Seq(Nat), ceils : Seq(Nat), cur : Nat]
      BY ChartFollowed DEF Follows
    <3>2. PICK last \in Open(r) :
            /\ Repeat(r) \in [choices : Seq(Nat), ceils : Seq(Nat), cur : Nat]
            /\ Len(Repeat(r).choices) = last
            /\ \A i \in 1 .. last : i # last => Repeat(r).choices[i] = r.choices[i]
      <4>1. \E last \in Open(r) :
             /\ \A j \in Open(r) : j <= last
             /\ Repeat(r) \in [choices : Seq(Nat), ceils : Seq(Nat), cur : Nat]
             /\ Len(Repeat(r).choices) = last
             /\ Len(Repeat(r).ceils) = last
             /\ Repeat(r).cur = 0
             /\ \A i \in 1 .. last : /\ Repeat(r).ceils[i] = r.ceils[i]
                                     /\ i # last => Repeat(r).choices[i] = r.choices[i]
             /\ Repeat(r).choices[last] = r.choices[last] + 1
        BY <1>2, <3>1, RepeatFacts
      <4> QED
        BY <4>1
    <3>3. last \in 1 .. Len(r.choices)
      BY DEF Open
    <3>4. PICK d \in Seq(Nat) : d = Repeat(r).choices
      BY <3>2
    <3>5. Len(d) <= Len(r.choices) /\ \A k \in 1 .. (Len(d) - 1) : r.choices[k] = d[k]
      BY <3>1, <3>2, <3>3, <3>4
    <3>6. Kept(t, d)
      BY <3>1, <3>5, KeptShorter
    <3> QED
      BY <3>4, <3>6
  <2>3. OnSettled(t, Repeat(r).choices, Fresh(<< >>, 0))
    <3>1. PICK f : IsRun(t, 0, Repeat(r).choices, f, 0) /\ f[0] = Fresh(<< >>, 0)
      BY EmptyRun
    <3>2. Settled(t, Repeat(r).choices, f, 0)
      BY DEF Settled
    <3>3. 0 \in Nat
      OBVIOUS
    <3> QED
      BY <3>1, <3>2, <3>3, Zenon DEF OnSettled
  <2> QED
    BY <1>5, <1>9, <2>1, <2>2, <2>3 DEF Underway
<1> QED
  BY <1>1, <1>2

-----------------------------------------------------------------------------
\* The initial states are charted.
LEMMA InitCharted ==
    ASSUME Init
    PROVE  Charted
<1>0. PICK t : t = prog
  OBVIOUS
<1>1. /\ rand = EnumReset /\ log = {} /\ pc = "run" /\ EnumReset.choices = << >> /\ EnumReset.cur = 0
  BY DEF Init, EnumReset
<1>2. Now(rand.choices, rand.cur) = Fresh(<< >>, 0)
  BY DEF Init, Now, Fresh, Gone, InArms, EnumReset
<1>3. IsTree(Chart(t, 0))
  BY ChartTree
<1>4. PICK T : T = Chart(t, 0)
  OBVIOUS
<1>5. Follows(T, EnumReset) /\ \A q \in DOMAIN T : ToCome(EnumReset, q)
  BY <1>3, <1>4, ResetFollows
<1>6. Kept(t, << >>)
  <2>1. SUFFICES ASSUME NEW s, OnRun(t, 0, << >>, s), s.used < Len(<< >>) PROVE FALSE
    BY DEF Kept
  <2>2. PICK n \in Nat : \E f : IsRun(t, 0, << >>, f, n) /\ f[n] = s
    BY <2>1 DEF OnRun
  <2>3. PICK f : IsRun(t, 0, << >>, f, n) /\ f[n] = s
    BY <2>2
  <2>4. \A b \in Nat : b <= n => \A a \in 0 .. b : f[a].used \in Nat /\ f[a].used <= f[b].used
    BY <2>3, RunUses
  <2>5. n \in 0 .. n /\ n <= n
    OBVIOUS
  <2>6. s.used \in Nat
    BY <2>3, <2>4, <2>5
  <2> QED
    BY <2>1, <2>6
<1>7. OnSettled(t, << >>, Fresh(<< >>, 0))
  <2>1. PICK f : IsRun(t, 0, << >>, f, 0) /\ f[0] = Fresh(<< >>, 0)
    BY EmptyRun
  <2>2. Settled(t, << >>, f, 0)
    BY DEF Settled
  <2>3. 0 \in Nat
    OBVIOUS
  <2> QED
    BY <2>1, <2>2, <2>3, Zenon DEF OnSettled
<1>8. RunCharted(t, log, rand, Fresh(<< >>, 0))
  BY <1>1, <1>4, <1>5, <1>6, <1>7 DEF RunCharted, Underway, Leaf
<1>9. LogCharted(t, log)
  BY <1>1 DEF LogCharted
<1> QED
  BY <1>0, <1>1, <1>2, <1>8, <1>9 DEF Charted

\* The parts of it, for the steps.
LEMMA ChartedFacts ==
    ASSUME Charted, alone, extra = 0, NEW t, t = prog
    PROVE  /\ LogCharted(t, log)
           /\ ~Regenerating /\ pc \in {"run", "count"} =>
                 RunCharted(t, log, rand, Now(rand.choices, rand.cur))
           /\ pc = "ret" => RetCharted(t, log, rand)
           /\ pc = "done" => AllCharted(t, log)
BY DEF Charted

\* Every step keeps the search on the chart.
LEMMA StepCharted ==
    ASSUME AllBracketed, Granted, Armed, Numbers, Steady, Recorded, Charted, [Next]_vars
    PROVE  Charted'
<1>t. PICK t : t = prog
  OBVIOUS
<1>a. alone' = alone /\ prog' = t /\ extra' = extra
  BY <1>t DEF Next, PreChoose, SetCount, Point, Disable, Enable, PostNothing, PostFailed, PostUnfailed,
         Check, ReplayPanic, Return, Again, Regenerate, OtherPoint, OtherDisable, OtherEnable, vars, env
<1>s. SUFFICES ASSUME alone, extra = 0
      PROVE  /\ LogCharted(t, log')
             /\ ~Regenerating' /\ pc' \in {"run", "count"} =>
                   RunCharted(t, log', rand', Now(rand.choices, rand.cur)')
             /\ pc' = "ret" => RetCharted(t, log', rand')
             /\ pc' = "done" => AllCharted(t, log')
  BY <1>a DEF Charted
<1>f. /\ LogCharted(t, log)
      /\ ~Regenerating /\ pc \in {"run", "count"} =>
            RunCharted(t, log, rand, Now(rand.choices, rand.cur))
      /\ pc = "ret" => RetCharted(t, log, rand)
      /\ pc = "done" => AllCharted(t, log)
  BY <1>s, <1>t, ChartedFacts
<1>r. pc \in {"ret", "done"} => ~Regenerating
  BY <1>s, RecordedFacts
<1>e. \A e \in {"call", "return", "off", "on", "check", "skip", "end"} \cup Cps :
         Event = e => pc = "run" /\ prog[hist] = e
  BY ChoiceAssumption DEF Event
<1>1. CASE Driven /\ pc' # "panic"
  <2>0. /\ log' = log /\ goal' = goal /\ (Regenerating' <=> Regenerating)
        /\ pc \in {"run", "count"} /\ pc' \in {"run", "count"}
    <3>1. log' = log /\ goal' = goal
      BY <1>1 DEF Driven, PreChoose, SetCount, Point, Disable, Enable, PostNothing, PostFailed,
                  PostUnfailed, Check
    <3>2. pc \in {"run", "count"}
      BY <1>1, <1>e DEF Driven, PreChoose, SetCount, Point, Disable, Enable, PostNothing, PostFailed,
                  PostUnfailed, Check
    <3>3. pc' \in {"run", "count"}
      BY <1>1, <3>2 DEF Driven, PreChoose, SetCount, Point, Disable, Enable, PostNothing, PostFailed,
                  PostUnfailed, Check
    <3> QED
      BY <3>1, <3>2, <3>3 DEF Regenerating
  <2>1. ASSUME ~Regenerating
        PROVE  RunCharted(t, log, rand', Now(rand.choices, rand.cur)')
    <3>1. /\ Underway(prog, rand, Now(rand.choices, rand.cur))
          /\ \A q : Leaf(t, q) => Logged(log, q) \/ ToCome(rand, q)
      BY <1>f, <1>t, <2>0, <2>1 DEF RunCharted
    <3>2. /\ Underway(prog, rand', Now(rand.choices, rand.cur)')
          /\ \A q : Leaf(prog, q) /\ ToCome(rand, q) => ToCome(rand', q)
      <4>1. CASE PostUnfailed
        BY <1>1, <1>s, <2>1, <3>1, <4>1, PostCharted
      <4>2. CASE ~PostUnfailed
        BY <1>1, <1>s, <2>1, <3>1, <4>2, EnumCharted
      <4> QED
        BY <4>1, <4>2
    <3> QED
      BY <1>t, <3>1, <3>2 DEF RunCharted
  <2> QED
    BY <1>f, <2>0, <2>1
<1>2. CASE (Driven \/ ReplayPanic) /\ pc' = "panic"
  <2>1. log' = log
    BY <1>2 DEF Driven, PreChoose, SetCount, Point, Disable, Enable, PostNothing, PostFailed,
                  PostUnfailed, Check, ReplayPanic
  <2> QED
    BY <1>f, <1>2, <2>1
<1>3. CASE Return
  <2>1. pc = "run" /\ prog[hist] \in {"end", "skip"}
    BY <1>3, <1>e DEF Return
  <2>2. /\ goal' = goal /\ hist' = hist /\ rand' = rand
        /\ pc' = IF Regenerating THEN "regenerated" ELSE "ret"
    BY <1>3 DEF Return
  <2>3. CASE Regenerating
    <3>1. log' = log /\ pc' = "regenerated"
      BY <1>3, <2>2, <2>3 DEF Return
    <3> QED
      BY <1>f, <3>1
  <2>4. CASE ~Regenerating
    <3> DEFINE e0 == [choices |-> rand.choices, hist |-> hist, skipped |-> skipped,
                      queued |-> Event = "end"]
    <3>1. log' = log \cup {e0} /\ pc' = "ret"
      BY <1>3, <2>2, <2>4 DEF Return
    <3>2. e0.choices = rand.choices /\ e0.hist = hist
      OBVIOUS
    <3> HIDE DEF e0
    <3>3. PICK s : s = Now(rand.choices, rand.cur)
      OBVIOUS
    <3>4. Terminal(t, s) /\ s.h = hist /\ s.used = rand.cur
      BY <1>t, <2>1, <3>3 DEF Terminal, Now, Conf
    <3>5. Underway(t, rand, s) /\ \A q : Leaf(t, q) => Logged(log, q) \/ ToCome(rand, q)
      BY <1>f, <2>1, <2>4, <3>3 DEF RunCharted
    <3>6. /\ rand.cur = Len(rand.choices) /\ Leaf(t, rand.choices) /\ Ends(t, rand.choices, s.h)
          /\ \A q : Leaf(t, q) => (ToCome(rand, q) <=> (q = rand.choices \/ Before(rand.choices, q)))
      BY <3>4, <3>5, ReturnCharted
    <3>7. LogCharted(t, log')
      BY <1>f, <3>1, <3>2, <3>4, <3>6 DEF LogCharted, Leaf
    <3>8. ASSUME NEW q, Leaf(t, q) PROVE Logged(log', q) \/ Before(rand.choices, q)
      BY <3>1, <3>2, <3>5, <3>6, <3>8 DEF Logged
    <3>9. RetCharted(t, log', rand')
      BY <2>2, <3>5, <3>6, <3>8 DEF RetCharted, Underway
    <3> QED
      BY <3>1, <3>7, <3>9
  <2> QED
    BY <2>3, <2>4
<1>4. CASE Again
  <2>1. /\ pc = "ret" /\ log' = log /\ goal' = goal /\ debug' = debug
    BY <1>4 DEF Again
  <2>2. ~Regenerating /\ debug # 1
    BY <1>r, <2>1 DEF Armed
  <2>3. PICK r : r = rand
    OBVIOUS
  <2>4. /\ Follows(Chart(t, 0), r) /\ Kept(t, r.choices) /\ r.cur = Len(r.choices)
        /\ \A q : Leaf(t, q) => Logged(log, q) \/ Before(r.choices, q)
    BY <1>f, <2>1, <2>3 DEF RetCharted
  <2>5. CASE Repeats(rand)
    <3>1. rand' = Repeat(r) /\ hist' = << >> /\ pc' = "run"
      BY <1>4, <2>3, <2>5 DEF Again
    <3>2. /\ Underway(t, Repeat(r), Fresh(<< >>, 0)) /\ Repeat(r).cur = 0
          /\ \A q : Leaf(t, q) /\ Before(r.choices, q) => ToCome(Repeat(r), q)
      BY <2>3, <2>4, <2>5, AgainCharted
    <3>3. ~InArms'
      BY <2>1, <2>2 DEF InArms
    <3>4. Now(rand.choices, rand.cur)' = Fresh(<< >>, 0)
      BY <3>1, <3>2, <3>3 DEF Now, Fresh, Gone
    <3>5. RunCharted(t, log, rand', Fresh(<< >>, 0))
      BY <2>4, <3>1, <3>2 DEF RunCharted
    <3> QED
      BY <1>f, <2>1, <3>1, <3>4, <3>5
  <2>6. CASE ~Repeats(rand)
    <3>1. pc' = "done"
      BY <1>4, <2>6 DEF Again
    <3>2. AllCharted(t, log)
      BY <2>3, <2>4, <2>6, AgainCharted DEF AllCharted
    <3> QED
      BY <1>f, <2>1, <3>1, <3>2
  <2> QED
    BY <2>5, <2>6
<1>5. CASE Regenerate
  <2>1. PICK e \in log : e.choices # << >> /\ goal' = e.hist
    BY <1>5 DEF Regenerate
  <2>2. log' = log /\ pc' = "run"
    BY <1>5 DEF Regenerate
  <2>3. prog[<< >>] \notin {"end", "skip"} /\ prog[goal'] \in {"end", "skip"}
    BY <1>s, <2>1, RecordedFacts
  <2>4. Regenerating'
    BY <2>3 DEF Regenerating
  <2> QED
    BY <1>f, <2>2, <2>4
<1>6. CASE UNCHANGED vars
  <2>1. /\ fail' = fail /\ debug' = debug /\ rand' = rand /\ hist' = hist /\ log' = log
        /\ goal' = goal /\ pc' = pc
    BY <1>6 DEF vars, env, kernel, driver
  <2>2. Now(rand.choices, rand.cur)' = Now(rand.choices, rand.cur)
    BY <2>1 DEF Now, Gone, InArms, Target
  <2>3. Regenerating' <=> Regenerating
    BY <2>1 DEF Regenerating
  <2> QED
    BY <1>f, <2>1, <2>2, <2>3
<1> QED
  BY <1>s, <1>1, <1>2, <1>3, <1>4, <1>5, <1>6
  DEF Next, Driven, ReplayPanic, OtherPoint, OtherDisable, OtherEnable, Other

-----------------------------------------------------------------------------
(* The list of choices and the execution, with extra failures              *)

\* The last choice used at step k was the flag of a call, and it was raised, or
\* it was a count.
FlagDrawn(t, c, f, k) ==
    /\ c[f[k].used] # 0
    /\ \E j \in 0 .. (k - 1) : f[j].used + 1 = f[k].used /\ f[j].at # "count" /\ Ceil(t, f[j]) = 2
CountDrawn(f, k) == \E j \in 0 .. (k - 1) : f[j].used + 1 = f[k].used /\ f[j].at = "count"

\* What has been drawn last where a count is to be drawn, and where the record
\* is armed.
Posed(t, c, f, k) ==
    /\ f[k].at = "count" => FlagDrawn(t, c, f, k)
    /\ f[k].armed = 1 /\ MaxPoints = 1 => FlagDrawn(t, c, f, k)
    /\ f[k].armed = 1 /\ MaxPoints # 1 => CountDrawn(f, k)

\* A step that uses no choice keeps it.
LEMMA PosedStays ==
    ASSUME NEW t, NEW c, NEW f, NEW k \in Nat, f[k + 1].used = f[k].used
    PROVE  /\ FlagDrawn(t, c, f, k) => FlagDrawn(t, c, f, k + 1)
           /\ CountDrawn(f, k) => CountDrawn(f, k + 1)
<1>1. \A j \in 0 .. (k - 1) : j \in 0 .. ((k + 1) - 1)
  OBVIOUS
<1>2. ASSUME FlagDrawn(t, c, f, k) PROVE FlagDrawn(t, c, f, k + 1)
  <2>1. PICK j \in 0 .. (k - 1) : f[j].used + 1 = f[k].used /\ f[j].at # "count" /\ Ceil(t, f[j]) = 2
    BY <1>2 DEF FlagDrawn
  <2>2. j \in 0 .. ((k + 1) - 1) /\ f[j].used + 1 = f[k + 1].used
    BY <1>1, <2>1
  <2>3. c[f[k + 1].used] # 0
    BY <1>2 DEF FlagDrawn
  <2> QED
    BY <2>1, <2>2, <2>3, Zenon DEF FlagDrawn
<1>3. ASSUME CountDrawn(f, k) PROVE CountDrawn(f, k + 1)
  <2>1. PICK j \in 0 .. (k - 1) : f[j].used + 1 = f[k].used /\ f[j].at = "count"
    BY <1>3 DEF CountDrawn
  <2>2. j \in 0 .. ((k + 1) - 1) /\ f[j].used + 1 = f[k + 1].used
    BY <1>1, <2>1
  <2> QED
    BY <2>1, <2>2, Zenon DEF CountDrawn
<1> QED
  BY <1>2, <1>3

\* All along an execution, with any number of extra failures.
LEMMA RunPosed ==
    ASSUME NEW t, NEW x, NEW c, NEW n \in Nat, NEW f, IsRun(t, x, c, f, n)
    PROVE  \A k \in Nat : k <= n => Posed(t, c, f, k)
<1> DEFINE S == {k \in Nat : k <= n => Posed(t, c, f, k)}
<1>1. 0 \in S
  BY DEF IsRun, Fresh, Conf, Posed
<1>u. \A k \in Nat : k <= n => \A i \in 0 .. k : f[i].used \in Nat /\ f[i].used <= f[k].used
  BY RunUses
<1>2. ASSUME NEW k \in Nat, k \in S PROVE k + 1 \in S
  <2>1. SUFFICES ASSUME k + 1 <= n PROVE Posed(t, c, f, k + 1)
    OBVIOUS
  <2>2. k \in 0 .. (n - 1) /\ k \in 0 .. k /\ k <= n /\ Posed(t, c, f, k) /\ k \in 0 .. ((k + 1) - 1)
    BY <1>2, <2>1
  <2>3. PICK s : s = f[k]
    OBVIOUS
  <2>4. PICK r : r = f[k + 1]
    OBVIOUS
  <2>5. r = After(t, x, c, s)
    BY <2>2, <2>3, <2>4 DEF IsRun
  <2>6. s.used \in Nat
    BY <1>u, <2>2, <2>3
  <2>7. /\ Ceil(t, s) # 1 => r.used = s.used + 1
        /\ Ceil(t, s) = 1 => r.used = s.used
    BY <2>5, <2>6, AskingUses
  <2>8. CASE s.at = "count" /\ MaxPoints # 1
    <3>1. r.used = s.used + 1 /\ r.at = "run" /\ r.armed = 1
      BY <2>5, <2>7, <2>8 DEF Ceil, After, Conf
    <3>2. CountDrawn(f, k + 1)
      BY <2>2, <2>3, <2>4, <2>8, <3>1 DEF CountDrawn
    <3> QED
      BY <2>4, <2>8, <3>1, <3>2 DEF Posed
  <2>9. CASE s.at = "count" /\ MaxPoints = 1
    <3>1. r.used = s.used /\ r.at = "run" /\ r.armed = 1
      BY <2>5, <2>7, <2>9 DEF Ceil, After, Conf
    <3>2. FlagDrawn(t, c, f, k)
      BY <2>2, <2>3, <2>9 DEF Posed
    <3>3. FlagDrawn(t, c, f, k + 1)
      BY <2>3, <2>4, <3>1, <3>2, PosedStays
    <3> QED
      BY <2>4, <2>9, <3>1, <3>3 DEF Posed
  <2>10. CASE s.at # "count" /\ t[s.h] = "call" /\ Value(t, c, s) # 0
    <3>1. Ceil(t, s) = 2 /\ r.used = s.used + 1 /\ r.at = "count" /\ r.armed = 0 /\ c[s.used + 1] # 0
      BY <2>5, <2>7, <2>10 DEF Ceil, After, Conf, Value
    <3>2. FlagDrawn(t, c, f, k + 1)
      BY <2>2, <2>3, <2>4, <2>10, <3>1 DEF FlagDrawn
    <3> QED
      BY <2>4, <3>1, <3>2 DEF Posed
  <2>11. CASE /\ s.at # "count" /\ t[s.h] \in {"call", "return", "check"}
              /\ ~(t[s.h] = "call" /\ Value(t, c, s) # 0)
    <3>1. r.at = "run" /\ r.armed = 0
      BY <2>5, <2>11 DEF After, Fresh, Conf
    <3> QED
      BY <2>4, <3>1 DEF Posed
  <2>12. CASE s.at # "count" /\ t[s.h] \notin {"call", "return", "check"}
    <3>1. r.at = s.at /\ r.armed = s.armed
      BY <2>5, <2>12 DEF After, Conf
    <3>2. r.used = s.used
      BY <2>7, <2>12 DEF Ceil
    <3>3. /\ FlagDrawn(t, c, f, k) => FlagDrawn(t, c, f, k + 1)
          /\ CountDrawn(f, k) => CountDrawn(f, k + 1)
      BY <2>3, <2>4, <3>2, PosedStays
    <3> QED
      BY <2>2, <2>3, <2>4, <2>12, <3>1, <3>3 DEF Posed
  <2> QED
    BY <2>8, <2>9, <2>10, <2>11, <2>12
<1> HIDE DEF S
<1>3. \A k \in Nat : k \in S
  BY <1>1, <1>2, Induction
<1> QED
  BY <1>3 DEF S

\* An execution does not depend on the choices it has not used.
LEMMA OnRunUses ==
    ASSUME NEW t, NEW x, NEW c \in Seq(Nat), NEW s, OnRun(t, x, c, s)
    PROVE  /\ s.used \in 0 .. Len(c)
           /\ \A d \in Seq(Nat) :
                s.used <= Len(d) /\ (\A k \in 1 .. s.used : c[k] = d[k]) => OnRun(t, x, d, s)
<1>1. PICK n \in Nat : \E f : IsRun(t, x, c, f, n) /\ f[n] = s
  BY DEF OnRun
<1>2. PICK f : IsRun(t, x, c, f, n) /\ f[n] = s
  BY <1>1
<1>3. \A k \in Nat : k <= n => \A i \in 0 .. k : f[i].used \in Nat /\ f[i].used <= f[k].used
  BY <1>2, RunUses
<1>4. n <= n /\ n \in 0 .. n /\ Len(c) \in Nat
  OBVIOUS
<1>5. s.used \in Nat
  BY <1>2, <1>3, <1>4
<1>6. s.used <= Len(c)
  <2>1. CASE n = 0
    <3>1. s.used = 0
      BY <1>2, <2>1 DEF IsRun, Fresh, Conf
    <3> QED
      BY <1>4, <3>1
  <2>2. CASE n # 0
    <3>1. n - 1 \in 0 .. (n - 1) /\ (n - 1) + 1 = n
      BY <2>2
    <3>2. f[(n - 1) + 1].used <= Len(c)
      BY <1>2, <3>1 DEF IsRun
    <3> QED
      BY <1>2, <3>1, <3>2
  <2> QED
    BY <2>1, <2>2
<1>7. ASSUME NEW d \in Seq(Nat), s.used <= Len(d), \A k \in 1 .. s.used : c[k] = d[k]
      PROVE  OnRun(t, x, d, s)
  <2>1. IsRun(t, x, d, f, n)
    <3>1. Len(d) \in Nat
      OBVIOUS
    <3> QED
      BY <1>2, <1>7, <3>1, RunTransfers
  <2> QED
    BY <1>2, <2>1 DEF OnRun
<1> QED
  BY <1>4, <1>5, <1>6, <1>7

\* What comes before a place of an execution is one of its places.
LEMMA OnRunBefore ==
    ASSUME NEW t, NEW x, NEW c, NEW n \in Nat, NEW f, IsRun(t, x, c, f, n), NEW j \in 0 .. n
    PROVE  OnRun(t, x, c, f[j])
<1>1. j \in Nat /\ j <= n
  OBVIOUS
<1>2. IsRun(t, x, c, f, j)
  BY <1>1, RunShorter
<1> QED
  BY <1>1, <1>2 DEF OnRun

\* Two executions whose first choices are the same ask the same for the next.
LEMMA AskSame ==
    ASSUME NEW t, NEW x, NEW c \in Seq(Nat), NEW d \in Seq(Nat), NEW s, NEW r,
           OnRun(t, x, c, s), OnRun(t, x, d, r), s.used = r.used, s.used <= Len(d),
           \A k \in 1 .. s.used : c[k] = d[k], Ceil(t, s) # 1, Ceil(t, r) # 1
    PROVE  s = r
<1>0. s.used \in Nat /\ s.used <= Len(c) /\ Len(c) \in Nat /\ Len(d) \in Nat
  BY OnRunUses
<1>1. PICK p \in Seq(Nat) : Len(p) = s.used /\ \A k \in 1 .. s.used : p[k] = c[k]
  <2>1. PICK v \in 0 .. Len(c) : v = s.used
    BY <1>0
  <2>2. SubSeq(c, 1, v) \in Seq(Nat) /\ Len(SubSeq(c, 1, v)) = v /\ \A k \in 1 .. v : SubSeq(c, 1, v)[k] = c[k]
    BY <2>1, Beginning
  <2> QED
    BY <2>1, <2>2
<1>2. OnRun(t, x, p, s) /\ OnRun(t, x, p, r)
  <2>0. PICK u \in Nat : u = s.used
    BY <1>0
  <2>1. u <= Len(p) /\ (\A k \in 1 .. u : c[k] = p[k])
    BY <1>1, <2>0
  <2>2. \A k \in 1 .. u : d[k] = p[k]
    BY <1>1, <2>0
  <2> QED
    BY <1>1, <2>0, <2>1, <2>2, OnRunUses
<1>3. PICK n \in Nat : \E f : IsRun(t, x, p, f, n) /\ f[n] = s
  BY <1>2 DEF OnRun
<1>4. PICK f : IsRun(t, x, p, f, n) /\ f[n] = s
  BY <1>3
<1>5. PICK m \in Nat : \E g : IsRun(t, x, p, g, m) /\ g[m] = r
  BY <1>2 DEF OnRun
<1>6. PICK g : IsRun(t, x, p, g, m) /\ g[m] = r
  BY <1>5
<1>7. f[n].used = Len(p) /\ g[m].used = Len(p) /\ Ceil(t, f[n]) # 1 /\ Ceil(t, g[m]) # 1
  BY <1>1, <1>4, <1>6
<1>8. m <= n
  BY <1>4, <1>6, <1>7, AskingStops
<1>9. n <= m
  BY <1>4, <1>6, <1>7, AskingStops
<1>10. n = m
  BY <1>8, <1>9
<1>11. \A i \in Nat : i <= n /\ i <= m => f[i] = g[i]
  BY <1>4, <1>6, RunsAgree
<1> QED
  BY <1>4, <1>6, <1>10, <1>11

\* The last choice of a call that is to fail.
LEMMA UnfailingUsed ==
    ASSUME NEW t, NEW x, NEW c \in Seq(Nat), NEW s, OnRun(t, x, c, s), s.armed = 1 \/ s.at = "count"
    PROVE  /\ s.used \in 1 .. Len(c)
           /\ \E a : /\ OnRun(t, x, c, a) /\ a.used + 1 = s.used /\ a.used \in Nat
                     /\ \/ s.at # "count" /\ MaxPoints # 1 /\ a.at = "count"
                        \/ /\ s.at = "count" \/ MaxPoints = 1
                           /\ a.at # "count" /\ Ceil(t, a) = 2 /\ c[s.used] # 0
<1>0. s.used \in 0 .. Len(c)
  BY OnRunUses
<1>1. PICK n \in Nat : \E f : IsRun(t, x, c, f, n) /\ f[n] = s
  BY DEF OnRun
<1>2. PICK f : IsRun(t, x, c, f, n) /\ f[n] = s
  BY <1>1
<1>3. Posed(t, c, f, n)
  <2>1. \A k \in Nat : k <= n => Posed(t, c, f, k)
    BY <1>2, RunPosed
  <2> QED
    BY <2>1
<1>4. PICK j \in 0 .. (n - 1) :
        /\ f[j].used + 1 = s.used
        /\ \/ s.at # "count" /\ MaxPoints # 1 /\ f[j].at = "count"
           \/ /\ s.at = "count" \/ MaxPoints = 1
              /\ f[j].at # "count" /\ Ceil(t, f[j]) = 2 /\ c[s.used] # 0
  <2>1. CASE s.at = "count" \/ MaxPoints = 1
    <3>1. FlagDrawn(t, c, f, n)
      BY <1>2, <1>3, <2>1 DEF Posed
    <3> QED
      BY <1>2, <2>1, <3>1 DEF FlagDrawn
  <2>2. CASE s.at # "count" /\ MaxPoints # 1
    <3>1. CountDrawn(f, n)
      BY <1>2, <1>3, <2>2 DEF Posed
    <3> QED
      BY <1>2, <2>2, <3>1 DEF CountDrawn
  <2> QED
    BY <2>1, <2>2
<1>5. j \in 0 .. n
  OBVIOUS
<1>6. OnRun(t, x, c, f[j])
  BY <1>2, <1>5, OnRunBefore
<1>7. f[j].used \in Nat
  BY <1>6, OnRunUses
<1>8. s.used \in 1 .. Len(c)
  BY <1>0, <1>4, <1>7
<1> QED
  BY <1>4, <1>6, <1>7, <1>8

-----------------------------------------------------------------------------
\* The choices of the search are below the ceilings it has recorded for them.
Below(r) == \A i \in 1 .. Len(r.choices) : r.choices[i] < r.ceils[i]

\* The ceilings that the search has recorded are those that an execution with
\* its choices asks for, and a count after which nothing fails is the last one.
Last(r, u) == r.choices[u] = r.ceils[u] - 1
Matches(t, x, r) ==
    \A s : OnRun(t, x, r.choices, s) /\ s.used < Len(r.choices) =>
             /\ Ceil(t, s) # 1 => r.ceils[s.used + 1] = Ceil(t, s)
             /\ Unfailing(t, s) => Last(r, s.used)

\* The execution of the search is the one of its choices, ...
Pursues(t, x, r, s) ==
    \E n \in Nat : \E f : /\ IsRun(t, x, r.choices, f, n) /\ f[n] = s
                          /\ \A i \in 0 .. (n - 1) : Unfailing(t, f[i]) => Last(r, f[i].used)

\* ... or skip_rest has changed a count under it, and an execution with the
\* choices as they are now asks for no count next.
Strays(t, x, r) ==
    /\ r.cur = Len(r.choices)
    /\ \A s : OnRun(t, x, r.choices, s) /\ s.used = Len(r.choices) =>
                s.at # "count" /\ (Unfailing(t, s) => Last(r, s.used))

\* A generator in parts.
LEMMA GeneratorParts ==
    ASSUME NEW r, IsGenerator(r)
    PROVE  /\ r.choices \in Seq(Nat) /\ r.ceils \in Seq(Nat) /\ r.cur \in Nat
           /\ Len(r.choices) \in Nat /\ Len(r.ceils) = Len(r.choices) /\ r.cur <= Len(r.choices)
           /\ \A i \in 1 .. Len(r.choices) : r.choices[i] \in Nat /\ r.ceils[i] \in Nat
BY ElementOfSeq DEF IsGenerator

\* A record of a new choice.
Adds(r, r2, ceil) ==
    /\ r2.choices = Append(r.choices, 0) /\ r2.ceils = Append(r.ceils, ceil) /\ r2.cur = r.cur + 1

\* Its elements.
LEMMA NewChoice ==
    ASSUME NEW r, IsGenerator(r), NEW r2, NEW ceil \in Nat, Adds(r, r2, ceil)
    PROVE  /\ r2.choices \in Seq(Nat) /\ Len(r2.choices) = Len(r.choices) + 1
           /\ \A i \in 1 .. Len(r.choices) : r2.choices[i] = r.choices[i] /\ r2.ceils[i] = r.ceils[i]
           /\ r2.choices[Len(r.choices) + 1] = 0 /\ r2.ceils[Len(r.choices) + 1] = ceil
<1>0. /\ r.choices \in Seq(Nat) /\ r.ceils \in Seq(Nat) /\ Len(r.choices) \in Nat
      /\ Len(r.ceils) = Len(r.choices)
  BY GeneratorParts
<1>1. PICK c \in Seq(Nat) : c = r.choices
  BY <1>0
<1>2. PICK b \in Seq(Nat) : b = r.ceils
  BY <1>0
<1>3. PICK d : d = Append(c, 0)
  OBVIOUS
<1>4. PICK e : e = Append(b, ceil)
  OBVIOUS
<1>5. d \in Seq(Nat) /\ Len(d) = Len(c) + 1 /\ d[Len(c) + 1] = 0 /\ \A i \in 1 .. Len(c) : d[i] = c[i]
  BY <1>3, AppendProperties
<1>6. e[Len(b) + 1] = ceil /\ \A i \in 1 .. Len(b) : e[i] = b[i]
  BY <1>4, AppendProperties
<1>7. r2.choices = d /\ r2.ceils = e
  BY <1>1, <1>2, <1>3, <1>4 DEF Adds
<1> QED
  BY <1>0, <1>1, <1>2, <1>5, <1>6, <1>7

\* It matches when it has been asked for.
LEMMA NewMatches ==
    ASSUME NEW t, NEW x, NEW r, IsGenerator(r), Matches(t, x, r), Below(r),
           NEW r2, NEW ceil \in Nat \ {0}, Adds(r, r2, ceil),
           \A s : OnRun(t, x, r.choices, s) /\ s.used = Len(r.choices) =>
                    /\ Ceil(t, s) # 1 => Ceil(t, s) = ceil
                    /\ Unfailing(t, s) => Last(r, s.used)
    PROVE  Matches(t, x, r2) /\ Below(r2)
<1>0. /\ r.choices \in Seq(Nat) /\ Len(r.choices) \in Nat
  BY GeneratorParts
<1>1. /\ r2.choices \in Seq(Nat) /\ Len(r2.choices) = Len(r.choices) + 1
      /\ \A i \in 1 .. Len(r.choices) : r2.choices[i] = r.choices[i] /\ r2.ceils[i] = r.ceils[i]
      /\ r2.choices[Len(r.choices) + 1] = 0 /\ r2.ceils[Len(r.choices) + 1] = ceil
  BY NewChoice
<1>2. Below(r2)
  <2>1. SUFFICES ASSUME NEW i \in 1 .. Len(r2.choices) PROVE r2.choices[i] < r2.ceils[i]
    BY DEF Below
  <2>2. i \in 1 .. Len(r.choices) \/ i = Len(r.choices) + 1
    BY <1>0, <1>1
  <2> QED
    BY <1>1, <2>2 DEF Below
<1>3. ASSUME NEW s, OnRun(t, x, r2.choices, s), s.used < Len(r2.choices)
      PROVE  /\ Ceil(t, s) # 1 => r2.ceils[s.used + 1] = Ceil(t, s)
             /\ Unfailing(t, s) => Last(r2, s.used)
  <2>0. PICK c \in Seq(Nat) : c = r.choices
    BY <1>0
  <2>1. PICK d \in Seq(Nat) : d = r2.choices
    BY <1>1
  <2>2. s.used \in 0 .. Len(d)
    BY <1>3, <2>1, OnRunUses
  <2>3. s.used \in 0 .. Len(c)
    BY <1>0, <1>1, <1>3, <2>0, <2>1, <2>2
  <2>4. \A k \in 1 .. s.used : d[k] = c[k]
    BY <1>1, <2>0, <2>1, <2>3
  <2>5. OnRun(t, x, c, s)
    <3>1. OnRun(t, x, d, s) /\ s.used <= Len(c)
      BY <1>3, <2>1, <2>3
    <3> QED
      BY <2>4, <3>1, OnRunUses
  <2>6. /\ Ceil(t, s) # 1 => r2.ceils[s.used + 1] = Ceil(t, s)
        /\ Unfailing(t, s) => Last(r, s.used)
    <3>1. CASE s.used = Len(c)
      BY <1>1, <2>0, <2>5, <3>1
    <3>2. CASE s.used # Len(c)
      <4>1. s.used < Len(c) /\ s.used + 1 \in 1 .. Len(c)
        BY <2>3, <3>2
      <4> QED
        BY <1>1, <2>0, <2>5, <4>1 DEF Matches
    <3> QED
      BY <3>1, <3>2
  <2>7. ASSUME Unfailing(t, s) PROVE Last(r2, s.used)
    <3>1. s.used \in 1 .. Len(c)
      BY <2>5, <2>7, UnfailingUsed DEF Unfailing
    <3> QED
      BY <1>1, <2>0, <2>6, <2>7, <3>1 DEF Last
  <2> QED
    BY <2>6, <2>7
<1> QED
  BY <1>2, <1>3 DEF Matches

\* The same for an object that has the same choices and ceilings.
LEMMA SameMatches ==
    ASSUME NEW t, NEW x, NEW r, NEW r2, r2.choices = r.choices, r2.ceils = r.ceils,
           Matches(t, x, r), Below(r)
    PROVE  Matches(t, x, r2) /\ Below(r2)
BY DEF Matches, Below, Last

\* The draws of a generator.
LEMMA DrawCases ==
    ASSUME NEW r, IsGenerator(r), NEW ceil \in Nat \ {0}
    PROVE  \/ /\ ceil = 1 \/ r.cur < Len(r.choices)
              /\ EnumRandom(r, ceil).choices = r.choices /\ EnumRandom(r, ceil).ceils = r.ceils
              /\ ceil = 1 => EnumRandom(r, ceil) = r
           \/ /\ ceil # 1 /\ r.cur = Len(r.choices)
              /\ Adds(r, EnumRandom(r, ceil), ceil) /\ EnumValue(r, ceil) = 0
<1>0. /\ r.choices \in Seq(Nat) /\ r.ceils \in Seq(Nat) /\ r.cur \in Nat
      /\ Len(r.choices) \in Nat /\ Len(r.ceils) = Len(r.choices) /\ r.cur <= Len(r.choices)
  BY GeneratorParts
<1>1. CASE ceil = 1
  BY <1>1 DEF EnumRandom
<1>2. CASE ceil # 1 /\ r.cur < Len(r.ceils)
  <2>1. EnumRandom(r, ceil) = [choices |-> r.choices, ceils |-> r.ceils, cur |-> r.cur + 1]
    BY <1>2 DEF EnumRandom
  <2> QED
    BY <1>0, <1>2, <2>1
<1>3. CASE ceil # 1 /\ ~(r.cur < Len(r.ceils))
  <2>1. EnumRandom(r, ceil) = [choices |-> Append(r.choices, 0), ceils |-> Append(r.ceils, ceil), cur |-> r.cur + 1]
    BY <1>3 DEF EnumRandom
  <2>2. EnumValue(r, ceil) = 0 /\ r.cur = Len(r.choices)
    BY <1>0, <1>3 DEF EnumValue
  <2> QED
    BY <1>3, <2>1, <2>2 DEF Adds
<1> QED
  BY <1>1, <1>2, <1>3

\* A draw of an execution that is the one of its choices.
LEMMA DrawMatches ==
    ASSUME NEW t, NEW x, NEW r, IsGenerator(r), Matches(t, x, r), Below(r),
           NEW n \in Nat, NEW f, IsRun(t, x, r.choices, f, n), f[n].used = r.cur,
           \A i \in 0 .. (n - 1) : Unfailing(t, f[i]) => Last(r, f[i].used)
    PROVE  /\ Matches(t, x, EnumRandom(r, Ceil(t, f[n]))) /\ Below(EnumRandom(r, Ceil(t, f[n])))
           /\ \A i \in 0 .. (n - 1) : Unfailing(t, f[i]) => Last(EnumRandom(r, Ceil(t, f[n])), f[i].used)
<1>0. /\ r.choices \in Seq(Nat) /\ r.cur \in Nat /\ Len(r.choices) \in Nat
  BY GeneratorParts
<1>1. PICK ceil \in Nat \ {0} : ceil = Ceil(t, f[n])
  BY <1>0, AskingUses
<1>2. PICK r2 : r2 = EnumRandom(r, ceil)
  OBVIOUS
<1>3. CASE r2.choices = r.choices /\ r2.ceils = r.ceils
  <2>1. Matches(t, x, r2) /\ Below(r2)
    BY <1>3, SameMatches
  <2> QED
    BY <1>1, <1>2, <1>3, <2>1 DEF Last
<1>4. CASE ceil # 1 /\ r.cur = Len(r.choices) /\ Adds(r, r2, ceil)
  <2>c. PICK c \in Seq(Nat) : c = r.choices
    BY <1>0
  <2>1. OnRun(t, x, c, f[n])
    BY <2>c DEF OnRun
  <2>2. ASSUME NEW s, OnRun(t, x, c, s), s.used = Len(c), Ceil(t, s) # 1 PROVE Ceil(t, s) = ceil
    <3>1. s.used = f[n].used /\ s.used <= Len(c) /\ Ceil(t, f[n]) # 1
      BY <1>0, <1>1, <1>4, <2>c, <2>2
    <3>2. s = f[n]
      BY <2>1, <2>2, <3>1, AskSame
    <3> QED
      BY <1>1, <3>2
  <2>3. ASSUME NEW s, OnRun(t, x, c, s), s.used = Len(c), Unfailing(t, s) PROVE Last(r, s.used)
    <3>1. PICK m \in Nat : \E g : IsRun(t, x, c, g, m) /\ g[m] = s
      BY <2>3 DEF OnRun
    <3>2. PICK g : IsRun(t, x, c, g, m) /\ g[m] = s
      BY <3>1
    <3>3. f[n].used = Len(c) /\ Ceil(t, f[n]) # 1 /\ IsRun(t, x, c, f, n)
      BY <1>1, <1>4, <2>c
    <3>4. m <= n
      BY <3>2, <3>3, AskingStops
    <3>5. g[m] = f[m]
      <4>1. \A i \in Nat : i <= n /\ i <= m => f[i] = g[i]
        BY <3>2, <3>3, RunsAgree
      <4>2. m <= m
        OBVIOUS
      <4> QED
        BY <3>4, <4>1, <4>2
    <3>6. m # n
      <4>1. Ceil(t, s) = 1
        BY <2>3 DEF Unfailing, Ceil
      <4> QED
        BY <3>2, <3>3, <3>5, <4>1
    <3>7. m \in 0 .. (n - 1)
      BY <3>4, <3>6
    <3> QED
      BY <2>3, <3>2, <3>5, <3>7
  <2>4. Matches(t, x, r2) /\ Below(r2)
    BY <1>4, <2>c, <2>2, <2>3, NewMatches
  <2>5. ASSUME NEW i \in 0 .. (n - 1), Unfailing(t, f[i]) PROVE Last(r2, f[i].used)
    <3>1. i \in 0 .. n
      OBVIOUS
    <3>2. OnRun(t, x, c, f[i])
      BY <2>c, <3>1, OnRunBefore
    <3>3. f[i].used \in 1 .. Len(c)
      BY <2>5, <3>2, UnfailingUsed DEF Unfailing
    <3>4. r2.choices[f[i].used] = r.choices[f[i].used] /\ r2.ceils[f[i].used] = r.ceils[f[i].used]
      <4>1. ceil \in Nat
        OBVIOUS
      <4>2. \A k \in 1 .. Len(r.choices) : r2.choices[k] = r.choices[k] /\ r2.ceils[k] = r.ceils[k]
        BY <1>4, <4>1, NewChoice
      <4> QED
        BY <2>c, <3>3, <4>2
    <3> QED
      BY <2>5, <3>4 DEF Last
  <2> QED
    BY <1>1, <1>2, <2>4, <2>5
<1> QED
  BY <1>2, <1>3, <1>4, DrawCases

\* A draw of one that is not.
LEMMA DrawStrays ==
    ASSUME NEW t, NEW x, NEW r, IsGenerator(r), Matches(t, x, r), Below(r), Strays(t, x, r),
           NEW r2, Adds(r, r2, 2)
    PROVE  Matches(t, x, r2) /\ Below(r2) /\ Strays(t, x, r2)
<1>0. r.choices \in Seq(Nat) /\ Len(r.choices) \in Nat
  BY GeneratorParts
<1>c. PICK c \in Seq(Nat) : c = r.choices
  BY <1>0
<1>1. ASSUME NEW s, OnRun(t, x, c, s), s.used = Len(c)
      PROVE  /\ Ceil(t, s) # 1 => Ceil(t, s) = 2
             /\ Unfailing(t, s) => Last(r, s.used)
  BY <1>c, <1>1 DEF Strays, Ceil
<1>2. Matches(t, x, r2) /\ Below(r2)
  BY <1>c, <1>1, NewMatches
<1>3. /\ r2.choices \in Seq(Nat) /\ Len(r2.choices) = Len(c) + 1
      /\ \A i \in 1 .. Len(c) : r2.choices[i] = c[i]
      /\ r2.choices[Len(c) + 1] = 0
  BY <1>c, NewChoice
<1>d. PICK d \in Seq(Nat) : d = r2.choices
  BY <1>3
<1>4. r2.cur = Len(d)
  BY <1>c, <1>3, <1>d DEF Adds, Strays
<1>5. ASSUME NEW s, OnRun(t, x, d, s), s.used = Len(d), s.armed = 1 \/ s.at = "count" PROVE FALSE
  <2>1. PICK a : /\ OnRun(t, x, d, a) /\ a.used + 1 = s.used /\ a.used \in Nat
                 /\ a.at = "count" \/ d[s.used] # 0
    BY <1>5, UnfailingUsed
  <2>2. d[s.used] = 0 /\ a.used = Len(c)
    BY <1>3, <1>d, <1>5, <2>1
  <2>3. \A k \in 1 .. a.used : d[k] = c[k]
    BY <1>3, <1>d, <2>2
  <2>4. OnRun(t, x, c, a)
    BY <2>1, <2>2, <2>3, OnRunUses
  <2> QED
    BY <1>c, <2>1, <2>2, <2>4 DEF Strays
<1>6. ASSUME NEW s, OnRun(t, x, d, s), s.used = Len(d)
      PROVE  s.at # "count" /\ (Unfailing(t, s) => Last(r2, s.used))
  BY <1>5, <1>6 DEF Unfailing
<1> QED
  BY <1>2, <1>d, <1>4, <1>6 DEF Strays

\* skip_rest either changes nothing, ...
LEMMA SkipSame ==
    ASSUME NEW r, IsGenerator(r), r.cur \in 1 .. Len(r.choices), Last(r, r.cur)
    PROVE  SkipRest(r) = r
<1>1. PICK c \in Seq(Nat) : c = r.choices
  BY GeneratorParts
<1>2. r.choices[r.cur] = r.ceils[r.cur] - 1
  BY DEF Last
<1>3. [c EXCEPT ![r.cur] = r.ceils[r.cur] - 1] = c
  BY <1>1, <1>2
<1>4. r = [r EXCEPT !.choices = r.choices]
  BY DEF IsGenerator
<1> QED
  BY <1>1, <1>3, <1>4 DEF SkipRest

\* ... because the count is the last one already, or it changes the last choice.
LEMMA SkipLast ==
    ASSUME NEW t, NEW x, NEW r, IsGenerator(r), Matches(t, x, r), Below(r),
           NEW s, OnRun(t, x, r.choices, s), s.used = r.cur, Unfailing(t, s)
    PROVE  r.cur \in 1 .. Len(r.choices) /\ (Last(r, r.cur) \/ (r.cur = Len(r.choices) /\ MaxPoints # 1))
<1>0. /\ r.choices \in Seq(Nat) /\ Len(r.choices) \in Nat
      /\ \A i \in 1 .. Len(r.choices) : r.choices[i] \in Nat /\ r.ceils[i] \in Nat
  BY GeneratorParts
<1>c. PICK c \in Seq(Nat) : c = r.choices
  BY <1>0
<1>1. r.cur \in 1 .. Len(c)
  BY <1>c, UnfailingUsed DEF Unfailing
<1>2. CASE MaxPoints = 1
  <2>1. PICK a : /\ OnRun(t, x, c, a) /\ a.used + 1 = s.used /\ a.used \in Nat
                 /\ Ceil(t, a) = 2 /\ c[s.used] # 0
    BY <1>2, <1>c, UnfailingUsed DEF Unfailing
  <2>2. a.used < Len(c) /\ a.used + 1 = r.cur
    BY <1>1, <2>1
  <2>3. r.ceils[r.cur] = 2
    BY <1>c, <2>1, <2>2 DEF Matches
  <2>4. c[r.cur] < 2 /\ c[r.cur] # 0 /\ c[r.cur] \in Nat
    BY <1>0, <1>1, <1>c, <2>1, <2>3 DEF Below
  <2> QED
    BY <1>1, <1>c, <2>3, <2>4 DEF Last
<1>3. CASE r.cur # Len(c)
  <2>1. s.used < Len(c)
    BY <1>1, <1>3
  <2> QED
    BY <1>1, <1>c, <2>1 DEF Matches
<1> QED
  BY <1>1, <1>2, <1>3, <1>c

\* Then the execution is no longer the one of its choices.
LEMMA SkipStrays ==
    ASSUME NEW t, NEW x, NEW r, IsGenerator(r), Matches(t, x, r), Below(r),
           NEW s, OnRun(t, x, r.choices, s), s.used = r.cur, Unfailing(t, s),
           r.cur = Len(r.choices), MaxPoints # 1
    PROVE  Matches(t, x, SkipRest(r)) /\ Below(SkipRest(r)) /\ Strays(t, x, SkipRest(r))
<1>0. /\ r.choices \in Seq(Nat) /\ r.ceils \in Seq(Nat) /\ Len(r.choices) \in Nat
      /\ \A i \in 1 .. Len(r.choices) : r.choices[i] \in Nat /\ r.ceils[i] \in Nat
      /\ r \in [choices : Seq(Nat), ceils : Seq(Nat), cur : Nat]
  BY GeneratorParts DEF IsGenerator
<1>c. PICK c \in Seq(Nat) : c = r.choices
  BY <1>0
<1>1. PICK u \in 1 .. Len(c) : u = r.cur /\ u = Len(c)
  BY <1>c, UnfailingUsed DEF Unfailing
<1>2. PICK w \in Nat : w = r.ceils[u] - 1
  <2>1. c[u] \in Nat /\ r.ceils[u] \in Nat /\ c[u] < r.ceils[u]
    BY <1>0, <1>1, <1>c DEF Below
  <2> QED
    BY <2>1
<1>3. PICK d : d = [c EXCEPT ![u] = w]
  OBVIOUS
<1>4. d \in Seq(Nat) /\ Len(d) = u /\ d[u] = w /\ \A k \in 1 .. (u - 1) : d[k] = c[k]
  BY <1>1, <1>3
<1>5. PICK r2 : r2 = SkipRest(r)
  OBVIOUS
<1>6. r2.choices = d /\ r2.ceils = r.ceils /\ r2.cur = u
  <2>1. r2 = [r EXCEPT !.choices = d]
    BY <1>1, <1>2, <1>3, <1>5, <1>c DEF SkipRest
  <2> QED
    BY <1>0, <1>1, <2>1
<1>7. Below(r2)
  <2>1. SUFFICES ASSUME NEW i \in 1 .. u PROVE d[i] < r.ceils[i]
    BY <1>4, <1>6 DEF Below
  <2>2. CASE i = u
    <3>1. r.ceils[u] \in Nat
      BY <1>0, <1>1, <1>c
    <3>2. d[u] < r.ceils[u]
      BY <1>2, <1>4, <3>1
    <3> QED
      BY <2>2, <3>2
  <2>3. CASE i # u
    <3>1. i \in 1 .. (u - 1) /\ i \in 1 .. Len(c)
      BY <1>1, <2>3
    <3>2. c[i] < r.ceils[i]
      BY <1>c, <3>1 DEF Below
    <3> QED
      BY <1>4, <3>1, <3>2
  <2> QED
    BY <2>2, <2>3
<1>8. ASSUME NEW a, OnRun(t, x, d, a), a.used < u
      PROVE  /\ OnRun(t, x, c, a)
             /\ Ceil(t, a) # 1 => r.ceils[a.used + 1] = Ceil(t, a)
             /\ Unfailing(t, a) => d[a.used] = r.ceils[a.used] - 1
  <2>1. a.used \in 0 .. Len(d)
    BY <1>4, <1>8, OnRunUses
  <2>2. a.used <= Len(c) /\ \A k \in 1 .. a.used : d[k] = c[k]
    BY <1>1, <1>4, <1>8, <2>1
  <2>3. OnRun(t, x, c, a)
    BY <1>4, <1>8, <2>2, OnRunUses
  <2>4. /\ Ceil(t, a) # 1 => r.ceils[a.used + 1] = Ceil(t, a)
        /\ Unfailing(t, a) => c[a.used] = r.ceils[a.used] - 1
    BY <1>1, <1>8, <1>c, <2>3 DEF Matches, Last
  <2>5. Unfailing(t, a) => a.used \in 1 .. Len(c)
    BY <2>3, UnfailingUsed DEF Unfailing
  <2>6. Unfailing(t, a) => d[a.used] = c[a.used]
    BY <1>1, <1>4, <1>8, <2>2, <2>5
  <2> QED
    BY <2>3, <2>4, <2>6
<1>9. Matches(t, x, r2)
  BY <1>4, <1>6, <1>8 DEF Matches, Last
<1>10. ASSUME NEW a, OnRun(t, x, d, a), a.used = u, a.at = "count" PROVE FALSE
  <2>1. PICK b : OnRun(t, x, d, b) /\ b.used + 1 = u /\ b.used \in Nat /\ b.at # "count" /\ Ceil(t, b) = 2
    BY <1>4, <1>10, UnfailingUsed
  <2>2. PICK e : OnRun(t, x, c, e) /\ e.used + 1 = u /\ e.used \in Nat /\ e.at = "count"
    BY <1>1, <1>c, UnfailingUsed DEF Unfailing
  <2>3. OnRun(t, x, c, b)
    BY <1>8, <2>1
  <2>4. Ceil(t, e) # 1 /\ Ceil(t, b) # 1
    BY <2>1, <2>2 DEF Ceil
  <2>5. b.used = e.used /\ b.used <= Len(c)
    BY <1>1, <2>1, <2>2
  <2>6. b = e
    BY <2>2, <2>3, <2>4, <2>5, AskSame
  <2> QED
    BY <2>1, <2>2, <2>6
<1>11. Strays(t, x, r2)
  BY <1>2, <1>4, <1>6, <1>10 DEF Strays, Last
<1> QED
  BY <1>5, <1>7, <1>9, <1>11

\* repeat() keeps what it leaves.
LEMMA RepeatMatches ==
    ASSUME NEW t, NEW x, NEW r, IsGenerator(r), Matches(t, x, r), Below(r), Repeats(r)
    PROVE  Matches(t, x, Repeat(r)) /\ Below(Repeat(r))
<1>0. /\ r.choices \in Seq(Nat) /\ Len(r.choices) \in Nat /\ r.cur \in Nat /\ r.cur <= Len(r.choices)
      /\ Len(r.ceils) = Len(r.choices)
      /\ r \in [choices : Seq(Nat), ceils : Seq(Nat), cur : Nat]
  BY GeneratorParts DEF IsGenerator
<1>1. PICK last \in Open(r) :
        /\ Repeat(r) \in [choices : Seq(Nat), ceils : Seq(Nat), cur : Nat]
        /\ Len(Repeat(r).choices) = last
        /\ \A i \in 1 .. last : /\ Repeat(r).ceils[i] = r.ceils[i]
                                /\ i # last => Repeat(r).choices[i] = r.choices[i]
        /\ Repeat(r).choices[last] = r.choices[last] + 1
  BY <1>0, RepeatFacts
<1>2. last \in 1 .. r.cur /\ r.choices[last] + 1 < r.ceils[last]
  BY DEF Open
<1>3. PICK r2 : r2 = Repeat(r)
  OBVIOUS
<1>c. PICK c \in Seq(Nat) : c = r.choices
  BY <1>0
<1>d. PICK d \in Seq(Nat) : d = r2.choices
  BY <1>1, <1>3
<1>4. /\ Len(d) = last /\ last \in 1 .. Len(c) /\ d[last] < r2.ceils[last]
      /\ \A i \in 1 .. (last - 1) : d[i] = c[i]
      /\ \A i \in 1 .. last : r2.ceils[i] = r.ceils[i]
  BY <1>0, <1>1, <1>2, <1>3, <1>c, <1>d
<1>5. Below(r2)
  <2>1. SUFFICES ASSUME NEW i \in 1 .. last PROVE d[i] < r2.ceils[i]
    BY <1>4, <1>d DEF Below
  <2>2. CASE i # last
    <3>1. i \in 1 .. (last - 1) /\ i \in 1 .. Len(c)
      BY <1>4, <2>2
    <3> QED
      BY <1>4, <1>c, <3>1 DEF Below
  <2> QED
    BY <1>4, <2>2
<1>6. ASSUME NEW a, OnRun(t, x, d, a), a.used < last
      PROVE  /\ Ceil(t, a) # 1 => r2.ceils[a.used + 1] = Ceil(t, a)
             /\ Unfailing(t, a) => Last(r2, a.used)
  <2>1. a.used \in 0 .. Len(d)
    BY <1>6, OnRunUses
  <2>2. a.used <= Len(c) /\ a.used < Len(c) /\ (\A k \in 1 .. a.used : d[k] = c[k])
    BY <1>4, <1>6, <2>1
  <2>3. OnRun(t, x, c, a)
    BY <1>6, <2>2, OnRunUses
  <2>4. /\ Ceil(t, a) # 1 => r.ceils[a.used + 1] = Ceil(t, a)
        /\ Unfailing(t, a) => Last(r, a.used)
    BY <1>c, <2>2, <2>3 DEF Matches
  <2>5. a.used + 1 \in 1 .. last
    BY <1>4, <1>6, <2>1
  <2>6. ASSUME Unfailing(t, a) PROVE Last(r2, a.used)
    <3>1. a.used \in 1 .. Len(c)
      BY <2>3, <2>6, UnfailingUsed DEF Unfailing
    <3>2. a.used \in 1 .. (last - 1) /\ a.used \in 1 .. last
      BY <1>4, <1>6, <3>1
    <3>3. d[a.used] = c[a.used] /\ r2.ceils[a.used] = r.ceils[a.used]
      BY <1>4, <3>2
    <3> QED
      BY <1>c, <1>d, <2>4, <2>6, <3>3 DEF Last
  <2> QED
    BY <1>4, <2>4, <2>5, <2>6
<1>7. Matches(t, x, r2)
  BY <1>4, <1>6, <1>d DEF Matches
<1> QED
  BY <1>3, <1>5, <1>7

-----------------------------------------------------------------------------
\* A replay of the choices c finds them below the ceilings it asks for.
Playable(t, x, c) ==
    \A s : OnRun(t, x, c, s) /\ s.used < Len(c) /\ Ceil(t, s) # 1 => c[s.used + 1] < Ceil(t, s)

\* Without other threads the ceilings of the search match its choices, its
\* execution pursues them or has strayed from them, and what it has executed
\* can be played back.
Matching ==
    alone =>
      /\ \A e \in log : Playable(prog, extra, e.choices)
      /\ ~Regenerating /\ pc \in {"run", "count", "ret"} => Matches(prog, extra, rand) /\ Below(rand)
      /\ ~Regenerating /\ pc \in {"run", "count"} =>
            \/ Pursues(prog, extra, rand, Now(rand.choices, rand.cur))
            \/ Strays(prog, extra, rand) /\ debug = 0 /\ pc = "run"

\* The parts of it, for the steps.
LEMMA MatchingFacts ==
    ASSUME Matching, alone, NEW t, t = prog, NEW x, x = extra
    PROVE  /\ \A e \in log : Playable(t, x, e.choices)
           /\ ~Regenerating /\ pc \in {"run", "count", "ret"} => Matches(t, x, rand) /\ Below(rand)
           /\ ~Regenerating /\ pc \in {"run", "count"} =>
                 \/ Pursues(t, x, rand, Now(rand.choices, rand.cur))
                 \/ Strays(t, x, rand) /\ debug = 0 /\ pc = "run"
BY DEF Matching

\* Choices that match can be played back.
LEMMA MatchesPlayable ==
    ASSUME NEW t, NEW x, NEW r, IsGenerator(r), Matches(t, x, r), Below(r)
    PROVE  Playable(t, x, r.choices)
<1>1. SUFFICES ASSUME NEW s, OnRun(t, x, r.choices, s), s.used < Len(r.choices), Ceil(t, s) # 1
               PROVE  r.choices[s.used + 1] < Ceil(t, s)
  BY DEF Playable
<1>2. PICK c \in Seq(Nat) : c = r.choices
  BY GeneratorParts
<1>3. s.used \in 0 .. Len(c)
  BY <1>1, <1>2, OnRunUses
<1>4. s.used + 1 \in 1 .. Len(c)
  BY <1>1, <1>2, <1>3
<1>5. c[s.used + 1] < r.ceils[s.used + 1]
  BY <1>2, <1>4 DEF Below
<1>6. r.ceils[s.used + 1] = Ceil(t, s)
  BY <1>1 DEF Matches
<1> QED
  BY <1>2, <1>5, <1>6

\* A step makes an execution longer that pursues its choices.
LEMMA PursuesMore ==
    ASSUME NEW t, NEW x, NEW r, NEW n \in Nat, NEW f, NEW s,
           IsRun(t, x, r.choices, More(f, n, s), n + 1),
           \A i \in 0 .. (n - 1) : Unfailing(t, f[i]) => Last(r, f[i].used),
           Unfailing(t, f[n]) => Last(r, f[n].used)
    PROVE  Pursues(t, x, r, s)
<1>1. n + 1 \in Nat /\ More(f, n, s)[n + 1] = s
  BY DEF More
<1>2. ASSUME NEW i \in 0 .. ((n + 1) - 1), Unfailing(t, More(f, n, s)[i])
      PROVE  Last(r, More(f, n, s)[i].used)
  <2>1. More(f, n, s)[i] = f[i] /\ (i = n \/ i \in 0 .. (n - 1))
    BY DEF More
  <2> QED
    BY <1>2, <2>1
<1>3. PICK g : g = More(f, n, s)
  OBVIOUS
<1>4. IsRun(t, x, r.choices, g, n + 1) /\ g[n + 1] = s
  BY <1>1, <1>3
<1>5. \A i \in 0 .. ((n + 1) - 1) : Unfailing(t, g[i]) => Last(r, g[i].used)
  BY <1>2, <1>3
<1> QED
  BY <1>1, <1>4, <1>5, Zenon DEF Pursues

\* A step of the search that does not skip and pursues its choices.
LEMMA EnumPursues ==
    ASSUME AllBracketed, Granted, Armed, Numbers, Steady, alone, ~Regenerating,
           Driven, ~PostUnfailed, pc' # "panic", NEW t, t = prog, NEW x, x = extra,
           Matches(t, x, rand), Below(rand), Pursues(t, x, rand, Now(rand.choices, rand.cur))
    PROVE  Matches(t, x, rand') /\ Below(rand') /\ Pursues(t, x, rand', Now(rand.choices, rand.cur)')
<1>0. PICK s : s = Now(rand.choices, rand.cur)
  OBVIOUS
<1>1. PICK n \in Nat : \E f : /\ IsRun(t, x, rand.choices, f, n) /\ f[n] = s
                              /\ \A i \in 0 .. (n - 1) : Unfailing(t, f[i]) => Last(rand, f[i].used)
  BY <1>0 DEF Pursues
<1>2. PICK f : /\ IsRun(t, x, rand.choices, f, n) /\ f[n] = s
               /\ \A i \in 0 .. (n - 1) : Unfailing(t, f[i]) => Last(rand, f[i].used)
  BY <1>1
<1>3. f[n].used = rand.cur
  BY <1>0, <1>2 DEF Now, Conf
<1>4. IsRun(prog, extra, rand.choices, f, n) /\ f[n] = Now(rand.choices, rand.cur)
  BY <1>0, <1>2
<1>5. PICK a : a = After(prog, extra, rand'.choices, f[n])
  OBVIOUS
<1>6. /\ Now(rand.choices, rand.cur)' = a
      /\ rand' = EnumRandom(rand, Ceil(prog, f[n]))
      /\ IsRun(prog, extra, rand'.choices, More(f, n, a), n + 1)
  BY <1>4, <1>5, EnumMoves
<1>7. PICK r2 : r2 = rand'
  OBVIOUS
<1>8. PICK r : r = rand
  OBVIOUS
<1>9. /\ Matches(t, x, r) /\ Below(r) /\ IsGenerator(r) /\ IsRun(t, x, r.choices, f, n) /\ f[n].used = r.cur
      /\ \A i \in 0 .. (n - 1) : Unfailing(t, f[i]) => Last(r, f[i].used)
      /\ r2 = EnumRandom(r, Ceil(t, f[n]))
  BY <1>2, <1>3, <1>6, <1>7, <1>8 DEF Numbers
<1>10. /\ Matches(t, x, r2) /\ Below(r2)
       /\ \A i \in 0 .. (n - 1) : Unfailing(t, f[i]) => Last(r2, f[i].used)
  BY <1>9, DrawMatches
<1>11. ~Unfailing(t, f[n])
  BY <1>4, StepSkips
<1>12. IsRun(t, x, r2.choices, More(f, n, a), n + 1)
  BY <1>6, <1>7
<1>13. Pursues(t, x, r2, a)
  BY <1>10, <1>11, <1>12, PursuesMore
<1> QED
  BY <1>6, <1>7, <1>10, <1>13

\* One that has strayed.
LEMMA EnumStrays ==
    ASSUME AllBracketed, Armed, Numbers, Steady, alone, ~Regenerating,
           Driven, pc' # "panic", NEW t, t = prog, NEW x,
           Matches(t, x, rand), Below(rand), Strays(t, x, rand), debug = 0, pc = "run"
    PROVE  Matches(t, x, rand') /\ Below(rand') /\ Strays(t, x, rand') /\ debug' = 0 /\ pc' = "run"
<1>e. \A e \in {"call", "return", "off", "on", "check", "skip", "end"} \cup Cps :
         Event = e => pc = "run" /\ prog[hist] = e
  BY ChoiceAssumption DEF Event
<1>1. ~PostUnfailed
  <2>1. SUFFICES ASSUME PostUnfailed PROVE FALSE
    OBVIOUS
  <2>2. pc = "run" /\ prog[hist] = "return" /\ should
    BY <1>e, <2>1 DEF PostUnfailed
  <2> QED
    BY <2>2, NodeIsBracketed DEF Steady
<1>2. PICK r : r = rand
  OBVIOUS
<1>3. PICK s : s = Now(rand.choices, rand.cur)
  OBVIOUS
<1>4. PICK ceil \in Nat \ {0} : ceil = Ceil(prog, s)
  BY <1>1, <1>3, DrivenDraws
<1>5. rand' = EnumRandom(r, ceil) /\ Drawn(ceil) = EnumValue(r, ceil)
  BY <1>1, <1>2, <1>3, <1>4, DrivenDraws
<1>6. s.at = "run" /\ s.h = hist
  BY <1>3 DEF Now, Conf
<1>7. ceil = 1 \/ ceil = 2
  BY <1>4, <1>6 DEF Ceil
<1>8. PICK r2 : r2 = EnumRandom(r, ceil)
  OBVIOUS
<1>9. IsGenerator(r) /\ Matches(t, x, r) /\ Below(r) /\ Strays(t, x, r)
  BY <1>2 DEF Numbers
<1>10. /\ ceil = 1 => r2 = r
       /\ ceil = 2 => Adds(r, r2, 2) /\ EnumValue(r, 2) = 0
  <2>1. r.cur = Len(r.choices) /\ Len(r.choices) \in Nat
    BY <1>9, GeneratorParts DEF Strays
  <2> QED
    BY <1>8, <1>9, <2>1, DrawCases
<1>11. Matches(t, x, r2) /\ Below(r2) /\ Strays(t, x, r2)
  <2>1. CASE ceil = 1
    BY <1>9, <1>10, <2>1
  <2>2. CASE ceil = 2
    BY <1>9, <1>10, <2>2, DrawStrays
  <2> QED
    BY <1>7, <2>1, <2>2
<1>12. debug' = 0 /\ pc' = "run"
  <2>1. CASE PreChoose
    <3>1. prog[hist] = "call"
      BY <1>e, <2>1 DEF PreChoose
    <3>2. ceil = 2
      BY <1>4, <1>6, <3>1 DEF Ceil
    <3>3. Drawn(2) = 0
      BY <1>5, <1>10, <3>2
    <3> QED
      BY <2>1, <3>3 DEF PreChoose
  <2>2. CASE SetCount
    BY <2>2 DEF SetCount
  <2>3. CASE Point \/ Disable \/ Enable \/ PostNothing \/ Check
    BY <2>3 DEF Point, Disable, Enable, PostNothing, Check
  <2>4. CASE PostFailed
    BY <2>4 DEF PostFailed, FlagReset
  <2> QED
    BY <1>1, <2>1, <2>2, <2>3, <2>4 DEF Driven
<1> QED
  BY <1>5, <1>8, <1>11, <1>12

\* A step of the search that skips.
LEMMA PostPursues ==
    ASSUME AllBracketed, Granted, Armed, Numbers, Steady, alone, ~Regenerating,
           PostUnfailed, pc' # "panic", NEW t, t = prog, NEW x,
           Matches(t, x, rand), Below(rand), Pursues(t, x, rand, Now(rand.choices, rand.cur))
    PROVE  /\ Matches(t, x, rand') /\ Below(rand')
           /\ \/ Pursues(t, x, rand', Now(rand.choices, rand.cur)')
              \/ Strays(t, x, rand') /\ debug' = 0 /\ pc' = "run"
<1>0. PICK s : s = Now(rand.choices, rand.cur)
  OBVIOUS
<1>1. PICK n \in Nat : \E f : /\ IsRun(t, x, rand.choices, f, n) /\ f[n] = s
                              /\ \A i \in 0 .. (n - 1) : Unfailing(t, f[i]) => Last(rand, f[i].used)
  BY <1>0 DEF Pursues
<1>2. PICK f : /\ IsRun(t, x, rand.choices, f, n) /\ f[n] = s
               /\ \A i \in 0 .. (n - 1) : Unfailing(t, f[i]) => Last(rand, f[i].used)
  BY <1>1
<1>3. s.used = rand.cur /\ s.h = hist /\ s.at = pc
  BY <1>0 DEF Now, Conf
<1>4. PICK r : r = rand
  OBVIOUS
<1>5. rand' = SkipRest(r) /\ hist' = Append(hist, 0) /\ debug' = 0 /\ pc' = pc
  BY <1>4 DEF PostUnfailed, Happened, FlagReset
<1>6. Unfailing(t, s)
  <2>1. Driven
    BY DEF Driven
  <2> QED
    BY <1>0, <2>1, StepSkips
<1>7. /\ IsGenerator(r) /\ Matches(t, x, r) /\ Below(r) /\ OnRun(t, x, r.choices, s)
      /\ s.used = r.cur
  BY <1>2, <1>3, <1>4 DEF Numbers, OnRun
<1>8. r.cur \in 1 .. Len(r.choices) /\ (Last(r, r.cur) \/ (r.cur = Len(r.choices) /\ MaxPoints # 1))
  BY <1>6, <1>7, SkipLast
<1>9. pc = "run" /\ t[hist] = "return"
  BY <1>3, <1>6 DEF Unfailing
<1>10. CASE Last(r, r.cur)
  <2>1. rand' = r
    BY <1>5, <1>7, <1>8, <1>10, SkipSame
  <2>2. ~InArms' /\ pc' = "run"
    BY <1>5, <1>9 DEF InArms
  <2>3. Now(rand.choices, rand.cur)' = Fresh(Append(hist, 0), r.cur)
    BY <1>5, <2>1, <2>2 DEF Now, Fresh, Gone
  <2>4. PICK a : a = After(t, x, r.choices, f[n])
    OBVIOUS
  <2>5. a = Fresh(Append(hist, 0), r.cur) /\ ~Terminal(t, f[n])
    BY <1>2, <1>3, <1>4, <1>9, <2>4 DEF After, Consumed, Ceil, Terminal
  <2>6. a.used <= Len(r.choices)
    <3>1. a.used = r.cur
      BY <2>5 DEF Fresh, Conf
    <3> QED
      BY <1>8, <3>1
  <2>7. IsRun(t, x, r.choices, More(f, n, a), n + 1)
    <3>1. IsRun(t, x, r.choices, f, n) /\ After(t, x, r.choices, f[n]).used <= Len(r.choices)
      BY <1>2, <1>4, <2>4, <2>6
    <3>2. IsRun(t, x, r.choices, More(f, n, After(t, x, r.choices, f[n])), n + 1)
      BY <2>5, <3>1, RunGoesOn
    <3> QED
      BY <2>4, <3>2
  <2>8. Pursues(t, x, r, a)
    <3>1. \A i \in 0 .. (n - 1) : Unfailing(t, f[i]) => Last(r, f[i].used)
      BY <1>2, <1>4
    <3>2. Last(r, f[n].used)
      BY <1>2, <1>7, <1>10
    <3> QED
      BY <2>7, <3>1, <3>2, PursuesMore
  <2> QED
    BY <1>7, <2>1, <2>3, <2>5, <2>8
<1>11. CASE r.cur = Len(r.choices) /\ MaxPoints # 1
  <2>1. Matches(t, x, SkipRest(r)) /\ Below(SkipRest(r)) /\ Strays(t, x, SkipRest(r))
    BY <1>6, <1>7, <1>11, SkipStrays
  <2> QED
    BY <1>5, <1>9, <2>1
<1> QED
  BY <1>8, <1>10, <1>11

\* The initial states match.
LEMMA InitMatching ==
    ASSUME Init
    PROVE  Matching
<1>1. /\ rand = EnumReset /\ log = {} /\ pc = "run"
      /\ EnumReset.choices = << >> /\ EnumReset.cur = 0
  BY DEF Init, EnumReset
<1>2. Now(rand.choices, rand.cur) = Fresh(<< >>, 0)
  BY DEF Init, Now, Fresh, Gone, InArms, EnumReset
<1>3. PICK t : t = prog
  OBVIOUS
<1>4. PICK x : x = extra
  OBVIOUS
<1>5. Matches(t, x, EnumReset) /\ Below(EnumReset)
  <2>1. ASSUME NEW s, OnRun(t, x, << >>, s), s.used < Len(<< >>) PROVE FALSE
    <3>0. << >> \in Seq(Nat)
      OBVIOUS
    <3>1. PICK c \in Seq(Nat) : c = << >>
      BY <3>0
    <3>2. s.used \in 0 .. Len(c)
      BY <2>1, <3>1, OnRunUses
    <3> QED
      BY <2>1, <3>1, <3>2
  <2>2. \A i \in 1 .. Len(<< >>) : FALSE
    OBVIOUS
  <2> QED
    BY <1>1, <2>1, <2>2 DEF Matches, Below
<1>6. Pursues(t, x, EnumReset, Fresh(<< >>, 0))
  <2>1. PICK f : f = [i \in {0} |-> Fresh(<< >>, 0)]
    OBVIOUS
  <2>2. f[0] = Fresh(<< >>, 0) /\ 0 \in Nat
    BY <2>1
  <2>3. \A i \in 0 .. (0 - 1) : FALSE
    OBVIOUS
  <2>4. IsRun(t, x, EnumReset.choices, f, 0)
    BY <2>2, <2>3 DEF IsRun
  <2> QED
    BY <2>2, <2>3, <2>4, Zenon DEF Pursues
<1> QED
  BY <1>1, <1>2, <1>3, <1>4, <1>5, <1>6 DEF Matching

\* Every step keeps the ceilings and the choices of the search together.
LEMMA StepMatching ==
    ASSUME AllBracketed, Granted, Armed, Numbers, Steady, Recorded, Matching, [Next]_vars
    PROVE  Matching'
<1>t. PICK t : t = prog
  OBVIOUS
<1>x. PICK x : x = extra
  OBVIOUS
<1>a. alone' = alone /\ prog' = t /\ extra' = x
  BY <1>t, <1>x DEF Next, PreChoose, SetCount, Point, Disable, Enable, PostNothing, PostFailed,
         PostUnfailed, Check, ReplayPanic, Return, Again, Regenerate, OtherPoint, OtherDisable, OtherEnable,
         vars, env
<1>s. SUFFICES ASSUME alone
      PROVE  /\ \A e \in log' : Playable(t, x, e.choices)
             /\ ~Regenerating' /\ pc' \in {"run", "count", "ret"} => Matches(t, x, rand') /\ Below(rand')
             /\ ~Regenerating' /\ pc' \in {"run", "count"} =>
                   \/ Pursues(t, x, rand', Now(rand.choices, rand.cur)')
                   \/ Strays(t, x, rand') /\ debug' = 0 /\ pc' = "run"
  BY <1>a DEF Matching
<1>f. /\ \A e \in log : Playable(t, x, e.choices)
      /\ ~Regenerating /\ pc \in {"run", "count", "ret"} => Matches(t, x, rand) /\ Below(rand)
      /\ ~Regenerating /\ pc \in {"run", "count"} =>
            \/ Pursues(t, x, rand, Now(rand.choices, rand.cur))
            \/ Strays(t, x, rand) /\ debug = 0 /\ pc = "run"
  BY <1>s, <1>t, <1>x, MatchingFacts
<1>r. pc \in {"ret", "done"} => ~Regenerating
  BY <1>s, RecordedFacts
<1>e. \A e \in {"call", "return", "off", "on", "check", "skip", "end"} \cup Cps :
         Event = e => pc = "run" /\ prog[hist] = e
  BY ChoiceAssumption DEF Event
<1>1. CASE Driven /\ pc' # "panic"
  <2>0. /\ log' = log /\ (Regenerating' <=> Regenerating)
        /\ pc \in {"run", "count"} /\ pc' \in {"run", "count"}
    <3>1. log' = log /\ goal' = goal
      BY <1>1 DEF Driven, PreChoose, SetCount, Point, Disable, Enable, PostNothing, PostFailed,
                  PostUnfailed, Check
    <3>2. pc \in {"run", "count"}
      BY <1>1, <1>e DEF Driven, PreChoose, SetCount, Point, Disable, Enable, PostNothing, PostFailed,
                  PostUnfailed, Check
    <3>3. pc' \in {"run", "count"}
      BY <1>1, <3>2 DEF Driven, PreChoose, SetCount, Point, Disable, Enable, PostNothing, PostFailed,
                  PostUnfailed, Check
    <3> QED
      BY <3>1, <3>2, <3>3 DEF Regenerating
  <2>1. ASSUME ~Regenerating
        PROVE  /\ Matches(t, x, rand') /\ Below(rand')
               /\ \/ Pursues(t, x, rand', Now(rand.choices, rand.cur)')
                  \/ Strays(t, x, rand') /\ debug' = 0 /\ pc' = "run"
    <3>1. Matches(t, x, rand) /\ Below(rand)
      BY <1>f, <2>0, <2>1
    <3>2. CASE Pursues(t, x, rand, Now(rand.choices, rand.cur))
      <4>1. CASE PostUnfailed
        BY <1>1, <1>s, <1>t, <2>1, <3>1, <3>2, <4>1, PostPursues
      <4>2. CASE ~PostUnfailed
        BY <1>1, <1>s, <1>t, <1>x, <2>1, <3>1, <3>2, <4>2, EnumPursues
      <4> QED
        BY <4>1, <4>2
    <3>3. CASE Strays(t, x, rand) /\ debug = 0 /\ pc = "run"
      BY <1>1, <1>s, <1>t, <2>1, <3>1, <3>3, EnumStrays
    <3> QED
      BY <1>f, <2>0, <2>1, <3>2, <3>3
  <2> QED
    BY <1>f, <2>0, <2>1
<1>2. CASE (Driven \/ ReplayPanic) /\ pc' = "panic"
  <2>1. log' = log
    BY <1>2 DEF Driven, PreChoose, SetCount, Point, Disable, Enable, PostNothing, PostFailed,
                  PostUnfailed, Check, ReplayPanic
  <2> QED
    BY <1>f, <1>2, <2>1
<1>3. CASE Return
  <2>1. pc = "run"
    BY <1>3, <1>e DEF Return
  <2>2. rand' = rand /\ goal' = goal /\ pc' = IF Regenerating THEN "regenerated" ELSE "ret"
    BY <1>3 DEF Return
  <2>3. CASE Regenerating
    <3>1. log' = log /\ pc' = "regenerated"
      BY <1>3, <2>2, <2>3 DEF Return
    <3> QED
      BY <1>f, <3>1
  <2>4. CASE ~Regenerating
    <3> DEFINE e0 == [choices |-> rand.choices, hist |-> hist, skipped |-> skipped,
                      queued |-> Event = "end"]
    <3>1. log' = log \cup {e0} /\ pc' = "ret"
      BY <1>3, <2>2, <2>4 DEF Return
    <3>2. e0.choices = rand.choices
      OBVIOUS
    <3> HIDE DEF e0
    <3>3. Matches(t, x, rand) /\ Below(rand)
      BY <1>f, <2>1, <2>4
    <3>4. PICK r : r = rand
      OBVIOUS
    <3>5. Playable(t, x, r.choices)
      BY <3>3, <3>4, MatchesPlayable DEF Numbers
    <3>6. \A e \in log' : Playable(t, x, e.choices)
      BY <1>f, <3>1, <3>2, <3>4, <3>5
    <3> QED
      BY <2>2, <3>1, <3>3, <3>6
  <2> QED
    BY <2>3, <2>4
<1>4. CASE Again
  <2>1. /\ pc = "ret" /\ log' = log /\ goal' = goal /\ debug' = debug
    BY <1>4 DEF Again
  <2>2. ~Regenerating /\ debug # 1
    BY <1>r, <2>1 DEF Armed
  <2>3. PICK r : r = rand
    OBVIOUS
  <2>4. IsGenerator(r) /\ Matches(t, x, r) /\ Below(r)
    BY <1>f, <2>1, <2>2, <2>3 DEF Numbers
  <2>5. CASE Repeats(rand)
    <3>1. rand' = Repeat(r) /\ hist' = << >> /\ pc' = "run"
      BY <1>4, <2>3, <2>5 DEF Again
    <3>2. Matches(t, x, Repeat(r)) /\ Below(Repeat(r))
      BY <2>3, <2>4, <2>5, RepeatMatches
    <3>3. Repeat(r).cur = 0
      BY DEF Repeat
    <3>4. ~InArms'
      BY <2>1, <2>2 DEF InArms
    <3>5. Now(rand.choices, rand.cur)' = Fresh(<< >>, 0)
      BY <3>1, <3>3, <3>4 DEF Now, Fresh, Gone
    <3>6. Pursues(t, x, Repeat(r), Fresh(<< >>, 0))
      <4>1. PICK f : f = [i \in {0} |-> Fresh(<< >>, 0)]
        OBVIOUS
      <4>2. f[0] = Fresh(<< >>, 0) /\ 0 \in Nat
        BY <4>1
      <4>3. \A i \in 0 .. (0 - 1) : FALSE
        OBVIOUS
      <4>4. IsRun(t, x, Repeat(r).choices, f, 0)
        BY <4>2, <4>3 DEF IsRun
      <4> QED
        BY <4>2, <4>3, <4>4, Zenon DEF Pursues
    <3> QED
      BY <1>f, <2>1, <3>1, <3>2, <3>5, <3>6
  <2>6. CASE ~Repeats(rand)
    <3>1. pc' = "done"
      BY <1>4, <2>6 DEF Again
    <3> QED
      BY <1>f, <2>1, <3>1
  <2> QED
    BY <2>5, <2>6
<1>5. CASE Regenerate
  <2>1. PICK e \in log : e.choices # << >> /\ goal' = e.hist
    BY <1>5 DEF Regenerate
  <2>2. log' = log /\ pc' = "run"
    BY <1>5 DEF Regenerate
  <2>3. prog[<< >>] \notin {"end", "skip"} /\ prog[goal'] \in {"end", "skip"}
    BY <1>s, <2>1, RecordedFacts
  <2>4. Regenerating'
    BY <2>3 DEF Regenerating
  <2> QED
    BY <1>f, <2>2, <2>4
<1>6. CASE UNCHANGED vars
  <2>1. /\ fail' = fail /\ debug' = debug /\ rand' = rand /\ hist' = hist /\ log' = log
        /\ goal' = goal /\ pc' = pc
    BY <1>6 DEF vars, env, kernel, driver
  <2>2. Now(rand.choices, rand.cur)' = Now(rand.choices, rand.cur)
    BY <2>1 DEF Now, Gone, InArms, Target
  <2>3. Regenerating' <=> Regenerating
    BY <2>1 DEF Regenerating
  <2> QED
    BY <1>f, <2>1, <2>2, <2>3
<1> QED
  BY <1>s, <1>1, <1>2, <1>3, <1>4, <1>5, <1>6
  DEF Next, Driven, ReplayPanic, OtherPoint, OtherDisable, OtherEnable, Other

-----------------------------------------------------------------------------
\* What a replay asks for is what the execution it repeats has used, and it
\* does not skip either.
LEMMA ReplayAllowed ==
    ASSUME Numbers, Recorded, Matching, alone, Regenerating, ~skipped,
           pc \in {"run", "count"}
    PROVE  \E c, u : /\ ~Unfailing(prog, Now(c, u))
                     /\ Ceil(prog, Now(c, u)) # 1 =>
                          rest # << >> /\ Head(rest) < Ceil(prog, Now(c, u))
<1>t. PICK t : t = prog
  OBVIOUS
<1>x. PICK x : x = extra
  OBVIOUS
<1>1. PICK e \in log : /\ ~e.skipped
                       /\ \E u \in 0 .. Len(e.choices) :
                            /\ rest = SubSeq(e.choices, u + 1, Len(e.choices))
                            /\ OnRun(prog, extra, e.choices, Now(e.choices, u))
  BY RecordedFacts
<1>2. PICK c \in Seq(Nat) : c = e.choices
  BY DEF Numbers
<1>3. PICK u \in 0 .. Len(c) : rest = SubSeq(c, u + 1, Len(c)) /\ OnRun(t, x, c, Now(c, u))
  BY <1>t, <1>x, <1>1, <1>2
<1>4. PICK r : OnClean(t, x, c, r) /\ Terminal(t, r)
  BY <1>t, <1>x, <1>1, <1>2, RecordedFacts
<1>5. Playable(t, x, c)
  BY <1>t, <1>x, <1>1, <1>2, MatchingFacts
<1>6. PICK s : s = Now(c, u)
  OBVIOUS
<1>7. s.used = u
  BY <1>6 DEF Now, Conf
<1>8. PICK n \in Nat : \E f : IsRun(t, x, c, f, n) /\ f[n] = s
  BY <1>3, <1>6 DEF OnRun
<1>9. PICK f : IsRun(t, x, c, f, n) /\ f[n] = s
  BY <1>8
<1>10. PICK m \in Nat : \E g : /\ IsRun(t, x, c, g, m) /\ g[m] = r
                               /\ \A i \in 0 .. (m - 1) : ~Unfailing(t, g[i])
  BY <1>4 DEF OnClean
<1>11. PICK g : /\ IsRun(t, x, c, g, m) /\ g[m] = r
                /\ \A i \in 0 .. (m - 1) : ~Unfailing(t, g[i])
  BY <1>10
<1>12. n <= m /\ g[n] = s /\ (~Terminal(t, s) => n < m)
  <2>1. Terminal(t, g[m])
    BY <1>4, <1>11
  <2> QED
    BY <1>9, <1>11, <2>1, RunWithin
<1>13. ~Unfailing(t, s)
  <2>1. CASE Terminal(t, s)
    BY <2>1 DEF Terminal, Unfailing
  <2>2. CASE ~Terminal(t, s)
    <3>1. n \in 0 .. (m - 1)
      BY <1>12, <2>2
    <3> QED
      BY <1>11, <1>12, <3>1
  <2> QED
    BY <2>1, <2>2
<1>14. ASSUME Ceil(t, s) # 1 PROVE rest # << >> /\ Head(rest) < Ceil(t, s)
  <2>0. u \in Nat /\ Len(c) \in Nat /\ u <= Len(c)
    OBVIOUS
  <2>1. ~Terminal(t, s)
    BY <1>7, <1>14, <2>0, AskingUses
  <2>2. n \in 0 .. (m - 1)
    BY <1>12, <2>1
  <2>3. g[n + 1] = After(t, x, c, s) /\ g[n + 1].used <= Len(c)
    BY <1>11, <1>12, <2>2 DEF IsRun
  <2>4. After(t, x, c, s).used = u + 1
    BY <1>7, <1>14, <2>0, AskingUses
  <2>5. u < Len(c)
    BY <2>0, <2>3, <2>4
  <2>6. rest # << >> /\ Head(rest) = c[u + 1]
    BY <1>3, <2>0, <2>5, RestOf
  <2>7. c[u + 1] < Ceil(t, s)
    BY <1>3, <1>5, <1>6, <1>7, <1>14, <2>5 DEF Playable
  <2> QED
    BY <2>6, <2>7
<1> QED
  BY <1>t, <1>6, <1>13, <1>14

\* Every step is allowed to the search and to a replay of an execution that
\* skipped nothing.
LEMMA StepQuiet ==
    ASSUME AllBracketed, Granted, Armed, Numbers, Steady, Recorded, Matching, [Next]_vars,
           alone, NoPanic
    PROVE  NoPanic'
<1>s. SUFFICES ASSUME ~(Regenerating' /\ skipped') PROVE pc' # "panic"
  BY DEF NoPanic
<1>e. \A e \in {"call", "return", "off", "on", "check", "skip", "end"} \cup Cps :
         Event = e => pc = "run" /\ prog[hist] = e
  BY ChoiceAssumption DEF Event
<1>1. CASE PreChoose
  <2>1. pc = "run" /\ prog[hist] = "call"
    BY <1>1, <1>e DEF PreChoose
  <2>2. debug = 0
    BY <2>1, NothingArmed
  <2> QED
    BY <1>1, <2>1, <2>2 DEF PreChoose
<1>2. CASE PostFailed \/ PostUnfailed
  <2>1. pc = "run" /\ prog[hist] = "return" /\ should
    BY <1>2, <1>e DEF PostFailed, PostUnfailed
  <2>2. debug = 1
    BY <2>1, NodeIsBracketed DEF Steady
  <2>3. CASE PostFailed
    BY <2>1, <2>2, <2>3 DEF PostFailed
  <2>4. CASE PostUnfailed
    <3>1. ~Regenerating
      <4>1. SUFFICES ASSUME Regenerating PROVE FALSE
        OBVIOUS
      <4>s. ~skipped
        BY <1>s, <2>4, <4>1 DEF PostUnfailed, Regenerating
      <4>2. PICK c, u : ~Unfailing(prog, Now(c, u))
        BY <2>1, <4>1, <4>s, ReplayAllowed
      <4>3. Driven
        BY <2>4 DEF Driven
      <4> QED
        BY <2>4, <4>2, <4>3, StepSkips
    <3> QED
      BY <2>1, <2>2, <2>4, <3>1 DEF PostUnfailed
  <2> QED
    BY <1>2, <2>3, <2>4
<1>3. CASE ReplayPanic
  <2>1. \/ pc = "run" /\ prog[hist] \in {"call", "check"} /\ ~CanDraw(2)
        \/ pc = "count" /\ ~CanDraw(MaxPoints)
    BY <1>3, <1>e DEF ReplayPanic
  <2>2. Regenerating
    BY <2>1 DEF CanDraw
  <2>s. ~skipped
    BY <1>s, <1>3, <2>2 DEF ReplayPanic, Regenerating
  <2>3. PICK c, u : Ceil(prog, Now(c, u)) # 1 => rest # << >> /\ Head(rest) < Ceil(prog, Now(c, u))
    BY <2>1, <2>2, <2>s, ReplayAllowed
  <2>4. CanDraw(Ceil(prog, Now(c, u)))
    BY <2>3 DEF CanDraw
  <2>5. Now(c, u).h = hist /\ Now(c, u).at = pc
    BY DEF Now, Conf
  <2>6. /\ pc = "count" => Ceil(prog, Now(c, u)) = MaxPoints
        /\ pc = "run" /\ prog[hist] \in {"call", "check"} => Ceil(prog, Now(c, u)) = 2
    BY <2>5 DEF Ceil
  <2> QED
    BY <2>1, <2>4, <2>6
<1>4. CASE \/ SetCount \/ Point \/ Disable \/ Enable \/ PostNothing \/ Check \/ Return \/ Again
           \/ Regenerate
  BY <1>4, <1>e DEF SetCount, Point, Disable, Enable, PostNothing, Check, Return, Again, Regenerate
<1>5. CASE UNCHANGED vars
  BY <1>s, <1>5 DEF vars, driver, Regenerating, NoPanic
<1> QED
  BY <1>1, <1>2, <1>3, <1>4, <1>5 DEF Next, OtherPoint, OtherDisable, OtherEnable, Other

\* No assertion of the simulator or of a generator fails (pre_choose,
\* post_choose, ReplayRandom::random), in the search and in every replay of an
\* execution that skipped nothing, and such a replay never gets to
\* xe_random_skip_rest with its null pointer.  Replays of executions that did
\* call it are excepted: they use that pointer.  For any transitions that keep
\* to the brackets and any number of extra failures, when no other thread runs.
THEOREM SearchNeverPanics ==
    ASSUME AllBracketed, AllPaired
    PROVE  Spec => []NoPanic
<1> DEFINE I == /\ Granted /\ Armed /\ Numbers /\ Steady /\ Recorded /\ Matching
                /\ NoPanic
<1>1. Init => I
  BY InitRecorded, InitMatching DEF Init, NoPanic
<1>2. I /\ [Next]_vars => I'
  <2>1. SUFFICES ASSUME I, [Next]_vars PROVE I'
    OBVIOUS
  <2>2. Granted' /\ Armed' /\ Numbers' /\ Steady' /\ Recorded'
    BY <2>1, StepGrants, StepArmed, StepNumbers, StepSteady, StepRecorded
  <2>3. Matching'
    BY <2>1, StepMatching
  <2>4. alone' = alone
    BY <2>1 DEF Next, PreChoose, SetCount, Point, Disable, Enable, PostNothing, PostFailed, PostUnfailed,
         Check, ReplayPanic, Return, Again, Regenerate, OtherPoint, OtherDisable, OtherEnable, vars, env
  <2>5. NoPanic'
    <3>1. CASE alone
      BY <2>1, <3>1, StepQuiet
    <3>2. CASE ~alone
      BY <2>4, <3>2 DEF NoPanic
    <3> QED
      BY <3>1, <3>2
  <2> QED
    BY <2>2, <2>3, <2>5
<1>3. I => NoPanic
  OBVIOUS
<1> QED
  BY <1>1, <1>2, <1>3, PTL DEF Spec

-----------------------------------------------------------------------------
(* The executions that the search is to try                                *)

\* The call at j of the history g is under way, the choice points it has passed,
\* where choices were enabled, and whether none of them has failed.
CallAt(t, g, j) ==
    /\ j \in 1 .. Len(g) /\ t[SubSeq(g, 1, j - 1)] = "call"
    /\ \A k \in (j + 1) .. Len(g) : t[SubSeq(g, 1, k - 1)] # "return"
Seen(t, g, j) ==
    {k \in (j + 1) .. Len(g) : /\ t[SubSeq(g, 1, k - 1)] \in Cps
                               /\ ~Disabled(t, SubSeq(g, 1, k - 1))}
Whole(t, g, j) == \A k \in Seen(t, g, j) : g[k] = 0

\* The choice point that comes after g may be chosen to fail, and the history h
\* has no other failures.
May(t, g) ==
    /\ ~Disabled(t, g)
    /\ \E j : CallAt(t, g, j) /\ Cardinality(Seen(t, g, j)) < MaxPoints /\ Whole(t, g, j)
Chosen(t, h) ==
    \A i \in 1 .. Len(h) :
        t[SubSeq(h, 1, i - 1)] \in Cps /\ h[i] = 1 => May(t, SubSeq(h, 1, i - 1))

\* The beginnings of a history and of one that is longer.
LEMMA Longer ==
    ASSUME NEW g \in Seq(0 .. 1), NEW v \in 0 .. 1
    PROVE  /\ Append(g, v) \in Seq(0 .. 1) /\ Len(Append(g, v)) = Len(g) + 1
           /\ Len(g) \in Nat /\ Append(g, v)[Len(g) + 1] = v
           /\ \A i \in 1 .. Len(g) : Append(g, v)[i] = g[i]
           /\ \A i \in 1 .. Len(g) : SubSeq(Append(g, v), 1, i - 1) = SubSeq(g, 1, i - 1)
           /\ SubSeq(Append(g, v), 1, (Len(g) + 1) - 1) = g
<1>1. /\ Append(g, v) \in Seq(0 .. 1) /\ Len(Append(g, v)) = Len(g) + 1
      /\ Len(g) \in Nat /\ Append(g, v)[Len(g) + 1] = v
      /\ \A i \in 1 .. Len(g) : Append(g, v)[i] = g[i]
  BY AppendProperties, LenProperties
<1>2. ASSUME NEW i \in 1 .. Len(g) PROVE SubSeq(Append(g, v), 1, i - 1) = SubSeq(g, 1, i - 1)
  <2>1. i - 1 \in 0 .. Len(g)
    BY <1>1
  <2> QED
    BY <2>1, PrefixOfAppend
<1>3. SubSeq(Append(g, v), 1, (Len(g) + 1) - 1) = g
  <2>1. (Len(g) + 1) - 1 = Len(g) /\ Len(g) \in 0 .. Len(g)
    BY <1>1
  <2> QED
    BY <2>1, PrefixOfAppend, SubSeqFull
<1> QED
  BY <1>1, <1>2, <1>3

\* Which call is under way after another event ...
LEMMA CallAtNext ==
    ASSUME NEW t, NEW g \in Seq(0 .. 1), NEW v \in 0 .. 1, NEW j
    PROVE  CallAt(t, Append(g, v), j) <=> \/ CallAt(t, g, j) /\ t[g] # "return"
                                          \/ j = Len(g) + 1 /\ t[g] = "call"
<1>0. PICK h : h = Append(g, v)
  OBVIOUS
<1>1. /\ Len(h) = Len(g) + 1 /\ Len(g) \in Nat
      /\ \A i \in 1 .. Len(g) : SubSeq(h, 1, i - 1) = SubSeq(g, 1, i - 1)
      /\ SubSeq(h, 1, (Len(g) + 1) - 1) = g
  BY <1>0, Longer
<1>2. CASE j \notin 1 .. Len(h)
  <2>1. j \notin 1 .. Len(g) /\ j # Len(g) + 1
    BY <1>1, <1>2
  <2> QED
    BY <1>0, <1>2, <2>1 DEF CallAt
<1>3. CASE j = Len(g) + 1
  <2>1. j \in 1 .. Len(h) /\ j \notin 1 .. Len(g) /\ \A k \in (j + 1) .. Len(h) : FALSE
    BY <1>1, <1>3
  <2> QED
    BY <1>0, <1>1, <1>3, <2>1 DEF CallAt
<1>4. CASE j \in 1 .. Len(g)
  <2>1. j \in 1 .. Len(h) /\ j # Len(g) + 1 /\ SubSeq(h, 1, j - 1) = SubSeq(g, 1, j - 1)
    BY <1>1, <1>4
  <2>2. ASSUME NEW k \in (j + 1) .. Len(h)
        PROVE  \/ k \in (j + 1) .. Len(g) /\ SubSeq(h, 1, k - 1) = SubSeq(g, 1, k - 1)
               \/ k = Len(g) + 1 /\ SubSeq(h, 1, k - 1) = g
    BY <1>1, <1>4
  <2>3. \A k \in (j + 1) .. Len(g) : k \in (j + 1) .. Len(h) /\ SubSeq(h, 1, k - 1) = SubSeq(g, 1, k - 1)
    BY <1>1, <1>4
  <2>4. Len(g) + 1 \in (j + 1) .. Len(h)
    BY <1>1, <1>4
  <2>5. (\A k \in (j + 1) .. Len(h) : t[SubSeq(h, 1, k - 1)] # "return") <=>
        (\A k \in (j + 1) .. Len(g) : t[SubSeq(g, 1, k - 1)] # "return") /\ t[g] # "return"
    <3>1. ASSUME \A k \in (j + 1) .. Len(h) : t[SubSeq(h, 1, k - 1)] # "return"
          PROVE  (\A k \in (j + 1) .. Len(g) : t[SubSeq(g, 1, k - 1)] # "return") /\ t[g] # "return"
      BY <1>1, <2>3, <2>4, <3>1
    <3>2. ASSUME \A k \in (j + 1) .. Len(g) : t[SubSeq(g, 1, k - 1)] # "return", t[g] # "return"
          PROVE  \A k \in (j + 1) .. Len(h) : t[SubSeq(h, 1, k - 1)] # "return"
      BY <2>2, <3>2
    <3> QED
      BY <3>1, <3>2
  <2>6. CallAt(t, h, j) <=> /\ t[SubSeq(g, 1, j - 1)] = "call"
                            /\ \A k \in (j + 1) .. Len(h) : t[SubSeq(h, 1, k - 1)] # "return"
    BY <2>1 DEF CallAt
  <2>7. CallAt(t, g, j) <=> /\ t[SubSeq(g, 1, j - 1)] = "call"
                            /\ \A k \in (j + 1) .. Len(g) : t[SubSeq(g, 1, k - 1)] # "return"
    BY <1>4 DEF CallAt
  <2> QED
    BY <1>0, <2>1, <2>5, <2>6, <2>7, Zenon
<1> QED
  BY <1>1, <1>2, <1>3, <1>4

\* ... what it has passed ...
LEMMA SeenNext ==
    ASSUME NEW t, NEW g \in Seq(0 .. 1), NEW v \in 0 .. 1
    PROVE  /\ \A j \in 1 .. Len(g) :
                Seen(t, Append(g, v), j) = Seen(t, g, j) \cup
                   (IF t[g] \in Cps /\ ~Disabled(t, g) THEN {Len(g) + 1} ELSE {})
           /\ Seen(t, Append(g, v), Len(g) + 1) = {}
           /\ \A j \in 1 .. Len(g) : Seen(t, g, j) \in SUBSET (1 .. Len(g)) /\ Len(g) + 1 \notin Seen(t, g, j)
<1>0. PICK h : h = Append(g, v)
  OBVIOUS
<1>1. /\ Len(h) = Len(g) + 1 /\ Len(g) \in Nat
      /\ \A i \in 1 .. Len(g) : SubSeq(h, 1, i - 1) = SubSeq(g, 1, i - 1)
      /\ SubSeq(h, 1, (Len(g) + 1) - 1) = g
  BY <1>0, Longer
<1>2. ASSUME NEW j \in 1 .. Len(g)
      PROVE  Seen(t, h, j) = Seen(t, g, j) \cup
                (IF t[g] \in Cps /\ ~Disabled(t, g) THEN {Len(g) + 1} ELSE {})
  <2>1. ASSUME NEW k \in (j + 1) .. Len(h)
        PROVE  \/ k \in (j + 1) .. Len(g) /\ SubSeq(h, 1, k - 1) = SubSeq(g, 1, k - 1) /\ k # Len(g) + 1
               \/ k = Len(g) + 1 /\ SubSeq(h, 1, k - 1) = g
    BY <1>1
  <2>2. \A k \in (j + 1) .. Len(g) : k \in (j + 1) .. Len(h) /\ SubSeq(h, 1, k - 1) = SubSeq(g, 1, k - 1)
    BY <1>1
  <2>3. Len(g) + 1 \in (j + 1) .. Len(h)
    BY <1>1
  <2>4. ASSUME NEW k, k \in Seen(t, h, j)
        PROVE  k \in Seen(t, g, j) \cup (IF t[g] \in Cps /\ ~Disabled(t, g) THEN {Len(g) + 1} ELSE {})
    BY <2>1, <2>4 DEF Seen
  <2>5. ASSUME NEW k, k \in Seen(t, g, j) PROVE k \in Seen(t, h, j)
    BY <2>2, <2>5 DEF Seen
  <2>6. t[g] \in Cps /\ ~Disabled(t, g) => Len(g) + 1 \in Seen(t, h, j)
    BY <1>1, <2>3 DEF Seen
  <2> QED
    BY <2>4, <2>5, <2>6
<1>3. Seen(t, h, Len(g) + 1) = {}
  BY <1>1 DEF Seen
<1>4. ASSUME NEW j \in 1 .. Len(g)
      PROVE  Seen(t, g, j) \in SUBSET (1 .. Len(g)) /\ Len(g) + 1 \notin Seen(t, g, j)
  BY <1>1 DEF Seen
<1> QED
  BY <1>0, <1>2, <1>3, <1>4

\* ... how much that is ...
LEMMA SeenCount ==
    ASSUME NEW t, NEW g \in Seq(0 .. 1), NEW v \in 0 .. 1, NEW j \in 1 .. Len(g)
    PROVE  /\ Cardinality(Seen(t, g, j)) \in Nat
           /\ Cardinality(Seen(t, Append(g, v), j)) =
                Cardinality(Seen(t, g, j)) + (IF t[g] \in Cps /\ ~Disabled(t, g) THEN 1 ELSE 0)
           /\ Cardinality(Seen(t, Append(g, v), Len(g) + 1)) = 0
<1>1. PICK S : S = Seen(t, g, j)
  OBVIOUS
<1>2. S \in SUBSET (1 .. Len(g)) /\ Len(g) + 1 \notin S
  BY <1>1, SeenNext
<1>3. IsFiniteSet(1 .. Len(g))
  BY LenProperties, FS_Interval
<1>4. IsFiniteSet(S)
  BY <1>2, <1>3, FS_Subset
<1>5. Cardinality(S) \in Nat
  BY <1>4, FS_CardinalityType
<1>6. PICK x : x = Len(g) + 1
  OBVIOUS
<1>9. Cardinality(S \cup {x}) = Cardinality(S) + 1
  <2>1. x \notin S
    BY <1>2, <1>6
  <2> QED
    BY <1>4, <2>1, FS_AddElement
<1>7. Seen(t, Append(g, v), j) = IF t[g] \in Cps /\ ~Disabled(t, g) THEN S \cup {x} ELSE S
  <2>1. \A i \in 1 .. Len(g) :
           Seen(t, Append(g, v), i) = Seen(t, g, i) \cup
              (IF t[g] \in Cps /\ ~Disabled(t, g) THEN {Len(g) + 1} ELSE {})
    BY SeenNext
  <2>2. Seen(t, Append(g, v), j) = S \cup (IF t[g] \in Cps /\ ~Disabled(t, g) THEN {x} ELSE {})
    BY <1>1, <1>6, <2>1, Zenon
  <2> QED
    BY <2>2
<1>8. Seen(t, Append(g, v), Len(g) + 1) = {}
  BY SeenNext
<1> QED
  <2>1. Cardinality(Seen(t, Append(g, v), Len(g) + 1)) = 0
    BY <1>8, FS_EmptySet
  <2>2. CASE t[g] \in Cps /\ ~Disabled(t, g)
    BY <1>1, <1>5, <1>7, <1>9, <2>1, <2>2
  <2>3. CASE ~(t[g] \in Cps /\ ~Disabled(t, g))
    BY <1>1, <1>5, <1>7, <2>1, <2>3
  <2> QED
    BY <2>2, <2>3

\* ... and whether anything has failed.
LEMMA WholeNext ==
    ASSUME NEW t, NEW g \in Seq(0 .. 1), NEW v \in 0 .. 1
    PROVE  /\ \A j \in 1 .. Len(g) :
                Whole(t, Append(g, v), j) <=>
                  Whole(t, g, j) /\ (t[g] \in Cps /\ ~Disabled(t, g) => v = 0)
           /\ Whole(t, Append(g, v), Len(g) + 1)
<1>0. PICK h : h = Append(g, v)
  OBVIOUS
<1>1. /\ Len(g) \in Nat /\ h[Len(g) + 1] = v
      /\ \A i \in 1 .. Len(g) : h[i] = g[i]
  BY <1>0, Longer
<1>2. ASSUME NEW j \in 1 .. Len(g)
      PROVE  Whole(t, h, j) <=> Whole(t, g, j) /\ (t[g] \in Cps /\ ~Disabled(t, g) => v = 0)
  <2>1. PICK S : S = Seen(t, g, j)
    OBVIOUS
  <2>2. S \in SUBSET (1 .. Len(g))
    BY <2>1, SeenNext
  <2>3. Seen(t, h, j) = S \cup (IF t[g] \in Cps /\ ~Disabled(t, g) THEN {Len(g) + 1} ELSE {})
    BY <1>0, <2>1, SeenNext
  <2>4. \A k \in S : h[k] = g[k]
    BY <1>1, <2>2
  <2> QED
    BY <1>1, <2>1, <2>3, <2>4 DEF Whole
<1>3. Whole(t, h, Len(g) + 1)
  BY <1>0, SeenNext DEF Whole
<1> QED
  BY <1>0, <1>2, <1>3

\* A history of one result more has one failure more at most.
LEMMA ChosenNext ==
    ASSUME NEW t, NEW g \in Seq(0 .. 1), NEW v \in 0 .. 1
    PROVE  Chosen(t, Append(g, v)) <=> Chosen(t, g) /\ (t[g] \in Cps /\ v = 1 => May(t, g))
<1>0. PICK h : h = Append(g, v)
  OBVIOUS
<1>1. /\ Len(h) = Len(g) + 1 /\ Len(g) \in Nat /\ h[Len(g) + 1] = v
      /\ \A i \in 1 .. Len(g) : h[i] = g[i]
      /\ \A i \in 1 .. Len(g) : SubSeq(h, 1, i - 1) = SubSeq(g, 1, i - 1)
      /\ SubSeq(h, 1, (Len(g) + 1) - 1) = g
  BY <1>0, Longer
<1>2. \A i \in 1 .. Len(h) : i \in 1 .. Len(g) \/ i = Len(g) + 1
  BY <1>1
<1>3. Len(g) + 1 \in 1 .. Len(h) /\ \A i \in 1 .. Len(g) : i \in 1 .. Len(h)
  BY <1>1
<1>4. ASSUME Chosen(t, h) PROVE Chosen(t, g) /\ (t[g] \in Cps /\ v = 1 => May(t, g))
  BY <1>1, <1>3, <1>4 DEF Chosen
<1>5. ASSUME Chosen(t, g), t[g] \in Cps /\ v = 1 => May(t, g) PROVE Chosen(t, h)
  BY <1>1, <1>2, <1>5 DEF Chosen
<1> QED
  BY <1>0, <1>4, <1>5

-----------------------------------------------------------------------------
\* The beginning of a beginning.
LEMMA PrefixOfPrefix ==
    ASSUME NEW h \in Seq(0 .. 1), NEW n \in 0 .. Len(h), NEW m \in 0 .. n
    PROVE  /\ SubSeq(h, 1, n) \in Seq(0 .. 1) /\ Len(SubSeq(h, 1, n)) = n
           /\ \A i \in 1 .. n : SubSeq(h, 1, n)[i] = h[i]
           /\ SubSeq(SubSeq(h, 1, n), 1, m) = SubSeq(h, 1, m)
<1>0. Len(h) \in Nat /\ n \in Nat /\ m \in Nat /\ m <= n /\ m \in 0 .. Len(h)
  BY LenProperties
<1>1. PICK g : g = SubSeq(h, 1, n)
  OBVIOUS
<1>2. g \in Seq(0 .. 1) /\ Len(g) = n /\ \A i \in 1 .. n : g[i] = h[i]
  BY <1>1, SubSeqProperties
<1>3. /\ SubSeq(g, 1, m) \in Seq(0 .. 1) /\ Len(SubSeq(g, 1, m)) = m
      /\ \A i \in 1 .. m : SubSeq(g, 1, m)[i] = g[i]
  BY <1>0, <1>2, SubSeqProperties
<1>4. /\ SubSeq(h, 1, m) \in Seq(0 .. 1) /\ Len(SubSeq(h, 1, m)) = m
      /\ \A i \in 1 .. m : SubSeq(h, 1, m)[i] = h[i]
  BY <1>0, SubSeqProperties
<1>5. \A i \in 1 .. m : SubSeq(g, 1, m)[i] = SubSeq(h, 1, m)[i]
  BY <1>0, <1>2, <1>3, <1>4
<1>6. SubSeq(g, 1, m) = SubSeq(h, 1, m)
  BY <1>3, <1>4, <1>5, SeqEqual
<1> QED
  BY <1>1, <1>2, <1>6

\* Choices are disabled at a choice point of a history ...
LEMMA HiddenIsDisabled ==
    ASSUME NEW h \in Seq(0 .. 1), NEW i \in 1 .. Len(h)
    PROVE  Hidden(h, i) <=> Disabled(prog, SubSeq(h, 1, i - 1))
<1>0. Len(h) \in Nat /\ i - 1 \in 0 .. Len(h)
  BY LenProperties
<1>1. PICK g : g = SubSeq(h, 1, i - 1)
  OBVIOUS
<1>2. Len(g) = i - 1
  BY <1>0, <1>1, SubSeqProperties
<1>3. ASSUME NEW k \in 1 .. (i - 1) PROVE SubSeq(g, 1, k - 1) = SubSeq(h, 1, k - 1)
  <2>1. k - 1 \in 0 .. (i - 1)
    OBVIOUS
  <2> QED
    BY <1>0, <1>1, <2>1, PrefixOfPrefix
<1>4. ASSUME NEW j \in 1 .. (i - 1)
      PROVE  /\ EventAt(h, j) = prog[SubSeq(g, 1, j - 1)]
             /\ Between(h, j, i, "on") <=> ~(\A k \in (j + 1) .. Len(g) : prog[SubSeq(g, 1, k - 1)] # "on")
  <2>1. \A k \in (j + 1) .. (i - 1) : k \in 1 .. (i - 1)
    BY <1>0
  <2>2. \A k \in (j + 1) .. (i - 1) : EventAt(h, k) = prog[SubSeq(g, 1, k - 1)]
    BY <1>3, <2>1 DEF EventAt
  <2> QED
    BY <1>2, <1>3, <2>2 DEF EventAt, Between
<1> QED
  BY <1>1, <1>2, <1>4, ZenonT(30) DEF Hidden, Disabled, Within

\* ... and it may be chosen, in the words of the properties.
LEMMA SelectableIsMay ==
    ASSUME NEW h \in Seq(0 .. 1), NEW i \in 1 .. Len(h)
    PROVE  Selectable(h, i) <=> May(prog, SubSeq(h, 1, i - 1))
<1>0. Len(h) \in Nat /\ i - 1 \in 0 .. Len(h)
  BY LenProperties
<1>1. PICK g : g = SubSeq(h, 1, i - 1)
  OBVIOUS
<1>2. Len(g) = i - 1 /\ \A k \in 1 .. (i - 1) : g[k] = h[k]
  BY <1>0, <1>1, SubSeqProperties
<1>3. ASSUME NEW k \in 1 .. (i - 1)
      PROVE  /\ SubSeq(g, 1, k - 1) = SubSeq(h, 1, k - 1) /\ EventAt(h, k) = prog[SubSeq(g, 1, k - 1)]
             /\ Hidden(h, k) <=> Disabled(prog, SubSeq(g, 1, k - 1))
  <2>1. k - 1 \in 0 .. (i - 1) /\ k \in 1 .. Len(h)
    BY <1>0
  <2>2. SubSeq(g, 1, k - 1) = SubSeq(h, 1, k - 1)
    BY <1>0, <1>1, <2>1, PrefixOfPrefix
  <2> QED
    BY <2>1, <2>2, HiddenIsDisabled DEF EventAt
<1>4. Hidden(h, i) <=> Disabled(prog, g)
  BY <1>1, HiddenIsDisabled
<1> DEFINE Before0(j) == {k \in (j + 1) .. (i - 1) : EventAt(h, k) \in Cps /\ ~Hidden(h, k)}
           Good(j) == /\ EventAt(h, j) = "call" /\ ~Between(h, j, i, "return")
                      /\ Cardinality(Before0(j)) < MaxPoints /\ \A k \in Before0(j) : h[k] = 0
<1>5. ASSUME NEW j \in 1 .. (i - 1)
      PROVE  Good(j) <=> CallAt(prog, g, j) /\ Cardinality(Seen(prog, g, j)) < MaxPoints /\ Whole(prog, g, j)
  <2>1. \A k \in (j + 1) .. (i - 1) : k \in 1 .. (i - 1)
    BY <1>0
  <2>2. Before0(j) = Seen(prog, g, j)
    BY <1>2, <1>3, <2>1 DEF Seen
  <2>3. (\A k \in Before0(j) : h[k] = 0) <=> Whole(prog, g, j)
    <3>1. \A k \in Seen(prog, g, j) : g[k] = h[k]
      BY <1>2, <2>1 DEF Seen
    <3> QED
      BY <2>2, <3>1 DEF Whole
  <2>4. ~Between(h, j, i, "return") <=> \A k \in (j + 1) .. Len(g) : prog[SubSeq(g, 1, k - 1)] # "return"
    BY <1>2, <1>3, <2>1 DEF Between
  <2>5. EventAt(h, j) = prog[SubSeq(g, 1, j - 1)] /\ j \in 1 .. Len(g)
    BY <1>2, <1>3
  <2> HIDE DEF Before0
  <2> QED
    BY <2>2, <2>3, <2>4, <2>5 DEF CallAt
<1>6. \A j : CallAt(prog, g, j) => j \in 1 .. (i - 1)
  BY <1>2 DEF CallAt
<1>7. Selectable(h, i) <=> ~Hidden(h, i) /\ \E j \in 1 .. (i - 1) : Good(j)
  BY DEF Selectable
<1> HIDE DEF Good, Before0
<1> QED
  BY <1>1, <1>4, <1>5, <1>6, <1>7 DEF May

\* What the search is to try.
LEMMA WantedIsChosen ==
    ASSUME NEW t, t = prog, Bracketed(t)
    PROVE  Wanted = {h \in DOMAIN t : t[h] \in {"end", "skip"} /\ Chosen(t, h)}
<1>1. ASSUME NEW h \in DOMAIN t
      PROVE  (\A i \in 1 .. Len(h) : EventAt(h, i) \in Cps /\ h[i] = 1 => Selectable(h, i)) <=> Chosen(t, h)
  <2>1. h \in Seq(0 .. 1)
    BY DEF Bracketed
  <2>2. \A i \in 1 .. Len(h) : Selectable(h, i) <=> May(t, SubSeq(h, 1, i - 1))
    BY <2>1, SelectableIsMay
  <2> QED
    BY <2>2 DEF Chosen, EventAt
<1> QED
  BY <1>1 DEF Wanted

-----------------------------------------------------------------------------
\* The place s of an execution: its history has failures only where they may be
\* chosen, and an armed call has counted what it has passed.
Sound(t, s) ==
    /\ s.h \in DOMAIN t /\ Chosen(t, s.h)
    /\ s.at = "count" => t[s.h] = "call"
    /\ s.armed = 1 => \E j : /\ CallAt(t, s.h, j)
                             /\ s.over = 0 => /\ s.gone = Cardinality(Seen(t, s.h, j))
                                              /\ Whole(t, s.h, j)

\* The place of an execution that runs.
LEMMA SoundConf ==
    ASSUME NEW t, NEW h \in DOMAIN t, Chosen(t, h), NEW at, at # "count", NEW armed, NEW gone,
           NEW choice, NEW x, NEW over, NEW u,
           armed = 1 => \E j : /\ CallAt(t, h, j)
                               /\ over = 0 => gone = Cardinality(Seen(t, h, j)) /\ Whole(t, h, j)
    PROVE  Sound(t, Conf(h, at, armed, gone, choice, x, over, u))
<1>1. PICK s : s = Conf(h, at, armed, gone, choice, x, over, u)
  OBVIOUS
<1>2. s.h = h /\ s.at = at /\ s.armed = armed /\ s.gone = gone /\ s.over = over
  BY <1>1 DEF Conf
<1>3. s.armed = 1 => \E j : /\ CallAt(t, s.h, j)
                            /\ s.over = 0 => /\ s.gone = Cardinality(Seen(t, s.h, j))
                                             /\ Whole(t, s.h, j)
  BY <1>2
<1> QED
  BY <1>1, <1>2, <1>3 DEF Sound

\* Every step keeps to that.
LEMMA AfterSound ==
    ASSUME NEW t, Bracketed(t), NEW c, NEW s, Shaped(c, s), Sound(t, s), ~Terminal(t, s),
           s.armed = 1 /\ s.over = 0 => Target(c, s.used) < MaxPoints
    PROVE  Sound(t, After(t, 0, c, s))
<1>0. /\ s.armed \in 0 .. 1 /\ s.over \in 0 .. 1 /\ s.x = 0 /\ s.choice = "any"
      /\ s.at \in {"run", "count"} /\ (s.armed = 1 => s.at = "run")
  BY DEF Shaped
<1>1. PICK g : g = s.h
  OBVIOUS
<1>2. g \in DOMAIN t /\ Chosen(t, g) /\ g \in Seq(0 .. 1) /\ Len(g) \in Nat
  BY <1>1, LenProperties DEF Sound, Bracketed
<1>3. t[g] \notin {"skip", "end"}
  BY <1>0, <1>1 DEF Sound, Terminal
<1>4. /\ Append(g, 0) \in DOMAIN t
      /\ t[g] \in Cps \cup {"check"} => Append(g, 1) \in DOMAIN t
  BY <1>2, <1>3 DEF Bracketed
<1>5. Chosen(t, Append(g, 0)) /\ (t[g] \notin Cps => Chosen(t, Append(g, 1)))
  <2>1. \A v \in 0 .. 1 : Chosen(t, Append(g, v)) <=> Chosen(t, g) /\ (t[g] \in Cps /\ v = 1 => May(t, g))
    BY <1>2, ChosenNext
  <2> QED
    BY <1>2, <2>1
<1>m. Cps \cap {"none", "any", "call", "return", "off", "on", "check", "skip", "end"} = {}
  BY ChoiceAssumption
<1>6. ASSUME NEW v \in 0 .. 1, NEW u, Append(g, v) \in DOMAIN t, Chosen(t, Append(g, v))
      PROVE  Sound(t, Fresh(Append(g, v), u))
  BY <1>6 DEF Sound, Fresh, Conf
<1>7. CASE s.at = "count"
  <2>1. After(t, 0, c, s) = Conf(Append(g, 0), "run", 1, 0, "any", 0, 0, Consumed(t, s))
    BY <1>1, <1>7 DEF After
  <2>2. t[g] = "call"
    BY <1>1, <1>7 DEF Sound
  <2>3. PICK v \in 0 .. 1 : v = 0
    OBVIOUS
  <2>4. PICK j : j = Len(g) + 1
    OBVIOUS
  <2>5. CallAt(t, Append(g, v), j)
    BY <1>2, <2>2, <2>4, CallAtNext
  <2>6. Whole(t, Append(g, v), j)
    BY <1>2, <2>4, WholeNext
  <2>7. Seen(t, Append(g, v), j) = {}
    BY <1>2, <2>4, SeenNext
  <2>8. Cardinality(Seen(t, Append(g, v), j)) = 0
    BY <2>7, FS_EmptySet
  <2> QED
    BY <1>4, <1>5, <2>1, <2>3, <2>5, <2>6, <2>8, SoundConf
<1>8. CASE s.at # "count" /\ t[g] = "call" /\ Value(t, c, s) # 0
  <2>1. After(t, 0, c, s) = Conf(g, "count", 0, 0, "any", 0, 0, s.used + 1)
    BY <1>1, <1>8 DEF After
  <2> QED
    BY <1>2, <1>8, <2>1 DEF Sound, Conf
<1>9. CASE s.at # "count" /\ t[g] \in {"call", "return"} /\ ~(t[g] = "call" /\ Value(t, c, s) # 0)
  <2>1. After(t, 0, c, s) = Fresh(Append(g, 0), Consumed(t, s))
    BY <1>1, <1>9 DEF After
  <2> QED
    BY <1>4, <1>5, <1>6, <2>1
<1>10. CASE s.at # "count" /\ t[g] = "check"
  <2>1. After(t, 0, c, s) = Fresh(Append(g, IF Value(t, c, s) = 1 THEN 1 ELSE 0), s.used + 1)
    BY <1>1, <1>10 DEF After
  <2>2. PICK v \in 0 .. 1 : v = IF Value(t, c, s) = 1 THEN 1 ELSE 0
    OBVIOUS
  <2>3. Append(g, v) \in DOMAIN t /\ Chosen(t, Append(g, v))
    <3>1. v = 0 \/ v = 1
      OBVIOUS
    <3> QED
      BY <1>4, <1>5, <1>10, <1>m, <3>1
  <2> QED
    BY <1>6, <2>1, <2>2, <2>3
<1>11. CASE s.at # "count" /\ t[g] \notin {"call", "return", "check"} /\ ~Sees(t, s)
  <2>1. After(t, 0, c, s) = Conf(Append(g, 0), s.at, s.armed, s.gone, s.choice, s.x, s.over, s.used)
    BY <1>1, <1>11 DEF After
  <2>2. ASSUME s.armed = 1
        PROVE  \E j : /\ CallAt(t, Append(g, 0), j)
                      /\ s.over = 0 => /\ s.gone = Cardinality(Seen(t, Append(g, 0), j))
                                       /\ Whole(t, Append(g, 0), j)
    <3>1. PICK j : /\ CallAt(t, g, j)
                   /\ s.over = 0 => s.gone = Cardinality(Seen(t, g, j)) /\ Whole(t, g, j)
      BY <1>1, <2>2 DEF Sound
    <3>2. j \in 1 .. Len(g)
      BY <3>1 DEF CallAt
    <3>3. CallAt(t, Append(g, 0), j)
      BY <1>2, <1>11, <3>1, CallAtNext
    <3>4. s.over = 0 => ~(t[g] \in Cps /\ ~Disabled(t, g))
      BY <1>0, <1>1, <1>11, <2>2 DEF Sees
    <3>5. PICK v \in 0 .. 1 : v = 0
      OBVIOUS
    <3>6. /\ Cardinality(Seen(t, g, j)) \in Nat
          /\ Cardinality(Seen(t, Append(g, v), j)) =
                Cardinality(Seen(t, g, j)) + (IF t[g] \in Cps /\ ~Disabled(t, g) THEN 1 ELSE 0)
      BY <1>2, <3>2, SeenCount
    <3>7. Whole(t, Append(g, v), j) <=> Whole(t, g, j) /\ (t[g] \in Cps /\ ~Disabled(t, g) => v = 0)
      BY <1>2, <3>2, WholeNext
    <3>8. s.over = 0 => s.gone = Cardinality(Seen(t, Append(g, v), j))
      BY <3>1, <3>4, <3>6
    <3> QED
      BY <3>1, <3>3, <3>5, <3>7, <3>8
  <2> QED
    BY <1>4, <1>5, <1>11, <2>1, <2>2, SoundConf
<1>12. CASE s.at # "count" /\ t[g] \notin {"call", "return", "check"} /\ Sees(t, s)
  <2>1. s.armed = 1 /\ s.over = 0 /\ ~Disabled(t, g) /\ t[g] \in Cps
    BY <1>1, <1>12 DEF Sees
  <2>2. s.gone \in Nat /\ s.gone <= Target(c, s.used) /\ Target(c, s.used) < MaxPoints
    BY <2>1 DEF Shaped
  <2>3. PICK j : CallAt(t, g, j) /\ s.gone = Cardinality(Seen(t, g, j)) /\ Whole(t, g, j)
    BY <1>1, <2>1 DEF Sound
  <2>4. j \in 1 .. Len(g)
    BY <2>3 DEF CallAt
  <2>5. \A v \in 0 .. 1 : CallAt(t, Append(g, v), j)
    BY <1>2, <1>12, <2>3, CallAtNext
  <2>6. CASE s.gone # Target(c, s.used)
    <3>1. After(t, 0, c, s) = Conf(Append(g, 0), s.at, s.armed, s.gone + 1, s.choice, s.x, s.over, s.used)
      BY <1>1, <1>12, <2>6 DEF After
    <3>2. PICK v \in 0 .. 1 : v = 0
      OBVIOUS
    <3>3. /\ Cardinality(Seen(t, Append(g, v), j)) =
                Cardinality(Seen(t, g, j)) + (IF t[g] \in Cps /\ ~Disabled(t, g) THEN 1 ELSE 0)
      BY <1>2, <2>4, SeenCount
    <3>4. Whole(t, Append(g, v), j) <=> Whole(t, g, j) /\ (t[g] \in Cps /\ ~Disabled(t, g) => v = 0)
      BY <1>2, <2>4, WholeNext
    <3>5. /\ CallAt(t, Append(g, 0), j) /\ Whole(t, Append(g, 0), j)
          /\ s.gone + 1 = Cardinality(Seen(t, Append(g, 0), j))
      BY <2>1, <2>3, <2>5, <3>2, <3>3, <3>4
    <3> QED
      BY <1>4, <1>5, <1>12, <3>1, <3>5, SoundConf
  <2>7. CASE s.gone = Target(c, s.used)
    <3>1. After(t, 0, c, s) = Conf(Append(g, 1), s.at, s.armed, s.gone, s.choice, s.x, 1, s.used)
      BY <1>0, <1>1, <1>12, <2>7 DEF After
    <3>2. May(t, g)
      <4>1. Cardinality(Seen(t, g, j)) < MaxPoints
        BY <2>2, <2>3, <2>7
      <4> QED
        BY <2>1, <2>3, <4>1 DEF May
    <3>3. Chosen(t, Append(g, 1))
      <4>1. PICK v \in 0 .. 1 : v = 1
        OBVIOUS
      <4>2. Chosen(t, Append(g, v)) <=> Chosen(t, g) /\ (t[g] \in Cps /\ v = 1 => May(t, g))
        BY <1>2, ChosenNext
      <4> QED
        BY <1>2, <3>2, <4>1, <4>2
    <3>4. CallAt(t, Append(g, 1), j)
      BY <2>5
    <3> QED
      BY <1>4, <1>12, <2>1, <3>1, <3>3, <3>4, SoundConf
  <2> QED
    BY <2>6, <2>7
<1> QED
  BY <1>7, <1>8, <1>9, <1>10, <1>11, <1>12

\* The count of an armed call is below the limit.
LEMMA TargetBelow ==
    ASSUME NEW t, NEW c \in Seq(Nat), NEW n \in Nat, NEW f, IsRun(t, 0, c, f, n), Fits(t, c, f, n),
           f[n].armed = 1
    PROVE  Target(c, f[n].used) < MaxPoints
<1>m. MaxPoints \in Nat \ {0}
  BY ChoiceAssumption
<1>1. CASE MaxPoints = 1
  BY <1>1 DEF Target
<1>2. CASE MaxPoints # 1
  <2>1. \A k \in Nat : k <= n => Asked(t, c, f, k)
    BY RunAsked
  <2>2. AskedFor(t, f, n, MaxPoints)
    BY <1>2, <2>1 DEF Asked
  <2>3. f[n].used \in 1 .. Len(c) /\ c[f[n].used] < MaxPoints
    BY <1>2, <2>2, ChartAsked
  <2>4. f[n].used # 0
    BY <2>3
  <2> QED
    BY <1>2, <2>3, <2>4 DEF Target
<1> QED
  BY <1>1, <1>2

\* All along an execution.
LEMMA RunSound ==
    ASSUME NEW t, Bracketed(t), << >> \in DOMAIN t, NEW c \in Seq(Nat), NEW n \in Nat, NEW f,
           IsRun(t, 0, c, f, n), Fits(t, c, f, n)
    PROVE  \A k \in Nat : k <= n => Sound(t, f[k])
<1> DEFINE S == {k \in Nat : k <= n => Sound(t, f[k])}
<1>1. 0 \in S
  <2>1. f[0] = Fresh(<< >>, 0)
    BY DEF IsRun
  <2>2. Chosen(t, << >>)
    BY DEF Chosen
  <2> QED
    BY <2>1, <2>2 DEF Sound, Fresh, Conf
<1>2. ASSUME NEW k \in Nat, k \in S PROVE k + 1 \in S
  <2>1. SUFFICES ASSUME k + 1 <= n PROVE Sound(t, f[k + 1])
    OBVIOUS
  <2>2. Sound(t, f[k]) /\ k <= n
    BY <1>2, <2>1
  <2>3. ~Terminal(t, f[k]) /\ f[k + 1] = After(t, 0, c, f[k])
    BY <2>1 DEF IsRun
  <2>4. \A i \in Nat : i <= n => Shaped(c, f[i])
    BY RunShaped
  <2>5. IsRun(t, 0, c, f, k)
    BY <2>2, RunShorter
  <2>6. Fits(t, c, f, k)
    <3>1. \A i \in 0 .. (k - 1) : i \in 0 .. (n - 1)
      BY <2>2
    <3> QED
      BY <3>1 DEF Fits
  <2>7. f[k].armed = 1 => Target(c, f[k].used) < MaxPoints
    BY <2>5, <2>6, TargetBelow
  <2> QED
    BY <2>2, <2>3, <2>4, <2>7, AfterSound
<1> HIDE DEF S
<1>3. \A k \in Nat : k \in S
  BY <1>1, <1>2, Induction
<1> QED
  BY <1>3 DEF S

\* What the choices of an execution lead to is to be tried.
LEMMA EndsChosen ==
    ASSUME NEW t, Bracketed(t), << >> \in DOMAIN t, NEW q \in DOMAIN Chart(t, 0), NEW h, Ends(t, q, h)
    PROVE  h \in DOMAIN t /\ t[h] \in {"end", "skip"} /\ Chosen(t, h)
<1>1. PICK s : OnSettled(t, q, s) /\ Terminal(t, s) /\ s.h = h
  BY DEF Ends
<1>2. PICK n \in Nat : \E f : IsRun(t, 0, q, f, n) /\ f[n] = s
  BY <1>1 DEF OnSettled
<1>3. PICK f : IsRun(t, 0, q, f, n) /\ f[n] = s
  BY <1>2
<1>4. Fits(t, q, f, n) /\ q \in Seq(Nat)
  BY <1>3, ChartFits, ChartRun
<1>5. \A k \in Nat : k <= n => Sound(t, f[k])
  BY <1>3, <1>4, RunSound
<1>6. Sound(t, s)
  BY <1>3, <1>5
<1> QED
  BY <1>1, <1>6 DEF Sound, Terminal

-----------------------------------------------------------------------------
\* The choices q, all of them used, below their ceilings, and with the largest
\* count for calls that do not fail, lead to s.
Leads(t, q, f, n, s) ==
    /\ IsRun(t, 0, q, f, n) /\ Fits(t, q, f, n) /\ Settled(t, q, f, n) /\ f[n] = s
Arrives(t, q, s) == q \in Seq(Nat) /\ s.used = Len(q) /\ \E n \in Nat : \E f : Leads(t, q, f, n, s)

\* One step further.
LEMMA LeadsOn ==
    ASSUME NEW t, NEW q \in Seq(Nat), NEW n \in Nat, NEW f, NEW s, Leads(t, q, f, n, s),
           ~Terminal(t, s), Settles(t, q, s), Ceil(t, s) # 1 => q[s.used + 1] < Ceil(t, s),
           After(t, 0, q, s).used = Len(q)
    PROVE  Arrives(t, q, After(t, 0, q, s))
<1>l. Len(q) \in Nat
  OBVIOUS
<1>0. PICK a : a = After(t, 0, q, s)
  OBVIOUS
<1>1. IsRun(t, 0, q, f, n) /\ Fits(t, q, f, n) /\ Settled(t, q, f, n) /\ f[n] = s
  BY DEF Leads
<1>2. PICK g : g = More(f, n, a)
  OBVIOUS
<1>3. IsRun(t, 0, q, g, n + 1)
  BY <1>0, <1>1, <1>2, <1>l, RunGoesOn
<1>4. g[n + 1] = a /\ \A i \in 0 .. n : g[i] = f[i]
  BY <1>2 DEF More
<1>5. ASSUME NEW i \in 0 .. ((n + 1) - 1)
      PROVE  /\ Settles(t, q, g[i]) /\ (Ceil(t, g[i]) # 1 => q[g[i].used + 1] < Ceil(t, g[i]))
  <2>1. i \in 0 .. n /\ (i = n \/ i \in 0 .. (n - 1))
    OBVIOUS
  <2> QED
    BY <1>1, <1>4, <2>1 DEF Settled, Fits
<1>6. Leads(t, q, g, n + 1, a)
  BY <1>3, <1>4, <1>5 DEF Leads, Settled, Fits
<1>7. n + 1 \in Nat
  OBVIOUS
<1> QED
  BY <1>0, <1>6, <1>7, Zenon DEF Arrives

\* A step without a choice ...
LEMMA ArriveOn ==
    ASSUME NEW t, NEW q, NEW s, Arrives(t, q, s), Ceil(t, s) = 1, ~Terminal(t, s), Settles(t, q, s)
    PROVE  Arrives(t, q, After(t, 0, q, s))
<1>1. q \in Seq(Nat) /\ s.used = Len(q) /\ Len(q) \in Nat
  BY DEF Arrives
<1>2. PICK n \in Nat : \E f : Leads(t, q, f, n, s)
  BY DEF Arrives
<1>3. PICK f : Leads(t, q, f, n, s)
  BY <1>2
<1>4. After(t, 0, q, s).used = Len(q)
  BY <1>1, AskingUses
<1> QED
  BY <1>1, <1>3, <1>4, LeadsOn

\* ... and one with any choice below the ceiling.
LEMMA ArriveWith ==
    ASSUME NEW t, NEW q, NEW s, Arrives(t, q, s), Ceil(t, s) # 1, NEW v \in 0 .. (Ceil(t, s) - 1)
    PROVE  Arrives(t, Append(q, v), After(t, 0, Append(q, v), s))
<1>1. q \in Seq(Nat) /\ s.used = Len(q) /\ Len(q) \in Nat
  BY DEF Arrives
<1>2. PICK n \in Nat : \E f : Leads(t, q, f, n, s)
  BY DEF Arrives
<1>3. PICK f : Leads(t, q, f, n, s)
  BY <1>2
<1>4. PICK d : d = Append(q, v)
  OBVIOUS
<1>5. Ceil(t, s) \in Nat /\ ~Terminal(t, s) /\ v \in Nat /\ v < Ceil(t, s)
  <2>1. s.used \in Nat
    BY <1>1
  <2>2. Ceil(t, s) \in Nat \ {0} /\ (Terminal(t, s) => Ceil(t, s) = 1)
    BY <2>1, AskingUses
  <2> QED
    BY <2>2
<1>6. /\ d \in Seq(Nat) /\ Len(d) = Len(q) + 1 /\ d[Len(q) + 1] = v
      /\ \A k \in 1 .. Len(q) : d[k] = q[k]
  BY <1>1, <1>4, <1>5, AppendProperties
<1>7. IsRun(t, 0, q, f, n) /\ Fits(t, q, f, n) /\ Settled(t, q, f, n) /\ f[n] = s
  BY <1>3 DEF Leads
<1>8. n \in 0 .. n /\ f[n].used <= Len(d) /\ (\A j \in 1 .. f[n].used : q[j] = d[j])
  BY <1>1, <1>6, <1>7
<1>9. IsRun(t, 0, d, f, n) /\ Fits(t, d, f, n)
  BY <1>1, <1>6, <1>7, <1>8, RunPrefix
<1>10. Settled(t, d, f, n)
  BY <1>7, <1>8, SettledSame
<1>11. Leads(t, d, f, n, s)
  BY <1>7, <1>9, <1>10 DEF Leads
<1>12. After(t, 0, d, s).used = Len(d) /\ d[s.used + 1] < Ceil(t, s)
  BY <1>1, <1>5, <1>6, AskingUses
<1>13. Settles(t, d, s)
  BY DEF Settles, Unfailing, Ceil
<1> QED
  BY <1>4, <1>5, <1>6, <1>11, <1>12, <1>13, LeadsOn

-----------------------------------------------------------------------------
\* The search can come to g without arming a call, in a call that is armed for
\* any count not yet passed, and in one that has failed.
Plainly(t, g) == \E q : Arrives(t, q, Fresh(g, Len(q)))
Counting(t, g, n, v) ==
    \E q : Arrives(t, q, Conf(g, "run", 1, n, "any", 0, 0, Len(q))) /\ Target(q, Len(q)) = v
Broken(t, g) == \E q, n : Arrives(t, q, Conf(g, "run", 1, n, "any", 0, 1, Len(q)))
AnyCount(t, g, j) ==
    \A v \in Nat : Cardinality(Seen(t, g, j)) <= v /\ v < MaxPoints
                     => Counting(t, g, Cardinality(Seen(t, g, j)), v)
Reach(t, g) ==
    /\ (\A j : CallAt(t, g, j) => Whole(t, g, j)) => Plainly(t, g)
    /\ \A j : CallAt(t, g, j) /\ Whole(t, g, j) => AnyCount(t, g, j)
    /\ \A j : CallAt(t, g, j) /\ ~Whole(t, g, j) => Broken(t, g)

\* Events in the kernel that do not fail.
LEMMA GoesOn ==
    ASSUME NEW t, NEW g, t[g] \notin {"call", "return", "check", "skip", "end"}
    PROVE  /\ Plainly(t, g) => Plainly(t, Append(g, 0))
           /\ Broken(t, g) => Broken(t, Append(g, 0))
           /\ ~(t[g] \in Cps /\ ~Disabled(t, g)) =>
                \A n, v : Counting(t, g, n, v) => Counting(t, Append(g, 0), n, v)
           /\ t[g] \in Cps /\ ~Disabled(t, g) =>
                \A n \in Nat, v \in Nat : Counting(t, g, n, v) /\ n # v => Counting(t, Append(g, 0), n + 1, v)
<1>1. ASSUME NEW q, NEW armed, NEW n, NEW over, NEW s, s = Conf(g, "run", armed, n, "any", 0, over, Len(q)),
             Arrives(t, q, s)
      PROVE  /\ After(t, 0, q, s).used = Len(q) /\ Arrives(t, q, After(t, 0, q, s))
             /\ ~Sees(t, s) => After(t, 0, q, s) = Conf(Append(g, 0), "run", armed, n, "any", 0, over, Len(q))
             /\ Sees(t, s) /\ n # Target(q, Len(q)) =>
                  After(t, 0, q, s) = Conf(Append(g, 0), "run", armed, n + 1, "any", 0, over, Len(q))
             /\ Sees(t, s) <=> armed = 1 /\ over = 0 /\ t[g] \in Cps /\ ~Disabled(t, g)
  <2>1. s.h = g /\ s.at = "run" /\ s.armed = armed /\ s.gone = n /\ s.choice = "any" /\ s.x = 0
        /\ s.over = over /\ s.used = Len(q)
    BY <1>1 DEF Conf
  <2>2. Ceil(t, s) = 1 /\ ~Terminal(t, s) /\ Settles(t, q, s)
    BY <2>1 DEF Ceil, Terminal, Settles, Unfailing
  <2>3. Arrives(t, q, After(t, 0, q, s))
    BY <1>1, <2>2, ArriveOn
  <2>4. ~Sees(t, s) => After(t, 0, q, s) = Conf(Append(g, 0), "run", armed, n, "any", 0, over, Len(q))
    BY <2>1 DEF After
  <2>5. Sees(t, s) /\ n # Target(q, Len(q)) =>
           After(t, 0, q, s) = Conf(Append(g, 0), "run", armed, n + 1, "any", 0, over, Len(q))
    BY <2>1 DEF After
  <2>6. Sees(t, s) <=> armed = 1 /\ over = 0 /\ t[g] \in Cps /\ ~Disabled(t, g)
    BY <2>1 DEF Sees
  <2>7. After(t, 0, q, s).used = Len(q)
    BY <2>3 DEF Arrives
  <2> QED
    BY <2>3, <2>4, <2>5, <2>6, <2>7
<1>2. ASSUME Plainly(t, g) PROVE Plainly(t, Append(g, 0))
  <2>1. PICK q : Arrives(t, q, Fresh(g, Len(q)))
    BY <1>2 DEF Plainly
  <2>2. PICK s : s = Conf(g, "run", 0, 0, "any", 0, 0, Len(q))
    OBVIOUS
  <2>3. Arrives(t, q, s)
    BY <2>1, <2>2 DEF Fresh
  <2>4. Arrives(t, q, After(t, 0, q, s)) /\ ~Sees(t, s)
        /\ After(t, 0, q, s) = Conf(Append(g, 0), "run", 0, 0, "any", 0, 0, Len(q))
    BY <1>1, <2>2, <2>3
  <2> QED
    BY <2>4 DEF Plainly, Fresh
<1>3. ASSUME Broken(t, g) PROVE Broken(t, Append(g, 0))
  <2>1. PICK q, n : Arrives(t, q, Conf(g, "run", 1, n, "any", 0, 1, Len(q)))
    BY <1>3 DEF Broken
  <2>2. PICK s : s = Conf(g, "run", 1, n, "any", 0, 1, Len(q))
    OBVIOUS
  <2>4. Arrives(t, q, After(t, 0, q, s)) /\ ~Sees(t, s)
        /\ After(t, 0, q, s) = Conf(Append(g, 0), "run", 1, n, "any", 0, 1, Len(q))
    BY <1>1, <2>1, <2>2
  <2> QED
    BY <2>4 DEF Broken
<1>4. ASSUME ~(t[g] \in Cps /\ ~Disabled(t, g)), NEW n, NEW v, Counting(t, g, n, v)
      PROVE  Counting(t, Append(g, 0), n, v)
  <2>1. PICK q : Arrives(t, q, Conf(g, "run", 1, n, "any", 0, 0, Len(q))) /\ Target(q, Len(q)) = v
    BY <1>4 DEF Counting
  <2>2. PICK s : s = Conf(g, "run", 1, n, "any", 0, 0, Len(q))
    OBVIOUS
  <2>4. Arrives(t, q, After(t, 0, q, s)) /\ ~Sees(t, s)
        /\ After(t, 0, q, s) = Conf(Append(g, 0), "run", 1, n, "any", 0, 0, Len(q))
    BY <1>1, <1>4, <2>1, <2>2
  <2> QED
    BY <2>1, <2>4 DEF Counting
<1>5. ASSUME t[g] \in Cps /\ ~Disabled(t, g), NEW n \in Nat, NEW v \in Nat, Counting(t, g, n, v), n # v
      PROVE  Counting(t, Append(g, 0), n + 1, v)
  <2>1. PICK q : Arrives(t, q, Conf(g, "run", 1, n, "any", 0, 0, Len(q))) /\ Target(q, Len(q)) = v
    BY <1>5 DEF Counting
  <2>2. PICK s : s = Conf(g, "run", 1, n, "any", 0, 0, Len(q))
    OBVIOUS
  <2>4. Arrives(t, q, After(t, 0, q, s))
        /\ After(t, 0, q, s) = Conf(Append(g, 0), "run", 1, n + 1, "any", 0, 0, Len(q))
    BY <1>1, <1>5, <2>1, <2>2
  <2> QED
    BY <2>1, <2>4 DEF Counting
<1> QED
  BY <1>2, <1>3, <1>4, <1>5

\* A choice point that fails.
LEMMA Breaks ==
    ASSUME NEW t, NEW g, NEW n, t[g] \in Cps, ~Disabled(t, g), Counting(t, g, n, n)
    PROVE  Broken(t, Append(g, 1))
<1>m. t[g] \notin {"call", "return", "check", "skip", "end"}
  BY ChoiceAssumption
<1>1. PICK q : Arrives(t, q, Conf(g, "run", 1, n, "any", 0, 0, Len(q))) /\ Target(q, Len(q)) = n
  BY DEF Counting
<1>2. PICK s : s = Conf(g, "run", 1, n, "any", 0, 0, Len(q))
  OBVIOUS
<1>3. s.h = g /\ s.at = "run" /\ s.armed = 1 /\ s.gone = n /\ s.choice = "any" /\ s.x = 0
      /\ s.over = 0 /\ s.used = Len(q)
  BY <1>2 DEF Conf
<1>4. Ceil(t, s) = 1 /\ ~Terminal(t, s) /\ Settles(t, q, s)
  BY <1>3, <1>m DEF Ceil, Terminal, Settles, Unfailing
<1>5. Arrives(t, q, After(t, 0, q, s))
  BY <1>1, <1>2, <1>4, ArriveOn
<1>6. Sees(t, s)
  BY <1>3 DEF Sees
<1>7. After(t, 0, q, s) = Conf(Append(g, 1), "run", 1, n, "any", 0, 1, Len(q))
  BY <1>1, <1>3, <1>6, <1>m DEF After
<1> QED
  BY <1>5, <1>7 DEF Broken

\* The return of a call that was not armed, or has failed.
LEMMA ReturnsPlainly ==
    ASSUME NEW t, NEW g, t[g] = "return", Plainly(t, g) \/ Broken(t, g)
    PROVE  Plainly(t, Append(g, 0))
<1>1. PICK q, armed, n, over : /\ Arrives(t, q, Conf(g, "run", armed, n, "any", 0, over, Len(q)))
                               /\ armed = 1 => over = 1
  <2>1. CASE Plainly(t, g)
    <3>1. PICK q : Arrives(t, q, Fresh(g, Len(q)))
      BY <2>1 DEF Plainly
    <3>2. Arrives(t, q, Conf(g, "run", 0, 0, "any", 0, 0, Len(q)))
      BY <3>1 DEF Fresh
    <3>3. 0 = 1 => 0 = 1
      OBVIOUS
    <3> QED
      BY <3>2, <3>3, Zenon
  <2>2. CASE Broken(t, g)
    <3>1. PICK q, n : Arrives(t, q, Conf(g, "run", 1, n, "any", 0, 1, Len(q)))
      BY <2>2 DEF Broken
    <3> QED
      BY <3>1, Zenon
  <2> QED
    BY <2>1, <2>2
<1>2. PICK s : s = Conf(g, "run", armed, n, "any", 0, over, Len(q))
  OBVIOUS
<1>3. s.h = g /\ s.at = "run" /\ s.armed = armed /\ s.over = over /\ s.used = Len(q)
  BY <1>2 DEF Conf
<1>4. Ceil(t, s) = 1 /\ ~Terminal(t, s) /\ Settles(t, q, s)
  BY <1>1, <1>3 DEF Ceil, Terminal, Settles, Unfailing
<1>5. Arrives(t, q, After(t, 0, q, s))
  BY <1>1, <1>2, <1>4, ArriveOn
<1>6. After(t, 0, q, s) = Fresh(Append(g, 0), Len(q))
  BY <1>3, <1>4 DEF After, Consumed
<1> QED
  BY <1>5, <1>6 DEF Plainly

\* A check, with either result.
LEMMA ChecksPlainly ==
    ASSUME NEW t, NEW g, t[g] = "check", Plainly(t, g), NEW v \in 0 .. 1
    PROVE  Plainly(t, Append(g, v))
<1>1. PICK q : Arrives(t, q, Fresh(g, Len(q)))
  BY DEF Plainly
<1>2. PICK s : s = Fresh(g, Len(q))
  OBVIOUS
<1>3. s.h = g /\ s.at = "run" /\ s.used = Len(q)
  BY <1>2 DEF Fresh, Conf
<1>4. Ceil(t, s) = 2
  BY <1>3 DEF Ceil
<1>5. PICK d : d = Append(q, v)
  OBVIOUS
<1>6. q \in Seq(Nat) /\ v \in Nat /\ Len(q) \in Nat
  BY <1>1 DEF Arrives
<1>7. Len(d) = Len(q) + 1 /\ d[Len(q) + 1] = v
  BY <1>5, <1>6, AppendProperties
<1>8. Arrives(t, d, After(t, 0, d, s))
  <2>1. v \in 0 .. (Ceil(t, s) - 1) /\ Ceil(t, s) # 1
    BY <1>4
  <2> QED
    BY <1>1, <1>2, <1>5, <2>1, ArriveWith
<1>9. Value(t, d, s) = v
  BY <1>3, <1>4, <1>7 DEF Value
<1>10. After(t, 0, d, s) = Fresh(Append(g, v), Len(d))
  <2>1. (IF v = 1 THEN 1 ELSE 0) = v
    OBVIOUS
  <2> QED
    BY <1>3, <1>7, <1>9, <2>1 DEF After
<1> QED
  BY <1>8, <1>10 DEF Plainly

\* A call that is not armed, and one that is armed for a count.
LEMMA CallsAnyCount ==
    ASSUME NEW t, NEW g, t[g] = "call", Plainly(t, g)
    PROVE  /\ Plainly(t, Append(g, 0))
           /\ \A v \in Nat : v < MaxPoints => Counting(t, Append(g, 0), 0, v)
<1>m. MaxPoints \in Nat \ {0}
  BY ChoiceAssumption
<1>1. PICK q : Arrives(t, q, Fresh(g, Len(q)))
  BY DEF Plainly
<1>2. PICK s : s = Fresh(g, Len(q))
  OBVIOUS
<1>3. s.h = g /\ s.at = "run" /\ s.used = Len(q)
  BY <1>2 DEF Fresh, Conf
<1>4. Ceil(t, s) = 2
  BY <1>3 DEF Ceil
<1>6. q \in Seq(Nat) /\ Len(q) \in Nat
  BY <1>1 DEF Arrives
<1>7. ASSUME NEW v \in 0 .. 1
      PROVE  /\ Arrives(t, Append(q, v), After(t, 0, Append(q, v), s)) /\ Value(t, Append(q, v), s) = v
             /\ Len(Append(q, v)) = Len(q) + 1 /\ Append(q, v) \in Seq(Nat)
  <2>0. Len(Append(q, v)) = Len(q) + 1 /\ Append(q, v)[Len(q) + 1] = v /\ Append(q, v) \in Seq(Nat)
    BY <1>6, AppendProperties
  <2>1. v \in 0 .. (Ceil(t, s) - 1) /\ Ceil(t, s) # 1
    BY <1>4
  <2>2. Arrives(t, Append(q, v), After(t, 0, Append(q, v), s))
    BY <1>1, <1>2, <2>1, ArriveWith
  <2> QED
    BY <1>3, <2>0, <2>1, <2>2 DEF Value
<1>8. Plainly(t, Append(g, 0))
  <2>1. PICK d : d = Append(q, 0)
    OBVIOUS
  <2>2. Arrives(t, d, After(t, 0, d, s)) /\ Value(t, d, s) = 0 /\ Len(d) = Len(q) + 1
    BY <1>7, <2>1
  <2>3. After(t, 0, d, s) = Fresh(Append(g, 0), Len(d))
    BY <1>3, <1>4, <2>2 DEF After, Consumed
  <2> QED
    BY <2>2, <2>3 DEF Plainly
<1>9. PICK d : d = Append(q, 1)
  OBVIOUS
<1>10. /\ Arrives(t, d, After(t, 0, d, s)) /\ Value(t, d, s) = 1 /\ Len(d) = Len(q) + 1
       /\ d \in Seq(Nat) /\ Len(d) \in Nat
  BY <1>6, <1>7, <1>9
<1>11. PICK r : r = After(t, 0, d, s)
  OBVIOUS
<1>12. r = Conf(g, "count", 0, 0, "any", 0, 0, Len(d))
  BY <1>3, <1>10, <1>11 DEF After
<1>13. r.h = g /\ r.at = "count" /\ r.used = Len(d)
  BY <1>12 DEF Conf
<1>14. Ceil(t, r) = MaxPoints
  BY <1>13 DEF Ceil
<1>15. ASSUME NEW v \in Nat, v < MaxPoints PROVE Counting(t, Append(g, 0), 0, v)
  <2>1. CASE MaxPoints = 1
    <3>1. ~Terminal(t, r) /\ Settles(t, d, r) /\ Ceil(t, r) = 1
      BY <1>13, <1>14, <2>1 DEF Terminal, Settles, Unfailing
    <3>2. Arrives(t, d, After(t, 0, d, r))
      BY <1>10, <1>11, <3>1, ArriveOn
    <3>3. After(t, 0, d, r) = Conf(Append(g, 0), "run", 1, 0, "any", 0, 0, Len(d))
      BY <1>13, <3>1 DEF After, Consumed
    <3>4. Target(d, Len(d)) = v
      BY <1>15, <2>1 DEF Target
    <3> QED
      BY <3>2, <3>3, <3>4 DEF Counting
  <2>2. CASE MaxPoints # 1
    <3>1. PICK e : e = Append(d, v)
      OBVIOUS
    <3>2. Len(e) = Len(d) + 1 /\ e[Len(d) + 1] = v
      BY <1>10, <3>1, AppendProperties
    <3>3. v \in 0 .. (Ceil(t, r) - 1) /\ Ceil(t, r) # 1
      BY <1>m, <1>14, <1>15, <2>2
    <3>4. Arrives(t, e, After(t, 0, e, r))
      BY <1>10, <1>11, <3>1, <3>3, ArriveWith
    <3>5. After(t, 0, e, r) = Conf(Append(g, 0), "run", 1, 0, "any", 0, 0, Len(e))
      BY <1>13, <3>2, <3>3 DEF After, Consumed
    <3>6. Target(e, Len(e)) = v
      BY <1>10, <2>2, <3>2 DEF Target
    <3> QED
      BY <3>4, <3>5, <3>6 DEF Counting
  <2> QED
    BY <2>1, <2>2
<1> QED
  BY <1>8, <1>15

-----------------------------------------------------------------------------
\* One event further.
LEMMA ReachNext ==
    ASSUME NEW t, Bracketed(t), NEW g \in DOMAIN t, NEW v \in 0 .. 1, Reach(t, g),
           t[g] \notin {"skip", "end"}, v = 1 => t[g] \in Cps \cup {"check"},
           Chosen(t, Append(g, v))
    PROVE  Reach(t, Append(g, v))
<1>0. g \in Seq(0 .. 1) /\ Len(g) \in Nat
  BY LenProperties DEF Bracketed
<1>m. Cps \cap {"none", "any", "call", "return", "off", "on", "check", "skip", "end"} = {}
  BY ChoiceAssumption
<1>1. \A j : CallAt(t, Append(g, v), j) <=> \/ CallAt(t, g, j) /\ t[g] # "return"
                                            \/ j = Len(g) + 1 /\ t[g] = "call"
  BY <1>0, CallAtNext
<1>2. \A j : CallAt(t, g, j) => j \in 1 .. Len(g)
  BY DEF CallAt
<1>3. t[g] \in {"call", "check"} => \A j : ~CallAt(t, g, j)
  <2>1. \A j : CallAt(t, g, j) => InCall(t, g)
    BY DEF CallAt, InCall, Within
  <2> QED
    BY <2>1 DEF Bracketed
<1>4. \A j \in 1 .. Len(g) : Whole(t, Append(g, v), j) <=>
                  Whole(t, g, j) /\ (t[g] \in Cps /\ ~Disabled(t, g) => v = 0)
  BY <1>0, WholeNext
<1>5. CASE t[g] = "call"
  <2>1. v = 0
    BY <1>5, <1>m
  <2>2. Plainly(t, g)
    BY <1>3, <1>5 DEF Reach
  <2>3. /\ Plainly(t, Append(g, v))
        /\ \A w \in Nat : w < MaxPoints => Counting(t, Append(g, v), 0, w)
    BY <1>5, <2>1, <2>2, CallsAnyCount
  <2>4. \A j : CallAt(t, Append(g, v), j) => j = Len(g) + 1
    BY <1>1, <1>3, <1>5
  <2>5. Whole(t, Append(g, v), Len(g) + 1)
    BY <1>0, WholeNext
  <2>6. Cardinality(Seen(t, Append(g, v), Len(g) + 1)) = 0
    <3>1. Seen(t, Append(g, v), Len(g) + 1) = {}
      BY <1>0, SeenNext
    <3> QED
      BY <3>1, FS_EmptySet
  <2>7. AnyCount(t, Append(g, v), Len(g) + 1)
    BY <2>3, <2>6 DEF AnyCount
  <2> QED
    BY <2>3, <2>4, <2>5, <2>7 DEF Reach
<1>6. CASE t[g] = "return"
  <2>1. v = 0
    BY <1>6, <1>m
  <2>2. \A j : ~CallAt(t, Append(g, v), j)
    BY <1>1, <1>6
  <2>3. Plainly(t, g) \/ Broken(t, g)
    BY DEF Reach
  <2>4. Plainly(t, Append(g, v))
    BY <1>6, <2>1, <2>3, ReturnsPlainly
  <2> QED
    BY <2>2, <2>4 DEF Reach
<1>7. CASE t[g] = "check"
  <2>1. \A j : ~CallAt(t, Append(g, v), j)
    BY <1>1, <1>3, <1>7
  <2>2. Plainly(t, g)
    BY <1>3, <1>7 DEF Reach
  <2>3. Plainly(t, Append(g, v))
    BY <1>7, <2>2, ChecksPlainly
  <2> QED
    BY <2>1, <2>3 DEF Reach
<1>8. CASE t[g] \notin {"call", "return", "check"} /\ v = 0
  <2>1. /\ Plainly(t, g) => Plainly(t, Append(g, v))
        /\ Broken(t, g) => Broken(t, Append(g, v))
        /\ ~(t[g] \in Cps /\ ~Disabled(t, g)) =>
             \A n, w : Counting(t, g, n, w) => Counting(t, Append(g, v), n, w)
        /\ t[g] \in Cps /\ ~Disabled(t, g) =>
             \A n \in Nat, w \in Nat : Counting(t, g, n, w) /\ n # w => Counting(t, Append(g, v), n + 1, w)
    BY <1>8, GoesOn
  <2>2. \A j : CallAt(t, Append(g, v), j) <=> CallAt(t, g, j)
    BY <1>1, <1>8
  <2>3. \A j : CallAt(t, g, j) => (Whole(t, Append(g, v), j) <=> Whole(t, g, j))
    BY <1>2, <1>4, <1>8
  <2>4. ASSUME NEW j, CallAt(t, g, j), Whole(t, g, j) PROVE AnyCount(t, Append(g, v), j)
    <3>1. PICK n \in Nat : n = Cardinality(Seen(t, g, j))
      <4>1. j \in 1 .. Len(g)
        BY <1>2, <2>4
      <4>2. Cardinality(Seen(t, g, j)) \in Nat
        BY <1>0, <4>1, SeenCount
      <4> QED
        BY <4>2
    <3>2. Cardinality(Seen(t, Append(g, v), j)) = n + (IF t[g] \in Cps /\ ~Disabled(t, g) THEN 1 ELSE 0)
      <4>1. j \in 1 .. Len(g)
        BY <1>2, <2>4
      <4> QED
        BY <1>0, <3>1, <4>1, SeenCount
    <3>3. \A w \in Nat : n <= w /\ w < MaxPoints => Counting(t, g, n, w)
      <4>1. AnyCount(t, g, j)
        BY <2>4 DEF Reach
      <4> QED
        BY <3>1, <4>1 DEF AnyCount
    <3>4. PICK k \in Nat : k = Cardinality(Seen(t, Append(g, v), j))
      BY <3>2
    <3>5. ASSUME NEW w \in Nat, k <= w, w < MaxPoints PROVE Counting(t, Append(g, v), k, w)
      <4>1. CASE t[g] \in Cps /\ ~Disabled(t, g)
        <5>1. k = n + 1 /\ n <= w /\ n # w
          BY <3>2, <3>4, <3>5, <4>1
        <5>2. Counting(t, g, n, w)
          BY <3>3, <3>5, <5>1
        <5>3. Counting(t, Append(g, v), n + 1, w)
          BY <2>1, <4>1, <5>1, <5>2
        <5> QED
          BY <5>1, <5>3
      <4>2. CASE ~(t[g] \in Cps /\ ~Disabled(t, g))
        <5>1. k = n
          BY <3>2, <3>4, <4>2
        <5>2. Counting(t, g, n, w)
          BY <3>3, <3>5, <5>1
        <5> QED
          BY <2>1, <4>2, <5>1, <5>2
      <4> QED
        BY <4>1, <4>2
    <3> QED
      BY <3>4, <3>5 DEF AnyCount
  <2>5. (\A j : CallAt(t, Append(g, v), j) => Whole(t, Append(g, v), j)) => Plainly(t, Append(g, v))
    BY <2>1, <2>2, <2>3 DEF Reach
  <2>6. \A j : CallAt(t, Append(g, v), j) /\ ~Whole(t, Append(g, v), j) => Broken(t, Append(g, v))
    BY <2>1, <2>2, <2>3 DEF Reach
  <2>7. \A j : CallAt(t, Append(g, v), j) /\ Whole(t, Append(g, v), j) => AnyCount(t, Append(g, v), j)
    BY <2>2, <2>3, <2>4
  <2> QED
    BY <2>5, <2>6, <2>7 DEF Reach
<1>9. CASE t[g] \notin {"call", "return", "check"} /\ v = 1
  <2>1. t[g] \in Cps
    BY <1>9
  <2>2. May(t, g)
    BY <1>0, <1>9, <2>1, ChosenNext
  <2>3. ~Disabled(t, g)
    BY <2>2 DEF May
  <2>4. PICK j : CallAt(t, g, j) /\ Cardinality(Seen(t, g, j)) < MaxPoints /\ Whole(t, g, j)
    BY <2>2 DEF May
  <2>5. PICK n \in Nat : n = Cardinality(Seen(t, g, j))
    <3>1. j \in 1 .. Len(g)
      BY <1>2, <2>4
    <3>2. Cardinality(Seen(t, g, j)) \in Nat
      BY <1>0, <3>1, SeenCount
    <3> QED
      BY <3>2
  <2>6. Counting(t, g, n, n)
    <3>1. AnyCount(t, g, j)
      BY <2>4 DEF Reach
    <3>2. n <= n /\ n < MaxPoints
      BY <2>4, <2>5
    <3> QED
      BY <2>5, <3>1, <3>2 DEF AnyCount
  <2>7. Broken(t, Append(g, v))
    BY <1>9, <2>1, <2>3, <2>6, Breaks
  <2>8. \A i : CallAt(t, Append(g, v), i) => ~Whole(t, Append(g, v), i)
    BY <1>1, <1>2, <1>4, <1>9, <2>1, <2>3
  <2>9. CallAt(t, Append(g, v), j)
    BY <1>1, <1>9, <2>4
  <2> QED
    BY <2>7, <2>8, <2>9 DEF Reach
<1>10. v = 0 \/ v = 1
  OBVIOUS
<1> QED
  BY <1>5, <1>6, <1>7, <1>8, <1>9, <1>10

\* The beginnings of a history that is to be tried are reached.
LEMMA BeginningsReached ==
    ASSUME NEW t, Bracketed(t), Rooted(t), NEW h \in DOMAIN t, Chosen(t, h)
    PROVE  \A k \in Nat : k <= Len(h) => Reach(t, SubSeq(h, 1, k)) /\ Chosen(t, SubSeq(h, 1, k))
<1>0. h \in Seq(0 .. 1) /\ Len(h) \in Nat
  BY LenProperties DEF Bracketed
<1> DEFINE S == {k \in Nat : k <= Len(h) => Reach(t, SubSeq(h, 1, k)) /\ Chosen(t, SubSeq(h, 1, k))}
<1>1. 0 \in S
  <2>1. SubSeq(h, 1, 0) = << >>
    BY <1>0, SubSeqEmpty
  <2>2. \A j : ~CallAt(t, << >>, j)
    BY DEF CallAt
  <2>3. Plainly(t, << >>)
    <3>1. PICK f : IsRun(t, 0, << >>, f, 0) /\ Fits(t, << >>, f, 0) /\ f[0] = Fresh(<< >>, 0)
      BY EmptyRun
    <3>2. Leads(t, << >>, f, 0, Fresh(<< >>, 0))
      BY <3>1 DEF Leads, Settled
    <3>3. 0 \in Nat /\ << >> \in Seq(Nat) /\ Len(<< >>) = 0 /\ Fresh(<< >>, 0).used = 0
      BY DEF Fresh, Conf
    <3>4. Arrives(t, << >>, Fresh(<< >>, 0))
      BY <3>2, <3>3, Zenon DEF Arrives
    <3>5. Arrives(t, << >>, Fresh(<< >>, Len(<< >>)))
      BY <3>3, <3>4
    <3> QED
      BY <3>5 DEF Plainly
  <2>4. Chosen(t, << >>)
    BY DEF Chosen
  <2>5. Reach(t, << >>)
    BY <2>2, <2>3 DEF Reach
  <2> QED
    BY <2>1, <2>4, <2>5
<1>2. ASSUME NEW k \in Nat, k \in S PROVE k + 1 \in S
  <2>1. SUFFICES ASSUME k + 1 <= Len(h)
                 PROVE  Reach(t, SubSeq(h, 1, k + 1)) /\ Chosen(t, SubSeq(h, 1, k + 1))
    OBVIOUS
  <2>2. PICK g : g = SubSeq(h, 1, k)
    OBVIOUS
  <2>3. Reach(t, g) /\ Chosen(t, g)
    BY <1>0, <1>2, <2>1, <2>2
  <2>4. k + 1 \in 1 .. Len(h) /\ (k + 1) - 1 = k
    BY <1>0, <2>1
  <2>5. PICK v \in 0 .. 1 : v = h[k + 1]
    BY <1>0, <2>4, ElementOfSeq
  <2>6. SubSeq(h, 1, k + 1) = Append(g, v)
    <3>1. /\ SubSeq(h, 1, k + 1) \in Seq(0 .. 1) /\ Len(SubSeq(h, 1, k + 1)) = k + 1
          /\ \A i \in 1 .. (k + 1) : SubSeq(h, 1, k + 1)[i] = h[i]
      BY <1>0, <2>4, SubSeqProperties
    <3>2. g \in Seq(0 .. 1) /\ Len(g) = k /\ \A i \in 1 .. k : g[i] = h[i]
      BY <1>0, <2>1, <2>2, SubSeqProperties
    <3>3. /\ Append(g, v) \in Seq(0 .. 1) /\ Len(Append(g, v)) = k + 1 /\ Append(g, v)[k + 1] = v
          /\ \A i \in 1 .. k : Append(g, v)[i] = g[i]
      BY <3>2, AppendProperties
    <3>4. \A i \in 1 .. (k + 1) : SubSeq(h, 1, k + 1)[i] = Append(g, v)[i]
      BY <2>5, <3>1, <3>2, <3>3
    <3> QED
      BY <3>1, <3>3, <3>4, SeqEqual
  <2>7. g \in DOMAIN t /\ t[g] \notin {"skip", "end"} /\ (v = 1 => t[g] \in Cps \cup {"check"})
    <3>1. SubSeq(h, 1, (k + 1) - 1) = g
      BY <2>2, <2>4
    <3> QED
      BY <2>4, <2>5, <3>1 DEF Rooted
  <2>8. g \in Seq(0 .. 1)
    BY <2>7 DEF Bracketed
  <2>9. Chosen(t, Append(g, v))
    <3>1. t[g] \in Cps /\ v = 1 => May(t, g)
      <4>1. SubSeq(h, 1, (k + 1) - 1) = g
        BY <2>2, <2>4
      <4> QED
        BY <2>4, <2>5, <4>1 DEF Chosen
    <3> QED
      BY <2>3, <2>8, <3>1, ChosenNext
  <2>10. Reach(t, Append(g, v))
    BY <2>3, <2>7, <2>9, ReachNext
  <2> QED
    BY <2>6, <2>9, <2>10
<1> HIDE DEF S
<1>3. \A k \in Nat : k \in S
  BY <1>1, <1>2, Induction
<1> QED
  BY <1>3 DEF S

\* What is to be tried is what some choices lead to.
LEMMA ChosenEnds ==
    ASSUME NEW t, Bracketed(t), Rooted(t), NEW h \in DOMAIN t, Chosen(t, h), t[h] \in {"end", "skip"}
    PROVE  \E q : Leaf(t, q) /\ Ends(t, q, h)
<1>0. h \in Seq(0 .. 1) /\ Len(h) \in Nat
  BY LenProperties DEF Bracketed
<1>1. Reach(t, h)
  <2>1. \A k \in Nat : k <= Len(h) => Reach(t, SubSeq(h, 1, k)) /\ Chosen(t, SubSeq(h, 1, k))
    BY BeginningsReached
  <2>2. Reach(t, SubSeq(h, 1, Len(h)))
    BY <1>0, <2>1
  <2>3. SubSeq(h, 1, Len(h)) = h
    BY <1>0, SubSeqFull
  <2> QED
    BY <2>2, <2>3
<1>2. \A j : ~CallAt(t, h, j)
  <2>1. \A j : CallAt(t, h, j) => InCall(t, h)
    BY DEF CallAt, InCall, Within
  <2> QED
    BY <2>1 DEF Bracketed
<1>3. PICK q : Arrives(t, q, Fresh(h, Len(q)))
  BY <1>1, <1>2 DEF Reach, Plainly
<1>4. PICK s : s = Fresh(h, Len(q))
  OBVIOUS
<1>5. s.h = h /\ s.used = Len(q) /\ s.at = "run"
  BY <1>4 DEF Fresh, Conf
<1>6. Terminal(t, s)
  BY <1>5 DEF Terminal
<1>7. PICK n \in Nat : \E f : Leads(t, q, f, n, s)
  BY <1>3, <1>4 DEF Arrives
<1>8. PICK f : Leads(t, q, f, n, s)
  BY <1>7
<1>9. IsRun(t, 0, q, f, n) /\ Fits(t, q, f, n) /\ Settled(t, q, f, n) /\ f[n] = s
  BY <1>8 DEF Leads
<1>10. q \in Seq(Nat)
  BY <1>3 DEF Arrives
<1>11. q \in DOMAIN Chart(t, 0)
  BY <1>5, <1>9, <1>10, ChartNode DEF Marks
<1>12. OnSettled(t, q, s)
  BY <1>9, Zenon DEF OnSettled
<1>13. Ends(t, q, h)
  BY <1>5, <1>6, <1>12 DEF Ends
<1> QED
  BY <1>11, <1>13 DEF Leaf

AllRooted == \A t \in Programs : Rooted(t)

\* When the search is over it has tried what it is to try.
LEMMA SearchIsOver ==
    ASSUME AllBracketed, AllRooted, Armed, Charted
    PROVE  EveryFailureTried
<1>1. SUFFICES ASSUME pc = "done", alone, extra = 0 PROVE {e.hist : e \in log} = Wanted
  BY DEF EveryFailureTried
<1>2. PICK t : t = prog
  OBVIOUS
<1>3. Bracketed(t) /\ Rooted(t) /\ << >> \in DOMAIN t
  BY <1>2, ChoiceAssumption DEF AllBracketed, AllRooted, Armed
<1>4. Wanted = {h \in DOMAIN t : t[h] \in {"end", "skip"} /\ Chosen(t, h)}
  BY <1>2, <1>3, WantedIsChosen
<1>5. LogCharted(t, log) /\ AllCharted(t, log)
  BY <1>1, <1>2, ChartedFacts
<1>6. ASSUME NEW e \in log PROVE e.hist \in Wanted
  <2>1. e.choices \in DOMAIN Chart(t, 0) /\ Ends(t, e.choices, e.hist)
    BY <1>5 DEF LogCharted
  <2>2. e.hist \in DOMAIN t /\ t[e.hist] \in {"end", "skip"} /\ Chosen(t, e.hist)
    BY <1>3, <2>1, EndsChosen
  <2> QED
    BY <1>4, <2>2
<1>7. ASSUME NEW h \in Wanted PROVE \E e \in log : h = e.hist
  <2>1. h \in DOMAIN t /\ t[h] \in {"end", "skip"} /\ Chosen(t, h)
    BY <1>4
  <2>2. PICK q : Leaf(t, q) /\ Ends(t, q, h)
    BY <1>3, <2>1, ChosenEnds
  <2>3. PICK e \in log : e.choices = q
    BY <1>5, <2>2 DEF AllCharted, Logged
  <2>4. Ends(t, q, e.hist)
    BY <1>5, <2>3 DEF LogCharted
  <2>5. PICK s : OnSettled(t, q, s) /\ Terminal(t, s) /\ s.h = h
    BY <2>2 DEF Ends
  <2>6. PICK r : OnSettled(t, q, r) /\ Terminal(t, r) /\ r.h = e.hist
    BY <2>4 DEF Ends
  <2>7. OnRun(t, 0, q, s) /\ OnRun(t, 0, q, r)
    BY <2>5, <2>6 DEF OnSettled, OnRun
  <2>8. s = r
    BY <2>5, <2>6, <2>7, ReplayEnds
  <2> QED
    BY <2>5, <2>6, <2>8
<1> QED
  BY <1>6, <1>7

\* The search executes a transition with every combination of failures of its
\* calls, one a call and among the first MaxPoints choice points, and with
\* nothing else (CrashSim::pre_choose and post_choose, EnumRandom::repeat,
\* xe_random_skip_rest), for any transitions that are trees and keep to the
\* brackets, without other threads and extra failures.
THEOREM SearchTriesEveryFailure ==
    ASSUME AllBracketed, AllPaired, AllRooted
    PROVE  Spec => []EveryFailureTried
<1> DEFINE I == Granted /\ Armed /\ Numbers /\ Steady /\ Recorded /\ Charted
<1>1. Init => I
  BY InitRecorded, InitCharted
<1>2. I /\ [Next]_vars => I'
  BY StepGrants, StepArmed, StepNumbers, StepSteady, StepRecorded, StepCharted
<1>3. I => EveryFailureTried
  BY SearchIsOver
<1> QED
  BY <1>1, <1>2, <1>3, PTL DEF Spec
=============================================================================
