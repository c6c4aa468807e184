-------------------------- MODULE EnumRandomProofs --------------------------
(***************************************************************************)
(* For every transition (every tree of choice points), the loop around     *)
(* EnumRandom executes each combination of choices exactly once.  The      *)
(* theorems are about harnesses that do not call xe_random_skip_rest.      *)
(***************************************************************************)
EXTENDS EnumRandom, RandomProofs

\* The type invariant and OnPath say that the object follows the tree.
LEMMA Path ==
    TypeOK /\ OnPath <=> /\ tree \in Trees /\ node \in DOMAIN tree
                         /\ pc \in {"run", "ret", "done"} /\ ran \subseteq Leaves
                         /\ Follows(tree, rand) /\ At(rand, node)
                         /\ pc # "run" => node = rand.choices /\ tree[node] = 0
<1>1. tree \in Trees => IsTree(tree)
  BY TreesAssumption
<1> QED
  BY <1>1 DEF TypeOK, OnPath, Follows, At

\* While an execution runs, a leaf is to come after or below the recorded
\* choices, and afterwards only after them.
LEMMA PendingIs ==
    ASSUME NEW q
    PROVE  /\ pc = "run" => (Pending(q) <=> ToCome(rand, q))
           /\ pc # "run" => (Pending(q) <=> Before(rand.choices, q))
           /\ pc' = "run" => (Pending(q)' <=> ToCome(rand', q))
           /\ pc' # "run" => (Pending(q)' <=> Before(rand'.choices, q))
BY DEF Pending, ToCome

\* Before the first execution every leaf is below the empty list of choices.
LEMMA InitInv == Init => IInv
<1> SUFFICES ASSUME Init PROVE IInv
  OBVIOUS
<1>1. /\ tree \in Trees /\ IsTree(tree) /\ rand = EnumReset /\ node = << >> /\ pc = "run"
      /\ ran = {}
  BY TreesAssumption DEF Init
<1>2. Follows(tree, rand) /\ rand.cur = 0 /\ \A q \in DOMAIN tree : ToCome(rand, q)
  BY <1>1, ResetFollows
<1>3. TypeOK /\ OnPath
  BY <1>1, <1>2, AtRoot, TreeFacts, Path
<1>4. \A q \in Leaves : Pending(q)
  BY <1>1, <1>2, PendingIs DEF Leaves
<1> QED
  BY <1>1, <1>3, <1>4 DEF IInv

\* A choice point passed moves no leaf from pending to executed.
LEMMA ChooseInv == ASSUME Skips = {}, IInv, Choose PROVE IInv'
<1>1. /\ pc = "run" /\ pc' = "run" /\ tree' = tree /\ ran' = ran /\ tree[node] # 0
      /\ node' = Append(node, EnumValue(rand, tree[node]))
      /\ rand' = EnumRandom(rand, tree[node])
  BY DEF Choose
<1>2. /\ tree \in Trees /\ node \in DOMAIN tree /\ ran \subseteq Leaves
      /\ Follows(tree, rand) /\ At(rand, node)
  BY Path DEF IInv
<1>3. /\ Follows(tree, rand') /\ node' \in DOMAIN tree /\ At(rand', node')
      /\ \A q \in DOMAIN tree : tree[q] = 0 => (ToCome(rand', q) <=> ToCome(rand, q))
  BY <1>1, <1>2, DrawFollows
<1>4. TypeOK' /\ OnPath'
  <2>1. /\ tree' \in Trees /\ node' \in DOMAIN tree' /\ ran' \subseteq Leaves'
        /\ Follows(tree', rand') /\ At(rand', node')
    BY <1>1, <1>2, <1>3 DEF Leaves
  <2>2. IsTree(tree')
    BY <2>1, TreesAssumption
  <2> QED
    BY <1>1, <2>1, <2>2 DEF TypeOK, OnPath, Follows, At
<1>5. \A q \in Leaves : Pending(q)' <=> Pending(q)
  BY <1>1, <1>3, PendingIs DEF Leaves
<1> QED
  BY <1>1, <1>4, <1>5 DEF IInv, Leaves

\* The leaf that returns stops being pending, and no other one does.
LEMMA ReturnInv == ASSUME IInv, Return PROVE IInv'
<1>1. /\ pc = "run" /\ pc' = "ret" /\ tree' = tree /\ rand' = rand /\ node' = node
      /\ tree[node] = 0 /\ ran' = ran \cup {node}
  BY DEF Return
<1>2. /\ TypeOK /\ OnPath /\ tree \in Trees /\ node \in DOMAIN tree /\ ran \subseteq Leaves
      /\ Follows(tree, rand) /\ At(rand, node)
  BY Path DEF IInv
<1>3. /\ node = rand.choices /\ ~Before(node, node)
      /\ \A q \in DOMAIN tree : ToCome(rand, q) <=> (q = node \/ Before(rand.choices, q))
  BY <1>1, <1>2, LeafReached
<1>4. TypeOK' /\ OnPath'
  BY <1>1, <1>2, <1>3 DEF TypeOK, OnPath, Leaves
<1>5. ASSUME NEW q \in Leaves PROVE q \in ran' <=> ~Pending(q)'
  <2>1. q \in DOMAIN tree /\ (q \in ran <=> ~Pending(q))
    BY DEF IInv, Leaves
  <2>2. (Pending(q)' <=> Before(rand.choices, q)) /\ (Pending(q) <=> ToCome(rand, q))
    BY <1>1, PendingIs
  <2> QED
    BY <1>1, <1>3, <2>1, <2>2
<1> QED
  BY <1>1, <1>4, <1>5 DEF IInv, Leaves

\* Increasing the deepest open choice point leaves no pending leaf behind.
LEMMA AgainInv == ASSUME IInv, Again PROVE IInv'
<1>1. /\ pc = "ret" /\ pc' = "run" /\ tree' = tree /\ ran' = ran /\ node' = << >>
      /\ Repeats(rand) /\ rand' = Repeat(rand)
  BY DEF Again
<1>2. /\ tree \in Trees /\ IsTree(tree) /\ ran \subseteq Leaves /\ Follows(tree, rand)
      /\ rand.cur = Len(rand.choices)
  BY <1>1, Path, TreesAssumption DEF IInv, At
<1>3. /\ Follows(tree, rand') /\ rand'.cur = 0
      /\ \A q \in DOMAIN tree : Before(rand.choices, q) <=> ToCome(rand', q)
  BY <1>1, <1>2, RepeatFollows
<1>4. TypeOK' /\ OnPath'
  <2>1. /\ tree' \in Trees /\ node' \in DOMAIN tree' /\ ran' \subseteq Leaves'
        /\ Follows(tree', rand') /\ At(rand', node')
    BY <1>1, <1>2, <1>3, AtRoot, TreeFacts DEF Leaves
  <2> QED
    BY <1>1, <2>1 DEF TypeOK, OnPath, Follows, At
<1>5. \A q \in Leaves : Pending(q)' <=> Pending(q)
  BY <1>1, <1>3, PendingIs DEF Leaves
<1> QED
  BY <1>1, <1>4, <1>5 DEF IInv, Leaves

\* Leaving the loop changes nothing the invariant is about.
LEMMA StopInv == ASSUME IInv, Stop PROVE IInv'
<1>1. /\ pc = "ret" /\ pc' = "done" /\ ~Repeats(rand)
      /\ tree' = tree /\ rand' = rand /\ node' = node /\ ran' = ran
  BY DEF Stop
<1>2. TypeOK' /\ OnPath'
  BY <1>1 DEF IInv, TypeOK, OnPath, Leaves
<1>3. \A q \in Leaves : Pending(q)' <=> Pending(q)
  BY <1>1 DEF Pending
<1> QED
  BY <1>1, <1>2, <1>3 DEF IInv, Leaves

\* Every step of the choice loop preserves the invariant.
LEMMA NextInv == ASSUME Skips = {}, IInv, [Next]_vars PROVE IInv'
<1>1. CASE UNCHANGED vars
  BY <1>1 DEF IInv, TypeOK, OnPath, Leaves, Pending, vars
<1> QED
  BY <1>1, ChooseInv, ReturnInv, AgainInv, StopInv DEF Next

\* For every transition: the leaves executed are at every step exactly those
\* that are not to come.
THEOREM Invariance == ASSUME Skips = {} PROVE Spec => []IInv
<1>1. Init => IInv
  BY InitInv
<1>2. IInv /\ [Next]_vars => IInv'
  BY NextInv
<1> QED
  BY <1>1, <1>2, PTL DEF Spec

\* When the loop is left no combination of choices has been missed.
THEOREM EnumerationIsExhaustive == ASSUME Skips = {} PROVE Spec => []Exhaustive
<1>1. IInv => Exhaustive
  <2> SUFFICES ASSUME IInv, pc = "done", NEW q \in Leaves
               PROVE  \E p \in ran : SameUpToSkips(p, q)
    BY DEF Exhaustive
  <2>1. /\ Follows(tree, rand) /\ rand.cur = Len(rand.choices) /\ ~Repeats(rand)
    BY Path DEF IInv, At
  <2>2. ~Pending(q)
    BY <2>1, NothingToCome, PendingIs DEF Leaves
  <2> QED
    BY <2>2 DEF IInv, SameUpToSkips
<1> QED
  BY <1>1, Invariance, PTL

\* No combination of choices is executed a second time.
THEOREM EnumerationMakesProgress == ASSUME Skips = {} PROVE Spec => NoLeafTwice
<1>1. IInv /\ [Next]_vars => [pc' = "ret" => node \notin ran]_vars
  <2> SUFFICES ASSUME IInv, Next, pc' = "ret" PROVE node \notin ran
    OBVIOUS
  <2>1. Return
    BY DEF Next, Choose, Return, Again, Stop
  <2>2. pc = "run" /\ tree[node] = 0
    BY <2>1 DEF Return
  <2>3. node \in DOMAIN tree /\ Follows(tree, rand) /\ At(rand, node)
    BY Path DEF IInv
  <2>4. Pending(node)
    BY <2>2, <2>3, LeafReached, PendingIs
  <2> QED
    BY <2>2, <2>3, <2>4 DEF IInv, Leaves
<1> QED
  BY <1>1, Invariance, PTL DEF Spec, NoLeafTwice

\* The recorded choices are the choices the transition was given.
THEOREM EnumerationIsRecorded == ASSUME Skips = {} PROVE Spec => []Recorded
<1>1. IInv => Recorded
  BY DEF IInv, OnPath, Recorded, SameUpToSkips
<1> QED
  BY <1>1, Invariance, PTL
=============================================================================
