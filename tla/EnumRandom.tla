----------------------------- MODULE EnumRandom -----------------------------
(***************************************************************************)
(* The search over the choices of ONE transition: the do ... while loop of *)
(* ModelChecker::model_check (mcl/ModelChecker.C) with the EnumRandom      *)
(* object it consults (mcl/Random.C).                                      *)
(*                                                                         *)
(* A transition is a tree of choice points, as Random describes it.        *)
(***************************************************************************)
EXTENDS Random

CONSTANTS
    MAX_CEIL,  \* largest ceiling, mcl/mcl_types.h
    Trees,     \* the transitions to consider: functions from nodes to ceilings
    Skips      \* the nodes at which the transition calls xe_random_skip_rest

ASSUME TreesAssumption == /\ MAX_CEIL \in Nat
                          /\ \A t \in Trees : IsTree(t) /\ \A p \in DOMAIN t : t[p] <= MAX_CEIL

VARIABLES
    tree,   \* the transition, fixed
    rand,   \* the EnumRandom object (_rand)
    node,   \* the values returned to the running transition so far
    pc,     \* "run": transition running, "ret": it returned, "done": loop left
    ran     \* history: the leaves executed so far

vars == <<tree, rand, node, pc, ran>>

Leaves == {p \in DOMAIN tree : tree[p] = 0}

Init == /\ tree \in Trees
        /\ rand = EnumReset
        /\ node = << >>
        /\ pc = "run"
        /\ ran = {}

\* The transition calls xe_random(tree[node]), and then skip_rest where it
\* found that larger values of this choice make no difference.
Choose ==
    /\ pc = "run"
    /\ tree[node] # 0
    /\ LET r    == EnumRandom(rand, tree[node])
           next == Append(node, EnumValue(rand, tree[node]))
       IN  /\ node' = next
           /\ rand' = IF next \in Skips THEN SkipRest(r) ELSE r
    /\ UNCHANGED <<tree, pc, ran>>

\* run_one_transition returns.
Return ==
    /\ pc = "run"
    /\ tree[node] = 0
    /\ ran' = ran \cup {node}
    /\ pc' = "ret"
    /\ UNCHANGED <<tree, rand, node>>

\* while(_rand->repeat()): the next execution of the same transition, from
\* the restored state.
Again ==
    /\ pc = "ret"
    /\ Repeats(rand)
    /\ rand' = Repeat(rand)
    /\ node' = << >>
    /\ pc' = "run"
    /\ UNCHANGED <<tree, ran>>

\* A loop that is left only by transitions without choice points.
StopStuck ==
    /\ pc = "ret"
    /\ rand.cur = 0
    /\ pc' = "done"
    /\ UNCHANGED <<tree, rand, node, ran>>

\* The loop is left.
Stop ==
    /\ pc = "ret"
    /\ ~Repeats(rand)
    /\ pc' = "done"
    /\ UNCHANGED <<tree, rand, node, ran>>

Next == Choose \/ Return \/ Again \/ Stop

\* The checker is one sequential thread: it never pauses for ever.
Spec == Init /\ [][Next]_vars /\ WF_vars(Next)

-----------------------------------------------------------------------------
TypeOK ==
    /\ tree \in Trees
    /\ rand \in [choices : Seq(Nat), ceils : Seq(Nat), cur : Nat]
    /\ Len(rand.ceils) = Len(rand.choices)
    /\ rand.cur <= Len(rand.choices)
    /\ node \in DOMAIN tree
    /\ pc \in {"run", "ret", "done"}
    /\ ran \subseteq Leaves

\* Two leaves that differ only below a skipped choice stand for each other.
\* Without skips every leaf stands for itself only.
SameUpToSkips(p, q) ==
    /\ Len(p) = Len(q)
    /\ \A i \in 1 .. Len(p) :
         \/ p[i] = q[i]
         \/ SubSeq(p, 1, i) \in Skips /\ SubSeq(q, 1, i) \in Skips

\* When the loop is left every combination of choices has been executed
\* (mcl/Random.C "Enumerate all possible choices for all choice points"): no
\* leaf is missed by the in-place increment, the truncation of the stacks
\* and the reuse of old choice points.
Exhaustive ==
    pc = "done" => \A q \in Leaves : \E p \in ran : SameUpToSkips(p, q)

\* No combination is executed twice: the search makes progress at every
\* repeat().
NoLeafTwice == [][pc' = "ret" => node \notin ran]_vars

\* What the transition saw is what is recorded: the recorded choices are the
\* trace from which the state is regenerated, so a choice that was not the
\* one returned would replay a different execution (up to skipped choices).
Recorded == pc = "ret" => /\ rand.cur = Len(node)
                          /\ Len(rand.choices) = Len(node)
                          /\ SameUpToSkips(rand.choices, node)

\* The search of a finite transition ends.
Terminates == <>(pc = "done")

-----------------------------------------------------------------------------
(* The inductive invariant behind Exhaustive and NoLeafTwice, without skips *)

\* The leaf q is still to come: it is after the recorded choices or, while
\* an execution is under way, below them.
Pending(q) == \/ Before(rand.choices, q)
              \/ pc = "run" /\ Extends(rand.choices, q)

\* The stacks describe a path of the tree that the execution follows.
OnPath ==
    /\ Len(node) = rand.cur
    /\ \A i \in 1 .. rand.cur : node[i] = rand.choices[i]
    /\ rand.choices \in DOMAIN tree
    /\ \A i \in 1 .. Len(rand.choices) :
         rand.ceils[i] = tree[SubSeq(rand.choices, 1, i - 1)]
    /\ pc # "run" => node = rand.choices /\ tree[node] = 0

\* At every step the leaves executed are exactly those that are not to come.
IInv == /\ TypeOK
        /\ OnPath
        /\ \A q \in Leaves : q \in ran <=> ~Pending(q)
        /\ pc = "done" => ~Repeats(rand)
=============================================================================
