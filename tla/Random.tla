------------------------------- MODULE Random -------------------------------
(***************************************************************************)
(* The choice generators of the model checker library (mcl/Random.C).      *)
(*                                                                         *)
(* EnumRandom drives the search: a checked transition asks for a value at  *)
(* each of its choice points, and between two executions repeat() moves to *)
(* the next combination.  ReplayRandom plays a recorded list back.         *)
(*                                                                         *)
(* An EnumRandom object is a record                                        *)
(*    choices : the value taken at each choice point (_choices)            *)
(*    ceils   : the ceiling each choice point asked for (_ceils)           *)
(*    cur     : how many choice points this execution has passed, which is *)
(*              _cur + 1 (the code counts from -1)                         *)
(***************************************************************************)
EXTENDS Integers, Sequences

\* EnumRandom::reset
EnumReset == [choices |-> << >>, ceils |-> << >>, cur |-> 0]

\* Plausible faults of the operators below, from which the properties are
\* shown to protect: an old choice point taken for a new one too early, ...
EnumValueOffByOne(r, ceil) ==
    IF ceil # 1 /\ r.cur + 1 < Len(r.ceils) THEN r.choices[r.cur + 1] ELSE 0

\* ... a skipped choice point left one beyond its last value, ...
SkipRestAtCeil(r) == [r EXCEPT !.choices[r.cur] = r.ceils[r.cur]]

\* ... and a search that increases the first open choice point.
RepeatFirst(r) ==
    LET first == CHOOSE i \in 1 .. r.cur :
                   /\ r.choices[i] + 1 < r.ceils[i]
                   /\ \A j \in 1 .. (i - 1) : r.choices[j] + 1 >= r.ceils[j]
    IN  [choices |-> [i \in 1 .. first |-> IF i = first THEN r.choices[i] + 1
                                                        ELSE r.choices[i]],
         ceils   |-> SubSeq(r.ceils, 1, first),
         cur     |-> 0]

\* EnumRandom::random(ceil): the value returned.  A ceiling of 1 is answered
\* without being recorded; an old choice point answers with its recorded
\* value, a new one with 0.
EnumValue(r, ceil) ==
    IF ceil # 1 /\ r.cur < Len(r.ceils) THEN r.choices[r.cur + 1] ELSE 0

\* EnumRandom::random(ceil): the object after the call.
EnumRandom(r, ceil) ==
    IF ceil = 1 THEN r
    ELSE [choices |-> IF r.cur < Len(r.ceils) THEN r.choices ELSE Append(r.choices, 0),
          ceils   |-> IF r.cur < Len(r.ceils) THEN r.ceils ELSE Append(r.ceils, ceil),
          cur     |-> r.cur + 1]

\* EnumRandom::skip_rest: the last choice point jumps to its last value, so
\* that the next repeat() leaves it.
SkipRest(r) == [r EXCEPT !.choices[r.cur] = r.ceils[r.cur] - 1]

\* The choice points of this execution that repeat() can still increase.
Open(r) == {i \in 1 .. r.cur : r.choices[i] + 1 < r.ceils[i]}

\* EnumRandom::repeat: whether another combination is left ...
Repeats(r) == Open(r) # {}

\* ... and the object positioned on it: the deepest open choice point is
\* increased, the ones below it are dropped and the execution starts over.
Repeat(r) ==
    LET last == CHOOSE i \in Open(r) : \A j \in Open(r) : j <= i
    IN  [choices |-> [i \in 1 .. last |-> IF i = last THEN r.choices[i] + 1
                                                      ELSE r.choices[i]],
         ceils   |-> SubSeq(r.ceils, 1, last),
         cur     |-> 0]

\* ReplayRandom over the list "rest" of choices not yet played back: an
\* execution that needs the choices p can be replayed when they come next.
\* (random() asserts that a choice is left and that it is below the ceiling.)
CanReplay(p, rest) == /\ Len(p) <= Len(rest)
                      /\ \A i \in 1 .. Len(p) : p[i] = rest[i]

\* What is left once p has been played back; repeat() is "rest is not empty".
Replayed(p, rest) == SubSeq(rest, Len(p) + 1, Len(rest))

-----------------------------------------------------------------------------
(* What a transition asks for is a tree.  A node is the list of choices that *)
(* lead to it; t[p] is the ceiling of the xe_random call made after the      *)
(* choices p, or 0 when the transition returns there.  Calls with ceiling 1  *)
(* are not nodes, because random() answers them without recording anything.  *)

\* A tree: a non-empty prefix-closed set of nodes in which a node has
\* exactly the children 0 .. ceiling - 1.
IsTree(t) ==
    /\ << >> \in DOMAIN t
    /\ \A p \in DOMAIN t :
         /\ p \in Seq(Nat)
         /\ t[p] \in Nat \ {1}
         /\ \A c \in 0 .. (t[p] - 1) : Append(p, c) \in DOMAIN t
         /\ \A i \in 1 .. Len(p) : /\ SubSeq(p, 1, i - 1) \in DOMAIN t
                                   /\ p[i] < t[SubSeq(p, 1, i - 1)]

\* p and q part at some position, where p takes the smaller choice.
Before(p, q) ==
    \E i \in 1 .. Len(p) : /\ i <= Len(q)
                           /\ \A j \in 1 .. (i - 1) : p[j] = q[j]
                           /\ p[i] < q[i]

Extends(p, q) == Len(p) <= Len(q) /\ \A j \in 1 .. Len(p) : p[j] = q[j]
=============================================================================
