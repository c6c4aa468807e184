---------------------------- MODULE RandomProofs ----------------------------
(***************************************************************************)
(* What the operations of an EnumRandom object return, for every object:   *)
(* the lemmas that the proofs about its users rest on.                     *)
(***************************************************************************)
EXTENDS Random, SequenceTheorems, WellFoundedInduction, TLAPS

\* Induction over numbers, for a set of them.
LEMMA Induction ==
    ASSUME NEW S, 0 \in S, \A n \in Nat : n \in S => n + 1 \in S
    PROVE  \A n \in Nat : n \in S
<1> DEFINE T == Nat \ S
<1>1. SUFFICES ASSUME T # {} PROVE FALSE
  OBVIOUS
<1>2. T \subseteq Nat
  OBVIOUS
<1>3. PICK x \in T : \A y \in T : ~(<<y, x>> \in OpToRel(<, Nat))
  BY <1>1, <1>2, NatLessThanWellFounded, WFMin
<1>4. \A y \in T : ~(y < x)
  BY <1>2, <1>3 DEF OpToRel
<1>5. x \in Nat /\ x \notin S /\ x # 0
  BY <1>3
<1>6. x - 1 \in Nat /\ x - 1 < x /\ (x - 1) + 1 = x
  BY <1>5
<1>7. x - 1 \notin T
  BY <1>4, <1>6
<1>8. x - 1 \in S
  BY <1>6, <1>7
<1> QED
  BY <1>5, <1>6, <1>8

\* repeat() finds the deepest open choice point whenever there is one.
LEMMA DeepestOpen ==
    ASSUME NEW r, r.cur \in Nat, Repeats(r)
    PROVE  \E i \in Open(r) : \A j \in Open(r) : j <= i
<1> DEFINE T == {r.cur - i : i \in Open(r)}
<1>1. Open(r) \subseteq 1 .. r.cur
  BY DEF Open
<1>2. T \subseteq Nat /\ T # {}
  BY <1>1 DEF Repeats
<1>3. PICK x \in T : \A y \in T : ~(<<y, x>> \in OpToRel(<, Nat))
  BY <1>2, NatLessThanWellFounded, WFMin
<1>4. \A y \in T : ~(y < x)
  BY <1>2, <1>3 DEF OpToRel
<1>5. PICK i \in Open(r) : x = r.cur - i
  BY <1>3
<1>6. ASSUME NEW j \in Open(r) PROVE j <= i
  <2>1. r.cur - j \in T
    OBVIOUS
  <2>2. ~(r.cur - j < r.cur - i)
    BY <1>4, <1>5, <2>1
  <2>3. i \in Nat /\ j \in Nat /\ r.cur \in Nat
    BY <1>1
  <2> QED
    BY <2>2, <2>3
<1> QED
  BY <1>6

\* What repeat() leaves: the object positioned on the deepest open choice point.
LEMMA RepeatFacts ==
    ASSUME NEW r \in [choices : Seq(Nat), ceils : Seq(Nat), cur : Nat],
           Len(r.ceils) = Len(r.choices), r.cur <= Len(r.choices), Repeats(r)
    PROVE  \E last \in Open(r) :
             /\ \A j \in Open(r) : j <= last
             /\ Repeat(r) \in [choices : Seq(Nat), ceils : Seq(Nat), cur : Nat]
             /\ Len(Repeat(r).choices) = last
             /\ Len(Repeat(r).ceils) = last
             /\ Repeat(r).cur = 0
             /\ \A i \in 1 .. last : /\ Repeat(r).ceils[i] = r.ceils[i]
                                     /\ i # last => Repeat(r).choices[i] = r.choices[i]
             /\ Repeat(r).choices[last] = r.choices[last] + 1
<1> DEFINE last == CHOOSE i \in Open(r) : \A j \in Open(r) : j <= i
<1>1. last \in Open(r) /\ \A j \in Open(r) : j <= last
  BY DeepestOpen
<1>2. last \in 1 .. r.cur
  BY <1>1 DEF Open
<1> DEFINE c == [i \in 1 .. last |-> IF i = last THEN r.choices[i] + 1 ELSE r.choices[i]]
<1>3. Repeat(r) = [choices |-> c, ceils |-> SubSeq(r.ceils, 1, last), cur |-> 0]
  BY DEF Repeat
<1> HIDE DEF last
<1>4. c \in Seq(Nat) /\ Len(c) = last
  BY <1>2, SMTT(30)
<1> DEFINE s == SubSeq(r.ceils, 1, last)
<1>5. s \in Seq(Nat) /\ Len(s) = last /\ \A i \in 1 .. last : s[i] = r.ceils[i]
  BY <1>2, SMTT(30)
<1>6. \A i \in 1 .. last : i # last => c[i] = r.choices[i]
  BY <1>2
<1>7. c[last] = r.choices[last] + 1
  BY <1>2
<1> HIDE DEF c, s
<1>8. /\ Repeat(r) \in [choices : Seq(Nat), ceils : Seq(Nat), cur : Nat]
      /\ Repeat(r).choices = c /\ Repeat(r).ceils = s /\ Repeat(r).cur = 0
  BY <1>3, <1>4, <1>5 DEF s
<1> QED
  BY <1>1, <1>4, <1>5, <1>6, <1>7, <1>8

\* A position inside a sequence that is not its last has a next element.
LEMMA NextElement ==
    ASSUME NEW s \in Seq(Nat), NEW n \in Nat, n < Len(s)
    PROVE  n + 1 \in 1 .. Len(s) /\ s[n + 1] \in Nat
<1>1. Len(s) \in Nat
  OBVIOUS
<1>2. n + 1 \in 1 .. Len(s)
  BY <1>1
<1> QED
  BY <1>2, ElementOfSeq

-----------------------------------------------------------------------------
\* An object that the operations can meet: one ceiling, of at least 1, for
\* every choice, and no more choice points passed than recorded.
IsGenerator(r) ==
    /\ r \in [choices : Seq(Nat), ceils : Seq(Nat), cur : Nat]
    /\ Len(r.ceils) = Len(r.choices) /\ r.cur <= Len(r.choices)
    /\ \A i \in 1 .. Len(r.ceils) : r.ceils[i] >= 1

\* reset() gives a generator.
LEMMA ResetIsGenerator == IsGenerator(EnumReset)
BY DEF IsGenerator, EnumReset

\* A choice point is answered with a number ...
LEMMA ValueIsNat ==
    ASSUME NEW r, IsGenerator(r), NEW ceil \in Nat
    PROVE  EnumValue(r, ceil) \in Nat
<1>1. CASE r.cur < Len(r.ceils)
  BY <1>1, NextElement DEF IsGenerator, EnumValue
<1>2. CASE ~(r.cur < Len(r.ceils))
  BY <1>2 DEF EnumValue
<1> QED
  BY <1>1, <1>2

\* ... and recorded.
LEMMA DrawIsGenerator ==
    ASSUME NEW r, IsGenerator(r), NEW ceil \in Nat \ {0}
    PROVE  IsGenerator(EnumRandom(r, ceil))
<1>0. /\ r.choices \in Seq(Nat) /\ r.ceils \in Seq(Nat) /\ r.cur \in Nat
      /\ Len(r.choices) \in Nat /\ Len(r.ceils) = Len(r.choices)
  BY DEF IsGenerator
<1>1. CASE ceil = 1
  BY <1>1 DEF EnumRandom
<1>2. CASE ceil # 1 /\ r.cur < Len(r.ceils)
  <2>1. EnumRandom(r, ceil) = [choices |-> r.choices, ceils |-> r.ceils, cur |-> r.cur + 1]
    BY <1>2 DEF EnumRandom
  <2> QED
    BY <1>0, <1>2, <2>1 DEF IsGenerator
<1>3. CASE ceil # 1 /\ ~(r.cur < Len(r.ceils))
  <2> DEFINE c == Append(r.choices, 0)
             e == Append(r.ceils, ceil)
  <2>1. EnumRandom(r, ceil) = [choices |-> c, ceils |-> e, cur |-> r.cur + 1]
    BY <1>3 DEF EnumRandom
  <2>2. /\ c \in Seq(Nat) /\ Len(c) = Len(r.choices) + 1
        /\ e \in Seq(Nat) /\ Len(e) = Len(r.ceils) + 1
        /\ \A i \in 1 .. Len(r.ceils) : e[i] = r.ceils[i]
        /\ e[Len(r.ceils) + 1] = ceil
    <3>1. /\ c \in Seq(Nat) /\ Len(c) = Len(r.choices) + 1
      BY <1>0
    <3>2. /\ e \in Seq(Nat) /\ Len(e) = Len(r.ceils) + 1
      BY <1>0
    <3>3. \A i \in 1 .. Len(r.ceils) : e[i] = r.ceils[i]
      BY <1>0
    <3>4. e[Len(r.ceils) + 1] = ceil
      BY <1>0
    <3> QED
      BY <3>1, <3>2, <3>3, <3>4
  <2> HIDE DEF c, e
  <2>3. \A i \in 1 .. Len(e) : e[i] >= 1
    <3>1. SUFFICES ASSUME NEW i \in 1 .. Len(e) PROVE e[i] >= 1
      OBVIOUS
    <3>2. CASE i = Len(r.ceils) + 1
      BY <2>2, <3>2
    <3>3. CASE i # Len(r.ceils) + 1
      <4>1. i \in 1 .. Len(r.ceils)
        BY <1>0, <2>2, <3>3
      <4> QED
        BY <2>2, <4>1 DEF IsGenerator
    <3> QED
      BY <3>2, <3>3
  <2> QED
    BY <1>0, <2>1, <2>2, <2>3 DEF IsGenerator
<1> QED
  BY <1>1, <1>2, <1>3

\* A skipped choice point keeps a value below its ceiling.
LEMMA SkipIsGenerator ==
    ASSUME NEW r, IsGenerator(r)
    PROVE  IsGenerator(SkipRest(r))
<1>0. /\ r.choices \in Seq(Nat) /\ r.ceils \in Seq(Nat) /\ r.cur \in Nat
      /\ Len(r.choices) \in Nat /\ Len(r.ceils) = Len(r.choices) /\ r.cur <= Len(r.choices)
      /\ DOMAIN r = {"choices", "ceils", "cur"}
  BY DEF IsGenerator
<1> DEFINE c == [r.choices EXCEPT ![r.cur] = r.ceils[r.cur] - 1]
<1>1. SkipRest(r) = [r EXCEPT !.choices = c]
  BY DEF SkipRest
<1>2. c \in Seq(Nat) /\ Len(c) = Len(r.choices)
  <2>1. CASE r.cur = 0
    <3>1. c = r.choices
      BY <1>0, <2>1
    <3> QED
      BY <1>0, <3>1
  <2>2. CASE r.cur # 0
    <3>1. r.cur \in 1 .. Len(r.ceils)
      BY <1>0, <2>2
    <3>2. r.ceils[r.cur] - 1 \in Nat
      BY <1>0, <3>1, ElementOfSeq DEF IsGenerator
    <3> QED
      BY <1>0, <3>1, <3>2, ExceptSeq
  <2> QED
    BY <2>1, <2>2
<1> HIDE DEF c
<1>3. /\ SkipRest(r).choices = c /\ SkipRest(r).ceils = r.ceils /\ SkipRest(r).cur = r.cur
      /\ SkipRest(r) \in [choices : Seq(Nat), ceils : Seq(Nat), cur : Nat]
  BY <1>0, <1>1, <1>2 DEF IsGenerator
<1> QED
  BY <1>2, <1>3 DEF IsGenerator

\* repeat() leaves one.
LEMMA RepeatIsGenerator ==
    ASSUME NEW r, IsGenerator(r), Repeats(r)
    PROVE  IsGenerator(Repeat(r))
<1>1. PICK last \in Open(r) :
         /\ Repeat(r) \in [choices : Seq(Nat), ceils : Seq(Nat), cur : Nat]
         /\ Len(Repeat(r).choices) = last
         /\ Len(Repeat(r).ceils) = last
         /\ Repeat(r).cur = 0
         /\ \A i \in 1 .. last : Repeat(r).ceils[i] = r.ceils[i]
  BY RepeatFacts DEF IsGenerator
<1>2. last \in 1 .. Len(r.ceils)
  BY DEF Open, IsGenerator
<1>3. \A i \in 1 .. last : i \in 1 .. Len(r.ceils)
  BY <1>2 DEF IsGenerator
<1>4. \A i \in 1 .. last : Repeat(r).ceils[i] >= 1
  BY <1>1, <1>3 DEF IsGenerator
<1> DEFINE g == Repeat(r)
<1> HIDE DEF g
<1>5. IsGenerator(g)
  BY <1>1, <1>2, <1>4 DEF IsGenerator, g
<1> QED
  BY <1>5 DEF g

-----------------------------------------------------------------------------
(* Lists of choices                                                        *)

\* Two sequences that agree up to n have the same prefix of length n.
LEMMA SamePrefix ==
    ASSUME NEW p \in Seq(Nat), NEW q \in Seq(Nat), NEW n \in Nat,
           n <= Len(p), n <= Len(q), \A j \in 1 .. n : p[j] = q[j]
    PROVE  SubSeq(p, 1, n) = SubSeq(q, 1, n)
BY SMTT(30)

\* The prefix of full length is the sequence itself.
LEMMA FullPrefix ==
    ASSUME NEW p \in Seq(Nat)
    PROVE  SubSeq(p, 1, Len(p)) = p
OBVIOUS

\* Sequences are equal when they have the same length and elements.
LEMMA SameSeq ==
    ASSUME NEW p \in Seq(Nat), NEW q \in Seq(Nat), Len(p) = Len(q),
           \A j \in 1 .. Len(p) : p[j] = q[j]
    PROVE  p = q
BY SeqEqual

\* Recording a new choice point with value 0 changes neither what comes after
\* nor what lies below the recorded choices, except for the node itself.
LEMMA AppendZero ==
    ASSUME NEW p \in Seq(Nat), NEW q \in Seq(Nat), q # p
    PROVE  Before(Append(p, 0), q) \/ Extends(Append(p, 0), q) <=> Before(p, q) \/ Extends(p, q)
<1> DEFINE n == Len(p)
           z == Append(p, 0)
<1>1. n \in Nat /\ z \in Seq(Nat) /\ Len(z) = n + 1 /\ z[n + 1] = 0 /\ Len(q) \in Nat
  OBVIOUS
<1>2. \A i \in 1 .. n : z[i] = p[i] /\ p[i] \in Nat
  OBVIOUS
<1>3. \A i \in 1 .. Len(q) : q[i] \in Nat
  OBVIOUS
<1> HIDE DEF n, z
<1>4. ASSUME Extends(p, q) PROVE Before(z, q) \/ Extends(z, q)
  <2>1. n <= Len(q) /\ \A j \in 1 .. n : p[j] = q[j]
    BY <1>4 DEF Extends, n
  <2>2. Len(q) # n
    BY <2>1, SameSeq DEF n
  <2>3. n + 1 \in 1 .. Len(q) /\ q[n + 1] \in Nat
    BY <1>1, <1>3, <2>1, <2>2
  <2>4. CASE q[n + 1] = 0
    <3>1. \A j \in 1 .. (n + 1) : z[j] = q[j]
      BY <1>1, <1>2, <2>1, <2>4
    <3> QED
      BY <1>1, <2>3, <3>1 DEF Extends
  <2>5. CASE q[n + 1] > 0
    <3>1. \A j \in 1 .. ((n + 1) - 1) : z[j] = q[j]
      BY <1>1, <1>2, <2>1
    <3>2. n + 1 \in 1 .. Len(z) /\ n + 1 <= Len(q) /\ z[n + 1] < q[n + 1]
      BY <1>1, <2>3, <2>5
    <3> QED
      BY <3>1, <3>2 DEF Before
  <2> QED
    BY <2>3, <2>4, <2>5
<1>5. ASSUME Before(p, q) PROVE Before(z, q)
  <2>1. PICK i \in 1 .. n : i <= Len(q) /\ (\A j \in 1 .. (i - 1) : p[j] = q[j]) /\ p[i] < q[i]
    BY <1>5 DEF Before, n
  <2>2. \A j \in 1 .. (i - 1) : z[j] = q[j]
    BY <1>1, <1>2, <2>1
  <2>3. i \in 1 .. Len(z) /\ z[i] < q[i]
    BY <1>1, <1>2, <2>1
  <2> QED
    BY <2>1, <2>2, <2>3 DEF Before
<1>6. ASSUME Extends(z, q) PROVE Extends(p, q)
  <2>1. n + 1 <= Len(q) /\ \A j \in 1 .. (n + 1) : z[j] = q[j]
    BY <1>1, <1>6 DEF Extends
  <2>2. n <= Len(q) /\ \A j \in 1 .. n : p[j] = q[j]
    BY <1>1, <1>2, <2>1
  <2> QED
    BY <2>2 DEF Extends, n
<1>7. ASSUME Before(z, q) PROVE Before(p, q) \/ Extends(p, q)
  <2>1. PICK i \in 1 .. (n + 1) : i <= Len(q) /\ (\A j \in 1 .. (i - 1) : z[j] = q[j]) /\ z[i] < q[i]
    BY <1>1, <1>7 DEF Before
  <2>2. \A j \in 1 .. (i - 1) : p[j] = q[j]
    BY <1>1, <1>2, <2>1
  <2>3. CASE i = n + 1
    BY <1>1, <2>1, <2>2, <2>3 DEF Extends, n
  <2>4. CASE i \in 1 .. n
    BY <1>2, <2>1, <2>2, <2>4 DEF Before, n
  <2> QED
    BY <1>1, <2>1, <2>3, <2>4
<1> QED
  BY <1>4, <1>5, <1>6, <1>7 DEF z

\* The choice point that repeat() increases is the only one at which a leaf to
\* come can part from the recorded choices, or it parts above it.
LEMMA Increment ==
    ASSUME NEW p \in Seq(Nat), NEW q \in Seq(Nat), NEW z \in Seq(Nat),
           NEW last \in 1 .. Len(p), Len(z) = last,
           \A i \in 1 .. last : i # last => z[i] = p[i], z[last] = p[last] + 1,
           \A i \in 1 .. Len(p) : (i <= Len(q) /\ (\A j \in 1 .. (i - 1) : p[j] = q[j]) /\ p[i] < q[i]) => i <= last
    PROVE  Before(p, q) <=> Before(z, q) \/ Extends(z, q)
<1>0. /\ Len(p) \in Nat /\ Len(q) \in Nat /\ last \in Nat /\ last >= 1 /\ last <= Len(p)
      /\ \A i \in 1 .. (last - 1) : z[i] = p[i]
  OBVIOUS
<1>1. \A i \in 1 .. Len(p) : p[i] \in Nat
  OBVIOUS
<1>2. \A i \in 1 .. Len(q) : q[i] \in Nat
  BY SMTT(30)
<1>3. ASSUME Before(p, q) PROVE Before(z, q) \/ Extends(z, q)
  <2>1. PICK i \in 1 .. Len(p) : i <= Len(q) /\ (\A j \in 1 .. (i - 1) : p[j] = q[j]) /\ p[i] < q[i]
    BY <1>3 DEF Before
  <2>2. i <= last
    BY <2>1
  <2>3. \A j \in 1 .. (i - 1) : z[j] = q[j]
    BY <1>0, <2>1, <2>2
  <2>4. CASE i < last
    <3>1. z[i] < q[i]
      BY <1>0, <2>1, <2>4
    <3>2. i \in 1 .. Len(z)
      BY <1>0, <2>1, <2>2
    <3> QED
      BY <2>1, <2>3, <3>1, <3>2 DEF Before
  <2>5. CASE i = last
    <3>1. p[last] \in Nat /\ q[last] \in Nat /\ z[last] <= q[last]
      BY <1>1, <1>2, <2>1, <2>5, SMTT(30)
    <3>2. CASE z[last] < q[last]
      BY <2>1, <2>3, <2>5, <3>2, SMTT(30) DEF Before
    <3>3. CASE z[last] = q[last]
      BY <2>1, <2>3, <2>5, <3>3, SMTT(30) DEF Extends
    <3> QED
      BY <3>1, <3>2, <3>3, SMTT(30)
  <2> QED
    BY <1>0, <2>2, <2>4, <2>5
<1>4. ASSUME Before(z, q) PROVE Before(p, q)
  <2>1. PICK i \in 1 .. last : i <= Len(q) /\ (\A j \in 1 .. (i - 1) : z[j] = q[j]) /\ z[i] < q[i]
    BY <1>4 DEF Before
  <2>2. \A j \in 1 .. (i - 1) : p[j] = q[j]
    BY <1>0, <2>1
  <2>3. i \in 1 .. Len(p) /\ i \in 1 .. Len(q) /\ p[i] \in Nat /\ q[i] \in Nat
    BY <1>0, <1>1, <1>2, <2>1, SMTT(30)
  <2>4. p[i] < q[i]
    <3>1. CASE i = last
      BY <2>1, <2>3, <3>1, SMTT(30)
    <3>2. CASE i # last
      BY <2>1, <3>2
    <3> QED
      BY <3>1, <3>2
  <2> QED
    BY <2>4, <2>1, <2>2, <2>3 DEF Before
<1>5. ASSUME Extends(z, q) PROVE Before(p, q)
  <2>1. last <= Len(q) /\ \A j \in 1 .. last : z[j] = q[j]
    BY <1>5 DEF Extends
  <2>2. \A j \in 1 .. (last - 1) : p[j] = q[j]
    BY <1>0, <2>1, SMTT(30)
  <2>3. last \in 1 .. Len(p) /\ last \in 1 .. last /\ p[last] \in Nat
    BY <1>0, <1>1
  <2>4. p[last] < q[last]
    BY <2>1, <2>3, SMTT(30)
  <2> QED
    BY <2>4, <2>1, <2>2, <2>3 DEF Before
<1> QED
  BY <1>3, <1>4, <1>5

-----------------------------------------------------------------------------
(* The choices of a transition                                             *)

\* The stacks of the object r describe a path of the tree t ...
Follows(t, r) ==
    /\ IsTree(t)
    /\ r \in [choices : Seq(Nat), ceils : Seq(Nat), cur : Nat]
    /\ Len(r.ceils) = Len(r.choices) /\ r.cur <= Len(r.choices)
    /\ r.choices \in DOMAIN t
    /\ \A i \in 1 .. Len(r.choices) : r.ceils[i] = t[SubSeq(r.choices, 1, i - 1)]

\* ... and the execution has come to node n on it.
At(r, n) == Len(n) = r.cur /\ \A i \in 1 .. r.cur : n[i] = r.choices[i]

\* The leaf q is after or below the recorded choices.
ToCome(r, q) == Before(r.choices, q) \/ Extends(r.choices, q)

\* What a tree is, for nodes given one by one.
LEMMA TreeFacts ==
    ASSUME NEW t, IsTree(t)
    PROVE  /\ << >> \in DOMAIN t
           /\ \A p \in DOMAIN t :
                /\ p \in Seq(Nat)
                /\ t[p] \in Nat
                /\ t[p] # 1
                /\ \A c \in 0 .. (t[p] - 1) : Append(p, c) \in DOMAIN t
                /\ \A i \in 1 .. Len(p) : /\ SubSeq(p, 1, i - 1) \in DOMAIN t
                                          /\ p[i] < t[SubSeq(p, 1, i - 1)]
BY DEF IsTree

\* At the beginning everything is to come.
LEMMA ResetFollows ==
    ASSUME NEW t, IsTree(t)
    PROVE  /\ Follows(t, EnumReset) /\ EnumReset.cur = 0
           /\ \A q \in DOMAIN t : ToCome(EnumReset, q)
<1>1. \A q \in DOMAIN t : q \in Seq(Nat)
  BY TreeFacts
<1>2. EnumReset.choices = << >> /\ EnumReset.cur = 0
  BY DEF EnumReset
<1>3. \A q \in DOMAIN t : ToCome(EnumReset, q)
  BY <1>1, <1>2 DEF ToCome, Extends
<1>4. Follows(t, EnumReset)
  BY TreeFacts DEF Follows, EnumReset
<1> QED
  BY <1>2, <1>3, <1>4

\* An execution starts at the root.
LEMMA AtRoot ==
    ASSUME NEW r, r.cur = 0
    PROVE  At(r, << >>)
BY DEF At

\* A choice point is passed on the path, and moves nothing behind it.
LEMMA DrawFollows ==
    ASSUME NEW t, NEW r, NEW n \in DOMAIN t, Follows(t, r), At(r, n), t[n] # 0
    PROVE  /\ Follows(t, EnumRandom(r, t[n]))
           /\ Append(n, EnumValue(r, t[n])) \in DOMAIN t
           /\ At(EnumRandom(r, t[n]), Append(n, EnumValue(r, t[n])))
           /\ \A q \in DOMAIN t : t[q] = 0 => (ToCome(EnumRandom(r, t[n]), q) <=> ToCome(r, q))
<1>t. \A p \in DOMAIN t :
        /\ p \in Seq(Nat)
        /\ t[p] \in Nat
        /\ t[p] # 1
        /\ \A c \in 0 .. (t[p] - 1) : Append(p, c) \in DOMAIN t
        /\ \A i \in 1 .. Len(p) : /\ SubSeq(p, 1, i - 1) \in DOMAIN t
                                  /\ p[i] < t[SubSeq(p, 1, i - 1)]
  BY TreeFacts DEF Follows
<1> DEFINE ch == r.choices
           c == r.cur
           r2 == EnumRandom(r, t[n])
           n2 == Append(n, EnumValue(r, t[n]))
<1>1. t[n] \in Nat /\ t[n] # 1 /\ t[n] # 0
  BY <1>t
<1>2. /\ ch \in Seq(Nat) /\ r.ceils \in Seq(Nat) /\ c \in Nat
      /\ Len(r.ceils) = Len(ch) /\ c <= Len(ch)
      /\ n \in Seq(Nat) /\ Len(n) = c /\ \A i \in 1 .. c : n[i] = ch[i]
      /\ ch \in DOMAIN t
      /\ \A i \in 1 .. Len(ch) : r.ceils[i] = t[SubSeq(ch, 1, i - 1)]
  BY <1>t DEF Follows, At
<1>3. CASE c < Len(ch)
  <2>1. /\ r2 = [choices |-> ch, ceils |-> r.ceils, cur |-> c + 1]
        /\ n2 = Append(n, ch[c + 1])
    BY <1>1, <1>2, <1>3 DEF EnumRandom, EnumValue
  <2>2. n2 \in DOMAIN t
    <3>1. n = SubSeq(ch, 1, c)
      BY <1>2
    <3>2. ch[c + 1] \in Nat /\ c + 1 \in 1 .. Len(ch) /\ (c + 1) - 1 = c
      BY <1>2, <1>3, NextElement, SMTT(30)
    <3>3. ch[c + 1] < t[SubSeq(ch, 1, c)]
      BY <1>2, <1>t, <3>2
    <3>4. ch[c + 1] \in 0 .. (t[n] - 1)
      BY <1>1, <3>1, <3>2, <3>3
    <3> QED
      BY <1>2, <1>t, <2>1, <3>4
  <2>3. r2.choices = ch /\ r2.ceils = r.ceils /\ r2.cur = c + 1
    BY <2>1
  <2>4. Follows(t, r2)
    <3>1. r2 \in [choices : Seq(Nat), ceils : Seq(Nat), cur : Nat] /\ r2.cur <= Len(ch)
      BY <1>2, <1>3, <2>1, SMTT(30)
    <3> HIDE DEF r2
    <3> QED
      BY <1>2, <2>3, <3>1 DEF Follows
  <2>5. At(r2, n2)
    <3>1. c + 1 \in 1 .. Len(ch) /\ ch[c + 1] \in Nat
      BY <1>2, <1>3, NextElement
    <3>2. n2 \in Seq(Nat) /\ Len(n2) = c + 1 /\ n2[c + 1] = ch[c + 1]
      BY <1>2, <2>1, <3>1
    <3>3. \A i \in 1 .. c : n2[i] = n[i]
      BY <1>2, <2>1, <3>1
    <3>4. ASSUME NEW i \in 1 .. (c + 1) PROVE n2[i] = ch[i]
      <4>1. CASE i = c + 1
        BY <3>2, <4>1
      <4>2. CASE i \in 1 .. c
        BY <1>2, <3>3, <4>2
      <4> QED
        BY <1>2, <4>1, <4>2
    <3> HIDE DEF r2, n2
    <3> QED
      BY <2>3, <3>2, <3>4 DEF At
  <2>6. \A q \in DOMAIN t : ToCome(r2, q) <=> ToCome(r, q)
    BY <2>3 DEF ToCome
  <2> QED
    BY <2>2, <2>4, <2>5, <2>6
<1>4. CASE c = Len(ch)
  <2>1. n = ch
    BY <1>2, <1>4, SameSeq
  <2> DEFINE z == Append(ch, 0)
  <2>2. r2 = [choices |-> z, ceils |-> Append(r.ceils, t[n]), cur |-> c + 1] /\ n2 = z
    <3>1. ~(r.cur < Len(r.ceils))
      BY <1>2, <1>4
    <3> QED
      BY <1>1, <2>1, <3>1 DEF EnumRandom, EnumValue
  <2>3. z \in DOMAIN t
    BY <1>1, <1>2, <2>1, <1>t
  <2>4. r2.choices = z /\ r2.ceils = Append(r.ceils, t[ch]) /\ r2.cur = c + 1
    BY <2>1, <2>2
  <2>5. z \in Seq(Nat) /\ Len(z) = Len(ch) + 1 /\ Append(r.ceils, t[ch]) \in Seq(Nat)
        /\ Len(Append(r.ceils, t[ch])) = Len(ch) + 1
    BY <1>1, <1>2, <2>1
  <2>6. Follows(t, r2)
    <3>1. \A i \in 1 .. Len(ch) : /\ SubSeq(z, 1, i - 1) = SubSeq(ch, 1, i - 1)
                                  /\ Append(r.ceils, t[ch])[i] = r.ceils[i]
      BY <1>2
    <3>2. SubSeq(z, 1, Len(ch)) = ch
      BY <1>2, SamePrefix, FullPrefix
    <3>3. SubSeq(z, 1, Len(z) - 1) = ch /\ Append(r.ceils, t[ch])[Len(z)] = t[ch]
      BY <1>2, <2>5, <3>2
    <3>4. \A i \in 1 .. Len(z) : Append(r.ceils, t[ch])[i] = t[SubSeq(z, 1, i - 1)]
      <4> SUFFICES ASSUME NEW i \in 1 .. Len(z)
                   PROVE  Append(r.ceils, t[ch])[i] = t[SubSeq(z, 1, i - 1)]
        OBVIOUS
      <4>1. CASE i = Len(z)
        BY <3>3, <4>1
      <4>2. CASE i \in 1 .. Len(ch)
        BY <1>2, <3>1, <4>2
      <4> QED
        BY <1>2, <2>5, <4>1, <4>2
    <3>5. r2 \in [choices : Seq(Nat), ceils : Seq(Nat), cur : Nat] /\ c + 1 <= Len(z)
      BY <1>2, <1>4, <2>1, <2>2, <2>5
    <3> HIDE DEF r2, z
    <3> QED
      BY <2>3, <2>4, <2>5, <3>4, <3>5 DEF Follows
  <2>7. At(r2, n2)
    BY <1>4, <2>2, <2>4, <2>5 DEF At
  <2>8. ASSUME NEW q \in DOMAIN t, t[q] = 0 PROVE ToCome(r2, q) <=> ToCome(r, q)
    <3>1. q \in Seq(Nat) /\ q # ch
      BY <1>1, <2>1, <1>t, <2>8
    <3> HIDE DEF r2, z
    <3> QED
      BY <1>2, <2>4, <3>1, AppendZero DEF ToCome, z
  <2> QED
    BY <2>2, <2>3, <2>6, <2>7, <2>8
<1> QED
  BY <1>2, <1>3, <1>4

\* A leaf has no descendants.
LEMMA LeafEnds ==
    ASSUME NEW t, IsTree(t), NEW n \in DOMAIN t, t[n] = 0, NEW q \in DOMAIN t, Extends(n, q)
    PROVE  q = n
<1>1. n \in Seq(Nat) /\ q \in Seq(Nat) /\ Len(n) \in Nat
  BY TreeFacts
<1>2. Len(n) <= Len(q) /\ \A j \in 1 .. Len(n) : n[j] = q[j]
  BY DEF Extends
<1>3. CASE Len(n) < Len(q)
  <2>1. SubSeq(q, 1, Len(n)) = n
    BY <1>1, <1>2, SamePrefix, FullPrefix
  <2>2. Len(n) + 1 \in 1 .. Len(q) /\ (Len(n) + 1) - 1 = Len(n) /\ q[Len(n) + 1] \in Nat
    BY <1>1, <1>3, NextElement
  <2>3. q[Len(n) + 1] < t[SubSeq(q, 1, Len(n))]
    BY <2>2, TreeFacts
  <2>4. q[Len(n) + 1] < 0
    BY <2>1, <2>3
  <2> QED
    BY <2>2, <2>4
<1>4. CASE Len(n) = Len(q)
  BY <1>1, <1>2, <1>4, SameSeq
<1> QED
  BY <1>1, <1>2, <1>3, <1>4

\* The leaf being executed is the whole list of recorded choices, is the next
\* one to come, and is then behind.
LEMMA LeafReached ==
    ASSUME NEW t, NEW r, NEW n \in DOMAIN t, Follows(t, r), At(r, n), t[n] = 0
    PROVE  /\ n = r.choices /\ r.cur = Len(r.choices)
           /\ \A q \in DOMAIN t : ToCome(r, q) <=> (q = n \/ Before(r.choices, q))
           /\ ~Before(n, n)
<1>1. /\ IsTree(t) /\ r.choices \in DOMAIN t /\ r.choices \in Seq(Nat) /\ n \in Seq(Nat)
      /\ Len(n) = r.cur /\ r.cur <= Len(r.choices) /\ \A i \in 1 .. r.cur : n[i] = r.choices[i]
  BY TreeFacts DEF Follows, At
<1>2. Extends(n, r.choices)
  BY <1>1 DEF Extends
<1>3. n = r.choices
  BY <1>1, <1>2, LeafEnds
<1>4. ASSUME NEW q \in DOMAIN t PROVE ToCome(r, q) <=> (q = n \/ Before(r.choices, q))
  <2>1. Extends(n, q) => q = n
    BY <1>1, LeafEnds
  <2>2. Extends(n, n)
    BY <1>1 DEF Extends
  <2> QED
    BY <1>3, <2>1, <2>2 DEF ToCome
<1>5. ~Before(n, n)
  <2>1. \A i \in 1 .. Len(n) : n[i] \in Nat
    BY <1>1
  <2> QED
    BY <2>1 DEF Before
<1> QED
  BY <1>1, <1>3, <1>4, <1>5

\* Where a leaf to come parts from the recorded choices there is an open choice
\* point.
LEMMA PartsAtOpen ==
    ASSUME NEW t, NEW r, Follows(t, r), r.cur = Len(r.choices), NEW q \in DOMAIN t,
           NEW i \in 1 .. Len(r.choices), i <= Len(q),
           \A j \in 1 .. (i - 1) : r.choices[j] = q[j], r.choices[i] < q[i]
    PROVE  i \in Open(r)
<1>1. /\ r.choices \in Seq(Nat) /\ r.ceils \in Seq(Nat) /\ Len(r.ceils) = Len(r.choices)
      /\ q \in Seq(Nat) /\ Len(r.choices) \in Nat
      /\ r.ceils[i] = t[SubSeq(r.choices, 1, i - 1)]
  BY TreeFacts DEF Follows
<1>2. SubSeq(r.choices, 1, i - 1) = SubSeq(q, 1, i - 1)
  <2>1. Len(q) \in Nat
    BY <1>1
  <2>2. i - 1 \in Nat /\ i - 1 <= Len(r.choices) /\ i - 1 <= Len(q)
    BY <1>1, <2>1, SMTT(30)
  <2> QED
    BY <1>1, <2>2, SamePrefix
<1>3. /\ i \in 1 .. Len(q) /\ i \in 1 .. Len(r.ceils)
      /\ r.choices[i] \in Nat /\ q[i] \in Nat /\ r.ceils[i] \in Nat
  <2>1. Len(q) \in Nat
    BY <1>1
  <2>2. i \in 1 .. Len(q) /\ i \in 1 .. Len(r.ceils)
    BY <1>1, <2>1
  <2> QED
    BY <1>1, <2>2, ElementOfSeq
<1>4. q[i] < t[SubSeq(q, 1, i - 1)]
  BY <1>3, TreeFacts DEF Follows
<1>5. r.choices[i] + 1 < r.ceils[i]
  <2>1. q[i] < r.ceils[i]
    BY <1>1, <1>2, <1>4
  <2> QED
    BY <1>3, <2>1
<1> QED
  BY <1>5 DEF Open

\* When repeat() finds no open choice point nothing is to come ...
LEMMA NothingToCome ==
    ASSUME NEW t, NEW r, Follows(t, r), r.cur = Len(r.choices), ~Repeats(r), NEW q \in DOMAIN t
    PROVE  ~Before(r.choices, q)
<1> SUFFICES ASSUME Before(r.choices, q) PROVE FALSE
  OBVIOUS
<1>1. PICK i \in 1 .. Len(r.choices) : /\ i <= Len(q)
                                       /\ \A j \in 1 .. (i - 1) : r.choices[j] = q[j]
                                       /\ r.choices[i] < q[i]
  BY DEF Before
<1>2. i \in Open(r)
  BY <1>1, PartsAtOpen
<1> QED
  BY <1>2 DEF Repeats

\* ... and otherwise it leaves nothing out that is to come.
LEMMA RepeatFollows ==
    ASSUME NEW t, NEW r, Follows(t, r), r.cur = Len(r.choices), Repeats(r)
    PROVE  /\ Follows(t, Repeat(r)) /\ Repeat(r).cur = 0
           /\ \A q \in DOMAIN t : Before(r.choices, q) <=> ToCome(Repeat(r), q)
<1>t. \A p \in DOMAIN t :
        /\ p \in Seq(Nat)
        /\ t[p] \in Nat
        /\ \A c \in 0 .. (t[p] - 1) : Append(p, c) \in DOMAIN t
        /\ \A i \in 1 .. Len(p) : /\ SubSeq(p, 1, i - 1) \in DOMAIN t
                                  /\ p[i] < t[SubSeq(p, 1, i - 1)]
  BY TreeFacts DEF Follows
<1> DEFINE ch == r.choices
           ce == r.ceils
           r2 == Repeat(r)
           z == r2.choices
<1>2. /\ ch \in Seq(Nat) /\ ce \in Seq(Nat) /\ Len(ce) = Len(ch) /\ r.cur = Len(ch)
      /\ ch \in DOMAIN t
      /\ \A i \in 1 .. Len(ch) : ce[i] = t[SubSeq(ch, 1, i - 1)]
  BY DEF Follows
<1>3. PICK last \in Open(r) :
        /\ \A j \in Open(r) : j <= last
        /\ r2 \in [choices : Seq(Nat), ceils : Seq(Nat), cur : Nat]
        /\ Len(r2.choices) = last
        /\ Len(r2.ceils) = last
        /\ r2.cur = 0
        /\ \A i \in 1 .. last : /\ r2.ceils[i] = ce[i]
                                /\ i # last => r2.choices[i] = ch[i]
        /\ r2.choices[last] = ch[last] + 1
  BY RepeatFacts DEF Follows
<1> HIDE DEF r2
<1>o. \A i : i \in Open(r) <=> i \in 1 .. Len(ch) /\ ch[i] + 1 < ce[i]
  BY <1>2 DEF Open
<1>a. z \in Seq(Nat) /\ Len(ch) \in Nat
  BY <1>2, <1>3
<1>b. \A i \in 1 .. Len(ch) : ch[i] \in Nat /\ ce[i] \in Nat
  BY <1>2, SMTT(30)
<1>4. /\ last \in 1 .. Len(ch) /\ ch[last] + 1 < ce[last] /\ z \in Seq(Nat)
      /\ \A i \in 1 .. Len(ch) : ch[i] \in Nat /\ ce[i] \in Nat
  <2>1. last \in 1 .. Len(ch) /\ ch[last] + 1 < ce[last]
    BY <1>o
  <2> QED
    BY <1>a, <1>b, <2>1
<1>5. \A i \in 1 .. last : SubSeq(z, 1, i - 1) = SubSeq(ch, 1, i - 1)
  <2> SUFFICES ASSUME NEW i \in 1 .. last
               PROVE  SubSeq(z, 1, i - 1) = SubSeq(ch, 1, i - 1)
    OBVIOUS
  <2>1. \A j \in 1 .. (i - 1) : z[j] = ch[j]
    BY <1>2, <1>3, <1>4
  <2> QED
    BY <1>2, <1>3, <1>4, <2>1, SamePrefix
<1>6. z \in DOMAIN t
  <2> DEFINE p == SubSeq(ch, 1, last - 1)
  <2>1. p \in DOMAIN t /\ ce[last] = t[p] /\ p \in Seq(Nat) /\ Len(p) = last - 1
    <3>1. p \in DOMAIN t
      BY <1>2, <1>4, <1>t
    <3>2. ce[last] = t[p]
      BY <1>2, <1>4
    <3>3. p \in Seq(Nat) /\ Len(p) = last - 1
      BY <1>2, <1>4, SMTT(30)
    <3> QED
      BY <3>1, <3>2, <3>3
  <2>2. ch[last] + 1 \in 0 .. (t[p] - 1)
    BY <1>4, <2>1, SMTT(30)
  <2>3. Append(p, ch[last] + 1) \in DOMAIN t
    BY <1>t, <2>1, <2>2
  <2>4. z = Append(p, ch[last] + 1)
    <3> DEFINE w == Append(p, ch[last] + 1)
    <3>1. w \in Seq(Nat) /\ Len(w) = last /\ w[last] = ch[last] + 1
      BY <1>4, <2>1
    <3>2. \A i \in 1 .. (last - 1) : w[i] = ch[i]
      BY <1>2, <1>4
    <3>3. ASSUME NEW i \in 1 .. last PROVE z[i] = w[i]
      <4>1. CASE i = last
        BY <1>3, <3>1, <4>1
      <4>2. CASE i # last
        <5>1. i \in 1 .. (last - 1)
          BY <1>4, <4>2
        <5> QED
          BY <1>3, <3>2, <4>2, <5>1
      <4> QED
        BY <4>1, <4>2
    <3> QED
      BY <1>3, <1>4, <3>1, <3>3, SameSeq, SMTT(30)
  <2> QED
    BY <2>3, <2>4
<1>8. Follows(t, r2)
  <2>1. \A i \in 1 .. Len(z) : r2.ceils[i] = t[SubSeq(z, 1, i - 1)]
    <3> SUFFICES ASSUME NEW i \in 1 .. Len(z)
                 PROVE  r2.ceils[i] = t[SubSeq(z, 1, i - 1)]
      OBVIOUS
    <3>1. i \in 1 .. last /\ i \in 1 .. Len(ch)
      BY <1>3, <1>4, <1>a
    <3>2. r2.ceils[i] = ce[i] /\ ce[i] = t[SubSeq(ch, 1, i - 1)]
      BY <1>2, <1>3, <3>1
    <3> QED
      BY <1>5, <3>1, <3>2
  <2>2. 0 <= Len(z)
    BY <1>a
  <2> QED
    BY <1>3, <1>6, <2>1, <2>2 DEF Follows
<1>9. ASSUME NEW q \in DOMAIN t PROVE Before(ch, q) <=> ToCome(r2, q)
  <2>1. q \in Seq(Nat)
    BY <1>t
  <2>2. \A i \in 1 .. Len(ch) : (i <= Len(q) /\ (\A j \in 1 .. (i - 1) : ch[j] = q[j]) /\ ch[i] < q[i]) => i <= last
    BY <1>2, <1>3, PartsAtOpen
  <2>3. \A i \in 1 .. last : i # last => z[i] = ch[i]
    BY <1>3
  <2>4. z[last] = ch[last] + 1 /\ Len(z) = last
    BY <1>3
  <2> HIDE DEF ch, z
  <2>5. ch \in Seq(Nat) /\ z \in Seq(Nat) /\ last \in 1 .. Len(ch)
    BY <1>2, <1>4
  <2>6. Before(ch, q) <=> Before(z, q) \/ Extends(z, q)
    BY <2>1, <2>2, <2>3, <2>4, <2>5, Increment, ZenonT(30)
  <2> QED
    BY <2>6 DEF ToCome, z
<1> QED
  BY <1>3, <1>8, <1>9 DEF r2
=============================================================================
