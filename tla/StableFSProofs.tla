--------------------------- MODULE StableFSProofs ---------------------------
(***************************************************************************)
(* The oracle of the file system driver, for logs of any length, any       *)
(* number of files, directories and writes, and any limit MAX_SET.         *)
(***************************************************************************)
EXTENDS StableFS, SequenceTheorems, FiniteSetTheorems, WellFoundedInduction, TLAPS

\* Induction over numbers, for a set of them.
LEMMA Induction ==
    ASSUME NEW S, 0 \in S, \A n \in Nat : n \in S => n + 1 \in S
    PROVE  \A n \in Nat : n \in S
<1> DEFINE T == Nat \ S
<1>1. SUFFICES ASSUME T # {} PROVE FALSE
  OBVIOUS
<1>2. T \subseteq Nat
  OBVIOUS
<1>3. PICK x \in T : \A y \in T : ~(<<y, x>> \in OpToRel(<, Nat))
  BY <1>1, <1>2, NatLessThanWellFounded, WFMin
<1>4. \A y \in T : ~(y < x)
  BY <1>2, <1>3 DEF OpToRel
<1>5. x \in Nat /\ x \notin S /\ x # 0
  BY <1>3
<1>6. x - 1 \in Nat /\ x - 1 < x /\ (x - 1) + 1 = x
  BY <1>5
<1>7. x - 1 \notin T
  BY <1>4, <1>6
<1>8. x - 1 \in S
  BY <1>6, <1>7
<1> QED
  BY <1>5, <1>6, <1>8

-----------------------------------------------------------------------------
(* The list of calls                                                         *)

Delta == [type : {"none"}, target : {-1}]
         \cup [type : {"add"}, target : Nat, kind : {"file", "dir"}]
         \cup [type : {"truncate"}, target : Nat, length : Nat]
         \cup [type : {"pwrite"}, target : Nat, w : Writes]
         \cup [type : EntryTypes, target : Nat, name : Nat, child : Nat]

Call == [op : {"open", "mkdir", "unlink", "rmdir", "link", "rename", "ftruncate", "pwrite64"},
         deltas : Delta \X Delta]

\* What is known of a delta without looking at its type.
LEMMA DeltaFacts ==
    /\ Invalid \in Delta
    /\ \A d \in Delta : /\ d.type \in {"none"} \cup MetaTypes \cup DataTypes
                        /\ d.target \in Nat \cup {-1}
                        /\ d = Invalid <=> d.type = "none"
                        /\ d = Invalid <=> d.target = -1
BY DEF Delta, Invalid, MetaTypes, EntryTypes, DataTypes

\* A call has a delta, and two are of different types and, unless it renames,
\* of different objects.
Proper(c) ==
    /\ c.deltas[1] # Invalid \/ c.deltas[2] # Invalid
    /\ c.deltas[1] # Invalid /\ c.deltas[2] # Invalid =>
         /\ c.deltas[1].type # c.deltas[2].type
         /\ c.op \in {"open", "mkdir", "rename"}
         /\ c.op # "rename" => c.deltas[1].target # c.deltas[2].target

\* The call without the deltas for an object.
Left(id, c) == [c EXCEPT !.deltas = [k \in 1 .. 2 |-> Without(id, @[k])]]

\* What an fsync of an object leaves of a call.
LEMMA LeftFacts ==
    ASSUME NEW c \in Call, NEW id
    PROVE  /\ Left(id, c) \in Call /\ Left(id, c).op = c.op
           /\ \A k \in 1 .. 2 : Left(id, c).deltas[k] = Without(id, c.deltas[k])
           /\ Left(id, c).deltas = <<Invalid, Invalid>> <=>
                Left(id, c).deltas[1] = Invalid /\ Left(id, c).deltas[2] = Invalid
<1>1. c.deltas \in Delta \X Delta /\ c.deltas[1] \in Delta /\ c.deltas[2] \in Delta
  BY DEF Call
<1> DEFINE d == [k \in 1 .. 2 |-> Without(id, c.deltas[k])]
<1>2. d[1] \in Delta /\ d[2] \in Delta /\ d = <<d[1], d[2]>>
  <2>1. Without(id, c.deltas[1]) \in Delta /\ Without(id, c.deltas[2]) \in Delta
    BY <1>1, DeltaFacts DEF Without
  <2> QED
    BY <2>1
<1>3. Left(id, c) = [c EXCEPT !.deltas = d]
  BY DEF Left
<1> HIDE DEF d
<1>4. Left(id, c).deltas = d /\ Left(id, c).op = c.op /\ Left(id, c) \in Call
  BY <1>2, <1>3 DEF Call
<1>5. d = <<Invalid, Invalid>> <=> d[1] = Invalid /\ d[2] = Invalid
  BY <1>2
<1> QED
  BY <1>4, <1>5 DEF d

\* What is left of a proper call is proper, unless nothing is left.
LEMMA LeftIsProper ==
    ASSUME NEW c \in Call, NEW id, Proper(c), Left(id, c).deltas # <<Invalid, Invalid>>
    PROVE  Proper(Left(id, c))
<1> DEFINE g == Left(id, c)
<1>1. /\ g \in Call /\ g.op = c.op
      /\ g.deltas[1] = Without(id, c.deltas[1]) /\ g.deltas[2] = Without(id, c.deltas[2])
      /\ ~(g.deltas[1] = Invalid /\ g.deltas[2] = Invalid)
  BY LeftFacts
<1> HIDE DEF g
<1>2. Proper(g)
  BY <1>1 DEF Proper, Without
<1> QED
  BY <1>2 DEF g

-----------------------------------------------------------------------------
(* Deltas and Flushed, one call at a time                                    *)

\* The deltas of the first i calls.
DeltasUpto(cs, types) ==
    CHOOSE f : f = [i \in 0 .. Len(cs) |->
                      IF i = 0 THEN << >>
                      ELSE f[i - 1] \o Kept(cs[i].deltas[1], types) \o Kept(cs[i].deltas[2], types)]

\* One more call adds its deltas behind those of the others.
LEMMA DeltasStep ==
    ASSUME NEW cs, NEW types, Len(cs) \in Nat
    PROVE  DeltasUpto(cs, types) =
             [i \in 0 .. Len(cs) |->
                IF i = 0 THEN << >>
                ELSE DeltasUpto(cs, types)[i - 1]
                       \o Kept(cs[i].deltas[1], types) \o Kept(cs[i].deltas[2], types)]
<1> DEFINE Op(a, i) == a \o Kept(cs[i].deltas[1], types) \o Kept(cs[i].deltas[2], types)
           Rec(f, n) == f = [i \in 0 .. n |-> IF i = 0 THEN << >> ELSE Op(f[i - 1], i)]
           S == {n \in Nat : \E f : Rec(f, n)}
<1> HIDE DEF Op
<1>1. 0 \in S
  <2> DEFINE f == [i \in 0 .. 0 |-> << >>]
  <2>1. Rec(f, 0)
    OBVIOUS
  <2> QED
    BY <2>1
<1>2. ASSUME NEW n \in Nat, n \in S PROVE n + 1 \in S
  <2>1. PICK f : Rec(f, n)
    BY <1>2
  <2> DEFINE g == [i \in 0 .. (n + 1) |-> IF i = n + 1 THEN Op(f[n], n + 1) ELSE f[i]]
             h == [i \in 0 .. (n + 1) |-> IF i = 0 THEN << >> ELSE Op(g[i - 1], i)]
  <2>2. ASSUME NEW i \in 0 .. (n + 1) PROVE g[i] = h[i]
    <3>1. CASE i = n + 1
      <4>1. g[i - 1] = f[n]
        BY <3>1
      <4> QED
        BY <3>1, <4>1
    <3>2. CASE i = 0
      <4>1. g[i] = f[0]
        BY <3>2
      <4>2. f[0] = << >>
        BY <2>1
      <4> QED
        BY <3>2, <4>1, <4>2
    <3>3. CASE i # 0 /\ i # n + 1
      <4>1. i \in 0 .. n /\ i - 1 \in 0 .. (n + 1) /\ i - 1 # n + 1
        BY <3>3
      <4>2. g[i] = f[i] /\ g[i - 1] = f[i - 1]
        BY <3>3, <4>1
      <4>3. f[i] = Op(f[i - 1], i)
        BY <2>1, <3>3, <4>1
      <4> QED
        BY <3>3, <4>2, <4>3
    <3> QED
      BY <3>1, <3>2, <3>3
  <2>3. g = h
    BY <2>2
  <2>4. Rec(g, n + 1)
    BY <2>3
  <2> HIDE DEF g, Rec
  <2>5. \E e : Rec(e, n + 1)
    BY <2>4
  <2>6. n + 1 \in Nat
    OBVIOUS
  <2> QED
    BY <2>5, <2>6, Zenon
<1> HIDE DEF S
<1>3. Len(cs) \in S
  BY <1>1, <1>2, Induction
<1>4. \E f : Rec(f, Len(cs))
  BY <1>3 DEF S
<1>5. DeltasUpto(cs, types) = CHOOSE f : Rec(f, Len(cs))
  BY DEF DeltasUpto, Op
<1>6. Rec(DeltasUpto(cs, types), Len(cs))
  BY <1>4, <1>5
<1> QED
  BY <1>6 DEF Op

\* The list of deltas is what the last of them leads to.
LEMMA DeltasFacts ==
    ASSUME NEW cs \in Seq(Call), NEW types
    PROVE  /\ Deltas(cs, types) = DeltasUpto(cs, types)[Len(cs)]
           /\ DeltasUpto(cs, types)[0] = << >>
           /\ \A i \in 1 .. Len(cs) :
                DeltasUpto(cs, types)[i] = DeltasUpto(cs, types)[i - 1]
                    \o Kept(cs[i].deltas[1], types) \o Kept(cs[i].deltas[2], types)
           /\ \A i \in 0 .. Len(cs) : DeltasUpto(cs, types)[i] \in Seq(Delta)
<1> DEFINE f == DeltasUpto(cs, types)
           one(i) == Kept(cs[i].deltas[1], types)
           two(i) == Kept(cs[i].deltas[2], types)
<1>0. Len(cs) \in Nat
  OBVIOUS
<1>1. f = [i \in 0 .. Len(cs) |-> IF i = 0 THEN << >> ELSE f[i - 1] \o one(i) \o two(i)]
  BY <1>0, DeltasStep
<1>2. Deltas(cs, types) = f[Len(cs)]
  BY DEF Deltas, DeltasUpto
<1> HIDE DEF f
<1>3. f[0] = << >>
  BY <1>0, <1>1
<1>4. ASSUME NEW i \in 1 .. Len(cs) PROVE f[i] = f[i - 1] \o one(i) \o two(i)
  <2>1. i \in 0 .. Len(cs) /\ i # 0
    BY <1>0
  <2> QED
    BY <1>1, <2>1
<1>5. ASSUME NEW i \in 1 .. Len(cs) PROVE one(i) \in Seq(Delta) /\ two(i) \in Seq(Delta)
  <2>1. cs[i] \in Call
    BY ElementOfSeq
  <2>2. cs[i].deltas[1] \in Delta /\ cs[i].deltas[2] \in Delta
    BY <2>1 DEF Call
  <2> QED
    BY <2>2 DEF Kept
<1> HIDE DEF one, two
<1> DEFINE S == {n \in Nat : n <= Len(cs) => f[n] \in Seq(Delta)}
<1>6. 0 \in S
  <2>1. << >> \in Seq(Delta)
    OBVIOUS
  <2> QED
    BY <1>3, <2>1
<1>7. ASSUME NEW n \in Nat, n \in S PROVE n + 1 \in S
  <2>1. SUFFICES ASSUME n + 1 <= Len(cs) PROVE f[n + 1] \in Seq(Delta)
    OBVIOUS
  <2>2. n + 1 \in 1 .. Len(cs) /\ (n + 1) - 1 = n /\ n <= Len(cs)
    BY <1>0, <2>1
  <2>3. f[n] \in Seq(Delta) /\ one(n + 1) \in Seq(Delta) /\ two(n + 1) \in Seq(Delta)
    BY <1>5, <1>7, <2>2
  <2>4. f[n + 1] = f[n] \o one(n + 1) \o two(n + 1)
    BY <1>4, <2>2
  <2> QED
    BY <2>3, <2>4, ConcatProperties
<1> HIDE DEF S
<1>8. \A n \in Nat : n \in S
  BY <1>6, <1>7, Induction
<1>9. ASSUME NEW i \in 0 .. Len(cs) PROVE f[i] \in Seq(Delta)
  <2>1. i \in Nat /\ i <= Len(cs)
    BY <1>0
  <2> QED
    BY <1>8, <2>1 DEF S
<1> QED
  BY <1>2, <1>3, <1>4, <1>9 DEF f, one, two

\* A call that is appended appends its deltas.
LEMMA DeltasAppend ==
    ASSUME NEW cs \in Seq(Call), NEW c \in Call, NEW types
    PROVE  /\ Deltas(Append(cs, c), types)
                = Deltas(cs, types) \o Kept(c.deltas[1], types) \o Kept(c.deltas[2], types)
           /\ Deltas(cs, types) \in Seq(Delta)
<1> DEFINE b == Append(cs, c)
           f == DeltasUpto(cs, types)
           g == DeltasUpto(b, types)
           N == Len(cs)
<1>1. /\ b \in Seq(Call) /\ Len(b) = N + 1 /\ b[N + 1] = c /\ N \in Nat
      /\ \A i \in 1 .. N : b[i] = cs[i]
  BY AppendProperties, LenProperties
<1>2. /\ Deltas(cs, types) = f[N] /\ f[0] = << >>
      /\ \A i \in 1 .. N : f[i] = f[i - 1] \o Kept(cs[i].deltas[1], types) \o Kept(cs[i].deltas[2], types)
      /\ \A i \in 0 .. N : f[i] \in Seq(Delta)
  BY DeltasFacts
<1>3. /\ Deltas(b, types) = g[Len(b)] /\ g[0] = << >>
      /\ \A i \in 1 .. Len(b) : g[i] = g[i - 1] \o Kept(b[i].deltas[1], types) \o Kept(b[i].deltas[2], types)
  BY <1>1, DeltasFacts
<1> HIDE DEF b, f, g, N
<1> DEFINE S == {n \in Nat : n <= N => g[n] = f[n]}
<1>4. 0 \in S
  BY <1>2, <1>3
<1>5. ASSUME NEW n \in Nat, n \in S PROVE n + 1 \in S
  <2>1. SUFFICES ASSUME n + 1 <= N PROVE g[n + 1] = f[n + 1]
    OBVIOUS
  <2>2. n + 1 \in 1 .. N /\ n + 1 \in 1 .. Len(b) /\ (n + 1) - 1 = n /\ n <= N
    BY <1>1, <2>1
  <2>3. g[n] = f[n] /\ b[n + 1] = cs[n + 1]
    BY <1>1, <1>5, <2>2
  <2>4. f[n + 1] = f[n] \o Kept(cs[n + 1].deltas[1], types) \o Kept(cs[n + 1].deltas[2], types)
    BY <1>2, <2>2
  <2>5. g[n + 1] = g[n] \o Kept(b[n + 1].deltas[1], types) \o Kept(b[n + 1].deltas[2], types)
    BY <1>3, <2>2
  <2> QED
    BY <2>3, <2>4, <2>5
<1> HIDE DEF S
<1>6. N \in S
  BY <1>1, <1>4, <1>5, Induction
<1>7. g[N] = f[N]
  BY <1>1, <1>6 DEF S
<1>8. N + 1 \in 1 .. Len(b) /\ (N + 1) - 1 = N /\ N \in 0 .. N
  BY <1>1
<1>9. g[N + 1] = g[N] \o Kept(c.deltas[1], types) \o Kept(c.deltas[2], types)
  BY <1>1, <1>3, <1>8
<1>10. Deltas(b, types) = Deltas(cs, types) \o Kept(c.deltas[1], types) \o Kept(c.deltas[2], types)
  BY <1>1, <1>2, <1>3, <1>7, <1>9
<1> QED
  BY <1>2, <1>8, <1>10 DEF b

\* What an fsync leaves of the first i calls.
FlushedOne(cs, c, id) ==
    IF Left(id, c).deltas = <<Invalid, Invalid>> THEN cs ELSE Append(cs, Left(id, c))
FlushedUpto(cs, id) ==
    CHOOSE f : f = [i \in 0 .. Len(cs) |->
                      IF i = 0 THEN << >> ELSE FlushedOne(f[i - 1], cs[i], id)]

\* One more call is left out, or adds what is left of it.
LEMMA FlushedStep ==
    ASSUME NEW cs, NEW id, Len(cs) \in Nat
    PROVE  FlushedUpto(cs, id) =
             [i \in 0 .. Len(cs) |->
                IF i = 0 THEN << >> ELSE FlushedOne(FlushedUpto(cs, id)[i - 1], cs[i], id)]
<1> DEFINE Op(a, i) == FlushedOne(a, cs[i], id)
           Rec(f, n) == f = [i \in 0 .. n |-> IF i = 0 THEN << >> ELSE Op(f[i - 1], i)]
           S == {n \in Nat : \E f : Rec(f, n)}
<1> HIDE DEF Op
<1>1. 0 \in S
  <2> DEFINE f == [i \in 0 .. 0 |-> << >>]
  <2>1. Rec(f, 0)
    OBVIOUS
  <2> QED
    BY <2>1
<1>2. ASSUME NEW n \in Nat, n \in S PROVE n + 1 \in S
  <2>1. PICK f : Rec(f, n)
    BY <1>2
  <2> DEFINE g == [i \in 0 .. (n + 1) |-> IF i = n + 1 THEN Op(f[n], n + 1) ELSE f[i]]
             h == [i \in 0 .. (n + 1) |-> IF i = 0 THEN << >> ELSE Op(g[i - 1], i)]
  <2>2. ASSUME NEW i \in 0 .. (n + 1) PROVE g[i] = h[i]
    <3>1. CASE i = n + 1
      <4>1. g[i - 1] = f[n]
        BY <3>1
      <4> QED
        BY <3>1, <4>1
    <3>2. CASE i = 0
      <4>1. g[i] = f[0]
        BY <3>2
      <4>2. f[0] = << >>
        BY <2>1
      <4> QED
        BY <3>2, <4>1, <4>2
    <3>3. CASE i # 0 /\ i # n + 1
      <4>1. i \in 0 .. n /\ i - 1 \in 0 .. (n + 1) /\ i - 1 # n + 1
        BY <3>3
      <4>2. g[i] = f[i] /\ g[i - 1] = f[i - 1]
        BY <3>3, <4>1
      <4>3. f[i] = Op(f[i - 1], i)
        BY <2>1, <3>3, <4>1
      <4> QED
        BY <3>3, <4>2, <4>3
    <3> QED
      BY <3>1, <3>2, <3>3
  <2>3. g = h
    BY <2>2
  <2>4. Rec(g, n + 1)
    BY <2>3
  <2> HIDE DEF g, Rec
  <2>5. \E e : Rec(e, n + 1)
    BY <2>4
  <2>6. n + 1 \in Nat
    OBVIOUS
  <2> QED
    BY <2>5, <2>6, Zenon
<1> HIDE DEF S
<1>3. Len(cs) \in S
  BY <1>1, <1>2, Induction
<1>4. \E f : Rec(f, Len(cs))
  BY <1>3 DEF S
<1>5. FlushedUpto(cs, id) = CHOOSE f : Rec(f, Len(cs))
  BY DEF FlushedUpto, Op
<1>6. Rec(FlushedUpto(cs, id), Len(cs))
  BY <1>4, <1>5
<1> QED
  BY <1>6 DEF Op

\* The flushed list is what the last call leads to.
LEMMA FlushedFacts ==
    ASSUME NEW cs \in Seq(Call), NEW id
    PROVE  /\ Flushed(cs, id) = FlushedUpto(cs, id)[Len(cs)]
           /\ FlushedUpto(cs, id)[0] = << >>
           /\ \A i \in 1 .. Len(cs) :
                FlushedUpto(cs, id)[i] = FlushedOne(FlushedUpto(cs, id)[i - 1], cs[i], id)
<1>0. Len(cs) \in Nat
  OBVIOUS
<1>1. FlushedUpto(cs, id) =
        [i \in 0 .. Len(cs) |->
           IF i = 0 THEN << >> ELSE FlushedOne(FlushedUpto(cs, id)[i - 1], cs[i], id)]
  BY <1>0, FlushedStep
<1>2. Flushed(cs, id) = FlushedUpto(cs, id)[Len(cs)]
  BY DEF Flushed, FlushedUpto, FlushedOne, Left
<1>3. FlushedUpto(cs, id)[0] = << >>
  BY <1>0, <1>1
<1>4. ASSUME NEW i \in 1 .. Len(cs)
      PROVE  FlushedUpto(cs, id)[i] = FlushedOne(FlushedUpto(cs, id)[i - 1], cs[i], id)
  <2>1. i \in 0 .. Len(cs) /\ i # 0
    BY <1>0
  <2> QED
    BY <1>1, <2>1
<1> QED
  BY <1>2, <1>3, <1>4

\* A delta that is kept counts once.
LEMMA KeptLen ==
    ASSUME NEW d \in Delta, NEW types
    PROVE  /\ Kept(d, types) \in Seq(Delta) /\ Len(Kept(d, types)) \in 0 .. 1
           /\ d.type \notin types => Kept(d, types) = << >>
           /\ d.type \in types => Kept(d, types) = <<d>>
BY DEF Kept

\* The number of deltas a call adds.
LEMMA AppendLen ==
    ASSUME NEW cs \in Seq(Call), NEW c \in Call, NEW types
    PROVE  /\ Len(Deltas(cs, types)) \in Nat
           /\ Len(Deltas(Append(cs, c), types))
                = Len(Deltas(cs, types)) + Len(Kept(c.deltas[1], types)) + Len(Kept(c.deltas[2], types))
<1>1. c.deltas[1] \in Delta /\ c.deltas[2] \in Delta
  BY DEF Call
<1>2. Kept(c.deltas[1], types) \in Seq(Delta) /\ Kept(c.deltas[2], types) \in Seq(Delta)
  BY <1>1, KeptLen
<1>3. /\ Deltas(Append(cs, c), types)
           = Deltas(cs, types) \o Kept(c.deltas[1], types) \o Kept(c.deltas[2], types)
      /\ Deltas(cs, types) \in Seq(Delta)
  BY DeltasAppend
<1> QED
  BY <1>2, <1>3, ConcatProperties, LenProperties

\* No call has no delta.
LEMMA NoDeltas == ASSUME NEW types PROVE Deltas(<< >>, types) = << >>
<1>1. << >> \in Seq(Call) /\ Len(<< >>) = 0
  OBVIOUS
<1> QED
  BY <1>1, DeltasFacts

\* What an fsync leaves are proper calls, with deltas that were there and are
\* not of the object, and not more of any type.
LEMMA FlushedKeeps ==
    ASSUME NEW cs \in Seq(Call), NEW id, NEW types, "none" \notin types,
           \A i \in 1 .. Len(cs) : Proper(cs[i])
    PROVE  /\ Flushed(cs, id) \in Seq(Call)
           /\ \A i \in 1 .. Len(Flushed(cs, id)) : Proper(Flushed(cs, id)[i])
           /\ \A d \in Pending(Flushed(cs, id)) :
                d = Invalid \/ (d \in Pending(cs) /\ d.target # id)
           /\ Len(Deltas(Flushed(cs, id), types)) <= Len(Deltas(cs, types))
<1> DEFINE f == FlushedUpto(cs, id)
           u == DeltasUpto(cs, types)
           Good(i) == /\ f[i] \in Seq(Call)
                      /\ \A j \in 1 .. Len(f[i]) : Proper(f[i][j])
                      /\ \A d \in Pending(f[i]) : d = Invalid \/ (d \in Pending(cs) /\ d.target # id)
                      /\ Len(Deltas(f[i], types)) <= Len(u[i])
           S == {n \in Nat : n <= Len(cs) => Good(n)}
<1>0. Len(cs) \in Nat
  OBVIOUS
<1>1. /\ Flushed(cs, id) = f[Len(cs)] /\ f[0] = << >>
      /\ \A i \in 1 .. Len(cs) : f[i] = FlushedOne(f[i - 1], cs[i], id)
  BY FlushedFacts
<1>2. /\ Deltas(cs, types) = u[Len(cs)] /\ u[0] = << >>
      /\ \A i \in 1 .. Len(cs) :
           u[i] = u[i - 1] \o Kept(cs[i].deltas[1], types) \o Kept(cs[i].deltas[2], types)
      /\ \A i \in 0 .. Len(cs) : u[i] \in Seq(Delta)
  BY DeltasFacts
<1> HIDE DEF f, u
<1>3. Good(0)
  <2>1. << >> \in Seq(Call) /\ Len(<< >>) = 0 /\ Pending(<< >>) = {}
    BY DEF Pending
  <2>2. Len(Deltas(f[0], types)) <= Len(u[0])
    BY <1>1, <1>2, NoDeltas
  <2> QED
    BY <1>1, <2>1, <2>2
<1>4. ASSUME NEW n \in Nat, n + 1 <= Len(cs), Good(n) PROVE Good(n + 1)
  <2> DEFINE c == cs[n + 1]
             g == Left(id, c)
             b == Append(f[n], g)
             v == u[n] \o Kept(c.deltas[1], types) \o Kept(c.deltas[2], types)
  <2>1. n + 1 \in 1 .. Len(cs) /\ (n + 1) - 1 = n /\ n \in 0 .. Len(cs)
    BY <1>0, <1>4
  <2>2. c \in Call /\ Proper(c) /\ c.deltas[1] \in Pending(cs) /\ c.deltas[2] \in Pending(cs)
    <3>1. c \in Call /\ Proper(c)
      BY <2>1, ElementOfSeq
    <3>2. n + 1 \in DOMAIN cs /\ 1 \in 1 .. 2 /\ 2 \in 1 .. 2
      BY <2>1
    <3> QED
      BY <3>1, <3>2 DEF Pending
  <2>3. f[n + 1] = FlushedOne(f[n], c, id) /\ u[n + 1] = v
    BY <1>1, <1>2, <2>1
  <2>4. /\ g \in Call /\ g.deltas[1] = Without(id, c.deltas[1]) /\ g.deltas[2] = Without(id, c.deltas[2])
        /\ c.deltas[1] \in Delta /\ c.deltas[2] \in Delta
        /\ g.deltas[1] \in Delta /\ g.deltas[2] \in Delta
    BY <2>2, LeftFacts DEF Call
  <2>5. /\ u[n] \in Seq(Delta)
        /\ Len(v) = Len(u[n]) + Len(Kept(c.deltas[1], types)) + Len(Kept(c.deltas[2], types))
        /\ Len(u[n]) \in Nat
        /\ Len(Kept(c.deltas[1], types)) \in 0 .. 1 /\ Len(Kept(c.deltas[2], types)) \in 0 .. 1
    <3>1. u[n] \in Seq(Delta)
      BY <1>2, <2>1
    <3>2. /\ Kept(c.deltas[1], types) \in Seq(Delta) /\ Kept(c.deltas[2], types) \in Seq(Delta)
          /\ Len(Kept(c.deltas[1], types)) \in 0 .. 1 /\ Len(Kept(c.deltas[2], types)) \in 0 .. 1
      BY <2>4, KeptLen
    <3> HIDE DEF c
    <3> QED
      BY <3>1, <3>2, ConcatProperties, LenProperties
  <2>a. PICK p \in 0 .. 1, q \in 0 .. 1 :
          /\ Len(u[n + 1]) = Len(u[n]) + p + q
          /\ p = Len(Kept(c.deltas[1], types)) /\ q = Len(Kept(c.deltas[2], types))
    BY <2>3, <2>5, Zenon
  <2>b. Len(u[n]) \in Nat /\ Len(u[n + 1]) \in Nat /\ Len(u[n]) <= Len(u[n + 1])
    <3>1. Len(u[n]) \in Nat
      BY <2>5
    <3>2. Len(u[n + 1]) = Len(u[n]) + p + q
      BY <2>a
    <3> HIDE DEF v, c
    <3> QED
      BY <3>1, <3>2
  <2>6. CASE g.deltas = <<Invalid, Invalid>>
    <3>1. f[n + 1] = f[n]
      BY <2>3, <2>6 DEF FlushedOne
    <3>3. Len(Deltas(f[n], types)) \in Nat
      BY <1>4, <2>4, AppendLen
    <3>4. Len(Deltas(f[n + 1], types)) <= Len(u[n + 1])
      <4>2. Len(Deltas(f[n], types)) <= Len(u[n])
        BY <1>4
      <4> QED
        BY <2>b, <3>1, <3>3, <4>2
    <3> QED
      BY <1>4, <3>1, <3>4
  <2>7. CASE g.deltas # <<Invalid, Invalid>>
    <3>1. f[n + 1] = b /\ Proper(g)
      BY <2>2, <2>3, <2>7, LeftIsProper DEF FlushedOne
    <3>2. /\ b \in Seq(Call) /\ Len(b) = Len(f[n]) + 1 /\ b[Len(f[n]) + 1] = g
          /\ Len(f[n]) \in Nat /\ \A j \in 1 .. Len(f[n]) : b[j] = f[n][j]
      BY <1>4, <2>4, AppendProperties, LenProperties
    <3> HIDE DEF b
    <3>3. ASSUME NEW j \in 1 .. Len(b) PROVE Proper(b[j])
      <4>1. j = Len(f[n]) + 1 \/ j \in 1 .. Len(f[n])
        BY <3>2
      <4> QED
        BY <1>4, <3>1, <3>2, <4>1
    <3>4. ASSUME NEW d \in Pending(b) PROVE d = Invalid \/ (d \in Pending(cs) /\ d.target # id)
      <4>1. PICK j \in DOMAIN b, k \in 1 .. 2 : d = b[j].deltas[k]
        BY <3>4 DEF Pending
      <4>2. j \in 1 .. Len(b)
        BY <3>2, <4>1
      <4>3. CASE j = Len(f[n]) + 1
        <5>1. d = Without(id, c.deltas[k])
          BY <2>4, <3>2, <4>1, <4>3
        <5> QED
          BY <2>2, <4>1, <5>1 DEF Without
      <4>4. CASE j # Len(f[n]) + 1
        <5>1. j \in 1 .. Len(f[n])
          BY <3>2, <4>2, <4>4
        <5>2. j \in DOMAIN f[n] /\ d = f[n][j].deltas[k]
          BY <1>4, <3>2, <4>1, <5>1
        <5>3. d \in Pending(f[n])
          BY <4>1, <5>2 DEF Pending
        <5> QED
          BY <1>4, <5>3
      <4> QED
        BY <4>3, <4>4
    <3>5. Len(Deltas(b, types)) <= Len(u[n + 1])
      <4>1. /\ Len(Deltas(f[n], types)) \in Nat
            /\ Len(Deltas(b, types)) = Len(Deltas(f[n], types))
                 + Len(Kept(g.deltas[1], types)) + Len(Kept(g.deltas[2], types))
        BY <1>4, <2>4, AppendLen DEF b
      <4>2. ASSUME NEW d \in Delta
            PROVE  /\ Len(Kept(Without(id, d), types)) \in 0 .. 1
                   /\ Len(Kept(Without(id, d), types)) <= Len(Kept(d, types))
        <5>1. Invalid \in Delta /\ Invalid.type = "none" /\ Len(<< >>) = 0
          BY DeltaFacts DEF Invalid
        <5>2. Kept(Invalid, types) = << >>
          BY <5>1, KeptLen
        <5>3. Len(Kept(d, types)) \in 0 .. 1
          BY KeptLen
        <5> QED
          BY <5>1, <5>2, <5>3 DEF Without
      <4>3. /\ Len(Kept(g.deltas[1], types)) \in 0 .. 1 /\ Len(Kept(g.deltas[2], types)) \in 0 .. 1
            /\ Len(Kept(g.deltas[1], types)) <= Len(Kept(c.deltas[1], types))
            /\ Len(Kept(g.deltas[2], types)) <= Len(Kept(c.deltas[2], types))
        BY <2>4, <4>2
      <4>4. Len(Deltas(f[n], types)) <= Len(u[n])
        BY <1>4
      <4> HIDE DEF v, c, g
      <4>5. PICK x \in 0 .. 1, y \in 0 .. 1 :
              x <= p /\ y <= q /\ Len(Deltas(b, types)) = Len(Deltas(f[n], types)) + x + y
        BY <2>a, <4>1, <4>3, Zenon
      <4> QED
        <5>1. Len(u[n + 1]) = Len(u[n]) + p + q /\ Len(Deltas(f[n], types)) \in Nat
          BY <2>a, <4>1
        <5> QED
          BY <2>b, <4>4, <4>5, <5>1
    <3> QED
      BY <3>1, <3>2, <3>3, <3>4, <3>5
  <2> QED
    BY <2>6, <2>7
<1> HIDE DEF Good
<1>5. 0 \in S
  BY <1>3
<1>6. ASSUME NEW n \in Nat, n \in S PROVE n + 1 \in S
  <2>1. n + 1 <= Len(cs) => n <= Len(cs)
    BY <1>0
  <2> QED
    BY <1>4, <1>6, <2>1
<1> HIDE DEF S
<1>7. Len(cs) \in S
  BY <1>0, <1>5, <1>6, Induction
<1>8. Good(Len(cs))
  BY <1>0, <1>7 DEF S
<1> QED
  BY <1>1, <1>2, <1>8 DEF Good

-----------------------------------------------------------------------------
(* What the operations do to ids and entries                                 *)

IsFS(fs) == DOMAIN fs = {"obj", "ent", "next"}

\* link_obj adds the entry, and no object.
LEMMA LinkFacts ==
    ASSUME NEW fs, IsFS(fs), NEW d, NEW c, NEW n
    PROVE  /\ IsFS(link_obj(fs, d, c, n)) /\ link_obj(fs, d, c, n).next = fs.next
           /\ Ids(link_obj(fs, d, c, n)) = Ids(fs)
           /\ link_obj(fs, d, c, n).ent = fs.ent \cup {<<d, n, c>>}
<1> DEFINE o == IF c \in DOMAIN fs.obj THEN [fs.obj EXCEPT ![c] = Counts(fs.obj[c], fs.obj[c].ref + 1)]
                                  ELSE fs.obj
<1>1. link_obj(fs, d, c, n) = [[fs EXCEPT !.ent = fs.ent \cup {<<d, n, c>>}] EXCEPT !.obj = o]
  BY DEF link_obj, IsFS, Ids
<1>2. DOMAIN o = DOMAIN fs.obj
  OBVIOUS
<1> HIDE DEF o
<1> QED
  BY <1>1, <1>2 DEF IsFS, Ids

\* A stored object is one more, or replaces the one with that id.
LEMMA StoreFacts ==
    ASSUME NEW fs, IsFS(fs), NEW o, NEW id
    PROVE  /\ IsFS(add_new_obj(fs, o, id)) /\ add_new_obj(fs, o, id).next = fs.next
           /\ Ids(add_new_obj(fs, o, id)) = Ids(fs) \cup {id}
           /\ add_new_obj(fs, o, id).ent = fs.ent
<1> DEFINE obj == Stored(fs.obj, id, o)
<1>1. add_new_obj(fs, o, id) = [fs EXCEPT !.obj = obj]
  BY DEF add_new_obj
<1>2. DOMAIN obj = DOMAIN fs.obj \cup {id}
  BY DEF Stored
<1> HIDE DEF obj
<1> QED
  BY <1>1, <1>2 DEF IsFS, Ids

\* rm_entry only takes entries and objects away.
LEMMA DropFacts ==
    ASSUME NEW fs, IsFS(fs), NEW gone
    PROVE  /\ IsFS(Drop(fs, gone)) /\ Drop(fs, gone).next = fs.next
           /\ Ids(Drop(fs, gone)) \subseteq Ids(fs)
           /\ Drop(fs, gone).ent \subseteq fs.ent
<1> DEFINE ents == fs.ent \ gone
           obj == [c \in Ids(fs) \ Dead(fs, gone) |->
                     Counts(fs.obj[c], fs.obj[c].ref - Cardinality({e \in gone : e[3] = c}))]
<1>1. Drop(fs, gone) = [[fs EXCEPT !.ent = ents] EXCEPT !.obj = obj]
  BY DEF Drop, IsFS
<1>2. DOMAIN obj \subseteq Ids(fs) /\ ents \subseteq fs.ent
  OBVIOUS
<1> HIDE DEF obj, ents
<1> QED
  BY <1>1, <1>2 DEF IsFS, Ids

\* unlink_obj does too, twice.
LEMMA UnlinkFacts ==
    ASSUME NEW fs, IsFS(fs), NEW d, NEW n
    PROVE  /\ IsFS(unlink_obj(fs, d, n)) /\ unlink_obj(fs, d, n).next = fs.next
           /\ Ids(unlink_obj(fs, d, n)) \subseteq Ids(fs)
           /\ unlink_obj(fs, d, n).ent \subseteq fs.ent
<1> DEFINE gone == Named(fs, d, n)
           inner == {e \in fs.ent : e[1] \in Dead(fs, gone)}
           mid == Drop(fs, gone)
<1>1. /\ IsFS(mid) /\ mid.next = fs.next
      /\ Ids(mid) \subseteq Ids(fs) /\ mid.ent \subseteq fs.ent
  BY DropFacts
<1>2. unlink_obj(fs, d, n) = Drop(mid, inner)
  BY DEF unlink_obj
<1> HIDE DEF mid, inner
<1> QED
  BY <1>1, <1>2, DropFacts

\* creat and mkdir make the next object and one entry.
LEMMA MakeFacts ==
    ASSUME NEW fs, IsFS(fs), NEW type, NEW d, NEW n, fs.next \in Nat
    PROVE  /\ IsFS(Make(fs, type, d, n)) /\ Make(fs, type, d, n).next = fs.next + 1
           /\ Ids(Make(fs, type, d, n)) = Ids(fs) \cup {fs.next}
           /\ Make(fs, type, d, n).ent = fs.ent \cup {<<d, n, fs.next>>}
<1> DEFINE one == add_new_obj(fs, new_obj(type), fs.next)
           two == link_obj(one, d, fs.next, n)
<1>1. IsFS(one) /\ one.next = fs.next /\ Ids(one) = Ids(fs) \cup {fs.next} /\ one.ent = fs.ent
  BY StoreFacts
<1> HIDE DEF one
<1>2. /\ IsFS(two) /\ two.next = one.next /\ Ids(two) = Ids(one)
      /\ two.ent = one.ent \cup {<<d, n, fs.next>>}
  BY <1>1, LinkFacts
<1>3. Make(fs, type, d, n) = [two EXCEPT !.next = @ + 1]
  BY DEF Make, one
<1> HIDE DEF two
<1> QED
  BY <1>1, <1>2, <1>3 DEF IsFS, Ids

\* rename adds the new entry, and only takes others away.
LEMMA RenameFacts ==
    ASSUME NEW fs, IsFS(fs), NEW d1, NEW n1, NEW c, NEW d2, NEW n2
    PROVE  /\ IsFS(rename(fs, d1, n1, c, d2, n2)) /\ rename(fs, d1, n1, c, d2, n2).next = fs.next
           /\ Ids(rename(fs, d1, n1, c, d2, n2)) \subseteq Ids(fs)
           /\ rename(fs, d1, n1, c, d2, n2).ent \subseteq fs.ent \cup {<<d2, n2, c>>}
<1> DEFINE mid == link_obj(fs, d2, c, n2)
<1>1. /\ IsFS(mid) /\ mid.next = fs.next
      /\ Ids(mid) = Ids(fs) /\ mid.ent = fs.ent \cup {<<d2, n2, c>>}
  BY LinkFacts
<1>2. rename(fs, d1, n1, c, d2, n2) = unlink_obj(mid, d1, n1)
  BY DEF rename
<1> HIDE DEF mid
<1> QED
  BY <1>1, <1>2, UnlinkFacts

\* A write changes neither the objects nor the entries.
LEMMA DataFacts ==
    ASSUME NEW fs, IsFS(fs), NEW id, NEW data
    PROVE  /\ IsFS([fs EXCEPT !.obj[id].data = data]) /\ [fs EXCEPT !.obj[id].data = data].next = fs.next
           /\ Ids([fs EXCEPT !.obj[id].data = data]) = Ids(fs)
           /\ [fs EXCEPT !.obj[id].data = data].ent = fs.ent
<1> DEFINE o == [fs.obj EXCEPT ![id].data = data]
<1>1. [fs EXCEPT !.obj[id].data = data] = [fs EXCEPT !.obj = o]
  BY DEF IsFS
<1>2. DOMAIN o = DOMAIN fs.obj
  OBVIOUS
<1> HIDE DEF o
<1> QED
  BY <1>1, <1>2 DEF IsFS, Ids

\* A copy has the same objects and entries.
LEMMA CopyFacts ==
    ASSUME NEW fs, IsFS(fs)
    PROVE  IsFS(copy(fs)) /\ Ids(copy(fs)) = Ids(fs) /\ copy(fs).ent = fs.ent /\ copy(fs).next = fs.next
<1> DEFINE obj == [id \in Ids(fs) |-> Counts(fs.obj[id], Links(fs.ent, id))]
<1>1. copy(fs) = [fs EXCEPT !.obj = obj]
  BY DEF copy, IsFS, Ids
<1>2. DOMAIN obj = Ids(fs)
  OBVIOUS
<1> HIDE DEF obj
<1> QED
  BY <1>1, <1>2 DEF IsFS, Ids

\* A new file system has the root and no entry.
LEMMA EmptyFacts ==
    IsFS(EmptyFS) /\ Ids(EmptyFS) = {0} /\ EmptyFS.ent = {} /\ EmptyFS.next = 1
BY DEF EmptyFS, IsFS, Ids, Root

-----------------------------------------------------------------------------
(* The invariant: ids are given out once, so that what a pending call adds   *)
(* is neither stable nor what an fsync will make stable before the delta is  *)
(* gone; and the driver has counted at least the deltas that are pending.    *)

Numbered ==
    /\ IsFS(volatile) /\ IsFS(stable)
    /\ volatile.next \in Nat \ {0} /\ names \in Nat
    /\ Ids(volatile) \subseteq 0 .. (volatile.next - 1)
    /\ Ids(stable) \subseteq 0 .. (volatile.next - 1)
    /\ volatile.ent \subseteq Nat \X Nat \X (0 .. (volatile.next - 1))
    /\ ongoing.op = "fsync" => ongoing.id \in 0 .. (volatile.next - 1)

Listed ==
    /\ calls \in Seq(Call)
    /\ \A i \in 1 .. Len(calls) : Proper(calls[i])
    /\ \A d \in Pending(calls) : d.type = "add" => d.target \notin Ids(stable)

Tallied == pending \in Nat /\ pending <= MAX_SET /\ Len(Deltas(calls, MetaTypes)) <= pending

OInv == Numbered /\ Listed /\ Tallied

\* A call that is appended to a proper list.
LEMMA AppendListed ==
    ASSUME Listed, NEW c \in Call, Proper(c), calls' = Append(calls, c), stable' = stable,
           \A k \in 1 .. 2 : c.deltas[k].type = "add" => c.deltas[k].target \notin Ids(stable)
    PROVE  Listed'
<1> DEFINE b == Append(calls, c)
<1>1. /\ b \in Seq(Call) /\ Len(b) = Len(calls) + 1 /\ b[Len(calls) + 1] = c
      /\ Len(calls) \in Nat /\ \A j \in 1 .. Len(calls) : b[j] = calls[j]
  BY AppendProperties, LenProperties DEF Listed
<1> HIDE DEF b
<1>2. ASSUME NEW j \in 1 .. Len(b) PROVE Proper(b[j])
  <2>1. j = Len(calls) + 1 \/ j \in 1 .. Len(calls)
    BY <1>1
  <2> QED
    BY <1>1, <2>1 DEF Listed
<1>3. ASSUME NEW d \in Pending(b), d.type = "add" PROVE d.target \notin Ids(stable)
  <2>1. PICK j \in DOMAIN b, k \in 1 .. 2 : d = b[j].deltas[k]
    BY <1>3 DEF Pending
  <2>2. j \in 1 .. Len(b)
    BY <1>1, <2>1
  <2>3. CASE j = Len(calls) + 1
    BY <1>1, <1>3, <2>1, <2>3
  <2>4. CASE j # Len(calls) + 1
    <3>1. j \in 1 .. Len(calls) /\ j \in DOMAIN calls
      BY <1>1, <2>2, <2>4 DEF Listed
    <3>2. d \in Pending(calls)
      BY <1>1, <2>1, <3>1 DEF Pending
    <3> QED
      BY <1>3, <3>2 DEF Listed
  <2> QED
    BY <2>3, <2>4
<1>4. calls' = b /\ stable' = stable
  BY DEF b
<1> QED
  BY <1>1, <1>2, <1>3, <1>4 DEF Listed

\* Entering a call that changes entries.
LEMMA EnterListed ==
    ASSUME Listed, Tallied, NEW op, NEW id, NEW k \in 1 .. 2, NEW one \in Delta, NEW two \in Delta,
           Enter(op, id, k, one, two), op \in {"open", "mkdir", "unlink", "rmdir", "link", "rename"},
           one # Invalid, two = Invalid \/ k = 2,
           two # Invalid => /\ one.type # two.type /\ op \in {"open", "mkdir", "rename"}
                            /\ op # "rename" => one.target # two.target,
           one.type = "add" => one.target \notin Ids(stable),
           two.type # "add"
    PROVE  Listed' /\ Tallied' /\ stable' = stable /\ ongoing'.op = op
<1> DEFINE c == [op |-> op, deltas |-> <<one, two>>]
<1>1. /\ calls' = Append(calls, c) /\ stable' = stable /\ pending' = pending + k
      /\ ~Forced /\ ongoing' = [op |-> op, id |-> id]
  BY DEF Enter, Begin
<1>2. c \in Call /\ c.op = op /\ c.deltas[1] = one /\ c.deltas[2] = two
  BY DEF Call
<1> HIDE DEF c
<1>3. Proper(c)
  BY <1>2 DEF Proper
<1>4. Listed'
  BY <1>1, <1>2, <1>3, AppendListed
<1>5. Tallied'
  <2>1. /\ Len(Deltas(calls, MetaTypes)) \in Nat
        /\ Len(Deltas(calls', MetaTypes)) = Len(Deltas(calls, MetaTypes))
             + Len(Kept(one, MetaTypes)) + Len(Kept(two, MetaTypes))
    BY <1>1, <1>2, AppendLen DEF Listed
  <2>2. Len(Kept(one, MetaTypes)) \in 0 .. 1 /\ Len(Kept(two, MetaTypes)) \in 0 .. 1
    BY KeptLen
  <2>3. two = Invalid => Len(Kept(two, MetaTypes)) = 0
    <3>1. Invalid.type \notin MetaTypes /\ Invalid \in Delta /\ Len(<< >>) = 0
      BY DeltaFacts DEF Invalid, MetaTypes, EntryTypes
    <3> QED
      BY <3>1, KeptLen
  <2>4. PICK x \in 0 .. 1, y \in 0 .. 1 :
          /\ Len(Deltas(calls', MetaTypes)) = Len(Deltas(calls, MetaTypes)) + x + y
          /\ two = Invalid => y = 0
    BY <2>1, <2>2, <2>3, Zenon
  <2>5. pending <= MAX_SET - 2 /\ pending \in Nat /\ Len(Deltas(calls, MetaTypes)) <= pending
    BY <1>1, StableFSAssumption DEF Tallied, Forced
  <2>6. x + y <= k
    BY <2>4
  <2> QED
    BY <1>1, <2>1, <2>4, <2>5, <2>6, StableFSAssumption DEF Tallied
<1> QED
  BY <1>1, <1>4, <1>5

\* Entering a write or a truncate.
LEMMA DataListed ==
    ASSUME Listed, Tallied, NEW op \in {"ftruncate", "pwrite64"}, NEW id, NEW d \in Delta,
           d.type \in DataTypes, EnterData(op, id, d)
    PROVE  Listed' /\ Tallied' /\ stable' = stable /\ ongoing'.op = op /\ names' = names
<1> DEFINE c == [op |-> op, deltas |-> <<d, Invalid>>]
<1>1. /\ calls' = Append(calls, c) /\ stable' = stable /\ pending' = pending /\ names' = names
      /\ ongoing' = [op |-> op, id |-> id]
  BY DEF EnterData
<1>2. c \in Call /\ c.op = op /\ c.deltas[1] = d /\ c.deltas[2] = Invalid
  BY DeltaFacts DEF Call
<1> HIDE DEF c
<1>3. d # Invalid /\ d.type \notin MetaTypes /\ Invalid.type \notin MetaTypes /\ Invalid \in Delta
      /\ Invalid.type # "add"
  BY DeltaFacts DEF Invalid, MetaTypes, EntryTypes, DataTypes
<1>4. Proper(c)
  BY <1>2, <1>3 DEF Proper
<1>5. Listed'
  BY <1>1, <1>2, <1>3, <1>4, AppendListed DEF MetaTypes
<1>6. Len(Kept(d, MetaTypes)) = 0 /\ Len(Kept(Invalid, MetaTypes)) = 0
  BY <1>3, KeptLen
<1>7. Len(Deltas(calls', MetaTypes)) = Len(Deltas(calls, MetaTypes)) /\ Len(Deltas(calls, MetaTypes)) \in Nat
  BY <1>1, <1>2, <1>6, AppendLen DEF Listed
<1> QED
  BY <1>1, <1>5, <1>7 DEF Tallied

\* What a call does to the volatile file system leaves ids below the next one,
\* when no object but the next one is new.
LEMMA StaysNumbered ==
    ASSUME Numbered, IsFS(volatile'), stable' = stable, names' \in Nat,
           volatile'.next \in Nat \ {0}, volatile'.next >= volatile.next,
           Ids(volatile') \subseteq 0 .. (volatile'.next - 1),
           volatile'.ent \subseteq Nat \X Nat \X (0 .. (volatile'.next - 1)),
           ongoing'.op # "fsync"
    PROVE  Numbered'
<1>1. 0 .. (volatile.next - 1) \subseteq 0 .. (volatile'.next - 1)
  BY DEF Numbered
<1> QED
  BY <1>1 DEF Numbered, IsFS, Ids

\* An entry is a directory, a name and an id that has been given out.
LEMMA EntryFacts ==
    ASSUME Numbered, NEW e \in volatile.ent
    PROVE  /\ e[1] \in Nat /\ e[2] \in Nat /\ e[3] \in 0 .. (volatile.next - 1) /\ e[3] \in Nat
           /\ e = <<e[1], e[2], e[3]>>
BY DEF Numbered

\* Each kind of delta is one.
LEMMA AddType ==
    ASSUME NEW id \in Nat, NEW kind \in {"file", "dir"}
    PROVE  Add(id, kind) \in Delta /\ Add(id, kind).type = "add" /\ Add(id, kind).target = id
BY DEF Delta, Add

\* A delta that cuts or extends a file.
LEMMA TruncateType ==
    ASSUME NEW id \in Nat, NEW n \in Nat
    PROVE  Truncate(id, n) \in Delta /\ Truncate(id, n).type = "truncate"
BY DEF Delta, Truncate

\* A delta that writes.
LEMMA PwriteType ==
    ASSUME NEW id \in Nat, NEW w \in Writes
    PROVE  Pwrite(id, w) \in Delta /\ Pwrite(id, w).type = "pwrite"
BY DEF Delta, Pwrite

\* creat and mkdir
LEMMA MakeStep ==
    ASSUME OInv, NEW op \in {"open", "mkdir"}, NEW kind \in {"file", "dir"},
           NEW d \in 0 .. (volatile.next - 1),
           Enter(op, volatile.next, 2, Add(volatile.next, kind), AddEntry(d, names, volatile.next)),
           volatile' = Make(volatile, kind, d, names), names' = names + 1
    PROVE  OInv'
<1> DEFINE N == volatile.next
           one == Add(N, kind)
           two == AddEntry(d, names, N)
<1>0. /\ N \in Nat \ {0} /\ d \in Nat /\ d # N /\ names \in Nat /\ IsFS(volatile)
      /\ N \notin Ids(stable) /\ Ids(volatile) \subseteq 0 .. (N - 1)
      /\ volatile.ent \subseteq Nat \X Nat \X (0 .. (N - 1))
  BY DEF OInv, Numbered
<1>1. /\ one \in Delta /\ two \in Delta /\ one.type = "add" /\ two.type = "add_entry"
      /\ one.target = N /\ two.target = d
  <2>1. N \in Nat /\ d \in Nat /\ names \in Nat
    BY <1>0
  <2>2. one \in Delta /\ one.type = "add" /\ one.target = N
    BY <2>1, AddType
  <2>3. two \in Delta /\ two.type = "add_entry" /\ two.target = d
    BY <2>1 DEF Delta, AddEntry, EntryTypes
  <2> QED
    BY <2>2, <2>3
<1> HIDE DEF one, two
<1>2. one # Invalid /\ two # Invalid
  BY <1>1, DeltaFacts
<1>3. Enter(op, N, 2, one, two)
  BY DEF one, two
<1>4. Listed' /\ Tallied' /\ stable' = stable /\ ongoing'.op = op
  BY <1>0, <1>1, <1>2, <1>3, EnterListed DEF OInv
<1>5. /\ IsFS(volatile') /\ volatile'.next = N + 1 /\ Ids(volatile') = Ids(volatile) \cup {N}
      /\ volatile'.ent = volatile.ent \cup {<<d, names, N>>}
  BY <1>0, MakeFacts
<1>6. /\ Ids(volatile') \subseteq 0 .. (volatile'.next - 1)
      /\ volatile'.ent \subseteq Nat \X Nat \X (0 .. (volatile'.next - 1))
  <2>1. 0 .. (N - 1) \subseteq 0 .. (volatile'.next - 1) /\ N \in 0 .. (volatile'.next - 1)
    BY <1>0, <1>5
  <2> QED
    BY <1>0, <1>5, <2>1
<1>7. Numbered'
  <2>1. /\ volatile'.next \in Nat \ {0} /\ volatile'.next >= volatile.next /\ names' \in Nat
        /\ ongoing'.op # "fsync"
    BY <1>0, <1>4, <1>5
  <2> QED
    BY <1>4, <1>5, <1>6, <2>1, StaysNumbered DEF OInv
<1> QED
  BY <1>4, <1>7 DEF OInv

\* The other calls that change entries make no object.
LEMMA EntryStep ==
    ASSUME OInv, NEW op \in {"unlink", "rmdir", "link", "rename"}, NEW id, NEW k \in 1 .. 2,
           NEW one \in Delta, NEW two \in Delta, Enter(op, id, k, one, two),
           one.type \in EntryTypes,
           two = Invalid \/ (k = 2 /\ op = "rename" /\ one.type = "add_entry" /\ two.type = "remove_entry"),
           IsFS(volatile'), volatile'.next = volatile.next, names' \in Nat,
           Ids(volatile') \subseteq Ids(volatile),
           volatile'.ent \subseteq Nat \X Nat \X (0 .. (volatile.next - 1))
    PROVE  OInv'
<1>1. one # Invalid /\ one.type # "add" /\ two.type # "add" /\ (two = Invalid \/ k = 2)
  BY DeltaFacts DEF EntryTypes, Invalid
<1>a. two # Invalid => one.type # two.type /\ op \in {"open", "mkdir", "rename"} /\ op = "rename"
  OBVIOUS
<1>2. Listed' /\ Tallied' /\ stable' = stable /\ ongoing'.op = op
  BY <1>1, <1>a, EnterListed DEF OInv
<1>3. Numbered'
  <2>1. /\ volatile'.next \in Nat \ {0} /\ volatile'.next >= volatile.next
        /\ Ids(volatile') \subseteq 0 .. (volatile'.next - 1) /\ ongoing'.op # "fsync"
    BY <1>2 DEF OInv, Numbered
  <2> QED
    BY <1>2, <2>1, StaysNumbered DEF OInv
<1> QED
  BY <1>2, <1>3 DEF OInv

\* A call that writes.
LEMMA WriteStep ==
    ASSUME OInv, NEW op \in {"ftruncate", "pwrite64"}, NEW id, NEW d \in Delta, NEW data, NEW x,
           d.type \in DataTypes, EnterData(op, id, d), volatile' = [volatile EXCEPT !.obj[x].data = data]
    PROVE  OInv'
<1>1. Listed' /\ Tallied' /\ stable' = stable /\ ongoing'.op = op /\ names' = names
  BY DataListed DEF OInv
<1>2. /\ IsFS(volatile') /\ volatile'.next = volatile.next
      /\ Ids(volatile') = Ids(volatile) /\ volatile'.ent = volatile.ent
  BY DataFacts DEF OInv, Numbered
<1>3. Numbered'
  <2>1. /\ volatile'.next \in Nat \ {0} /\ volatile'.next >= volatile.next /\ names' \in Nat
        /\ Ids(volatile') \subseteq 0 .. (volatile'.next - 1) /\ ongoing'.op # "fsync"
        /\ volatile'.ent \subseteq Nat \X Nat \X (0 .. (volatile'.next - 1))
    BY <1>1, <1>2 DEF OInv, Numbered
  <2> QED
    BY <1>1, <1>2, <2>1, StaysNumbered DEF OInv
<1> QED
  BY <1>1, <1>3 DEF OInv

\* Every step keeps the invariant.
LEMMA EntersStep == ASSUME OInv, Enters PROVE OInv'
<1>0. /\ IsFS(volatile) /\ volatile.next \in Nat \ {0} /\ names \in Nat /\ names + 1 \in Nat
      /\ volatile.ent \subseteq Nat \X Nat \X (0 .. (volatile.next - 1))
      /\ Ids(volatile) \subseteq 0 .. (volatile.next - 1)
      /\ Root \in 0 .. (volatile.next - 1)
  BY DEF OInv, Numbered, Root
<1>i. Invalid \in Delta
  BY DeltaFacts
<1>d. \A d \in Dirs : d \in 0 .. (volatile.next - 1) /\ d \in Nat
  BY <1>0 DEF Dirs
<1>o. \A types : Of(types) \subseteq volatile.ent
  BY DEF Of
<1>n. Numbered
  BY DEF OInv
<1>1. CASE EnterCreat
  <2>1. PICK d \in Dirs :
          /\ Enter("open", volatile.next, 2, Add(volatile.next, "file"), AddEntry(d, names, volatile.next))
          /\ volatile' = Make(volatile, "file", d, names) /\ names' = names + 1
    BY <1>1 DEF EnterCreat
  <2> QED
    BY <1>d, <2>1, MakeStep
<1>2. CASE EnterMkdir
  BY <1>0, <1>2, MakeStep DEF EnterMkdir
<1>3. CASE EnterUnlink \/ EnterRmdir
  <2>1. PICK op \in {"unlink", "rmdir"}, e \in volatile.ent :
          /\ Enter(op, e[3], 1, RemoveEntry(e[1], e[2], e[3]), Invalid)
          /\ volatile' = unlink_obj(volatile, e[1], e[2]) /\ names' = names
    BY <1>3, <1>o DEF EnterUnlink, EnterRmdir
  <2> DEFINE one == RemoveEntry(e[1], e[2], e[3])
  <2>2. e[1] \in Nat /\ e[2] \in Nat /\ e[3] \in Nat
    BY <1>n, <2>1, EntryFacts
  <2>3. one \in Delta /\ one.type = "remove_entry"
    BY <2>2 DEF Delta, RemoveEntry, EntryTypes
  <2>4. /\ IsFS(volatile') /\ volatile'.next = volatile.next /\ Ids(volatile') \subseteq Ids(volatile)
        /\ volatile'.ent \subseteq volatile.ent
    BY <1>0, <2>1, UnlinkFacts
  <2>5. Enter(op, e[3], 1, one, Invalid)
    BY <2>1
  <2> HIDE DEF one
  <2> QED
    BY <1>0, <1>i, <2>1, <2>3, <2>4, <2>5, EntryStep DEF EntryTypes
<1>4. CASE EnterLink
  <2>1. PICK e \in volatile.ent, d \in Dirs :
          /\ Enter("link", e[3], 1, AddEntry(d, names, e[3]), Invalid)
          /\ volatile' = link_obj(volatile, d, e[3], names) /\ names' = names + 1
    BY <1>4, <1>o DEF EnterLink
  <2> DEFINE one == AddEntry(d, names, e[3])
  <2>2. e[3] \in Nat /\ d \in Nat /\ e[3] \in 0 .. (volatile.next - 1)
    BY <1>n, <1>d, <2>1, EntryFacts
  <2>3. one \in Delta /\ one.type = "add_entry"
    BY <1>0, <2>2 DEF Delta, AddEntry, EntryTypes
  <2>4. /\ IsFS(volatile') /\ volatile'.next = volatile.next /\ Ids(volatile') = Ids(volatile)
        /\ volatile'.ent = volatile.ent \cup {<<d, names, e[3]>>}
    BY <1>0, <2>1, LinkFacts
  <2>5. volatile'.ent \subseteq Nat \X Nat \X (0 .. (volatile.next - 1))
    BY <1>0, <2>2, <2>4
  <2>6. Enter("link", e[3], 1, one, Invalid)
    BY <2>1
  <2> HIDE DEF one
  <2> QED
    BY <1>0, <1>i, <2>1, <2>3, <2>4, <2>5, <2>6, EntryStep DEF EntryTypes
<1>5. CASE EnterRename
  <2>1. PICK e \in volatile.ent, d \in Dirs :
          /\ Enter("rename", e[3], 2, AddEntry(d, names, e[3]), RemoveEntry(e[1], e[2], e[3]))
          /\ volatile' = rename(volatile, e[1], e[2], e[3], d, names) /\ names' = names + 1
    BY <1>5 DEF EnterRename
  <2> DEFINE one == AddEntry(d, names, e[3])
             two == RemoveEntry(e[1], e[2], e[3])
  <2>2. e[1] \in Nat /\ e[2] \in Nat /\ e[3] \in Nat /\ d \in Nat /\ e[3] \in 0 .. (volatile.next - 1)
    BY <1>n, <1>d, <2>1, EntryFacts
  <2>3. one \in Delta /\ one.type = "add_entry"
    BY <1>0, <2>2 DEF Delta, AddEntry, EntryTypes
  <2>4. two \in Delta /\ two.type = "remove_entry"
    BY <2>2 DEF Delta, RemoveEntry, EntryTypes
  <2>5. /\ IsFS(volatile') /\ volatile'.next = volatile.next /\ Ids(volatile') \subseteq Ids(volatile)
        /\ volatile'.ent \subseteq volatile.ent \cup {<<d, names, e[3]>>}
    BY <1>0, <2>1, RenameFacts
  <2>6. volatile'.ent \subseteq Nat \X Nat \X (0 .. (volatile.next - 1))
    BY <1>0, <2>2, <2>5
  <2>7. Enter("rename", e[3], 2, one, two)
    BY <2>1
  <2> HIDE DEF one, two
  <2> QED
    BY <1>0, <2>1, <2>3, <2>4, <2>5, <2>6, <2>7, EntryStep DEF EntryTypes
<1>6. CASE EnterFtruncate
  <2>1. PICK e \in volatile.ent, w \in Writes :
          /\ EnterData("ftruncate", e[3], Truncate(e[3], w[2]))
          /\ volatile' = truncate(volatile, e[3], w[2])
    BY <1>6, <1>o DEF EnterFtruncate
  <2> DEFINE d == Truncate(e[3], w[2])
             data == Cut(volatile.obj[e[3]].data, w[2])
  <2>2. e[3] \in Nat /\ w[2] \in Nat
    BY <1>n, <2>1, EntryFacts, StableFSAssumption
  <2>3. d \in Delta /\ d.type = "truncate"
    BY <2>2, TruncateType
  <2>4. volatile' = [volatile EXCEPT !.obj[e[3]].data = data]
    BY <2>1 DEF truncate
  <2>5. EnterData("ftruncate", e[3], d)
    BY <2>1
  <2> HIDE DEF d, data
  <2>6. d \in Delta /\ d.type \in DataTypes
    BY <2>3 DEF DataTypes
  <2> QED
    BY <2>4, <2>5, <2>6, WriteStep
<1>7. CASE EnterPwrite
  <2>1. PICK e \in volatile.ent, w \in Writes :
          /\ EnterData("pwrite64", e[3], Pwrite(e[3], w))
          /\ volatile' = pwrite(volatile, e[3], w)
    BY <1>7, <1>o DEF EnterPwrite
  <2> DEFINE d == Pwrite(e[3], w)
             data == Put(volatile.obj[e[3]].data, w)
  <2>2. e[3] \in Nat
    BY <1>n, <2>1, EntryFacts
  <2>3. d \in Delta /\ d.type = "pwrite"
    BY <2>2, PwriteType
  <2>4. volatile' = [volatile EXCEPT !.obj[e[3]].data = data]
    BY <2>1 DEF pwrite
  <2>5. EnterData("pwrite64", e[3], d)
    BY <2>1
  <2> HIDE DEF d, data
  <2>6. d \in Delta /\ d.type \in DataTypes
    BY <2>3 DEF DataTypes
  <2> QED
    BY <2>4, <2>5, <2>6, WriteStep
<1>8. CASE EnterSync \/ EnterFsync
  <2>1. /\ stable' = stable /\ volatile' = volatile /\ calls' = calls /\ pending' = pending /\ names' = names
        /\ ongoing'.op = "fsync" => \E e \in volatile.ent : ongoing'.id = e[3]
    BY <1>8, <1>o DEF EnterSync, EnterFsync, Begin
  <2>2. ongoing'.op = "fsync" => ongoing'.id \in 0 .. (volatile.next - 1)
    BY <1>n, <2>1, EntryFacts
  <2>3. Numbered'
    BY <1>n, <2>1, <2>2 DEF Numbered
  <2>4. Listed' /\ Tallied'
    BY <2>1 DEF OInv, Listed, Tallied
  <2> QED
    BY <2>3, <2>4 DEF OInv
<1> QED
  BY <1>1, <1>2, <1>3, <1>4, <1>5, <1>6, <1>7, <1>8 DEF Enters

\* A list without calls is in order.
LEMMA EmptyListed ==
    ASSUME calls' = << >>, pending' \in Nat, pending' <= MAX_SET
    PROVE  Listed' /\ Tallied'
<1>1. << >> \in Seq(Call) /\ Len(<< >>) = 0 /\ Pending(<< >>) = {}
  BY DEF Pending
<1>2. Len(Deltas(calls', MetaTypes)) = 0
  BY <1>1, NoDeltas
<1> QED
  BY <1>1, <1>2 DEF Listed, Tallied

\* Every step of the oracle keeps the invariant.
LEMMA OracleStep == ASSUME OInv, [Next]_vars PROVE OInv'
<1>1. CASE Enters
  BY <1>1, EntersStep
<1>2. CASE Exit \/ UNCHANGED vars
  <2>1. /\ stable' = stable /\ volatile' = volatile /\ calls' = calls /\ pending' = pending /\ names' = names
        /\ ongoing' = ongoing \/ ongoing' = NoCall
    BY <1>2 DEF Exit, vars
  <2>2. ongoing'.op = "fsync" => ongoing' = ongoing
    BY <2>1 DEF NoCall
  <2> QED
    BY <2>1, <2>2 DEF OInv, Numbered, Listed, Tallied
<1>3. CASE ExitSync
  <2>1. /\ calls' = << >> /\ stable' = copy(volatile) /\ ongoing' = NoCall /\ pending' = 0
        /\ volatile' = volatile /\ names' = names
    BY <1>3 DEF ExitSync
  <2>2. IsFS(stable') /\ Ids(stable') = Ids(volatile)
    BY <2>1, CopyFacts DEF OInv, Numbered
  <2>3. Numbered'
    BY <2>1, <2>2 DEF OInv, Numbered, NoCall
  <2>4. Listed' /\ Tallied'
    BY <2>1, EmptyListed, StableFSAssumption
  <2> QED
    BY <2>3, <2>4 DEF OInv
<1>4. CASE ExitFsync
  <2> DEFINE id == ongoing.id
  <2>1. /\ stable' = make_obj_stable(id) /\ calls' = Flushed(calls, id) /\ ongoing' = NoCall
        /\ volatile' = volatile /\ pending' = pending /\ names' = names
    BY <1>4 DEF ExitFsync
  <2>2. id \in 0 .. (volatile.next - 1)
    BY <1>4 DEF ExitFsync, OInv, Numbered
  <2> HIDE DEF id
  <2>3. IsFS(stable') /\ Ids(stable') = Ids(stable) \cup {id}
    BY <2>1, StoreFacts DEF make_obj_stable, OInv, Numbered
  <2>4. Numbered'
    BY <2>1, <2>2, <2>3 DEF OInv, Numbered, NoCall
  <2>5. "none" \notin MetaTypes
    BY DEF MetaTypes, EntryTypes
  <2>6. /\ calls' \in Seq(Call)
        /\ \A i \in 1 .. Len(calls') : Proper(calls'[i])
        /\ \A d \in Pending(calls') : d = Invalid \/ (d \in Pending(calls) /\ d.target # id)
        /\ Len(Deltas(calls', MetaTypes)) <= Len(Deltas(calls, MetaTypes))
    BY <2>1, <2>5, FlushedKeeps DEF OInv, Listed
  <2>7. Listed'
    BY <2>3, <2>6 DEF OInv, Listed, Invalid
  <2>8. Tallied'
    <3>1. Deltas(calls, MetaTypes) \in Seq(Delta) /\ Deltas(calls', MetaTypes) \in Seq(Delta)
      <4>1. \E c : c \in Call
        <5>1. [op |-> "open", deltas |-> <<Invalid, Invalid>>] \in Call
          BY DeltaFacts DEF Call
        <5> QED
          BY <5>1
      <4> QED
        BY <2>6, <4>1, DeltasAppend DEF OInv, Listed
    <3>2. Len(Deltas(calls, MetaTypes)) \in Nat /\ Len(Deltas(calls', MetaTypes)) \in Nat
      BY <3>1, LenProperties
    <3> QED
      BY <2>1, <2>6, <3>2, StableFSAssumption DEF OInv, Tallied
  <2> QED
    BY <2>4, <2>7, <2>8 DEF OInv
<1>5. CASE Check
  <2>1. PICK image : check(image)
    BY <1>5 DEF Check
  <2>2. CASE stable' = stable /\ volatile' = volatile /\ calls' = calls /\ ongoing' = ongoing
    <3>1. pending' = pending /\ names' = names
      BY <2>1 DEF check
    <3> QED
      BY <2>2, <3>1 DEF OInv, Numbered, Listed, Tallied
  <2>3. CASE stable' = EmptyFS /\ volatile' = EmptyFS /\ calls' = << >> /\ ongoing' = NoCall
    <3>1. pending' = pending /\ names' = names
      BY <2>1 DEF check
    <3>2. Listed' /\ Tallied'
      BY <2>3, <3>1, EmptyListed DEF OInv, Tallied
    <3>3. Numbered'
      BY <2>3, <3>1, EmptyFacts DEF OInv, Numbered, NoCall
    <3> QED
      BY <3>2, <3>3 DEF OInv
  <2> QED
    BY <2>1, <2>2, <2>3 DEF check
<1>6. CASE NextLog
  <2>1. /\ stable' = EmptyFS /\ volatile' = EmptyFS /\ calls' = << >> /\ ongoing' = NoCall
        /\ pending' = 0 /\ names' = 1
    BY <1>6 DEF NextLog
  <2>2. Listed' /\ Tallied'
    BY <2>1, EmptyListed, StableFSAssumption
  <2>3. Numbered'
    BY <2>1, EmptyFacts DEF Numbered, NoCall
  <2> QED
    BY <2>2, <2>3 DEF OInv
<1> QED
  BY <1>1, <1>2, <1>3, <1>4, <1>5, <1>6 DEF Next

\* It holds when the oracle starts.
LEMMA OracleInit == ASSUME Init PROVE OInv
<1>1. << >> \in Seq(Call) /\ Len(<< >>) = 0 /\ Pending(<< >>) = {}
  BY DEF Pending
<1>2. Len(Deltas(calls, MetaTypes)) = 0
  BY <1>1, NoDeltas DEF Init
<1>3. Listed /\ Tallied
  BY <1>1, <1>2, StableFSAssumption DEF Init, Listed, Tallied
<1>4. Numbered
  BY EmptyFacts DEF Init, Numbered, NoCall
<1> QED
  BY <1>3, <1>4 DEF OInv

\* Ids, the list of calls and the driver's count, for every log.
THEOREM OracleInvariance == Spec => []OInv
BY OracleInit, OracleStep, PTL DEF Spec

\* internal_check of driver/StableFS.C holds in every state, also after an fsync
\* took single deltas out of calls, and make_delta_stable never adds an object
\* that is stable already, whatever calls, syncs and checks came before.
THEOREM OracleAssertionsHold == Spec => []AssertionsHold
<1>1. OInv => AssertionsHold
  <2> SUFFICES ASSUME OInv PROVE AssertionsHold
    OBVIOUS
  <2>1. ASSUME NEW i \in DOMAIN calls
        PROVE  /\ calls[i].op # "rename" => calls[i].deltas[1].target # calls[i].deltas[2].target
               /\ calls[i].deltas[1] # Invalid /\ calls[i].deltas[2] # Invalid =>
                    /\ calls[i].deltas[1].type # calls[i].deltas[2].type
                    /\ calls[i].op \in {"open", "mkdir", "rename"}
    <3>1. i \in 1 .. Len(calls) /\ calls[i] \in Call
      BY <2>1, ElementOfSeq DEF OInv, Listed
    <3>2. Proper(calls[i]) /\ calls[i].deltas[1] \in Delta /\ calls[i].deltas[2] \in Delta
      BY <3>1 DEF OInv, Listed, Call
    <3> QED
      BY <3>2, DeltaFacts DEF Proper
  <2>2. internal_check
    BY <2>1 DEF internal_check
  <2> QED
    BY <2>2 DEF AssertionsHold, OInv, Listed
<1> QED
  BY <1>1, OracleInvariance, PTL

\* check never meets more than MAX_SET pending deltas ("too many pending
\* deltas"): the driver's own count, which knows nothing of the log, is large
\* enough whatever it does between two syncs.
THEOREM NeverGivesUp == Spec => []NeverTooMany
<1>1. OInv => NeverTooMany
  <2> SUFFICES ASSUME OInv PROVE NeverTooMany
    OBVIOUS
  <2>1. calls \in Seq(Call) /\ Len(Deltas(calls, MetaTypes)) <= pending /\ pending <= MAX_SET /\ pending \in Nat
    BY DEF OInv, Listed, Tallied
  <2>2. Deltas(calls, MetaTypes) \in Seq(Delta)
    <3>1. Len(calls) \in 0 .. Len(calls)
      BY <2>1
    <3> QED
      BY <2>1, <3>1, DeltasFacts
  <2> QED
    BY <2>1, <2>2, LenProperties, StableFSAssumption DEF NeverTooMany
<1> QED
  BY <1>1, OracleInvariance, PTL

-----------------------------------------------------------------------------
(* Bits: the subsets of the deltas by number                                 *)

\* Bit is a function on the numbers.
LEMMA BitIs == Bit = [n \in Nat |-> IF n = 0 THEN 1 ELSE 2 * Bit[n - 1]]
<1> DEFINE Rec(f, n) == f = [i \in 0 .. n |-> IF i = 0 THEN 1 ELSE 2 * f[i - 1]]
           S == {n \in Nat : \E f : Rec(f, n)}
<1>1. 0 \in S
  <2> DEFINE f == [i \in 0 .. 0 |-> 1]
  <2>1. Rec(f, 0)
    OBVIOUS
  <2> QED
    BY <2>1
<1>2. ASSUME NEW n \in Nat, n \in S PROVE n + 1 \in S
  <2>1. PICK f : Rec(f, n)
    BY <1>2
  <2> DEFINE g == [i \in 0 .. (n + 1) |-> IF i = n + 1 THEN 2 * f[n] ELSE f[i]]
             h == [i \in 0 .. (n + 1) |-> IF i = 0 THEN 1 ELSE 2 * g[i - 1]]
  <2>2. ASSUME NEW i \in 0 .. (n + 1) PROVE g[i] = h[i]
    <3>1. CASE i = n + 1
      <4>1. g[i - 1] = f[n]
        BY <3>1
      <4> QED
        BY <3>1, <4>1
    <3>2. CASE i = 0
      <4>1. g[i] = f[0]
        BY <3>2
      <4>2. f[0] = 1
        BY <2>1
      <4> QED
        BY <3>2, <4>1, <4>2
    <3>3. CASE i # 0 /\ i # n + 1
      <4>1. i \in 0 .. n /\ i - 1 \in 0 .. (n + 1) /\ i - 1 # n + 1
        BY <3>3
      <4>2. g[i] = f[i] /\ g[i - 1] = f[i - 1]
        BY <3>3, <4>1
      <4>3. f[i] = 2 * f[i - 1]
        BY <2>1, <3>3, <4>1
      <4> QED
        BY <3>3, <4>2, <4>3
    <3> QED
      BY <3>1, <3>2, <3>3
  <2>3. g = h
    BY <2>2
  <2>4. Rec(g, n + 1)
    BY <2>3
  <2> HIDE DEF g, Rec
  <2>5. \E e : Rec(e, n + 1)
    BY <2>4
  <2>6. n + 1 \in Nat
    OBVIOUS
  <2> QED
    BY <2>5, <2>6, Zenon
<1> DEFINE F(n) == CHOOSE f : Rec(f, n)
<1>3. ASSUME NEW n \in Nat PROVE Rec(F(n), n)
  <2>1. n \in S
    BY <1>1, <1>2, <1>3, Induction
  <2> QED
    BY <2>1
<1> HIDE DEF S, F
<1>4. ASSUME NEW n \in Nat
      PROVE  F(n)[0] = 1 /\ \A i \in Nat : i + 1 <= n => F(n)[i + 1] = 2 * F(n)[i]
  <2>1. F(n) = [i \in 0 .. n |-> IF i = 0 THEN 1 ELSE 2 * F(n)[i - 1]]
    BY <1>3
  <2>2. F(n)[0] = 1
    BY <2>1
  <2>3. ASSUME NEW i \in Nat, i + 1 <= n PROVE F(n)[i + 1] = 2 * F(n)[i]
    <3>1. i + 1 \in 0 .. n /\ i + 1 # 0 /\ (i + 1) - 1 = i
      BY <2>3
    <3> QED
      BY <2>1, <3>1
  <2> QED
    BY <2>2, <2>3
<1>5. ASSUME NEW n \in Nat PROVE F(n + 1)[n] = F(n)[n]
  <2> DEFINE A == {i \in Nat : i <= n => F(n + 1)[i] = F(n)[i]}
  <2>1. 0 \in A
    BY <1>4
  <2>2. ASSUME NEW i \in Nat, i \in A PROVE i + 1 \in A
    <3>1. SUFFICES ASSUME i + 1 <= n PROVE F(n + 1)[i + 1] = F(n)[i + 1]
      OBVIOUS
    <3>2. i <= n /\ i + 1 <= n + 1 /\ n + 1 \in Nat
      BY <3>1
    <3>3. F(n + 1)[i + 1] = 2 * F(n + 1)[i] /\ F(n)[i + 1] = 2 * F(n)[i]
      BY <1>4, <3>1, <3>2
    <3> QED
      BY <2>2, <3>2, <3>3
  <2> HIDE DEF A
  <2>3. n \in A
    BY <2>1, <2>2, Induction
  <2> QED
    BY <2>3 DEF A
<1> DEFINE g == [n \in Nat |-> F(n)[n]]
           h == [n \in Nat |-> IF n = 0 THEN 1 ELSE 2 * g[n - 1]]
<1>6. ASSUME NEW n \in Nat PROVE g[n] = h[n]
  <2>1. CASE n = 0
    BY <1>4, <2>1
  <2>2. CASE n # 0
    <3>1. n - 1 \in Nat /\ (n - 1) + 1 = n /\ n <= n
      BY <2>2
    <3>2. g[n] = F(n)[n] /\ g[n - 1] = F(n - 1)[n - 1] /\ h[n] = 2 * g[n - 1]
      BY <2>2, <3>1
    <3>3. F(n)[n] = 2 * F(n)[n - 1]
      BY <1>4, <3>1
    <3>4. F(n)[n - 1] = F(n - 1)[n - 1]
      BY <1>5, <3>1
    <3> QED
      BY <3>2, <3>3, <3>4
  <2> QED
    BY <2>1, <2>2
<1>7. g = h
  BY <1>6
<1>8. g = [n \in Nat |-> IF n = 0 THEN 1 ELSE 2 * g[n - 1]]
  BY <1>7
<1> HIDE DEF g, h
<1>9. \E f : f = [n \in Nat |-> IF n = 0 THEN 1 ELSE 2 * f[n - 1]]
  BY <1>8
<1>10. Bit = CHOOSE f : f = [n \in Nat |-> IF n = 0 THEN 1 ELSE 2 * f[n - 1]]
  BY DEF Bit
<1> QED
  BY <1>9, <1>10

\* The powers of two grow.
LEMMA BitFacts ==
    /\ Bit[0] = 1
    /\ \A n \in Nat : Bit[n] \in Nat \ {0} /\ Bit[n + 1] = 2 * Bit[n]
<1>1. Bit[0] = 1
  BY BitIs
<1>2. ASSUME NEW n \in Nat PROVE Bit[n + 1] = 2 * Bit[n]
  <2>1. n + 1 \in Nat /\ n + 1 # 0 /\ (n + 1) - 1 = n
    OBVIOUS
  <2> QED
    BY <2>1, BitIs
<1> DEFINE S == {n \in Nat : Bit[n] \in Nat \ {0}}
<1>3. 0 \in S
  BY <1>1
<1>4. ASSUME NEW n \in Nat, n \in S PROVE n + 1 \in S
  BY <1>2, <1>4
<1> HIDE DEF S
<1>5. \A n \in Nat : n \in S
  BY <1>3, <1>4, Induction
<1> QED
  BY <1>1, <1>2, <1>5 DEF S

\* They grow with their exponents.
LEMMA BitGrows == ASSUME NEW m \in Nat, NEW n \in Nat, m <= n PROVE Bit[m] <= Bit[n]
<1> DEFINE S == {k \in Nat : Bit[m] <= Bit[m + k]}
<1>1. 0 \in S
  <2>1. m + 0 = m /\ Bit[m] \in Nat
    BY BitFacts
  <2> QED
    BY <2>1
<1>2. ASSUME NEW k \in Nat, k \in S PROVE k + 1 \in S
  <2>1. m + k \in Nat /\ m + (k + 1) = (m + k) + 1
    OBVIOUS
  <2>2. Bit[m] \in Nat /\ Bit[m + k] \in Nat /\ Bit[m + (k + 1)] = 2 * Bit[m + k]
    BY <2>1, BitFacts
  <2> QED
    BY <1>2, <2>2
<1> HIDE DEF S
<1>3. n - m \in S
  BY <1>1, <1>2, Induction
<1>4. m + (n - m) = n
  OBVIOUS
<1> QED
  BY <1>3, <1>4 DEF S

\* A subset of the first n deltas takes none of the others.
LEMMA TakesNoMore ==
    ASSUME NEW n \in Nat, NEW i \in Nat, i < Bit[n], NEW j \in Nat, j > n
    PROVE  ~Takes(i, j)
<1>1. j - 1 \in Nat /\ n <= j - 1
  OBVIOUS
<1>2. Bit[n] \in Nat /\ Bit[j - 1] \in Nat /\ Bit[n] <= Bit[j - 1]
  BY <1>1, BitFacts, BitGrows
<1>3. i \div Bit[j - 1] = 0
  BY <1>2
<1> QED
  BY <1>3 DEF Takes

\* It is skipped for no subset that takes others.
LEMMA SkipsNoOther ==
    ASSUME NEW i \in Nat, NEW k \in Nat, i < k
    PROVE  ~Skips(k, i)
<1>1. SUFFICES ASSUME NEW order \in 0 .. MAX_SET, Bit[order] > k, i % Bit[order] = k PROVE FALSE
  BY DEF Skips
<1>2. Bit[order] \in Nat
  BY BitFacts, StableFSAssumption
<1>3. i % Bit[order] = i
  BY <1>1, <1>2
<1> QED
  BY <1>1, <1>3

-----------------------------------------------------------------------------
(* The deltas of a subset, one at a time                                     *)

\* One delta of a subset.
AppliedOne(r, d, take) ==
    IF ~take \/ ~r.ok THEN r
    ELSE IF Applies(r.fs, d) THEN [ok |-> TRUE, fs |-> make_delta_stable(r.fs, d)]
    ELSE [ok |-> FALSE, fs |-> r.fs]
AppliedUpto(fs, deltas, i) ==
    CHOOSE f : f = [j \in 0 .. Len(deltas) |->
                      IF j = 0 THEN [ok |-> TRUE, fs |-> copy(fs)]
                      ELSE AppliedOne(f[j - 1], deltas[j], Takes(i, j))]

\* The deltas of a subset, one after another.
LEMMA AppliedStep ==
    ASSUME NEW fs, NEW deltas, NEW s, Len(deltas) \in Nat
    PROVE  AppliedUpto(fs, deltas, s) =
             [j \in 0 .. Len(deltas) |->
                IF j = 0 THEN [ok |-> TRUE, fs |-> copy(fs)]
                ELSE AppliedOne(AppliedUpto(fs, deltas, s)[j - 1], deltas[j], Takes(s, j))]
<1> DEFINE Zero == [ok |-> TRUE, fs |-> copy(fs)]
           Op(a, i) == AppliedOne(a, deltas[i], Takes(s, i))
           Rec(f, n) == f = [i \in 0 .. n |-> IF i = 0 THEN Zero ELSE Op(f[i - 1], i)]
           S == {n \in Nat : \E f : Rec(f, n)}
<1> HIDE DEF Op, Zero
<1>1. 0 \in S
  <2> DEFINE f == [i \in 0 .. 0 |-> Zero]
  <2>1. Rec(f, 0)
    OBVIOUS
  <2> QED
    BY <2>1
<1>2. ASSUME NEW n \in Nat, n \in S PROVE n + 1 \in S
  <2>1. PICK f : Rec(f, n)
    BY <1>2
  <2> DEFINE g == [i \in 0 .. (n + 1) |-> IF i = n + 1 THEN Op(f[n], n + 1) ELSE f[i]]
             h == [i \in 0 .. (n + 1) |-> IF i = 0 THEN Zero ELSE Op(g[i - 1], i)]
  <2>2. ASSUME NEW i \in 0 .. (n + 1) PROVE g[i] = h[i]
    <3>1. CASE i = n + 1
      <4>1. g[i - 1] = f[n]
        BY <3>1
      <4> QED
        BY <3>1, <4>1
    <3>2. CASE i = 0
      <4>1. g[i] = f[0]
        BY <3>2
      <4>2. f[0] = Zero
        BY <2>1
      <4> QED
        BY <3>2, <4>1, <4>2
    <3>3. CASE i # 0 /\ i # n + 1
      <4>1. i \in 0 .. n /\ i - 1 \in 0 .. (n + 1) /\ i - 1 # n + 1
        BY <3>3
      <4>2. g[i] = f[i] /\ g[i - 1] = f[i - 1]
        BY <3>3, <4>1
      <4>3. f[i] = Op(f[i - 1], i)
        BY <2>1, <3>3, <4>1
      <4> QED
        BY <3>3, <4>2, <4>3
    <3> QED
      BY <3>1, <3>2, <3>3
  <2>3. g = h
    BY <2>2
  <2>4. Rec(g, n + 1)
    BY <2>3
  <2> HIDE DEF g, Rec
  <2>5. \E e : Rec(e, n + 1)
    BY <2>4
  <2>6. n + 1 \in Nat
    OBVIOUS
  <2> QED
    BY <2>5, <2>6, Zenon
<1> HIDE DEF S
<1>3. Len(deltas) \in S
  BY <1>1, <1>2, Induction
<1>4. \E f : Rec(f, Len(deltas))
  BY <1>3 DEF S
<1>5. AppliedUpto(fs, deltas, s) = CHOOSE f : Rec(f, Len(deltas))
  BY DEF AppliedUpto, Op, Zero
<1>6. Rec(AppliedUpto(fs, deltas, s), Len(deltas))
  BY <1>4, <1>5
<1> QED
  BY <1>6 DEF Op, Zero

\* A subset is applied when its last delta is.
LEMMA AppliedFacts ==
    ASSUME NEW fs, NEW deltas \in Seq(Delta), NEW s
    PROVE  /\ Applied(fs, deltas, s) = AppliedUpto(fs, deltas, s)[Len(deltas)]
           /\ AppliedUpto(fs, deltas, s)[0] = [ok |-> TRUE, fs |-> copy(fs)]
           /\ \A j \in 1 .. Len(deltas) :
                AppliedUpto(fs, deltas, s)[j] = AppliedOne(AppliedUpto(fs, deltas, s)[j - 1], deltas[j], Takes(s, j))
<1>0. Len(deltas) \in Nat
  OBVIOUS
<1>1. AppliedUpto(fs, deltas, s) =
        [j \in 0 .. Len(deltas) |->
           IF j = 0 THEN [ok |-> TRUE, fs |-> copy(fs)]
           ELSE AppliedOne(AppliedUpto(fs, deltas, s)[j - 1], deltas[j], Takes(s, j))]
  BY <1>0, AppliedStep
<1>2. Applied(fs, deltas, s) = AppliedUpto(fs, deltas, s)[Len(deltas)]
  BY DEF Applied, AppliedUpto, AppliedOne
<1>3. AppliedUpto(fs, deltas, s)[0] = [ok |-> TRUE, fs |-> copy(fs)]
  BY <1>0, <1>1
<1>4. ASSUME NEW j \in 1 .. Len(deltas)
      PROVE  AppliedUpto(fs, deltas, s)[j] = AppliedOne(AppliedUpto(fs, deltas, s)[j - 1], deltas[j], Takes(s, j))
  <2>1. j \in 0 .. Len(deltas) /\ j # 0
    BY <1>0
  <2> QED
    BY <1>1, <2>1
<1> QED
  BY <1>2, <1>3, <1>4

\* More deltas make no difference to a subset that takes none of them.
LEMMA AppliedMore ==
    ASSUME NEW fs, NEW deltas \in Seq(Delta), NEW more \in Seq(Delta),
           NEW s \in Nat, s < Bit[Len(deltas)]
    PROVE  Applied(fs, deltas \o more, s) = Applied(fs, deltas, s)
<1> DEFINE all == deltas \o more
           N == Len(deltas)
           M == Len(all)
           f == AppliedUpto(fs, deltas, s)
           g == AppliedUpto(fs, all, s)
<1>1. /\ all \in Seq(Delta) /\ N \in Nat /\ M \in Nat /\ N <= M
      /\ \A j \in 1 .. N : all[j] = deltas[j]
  BY ConcatProperties, LenProperties
<1> HIDE DEF all
<1>2. /\ Applied(fs, deltas, s) = f[N] /\ f[0] = [ok |-> TRUE, fs |-> copy(fs)]
      /\ \A j \in 1 .. N : f[j] = AppliedOne(f[j - 1], deltas[j], Takes(s, j))
  BY AppliedFacts
<1>3. /\ Applied(fs, all, s) = g[M] /\ g[0] = [ok |-> TRUE, fs |-> copy(fs)]
      /\ \A j \in 1 .. M : g[j] = AppliedOne(g[j - 1], all[j], Takes(s, j))
  BY <1>1, AppliedFacts
<1>a. \A j \in Nat : j > N => ~Takes(s, j)
  BY <1>1, TakesNoMore
<1> HIDE DEF f, g, N, M
<1> DEFINE S == {n \in Nat : n <= N => g[n] = f[n]}
           T == {n \in Nat : N + n <= M => g[N + n] = f[N]}
<1>4. 0 \in S
  BY <1>2, <1>3
<1>5. ASSUME NEW n \in Nat, n \in S PROVE n + 1 \in S
  <2>1. SUFFICES ASSUME n + 1 <= N PROVE g[n + 1] = f[n + 1]
    OBVIOUS
  <2>2. n + 1 \in 1 .. N /\ n + 1 \in 1 .. M /\ (n + 1) - 1 = n /\ n <= N
    BY <1>1, <2>1
  <2>3. g[n] = f[n] /\ all[n + 1] = deltas[n + 1]
    BY <1>1, <1>5, <2>2
  <2>4. f[n + 1] = AppliedOne(f[n], deltas[n + 1], Takes(s, n + 1))
    BY <1>2, <2>2
  <2>5. g[n + 1] = AppliedOne(g[n], all[n + 1], Takes(s, n + 1))
    BY <1>3, <2>2
  <2> QED
    BY <2>3, <2>4, <2>5
<1> HIDE DEF S
<1>6. N \in S
  BY <1>1, <1>4, <1>5, Induction
<1>7. g[N] = f[N]
  BY <1>1, <1>6 DEF S
<1>8. 0 \in T
  <2>1. N + 0 = N
    BY <1>1
  <2> QED
    BY <1>7, <2>1
<1>9. ASSUME NEW n \in Nat, n \in T PROVE n + 1 \in T
  <2>1. SUFFICES ASSUME N + (n + 1) <= M PROVE g[N + (n + 1)] = f[N]
    OBVIOUS
  <2>2. /\ N + (n + 1) \in 1 .. M /\ (N + (n + 1)) - 1 = N + n /\ N + n <= M
        /\ N + (n + 1) \in Nat /\ N + (n + 1) > N
    BY <1>1, <2>1
  <2>3. g[N + n] = f[N]
    BY <1>9, <2>2
  <2>4. g[N + (n + 1)] = AppliedOne(g[N + n], all[N + (n + 1)], Takes(s, N + (n + 1)))
    BY <1>3, <2>2
  <2>5. ~Takes(s, N + (n + 1))
    BY <1>a, <2>2
  <2> QED
    BY <2>3, <2>4, <2>5 DEF AppliedOne
<1> HIDE DEF T
<1>10. M - N \in Nat /\ N + (M - N) = M
  BY <1>1
<1>11. M - N \in T
  BY <1>8, <1>9, <1>10, Induction
<1>12. g[M] = f[N]
  BY <1>1, <1>10, <1>11 DEF T
<1> QED
  BY <1>2, <1>3, <1>12 DEF all

\* The subsets that check compares with the recovered file system.
Good(fs, deltas, i) ==
    /\ Applied(fs, deltas, i).ok /\ ~detect_dangling(Applied(fs, deltas, i).fs)
    /\ \A k \in Subsets(deltas) : ~Applied(fs, deltas, k).ok => ~Skips(k, i)
Try(fs, deltas, i) ==
    [i |-> i, fs |-> Applied(fs, deltas, i).fs,
     image |-> Canon(fix_refcnts(Applied(fs, deltas, i).fs))]

\* Tried has one file system for each of them.
LEMMA TriedIs ==
    ASSUME NEW fs, NEW cs
    PROVE  /\ \A t \in Tried(fs, cs) :
                \E i \in Subsets(Deltas(cs, MetaTypes)) :
                   Good(fs, Deltas(cs, MetaTypes), i) /\ t = Try(fs, Deltas(cs, MetaTypes), i)
           /\ \A i \in Subsets(Deltas(cs, MetaTypes)) :
                Good(fs, Deltas(cs, MetaTypes), i) => Try(fs, Deltas(cs, MetaTypes), i) \in Tried(fs, cs)
<1> DEFINE D == Deltas(cs, MetaTypes)
           all == {[i |-> i, r |-> Applied(fs, D, i)] : i \in Subsets(D)}
           bad == {x.i : x \in {y \in all : ~y.r.ok}}
           ok == {x \in all : /\ x.r.ok /\ ~detect_dangling(x.r.fs) /\ ~\E k \in bad : Skips(k, x.i)}
<1>1. Tried(fs, cs) = {[i |-> x.i, fs |-> x.r.fs, image |-> Canon(fix_refcnts(x.r.fs))] : x \in ok}
  BY DEF Tried
<1> HIDE DEF D
<1>2. \A k : k \in bad <=> k \in Subsets(D) /\ ~Applied(fs, D, k).ok
  <2>1. ASSUME NEW k \in bad PROVE k \in Subsets(D) /\ ~Applied(fs, D, k).ok
    <3>1. PICK x \in all : ~x.r.ok /\ k = x.i
      BY <2>1
    <3>2. PICK i \in Subsets(D) : x = [i |-> i, r |-> Applied(fs, D, i)]
      BY <3>1
    <3> QED
      BY <3>1, <3>2
  <2>2. ASSUME NEW k \in Subsets(D), ~Applied(fs, D, k).ok PROVE k \in bad
    <3> DEFINE x == [i |-> k, r |-> Applied(fs, D, k)]
    <3>1. x.i = k /\ x.r = Applied(fs, D, k) /\ x \in all
      OBVIOUS
    <3> HIDE DEF x, all
    <3> QED
      BY <2>2, <3>1
  <2> QED
    BY <2>1, <2>2
<1> HIDE DEF bad
<1>3. ASSUME NEW t \in Tried(fs, cs)
      PROVE  \E i \in Subsets(D) : Good(fs, D, i) /\ t = Try(fs, D, i)
  <2>1. PICK x \in ok : t = [i |-> x.i, fs |-> x.r.fs, image |-> Canon(fix_refcnts(x.r.fs))]
    BY <1>1, <1>3
  <2>2. PICK i \in Subsets(D) : x = [i |-> i, r |-> Applied(fs, D, i)]
    BY <2>1
  <2>3. x.i = i /\ x.r = Applied(fs, D, i)
    BY <2>2
  <2>4. Good(fs, D, i)
    BY <1>2, <2>1, <2>3 DEF Good
  <2>5. t = Try(fs, D, i)
    BY <2>1, <2>3 DEF Try
  <2> QED
    BY <2>4, <2>5
<1>4. ASSUME NEW i \in Subsets(D), Good(fs, D, i) PROVE Try(fs, D, i) \in Tried(fs, cs)
  <2> DEFINE x == [i |-> i, r |-> Applied(fs, D, i)]
  <2>1. x.i = i /\ x.r = Applied(fs, D, i) /\ x \in all
    OBVIOUS
  <2> HIDE DEF x, all
  <2>2. x \in ok
    BY <1>2, <1>4, <2>1 DEF Good
  <2>3. Try(fs, D, i) = [i |-> x.i, fs |-> x.r.fs, image |-> Canon(fix_refcnts(x.r.fs))]
    BY <2>1 DEF Try
  <2> HIDE DEF ok
  <2> QED
    BY <1>1, <2>2, <2>3
<1> QED
  BY <1>3, <1>4 DEF D

-----------------------------------------------------------------------------
(* More calls: what was tried is tried first, and data is explained          *)

\* The subsets as numbers.
LEMMA SubsetsFacts ==
    ASSUME NEW deltas \in Seq(Delta)
    PROVE  /\ Len(deltas) \in Nat /\ Bit[Len(deltas)] \in Nat
           /\ \A i : i \in Subsets(deltas) <=> i \in Nat /\ i < Bit[Len(deltas)]
<1>1. Len(deltas) \in Nat
  OBVIOUS
<1>2. Bit[Len(deltas)] \in Nat
  BY <1>1, BitFacts
<1> QED
  BY <1>1, <1>2 DEF Subsets

\* More deltas leave the subsets that were good, and the new ones come after.
LEMMA GoodMore ==
    ASSUME NEW fs, NEW deltas \in Seq(Delta), NEW more \in Seq(Delta)
    PROVE  /\ Subsets(deltas) \subseteq Subsets(deltas \o more)
           /\ \A i \in Subsets(deltas) :
                /\ Good(fs, deltas \o more, i) <=> Good(fs, deltas, i)
                /\ Try(fs, deltas \o more, i) = Try(fs, deltas, i)
           /\ \A i \in Subsets(deltas \o more) \ Subsets(deltas) :
                \A k \in Subsets(deltas) : k < i
<1> DEFINE all == deltas \o more
<1>1. all \in Seq(Delta) /\ Len(deltas) <= Len(all)
  BY ConcatProperties, LenProperties
<1>2. \A s \in Nat : s < Bit[Len(deltas)] => Applied(fs, all, s) = Applied(fs, deltas, s)
  BY AppliedMore
<1> HIDE DEF all
<1>3. /\ Len(deltas) \in Nat /\ Bit[Len(deltas)] \in Nat
      /\ \A i : i \in Subsets(deltas) <=> i \in Nat /\ i < Bit[Len(deltas)]
  BY SubsetsFacts
<1>4. /\ Len(all) \in Nat /\ Bit[Len(all)] \in Nat
      /\ \A i : i \in Subsets(all) <=> i \in Nat /\ i < Bit[Len(all)]
  BY <1>1, SubsetsFacts
<1>5. Bit[Len(deltas)] <= Bit[Len(all)]
  BY <1>1, <1>3, <1>4, BitGrows
<1>6. Subsets(deltas) \subseteq Subsets(all)
  BY <1>3, <1>4, <1>5
<1>7. ASSUME NEW i \in Subsets(all), i \notin Subsets(deltas), NEW k \in Subsets(deltas) PROVE k < i
  BY <1>3, <1>4, <1>7
<1>8. ASSUME NEW i \in Subsets(deltas) PROVE Applied(fs, all, i) = Applied(fs, deltas, i)
  BY <1>2, <1>3
<1>9. ASSUME NEW i \in Subsets(deltas) PROVE Good(fs, all, i) <=> Good(fs, deltas, i)
  <2>1. ASSUME Good(fs, all, i) PROVE Good(fs, deltas, i)
    BY <1>6, <1>8, <2>1 DEF Good
  <2>2. ASSUME Good(fs, deltas, i), NEW k \in Subsets(all), ~Applied(fs, all, k).ok PROVE ~Skips(k, i)
    <3>1. CASE k \in Subsets(deltas)
      BY <1>8, <2>2, <3>1 DEF Good
    <3>2. CASE k \notin Subsets(deltas)
      <4>1. i < k /\ i \in Nat /\ k \in Nat
        BY <1>3, <1>4, <1>7, <3>2
      <4> QED
        BY <4>1, SkipsNoOther
    <3> QED
      BY <3>1, <3>2
  <2> QED
    BY <1>8, <2>1, <2>2 DEF Good
<1>10. ASSUME NEW i \in Subsets(deltas) PROVE Try(fs, all, i) = Try(fs, deltas, i)
  BY <1>8 DEF Try
<1> QED
  BY <1>6, <1>7, <1>9, <1>10 DEF all

\* A subset that is tried is a number.
LEMMA TriedNumbers ==
    ASSUME NEW fs, NEW cs \in Seq(Call), NEW t \in Tried(fs, cs)
    PROVE  t.i \in Subsets(Deltas(cs, MetaTypes)) /\ t.i \in Nat
<1> DEFINE D == Deltas(cs, MetaTypes)
<1>1. D \in Seq(Delta)
  <2>1. Len(cs) \in 0 .. Len(cs)
    OBVIOUS
  <2> QED
    BY <2>1, DeltasFacts
<1>2. PICK i \in Subsets(D) : t = Try(fs, D, i)
  BY TriedIs
<1>3. t.i = i
  BY <1>2 DEF Try
<1> QED
  BY <1>1, <1>2, <1>3, SubsetsFacts

\* What a call adds to the file systems tried comes after all of them.
LEMMA TriedMore ==
    ASSUME NEW fs, NEW cs \in Seq(Call), NEW c \in Call
    PROVE  /\ Tried(fs, cs) \subseteq Tried(fs, Append(cs, c))
           /\ \A u \in Tried(fs, Append(cs, c)) :
                u \in Tried(fs, cs) \/ \A t \in Tried(fs, cs) : t.i < u.i
<1> DEFINE D == Deltas(cs, MetaTypes)
           more == Kept(c.deltas[1], MetaTypes) \o Kept(c.deltas[2], MetaTypes)
           E == Deltas(Append(cs, c), MetaTypes)
<1>1. D \in Seq(Delta) /\ more \in Seq(Delta) /\ E = D \o more
  <2>1. c.deltas[1] \in Delta /\ c.deltas[2] \in Delta
    BY DEF Call
  <2>2. Kept(c.deltas[1], MetaTypes) \in Seq(Delta) /\ Kept(c.deltas[2], MetaTypes) \in Seq(Delta)
    BY <2>1, KeptLen
  <2>3. /\ E = D \o Kept(c.deltas[1], MetaTypes) \o Kept(c.deltas[2], MetaTypes)
        /\ D \in Seq(Delta)
    BY DeltasAppend
  <2> HIDE DEF D, E
  <2> QED
    BY <2>2, <2>3, ConcatProperties, ConcatAssociative, SMTT(30)
<1>3. /\ \A t \in Tried(fs, cs) : \E i \in Subsets(D) : Good(fs, D, i) /\ t = Try(fs, D, i)
      /\ \A i \in Subsets(D) : Good(fs, D, i) => Try(fs, D, i) \in Tried(fs, cs)
  BY TriedIs
<1>4. /\ \A t \in Tried(fs, Append(cs, c)) : \E i \in Subsets(E) : Good(fs, E, i) /\ t = Try(fs, E, i)
      /\ \A i \in Subsets(E) : Good(fs, E, i) => Try(fs, E, i) \in Tried(fs, Append(cs, c))
  BY TriedIs
<1> HIDE DEF D, E, more
<1>a. /\ Subsets(D) \subseteq Subsets(D \o more)
      /\ \A i \in Subsets(D) : (Good(fs, D \o more, i) <=> Good(fs, D, i)) /\ Try(fs, D \o more, i) = Try(fs, D, i)
      /\ \A i \in Subsets(D \o more) \ Subsets(D) : \A k \in Subsets(D) : k < i
  BY <1>1, GoodMore
<1>2. /\ Subsets(D) \subseteq Subsets(E)
      /\ \A i \in Subsets(D) : (Good(fs, E, i) <=> Good(fs, D, i)) /\ Try(fs, E, i) = Try(fs, D, i)
      /\ \A i \in Subsets(E) \ Subsets(D) : \A k \in Subsets(D) : k < i
  BY <1>1, <1>a
<1>5. Tried(fs, cs) \subseteq Tried(fs, Append(cs, c))
  <2> SUFFICES ASSUME NEW t \in Tried(fs, cs) PROVE t \in Tried(fs, Append(cs, c))
    OBVIOUS
  <2>1. PICK i \in Subsets(D) : Good(fs, D, i) /\ t = Try(fs, D, i)
    BY <1>3
  <2> QED
    BY <1>2, <1>4, <2>1
<1>6. ASSUME NEW u \in Tried(fs, Append(cs, c)), u \notin Tried(fs, cs), NEW t \in Tried(fs, cs)
      PROVE  t.i < u.i
  <2>1. PICK i \in Subsets(E) : Good(fs, E, i) /\ u = Try(fs, E, i)
    BY <1>4
  <2>2. PICK k \in Subsets(D) : t = Try(fs, D, k)
    BY <1>3
  <2>3. i \notin Subsets(D)
    BY <1>2, <1>3, <1>6, <2>1
  <2>4. t.i = k /\ u.i = i
    BY <2>1, <2>2 DEF Try
  <2> QED
    BY <1>2, <2>3, <2>4
<1> QED
  BY <1>5, <1>6

\* More writes explain more data.
LEMMA DataOkMore ==
    ASSUME NEW d1, NEW d2, NEW D, NEW E, D \subseteq E, DataOk(d1, d2, D)
    PROVE  DataOk(d1, d2, E)
BY DEF DataOk

\* The deltas of a longer list.
LEMMA DeltasMore ==
    ASSUME NEW cs \in Seq(Call), NEW c \in Call, NEW types
    PROVE  ToSet(Deltas(cs, types)) \subseteq ToSet(Deltas(Append(cs, c), types))
<1> DEFINE D == Deltas(cs, types)
           E == Deltas(Append(cs, c), types)
           one == Kept(c.deltas[1], types)
           two == Kept(c.deltas[2], types)
<1>1. c.deltas[1] \in Delta /\ c.deltas[2] \in Delta
  BY DEF Call
<1>2. one \in Seq(Delta) /\ two \in Seq(Delta)
  BY <1>1, KeptLen
<1>3. E = D \o one \o two /\ D \in Seq(Delta)
  BY DeltasAppend
<1> HIDE DEF D, E, one, two
<1>4. \A i \in DOMAIN D : i \in DOMAIN E /\ E[i] = D[i]
  <2>1. /\ D \o one \in Seq(Delta) /\ Len(D \o one) = Len(D) + Len(one)
        /\ \A i \in 1 .. Len(D) : (D \o one)[i] = D[i]
    BY <1>2, <1>3, ConcatProperties, LenProperties
  <2>2. /\ E \in Seq(Delta) /\ Len(E) = Len(D \o one) + Len(two)
        /\ \A i \in 1 .. Len(D \o one) : E[i] = (D \o one)[i]
    BY <1>2, <1>3, <2>1, ConcatProperties, LenProperties
  <2>3. Len(D) \in Nat /\ Len(one) \in Nat /\ Len(two) \in Nat
    BY <1>2, <1>3, LenProperties
  <2>4. DOMAIN D = 1 .. Len(D) /\ DOMAIN E = 1 .. Len(E)
    BY <1>3, <2>2, LenProperties
  <2> QED
    BY <2>1, <2>2, <2>3, <2>4
<1>5. ToSet(D) \subseteq ToSet(E)
  BY <1>4 DEF ToSet
<1> QED
  BY <1>5 DEF D, E

\* A call that is appended leaves what check accepts: the file system that
\* decides is still the first, and has more writes to explain its data.
LEMMA AcceptsMore ==
    ASSUME NEW fs, NEW cs \in Seq(Call), NEW c \in Call, NEW image,
           Accepts(Tried(fs, cs), image, cs)
    PROVE  Accepts(Tried(fs, Append(cs, c)), image, Append(cs, c))
<1> DEFINE tried == Tried(fs, cs)
           more == Tried(fs, Append(cs, c))
<1>1. PICK t \in tried : /\ Meta(t.image) = Meta(image)
                         /\ \A i \in Matches(tried, image) : t.i <= i
                         /\ t.image = image \/ check_data(t, image, cs)
  BY DEF Accepts
<1>2. tried \subseteq more /\ \A u \in more : u \in tried \/ t.i < u.i
  BY <1>1, TriedMore
<1>3. t.i \in Nat /\ \A u \in more : u.i \in Nat
  <2>1. Append(cs, c) \in Seq(Call)
    BY AppendProperties
  <2> QED
    BY <1>1, <2>1, TriedNumbers
<1> HIDE DEF tried, more
<1>4. ASSUME NEW i \in Matches(more, image) PROVE t.i <= i
  <2>1. PICK u \in more : Meta(u.image) = Meta(image) /\ i = u.i
    BY <1>4 DEF Matches
  <2>2. CASE u \in tried
    <3>1. i \in Matches(tried, image)
      BY <2>1, <2>2 DEF Matches
    <3> QED
      BY <1>1, <3>1
  <2>3. CASE t.i < u.i
    BY <1>3, <2>1, <2>3
  <2> QED
    BY <1>2, <2>2, <2>3
<1>5. ASSUME check_data(t, image, cs) PROVE check_data(t, image, Append(cs, c))
  <2> SUFFICES ASSUME NEW p \in DOMAIN image, image[p].data # t.image[p].data
               PROVE  DataOk(t.image[p].data, image[p].data,
                        {x \in ToSet(Deltas(Append(cs, c), DataTypes)) : x.target = IdAt(t.fs, p)})
    BY DEF check_data
  <2>1. DataOk(t.image[p].data, image[p].data,
               {x \in ToSet(Deltas(cs, DataTypes)) : x.target = IdAt(t.fs, p)})
    BY <1>5 DEF check_data
  <2>2. ToSet(Deltas(cs, DataTypes)) \subseteq ToSet(Deltas(Append(cs, c), DataTypes))
    BY DeltasMore
  <2>3. {x \in ToSet(Deltas(cs, DataTypes)) : x.target = IdAt(t.fs, p)}
          \subseteq {x \in ToSet(Deltas(Append(cs, c), DataTypes)) : x.target = IdAt(t.fs, p)}
    BY <2>2
  <2> QED
    BY <2>1, <2>3, DataOkMore
<1> QED
  BY <1>1, <1>2, <1>4, <1>5 DEF Accepts, more

-----------------------------------------------------------------------------
(* File systems with their references counted                                *)

Object == [type : {"file", "dir"}, ref : Nat, data : Seq({0, 1})]

\* A file system in order: entries are in directories and name objects, which
\* have their references counted.
Wired(fs) ==
    /\ IsFiniteSet(fs.ent)
    /\ \A id \in Ids(fs) : fs.obj[id] \in Object /\ fs.obj[id].ref = Links(fs.ent, id)
    /\ Root \in Ids(fs) /\ fs.obj[Root].type = "dir"
    /\ \A e \in fs.ent : /\ e[1] \in Ids(fs) /\ fs.obj[e[1]].type = "dir"
                         /\ e[3] \in Ids(fs) /\ e[3] # Root

\* One entry more, one less.
LEMMA LinksFacts ==
    ASSUME NEW E, IsFiniteSet(E), NEW id
    PROVE  /\ Links(E, id) \in Nat
           /\ \A e : e \notin E => Links(E \cup {e}, id) = IF e[3] = id THEN Links(E, id) + 1 ELSE Links(E, id)
           /\ \A e \in E : Links(E \ {e}, id) = IF e[3] = id THEN Links(E, id) - 1 ELSE Links(E, id)
           /\ Links(E, id) = 0 <=> \A e \in E : e[3] # id
<1> DEFINE T == {e \in E : e[3] = id}
<1>1. IsFiniteSet(T)
  BY FS_Subset
<1>2. Links(E, id) = Cardinality(T)
  BY DEF Links
<1>3. Cardinality(T) \in Nat /\ (Cardinality(T) = 0 <=> T = {})
  BY <1>1, FS_CardinalityType, FS_EmptySet
<1>4. ASSUME NEW e, e \notin E
      PROVE  Links(E \cup {e}, id) = IF e[3] = id THEN Links(E, id) + 1 ELSE Links(E, id)
  <2>1. CASE e[3] = id
    <3>1. {f \in E \cup {e} : f[3] = id} = T \cup {e} /\ e \notin T
      BY <1>4, <2>1
    <3>2. Cardinality(T \cup {e}) = Cardinality(T) + 1
      BY <1>1, <3>1, FS_AddElement
    <3> QED
      BY <1>2, <2>1, <3>1, <3>2 DEF Links
  <2>2. CASE e[3] # id
    <3>1. {f \in E \cup {e} : f[3] = id} = T
      BY <2>2
    <3> QED
      BY <1>2, <2>2, <3>1 DEF Links
  <2> QED
    BY <2>1, <2>2
<1>5. ASSUME NEW e \in E
      PROVE  Links(E \ {e}, id) = IF e[3] = id THEN Links(E, id) - 1 ELSE Links(E, id)
  <2>1. CASE e[3] = id
    <3>1. {f \in E \ {e} : f[3] = id} = T \ {e} /\ e \in T
      BY <2>1
    <3>2. Cardinality(T \ {e}) = Cardinality(T) - 1
      BY <1>1, <3>1, FS_RemoveElement
    <3> QED
      BY <1>2, <2>1, <3>1, <3>2 DEF Links
  <2>2. CASE e[3] # id
    <3>1. {f \in E \ {e} : f[3] = id} = T
      BY <2>2
    <3> QED
      BY <1>2, <2>2, <3>1 DEF Links
  <2> QED
    BY <2>1, <2>2
<1> QED
  BY <1>2, <1>3, <1>4, <1>5

\* Counting references changes nothing else.
LEMMA CountsFacts ==
    ASSUME NEW o \in Object, NEW n \in Nat
    PROVE  /\ Counts(o, n) \in Object /\ Counts(o, n).ref = n
           /\ Counts(o, n).type = o.type /\ Counts(o, n).data = o.data
BY DEF Counts, Object

\* A new entry of a known object in a directory.
LEMMA LinkWired ==
    ASSUME NEW fs, IsFS(fs), Wired(fs), NEW d, NEW c, NEW n,
           d \in Ids(fs), fs.obj[d].type = "dir", c \in Ids(fs), c # Root, <<d, n, c>> \notin fs.ent
    PROVE  /\ Wired(link_obj(fs, d, c, n))
           /\ \A id \in Ids(fs) : /\ link_obj(fs, d, c, n).obj[id].type = fs.obj[id].type
                                  /\ link_obj(fs, d, c, n).obj[id].data = fs.obj[id].data
<1> DEFINE g == link_obj(fs, d, c, n)
           e == <<d, n, c>>
           o == [fs.obj EXCEPT ![c] = Counts(fs.obj[c], fs.obj[c].ref + 1)]
<1>1. IsFS(g) /\ Ids(g) = Ids(fs) /\ g.ent = fs.ent \cup {e}
  BY LinkFacts
<1>2. g.obj = o
  BY DEF link_obj, IsFS
<1>3. e[1] = d /\ e[3] = c
  OBVIOUS
<1> HIDE DEF g, o, e
<1>4. IsFiniteSet(g.ent)
  BY <1>1, FS_AddElement DEF Wired
<1>5. \A id \in Ids(fs) : fs.obj[id] \in Object /\ fs.obj[id].ref = Links(fs.ent, id) /\ Links(fs.ent, id) \in Nat
  BY LinksFacts DEF Wired
<1>6. ASSUME NEW id \in Ids(fs)
      PROVE  /\ g.obj[id] \in Object /\ g.obj[id].ref = Links(g.ent, id)
             /\ g.obj[id].type = fs.obj[id].type /\ g.obj[id].data = fs.obj[id].data
  <2>1. Links(g.ent, id) = IF c = id THEN Links(fs.ent, id) + 1 ELSE Links(fs.ent, id)
    BY <1>1, <1>3, LinksFacts DEF Wired, e
  <2>2. CASE id = c
    <3>1. g.obj[id] = Counts(fs.obj[c], fs.obj[c].ref + 1)
      BY <1>2, <2>2 DEF o, Ids
    <3>2. fs.obj[c] \in Object /\ fs.obj[c].ref \in Nat
      BY <1>5, <2>2
    <3> DEFINE x == fs.obj[c]
               m == x.ref + 1
               y == g.obj[id]
    <3>a. y = Counts(x, m) /\ x \in Object /\ m \in Nat
      BY <3>1, <3>2
    <3> HIDE DEF x, m, y
    <3>b. y \in Object /\ y.ref = m /\ y.type = x.type /\ y.data = x.data
      BY <3>a, CountsFacts
    <3>3. /\ g.obj[id] \in Object /\ g.obj[id].ref = fs.obj[c].ref + 1
          /\ g.obj[id].type = fs.obj[c].type /\ g.obj[id].data = fs.obj[c].data
      BY <3>b DEF x, m, y
    <3>4. Links(g.ent, id) = fs.obj[c].ref + 1
      BY <1>5, <2>1, <2>2
    <3> QED
      BY <2>2, <3>3, <3>4
  <2>3. CASE id # c
    <3>1. g.obj[id] = fs.obj[id]
      BY <1>2, <2>3 DEF o, Ids
    <3> QED
      BY <1>5, <2>1, <2>3, <3>1
  <2> QED
    BY <2>2, <2>3
<1>7. Wired(g)
  BY <1>1, <1>3, <1>4, <1>6 DEF Wired
<1> QED
  BY <1>6, <1>7 DEF g

\* A new object.
LEMMA AddWired ==
    ASSUME NEW fs, IsFS(fs), Wired(fs), NEW id, id \notin Ids(fs), NEW kind \in {"file", "dir"}
    PROVE  /\ Wired(add_new_obj(fs, new_obj(kind), id))
           /\ \A x \in Ids(fs) : add_new_obj(fs, new_obj(kind), id).obj[x] = fs.obj[x]
<1> DEFINE g == add_new_obj(fs, new_obj(kind), id)
<1>1. IsFS(g) /\ Ids(g) = Ids(fs) \cup {id} /\ g.ent = fs.ent
  BY StoreFacts
<1>2. g.obj = Stored(fs.obj, id, new_obj(kind))
  BY DEF add_new_obj, IsFS
<1>3. g.obj[id] = new_obj(kind) /\ \A x \in Ids(fs) : g.obj[x] = fs.obj[x]
  BY <1>2 DEF Stored, Ids
<1>4. new_obj(kind) \in Object /\ new_obj(kind).ref = 0
  <2>1. << >> \in Seq({0, 1})
    OBVIOUS
  <2> QED
    BY <2>1 DEF new_obj, Object
<1>5. Links(fs.ent, id) = 0
  BY LinksFacts DEF Wired
<1> HIDE DEF g
<1>6. Wired(g)
  BY <1>1, <1>3, <1>4, <1>5 DEF Wired
<1> QED
  BY <1>3, <1>6 DEF g

\* No entry, or one, that can go: a directory that goes with its last entry is
\* empty.
CanGo(fs, gone, e) ==
    /\ gone = {} \/ (gone = {e} /\ e \in fs.ent)
    /\ gone = {e} /\ Links(fs.ent, e[3]) = 1 => \A f \in fs.ent : f[1] # e[3]

\* What is left is in order.
LEMMA DropWired ==
    ASSUME NEW fs, IsFS(fs), Wired(fs), NEW gone, NEW e, CanGo(fs, gone, e)
    PROVE  /\ Wired(Drop(fs, gone)) /\ Drop(fs, gone).ent = fs.ent \ gone
           /\ Ids(Drop(fs, gone)) = Ids(fs) \ Dead(fs, gone)
           /\ Dead(fs, gone) = {c \in Ids(fs) : gone = {e} /\ c = e[3] /\ Links(fs.ent, c) = 1}
           /\ \A id \in Ids(Drop(fs, gone)) : /\ Drop(fs, gone).obj[id].type = fs.obj[id].type
                                              /\ Drop(fs, gone).obj[id].data = fs.obj[id].data
<1> DEFINE g == Drop(fs, gone)
           N(c) == Cardinality({f \in gone : f[3] = c})
           ents == fs.ent \ gone
           obj == [c \in Ids(fs) \ Dead(fs, gone) |-> Counts(fs.obj[c], fs.obj[c].ref - N(c))]
<1>0. /\ gone = {} \/ (gone = {e} /\ e \in fs.ent)
      /\ gone = {e} /\ Links(fs.ent, e[3]) = 1 => \A f \in fs.ent : f[1] # e[3]
  BY DEF CanGo
<1>1. g = [[fs EXCEPT !.ent = ents] EXCEPT !.obj = obj]
  BY DEF Drop, IsFS
<1>2. \A id \in Ids(fs) : fs.obj[id] \in Object /\ fs.obj[id].ref = Links(fs.ent, id) /\ Links(fs.ent, id) \in Nat
  BY LinksFacts DEF Wired
<1>3. ASSUME NEW c PROVE N(c) = IF gone = {e} /\ c = e[3] THEN 1 ELSE 0
  <2>1. CASE gone = {e} /\ c = e[3]
    <3>1. {f \in gone : f[3] = c} = {e}
      BY <2>1
    <3> QED
      BY <2>1, <3>1, FS_Singleton
  <2>2. CASE ~(gone = {e} /\ c = e[3])
    <3>1. {f \in gone : f[3] = c} = {}
      BY <1>0, <2>2
    <3> QED
      BY <2>2, <3>1, FS_EmptySet
  <2> QED
    BY <2>1, <2>2
<1>4. Dead(fs, gone) = {c \in Ids(fs) : gone = {e} /\ c = e[3] /\ Links(fs.ent, c) = 1}
  <2>1. Dead(fs, gone) = {c \in Ids(fs) : (\E f \in gone : f[3] = c) /\ fs.obj[c].ref = N(c)}
    BY DEF Dead
  <2>2. ASSUME NEW c \in Ids(fs) PROVE (\E f \in gone : f[3] = c) <=> gone = {e} /\ c = e[3]
    BY <1>0
  <2> HIDE DEF N
  <2> QED
    BY <1>2, <1>3, <2>1, <2>2
<1> HIDE DEF N
<1>5. g.ent = ents /\ Ids(g) = Ids(fs) \ Dead(fs, gone) /\ g.obj = obj
  BY <1>1 DEF IsFS, Ids
<1> HIDE DEF g
<1>6. IsFiniteSet(g.ent)
  BY <1>5, FS_Subset DEF Wired
<1>7. ASSUME NEW id \in Ids(g)
      PROVE  /\ g.obj[id] \in Object /\ g.obj[id].ref = Links(g.ent, id)
             /\ g.obj[id].type = fs.obj[id].type /\ g.obj[id].data = fs.obj[id].data
  <2>1. id \in Ids(fs) /\ id \notin Dead(fs, gone)
    BY <1>5
  <2>2. g.obj[id] = Counts(fs.obj[id], fs.obj[id].ref - N(id))
    BY <1>5, <2>1
  <2>3. Links(g.ent, id) = fs.obj[id].ref - N(id) /\ Links(g.ent, id) \in Nat
    <3>1. CASE gone = {}
      <4>1. g.ent = fs.ent /\ N(id) = 0
        BY <1>3, <1>5, <3>1
      <4> QED
        BY <1>2, <2>1, <4>1
    <3>2. CASE gone = {e} /\ e \in fs.ent
      <4>1. Links(g.ent, id) = IF e[3] = id THEN Links(fs.ent, id) - 1 ELSE Links(fs.ent, id)
        BY <1>5, <3>2, LinksFacts DEF Wired
      <4>2. Links(g.ent, id) \in Nat
        BY <1>6, LinksFacts
      <4> QED
        BY <1>2, <1>3, <2>1, <3>2, <4>1, <4>2
    <3> QED
      BY <1>0, <3>1, <3>2
  <2>4. fs.obj[id] \in Object
    BY <1>2, <2>1
  <2>5. g.obj[id] = Counts(fs.obj[id], Links(g.ent, id)) /\ Links(g.ent, id) \in Nat
    BY <2>2, <2>3
  <2> DEFINE x == fs.obj[id]
             m == Links(g.ent, id)
             y == g.obj[id]
  <2>6. y = Counts(x, m) /\ x \in Object /\ m \in Nat
    BY <2>4, <2>5
  <2> HIDE DEF x, m, y
  <2>7. y \in Object /\ y.ref = m /\ y.type = x.type /\ y.data = x.data
    BY <2>6, CountsFacts
  <2> QED
    BY <2>7 DEF x, m, y
<1>8. ASSUME NEW f \in g.ent
      PROVE  /\ f[1] \in Ids(g) /\ g.obj[f[1]].type = "dir" /\ f[3] \in Ids(g) /\ f[3] # Root
  <2>1. f \in fs.ent /\ f \notin gone
    BY <1>5
  <2>2. f[1] \in Ids(fs) /\ fs.obj[f[1]].type = "dir" /\ f[3] \in Ids(fs) /\ f[3] # Root
    BY <2>1 DEF Wired
  <2>3. f[1] \in Ids(g)
    BY <1>0, <1>4, <1>5, <2>1, <2>2
  <2>4. f[3] \in Ids(g)
    <3>1. SUFFICES ASSUME f[3] \in Dead(fs, gone) PROVE FALSE
      BY <1>5, <2>2
    <3>2. gone = {e} /\ f[3] = e[3] /\ Links(fs.ent, e[3]) = 1 /\ e \in fs.ent
      BY <1>0, <1>4, <3>1
    <3>3. Links(fs.ent \ {e}, e[3]) = 0 /\ IsFiniteSet(fs.ent \ {e})
      <4>1. IsFiniteSet(fs.ent)
        BY DEF Wired
      <4>2. Links(fs.ent \ {e}, e[3]) = Links(fs.ent, e[3]) - 1
        BY <3>2, <4>1, LinksFacts
      <4> QED
        BY <3>2, <4>1, <4>2, FS_RemoveElement
    <3>4. f \in fs.ent \ {e}
      BY <2>1, <3>2
    <3> QED
      BY <3>2, <3>3, <3>4, LinksFacts
  <2> QED
    BY <1>7, <2>2, <2>3, <2>4
<1>9. Root \in Ids(g) /\ g.obj[Root].type = "dir"
  <2>1. Root \notin Dead(fs, gone)
    BY <1>0, <1>4 DEF Wired
  <2>2. Root \in Ids(g)
    BY <1>5, <2>1 DEF Wired
  <2> QED
    BY <1>7, <2>2 DEF Wired
<1>10. Wired(g)
  BY <1>6, <1>7, <1>8, <1>9 DEF Wired
<1> QED
  BY <1>4, <1>5, <1>7, <1>10 DEF g

\* unlink_obj of an entry, when a directory that goes is empty.
LEMMA UnlinkWired ==
    ASSUME NEW fs, IsFS(fs), Wired(fs), NEW e \in fs.ent, Named(fs, e[1], e[2]) = {e},
           Links(fs.ent, e[3]) = 1 => \A f \in fs.ent : f[1] # e[3]
    PROVE  /\ Wired(unlink_obj(fs, e[1], e[2])) /\ unlink_obj(fs, e[1], e[2]).ent = fs.ent \ {e}
           /\ Ids(unlink_obj(fs, e[1], e[2])) = Ids(fs) \ {c \in Ids(fs) : c = e[3] /\ Links(fs.ent, c) = 1}
           /\ \A id \in Ids(unlink_obj(fs, e[1], e[2])) :
                /\ unlink_obj(fs, e[1], e[2]).obj[id].type = fs.obj[id].type
                /\ unlink_obj(fs, e[1], e[2]).obj[id].data = fs.obj[id].data
<1> DEFINE gone == {e}
           none == {}
           mid == Drop(fs, gone)
           g == Drop(mid, none)
<1>0. gone = {e} /\ none = {} /\ none # {e}
  OBVIOUS
<1> HIDE DEF gone, none
<1>1. /\ Wired(mid) /\ mid.ent = fs.ent \ gone /\ Ids(mid) = Ids(fs) \ Dead(fs, gone)
      /\ Dead(fs, gone) = {c \in Ids(fs) : gone = {e} /\ c = e[3] /\ Links(fs.ent, c) = 1}
      /\ \A id \in Ids(mid) : mid.obj[id].type = fs.obj[id].type /\ mid.obj[id].data = fs.obj[id].data
  <2>1. CanGo(fs, gone, e)
    BY <1>0 DEF CanGo
  <2> QED
    BY <2>1, DropWired
<1>2. IsFS(mid)
  BY DropFacts
<1>3. {f \in fs.ent : f[1] \in Dead(fs, gone)} = none
  BY <1>0, <1>1
<1>4. unlink_obj(fs, e[1], e[2]) = g
  BY <1>0, <1>3 DEF unlink_obj
<1> HIDE DEF mid
<1>5. /\ Wired(g) /\ g.ent = mid.ent \ none /\ Ids(g) = Ids(mid) \ Dead(mid, none)
      /\ \A id \in Ids(g) : g.obj[id].type = mid.obj[id].type /\ g.obj[id].data = mid.obj[id].data
  <2>1. CanGo(mid, none, e)
    BY <1>0 DEF CanGo
  <2> QED
    BY <1>1, <1>2, <2>1, DropWired
<1>6. Dead(mid, none) = {}
  BY <1>0 DEF Dead
<1> HIDE DEF g
<1> QED
  BY <1>0, <1>1, <1>4, <1>5, <1>6

\* Data that is written.
LEMMA WriteWired ==
    ASSUME NEW fs, IsFS(fs), Wired(fs), NEW id, id \in Ids(fs), NEW data \in Seq({0, 1})
    PROVE  Wired([fs EXCEPT !.obj[id].data = data])
<1> DEFINE g == [fs EXCEPT !.obj[id].data = data]
           o == [fs.obj EXCEPT ![id].data = data]
<1>1. Ids(g) = Ids(fs) /\ g.ent = fs.ent
  <2>1. Ids(g) = Ids(fs)
    <3>1. DOMAIN o = DOMAIN fs.obj
      OBVIOUS
    <3>2. g.obj = o
      BY DEF IsFS
    <3> HIDE DEF o, g
    <3> QED
      BY <3>1, <3>2 DEF Ids
  <2>2. g.ent = fs.ent
    BY DEF IsFS
  <2> QED
    BY <2>1, <2>2
<1>2. g.obj = o
  BY DEF IsFS
<1>3. ASSUME NEW x \in Ids(fs)
      PROVE  g.obj[x] \in Object /\ g.obj[x].ref = fs.obj[x].ref /\ g.obj[x].type = fs.obj[x].type
  <2>1. fs.obj[x] \in Object
    BY DEF Wired
  <2>2. g.obj[x] = IF x = id THEN [fs.obj[x] EXCEPT !.data = data] ELSE fs.obj[x]
    BY <1>2 DEF Ids
  <2> HIDE DEF g
  <2> QED
    BY <2>1, <2>2 DEF Object
<1> HIDE DEF g
<1>4. Wired(g)
  BY <1>1, <1>3 DEF Wired
<1> QED
  BY <1>4 DEF g

\* What truncate and pwrite make of data.
LEMMA CutFacts ==
    ASSUME NEW data \in Seq({0, 1}), NEW length \in Nat
    PROVE  Cut(data, length) \in Seq({0, 1}) /\ Len(Cut(data, length)) = length
<1>1. ASSUME NEW i \in 1 .. length
      PROVE  (IF i <= Len(data) THEN data[i] ELSE 0) \in {0, 1}
  <2>1. CASE i <= Len(data)
    <3>1. i \in 1 .. Len(data)
      BY <2>1
    <3> QED
      BY <2>1, <3>1, ElementOfSeq
  <2> QED
    BY <2>1
<1> QED
  BY <1>1 DEF Cut

\* What a write leaves.
LEMMA PutFacts ==
    ASSUME NEW data \in Seq({0, 1}), NEW w \in Writes
    PROVE  /\ Put(data, w) \in Seq({0, 1})
           /\ Len(Put(data, w)) = IF Len(data) < w[2] THEN w[2] ELSE Len(data)
<1> DEFINE n == IF Len(data) < w[2] THEN w[2] ELSE Len(data)
<1>1. n \in Nat /\ w[1] \in Nat /\ w[2] \in Nat
  BY StableFSAssumption
<1>2. ASSUME NEW i \in 1 .. n
      PROVE  (IF w[1] < i /\ i <= w[2] THEN 1 ELSE IF i <= Len(data) THEN data[i] ELSE 0) \in {0, 1}
  <2>1. CASE i <= Len(data)
    <3>1. i \in 1 .. Len(data)
      BY <1>1, <2>1
    <3>2. data[i] \in {0, 1}
      BY <3>1, ElementOfSeq
    <3> QED
      BY <2>1, <3>2
  <2> QED
    BY <2>1
<1>3. Put(data, w) = [i \in 1 .. n |->
        IF w[1] < i /\ i <= w[2] THEN 1 ELSE IF i <= Len(data) THEN data[i] ELSE 0]
  BY DEF Put
<1> HIDE DEF n
<1>4. Put(data, w) \in Seq({0, 1}) /\ Len(Put(data, w)) = n
  BY <1>1, <1>2, <1>3
<1> QED
  BY <1>4 DEF n

-----------------------------------------------------------------------------
(* Names: each is given to one entry                                         *)

\* The entries that pending calls add or remove, and all entries known.
Changes(cs) == {<<d.target, d.name, d.child>> : d \in {x \in Pending(cs) : x.type \in EntryTypes}}
Known == stable.ent \cup volatile.ent \cup Changes(calls)

\* A name is given to one entry only.
Fresh ==
    /\ \A e \in Known : e \in Nat \X Nat \X Nat /\ e[2] < names
    /\ \A e, f \in Known : e[2] = f[2] => e = f

InOrder ==
    /\ Wired(volatile)
    /\ IsFiniteSet(stable.ent) /\ \A id \in Ids(stable) : stable.obj[id] \in Object
    /\ ongoing.op = "fsync" => ongoing.id \in Ids(volatile)

\* A call adds its deltas.
LEMMA PendingMore ==
    ASSUME NEW cs \in Seq(Call), NEW c \in Call
    PROVE  Pending(Append(cs, c)) = Pending(cs) \cup {c.deltas[1], c.deltas[2]}
<1> DEFINE b == Append(cs, c)
<1>1. /\ b \in Seq(Call) /\ Len(b) = Len(cs) + 1 /\ b[Len(cs) + 1] = c /\ Len(cs) \in Nat
      /\ \A j \in 1 .. Len(cs) : b[j] = cs[j]
  BY AppendProperties, LenProperties
<1>2. DOMAIN b = 1 .. (Len(cs) + 1) /\ DOMAIN cs = 1 .. Len(cs)
  BY <1>1, LenProperties
<1> HIDE DEF b
<1>3. ASSUME NEW d \in Pending(b) PROVE d \in Pending(cs) \cup {c.deltas[1], c.deltas[2]}
  <2>1. PICK j \in 1 .. (Len(cs) + 1), k \in 1 .. 2 : d = b[j].deltas[k]
    BY <1>2 DEF Pending
  <2>2. CASE j = Len(cs) + 1
    BY <1>1, <2>1, <2>2
  <2>3. CASE j # Len(cs) + 1
    <3>1. j \in 1 .. Len(cs)
      BY <1>1, <2>3
    <3> QED
      BY <1>1, <1>2, <2>1, <3>1 DEF Pending
  <2> QED
    BY <2>2, <2>3
<1>4. ASSUME NEW d \in Pending(cs) PROVE d \in Pending(b)
  <2>1. PICK j \in 1 .. Len(cs), k \in 1 .. 2 : d = cs[j].deltas[k]
    BY <1>2 DEF Pending
  <2>2. j \in DOMAIN b /\ b[j] = cs[j]
    BY <1>1, <1>2, <2>1
  <2> QED
    BY <2>1, <2>2 DEF Pending
<1>5. c.deltas[1] \in Pending(b) /\ c.deltas[2] \in Pending(b)
  <2>1. Len(cs) + 1 \in DOMAIN b /\ 1 \in 1 .. 2 /\ 2 \in 1 .. 2
    BY <1>1, <1>2
  <2> QED
    BY <1>1, <2>1 DEF Pending
<1> QED
  BY <1>3, <1>4, <1>5 DEF b

\* It adds at most one entry to the changes, and it is told which.
LEMMA ChangesMore ==
    ASSUME NEW cs \in Seq(Call), NEW c \in Call, NEW E,
           \A k \in 1 .. 2 : c.deltas[k].type \in EntryTypes =>
               <<c.deltas[k].target, c.deltas[k].name, c.deltas[k].child>> \in E
    PROVE  Changes(Append(cs, c)) \subseteq Changes(cs) \cup E
<1>1. SUFFICES ASSUME NEW e \in Changes(Append(cs, c)) PROVE e \in Changes(cs) \cup E
  OBVIOUS
<1>2. PICK d \in Pending(Append(cs, c)) : d.type \in EntryTypes /\ e = <<d.target, d.name, d.child>>
  BY <1>1 DEF Changes
<1>3. CASE d \in Pending(cs)
  BY <1>2, <1>3 DEF Changes
<1>4. CASE d = c.deltas[1]
  <2>1. 1 \in 1 .. 2
    OBVIOUS
  <2> QED
    BY <1>2, <1>4, <2>1
<1>5. CASE d = c.deltas[2]
  <2>1. 2 \in 1 .. 2
    OBVIOUS
  <2> QED
    BY <1>2, <1>5, <2>1
<1> QED
  BY <1>2, <1>3, <1>4, <1>5, PendingMore

\* A new name, or none.
LEMMA FreshName ==
    ASSUME Fresh, names \in Nat, NEW d \in Nat, NEW c \in Nat,
           Known' \subseteq Known \cup {<<d, names, c>>}, names' = names + 1
    PROVE  Fresh'
<1> DEFINE g == <<d, names, c>>
<1>1. g \in Nat \X Nat \X Nat /\ g[2] = names
  OBVIOUS
<1> HIDE DEF g
<1>2. ASSUME NEW e \in Known' PROVE e \in Nat \X Nat \X Nat /\ e[2] < names' /\ (e \in Known \/ e = g)
  <2>1. e \in Known \/ e = g
    BY DEF g
  <2>2. CASE e \in Known
    <3>1. e \in Nat \X Nat \X Nat /\ e[2] < names /\ e[2] \in Nat
      BY <2>2 DEF Fresh
    <3> QED
      BY <2>2, <3>1
  <2>3. CASE e = g
    BY <1>1, <2>3
  <2> QED
    BY <2>1, <2>2, <2>3
<1>3. ASSUME NEW e \in Known', NEW f \in Known', e[2] = f[2] PROVE e = f
  <2>1. (e \in Known \/ e = g) /\ (f \in Known \/ f = g)
    BY <1>2
  <2>2. \A x \in Known : x[2] < names /\ x[2] \in Nat
    BY DEF Fresh
  <2>3. \A x \in Known : x[2] # g[2]
    BY <1>1, <2>2
  <2> QED
    BY <1>3, <2>1, <2>3 DEF Fresh
<1> QED
  BY <1>2, <1>3 DEF Fresh

\* No new name.
LEMMA FreshSame == ASSUME Fresh, Known' \subseteq Known, names' = names PROVE Fresh'
BY DEF Fresh

\* The entry of a name.
LEMMA OneNamed ==
    ASSUME Fresh, NEW e \in volatile.ent
    PROVE  Named(volatile, e[1], e[2]) = {e} /\ e = <<e[1], e[2], e[3]>>
<1>1. volatile.ent \subseteq Known
  BY DEF Known
<1>2. e \in Nat \X Nat \X Nat
  BY <1>1 DEF Fresh
<1>3. \A f \in volatile.ent : f[2] = e[2] => f = e
  BY <1>1 DEF Fresh
<1> QED
  BY <1>2, <1>3 DEF Named

-----------------------------------------------------------------------------
(* Calls keep names and references in order                                  *)

\* The entries known after a call.
LEMMA KnownMore ==
    ASSUME calls \in Seq(Call), NEW op \in {"open", "mkdir", "unlink", "rmdir", "link", "rename", "ftruncate", "pwrite64"},
           NEW one \in Delta, NEW two \in Delta, NEW E,
           calls' = Append(calls, [op |-> op, deltas |-> <<one, two>>]), stable' = stable,
           volatile'.ent \subseteq volatile.ent \cup E,
           one.type \in EntryTypes => <<one.target, one.name, one.child>> \in Known \cup E,
           two.type \in EntryTypes => <<two.target, two.name, two.child>> \in Known \cup E
    PROVE  Known' \subseteq Known \cup E
<1> DEFINE c == [op |-> op, deltas |-> <<one, two>>]
           F == Known \cup E
<1>1. c \in Call /\ c.deltas[1] = one /\ c.deltas[2] = two
  BY DEF Call
<1>a. /\ one.type \in EntryTypes => <<one.target, one.name, one.child>> \in F
      /\ two.type \in EntryTypes => <<two.target, two.name, two.child>> \in F
  OBVIOUS
<1> HIDE DEF c, F
<1>2. ASSUME NEW k \in 1 .. 2, c.deltas[k].type \in EntryTypes
      PROVE  <<c.deltas[k].target, c.deltas[k].name, c.deltas[k].child>> \in F
  <2>1. c.deltas[k] = one \/ c.deltas[k] = two
    BY <1>1
  <2> QED
    BY <1>2, <1>a, <2>1
<1>3. Changes(Append(calls, c)) \subseteq Changes(calls) \cup F
  BY <1>1, <1>2, ChangesMore
<1>4. calls' = Append(calls, c)
  BY DEF c
<1>5. Changes(calls') \subseteq Changes(calls) \cup F
  BY <1>3, <1>4
<1> QED
  BY <1>5 DEF Known, F

\* creat and mkdir.
LEMMA MakeOrder ==
    ASSUME OInv, Fresh, InOrder, NEW op \in {"open", "mkdir"}, NEW kind \in {"file", "dir"}, NEW d \in Dirs,
           Enter(op, volatile.next, 2, Add(volatile.next, kind), AddEntry(d, names, volatile.next)),
           volatile' = Make(volatile, kind, d, names), names' = names + 1
    PROVE  Fresh' /\ InOrder'
<1> DEFINE id == volatile.next
           e == <<d, names, id>>
           mid == add_new_obj(volatile, new_obj(kind), id)
           g == link_obj(mid, d, id, names)
<1>0. /\ IsFS(volatile) /\ id \in Nat /\ id # Root /\ id \notin Ids(volatile) /\ names \in Nat /\ d \in Nat
      /\ calls \in Seq(Call) /\ d \in Ids(volatile) /\ volatile.obj[d].type = "dir"
  BY DEF OInv, Numbered, Listed, Dirs, Root
<1>1. /\ Wired(mid) /\ IsFS(mid) /\ Ids(mid) = Ids(volatile) \cup {id} /\ mid.ent = volatile.ent
      /\ \A x \in Ids(volatile) : mid.obj[x] = volatile.obj[x]
  BY <1>0, AddWired, StoreFacts DEF InOrder
<1>2. e \notin mid.ent
  <2>1. \A f \in volatile.ent : f[3] \in Ids(volatile)
    BY DEF InOrder, Wired
  <2>2. e[3] = id
    OBVIOUS
  <2> HIDE DEF e, id
  <2> QED
    BY <1>0, <1>1, <2>1, <2>2
<1> HIDE DEF mid
<1>3. Wired(g) /\ IsFS(g) /\ g.ent = volatile.ent \cup {e}
  BY <1>0, <1>1, <1>2, LinkWired, LinkFacts
<1>4. volatile' = [g EXCEPT !.next = @ + 1]
  BY DEF Make, mid
<1> HIDE DEF g
<1>5. volatile'.ent = g.ent /\ volatile'.obj = g.obj
  BY <1>3, <1>4 DEF IsFS
<1>6. Wired(volatile')
  BY <1>3, <1>5 DEF Wired, Ids
<1>7. stable' = stable /\ ongoing' = [op |-> op, id |-> id]
  BY DEF Enter, Begin
<1>8. InOrder'
  BY <1>6, <1>7 DEF InOrder
<1> DEFINE one == Add(id, kind)
           two == AddEntry(d, names, id)
<1>9. one \in Delta /\ one.type \notin EntryTypes
  BY <1>0, AddType DEF EntryTypes
<1>10. two \in Delta /\ <<two.target, two.name, two.child>> = e
  BY <1>0 DEF Delta, AddEntry, EntryTypes
<1>11. calls' = Append(calls, [op |-> op, deltas |-> <<one, two>>])
  BY DEF Enter
<1>12. op \in {"open", "mkdir", "unlink", "rmdir", "link", "rename", "ftruncate", "pwrite64"}
  OBVIOUS
<1> HIDE DEF one, two
<1>13. Known' \subseteq Known \cup {e}
  <2> HIDE DEF e
  <2> QED
    BY <1>0, <1>3, <1>5, <1>7, <1>9, <1>10, <1>11, <1>12, KnownMore
<1>14. Fresh'
  BY <1>0, <1>13, FreshName
<1> QED
  BY <1>8, <1>14

\* unlink and rmdir.
LEMMA RemoveOrder ==
    ASSUME OInv, Fresh, InOrder, NEW op \in {"unlink", "rmdir"}, NEW e \in volatile.ent,
           Enter(op, e[3], 1, RemoveEntry(e[1], e[2], e[3]), Invalid),
           \A f \in volatile.ent : f[1] # e[3],
           volatile' = unlink_obj(volatile, e[1], e[2]), names' = names
    PROVE  Fresh' /\ InOrder'
<1>0. /\ IsFS(volatile) /\ calls \in Seq(Call) /\ e[1] \in Nat /\ e[2] \in Nat /\ e[3] \in Nat
      /\ Named(volatile, e[1], e[2]) = {e} /\ e = <<e[1], e[2], e[3]>>
  BY EntryFacts, OneNamed DEF OInv, Numbered, Listed
<1>1. Wired(volatile') /\ volatile'.ent = volatile.ent \ {e}
  BY <1>0, UnlinkWired DEF InOrder
<1>2. stable' = stable /\ ongoing' = [op |-> op, id |-> e[3]]
  BY DEF Enter, Begin
<1>3. InOrder'
  BY <1>1, <1>2 DEF InOrder
<1> DEFINE one == RemoveEntry(e[1], e[2], e[3])
           two == Invalid
           none == {}
<1>4. one \in Delta /\ <<one.target, one.name, one.child>> = e
  BY <1>0 DEF Delta, RemoveEntry, EntryTypes
<1>5. two \in Delta /\ two.type \notin EntryTypes
  BY DeltaFacts DEF Invalid, EntryTypes
<1>6. calls' = Append(calls, [op |-> op, deltas |-> <<one, two>>])
  BY DEF Enter
<1>7. op \in {"open", "mkdir", "unlink", "rmdir", "link", "rename", "ftruncate", "pwrite64"}
  OBVIOUS
<1>8. e \in Known /\ volatile'.ent \subseteq volatile.ent \cup none
  BY <1>1 DEF Known
<1> HIDE DEF one, two, none
<1>9. Known' \subseteq Known \cup none
  BY <1>0, <1>2, <1>4, <1>5, <1>6, <1>7, <1>8, KnownMore
<1>10. Fresh'
  BY <1>9, FreshSame DEF none
<1> QED
  BY <1>3, <1>10

\* link and rename.
LEMMA LinkOrder ==
    ASSUME OInv, Fresh, InOrder, NEW e \in volatile.ent, NEW d \in Dirs, NEW k, names' = names + 1,
           \/ /\ Enter("link", e[3], k, AddEntry(d, names, e[3]), Invalid)
              /\ volatile' = link_obj(volatile, d, e[3], names)
           \/ /\ Enter("rename", e[3], k, AddEntry(d, names, e[3]), RemoveEntry(e[1], e[2], e[3]))
              /\ volatile' = rename(volatile, e[1], e[2], e[3], d, names)
    PROVE  Fresh' /\ InOrder'
<1> DEFINE n == <<d, names, e[3]>>
           mid == link_obj(volatile, d, e[3], names)
<1>0. /\ IsFS(volatile) /\ calls \in Seq(Call) /\ e[1] \in Nat /\ e[2] \in Nat /\ e[3] \in Nat
      /\ Named(volatile, e[1], e[2]) = {e} /\ e = <<e[1], e[2], e[3]>> /\ names \in Nat /\ d \in Nat
      /\ d \in Ids(volatile) /\ volatile.obj[d].type = "dir" /\ e[3] \in Ids(volatile) /\ e[3] # Root
  <2>1. /\ IsFS(volatile) /\ calls \in Seq(Call) /\ names \in Nat /\ d \in Nat
        /\ d \in Ids(volatile) /\ volatile.obj[d].type = "dir"
    BY DEF OInv, Numbered, Listed, Dirs
  <2>2. e[3] \in Ids(volatile) /\ e[3] # Root
    BY DEF InOrder, Wired
  <2> QED
    BY <2>1, <2>2, EntryFacts, OneNamed DEF OInv
<1>1. \A f \in volatile.ent : f \in Known /\ f[2] \in Nat /\ f[2] < names
  BY DEF Fresh, Known
<1>2. n \notin volatile.ent /\ n[2] = names /\ n[3] = e[3]
  <2>1. n[2] = names /\ n[3] = e[3]
    OBVIOUS
  <2> HIDE DEF n
  <2> QED
    BY <1>0, <1>1, <2>1
<1>3. Wired(mid) /\ IsFS(mid) /\ mid.ent = volatile.ent \cup {n} /\ Ids(mid) = Ids(volatile)
  BY <1>0, <1>2, LinkWired, LinkFacts DEF InOrder
<1> DEFINE one == AddEntry(d, names, e[3])
           two == RemoveEntry(e[1], e[2], e[3])
<1>4. one \in Delta /\ <<one.target, one.name, one.child>> = n
  BY <1>0 DEF Delta, AddEntry, EntryTypes
<1>5. two \in Delta /\ <<two.target, two.name, two.child>> = e
  BY <1>0 DEF Delta, RemoveEntry, EntryTypes
<1>6. Invalid \in Delta /\ Invalid.type \notin EntryTypes
  BY DeltaFacts DEF Invalid, EntryTypes
<1>7. e \in Known
  BY <1>1
<1> HIDE DEF mid, n, one, two
<1>8. ASSUME Wired(volatile'), stable' = stable, ongoing'.op # "fsync", Known' \subseteq Known \cup {n}
      PROVE  Fresh' /\ InOrder'
  <2>1. Fresh'
    BY <1>0, <1>8, FreshName DEF n
  <2>2. InOrder'
    BY <1>8 DEF InOrder
  <2> QED
    BY <2>1, <2>2
<1>9. CASE /\ Enter("link", e[3], k, one, Invalid) /\ volatile' = mid
  <2>1. /\ stable' = stable /\ ongoing' = [op |-> "link", id |-> e[3]]
        /\ calls' = Append(calls, [op |-> "link", deltas |-> <<one, Invalid>>])
    BY <1>9 DEF Enter, Begin
  <2>2. volatile'.ent \subseteq volatile.ent \cup {n}
    BY <1>3, <1>9
  <2>3. Known' \subseteq Known \cup {n}
    <3> HIDE <1>9
    <3> QED
      BY <1>0, <1>4, <1>6, <2>1, <2>2, KnownMore
  <2> QED
    BY <1>3, <1>8, <1>9, <2>1, <2>3
<1>10. CASE /\ Enter("rename", e[3], k, one, two) /\ volatile' = unlink_obj(mid, e[1], e[2])
  <2>1. /\ stable' = stable /\ ongoing' = [op |-> "rename", id |-> e[3]]
        /\ calls' = Append(calls, [op |-> "rename", deltas |-> <<one, two>>])
    BY <1>10 DEF Enter, Begin
  <2>2. e \in mid.ent /\ Named(mid, e[1], e[2]) = {e}
    <3>1. e[2] # n[2]
      BY <1>0, <1>1, <1>2
    <3>2. \A f : f \in Named(mid, e[1], e[2]) <=> f \in Named(volatile, e[1], e[2])
      BY <1>3, <3>1 DEF Named
    <3> QED
      BY <1>0, <1>3, <3>2
  <2>3. Links(mid.ent, e[3]) # 1
    <3>1. Links(mid.ent, e[3]) = Links(volatile.ent, e[3]) + 1 /\ Links(volatile.ent, e[3]) \in Nat
      BY <1>2, <1>3, LinksFacts DEF InOrder, Wired
    <3>2. Links(volatile.ent, e[3]) # 0
      BY LinksFacts DEF InOrder, Wired
    <3> QED
      BY <3>1, <3>2
  <2>4. Wired(volatile') /\ volatile'.ent = mid.ent \ {e}
    BY <1>3, <1>10, <2>2, <2>3, UnlinkWired
  <2>5. volatile'.ent \subseteq volatile.ent \cup {n}
    BY <1>3, <2>4
  <2>6. Known' \subseteq Known \cup {n}
    BY <1>0, <1>4, <1>5, <1>7, <2>1, <2>5, KnownMore
  <2> QED
    BY <1>8, <2>1, <2>4, <2>6
<1> QED
  BY <1>9, <1>10 DEF mid, one, two, rename

\* ftruncate and pwrite.
LEMMA WriteOrder ==
    ASSUME OInv, Fresh, InOrder, NEW op \in {"ftruncate", "pwrite64"}, NEW e \in volatile.ent,
           NEW delta \in Delta, delta.type \in DataTypes, EnterData(op, e[3], delta),
           NEW data \in Seq({0, 1}), volatile' = [volatile EXCEPT !.obj[e[3]].data = data]
    PROVE  Fresh' /\ InOrder'
<1>0. IsFS(volatile) /\ calls \in Seq(Call) /\ e[3] \in Ids(volatile)
  BY DEF OInv, Numbered, Listed, InOrder, Wired
<1>1. Wired(volatile') /\ volatile'.ent = volatile.ent
  BY <1>0, WriteWired DEF InOrder, IsFS
<1>2. /\ stable' = stable /\ ongoing' = [op |-> op, id |-> e[3]] /\ names' = names
      /\ calls' = Append(calls, [op |-> op, deltas |-> <<delta, Invalid>>])
  BY DEF EnterData
<1>3. InOrder'
  BY <1>1, <1>2 DEF InOrder
<1>4. Invalid \in Delta /\ Invalid.type \notin EntryTypes /\ delta.type \notin EntryTypes
  BY DeltaFacts DEF Invalid, EntryTypes, DataTypes
<1> DEFINE none == {}
<1>5. volatile'.ent \subseteq volatile.ent \cup none
  BY <1>1
<1>6. op \in {"open", "mkdir", "unlink", "rmdir", "link", "rename", "ftruncate", "pwrite64"}
  OBVIOUS
<1> HIDE DEF none
<1>7. Known' \subseteq Known \cup none
  BY <1>0, <1>2, <1>4, <1>5, <1>6, KnownMore
<1>8. Fresh'
  BY <1>2, <1>7, FreshSame DEF none
<1> QED
  BY <1>3, <1>8

-----------------------------------------------------------------------------
(* So does every step                                                        *)

\* Entry of a call.
LEMMA EntersOrder == ASSUME OInv, Fresh, InOrder, Enters PROVE Fresh' /\ InOrder'
<1>o. \A types : Of(types) \subseteq volatile.ent
  BY DEF Of
<1>r. Root \in Dirs
  BY DEF Dirs, InOrder, Wired
<1>1. CASE EnterCreat
  <2>1. PICK d \in Dirs :
          /\ Enter("open", volatile.next, 2, Add(volatile.next, "file"), AddEntry(d, names, volatile.next))
          /\ volatile' = Make(volatile, "file", d, names) /\ names' = names + 1
    BY <1>1 DEF EnterCreat
  <2> QED
    BY <2>1, MakeOrder
<1>2. CASE EnterMkdir
  BY <1>2, <1>r, MakeOrder DEF EnterMkdir
<1>3. CASE EnterUnlink
  <2>1. PICK e \in volatile.ent :
          /\ volatile.obj[e[3]].type = "file"
          /\ Enter("unlink", e[3], 1, RemoveEntry(e[1], e[2], e[3]), Invalid)
          /\ volatile' = unlink_obj(volatile, e[1], e[2]) /\ names' = names
    BY <1>3 DEF EnterUnlink, Of
  <2>2. \A f \in volatile.ent : f[1] # e[3]
    <3>1. \A f \in volatile.ent : volatile.obj[f[1]].type = "dir"
      BY DEF InOrder, Wired
    <3> QED
      BY <2>1, <3>1
  <2> QED
    BY <2>1, <2>2, RemoveOrder
<1>4. CASE EnterRmdir
  <2>1. PICK e \in volatile.ent :
          /\ \A f \in volatile.ent : f[1] # e[3]
          /\ Enter("rmdir", e[3], 1, RemoveEntry(e[1], e[2], e[3]), Invalid)
          /\ volatile' = unlink_obj(volatile, e[1], e[2]) /\ names' = names
    BY <1>4, <1>o DEF EnterRmdir
  <2> QED
    BY <2>1, RemoveOrder
<1>5. CASE EnterLink
  <2>1. PICK e \in volatile.ent, d \in Dirs :
          /\ Enter("link", e[3], 1, AddEntry(d, names, e[3]), Invalid)
          /\ volatile' = link_obj(volatile, d, e[3], names) /\ names' = names + 1
    BY <1>5, <1>o DEF EnterLink
  <2> QED
    BY <2>1, LinkOrder
<1>6. CASE EnterRename
  <2>1. PICK e \in volatile.ent, d \in Dirs :
          /\ Enter("rename", e[3], 2, AddEntry(d, names, e[3]), RemoveEntry(e[1], e[2], e[3]))
          /\ volatile' = rename(volatile, e[1], e[2], e[3], d, names) /\ names' = names + 1
    BY <1>6 DEF EnterRename
  <2> QED
    BY <2>1, LinkOrder
<1>w. ASSUME NEW e \in volatile.ent PROVE e[3] \in Nat /\ volatile.obj[e[3]].data \in Seq({0, 1})
  <2>1. e[3] \in Nat
    BY EntryFacts DEF OInv
  <2>2. volatile.obj[e[3]] \in Object
    BY DEF InOrder, Wired
  <2> QED
    BY <2>1, <2>2 DEF Object
<1>7. CASE EnterFtruncate
  <2>1. PICK e \in volatile.ent, w \in Writes :
          /\ EnterData("ftruncate", e[3], Truncate(e[3], w[2]))
          /\ volatile' = truncate(volatile, e[3], w[2])
    BY <1>7, <1>o DEF EnterFtruncate
  <2> DEFINE d == Truncate(e[3], w[2])
             data == Cut(volatile.obj[e[3]].data, w[2])
  <2>2. e[3] \in Nat /\ w[2] \in Nat /\ volatile.obj[e[3]].data \in Seq({0, 1})
    BY <1>w, <2>1, StableFSAssumption
  <2>3. d \in Delta /\ d.type = "truncate"
    BY <2>2, TruncateType
  <2>4. volatile' = [volatile EXCEPT !.obj[e[3]].data = data] /\ data \in Seq({0, 1})
    BY <2>1, <2>2, CutFacts DEF truncate
  <2>5. EnterData("ftruncate", e[3], d)
    BY <2>1
  <2> HIDE DEF d, data
  <2>6. d \in Delta /\ d.type \in DataTypes
    BY <2>3 DEF DataTypes
  <2> QED
    BY <2>4, <2>5, <2>6, WriteOrder
<1>8. CASE EnterPwrite
  <2>1. PICK e \in volatile.ent, w \in Writes :
          /\ EnterData("pwrite64", e[3], Pwrite(e[3], w))
          /\ volatile' = pwrite(volatile, e[3], w)
    BY <1>8, <1>o DEF EnterPwrite
  <2> DEFINE d == Pwrite(e[3], w)
             data == Put(volatile.obj[e[3]].data, w)
  <2>2. e[3] \in Nat /\ volatile.obj[e[3]].data \in Seq({0, 1})
    BY <1>w, <2>1
  <2>3. d \in Delta /\ d.type = "pwrite"
    BY <2>2, PwriteType
  <2>4. volatile' = [volatile EXCEPT !.obj[e[3]].data = data] /\ data \in Seq({0, 1})
    BY <2>1, <2>2, PutFacts DEF pwrite
  <2>5. EnterData("pwrite64", e[3], d)
    BY <2>1
  <2> HIDE DEF d, data
  <2>6. d \in Delta /\ d.type \in DataTypes
    BY <2>3 DEF DataTypes
  <2> QED
    BY <2>4, <2>5, <2>6, WriteOrder
<1>9. CASE EnterSync \/ EnterFsync
  <2>1. /\ stable' = stable /\ volatile' = volatile /\ calls' = calls /\ names' = names
        /\ ongoing'.op = "fsync" => \E e \in volatile.ent : ongoing'.id = e[3]
    BY <1>9, <1>o DEF EnterSync, EnterFsync, Begin
  <2>2. ongoing'.op = "fsync" => ongoing'.id \in Ids(volatile)
    BY <2>1 DEF InOrder, Wired
  <2>3. InOrder'
    BY <2>1, <2>2 DEF InOrder
  <2>4. Fresh'
    BY <2>1, FreshSame DEF Known
  <2> QED
    BY <2>3, <2>4
<1> QED
  BY <1>1, <1>2, <1>3, <1>4, <1>5, <1>6, <1>7, <1>8, <1>9 DEF Enters

\* A new file system is in order.
LEMMA EmptyWired == Wired(EmptyFS) /\ \A id \in Ids(EmptyFS) : EmptyFS.obj[id] \in Object
<1>1. EmptyFS.obj[Root] = new_obj("dir")
  BY DEF EmptyFS, Root
<1>2. << >> \in Seq({0, 1})
  OBVIOUS
<1>3. new_obj("dir") \in Object /\ new_obj("dir").ref = 0 /\ new_obj("dir").type = "dir"
  BY <1>2 DEF new_obj, Object
<1>4. IsFiniteSet(EmptyFS.ent) /\ Links(EmptyFS.ent, Root) = 0
  BY EmptyFacts, FS_EmptySet, LinksFacts
<1> QED
  BY <1>1, <1>3, <1>4, EmptyFacts DEF Wired, Root

\* A copy of a file system in order.
LEMMA CopyWired ==
    ASSUME NEW fs, IsFS(fs), Wired(fs)
    PROVE  /\ Wired(copy(fs))
           /\ \A id \in Ids(fs) : copy(fs).obj[id] \in Object /\ copy(fs).obj[id] = fs.obj[id]
<1> DEFINE g == copy(fs)
<1>1. IsFS(g) /\ Ids(g) = Ids(fs) /\ g.ent = fs.ent
  BY CopyFacts
<1>2. g.obj = [id \in Ids(fs) |-> Counts(fs.obj[id], Links(fs.ent, id))]
  BY DEF copy, IsFS
<1>3. ASSUME NEW id \in Ids(fs) PROVE g.obj[id] = fs.obj[id] /\ fs.obj[id] \in Object
  <2> DEFINE x == fs.obj[id]
  <2>1. x \in Object /\ g.obj[id] = Counts(x, x.ref)
    BY <1>2 DEF Wired
  <2> HIDE DEF x, g
  <2>2. Counts(x, x.ref) = x
    BY <2>1 DEF Counts, Object
  <2> QED
    BY <2>1, <2>2 DEF x
<1> HIDE DEF g
<1>4. Wired(g)
  BY <1>1, <1>3 DEF Wired
<1> QED
  BY <1>3, <1>4 DEF g

\* Every step keeps the names and the file systems in order.
LEMMA OrderStep == ASSUME OInv, Fresh, InOrder, [Next]_vars PROVE Fresh' /\ InOrder'
<1>1. CASE Enters
  BY <1>1, EntersOrder
<1>2. CASE Exit \/ UNCHANGED vars
  <2>1. /\ stable' = stable /\ volatile' = volatile /\ calls' = calls /\ names' = names
        /\ ongoing' = ongoing \/ ongoing' = NoCall
    BY <1>2 DEF Exit, vars
  <2>2. ongoing'.op = "fsync" => ongoing' = ongoing
    BY <2>1 DEF NoCall
  <2>3. Fresh'
    BY <2>1, FreshSame DEF Known
  <2> QED
    BY <2>1, <2>2, <2>3 DEF InOrder
<1>3. CASE ExitSync
  <2>1. /\ calls' = << >> /\ stable' = copy(volatile) /\ ongoing' = NoCall
        /\ volatile' = volatile /\ names' = names
    BY <1>3 DEF ExitSync
  <2>2. /\ Wired(stable') /\ Ids(stable') = Ids(volatile) /\ stable'.ent = volatile.ent
        /\ \A id \in Ids(volatile) : stable'.obj[id] \in Object
    BY <2>1, CopyWired, CopyFacts DEF OInv, Numbered, InOrder
  <2>3. InOrder'
    BY <2>1, <2>2 DEF InOrder, NoCall, Wired
  <2>4. Changes(<< >>) = {}
    BY DEF Changes, Pending
  <2>5. Known' \subseteq Known
    BY <2>1, <2>2, <2>4 DEF Known
  <2> QED
    BY <2>1, <2>3, <2>5, FreshSame
<1>4. CASE ExitFsync
  <2> DEFINE id == ongoing.id
             o == volatile.obj[id]
  <2>1. /\ stable' = add_new_obj(stable, o, id) /\ calls' = Flushed(calls, id) /\ ongoing' = NoCall
        /\ volatile' = volatile /\ names' = names /\ id \in Ids(volatile)
    BY <1>4 DEF ExitFsync, make_obj_stable, InOrder
  <2>2. o \in Object
    BY <2>1 DEF InOrder, Wired
  <2> HIDE DEF id, o
  <2>3. IsFS(stable) /\ calls \in Seq(Call) /\ \A i \in 1 .. Len(calls) : Proper(calls[i])
    BY DEF OInv, Numbered, Listed
  <2>4. stable'.ent = stable.ent /\ Ids(stable') = Ids(stable) \cup {id}
    BY <2>1, <2>3, StoreFacts
  <2>5. stable'.obj = Stored(stable.obj, id, o)
    BY <2>1, <2>3 DEF add_new_obj, IsFS
  <2>6. ASSUME NEW x \in Ids(stable') PROVE stable'.obj[x] \in Object
    BY <2>2, <2>4, <2>5 DEF Stored, Ids, InOrder
  <2>7. InOrder'
    BY <2>1, <2>4, <2>6 DEF InOrder, NoCall
  <2>8. \A d \in Pending(calls') : d = Invalid \/ d \in Pending(calls)
    <3>1. "none" \notin MetaTypes
      BY DEF MetaTypes, EntryTypes
    <3> QED
      BY <2>1, <2>3, <3>1, FlushedKeeps
  <2>9. Changes(calls') \subseteq Changes(calls)
    BY <2>8 DEF Changes, Invalid, EntryTypes
  <2>10. Known' \subseteq Known
    BY <2>1, <2>4, <2>9 DEF Known
  <2> QED
    BY <2>1, <2>7, <2>10, FreshSame
<1>5. CASE Check
  <2>1. PICK image : check(image)
    BY <1>5 DEF Check
  <2>2. CASE stable' = stable /\ volatile' = volatile /\ calls' = calls /\ ongoing' = ongoing
    <3>1. names' = names
      BY <2>1 DEF check
    <3>2. Fresh'
      BY <2>2, <3>1, FreshSame DEF Known
    <3> QED
      BY <2>2, <3>2 DEF InOrder
  <2>3. CASE stable' = EmptyFS /\ volatile' = EmptyFS /\ calls' = << >> /\ ongoing' = NoCall
    <3>1. names' = names
      BY <2>1 DEF check
    <3>2. Changes(<< >>) = {}
      BY DEF Changes, Pending
    <3>3. Known' \subseteq Known
      BY <2>3, <3>2, EmptyFacts DEF Known
    <3>4. Fresh'
      BY <3>1, <3>3, FreshSame
    <3>5. InOrder'
      BY <2>3, EmptyWired DEF InOrder, NoCall, Wired
    <3> QED
      BY <3>4, <3>5
  <2> QED
    BY <2>1, <2>2, <2>3 DEF check
<1>6. CASE NextLog
  <2>1. /\ stable' = EmptyFS /\ volatile' = EmptyFS /\ calls' = << >> /\ ongoing' = NoCall
        /\ names' = 1
    BY <1>6 DEF NextLog
  <2>2. Changes(<< >>) = {}
    BY DEF Changes, Pending
  <2>3. Known' = {}
    BY <2>1, <2>2, EmptyFacts DEF Known
  <2>4. Fresh'
    BY <2>1, <2>3 DEF Fresh
  <2>5. InOrder'
    BY <2>1, EmptyWired DEF InOrder, NoCall, Wired
  <2> QED
    BY <2>4, <2>5
<1> QED
  BY <1>1, <1>2, <1>3, <1>4, <1>5, <1>6 DEF Next

\* They are in order in the beginning.
LEMMA OrderInit == ASSUME Init PROVE Fresh /\ InOrder
<1>1. Changes(<< >>) = {}
  BY DEF Changes, Pending
<1>2. Known = {}
  BY <1>1, EmptyFacts DEF Init, Known
<1>3. Fresh
  BY <1>2 DEF Fresh
<1>4. InOrder
  BY EmptyWired DEF Init, InOrder, NoCall, Wired
<1> QED
  BY <1>3, <1>4

-----------------------------------------------------------------------------
(* The data of what check tries                                              *)

\* The entries are of a set in which a name occurs once, and the objects have
\* the data of a file system, or none if they are not in it.
Unique(E) == \A e, f \in E : e[2] = f[2] => e = f
Base(fs, id) == IF id \in Ids(fs) THEN fs.obj[id].data ELSE << >>
Based(r, fs, E) ==
    /\ IsFS(r) /\ r.ent \subseteq E
    /\ \A id \in Ids(r) : DOMAIN r.obj[id] = {"type", "ref", "data"} /\ r.obj[id].data = Base(fs, id)

\* Counting references leaves the data of an object.
LEMMA CountsData ==
    ASSUME NEW o, DOMAIN o = {"type", "ref", "data"}, NEW n
    PROVE  /\ DOMAIN Counts(o, n) = {"type", "ref", "data"}
           /\ Counts(o, n).data = o.data /\ Counts(o, n).type = o.type /\ Counts(o, n).ref = n
BY DEF Counts

\* Removing entries leaves the data of the objects that stay.
LEMMA DropBased ==
    ASSUME NEW r, NEW fs, NEW E, Based(r, fs, E), NEW gone
    PROVE  Based(Drop(r, gone), fs, E)
<1> DEFINE g == Drop(r, gone)
           N(c) == r.obj[c].ref - Cardinality({e \in gone : e[3] = c})
<1>1. IsFS(r) /\ IsFS(g) /\ g.ent \subseteq r.ent /\ Ids(g) \subseteq Ids(r)
  BY DropFacts DEF Based
<1>2. g.obj = [c \in Ids(r) \ Dead(r, gone) |-> Counts(r.obj[c], N(c))]
  BY <1>1 DEF Drop, IsFS
<1> HIDE DEF g, N
<1>3. ASSUME NEW id \in Ids(g)
      PROVE  DOMAIN g.obj[id] = {"type", "ref", "data"} /\ g.obj[id].data = Base(fs, id)
  <2>1. id \in Ids(r) \ Dead(r, gone) /\ id \in Ids(r)
    BY <1>1, <1>2 DEF Ids
  <2>2. g.obj[id] = Counts(r.obj[id], N(id))
    BY <1>2, <2>1
  <2>3. DOMAIN r.obj[id] = {"type", "ref", "data"} /\ r.obj[id].data = Base(fs, id)
    BY <2>1 DEF Based
  <2> QED
    BY <2>2, <2>3, CountsData
<1>4. Based(g, fs, E)
  BY <1>1, <1>3 DEF Based
<1> QED
  BY <1>4 DEF g

\* A new entry leaves the data of all objects.
LEMMA LinkBased ==
    ASSUME NEW r, NEW fs, NEW E, Based(r, fs, E), NEW d, NEW c, NEW n, <<d, n, c>> \in E
    PROVE  Based(link_obj(r, d, c, n), fs, E)
<1> DEFINE g == link_obj(r, d, c, n)
<1>1. IsFS(r) /\ IsFS(g) /\ g.ent = r.ent \cup {<<d, n, c>>} /\ Ids(g) = Ids(r)
  BY LinkFacts DEF Based
<1>2. ASSUME NEW id \in Ids(g)
      PROVE  g.obj[id] = r.obj[id] \/ \E m : g.obj[id] = Counts(r.obj[id], m)
  <2>1. id \in DOMAIN r.obj
    BY <1>1 DEF Ids
  <2>2. g.obj = IF c \in DOMAIN r.obj THEN [r.obj EXCEPT ![c] = Counts(r.obj[c], r.obj[c].ref + 1)]
                ELSE r.obj
    BY <1>1 DEF link_obj, IsFS, Ids
  <2> HIDE DEF g
  <2> QED
    BY <2>1, <2>2
<1> HIDE DEF g
<1>3. ASSUME NEW id \in Ids(g)
      PROVE  DOMAIN g.obj[id] = {"type", "ref", "data"} /\ g.obj[id].data = Base(fs, id)
  <2>1. DOMAIN r.obj[id] = {"type", "ref", "data"} /\ r.obj[id].data = Base(fs, id)
    BY <1>1 DEF Based
  <2> QED
    BY <1>2, <2>1, CountsData
<1>4. g.ent \subseteq E
  BY <1>1 DEF Based
<1>5. Based(g, fs, E)
  BY <1>1, <1>3, <1>4 DEF Based
<1> QED
  BY <1>5 DEF g

\* An object that is new to the file system has no data.
LEMMA AddBased ==
    ASSUME NEW r, NEW fs, NEW E, Based(r, fs, E), NEW kind, NEW id, id \notin Ids(fs)
    PROVE  Based(add_new_obj(r, new_obj(kind), id), fs, E)
<1> DEFINE g == add_new_obj(r, new_obj(kind), id)
<1>1. IsFS(r) /\ IsFS(g) /\ g.ent = r.ent /\ Ids(g) = Ids(r) \cup {id}
  BY StoreFacts DEF Based
<1>2. g.obj = Stored(r.obj, id, new_obj(kind))
  BY <1>1 DEF add_new_obj, IsFS
<1> HIDE DEF g
<1>3. ASSUME NEW x \in Ids(g)
      PROVE  DOMAIN g.obj[x] = {"type", "ref", "data"} /\ g.obj[x].data = Base(fs, x)
  <2>1. CASE x = id
    <3>1. g.obj[x] = new_obj(kind)
      BY <1>2, <2>1 DEF Stored
    <3> QED
      BY <2>1, <3>1 DEF new_obj, Base
  <2>2. CASE x # id
    <3>1. x \in Ids(r) /\ g.obj[x] = r.obj[x]
      BY <1>1, <1>2, <2>2 DEF Stored, Ids
    <3> QED
      BY <3>1 DEF Based
  <2> QED
    BY <2>1, <2>2
<1>4. Based(g, fs, E)
  BY <1>1, <1>3 DEF Based
<1> QED
  BY <1>4 DEF g

\* A delta of the metadata, of a list: an object it adds is new, an entry is
\* in the set.
Metadata(d, fs, E) ==
    /\ d.type \in MetaTypes
    /\ d.type = "add" => d.target \notin Ids(fs)
    /\ d.type \in EntryTypes => <<d.target, d.name, d.child>> \in E

\* A delta of the metadata leaves the data of the objects.
LEMMA DeltaBased ==
    ASSUME NEW r, NEW fs, NEW E, Based(r, fs, E), NEW d, Metadata(d, fs, E)
    PROVE  Based(make_delta_stable(r, d), fs, E)
<1>1. CASE d.type = "add"
  <2>1. make_delta_stable(r, d) = add_new_obj(r, new_obj(d.kind), d.target)
    BY <1>1 DEF make_delta_stable
  <2> QED
    BY <1>1, <2>1, AddBased DEF Metadata
<1>2. CASE d.type = "add_entry"
  <2>1. make_delta_stable(r, d) = link_obj(r, d.target, d.child, d.name)
    BY <1>2 DEF make_delta_stable
  <2>2. <<d.target, d.name, d.child>> \in E
    BY <1>2 DEF Metadata, EntryTypes
  <2> QED
    BY <2>1, <2>2, LinkBased
<1>3. CASE d.type = "remove_entry"
  <2> DEFINE gone == Named(r, d.target, d.name)
             inner == {e \in r.ent : e[1] \in Dead(r, gone)}
             mid == Drop(r, gone)
  <2>1. make_delta_stable(r, d) = Drop(mid, inner)
    BY <1>3 DEF make_delta_stable, unlink_obj
  <2>2. Based(mid, fs, E)
    BY DropBased
  <2> HIDE DEF mid, inner
  <2> QED
    BY <2>1, <2>2, DropBased
<1> QED
  BY <1>1, <1>2, <1>3 DEF Metadata, MetaTypes, EntryTypes

\* What a subset of metadata makes of a file system has its data.
LEMMA AppliedBased ==
    ASSUME NEW fs, IsFS(fs), \A id \in Ids(fs) : DOMAIN fs.obj[id] = {"type", "ref", "data"},
           NEW E, fs.ent \subseteq E, NEW deltas \in Seq(Delta),
           \A j \in 1 .. Len(deltas) : Metadata(deltas[j], fs, E), NEW s
    PROVE  Based(Applied(fs, deltas, s).fs, fs, E)
<1> DEFINE f == AppliedUpto(fs, deltas, s)
           S == {n \in Nat : n <= Len(deltas) => Based(f[n].fs, fs, E)}
<1>0. Len(deltas) \in Nat
  OBVIOUS
<1>1. /\ Applied(fs, deltas, s) = f[Len(deltas)] /\ f[0] = [ok |-> TRUE, fs |-> copy(fs)]
      /\ \A j \in 1 .. Len(deltas) : f[j] = AppliedOne(f[j - 1], deltas[j], Takes(s, j))
  BY AppliedFacts
<1> HIDE DEF f
<1>2. 0 \in S
  <2> DEFINE g == copy(fs)
  <2>1. IsFS(g) /\ Ids(g) = Ids(fs) /\ g.ent = fs.ent
    BY CopyFacts
  <2>2. g.obj = [id \in Ids(fs) |-> Counts(fs.obj[id], Links(fs.ent, id))]
    BY DEF copy, IsFS
  <2> HIDE DEF g
  <2>3. ASSUME NEW id \in Ids(g)
        PROVE  DOMAIN g.obj[id] = {"type", "ref", "data"} /\ g.obj[id].data = Base(fs, id)
    <3> DEFINE o == fs.obj[id]
               m == Links(fs.ent, id)
    <3>1. id \in Ids(fs) /\ g.obj[id] = Counts(o, m) /\ DOMAIN o = {"type", "ref", "data"}
      BY <2>1, <2>2
    <3>2. Base(fs, id) = o.data
      BY <3>1 DEF Base
    <3> HIDE DEF o, m
    <3> QED
      BY <3>1, <3>2, CountsData
  <2>4. Based(g, fs, E)
    BY <2>1, <2>3 DEF Based
  <2>5. f[0].fs = g
    BY <1>1 DEF g
  <2> QED
    BY <2>4, <2>5
<1>3. ASSUME NEW n \in Nat, n \in S PROVE n + 1 \in S
  <2>1. SUFFICES ASSUME n + 1 <= Len(deltas) PROVE Based(f[n + 1].fs, fs, E)
    OBVIOUS
  <2> DEFINE r == f[n]
             d == deltas[n + 1]
             take == Takes(s, n + 1)
  <2>2. n + 1 \in 1 .. Len(deltas) /\ (n + 1) - 1 = n /\ n <= Len(deltas)
    BY <1>0, <2>1
  <2>3. Based(r.fs, fs, E) /\ Metadata(d, fs, E) /\ f[n + 1] = AppliedOne(r, d, take)
    BY <1>1, <1>3, <2>2
  <2> HIDE DEF r, d, take
  <2>4. Based(make_delta_stable(r.fs, d), fs, E)
    BY <2>3, DeltaBased
  <2> QED
    BY <2>3, <2>4 DEF AppliedOne
<1> HIDE DEF S
<1>4. Len(deltas) \in S
  BY <1>0, <1>2, <1>3, Induction
<1> QED
  BY <1>0, <1>1, <1>4 DEF S

-----------------------------------------------------------------------------
(* Paths: each leads to one object                                           *)

\* The deltas of a list of calls are of its calls.
LEMMA DeltasPending ==
    ASSUME NEW cs \in Seq(Call), NEW types
    PROVE  /\ Deltas(cs, types) \in Seq(Delta)
           /\ \A j \in 1 .. Len(Deltas(cs, types)) :
                Deltas(cs, types)[j] \in Pending(cs) /\ Deltas(cs, types)[j].type \in types
<1> DEFINE f == DeltasUpto(cs, types)
           P == {d \in Pending(cs) : d.type \in types}
           S == {n \in Nat : n <= Len(cs) => f[n] \in Seq(P)}
<1>0. Len(cs) \in Nat /\ DOMAIN cs = 1 .. Len(cs)
  OBVIOUS
<1>1. /\ Deltas(cs, types) = f[Len(cs)] /\ f[0] = << >>
      /\ \A i \in 1 .. Len(cs) :
           f[i] = f[i - 1] \o Kept(cs[i].deltas[1], types) \o Kept(cs[i].deltas[2], types)
      /\ \A i \in 0 .. Len(cs) : f[i] \in Seq(Delta)
  BY DeltasFacts
<1> HIDE DEF f
<1>2. ASSUME NEW d \in Pending(cs) PROVE Kept(d, types) \in Seq(P)
  <2>1. CASE d.type \in types
    <3>1. d \in P /\ Kept(d, types) = <<d>>
      BY <2>1 DEF Kept
    <3> HIDE DEF P
    <3> QED
      BY <3>1
  <2>2. CASE d.type \notin types
    <3>1. Kept(d, types) = << >>
      BY <2>2 DEF Kept
    <3> HIDE DEF P
    <3> QED
      BY <3>1
  <2> QED
    BY <2>1, <2>2
<1>3. 0 \in S
  <2> HIDE DEF P
  <2>1. << >> \in Seq(P)
    OBVIOUS
  <2> QED
    BY <1>1, <2>1
<1>4. ASSUME NEW n \in Nat, n \in S PROVE n + 1 \in S
  <2>1. SUFFICES ASSUME n + 1 <= Len(cs) PROVE f[n + 1] \in Seq(P)
    OBVIOUS
  <2> DEFINE one == Kept(cs[n + 1].deltas[1], types)
             two == Kept(cs[n + 1].deltas[2], types)
  <2>2. n + 1 \in 1 .. Len(cs) /\ (n + 1) - 1 = n /\ n <= Len(cs) /\ n + 1 \in DOMAIN cs
    BY <1>0, <2>1
  <2>3. cs[n + 1].deltas[1] \in Pending(cs) /\ cs[n + 1].deltas[2] \in Pending(cs)
    <3>1. 1 \in 1 .. 2 /\ 2 \in 1 .. 2
      OBVIOUS
    <3> QED
      BY <2>2, <3>1 DEF Pending
  <2>4. one \in Seq(P) /\ two \in Seq(P) /\ f[n] \in Seq(P)
    BY <1>2, <1>4, <2>2, <2>3
  <2>5. f[n + 1] = f[n] \o one \o two
    BY <1>1, <2>2
  <2> HIDE DEF P, one, two
  <2> QED
    BY <2>4, <2>5, ConcatProperties
<1> HIDE DEF S
<1>5. Len(cs) \in S
  BY <1>0, <1>3, <1>4, Induction
<1>6. Deltas(cs, types) \in Seq(P)
  BY <1>0, <1>1, <1>5 DEF S
<1>7. Len(cs) \in 0 .. Len(cs)
  BY <1>0
<1>8. Deltas(cs, types) \in Seq(Delta)
  BY <1>1, <1>7
<1>9. \A j \in 1 .. Len(Deltas(cs, types)) : Deltas(cs, types)[j] \in P
  <2> HIDE DEF P
  <2> QED
    BY <1>6, ElementOfSeq
<1> QED
  BY <1>8, <1>9

\* A walk ends with an entry: the name is the last of the path.
LEMMA WalkEnds ==
    ASSUME NEW fs, NEW w \in Walk(fs)
    PROVE  \E e \in fs.ent : e[2] = w[1][Len(w[1])] /\ e[3] = w[2]
<1>1. CASE \E e \in Top(fs) : w = <<<<e[2]>>, e[3]>>
  <2>1. PICK e \in Top(fs) : w = <<<<e[2]>>, e[3]>>
    BY <1>1
  <2>2. w[1] = <<e[2]>> /\ w[2] = e[3]
    BY <2>1
  <2>3. w[1][Len(w[1])] = e[2]
    BY <2>2
  <2> QED
    BY <2>1, <2>2, <2>3 DEF Top
<1>2. CASE \E p \in Top(fs) \X fs.ent : w = <<<<p[1][2], p[2][2]>>, p[2][3]>>
  <2>1. PICK p \in Top(fs) \X fs.ent : w = <<<<p[1][2], p[2][2]>>, p[2][3]>>
    BY <1>2
  <2>2. w[1] = <<p[1][2], p[2][2]>> /\ w[2] = p[2][3] /\ p[2] \in fs.ent
    BY <2>1
  <2>3. w[1][Len(w[1])] = p[2][2]
    BY <2>2
  <2> QED
    BY <2>2, <2>3
<1> QED
  BY <1>1, <1>2 DEF Walk

\* A path leads to one object, in all file systems with these entries.
LEMMA OneObject ==
    ASSUME NEW E, Unique(E), NEW a, a.ent \subseteq E, NEW b, b.ent \subseteq E,
           NEW v \in Walk(a), NEW w \in Walk(b), v[1] = w[1]
    PROVE  v[2] = w[2]
<1>1. PICK e \in a.ent : e[2] = v[1][Len(v[1])] /\ e[3] = v[2]
  BY WalkEnds
<1>2. PICK f \in b.ent : f[2] = w[1][Len(w[1])] /\ f[3] = w[2]
  BY WalkEnds
<1>3. e \in E /\ f \in E /\ e[2] = f[2]
  BY <1>1, <1>2
<1>4. e = f
  BY <1>3 DEF Unique
<1> QED
  BY <1>1, <1>2, <1>4

\* It is the object that canon_objects finds, too.
LEMMA PathTo ==
    ASSUME NEW E, Unique(E), NEW fs, fs.ent \subseteq E, NEW w \in Walk(fs)
    PROVE  IdAt(fs, w[1]) = w[2]
<1> DEFINE v == CHOOSE x \in Walk(fs) : x[1] = w[1]
<1>1. v \in Walk(fs) /\ v[1] = w[1]
  OBVIOUS
<1>2. IdAt(fs, w[1]) = v[2]
  BY DEF IdAt
<1> HIDE DEF v
<1>3. v[2] = w[2]
  BY <1>1, OneObject
<1> QED
  BY <1>2, <1>3

\* The paths of an image are those of the walk, and the objects have what
\* the file system has.
LEMMA CanonFacts ==
    ASSUME NEW fs
    PROVE  /\ DOMAIN Canon(fs) = {w[1] : w \in Walk(fs)}
           /\ \A p \in DOMAIN Canon(fs) :
                /\ DOMAIN Canon(fs)[p] = {"type", "ref", "data", "same"}
                /\ Canon(fs)[p].type = fs.obj[IdAt(fs, p)].type
                /\ Canon(fs)[p].ref = fs.obj[IdAt(fs, p)].ref
                /\ Canon(fs)[p].data = fs.obj[IdAt(fs, p)].data
                /\ Canon(fs)[p].same = {w[1] : w \in {v \in Walk(fs) : v[2] = IdAt(fs, p)}}
<1> DEFINE R(p) == [type |-> fs.obj[IdAt(fs, p)].type, ref |-> fs.obj[IdAt(fs, p)].ref,
                    data |-> fs.obj[IdAt(fs, p)].data,
                    same |-> {w[1] : w \in {v \in Walk(fs) : v[2] = IdAt(fs, p)}}]
<1>1. Canon(fs) = [p \in {w[1] : w \in Walk(fs)} |-> R(p)]
  BY DEF Canon, IdAt
<1>2. ASSUME NEW p
      PROVE  /\ DOMAIN R(p) = {"type", "ref", "data", "same"}
             /\ R(p).type = fs.obj[IdAt(fs, p)].type /\ R(p).ref = fs.obj[IdAt(fs, p)].ref
             /\ R(p).data = fs.obj[IdAt(fs, p)].data
             /\ R(p).same = {w[1] : w \in {v \in Walk(fs) : v[2] = IdAt(fs, p)}}
  OBVIOUS
<1> DEFINE W == {w[1] : w \in Walk(fs)}
           F == [p \in W |-> R(p)]
<1> HIDE DEF R, W
<1>3. DOMAIN F = W /\ \A p \in W : F[p] = R(p)
  OBVIOUS
<1>4. Canon(fs) = F
  BY <1>1 DEF W
<1> HIDE DEF F
<1> QED
  BY <1>2, <1>3, <1>4 DEF W

\* An image is its metadata and its data.
LEMMA MetaFacts ==
    ASSUME NEW image
    PROVE  /\ DOMAIN Meta(image) = DOMAIN image
           /\ \A p \in DOMAIN image : Meta(image)[p] = [image[p] EXCEPT !.data = << >>]
BY DEF Meta

-----------------------------------------------------------------------------
(* What check tries is accepted                                              *)

\* An image is a function to records.
IsImage(im) ==
    /\ im = [p \in DOMAIN im |-> im[p]]
    /\ \A p \in DOMAIN im : im[p] = [type |-> im[p].type, ref |-> im[p].ref,
                                     data |-> im[p].data, same |-> im[p].same]

\* What canon_objects makes is an image.
LEMMA CanonImage == ASSUME NEW fs PROVE IsImage(Canon(fs))
<1> DEFINE R(p) == [type |-> fs.obj[IdAt(fs, p)].type, ref |-> fs.obj[IdAt(fs, p)].ref,
                    data |-> fs.obj[IdAt(fs, p)].data,
                    same |-> {w[1] : w \in {v \in Walk(fs) : v[2] = IdAt(fs, p)}}]
           W == {w[1] : w \in Walk(fs)}
           F == [p \in W |-> R(p)]
<1>1. Canon(fs) = F
  BY DEF Canon, IdAt
<1>2. \A p : R(p) = [type |-> R(p).type, ref |-> R(p).ref, data |-> R(p).data, same |-> R(p).same]
  OBVIOUS
<1> HIDE DEF R, W
<1>3. DOMAIN F = W /\ (\A p \in W : F[p] = R(p)) /\ F = [p \in W |-> F[p]]
  OBVIOUS
<1> HIDE DEF F
<1>4. IsImage(F)
  BY <1>2, <1>3 DEF IsImage
<1> QED
  BY <1>1, <1>4

\* Images with equal metadata differ in data only.
LEMMA MetaEqual ==
    ASSUME NEW a, NEW b, IsImage(a), IsImage(b), Meta(a) = Meta(b)
    PROVE  /\ DOMAIN a = DOMAIN b
           /\ \A p \in DOMAIN a : a[p].data = b[p].data => a[p] = b[p]
           /\ (\A p \in DOMAIN a : a[p].data = b[p].data) => a = b
<1>1. DOMAIN a = DOMAIN b
  BY MetaFacts
<1>2. ASSUME NEW p \in DOMAIN a, a[p].data = b[p].data PROVE a[p] = b[p]
  <2> DEFINE x == a[p]
             y == b[p]
  <2>1. [x EXCEPT !.data = << >>] = [y EXCEPT !.data = << >>]
    BY <1>1, MetaFacts
  <2>2. /\ x = [type |-> x.type, ref |-> x.ref, data |-> x.data, same |-> x.same]
        /\ y = [type |-> y.type, ref |-> y.ref, data |-> y.data, same |-> y.same]
        /\ x.data = y.data
    BY <1>1, <1>2 DEF IsImage
  <2> HIDE DEF x, y
  <2>3. DOMAIN x = {"type", "ref", "data", "same"} /\ DOMAIN y = {"type", "ref", "data", "same"}
    BY <2>2
  <2>4. /\ x.type = [x EXCEPT !.data = << >>].type /\ y.type = [y EXCEPT !.data = << >>].type
        /\ x.ref = [x EXCEPT !.data = << >>].ref /\ y.ref = [y EXCEPT !.data = << >>].ref
        /\ x.same = [x EXCEPT !.data = << >>].same /\ y.same = [y EXCEPT !.data = << >>].same
    BY <2>3
  <2>5. x.type = y.type /\ x.ref = y.ref /\ x.same = y.same
    BY <2>1, <2>4
  <2>6. x = y
    BY <2>2, <2>5
  <2> QED
    BY <2>6 DEF x, y
<1>3. ASSUME \A p \in DOMAIN a : a[p].data = b[p].data PROVE a = b
  <2>1. \A p \in DOMAIN a : a[p] = b[p]
    BY <1>2, <1>3
  <2> QED
    BY <1>1, <2>1 DEF IsImage
<1> QED
  BY <1>1, <1>2, <1>3

\* Counting the references leaves names and data.
LEMMA FixFacts ==
    ASSUME NEW r, NEW fs, NEW E, Based(r, fs, E)
    PROVE  Based(fix_refcnts(r), fs, E) /\ fix_refcnts(r).ent = r.ent /\ Ids(fix_refcnts(r)) = Ids(r)
<1> DEFINE g == fix_refcnts(r)
           N(id) == Links(r.ent, id)
<1>1. IsFS(r)
  BY DEF Based
<1>2. /\ IsFS(g) /\ g.ent = r.ent
      /\ g.obj = [id \in Ids(r) |-> IF N(id) = 0 THEN r.obj[id] ELSE Counts(r.obj[id], N(id))]
  BY <1>1 DEF fix_refcnts, IsFS
<1> HIDE DEF g, N
<1>3. Ids(g) = Ids(r)
  BY <1>2 DEF Ids
<1>4. ASSUME NEW id \in Ids(g)
      PROVE  DOMAIN g.obj[id] = {"type", "ref", "data"} /\ g.obj[id].data = Base(fs, id)
  <2>1. g.obj[id] = r.obj[id] \/ g.obj[id] = Counts(r.obj[id], N(id))
    BY <1>2, <1>3
  <2>2. DOMAIN r.obj[id] = {"type", "ref", "data"} /\ r.obj[id].data = Base(fs, id)
    BY <1>3 DEF Based
  <2> QED
    BY <2>1, <2>2, CountsData
<1>5. Based(g, fs, E)
  BY <1>2, <1>4 DEF Based
<1> QED
  BY <1>2, <1>3, <1>5 DEF g

\* A file system and a list of calls about it.
Ready(fs, cs, E) ==
    /\ cs \in Seq(Call) /\ IsFS(fs) /\ fs.ent \subseteq E /\ Changes(cs) \subseteq E /\ Unique(E)
    /\ \A id \in Ids(fs) : DOMAIN fs.obj[id] = {"type", "ref", "data"}
    /\ \A d \in Pending(cs) : d.type = "add" => d.target \notin Ids(fs)

\* A file system that check compares with the recovered one has the data of
\* the stable one at every path.
LEMMA TriedFacts ==
    ASSUME NEW fs, NEW cs, NEW E, Ready(fs, cs, E), NEW t \in Tried(fs, cs)
    PROVE  /\ Based(t.fs, fs, E) /\ IsImage(t.image)
           /\ DOMAIN t.image = {w[1] : w \in Walk(t.fs)}
           /\ \A p \in DOMAIN t.image : t.image[p].data = Base(fs, IdAt(t.fs, p))
<1> DEFINE D == Deltas(cs, MetaTypes)
<1>1. PICK s \in Subsets(D) : Good(fs, D, s) /\ t = Try(fs, D, s)
  BY TriedIs
<1>2. /\ D \in Seq(Delta)
      /\ \A j \in 1 .. Len(D) : D[j] \in Pending(cs) /\ D[j].type \in MetaTypes
  BY DeltasPending DEF Ready
<1>3. \A j \in 1 .. Len(D) : Metadata(D[j], fs, E)
  BY <1>2 DEF Metadata, Ready, Changes
<1> HIDE DEF D
<1> DEFINE r == Applied(fs, D, s).fs
           g == fix_refcnts(r)
<1>4. t.fs = r /\ t.image = Canon(g) /\ ~detect_dangling(r)
  BY <1>1 DEF Try, Good
<1>5. Based(r, fs, E)
  BY <1>2, <1>3, AppliedBased DEF Ready
<1> HIDE DEF r
<1>6. Based(g, fs, E) /\ g.ent = r.ent /\ Ids(g) = Ids(r)
  BY <1>5, FixFacts
<1> HIDE DEF g
<1>7. Walk(g) = Walk(r)
  BY <1>6 DEF Walk, Top
<1>8. \A p : IdAt(g, p) = IdAt(r, p)
  BY <1>7 DEF IdAt
<1>9. DOMAIN Canon(g) = {w[1] : w \in Walk(r)}
  BY <1>7, CanonFacts
<1>10. ASSUME NEW p \in DOMAIN Canon(g) PROVE Canon(g)[p].data = Base(fs, IdAt(r, p))
  <2>1. PICK w \in Walk(r) : p = w[1]
    BY <1>9
  <2>2. r.ent \subseteq E /\ Unique(E)
    BY <1>5 DEF Based, Ready
  <2>3. IdAt(r, p) = w[2]
    BY <2>1, <2>2, PathTo
  <2>4. w[2] \in Ids(r)
    BY <1>4 DEF detect_dangling
  <2>5. Canon(g)[p].data = g.obj[IdAt(g, p)].data
    BY CanonFacts
  <2>6. IdAt(g, p) = w[2] /\ w[2] \in Ids(g)
    BY <1>6, <1>8, <2>3, <2>4
  <2> QED
    BY <1>6, <2>3, <2>5, <2>6 DEF Based
<1>11. IsImage(Canon(g))
  BY CanonImage
<1> QED
  BY <1>4, <1>5, <1>9, <1>10, <1>11

\* Two of them with the same metadata are the same.
LEMMA TriedSame ==
    ASSUME NEW fs, NEW cs, NEW E, Ready(fs, cs, E), NEW t \in Tried(fs, cs), NEW u \in Tried(fs, cs),
           Meta(t.image) = Meta(u.image)
    PROVE  t.image = u.image
<1>1. /\ Based(t.fs, fs, E) /\ IsImage(t.image)
      /\ DOMAIN t.image = {w[1] : w \in Walk(t.fs)}
      /\ \A p \in DOMAIN t.image : t.image[p].data = Base(fs, IdAt(t.fs, p))
  BY TriedFacts
<1>2. /\ Based(u.fs, fs, E) /\ IsImage(u.image)
      /\ DOMAIN u.image = {w[1] : w \in Walk(u.fs)}
      /\ \A p \in DOMAIN u.image : u.image[p].data = Base(fs, IdAt(u.fs, p))
  BY TriedFacts
<1>3. Unique(E) /\ t.fs.ent \subseteq E /\ u.fs.ent \subseteq E
  BY <1>1, <1>2 DEF Ready, Based
<1>4. DOMAIN t.image = DOMAIN u.image
  BY <1>1, <1>2, MetaEqual
<1>5. ASSUME NEW p \in DOMAIN t.image PROVE t.image[p].data = u.image[p].data
  <2>1. PICK v \in Walk(t.fs) : p = v[1]
    BY <1>1
  <2>2. PICK w \in Walk(u.fs) : p = w[1]
    BY <1>2, <1>4
  <2>3. IdAt(t.fs, p) = v[2] /\ IdAt(u.fs, p) = w[2]
    BY <1>3, <2>1, <2>2, PathTo
  <2>4. v[2] = w[2]
    <3> DEFINE a == t.fs
               b == u.fs
    <3>1. /\ v \in Walk(a) /\ w \in Walk(b) /\ v[1] = w[1]
          /\ Unique(E) /\ a.ent \subseteq E /\ b.ent \subseteq E
      BY <1>3, <2>1, <2>2
    <3> HIDE DEF a, b
    <3> QED
      BY <3>1, OneObject
  <2> QED
    BY <1>1, <1>2, <1>4, <2>3, <2>4
<1> QED
  BY <1>1, <1>2, <1>5, MetaEqual

\* A set of numbers has a least one.
LEMMA Least == ASSUME NEW T, T \subseteq Nat, T # {} PROVE \E m \in T : \A n \in T : m <= n
<1>1. PICK m \in T : \A y \in T : ~(<<y, m>> \in OpToRel(<, Nat))
  BY NatLessThanWellFounded, WFMin
<1>2. \A y \in T : ~(y < m)
  BY <1>1 DEF OpToRel
<1>3. \A y \in T : m <= y
  BY <1>2
<1> QED
  BY <1>3

\* Each of them is accepted.
LEMMA TriedAccepted ==
    ASSUME NEW fs, NEW cs, NEW E, Ready(fs, cs, E), NEW t \in Tried(fs, cs)
    PROVE  Accepts(Tried(fs, cs), t.image, cs)
<1> DEFINE tried == Tried(fs, cs)
           M == Matches(tried, t.image)
<1>1. t.i \in M
  BY DEF Matches
<1>2. ASSUME NEW m \in M PROVE m \in Nat /\ \E u \in tried : u.i = m /\ Meta(u.image) = Meta(t.image)
  <2>1. PICK u \in tried : u.i = m /\ Meta(u.image) = Meta(t.image)
    BY <1>2 DEF Matches
  <2>2. u.i \in Nat
    BY TriedNumbers DEF Ready
  <2> QED
    BY <2>1, <2>2
<1>3. PICK m \in M : \A n \in M : m <= n
  <2> HIDE DEF M
  <2> QED
    BY <1>1, <1>2, Least
<1>4. PICK u \in tried : u.i = m /\ Meta(u.image) = Meta(t.image)
  BY <1>2
<1>5. u.image = t.image
  BY <1>4, TriedSame
<1> QED
  BY <1>3, <1>4, <1>5 DEF Accepts

-----------------------------------------------------------------------------
(* The cache of accepted images                                              *)

\* The stable file system and the pending calls are such.
LEMMA IsReady == ASSUME OInv, Fresh, InOrder PROVE Ready(stable, calls, Known)
<1>1. \A id \in Ids(stable) : DOMAIN stable.obj[id] = {"type", "ref", "data"}
  BY DEF InOrder, Object
<1>2. Unique(Known)
  BY DEF Fresh, Unique
<1> QED
  BY <1>1, <1>2 DEF Ready, OInv, Numbered, Listed, Known

\* A call that enters keeps what is stable and cached, and appends at most
\* itself to the list.
LEMMA EntersCached ==
    ASSUME OInv, Enters
    PROVE  /\ stable' = stable /\ valid' = valid /\ inherited' = inherited /\ status = "ok"
           /\ calls' = calls \/ \E c \in Call : calls' = Append(calls, c)
<1>1. stable' = stable /\ valid' = valid /\ inherited' = inherited /\ status = "ok"
  BY DEF Enters, EnterCreat, EnterMkdir, EnterUnlink, EnterRmdir, EnterLink, EnterRename,
         EnterFtruncate, EnterPwrite, EnterSync, EnterFsync, Enter, EnterData, Begin
<1>2. calls' = calls \/ \E c : calls' = Append(calls, c)
  BY DEF Enters, EnterCreat, EnterMkdir, EnterUnlink, EnterRmdir, EnterLink, EnterRename,
         EnterFtruncate, EnterPwrite, EnterSync, EnterFsync, Enter, EnterData
<1>3. ASSUME NEW c, calls' = Append(calls, c) PROVE c \in Call
  <2>1. calls \in Seq(Call) /\ calls' \in Seq(Call)
    BY EntersStep DEF OInv, Listed
  <2>2. calls \in Seq(Call \cup {c}) /\ c \in Call \cup {c}
    BY <2>1
  <2>3. Len(calls') = Len(calls) + 1 /\ calls'[Len(calls) + 1] = c
    BY <1>3, <2>2, AppendProperties
  <2>4. Len(calls) + 1 \in 1 .. Len(calls')
    BY <2>1, <2>3
  <2> QED
    BY <2>1, <2>3, <2>4, ElementOfSeq
<1> QED
  BY <1>1, <1>2, <1>3

\* A call that enters leaves the cache sound.
LEMMA EntersSound == ASSUME OInv, CacheIsSound, Enters PROVE CacheIsSound'
<1>1. /\ stable' = stable /\ valid' = valid /\ inherited' = inherited /\ status = "ok"
      /\ calls' = calls \/ \E c \in Call : calls' = Append(calls, c)
  BY EntersCached
<1>2. \A image \in valid \ inherited : Accepts(Tried(stable, calls), image, calls)
  BY <1>1 DEF CacheIsSound
<1>3. calls \in Seq(Call)
  BY DEF OInv, Listed
<1>4. ASSUME NEW image \in valid \ inherited PROVE Accepts(Tried(stable, calls'), image, calls')
  <2>1. CASE calls' = calls
    BY <1>2, <2>1
  <2>2. CASE \E c \in Call : calls' = Append(calls, c)
    <3>1. PICK c \in Call : calls' = Append(calls, c)
      BY <2>2
    <3>2. Accepts(Tried(stable, calls), image, calls)
      BY <1>2
    <3>3. Accepts(Tried(stable, Append(calls, c)), image, Append(calls, c))
      BY <1>3, <3>2, AcceptsMore
    <3> QED
      BY <3>1, <3>3
  <2> QED
    BY <1>1, <2>1, <2>2
<1> QED
  BY <1>1, <1>4 DEF CacheIsSound

\* A check adds to the cache what it would accept again.
LEMMA CheckSound ==
    ASSUME OInv, Fresh, InOrder, CacheIsSound, NEW image, check(image)
    PROVE  CacheIsSound'
<1> DEFINE tried == Tried(stable, calls)
<1>1. status = "ok"
  BY DEF check
<1>2. \A x \in valid \ inherited : Accepts(tried, x, calls)
  BY <1>1 DEF CacheIsSound
<1>3. \A t \in tried : Accepts(tried, t.image, calls)
  BY IsReady, TriedAccepted
<1>4. CASE image \in valid
  BY <1>2, <1>4 DEF check, CacheIsSound
<1>5. CASE image \notin valid /\ Accepts(tried, image, calls)
  <2>1. /\ stable' = stable /\ calls' = calls
        /\ valid' = valid \cup {image} \cup Looked(tried, image)
        /\ inherited' = inherited \ Looked(tried, image)
    BY <1>5 DEF check
  <2>2. ASSUME NEW x \in valid' \ inherited' PROVE Accepts(tried, x, calls)
    <3>1. x \in valid \ inherited \/ x = image \/ x \in Looked(tried, image)
      BY <2>1
    <3>2. x \in Looked(tried, image) => \E t \in tried : x = t.image
      BY DEF Looked
    <3> QED
      BY <1>2, <1>3, <1>5, <3>1, <3>2
  <2> QED
    BY <2>1, <2>2 DEF CacheIsSound
<1>6. CASE image \notin valid /\ ~Accepts(tried, image, calls)
  <2>1. status' = "error"
    BY <1>6 DEF check
  <2> QED
    BY <2>1 DEF CacheIsSound
<1> QED
  BY <1>4, <1>5, <1>6

\* Every step leaves the cache sound.
LEMMA CacheStep ==
    ASSUME OInv, Fresh, InOrder, CacheIsSound, [Next]_vars
    PROVE  CacheIsSound'
<1>1. CASE Enters
  BY <1>1, EntersSound
<1>2. CASE Exit \/ UNCHANGED vars
  <2>1. /\ stable' = stable /\ calls' = calls /\ status' = status
        /\ valid' = valid /\ inherited' = inherited
    BY <1>2 DEF Exit, vars
  <2> QED
    BY <2>1 DEF CacheIsSound
<1>3. CASE ExitSync \/ ExitFsync \/ NextLog
  <2>1. valid' \ inherited' = {}
    BY <1>3 DEF ExitSync, ExitFsync, NextLog
  <2> QED
    BY <2>1 DEF CacheIsSound
<1>4. CASE Check
  BY <1>4, CheckSound DEF Check
<1> QED
  BY <1>1, <1>2, <1>3, <1>4 DEF Next

\* Names and references, in every state.
THEOREM OracleOrder == Spec => [](Fresh /\ InOrder)
<1>1. Init => Fresh /\ InOrder
  BY OrderInit
<1>2. OInv /\ Fresh /\ InOrder /\ [Next]_vars => Fresh' /\ InOrder'
  BY OrderStep
<1> QED
  BY <1>1, <1>2, OracleInvariance, PTL DEF Spec

\* What check of driver/StableFS.C puts into _valid_fs_sigs while a log is
\* replayed it would accept again as long as it is there: with all calls that
\* were logged since, and sync and fsync clear it.  This holds in every log,
\* whatever answers of earlier logs the cache has kept over start and finish;
\* those answers are excepted.
THEOREM CachedAnswersHold == Spec => []CacheIsSound
<1>1. Init => CacheIsSound
  BY DEF Init, CacheIsSound
<1>2. OInv /\ Fresh /\ InOrder /\ CacheIsSound /\ [Next]_vars => CacheIsSound'
  BY CacheStep
<1> QED
  BY <1>1, <1>2, OracleInvariance, OracleOrder, PTL DEF Spec

-----------------------------------------------------------------------------
(* After a sync                                                              *)

\* Without deltas check_data explains no difference.
LEMMA NoDifference ==
    ASSUME NEW a \in Seq({0, 1}), NEW b \in Seq({0, 1}), DataOk(a, b, {})
    PROVE  a = b
<1>1. Len(a) \in Nat /\ Len(b) \in Nat /\ DOMAIN a = 1 .. Len(a) /\ DOMAIN b = 1 .. Len(b)
  OBVIOUS
<1>2. ~(Len(a) > Len(b)) /\ ~(Len(a) < Len(b))
  BY DEF DataOk
<1>3. Len(a) = Len(b)
  <2> DEFINE m == Len(a)
             n == Len(b)
  <2>1. m \in Nat /\ n \in Nat /\ ~(m > n) /\ ~(m < n)
    BY <1>1, <1>2
  <2> HIDE DEF m, n
  <2>2. m = n
    BY <2>1
  <2> QED
    BY <2>2 DEF m, n
<1>4. ASSUME NEW i \in 1 .. Len(a) PROVE a[i] = b[i]
  <2>1. a[i] \in {0, 1} /\ b[i] \in {0, 1}
    BY <1>3, ElementOfSeq
  <2>2. b[i] = 1 => a[i] # 0
    BY <1>1, <1>3 DEF DataOk
  <2>3. a[i] = 1 => b[i] = 1
    BY <1>1 DEF DataOk
  <2> QED
    BY <2>1, <2>2, <2>3
<1> QED
  BY <1>3, <1>4, SeqEqual

\* An image depends on the entries and on the objects that are reached.
LEMMA CanonSame ==
    ASSUME NEW a, NEW b, a.ent = b.ent, \A w \in Walk(a) : a.obj[w[2]] = b.obj[w[2]]
    PROVE  Canon(a) = Canon(b)
<1>1. Walk(a) = Walk(b)
  BY DEF Walk, Top
<1> DEFINE R(p, o) == [type |-> o.type, ref |-> o.ref, data |-> o.data,
                       same |-> {w[1] : w \in {v \in Walk(a) : v[2] = IdAt(a, p)}}]
           W == {w[1] : w \in Walk(a)}
<1>2. \A p : IdAt(a, p) = IdAt(b, p)
  BY <1>1 DEF IdAt
<1>3. Canon(a) = [p \in W |-> R(p, a.obj[IdAt(a, p)])]
  BY DEF Canon, IdAt
<1>4. Canon(b) = [p \in W |-> R(p, b.obj[IdAt(a, p)])]
  BY <1>1, <1>2 DEF Canon, IdAt
<1>5. ASSUME NEW p \in W PROVE a.obj[IdAt(a, p)] = b.obj[IdAt(a, p)]
  <2>1. PICK w \in Walk(a) : w[1] = p
    OBVIOUS
  <2> DEFINE v == CHOOSE x \in Walk(a) : x[1] = p
  <2>2. v \in Walk(a) /\ IdAt(a, p) = v[2]
    BY <2>1 DEF IdAt
  <2> QED
    BY <2>2
<1> HIDE DEF R, W
<1> QED
  BY <1>3, <1>4, <1>5

\* References that are counted need no fixing.
LEMMA FixWired ==
    ASSUME NEW fs, IsFS(fs), Wired(fs)
    PROVE  fix_refcnts(fs).ent = fs.ent /\ \A id \in Ids(fs) : fix_refcnts(fs).obj[id] = fs.obj[id]
<1> DEFINE g == fix_refcnts(fs)
<1>1. /\ g.ent = fs.ent
      /\ g.obj = [id \in Ids(fs) |-> IF Links(fs.ent, id) = 0 THEN fs.obj[id]
                                     ELSE Counts(fs.obj[id], Links(fs.ent, id))]
  BY DEF fix_refcnts, IsFS
<1> HIDE DEF g
<1>2. ASSUME NEW id \in Ids(fs) PROVE g.obj[id] = fs.obj[id]
  <2> DEFINE x == fs.obj[id]
  <2>1. x \in Object /\ (g.obj[id] = x \/ g.obj[id] = Counts(x, x.ref))
    BY <1>1 DEF Wired
  <2> HIDE DEF x
  <2>2. Counts(x, x.ref) = x
    BY <2>1 DEF Counts, Object
  <2>3. g.obj[id] = x
    BY <2>1, <2>2
  <2> QED
    BY <2>3 DEF x
<1> QED
  BY <1>1, <1>2 DEF g

\* After a sync there is one file system to compare with: the volatile one.
LEMMA SyncedTried ==
    ASSUME NEW fs, IsFS(fs), Wired(fs), NEW t \in Tried(copy(fs), << >>)
    PROVE  t.image = Canon(fs)
<1> DEFINE D == Deltas(<< >>, MetaTypes)
           a == copy(fs)
           b == copy(a)
           c == fix_refcnts(b)
<1>1. PICK s \in Subsets(D) : Good(a, D, s) /\ t = Try(a, D, s)
  BY TriedIs
<1>2. D = << >>
  BY NoDeltas
<1> HIDE DEF D
<1>3. Applied(a, D, s) = [ok |-> TRUE, fs |-> b]
  <2>1. D \in Seq(Delta) /\ Len(D) = 0
    BY <1>2
  <2>2. Applied(a, D, s) = AppliedUpto(a, D, s)[Len(D)] /\ AppliedUpto(a, D, s)[0] = [ok |-> TRUE, fs |-> copy(a)]
    <3> HIDE DEF a
    <3> QED
      BY <2>1, AppliedFacts
  <2> QED
    BY <2>1, <2>2
<1>4. t.image = Canon(c)
  BY <1>1, <1>3 DEF Try
<1>5. IsFS(a) /\ Ids(a) = Ids(fs) /\ a.ent = fs.ent /\ Wired(a) /\ \A id \in Ids(fs) : a.obj[id] = fs.obj[id]
  BY CopyFacts, CopyWired
<1> HIDE DEF a
<1>6. IsFS(b) /\ Ids(b) = Ids(a) /\ b.ent = a.ent /\ Wired(b) /\ \A id \in Ids(a) : b.obj[id] = a.obj[id]
  BY <1>5, CopyFacts, CopyWired
<1> HIDE DEF b
<1>7. c.ent = b.ent /\ \A id \in Ids(b) : c.obj[id] = b.obj[id]
  BY <1>6, FixWired
<1> HIDE DEF c
<1>8. ASSUME NEW w \in Walk(c) PROVE c.obj[w[2]] = fs.obj[w[2]]
  <2>1. PICK e \in c.ent : e[3] = w[2]
    BY WalkEnds
  <2>2. e \in fs.ent /\ w[2] \in Ids(fs)
    BY <1>5, <1>6, <1>7, <2>1 DEF Wired
  <2> QED
    BY <1>5, <1>6, <1>7, <2>2
<1>9. Canon(c) = Canon(fs)
  BY <1>5, <1>6, <1>7, <1>8, CanonSame
<1> QED
  BY <1>4, <1>9

-----------------------------------------------------------------------------
(* What a crash may leave has data of words                                  *)

\* The contents of a file after the first j writes.
ContentUpto(old, deltas, id, i) ==
    CHOOSE f : f = [j \in 0 .. Len(deltas) |->
                      IF j = 0 THEN old
                      ELSE IF Takes(i, j) /\ deltas[j].target = id THEN Written(f[j - 1], deltas[j])
                      ELSE f[j - 1]]

\* The writes of a subset, one after another.
LEMMA ContentStep ==
    ASSUME NEW old, NEW deltas, NEW id, NEW s, Len(deltas) \in Nat
    PROVE  ContentUpto(old, deltas, id, s) =
             [j \in 0 .. Len(deltas) |->
                IF j = 0 THEN old
                ELSE IF Takes(s, j) /\ deltas[j].target = id
                     THEN Written(ContentUpto(old, deltas, id, s)[j - 1], deltas[j])
                ELSE ContentUpto(old, deltas, id, s)[j - 1]]
<1> DEFINE Op(a, j) == IF Takes(s, j) /\ deltas[j].target = id THEN Written(a, deltas[j]) ELSE a
           Rec(f, n) == f = [i \in 0 .. n |-> IF i = 0 THEN old ELSE Op(f[i - 1], i)]
           S == {n \in Nat : \E f : Rec(f, n)}
<1> HIDE DEF Op
<1>1. 0 \in S
  <2> DEFINE f == [i \in 0 .. 0 |-> old]
  <2>1. Rec(f, 0)
    OBVIOUS
  <2> QED
    BY <2>1
<1>2. ASSUME NEW n \in Nat, n \in S PROVE n + 1 \in S
  <2>1. PICK f : Rec(f, n)
    BY <1>2
  <2> DEFINE g == [i \in 0 .. (n + 1) |-> IF i = n + 1 THEN Op(f[n], n + 1) ELSE f[i]]
             h == [i \in 0 .. (n + 1) |-> IF i = 0 THEN old ELSE Op(g[i - 1], i)]
  <2>2. ASSUME NEW i \in 0 .. (n + 1) PROVE g[i] = h[i]
    <3>1. CASE i = n + 1
      <4>1. g[i - 1] = f[n]
        BY <3>1
      <4> QED
        BY <3>1, <4>1
    <3>2. CASE i = 0
      <4>1. g[i] = f[0]
        BY <3>2
      <4>2. f[0] = old
        BY <2>1
      <4> QED
        BY <3>2, <4>1, <4>2
    <3>3. CASE i # 0 /\ i # n + 1
      <4>1. i \in 0 .. n /\ i - 1 \in 0 .. (n + 1) /\ i - 1 # n + 1
        BY <3>3
      <4>2. g[i] = f[i] /\ g[i - 1] = f[i - 1]
        BY <3>3, <4>1
      <4>3. f[i] = Op(f[i - 1], i)
        BY <2>1, <3>3, <4>1
      <4> QED
        BY <3>3, <4>2, <4>3
    <3> QED
      BY <3>1, <3>2, <3>3
  <2>3. g = h
    BY <2>2
  <2>4. Rec(g, n + 1)
    BY <2>3
  <2> HIDE DEF g, Rec
  <2>5. \E e : Rec(e, n + 1)
    BY <2>4
  <2>6. n + 1 \in Nat
    OBVIOUS
  <2> QED
    BY <2>5, <2>6, Zenon
<1> HIDE DEF S
<1>3. Len(deltas) \in S
  BY <1>1, <1>2, Induction
<1>4. \E f : Rec(f, Len(deltas))
  BY <1>3 DEF S
<1>5. ContentUpto(old, deltas, id, s) = CHOOSE f : Rec(f, Len(deltas))
  BY DEF ContentUpto, Op
<1>6. Rec(ContentUpto(old, deltas, id, s), Len(deltas))
  BY <1>4, <1>5
<1> QED
  BY <1>6 DEF Op

\* Contents are words.
LEMMA ContentWords ==
    ASSUME NEW old \in Seq({0, 1}), NEW deltas \in Seq(Delta),
           \A j \in 1 .. Len(deltas) : deltas[j].type \in DataTypes, NEW id, NEW s
    PROVE  Content(old, deltas, id, s) \in Seq({0, 1})
<1> DEFINE f == ContentUpto(old, deltas, id, s)
           S == {n \in Nat : n <= Len(deltas) => f[n] \in Seq({0, 1})}
<1>0. Len(deltas) \in Nat
  OBVIOUS
<1>1. f = [j \in 0 .. Len(deltas) |->
             IF j = 0 THEN old
             ELSE IF Takes(s, j) /\ deltas[j].target = id THEN Written(f[j - 1], deltas[j])
             ELSE f[j - 1]]
  BY <1>0, ContentStep
<1>2. Content(old, deltas, id, s) = f[Len(deltas)]
  BY DEF Content, ContentUpto
<1> HIDE DEF f
<1>3. 0 \in S
  BY <1>0, <1>1
<1>4. ASSUME NEW n \in Nat, n \in S PROVE n + 1 \in S
  <2>1. SUFFICES ASSUME n + 1 <= Len(deltas) PROVE f[n + 1] \in Seq({0, 1})
    OBVIOUS
  <2> DEFINE d == deltas[n + 1]
             old2 == f[n]
  <2>2. /\ n + 1 \in 0 .. Len(deltas) /\ n + 1 # 0 /\ (n + 1) - 1 = n /\ n <= Len(deltas)
        /\ n + 1 \in 1 .. Len(deltas)
    BY <1>0, <2>1
  <2>3. f[n + 1] = old2 \/ f[n + 1] = Written(old2, d)
    BY <1>1, <2>2
  <2>4. old2 \in Seq({0, 1}) /\ d \in Delta /\ d.type \in DataTypes
    BY <1>4, <2>2, ElementOfSeq
  <2> HIDE DEF d, old2
  <2>5. CASE d.type = "pwrite"
    <3>1. d.w \in Writes
      BY <2>4, <2>5 DEF Delta, EntryTypes
    <3>2. Written(old2, d) = Put(old2, d.w)
      BY <2>5 DEF Written
    <3>3. Put(old2, d.w) \in Seq({0, 1})
      BY <2>4, <3>1, PutFacts
    <3> QED
      BY <2>3, <2>4, <3>2, <3>3
  <2>6. CASE d.type = "truncate"
    <3> DEFINE length == d.length
    <3>1. length \in Nat
      BY <2>4, <2>6 DEF Delta, EntryTypes
    <3>2. Written(old2, d) = Cut(old2, length)
      BY <2>6 DEF Written
    <3> HIDE DEF length
    <3>3. Cut(old2, length) \in Seq({0, 1})
      BY <2>4, <3>1, CutFacts
    <3> QED
      BY <2>3, <2>4, <3>2, <3>3
  <2> QED
    BY <2>4, <2>5, <2>6 DEF DataTypes
<1> HIDE DEF S
<1>5. Len(deltas) \in S
  BY <1>0, <1>3, <1>4, Induction
<1> QED
  BY <1>0, <1>2, <1>5 DEF S

-----------------------------------------------------------------------------
(* What is synced stays                                                      *)

\* What a crash may leave is an image, and its data are words.
LEMMA ImageWords ==
    ASSUME OInv, InOrder, NEW image \in Images
    PROVE  IsImage(image) /\ \A p \in DOMAIN image : image[p].data \in Seq({0, 1})
<1> DEFINE D == Deltas(calls, DataTypes)
<1>1. D \in Seq(Delta) /\ \A j \in 1 .. Len(D) : D[j].type \in DataTypes
  BY DeltasPending DEF OInv, Listed
<1>2. ASSUME NEW id PROVE Contents(id) \subseteq Seq({0, 1})
  <2> DEFINE old == IF id \in Ids(stable) THEN stable.obj[id].data ELSE << >>
  <2>1. Contents(id) = {Content(old, D, id, i) : i \in Subsets(D)}
    BY DEF Contents
  <2>2. old \in Seq({0, 1})
    <3>1. CASE id \in Ids(stable)
      <4>1. stable.obj[id] \in Object
        BY <3>1 DEF InOrder
      <4> QED
        BY <3>1, <4>1 DEF Object
    <3>2. CASE id \notin Ids(stable)
      BY <3>2
    <3> QED
      BY <3>1, <3>2
  <2> HIDE DEF old, D
  <2>3. \A i \in Subsets(D) : Content(old, D, id, i) \in Seq({0, 1})
    BY <1>1, <2>2, ContentWords
  <2> QED
    BY <2>1, <2>3
<1> DEFINE ok(t) == t.lost \cap Seen(t.ents) = {}
           files(t) == {id \in Seen(t.ents) : Kind(id) = "file"}
           fs(t, f) == [obj |-> [id \in Seen(t.ents) |->
                           [type |-> Kind(id),
                            ref |-> Links({e \in t.ents : e[1] \in Seen(t.ents) \cup {Root}}, id),
                            data |-> IF id \in files(t) THEN f[id] ELSE << >>]],
                        ent |-> t.ents]
           F(t) == {g \in [files(t) -> UNION {Contents(id) : id \in files(t)}] :
                      \A id \in files(t) : g[id] \in Contents(id)}
<1>3. Images = UNION {{Canon(fs(t, f)) : f \in F(t)} : t \in {u \in Trees : ok(u)}}
  BY DEF Images, ImagesOf
<1>4. PICK t \in Trees : \E f \in F(t) : image = Canon(fs(t, f))
  <2> HIDE DEF F, fs, ok
  <2> QED
    BY <1>3
<1>5. PICK f \in F(t) : image = Canon(fs(t, f))
  BY <1>4
<1> DEFINE g == fs(t, f)
<1>6. \A id \in files(t) : f[id] \in Seq({0, 1})
  BY <1>2, <1>5
<1>7. << >> \in Seq({0, 1})
  OBVIOUS
<1>8. \A id \in Seen(t.ents) : g.obj[id].data \in Seq({0, 1})
  <2> HIDE DEF files
  <2> QED
    BY <1>6, <1>7
<1>9. g.ent = t.ents
  OBVIOUS
<1> HIDE DEF g, fs
<1>10. image = Canon(g)
  BY <1>5 DEF g
<1>11. ASSUME NEW p \in DOMAIN image PROVE image[p].data \in Seq({0, 1})
  <2>0. DOMAIN Canon(g) = {w[1] : w \in Walk(g)}
    BY CanonFacts
  <2>1. PICK w \in Walk(g) : w[1] = p
    BY <1>10, <1>11, <2>0
  <2> DEFINE v == CHOOSE x \in Walk(g) : x[1] = p
  <2>2. v \in Walk(g) /\ IdAt(g, p) = v[2]
    BY <2>1 DEF IdAt
  <2> HIDE DEF v
  <2>3. Walk(g) = Walk([ent |-> t.ents])
    BY <1>9 DEF Walk, Top
  <2>4. v[2] \in Seen(t.ents)
    BY <2>2, <2>3 DEF Seen
  <2>5. image[p].data = g.obj[IdAt(g, p)].data
    BY <1>10, <1>11, CanonFacts
  <2> QED
    BY <1>8, <2>2, <2>4, <2>5
<1> QED
  BY <1>10, <1>11, CanonImage

\* An image with the metadata of a file system and data that nothing explains
\* is rejected.
LEMMA Unexplained ==
    ASSUME NEW fs, NEW cs, NEW E, Ready(fs, cs, E), \A id \in Ids(fs) : fs.obj[id] \in Object,
           NEW t \in Tried(fs, cs), NEW image,
           \A p \in DOMAIN image : image[p].data \in Seq({0, 1}),
           DOMAIN t.image = DOMAIN image, check_data(t, image, cs), NEW p \in DOMAIN image,
           \A d \in ToSet(Deltas(cs, DataTypes)) : d.target # IdAt(t.fs, p)
    PROVE  t.image[p].data = image[p].data
<1> DEFINE a == t.image[p].data
           b == image[p].data
           X == {x \in ToSet(Deltas(cs, DataTypes)) : x.target = IdAt(t.fs, p)}
<1>1. X = {}
  OBVIOUS
<1>2. b # a => DataOk(a, b, X)
  BY DEF check_data
<1>3. a = Base(fs, IdAt(t.fs, p))
  BY TriedFacts
<1>4. b \in Seq({0, 1})
  OBVIOUS
<1>5. Base(fs, IdAt(t.fs, p)) \in Seq({0, 1})
  <2> DEFINE id == IdAt(t.fs, p)
  <2> HIDE DEF id
  <2>1. CASE id \in Ids(fs)
    <3>1. fs.obj[id] \in Object
      BY <2>1
    <3> QED
      BY <2>1, <3>1 DEF Base, Object, id
  <2>2. CASE id \notin Ids(fs)
    <3>1. << >> \in Seq({0, 1})
      OBVIOUS
    <3> QED
      BY <2>2, <3>1 DEF Base, id
  <2> QED
    BY <2>1, <2>2
<1> HIDE DEF a, b, X
<1>6. a \in Seq({0, 1})
  BY <1>3, <1>5
<1>7. b # a => DataOk(a, b, {})
  BY <1>1, <1>2
<1>8. a = b
  BY <1>4, <1>6, <1>7, NoDifference
<1> QED
  BY <1>8 DEF a, b

\* The same after a step, about what is stable and pending then.
LEMMA NextReady ==
    ASSUME OInv, Fresh, InOrder, [Next]_vars
    PROVE  /\ Ready(stable', calls', Known')
           /\ \A id \in Ids(stable') : stable'.obj[id] \in Object
<1>1. OInv' /\ Fresh' /\ InOrder'
  BY OracleStep, OrderStep
<1>2. \A id \in Ids(stable') : stable'.obj[id] \in Object
  BY <1>1 DEF InOrder
<1>3. \A id \in Ids(stable') : DOMAIN stable'.obj[id] = {"type", "ref", "data"}
  BY <1>2 DEF Object
<1>4. Unique(Known')
  BY <1>1 DEF Fresh, Unique
<1>5. calls' \in Seq(Call) /\ IsFS(stable') /\ \A d \in Pending(calls') : d.type = "add" => d.target \notin Ids(stable')
  BY <1>1 DEF OInv, Numbered, Listed
<1>6. stable'.ent \subseteq Known' /\ Changes(calls') \subseteq Known'
  BY DEF Known
<1> QED
  BY <1>2, <1>3, <1>4, <1>5, <1>6 DEF Ready

\* A sync leaves one image that is accepted.
LEMMA SyncRejects ==
    ASSUME OInv, Fresh, InOrder, [Next]_vars, ExitSync, NEW image \in Stale
    PROVE  image \notin valid' /\ ~Accepts(Tried(stable', calls'), image, calls')
<1>1. /\ stable' = copy(volatile) /\ calls' = << >> /\ valid' = {} /\ ongoing.op = "sync"
  BY DEF ExitSync
<1>2. image \in Images /\ image # Canon(volatile)
  BY <1>1 DEF Stale
<1>3. SUFFICES ASSUME Accepts(Tried(stable', calls'), image, calls') PROVE FALSE
  BY <1>1
<1>4. PICK t \in Tried(stable', calls') :
        Meta(t.image) = Meta(image) /\ (t.image = image \/ check_data(t, image, calls'))
  BY <1>3 DEF Accepts
<1>5. t.image = Canon(volatile)
  <2>1. t \in Tried(copy(volatile), << >>) /\ IsFS(volatile) /\ Wired(volatile)
    BY <1>1, <1>4 DEF OInv, Numbered, InOrder
  <2> QED
    BY <2>1, SyncedTried
<1>6. IsImage(image) /\ \A p \in DOMAIN image : image[p].data \in Seq({0, 1})
  BY <1>2, ImageWords
<1>7. IsImage(t.image)
  BY <1>5, CanonImage
<1>8. check_data(t, image, calls')
  BY <1>2, <1>4, <1>5
<1>9. DOMAIN t.image = DOMAIN image
  BY <1>4, <1>6, <1>7, MetaEqual
<1>10. ToSet(Deltas(calls', DataTypes)) = {}
  <2>1. Deltas(calls', DataTypes) = << >>
    BY <1>1, NoDeltas
  <2> QED
    BY <2>1 DEF ToSet
<1>11. ASSUME NEW p \in DOMAIN image PROVE t.image[p].data = image[p].data
  <2>1. /\ Ready(stable', calls', Known')
        /\ \A id \in Ids(stable') : stable'.obj[id] \in Object
    BY NextReady
  <2> DEFINE fs == stable'
             cs == calls'
             E == Known'
  <2>2. /\ Ready(fs, cs, E) /\ (\A id \in Ids(fs) : fs.obj[id] \in Object)
        /\ t \in Tried(fs, cs) /\ check_data(t, image, cs)
        /\ \A d \in ToSet(Deltas(cs, DataTypes)) : d.target # IdAt(t.fs, p)
    BY <1>4, <1>8, <1>10, <2>1
  <2> HIDE DEF fs, cs, E
  <2> QED
    BY <1>6, <1>9, <2>2, Unexplained
<1>12. t.image = image
  BY <1>4, <1>6, <1>7, <1>9, <1>11, MetaEqual
<1> QED
  BY <1>2, <1>5, <1>12

\* An fsync leaves no image that is accepted with other data of the file.
LEMMA FsyncRejects ==
    ASSUME OInv, Fresh, InOrder, [Next]_vars, ExitFsync, NEW image \in Stale
    PROVE  image \notin valid' /\ ~Accepts(Tried(stable', calls'), image, calls')
<1> DEFINE id == ongoing.id
           o == volatile.obj[id]
<1>1. /\ stable' = add_new_obj(stable, o, id) /\ calls' = Flushed(calls, id) /\ valid' = {}
      /\ ongoing.op = "fsync" /\ volatile' = volatile
  BY DEF ExitFsync, make_obj_stable
<1>2. image \in Images
  BY DEF Stale
<1>3. PICK p \in DOMAIN image, e \in stable.ent \cup volatile.ent :
        e[2] = p[Len(p)] /\ e[3] = id /\ image[p].data # o.data
  BY <1>1 DEF Stale
<1> HIDE DEF id, o
<1>4. SUFFICES ASSUME Accepts(Tried(stable', calls'), image, calls') PROVE FALSE
  BY <1>1
<1> DEFINE fs == stable'
           cs == calls'
           E == Known'
<1>5. PICK t \in Tried(fs, cs) :
        Meta(t.image) = Meta(image) /\ (t.image = image \/ check_data(t, image, cs))
  BY <1>4 DEF Accepts
<1>6. Ready(fs, cs, E) /\ \A x \in Ids(fs) : fs.obj[x] \in Object
  BY NextReady
<1>7. IsFS(stable) /\ calls \in Seq(Call) /\ \A i \in 1 .. Len(calls) : Proper(calls[i])
  BY DEF OInv, Numbered, Listed
<1>8. Ids(fs) = Ids(stable) \cup {id} /\ fs.ent = stable.ent /\ fs.obj[id] = o
  <2>1. Ids(fs) = Ids(stable) \cup {id} /\ fs.ent = stable.ent
    BY <1>1, <1>7, StoreFacts
  <2>2. fs.obj = Stored(stable.obj, id, o)
    BY <1>1, <1>7 DEF add_new_obj, IsFS
  <2> HIDE DEF fs
  <2>3. fs.obj[id] = o
    BY <2>2 DEF Stored
  <2> QED
    BY <2>1, <2>3
<1>9. ASSUME NEW d \in ToSet(Deltas(cs, DataTypes)) PROVE d.target # id
  <2>1. \A x \in Pending(cs) : x = Invalid \/ x.target # id
    <3>1. "none" \notin MetaTypes
      BY DEF MetaTypes, EntryTypes
    <3> QED
      BY <1>1, <1>7, <3>1, FlushedKeeps
  <2>2. cs \in Seq(Call)
    BY <1>6 DEF Ready
  <2> HIDE DEF cs
  <2>3. PICK j \in 1 .. Len(Deltas(cs, DataTypes)) : d = Deltas(cs, DataTypes)[j]
    <3>1. Deltas(cs, DataTypes) \in Seq(Delta)
      BY <2>2, DeltasPending
    <3> QED
      BY <1>9, <3>1 DEF ToSet
  <2>4. d \in Pending(cs) /\ d.type \in DataTypes
    BY <2>2, <2>3, DeltasPending
  <2>5. d # Invalid
    BY <2>4 DEF Invalid, DataTypes
  <2> QED
    BY <2>1, <2>4, <2>5
<1>10. e \in E
  BY <1>1, <1>3, <1>8 DEF Known
<1> HIDE DEF fs, cs, E
<1>11. IsImage(image) /\ \A q \in DOMAIN image : image[q].data \in Seq({0, 1})
  BY <1>2, ImageWords
<1>12. /\ Based(t.fs, fs, E) /\ IsImage(t.image)
       /\ DOMAIN t.image = {w[1] : w \in Walk(t.fs)}
       /\ \A q \in DOMAIN t.image : t.image[q].data = Base(fs, IdAt(t.fs, q))
  BY <1>6, TriedFacts
<1>13. DOMAIN t.image = DOMAIN image
  BY <1>5, <1>11, <1>12, MetaEqual
<1>14. IdAt(t.fs, p) = id
  <2>1. PICK w \in Walk(t.fs) : w[1] = p
    BY <1>3, <1>12, <1>13
  <2>2. PICK f \in t.fs.ent : f[2] = w[1][Len(w[1])] /\ f[3] = w[2]
    BY WalkEnds
  <2>3. Unique(E) /\ t.fs.ent \subseteq E
    BY <1>6, <1>12 DEF Ready, Based
  <2>4. f = e
    BY <1>3, <1>10, <2>1, <2>2, <2>3 DEF Unique
  <2>5. IdAt(t.fs, w[1]) = w[2]
    BY <2>3, PathTo
  <2> QED
    BY <1>3, <2>1, <2>2, <2>4, <2>5
<1>15. t.image[p].data = o.data
  BY <1>3, <1>8, <1>12, <1>13, <1>14 DEF Base
<1>16. check_data(t, image, cs)
  BY <1>3, <1>5, <1>15
<1>17. \A d \in ToSet(Deltas(cs, DataTypes)) : d.target # IdAt(t.fs, p)
  BY <1>9, <1>14
<1>18. t.image[p].data = image[p].data
  BY <1>3, <1>6, <1>11, <1>13, <1>16, <1>17, Unexplained
<1> QED
  BY <1>3, <1>15, <1>18

\* From the exit of a sync or an fsync on, driver/StableFS.C rejects whatever
\* a crash before it might have left and lacks what it wrote, for every log of
\* calls before it: neither the deltas that are left nor the cache explain it.
THEOREM SyncedIsDurable == Spec => SyncIsDurable
<1> DEFINE A == ExitSync \/ ExitFsync =>
                  \E fs \in {stable'}, cs \in {calls'} : Rejects(Stale, fs, cs, valid')
<1>1. ASSUME OInv, Fresh, InOrder, [Next]_vars PROVE A
  <2>1. SUFFICES ASSUME ExitSync \/ ExitFsync
                 PROVE  \E fs \in {stable'}, cs \in {calls'} : Rejects(Stale, fs, cs, valid')
    OBVIOUS
  <2>2. ASSUME NEW image \in Stale
        PROVE  image \notin valid' /\ ~Accepts(Tried(stable', calls'), image, calls')
    BY <1>1, <2>1, SyncRejects, FsyncRejects
  <2>3. Rejects(Stale, stable', calls', valid')
    BY <2>2 DEF Rejects
  <2> QED
    BY <2>3
<1>2. OInv /\ Fresh /\ InOrder /\ [Next]_vars => [A]_vars
  BY <1>1
<1> QED
  BY <1>2, OracleInvariance, OracleOrder, PTL DEF Spec, SyncIsDurable
=============================================================================
