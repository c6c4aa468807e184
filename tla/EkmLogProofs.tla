---------------------------- MODULE EkmLogProofs ----------------------------
(***************************************************************************)
(* What the simulator fetches is what was logged: for threads, records,    *)
(* traces and pages of any number and length.                              *)
(***************************************************************************)
EXTENDS EkmLog, SequenceTheorems, WellFoundedInduction, TLAPS

Unit == Nat \X Nat \X Nat \X Nat
Page == Seq(Unit)

\* Induction over numbers, for a set of them.
LEMMA Induction ==
    ASSUME NEW S, 0 \in S, \A n \in Nat : n \in S => n + 1 \in S
    PROVE  \A n \in Nat : n \in S
<1> DEFINE T == Nat \ S
<1>1. SUFFICES ASSUME T # {} PROVE FALSE
  OBVIOUS
<1>2. T \subseteq Nat
  OBVIOUS
<1>3. PICK x \in T : \A y \in T : ~(<<y, x>> \in OpToRel(<, Nat))
  BY <1>1, <1>2, NatLessThanWellFounded, WFMin
<1>4. \A y \in T : ~(y < x)
  BY <1>2, <1>3 DEF OpToRel
<1>5. x \in Nat /\ x \notin S /\ x # 0
  BY <1>3
<1>6. x - 1 \in Nat /\ x - 1 < x /\ (x - 1) + 1 = x
  BY <1>5
<1>7. x - 1 \notin T
  BY <1>4, <1>6
<1>8. x - 1 \in S
  BY <1>6, <1>7
<1> QED
  BY <1>5, <1>6, <1>8

-----------------------------------------------------------------------------
(* Copying                                                                 *)

\* What copy_log_buffer has copied is what it had copied, and the next page.
LEMMA CopiedStep ==
    ASSUME NEW ps, Len(ps) \in Nat
    PROVE  Copied(ps) = [i \in 0 .. Len(ps) |-> IF i = 0 THEN <<>> ELSE Copied(ps)[i - 1] \o ps[i]]
<1> DEFINE Rec(f, n) == f = [i \in 0 .. n |-> IF i = 0 THEN <<>> ELSE f[i - 1] \o ps[i]]
           S == {n \in Nat : \E f : Rec(f, n)}
<1>1. 0 \in S
  <2> DEFINE f == [i \in 0 .. 0 |-> <<>>]
  <2>1. Rec(f, 0)
    OBVIOUS
  <2> QED
    BY <2>1
<1>2. ASSUME NEW n \in Nat, n \in S PROVE n + 1 \in S
  <2>1. PICK f : Rec(f, n)
    BY <1>2
  <2> DEFINE g == [i \in 0 .. (n + 1) |-> IF i = n + 1 THEN f[n] \o ps[n + 1] ELSE f[i]]
             h == [i \in 0 .. (n + 1) |-> IF i = 0 THEN <<>> ELSE g[i - 1] \o ps[i]]
  <2>2. ASSUME NEW i \in 0 .. (n + 1) PROVE g[i] = h[i]
    <3>1. CASE i = n + 1
      <4>1. g[i - 1] = f[n]
        BY <3>1
      <4> QED
        BY <3>1, <4>1
    <3>2. CASE i = 0
      <4>1. g[i] = f[0]
        BY <3>2
      <4>2. f[0] = <<>>
        BY <2>1
      <4> QED
        BY <3>2, <4>1, <4>2
    <3>3. CASE i # 0 /\ i # n + 1
      <4>1. i \in 0 .. n /\ i - 1 \in 0 .. (n + 1) /\ i - 1 # n + 1
        BY <3>3
      <4>2. g[i] = f[i] /\ g[i - 1] = f[i - 1]
        BY <3>3, <4>1
      <4>3. f[i] = f[i - 1] \o ps[i]
        BY <2>1, <3>3, <4>1
      <4> QED
        BY <3>3, <4>2, <4>3
    <3> QED
      BY <3>1, <3>2, <3>3
  <2>3. g = h
    BY <2>2
  <2>4. Rec(g, n + 1)
    BY <2>3
  <2> HIDE DEF g, Rec
  <2>5. \E e : Rec(e, n + 1)
    BY <2>4
  <2>6. n + 1 \in Nat
    OBVIOUS
  <2> QED
    BY <2>5, <2>6, Zenon
<1> HIDE DEF S
<1>3. Len(ps) \in S
  BY <1>1, <1>2, Induction
<1>4. \E f : Rec(f, Len(ps))
  BY <1>3 DEF S
<1>5. Copied(ps) = CHOOSE f : Rec(f, Len(ps))
  BY DEF Copied
<1>6. Rec(Copied(ps), Len(ps))
  BY <1>4, <1>5
<1> QED
  BY <1>6

\* Copying page after page gives the contents of the pages copied so far.
LEMMA CopiedIsPage ==
    ASSUME NEW ps \in Seq(Page)
    PROVE  /\ \A i \in 0 .. Len(ps) : Copied(ps)[i] \in Page
           /\ \A i \in 1 .. Len(ps) : Copied(ps)[i] = Copied(ps)[i - 1] \o ps[i]
           /\ Copied(ps)[0] = <<>>
<1>0. Len(ps) \in Nat
  OBVIOUS
<1>1. Copied(ps) = [i \in 0 .. Len(ps) |-> IF i = 0 THEN <<>> ELSE Copied(ps)[i - 1] \o ps[i]]
  BY <1>0, CopiedStep
<1>2. Copied(ps)[0] = <<>>
  BY <1>0, <1>1
<1>3. ASSUME NEW i \in 1 .. Len(ps) PROVE Copied(ps)[i] = Copied(ps)[i - 1] \o ps[i]
  <2>1. i \in 0 .. Len(ps) /\ i # 0
    BY <1>0
  <2> QED
    BY <1>1, <2>1
<1> DEFINE S == {n \in Nat : n <= Len(ps) => Copied(ps)[n] \in Page}
<1>4. 0 \in S
  <2>1. <<>> \in Page
    BY DEF Page
  <2> QED
    BY <1>2, <2>1
<1>5. ASSUME NEW n \in Nat, n \in S PROVE n + 1 \in S
  <2>1. SUFFICES ASSUME n + 1 <= Len(ps) PROVE Copied(ps)[n + 1] \in Page
    OBVIOUS
  <2>2. n + 1 \in 1 .. Len(ps) /\ (n + 1) - 1 = n /\ n <= Len(ps)
    BY <1>0, <2>1
  <2>3. Copied(ps)[n] \in Page /\ ps[n + 1] \in Page
    BY <1>5, <2>2, ElementOfSeq
  <2>4. Copied(ps)[n + 1] = Copied(ps)[n] \o ps[n + 1]
    BY <1>3, <2>2
  <2> QED
    BY <2>3, <2>4, ConcatProperties DEF Page
<1> HIDE DEF S
<1>6. \A n \in Nat : n \in S
  BY <1>4, <1>5, Induction
<1>7. ASSUME NEW i \in 0 .. Len(ps) PROVE Copied(ps)[i] \in Page
  <2>1. i \in Nat /\ i <= Len(ps)
    BY <1>0
  <2> QED
    BY <1>6, <2>1 DEF S
<1> QED
  BY <1>2, <1>3, <1>7

\* The contents of the pages are a list of words.
LEMMA DataIsPage ==
    ASSUME NEW ps \in Seq(Page)
    PROVE  Data(ps) \in Page
<1>1. Len(ps) \in 0 .. Len(ps)
  OBVIOUS
<1> QED
  BY <1>1, CopiedIsPage DEF Data

\* The same pages are copied the same way.
LEMMA CopiedSame ==
    ASSUME NEW ps \in Seq(Page), NEW qs \in Seq(Page), NEW m \in Nat,
           m <= Len(ps), m <= Len(qs), \A i \in 1 .. m : ps[i] = qs[i]
    PROVE  Copied(ps)[m] = Copied(qs)[m]
<1> DEFINE S == {n \in Nat : n <= m => Copied(ps)[n] = Copied(qs)[n]}
<1>1. 0 \in S
  BY CopiedIsPage
<1>2. ASSUME NEW n \in Nat, n \in S PROVE n + 1 \in S
  <2>1. SUFFICES ASSUME n + 1 <= m PROVE Copied(ps)[n + 1] = Copied(qs)[n + 1]
    OBVIOUS
  <2>2. Len(ps) \in Nat /\ Len(qs) \in Nat
    OBVIOUS
  <2>3. n + 1 \in 1 .. Len(ps) /\ n + 1 \in 1 .. Len(qs) /\ n + 1 \in 1 .. m /\ (n + 1) - 1 = n /\ n <= m
    BY <2>1, <2>2
  <2>4. /\ Copied(ps)[n + 1] = Copied(ps)[n] \o ps[n + 1]
        /\ Copied(qs)[n + 1] = Copied(qs)[n] \o qs[n + 1]
    BY <2>3, CopiedIsPage
  <2>5. ps[n + 1] = qs[n + 1] /\ Copied(ps)[n] = Copied(qs)[n]
    BY <1>2, <2>3
  <2> QED
    BY <2>4, <2>5
<1> HIDE DEF S
<1>3. m \in S
  BY <1>1, <1>2, Induction
<1> QED
  BY <1>3 DEF S

-----------------------------------------------------------------------------
(* Logging                                                                 *)

\* A unit is added at the end, be it on a new page or not.
LEMMA UnitAdded ==
    ASSUME NEW ps \in Seq(Page), NEW u \in Unit
    PROVE  AddUnit(ps, u) \in Seq(Page) /\ Data(AddUnit(ps, u)) = Data(ps) \o <<u>>
<1> DEFINE qs == AddUnit(ps, u)
           n == Len(ps)
<1>0. n \in Nat /\ <<u>> \in Page
  BY DEF Page
<1>1. CASE qs = Append(ps, <<u>>)
  <2>1. /\ qs \in Seq(Page) /\ Len(qs) = n + 1 /\ qs[n + 1] = <<u>>
        /\ \A i \in 1 .. n : qs[i] = ps[i]
    BY <1>0, <1>1, AppendProperties
  <2> HIDE DEF qs
  <2>2. n + 1 \in 1 .. Len(qs) /\ (n + 1) - 1 = n
    BY <1>0, <2>1
  <2>3. Copied(qs)[n + 1] = Copied(qs)[n] \o <<u>>
    BY <2>1, <2>2, CopiedIsPage
  <2>4. Copied(qs)[n] = Copied(ps)[n]
    <3>1. n <= Len(qs) /\ n <= Len(ps)
      BY <1>0, <2>1
    <3> QED
      BY <1>0, <2>1, <3>1, CopiedSame
  <2>5. Data(qs) = Data(ps) \o <<u>>
    BY <2>1, <2>3, <2>4 DEF Data
  <2> QED
    BY <2>1, <2>5 DEF qs
<1>2. CASE qs # Append(ps, <<u>>)
  <2>1. ps # <<>> /\ qs = [ps EXCEPT ![n] = Append(ps[n], u)]
    BY <1>2 DEF AddUnit
  <2>2. n \in 1 .. Len(ps) /\ n - 1 \in Nat
    BY <1>0, <2>1, EmptySeq
  <2>3. ps[n] \in Page
    BY <2>2, ElementOfSeq
  <2>4. Append(ps[n], u) \in Page /\ Append(ps[n], u) = ps[n] \o <<u>>
    BY <2>3, AppendProperties, AppendIsConcat DEF Page
  <2>5. /\ qs \in Seq(Page) /\ Len(qs) = n
        /\ \A i \in 1 .. n : qs[i] = IF i = n THEN Append(ps[n], u) ELSE ps[i]
    BY <2>1, <2>2, <2>4, ExceptSeq
  <2> HIDE DEF qs
  <2>6. Copied(qs)[n] = Copied(qs)[n - 1] \o (ps[n] \o <<u>>)
    <3>1. Copied(qs)[n] = Copied(qs)[n - 1] \o qs[n]
      BY <2>2, <2>5, CopiedIsPage
    <3> QED
      BY <2>2, <2>4, <2>5, <3>1
  <2>7. Copied(qs)[n - 1] = Copied(ps)[n - 1]
    <3>1. n - 1 <= Len(qs) /\ n - 1 <= Len(ps)
      BY <1>0, <2>5
    <3>2. \A i \in 1 .. (n - 1) : ps[i] = qs[i]
      BY <1>0, <2>5
    <3> QED
      BY <2>2, <2>5, <3>1, <3>2, CopiedSame
  <2>8. Copied(ps)[n - 1] \in Page /\ Copied(ps)[n] = Copied(ps)[n - 1] \o ps[n]
    <3>1. n - 1 \in 0 .. Len(ps)
      BY <2>2
    <3> QED
      BY <2>2, <3>1, CopiedIsPage
  <2>9. Copied(ps)[n - 1] \o (ps[n] \o <<u>>) = (Copied(ps)[n - 1] \o ps[n]) \o <<u>>
    <3> DEFINE a == Copied(ps)[n - 1]
               b == ps[n]
               c == <<u>>
    <3>1. a \in Seq(Unit) /\ b \in Seq(Unit) /\ c \in Seq(Unit)
      BY <1>0, <2>3, <2>8 DEF Page
    <3> HIDE DEF a, b, c
    <3>2. (a \o b) \o c = a \o (b \o c)
      BY <3>1, ConcatAssociative, SMTT(30)
    <3> QED
      BY <3>2 DEF a, b, c
  <2>10. Data(qs) = Data(ps) \o <<u>>
    BY <2>5, <2>6, <2>7, <2>8, <2>9 DEF Data
  <2> QED
    BY <2>5, <2>10 DEF qs
<1> QED
  BY <1>1, <1>2

\* The loop of log_add_buf adds unit after unit.
LEMMA AddedStep ==
    ASSUME NEW ps, NEW units, Len(units) \in Nat
    PROVE  Added(ps, units) = [k \in 0 .. Len(units) |->
                                 IF k = 0 THEN ps ELSE AddUnit(Added(ps, units)[k - 1], units[k])]
<1> DEFINE Rec(f, n) == f = [k \in 0 .. n |-> IF k = 0 THEN ps ELSE AddUnit(f[k - 1], units[k])]
           S == {n \in Nat : \E f : Rec(f, n)}
<1>1. 0 \in S
  <2> DEFINE f == [k \in 0 .. 0 |-> ps]
  <2>1. Rec(f, 0)
    OBVIOUS
  <2> QED
    BY <2>1
<1>2. ASSUME NEW n \in Nat, n \in S PROVE n + 1 \in S
  <2>1. PICK f : Rec(f, n)
    BY <1>2
  <2> DEFINE g == [k \in 0 .. (n + 1) |-> IF k = n + 1 THEN AddUnit(f[n], units[n + 1]) ELSE f[k]]
             h == [k \in 0 .. (n + 1) |-> IF k = 0 THEN ps ELSE AddUnit(g[k - 1], units[k])]
  <2>2. ASSUME NEW k \in 0 .. (n + 1) PROVE g[k] = h[k]
    <3>1. CASE k = n + 1
      <4>1. g[k - 1] = f[n]
        BY <3>1
      <4> QED
        BY <3>1, <4>1
    <3>2. CASE k = 0
      <4>1. g[k] = f[0]
        BY <3>2
      <4>2. f[0] = ps
        BY <2>1
      <4> QED
        BY <3>2, <4>1, <4>2
    <3>3. CASE k # 0 /\ k # n + 1
      <4>1. k \in 0 .. n /\ k - 1 \in 0 .. (n + 1) /\ k - 1 # n + 1
        BY <3>3
      <4>2. g[k] = f[k] /\ g[k - 1] = f[k - 1]
        BY <3>3, <4>1
      <4>3. f[k] = AddUnit(f[k - 1], units[k])
        BY <2>1, <3>3, <4>1
      <4> QED
        BY <3>3, <4>2, <4>3
    <3> QED
      BY <3>1, <3>2, <3>3
  <2>3. g = h
    BY <2>2
  <2>4. Rec(g, n + 1)
    BY <2>3
  <2> HIDE DEF g, Rec
  <2>5. \E e : Rec(e, n + 1)
    BY <2>4
  <2>6. n + 1 \in Nat
    OBVIOUS
  <2> QED
    BY <2>5, <2>6, Zenon
<1> HIDE DEF S
<1>3. Len(units) \in S
  BY <1>1, <1>2, Induction
<1>4. \E f : Rec(f, Len(units))
  BY <1>3 DEF S
<1>5. Added(ps, units) = CHOOSE f : Rec(f, Len(units))
  BY DEF Added
<1>6. Rec(Added(ps, units), Len(units))
  BY <1>4, <1>5
<1> QED
  BY <1>6

\* Wherever pages end, the log grows by the units of the record.
LEMMA AllAdded ==
    ASSUME NEW ps \in Seq(Page), NEW units \in Page
    PROVE  /\ Added(ps, units)[Len(units)] \in Seq(Page)
           /\ Data(Added(ps, units)[Len(units)]) = Data(ps) \o units
<1> DEFINE a == Added(ps, units)
           S == {n \in Nat : n <= Len(units) => /\ a[n] \in Seq(Page)
                                                /\ Data(a[n]) = Data(ps) \o SubSeq(units, 1, n)}
<1>0. Len(units) \in Nat /\ units \in Seq(Unit)
  BY DEF Page
<1>1. a = [k \in 0 .. Len(units) |-> IF k = 0 THEN ps ELSE AddUnit(a[k - 1], units[k])]
  BY <1>0, AddedStep
<1>d. Data(ps) \in Seq(Unit)
  BY DataIsPage DEF Page
<1> HIDE DEF a
<1>2. 0 \in S
  <2>1. a[0] = ps
    BY <1>0, <1>1
  <2>2. SubSeq(units, 1, 0) = <<>>
    BY SubSeqEmpty
  <2>3. Data(ps) \o <<>> = Data(ps)
    BY <1>d, ConcatEmptySeq
  <2> QED
    BY <2>1, <2>2, <2>3
<1>3. ASSUME NEW n \in Nat, n \in S PROVE n + 1 \in S
  <2>1. SUFFICES ASSUME n + 1 <= Len(units)
                 PROVE  /\ a[n + 1] \in Seq(Page)
                        /\ Data(a[n + 1]) = Data(ps) \o SubSeq(units, 1, n + 1)
    OBVIOUS
  <2>2. /\ n + 1 \in 0 .. Len(units) /\ n + 1 # 0 /\ (n + 1) - 1 = n /\ n <= Len(units)
        /\ n + 1 \in 1 .. Len(units) /\ 1 \in 1 .. Len(units)
    BY <1>0, <2>1
  <2>3. a[n + 1] = AddUnit(a[n], units[n + 1])
    BY <1>1, <2>2
  <2>4. a[n] \in Seq(Page) /\ Data(a[n]) = Data(ps) \o SubSeq(units, 1, n)
    BY <1>3, <2>2
  <2>5. units[n + 1] \in Unit
    BY <1>0, <2>2, ElementOfSeq
  <2> DEFINE d == Data(ps)
             s == SubSeq(units, 1, n)
             u == <<units[n + 1]>>
  <2>6. d \in Seq(Unit) /\ s \in Seq(Unit) /\ u \in Seq(Unit)
    <3>1. \A i \in 1 .. n : units[i] \in Unit
      BY <1>0, <2>2, ElementOfSeq
    <3>2. s \in Seq(Unit)
      BY <3>1, SubSeqProperties
    <3> QED
      BY <1>d, <2>5, <3>2
  <2>7. a[n + 1] \in Seq(Page) /\ Data(a[n + 1]) = (d \o s) \o u
    BY <2>3, <2>4, <2>5, UnitAdded
  <2>8. SubSeq(units, 1, n + 1) = s \o u
    BY <1>0, <2>2, SubSeqRecursiveSecond
  <2> HIDE DEF d, s, u
  <2>9. (d \o s) \o u = d \o (s \o u)
    BY <2>6, ConcatAssociative, SMTT(30)
  <2> QED
    BY <2>7, <2>8, <2>9 DEF d
<1> HIDE DEF S
<1>4. Len(units) \in S
  BY <1>0, <1>2, <1>3, Induction
<1>5. SubSeq(units, 1, Len(units)) = units
  BY <1>0, SubSeqFull
<1> QED
  BY <1>0, <1>4, <1>5, SMTT(30) DEF S, a

-----------------------------------------------------------------------------
(* Parts of a log                                                          *)

\* The log d ends with t, and has t somewhere.
EndsWith(d, t) == /\ Len(t) <= Len(d)
                  /\ \A k \in 1 .. Len(t) : d[Len(d) - Len(t) + k] = t[k]
Has(d, t) == \E i \in 0 .. (Len(d) - Len(t)) : \A k \in 1 .. Len(t) : d[i + k] = t[k]

\* A log that ends with a list has it.
LEMMA EndsHas ==
    ASSUME NEW d \in Page, NEW t \in Page, EndsWith(d, t)
    PROVE  Has(d, t)
<1>1. Len(d) \in Nat /\ Len(t) \in Nat
  BY DEF Page
<1>2. Len(d) - Len(t) \in 0 .. (Len(d) - Len(t))
  BY <1>1 DEF EndsWith
<1> QED
  BY <1>2 DEF EndsWith, Has

\* The elements of a concatenation.
LEMMA Joined ==
    ASSUME NEW d \in Page, NEW u \in Page
    PROVE  /\ d \o u \in Page /\ Len(d) \in Nat /\ Len(u) \in Nat
           /\ Len(d \o u) = Len(d) + Len(u)
           /\ \A i \in 1 .. Len(d) : (d \o u)[i] = d[i]
           /\ \A k \in 1 .. Len(u) : (d \o u)[Len(d) + k] = u[k]
<1>1. d \in Seq(Unit) /\ u \in Seq(Unit) /\ Len(d) \in Nat /\ Len(u) \in Nat
  BY DEF Page
<1>2. /\ d \o u \in Seq(Unit)
      /\ Len(d \o u) = Len(d) + Len(u)
      /\ \A i \in 1 .. Len(d) + Len(u) : (d \o u)[i] = IF i <= Len(d) THEN d[i] ELSE u[i - Len(d)]
  BY <1>1, ConcatProperties, Zenon
<1> DEFINE e == d \o u
<1> HIDE DEF e
<1>3. \A i \in 1 .. Len(d) + Len(u) : e[i] = IF i <= Len(d) THEN d[i] ELSE u[i - Len(d)]
  BY <1>2 DEF e
<1>4. ASSUME NEW i \in 1 .. Len(d) PROVE e[i] = d[i]
  <2>1. i \in 1 .. Len(d) + Len(u) /\ i <= Len(d)
    BY <1>1
  <2> QED
    BY <1>3, <2>1
<1>5. ASSUME NEW k \in 1 .. Len(u) PROVE e[Len(d) + k] = u[k]
  <2>1. Len(d) + k \in 1 .. Len(d) + Len(u) /\ ~(Len(d) + k <= Len(d)) /\ (Len(d) + k) - Len(d) = k
    BY <1>1
  <2> QED
    BY <1>3, <2>1
<1> QED
  BY <1>1, <1>2, <1>4, <1>5 DEF e, Page

\* Both grow alike ...
LEMMA EndsGrow ==
    ASSUME NEW d \in Page, NEW t \in Page, NEW u \in Page, EndsWith(d, t)
    PROVE  EndsWith(d \o u, t \o u)
<1> DEFINE e == d \o u
           s == t \o u
<1>1. /\ Len(d) \in Nat /\ Len(u) \in Nat /\ Len(t) \in Nat
      /\ Len(e) = Len(d) + Len(u) /\ Len(s) = Len(t) + Len(u)
      /\ \A i \in 1 .. Len(d) : e[i] = d[i]
      /\ \A k \in 1 .. Len(u) : e[Len(d) + k] = u[k]
      /\ \A i \in 1 .. Len(t) : s[i] = t[i]
      /\ \A k \in 1 .. Len(u) : s[Len(t) + k] = u[k]
  BY Joined
<1> HIDE DEF e, s
<1>2. Len(t) <= Len(d) /\ \A k \in 1 .. Len(t) : d[Len(d) - Len(t) + k] = t[k]
  BY DEF EndsWith
<1>3. ASSUME NEW k \in 1 .. Len(s) PROVE e[Len(e) - Len(s) + k] = s[k]
  <2>1. Len(e) - Len(s) + k = Len(d) - Len(t) + k /\ k \in Nat
    BY <1>1
  <2>2. CASE k <= Len(t)
    <3>1. k \in 1 .. Len(t) /\ Len(d) - Len(t) + k \in 1 .. Len(d)
      BY <1>1, <1>2, <2>2
    <3> QED
      BY <1>1, <1>2, <2>1, <3>1
  <2>3. CASE ~(k <= Len(t))
    <3> DEFINE j == k - Len(t)
    <3>1. j \in 1 .. Len(u) /\ Len(d) - Len(t) + k = Len(d) + j /\ k = Len(t) + j
      BY <1>1, <2>3
    <3> HIDE DEF j
    <3>2. e[Len(d) + j] = u[j] /\ s[Len(t) + j] = u[j]
      BY <1>1, <3>1
    <3> QED
      BY <2>1, <3>1, <3>2
  <2> QED
    BY <2>2, <2>3
<1>4. EndsWith(e, s)
  BY <1>1, <1>2, <1>3 DEF EndsWith
<1> QED
  BY <1>4 DEF e, s

\* ... or the log alone.
LEMMA HasGrow ==
    ASSUME NEW d \in Page, NEW t \in Page, NEW u \in Page, Has(d, t)
    PROVE  Has(d \o u, t)
<1> DEFINE e == d \o u
<1>1. /\ Len(d) \in Nat /\ Len(u) \in Nat
      /\ Len(e) = Len(d) + Len(u)
      /\ \A i \in 1 .. Len(d) : e[i] = d[i]
  BY Joined
<1>2. Len(t) \in Nat
  BY DEF Page
<1> HIDE DEF e
<1>3. PICK i \in 0 .. (Len(d) - Len(t)) : \A k \in 1 .. Len(t) : d[i + k] = t[k]
  BY DEF Has
<1>4. i \in 0 .. (Len(e) - Len(t))
  BY <1>1, <1>2
<1>5. ASSUME NEW k \in 1 .. Len(t) PROVE e[i + k] = t[k]
  <2>1. i + k \in 1 .. Len(d)
    BY <1>1, <1>2
  <2> QED
    BY <1>1, <1>3, <2>1
<1>6. Has(e, t)
  BY <1>4, <1>5 DEF Has
<1> QED
  BY <1>6 DEF e

\* A log that has a list has it as a subsequence.
LEMMA HasPart ==
    ASSUME NEW d \in Page, NEW t \in Page, Has(d, t)
    PROVE  \E i \in 0 .. Len(d) - Len(t) : SubSeq(d, i + 1, i + Len(t)) = t
<1>1. Len(d) \in Nat /\ Len(t) \in Nat /\ d \in Seq(Unit) /\ t \in Seq(Unit)
  BY DEF Page
<1>2. PICK i \in 0 .. (Len(d) - Len(t)) : \A k \in 1 .. Len(t) : d[i + k] = t[k]
  BY DEF Has
<1> DEFINE m == i + 1
           n == i + Len(t)
<1>3. m \in Int /\ n \in Int /\ n - m + 1 = Len(t) /\ (m <= n <=> Len(t) # 0)
      /\ \A j \in m .. n : j \in 1 .. Len(d)
  BY <1>1
<1>4. \A j \in m .. n : d[j] \in Unit
  BY <1>1, <1>3, ElementOfSeq
<1>5. \A k \in 1 .. Len(t) : m + k - 1 = i + k
  BY <1>1
<1> HIDE DEF m, n
<1> DEFINE s == SubSeq(d, m, n)
<1>6. /\ s \in Seq(Unit)
      /\ Len(s) = IF m <= n THEN n - m + 1 ELSE 0
      /\ \A k \in 1 .. n - m + 1 : s[k] = d[m + k - 1]
  BY <1>3, <1>4, SubSeqProperties
<1> HIDE DEF s
<1>7. Len(s) = Len(t)
  BY <1>1, <1>3, <1>6
<1>8. \A k \in 1 .. Len(s) : s[k] = t[k]
  BY <1>2, <1>3, <1>5, <1>6, <1>7
<1>9. s = t
  BY <1>1, <1>6, <1>7, <1>8, SeqEqual, Zenon
<1> QED
  BY <1>9 DEF s, m, n

\* Logging a record leaves whole records.
LEMMA WholeGrow ==
    ASSUME NEW d \in Page, WholeRecords(d), NEW n \in Nat, NEW l \in Nat, nrecs \in Nat
    PROVE  /\ Record(n, l) \in Page /\ Len(Record(n, l)) = n
           /\ WholeRecords(d \o Record(n, l))
<1> DEFINE u == Record(n, l)
           e == d \o u
<1>1. \A k \in 1 .. n : <<nrecs, l, k, n>> \in Unit
  BY DEF Unit
<1>2. u \in Page /\ Len(u) = n /\ \A k \in 1 .. n : u[k] = <<nrecs, l, k, n>>
  BY <1>1 DEF Record, Page
<1> HIDE DEF u
<1>3. /\ e \in Page /\ Len(d) \in Nat /\ Len(e) = Len(d) + n
      /\ \A i \in 1 .. Len(d) : e[i] = d[i]
      /\ \A k \in 1 .. n : e[Len(d) + k] = u[k]
  BY <1>2, Joined
<1> HIDE DEF e
<1>d. DOMAIN d = 1 .. Len(d) /\ DOMAIN e = 1 .. Len(e)
  BY <1>3, LenProperties DEF Page
<1>4. \A i \in 1 .. Len(e) : i \in 1 .. Len(d) \/ \E k \in 1 .. n : i = Len(d) + k
  <2>1. SUFFICES ASSUME NEW i \in 1 .. Len(e), i \notin 1 .. Len(d)
                 PROVE  \E k \in 1 .. n : i = Len(d) + k
    OBVIOUS
  <2>2. i - Len(d) \in 1 .. n /\ i = Len(d) + (i - Len(d))
    BY <1>3, <2>1
  <2> QED
    BY <2>2
<1>5. ASSUME NEW i \in 1 .. Len(d)
      PROVE  /\ e[i][3] = 1 \/ (i > 1 /\ e[i - 1] = <<e[i][1], e[i][2], e[i][3] - 1, e[i][4]>>)
             /\ e[i][3] = e[i][4] \/ (i < Len(e) /\ e[i + 1] = <<e[i][1], e[i][2], e[i][3] + 1, e[i][4]>>)
  <2>1. /\ d[i][3] = 1 \/ (i > 1 /\ d[i - 1] = <<d[i][1], d[i][2], d[i][3] - 1, d[i][4]>>)
        /\ d[i][3] = d[i][4] \/ (i < Len(d) /\ d[i + 1] = <<d[i][1], d[i][2], d[i][3] + 1, d[i][4]>>)
    BY <1>d DEF WholeRecords
  <2>2. e[i] = d[i] /\ (i > 1 => i - 1 \in 1 .. Len(d)) /\ (i < Len(d) => i + 1 \in 1 .. Len(d) /\ i < Len(e))
    BY <1>3
  <2>3. (i > 1 => e[i - 1] = d[i - 1]) /\ (i < Len(d) => e[i + 1] = d[i + 1] /\ i < Len(e))
    BY <1>3, <2>2
  <2> QED
    BY <2>1, <2>2, <2>3, Zenon
<1>6. ASSUME NEW k \in 1 .. n
      PROVE  LET i == Len(d) + k
             IN  /\ e[i][3] = 1 \/ (i > 1 /\ e[i - 1] = <<e[i][1], e[i][2], e[i][3] - 1, e[i][4]>>)
                 /\ e[i][3] = e[i][4] \/ (i < Len(e) /\ e[i + 1] = <<e[i][1], e[i][2], e[i][3] + 1, e[i][4]>>)
  <2> DEFINE i == Len(d) + k
  <2>1. e[i] = <<nrecs, l, k, n>>
    BY <1>2, <1>3
  <2>2. e[i][1] = nrecs /\ e[i][2] = l /\ e[i][3] = k /\ e[i][4] = n
    BY <2>1
  <2>3. k # 1 => i > 1 /\ e[i - 1] = <<nrecs, l, k - 1, n>>
    <3>1. SUFFICES ASSUME k # 1 PROVE i > 1 /\ e[i - 1] = <<nrecs, l, k - 1, n>>
      OBVIOUS
    <3>2. k - 1 \in 1 .. n /\ i - 1 = Len(d) + (k - 1) /\ i > 1
      BY <1>3, <3>1
    <3>3. e[Len(d) + (k - 1)] = u[k - 1] /\ u[k - 1] = <<nrecs, l, k - 1, n>>
      BY <1>2, <1>3, <3>2
    <3> QED
      BY <3>2, <3>3
  <2>4. k # n => i < Len(e) /\ e[i + 1] = <<nrecs, l, k + 1, n>>
    <3>1. SUFFICES ASSUME k # n PROVE i < Len(e) /\ e[i + 1] = <<nrecs, l, k + 1, n>>
      OBVIOUS
    <3>2. k + 1 \in 1 .. n /\ i + 1 = Len(d) + (k + 1) /\ i < Len(e)
      BY <1>3, <3>1
    <3>3. e[Len(d) + (k + 1)] = u[k + 1] /\ u[k + 1] = <<nrecs, l, k + 1, n>>
      BY <1>2, <1>3, <3>2
    <3> QED
      BY <3>2, <3>3
  <2> HIDE DEF i
  <2>5. /\ e[i][3] = 1 \/ (i > 1 /\ e[i - 1] = <<e[i][1], e[i][2], e[i][3] - 1, e[i][4]>>)
        /\ e[i][3] = e[i][4] \/ (i < Len(e) /\ e[i + 1] = <<e[i][1], e[i][2], e[i][3] + 1, e[i][4]>>)
    BY <2>2, <2>3, <2>4, Zenon
  <2> QED
    BY <2>5 DEF i
<1>7. WholeRecords(e)
  <2> DEFINE W(i) == /\ e[i][3] = 1 \/ (i > 1 /\ e[i - 1] = <<e[i][1], e[i][2], e[i][3] - 1, e[i][4]>>)
                     /\ e[i][3] = e[i][4]
                        \/ (i < Len(e) /\ e[i + 1] = <<e[i][1], e[i][2], e[i][3] + 1, e[i][4]>>)
  <2>1. \A i \in 1 .. Len(d) : W(i)
    BY <1>5
  <2>2. \A k \in 1 .. n : W(Len(d) + k)
    BY <1>6
  <2>3. WholeRecords(e) <=> \A i \in DOMAIN e : W(i)
    BY DEF WholeRecords
  <2> HIDE DEF W
  <2>4. \A i \in DOMAIN e : W(i)
    BY <1>d, <1>4, <2>1, <2>2
  <2> QED
    BY <2>3, <2>4
<1> QED
  BY <1>2, <1>7 DEF e, u

-----------------------------------------------------------------------------
(* The invariant                                                           *)

\* ekm_log_size is the size of the log, which consists of whole records.
Logged ==
    /\ pages \in Seq(Page) /\ log_size = Len(Data(pages))
    /\ WholeRecords(Data(pages))
    /\ nrecs \in Nat /\ lsn \in Nat

\* The trace is on while the transition runs and off while the log is fetched.
Tracing ==
    /\ on \in BOOLEAN
    /\ sim = "start" => on \/ traced = <<>>
    /\ sim = "run" => on
    /\ sim \in {"size", "copy", "free", "store", "fetched"} => ~on

\* What was traced ends the log, until the trace is stopped and other records
\* may follow, and is then in what has been fetched.
Kept ==
    /\ traced \in Page
    /\ sim \in {"start", "run"} => EndsWith(Data(pages), traced)
    /\ sim \in {"size", "copy"} => Has(Data(pages), traced)
    /\ sim \in {"free", "store", "fetched"} => Has(raw, traced)

Fetching == raw \in Page /\ size \in Nat /\ Whole /\ Fits

IInv == Logged /\ Tracing /\ Kept /\ Fetching

\* A log without pages is empty, and has whole records only.
LEMMA EmptyPages == <<>> \in Seq(Page) /\ Data(<<>>) = <<>> /\ <<>> \in Page /\ WholeRecords(<<>>)
<1>1. <<>> \in Seq(Page) /\ Len(<<>>) = 0
  OBVIOUS
<1>2. Data(<<>>) = <<>>
  BY <1>1, CopiedIsPage DEF Data
<1> QED
  BY <1>1, <1>2 DEF Page, WholeRecords

\* Every log ends with the empty list.
LEMMA EndsEmpty ==
    ASSUME NEW d \in Page
    PROVE  EndsWith(d, <<>>)
BY DEF EndsWith, Page

\* No page, no reader and no writer at first.
LEMMA InitIInv == Init => IInv
<1> SUFFICES ASSUME Init PROVE IInv
  OBVIOUS
<1>1. Logged
  BY EmptyPages DEF Init, Logged
<1>2. Tracing /\ Kept
  BY EmptyPages DEF Init, Tracing, Kept
<1>3. Fetching
  BY EmptyPages DEF Init, Fetching, Whole, Fits
<1> QED
  BY <1>1, <1>2, <1>3 DEF IInv

\* A record is logged, by a hook or by the simulator.
LEMMA RecordLogged ==
    ASSUME IInv, NEW n \in Lengths, NEW l \in Nat, LogRecord(n, l),
           lsn' \in Nat, on' = on, sim' = sim, raw' = raw, size' = size
    PROVE  IInv'
<1>0. /\ n \in Nat /\ nrecs \in Nat /\ pages \in Seq(Page) /\ traced \in Page
      /\ log_size = Len(Data(pages)) /\ WholeRecords(Data(pages))
  BY EkmAssumption DEF IInv, Logged, Kept
<1>1. Data(pages) \in Page
  BY <1>0, DataIsPage
<1> DEFINE u == Record(n, l)
           d == Data(pages)
<1>2. u \in Page /\ Len(u) = n /\ WholeRecords(d \o u)
  BY <1>0, <1>1, WholeGrow
<1>3. /\ pages' = Added(pages, u)[n]
      /\ log_size' = log_size + n
      /\ nrecs' = nrecs + 1
      /\ traced' = IF on THEN traced \o u ELSE traced
  BY DEF LogRecord
<1> HIDE DEF u
<1>4. pages' \in Seq(Page) /\ Data(pages') = d \o u
  BY <1>0, <1>2, <1>3, AllAdded
<1> HIDE DEF d
<1>5. d \in Page /\ log_size = Len(d) /\ d \o u \in Page /\ Len(d \o u) = Len(d) + n
  BY <1>0, <1>1, <1>2, Joined DEF d
<1>6. Logged'
  <2>1. log_size' = Len(d \o u) /\ nrecs' \in Nat
    BY <1>0, <1>3, <1>5
  <2> QED
    BY <1>2, <1>4, <2>1 DEF Logged
<1>7. Tracing'
  BY <1>3 DEF IInv, Tracing
<1>8. Kept'
  <2>1. traced' \in Page
    BY <1>0, <1>2, <1>3, Joined
  <2>2. ASSUME EndsWith(d, traced), on PROVE EndsWith(d \o u, traced')
    BY <1>0, <1>2, <1>3, <1>5, <2>2, EndsGrow
  <2>3. ASSUME Has(d, traced), ~on PROVE Has(d \o u, traced')
    BY <1>0, <1>2, <1>3, <1>5, <2>3, HasGrow
  <2>4. ASSUME traced = <<>>, ~on PROVE EndsWith(d \o u, traced')
    BY <1>3, <1>5, <2>4, EndsEmpty
  <2>5. CASE sim \in {"start", "run"}
    <3>1. EndsWith(d, traced) /\ (on \/ traced = <<>>)
      BY <2>5 DEF IInv, Kept, Tracing, d
    <3>2. EndsWith(Data(pages'), traced')
      BY <1>4, <2>2, <2>4, <3>1
    <3> QED
      BY <2>1, <2>5, <3>2 DEF Kept
  <2>6. CASE sim \in {"size", "copy"}
    <3>1. Has(d, traced) /\ ~on
      BY <2>6 DEF IInv, Kept, Tracing, d
    <3>2. Has(Data(pages'), traced')
      BY <1>4, <2>3, <3>1
    <3> QED
      BY <2>1, <2>6, <3>2 DEF Kept
  <2>7. CASE sim \in {"free", "store", "fetched"}
    <3>1. Has(raw, traced) /\ ~on
      BY <2>7 DEF IInv, Kept, Tracing
    <3>2. Has(raw', traced')
      BY <1>3, <3>1
    <3> QED
      BY <2>1, <2>7, <3>2 DEF Kept
  <2>8. CASE sim \notin {"start", "run", "size", "copy", "free", "store", "fetched"}
    BY <2>1, <2>8 DEF Kept
  <2> QED
    BY <2>5, <2>6, <2>7, <2>8
<1>9. Fetching'
  BY DEF IInv, Fetching, Whole, Fits
<1> QED
  BY <1>6, <1>7, <1>8, <1>9 DEF IInv

\* Every step keeps the invariant.
LEMMA StepIInv ==
    ASSUME IInv, [Next]_vars
    PROVE  IInv'
<1>0. /\ pages \in Seq(Page) /\ raw \in Page /\ traced \in Page /\ lsn \in Nat
      /\ Data(pages) \in Page
  <2>1. pages \in Seq(Page) /\ raw \in Page /\ traced \in Page /\ lsn \in Nat
    BY DEF IInv, Logged, Kept, Fetching
  <2> QED
    BY <2>1, DataIsPage
<1>1. ASSUME NEW t \in Threads, HookEnter(t) PROVE IInv'
  BY <1>1 DEF HookEnter, log, fetch, IInv, Logged, Tracing, Kept, Fetching, Whole, Fits
<1>2. ASSUME NEW t \in Threads, NEW n \in Lengths, HookLog(t, n) PROVE IInv'
  <2>1. /\ LogRecord(n, lsn) /\ lsn' = lsn + 1
        /\ on' = on /\ sim' = sim /\ raw' = raw /\ size' = size
    BY <1>2 DEF HookLog, fetch
  <2>2. lsn' \in Nat
    BY <1>0, <2>1
  <2> QED
    BY <1>0, <2>1, <2>2, RecordLogged
<1>3. ASSUME NEW n \in Lengths, AppRecord(n) PROVE IInv'
  <2>1. /\ LogRecord(n, lsn + 1) /\ lsn' = lsn + 1
        /\ on' = on /\ sim' = sim /\ raw' = raw /\ size' = size
    BY <1>3 DEF AppRecord, fetch
  <2>2. lsn' \in Nat /\ lsn + 1 \in Nat
    BY <1>0, <2>1
  <2> QED
    BY <2>1, <2>2, RecordLogged
<1>4. CASE BeforeTransitions
  <2>1. /\ sim = "before" /\ sim' = "start" /\ traced' = <<>> /\ on' = on /\ raw' = raw /\ size' = size
        /\ pages' = <<>> /\ log_size' = 0 /\ lsn' = 0 /\ nrecs' = nrecs
    BY <1>4 DEF BeforeTransitions, EmptyLog, fetch
  <2>2. Logged'
    BY <2>1, EmptyPages DEF IInv, Logged
  <2>3. Tracing'
    BY <2>1 DEF IInv, Tracing
  <2>4. Kept'
    BY <2>1, EmptyPages, EndsEmpty DEF Kept
  <2>5. Fetching'
    BY <2>1 DEF IInv, Fetching, Whole, Fits
  <2> QED
    BY <2>2, <2>3, <2>4, <2>5 DEF IInv
<1>5. CASE StartTrace
  BY <1>5 DEF StartTrace, log, fetch, IInv, Logged, Tracing, Kept, Fetching, Whole, Fits
<1>6. CASE EndTransition
  BY <1>6 DEF EndTransition, log, fetch, IInv, Logged, Tracing, Kept, Fetching, Whole, Fits
<1>7. CASE StopTrace
  <2>1. /\ sim = "run" /\ sim' = "size" /\ on' = FALSE /\ traced' = traced /\ raw' = raw /\ size' = size
        /\ pages' = pages /\ log_size' = log_size /\ lsn' = lsn /\ nrecs' = nrecs
    BY <1>7 DEF StopTrace, log, fetch
  <2>2. EndsWith(Data(pages), traced)
    BY <2>1 DEF IInv, Kept
  <2>3. Has(Data(pages), traced)
    BY <1>0, <2>2, EndsHas
  <2>4. Kept'
    BY <1>0, <2>1, <2>3 DEF Kept
  <2> QED
    BY <2>1, <2>4 DEF IInv, Logged, Tracing, Fetching, Whole, Fits
<1>8. CASE GetLogSize
  <2>1. log_size \in Nat
    BY <1>0 DEF IInv, Logged, Page
  <2> QED
    BY <1>8, <2>1 DEF GetLogSize, log, IInv, Logged, Tracing, Kept, Fetching, Whole, Fits
<1>9. CASE CopyLogBuffer
  <2>0. sim = "copy" /\ on' = on /\ traced' = traced /\ size' = size /\ lsn' = lsn /\ nrecs' = nrecs
    BY <1>9 DEF CopyLogBuffer
  <2>1. CASE log_size > size
    <3>1. sim' = "size" /\ pages' = pages /\ log_size' = log_size /\ raw' = raw
      BY <1>9, <2>1 DEF CopyLogBuffer
    <3> QED
      BY <2>0, <3>1 DEF IInv, Logged, Tracing, Kept, Fetching, Whole, Fits
  <2>2. CASE ~(log_size > size)
    <3>1. sim' = "free" /\ pages' = <<>> /\ log_size' = 0 /\ raw' = Data(pages)
      BY <1>9, <2>2 DEF CopyLogBuffer
    <3>2. Logged'
      BY <2>0, <3>1, EmptyPages DEF IInv, Logged
    <3>3. Tracing'
      BY <2>0, <3>1 DEF IInv, Tracing
    <3>4. Kept'
      BY <1>0, <2>0, <3>1 DEF IInv, Kept
    <3>5. Fetching'
      <4>1. Len(raw') = log_size /\ WholeRecords(raw') /\ raw' \in Page
        BY <1>0, <3>1 DEF IInv, Logged
      <4>2. size \in Nat /\ log_size \in Nat
        BY <1>0 DEF IInv, Fetching, Logged, Page
      <4>3. Len(raw') <= size'
        BY <2>0, <2>2, <4>1, <4>2
      <4> QED
        BY <2>0, <4>1, <4>2, <4>3 DEF Fetching, Whole, Fits
    <3> QED
      BY <3>2, <3>3, <3>4, <3>5 DEF IInv
  <2> QED
    BY <2>1, <2>2
<1>10. CASE FreeLoad \/ FreeStore
  <2>1. /\ sim \in {"free", "store"} /\ sim' \in {"free", "store"}
        /\ on' = on /\ traced' = traced /\ raw' = raw /\ size' = size
        /\ pages' = pages /\ log_size' = log_size /\ lsn' = lsn /\ nrecs' = nrecs
    BY <1>10 DEF FreeLoad, FreeStore, log
  <2> QED
    BY <2>1 DEF IInv, Logged, Tracing, Kept, Fetching, Whole, Fits
<1>11. CASE EmptyAfter
  <2>1. /\ sim = "free" /\ sim' = "fetched" /\ traced' = traced /\ on' = on /\ raw' = raw /\ size' = size
        /\ pages' = <<>> /\ log_size' = 0 /\ lsn' = 0 /\ nrecs' = nrecs
    BY <1>11 DEF EmptyAfter, EmptyLog, fetch
  <2>2. Logged'
    BY <2>1, EmptyPages DEF IInv, Logged
  <2> QED
    BY <2>1, <2>2 DEF IInv, Tracing, Kept, Fetching, Whole, Fits
<1>12. CASE EndPath
  BY <1>12 DEF EndPath, log, fetch, IInv, Logged, Tracing, Kept, Fetching, Whole, Fits
<1>13. CASE UNCHANGED vars
  BY <1>13 DEF vars, log, fetch, IInv, Logged, Tracing, Kept, Fetching, Whole, Fits
<1> QED
  BY <1>1, <1>2, <1>3, <1>4, <1>5, <1>6, <1>7, <1>8, <1>9, <1>10, <1>11, <1>12, <1>13 DEF Next, Fetch

\* The invariant of pages, writers and the reader.
LEMMA LogInvariance == Spec => []IInv
BY InitIInv, StepIInv, PTL DEF Spec

\* The log that copy_log_buffer copies fits the buffer whose size get_log_size
\* gave, although hooks may log in between.
THEOREM CopyFits == Spec => []Fits
<1>1. IInv => Fits
  BY DEF IInv, Fetching
<1> QED
  BY <1>1, LogInvariance, PTL

\* A fetched log consists of whole records, wherever the pages of log_add_buf
\* end and however threads and the ioctls interleave.
THEOREM RecordsAreWhole == Spec => []Whole
<1>1. IInv => Whole
  BY DEF IInv, Fetching
<1> QED
  BY <1>1, LogInvariance, PTL

\* A fetched log has all that was traced, in order, also when the trace before
\* was never stopped, and when hooks that had seen the trace on log later.
THEOREM NothingTracedIsLost == Spec => []NoneLost
<1>1. IInv => NoneLost
  <2>1. SUFFICES ASSUME IInv, sim = "fetched"
                 PROVE  \E i \in 0 .. Len(raw) - Len(traced) : SubSeq(raw, i + 1, i + Len(traced)) = traced
    BY DEF NoneLost
  <2>2. Has(raw, traced) /\ raw \in Page /\ traced \in Page
    BY <2>1 DEF IInv, Kept, Fetching
  <2> QED
    BY <2>2, HasPart
<1> QED
  BY <1>1, LogInvariance, PTL
=============================================================================
