------------------------- MODULE ModelCheckerProofs -------------------------
(***************************************************************************)
(* The explicit-state search, for every harness and any number of crashes  *)
(* and reboots.  The invariant has three parts, each resting on the ones   *)
(* before it:                                                              *)
(*   Sane      the search state, in memory and on disk, is well formed,    *)
(*             and all executions of a state start in the same system      *)
(*             state;                                                      *)
(*   Honest    every queued state is regenerated from its checkpoint by    *)
(*             its choices, through known states;                          *)
(*   Diligent  what was taken from the queue has been executed, and so has *)
(*             what a checkpoint file takes for executed.                  *)
(* The trace files have two invariants of their own: Traced (on Sane and   *)
(* Honest), that the stored choices lead to the error, and Repeatable (on  *)
(* Sane), that a restored search goes on along the same run.               *)
(***************************************************************************)
EXTENDS ModelChecker, RandomProofs, FiniteSetTheorems

-----------------------------------------------------------------------------
(* Regeneration.  An edge <<h, p>> is the leaf p of the transition of the    *)
(* state h, which leads to t.to[h][p].                                       *)

Edges(t) == {e \in Sys \X Seq(Nat) : e[2] \in DOMAIN t.tree[e[1]] /\ t.tree[e[1]][e[2]] = 0}

Target(t, e) == t.to[e[1]][e[2]]

Sigs(t) == {t.sig[h] : h \in Sys}

\* What the assumption says of a harness.
LEMMA HarnessFacts ==
    ASSUME NEW t \in Tests
    PROVE  /\ t.raw \in Sys /\ t.init \in Sys /\ t.queue \in {"bfs", "dfs", "priority"}
           /\ \A h \in Sys : IsTree(t.tree[h]) /\ t.sig[h] \in Sigs(t)
           /\ \A h \in Sys : \A p \in DOMAIN t.tree[h] :
                p \in Seq(Nat) /\ t.ret[h][p] \in Codes /\ t.to[h][p] \in Sys
           /\ \A e \in Edges(t) : Target(t, e) \in Sys
<1>1. \A h \in Sys : IsTree(t.tree[h])
  BY TestsAssumption
<1>2. \A h \in Sys : \A p \in DOMAIN t.tree[h] : p \in Seq(Nat)
  BY <1>1, TreeFacts
<1>3. \A h \in Sys : \A p \in DOMAIN t.tree[h] : t.ret[h][p] \in Codes /\ t.to[h][p] \in Sys
  BY TestsAssumption
<1>4. \A e \in Edges(t) : Target(t, e) \in Sys
  BY <1>3 DEF Edges, Target
<1>5. t.raw \in Sys /\ t.init \in Sys /\ t.queue \in {"bfs", "dfs", "priority"}
  BY TestsAssumption
<1> QED
  BY <1>1, <1>2, <1>3, <1>4, <1>5 DEF Sigs

\* Triples <<h, tr, g>> closed under replaying one more edge of E first.
Closed(t, E, R) ==
    /\ \A h \in Sys : <<h, << >>, h>> \in R
    /\ \A e \in E, tr \in Seq(Nat), g \in Sys :
         e[2] \o tr # << >> /\ <<Target(t, e), tr, g>> \in R => <<e[1], e[2] \o tr, g>> \in R

Triples == Sys \X Seq(Nat) \X Sys

\* Redoing the choices tr along edges of E leads from h to g.
Leads(t, E, h, tr, g) == \A R \in SUBSET Triples : Closed(t, E, R) => <<h, tr, g>> \in R

\* Redoing no choices leads nowhere else.
LEMMA LeadsNil ==
    ASSUME NEW t, NEW E, NEW h \in Sys
    PROVE  Leads(t, E, h, << >>, h)
BY DEF Leads, Closed

\* An edge may be put before a list that leads on from its target.
LEMMA LeadsFront ==
    ASSUME NEW t, NEW E, NEW e \in E, NEW tr \in Seq(Nat), NEW g \in Sys,
           e[2] \o tr # << >>, Leads(t, E, Target(t, e), tr, g)
    PROVE  Leads(t, E, e[1], e[2] \o tr, g)
BY DEF Leads, Closed

\* With more edges, lists lead to what they led to.
LEMMA LeadsMore ==
    ASSUME NEW t, NEW E, NEW F, E \subseteq F, NEW h, NEW tr, NEW g, Leads(t, E, h, tr, g)
    PROVE  Leads(t, F, h, tr, g)
<1> SUFFICES ASSUME NEW R \in SUBSET Triples, Closed(t, F, R) PROVE <<h, tr, g>> \in R
  BY DEF Leads
<1>1. Closed(t, E, R)
  BY DEF Closed
<1> QED
  BY <1>1 DEF Leads

\* The list tr begins with an edge of h, and the rest leads to g.
Splits(t, E, h, tr, g) ==
    \E e \in E, q \in Seq(Nat) :
      e[1] = h /\ tr = e[2] \o q /\ tr # << >> /\ Leads(t, E, Target(t, e), q, g)

\* A list of choices that leads somewhere is empty or begins with an edge.
LEMMA LeadsSplit ==
    ASSUME NEW t \in Tests, NEW E, E \subseteq Edges(t),
           NEW h \in Sys, NEW tr \in Seq(Nat), NEW g \in Sys, Leads(t, E, h, tr, g)
    PROVE  (tr = << >> /\ g = h) \/ Splits(t, E, h, tr, g)
<1> DEFINE P(x, u, y) == \/ u = << >> /\ y = x
                         \/ Splits(t, E, x, u, y)
           R == {w \in Triples : P(w[1], w[2], w[3])}
<1>1. \A x \in Sys, u \in Seq(Nat), y \in Sys : <<x, u, y>> \in R <=> P(x, u, y)
  BY DEF Triples
<1>2. R \in SUBSET Triples
  OBVIOUS
<1>3. ASSUME NEW x \in Sys PROVE <<x, << >>, x>> \in R
  <2>1. << >> \in Seq(Nat) /\ P(x, << >>, x)
    OBVIOUS
  <2> QED
    BY <1>1, <2>1
<1>4. ASSUME NEW e \in E, NEW u \in Seq(Nat), NEW y \in Sys, e[2] \o u # << >>,
             <<Target(t, e), u, y>> \in R
      PROVE  <<e[1], e[2] \o u, y>> \in R
  <2>1. e[1] \in Sys /\ e[2] \in Seq(Nat) /\ Target(t, e) \in Sys
    BY HarnessFacts DEF Edges
  <2>2. e[2] \o u \in Seq(Nat)
    BY <2>1
  <2>3. P(Target(t, e), u, y)
    BY <1>1, <1>4, <2>1
  <2>4. Leads(t, E, Target(t, e), u, y)
    <3>1. CASE u = << >> /\ y = Target(t, e)
      BY <2>1, <3>1, LeadsNil
    <3>2. ASSUME NEW f \in E, NEW q \in Seq(Nat), f[1] = Target(t, e), u = f[2] \o q, u # << >>,
                 Leads(t, E, Target(t, f), q, y)
          PROVE  Leads(t, E, Target(t, e), u, y)
      BY <3>2, LeadsFront
    <3> QED
      BY <2>3, <3>1, <3>2 DEF Splits
  <2>5. P(e[1], e[2] \o u, y)
    BY <1>4, <2>4 DEF Splits
  <2> HIDE DEF P, R
  <2> QED
    BY <1>1, <2>1, <2>2, <2>5
<1> HIDE DEF R, P
<1>5. Closed(t, E, R)
  BY <1>3, <1>4 DEF Closed
<1>6. P(h, tr, g)
  BY <1>1, <1>2, <1>5 DEF Leads
<1> QED
  BY <1>6 DEF P

\* Concatenation is associative.
LEMMA Regroup ==
    ASSUME NEW a \in Seq(Nat), NEW b \in Seq(Nat), NEW c \in Seq(Nat)
    PROVE  (a \o b) \o c = a \o (b \o c)
BY ConcatAssociative, SMTT(30)

\* One more edge at the end.
LEMMA LeadsBack ==
    ASSUME NEW t \in Tests, NEW E, E \subseteq Edges(t),
           NEW h \in Sys, NEW tr \in Seq(Nat), NEW g \in Sys, Leads(t, E, h, tr, g),
           NEW p \in Seq(Nat), <<g, p>> \in E, p # << >>
    PROVE  Leads(t, E, h, tr \o p, t.to[g][p])
<1> DEFINE k == t.to[g][p]
           P(x, u, y) == y = g => Leads(t, E, x, u \o p, k)
           R == {w \in Triples : P(w[1], w[2], w[3])}
<1>0. k \in Sys /\ Target(t, <<g, p>>) = k
  BY HarnessFacts DEF Target
<1>1. \A x \in Sys, u \in Seq(Nat), y \in Sys : <<x, u, y>> \in R <=> P(x, u, y)
  BY DEF Triples
<1>2. R \in SUBSET Triples
  OBVIOUS
<1>3. ASSUME NEW x \in Sys PROVE <<x, << >>, x>> \in R
  <2>1. p \o << >> = p /\ << >> \o p = p /\ << >> \in Seq(Nat)
    OBVIOUS
  <2>2. P(x, << >>, x)
    <3> SUFFICES ASSUME x = g PROVE Leads(t, E, x, << >> \o p, k)
      OBVIOUS
    <3>1. Leads(t, E, k, << >>, k)
      BY <1>0, LeadsNil
    <3> DEFINE e == <<g, p>>
    <3>2. e[1] = g /\ e[2] = p /\ e \in E /\ Target(t, e) = k /\ e[2] \o << >> # << >>
      BY <1>0, <2>1
    <3> HIDE DEF e, k
    <3>3. Leads(t, E, e[1], e[2] \o << >>, k)
      BY <1>0, <2>1, <3>1, <3>2, LeadsFront
    <3> QED
      BY <2>1, <3>2, <3>3
  <2> HIDE DEF P, R
  <2> QED
    BY <1>1, <2>1, <2>2
<1>4. ASSUME NEW e \in E, NEW u \in Seq(Nat), NEW y \in Sys, e[2] \o u # << >>,
             <<Target(t, e), u, y>> \in R
      PROVE  <<e[1], e[2] \o u, y>> \in R
  <2>1. e[1] \in Sys /\ e[2] \in Seq(Nat) /\ Target(t, e) \in Sys
    BY HarnessFacts DEF Edges
  <2>2. e[2] \o u \in Seq(Nat) /\ u \o p \in Seq(Nat)
    BY <2>1
  <2>3. P(Target(t, e), u, y)
    BY <1>1, <1>4, <2>1
  <2>4. P(e[1], e[2] \o u, y)
    <3> SUFFICES ASSUME y = g PROVE Leads(t, E, e[1], (e[2] \o u) \o p, k)
      OBVIOUS
    <3>1. (e[2] \o u) \o p = e[2] \o (u \o p)
      BY <2>1, Regroup, ZenonT(30)
    <3>2. Leads(t, E, Target(t, e), u \o p, k)
      BY <2>3
    <3>3. e[2] \o (u \o p) # << >>
      <4> DEFINE a == e[2]
                 b == u \o p
      <4>1. a \in Seq(Nat) /\ b \in Seq(Nat)
        BY <2>1, <2>2
      <4>2. Len(b) = Len(u) + Len(p) /\ Len(u) \in Nat /\ Len(p) \in Nat /\ Len(p) # 0
        OBVIOUS
      <4> HIDE DEF a, b
      <4>3. Len(a \o b) = Len(a) + Len(b) /\ Len(a) \in Nat
        BY <4>1
      <4>4. Len(a \o b) # 0
        BY <4>2, <4>3
      <4>5. a \o b # << >>
        BY <4>4
      <4> QED
        BY <4>5 DEF a, b
    <3> HIDE DEF k
    <3>4. Leads(t, E, e[1], e[2] \o (u \o p), k)
      BY <1>0, <2>2, <3>2, <3>3, LeadsFront
    <3> QED
      BY <3>1, <3>4
  <2> HIDE DEF P, R
  <2> QED
    BY <1>1, <2>1, <2>2, <2>4
<1> HIDE DEF R, P
<1>5. Closed(t, E, R)
  BY <1>3, <1>4 DEF Closed
<1>6. P(h, tr, g)
  BY <1>1, <1>2, <1>5 DEF Leads
<1> QED
  BY <1>6 DEF P

-----------------------------------------------------------------------------
(* Search states                                                           *)

StateRecords(t) == [id : Nat, start : Nat, sig : Sigs(t), trace : Seq(Nat)]
CkptRecords == [data : Sys, parent_id : Nat, trace : Seq(Nat)]

\* A well formed and well typed search state.
Good(t, q, vis, cks) ==
    /\ q \in Seq(StateRecords(t))
    /\ IsFiniteSet(DOMAIN vis)
    /\ DOMAIN vis # {} => t.sig[t.raw] \in DOMAIN vis
    /\ \A id \in DOMAIN cks : cks[id] \in CkptRecords
    /\ WellFormed(q, vis, cks)

\* A search that has not begun.
LEMMA EmptyIsGood ==
    ASSUME NEW t
    PROVE  Good(t, << >>, << >>, << >>)
<1>1. DOMAIN << >> = {}
  OBVIOUS
<1>2. IsFiniteSet({}) /\ Cardinality({}) = 0
  BY FS_EmptySet
<1> QED
  BY <1>1, <1>2 DEF Good, WellFormed, Range

\* The signature of a new state gets the next id.
LEMMA AddSeen ==
    ASSUME NEW t, NEW q, NEW vis, NEW cks, Good(t, q, vis, cks), NEW g, g \notin DOMAIN vis,
           DOMAIN vis # {}
    PROVE  /\ Good(t, q, With(vis, g, Cardinality(DOMAIN vis)), cks)
           /\ Cardinality(DOMAIN vis) \in Nat
           /\ \A x \in DOMAIN vis : vis[x] \in 0 .. (Cardinality(DOMAIN vis) - 1)
<1> DEFINE n == Cardinality(DOMAIN vis)
           w == With(vis, g, n)
<1>1. /\ n \in Nat /\ IsFiniteSet(DOMAIN w) /\ Cardinality(DOMAIN w) = n + 1
      /\ DOMAIN w = DOMAIN vis \cup {g} /\ w[g] = n
      /\ \A x \in DOMAIN vis : w[x] = vis[x]
  <2>1. DOMAIN w = DOMAIN vis \cup {g} /\ w[g] = n /\ \A x \in DOMAIN vis : w[x] = vis[x]
    BY DEF With
  <2>2. IsFiniteSet(DOMAIN vis)
    BY DEF Good
  <2> HIDE DEF w
  <2> QED
    BY <2>1, <2>2, FS_AddElement, FS_CardinalityType
<1>2. \A x \in DOMAIN vis : vis[x] \in 0 .. (n - 1)
  BY DEF Good, WellFormed, Range
<1>3. \A i \in 0 .. (n - 1) : \E x \in DOMAIN vis : vis[x] = i
  BY DEF Good, WellFormed, Range
<1> HIDE DEF n, w
<1>4. \A x, y \in DOMAIN w : w[x] = w[y] => x = y
  <2>1. \A x, y \in DOMAIN vis : vis[x] = vis[y] => x = y
    BY DEF Good, WellFormed
  <2>2. \A x \in DOMAIN vis : vis[x] # n
    BY <1>1, <1>2
  <2> QED
    BY <1>1, <2>1, <2>2
<1>5. Range(w) = 0 .. n
  <2>1. ASSUME NEW x \in DOMAIN w PROVE w[x] \in 0 .. n
    BY <1>1, <1>2
  <2>2. ASSUME NEW i \in 0 .. n PROVE \E x \in DOMAIN w : w[x] = i
    <3>1. CASE i = n
      BY <1>1, <3>1
    <3>2. CASE i # n
      <4>1. i \in 0 .. (n - 1)
        BY <1>1, <3>2
      <4> QED
        BY <1>1, <1>3, <4>1
    <3> QED
      BY <3>1, <3>2
  <2> QED
    BY <2>1, <2>2 DEF Range
<1>6. (n + 1) - 1 = n
  BY <1>1
<1>7. \A i \in DOMAIN q : q[i].sig \in DOMAIN w /\ w[q[i].sig] = q[i].id /\ q[i].start \in DOMAIN cks
  BY <1>1 DEF Good, WellFormed
<1>8. DOMAIN cks \subseteq Range(w)
  <2>1. DOMAIN cks \subseteq 0 .. (n - 1)
    BY DEF Good, WellFormed, n
  <2> QED
    BY <1>1, <1>5, <2>1
<1>9. WellFormed(q, w, cks)
  BY <1>1, <1>4, <1>5, <1>6, <1>7, <1>8 DEF Good, WellFormed
<1>10. Good(t, q, w, cks)
  BY <1>1, <1>9 DEF Good
<1> QED
  BY <1>1, <1>2, <1>10 DEF n, w

\* A checkpoint of a state that has its id and none of whose ids is taken.
LEMMA AddCkpt ==
    ASSUME NEW t, NEW q, NEW vis, NEW cks, Good(t, q, vis, cks),
           NEW id \in Range(vis), NEW c \in CkptRecords,
           c.parent_id \in DOMAIN cks \cup {id}, id # 0 => c.parent_id < id
    PROVE  Good(t, q, vis, With(cks, id, c))
<1> DEFINE w == With(cks, id, c)
<1>1. DOMAIN w = DOMAIN cks \cup {id} /\ w[id] = c /\ \A x \in DOMAIN cks : x # id => w[x] = cks[x]
  BY DEF With
<1> HIDE DEF w
<1>2. \A x \in DOMAIN w : w[x] \in CkptRecords
  BY <1>1 DEF Good
<1>3. \A x \in DOMAIN w : w[x].parent_id \in DOMAIN w /\ (x # 0 => w[x].parent_id < x)
  BY <1>1 DEF Good, WellFormed
<1>4. DOMAIN w \subseteq Range(vis)
  BY <1>1 DEF Good, WellFormed
<1>5. WellFormed(q, vis, w)
  BY <1>1, <1>3, <1>4 DEF Good, WellFormed
<1> QED
  BY <1>2, <1>5 DEF Good, w

\* A known state whose id is not queued may be queued at either end.
LEMMA AddQueued ==
    ASSUME NEW t, NEW q, NEW vis, NEW cks, Good(t, q, vis, cks),
           NEW s \in StateRecords(t), s.sig \in DOMAIN vis, vis[s.sig] = s.id,
           s.start \in DOMAIN cks, \A i \in DOMAIN q : q[i].id # s.id,
           NEW r, r = Append(q, s) \/ r = <<s>> \o q
    PROVE  Good(t, r, vis, cks)
<1>0. q \in Seq(StateRecords(t)) /\ Len(q) \in Nat /\ DOMAIN q = 1 .. Len(q)
  BY DEF Good
<1>1. PICK d \in {0, 1} :
        /\ r \in Seq(StateRecords(t)) /\ Len(r) = Len(q) + 1 /\ DOMAIN r = 1 .. Len(r)
        /\ \A i \in 1 .. Len(q) : r[i + d] = q[i]
        /\ d = 0 => r[Len(q) + 1] = s
        /\ d = 1 => r[1] = s
  <2>1. CASE r = Append(q, s)
    <3>1. /\ r \in Seq(StateRecords(t)) /\ Len(r) = Len(q) + 1 /\ DOMAIN r = 1 .. Len(r)
          /\ r[Len(q) + 1] = s
      BY <1>0, <2>1
    <3>2. \A i \in 1 .. Len(q) : r[i] = q[i] /\ i + 0 = i
      BY <1>0, <2>1
    <3> QED
      BY <3>1, <3>2
  <2>2. CASE r = <<s>> \o q
    <3>1. <<s>> \in Seq(StateRecords(t)) /\ Len(<<s>>) = 1 /\ <<s>>[1] = s
      OBVIOUS
    <3>2. /\ r \in Seq(StateRecords(t)) /\ Len(r) = Len(q) + 1 /\ DOMAIN r = 1 .. Len(r)
      BY <1>0, <2>2, <3>1
    <3>3. \A i \in 1 .. Len(q) : r[i + 1] = q[i]
      BY <1>0, <2>2, <3>1
    <3>4. r[1] = s
      BY <1>0, <2>2, <3>1
    <3> QED
      BY <3>2, <3>3, <3>4
  <2> QED
    BY <2>1, <2>2
<1>2. \A i \in DOMAIN r : r[i] = s \/ \E j \in DOMAIN q : i = j + d /\ r[i] = q[j]
  <2> SUFFICES ASSUME NEW i \in DOMAIN r, r[i] # s PROVE \E j \in DOMAIN q : i = j + d /\ r[i] = q[j]
    OBVIOUS
  <2>1. i - d \in 1 .. Len(q) /\ i = (i - d) + d
    BY <1>0, <1>1
  <2> QED
    BY <1>0, <1>1, <2>1
<1>3. \A i, j \in DOMAIN r : r[i] = s /\ r[j] = s => i = j
  <2>1. \A i \in DOMAIN r : r[i] = s => i = (IF d = 0 THEN Len(q) + 1 ELSE 1)
    <3> SUFFICES ASSUME NEW i \in DOMAIN r, r[i] = s, i # (IF d = 0 THEN Len(q) + 1 ELSE 1)
                 PROVE  FALSE
      OBVIOUS
    <3>1. i - d \in 1 .. Len(q) /\ i = (i - d) + d
      BY <1>0, <1>1
    <3> QED
      BY <1>0, <1>1, <3>1
  <2> QED
    BY <2>1
<1>4. \A i \in DOMAIN r : /\ r[i].sig \in DOMAIN vis
                          /\ vis[r[i].sig] = r[i].id
                          /\ r[i].start \in DOMAIN cks
  <2>1. \A j \in DOMAIN q : q[j].sig \in DOMAIN vis /\ vis[q[j].sig] = q[j].id /\ q[j].start \in DOMAIN cks
    BY DEF Good, WellFormed
  <2> QED
    BY <1>2, <2>1
<1>5. \A i, j \in DOMAIN r : r[i].id = r[j].id => i = j
  <2>1. \A i, j \in DOMAIN q : q[i].id = q[j].id => i = j
    BY DEF Good, WellFormed
  <2> QED
    BY <1>2, <1>3, <2>1
<1>6. WellFormed(r, vis, cks)
  BY <1>4, <1>5 DEF Good, WellFormed
<1> QED
  BY <1>1, <1>6 DEF Good

\* What is in a queue to which s was added.
LEMMA QueueElements ==
    ASSUME NEW S, NEW q \in Seq(S), NEW s, NEW r,
           r = q \/ r = Append(q, s) \/ r = <<s>> \o q
    PROVE  \A i \in DOMAIN r : r[i] = s \/ \E j \in DOMAIN q : r[i] = q[j]
<1>0. Len(q) \in Nat /\ DOMAIN q = 1 .. Len(q)
  OBVIOUS
<1>1. CASE r = q
  BY <1>1
<1>2. CASE r = Append(q, s)
  <2>1. DOMAIN r = 1 .. (Len(q) + 1) /\ r[Len(q) + 1] = s /\ \A j \in 1 .. Len(q) : r[j] = q[j]
    BY <1>0, <1>2
  <2> SUFFICES ASSUME NEW i \in DOMAIN r, i # Len(q) + 1 PROVE \E j \in DOMAIN q : r[i] = q[j]
    BY <2>1
  <2>2. i \in 1 .. Len(q)
    BY <1>0, <2>1
  <2> QED
    BY <1>0, <2>1, <2>2
<1>3. CASE r = <<s>> \o q
  <2>1. DOMAIN r = 1 .. (Len(q) + 1)
    BY <1>0, <1>3
  <2>2. r[1] = s
    BY <1>0, <1>3
  <2>3. \A j \in 1 .. Len(q) : r[j + 1] = q[j]
    BY <1>0, <1>3
  <2> SUFFICES ASSUME NEW i \in DOMAIN r, i # 1 PROVE \E j \in DOMAIN q : r[i] = q[j]
    BY <2>2
  <2>4. i - 1 \in 1 .. Len(q) /\ i = (i - 1) + 1
    BY <1>0, <2>1
  <2> QED
    BY <1>0, <2>3, <2>4
<1> QED
  BY <1>1, <1>2, <1>3

\* The state taken from the queue is known, starts from a checkpoint and is not
\* queued any more.
LEMMA TakeQueued ==
    ASSUME NEW t, NEW q, NEW vis, NEW cks, Good(t, q, vis, cks), q # << >>
    PROVE  /\ Good(t, Tail(q), vis, cks)
           /\ Head(q) \in StateRecords(t) /\ Head(q) = q[1] /\ 1 \in DOMAIN q
           /\ Head(q).sig \in DOMAIN vis
           /\ vis[Head(q).sig] = Head(q).id
           /\ Head(q).start \in DOMAIN cks
           /\ \A i \in DOMAIN Tail(q) : Tail(q)[i] = q[i + 1] /\ i + 1 \in DOMAIN q
<1> DEFINE r == Tail(q)
<1>0. q \in Seq(StateRecords(t)) /\ Len(q) \in Nat /\ DOMAIN q = 1 .. Len(q) /\ 1 \in DOMAIN q
  BY DEF Good
<1>1. Head(q) = q[1] /\ q[1] \in StateRecords(t)
  BY <1>0
<1>2. r \in Seq(StateRecords(t)) /\ DOMAIN r = 1 .. (Len(q) - 1)
  BY <1>0
<1>3. \A i \in DOMAIN r : r[i] = q[i + 1] /\ i + 1 \in DOMAIN q
  BY <1>0, <1>2
<1> HIDE DEF r
<1>4. WellFormed(r, vis, cks)
  <2>1. \A i, j \in DOMAIN q : q[i].id = q[j].id => i = j
    BY DEF Good, WellFormed
  <2>2. \A i, j \in DOMAIN r : r[i].id = r[j].id => i = j
    BY <1>2, <1>3, <2>1
  <2> QED
    BY <1>3, <2>2 DEF Good, WellFormed
<1>5. Head(q).sig \in DOMAIN vis /\ vis[Head(q).sig] = Head(q).id /\ Head(q).start \in DOMAIN cks
  BY <1>0, <1>1 DEF Good, WellFormed
<1> QED
  BY <1>0, <1>1, <1>2, <1>3, <1>4, <1>5 DEF Good, r

-----------------------------------------------------------------------------
(* Replaying                                                               *)

\* At most one execution of a transition fits the choices to be played back.
LEMMA OneLeaf ==
    ASSUME NEW t, IsTree(t), NEW p \in DOMAIN t, NEW q \in DOMAIN t, t[p] = 0, t[q] = 0,
           NEW tr \in Seq(Nat), CanReplay(p, tr), CanReplay(q, tr)
    PROVE  p = q
<1>1. p \in Seq(Nat) /\ q \in Seq(Nat) /\ Len(p) \in Nat /\ Len(q) \in Nat
  BY TreeFacts
<1>2. (\A i \in 1 .. Len(p) : p[i] = tr[i]) /\ (\A i \in 1 .. Len(q) : q[i] = tr[i])
  BY DEF CanReplay
<1>3. CASE Len(p) <= Len(q)
  <2>1. Extends(p, q)
    BY <1>1, <1>2, <1>3 DEF Extends
  <2> QED
    BY <2>1, LeafEnds
<1>4. CASE Len(q) <= Len(p)
  <2>1. Extends(q, p)
    BY <1>1, <1>2, <1>4 DEF Extends
  <2> QED
    BY <2>1, LeafEnds
<1> QED
  BY <1>1, <1>3, <1>4

\* What is left after replaying p is the rest of the list.
LEMMA RestAfter ==
    ASSUME NEW p \in Seq(Nat), NEW tr \in Seq(Nat), CanReplay(p, tr)
    PROVE  Replayed(p, tr) \in Seq(Nat) /\ tr = p \o Replayed(p, tr)
<1> DEFINE q == SubSeq(tr, Len(p) + 1, Len(tr))
           n == Len(p)
           m == Len(tr)
<1>1. n \in Nat /\ m \in Nat /\ n <= m /\ \A i \in 1 .. n : p[i] = tr[i]
  BY DEF CanReplay
<1>2. q \in Seq(Nat) /\ Len(q) = m - n
  BY <1>1
<1>3. \A i \in 1 .. (m - n) : q[i] = tr[n + i]
  BY <1>1
<1> HIDE DEF q
<1>4. p \o q \in Seq(Nat) /\ Len(p \o q) = n + Len(q)
  BY <1>2
<1>5. \A i \in 1 .. (n + Len(q)) : (p \o q)[i] = IF i <= n THEN p[i] ELSE q[i - n]
  BY <1>2
<1>6. ASSUME NEW i \in 1 .. m PROVE (p \o q)[i] = tr[i]
  <2>1. n + Len(q) = m
    BY <1>1, <1>2
  <2>2. CASE i <= n
    BY <1>1, <1>5, <2>1, <2>2
  <2>3. CASE ~(i <= n)
    <3>1. i - n \in 1 .. (m - n) /\ n + (i - n) = i
      BY <1>1, <2>3
    <3> QED
      BY <1>3, <1>5, <2>1, <2>3, <3>1
  <2> QED
    BY <2>2, <2>3
<1>7. Len(p \o q) = m
  BY <1>1, <1>2, <1>4
<1>8. p \o q = tr
  <2> DEFINE z == p \o q
  <2> HIDE DEF z
  <2>1. z \in Seq(Nat) /\ Len(z) = Len(tr) /\ \A i \in 1 .. Len(z) : z[i] = tr[i]
    BY <1>4, <1>6, <1>7 DEF z
  <2>2. z = tr
    BY <2>1, SameSeq
  <2> QED
    BY <2>2 DEF z
<1> QED
  BY <1>2, <1>8 DEF Replayed, q

\* A list can be replayed at its own beginning.
LEMMA ReplayPrefix ==
    ASSUME NEW p \in Seq(Nat), NEW q \in Seq(Nat)
    PROVE  CanReplay(p, p \o q) /\ Replayed(p, p \o q) = q
<1> DEFINE z == p \o q
<1>1. z \in Seq(Nat) /\ Len(z) = Len(p) + Len(q) /\ Len(p) \in Nat /\ Len(q) \in Nat
  OBVIOUS
<1>2. \A i \in 1 .. Len(p) : z[i] = p[i]
  OBVIOUS
<1>3. \A i \in 1 .. Len(q) : z[Len(p) + i] = q[i]
  OBVIOUS
<1> HIDE DEF z
<1>4. CanReplay(p, z)
  BY <1>1, <1>2 DEF CanReplay
<1> DEFINE w == SubSeq(z, Len(p) + 1, Len(z))
<1>5. w \in Seq(Nat) /\ Len(w) = Len(q)
  BY <1>1
<1>6. \A i \in 1 .. Len(q) : w[i] = z[Len(p) + i]
  BY <1>1
<1> HIDE DEF w
<1>7. w = q
  BY <1>3, <1>5, <1>6, SameSeq
<1> QED
  BY <1>4, <1>7 DEF Replayed, w, z

\* Redoing the choices of an edge goes along that edge.
LEMMA ReplayStep ==
    ASSUME NEW t \in Tests, NEW E, E \subseteq Edges(t), NEW h \in Sys, NEW g \in Sys,
           NEW tr \in Seq(Nat), tr # << >>, Leads(t, E, h, tr, g),
           NEW p \in DOMAIN t.tree[h], t.tree[h][p] = 0, CanReplay(p, tr)
    PROVE  <<h, p>> \in E /\ Leads(t, E, t.to[h][p], Replayed(p, tr), g)
<1>d. Splits(t, E, h, tr, g)
  BY LeadsSplit
<1>1. PICK e \in E, q \in Seq(Nat) : e[1] = h /\ tr = e[2] \o q /\ Leads(t, E, Target(t, e), q, g)
  BY <1>d DEF Splits
<1>2. /\ e[2] \in Seq(Nat) /\ e[2] \in DOMAIN t.tree[h] /\ t.tree[h][e[2]] = 0
      /\ e = <<e[1], e[2]>>
  BY <1>1 DEF Edges
<1>3. CanReplay(e[2], tr) /\ Replayed(e[2], tr) = q
  <2>1. CanReplay(e[2], e[2] \o q) /\ Replayed(e[2], e[2] \o q) = q
    BY <1>2, ReplayPrefix
  <2> QED
    BY <1>1, <2>1
<1>4. p = e[2]
  BY <1>2, <1>3, OneLeaf, HarnessFacts
<1> QED
  BY <1>1, <1>2, <1>3, <1>4 DEF Target

\* There is such an edge.
LEMMA ReplayFinds ==
    ASSUME NEW t \in Tests, NEW E, E \subseteq Edges(t), NEW h \in Sys, NEW g \in Sys,
           NEW tr \in Seq(Nat), tr # << >>, Leads(t, E, h, tr, g)
    PROVE  \E p \in DOMAIN t.tree[h] : t.tree[h][p] = 0 /\ CanReplay(p, tr)
<1>d. Splits(t, E, h, tr, g)
  BY LeadsSplit
<1>1. PICK e \in E, q \in Seq(Nat) : e[1] = h /\ tr = e[2] \o q
  BY <1>d DEF Splits
<1>2. e[2] \in Seq(Nat) /\ e[2] \in DOMAIN t.tree[h] /\ t.tree[h][e[2]] = 0
  BY <1>1 DEF Edges
<1>3. CanReplay(e[2], e[2] \o q)
  BY <1>2, ReplayPrefix
<1> QED
  BY <1>1, <1>2, <1>3

-----------------------------------------------------------------------------
(* Expanding a state: all of its executions start in the same system state   *)

Returned == {"after_new", "after", "repeat", "save_restart", "tell"}
Expanding == {"set", "regen", "run"} \cup Returned

\* The choice generator r belongs to the state to which the choices tr lead
\* from checkpointed state c; s, rs and nd are sys, rest and node.
Course(t, c, tr, s, rs, nd, r, at) ==
    LET To(h, u, g) == Leads(t, Edges(t), h, u, g)
    IN  /\ at = "set" => \/ r = EnumReset
                         \/ r.cur = 0 /\ \E g \in Sys : To(c, tr, g) /\ Follows(t.tree[g], r)
        /\ at = "regen" => /\ rs \in Seq(Nat) /\ rs # << >> /\ nd = << >>
                           /\ \A g \in Sys : To(s, rs, g) => To(c, tr, g)
                           /\ \/ r = EnumReset
                              \/ r.cur = 0 /\ \E g \in Sys : To(s, rs, g) /\ Follows(t.tree[g], r)
        /\ at = "run" => /\ To(c, tr, s) /\ nd \in DOMAIN t.tree[s]
                         /\ Follows(t.tree[s], r) /\ At(r, nd)
        /\ at \in Returned => \E g \in Sys : /\ To(c, tr, g) /\ Follows(t.tree[g], r)
                                             /\ r.cur = Len(r.choices)

\* A state that has been taken from the queue.
LEMMA CourseBegins ==
    ASSUME NEW t, NEW c, NEW tr, NEW s, NEW rs, NEW nd
    PROVE  Course(t, c, tr, s, rs, nd, EnumReset, "set")
BY DEF Course, Returned

\* An execution at the root of a transition.
LEMMA CourseRuns ==
    ASSUME NEW t \in Tests, NEW c, NEW tr, NEW s \in Sys, NEW rs, NEW r,
           Leads(t, Edges(t), c, tr, s),
           r = EnumReset \/ (r.cur = 0 /\ \E g \in Sys : Leads(t, Edges(t), s, << >>, g) /\ Follows(t.tree[g], r))
    PROVE  Course(t, c, tr, s, rs, << >>, r, "run")
<1>1. IsTree(t.tree[s])
  BY HarnessFacts
<1>2. r.cur = 0 /\ Follows(t.tree[s], r)
  <2>1. CASE r = EnumReset
    BY <1>1, <2>1, ResetFollows
  <2>2. ASSUME r.cur = 0, NEW g \in Sys, Leads(t, Edges(t), s, << >>, g), Follows(t.tree[g], r)
        PROVE  r.cur = 0 /\ Follows(t.tree[s], r)
    <3> DEFINE u == << >>
    <3>1. u \in Seq(Nat) /\ Leads(t, Edges(t), s, u, g) /\ ~Splits(t, Edges(t), s, u, g)
      BY <2>2 DEF Splits
    <3> HIDE DEF u
    <3>2. g = s
      BY <3>1, LeadsSplit
    <3> QED
      BY <2>2, <3>2
  <2> QED
    BY <2>1, <2>2
<1>3. << >> \in DOMAIN t.tree[s]
  BY <1>1, TreeFacts
<1> QED
  BY <1>2, <1>3, AtRoot DEF Course, Returned

\* Restoring the checkpoint.
LEMMA CourseRestores ==
    ASSUME NEW t \in Tests, NEW c \in Sys, NEW tr \in Seq(Nat), NEW s, NEW rs, NEW nd, NEW r,
           Course(t, c, tr, s, rs, nd, r, "set")
    PROVE  Course(t, c, tr, c, tr, << >>, r, IF tr = << >> THEN "run" ELSE "regen")
<1>1. CASE tr = << >>
  <2>1. Leads(t, Edges(t), c, tr, c)
    BY <1>1, LeadsNil
  <2>2. r = EnumReset \/ (r.cur = 0 /\ \E g \in Sys : Leads(t, Edges(t), c, << >>, g) /\ Follows(t.tree[g], r))
    BY <1>1 DEF Course
  <2> QED
    BY <1>1, <2>1, <2>2, CourseRuns
<1>2. CASE tr # << >>
  BY <1>2 DEF Course, Returned
<1> QED
  BY <1>1, <1>2

\* Replaying one transition.
LEMMA CourseReplays ==
    ASSUME NEW t \in Tests, NEW c \in Sys, NEW tr \in Seq(Nat), NEW s \in Sys, NEW rs, NEW nd, NEW r,
           Course(t, c, tr, s, rs, nd, r, "regen"),
           NEW p \in DOMAIN t.tree[s], t.tree[s][p] = 0, CanReplay(p, rs)
    PROVE  Course(t, c, tr, t.to[s][p], Replayed(p, rs), nd, r,
                  IF Replayed(p, rs) = << >> THEN "run" ELSE "regen")
<1> DEFINE h == t.to[s][p]
           q == Replayed(p, rs)
           E == Edges(t)
<1>0. /\ rs \in Seq(Nat) /\ rs # << >> /\ nd = << >>
      /\ \A g \in Sys : Leads(t, E, s, rs, g) => Leads(t, E, c, tr, g)
      /\ r = EnumReset \/ (r.cur = 0 /\ \E g \in Sys : Leads(t, E, s, rs, g) /\ Follows(t.tree[g], r))
  BY DEF Course
<1>1. h \in Sys /\ p \in Seq(Nat) /\ <<s, p>> \in E /\ Target(t, <<s, p>>) = h
  BY HarnessFacts DEF Edges, Target
<1>2. q \in Seq(Nat) /\ rs = p \o q
  BY <1>0, <1>1, RestAfter
<1> HIDE DEF h, q, E
<1>3. ASSUME NEW g \in Sys, Leads(t, E, h, q, g) PROVE Leads(t, E, c, tr, g)
  <2> DEFINE e == <<s, p>>
  <2>1. e \in E /\ e[1] = s /\ e[2] = p /\ Target(t, e) = h
    BY <1>1
  <2> HIDE DEF e
  <2>2. e[2] \o q # << >>
    BY <1>0, <1>2, <2>1
  <2>3. Leads(t, E, e[1], e[2] \o q, g)
    BY <1>2, <1>3, <2>1, <2>2, LeadsFront
  <2> QED
    BY <1>0, <1>2, <2>1, <2>3
<1>4. r = EnumReset \/ (r.cur = 0 /\ \E g \in Sys : Leads(t, E, h, q, g) /\ Follows(t.tree[g], r))
  <2>1. \A g \in Sys : Leads(t, E, s, rs, g) => Leads(t, E, h, q, g)
    BY <1>0, <1>1, ReplayStep DEF h, q, E
  <2> QED
    BY <1>0, <2>1
<1>5. CASE q = << >>
  <2>1. Leads(t, E, c, tr, h)
    BY <1>1, <1>3, <1>5, LeadsNil
  <2> QED
    BY <1>0, <1>1, <1>4, <1>5, <2>1, CourseRuns DEF E, h, q
<1>6. CASE q # << >>
  <2>1. Course(t, c, tr, h, q, nd, r, "regen")
    BY <1>0, <1>2, <1>3, <1>4, <1>6 DEF Course, Returned, E
  <2> QED
    BY <1>6, <2>1 DEF h, q
<1> QED
  BY <1>5, <1>6

\* Passing a choice point.
LEMMA CourseChooses ==
    ASSUME NEW t, NEW c, NEW tr, NEW s, NEW rs, NEW nd, NEW r,
           Course(t, c, tr, s, rs, nd, r, "run"), t.tree[s][nd] # 0
    PROVE  Course(t, c, tr, s, rs, Append(nd, EnumValue(r, t.tree[s][nd])),
                  EnumRandom(r, t.tree[s][nd]), "run")
<1> DEFINE d == t.tree[s]
<1>1. nd \in DOMAIN d /\ Follows(d, r) /\ At(r, nd) /\ d[nd] # 0 /\ Leads(t, Edges(t), c, tr, s)
  BY DEF Course
<1>2. /\ Follows(d, EnumRandom(r, d[nd]))
      /\ Append(nd, EnumValue(r, d[nd])) \in DOMAIN d
      /\ At(EnumRandom(r, d[nd]), Append(nd, EnumValue(r, d[nd])))
  BY <1>1, DrawFollows
<1> QED
  BY <1>1, <1>2 DEF Course, Returned

\* The transition returns.
LEMMA CourseReturns ==
    ASSUME NEW t, NEW c, NEW tr, NEW s \in Sys, NEW rs, NEW nd, NEW r,
           Course(t, c, tr, s, rs, nd, r, "run"), t.tree[s][nd] = 0
    PROVE  /\ nd \in DOMAIN t.tree[s] /\ nd = r.choices /\ r.choices \in Seq(Nat)
           /\ Leads(t, Edges(t), c, tr, s)
           /\ \A h, x, y, at : at \in Returned => Course(t, c, tr, h, x, y, r, at)
<1> DEFINE d == t.tree[s]
<1>1. nd \in DOMAIN d /\ Follows(d, r) /\ At(r, nd) /\ d[nd] = 0 /\ Leads(t, Edges(t), c, tr, s)
  BY DEF Course
<1>2. nd = r.choices /\ r.cur = Len(r.choices) /\ r.choices \in Seq(Nat)
  BY <1>1, LeafReached DEF Follows
<1> QED
  BY <1>1, <1>2 DEF Course, Returned

\* Between the return and repeat() nothing changes.
LEMMA CourseStays ==
    ASSUME NEW t, NEW c, NEW tr, NEW s, NEW rs, NEW nd, NEW r, NEW at \in Returned,
           Course(t, c, tr, s, rs, nd, r, at), NEW bt \in Returned
    PROVE  Course(t, c, tr, s, rs, nd, r, bt)
BY DEF Course, Returned

\* The next combination of choices.
LEMMA CourseRepeats ==
    ASSUME NEW t, NEW c, NEW tr, NEW s, NEW rs, NEW nd, NEW r,
           Course(t, c, tr, s, rs, nd, r, "repeat"), Repeats(r)
    PROVE  Course(t, c, tr, s, rs, nd, Repeat(r), "set")
<1>1. PICK g \in Sys : Leads(t, Edges(t), c, tr, g) /\ Follows(t.tree[g], r) /\ r.cur = Len(r.choices)
  BY DEF Course, Returned
<1>2. Follows(t.tree[g], Repeat(r)) /\ Repeat(r).cur = 0
  BY <1>1, RepeatFollows
<1> QED
  BY <1>1, <1>2 DEF Course, Returned

-----------------------------------------------------------------------------
(* The invariant, for every harness that is not run with the priority queue  *)

\* A file under the name of the checkpoint is on the disk, and is whole.
IsFile(t, f) ==
    /\ f.synced
    /\ f.exists => f.len = Sections /\ Good(t, f.img.queue, f.img.visited, f.img.ckpts)

\* A temporary file has a usable image, and is synced when it is whole.
IsTmp(t, f) ==
    /\ DOMAIN f = {"exists", "img", "len", "synced"}
    /\ f.exists => /\ f.len \in 0 .. Sections
                   /\ f.synced => f.len = Sections
                   /\ Good(t, f.img.queue, f.img.visited, f.img.ckpts)

DiskOK(t, d) ==
    /\ DOMAIN d = {"tmp", "file", "old"}
    /\ IsTmp(t, d.tmp) /\ IsFile(t, d.file) /\ IsFile(t, d.old)

Sane ==
    /\ test \in Tests
    /\ Searching =>
         /\ sys \in Sys
         /\ Good(test, queue, visited, ckpts)
         /\ DiskOK(test, disk)
         /\ pc = "start" => sys = test.raw /\ queue = << >> /\ visited = << >> /\ ckpts = << >>
         /\ pc \in {"dequeue", "save_loop"} => queue # << >>
         /\ pc \in Expanding =>
              /\ curr \in StateRecords(test) /\ curr.start \in DOMAIN ckpts
              /\ Course(test, ckpts[curr.start].data, curr.trace, sys, rest, node, rand, pc)

\* Nothing of it is about the other variables.
LEMMA SaneStutter == ASSUME Sane, UNCHANGED vars PROVE Sane'
<1>1. /\ test' = test /\ sys' = sys /\ queue' = queue /\ visited' = visited /\ ckpts' = ckpts
      /\ disk' = disk /\ curr' = curr /\ rest' = rest /\ node' = node /\ rand' = rand /\ pc' = pc
  BY DEF vars, search
<1> QED
  BY <1>1 DEF Sane, Searching

\* An absent file meets what is asked of one.
LEMMA NoFileOK ==
    ASSUME NEW t
    PROVE  IsTmp(t, NoFile) /\ IsFile(t, NoFile)
BY DEF IsTmp, IsFile, NoFile

\* Nothing is queued or saved at first.
LEMMA SaneInit == Init => Sane
<1> SUFFICES ASSUME Init PROVE Sane
  OBVIOUS
<1>1. /\ test \in Tests /\ sys = test.raw /\ queue = << >> /\ visited = << >> /\ ckpts = << >>
      /\ disk = [tmp |-> NoFile, file |-> NoFile, old |-> NoFile] /\ pc = "start"
  BY DEF Init
<1>2. Good(test, queue, visited, ckpts)
  BY <1>1, EmptyIsGood
<1>3. DiskOK(test, disk)
  BY <1>1, NoFileOK DEF DiskOK
<1>4. sys \in Sys
  BY <1>1, HarnessFacts
<1> QED
  BY <1>1, <1>2, <1>3, <1>4 DEF Sane, Expanding, Returned

\* The initial state gets id 0 and checkpoint 0.
LEMMA SaneStart == ASSUME Sane, Start PROVE Sane'
<1>1. /\ pc = "start" /\ pc' = "loop" /\ test' = test /\ sys' = sys /\ disk' = disk /\ Searching
  BY DEF Start, Searching, Replaying
<1>2. /\ test \in Tests /\ sys \in Sys /\ sys = test.raw /\ DiskOK(test, disk)
      /\ queue = << >> /\ visited = << >> /\ ckpts = << >>
  BY <1>1 DEF Sane
<1> DEFINE s == [id |-> 0, start |-> 0, sig |-> test.sig[sys], trace |-> << >>]
           c == [data |-> Saved(sys), parent_id |-> 0, trace |-> << >>]
<1>3. queue' = <<s>> /\ visited' = With(<< >>, s.sig, 0) /\ ckpts' = With(<< >>, 0, c)
  BY <1>2 DEF Start
<1>4. Good(test, queue', visited', ckpts')
  <2>1. s \in StateRecords(test) /\ s.id = 0 /\ s.start = 0 /\ s.sig = test.sig[sys]
    BY <1>2, HarnessFacts DEF StateRecords
  <2>2. c \in CkptRecords /\ c.parent_id = 0
    BY <1>2, HarnessFacts DEF CkptRecords, Saved
  <2> HIDE DEF s, c
  <2>3. /\ DOMAIN visited' = {s.sig} /\ visited'[s.sig] = 0
        /\ DOMAIN ckpts' = {0} /\ ckpts'[0] = c
        /\ DOMAIN queue' = {1} /\ queue'[1] = s /\ queue' \in Seq(StateRecords(test))
    <3>1. DOMAIN visited' = {s.sig} /\ visited'[s.sig] = 0
      BY <1>3 DEF With
    <3>2. DOMAIN ckpts' = {0} /\ ckpts'[0] = c
      BY <1>3 DEF With
    <3>3. DOMAIN queue' = {1} /\ queue'[1] = s /\ queue' \in Seq(StateRecords(test))
      BY <1>3, <2>1
    <3> QED
      BY <3>1, <3>2, <3>3
  <2>4. IsFiniteSet(DOMAIN visited') /\ Cardinality(DOMAIN visited') = 1 /\ 1 - 1 = 0
    <3>1. IsFiniteSet({s.sig}) /\ Cardinality({s.sig}) = 1
      BY FS_Singleton, Zenon
    <3> QED
      BY <2>3, <3>1
  <2>5. Range(visited') = 0 .. 0
    BY <2>3 DEF Range
  <2>6. WellFormed(queue', visited', ckpts')
    BY <2>1, <2>2, <2>3, <2>4, <2>5 DEF WellFormed
  <2> QED
    BY <1>2, <2>1, <2>2, <2>3, <2>4, <2>6 DEF Good
<1> QED
  BY <1>1, <1>2, <1>4 DEF Sane, Expanding, Returned

\* The top of the loop changes nothing.
LEMMA SaneLoop == ASSUME Sane, Loop PROVE Sane'
<1>1. /\ pc = "loop" /\ pc' \in {"ended", "save_loop", "dequeue"} /\ (queue = << >> => pc' = "ended")
      /\ test' = test /\ sys' = sys /\ disk' = disk /\ Searching
      /\ queue' = queue /\ visited' = visited /\ ckpts' = ckpts
  BY DEF Loop, Searching, Replaying, search
<1> QED
  BY <1>1 DEF Sane, Expanding, Returned

\* sync() makes the new directory entry the durable one.
LEMMA TellKeepsFiles == ASSUME DiskOK(test, disk), TellMonitor PROVE DiskOK(test, disk')
BY DEF TellMonitor, DiskOK

\* The rest of a well formed queue is one.
LEMMA SaneDequeue == ASSUME Sane, Dequeue PROVE Sane'
<1>1. /\ pc = "dequeue" /\ pc' = "set" /\ test' = test /\ sys' = sys /\ Searching
      /\ visited' = visited /\ ckpts' = ckpts /\ curr' = Head(queue) /\ queue' = Tail(queue)
      /\ rand' = EnumReset
  BY DEF Dequeue, Searching, Replaying
<1>2. test \in Tests /\ sys \in Sys /\ Good(test, queue, visited, ckpts) /\ queue # << >>
  BY <1>1 DEF Sane
<1>3. DiskOK(test, disk')
  BY <1>1, TellKeepsFiles DEF Sane, Dequeue
<1>4. /\ Good(test, queue', visited', ckpts')
      /\ curr' \in StateRecords(test) /\ curr'.start \in DOMAIN ckpts'
  BY <1>1, <1>2, TakeQueued
<1>5. Course(test, ckpts'[curr'.start].data, curr'.trace, sys', rest', node', rand', "set")
  BY <1>1, CourseBegins
<1> QED
  BY <1>1, <1>2, <1>3, <1>4, <1>5 DEF Sane

\* set_state restores the checkpoint.
LEMMA SaneSetState == ASSUME Sane, SetState PROVE Sane'
<1>1. /\ pc = "set" /\ pc' = (IF curr.trace = << >> THEN "run" ELSE "regen")
      /\ test' = test /\ Searching /\ disk' = disk /\ curr' = curr /\ rand' = rand
      /\ queue' = queue /\ visited' = visited /\ ckpts' = ckpts
      /\ sys' = ckpts[curr.start].data /\ rest' = curr.trace /\ node' = << >>
  BY DEF SetState, Searching, Replaying, search
<1>2. /\ test \in Tests /\ Good(test, queue, visited, ckpts) /\ DiskOK(test, disk)
      /\ curr \in StateRecords(test) /\ curr.start \in DOMAIN ckpts
      /\ Course(test, ckpts[curr.start].data, curr.trace, sys, rest, node, rand, "set")
  BY <1>1 DEF Sane, Expanding
<1>3. sys' \in Sys /\ curr.trace \in Seq(Nat)
  BY <1>1, <1>2 DEF Good, CkptRecords, StateRecords
<1>4. Course(test, ckpts[curr.start].data, curr.trace, sys', rest', node', rand, pc')
  BY <1>1, <1>2, <1>3, CourseRestores
<1> QED
  BY <1>1, <1>2, <1>3, <1>4 DEF Sane

\* One transition of the trace is replayed.
LEMMA SaneRegen == ASSUME Sane, Regen PROVE Sane'
<1>1. /\ pc = "regen" /\ test' = test /\ Searching /\ disk' = disk /\ curr' = curr /\ rand' = rand
      /\ queue' = queue /\ visited' = visited /\ ckpts' = ckpts /\ node' = node
  BY DEF Regen, Searching, Replaying, search
<1>2. /\ test \in Tests /\ sys \in Sys /\ Good(test, queue, visited, ckpts) /\ DiskOK(test, disk)
      /\ curr \in StateRecords(test) /\ curr.start \in DOMAIN ckpts
      /\ Course(test, ckpts[curr.start].data, curr.trace, sys, rest, node, rand, "regen")
  BY <1>1 DEF Sane, Expanding
<1>3. CASE pc' = "panic"
  BY <1>1, <1>2, <1>3 DEF Sane, Searching, Replaying
<1>4. CASE pc' # "panic"
  <2> DEFINE p == CHOOSE p \in Leaves(sys) : CanReplay(p, rest)
  <2>1. \E q \in Leaves(sys) : CanReplay(q, rest)
    BY <1>4 DEF Regen
  <2>2. p \in Leaves(sys) /\ CanReplay(p, rest)
    BY <2>1
  <2>3. /\ sys' = test.to[sys][p] /\ rest' = Replayed(p, rest)
        /\ pc' = IF rest' = << >> THEN "run" ELSE "regen"
    BY <1>4, <2>1 DEF Regen
  <2> HIDE DEF p
  <2>4. p \in DOMAIN test.tree[sys] /\ test.tree[sys][p] = 0
    BY <2>2 DEF Leaves
  <2>5. ckpts[curr.start].data \in Sys /\ curr.trace \in Seq(Nat)
    BY <1>2 DEF Good, CkptRecords, StateRecords
  <2>6. Course(test, ckpts[curr.start].data, curr.trace, sys', rest', node, rand, pc')
    BY <1>2, <2>2, <2>3, <2>4, <2>5, CourseReplays
  <2>7. sys' \in Sys
    BY <1>2, <2>3, <2>4, HarnessFacts
  <2> QED
    BY <1>1, <1>2, <2>3, <2>6, <2>7 DEF Sane
<1> QED
  BY <1>3, <1>4

\* A choice point is passed.
LEMMA SaneChoose == ASSUME Sane, Choose PROVE Sane'
<1>1. /\ pc = "run" /\ pc' = "run" /\ test' = test /\ Searching /\ disk' = disk /\ curr' = curr
      /\ queue' = queue /\ visited' = visited /\ ckpts' = ckpts /\ sys' = sys /\ rest' = rest
      /\ test.tree[sys][node] # 0
      /\ rand' = EnumRandom(rand, test.tree[sys][node])
      /\ node' = Append(node, EnumValue(rand, test.tree[sys][node]))
  BY DEF Choose, Searching, Replaying, search
<1>2. /\ test \in Tests /\ sys \in Sys /\ Good(test, queue, visited, ckpts) /\ DiskOK(test, disk)
      /\ curr \in StateRecords(test) /\ curr.start \in DOMAIN ckpts
      /\ Course(test, ckpts[curr.start].data, curr.trace, sys, rest, node, rand, "run")
  BY <1>1 DEF Sane, Expanding
<1>3. Course(test, ckpts[curr.start].data, curr.trace, sys, rest, node', rand', "run")
  BY <1>1, <1>2, CourseChooses
<1> QED
  BY <1>1, <1>2, <1>3 DEF Sane

\* A new state gets the next id, a checkpoint if it is to have one, and a place
\* in the queue; a known one changes nothing.
LEMMA ExitedIsGood ==
    ASSUME NoPriority, test \in Tests, Good(test, queue, visited, ckpts),
           curr \in StateRecords(test), curr.start \in DOMAIN ckpts, rand.choices \in Seq(Nat),
           NEW h \in Sys, Exited(h)
    PROVE  /\ Good(test, queue', visited', ckpts')
           /\ curr.start \in DOMAIN ckpts'
           /\ ckpts'[curr.start] = ckpts[curr.start]
           /\ pc' \in {"stopped", "after_new"}
<1>1. CASE ~IsNew(h)
  BY <1>1 DEF Exited
<1>2. CASE IsNew(h)
  <2> DEFINE n == NumStates
             g == test.sig[h]
             tr == curr.trace \o rand.choices
             c == [data |-> Saved(h), parent_id |-> curr.start, trace |-> tr]
             s == Reached(h)
  <2>1. /\ visited' = With(visited, g, n) /\ ckpts' = Checkpointed(h)
        /\ \/ pc' = "stopped" /\ queue' = queue
           \/ pc' = "after_new" /\ queue' \in Pushed(queue, s)
    BY <1>2 DEF Exited
  <2>2. g \notin DOMAIN visited /\ g \in Sigs(test) /\ DOMAIN visited # {}
    <3>1. curr.start \in Range(visited)
      BY DEF Good, WellFormed
    <3> QED
      BY <1>2, <3>1, HarnessFacts DEF IsNew, NoPriority, Range
  <2>3. /\ Good(test, queue, visited', ckpts) /\ n \in Nat
        /\ \A x \in DOMAIN visited : visited[x] \in 0 .. (n - 1)
    BY <2>1, <2>2, AddSeen DEF NumStates
  <2>4. /\ curr.start \in Nat /\ curr.trace \in Seq(Nat) /\ tr \in Seq(Nat)
    BY DEF StateRecords
  <2>5. DOMAIN visited' = DOMAIN visited \cup {g} /\ visited'[g] = n
    BY <2>1 DEF With
  <2>6. DOMAIN ckpts \subseteq 0 .. (n - 1)
    BY DEF Good, WellFormed, NumStates
  <2>7. curr.start < n /\ n \notin DOMAIN ckpts
    BY <2>3, <2>6
  <2>8. c \in CkptRecords /\ c.parent_id = curr.start
    BY <2>4, HarnessFacts DEF CkptRecords, Saved
  <2> HIDE DEF c
  <2>9. /\ Good(test, queue, visited', ckpts')
        /\ h \in test.save => n \in DOMAIN ckpts'
        /\ curr.start \in DOMAIN ckpts' /\ ckpts'[curr.start] = ckpts[curr.start]
    <3>1. CASE h \in test.save
      <4>1. ckpts' = With(ckpts, n, c)
        BY <2>1, <3>1 DEF Checkpointed, c
      <4>2. n \in Range(visited')
        BY <2>5 DEF Range
      <4>3. Good(test, queue, visited', ckpts')
        BY <2>3, <2>7, <2>8, <4>1, <4>2, AddCkpt
      <4>4. /\ n \in DOMAIN ckpts' /\ curr.start \in DOMAIN ckpts'
            /\ ckpts'[curr.start] = ckpts[curr.start]
        BY <2>7, <4>1 DEF With
      <4> QED
        BY <4>3, <4>4
    <3>2. CASE h \notin test.save
      <4>1. ckpts' = ckpts
        BY <2>1, <3>2 DEF Checkpointed
      <4> QED
        BY <2>3, <3>2, <4>1
    <3> QED
      BY <3>1, <3>2
  <2>10. /\ s \in StateRecords(test) /\ s.id = n /\ s.sig = g
         /\ s.start = IF h \in test.save THEN n ELSE curr.start
    BY <2>2, <2>3, <2>4 DEF Reached, StateRecords
  <2> HIDE DEF s, n
  <2>11. ASSUME pc' = "after_new", queue' \in Pushed(queue, s)
         PROVE  Good(test, queue', visited', ckpts')
    <3>1. queue' = Append(queue, s) \/ queue' = <<s>> \o queue
      <4>1. test.queue \in {"bfs", "dfs"}
        BY HarnessFacts DEF NoPriority
      <4> QED
        BY <2>11, <4>1 DEF Pushed
    <3>2. ASSUME NEW i \in DOMAIN queue PROVE queue[i].id # s.id
      <4>1. queue[i].sig \in DOMAIN visited /\ visited[queue[i].sig] = queue[i].id
        BY DEF Good, WellFormed
      <4>2. queue[i].id \in 0 .. (n - 1)
        BY <2>3, <4>1
      <4> QED
        BY <2>3, <2>10, <4>2
    <3>3. s.sig \in DOMAIN visited' /\ visited'[s.sig] = s.id /\ s.start \in DOMAIN ckpts'
      BY <2>5, <2>9, <2>10
    <3> QED
      BY <2>9, <2>10, <3>1, <3>2, <3>3, AddQueued
  <2> QED
    BY <2>1, <2>9, <2>11
<1> QED
  BY <1>1, <1>2

\* A transition returns, and a new state is queued.
LEMMA SaneReturn == ASSUME NoPriority, Sane, Return PROVE Sane'
<1>1. /\ pc = "run" /\ test' = test /\ Searching /\ disk' = disk /\ curr' = curr /\ rand' = rand
      /\ rest' = rest /\ node' = node /\ test.tree[sys][node] = 0 /\ sys' = test.to[sys][node]
  BY DEF Return, Searching, Replaying
<1>2. /\ test \in Tests /\ sys \in Sys /\ Good(test, queue, visited, ckpts) /\ DiskOK(test, disk)
      /\ curr \in StateRecords(test) /\ curr.start \in DOMAIN ckpts
      /\ Course(test, ckpts[curr.start].data, curr.trace, sys, rest, node, rand, "run")
  BY <1>1 DEF Sane, Expanding
<1>3. /\ node \in DOMAIN test.tree[sys] /\ rand.choices \in Seq(Nat)
      /\ \A at \in Returned : Course(test, ckpts[curr.start].data, curr.trace, sys', rest', node', rand', at)
  <2> DEFINE c == ckpts[curr.start].data
  <2>1. Course(test, c, curr.trace, sys, rest, node, rand, "run")
    BY <1>2
  <2> HIDE DEF c
  <2>2. /\ node \in DOMAIN test.tree[sys] /\ rand.choices \in Seq(Nat)
        /\ \A h, x, y, at : at \in Returned => Course(test, c, curr.trace, h, x, y, rand, at)
    BY <1>1, <1>2, <2>1, CourseReturns
  <2> QED
    BY <1>1, <2>2 DEF c
<1>4. sys' \in Sys
  BY <1>1, <1>2, <1>3, HarnessFacts
<1>5. /\ Good(test, queue', visited', ckpts')
      /\ curr.start \in DOMAIN ckpts' /\ ckpts'[curr.start] = ckpts[curr.start]
      /\ pc' \in {"stopped", "after_new", "after", "save_restart"}
  <2>1. CASE Exited(sys')
    BY <1>2, <1>3, <1>4, <2>1, ExitedIsGood
  <2>2. CASE (pc' = "after" /\ UNCHANGED <<search, traces>>) \/ Bug \/ Abort
    BY <1>2, <2>2 DEF search, Bug, Abort
  <2> QED
    BY <2>1, <2>2 DEF Return
<1>6. CASE pc' = "stopped"
  BY <1>1, <1>2, <1>4, <1>5, <1>6 DEF Sane, Expanding, Returned
<1>7. CASE pc' # "stopped"
  <2>1. pc' \in Returned /\ pc' \in Expanding /\ pc' \notin {"start", "dequeue", "save_loop"}
    BY <1>5, <1>7 DEF Returned, Expanding
  <2>2. Course(test', ckpts'[curr'.start].data, curr'.trace, sys', rest', node', rand', pc')
    BY <1>1, <1>3, <1>5, <2>1
  <2> QED
    BY <1>1, <1>2, <1>4, <1>5, <2>1, <2>2 DEF Sane
<1> QED
  BY <1>6, <1>7

\* The steps between the return of a transition and the end of its expansion
\* that leave the search alone.
LEMMA SaneStays ==
    ASSUME Sane, Searching, pc \in Returned, pc' \in Returned \cup {"stopped", "dead", "loop"},
           test' = test, sys' = sys, queue' = queue, visited' = visited, ckpts' = ckpts,
           curr' = curr, rand' = rand, rest' = rest, node' = node, DiskOK(test, disk')
    PROVE  Sane'
<1>1. /\ test \in Tests /\ sys \in Sys /\ Good(test, queue, visited, ckpts)
      /\ curr \in StateRecords(test) /\ curr.start \in DOMAIN ckpts
      /\ Course(test, ckpts[curr.start].data, curr.trace, sys, rest, node, rand, pc)
  BY DEF Sane, Expanding
<1>2. CASE pc' \in Returned
  <2>1. Course(test, ckpts[curr.start].data, curr.trace, sys, rest, node, rand, pc')
    BY <1>1, <1>2, CourseStays
  <2>2. pc' \notin {"start", "dequeue", "save_loop"}
    BY <1>2 DEF Returned
  <2> QED
    BY <1>1, <2>1, <2>2 DEF Sane
<1>3. CASE pc' \in {"stopped", "dead", "loop"}
  BY <1>1, <1>3 DEF Sane, Expanding, Returned
<1> QED
  BY <1>2, <1>3

\* The hooks after a transition change nothing.
LEMMA SaneAfter == ASSUME Sane, AfterNew \/ AfterTransitions PROVE Sane'
<1>1. pc \in Returned /\ Searching
  BY DEF AfterNew, AfterTransitions, Returned, Searching, Replaying
<1>2. /\ test' = test /\ sys' = sys /\ queue' = queue /\ visited' = visited /\ ckpts' = ckpts
      /\ curr' = curr /\ rand' = rand /\ rest' = rest /\ node' = node /\ disk' = disk
      /\ pc' \in Returned \cup {"stopped", "dead"}
  BY DEF AfterNew, AfterTransitions, search, Bug, Abort, Returned
<1>3. DiskOK(test, disk')
  BY <1>1, <1>2 DEF Sane
<1> QED
  BY <1>1, <1>2, <1>3, SaneStays

\* repeat() goes on with the same state or leaves it.
LEMMA SaneRepeatChoices == ASSUME Sane, RepeatChoices PROVE Sane'
<1>1. pc = "repeat" /\ pc \in Returned /\ Searching
  BY DEF RepeatChoices, Returned, Searching, Replaying
<1>2. /\ test' = test /\ sys' = sys /\ queue' = queue /\ visited' = visited /\ ckpts' = ckpts
      /\ curr' = curr /\ rest' = rest /\ node' = node /\ disk' = disk
  BY DEF RepeatChoices, search
<1>3. /\ test \in Tests /\ sys \in Sys /\ Good(test, queue, visited, ckpts) /\ DiskOK(test, disk)
      /\ curr \in StateRecords(test) /\ curr.start \in DOMAIN ckpts
      /\ Course(test, ckpts[curr.start].data, curr.trace, sys, rest, node, rand, "repeat")
  BY <1>1 DEF Sane, Expanding
<1>4. CASE Repeats(rand)
  <2>1. rand' = Repeat(rand) /\ pc' = "set"
    BY <1>4 DEF RepeatChoices
  <2>2. Course(test, ckpts[curr.start].data, curr.trace, sys, rest, node, rand', "set")
    BY <1>3, <1>4, <2>1, CourseRepeats
  <2> QED
    BY <1>2, <1>3, <2>1, <2>2 DEF Sane
<1>5. CASE ~Repeats(rand)
  <2>1. rand' = rand /\ pc' = "loop"
    BY <1>5 DEF RepeatChoices
  <2> QED
    BY <1>1, <1>2, <1>3, <2>1, SaneStays
<1> QED
  BY <1>4, <1>5

\* self_checkpoint: the steps that only write the temporary file.
LEMMA SaneSave == ASSUME Sane, SaveOpen \/ SaveWrite \/ SaveSync PROVE Sane'
<1>1. /\ pc \in {"save_loop", "save_restart"} /\ Searching
  BY DEF SaveOpen, SaveWrite, SaveSync, Saving, Searching, Replaying
<1>2. /\ test' = test /\ sys' = sys /\ queue' = queue /\ visited' = visited /\ ckpts' = ckpts
      /\ curr' = curr /\ rand' = rand /\ rest' = rest /\ node' = node /\ pc' = pc
  BY DEF SaveOpen, SaveWrite, SaveSync, search
<1>3. /\ DOMAIN disk = {"tmp", "file", "old"} /\ IsTmp(test, disk.tmp)
      /\ IsFile(test, disk.file) /\ IsFile(test, disk.old) /\ Good(test, queue, visited, ckpts)
  BY <1>1 DEF Sane, DiskOK
<1>4. DiskOK(test, disk')
  <2>1. CASE SaveOpen
    <3> DEFINE f == [exists |-> TRUE, img |-> Image, len |-> 0, synced |-> FALSE]
    <3>1. disk' = [disk EXCEPT !.tmp = f]
      BY <2>1 DEF SaveOpen
    <3>2. IsTmp(test, f)
      BY <1>3 DEF IsTmp, Image, Sections
    <3> HIDE DEF f
    <3> QED
      BY <1>3, <3>1, <3>2 DEF DiskOK
  <2>2. CASE SaveWrite
    <3> DEFINE f == [disk.tmp EXCEPT !.len = @ + 1]
    <3>1. disk' = [disk EXCEPT !.tmp = f] /\ disk.tmp.exists /\ disk.tmp.len < Sections
      BY <1>3, <2>2 DEF SaveWrite
    <3>2. IsTmp(test, f)
      BY <1>3, <3>1 DEF IsTmp, Sections
    <3> HIDE DEF f
    <3> QED
      BY <1>3, <3>1, <3>2 DEF DiskOK
  <2>3. CASE SaveSync
    <3> DEFINE f == [disk.tmp EXCEPT !.synced = TRUE]
    <3>1. disk' = [disk EXCEPT !.tmp = f] /\ disk.tmp.exists /\ disk.tmp.len = Sections
      BY <1>3, <2>3 DEF SaveSync
    <3>2. IsTmp(test, f)
      BY <1>3, <3>1 DEF IsTmp, Sections
    <3> HIDE DEF f
    <3> QED
      BY <1>3, <3>1, <3>2 DEF DiskOK
  <2> QED
    BY <2>1, <2>2, <2>3
<1> QED
  BY <1>1, <1>2, <1>4 DEF Sane

\* ... and those with which it ends.
LEMMA SaneSaved == ASSUME Sane, SaveRename \/ SaveOpenFails PROVE Sane'
<1>1. /\ pc \in {"save_loop", "save_restart"} /\ Searching /\ pc' = AfterSave
  BY DEF SaveRename, SaveOpenFails, Saving, Searching, Replaying
<1>2. /\ test' = test /\ sys' = sys /\ queue' = queue /\ visited' = visited /\ ckpts' = ckpts
      /\ curr' = curr /\ rand' = rand /\ rest' = rest /\ node' = node
  BY DEF SaveRename, SaveOpenFails, search
<1>3. /\ DOMAIN disk = {"tmp", "file", "old"} /\ IsTmp(test, disk.tmp)
      /\ IsFile(test, disk.file) /\ IsFile(test, disk.old)
  BY <1>1 DEF Sane, DiskOK
<1>4. DiskOK(test, disk')
  <2>1. CASE SaveRename
    <3>1. disk' = [disk EXCEPT !.file = disk.tmp, !.tmp = NoFile] /\ disk.tmp.exists /\ disk.tmp.synced
      BY <2>1 DEF SaveRename
    <3>2. IsFile(test, disk.tmp)
      BY <1>3, <3>1 DEF IsFile, IsTmp
    <3> QED
      BY <1>3, <3>1, <3>2, NoFileOK DEF DiskOK
  <2>2. CASE SaveOpenFails
    BY <1>1, <2>2 DEF SaveOpenFails, Sane
  <2> QED
    BY <2>1, <2>2
<1>5. CASE pc = "save_loop"
  BY <1>1, <1>2, <1>4, <1>5 DEF Sane, AfterSave, Expanding, Returned
<1>6. CASE pc = "save_restart"
  <2>1. pc \in Returned /\ pc' \in Returned
    BY <1>1, <1>6 DEF AfterSave, Returned
  <2> QED
    BY <1>1, <1>2, <1>4, <2>1, SaneStays
<1> QED
  BY <1>1, <1>5, <1>6

\* The monitor is told.
LEMMA SaneTell == ASSUME Sane, Tell PROVE Sane'
<1>1. pc \in Returned /\ pc' \in Returned /\ Searching
  BY DEF Tell, Returned, Searching, Replaying
<1>2. /\ test' = test /\ sys' = sys /\ queue' = queue /\ visited' = visited /\ ckpts' = ckpts
      /\ curr' = curr /\ rand' = rand /\ rest' = rest /\ node' = node
  BY DEF Tell, search
<1>3. DiskOK(test, disk')
  BY <1>1, TellKeepsFiles DEF Tell, Sane
<1> QED
  BY <1>1, <1>2, <1>3, SaneStays

\* A fault changes nothing that is in memory or synced.
LEMMA SaneFault == ASSUME Sane, ScheduleRestart \/ Crash PROVE Sane'
<1>1. /\ test' = test /\ sys' = sys /\ queue' = queue /\ visited' = visited /\ ckpts' = ckpts
      /\ curr' = curr /\ rand' = rand /\ rest' = rest /\ node' = node /\ disk' = disk
  BY DEF ScheduleRestart, Crash, search
<1>2. Searching /\ pc' \in {pc, "dead"}
  BY DEF ScheduleRestart, Crash, Searching, Finished, Replaying
<1> QED
  BY <1>1, <1>2 DEF Sane, Searching, Replaying, Expanding, Returned

\* The file that a reboot restores is on the disk.
LEMMA SurvivorIsFile ==
    ASSUME DiskOK(test, disk), NEW f \in Survivors
    PROVE  IsFile(test, f)
<1>1. disk.old.synced /\ disk.file.synced /\ IsFile(test, disk.old) /\ IsFile(test, disk.file)
  BY DEF DiskOK, IsFile
<1>2. f \in {disk.old, disk.file}
  BY <1>1 DEF Survivors
<1> QED
  BY <1>1, <1>2

\* A reboot loads a whole file or starts over.
LEMMA SaneReboot == ASSUME Sane, Reboot PROVE Sane'
<1>1. test' = test /\ sys' = test.raw /\ test \in Tests
  BY DEF Reboot, Sane
<1>2. Searching
  BY DEF Reboot, Searching, Finished, Replaying
<1>3. PICK f \in Survivors :
        /\ disk' = [tmp |-> NoFile, file |-> f, old |-> f]
        /\ IF f.exists /\ f.len = Sections
           THEN /\ queue' = f.img.queue /\ visited' = f.img.visited
                /\ ckpts' = f.img.ckpts /\ bugs' = f.img.bugs
           ELSE queue' = << >> /\ visited' = << >> /\ ckpts' = << >> /\ bugs' = 0
        /\ pc' = IF ~f.exists THEN "start" ELSE IF f.len = Sections THEN "loop" ELSE "panic"
  BY DEF Reboot
<1>4. IsFile(test, f)
  BY <1>2, SurvivorIsFile DEF Sane
<1>5. DiskOK(test, disk')
  BY <1>3, <1>4, NoFileOK DEF DiskOK
<1>6. sys' \in Sys
  BY <1>1, HarnessFacts
<1>7. CASE f.exists
  <2>1. f.len = Sections /\ Good(test, queue', visited', ckpts') /\ pc' = "loop"
    BY <1>3, <1>4, <1>7 DEF IsFile
  <2> QED
    BY <1>1, <1>5, <1>6, <2>1 DEF Sane, Expanding, Returned
<1>8. CASE ~f.exists
  <2>1. queue' = << >> /\ visited' = << >> /\ ckpts' = << >> /\ pc' = "start"
    BY <1>3, <1>8
  <2>2. Good(test, queue', visited', ckpts')
    BY <2>1, EmptyIsGood
  <2> QED
    BY <1>1, <1>5, <1>6, <2>1, <2>2 DEF Sane, Expanding, Returned
<1> QED
  BY <1>7, <1>8

\* Replays are another program's business.
LEMMA SaneReplay == ASSUME Sane, Replay PROVE Sane' /\ ~Searching'
<1>1. test' = test
  BY DEF Replay, ReplayStart, ReplayOld, ReplayOldDone, ReplayNew, ReplayAfter
<1>2. pc' \in Replaying \cup {"panic"}
  BY DEF Replay, ReplayStart, ReplayOld, ReplayOldDone, ReplayNew, ReplayAfter, ReplayOne, Replaying
<1> QED
  BY <1>1, <1>2 DEF Sane, Searching

\* Every step keeps the first part of the invariant.
LEMMA SaneNext == ASSUME NoPriority, Sane, [Next]_vars PROVE Sane'
<1>1. CASE Step
  BY <1>1, SaneStart, SaneLoop, SaneDequeue, SaneSetState, SaneRegen, SaneChoose, SaneReturn,
     SaneAfter, SaneRepeatChoices, SaneSave, SaneSaved, SaneTell DEF Step
<1>2. CASE Fault
  BY <1>2, SaneFault, SaneSaved DEF Fault
<1> QED
  BY <1>1, <1>2, SaneReboot, SaneReplay, SaneStutter DEF Next

\* The search state in memory and in the checkpoint files stays well formed,
\* and all executions of a state start in the same system state (set_state).
THEOREM SearchInvariance == ASSUME NoPriority PROVE Spec => []Sane
<1>1. Init => Sane
  BY SaneInit
<1>2. Sane /\ [Next]_vars => Sane'
  BY SaneNext
<1> QED
  BY <1>1, <1>2, PTL DEF Spec

\* The search state is usable at every step, across crashes and reboots: ids
\* have no gaps, no state is queued twice or unknown, and every queued state
\* starts from a checkpoint that exists (get_state, self_restore).
THEOREM SearchIsWellFormed == ASSUME NoPriority PROVE Spec => []SearchWellFormed
<1>1. Sane => SearchWellFormed
  BY DEF Sane, Good, SearchWellFormed
<1> QED
  BY <1>1, SearchInvariance, PTL

\* Whatever file a power cycle leaves, self_restore finds a whole and usable
\* search state in it.
THEOREM FileIsWellFormed == ASSUME NoPriority PROVE Spec => []FileWellFormed
<1>1. ASSUME Sane, Searching, NEW f \in Survivors, f.exists
      PROVE  f.len = Sections /\ WellFormed(f.img.queue, f.img.visited, f.img.ckpts)
  <2>1. IsFile(test, f)
    BY <1>1, SurvivorIsFile DEF Sane
  <2> QED
    BY <1>1, <2>1 DEF IsFile, Good
<1>2. Sane => FileWellFormed
  BY <1>1 DEF FileWellFormed
<1> QED
  BY <1>2, SearchInvariance, PTL

-----------------------------------------------------------------------------
(* Regeneration finds the state that was queued, for harnesses whose         *)
(* checkpoints bring back the signature and that make a choice in every      *)
(* transition                                                                *)

\* Edges that return normally in a state whose signature is in V.
Known(t, V) == {e \in Edges(t) : t.ret[e[1]][e[2]] = "EXIT" /\ t.sig[Target(t, e)] \in V}

\* What restoring checkpoint 0 brings back.
Origin(t) == IF t.stateful THEN t.raw ELSE t.init

\* g is a state with signature k, and the initial one if that is its signature.
Stands(t, g, k) == t.sig[g] = k /\ (k = t.sig[t.raw] => g = Origin(t))

\* The choices of s lead from its checkpoint, through known states, to a state
\* with the signature of s.
Reaches(t, V, c, s) ==
    \E g \in Sys : Stands(t, g, s.sig) /\ Leads(t, Known(t, V), c, s.trace, g)

AllReach(t, q, vis, cks) ==
    \A i \in DOMAIN q : Reaches(t, DOMAIN vis, cks[q[i].start].data, q[i])

FileReaches(t, f) == f.exists => AllReach(t, f.img.queue, f.img.visited, f.img.ckpts)

FilesReach(t, d) == FileReaches(t, d.tmp) /\ FileReaches(t, d.file) /\ FileReaches(t, d.old)

\* The state being expanded is reached in the same way.
Regenerates(t, V, c, cr, s, rs, at) ==
    \E g \in Sys : /\ Stands(t, g, cr.sig) /\ Leads(t, Known(t, V), c, cr.trace, g)
                   /\ at = "regen" => Leads(t, Known(t, V), s, rs, g)
                   /\ at = "run" => s = g

Honest ==
    Searching =>
      /\ AllReach(test, queue, visited, ckpts)
      /\ FilesReach(test, disk)
      /\ pc \in Expanding =>
           Regenerates(test, DOMAIN visited, ckpts[curr.start].data, curr, sys, rest, pc)

\* Known edges are edges, and more of them are known when more is found.
LEMMA KnownFacts ==
    ASSUME NEW t, NEW V, NEW U, V \subseteq U
    PROVE  Known(t, V) \subseteq Edges(t) /\ Known(t, V) \subseteq Known(t, U)
BY DEF Known

\* A state stays reachable when more is known.
LEMMA ReachesMore ==
    ASSUME NEW t, NEW V, NEW U, V \subseteq U, NEW c, NEW s, Reaches(t, V, c, s)
    PROVE  Reaches(t, U, c, s)
<1>1. Known(t, V) \subseteq Known(t, U)
  BY KnownFacts
<1> DEFINE E == Known(t, V)
           F == Known(t, U)
<1>2. PICK g \in Sys : Stands(t, g, s.sig) /\ Leads(t, E, c, s.trace, g)
  BY DEF Reaches
<1> HIDE DEF E, F
<1>3. Leads(t, F, c, s.trace, g)
  BY <1>1, <1>2, LeadsMore DEF E, F
<1> QED
  BY <1>2, <1>3 DEF Reaches, F

\* Only the empty list leads from a state to itself without an edge.
LEMMA LeadsNone ==
    ASSUME NEW t \in Tests, NEW E, E \subseteq Edges(t), NEW h \in Sys, NEW g \in Sys,
           NEW tr \in Seq(Nat), tr = << >>, Leads(t, E, h, tr, g)
    PROVE  g = h
<1>1. ~Splits(t, E, h, tr, g)
  BY DEF Splits
<1> QED
  BY <1>1, LeadsSplit

\* Redoing the same choices from the same state leads to the same state.
LEMMA LeadsUnique ==
    ASSUME NEW t \in Tests, NEW h \in Sys, NEW tr \in Seq(Nat), NEW g \in Sys, NEW k \in Sys,
           Leads(t, Edges(t), h, tr, g), Leads(t, Edges(t), h, tr, k)
    PROVE  k = g
<1> DEFINE E == Edges(t)
           P(x, u, y) == \A z \in Sys : Leads(t, E, x, u, z) => z = y
           R == {w \in Triples : P(w[1], w[2], w[3])}
<1>0. E \subseteq Edges(t)
  OBVIOUS
<1>1. \A x \in Sys, u \in Seq(Nat), y \in Sys : <<x, u, y>> \in R <=> P(x, u, y)
  BY DEF Triples
<1>2. R \in SUBSET Triples
  OBVIOUS
<1>3. ASSUME NEW x \in Sys PROVE <<x, << >>, x>> \in R
  <2> DEFINE u == << >>
  <2>1. u \in Seq(Nat) /\ u = << >>
    OBVIOUS
  <2> HIDE DEF u, E
  <2>2. P(x, u, x)
    BY <1>0, <2>1, LeadsNone
  <2> HIDE DEF P, R
  <2> QED
    BY <1>1, <2>1, <2>2
<1>4. ASSUME NEW e \in E, NEW u \in Seq(Nat), NEW y \in Sys, e[2] \o u # << >>,
             <<Target(t, e), u, y>> \in R
      PROVE  <<e[1], e[2] \o u, y>> \in R
  <2>1. /\ e[1] \in Sys /\ e[2] \in Seq(Nat) /\ Target(t, e) \in Sys
        /\ e[2] \in DOMAIN t.tree[e[1]] /\ t.tree[e[1]][e[2]] = 0
    BY HarnessFacts DEF Edges
  <2>2. P(Target(t, e), u, y)
    BY <1>1, <1>4, <2>1
  <2> DEFINE v == e[2] \o u
  <2>3. v \in Seq(Nat) /\ v # << >> /\ CanReplay(e[2], v) /\ Replayed(e[2], v) = u
    BY <1>4, <2>1, ReplayPrefix
  <2> HIDE DEF v, E
  <2>4. ASSUME NEW z \in Sys, Leads(t, E, e[1], v, z) PROVE z = y
    <3>1. Leads(t, E, t.to[e[1]][e[2]], Replayed(e[2], v), z)
      BY <1>0, <2>1, <2>3, <2>4, ReplayStep
    <3> QED
      BY <2>2, <2>3, <3>1 DEF Target
  <2>5. P(e[1], v, y)
    BY <2>4
  <2> HIDE DEF P, R
  <2> QED
    BY <1>1, <2>1, <2>3, <2>5 DEF v
<1> HIDE DEF R, P
<1>5. Closed(t, E, R)
  BY <1>3, <1>4 DEF Closed
<1>6. P(h, tr, g)
  BY <1>1, <1>2, <1>5 DEF Leads
<1> QED
  BY <1>6 DEF P

\* There is nothing to regenerate at first.
LEMMA HonestInit == ASSUME Init PROVE Honest
<1>1. queue = << >> /\ disk = [tmp |-> NoFile, file |-> NoFile, old |-> NoFile] /\ pc = "start"
  BY DEF Init
<1> QED
  BY <1>1 DEF Honest, AllReach, FilesReach, FileReaches, NoFile, Expanding, Returned

\* Nothing of it is about the other variables.
LEMMA HonestStutter == ASSUME Honest, UNCHANGED vars PROVE Honest'
<1>1. /\ test' = test /\ sys' = sys /\ queue' = queue /\ visited' = visited /\ ckpts' = ckpts
      /\ disk' = disk /\ curr' = curr /\ rest' = rest /\ pc' = pc
  BY DEF vars, search
<1> QED
  BY <1>1 DEF Honest, Searching

\* The initial state is the one that restoring checkpoint 0 brings back.
LEMMA HonestStart == ASSUME \A t \in Tests : Faithful(t), Sane, Honest, Start PROVE Honest'
<1>1. /\ pc = "start" /\ pc' = "loop" /\ test' = test /\ disk' = disk /\ Searching
  BY DEF Start, Searching, Replaying
<1>2. test \in Tests /\ sys = test.raw /\ queue = << >> /\ visited = << >> /\ ckpts = << >>
  BY <1>1 DEF Sane
<1> DEFINE s == [id |-> 0, start |-> 0, sig |-> test.sig[sys], trace |-> << >>]
           c == [data |-> Saved(sys), parent_id |-> 0, trace |-> << >>]
<1>3. queue' = <<s>> /\ ckpts' = With(<< >>, 0, c)
  BY <1>2 DEF Start
<1>4. s.start = 0 /\ s.sig = test.sig[test.raw] /\ s.trace = << >> /\ c.data = Saved(test.raw)
  BY <1>2
<1> HIDE DEF s, c
<1>5. DOMAIN queue' = {1} /\ queue'[1] = s /\ ckpts'[0] = c
  <2>1. DOMAIN queue' = {1} /\ queue'[1] = s
    BY <1>3
  <2>2. ckpts'[0] = c
    BY <1>3 DEF With
  <2> QED
    BY <2>1, <2>2
<1>6. Saved(test.raw) \in Sys /\ test.sig[Saved(test.raw)] = test.sig[test.raw]
  BY <1>2, HarnessFacts DEF Faithful, Saved
<1>7. Leads(test, Known(test, DOMAIN visited'), Saved(test.raw), << >>, Saved(test.raw))
  BY <1>6, LeadsNil
<1>8. Reaches(test, DOMAIN visited', ckpts'[s.start].data, s)
  BY <1>4, <1>5, <1>6, <1>7 DEF Reaches, Stands, Origin, Saved
<1>9. AllReach(test, queue', visited', ckpts')
  BY <1>5, <1>8 DEF AllReach
<1> QED
  BY <1>1, <1>9 DEF Honest, Expanding, Returned

\* The top of the loop changes nothing.
LEMMA HonestLoop == ASSUME Honest, Loop PROVE Honest'
<1>1. /\ pc = "loop" /\ pc' \in {"ended", "save_loop", "dequeue"}
      /\ test' = test /\ disk' = disk /\ Searching
      /\ queue' = queue /\ visited' = visited /\ ckpts' = ckpts
  BY DEF Loop, Searching, Replaying, search
<1> QED
  BY <1>1 DEF Honest, Expanding, Returned

\* sync() makes the new directory entry the durable one.
LEMMA TellReaches == ASSUME DiskOK(test, disk), FilesReach(test, disk), TellMonitor PROVE FilesReach(test, disk')
BY DEF TellMonitor, FilesReach, DiskOK

\* The state that is taken from the queue is regenerated as it was there.
LEMMA HonestDequeue == ASSUME Sane, Honest, Dequeue PROVE Honest'
<1>1. /\ pc = "dequeue" /\ pc' = "set" /\ test' = test /\ Searching
      /\ visited' = visited /\ ckpts' = ckpts /\ curr' = Head(queue) /\ queue' = Tail(queue)
  BY DEF Dequeue, Searching, Replaying
<1>2. Good(test, queue, visited, ckpts) /\ queue # << >> /\ AllReach(test, queue, visited, ckpts)
  BY <1>1 DEF Sane, Honest
<1>3. FilesReach(test, disk')
  BY <1>1, TellReaches DEF Sane, Honest, Dequeue
<1>4. /\ curr' = queue[1] /\ 1 \in DOMAIN queue
      /\ \A i \in DOMAIN queue' : queue'[i] = queue[i + 1] /\ i + 1 \in DOMAIN queue
  BY <1>1, <1>2, TakeQueued
<1>5. AllReach(test, queue', visited', ckpts')
  BY <1>1, <1>2, <1>4 DEF AllReach
<1>6. Reaches(test, DOMAIN visited, ckpts[curr'.start].data, curr')
  BY <1>2, <1>4 DEF AllReach
<1>7. Regenerates(test, DOMAIN visited, ckpts[curr'.start].data, curr', sys', rest', "set")
  BY <1>6 DEF Reaches, Regenerates
<1> QED
  BY <1>1, <1>3, <1>5, <1>7 DEF Honest

\* Regeneration begins at the checkpoint.
LEMMA HonestSetState == ASSUME Sane, Honest, SetState PROVE Honest'
<1>1. /\ pc = "set" /\ pc' = (IF curr.trace = << >> THEN "run" ELSE "regen")
      /\ test' = test /\ Searching /\ disk' = disk /\ curr' = curr
      /\ queue' = queue /\ visited' = visited /\ ckpts' = ckpts
      /\ sys' = ckpts[curr.start].data /\ rest' = curr.trace
  BY DEF SetState, Searching, Replaying, search
<1> DEFINE E == Known(test, DOMAIN visited)
           c == ckpts[curr.start].data
<1>2. /\ test \in Tests /\ c \in Sys /\ curr.trace \in Seq(Nat)
      /\ AllReach(test, queue, visited, ckpts) /\ FilesReach(test, disk)
      /\ Regenerates(test, DOMAIN visited, c, curr, sys, rest, "set")
  BY <1>1 DEF Sane, Honest, Expanding, Good, CkptRecords, StateRecords
<1>3. PICK g \in Sys : Stands(test, g, curr.sig) /\ Leads(test, E, c, curr.trace, g)
  BY <1>2 DEF Regenerates
<1>4. E \subseteq Edges(test)
  BY KnownFacts
<1> HIDE DEF E, c
<1>5. curr.trace = << >> => g = c
  BY <1>2, <1>3, <1>4, LeadsNone
<1>6. Regenerates(test, DOMAIN visited, c, curr, sys', rest', pc')
  BY <1>1, <1>3, <1>5 DEF Regenerates, E, c
<1> QED
  BY <1>1, <1>2, <1>6 DEF Honest, c

\* The next choices belong to an edge that leads to a known state: no assertion
\* of the regeneration fails.
LEMMA RegenFinds ==
    ASSUME Sane, Honest, pc = "regen"
    PROVE  \E p \in Leaves(sys), g \in Sys :
             /\ CanReplay(p, rest)
             /\ \A q \in Leaves(sys) : CanReplay(q, rest) => q = p
             /\ test.ret[sys][p] = "EXIT" /\ test.sig[test.to[sys][p]] \in DOMAIN visited
             /\ Replayed(p, rest) \in Seq(Nat) /\ test.to[sys][p] \in Sys
             /\ Stands(test, g, curr.sig)
             /\ Leads(test, Known(test, DOMAIN visited), ckpts[curr.start].data, curr.trace, g)
             /\ Leads(test, Known(test, DOMAIN visited), test.to[sys][p], Replayed(p, rest), g)
<1> DEFINE E == Known(test, DOMAIN visited)
           c == ckpts[curr.start].data
<1>1. Searching /\ pc \in Expanding
  BY DEF Searching, Replaying, Expanding
<1>2. test \in Tests /\ sys \in Sys /\ rest \in Seq(Nat) /\ rest # << >>
  BY <1>1 DEF Sane, Course
<1>3. PICK g \in Sys : /\ Stands(test, g, curr.sig) /\ Leads(test, E, c, curr.trace, g)
                       /\ Leads(test, E, sys, rest, g)
  BY <1>1 DEF Honest, Regenerates
<1>4. E \subseteq Edges(test) /\ \A e \in E : test.ret[e[1]][e[2]] = "EXIT" /\ test.sig[Target(test, e)] \in DOMAIN visited
  BY DEF Known
<1> HIDE DEF E, c
<1>5. PICK p \in DOMAIN test.tree[sys] : test.tree[sys][p] = 0 /\ CanReplay(p, rest)
  BY <1>2, <1>3, <1>4, ReplayFinds
<1>6. <<sys, p>> \in E /\ Leads(test, E, test.to[sys][p], Replayed(p, rest), g)
  BY <1>2, <1>3, <1>4, <1>5, ReplayStep
<1>7. test.ret[sys][p] = "EXIT" /\ test.sig[test.to[sys][p]] \in DOMAIN visited
  BY <1>4, <1>6 DEF Target
<1>8. p \in Leaves(sys) /\ p \in Seq(Nat) /\ IsTree(test.tree[sys]) /\ test.to[sys][p] \in Sys
  BY <1>2, <1>5, HarnessFacts DEF Leaves
<1>9. Replayed(p, rest) \in Seq(Nat)
  BY <1>2, <1>5, <1>8, RestAfter
<1>10. \A q \in Leaves(sys) : CanReplay(q, rest) => q = p
  BY <1>2, <1>5, <1>8, OneLeaf DEF Leaves
<1> QED
  BY <1>3, <1>5, <1>6, <1>7, <1>8, <1>9, <1>10 DEF E, c

\* The replayed transition is found, returns normally and leads to a known state.
LEMMA HonestRegen == ASSUME Sane, Honest, Regen PROVE Honest' /\ pc' # "panic"
<1>1. /\ pc = "regen" /\ test' = test /\ Searching /\ disk' = disk /\ curr' = curr
      /\ queue' = queue /\ visited' = visited /\ ckpts' = ckpts
  BY DEF Regen, Searching, Replaying, search
<1> DEFINE E == Known(test, DOMAIN visited)
           c == ckpts[curr.start].data
<1>2. PICK p \in Leaves(sys), g \in Sys :
        /\ CanReplay(p, rest)
        /\ \A q \in Leaves(sys) : CanReplay(q, rest) => q = p
        /\ test.ret[sys][p] = "EXIT" /\ test.sig[test.to[sys][p]] \in DOMAIN visited
        /\ Replayed(p, rest) \in Seq(Nat) /\ test.to[sys][p] \in Sys
        /\ Stands(test, g, curr.sig) /\ Leads(test, E, c, curr.trace, g)
        /\ Leads(test, E, test.to[sys][p], Replayed(p, rest), g)
  BY <1>1, RegenFinds
<1>3. (CHOOSE q \in Leaves(sys) : CanReplay(q, rest)) = p
  BY <1>2
<1>4. /\ sys' = test.to[sys][p] /\ rest' = Replayed(p, rest)
      /\ pc' = IF rest' = << >> THEN "run" ELSE "regen"
  BY <1>2, <1>3 DEF Regen
<1>5. E \subseteq Edges(test) /\ test \in Tests
  BY KnownFacts DEF Sane
<1> HIDE DEF E, c
<1>6. rest' = << >> => g = sys'
  BY <1>2, <1>4, <1>5, LeadsNone
<1>7. Regenerates(test, DOMAIN visited, c, curr, sys', rest', pc')
  BY <1>2, <1>4, <1>6 DEF Regenerates, E
<1> QED
  BY <1>1, <1>4, <1>7 DEF Honest, c

\* A choice point does not change the state it is in.
LEMMA HonestChoose == ASSUME Honest, Choose PROVE Honest'
<1>1. /\ pc = "run" /\ pc' = "run" /\ test' = test /\ Searching /\ disk' = disk /\ curr' = curr
      /\ queue' = queue /\ visited' = visited /\ ckpts' = ckpts /\ sys' = sys /\ rest' = rest
  BY DEF Choose, Searching, Replaying, search
<1> QED
  BY <1>1 DEF Honest

\* The recorded choices of a new state lead to it.
LEMMA ReachedReaches ==
    ASSUME test \in Tests, Faithful(test), sys \in Sys, curr.trace \in Seq(Nat),
           NEW c \in Sys, NEW V, Leads(test, Known(test, V), c, curr.trace, sys),
           node \in DOMAIN test.tree[sys], test.tree[sys][node] = 0, test.ret[sys][node] = "EXIT",
           node = rand.choices, test.sig[test.to[sys][node]] \in V,
           test.sig[test.to[sys][node]] # test.sig[test.raw]
    PROVE  Reaches(test, V, IF test.to[sys][node] \in test.save THEN Saved(test.to[sys][node]) ELSE c,
                   Reached(test.to[sys][node]))
<1> DEFINE h == test.to[sys][node]
           E == Known(test, V)
           s == Reached(h)
<1>1. h \in Sys /\ node \in Seq(Nat) /\ node # << >>
  BY HarnessFacts DEF Faithful
<1>2. s.sig = test.sig[h]
  BY DEF Reached
<1>3. CASE h \in test.save
  <2>1. s.trace = << >> /\ Saved(h) \in Sys /\ test.sig[Saved(h)] = test.sig[h]
    BY <1>1, <1>3, HarnessFacts DEF Reached, Saved, Faithful
  <2>2. Leads(test, E, Saved(h), << >>, Saved(h))
    BY <2>1, LeadsNil, SMTT(30)
  <2> HIDE DEF s, h
  <2>3. Reaches(test, V, Saved(h), s)
    BY <1>2, <2>1, <2>2 DEF Reaches, Stands, h
  <2> QED
    BY <1>3, <2>3 DEF s, h
<1>4. CASE h \notin test.save
  <2>1. s.trace = curr.trace \o node
    BY <1>4 DEF Reached
  <2>2. <<sys, node>> \in E /\ E \subseteq Edges(test)
    BY <1>1 DEF Known, Edges, Target
  <2> HIDE DEF s, E
  <2>3. Leads(test, E, c, curr.trace \o node, test.to[sys][node])
    BY <1>1, <2>2, LeadsBack DEF E
  <2> HIDE DEF h
  <2>4. Reaches(test, V, c, s)
    BY <1>1, <1>2, <2>1, <2>3 DEF Reaches, Stands, E, h
  <2> QED
    BY <1>4, <2>4 DEF s, h
<1> QED
  BY <1>3, <1>4

\* After a normal return the queue can still be regenerated.
LEMMA ExitedReaches ==
    ASSUME NoPriority, test \in Tests, Faithful(test), Good(test, queue, visited, ckpts),
           AllReach(test, queue, visited, ckpts), sys \in Sys,
           curr \in StateRecords(test), curr.start \in DOMAIN ckpts, rand.choices \in Seq(Nat),
           Leads(test, Known(test, DOMAIN visited), ckpts[curr.start].data, curr.trace, sys),
           node \in DOMAIN test.tree[sys], test.tree[sys][node] = 0, test.ret[sys][node] = "EXIT",
           node = rand.choices, Exited(test.to[sys][node])
    PROVE  /\ AllReach(test, queue', visited', ckpts')
           /\ DOMAIN visited \subseteq DOMAIN visited'
<1> DEFINE h == test.to[sys][node]
<1>0. h \in Sys
  BY HarnessFacts
<1>1. CASE ~IsNew(h)
  <2>1. queue' = queue /\ visited' = visited /\ ckpts' = ckpts
    BY <1>1 DEF Exited
  <2> QED
    BY <2>1
<1>2. CASE IsNew(h)
  <2> DEFINE n == NumStates
             s == Reached(h)
             U == DOMAIN visited'
             c == ckpts[curr.start].data
  <2>1. /\ visited' = With(visited, test.sig[h], n) /\ ckpts' = Checkpointed(h)
        /\ queue' = queue \/ queue' \in Pushed(queue, s)
    BY <1>2, SMTT(30) DEF Exited
  <2>2. DOMAIN visited \subseteq U /\ test.sig[h] \in U
    BY <2>1 DEF With
  <2>o. test.sig[h] # test.sig[test.raw]
    <3>1. curr.start \in Range(visited)
      BY DEF Good, WellFormed
    <3>2. test.sig[test.raw] \in DOMAIN visited
      BY <3>1 DEF Good, Range
    <3> QED
      BY <1>2, <3>2 DEF IsNew, NoPriority
  <2>3. n \notin DOMAIN ckpts
    <3>1. DOMAIN ckpts \subseteq 0 .. (n - 1) /\ n \in Nat
      BY FS_CardinalityType DEF Good, WellFormed, NumStates
    <3> QED
      BY <3>1
  <2>4. \A x \in DOMAIN ckpts : ckpts'[x] = ckpts[x]
    BY <2>1, <2>3 DEF Checkpointed, With
  <2>5. ckpts'[s.start].data = IF h \in test.save THEN Saved(h) ELSE c
    <3>1. CASE h \in test.save
      BY <2>1, <3>1 DEF Checkpointed, With, Reached
    <3>2. CASE h \notin test.save
      BY <2>4, <3>2 DEF Reached
    <3> QED
      BY <3>1, <3>2
  <2>6. Reaches(test, U, ckpts'[s.start].data, s)
    <3>1. Leads(test, Known(test, U), c, curr.trace, sys)
      BY <2>2, KnownFacts, LeadsMore
    <3>2. c \in Sys /\ curr.trace \in Seq(Nat)
      BY DEF Good, CkptRecords, StateRecords
    <3> HIDE DEF c, U
    <3>3. Reaches(test, U, IF h \in test.save THEN Saved(h) ELSE c, s)
      BY <2>2, <2>o, <3>1, <3>2, ReachedReaches
    <3> QED
      BY <2>5, <3>3
  <2> HIDE DEF s, U, h, n
  <2>7. \A i \in DOMAIN queue : Reaches(test, U, ckpts'[queue[i].start].data, queue[i])
    <3> SUFFICES ASSUME NEW i \in DOMAIN queue
                 PROVE  Reaches(test, U, ckpts'[queue[i].start].data, queue[i])
      OBVIOUS
    <3>1. queue[i].start \in DOMAIN ckpts
      BY DEF Good, WellFormed
    <3>2. Reaches(test, DOMAIN visited, ckpts[queue[i].start].data, queue[i])
      BY DEF AllReach
    <3>3. Reaches(test, U, ckpts[queue[i].start].data, queue[i])
      BY <2>2, <3>2, ReachesMore
    <3> QED
      BY <2>4, <3>1, <3>3
  <2>8. \A i \in DOMAIN queue' : queue'[i] = s \/ \E j \in DOMAIN queue : queue'[i] = queue[j]
    <3>1. queue' = queue \/ queue' = Append(queue, s) \/ queue' = <<s>> \o queue
      <4>1. test.queue \in {"bfs", "dfs"}
        BY HarnessFacts DEF NoPriority
      <4> QED
        BY <2>1, <4>1 DEF Pushed
    <3>2. queue \in Seq(StateRecords(test)) /\ s \in StateRecords(test) \cup {s}
      BY DEF Good
    <3>3. \A q2 : (q2 = queue \/ q2 = Append(queue, s) \/ q2 = <<s>> \o queue) =>
            \A i \in DOMAIN q2 : q2[i] = s \/ \E j \in DOMAIN queue : q2[i] = queue[j]
      BY <3>2, QueueElements
    <3> QED
      BY <3>1, <3>3
  <2>9. AllReach(test, queue', visited', ckpts')
    BY <2>6, <2>7, <2>8 DEF AllReach, U
  <2> QED
    BY <2>2, <2>9 DEF U
<1> QED
  BY <1>1, <1>2

\* The state being expanded stays reachable when more is known.
LEMMA RegeneratesMore ==
    ASSUME NEW t, NEW V, NEW U, V \subseteq U, NEW c, NEW cr, NEW s, NEW rs, NEW at,
           Regenerates(t, V, c, cr, s, rs, at), NEW s2, NEW rs2, NEW bt \in Returned
    PROVE  Regenerates(t, U, c, cr, s2, rs2, bt)
<1> DEFINE E == Known(t, V)
           F == Known(t, U)
<1>1. E \subseteq F
  BY KnownFacts
<1>2. PICK g \in Sys : Stands(t, g, cr.sig) /\ Leads(t, E, c, cr.trace, g)
  BY DEF Regenerates
<1> HIDE DEF E, F
<1>3. Leads(t, F, c, cr.trace, g)
  BY <1>1, <1>2, LeadsMore
<1> QED
  BY <1>2, <1>3 DEF Regenerates, F, Returned

\* A transition returns, and a new state is queued.
LEMMA HonestReturn ==
    ASSUME NoPriority, \A t \in Tests : Faithful(t), Sane, Honest, Return
    PROVE  Honest'
<1>1. /\ pc = "run" /\ test' = test /\ Searching /\ disk' = disk /\ curr' = curr /\ rand' = rand
      /\ rest' = rest /\ node' = node /\ test.tree[sys][node] = 0 /\ sys' = test.to[sys][node]
  BY DEF Return, Searching, Replaying
<1> DEFINE c == ckpts[curr.start].data
<1>2. /\ test \in Tests /\ Faithful(test) /\ sys \in Sys /\ Good(test, queue, visited, ckpts)
      /\ curr \in StateRecords(test) /\ curr.start \in DOMAIN ckpts
      /\ Course(test, c, curr.trace, sys, rest, node, rand, "run")
      /\ AllReach(test, queue, visited, ckpts) /\ FilesReach(test, disk)
      /\ Regenerates(test, DOMAIN visited, c, curr, sys, rest, "run")
  BY <1>1 DEF Sane, Honest, Expanding
<1>3. node \in DOMAIN test.tree[sys] /\ node = rand.choices /\ rand.choices \in Seq(Nat)
  <2>1. Course(test, c, curr.trace, sys, rest, node, rand, "run")
    BY <1>2
  <2> HIDE DEF c
  <2>2. /\ node \in DOMAIN test.tree[sys] /\ node = rand.choices /\ rand.choices \in Seq(Nat)
        /\ Leads(test, Edges(test), c, curr.trace, sys)
        /\ \A h, x, y, at : at \in Returned => Course(test, c, curr.trace, h, x, y, rand, at)
    BY <1>1, <1>2, <2>1, CourseReturns
  <2> QED
    BY <2>2
<1>4. Leads(test, Known(test, DOMAIN visited), c, curr.trace, sys)
  BY <1>2 DEF Regenerates
<1>5. sys' \in Sys
  BY <1>1, <1>2, <1>3, HarnessFacts
<1>6. /\ AllReach(test, queue', visited', ckpts') /\ DOMAIN visited \subseteq DOMAIN visited'
      /\ ckpts'[curr.start] = ckpts[curr.start]
      /\ pc' \in {"stopped", "after_new", "after", "save_restart"}
  <2>1. CASE test.ret[sys][node] = "EXIT" /\ Exited(sys')
    <3>1. AllReach(test, queue', visited', ckpts') /\ DOMAIN visited \subseteq DOMAIN visited'
      BY <1>1, <1>2, <1>3, <1>4, <2>1, ExitedReaches
    <3>2. ckpts'[curr.start] = ckpts[curr.start] /\ pc' \in {"stopped", "after_new"}
      BY <1>2, <1>3, <1>5, <2>1, ExitedIsGood
    <3> QED
      BY <3>1, <3>2
  <2>2. CASE (pc' = "after" /\ UNCHANGED <<search, traces>>) \/ Bug \/ Abort
    BY <1>2, <2>2 DEF search, Bug, Abort
  <2> QED
    BY <2>1, <2>2 DEF Return
<1>7. CASE pc' = "stopped"
  BY <1>1, <1>2, <1>6, <1>7 DEF Honest, Expanding, Returned
<1>8. CASE pc' # "stopped"
  <2>1. pc' \in Returned
    BY <1>6, <1>8 DEF Returned
  <2>2. Regenerates(test, DOMAIN visited', c, curr, sys', rest', pc')
    BY <1>2, <1>6, <2>1, RegeneratesMore
  <2> QED
    BY <1>1, <1>2, <1>6, <2>2 DEF Honest
<1> QED
  BY <1>7, <1>8

\* A step that changes neither the search nor the execution.
LEMMA HonestStays ==
    ASSUME Honest, Searching, pc \in Returned, pc' \in Returned \cup {"stopped", "dead", "loop", "set"},
           test' = test, sys' = sys, queue' = queue, visited' = visited, ckpts' = ckpts,
           curr' = curr, rest' = rest, FilesReach(test, disk')
    PROVE  Honest'
<1>1. /\ AllReach(test, queue, visited, ckpts)
      /\ Regenerates(test, DOMAIN visited, ckpts[curr.start].data, curr, sys, rest, pc)
  BY DEF Honest, Expanding
<1>2. CASE pc' \in Returned
  <2>1. Regenerates(test, DOMAIN visited, ckpts[curr.start].data, curr, sys, rest, pc')
    BY <1>1, <1>2, RegeneratesMore
  <2> QED
    BY <1>1, <2>1 DEF Honest
<1>3. CASE pc' \in {"stopped", "dead", "loop"}
  BY <1>1, <1>3 DEF Honest, Expanding, Returned
<1>4. CASE pc' = "set"
  <2>1. Regenerates(test, DOMAIN visited, ckpts[curr.start].data, curr, sys, rest, "set")
    BY <1>1 DEF Regenerates
  <2> QED
    BY <1>1, <1>4, <2>1 DEF Honest
<1> QED
  BY <1>2, <1>3, <1>4

\* The hooks after a transition and repeat() change nothing of it.
LEMMA HonestAfter == ASSUME Honest, AfterNew \/ AfterTransitions \/ RepeatChoices PROVE Honest'
<1>1. pc \in Returned /\ Searching
  BY DEF AfterNew, AfterTransitions, RepeatChoices, Returned, Searching, Replaying
<1>2. /\ test' = test /\ sys' = sys /\ queue' = queue /\ visited' = visited /\ ckpts' = ckpts
      /\ curr' = curr /\ rest' = rest /\ disk' = disk
      /\ pc' \in Returned \cup {"stopped", "dead", "loop", "set"}
  BY DEF AfterNew, AfterTransitions, RepeatChoices, search, Bug, Abort, Returned
<1>3. FilesReach(test, disk')
  BY <1>1, <1>2 DEF Honest
<1> QED
  BY <1>1, <1>2, <1>3, HonestStays

\* self_checkpoint saves a search that can be regenerated.
LEMMA HonestSave ==
    ASSUME Sane, Honest, SaveOpen \/ SaveWrite \/ SaveSync
    PROVE  Honest'
<1>1. /\ pc \in {"save_loop", "save_restart"} /\ Searching
  BY DEF SaveOpen, SaveWrite, SaveSync, Saving, Searching, Replaying
<1>2. /\ test' = test /\ sys' = sys /\ queue' = queue /\ visited' = visited /\ ckpts' = ckpts
      /\ curr' = curr /\ rest' = rest /\ pc' = pc
  BY DEF SaveOpen, SaveWrite, SaveSync, search
<1>3. /\ DOMAIN disk = {"tmp", "file", "old"} /\ IsTmp(test, disk.tmp)
      /\ FilesReach(test, disk) /\ AllReach(test, queue, visited, ckpts)
  BY <1>1 DEF Sane, Honest, DiskOK
<1>4. FilesReach(test, disk')
  <2>1. CASE SaveOpen
    <3> DEFINE f == [exists |-> TRUE, img |-> Image, len |-> 0, synced |-> FALSE]
    <3>1. disk' = [disk EXCEPT !.tmp = f]
      BY <2>1 DEF SaveOpen
    <3>2. FileReaches(test, f)
      BY <1>3 DEF FileReaches, Image
    <3> HIDE DEF f
    <3> QED
      BY <1>3, <3>1, <3>2 DEF FilesReach
  <2>2. CASE SaveWrite \/ SaveSync
    <3>1. PICK f : disk' = [disk EXCEPT !.tmp = f] /\ f.exists = disk.tmp.exists /\ f.img = disk.tmp.img
      <4>1. CASE SaveWrite
        <5> DEFINE f == [disk.tmp EXCEPT !.len = @ + 1]
        <5>1. disk' = [disk EXCEPT !.tmp = f]
          BY <1>3, <4>1 DEF SaveWrite
        <5>2. f.exists = disk.tmp.exists /\ f.img = disk.tmp.img
          BY <1>3 DEF IsTmp
        <5> QED
          BY <5>1, <5>2
      <4>2. CASE SaveSync
        <5> DEFINE f == [disk.tmp EXCEPT !.synced = TRUE]
        <5>1. disk' = [disk EXCEPT !.tmp = f]
          BY <1>3, <4>2 DEF SaveSync
        <5>2. f.exists = disk.tmp.exists /\ f.img = disk.tmp.img
          BY <1>3 DEF IsTmp
        <5> QED
          BY <5>1, <5>2
      <4> QED
        BY <2>2, <4>1, <4>2
    <3> QED
      BY <1>3, <3>1 DEF FilesReach, FileReaches
  <2> QED
    BY <2>1, <2>2
<1> QED
  BY <1>1, <1>2, <1>4 DEF Honest

\* The new file is put in place, or was never written.
LEMMA HonestSaved == ASSUME Sane, Honest, SaveRename \/ SaveOpenFails PROVE Honest'
<1>1. /\ pc \in {"save_loop", "save_restart"} /\ Searching /\ pc' = AfterSave
  BY DEF SaveRename, SaveOpenFails, Saving, Searching, Replaying
<1>2. /\ test' = test /\ sys' = sys /\ queue' = queue /\ visited' = visited /\ ckpts' = ckpts
      /\ curr' = curr /\ rest' = rest
  BY DEF SaveRename, SaveOpenFails, search
<1>3. DOMAIN disk = {"tmp", "file", "old"} /\ FilesReach(test, disk)
  BY <1>1 DEF Sane, Honest, DiskOK
<1>4. FilesReach(test, disk')
  <2>1. CASE SaveRename
    <3>1. disk' = [disk EXCEPT !.file = disk.tmp, !.tmp = NoFile]
      BY <2>1 DEF SaveRename
    <3>2. FileReaches(test, NoFile)
      BY DEF FileReaches, NoFile
    <3> QED
      BY <1>3, <3>1, <3>2 DEF FilesReach
  <2>2. CASE SaveOpenFails
    BY <1>3, <2>2 DEF SaveOpenFails
  <2> QED
    BY <2>1, <2>2
<1>5. CASE pc = "save_loop"
  BY <1>1, <1>2, <1>4, <1>5 DEF Honest, AfterSave, Expanding, Returned
<1>6. CASE pc = "save_restart"
  <2>1. pc \in Returned /\ pc' \in Returned
    BY <1>1, <1>6 DEF AfterSave, Returned
  <2> QED
    BY <1>1, <1>2, <1>4, <2>1, HonestStays
<1> QED
  BY <1>1, <1>5, <1>6

\* The monitor is told.
LEMMA HonestTell == ASSUME Sane, Honest, Tell PROVE Honest'
<1>1. pc \in Returned /\ pc' \in Returned /\ Searching
  BY DEF Tell, Returned, Searching, Replaying
<1>2. /\ test' = test /\ sys' = sys /\ queue' = queue /\ visited' = visited /\ ckpts' = ckpts
      /\ curr' = curr /\ rest' = rest
  BY DEF Tell, search
<1>3. FilesReach(test, disk')
  BY <1>1, TellReaches DEF Tell, Sane, Honest
<1> QED
  BY <1>1, <1>2, <1>3, HonestStays

\* A fault changes nothing of it.
LEMMA HonestFault == ASSUME Honest, ScheduleRestart \/ Crash PROVE Honest'
<1>1. /\ test' = test /\ sys' = sys /\ queue' = queue /\ visited' = visited /\ ckpts' = ckpts
      /\ curr' = curr /\ rest' = rest /\ disk' = disk
  BY DEF ScheduleRestart, Crash, search
<1>2. Searching /\ pc' \in {pc, "dead"}
  BY DEF ScheduleRestart, Crash, Searching, Finished, Replaying
<1> QED
  BY <1>1, <1>2 DEF Honest, Searching, Replaying, Expanding, Returned

\* The search that a reboot loads can be regenerated.
LEMMA HonestReboot == ASSUME Sane, Honest, Reboot PROVE Honest' /\ pc' # "panic"
<1>1. test' = test
  BY DEF Reboot
<1>2. Searching
  BY DEF Reboot, Searching, Finished, Replaying
<1>3. PICK f \in Survivors :
        /\ disk' = [tmp |-> NoFile, file |-> f, old |-> f]
        /\ IF f.exists /\ f.len = Sections
           THEN /\ queue' = f.img.queue /\ visited' = f.img.visited
                /\ ckpts' = f.img.ckpts /\ bugs' = f.img.bugs
           ELSE queue' = << >> /\ visited' = << >> /\ ckpts' = << >> /\ bugs' = 0
        /\ pc' = IF ~f.exists THEN "start" ELSE IF f.len = Sections THEN "loop" ELSE "panic"
  BY DEF Reboot
<1>4. DiskOK(test, disk) /\ FilesReach(test, disk)
  BY <1>2 DEF Sane, Honest
<1>5. IsFile(test, f)
  BY <1>4, SurvivorIsFile
<1>6. f \in {disk.old, disk.file}
  BY <1>4 DEF Survivors, DiskOK, IsFile
<1>7. FileReaches(test, f) /\ FileReaches(test, NoFile)
  BY <1>4, <1>6 DEF FilesReach, FileReaches, NoFile
<1>8. FilesReach(test, disk')
  BY <1>3, <1>7 DEF FilesReach
<1>9. CASE f.exists
  <2>1. f.len = Sections /\ AllReach(test, queue', visited', ckpts') /\ pc' = "loop"
    BY <1>3, <1>5, <1>7, <1>9 DEF IsFile, FileReaches
  <2> QED
    BY <1>1, <1>8, <2>1 DEF Honest, Expanding, Returned
<1>10. CASE ~f.exists
  <2>1. queue' = << >> /\ pc' = "start"
    BY <1>3, <1>10
  <2>2. AllReach(test, queue', visited', ckpts')
    BY <2>1 DEF AllReach
  <2> QED
    BY <1>1, <1>8, <2>1, <2>2 DEF Honest, Expanding, Returned
<1> QED
  BY <1>9, <1>10

\* Every step keeps the second part of the invariant.
LEMMA HonestNext ==
    ASSUME NoPriority, \A t \in Tests : Faithful(t), Sane, Honest, [Next]_vars
    PROVE  Honest'
<1>1. CASE Step
  BY <1>1, HonestStart, HonestLoop, HonestDequeue, HonestSetState, HonestRegen, HonestChoose,
     HonestReturn, HonestAfter, HonestSave, HonestSaved, HonestTell DEF Step
<1>2. CASE Fault
  BY <1>2, HonestFault, HonestSaved DEF Fault
<1>3. CASE Replay
  BY <1>3, SaneReplay DEF Honest
<1> QED
  BY <1>1, <1>2, <1>3, HonestReboot, HonestStutter DEF Next

\* What makes regeneration work (Honest) holds throughout: whatever is queued,
\* in memory or in a file a crash can leave, is reached from its checkpoint by
\* its choices through states that the same search knows.
THEOREM RegenerationInvariance ==
    ASSUME NoPriority, \A t \in Tests : Faithful(t)
    PROVE  Spec => [](Sane /\ Honest)
<1>1. Init => Sane /\ Honest
  BY SaneInit, HonestInit
<1>2. Sane /\ Honest /\ [Next]_vars => (Sane /\ Honest)'
  BY SaneNext, HonestNext
<1> QED
  BY <1>1, <1>2, PTL DEF Spec

\* Restoring the checkpoint of a queued state and redoing its choices
\* (ModelChecker::set_state) brings the system back to a state with its
\* signature, however much was executed, saved and rebooted in between.
THEOREM StatesAreRegenerated ==
    ASSUME NoPriority, \A t \in Tests : Faithful(t)
    PROVE  Spec => []Regenerated
<1>1. Sane /\ Honest => Regenerated
  BY DEF Honest, Regenerates, Regenerated, Stands, Searching, Replaying, Expanding
<1> QED
  BY <1>1, RegenerationInvariance, PTL

\* No assertion of the search fails (set_state, process_test_return in
\* MODE_REGEN_STATE, self_restore), as long as no trace file is replayed.
THEOREM SearchDoesNotPanic ==
    ASSUME NoPriority, \A t \in Tests : Faithful(t)
    PROVE  Init /\ [][Step \/ Fault \/ Reboot]_vars => []NoPanic
<1> DEFINE Inv == Sane /\ Honest /\ NoPanic
<1>1. Init => Inv
  BY SaneInit, HonestInit DEF Init, NoPanic
<1>2. Inv /\ [Step \/ Fault \/ Reboot]_vars => Inv'
  <2> SUFFICES ASSUME Sane, Honest, NoPanic, [Step \/ Fault \/ Reboot]_vars PROVE Inv'
    OBVIOUS
  <2>1. Sane' /\ Honest'
    BY SaneNext, HonestNext DEF Next
  <2>2. pc' # "panic"
    <3>1. CASE UNCHANGED vars
      BY <3>1 DEF vars, NoPanic
    <3>2. CASE Regen \/ Reboot
      BY <3>2, HonestRegen, HonestReboot
    <3>3. CASE Start \/ Loop \/ Dequeue \/ SetState \/ Choose
      BY <3>3 DEF Start, Loop, Dequeue, SetState, Choose, NoPanic
    <3>4. CASE Return \/ AfterNew
      BY <3>4 DEF Return, AfterNew, Exited, Bug, Abort, NoPanic
    <3>5. CASE AfterTransitions \/ RepeatChoices \/ Tell
      BY <3>5 DEF AfterTransitions, RepeatChoices, Tell
    <3>6. CASE Fault
      BY <3>6 DEF Fault, ScheduleRestart, SaveOpenFails, AfterSave, Crash, NoPanic
    <3>7. CASE SaveOpen \/ SaveWrite \/ SaveSync \/ SaveRename
      BY <3>7 DEF SaveOpen, SaveWrite, SaveSync, SaveRename, AfterSave, NoPanic
    <3> QED
      BY <3>1, <3>2, <3>3, <3>4, <3>5, <3>6, <3>7 DEF Step
  <2> QED
    BY <2>1, <2>2 DEF NoPanic
<1>3. Inv => NoPanic
  OBVIOUS
<1> QED
  BY <1>1, <1>2, <1>3, PTL
-----------------------------------------------------------------------------
(* The search implements the worklist, for harnesses in which states of the  *)
(* same signature behave alike                                               *)

LeavesOf(t, h) == {p \in DOMAIN t.tree[h] : t.tree[h][p] = 0}

\* Signatures to which the transitions of a state with signature g lead.
NextSigs(t, g) ==
    UNION {{t.sig[t.to[h][p]] : p \in {l \in LeavesOf(t, h) : t.ret[h][l] = "EXIT"}} :
             h \in {x \in Sys : t.sig[x] = g}}

FailsIn(t, h, p) == \/ t.ret[h][p] \in {"BUG", "ABORT"}
                    \/ t.ret[h][p] = "EXIT" /\ t.check[t.to[h][p]] # "EXIT"

\* A failing transition of such a state makes a persistent checker restart ...
IsFlaky(t, k) == Persistent /\ \E h \in Sys : t.sig[h] = k /\ \E p \in LeavesOf(t, h) : FailsIn(t, h, p)

\* ... and has been executed.
GivenUp(t, k, rn) ==
    Persistent /\ \E h \in Sys : /\ t.sig[h] = k
                                /\ \E p \in LeavesOf(t, h) : FailsIn(t, h, p) /\ <<h, p>> \in rn

\* All transitions of a state with signature k have been executed.
Done(t, k, rn) == \E g \in Sys : Stands(t, g, k) /\ \A p \in LeavesOf(t, g) : <<g, p>> \in rn

\* Signatures that lie in every set that has the initial one and, with a
\* signature, those it leads to.
ClosedSigs(t, S) == t.sig[t.raw] \in S /\ \A k \in S : NextSigs(t, k) \subseteq S
Reachable(t) == {k \in Sigs(t) : \A S \in SUBSET Sigs(t) : ClosedSigs(t, S) => k \in S}

Queued(q) == {q[i].sig : i \in DOMAIN q}

\* V is found and T of it is to be expanded: the rest has been.
Kept(t, V, T, rn) ==
    /\ V \subseteq Reachable(t) /\ T \subseteq V
    /\ V # {} => t.sig[t.raw] \in V
    /\ \A k \in V \ T : GivenUp(t, k, rn) \/ (NextSigs(t, k) \subseteq V /\ Done(t, k, rn))

\* A file has an earlier state of the search.
FileKept(t, V, f, rn) ==
    f.exists => LET U == DOMAIN f.img.visited
                IN  U # {} /\ U \subseteq V /\ Kept(t, U, Queued(f.img.queue), rn)

FilesKept(t, V, d, rn) ==
    FileKept(t, V, d.tmp, rn) /\ FileKept(t, V, d.file, rn) /\ FileKept(t, V, d.old, rn)

\* What was executed are transitions of reachable states.
Executed(t, rn) ==
    \A e \in rn : e[1] \in Sys /\ e[2] \in LeavesOf(t, e[1]) /\ t.sig[e[1]] \in Reachable(t)

\* The execution with leaf q is not over: it is to come or, until it returns, running.
Pends(r, at, q) == IF at \in Returned THEN Before(r.choices, q) ELSE ToCome(r, q)

\* The executions of the state with signature k that are over led to states in V ...
Tried(t, V, k, r, at) ==
    \A h \in Sys : t.sig[h] = k =>
      \A q \in LeavesOf(t, h) : t.ret[h][q] = "EXIT" => Pends(r, at, q) \/ t.sig[t.to[h][q]] \in V

\* ... they are those that are not to come ...
Recorded(t, c, tr, r, at, rn) ==
    \A g \in Sys : Leads(t, Edges(t), c, tr, g) =>
      \A q \in LeavesOf(t, g) : Pends(r, at, q) \/ <<g, q>> \in rn

\* ... and, unless the checker was rebooted, only those.
Fresh(t, k, r, at, rn) ==
    ~Persistent => \A e \in rn : t.sig[e[1]] = k => ~Pends(r, at, e[2])

Progress(t, V, c, cr, r, at, rn) ==
    /\ Tried(t, V, cr.sig, r, at)
    /\ Recorded(t, c, cr.trace, r, at, rn)
    /\ Fresh(t, cr.sig, r, at, rn)
    /\ at \in Returned => \E h \in Sys : /\ t.sig[h] = cr.sig /\ Leads(t, Edges(t), c, cr.trace, h)
                                         /\ Follows(t.tree[h], r) /\ r.cur = Len(r.choices)

\* What busy is at each point: nothing once the state has been given up.
Busy(b, k, sk, at) ==
    /\ at \in {"start", "loop", "dequeue", "save_loop", "save_restart", "tell", "ended"} => b = {}
    /\ at \in {"set", "regen", "run", "after_new", "repeat"} => b = {k}
    /\ at = "after" => b = {k} \/ (b = {} /\ sk = "closed")

\* A state that after_new_transition is about to check.
JustReached(t, k, s, rn) ==
    \E h \in Sys : \E p \in LeavesOf(t, h) :
      t.sig[h] = k /\ t.ret[h][p] = "EXIT" /\ s = t.to[h][p] /\ <<h, p>> \in rn

\* Unless the search was stopped at a limit, nothing is dropped and nothing is
\* executed that was executed before.
Diligent ==
    Searching /\ pc # "stopped" =>
      /\ Kept(test, DOMAIN visited, Queued(queue) \cup busy, ran)
      /\ FilesKept(test, DOMAIN visited, disk, ran)
      /\ Executed(test, ran)
      /\ ~Persistent => \A e \in ran : test.sig[e[1]] \in DOMAIN visited \ Queued(queue)
      /\ Busy(busy, curr.sig, skt, pc)
      /\ pc \in {"loop", "ended"} => DOMAIN visited # {}
      /\ pc = "ended" => queue = << >>
      /\ pc \in Expanding =>
           /\ curr.sig \in DOMAIN visited
           /\ curr.sig \notin Queued(queue)
           /\ Progress(test, DOMAIN visited, ckpts[curr.start].data, curr, rand, pc, ran)
      /\ pc = "after_new" => JustReached(test, curr.sig, sys, ran)

-----------------------------------------------------------------------------
(* Steps of the worklist                                                     *)

Quiet(at) == at \notin Replaying \cup Finished

\* The worklist that the search is seen as.
LEMMA Mapped ==
    ASSUME NEW q
    PROVE  {s.sig : s \in Range(q)} = Queued(q)
BY DEF Queued, Range

\* The graph of the harness, by its signatures.
LEMMA GraphIs ==
    ASSUME test \in Tests, NEW g \in Sigs(test)
    PROVE  /\ Graph.root = test.sig[test.raw]
           /\ Graph.next[g] = NextSigs(test, g)
           /\ IsFlaky(test, g) => g \in Graph.flaky
<1>1. Range(test.sig) = Sigs(test)
  BY TestsAssumption DEF Range, Sigs
<1>2. SigNext(g) = NextSigs(test, g)
  BY DEF SigNext, NextSigs, Leaves, LeavesOf
<1>3. ASSUME IsFlaky(test, g) PROVE g \in Graph.flaky
  BY <1>3 DEF IsFlaky, Graph, Fails, FailsIn, Leaves, LeavesOf
<1> QED
  BY <1>1, <1>2, <1>3 DEF Graph

Todo == Queued(queue) \cup busy

\* The graph is that of the harness, which is fixed.
LEMMA GraphStays == ASSUME test' = test PROVE Graph' = Graph
BY DEF Graph, SigNext, Fails, Leaves

\* A step that leaves what is found and what is to be done as it was.
LEMMA StutterStep ==
    ASSUME test' = test, Quiet(pc), Quiet(pc'), DOMAIN visited' = DOMAIN visited, Todo' = Todo
    PROVE  UNCHANGED W!wvars
BY GraphStays, Mapped DEF W!wvars, Quiet, Finished, Todo

\* The initial state is found.
LEMMA BeginStep ==
    ASSUME test' = test, test \in Tests, Quiet(pc), Quiet(pc'), DOMAIN visited = {},
           DOMAIN visited' = {test.sig[test.raw]}, Todo' = {test.sig[test.raw]}
    PROVE  W!Begin
<1>1. Graph.root = test.sig[test.raw]
  BY DEF Graph
<1> QED
  BY <1>1, GraphStays, Mapped DEF W!Begin, Quiet, Finished, Todo

\* A state that another one leads to is found.
LEMMA FindStep ==
    ASSUME test' = test, test \in Tests, Quiet(pc), Quiet(pc'),
           NEW g \in Sigs(test), g \in Todo, NEW k \in NextSigs(test, g), k \notin DOMAIN visited,
           DOMAIN visited' = DOMAIN visited \cup {k}, Todo' = Todo \cup {k}
    PROVE  W!Find
<1>1. Graph.next[g] = NextSigs(test, g)
  BY GraphIs
<1> QED
  BY <1>1, GraphStays, Mapped DEF W!Find, Quiet, Finished, Todo

\* A state whose successors are known is done with.
LEMMA FinishStep ==
    ASSUME test' = test, test \in Tests, Quiet(pc), Quiet(pc'),
           NEW g \in Sigs(test), g \in Todo, IsFlaky(test, g) \/ NextSigs(test, g) \subseteq DOMAIN visited,
           DOMAIN visited' = DOMAIN visited, Todo' = Todo \ {g}
    PROVE  W!Finish
<1>1. Graph.next[g] = NextSigs(test, g) /\ (IsFlaky(test, g) => g \in Graph.flaky)
  BY GraphIs
<1>2. W!Expanded(g, DOMAIN visited)
  BY <1>1 DEF W!Expanded
<1> QED
  BY <1>2, GraphStays, Mapped DEF W!Finish, Quiet, Finished, Todo

\* The search goes back to one that had lost nothing.
LEMMA LoseStep ==
    ASSUME test' = test, test \in Tests, Quiet(pc), Quiet(pc'),
           DOMAIN visited' \subseteq DOMAIN visited, NEW rn, Kept(test, DOMAIN visited', Todo', rn)
    PROVE  W!Lose
<1>1. ASSUME NEW g \in DOMAIN visited', g \notin Todo' PROVE W!Expanded(g, DOMAIN visited')
  <2>1. g \in Sigs(test) /\ (IsFlaky(test, g) \/ NextSigs(test, g) \subseteq DOMAIN visited')
    BY <1>1 DEF Kept, Reachable, GivenUp, IsFlaky
  <2>2. Graph.next[g] = NextSigs(test, g) /\ (IsFlaky(test, g) => g \in Graph.flaky)
    BY <2>1, GraphIs
  <2> QED
    BY <2>1, <2>2 DEF W!Expanded
<1>2. /\ Todo' \subseteq DOMAIN visited' /\ Graph.root = test.sig[test.raw]
      /\ DOMAIN visited' # {} => test.sig[test.raw] \in DOMAIN visited'
  BY DEF Kept, Graph
<1> QED
  BY <1>1, <1>2, GraphStays, Mapped DEF W!Lose, Quiet, Finished, Todo

\* Nothing is left to be done.
LEMMA EndStep ==
    ASSUME test' = test, Quiet(pc), pc' = "ended", DOMAIN visited # {}, Todo = {},
           DOMAIN visited' = DOMAIN visited, Todo' = Todo
    PROVE  W!End
BY GraphStays, Mapped DEF W!End, Quiet, Finished, Replaying, Todo

\* A limit is reached.
LEMMA StopStep ==
    ASSUME test' = test, Quiet(pc), pc' = "stopped", DOMAIN visited' = DOMAIN visited, Todo' = Todo
    PROVE  W!Stop
BY GraphStays, Mapped DEF W!Stop, Quiet, Finished, Replaying, Todo

\* Replaying a trace file, which the worklist knows nothing of.
LEMMA AwayStep ==
    ASSUME test' = test, pc \in {"ended", "stopped"} \cup Replaying, pc' \in Replaying
    PROVE  W!Leave \/ UNCHANGED W!wvars
<1>1. CASE pc \in Replaying
  BY <1>1, GraphStays DEF W!wvars, Replaying
<1>2. CASE pc \in {"ended", "stopped"}
  BY <1>2, GraphStays DEF W!Leave, Replaying
<1> QED
  BY <1>1, <1>2
-----------------------------------------------------------------------------
(* Every step of the search is one of the worklist, or none                  *)

WStep == [W!Next]_(W!wvars)

\* What was expanded stays so when more is executed.
LEMMA KeptMore ==
    ASSUME NEW t, NEW V, NEW T, NEW rn, NEW rm, rn \subseteq rm, Kept(t, V, T, rn)
    PROVE  Kept(t, V, T, rm)
<1>1. \A k : GivenUp(t, k, rn) => GivenUp(t, k, rm)
  BY DEF GivenUp
<1>2. \A k : Done(t, k, rn) => Done(t, k, rm)
  BY DEF Done
<1> QED
  BY <1>1, <1>2 DEF Kept

\* What was saved stays saved when more is found.
LEMMA FilesMore ==
    ASSUME NEW t, NEW V, NEW U, V \subseteq U, NEW d, NEW rn, NEW rm, rn \subseteq rm,
           FilesKept(t, V, d, rn)
    PROVE  FilesKept(t, U, d, rm)
<1>1. ASSUME NEW f, FileKept(t, V, f, rn) PROVE FileKept(t, U, f, rm)
  BY <1>1, KeptMore DEF FileKept
<1> QED
  BY <1>1 DEF FilesKept

\* The initial signature is reachable, and so is what a reachable one leads to.
LEMMA ReachableFacts ==
    ASSUME NEW t \in Tests
    PROVE  /\ t.sig[t.raw] \in Reachable(t) /\ Reachable(t) \subseteq Sigs(t)
           /\ \A k \in Reachable(t) : NextSigs(t, k) \subseteq Reachable(t)
<1>1. t.sig[t.raw] \in Sigs(t)
  BY HarnessFacts
<1>2. \A k : NextSigs(t, k) \subseteq Sigs(t)
  BY HarnessFacts DEF NextSigs, LeavesOf
<1> QED
  BY <1>1, <1>2 DEF Reachable, ClosedSigs

\* sync() makes the new directory entry the durable one.
LEMMA TellKept ==
    ASSUME NEW V, DiskOK(test, disk), FilesKept(test, V, disk, ran), TellMonitor
    PROVE  FilesKept(test, V, disk', ran)
BY DEF TellMonitor, FilesKept, DiskOK

\* Nothing has been found or executed at first.
LEMMA DiligentInit == ASSUME Init PROVE Diligent /\ W!Init
<1>1. /\ queue = << >> /\ visited = << >> /\ busy = {} /\ ran = {} /\ pc = "start"
      /\ disk = [tmp |-> NoFile, file |-> NoFile, old |-> NoFile]
  BY DEF Init
<1>2. Queued(queue) = {} /\ DOMAIN visited = {}
  BY <1>1 DEF Queued
<1>3. Kept(test, DOMAIN visited, Queued(queue) \cup busy, ran)
  BY <1>1, <1>2 DEF Kept
<1>4. FilesKept(test, DOMAIN visited, disk, ran)
  BY <1>1 DEF FilesKept, FileKept, NoFile
<1>5. Executed(test, ran) /\ \A e \in ran : test.sig[e[1]] \in DOMAIN visited \ Queued(queue)
  BY <1>1 DEF Executed
<1>6. Diligent
  BY <1>1, <1>3, <1>4, <1>5 DEF Diligent, Busy, Expanding, Returned
<1>7. W!Init
  BY <1>1, <1>2, Mapped DEF W!Init, Replaying
<1> QED
  BY <1>6, <1>7

\* Whether an execution is over changes with its return only.
LEMMA ProgressStays ==
    ASSUME NEW t, NEW V, NEW c, NEW cr, NEW r, NEW at, NEW bt, NEW rn,
           Progress(t, V, c, cr, r, at, rn), at \in Returned <=> bt \in Returned
    PROVE  Progress(t, V, c, cr, r, bt, rn)
<1>1. \A q : Pends(r, at, q) <=> Pends(r, bt, q)
  BY DEF Pends
<1> QED
  BY <1>1 DEF Progress, Tried, Recorded, Fresh

\* A step that finds nothing, takes nothing from the queue and goes on with the
\* same executions.
LEMMA DiligentStays ==
    ASSUME Diligent, Searching, pc # "stopped", test' = test, queue' = queue, visited' = visited, ckpts' = ckpts,
           curr' = curr, rand' = rand, busy' = busy, ran' = ran,
           FilesKept(test, DOMAIN visited, disk', ran),
           Busy(busy, curr.sig, skt', pc'), pc' \in {"loop", "ended"} => DOMAIN visited # {},
           pc' = "ended" => queue = << >>,
           pc' \in Expanding => pc \in Expanding /\ (pc \in Returned <=> pc' \in Returned),
           pc' = "after_new" => pc = "after_new" /\ sys' = sys
    PROVE  /\ Diligent'
           /\ Quiet(pc) /\ Quiet(pc') => WStep
           /\ Quiet(pc) /\ pc' = "stopped" => WStep
<1> DEFINE c == ckpts[curr.start].data
<1>1. /\ Kept(test, DOMAIN visited, Queued(queue) \cup busy, ran) /\ Executed(test, ran)
      /\ ~Persistent => \A e \in ran : test.sig[e[1]] \in DOMAIN visited \ Queued(queue)
      /\ pc \in Expanding => /\ curr.sig \in DOMAIN visited
                             /\ curr.sig \notin Queued(queue)
                             /\ Progress(test, DOMAIN visited, c, curr, rand, pc, ran)
      /\ pc = "after_new" => JustReached(test, curr.sig, sys, ran)
  BY DEF Diligent
<1> HIDE DEF c
<1>2. pc' \in Expanding => Progress(test, DOMAIN visited, c, curr, rand, pc', ran)
  BY <1>1, ProgressStays
<1>3. Diligent'
  BY <1>1, <1>2 DEF Diligent, c
<1>4. Todo' = Todo
  BY DEF Todo
<1> QED
  BY <1>3, <1>4, StutterStep, StopStep DEF WStep, W!Next

\* The initial state is found.
LEMMA DiligentStart == ASSUME Sane, Diligent, Start PROVE Diligent' /\ WStep
<1>1. /\ pc = "start" /\ pc' = "loop" /\ test' = test /\ disk' = disk /\ Searching /\ busy' = busy
      /\ ran' = ran
  BY DEF Start, Searching, Replaying, history
<1>2. /\ test \in Tests /\ sys = test.raw /\ queue = << >> /\ visited = << >> /\ busy = {}
      /\ Executed(test, ran) /\ (~Persistent => ran = {})
  BY <1>1 DEF Sane, Diligent, Busy
<1> DEFINE g == test.sig[test.raw]
           s == [id |-> 0, start |-> 0, sig |-> g, trace |-> << >>]
<1>3. queue' = <<s>> /\ visited' = With(<< >>, g, 0) /\ s.sig = g
  BY <1>2 DEF Start
<1>4. g \in Reachable(test)
  BY <1>2, ReachableFacts
<1> HIDE DEF s, g
<1>5. Queued(queue') = {g}
  <2>1. DOMAIN queue' = {1} /\ queue'[1] = s
    BY <1>3
  <2> QED
    BY <1>3, <2>1 DEF Queued
<1>6. DOMAIN visited' = {g} /\ DOMAIN visited = {}
  BY <1>2, <1>3 DEF With
<1>7. Todo' = {g}
  BY <1>1, <1>2, <1>5 DEF Todo
<1>8. Kept(test, {g}, {g}, ran)
  BY <1>4 DEF Kept, g
<1>9. FilesKept(test, {g}, disk, ran)
  BY <1>1, <1>6, FilesMore DEF Diligent
<1>10. Diligent'
  BY <1>1, <1>2, <1>6, <1>7, <1>8, <1>9 DEF Diligent, Todo, Busy, Expanding, Returned
<1>11. W!Begin
  BY <1>1, <1>2, <1>6, <1>7, BeginStep DEF Quiet, Finished, Replaying, g
<1> QED
  BY <1>10, <1>11 DEF WStep, W!Next

\* The search ends when nothing is left to expand.
LEMMA DiligentLoop == ASSUME Diligent, Loop PROVE Diligent' /\ WStep
<1>1. /\ pc = "loop" /\ test' = test /\ disk' = disk /\ Searching /\ queue' = queue /\ curr' = curr
      /\ visited' = visited /\ ckpts' = ckpts /\ rand' = rand /\ busy' = busy /\ ran' = ran /\ skt' = skt
      /\ pc' \in {"ended", "save_loop", "dequeue"} /\ (pc' = "ended" => queue = << >>)
  BY DEF Loop, Searching, Replaying, search, history
<1>2. busy = {} /\ DOMAIN visited # {} /\ FilesKept(test, DOMAIN visited, disk, ran)
  BY <1>1 DEF Diligent, Busy
<1>3. Busy(busy, curr.sig, skt', pc')
  BY <1>1, <1>2 DEF Busy
<1>4. /\ Diligent'
      /\ Quiet(pc) /\ Quiet(pc') => WStep
  BY <1>1, <1>2, <1>3, DiligentStays DEF Expanding, Returned
<1>5. ASSUME pc' = "ended" PROVE W!End
  <2>1. Todo = {} /\ Todo' = Todo
    BY <1>1, <1>2, <1>5 DEF Todo, Queued
  <2> QED
    BY <1>1, <1>2, <1>5, <2>1, EndStep DEF Quiet, Finished, Replaying
<1> QED
  BY <1>1, <1>4, <1>5 DEF Quiet, Finished, Replaying, WStep, W!Next

\* A state that is taken from the queue stays on the worklist.
LEMMA DiligentDequeue == ASSUME Sane, Diligent, Dequeue PROVE Diligent' /\ WStep
<1>1. /\ pc = "dequeue" /\ pc' = "set" /\ test' = test /\ Searching
      /\ visited' = visited /\ ckpts' = ckpts /\ curr' = Head(queue) /\ queue' = Tail(queue)
      /\ rand' = EnumReset /\ busy' = {curr'.sig} /\ ran' = ran
  BY DEF Dequeue, Searching, Replaying
<1>2. /\ test \in Tests /\ Good(test, queue, visited, ckpts) /\ queue # << >> /\ busy = {}
      /\ Kept(test, DOMAIN visited, Queued(queue) \cup busy, ran)
  BY <1>1 DEF Sane, Diligent, Busy
<1>3. FilesKept(test, DOMAIN visited, disk', ran)
  BY <1>1, TellKept DEF Sane, Diligent, Dequeue
<1>4. /\ curr' = queue[1] /\ 1 \in DOMAIN queue /\ curr'.sig \in DOMAIN visited
      /\ \A i \in DOMAIN queue' : queue'[i] = queue[i + 1] /\ i + 1 \in DOMAIN queue
  BY <1>1, <1>2, TakeQueued
<1>5. DOMAIN queue = 1 .. Len(queue) /\ Len(queue) \in Nat /\ DOMAIN queue' = 1 .. (Len(queue) - 1)
  <2>1. queue \in Seq(StateRecords(test))
    BY <1>2 DEF Good
  <2> QED
    BY <1>1, <1>2, <2>1
<1>6. Queued(queue) = Queued(queue') \cup {curr'.sig}
  <2>1. ASSUME NEW i \in DOMAIN queue, i # 1 PROVE i - 1 \in DOMAIN queue' /\ queue'[i - 1] = queue[i]
    <3>1. i - 1 \in DOMAIN queue'
      BY <1>5, <2>1
    <3> QED
      BY <1>4, <1>5, <3>1
  <2> QED
    BY <1>4, <2>1 DEF Queued
<1>7. curr'.sig \notin Queued(queue')
  <2> SUFFICES ASSUME NEW i \in DOMAIN queue', queue'[i].sig = curr'.sig PROVE FALSE
    BY DEF Queued
  <2>1. /\ \A j \in DOMAIN queue : visited[queue[j].sig] = queue[j].id
        /\ \A j, k \in DOMAIN queue : queue[j].id = queue[k].id => j = k
    BY <1>2 DEF Good, WellFormed
  <2>2. i + 1 = 1
    BY <1>4, <2>1
  <2> QED
    BY <1>5, <2>2
<1>8. Progress(test, DOMAIN visited, ckpts[curr'.start].data, curr', EnumReset, "set", ran)
  <2>1. \A h \in Sys : \A q \in LeavesOf(test, h) : ToCome(EnumReset, q)
    BY <1>2, HarnessFacts, ResetFollows DEF LeavesOf
  <2>2. \A h \in Sys : \A q \in LeavesOf(test, h) : Pends(EnumReset, "set", q)
    BY <2>1 DEF Pends, Returned
  <2>3. ~Persistent => \A e \in ran : test.sig[e[1]] # curr'.sig
    BY <1>1, <1>6 DEF Diligent
  <2> QED
    BY <2>2, <2>3 DEF Progress, Tried, Recorded, Fresh, Returned
<1>9. Todo' = Todo
  BY <1>1, <1>2, <1>6 DEF Todo
<1>10. Diligent'
  <2>1. /\ Executed(test, ran)
        /\ ~Persistent => \A e \in ran : test.sig[e[1]] \in DOMAIN visited \ Queued(queue')
    BY <1>1, <1>6 DEF Diligent
  <2>2. Queued(queue') \cup busy' = Queued(queue) \cup busy
    BY <1>1, <1>2, <1>6
  <2>3. Busy(busy', curr'.sig, skt', pc')
    BY <1>1 DEF Busy
  <2> QED
    BY <1>1, <1>2, <1>3, <1>4, <1>7, <1>8, <2>1, <2>2, <2>3 DEF Diligent
<1> QED
  BY <1>1, <1>9, <1>10, StutterStep DEF WStep, Quiet, Finished, Replaying

\* Restoring the checkpoint, or scheduling a restart, ends no execution.
LEMMA DiligentSetState == ASSUME Diligent, SetState \/ ScheduleRestart PROVE Diligent' /\ WStep
<1>1. /\ test' = test /\ disk' = disk /\ Searching /\ queue' = queue /\ curr' = curr
      /\ visited' = visited /\ ckpts' = ckpts /\ rand' = rand /\ busy' = busy /\ ran' = ran /\ skt' = skt
      /\ pc \in {"set", "run"} /\ pc' \in {"run", "regen"}
  BY DEF SetState, ScheduleRestart, Searching, Replaying, search, history
<1>2. FilesKept(test, DOMAIN visited, disk, ran) /\ Busy(busy, curr.sig, skt', pc')
  BY <1>1 DEF Diligent, Busy
<1>3. /\ Diligent'
      /\ Quiet(pc) /\ Quiet(pc') => WStep
  BY <1>1, <1>2, DiligentStays DEF Expanding, Returned
<1> QED
  BY <1>1, <1>3 DEF Quiet, Finished, Replaying

\* Regeneration ends no execution.
LEMMA DiligentRegen == ASSUME Sane, Honest, Diligent, Regen PROVE Diligent' /\ WStep
<1>1. /\ test' = test /\ disk' = disk /\ Searching /\ queue' = queue /\ curr' = curr
      /\ visited' = visited /\ ckpts' = ckpts /\ rand' = rand /\ busy' = busy /\ ran' = ran /\ skt' = skt
      /\ pc = "regen" /\ pc' \in {"run", "regen", "panic"}
  BY DEF Regen, Searching, Replaying, search, history
<1>2. pc' # "panic"
  BY HonestRegen
<1>3. FilesKept(test, DOMAIN visited, disk, ran) /\ Busy(busy, curr.sig, skt', pc')
  BY <1>1, <1>2 DEF Diligent, Busy
<1>4. /\ Diligent'
      /\ Quiet(pc) /\ Quiet(pc') => WStep
  BY <1>1, <1>2, <1>3, DiligentStays DEF Expanding, Returned
<1> QED
  BY <1>1, <1>2, <1>4 DEF Quiet, Finished, Replaying

\* What is known of a transition that runs: it is one of the state taken from
\* the queue.
LEMMA Running ==
    ASSUME Sane, Honest, Searching, pc = "run"
    PROVE  /\ test \in Tests /\ sys \in Sys /\ test.sig[sys] = curr.sig
           /\ node \in DOMAIN test.tree[sys] /\ Follows(test.tree[sys], rand) /\ At(rand, node)
           /\ ckpts[curr.start].data \in Sys /\ curr.trace \in Seq(Nat)
           /\ Leads(test, Edges(test), ckpts[curr.start].data, curr.trace, sys)
<1>1. test \in Tests /\ sys \in Sys
  BY DEF Sane
<1>2. Course(test, ckpts[curr.start].data, curr.trace, sys, rest, node, rand, "run")
  BY DEF Sane, Expanding
<1>3. /\ node \in DOMAIN test.tree[sys] /\ Follows(test.tree[sys], rand) /\ At(rand, node)
      /\ Leads(test, Edges(test), ckpts[curr.start].data, curr.trace, sys)
  BY <1>2 DEF Course
<1>4. test.sig[sys] = curr.sig
  BY DEF Honest, Regenerates, Stands, Expanding
<1>5. ckpts[curr.start].data \in Sys /\ curr.trace \in Seq(Nat)
  BY DEF Sane, Expanding, Good, StateRecords, CkptRecords
<1> QED
  BY <1>1, <1>3, <1>4, <1>5

\* States of the same signature have the same leaves.
LEMMA SameLeaves ==
    ASSUME NEW t, Alike(t), NEW g \in Sys, NEW h \in Sys, t.sig[g] = t.sig[h], NEW q \in LeavesOf(t, h)
    PROVE  /\ q \in LeavesOf(t, g) /\ q \in DOMAIN t.tree[g] /\ t.tree[g][q] = 0
           /\ t.ret[g][q] = t.ret[h][q] /\ t.sig[t.to[g][q]] = t.sig[t.to[h][q]]
BY DEF Alike, LeavesOf

\* When the same executions of the state s are pending before and after a step.
LEMMA ProgressKeeps ==
    ASSUME NEW t \in Tests, Alike(t), NEW V, NEW c \in Sys, NEW cr, cr.trace \in Seq(Nat), NEW s \in Sys,
           t.sig[s] = cr.sig, Leads(t, Edges(t), c, cr.trace, s), NEW r, NEW at, NEW z, NEW bt,
           bt \notin Returned, NEW rn, Executed(t, rn), Progress(t, V, c, cr, r, at, rn),
           \A q \in LeavesOf(t, s) : Pends(r, at, q) <=> Pends(z, bt, q)
    PROVE  Progress(t, V, c, cr, z, bt, rn)
<1>1. ASSUME NEW h \in Sys, t.sig[h] = cr.sig, NEW q \in LeavesOf(t, h)
      PROVE  Pends(r, at, q) <=> Pends(z, bt, q)
  BY <1>1, SameLeaves
<1>2. Tried(t, V, cr.sig, z, bt)
  BY <1>1 DEF Progress, Tried
<1>3. Recorded(t, c, cr.trace, z, bt, rn)
  <2> SUFFICES ASSUME NEW g \in Sys, Leads(t, Edges(t), c, cr.trace, g), NEW q \in LeavesOf(t, g)
               PROVE  Pends(z, bt, q) \/ <<g, q>> \in rn
    BY DEF Recorded
  <2>1. g = s
    BY LeadsUnique
  <2>2. Pends(r, at, q) \/ <<g, q>> \in rn
    BY DEF Progress, Recorded
  <2> QED
    BY <1>1, <2>1, <2>2
<1>4. Fresh(t, cr.sig, z, bt, rn)
  <2> SUFFICES ASSUME ~Persistent, NEW e \in rn, t.sig[e[1]] = cr.sig PROVE ~Pends(z, bt, e[2])
    BY DEF Fresh
  <2>1. e[1] \in Sys /\ e[2] \in LeavesOf(t, e[1])
    BY DEF Executed
  <2>2. ~Pends(r, at, e[2])
    BY DEF Progress, Fresh
  <2> QED
    BY <1>1, <2>1, <2>2
<1> QED
  BY <1>2, <1>3, <1>4 DEF Progress

\* A choice point brings no execution to its end.
LEMMA DiligentChoose ==
    ASSUME \A t \in Tests : Alike(t), Sane, Honest, Diligent, Choose
    PROVE  Diligent' /\ WStep
<1>1. /\ pc = "run" /\ pc' = "run" /\ test' = test /\ disk' = disk /\ Searching /\ queue' = queue
      /\ curr' = curr /\ visited' = visited /\ ckpts' = ckpts /\ busy' = busy /\ ran' = ran /\ skt' = skt
      /\ test.tree[sys][node] # 0 /\ rand' = EnumRandom(rand, test.tree[sys][node])
  BY DEF Choose, Searching, Replaying, search, history
<1> DEFINE d == test.tree[sys]
           c == ckpts[curr.start].data
<1>2. /\ test \in Tests /\ sys \in Sys /\ test.sig[sys] = curr.sig
      /\ node \in DOMAIN d /\ Follows(d, rand) /\ At(rand, node)
      /\ c \in Sys /\ curr.trace \in Seq(Nat) /\ Leads(test, Edges(test), c, curr.trace, sys)
  BY <1>1, Running
<1>3. \A q \in DOMAIN d : d[q] = 0 => (ToCome(EnumRandom(rand, d[node]), q) <=> ToCome(rand, q))
  BY <1>1, <1>2, DrawFollows
<1>4. Progress(test, DOMAIN visited, c, curr, rand, "run", ran) /\ Executed(test, ran)
  BY <1>1 DEF Diligent, Expanding
<1>5. \A q \in LeavesOf(test, sys) : Pends(rand, "run", q) <=> Pends(rand', "run", q)
  BY <1>1, <1>3 DEF LeavesOf, Pends, Returned
<1> HIDE DEF c
<1>6. Progress(test, DOMAIN visited, c, curr, rand', "run", ran)
  BY <1>2, <1>4, <1>5, ProgressKeeps DEF Returned
<1>7. Diligent'
  BY <1>1, <1>6 DEF Diligent, c
<1>8. Todo' = Todo
  BY <1>1 DEF Todo
<1> QED
  BY <1>1, <1>7, <1>8, StutterStep DEF WStep, Quiet, Finished, Replaying

\* A transition returns: where it led is known by now, unless it failed, and it
\* has been recorded as executed.
LEMMA ProgressReturns ==
    ASSUME NEW t \in Tests, Alike(t), NEW V, NEW U, V \subseteq U, NEW c \in Sys, NEW cr,
           cr.trace \in Seq(Nat), NEW s \in Sys, t.sig[s] = cr.sig, Leads(t, Edges(t), c, cr.trace, s),
           NEW r, NEW n \in DOMAIN t.tree[s], Follows(t.tree[s], r), At(r, n), t.tree[s][n] = 0,
           NEW rn, Executed(t, rn), Progress(t, V, c, cr, r, "run", rn),
           t.ret[s][n] = "EXIT" => t.sig[t.to[s][n]] \in U, NEW at \in Returned
    PROVE  Progress(t, U, c, cr, r, at, rn \cup {<<s, n>>})
<1> DEFINE d == t.tree[s]
           rm == rn \cup {<<s, n>>}
<1>1. /\ r.cur = Len(r.choices) /\ n = r.choices /\ ~Before(n, n)
      /\ \A q \in DOMAIN d : ToCome(r, q) <=> (q = n \/ Before(r.choices, q))
  BY LeafReached
<1>2. \A q : Pends(r, "run", q) <=> ToCome(r, q)
  BY DEF Pends, Returned
<1>3. \A q : Pends(r, at, q) <=> Before(r.choices, q)
  BY DEF Pends
<1>4. Tried(t, U, cr.sig, r, at)
  <2> SUFFICES ASSUME NEW h \in Sys, t.sig[h] = cr.sig, NEW q \in LeavesOf(t, h), t.ret[h][q] = "EXIT"
               PROVE  Pends(r, at, q) \/ t.sig[t.to[h][q]] \in U
    BY DEF Tried
  <2>1. q \in DOMAIN d /\ t.ret[s][q] = "EXIT" /\ t.sig[t.to[s][q]] = t.sig[t.to[h][q]]
    BY SameLeaves
  <2>2. ToCome(r, q) \/ t.sig[t.to[h][q]] \in V
    BY <1>2 DEF Progress, Tried
  <2> QED
    BY <1>1, <1>3, <2>1, <2>2
<1>5. Recorded(t, c, cr.trace, r, at, rm)
  <2> SUFFICES ASSUME NEW g \in Sys, Leads(t, Edges(t), c, cr.trace, g), NEW q \in LeavesOf(t, g)
               PROVE  Pends(r, at, q) \/ <<g, q>> \in rm
    BY DEF Recorded
  <2>1. g = s
    BY LeadsUnique
  <2>2. ToCome(r, q) \/ <<g, q>> \in rn
    BY <1>2 DEF Progress, Recorded
  <2>3. q \in DOMAIN d
    BY <2>1 DEF LeavesOf
  <2> QED
    BY <1>1, <1>3, <2>1, <2>2, <2>3
<1>6. Fresh(t, cr.sig, r, at, rm)
  <2> SUFFICES ASSUME ~Persistent, NEW e \in rm, t.sig[e[1]] = cr.sig PROVE ~Before(r.choices, e[2])
    BY <1>3 DEF Fresh
  <2>1. CASE e \in rn
    <3>1. e[1] \in Sys /\ e[2] \in LeavesOf(t, e[1])
      BY <2>1 DEF Executed
    <3>2. e[2] \in DOMAIN d
      BY <3>1, SameLeaves
    <3>3. ~ToCome(r, e[2])
      BY <1>2, <2>1 DEF Progress, Fresh
    <3> QED
      BY <1>1, <3>2, <3>3
  <2>2. CASE e = <<s, n>>
    BY <1>1, <2>2
  <2> QED
    BY <2>1, <2>2
<1> HIDE DEF rm
<1> QED
  BY <1>1, <1>4, <1>5, <1>6 DEF Progress, rm

\* One more execution of the state is recorded, or none.
RunsOn == /\ ran \subseteq ran' /\ Executed(test, ran')
          /\ \A e \in ran' : e \in ran \/ test.sig[e[1]] = curr.sig

\* A failure makes a persistent checker give the state up.
LEMMA DiligentGivesUp ==
    ASSUME test \in Tests, Diligent, Searching, Quiet(pc), pc \in Expanding, busy = {curr.sig}, RunsOn,
           GivenUp(test, curr.sig, ran'), test' = test, queue' = queue, visited' = visited,
           ckpts' = ckpts, curr' = curr, rand' = rand, disk' = disk, pc' = "save_restart", busy' = {},
           Progress(test, DOMAIN visited, ckpts[curr.start].data, curr, rand, "save_restart", ran')
    PROVE  Diligent' /\ WStep
<1>1. /\ Kept(test, DOMAIN visited, Queued(queue) \cup busy, ran)
      /\ FilesKept(test, DOMAIN visited, disk, ran)
      /\ curr.sig \in DOMAIN visited /\ curr.sig \notin Queued(queue)
  BY DEF Diligent, Quiet, Finished
<1>2. /\ Kept(test, DOMAIN visited, Queued(queue) \cup busy, ran')
      /\ FilesKept(test, DOMAIN visited, disk, ran')
  BY <1>1, KeptMore, FilesMore DEF RunsOn
<1>3. Kept(test, DOMAIN visited, Queued(queue), ran')
  BY <1>2 DEF Kept
<1>4. curr.sig \in Sigs(test) /\ curr.sig \in Todo /\ Todo' = Todo \ {curr.sig}
  BY <1>1 DEF Kept, Reachable, Todo
<1>5. IsFlaky(test, curr.sig) /\ Persistent
  BY DEF GivenUp, IsFlaky
<1>6. Diligent'
  <2>1. Queued(queue') \cup busy' = Queued(queue)
    OBVIOUS
  <2>2. Busy(busy', curr'.sig, skt', pc')
    BY DEF Busy
  <2> QED
    BY <1>1, <1>2, <1>3, <1>5, <2>1, <2>2 DEF Diligent, RunsOn
<1>7. W!Finish
  <2>1. Quiet(pc')
    BY DEF Quiet, Finished, Replaying
  <2> QED
    BY <1>4, <1>5, <2>1, FinishStep
<1> QED
  BY <1>6, <1>7 DEF WStep, W!Next

\* The step that ends an execution without finding anything.
LEMMA DiligentGoesOn ==
    ASSUME test \in Tests, Diligent, Searching, Quiet(pc), pc \in Expanding, busy = {curr.sig}, RunsOn,
           test' = test, queue' = queue, visited' = visited, ckpts' = ckpts, curr' = curr,
           rand' = rand, disk' = disk, busy' = busy,
           pc' \in {"after_new", "after", "stopped"},
           pc' = "after_new" => JustReached(test, curr.sig, sys', ran'),
           pc' # "stopped" => Progress(test, DOMAIN visited, ckpts[curr.start].data, curr, rand, pc', ran')
    PROVE  Diligent' /\ WStep
<1>1. /\ Kept(test, DOMAIN visited, Queued(queue) \cup busy, ran)
      /\ FilesKept(test, DOMAIN visited, disk, ran)
      /\ curr.sig \in DOMAIN visited /\ curr.sig \notin Queued(queue)
      /\ ~Persistent => \A e \in ran : test.sig[e[1]] \in DOMAIN visited \ Queued(queue)
  BY DEF Diligent, Quiet, Finished
<1>2. /\ Kept(test, DOMAIN visited, Queued(queue) \cup busy, ran')
      /\ FilesKept(test, DOMAIN visited, disk, ran')
  BY <1>1, KeptMore, FilesMore DEF RunsOn
<1>3. ~Persistent => \A e \in ran' : test.sig[e[1]] \in DOMAIN visited \ Queued(queue)
  BY <1>1 DEF RunsOn
<1>4. Busy(busy', curr'.sig, skt', pc')
  BY DEF Busy
<1>5. Executed(test, ran')
  BY DEF RunsOn
<1>6. Diligent'
  BY <1>1, <1>2, <1>3, <1>4, <1>5 DEF Diligent, Expanding, Returned
<1>7. Todo' = Todo
  BY DEF Todo
<1>8. Quiet(pc') \/ pc' = "stopped"
  BY DEF Quiet, Finished, Replaying
<1> QED
  BY <1>6, <1>7, <1>8, StutterStep, StopStep DEF WStep, W!Next

\* Pushing a state adds its signature to the queue, at either end.
LEMMA PushedSig ==
    ASSUME NoPriority, test \in Tests, NEW S, queue \in Seq(S), NEW s, queue' \in Pushed(queue, s)
    PROVE  Queued(queue') = Queued(queue) \cup {s.sig}
<1>1. queue' = Append(queue, s) \/ queue' = <<s>> \o queue
  <2>1. test.queue \in {"bfs", "dfs"}
    BY HarnessFacts DEF NoPriority
  <2> QED
    BY <2>1 DEF Pushed
<1>2. Len(queue) \in Nat /\ DOMAIN queue = 1 .. Len(queue)
  OBVIOUS
<1>3. \A i \in DOMAIN queue' : queue'[i] = s \/ \E j \in DOMAIN queue : queue'[i] = queue[j]
  BY <1>1, QueueElements
<1>4. /\ \E i \in DOMAIN queue' : queue'[i] = s
      /\ \A j \in DOMAIN queue : \E i \in DOMAIN queue' : queue'[i] = queue[j]
  <2>1. CASE queue' = Append(queue, s)
    <3>1. /\ DOMAIN queue' = 1 .. (Len(queue) + 1) /\ queue'[Len(queue) + 1] = s
          /\ \A j \in 1 .. Len(queue) : queue'[j] = queue[j]
      BY <1>2, <2>1
    <3> QED
      BY <1>2, <3>1
  <2>2. CASE queue' = <<s>> \o queue
    <3>1. DOMAIN queue' = 1 .. (Len(queue) + 1)
      BY <1>2, <2>2
    <3>2. queue'[1] = s
      BY <1>2, <2>2
    <3>3. \A j \in 1 .. Len(queue) : queue'[j + 1] = queue[j]
      BY <1>2, <2>2
    <3>4. 1 \in DOMAIN queue' /\ \A j \in 1 .. Len(queue) : j + 1 \in DOMAIN queue'
      BY <1>2, <3>1
    <3> QED
      BY <1>2, <3>2, <3>3, <3>4
  <2> QED
    BY <1>1, <2>1, <2>2
<1> QED
  BY <1>3, <1>4 DEF Queued

\* A new state is found and put on the worklist.
LEMMA DiligentFinds ==
    ASSUME NoPriority, Sane, Diligent, Searching, pc = "run", RunsOn, test' = test, curr' = curr,
           rand' = rand, disk' = disk, busy' = busy, pc' = "after_new",
           NEW k \in Sigs(test), k \notin DOMAIN visited, k \in NextSigs(test, curr.sig),
           DOMAIN visited' = DOMAIN visited \cup {k}, Queued(queue') = Queued(queue) \cup {k},
           JustReached(test, curr.sig, sys', ran'),
           Progress(test, DOMAIN visited', ckpts'[curr.start].data, curr, rand, "after_new", ran')
    PROVE  Diligent' /\ WStep
<1>1. /\ Kept(test, DOMAIN visited, Queued(queue) \cup busy, ran)
      /\ FilesKept(test, DOMAIN visited, disk, ran) /\ busy = {curr.sig}
      /\ curr.sig \in DOMAIN visited /\ curr.sig \notin Queued(queue)
      /\ ~Persistent => \A e \in ran : test.sig[e[1]] \in DOMAIN visited \ Queued(queue)
  BY DEF Diligent, Busy, Expanding
<1>2. /\ Todo' = Todo \cup {k} /\ curr.sig \in Todo /\ curr.sig \in Sigs(test) /\ curr.sig # k
      /\ curr.sig \in Reachable(test) /\ test \in Tests
  BY <1>1 DEF Todo, Kept, Reachable, Sane
<1>3. Kept(test, DOMAIN visited', Queued(queue') \cup busy', ran')
  <2>1. Kept(test, DOMAIN visited, Queued(queue) \cup busy, ran')
    BY <1>1, KeptMore DEF RunsOn
  <2>2. ASSUME NEW g \in DOMAIN visited', g \notin Queued(queue') \cup busy'
        PROVE  GivenUp(test, g, ran') \/ (NextSigs(test, g) \subseteq DOMAIN visited' /\ Done(test, g, ran'))
    BY <2>1, <2>2 DEF Kept
  <2>3. k \in Reachable(test)
    BY <1>2, ReachableFacts
  <2> QED
    BY <1>1, <2>2, <2>3 DEF Kept
<1>4. FilesKept(test, DOMAIN visited', disk, ran')
  BY <1>1, FilesMore DEF RunsOn
<1>5. Busy(busy', curr'.sig, skt', pc')
  BY <1>1 DEF Busy
<1>6. ~Persistent => \A e \in ran' : test.sig[e[1]] \in DOMAIN visited' \ Queued(queue')
  BY <1>1, <1>2 DEF RunsOn
<1>7. Executed(test, ran')
  BY DEF RunsOn
<1>8. Diligent'
  BY <1>1, <1>2, <1>3, <1>4, <1>5, <1>6, <1>7 DEF Diligent
<1>9. W!Find
  <2>1. Quiet(pc) /\ Quiet(pc')
    BY DEF Quiet, Finished, Replaying
  <2> QED
    BY <1>2, <2>1, FindStep
<1> QED
  BY <1>8, <1>9 DEF WStep, W!Next

\* A transition returns: what it led to is known or found, or it failed.
LEMMA DiligentReturn ==
    ASSUME NoPriority, \A t \in Tests : Alike(t), Sane, Honest, Diligent, Return
    PROVE  Diligent' /\ (MaxState = 0 => WStep)
<1>1. /\ pc = "run" /\ test' = test /\ Searching /\ disk' = disk /\ curr' = curr /\ rand' = rand
      /\ test.tree[sys][node] = 0 /\ sys' = test.to[sys][node] /\ ran' = ran \cup {<<sys, node>>}
      /\ busy' = IF pc' = "save_restart" THEN {} ELSE busy
      /\ pc \in Expanding /\ Quiet(pc)
  BY DEF Return, Searching, Replaying, Expanding, Quiet, Finished
<1> DEFINE c == ckpts[curr.start].data
<1>2. /\ test \in Tests /\ sys \in Sys /\ test.sig[sys] = curr.sig
      /\ node \in DOMAIN test.tree[sys] /\ Follows(test.tree[sys], rand) /\ At(rand, node)
      /\ c \in Sys /\ curr.trace \in Seq(Nat) /\ Leads(test, Edges(test), c, curr.trace, sys)
  BY <1>1, Running
<1>3. /\ Progress(test, DOMAIN visited, c, curr, rand, "run", ran) /\ busy = {curr.sig}
      /\ Executed(test, ran) /\ curr.sig \in DOMAIN visited
      /\ Kept(test, DOMAIN visited, Queued(queue) \cup busy, ran)
  BY <1>1 DEF Diligent, Busy
<1>4. node \in LeavesOf(test, sys) /\ <<sys, node>> \in ran'
  BY <1>1, <1>2 DEF LeavesOf
<1>5. RunsOn
  <2>1. test.sig[sys] \in Reachable(test)
    BY <1>2, <1>3 DEF Kept
  <2> QED
    BY <1>1, <1>2, <1>3, <1>4, <2>1 DEF RunsOn, Executed
<1> HIDE DEF c
<1>6. ASSUME NEW U, DOMAIN visited \subseteq U, test.ret[sys][node] = "EXIT" => test.sig[sys'] \in U,
             NEW at \in Returned
      PROVE  Progress(test, U, c, curr, rand, at, ran')
  BY <1>1, <1>2, <1>3, <1>6, ProgressReturns
<1>7. CASE test.ret[sys][node] = "EXIT" /\ Exited(sys')
  <2> DEFINE k == test.sig[sys']
  <2>1. JustReached(test, curr.sig, sys', ran')
    BY <1>1, <1>2, <1>4, <1>7 DEF JustReached
  <2>2. sys' \in Sys
    BY <1>1, <1>2, HarnessFacts
  <2>3. k \in NextSigs(test, curr.sig) /\ k \in Sigs(test)
    <3>1. k \in NextSigs(test, curr.sig)
      BY <1>1, <1>2, <1>4, <1>7 DEF NextSigs
    <3> QED
      BY <1>2, <2>2, <3>1, HarnessFacts
  <2>4. CASE IsNew(sys') /\ pc' = "stopped"
    <3>1. MaxState > 0
      BY <1>7, <2>4 DEF Exited
    <3> QED
      BY <2>4, <3>1, ConfigAssumption DEF Diligent
  <2>5. CASE IsNew(sys') /\ pc' # "stopped"
    <3>1. /\ visited' = With(visited, k, NumStates) /\ pc' = "after_new"
          /\ queue' \in Pushed(queue, Reached(sys'))
      BY <1>7, <2>5 DEF Exited
    <3>2. k \notin DOMAIN visited
      BY <1>2, <2>5 DEF IsNew, NoPriority
    <3>3. DOMAIN visited' = DOMAIN visited \cup {k}
      BY <3>1 DEF With
    <3>4. Reached(sys').sig = k
      BY DEF Reached
    <3>5. queue \in Seq(StateRecords(test))
      BY <1>1 DEF Sane, Good
    <3>6. Queued(queue') = Queued(queue) \cup {k}
      BY <1>2, <3>1, <3>4, <3>5, PushedSig
    <3>7. Progress(test, DOMAIN visited', c, curr, rand, "after_new", ran')
      BY <1>6, <3>3 DEF Returned
    <3>8. ckpts'[curr.start].data = c
      <4>1. /\ Good(test, queue, visited, ckpts) /\ curr \in StateRecords(test)
            /\ curr.start \in DOMAIN ckpts
        BY <1>1 DEF Sane
      <4>2. rand.choices \in Seq(Nat)
        BY <1>2 DEF Follows
      <4>3. ckpts'[curr.start] = ckpts[curr.start]
        BY <1>2, <1>7, <2>2, <4>1, <4>2, ExitedIsGood
      <4> QED
        BY <4>3 DEF c
    <3> HIDE DEF k
    <3> QED
      BY <1>1, <1>5, <2>1, <2>3, <3>1, <3>2, <3>3, <3>6, <3>7, <3>8, DiligentFinds
  <2>6. CASE ~IsNew(sys')
    <3>1. /\ visited' = visited /\ queue' = queue /\ ckpts' = ckpts /\ pc' = "after_new"
          /\ k \in DOMAIN visited
      BY <1>7, <2>6 DEF Exited, IsNew
    <3>2. Progress(test, DOMAIN visited, c, curr, rand, "after_new", ran')
      BY <1>6, <3>1 DEF Returned
    <3> QED
      BY <1>1, <1>2, <1>3, <1>5, <2>1, <3>1, <3>2, DiligentGoesOn DEF c
  <2> QED
    BY <2>4, <2>5, <2>6
<1>8. CASE test.ret[sys][node] # "EXIT"
  <2>1. /\ queue' = queue /\ visited' = visited /\ ckpts' = ckpts
        /\ pc' \in {"after", "stopped", "save_restart"}
        /\ pc' = "save_restart" => Persistent /\ test.ret[sys][node] \in {"BUG", "ABORT"}
    BY <1>8 DEF Return, Bug, Abort, search
  <2>2. \A at \in Returned : Progress(test, DOMAIN visited, c, curr, rand, at, ran')
    BY <1>6, <1>8
  <2>3. CASE pc' = "save_restart"
    <3>1. GivenUp(test, curr.sig, ran')
      BY <1>2, <1>4, <2>1, <2>3 DEF GivenUp, FailsIn
    <3> QED
      BY <1>1, <1>2, <1>3, <1>5, <2>1, <2>2, <2>3, <3>1, DiligentGivesUp DEF Returned, c
  <2>4. CASE pc' # "save_restart"
    BY <1>1, <1>2, <1>3, <1>5, <2>1, <2>2, <2>4, DiligentGoesOn DEF Returned, c
  <2> QED
    BY <2>3, <2>4
<1> QED
  BY <1>7, <1>8 DEF Return

\* An error that after_new_transition reports is one of the transition that led
\* to the state.
LEMMA DiligentAfterNew == ASSUME Sane, Diligent, AfterNew PROVE Diligent' /\ WStep
<1>1. /\ pc = "after_new" /\ test' = test /\ Searching /\ disk' = disk /\ curr' = curr /\ rand' = rand
      /\ queue' = queue /\ visited' = visited /\ ckpts' = ckpts /\ ran' = ran
      /\ busy' = IF pc' = "save_restart" THEN {} ELSE busy
      /\ pc' \in {"after", "stopped", "save_restart"}
      /\ pc' = "save_restart" => Persistent /\ test.check[sys] # "EXIT"
      /\ pc \in Expanding /\ Quiet(pc) /\ pc \in Returned
  BY DEF AfterNew, Bug, Abort, search, Searching, Replaying, Expanding, Returned, Quiet, Finished
<1> DEFINE c == ckpts[curr.start].data
<1>2. /\ test \in Tests /\ busy = {curr.sig} /\ JustReached(test, curr.sig, sys, ran)
      /\ Progress(test, DOMAIN visited, c, curr, rand, "after_new", ran)
      /\ Executed(test, ran)
  BY <1>1 DEF Sane, Diligent, Busy
<1> HIDE DEF c
<1>3. \A at \in Returned : Progress(test, DOMAIN visited, c, curr, rand, at, ran)
  BY <1>1, <1>2, ProgressStays
<1>4. RunsOn
  BY <1>1, <1>2 DEF RunsOn
<1>5. CASE pc' = "save_restart"
  <2>1. GivenUp(test, curr.sig, ran)
    BY <1>1, <1>2, <1>5 DEF JustReached, GivenUp, FailsIn
  <2> QED
    BY <1>1, <1>2, <1>3, <1>4, <1>5, <2>1, DiligentGivesUp DEF Returned, c
<1>6. CASE pc' # "save_restart"
  BY <1>1, <1>2, <1>3, <1>4, <1>6, DiligentGoesOn DEF Returned, c
<1> QED
  BY <1>5, <1>6

\* Nothing happens to the search after a transition.
LEMMA DiligentAfter == ASSUME Diligent, AfterTransitions PROVE Diligent' /\ WStep
<1>1. /\ test' = test /\ disk' = disk /\ Searching /\ queue' = queue /\ curr' = curr
      /\ visited' = visited /\ ckpts' = ckpts /\ rand' = rand /\ busy' = busy /\ ran' = ran /\ skt' = skt
      /\ pc = "after" /\ pc' = IF skt = "closed" THEN "dead" ELSE "repeat"
  BY DEF AfterTransitions, Searching, Replaying, search, history
<1>2. FilesKept(test, DOMAIN visited, disk, ran) /\ Busy(busy, curr.sig, skt', pc')
  BY <1>1 DEF Diligent, Busy
<1>3. /\ Diligent'
      /\ Quiet(pc) /\ Quiet(pc') => WStep
  BY <1>1, <1>2, DiligentStays DEF Expanding, Returned
<1> QED
  BY <1>1, <1>3 DEF Quiet, Finished, Replaying

\* The state is expanded when no combination of choices is left.
LEMMA DiligentRepeat ==
    ASSUME \A t \in Tests : Alike(t), Sane, Honest, Diligent, RepeatChoices
    PROVE  Diligent' /\ WStep
<1>1. /\ pc = "repeat" /\ test' = test /\ Searching /\ disk' = disk /\ curr' = curr /\ ckpts' = ckpts
      /\ queue' = queue /\ visited' = visited /\ ran' = ran /\ skt' = skt
      /\ pc \in Expanding /\ pc \in Returned
  BY DEF RepeatChoices, search, Searching, Replaying, Expanding, Returned
<1> DEFINE c == ckpts[curr.start].data
<1>2. /\ test \in Tests /\ busy = {curr.sig}
      /\ Progress(test, DOMAIN visited, c, curr, rand, "repeat", ran)
      /\ Kept(test, DOMAIN visited, Queued(queue) \cup busy, ran)
      /\ FilesKept(test, DOMAIN visited, disk, ran) /\ Executed(test, ran)
      /\ ~Persistent => \A e \in ran : test.sig[e[1]] \in DOMAIN visited \ Queued(queue)
      /\ curr.sig \in DOMAIN visited /\ curr.sig \notin Queued(queue)
  BY <1>1 DEF Sane, Diligent, Busy
<1>3. c \in Sys /\ curr.trace \in Seq(Nat)
  BY <1>1 DEF Sane, Good, StateRecords, CkptRecords
<1>4. PICK g \in Sys : Stands(test, g, curr.sig) /\ Leads(test, Known(test, DOMAIN visited), c, curr.trace, g)
  BY <1>1 DEF Honest, Regenerates
<1> HIDE DEF c
<1>5. Leads(test, Edges(test), c, curr.trace, g)
  <2> DEFINE K == Known(test, DOMAIN visited)
  <2>1. K \subseteq Edges(test)
    BY KnownFacts
  <2> HIDE DEF K
  <2> QED
    BY <1>4, <2>1, LeadsMore DEF K
<1>6. test.sig[g] = curr.sig /\ Follows(test.tree[g], rand) /\ rand.cur = Len(rand.choices)
  <2>1. PICK h \in Sys : /\ test.sig[h] = curr.sig /\ Leads(test, Edges(test), c, curr.trace, h)
                         /\ Follows(test.tree[h], rand) /\ rand.cur = Len(rand.choices)
    BY <1>1, <1>2 DEF Progress
  <2>2. h = g
    BY <1>2, <1>3, <1>5, <2>1, LeadsUnique
  <2> QED
    BY <2>1, <2>2
<1> DEFINE d == test.tree[g]
<1>7. \A q : Pends(rand, "repeat", q) <=> Before(rand.choices, q)
  BY DEF Pends, Returned
<1>8. CASE Repeats(rand)
  <2>1. rand' = Repeat(rand) /\ pc' = "set" /\ busy' = busy
    BY <1>8 DEF RepeatChoices
  <2>2. \A q \in DOMAIN d : Before(rand.choices, q) <=> ToCome(Repeat(rand), q)
    BY <1>6, <1>8, RepeatFollows
  <2>3. \A q \in LeavesOf(test, g) : Pends(rand, "repeat", q) <=> Pends(rand', "set", q)
    BY <1>7, <2>1, <2>2 DEF LeavesOf, Pends, Returned
  <2>4. Progress(test, DOMAIN visited, c, curr, rand', "set", ran)
    BY <1>2, <1>3, <1>5, <1>6, <2>3, ProgressKeeps DEF Returned
  <2>5. Diligent'
    BY <1>1, <1>2, <2>1, <2>4 DEF Diligent, Busy, c
  <2>6. Todo' = Todo
    BY <1>1, <2>1 DEF Todo
  <2> QED
    BY <1>1, <2>1, <2>5, <2>6, StutterStep DEF WStep, Quiet, Finished, Replaying
<1>9. CASE ~Repeats(rand)
  <2>1. pc' = "loop" /\ busy' = {}
    BY <1>9 DEF RepeatChoices
  <2>2. \A q \in DOMAIN d : ~Before(rand.choices, q)
    BY <1>6, <1>9, NothingToCome
  <2>3. NextSigs(test, curr.sig) \subseteq DOMAIN visited
    <3>1. ASSUME NEW h \in Sys, test.sig[h] = curr.sig, NEW q \in LeavesOf(test, h), test.ret[h][q] = "EXIT"
          PROVE  test.sig[test.to[h][q]] \in DOMAIN visited
      <4>1. q \in DOMAIN d
        BY <1>2, <1>6, <3>1, SameLeaves
      <4>2. Pends(rand, "repeat", q) \/ test.sig[test.to[h][q]] \in DOMAIN visited
        BY <1>2, <3>1 DEF Progress, Tried
      <4> QED
        BY <1>7, <2>2, <4>1, <4>2
    <3> QED
      BY <3>1 DEF NextSigs
  <2>4. Done(test, curr.sig, ran)
    <3>1. ASSUME NEW q \in LeavesOf(test, g) PROVE <<g, q>> \in ran
      <4>1. Pends(rand, "repeat", q) \/ <<g, q>> \in ran
        BY <1>2, <1>5 DEF Progress, Recorded
      <4> QED
        BY <1>7, <2>2, <4>1 DEF LeavesOf
    <3> QED
      BY <1>4, <3>1 DEF Done
  <2>5. Kept(test, DOMAIN visited, Queued(queue), ran)
    BY <1>2, <2>3, <2>4 DEF Kept
  <2>6. Queued(queue') \cup busy' = Queued(queue)
    BY <1>1, <2>1
  <2>7. Diligent'
    BY <1>1, <1>2, <2>1, <2>5, <2>6 DEF Diligent, Busy, Expanding, Returned
  <2>8. curr.sig \in Sigs(test) /\ curr.sig \in Todo /\ Todo' = Todo \ {curr.sig}
    BY <1>1, <1>2, <2>6 DEF Kept, Reachable, Todo
  <2>9. W!Finish
    BY <1>1, <1>2, <2>1, <2>3, <2>8, FinishStep DEF Quiet, Finished, Replaying
  <2> QED
    BY <2>7, <2>9 DEF WStep, W!Next
<1> QED
  BY <1>8, <1>9

\* self_checkpoint saves a search in which no state is half expanded.
LEMMA DiligentSave ==
    ASSUME Sane, Diligent, SaveOpen \/ SaveWrite \/ SaveSync
    PROVE  Diligent' /\ WStep
<1>1. /\ pc \in {"save_loop", "save_restart"} /\ Searching
  BY DEF SaveOpen, SaveWrite, SaveSync, Saving, Searching, Replaying
<1>2. /\ test' = test /\ queue' = queue /\ visited' = visited /\ ckpts' = ckpts /\ curr' = curr
      /\ rand' = rand /\ busy' = busy /\ ran' = ran /\ skt' = skt /\ pc' = pc /\ sys' = sys
  BY DEF SaveOpen, SaveWrite, SaveSync, search, history
<1>3. /\ DOMAIN disk = {"tmp", "file", "old"} /\ IsTmp(test, disk.tmp) /\ Good(test, queue, visited, ckpts)
      /\ FilesKept(test, DOMAIN visited, disk, ran) /\ Busy(busy, curr.sig, skt, pc)
      /\ Kept(test, DOMAIN visited, Queued(queue) \cup busy, ran)
  BY <1>1 DEF Sane, Diligent, DiskOK
<1>4. busy = {} /\ Kept(test, DOMAIN visited, Queued(queue), ran)
  BY <1>1, <1>3 DEF Busy
<1>5. DOMAIN visited # {}
  <2>1. CASE pc = "save_loop"
    <3>1. queue # << >> /\ queue \in Seq(StateRecords(test))
      BY <1>1, <2>1 DEF Sane, Good
    <3>2. 1 \in DOMAIN queue
      BY <3>1
    <3> QED
      BY <1>3, <3>2 DEF Good, WellFormed
  <2>2. CASE pc = "save_restart"
    BY <1>1, <2>2 DEF Diligent, Expanding, Returned
  <2> QED
    BY <1>1, <2>1, <2>2
<1>6. FilesKept(test, DOMAIN visited, disk', ran)
  <2>1. CASE SaveOpen
    <3> DEFINE f == [exists |-> TRUE, img |-> Image, len |-> 0, synced |-> FALSE]
    <3>1. disk' = [disk EXCEPT !.tmp = f]
      BY <2>1 DEF SaveOpen
    <3>2. FileKept(test, DOMAIN visited, f, ran)
      BY <1>4, <1>5 DEF FileKept, Image
    <3> HIDE DEF f
    <3> QED
      BY <1>3, <3>1, <3>2 DEF FilesKept
  <2>2. CASE SaveWrite \/ SaveSync
    <3>1. PICK f : disk' = [disk EXCEPT !.tmp = f] /\ f.exists = disk.tmp.exists /\ f.img = disk.tmp.img
      <4>1. CASE SaveWrite
        <5> DEFINE f == [disk.tmp EXCEPT !.len = @ + 1]
        <5>1. disk' = [disk EXCEPT !.tmp = f]
          BY <1>3, <4>1 DEF SaveWrite
        <5>2. f.exists = disk.tmp.exists /\ f.img = disk.tmp.img
          BY <1>3 DEF IsTmp
        <5> QED
          BY <5>1, <5>2
      <4>2. CASE SaveSync
        <5> DEFINE f == [disk.tmp EXCEPT !.synced = TRUE]
        <5>1. disk' = [disk EXCEPT !.tmp = f]
          BY <1>3, <4>2 DEF SaveSync
        <5>2. f.exists = disk.tmp.exists /\ f.img = disk.tmp.img
          BY <1>3 DEF IsTmp
        <5> QED
          BY <5>1, <5>2
      <4> QED
        BY <2>2, <4>1, <4>2
    <3> QED
      BY <1>3, <3>1 DEF FilesKept, FileKept
  <2> QED
    BY <2>1, <2>2
<1>7. /\ Diligent'
      /\ Quiet(pc) /\ Quiet(pc') => WStep
  BY <1>1, <1>2, <1>3, <1>6, DiligentStays
<1> QED
  BY <1>1, <1>2, <1>7 DEF Quiet, Finished, Replaying

\* The new file is put in place, or was never written, and the monitor told.
LEMMA DiligentSaved ==
    ASSUME Sane, Diligent, SaveRename \/ SaveOpenFails \/ Tell
    PROVE  Diligent' /\ WStep
<1>1. /\ pc \in {"save_loop", "save_restart", "tell"} /\ Searching
      /\ pc' = IF pc = "save_loop" THEN "dequeue" ELSE IF pc = "save_restart" THEN "tell" ELSE "after"
      /\ pc = "tell" => skt' = "closed"
  BY DEF SaveRename, SaveOpenFails, Tell, TellMonitor, AfterSave, Saving, Searching, Replaying
<1>2. /\ test' = test /\ queue' = queue /\ visited' = visited /\ ckpts' = ckpts /\ curr' = curr
      /\ rand' = rand /\ busy' = busy /\ ran' = ran
  BY DEF SaveRename, SaveOpenFails, Tell, search, history
<1>3. /\ DOMAIN disk = {"tmp", "file", "old"} /\ DiskOK(test, disk)
      /\ FilesKept(test, DOMAIN visited, disk, ran) /\ busy = {}
  BY <1>1 DEF Sane, Diligent, DiskOK, Busy
<1>4. FilesKept(test, DOMAIN visited, disk', ran)
  <2>1. CASE SaveRename
    <3>1. disk' = [disk EXCEPT !.file = disk.tmp, !.tmp = NoFile]
      BY <2>1 DEF SaveRename
    <3>2. FileKept(test, DOMAIN visited, NoFile, ran)
      BY DEF FileKept, NoFile
    <3> QED
      BY <1>3, <3>1, <3>2 DEF FilesKept
  <2>2. CASE SaveOpenFails
    BY <1>3, <2>2 DEF SaveOpenFails
  <2>3. CASE Tell
    BY <1>3, <2>3, TellKept DEF Tell
  <2> QED
    BY <2>1, <2>2, <2>3
<1>5. Busy(busy, curr.sig, skt', pc')
  BY <1>1, <1>3 DEF Busy
<1>6. /\ Diligent'
      /\ Quiet(pc) /\ Quiet(pc') => WStep
  BY <1>1, <1>2, <1>4, <1>5, DiligentStays DEF Expanding, Returned
<1> QED
  BY <1>1, <1>6 DEF Quiet, Finished, Replaying

\* A crash leaves the files as they are.
LEMMA DiligentCrash == ASSUME Diligent, Crash PROVE Diligent' /\ WStep
<1>1. /\ test' = test /\ queue' = queue /\ visited' = visited /\ ckpts' = ckpts /\ curr' = curr
      /\ rand' = rand /\ busy' = busy /\ ran' = ran /\ disk' = disk
      /\ pc' = "dead" /\ Quiet(pc) /\ Searching /\ pc # "stopped"
  BY DEF Crash, search, Quiet, Searching, Finished
<1>2. FilesKept(test, DOMAIN visited, disk, ran) /\ Busy(busy, curr.sig, skt', pc')
  BY <1>1 DEF Diligent, Busy
<1>3. /\ Diligent'
      /\ Quiet(pc) /\ Quiet(pc') => WStep
  BY <1>1, <1>2, DiligentStays DEF Expanding, Returned
<1> QED
  BY <1>1, <1>3 DEF Quiet, Finished, Replaying

\* A reboot takes the search back to what a file has of it.
LEMMA DiligentReboot == ASSUME Sane, Diligent, Reboot PROVE Diligent' /\ WStep
<1>1. /\ test' = test /\ test \in Tests /\ Searching /\ Quiet(pc) /\ busy' = {}
      /\ ran' = ran /\ Persistent /\ pc # "stopped"
  BY DEF Reboot, Sane, Searching, Quiet, Finished, Replaying
<1>2. PICK f \in Survivors :
        /\ disk' = [tmp |-> NoFile, file |-> f, old |-> f]
        /\ IF f.exists /\ f.len = Sections
           THEN /\ queue' = f.img.queue /\ visited' = f.img.visited
                /\ ckpts' = f.img.ckpts /\ bugs' = f.img.bugs
           ELSE queue' = << >> /\ visited' = << >> /\ ckpts' = << >> /\ bugs' = 0
        /\ pc' = IF ~f.exists THEN "start" ELSE IF f.len = Sections THEN "loop" ELSE "panic"
  BY DEF Reboot
<1>3. DiskOK(test, disk) /\ FilesKept(test, DOMAIN visited, disk, ran)
  BY <1>1 DEF Sane, Diligent
<1>4. IsFile(test, f) /\ f \in {disk.old, disk.file}
  BY <1>3, SurvivorIsFile DEF Survivors, DiskOK, IsFile
<1>5. FileKept(test, DOMAIN visited, f, ran)
  BY <1>3, <1>4 DEF FilesKept
<1>6. /\ pc' \in {"start", "loop"} /\ DOMAIN visited' \subseteq DOMAIN visited
      /\ Kept(test, DOMAIN visited', Queued(queue'), ran) /\ (pc' = "loop" => DOMAIN visited' # {})
      /\ FilesKept(test, DOMAIN visited', disk', ran)
  <2>0. FileKept(test, DOMAIN visited', NoFile, ran)
    BY DEF FileKept, NoFile
  <2>1. CASE f.exists
    <3>1. f.len = Sections /\ queue' = f.img.queue /\ visited' = f.img.visited /\ pc' = "loop"
      BY <1>2, <1>4, <2>1 DEF IsFile
    <3>2. /\ DOMAIN visited' # {} /\ DOMAIN visited' \subseteq DOMAIN visited
          /\ Kept(test, DOMAIN visited', Queued(queue'), ran)
      BY <1>5, <2>1, <3>1 DEF FileKept
    <3>3. FileKept(test, DOMAIN visited', f, ran)
      BY <3>1, <3>2 DEF FileKept
    <3> QED
      BY <1>2, <2>0, <3>1, <3>2, <3>3 DEF FilesKept
  <2>2. CASE ~f.exists
    <3>1. queue' = << >> /\ visited' = << >> /\ pc' = "start"
      BY <1>2, <2>2
    <3>2. Queued(queue') = {} /\ DOMAIN visited' = {}
      BY <3>1 DEF Queued
    <3>3. Kept(test, {}, {}, ran)
      BY DEF Kept
    <3>4. FileKept(test, DOMAIN visited', f, ran)
      BY <2>2 DEF FileKept
    <3> QED
      BY <1>2, <2>0, <3>1, <3>2, <3>3, <3>4 DEF FilesKept
  <2> QED
    BY <2>1, <2>2
<1>7. Queued(queue') \cup busy' = Queued(queue')
  BY <1>1
<1>8. Diligent'
  <2>1. Executed(test, ran)
    BY <1>1 DEF Diligent
  <2> QED
    BY <1>1, <1>6, <1>7, <2>1 DEF Diligent, Busy, Expanding, Returned
<1>9. W!Lose
  BY <1>1, <1>6, <1>7, LoseStep DEF Todo, Quiet, Finished, Replaying
<1> QED
  BY <1>8, <1>9 DEF WStep, W!Next

\* Replays are no part of the search.
LEMMA DiligentReplay == ASSUME Sane, Replay, pc' # "panic" PROVE Diligent' /\ WStep
<1>1. ~Searching' /\ test' = test
  BY SaneReplay DEF Replay, ReplayStart, ReplayOld, ReplayOldDone, ReplayNew, ReplayAfter
<1>2. pc \in {"ended", "stopped"} \cup Replaying /\ pc' \in Replaying
  BY <1>1 DEF Replay, ReplayStart, ReplayOld, ReplayOldDone, ReplayNew, ReplayAfter, Searching, Replaying
<1> QED
  BY <1>1, <1>2, AwayStep DEF Diligent, WStep, W!Next

\* Nothing of it is about the other variables.
LEMMA DiligentStutter == ASSUME Diligent, UNCHANGED vars PROVE Diligent' /\ WStep
<1>1. /\ test' = test /\ sys' = sys /\ queue' = queue /\ visited' = visited /\ ckpts' = ckpts
      /\ curr' = curr /\ rand' = rand /\ busy' = busy /\ ran' = ran /\ disk' = disk /\ skt' = skt /\ pc' = pc
  BY DEF vars, search, history
<1>2. Diligent'
  BY <1>1 DEF Diligent, Searching
<1>3. Graph' = Graph
  BY <1>1, GraphStays
<1> QED
  BY <1>1, <1>2, <1>3 DEF WStep, W!wvars

\* Every step keeps the third part of the invariant, and is one of the worklist.
LEMMA DiligentNext ==
    ASSUME NoPriority, \A t \in Tests : Faithful(t) /\ Alike(t), Sane, Honest, Diligent, [Next]_vars
    PROVE  Diligent' /\ (MaxState = 0 /\ pc' # "panic" => WStep)
<1>1. CASE Step
  BY <1>1, DiligentStart, DiligentLoop, DiligentDequeue, DiligentSetState, DiligentRegen, DiligentChoose,
     DiligentReturn, DiligentAfterNew, DiligentAfter, DiligentRepeat, DiligentSave, DiligentSaved DEF Step
<1>2. CASE Fault
  BY <1>2, DiligentSetState, DiligentSaved, DiligentCrash DEF Fault
<1>3. CASE pc' = "panic"
  BY <1>3 DEF Diligent, Searching
<1> QED
  BY <1>1, <1>2, <1>3, DiligentReboot, DiligentReplay, DiligentStutter DEF Next

\* The search with its queue, traces, checkpoints and files implements the
\* worklist: no state is dropped before all its choices have been executed, and
\* whatever file a reboot finds, the search it restores (self_restore) has lost
\* no state.
THEOREM SearchImplementsWorklist ==
    ASSUME NoPriority, \A t \in Tests : Faithful(t) /\ Alike(t), MaxState = 0
    PROVE  Spec /\ []NoPanic => ImplementsWorklist
<1> DEFINE Inv == Sane /\ Honest /\ Diligent
<1>1. Init => Inv /\ W!Init
  BY SaneInit, HonestInit, DiligentInit
<1>2. Inv /\ [Next]_vars /\ NoPanic' => Inv' /\ WStep
  <2> SUFFICES ASSUME Sane, Honest, Diligent, [Next]_vars, NoPanic' PROVE Inv' /\ WStep
    OBVIOUS
  <2>1. Sane' /\ Honest'
    BY SaneNext, HonestNext
  <2>2. Diligent' /\ WStep
    BY DiligentNext DEF NoPanic
  <2> QED
    BY <2>1, <2>2
<1> HIDE DEF Inv
<1> QED
  BY <1>1, <1>2, PTL DEF Spec, ImplementsWorklist, W!Spec, WStep

-----------------------------------------------------------------------------
(* The search executes every transition, and none twice                      *)

\* The three parts of the invariant hold together.
THEOREM DiligenceInvariance ==
    ASSUME NoPriority, \A t \in Tests : Faithful(t) /\ Alike(t)
    PROVE  Spec => [](Sane /\ Honest /\ Diligent)
<1> DEFINE Inv == Sane /\ Honest /\ Diligent
<1>1. Init => Inv
  BY SaneInit, HonestInit, DiligentInit
<1>2. Inv /\ [Next]_vars => Inv'
  BY SaneNext, HonestNext, DiligentNext
<1> HIDE DEF Inv
<1>3. Spec => []Inv
  BY <1>1, <1>2, PTL DEF Spec
<1> QED
  BY <1>3 DEF Inv

\* At the end all that can be reached has been found and executed, unless an
\* execution failed.
LEMMA AllIsDone ==
    ASSUME Sane, Diligent, pc = "ended", \A k : ~GivenUp(test, k, ran), StartsInInit(test)
    PROVE  Complete
<1> DEFINE V == DOMAIN visited
<1>1. /\ test \in Tests /\ Kept(test, V, Queued(queue) \cup busy, ran) /\ Executed(test, ran)
      /\ busy = {} /\ queue = << >> /\ V # {}
  BY DEF Sane, Diligent, Searching, Replaying, Busy
<1>2. Queued(queue) \cup busy = {}
  BY <1>1 DEF Queued
<1> HIDE DEF V
<1>3. /\ test.sig[test.raw] \in V /\ V \subseteq Reachable(test)
      /\ \A k \in V : NextSigs(test, k) \subseteq V /\ Done(test, k, ran)
  BY <1>1, <1>2 DEF Kept
<1>4. Reachable(test) \subseteq V
  <2>1. ClosedSigs(test, V) /\ V \in SUBSET Sigs(test)
    BY <1>3 DEF ClosedSigs, Reachable
  <2> QED
    BY <2>1 DEF Reachable
<1>5. \A h : Covered(h) <=> \A p \in LeavesOf(test, h) : <<h, p>> \in ran
  BY DEF Covered, Leaves, LeavesOf
<1>6. Covered(test.init)
  <2>1. PICK g \in Sys : /\ Stands(test, g, test.sig[test.raw])
                         /\ \A p \in LeavesOf(test, g) : <<g, p>> \in ran
    BY <1>3 DEF Done
  <2>2. g = test.init
    BY <2>1, SMTT(30) DEF Stands, Origin, StartsInInit
  <2> QED
    BY <1>5, <2>1, <2>2
<1>7. ASSUME NEW e \in ran, test.ret[e[1]][e[2]] = "EXIT"
      PROVE  \E h \in Sys : test.sig[h] = test.sig[test.to[e[1]][e[2]]] /\ Covered(h)
  <2> DEFINE k == test.sig[test.to[e[1]][e[2]]]
  <2>1. e[1] \in Sys /\ e[2] \in LeavesOf(test, e[1]) /\ test.sig[e[1]] \in V
    BY <1>1, <1>4 DEF Executed
  <2>2. k \in NextSigs(test, test.sig[e[1]])
    BY <1>7, <2>1 DEF NextSigs
  <2>3. Done(test, k, ran)
    BY <1>3, <2>1, <2>2
  <2> QED
    BY <1>5, <2>3 DEF Done, Stands
<1> QED
  BY <1>6, <1>7 DEF Complete

\* Without restarts the search executes every transition of the initial state
\* and of the states it leads to, whatever errors it meets, as long as it stops
\* for no limit (run_search, EnumRandom::repeat, get_state).
THEOREM SearchIsComplete ==
    ASSUME NoPriority, \A t \in Tests : Faithful(t) /\ Alike(t), \A t \in Tests : StartsInInit(t),
           ~Persistent
    PROVE  Spec => []Complete
<1>1. Sane /\ Honest /\ Diligent => Complete
  <2> SUFFICES ASSUME Sane, Diligent, pc = "ended" PROVE Complete
    BY DEF Complete
  <2>1. StartsInInit(test) /\ \A k : ~GivenUp(test, k, ran)
    BY DEF Sane, GivenUp
  <2> QED
    BY <2>1, AllIsDone
<1> QED
  BY <1>1, DiligenceInvariance, PTL

\* With crashes, reboots from the checkpoint file and restarts on request it
\* still does, as long as no execution failed (self_checkpoint, self_restore).
THEOREM NoChoiceIsLost ==
    ASSUME NoPriority, \A t \in Tests : Faithful(t) /\ Alike(t), \A t \in Tests : StartsInInit(t)
    PROVE  Spec => []CompleteWithoutErrors
<1>1. Sane /\ Honest /\ Diligent => CompleteWithoutErrors
  <2> SUFFICES ASSUME Sane, Diligent, pc = "ended", ~Failed PROVE Complete
    BY DEF Complete, CompleteWithoutErrors
  <2>1. StartsInInit(test)
    BY SMTT(30) DEF Sane
  <2>2. ASSUME NEW k, GivenUp(test, k, ran) PROVE FALSE
    <3>1. PICK h \in Sys : \E p \in LeavesOf(test, h) : FailsIn(test, h, p) /\ <<h, p>> \in ran
      BY <2>2 DEF GivenUp
    <3>2. PICK p \in LeavesOf(test, h) : FailsIn(test, h, p) /\ <<h, p>> \in ran
      BY <3>1
    <3> DEFINE e == <<h, p>>
    <3>3. e \in ran /\ e[1] = h /\ e[2] = p
      BY <3>2
    <3> HIDE DEF e
    <3> QED
      BY <3>2, <3>3 DEF FailsIn, Failed
  <2> QED
    BY <2>1, <2>2, AllIsDone
<1> QED
  BY <1>1, DiligenceInvariance, PTL

\* Without restarts no transition is executed twice: regeneration replays the
\* choices of a state and repeat() never returns to a combination.
THEOREM NoTransitionRunsTwice ==
    ASSUME NoPriority, \A t \in Tests : Faithful(t) /\ Alike(t), ~Persistent
    PROVE  Spec => NoTransitionTwice
<1>1. Sane /\ Honest /\ Diligent /\ [Next]_vars => [Return => <<sys, node>> \notin ran]_vars
  <2> SUFFICES ASSUME Sane, Honest, Diligent, Return, <<sys, node>> \in ran PROVE FALSE
    OBVIOUS
  <2>1. pc = "run" /\ Searching /\ test.tree[sys][node] = 0
    BY DEF Return, Searching, Replaying
  <2>2. /\ test.sig[sys] = curr.sig /\ node \in DOMAIN test.tree[sys]
        /\ Follows(test.tree[sys], rand) /\ At(rand, node)
    BY <2>1, Running
  <2>3. Fresh(test, curr.sig, rand, "run", ran)
    BY <2>1 DEF Diligent, Expanding, Progress
  <2>4. ToCome(rand, node)
    BY <2>1, <2>2, LeafReached
  <2> DEFINE e == <<sys, node>>
  <2>5. e \in ran /\ e[1] = sys /\ e[2] = node
    OBVIOUS
  <2> HIDE DEF e
  <2> QED
    BY <2>2, <2>3, <2>4, <2>5 DEF Fresh, Pends, Returned
<1> QED
  BY <1>1, DiligenceInvariance, PTL DEF Spec, NoTransitionTwice

-----------------------------------------------------------------------------
(* What the abstract search promises, whatever it implements it: graphs of     *)
(* any size, finite or infinite, and any number of reboots.                    *)

\* Every step of the abstract search preserves its invariant.
LEMMA WorklistStep ==
    ASSUME W!WInv, [W!Next]_(W!wvars)
    PROVE  W!WInv'
<1>1. CASE W!Begin
  BY <1>1 DEF W!Begin, W!WInv, W!Expanded
<1>2. CASE W!Find
  BY <1>2 DEF W!Find, W!WInv, W!Expanded
<1>3. CASE W!Finish
  BY <1>3 DEF W!Finish, W!WInv, W!Expanded
<1>4. CASE W!Lose
  BY <1>4 DEF W!Lose, W!WInv, W!Expanded
<1>5. CASE W!End
  BY <1>5 DEF W!End, W!WInv, W!Expanded
<1>6. CASE W!Stop
  BY <1>6 DEF W!Stop, W!WInv, W!Expanded
<1>7. CASE W!Leave
  BY <1>7 DEF W!Leave, W!WInv, W!Expanded
<1>8. CASE UNCHANGED W!wvars
  BY <1>8 DEF W!wvars, W!WInv, W!Expanded
<1> QED
  BY <1>1, <1>2, <1>3, <1>4, <1>5, <1>6, <1>7, <1>8 DEF W!Next

\* The invariant holds of every abstract search, reboots included.
THEOREM WorklistInvariance == W!Spec => []W!WInv
<1>1. W!Init => W!WInv
  BY DEF W!Init, W!WInv
<1>2. W!WInv /\ [W!Next]_(W!wvars) => W!WInv'
  BY WorklistStep
<1> QED
  BY <1>1, <1>2, PTL DEF W!Spec

\* A search that ended by itself has found everything, however often a reboot
\* took it back: mcl/ModelChecker.C's loop, by way of the abstract search that
\* it implements.
THEOREM WorklistIsExhaustive ==
    ASSUME NoPriority, \A t \in Tests : Faithful(t) /\ Alike(t), MaxState = 0
    PROVE  Spec /\ []NoPanic => []W!Exhaustive
<1>1. W!WInv => W!Exhaustive
  BY DEF W!WInv, W!Exhaustive
<1> QED
  BY <1>1, SearchImplementsWorklist, WorklistInvariance, PTL DEF ImplementsWorklist

-----------------------------------------------------------------------------
(* The trace files, for harnesses in which states of the same signature      *)
(* behave alike: what is stored replays to the error                         *)

Exits(t) == {e \in Edges(t) : t.ret[e[1]][e[2]] = "EXIT"}

\* The edges through known states return normally.
LEMMA ExitsFacts ==
    ASSUME NEW t, NEW V
    PROVE  Exits(t) \subseteq Edges(t) /\ Known(t, V) \subseteq Exits(t)
BY DEF Exits, Known

\* Two lists of choices, one after the other.
LEMMA LeadsJoin ==
    ASSUME NEW t \in Tests, NEW E, E \subseteq Edges(t),
           NEW h \in Sys, NEW tr \in Seq(Nat), NEW g \in Sys, Leads(t, E, h, tr, g),
           NEW w \in Seq(Nat), NEW k \in Sys, Leads(t, E, g, w, k)
    PROVE  Leads(t, E, h, tr \o w, k)
<1> DEFINE P(x, u, y) == y = g => Leads(t, E, x, u \o w, k)
           R == {z \in Triples : P(z[1], z[2], z[3])}
<1>1. \A x \in Sys, u \in Seq(Nat), y \in Sys : <<x, u, y>> \in R <=> P(x, u, y)
  BY DEF Triples
<1>2. R \in SUBSET Triples
  OBVIOUS
<1>3. ASSUME NEW x \in Sys PROVE <<x, << >>, x>> \in R
  <2>1. << >> \o w = w /\ << >> \in Seq(Nat)
    OBVIOUS
  <2>2. P(x, << >>, x)
    BY <2>1
  <2> HIDE DEF P, R
  <2> QED
    BY <1>1, <2>1, <2>2
<1>4. ASSUME NEW e \in E, NEW u \in Seq(Nat), NEW y \in Sys, e[2] \o u # << >>,
             <<Target(t, e), u, y>> \in R
      PROVE  <<e[1], e[2] \o u, y>> \in R
  <2>1. e[1] \in Sys /\ e[2] \in Seq(Nat) /\ Target(t, e) \in Sys
    BY HarnessFacts DEF Edges
  <2>2. e[2] \o u \in Seq(Nat) /\ u \o w \in Seq(Nat)
    BY <2>1
  <2>3. P(Target(t, e), u, y)
    BY <1>1, <1>4, <2>1
  <2>4. P(e[1], e[2] \o u, y)
    <3> SUFFICES ASSUME y = g PROVE Leads(t, E, e[1], (e[2] \o u) \o w, k)
      OBVIOUS
    <3>1. (e[2] \o u) \o w = e[2] \o (u \o w)
      BY <2>1, Regroup, ZenonT(30)
    <3>2. Leads(t, E, Target(t, e), u \o w, k)
      BY <2>3
    <3>3. e[2] \o (u \o w) # << >>
      <4> DEFINE a == e[2] \o u
      <4>1. a \in Seq(Nat) /\ a # << >>
        BY <1>4, <2>2
      <4> HIDE DEF a
      <4>2. Len(a \o w) = Len(a) + Len(w) /\ Len(a) \in Nat /\ Len(w) \in Nat /\ Len(a) # 0
        BY <4>1
      <4>3. a \o w # << >>
        BY <4>2
      <4> QED
        BY <3>1, <4>3 DEF a
    <3>4. Leads(t, E, e[1], e[2] \o (u \o w), k)
      BY <2>2, <3>2, <3>3, LeadsFront
    <3> QED
      BY <3>1, <3>4
  <2> HIDE DEF P, R
  <2> QED
    BY <1>1, <2>1, <2>2, <2>4
<1> HIDE DEF R, P
<1>5. Closed(t, E, R)
  BY <1>3, <1>4 DEF Closed
<1>6. P(h, tr, g)
  BY <1>1, <1>2, <1>5 DEF Leads
<1> QED
  BY <1>6 DEF P

\* From states of the same signature the same choices lead to states of the
\* same signature.
LEMMA LeadsAlike ==
    ASSUME NEW t \in Tests, Alike(t),
           NEW h \in Sys, NEW tr \in Seq(Nat), NEW g \in Sys, Leads(t, Exits(t), h, tr, g),
           NEW k \in Sys, t.sig[k] = t.sig[h]
    PROVE  \E y \in Sys : t.sig[y] = t.sig[g] /\ Leads(t, Exits(t), k, tr, y)
<1> DEFINE E == Exits(t)
           P(x, u, y) == \A z \in Sys : t.sig[z] = t.sig[x] =>
                           \E v \in Sys : t.sig[v] = t.sig[y] /\ Leads(t, E, z, u, v)
           R == {z \in Triples : P(z[1], z[2], z[3])}
<1>0. E \subseteq Edges(t)
  BY ExitsFacts
<1>1. \A x \in Sys, u \in Seq(Nat), y \in Sys : <<x, u, y>> \in R <=> P(x, u, y)
  BY DEF Triples
<1>2. R \in SUBSET Triples
  OBVIOUS
<1>3. ASSUME NEW x \in Sys PROVE <<x, << >>, x>> \in R
  <2>1. << >> \in Seq(Nat)
    OBVIOUS
  <2> HIDE DEF E
  <2>2. P(x, << >>, x)
    BY LeadsNil
  <2> HIDE DEF P, R
  <2> QED
    BY <1>1, <2>1, <2>2
<1>4. ASSUME NEW e \in E, NEW u \in Seq(Nat), NEW y \in Sys, e[2] \o u # << >>,
             <<Target(t, e), u, y>> \in R
      PROVE  <<e[1], e[2] \o u, y>> \in R
  <2>1. /\ e[1] \in Sys /\ e[2] \in Seq(Nat) /\ Target(t, e) \in Sys
        /\ e[2] \in DOMAIN t.tree[e[1]] /\ t.tree[e[1]][e[2]] = 0 /\ t.ret[e[1]][e[2]] = "EXIT"
    BY HarnessFacts DEF Edges, Exits
  <2>2. e[2] \o u \in Seq(Nat)
    BY <2>1
  <2>3. P(Target(t, e), u, y)
    BY <1>1, <1>4, <2>1
  <2>4. ASSUME NEW z \in Sys, t.sig[z] = t.sig[e[1]]
        PROVE  \E v \in Sys : t.sig[v] = t.sig[y] /\ Leads(t, E, z, e[2] \o u, v)
    <3> DEFINE f == <<z, e[2]>>
    <3>1. /\ e[2] \in DOMAIN t.tree[z] /\ t.tree[z][e[2]] = 0 /\ t.ret[z][e[2]] = "EXIT"
          /\ t.sig[t.to[z][e[2]]] = t.sig[t.to[e[1]][e[2]]] /\ t.to[z][e[2]] \in Sys
      <4>1. t.tree[z] = t.tree[e[1]]
        BY <2>1, <2>4 DEF Alike
      <4>2. e[2] \in DOMAIN t.tree[z] /\ t.tree[z][e[2]] = 0
        BY <2>1, <4>1
      <4>3. t.ret[z][e[2]] = "EXIT" /\ t.sig[t.to[z][e[2]]] = t.sig[t.to[e[1]][e[2]]]
        BY <2>1, <2>4, <4>2 DEF Alike
      <4> QED
        BY <4>2, <4>3, HarnessFacts
    <3>2. f \in E /\ f[1] = z /\ f[2] = e[2] /\ Target(t, f) \in Sys
          /\ t.sig[Target(t, f)] = t.sig[Target(t, e)]
      BY <2>1, <3>1 DEF Exits, Edges, Target
    <3>3. PICK v \in Sys : t.sig[v] = t.sig[y] /\ Leads(t, E, Target(t, f), u, v)
      BY <2>3, <3>2
    <3> HIDE DEF E, f
    <3>4. Leads(t, E, f[1], f[2] \o u, v)
      BY <1>4, <3>2, <3>3, LeadsFront
    <3> QED
      BY <3>2, <3>3, <3>4
  <2>5. P(e[1], e[2] \o u, y)
    BY <2>4
  <2> HIDE DEF P, R
  <2> QED
    BY <1>1, <2>1, <2>2, <2>5
<1> HIDE DEF R, P, E
<1>5. Closed(t, E, R)
  BY <1>3, <1>4 DEF Closed
<1>6. P(h, tr, g)
  BY <1>1, <1>2, <1>5 DEF Leads, E
<1> QED
  BY <1>6 DEF P, E

\* PathTo, for a table of checkpoints.
PathOf(cks) ==
    CHOOSE f : f = [id \in DOMAIN cks |->
                      IF id = 0 THEN cks[0].trace ELSE f[cks[id].parent_id] \o cks[id].trace]

\* The path to a checkpoint is the path to its parent and its own choices.
LEMMA PathStep ==
    ASSUME NEW cks, NEW N \in Nat, DOMAIN cks \subseteq 0 .. N,
           \A id \in DOMAIN cks : /\ cks[id].parent_id \in DOMAIN cks
                                  /\ id # 0 => cks[id].parent_id < id
    PROVE  PathOf(cks) = [id \in DOMAIN cks |->
                            IF id = 0 THEN cks[0].trace
                            ELSE PathOf(cks)[cks[id].parent_id] \o cks[id].trace]
<1> DEFINE D(n) == {id \in DOMAIN cks : id <= n}
           Op(a, id) == a \o cks[id].trace
           par(id) == cks[id].parent_id
           Rec(f, n) == f = [id \in D(n) |-> IF id = 0 THEN cks[0].trace ELSE Op(f[par(id)], id)]
           S == {n \in Nat : \E f : Rec(f, n)}
<1> HIDE DEF Op
<1>0. /\ \A id \in DOMAIN cks : id \in Nat /\ par(id) \in DOMAIN cks /\ (id # 0 => par(id) < id)
  OBVIOUS
<1>1. 0 \in S
  <2> DEFINE f == [id \in D(0) |-> cks[0].trace]
             h == [id \in D(0) |-> IF id = 0 THEN cks[0].trace ELSE Op(f[par(id)], id)]
  <2>1. \A id \in D(0) : id = 0
    BY <1>0
  <2>2. f = h
    BY <2>1
  <2>3. Rec(f, 0)
    BY <2>2
  <2> HIDE DEF f, Rec
  <2> QED
    BY <2>3
<1>2. ASSUME NEW n \in Nat, n \in S PROVE n + 1 \in S
  <2>1. PICK f : Rec(f, n)
    BY <1>2
  <2> DEFINE g == [id \in D(n + 1) |-> IF id = n + 1 THEN Op(f[par(n + 1)], n + 1) ELSE f[id]]
             h == [id \in D(n + 1) |-> IF id = 0 THEN cks[0].trace ELSE Op(g[par(id)], id)]
  <2> HIDE DEF par
  <2>2. ASSUME NEW id \in D(n + 1) PROVE g[id] = h[id]
    <3>0. id \in Nat /\ id \in DOMAIN cks /\ id <= n + 1
      BY <1>0
    <3>1. CASE id = n + 1
      <4>1. id # 0 /\ par(id) \in D(n + 1) /\ par(id) # n + 1
        BY <1>0, <3>0, <3>1
      <4>2. g[par(id)] = f[par(id)] /\ g[id] = Op(f[par(id)], id)
        BY <3>1, <4>1
      <4> QED
        BY <4>1, <4>2
    <3>2. CASE id # n + 1
      <4>1. id \in D(n) /\ g[id] = f[id]
        BY <3>0, <3>2
      <4>2. CASE id = 0
        <5>1. f[id] = cks[0].trace
          BY <2>1, <4>1, <4>2
        <5> QED
          BY <4>1, <4>2, <5>1
      <4>3. CASE id # 0
        <5>1. par(id) \in D(n + 1) /\ par(id) # n + 1
          BY <1>0, <3>0, <4>1, <4>3
        <5>2. g[par(id)] = f[par(id)]
          BY <5>1
        <5>3. f[id] = Op(f[par(id)], id)
          BY <2>1, <4>1, <4>3
        <5> QED
          BY <4>1, <4>3, <5>2, <5>3
      <4> QED
        BY <4>2, <4>3
    <3> QED
      BY <3>1, <3>2
  <2>3. g = h
    BY <2>2
  <2>4. Rec(g, n + 1)
    BY <2>3
  <2> HIDE DEF g, Rec
  <2>5. \E e : Rec(e, n + 1)
    BY <2>4
  <2>6. n + 1 \in Nat
    OBVIOUS
  <2> QED
    BY <2>5, <2>6, Zenon
<1> HIDE DEF S
<1>3. N \in S
  BY <1>1, <1>2, Induction
<1>4. \E f : Rec(f, N)
  BY <1>3 DEF S
<1>5. D(N) = DOMAIN cks
  OBVIOUS
<1>6. PathOf(cks) = CHOOSE f : Rec(f, N)
  BY <1>5 DEF PathOf, Op
<1>7. Rec(PathOf(cks), N)
  BY <1>4, <1>6
<1> QED
  BY <1>5, <1>7 DEF Op

\* The choices of a checkpoint lead from its parent to a state of its signature.
Linked(t, cks) ==
    \A id \in DOMAIN cks :
      /\ id = 0 => cks[0].trace = << >> /\ cks[0].data = Origin(t)
      /\ id # 0 => \E g \in Sys : /\ t.sig[g] = t.sig[cks[id].data]
                                  /\ Leads(t, Exits(t), cks[cks[id].parent_id].data, cks[id].trace, g)

\* The path to a checkpoint leads from the initial state to one of its signature.
LEMMA PathLeads ==
    ASSUME NEW t \in Tests, Alike(t), NEW q, NEW vis, NEW cks, Good(t, q, vis, cks), Linked(t, cks)
    PROVE  \A id \in DOMAIN cks :
             /\ PathOf(cks)[id] \in Seq(Nat)
             /\ \E g \in Sys : /\ t.sig[g] = t.sig[cks[id].data]
                               /\ Leads(t, Exits(t), Origin(t), PathOf(cks)[id], g)
<1> DEFINE E == Exits(t)
           path == PathOf(cks)
           P(id) == /\ path[id] \in Seq(Nat)
                    /\ \E g \in Sys : t.sig[g] = t.sig[cks[id].data] /\ Leads(t, E, Origin(t), path[id], g)
           S == {n \in Nat : \A id \in DOMAIN cks : id <= n => P(id)}
<1>0. /\ E \subseteq Edges(t) /\ Origin(t) \in Sys
      /\ \A id \in DOMAIN cks : /\ cks[id].data \in Sys /\ cks[id].trace \in Seq(Nat) /\ id \in Nat
                                /\ cks[id].parent_id \in DOMAIN cks
                                /\ id # 0 => cks[id].parent_id < id
  <2>1. E \subseteq Edges(t) /\ Origin(t) \in Sys
    BY ExitsFacts, HarnessFacts DEF Origin
  <2>2. DOMAIN cks \subseteq Nat
    BY DEF Good, WellFormed
  <2>3. \A id \in DOMAIN cks : /\ cks[id].data \in Sys /\ cks[id].trace \in Seq(Nat)
                               /\ cks[id].parent_id \in DOMAIN cks
                               /\ id # 0 => cks[id].parent_id < id
    BY DEF Good, WellFormed, CkptRecords
  <2> QED
    BY <2>1, <2>2, <2>3
<1>1. path = [id \in DOMAIN cks |-> IF id = 0 THEN cks[0].trace
                                    ELSE path[cks[id].parent_id] \o cks[id].trace]
  <2>1. DOMAIN cks \subseteq 0 .. (Cardinality(DOMAIN vis) - 1) /\ Cardinality(DOMAIN vis) \in Nat
    BY FS_CardinalityType DEF Good, WellFormed
  <2>2. DOMAIN cks \subseteq 0 .. Cardinality(DOMAIN vis)
    BY <2>1
  <2> QED
    BY <1>0, <2>1, <2>2, PathStep
<1>z. ASSUME NEW id \in DOMAIN cks, id = 0 PROVE P(id)
  <2>1. path[id] = << >> /\ cks[id].data = Origin(t) /\ << >> \in Seq(Nat)
    BY <1>1, <1>z DEF Linked
  <2>2. Leads(t, E, Origin(t), << >>, Origin(t))
    BY <1>0, LeadsNil
  <2> HIDE DEF path, E
  <2> QED
    BY <1>0, <2>1, <2>2
<1>s. ASSUME NEW id \in DOMAIN cks, id # 0, P(cks[id].parent_id) PROVE P(id)
  <2> DEFINE up == cks[id].parent_id
             a == path[up]
             b == cks[id].trace
  <2>1. path[id] = a \o b /\ b \in Seq(Nat) /\ up \in DOMAIN cks /\ cks[up].data \in Sys
    BY <1>0, <1>1, <1>s
  <2>2. PICK g \in Sys : t.sig[g] = t.sig[cks[up].data] /\ Leads(t, E, Origin(t), a, g) /\ a \in Seq(Nat)
    BY <1>s
  <2>3. PICK k \in Sys : t.sig[k] = t.sig[cks[id].data] /\ Leads(t, E, cks[up].data, b, k)
    BY <1>s DEF Linked
  <2> HIDE DEF a, b, up
  <2>4. PICK y \in Sys : t.sig[y] = t.sig[k] /\ Leads(t, E, g, b, y)
    BY <2>1, <2>2, <2>3, LeadsAlike
  <2> HIDE DEF E
  <2>5. Leads(t, E, Origin(t), a \o b, y)
    BY <1>0, <2>1, <2>2, <2>4, LeadsJoin
  <2>6. a \o b \in Seq(Nat)
    BY <2>1, <2>2
  <2>7. y \in Sys /\ t.sig[y] = t.sig[cks[id].data]
    BY <2>3, <2>4
  <2> HIDE DEF path
  <2> QED
    BY <2>1, <2>5, <2>6, <2>7, ZenonT(30)
<1> HIDE DEF path, P
<1>2. 0 \in S
  <2>1. \A id \in DOMAIN cks : id <= 0 => id = 0
    BY <1>0
  <2> QED
    BY <1>z, <2>1
<1>3. ASSUME NEW n \in Nat, n \in S PROVE n + 1 \in S
  <2>1. ASSUME NEW id \in DOMAIN cks, id <= n + 1 PROVE P(id)
    <3>1. CASE id = 0
      BY <1>z, <3>1
    <3>2. CASE id # 0
      <4>1. cks[id].parent_id \in DOMAIN cks /\ cks[id].parent_id <= n
        BY <1>0, <2>1, <3>2
      <4>2. P(cks[id].parent_id)
        BY <1>3, <4>1
      <4> QED
        BY <1>s, <3>2, <4>2
    <3> QED
      BY <3>1, <3>2
  <2> QED
    BY <2>1
<1> HIDE DEF S
<1>4. \A n \in Nat : n \in S
  BY <1>2, <1>3, Induction
<1>5. ASSUME NEW id \in DOMAIN cks PROVE P(id)
  <2>1. id \in Nat /\ id \in S /\ id <= id
    BY <1>0, <1>4
  <2> QED
    BY <2>1 DEF S
<1> QED
  BY <1>5 DEF P, path

\* The transition of g that makes the choices p is in error.
IsBug(t, g, p) ==
    /\ p \in DOMAIN t.tree[g] /\ t.tree[g][p] = 0
    /\ t.ret[g][p] = "BUG" \/ (t.ret[g][p] = "EXIT" /\ t.check[t.to[g][p]] = "BUG")

\* The trace leads to a state from which its last choices are in error.
TraceGood(t, tr) ==
    /\ tr.old \in Seq(Nat)
    /\ \E g \in Sys : Leads(t, Exits(t), Origin(t), tr.old, g) /\ IsBug(t, g, tr.new)

\* What store_trace_file writes for an error of the state being expanded.
LEMMA TraceIsGood ==
    ASSUME NEW t \in Tests, Alike(t), AlikeChecks(t), NEW q, NEW vis, NEW cks,
           Good(t, q, vis, cks), Linked(t, cks),
           NEW st \in DOMAIN cks, NEW tr \in Seq(Nat), NEW g \in Sys,
           Leads(t, Exits(t), cks[st].data, tr, g), NEW p, IsBug(t, g, p)
    PROVE  TraceGood(t, [old |-> PathOf(cks)[st] \o tr, new |-> p])
<1> DEFINE a == PathOf(cks)[st]
           E == Exits(t)
<1>1. PICK y \in Sys : a \in Seq(Nat) /\ t.sig[y] = t.sig[cks[st].data] /\ Leads(t, E, Origin(t), a, y)
  BY PathLeads
<1>2. E \subseteq Edges(t) /\ Origin(t) \in Sys /\ cks[st].data \in Sys
  BY ExitsFacts, HarnessFacts DEF Origin, Good, CkptRecords
<1> HIDE DEF a
<1>3. PICK v \in Sys : t.sig[v] = t.sig[g] /\ Leads(t, E, y, tr, v)
  BY <1>1, <1>2, LeadsAlike
<1> HIDE DEF E
<1>4. Leads(t, E, Origin(t), a \o tr, v)
  BY <1>1, <1>2, <1>3, LeadsJoin
<1>5. IsBug(t, v, p)
  <2>1. t.to[g][p] \in Sys /\ t.to[v][p] \in Sys
    BY <1>3, HarnessFacts DEF IsBug, Alike
  <2> QED
    BY <1>3, <2>1 DEF IsBug, Alike, AlikeChecks
<1>6. a \o tr \in Seq(Nat)
  BY <1>1
<1> QED
  BY <1>3, <1>4, <1>5, <1>6 DEF TraceGood, E, a

FileLinked(t, f) == f.exists => Linked(t, f.img.ckpts)

FilesLinked(t, d) == FileLinked(t, d.tmp) /\ FileLinked(t, d.file) /\ FileLinked(t, d.old)

\* The transition that has just returned normally started in g.
CameFrom(t, c, tr, p, s, g) ==
    /\ Leads(t, Exits(t), c, tr, g) /\ p \in DOMAIN t.tree[g] /\ t.tree[g][p] = 0
    /\ t.ret[g][p] = "EXIT" /\ s = t.to[g][p]

Traced ==
    /\ \A k \in DOMAIN traces : TraceGood(test, traces[k])
    /\ Searching => /\ Linked(test, ckpts) /\ FilesLinked(test, disk)
                    /\ pc = "after_new" =>
                         \E g \in Sys : CameFrom(test, ckpts[curr.start].data, curr.trace,
                                                 rand.choices, sys, g)
    /\ pc = "replay_old" =>
         /\ sys \in Sys /\ rest \in Seq(Nat)
         /\ \E g \in Sys : Leads(test, Exits(test), sys, rest, g) /\ IsBug(test, g, node)
    /\ pc = "replay_new" => sys \in Sys /\ IsBug(test, sys, node)
    /\ pc = "replay_after" => test.check[sys] = "BUG"
    /\ BugReplays

\* Nothing is stored at first.
LEMMA TracedInit == ASSUME Init PROVE Traced
<1>1. /\ traces = << >> /\ ckpts = << >> /\ pc = "start"
      /\ disk = [tmp |-> NoFile, file |-> NoFile, old |-> NoFile]
  BY DEF Init
<1>2. DOMAIN traces = {} /\ DOMAIN ckpts = {}
  BY <1>1
<1> QED
  BY <1>1, <1>2 DEF Traced, Linked, FilesLinked, FileLinked, NoFile, BugReplays

\* Nothing of it is about the other variables.
LEMMA TracedStutter == ASSUME Traced, UNCHANGED vars PROVE Traced'
<1>1. /\ test' = test /\ sys' = sys /\ ckpts' = ckpts /\ disk' = disk /\ curr' = curr
      /\ rest' = rest /\ node' = node /\ rand' = rand /\ pc' = pc /\ traces' = traces
      /\ result' = result
  BY DEF vars, search, history
<1> QED
  BY <1>1 DEF Traced, Searching, BugReplays

\* A step of the search that adds no checkpoint and stores no trace.
LEMMA TracedStays ==
    ASSUME Traced, Searching, Searching', pc' # "after_new", test' = test, ckpts' = ckpts,
           traces' = traces, FilesLinked(test, disk')
    PROVE  Traced'
BY DEF Traced, Searching, Replaying, BugReplays

\* The initial checkpoint.
LEMMA TracedStart == ASSUME Sane, Traced, Start PROVE Traced'
<1>1. /\ pc = "start" /\ pc' = "loop" /\ test' = test /\ disk' = disk /\ Searching
      /\ traces' = traces
  BY DEF Start, Searching, Replaying, history
<1>2. test \in Tests /\ sys = test.raw /\ ckpts = << >>
  BY <1>1 DEF Sane
<1> DEFINE c == [data |-> Saved(sys), parent_id |-> 0, trace |-> << >>]
<1>3. ckpts' = With(<< >>, 0, c)
  BY <1>2 DEF Start
<1>4. c.data = Origin(test) /\ c.trace = << >>
  BY <1>2 DEF Saved, Origin
<1> HIDE DEF c
<1>5. DOMAIN ckpts' = {0} /\ ckpts'[0] = c
  BY <1>3 DEF With
<1>6. Linked(test, ckpts')
  BY <1>4, <1>5 DEF Linked
<1> QED
  BY <1>1, <1>6 DEF Traced, Searching, Replaying, BugReplays

\* sync() makes the new directory entry the durable one.
LEMMA TellLinks ==
    ASSUME DiskOK(test, disk), FilesLinked(test, disk), TellMonitor
    PROVE  FilesLinked(test, disk')
BY DEF TellMonitor, FilesLinked, DiskOK

\* The steps that neither add a checkpoint nor store a trace.
LEMMA TracedQuiet ==
    ASSUME Sane, Traced,
           Loop \/ Dequeue \/ SetState \/ Regen \/ Choose \/ AfterTransitions \/ RepeatChoices
             \/ Tell \/ ScheduleRestart
    PROVE  Traced'
<1>1. Searching /\ test' = test /\ ckpts' = ckpts /\ traces' = traces
  BY DEF Loop, Dequeue, SetState, Regen, Choose, AfterTransitions, RepeatChoices, Tell,
         ScheduleRestart, search, history, Searching, Replaying, Finished
<1>2. pc' \notin Replaying \cup {"after_new"}
  BY DEF Loop, Dequeue, SetState, Regen, Choose, AfterTransitions, RepeatChoices, Tell,
         ScheduleRestart, Replaying, Finished
<1>3. DiskOK(test, disk) /\ FilesLinked(test, disk)
  BY <1>1 DEF Sane, Traced
<1>4. disk' = disk \/ TellMonitor
  BY DEF Loop, Dequeue, SetState, Regen, Choose, AfterTransitions, RepeatChoices, Tell,
         ScheduleRestart
<1>5. FilesLinked(test, disk')
  BY <1>3, <1>4, TellLinks
<1>6. CASE pc' = "panic"
  BY <1>1, <1>6 DEF Traced, Searching, Replaying, BugReplays
<1>7. CASE pc' # "panic"
  BY <1>1, <1>2, <1>5, <1>7, TracedStays DEF Searching
<1> QED
  BY <1>6, <1>7

\* self_checkpoint saves the checkpoints it has.
LEMMA TracedSave ==
    ASSUME Sane, Traced, SaveOpen \/ SaveWrite \/ SaveSync \/ SaveRename \/ SaveOpenFails
    PROVE  Traced'
<1>1. /\ pc \in {"save_loop", "save_restart"} /\ Searching /\ test' = test /\ ckpts' = ckpts
      /\ traces' = traces
  BY DEF SaveOpen, SaveWrite, SaveSync, SaveRename, SaveOpenFails, Saving, Searching, Replaying,
         search, history
<1>2. pc' \in {"save_loop", "save_restart", "dequeue", "tell"}
  BY <1>1 DEF SaveOpen, SaveWrite, SaveSync, SaveRename, SaveOpenFails, AfterSave
<1>3. /\ DOMAIN disk = {"tmp", "file", "old"} /\ IsTmp(test, disk.tmp)
      /\ FilesLinked(test, disk) /\ Linked(test, ckpts)
  BY <1>1 DEF Sane, Traced, DiskOK
<1>4. FilesLinked(test, disk')
  <2>1. CASE SaveOpen
    <3> DEFINE f == [exists |-> TRUE, img |-> Image, len |-> 0, synced |-> FALSE]
    <3>1. disk' = [disk EXCEPT !.tmp = f]
      BY <2>1 DEF SaveOpen
    <3>2. FileLinked(test, f)
      BY <1>3 DEF FileLinked, Image
    <3> HIDE DEF f
    <3> QED
      BY <1>3, <3>1, <3>2 DEF FilesLinked
  <2>2. CASE SaveWrite
    <3> DEFINE f == [disk.tmp EXCEPT !.len = @ + 1]
    <3>1. disk' = [disk EXCEPT !.tmp = f]
      BY <1>3, <2>2 DEF SaveWrite
    <3>2. f.exists = disk.tmp.exists /\ f.img = disk.tmp.img
      BY <1>3 DEF IsTmp
    <3> HIDE DEF f
    <3> QED
      BY <1>3, <3>1, <3>2 DEF FilesLinked, FileLinked
  <2>3. CASE SaveSync
    <3> DEFINE f == [disk.tmp EXCEPT !.synced = TRUE]
    <3>1. disk' = [disk EXCEPT !.tmp = f]
      BY <1>3, <2>3 DEF SaveSync
    <3>2. f.exists = disk.tmp.exists /\ f.img = disk.tmp.img
      BY <1>3 DEF IsTmp
    <3> HIDE DEF f
    <3> QED
      BY <1>3, <3>1, <3>2 DEF FilesLinked, FileLinked
  <2>4. CASE SaveRename
    <3>1. disk' = [disk EXCEPT !.file = disk.tmp, !.tmp = NoFile]
      BY <2>4 DEF SaveRename
    <3>2. FileLinked(test, NoFile)
      BY DEF FileLinked, NoFile
    <3> QED
      BY <1>3, <3>1, <3>2 DEF FilesLinked
  <2>5. CASE SaveOpenFails
    BY <1>3, <2>5 DEF SaveOpenFails
  <2> QED
    BY <2>1, <2>2, <2>3, <2>4, <2>5
<1> QED
  BY <1>1, <1>2, <1>4, TracedStays DEF Searching, Replaying

\* A machine that stops loses unsynced traces and changes none.
LEMMA PowerLossKeeps ==
    ASSUME PowerLoss
    PROVE  /\ \A k \in DOMAIN traces' : k \in DOMAIN traces /\ traces'[k] = traces[k]
           /\ \A k \in DOMAIN traces : k \in DOMAIN traces' \/ k \in Unsynced
<1>1. PICK lost \in SUBSET Unsynced : traces' = [k \in DOMAIN traces \ lost |-> traces[k]]
  BY DEF PowerLoss
<1> QED
  BY <1>1

\* The traces that a crash leaves.
LEMMA TracedCrash == ASSUME Traced, Crash PROVE Traced'
<1>1. /\ test' = test /\ ckpts' = ckpts /\ disk' = disk /\ pc' = "dead" /\ Searching
  BY DEF Crash, search, Searching, Finished
<1>2. \A k \in DOMAIN traces' : k \in DOMAIN traces /\ traces'[k] = traces[k]
  BY PowerLossKeeps DEF Crash
<1>3. \A k \in DOMAIN traces' : TraceGood(test, traces'[k])
  BY <1>2 DEF Traced
<1> QED
  BY <1>1, <1>3 DEF Traced, Searching, Replaying, BugReplays

\* The checkpoints that a reboot loads.
LEMMA TracedReboot == ASSUME Sane, Traced, Reboot PROVE Traced'
<1>0. \A k \in DOMAIN traces' : k \in DOMAIN traces /\ traces'[k] = traces[k]
  BY PowerLossKeeps DEF Reboot
<1>1. test' = test /\ \A k \in DOMAIN traces' : TraceGood(test, traces'[k])
  BY <1>0 DEF Reboot, Traced
<1>2. Searching
  BY DEF Reboot, Searching, Finished, Replaying
<1>3. PICK f \in Survivors :
        /\ disk' = [tmp |-> NoFile, file |-> f, old |-> f]
        /\ IF f.exists /\ f.len = Sections
           THEN ckpts' = f.img.ckpts
           ELSE ckpts' = << >>
        /\ pc' = IF ~f.exists THEN "start" ELSE IF f.len = Sections THEN "loop" ELSE "panic"
  BY DEF Reboot
<1>4. DiskOK(test, disk) /\ FilesLinked(test, disk)
  BY <1>2 DEF Sane, Traced
<1>5. f \in {disk.old, disk.file}
  BY <1>4 DEF Survivors, DiskOK, IsFile
<1>6. FileLinked(test, f) /\ FileLinked(test, NoFile)
  BY <1>4, <1>5 DEF FilesLinked, FileLinked, NoFile
<1>7. FilesLinked(test, disk')
  BY <1>3, <1>6 DEF FilesLinked
<1>8. Linked(test, ckpts')
  <2>1. CASE f.exists /\ f.len = Sections
    BY <1>3, <1>6, <2>1 DEF FileLinked
  <2>2. CASE ~(f.exists /\ f.len = Sections)
    <3>1. DOMAIN ckpts' = {}
      BY <1>3, <2>2
    <3> QED
      BY <3>1 DEF Linked
  <2> QED
    BY <2>1, <2>2
<1>9. pc' \in {"start", "loop", "panic"}
  BY <1>3
<1> QED
  BY <1>1, <1>7, <1>8, <1>9 DEF Traced, Searching, Replaying, BugReplays

\* A trace is stored.
LEMMA TracedBug ==
    ASSUME test \in Tests, Alike(test), AlikeChecks(test), Searching, Traced,
           Good(test, queue, visited, ckpts), curr \in StateRecords(test),
           curr.start \in DOMAIN ckpts, NEW g \in Sys,
           Leads(test, Exits(test), ckpts[curr.start].data, curr.trace, g),
           IsBug(test, g, rand.choices), Bug, test' = test, disk' = disk
    PROVE  Traced'
<1> DEFINE r == [old |-> PathOf(ckpts)[curr.start] \o curr.trace, new |-> rand.choices]
<1>1. Linked(test, ckpts) /\ FilesLinked(test, disk) /\ curr.trace \in Seq(Nat)
  BY DEF Traced, StateRecords
<1>2. TraceGood(test, r)
  BY <1>1, TraceIsGood
<1>3. PathTo = PathOf(ckpts)
  BY DEF PathTo, PathOf
<1>4. traces' = With(traces, bugs, r) /\ ckpts' = ckpts /\ pc' \in {"stopped", "save_restart", "after"}
  BY <1>3 DEF Bug, Trace
<1> HIDE DEF r
<1>5. \A k \in DOMAIN traces' : TraceGood(test, traces'[k])
  BY <1>2, <1>4 DEF With, Traced
<1> QED
  BY <1>1, <1>4, <1>5 DEF Traced, Searching, Replaying, BugReplays

\* The error is found by the hook.
LEMMA TracedAfterNew ==
    ASSUME Sane, Traced, \A t \in Tests : Alike(t) /\ AlikeChecks(t), AfterNew
    PROVE  Traced'
<1>1. /\ pc = "after_new" /\ Searching /\ test' = test /\ disk' = disk /\ test \in Tests
  BY DEF AfterNew, Searching, Replaying, Sane
<1>2. /\ Good(test, queue, visited, ckpts) /\ curr \in StateRecords(test)
      /\ curr.start \in DOMAIN ckpts /\ FilesLinked(test, disk)
  BY <1>1 DEF Sane, Traced, Expanding, Returned
<1>3. PICK g \in Sys : CameFrom(test, ckpts[curr.start].data, curr.trace, rand.choices, sys, g)
  BY <1>1 DEF Traced
<1>4. CASE test.check[sys] = "BUG" /\ Bug
  <2>1. IsBug(test, g, rand.choices)
    BY <1>3, <1>4 DEF IsBug, CameFrom
  <2> QED
    BY <1>1, <1>2, <1>3, <1>4, <2>1, TracedBug DEF CameFrom
<1>5. CASE ckpts' = ckpts /\ traces' = traces /\ pc' \in {"after", "save_restart"}
  BY <1>1, <1>2, <1>5, TracedStays DEF Searching, Replaying
<1> QED
  BY <1>4, <1>5 DEF AfterNew, Abort, search

\* The checkpoint of a new state is linked to that of the state it was reached from.
LEMMA ExitedLinks ==
    ASSUME NoPriority, test \in Tests, Faithful(test), Good(test, queue, visited, ckpts),
           Linked(test, ckpts), sys \in Sys,
           curr \in StateRecords(test), curr.start \in DOMAIN ckpts,
           Leads(test, Exits(test), ckpts[curr.start].data, curr.trace, sys),
           node \in DOMAIN test.tree[sys], test.tree[sys][node] = 0, test.ret[sys][node] = "EXIT",
           node = rand.choices, Exited(test.to[sys][node])
    PROVE  Linked(test, ckpts')
<1> DEFINE h == test.to[sys][node]
           n == NumStates
           tr == curr.trace \o rand.choices
           c == [data |-> Saved(h), parent_id |-> curr.start, trace |-> tr]
           E == Exits(test)
           b == ckpts[curr.start].data
<1>0. /\ h \in Sys /\ node \in Seq(Nat) /\ node # << >> /\ b \in Sys /\ curr.trace \in Seq(Nat)
      /\ E \subseteq Edges(test) /\ <<sys, node>> \in E
  <2>1. h \in Sys /\ node \in Seq(Nat) /\ node # << >>
    BY HarnessFacts DEF Faithful
  <2>2. b \in Sys /\ curr.trace \in Seq(Nat)
    BY DEF Good, CkptRecords, StateRecords
  <2>3. E \subseteq Edges(test)
    BY ExitsFacts
  <2>4. <<sys, node>> \in E
    BY <2>1 DEF Exits, Edges
  <2> QED
    BY <2>1, <2>2, <2>3, <2>4
<1>1. CASE ckpts' = ckpts
  BY <1>1
<1>2. CASE h \in test.save /\ ckpts' = With(ckpts, n, c)
  <2>1. n \notin DOMAIN ckpts /\ n # 0
    <3>1. DOMAIN ckpts \subseteq 0 .. (n - 1) /\ n \in Nat
      BY FS_CardinalityType DEF Good, WellFormed, NumStates
    <3> QED
      BY <3>1
  <2>2. test.sig[Saved(h)] = test.sig[h]
    BY <1>2 DEF Faithful, Saved
  <2>3. c.data = Saved(h) /\ c.parent_id = curr.start /\ c.trace = tr
    OBVIOUS
  <2> HIDE DEF E, b, c, n
  <2>4. Leads(test, E, b, tr, h)
    BY <1>0, LeadsBack DEF E, b
  <2>5. DOMAIN ckpts' = DOMAIN ckpts \cup {n} /\ ckpts'[n] = c /\ \A x \in DOMAIN ckpts : ckpts'[x] = ckpts[x]
    BY <1>2, <2>1 DEF With
  <2> HIDE DEF tr, h
  <2>6. \A id \in DOMAIN ckpts : ckpts[id].parent_id \in DOMAIN ckpts
    BY DEF Good, WellFormed
  <2>7. ASSUME NEW id \in DOMAIN ckpts', id # 0
        PROVE  \E g \in Sys : /\ test.sig[g] = test.sig[ckpts'[id].data]
                              /\ Leads(test, E, ckpts'[ckpts'[id].parent_id].data, ckpts'[id].trace, g)
    <3>1. CASE id = n
      BY <1>0, <2>2, <2>3, <2>4, <2>5, <3>1 DEF b
    <3>2. CASE id # n
      BY <2>5, <2>6, <2>7, <3>2 DEF Linked, E
    <3> QED
      BY <3>1, <3>2
  <2>8. ASSUME NEW id \in DOMAIN ckpts', id = 0
        PROVE  ckpts'[0].trace = << >> /\ ckpts'[0].data = Origin(test)
    BY <2>1, <2>5, <2>8 DEF Linked
  <2> QED
    BY <2>7, <2>8 DEF Linked, E
<1> QED
  BY <1>1, <1>2 DEF Exited, Checkpointed

\* A transition returns.
LEMMA TracedReturn ==
    ASSUME NoPriority, \A t \in Tests : Faithful(t) /\ Alike(t) /\ AlikeChecks(t),
           Sane, Honest, Traced, Return
    PROVE  Traced'
<1>1. /\ pc = "run" /\ test' = test /\ Searching /\ disk' = disk /\ curr' = curr /\ rand' = rand
      /\ test.tree[sys][node] = 0 /\ sys' = test.to[sys][node]
  BY DEF Return, Searching, Replaying
<1> DEFINE c == ckpts[curr.start].data
           E == Known(test, DOMAIN visited)
<1>2. /\ test \in Tests /\ sys \in Sys /\ Good(test, queue, visited, ckpts)
      /\ curr \in StateRecords(test) /\ curr.start \in DOMAIN ckpts
      /\ Course(test, c, curr.trace, sys, rest, node, rand, "run")
      /\ Regenerates(test, DOMAIN visited, c, curr, sys, rest, "run")
      /\ Linked(test, ckpts) /\ FilesLinked(test, disk)
  BY <1>1 DEF Sane, Honest, Traced, Expanding
<1>3. node \in DOMAIN test.tree[sys] /\ node = rand.choices /\ rand.choices \in Seq(Nat)
  <2> HIDE DEF c
  <2>1. /\ node \in DOMAIN test.tree[sys] /\ node = rand.choices /\ rand.choices \in Seq(Nat)
        /\ Leads(test, Edges(test), c, curr.trace, sys)
        /\ \A h, x, y, at : at \in Returned => Course(test, c, curr.trace, h, x, y, rand, at)
    BY <1>1, <1>2, CourseReturns
  <2> QED
    BY <2>1
<1>4. Leads(test, Exits(test), c, curr.trace, sys)
  <2>1. Leads(test, E, c, curr.trace, sys) /\ E \subseteq Exits(test)
    BY <1>2, ExitsFacts DEF Regenerates
  <2> HIDE DEF E, c
  <2> QED
    BY <2>1, LeadsMore
<1>5. CASE test.ret[sys][node] = "EXIT" /\ Exited(sys')
  <2>1. Linked(test, ckpts')
    BY <1>1, <1>2, <1>3, <1>4, <1>5, ExitedLinks
  <2>2. sys' \in Sys
    BY <1>1, <1>2, <1>3, HarnessFacts
  <2>3. ckpts'[curr.start] = ckpts[curr.start] /\ pc' \in {"stopped", "after_new"} /\ traces' = traces
    BY <1>2, <1>3, <1>5, <2>2, ExitedIsGood DEF Exited
  <2>4. CameFrom(test, ckpts'[curr.start].data, curr.trace, rand.choices, sys', sys)
    BY <1>1, <1>3, <1>4, <1>5, <2>3 DEF CameFrom
  <2> QED
    BY <1>1, <1>2, <2>1, <2>3, <2>4 DEF Traced, Searching, Replaying, BugReplays
<1>6. CASE test.ret[sys][node] = "BUG" /\ Bug
  <2>1. IsBug(test, sys, rand.choices)
    BY <1>1, <1>3, <1>6 DEF IsBug
  <2> QED
    BY <1>1, <1>2, <1>4, <1>6, <2>1, TracedBug
<1>7. CASE ckpts' = ckpts /\ traces' = traces /\ pc' \in {"after", "save_restart"}
  BY <1>1, <1>2, <1>7, TracedStays DEF Searching, Replaying
<1> QED
  BY <1>5, <1>6, <1>7 DEF Return, Abort, search

\* A trace file is loaded.
LEMMA TracedReplayStart == ASSUME Sane, Traced, ReplayStart PROVE Traced'
<1>1. test' = test /\ traces' = traces /\ sys' = Saved(test.raw) /\ test \in Tests
  BY DEF ReplayStart, history, Sane
<1>2. PICK k \in DOMAIN traces :
        /\ rest' = traces[k].old /\ node' = traces[k].new
        /\ pc' = IF traces[k].old = << >> THEN "replay_new" ELSE "replay_old"
  BY DEF ReplayStart
<1>3. sys' = Origin(test) /\ sys' \in Sys
  BY <1>1, HarnessFacts DEF Saved, Origin
<1>4. PICK g \in Sys : /\ rest' \in Seq(Nat) /\ Leads(test, Exits(test), sys', rest', g)
                       /\ IsBug(test, g, node')
  BY <1>2, <1>3 DEF Traced, TraceGood
<1>5. Exits(test) \subseteq Edges(test)
  BY ExitsFacts
<1> DEFINE E == Exits(test)
<1> HIDE DEF E
<1>6. rest' = << >> => g = sys'
  BY <1>1, <1>3, <1>4, <1>5, LeadsNone DEF E
<1> QED
  BY <1>1, <1>2, <1>3, <1>4, <1>6 DEF Traced, Searching, Replaying, BugReplays

\* What replaying the transition p of the state the system is in does.
LEMMA ReplayOneIs ==
    ASSUME test \in Tests, sys \in Sys, NEW cs \in Seq(Nat), NEW exited, NEW failed,
           ReplayOne(cs, exited, failed),
           NEW p \in DOMAIN test.tree[sys], test.tree[sys][p] = 0, CanReplay(p, cs)
    PROVE  /\ sys' = test.to[sys][p] /\ rest' = Replayed(p, cs)
           /\ result' = IF test.ret[sys][p] = "BUG" THEN "bug" ELSE result
           /\ test.ret[sys][p] = "EXIT" => pc' \in {"panic", exited}
           /\ test.ret[sys][p] = "BUG" => pc' = failed
<1>1. p \in Leaves(sys) /\ IsTree(test.tree[sys])
  BY HarnessFacts DEF Leaves
<1>2. \A q \in Leaves(sys) : CanReplay(q, cs) => q = p
  BY <1>1, OneLeaf DEF Leaves
<1>3. (CHOOSE q \in Leaves(sys) : CanReplay(q, cs)) = p
  BY <1>1, <1>2
<1> QED
  BY <1>1, <1>3 DEF ReplayOne

\* The choices up to the state in which the error was found.
LEMMA TracedReplayOld == ASSUME Sane, Traced, ReplayOld PROVE Traced'
<1>1. /\ pc = "replay_old" /\ rest # << >> /\ ReplayOne(rest, "replay_old", "replay_old")
      /\ test' = test /\ traces' = traces /\ node' = node /\ test \in Tests
  BY DEF ReplayOld, history, Sane
<1> DEFINE E == Exits(test)
<1>2. PICK g \in Sys : /\ sys \in Sys /\ rest \in Seq(Nat) /\ Leads(test, E, sys, rest, g)
                       /\ IsBug(test, g, node)
  BY <1>1 DEF Traced
<1>3. E \subseteq Edges(test) /\ \A e \in E : test.ret[e[1]][e[2]] = "EXIT"
  BY DEF Exits
<1> HIDE DEF E
<1>4. PICK p \in DOMAIN test.tree[sys] : test.tree[sys][p] = 0 /\ CanReplay(p, rest)
  BY <1>1, <1>2, <1>3, ReplayFinds
<1>5. <<sys, p>> \in E /\ Leads(test, E, test.to[sys][p], Replayed(p, rest), g)
  BY <1>1, <1>2, <1>3, <1>4, ReplayStep
<1>6. test.ret[sys][p] = "EXIT" /\ p \in Seq(Nat) /\ test.to[sys][p] \in Sys
  BY <1>1, <1>2, <1>3, <1>4, <1>5, HarnessFacts
<1>7. Replayed(p, rest) \in Seq(Nat)
  BY <1>2, <1>4, <1>6, RestAfter
<1>8. sys' = test.to[sys][p] /\ rest' = Replayed(p, rest) /\ pc' \in {"panic", "replay_old"}
  BY <1>1, <1>2, <1>4, <1>6, ReplayOneIs
<1> QED
  BY <1>1, <1>2, <1>5, <1>6, <1>7, <1>8 DEF Traced, Searching, Replaying, BugReplays, E

\* They are all played back.
LEMMA TracedReplayOldDone == ASSUME Sane, Traced, ReplayOldDone PROVE Traced'
<1>1. /\ pc = "replay_old" /\ rest = << >> /\ pc' = "replay_new" /\ sys' = sys
      /\ test' = test /\ traces' = traces /\ node' = node /\ test \in Tests
  BY DEF ReplayOldDone, history, Sane
<1> DEFINE E == Exits(test)
<1>2. PICK g \in Sys : /\ sys \in Sys /\ rest \in Seq(Nat) /\ Leads(test, E, sys, rest, g)
                       /\ IsBug(test, g, node)
  BY <1>1 DEF Traced
<1>3. E \subseteq Edges(test)
  BY ExitsFacts
<1> HIDE DEF E
<1>4. g = sys
  BY <1>1, <1>2, <1>3, LeadsNone
<1> QED
  BY <1>1, <1>2, <1>4 DEF Traced, Searching, Replaying, BugReplays

\* The failing transition itself.
LEMMA TracedReplayNew ==
    ASSUME \A t \in Tests : Faithful(t), Sane, Traced, ReplayNew
    PROVE  Traced'
<1>1. pc = "replay_new" /\ test' = test /\ traces' = traces /\ node' = node /\ test \in Tests
  BY DEF ReplayNew, history, Sane
<1>2. sys \in Sys /\ IsBug(test, sys, node)
  BY <1>1 DEF Traced
<1>3. node \in DOMAIN test.tree[sys] /\ test.tree[sys][node] = 0 /\ node \in Seq(Nat) /\ node # << >>
  BY <1>1, <1>2, HarnessFacts DEF IsBug, Faithful
<1>4. CanReplay(node, node)
  BY <1>3 DEF CanReplay
<1>5. ReplayOne(node, "replay_after", "replayed")
  BY <1>3 DEF ReplayNew
<1>6. /\ sys' = test.to[sys][node]
      /\ result' = IF test.ret[sys][node] = "BUG" THEN "bug" ELSE result
      /\ test.ret[sys][node] = "EXIT" => pc' \in {"panic", "replay_after"}
      /\ test.ret[sys][node] = "BUG" => pc' = "replayed"
  BY <1>1, <1>2, <1>3, <1>4, <1>5, ReplayOneIs
<1>7. CASE test.ret[sys][node] = "BUG"
  BY <1>1, <1>6, <1>7 DEF Traced, Searching, Replaying, BugReplays
<1>8. CASE test.ret[sys][node] = "EXIT" /\ test.check[test.to[sys][node]] = "BUG"
  BY <1>1, <1>6, <1>8 DEF Traced, Searching, Replaying, BugReplays
<1> QED
  BY <1>2, <1>7, <1>8 DEF IsBug

\* The hook that found it.
LEMMA TracedReplayAfter == ASSUME Traced, ReplayAfter PROVE Traced'
<1>1. /\ pc = "replay_after" /\ pc' = "replayed" /\ test' = test /\ traces' = traces
      /\ result' = IF test.check[sys] = "BUG" THEN "bug" ELSE result
  BY DEF ReplayAfter, history
<1> QED
  BY <1>1 DEF Traced, Searching, Replaying, BugReplays

\* Every step keeps what the stored traces lead to.
LEMMA TracedNext ==
    ASSUME NoPriority, \A t \in Tests : Faithful(t) /\ Alike(t) /\ AlikeChecks(t),
           Sane, Honest, Traced, [Next]_vars
    PROVE  Traced'
<1>1. CASE Step
  BY <1>1, TracedStart, TracedQuiet, TracedReturn, TracedAfterNew, TracedSave DEF Step
<1>2. CASE Fault
  BY <1>2, TracedQuiet, TracedSave, TracedCrash DEF Fault
<1>3. CASE Replay
  BY <1>3, TracedReplayStart, TracedReplayOld, TracedReplayOldDone, TracedReplayNew,
     TracedReplayAfter DEF Replay
<1> QED
  BY <1>1, <1>2, <1>3, TracedReboot, TracedStutter DEF Next

\* The trace file that store_trace_file writes, along the parent links of the
\* checkpoints and whatever was rebooted in between, reproduces the error when
\* replay_trace_file plays it back: the checker is never left without it.
\* States of the same signature have to behave alike, since a signature is all
\* that regeneration and checkpoints bring back.
THEOREM StoredTracesReplay ==
    ASSUME NoPriority, \A t \in Tests : Faithful(t) /\ Alike(t) /\ AlikeChecks(t)
    PROVE  Spec => []BugReplays
<1> DEFINE Inv == Sane /\ Honest /\ Traced
<1>1. Init => Inv
  BY SaneInit, HonestInit, TracedInit
<1>2. Inv /\ [Next]_vars => Inv'
  BY SaneNext, HonestNext, TracedNext
<1>3. Inv => BugReplays
  BY DEF Traced
<1> QED
  BY <1>1, <1>2, <1>3, PTL DEF Spec

-----------------------------------------------------------------------------
(* Trace files are never overwritten, for every harness.  The search is      *)
(* deterministic: whatever is saved, lost and restored, it goes on along the *)
(* same run, on which each number of errors is reached once.                 *)

Img(q, vis, cks, b) == [queue |-> q, visited |-> vis, ckpts |-> cks, bugs |-> b]

\* A configuration: the search state, the phase, and what the phase goes on from.
Conf(img, at, cr, r, s, rs, nd) ==
    [img |-> img, at |-> at, curr |-> cr, rand |-> r, sys |-> s, rest |-> rs, node |-> nd]

Between(img, at, cr, r) == Conf(img, at, cr, r, 0, 0, 0)
Loops(img) == Between(img, "loop", 0, 0)
Begins == Between(Img(<< >>, << >>, << >>, 0), "start", 0, 0)

\* An error or an abort: a persistent checker leaves the state.
Gives(c, b) ==
    LET img == Img(c.img.queue, c.img.visited, c.img.ckpts, b)
    IN  IF Persistent THEN Loops(img) ELSE Between(img, "after", c.curr, c.rand)

\* The state that is pushed and the checkpoint that is taken.
Queues(t, c, h) ==
    LET n == Cardinality(DOMAIN c.img.visited)
        s == IF h \in t.save
             THEN [id |-> n, start |-> n, sig |-> t.sig[h], trace |-> << >>]
             ELSE [id |-> n, start |-> c.curr.start, sig |-> t.sig[h],
                   trace |-> c.curr.trace \o c.rand.choices]
    IN  IF t.queue = "bfs" THEN Append(c.img.queue, s) ELSE <<s>> \o c.img.queue

Saves(t, c, h) ==
    IF h \in t.save
    THEN With(c.img.ckpts, Cardinality(DOMAIN c.img.visited),
              [data |-> IF t.stateful THEN h ELSE t.init, parent_id |-> c.curr.start,
               trace |-> c.curr.trace \o c.rand.choices])
    ELSE c.img.ckpts

Finds(t, c, h) ==
    IF t.sig[h] \in DOMAIN c.img.visited THEN c.img
    ELSE Img(Queues(t, c, h), With(c.img.visited, t.sig[h], Cardinality(DOMAIN c.img.visited)),
             Saves(t, c, h), c.img.bugs)

Returns(t, c) ==
    LET h == t.to[c.sys][c.node]
        ret == t.ret[c.sys][c.node]
    IN  CASE ret = "EXIT" -> Conf(Finds(t, c, h), "after_new", c.curr, c.rand, h, 0, 0)
          [] ret = "SKIP" -> Between(c.img, "after", c.curr, c.rand)
          [] ret = "BUG" -> Gives(c, c.img.bugs + 1)
          [] OTHER -> Gives(c, c.img.bugs)

Checks(t, c) ==
    CASE t.check[c.sys] = "EXIT" -> Between(c.img, "after", c.curr, c.rand)
      [] t.check[c.sys] = "BUG" -> Gives(c, c.img.bugs + 1)
      [] OTHER -> Gives(c, c.img.bugs)

Chooses(t, c) ==
    LET n == t.tree[c.sys][c.node]
    IN  Conf(c.img, "run", c.curr, EnumRandom(c.rand, n), c.sys, c.rest,
             Append(c.node, EnumValue(c.rand, n)))

\* The transition that is played back.
Fit(t, s, rs) == CHOOSE p \in LeavesOf(t, s) : CanReplay(p, rs)

PlaysBack(t, c) ==
    LET p == Fit(t, c.sys, c.rest)
        rs == Replayed(p, c.rest)
    IN  Conf(c.img, IF rs = << >> THEN "run" ELSE "regen", c.curr, c.rand, t.to[c.sys][p], rs, c.node)

First(t, c) ==
    LET s == [id |-> 0, start |-> 0, sig |-> t.sig[t.raw], trace |-> << >>]
    IN  Loops(Img(<<s>>, With(<< >>, t.sig[t.raw], 0),
                  With(<< >>, 0, [data |-> Origin(t), parent_id |-> 0, trace |-> << >>]),
                  c.img.bugs))

Takes(c) == Between(Img(Tail(c.img.queue), c.img.visited, c.img.ckpts, c.img.bugs), "set",
                    Head(c.img.queue), EnumReset)

Restores(c) == Conf(c.img, IF c.curr.trace = << >> THEN "run" ELSE "regen", c.curr, c.rand,
                    c.img.ckpts[c.curr.start].data, c.curr.trace, << >>)

Again(c) == IF Repeats(c.rand) THEN Between(c.img, "set", c.curr, Repeat(c.rand)) ELSE Loops(c.img)

\* The step of the search from a configuration.
Det(t, c) ==
    CASE c.at = "start" -> First(t, c)
      [] c.at = "loop" -> Takes(c)
      [] c.at = "set" -> Restores(c)
      [] c.at = "regen" -> PlaysBack(t, c)
      [] c.at = "run" /\ t.tree[c.sys][c.node] # 0 -> Chooses(t, c)
      [] c.at = "run" /\ t.tree[c.sys][c.node] = 0 -> Returns(t, c)
      [] c.at = "after_new" -> Checks(t, c)
      [] c.at = "after" -> Between(c.img, "repeat", c.curr, c.rand)
      [] OTHER -> Again(c)

\* The steps with which an error is stored, and what is stored.
Stores(t, c) ==
    \/ c.at = "run" /\ t.tree[c.sys][c.node] = 0 /\ t.ret[c.sys][c.node] = "BUG"
    \/ c.at = "after_new" /\ t.check[c.sys] = "BUG"

TraceOf(c) == [old |-> PathOf(c.img.ckpts)[c.curr.start] \o c.curr.trace, new |-> c.rand.choices]

\* The number of errors goes up when an error is stored, and only then.
LEMMA DetCounts ==
    ASSUME NEW t, NEW c
    PROVE  Det(t, c).img.bugs = IF Stores(t, c) THEN c.img.bugs + 1 ELSE c.img.bugs
<1>1. CASE c.at = "start"
  BY <1>1 DEF Det, First, Loops, Between, Conf, Img, Stores
<1>2. CASE c.at = "loop"
  BY <1>2 DEF Det, Takes, Between, Conf, Img, Stores
<1>3. CASE c.at = "set"
  BY <1>3 DEF Det, Restores, Conf, Stores
<1>4. CASE c.at = "regen"
  BY <1>4 DEF Det, PlaysBack, Conf, Stores
<1>5. CASE c.at = "run" /\ t.tree[c.sys][c.node] # 0
  BY <1>5 DEF Det, Chooses, Conf, Stores
<1>6. CASE c.at = "run" /\ t.tree[c.sys][c.node] = 0
  <2>1. Det(t, c) = Returns(t, c) /\ (Stores(t, c) <=> t.ret[c.sys][c.node] = "BUG")
    BY <1>6 DEF Det, Stores
  <2>2. Gives(c, c.img.bugs).img.bugs = c.img.bugs /\ Gives(c, c.img.bugs + 1).img.bugs = c.img.bugs + 1
    BY DEF Gives, Loops, Between, Conf, Img
  <2>3. Finds(t, c, t.to[c.sys][c.node]).bugs = c.img.bugs
    BY DEF Finds, Img
  <2> QED
    BY <2>1, <2>2, <2>3 DEF Returns, Between, Conf
<1>7. CASE c.at = "after_new"
  <2>1. Det(t, c) = Checks(t, c) /\ (Stores(t, c) <=> t.check[c.sys] = "BUG")
    BY <1>7 DEF Det, Stores
  <2>2. Gives(c, c.img.bugs).img.bugs = c.img.bugs /\ Gives(c, c.img.bugs + 1).img.bugs = c.img.bugs + 1
    BY DEF Gives, Loops, Between, Conf, Img
  <2> QED
    BY <2>1, <2>2 DEF Checks, Between, Conf
<1>8. CASE c.at = "after"
  BY <1>8 DEF Det, Between, Conf, Stores
<1>9. CASE c.at \notin {"start", "loop", "set", "regen", "run", "after_new", "after"}
  BY <1>9 DEF Det, Again, Loops, Between, Conf, Stores
<1> QED
  BY <1>1, <1>2, <1>3, <1>4, <1>5, <1>6, <1>7, <1>8, <1>9

\* The configurations of the first n steps.
IsRun(t, f, n) == f[0] = Begins /\ \A i \in 0 .. (n - 1) : f[i + 1] = Det(t, f[i])

OnRun(t, c) == \E n \in Nat : \E f : IsRun(t, f, n) /\ f[n] = c

\* The run begins ...
LEMMA RunBegins == ASSUME NEW t PROVE OnRun(t, Begins)
<1> DEFINE f == [i \in {0} |-> Begins]
<1>1. IsRun(t, f, 0) /\ f[0] = Begins
  BY DEF IsRun
<1> HIDE DEF f
<1> QED
  BY <1>1 DEF OnRun

\* ... and goes on.
LEMMA RunGoesOn == ASSUME NEW t, NEW c, OnRun(t, c) PROVE OnRun(t, Det(t, c))
<1>1n. PICK n \in Nat : \E f : IsRun(t, f, n) /\ f[n] = c
  BY DEF OnRun
<1>1. PICK f : IsRun(t, f, n) /\ f[n] = c
  BY <1>1n
<1> DEFINE d == Det(t, c)
           g == [i \in 0 .. (n + 1) |-> IF i <= n THEN f[i] ELSE d]
<1>2. g[0] = Begins /\ g[n + 1] = d
  BY <1>1 DEF IsRun
<1>3. ASSUME NEW i \in 0 .. n PROVE g[i + 1] = Det(t, g[i])
  <2>1. g[i] = f[i]
    OBVIOUS
  <2>2. CASE i = n
    BY <1>1, <1>2, <2>1, <2>2
  <2>3. CASE i # n
    <3>1. i \in 0 .. (n - 1) /\ i + 1 \in 0 .. (n + 1) /\ i + 1 <= n
      BY <2>3
    <3>2. g[i + 1] = f[i + 1]
      BY <3>1
    <3> QED
      BY <1>1, <2>1, <3>1, <3>2 DEF IsRun
  <2> QED
    BY <2>2, <2>3
<1> HIDE DEF g, d
<1>4. IsRun(t, g, n + 1) /\ n + 1 \in Nat
  <2>1. (n + 1) - 1 = n
    OBVIOUS
  <2> QED
    BY <1>2, <1>3, <2>1 DEF IsRun
<1>5. \E e : IsRun(t, e, n + 1) /\ e[n + 1] = d
  BY <1>2, <1>4
<1> QED
  BY <1>4, <1>5, Zenon DEF OnRun, d

\* There is one run, and the number of errors never goes down on it.
LEMMA RunsAgree ==
    ASSUME NEW t, NEW n \in Nat, NEW f, IsRun(t, f, n), NEW m \in Nat, NEW g, IsRun(t, g, m), n <= m
    PROVE  f[n] = g[n]
<1> DEFINE S == {i \in Nat : i <= n => f[i] = g[i]}
<1>1. 0 \in S
  BY DEF IsRun
<1>2. ASSUME NEW i \in Nat, i \in S PROVE i + 1 \in S
  <2> SUFFICES ASSUME i + 1 <= n PROVE f[i + 1] = g[i + 1]
    OBVIOUS
  <2>1. i \in 0 .. (n - 1) /\ i \in 0 .. (m - 1) /\ f[i] = g[i]
    BY <1>2
  <2> QED
    BY <2>1 DEF IsRun
<1> HIDE DEF S
<1>3. n \in S
  BY <1>1, <1>2, Induction
<1> QED
  BY <1>3 DEF S

\* After an error is stored its number is not used again.
LEMMA RunCounts ==
    ASSUME NEW t, NEW m \in Nat, NEW g, IsRun(t, g, m), NEW n \in Nat, n < m, Stores(t, g[n])
    PROVE  g[n].img.bugs \in Nat /\ g[m].img.bugs > g[n].img.bugs
<1> DEFINE T == {i \in Nat : i <= m => g[i].img.bugs \in Nat}
<1>1. 0 \in T
  BY DEF IsRun, Begins, Between, Conf, Img
<1>2. ASSUME NEW i \in Nat, i \in T PROVE i + 1 \in T
  <2> SUFFICES ASSUME i + 1 <= m PROVE g[i + 1].img.bugs \in Nat
    OBVIOUS
  <2>1. i \in 0 .. (m - 1) /\ g[i].img.bugs \in Nat
    BY <1>2
  <2>2. g[i + 1] = Det(t, g[i])
    BY <2>1 DEF IsRun
  <2> QED
    BY <2>1, <2>2, DetCounts
<1> HIDE DEF T
<1>3. \A i \in Nat : i \in T
  BY <1>1, <1>2, Induction
<1>4. \A i \in 0 .. m : g[i].img.bugs \in Nat
  BY <1>3 DEF T
<1> DEFINE b == g[n].img.bugs
           S == {i \in Nat : i > n /\ i <= m => g[i].img.bugs > b}
<1>5. b \in Nat
  BY <1>4
<1>6. 0 \in S
  OBVIOUS
<1>7. ASSUME NEW i \in Nat, i \in S PROVE i + 1 \in S
  <2> SUFFICES ASSUME i + 1 > n, i + 1 <= m PROVE g[i + 1].img.bugs > b
    OBVIOUS
  <2>1. i \in 0 .. (m - 1) /\ g[i].img.bugs \in Nat
    BY <1>4
  <2>2. g[i + 1] = Det(t, g[i])
    BY <2>1 DEF IsRun
  <2>3. g[i + 1].img.bugs = IF Stores(t, g[i]) THEN g[i].img.bugs + 1 ELSE g[i].img.bugs
    BY <2>2, DetCounts
  <2>4. CASE i = n
    BY <1>5, <2>3, <2>4
  <2>5. CASE i # n
    <3>1. g[i].img.bugs > b
      BY <1>7, <2>5
    <3> HIDE DEF b
    <3> QED
      BY <1>5, <2>1, <2>3, <3>1
  <2> QED
    BY <2>4, <2>5
<1> HIDE DEF S, b
<1>8. \A i \in Nat : i \in S
  BY <1>6, <1>7, Induction
<1> QED
  BY <1>5, <1>8 DEF S, b

\* Each number of errors belongs to one error.
LEMMA ErrorsAgree ==
    ASSUME NEW t, NEW c, NEW d, OnRun(t, c), OnRun(t, d), Stores(t, c), Stores(t, d),
           c.img.bugs = d.img.bugs
    PROVE  c = d
<1>1n. PICK n \in Nat : \E f : IsRun(t, f, n) /\ f[n] = c
  BY DEF OnRun
<1>1. PICK f : IsRun(t, f, n) /\ f[n] = c
  BY <1>1n
<1>2n. PICK m \in Nat : \E g : IsRun(t, g, m) /\ g[m] = d
  BY DEF OnRun
<1>2. PICK g : IsRun(t, g, m) /\ g[m] = d
  BY <1>2n
<1>3. CASE n = m
  BY <1>1, <1>2, <1>3, RunsAgree
<1>4. CASE n < m
  <2>1. g[n] = c
    BY <1>1, <1>2, <1>4, RunsAgree
  <2>2. c.img.bugs \in Nat /\ d.img.bugs > c.img.bugs
    BY <1>2, <1>4, <2>1, RunCounts
  <2> QED
    BY <2>2
<1>5. CASE m < n
  <2>1. f[m] = d
    BY <1>1, <1>2, <1>5, RunsAgree
  <2>2. d.img.bugs \in Nat /\ c.img.bugs > d.img.bugs
    BY <1>1, <1>5, <2>1, RunCounts
  <2> QED
    BY <2>2
<1> QED
  BY <1>3, <1>4, <1>5

-----------------------------------------------------------------------------

\* The configuration that the search is in, if it goes on from it: a checker
\* that has asked for a restart does not.
Looping == {"loop", "save_loop", "dequeue", "save_restart"}
GoesOn(at, sk) ==
    at \in Looping \cup {"start", "set", "regen", "run", "after_new", "repeat"}
      \/ (at = "after" /\ sk # "closed")

Now == CASE pc = "start" -> Begins
         [] pc \in Looping -> Loops(Image)
         [] pc \in {"set", "after", "repeat"} -> Between(Image, pc, curr, rand)
         [] pc = "after_new" -> Conf(Image, pc, curr, rand, sys, 0, 0)
         [] OTHER -> Conf(Image, pc, curr, rand, sys, rest, node)

FileOnRun(t, f) ==
    f.exists => OnRun(t, Loops(Img(f.img.queue, f.img.visited, f.img.ckpts, f.img.bugs)))

FilesOnRun(t, d) == FileOnRun(t, d.tmp) /\ FileOnRun(t, d.file) /\ FileOnRun(t, d.old)

\* The stored trace is that of the error with its number.
TraceOnRun(t, k, tr) == \E c : OnRun(t, c) /\ Stores(t, c) /\ c.img.bugs = k /\ tr = TraceOf(c)

Repeatable ==
    /\ \A k \in DOMAIN traces : TraceOnRun(test, k, traces[k])
    /\ FilesOnRun(test, disk)
    /\ GoesOn(pc, skt) => OnRun(test, Now)
    /\ pc = "start" => bugs = 0

TracesKept == \A k \in DOMAIN traces : IF k \in DOMAIN traces' THEN traces'[k] = traces[k]
                                                              ELSE k \in Unsynced

\* The first configuration.
LEMMA RepeatableInit == ASSUME Init PROVE Repeatable
<1>1. /\ traces = << >> /\ pc = "start" /\ bugs = 0
      /\ disk = [tmp |-> NoFile, file |-> NoFile, old |-> NoFile]
  BY DEF Init
<1>2. DOMAIN traces = {} /\ Now = Begins
  BY <1>1 DEF Now, Looping
<1> QED
  BY <1>1, <1>2, RunBegins DEF Repeatable, FilesOnRun, FileOnRun, NoFile

\* Nothing of it is about the other variables.
LEMMA RepeatableStutter == ASSUME Repeatable, UNCHANGED vars PROVE Repeatable'
<1>1. /\ test' = test /\ traces' = traces /\ disk' = disk /\ pc' = pc /\ skt' = skt /\ bugs' = bugs
      /\ queue' = queue /\ visited' = visited /\ ckpts' = ckpts /\ curr' = curr /\ rand' = rand
      /\ sys' = sys /\ rest' = rest /\ node' = node
  BY DEF vars, search, history
<1>2. Now' = Now
  BY <1>1 DEF Now, Image
<1> QED
  BY <1>1, <1>2 DEF Repeatable

\* A step along the run that stores nothing.
LEMMA RepeatableStep ==
    ASSUME Repeatable, test' = test, traces' = traces, FilesOnRun(test, disk'), pc' # "start",
           GoesOn(pc', skt') => GoesOn(pc, skt) /\ Now' \in {Now, Det(test, Now)}
    PROVE  Repeatable' /\ TracesKept
<1>1. GoesOn(pc', skt') => OnRun(test, Now')
  BY RunGoesOn DEF Repeatable
<1> QED
  BY <1>1 DEF Repeatable, TracesKept

\* The initial state is queued.
LEMMA RepeatableStart == ASSUME Sane, Repeatable, Start PROVE Repeatable' /\ TracesKept
<1>1. /\ pc = "start" /\ pc' = "loop" /\ test' = test /\ disk' = disk /\ Searching
      /\ traces' = traces /\ bugs' = bugs
  BY DEF Start, Searching, Replaying, history
<1>2. sys = test.raw /\ visited = << >> /\ ckpts = << >> /\ bugs = 0
  BY <1>1 DEF Sane, Repeatable
<1>3. /\ queue' = <<[id |-> 0, start |-> 0, sig |-> test.sig[test.raw], trace |-> << >>]>>
      /\ visited' = With(<< >>, test.sig[test.raw], 0)
      /\ ckpts' = With(<< >>, 0, [data |-> Origin(test), parent_id |-> 0, trace |-> << >>])
  BY <1>2 DEF Start, Saved, Origin
<1>4. Now = Begins /\ Begins.at = "start" /\ Begins.img.bugs = 0
  BY <1>1 DEF Now, Looping, Begins, Between, Conf, Img
<1>5. Det(test, Now) = First(test, Begins)
  BY <1>4 DEF Det
<1>6. First(test, Begins) = Loops(Img(queue', visited', ckpts', bugs'))
  BY <1>1, <1>2, <1>3, <1>4 DEF First
<1>7. Now' = Loops(Img(queue', visited', ckpts', bugs'))
  BY <1>1 DEF Now, Looping, Image, Img
<1>8. GoesOn(pc, skt) /\ FilesOnRun(test, disk)
  BY <1>1 DEF GoesOn, Repeatable
<1> QED
  BY <1>1, <1>5, <1>6, <1>7, <1>8, RepeatableStep

\* sync() makes the new directory entry the durable one.
LEMMA TellOnRun ==
    ASSUME DiskOK(test, disk), FilesOnRun(test, disk), TellMonitor
    PROVE  FilesOnRun(test, disk')
BY DEF TellMonitor, FilesOnRun, DiskOK

\* What a machine that stops leaves of the traces.
LEMMA PowerLossOnRun ==
    ASSUME Repeatable, PowerLoss
    PROVE  TracesKept /\ \A k \in DOMAIN traces' : TraceOnRun(test, k, traces'[k])
BY PowerLossKeeps DEF TracesKept, Repeatable

\* A crash stops the search.
LEMMA RepeatableCrash == ASSUME Repeatable, Crash PROVE Repeatable' /\ TracesKept
<1>1. test' = test /\ disk' = disk /\ pc' = "dead"
  BY DEF Crash
<1>2. TracesKept /\ \A k \in DOMAIN traces' : TraceOnRun(test, k, traces'[k])
  BY PowerLossOnRun DEF Crash
<1> QED
  BY <1>1, <1>2 DEF Repeatable, GoesOn, Looping

\* The top of the loop, the end of self_checkpoint and a scheduled restart.
LEMMA RepeatableWaits ==
    ASSUME Sane, Repeatable, Loop \/ Tell \/ ScheduleRestart
    PROVE  Repeatable' /\ TracesKept
<1>1. /\ Searching /\ test' = test /\ traces' = traces /\ queue' = queue /\ visited' = visited
      /\ ckpts' = ckpts /\ bugs' = bugs /\ curr' = curr /\ rand' = rand /\ sys' = sys
      /\ rest' = rest /\ node' = node
  BY DEF Loop, Tell, ScheduleRestart, search, history, Searching, Replaying, Finished
<1>2. DiskOK(test, disk) /\ FilesOnRun(test, disk)
  BY <1>1 DEF Sane, Repeatable
<1>3. FilesOnRun(test, disk') /\ pc' # "start"
  BY <1>2, TellOnRun DEF Loop, Tell, ScheduleRestart
<1>4. ASSUME GoesOn(pc', skt') PROVE GoesOn(pc, skt) /\ Now' = Now
  <2>1. CASE Loop
    BY <1>1, <1>4, <2>1 DEF Loop, GoesOn, Looping, Now, Image
  <2>2. CASE Tell
    BY <1>4, <2>2 DEF Tell, TellMonitor, GoesOn, Looping
  <2>3. CASE ScheduleRestart
    BY <1>1, <1>4, <2>3 DEF ScheduleRestart, GoesOn, Looping, Now, Image
  <2> QED
    BY <2>1, <2>2, <2>3
<1> QED
  BY <1>1, <1>3, <1>4, RepeatableStep

\* A state is taken from the queue.
LEMMA RepeatableDequeue == ASSUME Sane, Repeatable, Dequeue PROVE Repeatable' /\ TracesKept
<1>1. /\ pc = "dequeue" /\ pc' = "set" /\ Searching /\ test' = test /\ traces' = traces
      /\ curr' = Head(queue) /\ queue' = Tail(queue) /\ rand' = EnumReset
      /\ visited' = visited /\ ckpts' = ckpts /\ bugs' = bugs
  BY DEF Dequeue, Searching, Replaying
<1>2. DiskOK(test, disk) /\ FilesOnRun(test, disk)
  BY <1>1 DEF Sane, Repeatable
<1>3. FilesOnRun(test, disk')
  BY <1>2, TellOnRun DEF Dequeue
<1>4. Now = Loops(Image) /\ GoesOn(pc, skt)
  BY <1>1 DEF Now, Looping, GoesOn
<1>5. Det(test, Now) = Takes(Now) /\ Now.img = Image
  BY <1>4 DEF Det, Loops, Between, Conf
<1>6. /\ Image' = Img(Tail(queue), visited, ckpts, bugs)
      /\ Image.queue = queue /\ Image.visited = visited /\ Image.ckpts = ckpts /\ Image.bugs = bugs
  BY <1>1 DEF Image, Img
<1>7. Now' = Between(Image', "set", curr', rand')
  BY <1>1 DEF Now, Looping
<1>8. Now' = Det(test, Now)
  BY <1>1, <1>5, <1>6, <1>7 DEF Takes
<1> QED
  BY <1>1, <1>3, <1>4, <1>8, RepeatableStep

\* It is regenerated ...
LEMMA RepeatableSetState == ASSUME Repeatable, SetState PROVE Repeatable' /\ TracesKept
<1>1. /\ pc = "set" /\ pc' = (IF curr.trace = << >> THEN "run" ELSE "regen")
      /\ test' = test /\ traces' = traces /\ disk' = disk /\ curr' = curr /\ rand' = rand
      /\ queue' = queue /\ visited' = visited /\ ckpts' = ckpts /\ bugs' = bugs
      /\ sys' = ckpts[curr.start].data /\ rest' = curr.trace /\ node' = << >>
  BY DEF SetState, search, history
<1>2. Now = Between(Image, "set", curr, rand) /\ GoesOn(pc, skt)
  BY <1>1 DEF Now, Looping, GoesOn
<1>3. Det(test, Now) = Restores(Now) /\ Now.img = Image /\ Now.curr = curr /\ Now.rand = rand
  BY <1>2 DEF Det, Between, Conf
<1>4. Image' = Image /\ Image.ckpts = ckpts
  BY <1>1 DEF Image
<1>5. Now' = Conf(Image', pc', curr', rand', sys', rest', node')
  BY <1>1 DEF Now, Looping
<1>6. Now' = Det(test, Now)
  BY <1>1, <1>3, <1>4, <1>5 DEF Restores
<1>7. FilesOnRun(test, disk')
  BY <1>1 DEF Repeatable
<1> QED
  BY <1>1, <1>2, <1>6, <1>7, RepeatableStep

\* ... transition by transition ...
LEMMA RepeatableRegen == ASSUME Repeatable, Regen PROVE Repeatable' /\ TracesKept
<1>1. /\ pc = "regen" /\ test' = test /\ traces' = traces /\ disk' = disk /\ curr' = curr
      /\ rand' = rand /\ queue' = queue /\ visited' = visited /\ ckpts' = ckpts /\ bugs' = bugs
      /\ node' = node /\ pc' \in {"panic", "run", "regen"}
  BY DEF Regen, search, history
<1>2. Now = Conf(Image, "regen", curr, rand, sys, rest, node) /\ GoesOn(pc, skt)
  BY <1>1 DEF Now, Looping, GoesOn
<1>3. /\ Det(test, Now) = PlaysBack(test, Now) /\ Now.img = Image /\ Now.curr = curr
      /\ Now.rand = rand /\ Now.sys = sys /\ Now.rest = rest /\ Now.node = node
  BY <1>2 DEF Det, Conf
<1>4. Image' = Image
  BY <1>1 DEF Image
<1>5. ASSUME pc' # "panic" PROVE Now' = Det(test, Now)
  <2> DEFINE p == Fit(test, sys, rest)
  <2>1. (CHOOSE q \in Leaves(sys) : CanReplay(q, rest)) = p
    BY DEF Fit, Leaves, LeavesOf
  <2> HIDE DEF p
  <2>2. /\ sys' = test.to[sys][p] /\ rest' = Replayed(p, rest)
        /\ pc' = IF rest' = << >> THEN "run" ELSE "regen"
    BY <1>5, <2>1 DEF Regen
  <2>3. Now' = Conf(Image', pc', curr', rand', sys', rest', node')
    BY <2>2 DEF Now, Looping
  <2> QED
    BY <1>1, <1>3, <1>4, <2>2, <2>3 DEF PlaysBack, p
<1>6. FilesOnRun(test, disk')
  BY <1>1 DEF Repeatable
<1>7. GoesOn(pc', skt') => pc' # "panic"
  BY DEF GoesOn, Looping
<1> QED
  BY <1>1, <1>2, <1>5, <1>6, <1>7, RepeatableStep

\* ... and makes its next choice.
LEMMA RepeatableChoose == ASSUME Repeatable, Choose PROVE Repeatable' /\ TracesKept
<1>1. /\ pc = "run" /\ pc' = "run" /\ test' = test /\ traces' = traces /\ disk' = disk
      /\ curr' = curr /\ queue' = queue /\ visited' = visited /\ ckpts' = ckpts /\ bugs' = bugs
      /\ sys' = sys /\ rest' = rest /\ test.tree[sys][node] # 0
      /\ rand' = EnumRandom(rand, test.tree[sys][node])
      /\ node' = Append(node, EnumValue(rand, test.tree[sys][node]))
  BY DEF Choose, search, history
<1>2. Now = Conf(Image, "run", curr, rand, sys, rest, node) /\ GoesOn(pc, skt)
  BY <1>1 DEF Now, Looping, GoesOn
<1>3. /\ Det(test, Now) = Chooses(test, Now) /\ Now.img = Image /\ Now.curr = curr
      /\ Now.rand = rand /\ Now.sys = sys /\ Now.rest = rest /\ Now.node = node
  BY <1>1, <1>2 DEF Det, Conf
<1>4. Image' = Image
  BY <1>1 DEF Image
<1>5. Now' = Conf(Image', pc', curr', rand', sys', rest', node')
  BY <1>1 DEF Now, Looping
<1>6. Now' = Det(test, Now)
  BY <1>1, <1>3, <1>4, <1>5 DEF Chooses
<1>7. FilesOnRun(test, disk')
  BY <1>1 DEF Repeatable
<1> QED
  BY <1>1, <1>2, <1>6, <1>7, RepeatableStep

\* The configuration after an error or an abort.
LEMMA GivesUp ==
    ASSUME NEW c, c.img = Image, c.curr = curr, c.rand = rand,
           queue' = queue, visited' = visited, ckpts' = ckpts, curr' = curr, rand' = rand,
           (pc' = "save_restart" /\ Persistent) \/ (pc' = "after" /\ ~Persistent)
    PROVE  Now' = Gives(c, bugs')
<1>1. Image' = Img(c.img.queue, c.img.visited, c.img.ckpts, bugs')
  BY DEF Image, Img
<1>2. CASE pc' = "save_restart" /\ Persistent
  <2>1. Now' = Loops(Image')
    BY <1>2 DEF Now, Looping
  <2> QED
    BY <1>1, <1>2, <2>1 DEF Gives
<1>3. CASE pc' = "after" /\ ~Persistent
  <2>1. Now' = Between(Image', "after", curr', rand')
    BY <1>3 DEF Now, Looping
  <2> QED
    BY <1>1, <1>3, <2>1 DEF Gives
<1> QED
  BY <1>2, <1>3

\* The trace that is stored is new, or the one that was stored for this error.
LEMMA RepeatableBug ==
    ASSUME Repeatable, Bug, test' = test, disk' = disk, curr' = curr, rand' = rand,
           GoesOn(pc, skt), Stores(test, Now), Now.img = Image, Now.curr = curr, Now.rand = rand,
           Det(test, Now) = Gives(Now, bugs + 1)
    PROVE  Repeatable' /\ TracesKept
<1>0. OnRun(test, Now) /\ FilesOnRun(test, disk')
  BY DEF Repeatable
<1>1. Image.bugs = bugs /\ Image.ckpts = ckpts
  BY DEF Image
<1>2. PathTo = PathOf(ckpts)
  BY DEF PathTo, PathOf
<1>3. /\ traces' = With(traces, bugs, TraceOf(Now)) /\ bugs' = bugs + 1
      /\ queue' = queue /\ visited' = visited /\ ckpts' = ckpts
      /\ pc' = "stopped" \/ (pc' = "save_restart" /\ Persistent) \/ (pc' = "after" /\ ~Persistent)
  BY <1>1, <1>2, ConfigAssumption DEF Bug, Trace, TraceOf
<1>4. TraceOnRun(test, bugs, TraceOf(Now))
  BY <1>0, <1>1 DEF TraceOnRun
<1>5. ASSUME bugs \in DOMAIN traces PROVE traces[bugs] = TraceOf(Now)
  <2>1. PICK c : OnRun(test, c) /\ Stores(test, c) /\ c.img.bugs = bugs /\ traces[bugs] = TraceOf(c)
    BY <1>5 DEF Repeatable, TraceOnRun
  <2>2. c = Now
    BY <1>0, <1>1, <2>1, ErrorsAgree
  <2> QED
    BY <2>1, <2>2
<1>6. TracesKept
  BY <1>3, <1>5 DEF TracesKept, With
<1>7. \A k \in DOMAIN traces' : TraceOnRun(test, k, traces'[k])
  BY <1>3, <1>4 DEF With, Repeatable
<1>8. ASSUME GoesOn(pc', skt') PROVE OnRun(test, Now')
  <2>1. pc' # "stopped"
    BY <1>8 DEF GoesOn, Looping
  <2>2. Now' = Gives(Now, bugs')
    BY <1>3, <2>1, GivesUp
  <2> QED
    BY <1>0, <1>3, <2>2, RunGoesOn
<1> QED
  BY <1>0, <1>3, <1>6, <1>7, <1>8 DEF Repeatable

\* ... and after an abort nothing is stored.
LEMMA RepeatableAbort ==
    ASSUME Repeatable, Abort, test' = test, disk' = disk, curr' = curr, rand' = rand,
           GoesOn(pc, skt), Now.img = Image, Now.curr = curr, Now.rand = rand,
           Det(test, Now) = Gives(Now, bugs)
    PROVE  Repeatable' /\ TracesKept
<1>1. /\ queue' = queue /\ visited' = visited /\ ckpts' = ckpts /\ bugs' = bugs /\ traces' = traces
      /\ (pc' = "save_restart" /\ Persistent) \/ (pc' = "after" /\ ~Persistent)
  BY ConfigAssumption DEF Abort, search
<1>2. Now' = Gives(Now, bugs')
  BY <1>1, GivesUp
<1>3. FilesOnRun(test, disk')
  BY DEF Repeatable
<1> QED
  BY <1>1, <1>2, <1>3, RepeatableStep

\* A new state is queued, and perhaps saved, in the one way there is.
LEMMA ExitedFinds ==
    ASSUME NoPriority, test \in Tests, NEW c, c.img = Image, c.curr = curr, c.rand = rand,
           NEW h, Exited(h), pc' = "after_new"
    PROVE  Image' = Finds(test, c, h)
<1>1. /\ Image.queue = queue /\ Image.visited = visited /\ Image.ckpts = ckpts /\ Image.bugs = bugs
      /\ Image' = Img(queue', visited', ckpts', bugs') /\ Image = Img(queue, visited, ckpts, bugs)
  BY DEF Image, Img
<1>2. bugs' = bugs /\ test.queue \in {"bfs", "dfs"}
  BY HarnessFacts DEF Exited, NoPriority
<1>3. IsNew(h) <=> test.sig[h] \notin DOMAIN visited
  BY <1>2 DEF IsNew
<1>4. CASE ~IsNew(h)
  <2>1. queue' = queue /\ visited' = visited /\ ckpts' = ckpts
    BY <1>4 DEF Exited
  <2> QED
    BY <1>1, <1>2, <1>3, <1>4, <2>1 DEF Finds
<1>5. CASE IsNew(h)
  <2>1. /\ visited' = With(visited, test.sig[h], NumStates) /\ ckpts' = Checkpointed(h)
        /\ queue' \in Pushed(queue, Reached(h))
    BY <1>5 DEF Exited
  <2>2. queue' = Queues(test, c, h)
    <3> DEFINE s == Reached(h)
    <3>1. queue' = IF test.queue = "bfs" THEN Append(queue, s) ELSE <<s>> \o queue
      BY <1>2, <2>1 DEF Pushed
    <3>2. s = IF h \in test.save
              THEN [id |-> Cardinality(DOMAIN visited), start |-> Cardinality(DOMAIN visited),
                    sig |-> test.sig[h], trace |-> << >>]
              ELSE [id |-> Cardinality(DOMAIN visited), start |-> curr.start, sig |-> test.sig[h],
                    trace |-> curr.trace \o rand.choices]
      BY DEF Reached, NumStates
    <3> HIDE DEF s
    <3> QED
      BY <1>1, <3>1, <3>2 DEF Queues
  <2>3. ckpts' = Saves(test, c, h)
    BY <1>1, <2>1 DEF Checkpointed, Saves, Saved, NumStates
  <2> QED
    BY <1>1, <1>2, <1>3, <1>5, <2>1, <2>2, <2>3 DEF Finds, NumStates
<1> QED
  BY <1>4, <1>5

\* A transition returns.
LEMMA RepeatableReturn ==
    ASSUME NoPriority, Sane, Repeatable, Return
    PROVE  Repeatable' /\ TracesKept
<1>1. /\ pc = "run" /\ test' = test /\ disk' = disk /\ curr' = curr /\ rand' = rand /\ skt' = skt
      /\ test.tree[sys][node] = 0 /\ sys' = test.to[sys][node] /\ test \in Tests
  BY DEF Return, Sane
<1>2. Now = Conf(Image, "run", curr, rand, sys, rest, node) /\ GoesOn(pc, skt)
  BY <1>1 DEF Now, Looping, GoesOn
<1>3. /\ Det(test, Now) = Returns(test, Now) /\ Now.img = Image /\ Now.curr = curr /\ Now.at = "run"
      /\ Now.rand = rand /\ Now.sys = sys /\ Now.node = node
  BY <1>1, <1>2 DEF Det, Conf
<1>4. Image.bugs = bugs /\ FilesOnRun(test, disk')
  BY <1>1 DEF Image, Repeatable
<1> DEFINE ret == test.ret[sys][node]
<1>5. CASE ret = "EXIT" /\ Exited(sys')
  <2>1. pc' \in {"stopped", "after_new"} /\ traces' = traces
    BY <1>5 DEF Exited
  <2>2. ASSUME pc' = "after_new" PROVE Now' = Det(test, Now)
    <3>1. Image' = Finds(test, Now, test.to[sys][node])
      BY <1>1, <1>3, <1>5, <2>2, ExitedFinds
    <3>2. Now' = Conf(Image', "after_new", curr', rand', sys', 0, 0)
      BY <2>2 DEF Now, Looping
    <3>3. Returns(test, Now) = Conf(Finds(test, Now, test.to[sys][node]), "after_new", curr, rand,
                                    test.to[sys][node], 0, 0)
      BY <1>3, <1>5 DEF Returns
    <3> QED
      BY <1>1, <1>3, <3>1, <3>2, <3>3
  <2>3. GoesOn(pc', skt') => pc' = "after_new"
    BY <2>1 DEF GoesOn, Looping
  <2> QED
    BY <1>1, <1>2, <1>4, <2>1, <2>2, <2>3, RepeatableStep
<1>6. CASE ret = "SKIP" /\ pc' = "after" /\ UNCHANGED <<search, traces>>
  <2>1. Image' = Image
    BY <1>6 DEF search, Image
  <2>2. Now' = Between(Image, "after", curr, rand)
    BY <1>1, <1>6, <2>1 DEF Now, Looping
  <2>3. Now' = Det(test, Now)
    BY <1>3, <1>6, <2>2 DEF Returns
  <2> QED
    BY <1>1, <1>2, <1>4, <1>6, <2>3, RepeatableStep
<1>7. CASE ret = "BUG" /\ Bug
  <2>1. Returns(test, Now) = Gives(Now, bugs + 1)
    BY <1>3, <1>4, <1>7 DEF Returns
  <2>2. Stores(test, Now)
    BY <1>1, <1>3, <1>7 DEF Stores
  <2> QED
    BY <1>1, <1>2, <1>3, <1>7, <2>1, <2>2, RepeatableBug
<1>8. CASE ret = "ABORT" /\ Abort
  <2>1. Returns(test, Now) = Gives(Now, bugs)
    BY <1>3, <1>4, <1>8 DEF Returns
  <2> QED
    BY <1>1, <1>2, <1>3, <1>8, <2>1, RepeatableAbort
<1> QED
  BY <1>5, <1>6, <1>7, <1>8 DEF Return

\* The hook after a new state.
LEMMA RepeatableAfterNew == ASSUME Repeatable, AfterNew PROVE Repeatable' /\ TracesKept
<1>1. /\ pc = "after_new" /\ test' = test /\ disk' = disk /\ curr' = curr /\ rand' = rand
      /\ skt' = skt
  BY DEF AfterNew
<1>2. Now = Conf(Image, "after_new", curr, rand, sys, 0, 0) /\ GoesOn(pc, skt)
  BY <1>1 DEF Now, Looping, GoesOn
<1>3. /\ Det(test, Now) = Checks(test, Now) /\ Now.img = Image /\ Now.curr = curr
      /\ Now.at = "after_new" /\ Now.rand = rand /\ Now.sys = sys
  BY <1>1, <1>2 DEF Det, Conf
<1>4. Image.bugs = bugs /\ FilesOnRun(test, disk')
  BY <1>1 DEF Image, Repeatable
<1>5. CASE test.check[sys] = "EXIT" /\ pc' = "after" /\ UNCHANGED <<search, traces>>
  <2>1. Image' = Image
    BY <1>5 DEF search, Image
  <2>2. Now' = Between(Image, "after", curr, rand)
    BY <1>1, <1>5, <2>1 DEF Now, Looping
  <2>3. Now' = Det(test, Now)
    BY <1>3, <1>5, <2>2 DEF Checks
  <2> QED
    BY <1>1, <1>2, <1>4, <1>5, <2>3, RepeatableStep
<1>6. CASE test.check[sys] = "BUG" /\ Bug
  <2>1. Checks(test, Now) = Gives(Now, bugs + 1)
    BY <1>3, <1>4, <1>6 DEF Checks
  <2>2. Stores(test, Now)
    BY <1>3, <1>6 DEF Stores
  <2> QED
    BY <1>1, <1>2, <1>3, <1>6, <2>1, <2>2, RepeatableBug
<1>7. CASE test.check[sys] = "ABORT" /\ Abort
  <2>1. Checks(test, Now) = Gives(Now, bugs)
    BY <1>3, <1>4, <1>7 DEF Checks
  <2> QED
    BY <1>1, <1>2, <1>3, <1>7, <2>1, RepeatableAbort
<1> QED
  BY <1>5, <1>6, <1>7 DEF AfterNew

\* heart_beat and repeat().
LEMMA RepeatableAfter ==
    ASSUME Repeatable, AfterTransitions \/ RepeatChoices
    PROVE  Repeatable' /\ TracesKept
<1>1. /\ test' = test /\ traces' = traces /\ disk' = disk /\ curr' = curr /\ skt' = skt
      /\ queue' = queue /\ visited' = visited /\ ckpts' = ckpts /\ bugs' = bugs /\ pc' # "start"
  BY DEF AfterTransitions, RepeatChoices, search, history
<1>2. FilesOnRun(test, disk') /\ Image' = Image
  BY <1>1 DEF Repeatable, Image
<1>3. ASSUME AfterTransitions, GoesOn(pc', skt') PROVE GoesOn(pc, skt) /\ Now' = Det(test, Now)
  <2>1. pc = "after" /\ skt # "closed" /\ pc' = "repeat" /\ rand' = rand
    BY <1>3 DEF AfterTransitions, GoesOn, Looping
  <2>2. Now = Between(Image, "after", curr, rand) /\ Now' = Between(Image, "repeat", curr, rand)
    BY <1>1, <1>2, <2>1 DEF Now, Looping
  <2>3. Det(test, Now) = Between(Image, "repeat", curr, rand)
    BY <2>2 DEF Det, Between, Conf
  <2> QED
    BY <2>1, <2>2, <2>3 DEF GoesOn
<1>4. ASSUME RepeatChoices PROVE GoesOn(pc, skt) /\ Now' = Det(test, Now)
  <2>1. /\ pc = "repeat"
        /\ IF Repeats(rand) THEN rand' = Repeat(rand) /\ pc' = "set" ELSE pc' = "loop"
    BY <1>4 DEF RepeatChoices
  <2>2. Now = Between(Image, "repeat", curr, rand) /\ GoesOn(pc, skt)
    BY <2>1 DEF Now, Looping, GoesOn
  <2>3. Det(test, Now) = Again(Now) /\ Now.img = Image /\ Now.curr = curr /\ Now.rand = rand
    BY <2>2 DEF Det, Between, Conf
  <2>4. Now' = IF Repeats(rand) THEN Between(Image, "set", curr, Repeat(rand)) ELSE Loops(Image)
    BY <1>1, <1>2, <2>1 DEF Now, Looping
  <2> QED
    BY <2>2, <2>3, <2>4 DEF Again
<1> QED
  BY <1>1, <1>2, <1>3, <1>4, RepeatableStep

\* self_checkpoint saves a search that is on the run.
LEMMA RepeatableSave ==
    ASSUME Sane, Repeatable, SaveOpen \/ SaveWrite \/ SaveSync \/ SaveRename \/ SaveOpenFails
    PROVE  Repeatable' /\ TracesKept
<1>1. /\ pc \in {"save_loop", "save_restart"} /\ Searching /\ test' = test /\ traces' = traces
      /\ queue' = queue /\ visited' = visited /\ ckpts' = ckpts /\ bugs' = bugs
  BY DEF SaveOpen, SaveWrite, SaveSync, SaveRename, SaveOpenFails, Saving, Searching, Replaying,
         search, history
<1>2. pc' \in {"save_loop", "save_restart", "dequeue", "tell"}
  BY <1>1 DEF SaveOpen, SaveWrite, SaveSync, SaveRename, SaveOpenFails, AfterSave
<1>3. Now = Loops(Image) /\ GoesOn(pc, skt) /\ OnRun(test, Now) /\ FilesOnRun(test, disk)
  BY <1>1 DEF Now, Looping, GoesOn, Repeatable
<1>4. DOMAIN disk = {"tmp", "file", "old"} /\ IsTmp(test, disk.tmp)
  BY <1>1 DEF Sane, DiskOK
<1>5. FilesOnRun(test, disk')
  <2>1. CASE SaveOpen
    <3> DEFINE f == [exists |-> TRUE, img |-> Image, len |-> 0, synced |-> FALSE]
    <3>1. disk' = [disk EXCEPT !.tmp = f]
      BY <2>1 DEF SaveOpen
    <3>2. FileOnRun(test, f)
      <4>1. f.img = Image /\ Img(Image.queue, Image.visited, Image.ckpts, Image.bugs) = Image
        BY DEF Image, Img
      <4> HIDE DEF f
      <4> QED
        BY <1>3, <4>1 DEF FileOnRun
    <3> HIDE DEF f
    <3> QED
      BY <1>3, <1>4, <3>1, <3>2 DEF FilesOnRun
  <2>2. CASE SaveWrite
    <3> DEFINE f == [disk.tmp EXCEPT !.len = @ + 1]
    <3>1. disk' = [disk EXCEPT !.tmp = f]
      BY <1>4, <2>2 DEF SaveWrite
    <3>2. f.exists = disk.tmp.exists /\ f.img = disk.tmp.img
      BY <1>4 DEF IsTmp
    <3> HIDE DEF f
    <3> QED
      BY <1>3, <1>4, <3>1, <3>2 DEF FilesOnRun, FileOnRun
  <2>3. CASE SaveSync
    <3> DEFINE f == [disk.tmp EXCEPT !.synced = TRUE]
    <3>1. disk' = [disk EXCEPT !.tmp = f]
      BY <1>4, <2>3 DEF SaveSync
    <3>2. f.exists = disk.tmp.exists /\ f.img = disk.tmp.img
      BY <1>4 DEF IsTmp
    <3> HIDE DEF f
    <3> QED
      BY <1>3, <1>4, <3>1, <3>2 DEF FilesOnRun, FileOnRun
  <2>4. CASE SaveRename
    <3>1. disk' = [disk EXCEPT !.file = disk.tmp, !.tmp = NoFile]
      BY <2>4 DEF SaveRename
    <3>2. FileOnRun(test, NoFile)
      BY DEF FileOnRun, NoFile
    <3> QED
      BY <1>3, <1>4, <3>1, <3>2 DEF FilesOnRun
  <2>5. CASE SaveOpenFails
    BY <1>3, <2>5 DEF SaveOpenFails
  <2> QED
    BY <2>1, <2>2, <2>3, <2>4, <2>5
<1>6. ASSUME GoesOn(pc', skt') PROVE Now' = Now
  <2>1. pc' \in Looping
    BY <1>2, <1>6 DEF GoesOn, Looping
  <2>2. Now' = Loops(Image') /\ Image' = Image
    BY <1>1, <2>1 DEF Now, Looping, Image
  <2> QED
    BY <1>3, <2>2
<1> QED
  BY <1>1, <1>2, <1>3, <1>5, <1>6, RepeatableStep

\* A reboot goes back on the run.
LEMMA RepeatableReboot == ASSUME Sane, Repeatable, Reboot PROVE Repeatable' /\ TracesKept
<1>0. TracesKept /\ \A k \in DOMAIN traces' : TraceOnRun(test, k, traces'[k])
  BY PowerLossOnRun DEF Reboot
<1>1. test' = test /\ Searching
  BY DEF Reboot, Searching, Finished, Replaying
<1>2. PICK f \in Survivors :
        /\ disk' = [tmp |-> NoFile, file |-> f, old |-> f]
        /\ IF f.exists /\ f.len = Sections
           THEN /\ queue' = f.img.queue /\ visited' = f.img.visited
                /\ ckpts' = f.img.ckpts /\ bugs' = f.img.bugs
           ELSE queue' = << >> /\ visited' = << >> /\ ckpts' = << >> /\ bugs' = 0
        /\ pc' = IF ~f.exists THEN "start" ELSE IF f.len = Sections THEN "loop" ELSE "panic"
  BY DEF Reboot
<1>3. DiskOK(test, disk) /\ FilesOnRun(test, disk)
  BY <1>1 DEF Sane, Repeatable
<1>4. f \in {disk.old, disk.file}
  BY <1>3 DEF Survivors, DiskOK, IsFile
<1>5. FileOnRun(test, f) /\ FileOnRun(test, NoFile)
  BY <1>3, <1>4 DEF FilesOnRun, FileOnRun, NoFile
<1>6. FilesOnRun(test, disk')
  BY <1>2, <1>5 DEF FilesOnRun
<1>7. CASE ~f.exists
  <2>1. pc' = "start" /\ bugs' = 0 /\ Now' = Begins
    BY <1>2, <1>7 DEF Now, Looping
  <2> QED
    BY <1>0, <1>1, <1>6, <2>1, RunBegins DEF Repeatable
<1>8. CASE f.exists /\ f.len = Sections
  <2>1. pc' = "loop" /\ Now' = Loops(Image')
    BY <1>2, <1>8 DEF Now, Looping
  <2>2. Image' = Img(f.img.queue, f.img.visited, f.img.ckpts, f.img.bugs)
    BY <1>2, <1>8 DEF Image, Img
  <2>3. OnRun(test, Now')
    BY <1>5, <1>8, <2>1, <2>2 DEF FileOnRun
  <2> QED
    BY <1>0, <1>1, <1>6, <2>1, <2>3 DEF Repeatable
<1>9. CASE f.exists /\ f.len # Sections
  <2>1. pc' = "panic"
    BY <1>2, <1>9
  <2> QED
    BY <1>0, <1>1, <1>6, <2>1 DEF Repeatable, GoesOn, Looping
<1> QED
  BY <1>7, <1>8, <1>9

\* Replays read trace files only.
LEMMA RepeatableReplay == ASSUME Repeatable, Replay PROVE Repeatable' /\ TracesKept
<1>1. test' = test /\ traces' = traces /\ disk' = disk
  BY DEF Replay, ReplayStart, ReplayOld, ReplayOldDone, ReplayNew, ReplayAfter, history
<1>2. pc' \in Replaying \cup {"panic"}
  BY DEF Replay, ReplayStart, ReplayOld, ReplayOldDone, ReplayNew, ReplayAfter, ReplayOne, Replaying
<1> QED
  BY <1>1, <1>2 DEF Repeatable, TracesKept, GoesOn, Looping, Replaying

\* Every step stays on the run, or has nothing more to store.
LEMMA RepeatableNext ==
    ASSUME NoPriority, Sane, Repeatable, Next
    PROVE  Repeatable' /\ TracesKept
<1>1. CASE Step
  BY <1>1, RepeatableStart, RepeatableWaits, RepeatableDequeue, RepeatableSetState,
     RepeatableRegen, RepeatableChoose, RepeatableReturn, RepeatableAfterNew, RepeatableAfter,
     RepeatableSave DEF Step
<1>2. CASE Fault
  BY <1>2, RepeatableWaits, RepeatableSave, RepeatableCrash DEF Fault
<1> QED
  BY <1>1, <1>2, RepeatableReboot, RepeatableReplay DEF Next

\* store_trace_file never overwrites the trace of another error: a search that a
\* reboot takes back to an older checkpoint, and to its smaller count of errors,
\* finds the same errors again under the same numbers.  A trace is lost only
\* when the machine stops before the sync() of the restart after the error.
THEOREM TracesAreKept == ASSUME NoPriority PROVE Spec => NoTraceLost
<1> DEFINE Inv == Sane /\ Repeatable
<1>1. Init => Inv
  BY SaneInit, RepeatableInit
<1>2. Inv /\ [Next]_vars => Inv'
  BY SaneNext, RepeatableNext, RepeatableStutter
<1>3. Inv /\ [Next]_vars => [TracesKept]_vars
  BY RepeatableNext
<1> QED
  BY <1>1, <1>2, <1>3, PTL DEF Spec, NoTraceLost, TracesKept
=============================================================================
