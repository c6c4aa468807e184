---------------------------- MODULE MCEnumRandom ----------------------------
(* Small transitions for TLC: every tree of depth at most two over ceilings  *)
(* 2 and 3, every binary tree of depth at most three, and trees with a call  *)
(* of xe_random_skip_rest.                                                   *)
EXTENDS EnumRandom, FiniteSets

\* The tree with root ceiling c, ceiling f[i] at child i, leaves below.
TwoLevels(c, f) ==
    LET kids == {<<i>> : i \in 0 .. (c - 1)}
        grandkids == UNION {{<<i, j>> : j \in 0 .. (f[i] - 1)} : i \in 0 .. (c - 1)}
    IN  [p \in {<< >>} \cup kids \cup grandkids |->
            CASE p = << >> -> c [] p \in kids -> f[p[1]] [] OTHER -> 0]

MCTwoLevelTrees ==
    UNION {{TwoLevels(c, f) : f \in [0 .. (c - 1) -> {0, 2, 3}]} : c \in {0, 2, 3}}

\* The binary tree of depth at most three that branches at the nodes in "fork".
Binary(fork) ==
    LET nodes == {<< >>} \cup {Append(p, c) : p \in fork, c \in 0 .. 1}
    IN  [p \in nodes |-> IF p \in fork THEN 2 ELSE 0]

MCBinaryTrees ==
    {Binary(fork) :
       fork \in {S \in SUBSET {<< >>, <<0>>, <<1>>, <<0, 0>>, <<0, 1>>, <<1, 0>>, <<1, 1>>} :
                   \A p \in S : p # << >> => SubSeq(p, 1, Len(p) - 1) \in S}}

\* A kernel failure point: the values 3 and 4 of the first call fail nothing, so
\* their subtrees are alike, and the harness skips the rest there.
MCSkipTrees == {TwoLevels(5, f) : f \in {g \in [0 .. 4 -> {0, 2}] : g[3] = g[4]}}
MCSkips == {<<3>>, <<4>>}

MCTrees == MCTwoLevelTrees \cup MCBinaryTrees \cup MCSkipTrees
=============================================================================
