----------------------------- MODULE MCCrashSim -----------------------------
(* Instances for TLC.  Sectors and contents are interchangeable.            *)
EXTENDS CrashSim, TLC
CONSTANTS s1, s2, a, b
MCTwoSectors == {s1, s2}
MCTwo == {a, b}
MCSymmetry == Permutations(MCTwoSectors) \cup Permutations(MCTwo)
=============================================================================
