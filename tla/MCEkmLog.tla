------------------------------ MODULE MCEkmLog ------------------------------
EXTENDS EkmLog, TLC
CONSTANTS t1, t2
MCThreads == {t1, t2}
MCLengths == {1, 3}
MCSymmetry == Permutations(MCThreads)
=============================================================================
