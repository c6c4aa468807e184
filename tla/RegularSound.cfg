CONSTANTS
    s1 = s1 s2 = s2 a = a b = b
    Blank = blank
    Sectors <- MCTwoSectors
    Contents <- MCTwo
    Versioned = FALSE
    WantsAll = FALSE
    DetThreshold = 1
    RandomTries = 1
    DirtyInLock = FALSE
    MaxForgets = 1
    MaxRecords = 5
SYMMETRY MCSymmetry
SPECIFICATION Spec
INVARIANTS Sound
CHECK_DEADLOCK FALSE
