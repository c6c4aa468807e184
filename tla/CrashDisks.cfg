CONSTANTS
    s1 = s1 s2 = s2 a = a b = b
    Blank = blank
    Sectors <- MCTwoSectors
    Contents <- MCTwo
    Versioned = TRUE
    WantsAll = TRUE
    DetThreshold = 3
    RandomTries = 1
    DirtyInLock = FALSE
    MaxForgets = 1
    MaxRecords = 7
SYMMETRY MCSymmetry
SPECIFICATION Spec
INVARIANTS TypeOK Tracks AllComplete NowComplete Sound
CHECK_DEADLOCK FALSE
