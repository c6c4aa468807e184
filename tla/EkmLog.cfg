CONSTANTS
    t1 = t1 t2 = t2
    Threads <- MCThreads
    PageSize = 2
    Lengths <- MCLengths
    MaxRecords = 4
    MaxTraces = 2
SPECIFICATION FairSpec
INVARIANTS Fits Whole NoneLost
PROPERTY Fetched
CHECK_DEADLOCK FALSE
