CONSTANTS
    Sys <- MCSys
    Tests <- MCBugThenMore
    Persistent = TRUE
    CkptStates = 1
    MaxBugs = 2
    MaxState = 0
    MaxFaults = 0
SPECIFICATION Spec
INVARIANTS Complete
CHECK_DEADLOCK FALSE
