CONSTANTS
    Sys <- MCSys
    Tests <- MCSearch
    Persistent = FALSE
    CkptStates = 1
    MaxBugs = 2
    MaxState = 0
    MaxFaults = 0
SPECIFICATION Spec
INVARIANTS SearchWellFormed Regenerated NoPanic Complete BugReplays
PROPERTY NoTransitionTwice
CHECK_DEADLOCK FALSE
