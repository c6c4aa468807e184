CONSTANTS
    Sys <- MCSys
    Tests <- MCPersistent
    Persistent = TRUE
    CkptStates = 1
    MaxBugs = 3
    MaxState = 0
    MaxFaults = 2
SPECIFICATION Spec
INVARIANTS FileWellFormed CompleteWithoutErrors
PROPERTIES NoTraceLost Ends ImplementsWorklist
CHECK_DEADLOCK FALSE
