CONSTANTS
    MAX_SET = 4
    Writes <- MCWrites
    Shrink = FALSE
    MaxLogs = 2
    MaxCalls = 5
    MaxData = 1
    MaxChecks = 1
SPECIFICATION Spec
INVARIANTS AssertionsHold NoFalseAlarm CacheIsSound NeverTooMany
PROPERTY SyncIsDurable
CHECK_DEADLOCK FALSE
