CONSTANTS
    MAX_SET = 4
    Writes <- MCWrites
    Shrink = TRUE
    MaxLogs = 1
    MaxCalls = 4
    MaxData = 2
    MaxChecks = 0
SPECIFICATION Spec
INVARIANT NoFalseAlarm
CHECK_DEADLOCK FALSE
