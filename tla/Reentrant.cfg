CONSTANTS
    Cps = {"kmalloc", "bread"}
    Programs <- MCSync
    MaxPoints = 3
    MaxExtra = 1
    MaxOthers = 2
SPECIFICATION Spec
INVARIANTS NoPanic
CHECK_DEADLOCK FALSE
