CONSTANTS
    Cps = {"kmalloc", "bread"}
    Programs <- MCPrograms
    MaxPoints = 3
    MaxExtra = 1
    MaxOthers = 2
SPECIFICATION Spec
INVARIANTS FewFailures EveryFailureTried Reproduced NoPanic
PROPERTIES OnlyInCall KnowsFailures
CHECK_DEADLOCK FALSE
