CONSTANTS
    MAX_CEIL = 5
    Trees <- MCTrees
    Skips <- MCSkips
SPECIFICATION Spec
INVARIANTS Exhaustive Recorded
PROPERTIES NoLeafTwice Terminates
CHECK_DEADLOCK FALSE
