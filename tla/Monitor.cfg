CONSTANTS
    BufSize = 8
    Beats = {5, 6}
    Window = 10
    Text = 100
SPECIFICATION Spec
INVARIANTS QuitsOnlyWhenDone AssertionHolds
PROPERTIES NoSpuriousReset Watched
CHECK_DEADLOCK FALSE
