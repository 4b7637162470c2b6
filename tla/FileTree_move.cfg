SPECIFICATION SpecTree
CONSTANTS
    Trees <- MCTrees
    Calls <- OverlayMove
CHECK_DEADLOCK FALSE
INVARIANT MovedWhole
