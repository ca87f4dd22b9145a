CONSTANTS
    N = 3
    NumComps = 2
SPECIFICATION Spec
CHECK_DEADLOCK FALSE
INVARIANT TableCleaned
INVARIANT ComponentsSplit
