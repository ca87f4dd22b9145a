\* The incremental checker: solve after every unwinding of the loop.
CONSTANTS
    p1 = p1
    p2 = p2
    ua = ua
    Props <- MCProps
    UnwindProp <- ua
    MaxUnwind = 2
    Incremental = TRUE
    UnwindingAssertions = TRUE
SPECIFICATION Spec
CHECK_DEADLOCK FALSE
INVARIANT EarlyPassByShortcut
INVARIANT FailIsReal
PROPERTY StatusMonotonic
PROPERTY AllDecided
