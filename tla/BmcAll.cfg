\* The all-properties checker: one equation to the bound, solved to the end.
CONSTANTS
    p1 = p1
    p2 = p2
    ua = ua
    Props <- MCProps
    UnwindProp <- ua
    MaxUnwind = 2
    Incremental = FALSE
    UnwindingAssertions = TRUE
SPECIFICATION Spec
CHECK_DEADLOCK FALSE
INVARIANT TypeOK
INVARIANT FailIsReal
INVARIANT SoundPass
INVARIANT BoundSound
PROPERTY StatusMonotonic
PROPERTY AllDecided
