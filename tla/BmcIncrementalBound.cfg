\* The incremental checker against soundness under the bound.
CONSTANTS
    p1 = p1
    p2 = p2
    ua = ua
    Props <- MCProps
    UnwindProp <- ua
    MaxUnwind = 2
    Incremental = TRUE
    UnwindingAssertions = TRUE
SPECIFICATION Spec
CHECK_DEADLOCK FALSE




INVARIANT BoundSound
