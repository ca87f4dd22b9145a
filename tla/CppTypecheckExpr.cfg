CONSTANTS
    MaxErrors = 2
    MaxCalls = 3
SPECIFICATION Spec
CHECK_DEADLOCK FALSE
INVARIANT MessagesReported
