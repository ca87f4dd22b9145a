\* typecheck() over every symbol table of three symbols.
CONSTANTS
    N = 3
    NumItems = 1
    ParsedItems = {"declaration", "unknown"}
SPECIFICATION Spec
CHECK_DEADLOCK FALSE
INVARIANT UsedBodiesConverted
INVARIANT InitCallsConverted
PROPERTY Terminates
