SPECIFICATION Spec
CONSTANTS
    Callers = {c1, c2}
    MaxProcs = 2
    MaxId = 4
    None = None
INVARIANT OwnResponse
CHECK_DEADLOCK FALSE
