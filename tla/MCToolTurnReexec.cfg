SPECIFICATION Spec
CONSTANTS
    NumCalls = 1
    MaxTurns = 1
    MaxSteps = 1
    MaxBatch = 1
    MaxLeases = 3
    MaxLog = 14
    Asks = {1}
    PostAsks = {}
    Defers = {1}
CHECK_DEADLOCK FALSE
INVARIANTS NeverReexecuted
