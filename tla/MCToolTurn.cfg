SPECIFICATION Spec
CONSTANTS
    NumCalls = 2
    MaxTurns = 2
    MaxSteps = 2
    MaxBatch = 2
    MaxLeases = 3
    MaxLog = 14
    Asks = {}
    PostAsks = {}
    Defers = {1, 2}
CHECK_DEADLOCK FALSE
INVARIANTS NeverReexecuted AbortedNeverRan ResultIsFinal OutcomesBeforeStepEnd
