SPECIFICATION Spec
CONSTANTS
    NumCalls = 2
    MaxTurns = 2
    MaxSteps = 1
    MaxBatch = 2
    MaxLeases = 3
    MaxLog = 12
    Asks = {1}
    PostAsks = {1}
    Defers = {2}
CHECK_DEADLOCK FALSE
INVARIANTS  SettledBeforeNextTurn
PROPERTY ImplementsCallLifecycle
