SPECIFICATION FSFairSpec
CONSTANTS
    Agents = {"a1", "a2"}
    MaxOps = 2
    MaxOutside = 1
INVARIANTS NoLostUpdate
PROPERTY OpsReturn
CHECK_DEADLOCK FALSE
