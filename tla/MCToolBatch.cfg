SPECIFICATION FairSpec
CONSTANTS
    Names = {"read", "write"}
    SafeTools = {"read"}
    Presentation = "both"
    NumCalls = 2
    MaxParallel = 2
    MaskSets = {{"read"}}
    MaxForeign = 1
    MaxChanges = 2
INVARIANTS ExclusiveAlone LateNeverDispatched HiddenNeverRuns 
PROPERTY BatchReturns
CHECK_DEADLOCK FALSE
