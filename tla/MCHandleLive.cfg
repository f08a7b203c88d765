SPECIFICATION FairSpec
CONSTANTS
    NumFollowUps = 2
    NumSteers = 0
    Ops = {"submit", "approved"}
    Failures = {"error", "policy", "deferred"}
    MaxHostRuns = 1
    MaxFaults = 1
CHECK_DEADLOCK FALSE
PROPERTIES EventuallyTaken IdleNoticed DisposeReturns
