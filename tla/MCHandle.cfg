SPECIFICATION Spec
CONSTANTS
    NumFollowUps = 2
    NumSteers = 1
    Ops = {"submit", "run"}
    Failures = {}
    MaxHostRuns = 1
    MaxFaults = 2
CHECK_DEADLOCK FALSE
INVARIANTS OneRunAtATime FollowUpsKept CompletedWasConsumed NoReplay
