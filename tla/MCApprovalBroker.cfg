SPECIFICATION FairSpec
CONSTANTS
    Clients = {"c1", "c2"}
    MaxDecides = 2
    MaxRuns = 3
    MaxFaults = 2
INVARIANTS OnlyDurableYesRuns ApprovedRunsOnce
PROPERTIES AnswerArrives DecideReturns
CHECK_DEADLOCK FALSE
