SPECIFICATION Spec
CONSTANTS
    Retain = 1
    MaxCalls = 2
    MaxSurface = 4
    MaxAttempts = 3
    MaxCrashes = 1
INVARIANTS ProjectionSucceeds NothingLost InConversationOrder SkillsStayVerbatim
CHECK_DEADLOCK FALSE
