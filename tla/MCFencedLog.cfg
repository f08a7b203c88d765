SPECIFICATION FairSpec
CONSTANTS
    Workers = {w1, w2}
    EventIDs = {e1, e2}
    ClaimTTL = 1
    RenewTTL = 2
    MaxBatch = 2
    MaxFence = 3
    MaxCheckpoints = 1
INVARIANTS ExactlyOnce SingleWriter
PROPERTIES ImplementsEpochLog OrphanExpires
