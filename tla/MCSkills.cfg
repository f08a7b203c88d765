SPECIFICATION FairSpec
CONSTANTS
    Providers = {"p1", "p2"}
    Names = {"a", "b"}
    RuntimeNames = {"a"}
    Offers <- MCOffers
    ScopeOf <- MCScopeOf
    NumScopes = 2
    RankOf <- MCRankOf
    Agents = {"pinned", "live"}
    PinnedAgents = {"pinned"}
    MaxCache = 1
    MaxChanges = 3
    MaxFaults = 1
    MaxLoads <- MCMaxLoads
INVARIANTS CacheIsCurrent PinIsStable
PROPERTY CatchesUp
CHECK_DEADLOCK FALSE
