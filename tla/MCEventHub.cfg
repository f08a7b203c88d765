SPECIFICATION FairSpec
CONSTANTS
    s1 = s1  l1 = l1  h1 = h1  c1 = c1
    Sessions = {s1}
    LoopThreads = {l1}
    HandleThreads = {h1}
    Writes <- OneSession
    Clients = {c1}
    Watches <- WatchFirst
    Limit = 1
    MaxSeq = 3
    MaxSubscribes = 2
INVARIANTS TypeOK NoGap AcknowledgedWasSeen
PROPERTY EventuallyDelivered
