SPECIFICATION FairSpec
CONSTANTS
    Docs = {d1}
    Workers = {w1, w2}
    NoWorker = NoWorker
    TTL = 2
    MaxAttempts = 2
    Stalls = FALSE
    StoreFaults = FALSE
    MaxRequests = 2
    MaxCrashes = 2
    MaxVersion = 9
CHECK_DEADLOCK FALSE
INVARIANTS
    IndexConsistent
PROPERTIES
    EveryJobSettles
