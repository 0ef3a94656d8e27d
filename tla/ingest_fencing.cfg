SPECIFICATION Spec
CONSTANTS
    Docs = {d1}
    Workers = {w1, w2}
    NoWorker = NoWorker
    TTL = 2
    MaxAttempts = 2
    Stalls = TRUE
    StoreFaults = TRUE
    MaxRequests = 1
    MaxCrashes = 0
    MaxVersion = 3
SYMMETRY Symmetry
CHECK_DEADLOCK FALSE
INVARIANTS
    TypeOK
    ClaimIdentity
    LiveLeaseExcludes
PROPERTIES
    NoZombieWrite
    ImplementsFencedJob
