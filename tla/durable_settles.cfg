SPECIFICATION FairSpec
CONSTANTS
    Runs = {r1}
    Workers = {w1}
    Schedulers = {s1}
    NoOwner = NoOwner
    MaxRetries = 1
    Faults = {"crash", "error", "renewal", "stall", "long", "eventless", "reject", "cancel"}
    MaxFaults = 2
CHECK_DEADLOCK FALSE
INVARIANTS
    NoLostRun
PROPERTIES
    EveryRunSettles
