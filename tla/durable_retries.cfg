SPECIFICATION Spec
CONSTANTS
    Runs = {r1}
    Workers = {w1}
    Schedulers = {s1, s2}
    NoOwner = NoOwner
    MaxRetries = 1
    Faults = {"crash", "sched", "error", "redis", "renewal", "stall", "long", "eventless", "reject", "cancel"}
    MaxFaults = 2
SYMMETRY Symmetry
CHECK_DEADLOCK FALSE
INVARIANTS
    TypeOK
    RetryBudget
