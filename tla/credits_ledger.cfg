SPECIFICATION FairSpec
CONSTANTS
    u1 = u1
    u2 = u2
    t1 = t1
    t2 = t2
    d1 = d1
    Users = {u1, u2}
    Turns = {t1, t2, d1}
    Durable = {d1}
    UserOf <- MCUserOf
    Codes = {c1}
    Nobody = Nobody
    NoRef = NoRef
    Bonus = 1
    CodeValue = 1
    Reserve = 1
    Usages <- MCUsages
    PerUsd = 1
    TokensPerCredit = 2
    MaxCharge = 2
    MaxRuns = 1
    MaxTokens = 2
    SweepLimit = 1
    Deltas <- MCDeltas
    MaxEvents = 2
CHECK_DEADLOCK FALSE
INVARIANTS
    TypeOK
    LedgerReconciles
    CodesPayOnce
    DebtBounded
PROPERTIES
    EveryHoldReturns
