SPECIFICATION FairSpec
CONSTANTS
    Tabs = {t1, t2}
    Slots = {s1, s2}
    MaxOps = 3
    MaxFaults = 1
CHECK_DEADLOCK FALSE
INVARIANTS
    StaysSignedIn
PROPERTIES
    ChangeEndsSessions
    CallsSettle
