SPECIFICATION FairSpec
CONSTANTS
    Atts = {a1, a2}
    Arts = {f1}
    Procs = {p1, p2}
    Servers = {p1}
    Elected = p1
    NoProc = NoProc
    MaxUnbound = 2
    MaxRequeue = 1
    OthersOwn = TRUE
    MaxOps = 2
    MaxFaults = 1
CHECK_DEADLOCK FALSE
PROPERTIES
    SweepSpares
    UploadsSettle
    OrphansReclaimed
