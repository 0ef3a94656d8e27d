SPECIFICATION FairSpec
CONSTANTS
    WorkerCount = 2
    Profiles = {"write_review"}
    Proposals <- MCProposals
    Gated = TRUE
    MaxReplans = 1
    GuardReplans = 2
    MaxEvents = 3
    MaxCrashes = 1
CHECK_DEADLOCK FALSE
INVARIANTS
    FreshInputs
    CancelStopsNextLayer
    PanelSettles
PROPERTIES
    EveryPlanEnds
