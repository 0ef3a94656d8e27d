SPECIFICATION FairSpec
CONSTANTS
    look = look
    drop = drop
    rm1 = rm1
    rm2 = rm2
    reader = reader
    shell = shell
    Args = {look, drop, rm1, rm2}
    ToolOf <- MCToolOf
    Dangerous = {shell}
    Flaw <- MCFlaw
    Batches <- MCBatches
    ResultCosts = {1, 5}
    MaxResult = 4
    RoundTokens = {1, 3}
    MaxSteps = 2
    MaxTools = 2
    MaxTokens = 3
    MaxDistinct = 1
    MaxCont = 1
    MaxFailures = 1
    Slots = 1
    MaxEvents = 2
    Window = 12
    MaxOutput = 1
    SchemaTokens = 1
    Margin = 1
    AutoLimit = 7
    KeepRecent = 3
    SummaryCost = 1
CHECK_DEADLOCK FALSE
INVARIANTS
    TypeOK
    ConsentedOnly
    BudgetHolds
    EveryCallAnswered
PROPERTIES
    EveryTurnEnds
