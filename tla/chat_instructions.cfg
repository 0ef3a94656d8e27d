SPECIFICATION Spec
CONSTANTS
    Procs = {p1}
    Turns = {t1}
    Requests <- MCModes
    Intents <- MCIntents
    Answers <- MCAnswers
    Histories = {"new"}
    Chunks = {1}
    BufferHighRisk = TRUE
    PerMessage = 1
    PerConversation = 2
    MaxWork = 4
    MaxEvents = 0
    MaxFaults = 0
CHECK_DEADLOCK FALSE
INVARIANT
    InstructionsReach
