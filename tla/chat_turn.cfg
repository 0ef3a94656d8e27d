SPECIFICATION Spec
CONSTANTS
    Procs = {p1, p2}
    Turns = {t1, t2}
    Requests <- MCRequests
    Intents <- MCNoIntents
    Answers <- MCAnswers
    Histories = {"new", "answered"}
    Chunks = {1, 2}
    BufferHighRisk = TRUE
    PerMessage = 1
    PerConversation = 2
    MaxWork = 5
    MaxEvents = 3
    MaxFaults = 1
SYMMETRY Symmetry
CHECK_DEADLOCK FALSE
INVARIANTS
    HistoryKept
PROPERTIES
    AnswerStands
