SPECIFICATION FairSpec
CONSTANTS
    Workers = {1, 2}
    Viewers = {"chat", "panel"}
    Scripts <- MCScripts
    BatchSize = 2
    MaxRetries = 1
    MaxPolls = 1
CHECK_DEADLOCK FALSE
INVARIANTS
    CursorFaithful
    CompleteMeansWhole
PROPERTIES
    
    ChatSettles
    PanelLearns
    GraphConverges
