SPECIFICATION Spec
CONSTANTS
    a = a
    b = b
    undoA = undoA
    Client = {c1}
    NoNode = NoNode
    Node <- Nodes
    Compensation <- Compensations
    ForNode <- Undoes
    NodeOutcomes <- AllOutcomes
    Recovered <- AllFindings
    MaxVersion = 7
    MayCorrupt = TRUE
INVARIANTS TypeOK CompletionIsEarned
PROPERTY HistoryIsAccepted
CHECK_DEADLOCK FALSE
