SPECIFICATION Spec
CONSTANTS
    a = a
    b = b
    undoA = undoA
    Client = {c1, c2}
    NoNode = NoNode
    Node <- TwoNodes
    Compensation <- Compensations
    ForNode <- Undoes
    NodeOutcomes <- TwoOutcomes
    Recovered <- Findings
    MaxVersion = 7
    MayCorrupt = FALSE
INVARIANT LogLeadsToRun
PROPERTIES NoLostTransition EndedStaysEnded HaltHolds
CHECK_DEADLOCK FALSE
