SPECIFICATION Spec
CONSTANTS
    a = a
    b = b
    undoA = undoA
    p = p
    x = x
    s = s
    c = c
    l = l
    h = h
    q = q
    d = d
    k = k
    NodeLimit = 500
    Order <- NodeOrder
    Definitions <- AllDefinitions
    FaultSets <- AllFaultSets
    MaxTasks = 6
    MaxFaults = 3
INVARIANTS RerunOnlyIfLost CompleteIsEvidenced RunningHasWork
PROPERTY IsSaga
CHECK_DEADLOCK FALSE
