\* Two processes that die and come back: nothing stays in flight.
SPECIFICATION FairSpec
CONSTANTS
    t1 = t1
    t2 = t2
    k1 = k1
    file = file
    Task = {t1}
    Proc = {p1, p2}
    Key = {k1}
    Target = {file}
    Request <- MCFileMutationOrRead
    Policies <- MCAllowing
    Threshold = 0
    MaxCrashes = 1
    MayAbort = FALSE
    StoreMayFail = FALSE
    NoTask = NoTask
    NoKey = NoKey
CHECK_DEADLOCK FALSE
PROPERTIES
    InFlightEnds
