\* Two processes execute one planned mutation.
SPECIFICATION Spec
CONSTANTS
    t1 = t1
    t2 = t2
    k1 = k1
    file = file
    Task = {t1}
    Proc = {p1, p2}
    Key = {k1}
    Target = {file}
    Request <- MCFileMutations
    Policies <- MCAllowing
    Threshold = 0
    MaxCrashes = 0
    MayAbort = TRUE
    StoreMayFail = FALSE
    NoTask = NoTask
    NoKey = NoKey
CHECK_DEADLOCK FALSE
INVARIANTS
    MutationAtMostOnce
