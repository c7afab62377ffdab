\* One process, two tasks with one key, one death, a policy that may change at restart.
SPECIFICATION Spec
CONSTANTS
    t1 = t1
    t2 = t2
    k1 = k1
    file = file
    Task = {t1, t2}
    Proc = {p1}
    Key = {k1}
    Target = {file}
    Request <- MCRequests
    Policies <- MCPolicies
    Threshold = 0
    MaxCrashes = 1
    MayAbort = TRUE
    StoreMayFail = FALSE
    NoTask = NoTask
    NoKey = NoKey
CHECK_DEADLOCK FALSE
SYMMETRY Symmetric
INVARIANTS
    MutationAtMostOnce
    CommitterNotFailed
    
    CertificateAgrees
    VerifiedIsCommitted
PROPERTIES
    FinalStaysFinal
    NoMutationAfterCommit
