\* One task, one process that dies up to four times, also in the middle of recovery, and
\* whose store calls may throw.
SPECIFICATION Spec
CONSTANTS
    t1 = t1
    t2 = t2
    k1 = k1
    file = file
    Task = {t1}
    Proc = {p1}
    Key = {k1}
    Target = {file}
    Request <- MCMoreRequests
    Policies <- MCPolicies
    Threshold = 1
    MaxCrashes = 4
    MayAbort = TRUE
    StoreMayFail = TRUE
    NoTask = NoTask
    NoKey = NoKey
CHECK_DEADLOCK FALSE
INVARIANTS
    TypeOK
    
    InterruptedHasPayload
PROPERTIES
    LaunchUnderOwnPolicy
