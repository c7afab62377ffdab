\* Every service, each with at most two actors of a kind (four tasks share a breaker).

CONSTANTS
    Requests <- MCRequests
    Policies <- MCPolicies
    ApprovalTtl = 2
    PolicyTicks = 4
    Processes = {m1, m2}
    Ids = {1, 2, 3}
    Scopes = {"user", "project"}
    MaxAge = 1
    MaxPerScope = 2
    MaxPuts = 3
    MemoryTicks = 1
    Commands = {m1}
    Timeout = 2
    Grace = 1
    MaxOutput = 2
    JobTicks = 6
    BreakerTasks = {m1, m2, m3, m4}
    Targets = {"a", "b"}
    Threshold = 2
    Cooldown = 2
    BreakerTicks = 3
    Keys = {m1, m2}
    WarnAt = 2
    StopAt = 3
    HardStop = TRUE
    MaxCalls = 5
    MaxStarts = 4
    FileTasks = {m1, m2}
    Contents = {"x"}
    Clients = {m1, m2}
    MaxEvents = 3
    MaxConnects = 2
    Calls = {m1, m2}
    MaxDialogs = 1
    MaxLaunches = 2
    MaxPageEvents = 2
    MaxParallel = 1
    Names = {"n"}
    Visits = {m1, m2}
    MaxAnswers = 1
    MaxChanges = 1

SPECIFICATION Spec
SYMMETRY Symmetric
CHECK_DEADLOCK FALSE
INVARIANTS
    NoTwins
    EndsAsTold
    GuardsSpeak
    OneKey
    FilesAreHonest
    
    
    SocketsAreKept
PROPERTIES
    NothingRunsOnStaleAuthority
    TighterNeverAllows
    
    RefusedIffFailing
    AnswersTellAll
    
