-------------------------------- MODULE Services --------------------------------
(* The services beside the controllers, one of them in every behaviour: part says *)
(* which, and v1, v2, ... are the variables of its module in their order (0 if it *)
(* has fewer).  The services share no state, so a behaviour of one says nothing     *)
(* about another, and one specification states what all of them promise.          *)
EXTENDS Integers, Sequences, FiniteSets

\* The parameters of the services; each module says what its own mean.
CONSTANTS
    Requests, Policies, ApprovalTtl, PolicyTicks,                   \* Authority
    Ids, Scopes, MaxAge, MaxPerScope, MaxPuts, MemoryTicks,         \* Memories
    Commands, Timeout, Grace, MaxOutput, JobTicks,                  \* TerminalJobs
    BreakerTasks, Targets, Threshold, Cooldown, BreakerTicks,       \* Breaker
    Keys, WarnAt, StopAt, HardStop, MaxCalls,                       \* ToolGuards
    Processes, MaxStarts,                                           \* Vault, Memories
    FileTasks, Contents,                                            \* Workspace
    Clients, MaxEvents, MaxConnects,                                \* HttpServer
    Calls, MaxDialogs, MaxLaunches, MaxPageEvents, MaxParallel,     \* BrowserSession
    Names, Visits, MaxAnswers,                                      \* Destinations
    MaxChanges                                                      \* Desktop

\* Times and limits are numbers, and so are ids, to order them; a warning comes after one
\* failure at the earliest, and what is named by the environment is none of the words that
\* the modules use for other things.
ASSUME ServicesAssumption ==
    /\ ApprovalTtl \in Nat /\ Timeout \in Nat /\ Grace \in Nat
    /\ MaxOutput \in Nat /\ MaxDialogs \in Nat /\ Threshold \in Nat /\ Cooldown \in Nat
    /\ Ids \subseteq Nat \ {0} /\ IsFiniteSet(Ids) /\ MaxPerScope \in Nat /\ "none" \notin Scopes
    /\ WarnAt \in Nat \ {0} /\ StopAt \in Nat /\ HardStop \in BOOLEAN
    /\ {"", "part", "none", "env"} \cap Processes = {}
    /\ {"partial", "absent"} \cap Contents = {}
    /\ {"public", "private", "loopback", "localhost"} \cap Names = {}

VARIABLES part, v1, v2, v3, v4, v5, v6, v7, v8, v9, v10, v11, v12, v13, v14, v15, v16, v17, v18,
          v19

after10 == <<v11, v12, v13, v14, v15, v16, v17, v18, v19>>
after9  == <<v10, after10>>
after8  == <<v9, after9>>
after6  == <<v7, v8, after8>>
after5  == <<v6, after6>>
after4  == <<v5, after5>>
after3  == <<v4, after4>>
vars    == <<part, v1, v2, v3, after3>>
-----------------------------------------------------------------------------
(* The services.                                                               *)

A == INSTANCE Authority WITH
        MaxNow <- PolicyTicks,
        policy <- v1, now <- v2, task <- v3
M == INSTANCE Memories WITH
        MaxNow <- MemoryTicks,
        records <- v1, puts <- v2, now <- v3, begun <- v4, torn <- v5
T == INSTANCE TerminalJobs WITH
        Calls <- Commands, MaxNow <- JobTicks,
        kind <- v1, answer <- v2, child <- v3, nature <- v4, term <- v5, kill <- v6,
        job <- v7, open <- v8, now <- v9
B == INSTANCE Breaker WITH
        Tasks <- BreakerTasks, MaxNow <- BreakerTicks,
        failures <- v1, task <- v2, now <- v3, answers <- v4
G == INSTANCE ToolGuards WITH
        failuresByKey <- v1, hintedKeys <- v2, mutated <- v3, verifiedAfterMutation <- v4,
        prompted <- v5, log <- v6
V == INSTANCE Vault WITH
        file <- v1, pc <- v2, key <- v3, sealed <- v4, starts <- v5, tampered <- v6
W == INSTANCE Workspace WITH
        Tasks <- FileTasks,
        dir <- v1, file <- v2, temporary <- v3, task <- v4, disturbed <- v5
H == INSTANCE HttpServer WITH
        phase <- v1, sessions <- v2, request <- v3, transports <- v4, events <- v5,
        stream <- v6, follower <- v7, late <- v8
S == INSTANCE BrowserSession WITH
        MaxEvents <- MaxPageEvents,
        mode <- v1, context <- v2, connection <- v3, proxy <- v4, active <- v5,
        opening <- v6, dialogs <- v7, popups <- v8, closing <- v9, browsers <- v10,
        proxies <- v11, routed <- v12, pages <- v13, call <- v14, closer <- v15,
        counts <- v16, unreported <- v17, overlapped <- v18, unclean <- v19
N == INSTANCE Destinations WITH
        Requests <- Visits, MaxChanges <- MaxAnswers,
        policy <- v1, proxied <- v2, answers <- v3, changes <- v4, request <- v5,
        sockets <- v6, listening <- v7, late <- v8
D == INSTANCE Desktop WITH
        platform <- v1, tools <- v2, call <- v3, button <- v4, pointer <- v5,
        display <- v6, secure <- v7, changes <- v8, disturbed <- v9, killed <- v10

Unused(n) ==
    /\ (n < 4 => v4 = 0) /\ (n < 5 => v5 = 0) /\ (n < 6 => v6 = 0) /\ (n < 7 => v7 = 0)
    /\ (n < 8 => v8 = 0) /\ (n < 9 => v9 = 0) /\ (n < 10 => v10 = 0)
    /\ n < 19 => /\ v11 = 0 /\ v12 = 0 /\ v13 = 0 /\ v14 = 0 /\ v15 = 0
                  /\ v16 = 0 /\ v17 = 0 /\ v18 = 0 /\ v19 = 0

Init ==
    \/ part = "authority" /\ A!Init /\ Unused(3)
    \/ part = "memories" /\ M!Init /\ Unused(5)
    \/ part = "terminal" /\ T!Init /\ Unused(9)
    \/ part = "breaker" /\ B!Init /\ Unused(4)
    \/ part = "guards" /\ G!Init /\ Unused(6)
    \/ part = "vault" /\ V!Init /\ Unused(6)
    \/ part = "workspace" /\ W!Init /\ Unused(5)
    \/ part = "http" /\ H!Init /\ Unused(8)
    \/ part = "browser" /\ S!Init /\ Unused(19)
    \/ part = "network" /\ N!Init /\ Unused(8)
    \/ part = "desktop" /\ D!Init /\ Unused(10)

Next ==
    \/ part = "authority" /\ A!Next /\ UNCHANGED <<part, after3>>
    \/ part = "memories" /\ M!Next /\ UNCHANGED <<part, after5>>
    \/ part = "terminal" /\ T!Next /\ UNCHANGED <<part, after9>>
    \/ part = "breaker" /\ B!Next /\ UNCHANGED <<part, after4>>
    \/ part = "guards" /\ G!Next /\ UNCHANGED <<part, after6>>
    \/ part = "vault" /\ V!Next /\ UNCHANGED <<part, after6>>
    \/ part = "workspace" /\ W!Next /\ UNCHANGED <<part, after5>>
    \/ part = "http" /\ H!Next /\ UNCHANGED <<part, after8>>
    \/ part = "browser" /\ S!Next /\ UNCHANGED part
    \/ part = "network" /\ N!Next /\ UNCHANGED <<part, after8>>
    \/ part = "desktop" /\ D!Next /\ UNCHANGED <<part, after10>>

Spec == Init /\ [][Next]_vars
-----------------------------------------------------------------------------
(* Properties, each of the service that it names.                                *)

\* What is launched has authority at that moment (docs/ARCHITECTURE.md:60).
NothingRunsOnStaleAuthority == [][part = "authority" => A!NothingRunsOnStaleAuthority]_vars

\* A policy that is restricted in any way never allows a request that was denied.
TighterNeverAllows == [][part = "authority" => A!TighterNeverAllows]_vars

\* Of the records that supersede one fact, readers find one, however puts interleave.
NoTwins == part = "memories" => M!NoTwins

\* A record is lost only by time, deletion, a successor or the ceiling of its scope.
NothingFoundIsLost == [][part = "memories" => M!NothingFoundIsLost]_vars

\* A job that is reported as ended is gone, and none outlives its timeout and grace.
EndsAsTold == part = "terminal" => T!EndsAsTold

\* A target is refused exactly while its last answers are recent failures.
RefusedIffFailing == [][part = "breaker" => B!RefusedIffFailing]_vars

\* A host is warned once per streak of failures and told of unverified mutations.
GuardsSpeak == part = "guards" => G!GuardsSpeak

\* All processes hold one key and open what any of them sealed, across deaths.
OneKey == part = "vault" => V!OneKey

\* Files are always whole, and only other tasks spoil the evidence of one.
FilesAreHonest == part = "workspace" => W!FilesAreHonest

\* Events arrive once and in order across reconnects, and close() ends every session.
ClientsAreServed == part = "http" => H!ClientsAreServed

\* A call that ran alone reports the dialogs and windows that it caused, and no others.
AnswersTellAll == [][part = "browser" => S!AnswersTellAll]_vars

\* close() leaves no browser and no proxy behind.
NothingOutlivesClose == part = "browser" => S!NothingOutlivesClose

\* Sockets are open to accepted addresses only and tunnels end with the proxy.
SocketsAreKept == part = "network" => N!SocketsAreKept

\* An action that succeeds has had its whole effect, and the button is left up.
InputArrives == [][part = "desktop" => D!InputArrives]_vars
=============================================================================
