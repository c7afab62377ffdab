# Formal models of MELRA

TLA+ models of the control logic of MELRA (the MCP server that plans, executes,
verifies and certifies single tasks and durable workflows, and the runtimes it
drives), the TLC runs that check them, and TLAPS proofs of the results that matter
most. `PROJECT.json` holds the machine-readable index: components, runs, the mutants
that show each property can fail, the map from definitions to source lines, findings,
hazards and theorems. Paths below are relative to the repository.

## 1. The system

| Component | State | Operations | Module |
|---|---|---|---|
| `TaskController` (`packages/runtime-core/src/task-controller.ts`) | `active` controllers, timers, stack frames of running calls; rows of `tasks`, `task_payloads`, `receipts`, `certificates`, `idempotency_commits` | plan, execute, cancel, recoverInterrupted | `TaskController` |
| Circuit breaker (`circuit-breaker.ts`) | consecutive failures and opening time of each target, per process | check, recordFailure, recordSuccess | `Breaker` |
| `WorkflowController` (`workflow-controller.ts`) | per-process queue of advances; rows of `workflow_runs`, `workflow_events`, snapshots, leases | plan, advance, pause, suspend, resume, cancel, recoverInterrupted | `WorkflowRun`, `WorkflowLease`, `WorkflowNodes` |
| Workflow graph and events | none (pure) | validateWorkflow, readyNodeIds, applyWorkflowEvent, rebuildWorkflow | `WorkflowGraph`, `WorkflowRun` |
| SQLite store | the database file, shared by processes | compare-and-swap transitions, leases, `INSERT OR IGNORE` commits, memories | in the modules of its callers |
| Policy core | the policy read at start | classifyOperation, evaluatePolicy, capabilityRefusal, validateApproval | `Authority` |
| Verifier core | none | verify | `Workspace`, `TaskController` |
| Retry guard, verification gate | per-call failure counts, flags of a turn | recordToolResult, observe, prompt, reset | `ToolGuards` |
| Local memory | rows of `memories` | put, supersede, delete, clear, compaction | `Memories` |
| Terminal runtime | child processes, jobs, timers | run, start, status, output, send, stop, close | `TerminalJobs` |
| File runtime | the workspace | list, stat, read, hash, write, move, delete, mkdir | `Workspace` |
| Browser runtime | connection, context, pages, dialogs, windows | execute, close | `BrowserSession` |
| Network policy, pinning proxy | sockets | assertSafeDestination, CONNECT and plain requests, close | `Destinations` |
| Computer runtime | none; the desktop | input, screenshot, inspect through helper programs | `Desktop` |
| HTTP server | table of sessions, event streams | open, use, delete, follow, close | `HttpServer` |
| Payload key and cipher | `payload.key` | loadPayloadKey, seal, open | `Vault` |

What is hard here: several server processes may share one data directory
(`docs/ARCHITECTURE.md:288`), each with its own event loop, so every pair of store
calls is a place where another process may step in or where this one may die;
adapters, verifiers, timers and cancellations answer in any order; recovery runs at
every start, also while other processes work; policy is read again at every start;
mutations must not be repeated by any of it; and the runtimes act on things (children,
files, pages, a desktop) that change by themselves. The `hazards` of `PROJECT.json`
list the places, each at its line.

The controllers call each other in one direction: an advance of `WorkflowController`
plans and executes tasks, a task asks policy and the breaker, calls one runtime through
the router and then the verifier. The modules meet at those calls: what one leaves to
a choice (`NodeOutcomes` of `WorkflowRun`, the answers of tasks in `WorkflowNodes`, of
adapters and verifiers in `TaskController`) another computes.

## 2. Modules, runs and proofs

### TaskController

`TaskController.tla` models one task from `plan` to its certificate, in any number
of processes on one store.

* **State.** `row`, `sealed`, `receipts`, `cert`, `commits` are the tables;
  `mode`, `policy`, `pc`, `frame`, `mem`, `active`, `aborted`, `expired`, `busy`,
  `failures`, `cooling` are what a process keeps in memory and loses when it dies;
  `launches` and `crashes` are history.
* **Steps.** One action per store call or await. `busy` says which call holds the
  event loop: callbacks and new calls wait for it, other processes do not.
  `Execute` to `Start` is `execute` up to the adapter call, `AdapterAnswers`,
  `AdapterThrows` and `VerifierAnswers` are its continuations, `SaveReceipt`,
  `Settle`, `Certify`, `Seal` its writes on both the normal and the `catch` path
  (`frame` tells which block a call is in), `Boot`, `Reobserve`, `RecoveryReceipt`,
  `Reclassify` and `Serve` are process start and recovery.
* **Abstractions.** A request is its effect, the class of its evidence, its retry
  budget, its target and its idempotency key. `destructive` behaves as `mutate` in
  everything this module models. Policy is a function from effects to outcomes,
  read at start. What the adapter, the verifier and an approver say is a choice.
  The cooldown of the breaker passes at any time.

| Run | Instance | Question |
|---|---|---|
| `task_one_process` | 1 process, 2 tasks, 1 key, 1 death, all policies | are mutations at-most-once, final statuses final, commits respected, is what is verified committed when two tasks race for a key |
| `task_restarts` | 1 process, 1 task, breaker threshold 1, 4 deaths, store calls that fail | do row, receipts and certificate agree, does every launch obey the policy of its process, what does a partial failure leave behind |
| `task_liveness` | 2 processes, 1 task, 1 death, fairness | does a task in flight always end |
| `task_twice_launched` | 2 processes, 1 mutation | shows the divergence below |

Bounds: two tasks are the least that can contend for a key and two processes the least
that can contend for a task; four deaths let recovery itself be cut at each of its
writes; a threshold of 1 opens the breaker with the first failure and 0 switches it
off. Deadlock is not checked because a quiet server may wait for callers for ever.

Fairness (`FairSpec`): a started synchronous segment goes on, an adapter or verifier
answers (the budget timer aborts those that would not), a process that is down is
started again and its recovery goes on. Callers owe nothing.

#### Proofs

`TaskControllerProofs.tla` proves, for all values of the constants:

* `TypeCorrect`: `Spec => []TypeOK`.
* `StoreIsSafe`: four of the invariants (`VerifiedIsCommitted`,
  `VerifiedHasReceipt`, `DuplicateIsCommitted`, `InterruptedHasPayload`), with any
  number of processes, deaths, aborts and failing writes. None of them is
  inductive, since a row is written from an object that a call holds in memory:
  `StoreInv` adds what each call has already secured at each point (`Carried`),
  and `Locality` shows that a step of one call disturbs no other call.
* `OneProcessRunsOnce`: with a single process, `MutationAtMostOnce`. The
  strengthening `Once` says that once a mutation was launched neither its row nor
  the object its call will save is executable again. With two processes it is
  false (`task_twice_launched`), which is why the theorem assumes `OneProcess`.

`TaskRecordsProofs.tla` proves the rest of what the runs check, but for liveness:

* With any number of processes: `LaunchesObeyPolicy` (`LaunchUnderOwnPolicy`),
  `InterruptedIsSealed` (`InterruptedHasPayload`) and, if no write fails, `NoStrays`
  (`NoStrayController`: a write that fails between `active.set` and the `try` block,
  `task-controller.ts:265`, leaves one).
* With one process: `CertificatesAgree` (`CertificateAgrees`), `OneStory`
  (`RecordsAgree`), `NoLaunchAfterCommit` (`NoMutationAfterCommit`) and, if no write
  fails, `FinalIsFinal` (`FinalStaysFinal`) and `CommitterStands`
  (`CommitterNotFailed`). The assumptions are needed: `execute` takes no lease, so two
  processes overwrite each other's rows and certificates; and a write that fails after
  the commit sends a verified task to the `catch` block, which saves it as failed.
* The argument. `StepMoves` reduces the steps of a task to ten *moves* of its row,
  each with what it may do to the row, the receipts, the commit, the certificate and
  the frames of calls (a row is taken, judged, ended, caught, dropped, and so on), so
  that an invariant has ten cases. `ShapeInv` says what a call holds at each point of
  its way, `AgreeInv` that a row on its way out and its certificate are written from one
  object, `GateInv` that a call that is about to launch passed policy and approval in
  this process, `HolderInv` that the task which committed a key is verified or in the
  hands of the call that will save it as such. `OnceInvariance` of `TaskControllerProofs`
  carries the at-most-once argument over.

`InFlightEnds` is a liveness property and stays with TLC.

### WorkflowRun

`WorkflowRun.tla` models one workflow run as the store keeps it, and every call that
moves it, in any number of processes.

* **State.** `run`, `log`, `snapshots` are the rows of `workflow_runs`,
  `workflow_events` and `workflow_snapshots`. `pc`, `call`, `held`, `base` are what
  each call under way has read: a client is a call, so two clients are two calls of
  one process as well as one call of each of two. `past` is history: the projection
  after each event.
* **Steps.** A call reads the run in one store call (`Begin`, with the early returns
  of `advance`, `pause`, `suspend`, `resume`, `cancel` and of the filter of
  `recoverInterrupted`) and commits in another (`Halt`, `Resume`, `Cancel`,
  `Advance`, `Recover`, all through `Transition`), so that everything may happen in
  between. `Transition` is `transition` with `transitionWorkflow`: the controller
  replays the events it is about to emit and compares them with its draft
  (`Consistent`), the store compares the version (`Unmoved`) and writes events and
  projection in one transaction (`Stored`). `Checkpoint` and `SaveSnapshot` are two
  more writes of `advanceOnce`; `ReplaySnapshot` and `ReplayEvents` are the reads of
  `replay`. `Return` is an advance without a ready node or with a node that throws,
  `Die` a call cut off anywhere, `Corrupt` a snapshot that no longer parses.
* **Algorithms.** `Applicable` and `Apply` are `applyWorkflowEvent`, `Rebuild` is
  `rebuildWorkflow` as a recursive function over the log, `DeriveStatus` is
  `deriveStatus`, `AdvanceChanges` what a wave with given outcomes changes:
  compensations run or are skipped when a node failed, unused ones are skipped when
  the rest is complete, then the status is derived.
* **Abstractions.** A node is its status and a run its status, its nodes, its version
  and whether it has an error. Which pending nodes are ready, what the tasks of a
  wave come to (`NodeOutcomes`), whether their certificates are all of success and
  what recovery finds (`Recovered`) are choices, which `WorkflowNodes` decides. The lease
  is left out, which allows more interleavings than it does, and is `WorkflowLease`.

| Run | Instance | Question |
|---|---|---|
| `run_interleaved` | 2 calls, 1 operation and its compensation, 7 events | is every transition computed from the run it replaces, does the log lead to the projection and to every snapshot, do halts and ends hold |
| `run_outcomes` | 1 call, 2 operations and a compensation, all outcomes, unreadable snapshots, 7 events | is a run complete only when its nodes are, does a start replay what the store kept |

Bounds: two calls are the least that race. Seven events (`MaxVersion`, a guard of
`Transition`) hold creation, a wave with its derived status, a checkpoint, a halt and
a resume or a recovery, and one more wave; a second operation gives waves of two
nodes and waves that leave one behind. Deadlock is not checked because an ended run
stops, and so does one at the bound. There is no liveness property: a client advances
a run when it likes, and the model lets any call be given up.

#### Proofs

`WorkflowRunProofs.tla` proves, for every set of nodes, compensations, calls and
outcomes and every bound:

* `TypeCorrect` (`TypeOK`), `LogIsHistory` (`LogLeadsToRun`), `NothingLost`
  (`NoLostTransition`), `EndedStays` (`EndedStaysEnded`) and `HaltsHold`
  (`HaltHolds`).
* None of these is inductive. `Inv` adds that what a call holds is a run of the past
  (`HeldIsPast`: with an equal version it is therefore the current run, which is what
  makes the compare-and-swap of a version number one of the whole run) and that a
  call about to commit was let through when it read (`HeldIsOpen`: with the former,
  an ended run can only be moved by the checkpoint of the wave that ended it).
  `MovingStep` shows that each of the six committing calls emits a sequence of
  changes of its own kind (`Moves`), `StoredExtends` that storing such changes
  extends log and past, `LastEvent` and `OneChange` read off what they do to status
  and nodes.
* What the events of one call come to is taken from `Consistent`, the assertion the code
  itself makes before it stores.

`WorkflowReplayProofs.tla` proves what needs more than one step of the log:

* `ReplayRebuilds`: replaying the *whole* log from its first event gives the stored
  projection (`ProjectionIsReplay`, which no cfg lists for want of room and which holds
  when it is added). `rebuildWorkflow` is a recursive function over the log, so this is
  an induction over data: `Induction` derives from the library's theorem on minimal
  elements that a set which holds 0 and is closed under successors holds every natural
  number; `RebuiltSteps` and `DraftsSteps` use it to show that the recursive functions
  satisfy their equations, `ReplayFrom` that a replay from any snapshot of the past
  passes through the past.
* `RefusedIfMoved`: with any number of calls, a process that starts refuses a readable
  history only if the run was moved while it read; and `HistoryAccepted`, with one
  call at a time, that it never refuses one (`HistoryIsAccepted`).
* `CompletionEarned` (`CompletionIsEarned`), with any number of calls. The draft that an
  advance or a recovery stores is built change by change (`Mutate`); `OnTop` and
  `SkipsOnTop` show that the later changes of a call leave the nodes that decide the
  status alone, so that what `deriveStatus` saw is what is stored.

No property of these runs is only model-checked, but `EventsRebuildTheDraft`, which is
false (section 3).

### WorkflowLease

`WorkflowLease.tla` models the advances of one workflow around `advanceOnce`: the
promise chain of a process (`queue`), the row of `workflow_leases` (`lease`), the
renewal timer, and time.

* **State.** `lease.left` is `expires_at` minus the present, so that no clock grows; it
  goes on below zero as far as a store call can have waited, since `now` is read before
  the call waits for SQLite's write lock (`waited`, up to `busy_timeout`). `phase`,
  `held`, `wave`, `timer` belong to the advance that runs, `stray` holds the nodes that
  are still at work for an advance that is over. `overdue` is history: a renewal of
  this advance came late.
* **Steps.** `Ask` is `advance` up to the chain; `Begin` and `Refuse` are
  `leasedAdvance` up to the first await, `Answer`, `Finish` and `Throw` its end with
  the `finally` block, `Renew` the interval's callback, `Die` a death and a restart
  under a new owner id, `Move` what moves the run without a lease, `Tick` time, which
  passes whether timers have fired or not.
* **Abstractions.** A run is its version; a wave is any set of nodes; an advance that
  finds nothing to do, or a run that is over, is `returning`. The clock of the machine
  does not jump.

| Run | Instance | Question |
|---|---|---|
| `lease_shared` | 2 processes, 2 calls, 2 nodes, 1 death, a duration of 3 ticks, fairness | can an advance be overtaken, who may take or drop a lease, is a dead owner replaced |

Bounds: a duration of 3 with renewal after 1 and waits of up to 1 is the tightest
instance of the assumption `RenewalInterval + BusyTimeout < Duration` (the code's
values are 30 s, 5 s and 60 s). One version is enough: it tells a wave that commits
from one that finds the run moved. Fairness: time passes, a call that can begin does,
timers fire and nodes answer some day; callers owe nothing, `DeadOwnerReplaced` assumes
in its own statement that somebody asks again and again.

#### Proofs

`WorkflowLeaseProofs.tla` proves `TypeCorrect`, `NeverOvertaken` (`OneAdvance`) and
`LeaseKept` (`LeaseIsKept`) for every instance of `LeaseAssumption`. `OneAdvance` is
not inductive: `PunctualHolds` says that an advance whose renewals came in time owns
the lease and that what is left of it exceeds its timer; both fall by one with each
tick, and a grant or a renewal leaves more than `RenewalInterval` after any wait.
Replacement of a dead owner is a liveness property and stays with TLC.

### WorkflowNodes, WorkflowGraph and Saga

`WorkflowGraph.tla` has `validateWorkflow`, `hasDependency` and `readyNodeIds` as
operators on a definition. `MCWorkflowNodes.tla` compares them, as assumptions that TLC
evaluates, with the topological orders of every graph of up to three nodes.

`WorkflowNodes.tla` models what an advance does with every type of node (operation,
approval, human input, condition, parallel, bounded loop, delegation, checkpoint,
compensation) and their tasks, and what a start makes of both.

* **State.** `run` is the stored projection, `tasks` what `TaskController` keeps of each
  task, `committed` the idempotency keys, `wave` and `jobs` the advance under way and
  the nodes in it. `launched`, `lost` and `repaired` are history: how often an adapter
  was called for a key, nodes whose outcome was dropped, nodes that recovery completed.
* **Steps.** `Advance` is `advanceOnce` up to the first await, `StartRequest`, `Answer`
  and `Throw` the requests of the nodes of a wave, each in order, the nodes side by
  side; `Gather` and `UndoNext` the failing wave and its compensations, newest first;
  `Commit` the transition with its compare-and-swap. `Halt`, `Resume` and `Cancel`
  come at any time. `Die`, `RecoverTasks` and `RecoverRun` are a death, the recovery of
  tasks and `recoveredNodeState` with the replay of keys to nodes.
* **Abstractions.** One process (`WorkflowLease` has the others). What predicates say is
  chosen once, or changes (`Change`); a human answers or not.

`Saga.tla` is the abstract specification: steps are done in the order of their needs and
stay done, a run is complete when all are, only a failed run undoes steps, and only ones
that are done. `IsSaga` is `Workflow!SagaSpec` under a refinement mapping from nodes.
Approvals are no step of the saga: a person answers them. A compensation whose outcome
was lost is left out of `undone`, since its next outcome replaces the recorded one.

| Run | Instance | Question |
|---|---|---|
| `workflow_nodes` | 5 definitions with every node type; deaths, halts and deaths, throws, or changing predicates (`FaultSets`), 3 of them, 6 tasks | is a workflow a saga of its definition, are mutations repeated only when an outcome was lost, is what an advance completed evidenced, has a running workflow work |
| `node_half_done` | a parallel node, 2 deaths | shows the bug below |

Bounds: six tasks are two more than the largest definition plans without a repetition,
and three faults are a death in the work, one in the recovery of the first and a halt
or a third. The definitions have two or three nodes each, so that every type meets its
neighbours: an approval its operation, a condition its source, a failing operation its
compensation.

#### Proofs

All of it is for every set of definitions that `validateWorkflow` and the schema accept
(`NodesAssumption`: a definition has a node, its graph is acyclic, each node has the
fields of its type), any answers of adapters, predicates and people, any faults and any
bounds. `WorkflowSagaProofs.tla` has the lemmas about lists and about the operators of the
model, the refinement while the process lives (`SagaRefined`), and the lemmas on types;
`WorkflowNodesProofs.tla` extends it and has the rest.

| Theorem | States | Assumes |
|---|---|---|
| `TypeCorrect` | `TypeOK` | nothing |
| `SagaRefined`, `SagaSurvives` | `IsSaga`: every step is a step of `Saga` or a stutter | nothing while the process lives; if it may die, `Supported`: predicates answer as before, nothing is compensated, and an approval waits for whatever its operation waits for |
| `EvidenceIsComplete` | `CompleteIsEvidenced` | `Steady`: predicates answer as before |
| `RerunsAreOfLosses` | `RerunOnlyIfLost` | `Steady`, and `Direct`: an operation has one approval at most, and depends on it |
| `RunsDoNotStall` | `RunningHasWork` | `Steady`, `Direct`, and `Closed`: no node depends on a compensation |

The invariants, in the order in which each needs the one before:

* `SagaInv`. Until a wave is committed its outcomes are only promises, so it says what
  they are worth: a node that is being advanced, or whose result waits for the commit, is
  open and has what it depends on; unless the run has moved since the wave began, the
  wave's base is the stored run, a rollback works on compensations only, and a
  compensation is there only after a failure and for a verified operation. `MetInv` adds
  for deaths that whatever has a task has what it depends on, so that recovery, which
  reads nodes off their tasks, cannot bring one forward.
* `TypeInv` types what jobs hold as well, and gives every busy request a task of its own
  that runs.
* `TaskInv` puts tasks and nodes side by side. `Plan(n)` is the line of requests of a
  node and how far along it the node has to go; the ids of a node, of its jobs and of its
  results are tasks of the first requests of that line, in order (`RecordsInv`); what
  tasks there are is an initial part of the line (`KnownInv`); and a node that is complete
  has them all, or was completed by recovery and has those there were (`CompleteInv`).
* `OnceInv`. Of a node no outcome of which was dropped, every mutation has one task at
  most, and was launched once if that task says so (`LaunchInv`); whoever takes up the
  node again holds the tasks of all requests that have any (`HeldInv`), so that none is
  planned again. `OnceJobs` says that an operation behind an approval begins with the
  approval's task.
* `WorkInv`. A node is only kept from the next advance by one before it, and
  `AcyclicHasFirst`, an induction over the layers of Kahn's algorithm, gives a first one.
  It is then pending with all it needs done, unless the run is of nodes that the model
  has to rule out: none is merely `ready` (`NoReady`), a failed one makes the run failed
  for good (`FailedInv`), and one that needs reconciliation makes it `recovery_required`
  with an error unless its outcome was lost (`ReconciledInv`), which rests on the tasks
  of a node on its way being free of interrupted ones while the process serves
  (`CalmInv`). If no node is pending the run is complete, since the tasks of all nodes
  are verified (`DoneInv`); that those of approvals are too takes `SharedInv`: an
  operation and its approval have one task between them.

TLC checked each of these on the instance of `workflow_nodes` and on a larger set of
definitions before it was proved, and shows why the hypotheses are there:

* Without `Steady`, `CompleteIsEvidenced` and `RunningHasWork` are false of conditions
  whose requests wait for approval while the predicate turns (section 3).
  `RerunOnlyIfLost` with changing predicates holds in the runs and is only model-checked:
  the tasks of a node no longer follow one line, on which `KnownInv` and `HeldInv` rest.
* Without `Direct`, `RerunOnlyIfLost` is false. Two approvals of one operation both plan
  its task. And an operation that reaches its approval only through another node, which
  has an early approval of its own, begins before its approval does once a restart has
  recorded that node as complete; both plan the task (section 3).
  `RunsDoNotStall` takes `Direct` over with the invariants it rests on; no instance that
  was tried breaks `RunningHasWork` without it.
* Without `Closed`, a node that names a compensation among its dependencies is never
  ready, and `RunningHasWork` is false.
* Without `Supported`, deaths break the order: section 3 has the three ways.

### Services

The components beside the controllers share no state with each other, so `Services.tla`
composes them into one specification: `part` says which one a behaviour is of, and each
is an INSTANCE on the same variables. `MCServices.tla` gives the constants their small
sets, and one run, `services`, checks all of them. Each module can be instantiated by
itself as well.

| Module | What it models | Properties | Instance |
|---|---|---|---|
| `Authority` | classification of commands, urls and actions, deny traits, allowlists, grants with expiry and policy version, confirmation, approvals and their lifetime, between plan and execute with restarts under other policies | `NothingRunsOnStaleAuthority`, `TighterNeverAllows` | 10 requests, 9 policies that differ in one rule each, a lifetime of 2 in 4 ticks |
| `Memories` | every store call of `put` (checks, write, supersede, undo, compaction) by processes that may die between them, delete, clear, time | `NoTwins`, `NothingFoundIsLost` | 2 processes, 3 records, 3 puts, a ceiling of 2 |
| `TerminalJobs` | foreground and background commands, their timers, SIGTERM and SIGKILL, pipes held by grandchildren, output limit, abort, close | `EndsAsTold` | 1 command of either kind, stubborn or not |
| `Breaker` | the counts with their clock under concurrent callers and late answers | `RefusedIffFailing` | 4 tasks, 2 targets, threshold and cooldown 2 |
| `ToolGuards` | retry guard and verification gate | `GuardsSpeak` | 2 calls made 5 times |
| `Vault` | creation of the key by racing processes, deaths in the write, keys from the environment, permissions, sealing and opening | `OneKey` | 2 processes, 4 starts |
| `Workspace` | every file operation one system call at a time, temporary files, deaths, the checks of default evidence | `FilesAreHonest` | 2 tasks on a directory with 2 files |
| `HttpServer` | the session table, initialisation with its await, event streams with reconnects from a cursor, shutdown | `ClientsAreServed` | 2 clients, 3 events, 2 connections each |
| `BrowserSession` | launch, attach, death and relaunch, pages, tabs, dialogs, windows and the drain of their closes, close() | `AnswersTellAll`, `NothingOutlivesClose` | 2 calls in a row that may meet close(), 2 launches, 2 events |
| `Destinations` | route handler, resolver with changing answers, proxy with CONNECT and plain requests, close | `SocketsAreKept` | 2 requests, 1 changed answer |
| `Desktop` | each platform's helper programs for each action, measuring, secure input, killed helpers, a changing desktop | `InputArrives` | 2 calls at once, 1 change |

Properties are made of named parts in the modules (`EndIsReal` and `TimeoutEndsIt`,
`FilesAreWhole` and `OnlyOthersSpoilEvidence`, and so on). Two of everything is the
least that can race; the breaker takes four tasks so that two fail late while others
are turned away. History variables record what a property excuses (`torn`,
`disturbed`, `tampered`, `late`, `overlapped`, `killed`) and guard nothing. Deadlock is
not checked: callers and clients need not come, and calls are made once. No fairness
is assumed, since none of these properties needs any. TLC's coverage of this run shows
every assignment of every one of these modules taken.

Two calls at once are not among the behaviours of `BrowserSession` in this run
(`MaxParallel` is 1): its comment at `browser-runtime/src/index.ts:221-227` takes it for
granted that operations run one at a time, and with two most of its promises fail (see
section 3). `command_outlives_budget` and `browser_dialogs` are runs of `TerminalJobs`
and `BrowserSession` by themselves.

#### Proofs

`ServicesProofs.tla` proves every property of this run for any number of processes, tasks,
calls, clients and records and every limit. A service is one part of `Services`, so every
proof has the same frame: a step of a behaviour of that part is a step of its module,
which keeps the module's invariant. The assumptions (`ServicesAssumption`) are that times
and limits are numbers, that ids are finitely many positive ones, that a warning comes
after one failure at the earliest, and that names from the environment are none of the
words that the modules use themselves.

| Theorem | States | Argument |
|---|---|---|
| `AuthorityIsFresh` | `NothingRunsOnStaleAuthority` | `ApprovalsAge`: a challenge expires one lifetime after its task was planned, under whichever policy that was; `DecisionFacts` says what the decision that is made again before a launch requires |
| `RestrictingNeverAllows` | `TighterNeverAllows` | the decision is monotone in each part of a policy (`TighterDecides`) |
| `OneSuccessor`, `RecordsAreKept` | `NoTwins`, `NothingFoundIsLost` | `MemoriesInv`: a record that names an old one is the old one's successor, or some process is between the two writes, unless a put died or overwrote what it had not seen (`torn`); compaction takes what enough newer records outrank |
| `JobsEndAsTold` | `EndsAsTold` | `JobsInv`: what is reported as ended has a child that has closed, and a living child of a call that was not aborted has a timer that has not run out |
| `BreakerIsExact` | `RefusedIffFailing` | `BreakerInv`: the count is the length of the run of failures at the end of the history of answers |
| `HostIsTold` | `GuardsSpeak` | `GuardsInv`: the count of a key is its streak in the log, and a key is hinted once in a streak |
| `KeysAgree` | `OneKey` | `KeyInv`: one process creates the file, and who is up holds what it wrote |
| `WorkspaceIsHonest` | `FilesAreHonest` | `WorkspaceInv`: a task between two of its calls has a temporary file of its own, and its evidence holds unless another one disturbed its paths |
| `ServedInOrder` | `ClientsAreServed` | `StreamsInv`: what is on the wire continues what the client has seen, up to the cursor; `SessionsInv` for the table |
| `CloseLeavesNothing`, `AnswersAreComplete` | `NothingOutlivesClose`, `AnswersTellAll` | `SessionInv`: one browser and one proxy, those of the context; `TellInv`: while one call runs, what the page did since it began is recorded, since each of its pages has the handlers |
| `SocketsStayPinned` | `SocketsAreKept` | `ProxyInv`: what was checked is as it was found, and what is open is kept where close() finds it, or was under way |
| `InputIsDone` | `InputArrives` | `DesktopInv`: a call that ran alone since it measured has the display it measured, and a pressed button has a call that will release it |

## 3. Findings

Each is a run in which TLC finds violated what a document or a comment says;
`findings` in `PROJECT.json` quotes the sentence and the lines.

| Run | What the code does |
|---|---|
| `task_twice_launched` | two processes that read a planned mutation before either saves it as running both call its adapter |
| `node_half_done` | a parallel node that died before all of its requests were planned is recovered as complete |
| `command_outlives_budget` | an abort sends one SIGTERM and its error handler clears the timer that would escalate: the command may run on for ever |
| `browser_dialogs` | the dialogs of a call that throws are wiped by the next call and never reported |

More of the kind, which a run shows if the formula is added to the given cfg:

* `NeverItsOwnDuplicate` (`TaskRestarts.cfg`, INVARIANT): a read whose process dies
  between its commit and its last save is later turned away as a duplicate of itself.
* `EventsRebuildTheDraft` (`RunOutcomes.cfg`, INVARIANT): after recovery has set the
  error of a run, halting it, or an advance that changes its status, fails the
  controller's own assertion, the advance after its tasks have run.
* `HistoryIsAccepted` (`RunInterleaved.cfg`, PROPERTY): a process that starts while
  another moves a run takes the intact history for an invalid one.
* `NoDuplicateEffects` (`LeaseShared.cfg`, INVARIANT): a node that throws releases the
  lease while its siblings run; the next advance starts them again.
* `MutationAtMostOnce` and `FailureIsEarned` (`WorkflowNodes.cfg`, INVARIANT): a halted
  wave or one rejected by a throw loses outcomes, and its mutations run again; an
  approval node and its operation that both await one task disagree after a restart,
  and the run fails.

`ProjectionIsReplay` and `TypeOK` (`WorkflowRun`, both proved), `DuplicateIsCommitted`
(`TaskController`, proved as part of `StoreIsSafe`), and `TypeOK` of `WorkflowLease`
(proved) and `WorkflowNodes` hold when they are added to the passing runs' cfgs.

Observations that no property states:

* Tasks. A death between the last save (`task-controller.ts:360`) and the certificate
  (647) leaves a verified task without one. A store call that fails after the
  certificate was saved leaves a certificate of success on a task that ends failed.
* Workflows. A predicate of a condition is evaluated again when its node is taken up
  again (`workflow-controller.ts:653`). A condition whose source does not precede it
  throws at every advance. `cancel` cancels tasks before its compare-and-swap (512).
  Recovery skips failed runs, so an interrupted compensation is launched again.
* Workflows, met while proving; each is why a theorem has a hypothesis, and TLC gives the
  behaviour when the definition is added to `MCWorkflowNodes`. A predicate that changes
  between parking and resuming a condition whose requests need approval: with branches of
  different length the node completes on the shorter one with a task left over, and the
  run says running for ever without work; with two requests in either branch it completes
  with half of each. An operation that waits for an approval and for another node is
  executed by its approval before that other node is done, and a restart then records it
  out of order. Two approvals of one operation both plan and launch its task. So do an
  approval and its operation after that, if the operation waits for its approval only by
  way of the node that was recorded. A node that depends on a compensation passes
  validation and never becomes ready. A death after a compensation of a wave that was not
  committed, where a failed delegation was the reason, leaves what was compensated in a
  run that goes on, since recovery finds no failed task; a death with predicates that
  changed completes nodes that are no longer on the way.
* Memory. An expired record is compacted though a live record still names it in
  `supersedesId` (`INSTALLATION.md:254`, `storage-sqlite/src/index.ts:1046`).
* Terminal. `stop` never escalates to SIGKILL; a foreground call whose grandchild holds
  its pipes is not answered; jobs are never removed from the table.
* Payload key. A death between the creation and the write of the file leaves an empty
  one, and every later start fails with `payload_key_file_invalid`.
* Browser. Two calls at once launch two browsers and lose the first; a failed launch or
  a dead browser leaves its proxy listening; dialogs between calls are wiped.
* Network. `domainAllowed` of the runtime asks for localhost to be in the list, which
  policy exempts: policy allows what the runtime then refuses.
* Desktop. A scroll of less than half a notch does nothing and succeeds; a helper killed
  in a drag leaves the button pressed; secure input is checked before the keys are sent.
* HTTP. Sessions that clients do not close stay in the table; the console's EventSource
  reconnects from its first cursor and reads everything again (`console-page.ts:173`).
* Guards. `prompted` is never reset within a turn: later mutations are not asked about.

## 4. What is proved and what is not

Modelled, in the order in which it was done: `TaskController`, `WorkflowRun`,
`WorkflowLease`, `WorkflowGraph`, `WorkflowNodes` with `Saga`, `Authority`, `Memories`,
`TerminalJobs`, `Breaker`, `ToolGuards`, `Vault`, `Workspace`, `HttpServer`,
`BrowserSession`, `Destinations`, `Desktop`, `Services`. A theorem states each safety
invariant, action property and refinement of the passing runs, under the hypotheses given
with it in section 2.

Only model-checked, and why:

* `InFlightEnds` and `DeadOwnerReplaced`: liveness under fairness, and with it ENABLED,
  is out of the reach of TLAPS.
* What is false, or not proved, without a hypothesis, on the instances of the runs: the
  single process of the task theorems; `Steady` and `Direct` for `RerunOnlyIfLost`, and
  for the refinement of `Saga` across deaths what `Supported` asks for.
* `IsAcyclic` and `HasDependency` against topological orders (`GraphsAreSorted`,
  `DependenciesComeFirst`): assumptions of `MCWorkflowNodes` on all graphs of up to three
  nodes. Of the algorithm itself the proofs use `LayersAbove`, that a node is in a lower
  layer than all it depends on, for every graph.
* What the recursive function `Subcommand` of `Authority` finds in a command: the
  theorems hold whatever it finds, the run says what it finds in the commands it has.

Inductions over data (the replay of a log, the layers of a graph, the flattening of a
list) cannot cite the library's induction theorems, which take an operator as parameter;
they cite `WFMin` for a set instead, through the lemma `Induction`.

## 5. Not modelled

* Cryptography, hashing, redaction, ranking of memories, wildcard patterns and
  digests: data, abstracted to what they match or keep apart.
* Schema parsing (`packages/protocol`): the type invariants name the statuses, events
  and records; which JSON is refused is data validation.
* Schema migrations, listings and row mapping of the store: run before anything is
  served, or read only.
* What an operation does inside a page (selectors, DOM settling, extraction) and what
  screenshots and inspections return: decided by Playwright and the operating system;
  an operation is one stretch of time that ends well or not.
* MCP tool handlers and REST handlers: they dispatch to the controllers.
* Confinement of paths and command resolution over PATH: string functions that refuse
  before anything happens.
* SDKs, CLI, console page, benchmarks, evaluations, scripts, examples: no part of the
  server, or no state.
