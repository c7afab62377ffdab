--------------------------- MODULE TaskController ---------------------------
(* The single-task lifecycle of packages/runtime-core/src/task-controller.ts   *)
(* over the tables of packages/storage-sqlite: plan, execute (adapter, retries,*)
(* budget timer, verification, idempotency commit, receipt, certificate),      *)
(* cancel, and the recovery that every process runs before it serves.          *)
(*                                                                             *)
(* Granularity.  A process is one Node event loop: between two awaits nothing  *)
(* else of that process runs (busy), but every SQLite call is a step of its    *)
(* own, because another process may touch the file, and the process may die,   *)
(* between any two of them.  Two calls share a step only when the first reads  *)
(* something no later step changes (a commit that exists, a sealed payload).   *)
(*                                                                             *)
(* Abstractions.  A request is its effect class, its evidence class, its retry *)
(* budget and its target; what policy says of an effect is a function that a   *)
(* process reads when it starts; the adapter, the verifier and the approval    *)
(* the caller sends are nondeterministic; the clock of the circuit breaker is  *)
(* the set of targets still cooling down.  A (process, task) pair runs at most *)
(* one call at a time.                                                         *)
EXTENDS Naturals, FiniteSets

CONSTANTS
    Task,           \* task identifiers (randomUUID)
    Proc,           \* server processes sharing one MELRA_HOME
    Key,            \* idempotency keys
    Target,         \* what an operation names: a path, a host, a command
    Request,        \* the requests callers submit, with their idempotency keys
    Policies,       \* the policies a process may be started with
    Threshold,      \* failures that open the breaker; 0 switches it off
    MaxCrashes,     \* bound: process deaths in a behaviour
    MayAbort,       \* whether running calls are cancelled or run out of budget
    StoreMayFail,   \* whether a write of a process that survives it may throw
    NoTask, NoKey

Effects  == {"read", "mutate"}
Evidence == {"none", "file", "other"}
Outcomes == {"allow", "confirm", "deny"}

ASSUME ConstantsAssumption ==
    /\ NoTask \notin Task
    /\ NoKey \notin Key
    /\ Threshold \in Nat
    /\ MaxCrashes \in Nat
    /\ MayAbort \in BOOLEAN
    /\ StoreMayFail \in BOOLEAN
    /\ Request \subseteq [effect : Effects, evidence : Evidence,
                          retries : Nat, target : Target,
                          key : Key \cup {NoKey}]
    /\ Policies \subseteq [Effects -> Outcomes]

Executable == {"planned", "awaiting_approval"}
InFlight   == {"running", "verifying"}
Final      == {"verified_success", "partial", "failed", "cancelled",
               "budget_exhausted", "policy_blocked"}
Status     == {"absent", "recovery_required"} \cup Executable \cup InFlight \cup Final
Errors     == {"none", "duplicate", "interrupted", "error"}
Receipts   == {"success", "failure", "reobserved"}
Results    == {"none", "VERIFIED_SUCCESS", "PARTIAL", "CANCELLED",
               "POLICY_BLOCKED", "BUDGET_EXHAUSTED", "FAILED"}

\* A row of the tasks table, and the in-memory copy a handler works on.
Row == [status : Status, challenge : BOOLEAN, error : Errors, attempts : Nat,
        result : {"none", "success", "failure"}]
NoRow == [status |-> "absent", challenge |-> FALSE, error |-> "none", attempts |-> 0,
          result |-> "none"]

VARIABLES
    request,    \* what the caller of plan asks for each task: never changes
    \* durable: the SQLite file
    row,        \* tasks: the record of each task
    sealed,     \* task_payloads: the tasks whose request is stored
    receipts,   \* receipts: the kinds of receipts each task has
    cert,       \* certificates: the result of the certificate of each task
    commits,    \* idempotency_commits: the task that committed each key
    \* volatile: per process
    mode,       \* "down", "recovering" or "serving"
    policy,     \* the policy the process was started with
    pc,         \* where the call of the process on each task stands
    frame,      \* the block of execute a call is in: "none", "try", "catch"
    mem,        \* the task object that call works on
    active,     \* tasks with an AbortController registered
    aborted,    \* tasks whose signal is aborted
    expired,    \* tasks whose budget timer fired
    busy,       \* the task whose synchronous segment is running, or NoTask
    failures,   \* circuit breaker: consecutive failures of each target
    cooling,    \* circuit breaker: targets whose cooldown has not passed
    \* history
    launches,   \* adapter calls made for each task
    crashes     \* process deaths so far

durable  == <<row, sealed, receipts, cert, commits>>
signals  == <<active, aborted, expired>>
breaker  == <<failures, cooling>>
history  == <<launches, crashes>>
records  == <<sealed, receipts, cert, commits>>
locals   == <<pc, frame, mem, busy>>
base     == <<request, mode, policy, breaker, history>>
vars == <<request, row, sealed, receipts, cert, commits, mode, policy, pc,
          frame, mem, active, aborted, expired, busy, failures, cooling, launches,
          crashes>>

Steps == {"idle", "plan", "keyCheck", "admit", "start", "adapter", "verify", "receipt",
          "settle", "certify", "seal", "cancel", "recover", "recReceipt"}

TypeOK ==
    /\ request \in [Task -> Request]
    /\ row \in [Task -> Row]
    /\ sealed \subseteq Task
    /\ receipts \in [Task -> SUBSET Receipts]
    /\ cert \in [Task -> Results]
    /\ commits \in [Key -> Task \cup {NoTask}]
    /\ mode \in [Proc -> {"down", "recovering", "serving"}]
    /\ policy \in [Proc -> Policies]
    /\ pc \in [Proc -> [Task -> Steps]]
    /\ frame \in [Proc -> [Task -> {"none", "try", "catch"}]]
    /\ mem \in [Proc -> [Task -> Row]]
    /\ active \in [Proc -> SUBSET Task]
    /\ aborted \in [Proc -> SUBSET Task]
    /\ expired \in [Proc -> SUBSET Task]
    /\ busy \in [Proc -> Task \cup {NoTask}]
    /\ failures \in [Proc -> [Target -> 0..Threshold]]
    /\ cooling \in [Proc -> SUBSET Target]
    /\ launches \in [Task -> Nat]
    /\ crashes \in Nat

Init ==
    /\ request \in [Task -> Request]
    /\ row = [t \in Task |-> NoRow]
    /\ sealed = {}
    /\ receipts = [t \in Task |-> {}]
    /\ cert = [t \in Task |-> "none"]
    /\ commits = [k \in Key |-> NoTask]
    /\ mode = [p \in Proc |-> "down"]
    /\ policy \in [Proc -> Policies]
    /\ pc = [p \in Proc |-> [t \in Task |-> "idle"]]
    /\ frame = [p \in Proc |-> [t \in Task |-> "none"]]
    /\ mem = [p \in Proc |-> [t \in Task |-> NoRow]]
    /\ active = [p \in Proc |-> {}]
    /\ aborted = [p \in Proc |-> {}]
    /\ expired = [p \in Proc |-> {}]
    /\ busy = [p \in Proc |-> NoTask]
    /\ failures = [p \in Proc |-> [g \in Target |-> 0]]
    /\ cooling = [p \in Proc |-> {}]
    /\ launches = [t \in Task |-> 0]
    /\ crashes = 0
-----------------------------------------------------------------------------
(* Helpers.                                                                    *)

EffectOf(t)  == request[t].effect
TargetOf(t)  == request[t].target
KeyOf(t)     == request[t].key
OutcomeOf(p, t) == policy[p][EffectOf(t)]
\* The key of t is committed, by t or by another task.
Committed(t) == KeyOf(t) # NoKey /\ commits[KeyOf(t)] # NoTask

\* Mutant: the commit table is not consulted.
NotLookedUp(t) == FALSE

\* getIdempotencyCommit, as execute asks for it.
FoundCommit(t) == Committed(t)

\* Mutant: every effect retries.
RetryEverything(t) == request[t].retries + 1

MaximumAttempts(t) == IF EffectOf(t) = "read" THEN request[t].retries + 1 ELSE 1

\* Mutant: the status of the task is certified unmapped.
RawResult(status) == status

CertificateResult(status) ==
    CASE status = "verified_success"  -> "VERIFIED_SUCCESS"
      [] status = "partial"           -> "PARTIAL"
      [] status = "cancelled"         -> "CANCELLED"
      [] status = "policy_blocked"    -> "POLICY_BLOCKED"
      [] status = "budget_exhausted"  -> "BUDGET_EXHAUSTED"
      [] OTHER                        -> "FAILED"

\* The event loop of p is free to run a callback or to take a call.
Idle(p) == mode[p] = "serving" /\ busy[p] = NoTask

\* p is inside the synchronous segment of its call on t, at this step of it.
At(p, t, step) == busy[p] = t /\ pc[p][t] = step

Goto(p, t, step) == pc' = [pc EXCEPT ![p][t] = step]
Hold(p, t)       == busy' = [busy EXCEPT ![p] = t]
Await(p)         == busy' = [busy EXCEPT ![p] = NoTask]
Work(p, t, r)    == mem' = [mem EXCEPT ![p][t] = r]
Frame(p, t, f)   == frame' = [frame EXCEPT ![p][t] = f]
SaveTask(t, r)   == row' = [row EXCEPT ![t] = r]

\* Mutant: the receipt is not stored.
SkipReceipt(t, kind) == UNCHANGED receipts

AddReceipt(t, kind) == receipts' = [receipts EXCEPT ![t] = @ \cup {kind}]

\* A call is over: its stack frame is gone and the event loop is free.
Leave(p, t) ==
    /\ Goto(p, t, "idle")
    /\ Work(p, t, NoRow)
    /\ Frame(p, t, "none")
    /\ Await(p)

\* Mutant: the controller stays registered.
ReleaseSignals(p, t) ==
    /\ aborted' = [aborted EXCEPT ![p] = @ \ {t}]
    /\ expired' = [expired EXCEPT ![p] = @ \ {t}]
    /\ UNCHANGED active

\* The finally block of execute.
Release(p, t) ==
    /\ active'  = [active EXCEPT ![p] = @ \ {t}]
    /\ aborted' = [aborted EXCEPT ![p] = @ \ {t}]
    /\ expired' = [expired EXCEPT ![p] = @ \ {t}]

\* Mutant: INSERT OR REPLACE.
OverwriteCommit(t, earned) ==
    commits' = IF earned /\ KeyOf(t) # NoKey
               THEN [commits EXCEPT ![KeyOf(t)] = t] ELSE commits

\* commitIdempotency: INSERT OR IGNORE, for a task that earned it.
CommitIdempotency(t, earned) ==
    commits' = IF earned /\ KeyOf(t) # NoKey /\ ~Committed(t)
               THEN [commits EXCEPT ![KeyOf(t)] = t] ELSE commits

\* The circuit breaker of p: check, recordFailure and recordSuccess.
Tripped(p, g) ==
    Threshold > 0 /\ failures[p][g] = Threshold /\ g \in cooling[p]

RecordFailure(p, g) ==
    IF Threshold = 0 THEN UNCHANGED breaker
    ELSE /\ failures' = [failures EXCEPT ![p][g] = IF @ < Threshold THEN @ + 1 ELSE @]
         /\ cooling'  = [cooling EXCEPT ![p] = @ \cup {g}]

RecordSuccess(p, g) ==
    /\ failures' = [failures EXCEPT ![p][g] = 0]
    /\ cooling'  = [cooling EXCEPT ![p] = @ \ {g}]
-----------------------------------------------------------------------------
(* plan: the row is written first, the sealed payload by a second write.       *)

Plan(p, t) ==
    /\ Idle(p) /\ pc[p][t] = "idle" /\ row[t] = NoRow
    /\ LET status == CASE OutcomeOf(p, t) = "deny"    -> "policy_blocked"
                       [] OutcomeOf(p, t) = "confirm" -> "awaiting_approval"
                       [] OutcomeOf(p, t) = "allow"   -> "planned"
       IN /\ SaveTask(t, [NoRow EXCEPT !.status = status,
                                       !.challenge = (status = "awaiting_approval")])
          /\ IF status = "policy_blocked" THEN UNCHANGED <<pc, busy>>
                                          ELSE Goto(p, t, "plan") /\ Hold(p, t)
    /\ UNCHANGED <<base, records, signals, frame, mem>>

PlanPayload(p, t) ==
    /\ At(p, t, "plan")
    /\ sealed' = sealed \cup {t}
    /\ Leave(p, t)
    /\ UNCHANGED <<base, signals, row, receipts, cert, commits>>
-----------------------------------------------------------------------------
(* execute, up to the first await.                                             *)

\* The row is read.  Any other status returns or throws and changes nothing.
Execute(p, t) ==
    /\ Idle(p) /\ pc[p][t] = "idle"
    /\ row[t].status \in Executable
    /\ Work(p, t, row[t]) /\ Goto(p, t, "keyCheck") /\ Hold(p, t)
    /\ UNCHANGED <<base, durable, signals, frame>>

\* The key is committed: the task is saved as a prevented duplicate, and only its
\* certificate is left to write.
PreventDuplicate(p, t) ==
    /\ At(p, t, "keyCheck") /\ FoundCommit(t)
    /\ LET r == [mem[p][t] EXCEPT !.status = "cancelled", !.error = "duplicate"]
       IN Work(p, t, r) /\ SaveTask(t, r)
    /\ Goto(p, t, "certify")
    /\ UNCHANGED <<base, records, signals, frame, busy>>

KeyIsFree(p, t) ==
    /\ At(p, t, "keyCheck") /\ ~FoundCommit(t)
    /\ Goto(p, t, "admit")
    /\ UNCHANGED <<base, durable, signals, frame, mem, busy>>

\* The payload is missing, or the approval does not answer this task's challenge:
\* execute throws before it has registered anything.
Refuse(p, t) ==
    /\ At(p, t, "admit")
    /\ t \notin sealed \/ OutcomeOf(p, t) = "confirm"
    /\ Leave(p, t)
    /\ UNCHANGED <<base, durable, signals>>

\* Policy is evaluated again with the stored request, and now denies it.
Block(p, t) ==
    /\ At(p, t, "admit") /\ t \in sealed
    /\ OutcomeOf(p, t) = "deny"
    /\ LET r == [mem[p][t] EXCEPT !.status = "policy_blocked"]
       IN Work(p, t, r) /\ SaveTask(t, r)
    /\ Goto(p, t, "certify")
    /\ UNCHANGED <<base, records, signals, frame, busy>>

\* Mutant: the decision made at plan time is trusted.
MayStartAsPlanned(p, t) ==
    /\ At(p, t, "admit") /\ t \in sealed
    /\ mem[p][t].status = "planned" \/ mem[p][t].challenge

\* Mutant: the sealed request is not loaded before the task is saved as running.
MayStartUnsealed(p, t) ==
    /\ At(p, t, "admit")
    /\ \/ OutcomeOf(p, t) = "allow"
       \/ OutcomeOf(p, t) = "confirm" /\ mem[p][t].challenge

\* Allowed, or confirmed by a valid answer to a challenge made at plan time.
MayStart(p, t) ==
    /\ At(p, t, "admit") /\ t \in sealed
    /\ \/ OutcomeOf(p, t) = "allow"
       \/ OutcomeOf(p, t) = "confirm" /\ mem[p][t].challenge

Register(p, t) ==
    /\ active'  = [active EXCEPT ![p] = @ \cup {t}]
    /\ aborted' = [aborted EXCEPT ![p] = @ \ {t}]
    /\ expired' = [expired EXCEPT ![p] = @ \ {t}]

Admit(p, t) ==
    /\ MayStart(p, t)
    /\ Register(p, t)
    /\ LET r == [mem[p][t] EXCEPT !.status = "running"]
       IN Work(p, t, r) /\ SaveTask(t, r)
    /\ Goto(p, t, "start") /\ Frame(p, t, "try")
    /\ UNCHANGED <<base, records, busy>>

\* The catch block up to its first write; signal and flag decide the status.
Catch(p, t) ==
    LET status == IF t \in expired[p] THEN "budget_exhausted"
                  ELSE IF t \in aborted[p] THEN "cancelled" ELSE "failed"
    IN /\ Work(p, t, [mem[p][t] EXCEPT !.status = status, !.error = "error"])
       /\ Goto(p, t, "receipt") /\ Frame(p, t, "catch") /\ Hold(p, t)

\* What it tells the breaker: a cancellation is no evidence about the target, a
\* budget that ran out is.
Blame(p, t) ==
    IF t \in aborted[p] \ expired[p] THEN UNCHANGED breaker
                                     ELSE RecordFailure(p, TargetOf(t))

\* executeWithRetries saves the attempt and calls the adapter in one segment.
Launch(p, t, attempt) ==
    LET r == [mem[p][t] EXCEPT !.attempts = attempt]
    IN /\ Work(p, t, r) /\ SaveTask(t, r)
       /\ launches' = [launches EXCEPT ![t] = @ + 1]
       /\ Goto(p, t, "adapter") /\ Await(p)

Start(p, t) ==
    /\ At(p, t, "start")
    /\ IF Tripped(p, TargetOf(t))
       THEN /\ Catch(p, t)
            /\ UNCHANGED <<row, breaker, launches>>
       ELSE /\ Launch(p, t, 1)
            /\ UNCHANGED <<breaker, frame>>
    /\ UNCHANGED <<records, signals, request, mode, policy, crashes>>
-----------------------------------------------------------------------------
(* execute, after its awaits.                                                  *)

AdapterAnswers(p, t) ==
    /\ Idle(p) /\ pc[p][t] = "adapter"
    /\ \E result \in {"success", "failure"} :
          LET r == [mem[p][t] EXCEPT !.status = "verifying", !.result = result]
          IN Work(p, t, r) /\ SaveTask(t, r)
    /\ Goto(p, t, "verify")
    /\ UNCHANGED <<base, records, signals, frame, busy>>

\* The adapter throws: a read with attempts left whose signal is quiet goes again.
AdapterThrows(p, t) ==
    /\ Idle(p) /\ pc[p][t] = "adapter"
    /\ IF mem[p][t].attempts < MaximumAttempts(t) /\ t \notin aborted[p]
       THEN /\ Launch(p, t, mem[p][t].attempts + 1)
            /\ UNCHANGED <<breaker, frame>>
       ELSE /\ Catch(p, t) /\ Blame(p, t)
            /\ UNCHANGED <<row, launches>>
    /\ UNCHANGED <<records, signals, request, mode, policy, crashes>>

\* Mutant: an adapter that reports success is enough.
Reported(p, t, passed) == mem[p][t].result = "success"

\* The key is committed for a task whose adapter succeeded and whose evidence holds.
EarnsCommit(p, t, passed) ==
    mem[p][t].result = "success" /\ (request[t].evidence = "none" \/ passed)

\* The verifier answers: the breaker hears of the target, the key is committed if
\* the task is verified (INSERT OR IGNORE), and the outcome is decided.
VerifierAnswers(p, t) ==
    /\ Idle(p) /\ pc[p][t] = "verify"
    /\ \E passed \in BOOLEAN :
          LET succeeded == mem[p][t].result = "success"
              verified  == succeeded /\ (request[t].evidence = "none" \/ passed)
              taken     == verified /\ Committed(t)
          IN /\ Work(p, t, [mem[p][t] EXCEPT
                     !.status = IF taken THEN "cancelled"
                                ELSE IF verified THEN "verified_success"
                                ELSE IF succeeded THEN "partial" ELSE "failed",
                     !.error = IF taken THEN "duplicate" ELSE @])
             /\ CommitIdempotency(t, EarnsCommit(p, t, passed))
             /\ IF succeeded THEN RecordSuccess(p, TargetOf(t))
                             ELSE RecordFailure(p, TargetOf(t))
    /\ Goto(p, t, "receipt") /\ Hold(p, t)
    /\ UNCHANGED <<signals, history, request, row, sealed, receipts, cert, mode, policy, frame>>

SaveReceipt(p, t) ==
    /\ At(p, t, "receipt")
    /\ AddReceipt(t, IF frame[p][t] = "try" /\ mem[p][t].result = "success"
                     THEN "success" ELSE "failure")
    /\ Goto(p, t, "settle")
    /\ UNCHANGED <<base, signals, row, sealed, cert, commits, frame, mem, busy>>

Settle(p, t) ==
    /\ At(p, t, "settle")
    /\ SaveTask(t, mem[p][t])
    /\ Goto(p, t, "certify")
    /\ UNCHANGED <<base, records, signals, frame, mem, busy>>

\* Mutant: the certificate is made from the stored row.
CertifiedFromRow(p, t) == CertificateResult(row[t].status)

Certified(p, t) == CertificateResult(mem[p][t].status)

\* createAndSaveCertificate: the certificate, then the row that names it.
Certify(p, t) ==
    /\ At(p, t, "certify")
    /\ cert' = [cert EXCEPT ![t] = Certified(p, t)]
    /\ Goto(p, t, "seal")
    /\ UNCHANGED <<base, signals, row, sealed, receipts, commits, frame, mem, busy>>

Seal(p, t) ==
    /\ At(p, t, "seal")
    /\ SaveTask(t, mem[p][t])
    /\ IF frame[p][t] = "none" THEN UNCHANGED signals ELSE Release(p, t)
    /\ Leave(p, t)
    /\ UNCHANGED <<base, records>>
-----------------------------------------------------------------------------
(* Timers, cancellation and the clock of the breaker.                          *)

\* The budget timer runs from the first attempt to the finally block; it fires
\* whether or not the signal is aborted already.
BudgetExpires(p, t) ==
    /\ MayAbort /\ Idle(p) /\ pc[p][t] \in {"adapter", "verify"} /\ t \notin expired[p]
    /\ expired' = [expired EXCEPT ![p] = @ \cup {t}]
    /\ aborted' = [aborted EXCEPT ![p] = @ \cup {t}]
    /\ UNCHANGED <<base, durable, locals, active>>

\* cancel, with a controller registered in this process: only the signal changes.
CancelActive(p, t) ==
    /\ MayAbort /\ Idle(p) /\ t \in active[p] \ aborted[p]
    /\ aborted' = [aborted EXCEPT ![p] = @ \cup {t}]
    /\ UNCHANGED <<base, durable, locals, active, expired>>

\* Mutant: a task that is over is cancelled too.
CancellableAnyTime(p, t) == t \notin active[p] /\ row[t].status # "absent"

Cancellable(p, t) == t \notin active[p] /\ row[t].status \in Executable

\* cancel, without one: the row is read, and saved if it had not started.
CancelPlanned(p, t) ==
    /\ Idle(p) /\ pc[p][t] = "idle" /\ Cancellable(p, t)
    /\ Work(p, t, [row[t] EXCEPT !.status = "cancelled"])
    /\ Goto(p, t, "cancel") /\ Hold(p, t)
    /\ UNCHANGED <<base, durable, signals, frame>>

CancelWrite(p, t) ==
    /\ At(p, t, "cancel")
    /\ SaveTask(t, mem[p][t])
    /\ Leave(p, t)
    /\ UNCHANGED <<base, records, signals>>

CooldownPasses(p, g) ==
    /\ mode[p] = "serving" /\ g \in cooling[p]
    /\ cooling' = [cooling EXCEPT ![p] = @ \ {g}]
    /\ UNCHANGED <<durable, locals, signals, history, request, mode, policy, failures>>
-----------------------------------------------------------------------------
(* A store call throws in a process that goes on: a full disk, or a lock held  *)
(* past the busy timeout by another process.                                   *)

\* Outside the try block, and inside the catch block, the call is over.  Only the
\* catch block has a finally: a controller registered by the write of "running"
\* that failed is never taken back.
WriteFailsUnguarded(p, t) ==
    /\ StoreMayFail /\ mode[p] = "serving" /\ busy[p] = t
    /\ \/ frame[p][t] = "none" /\ UNCHANGED signals
       \/ MayStart(p, t) /\ Register(p, t)
       \/ frame[p][t] = "catch" /\ Release(p, t)
    /\ Leave(p, t)
    /\ UNCHANGED <<base, durable>>

\* Inside the try block it is caught like a failure of the adapter.
WriteFailsInTry(p, t) ==
    /\ StoreMayFail /\ frame[p][t] = "try"
    /\ \/ busy[p] = t
       \/ Idle(p) /\ pc[p][t] \in {"adapter", "verify"}
    /\ Catch(p, t) /\ Blame(p, t)
    /\ UNCHANGED <<durable, signals, history, request, mode, policy>>
-----------------------------------------------------------------------------
(* Process start, recovery and death.                                          *)

Crash(p) ==
    /\ mode[p] # "down" /\ crashes < MaxCrashes
    /\ crashes' = crashes + 1
    /\ mode' = [mode EXCEPT ![p] = "down"]
    /\ pc' = [pc EXCEPT ![p] = [t \in Task |-> "idle"]]
    /\ frame' = [frame EXCEPT ![p] = [t \in Task |-> "none"]]
    /\ mem' = [mem EXCEPT ![p] = [t \in Task |-> NoRow]]
    /\ active' = [active EXCEPT ![p] = {}]
    /\ aborted' = [aborted EXCEPT ![p] = {}]
    /\ expired' = [expired EXCEPT ![p] = {}]
    /\ busy' = [busy EXCEPT ![p] = NoTask]
    /\ failures' = [failures EXCEPT ![p] = [g \in Target |-> 0]]
    /\ cooling' = [cooling EXCEPT ![p] = {}]
    /\ UNCHANGED <<durable, request, policy, launches>>

\* Mutant: only rows that are "running" are listed.
InterruptedRunning == {t \in Task : row[t].status = "running"}

\* listInterruptedTasks.
Interrupted == {t \in Task : row[t].status \in InFlight}

\* A process starts, perhaps with another policy, and lists the interrupted tasks:
\* every row in flight, whoever is running it.
Boot(p) ==
    /\ mode[p] = "down"
    /\ mode' = [mode EXCEPT ![p] = "recovering"]
    /\ \E f \in Policies : policy' = [policy EXCEPT ![p] = f]
    /\ pc' = [pc EXCEPT ![p] =
                  [t \in Task |-> IF t \in Interrupted THEN "recover" ELSE "idle"]]
    /\ mem' = [mem EXCEPT ![p] =
                  [t \in Task |-> IF t \in Interrupted THEN row[t] ELSE NoRow]]
    /\ UNCHANGED <<durable, signals, breaker, history, request, frame, busy>>

Recovering(p, t) ==
    /\ mode[p] = "recovering" /\ busy[p] = NoTask /\ pc[p][t] = "recover"

Reobservable(p, t) ==
    /\ mem[p][t].status = "verifying"
    /\ EffectOf(t) # "read" /\ request[t].evidence = "file"

\* The files show the effect: the key is committed unless it already is, by this
\* task or another, and the task is a verified success.
Reobserve(p, t) ==
    /\ Recovering(p, t) /\ Reobservable(p, t)
    /\ CommitIdempotency(t, TRUE)
    /\ Work(p, t, [mem[p][t] EXCEPT !.status = "verified_success", !.error = "none"])
    /\ Goto(p, t, "recReceipt") /\ Hold(p, t)
    /\ UNCHANGED <<base, signals, row, sealed, receipts, cert, frame>>

\* The certificate is saved before the row: there is no Settle here.
RecoveryReceipt(p, t) ==
    /\ At(p, t, "recReceipt")
    /\ AddReceipt(t, "reobserved")
    /\ Goto(p, t, "certify")
    /\ UNCHANGED <<base, signals, row, sealed, cert, commits, frame, mem, busy>>

\* Otherwise, or when the files disagree: reads are planned again, mutations wait
\* for an operator.
Reclassify(p, t) ==
    /\ Recovering(p, t)
    /\ SaveTask(t, [mem[p][t] EXCEPT
           !.status = IF EffectOf(t) = "read" THEN "planned" ELSE "recovery_required",
           !.error  = "interrupted"])
    /\ Leave(p, t)
    /\ UNCHANGED <<base, records, signals>>

Serve(p) ==
    /\ mode[p] = "recovering" /\ \A t \in Task : pc[p][t] = "idle"
    /\ mode' = [mode EXCEPT ![p] = "serving"]
    /\ UNCHANGED <<durable, locals, signals, breaker, history, request, policy>>
-----------------------------------------------------------------------------
\* The steps a process takes once a call is under way.
Segment(p, t) ==
    \/ PlanPayload(p, t) \/ PreventDuplicate(p, t) \/ KeyIsFree(p, t)
    \/ Refuse(p, t) \/ Block(p, t) \/ Admit(p, t) \/ Start(p, t)
    \/ SaveReceipt(p, t) \/ Settle(p, t) \/ Certify(p, t) \/ Seal(p, t)
    \/ CancelWrite(p, t) \/ RecoveryReceipt(p, t)

Answer(p, t) == AdapterAnswers(p, t) \/ AdapterThrows(p, t) \/ VerifierAnswers(p, t)

Recover(p, t) == Reobserve(p, t) \/ Reclassify(p, t)

Call(p, t) ==
    Plan(p, t) \/ Execute(p, t) \/ CancelActive(p, t) \/ CancelPlanned(p, t)

Fault(p, t) == WriteFailsUnguarded(p, t) \/ WriteFailsInTry(p, t)

TaskStep(p, t) ==
    \/ Call(p, t) \/ Segment(p, t) \/ Answer(p, t) \/ BudgetExpires(p, t)
    \/ Fault(p, t) \/ Recover(p, t)

Next ==
    \E p \in Proc :
        \/ \E t \in Task : TaskStep(p, t)
        \/ \E g \in Target : CooldownPasses(p, g)
        \/ Crash(p) \/ Boot(p) \/ Serve(p)

Spec == Init /\ [][Next]_vars

\* A started segment ends, adapters and verifiers answer (the budget timer aborts
\* the ones that would not), a dead process is started again and recovers.
Fairness ==
    \A p \in Proc :
        /\ \A t \in Task : WF_vars(Segment(p, t)) /\ WF_vars(Answer(p, t))
                           /\ WF_vars(Recover(p, t))
        /\ WF_vars(Boot(p)) /\ WF_vars(Serve(p))

FairSpec == Spec /\ Fairness
-----------------------------------------------------------------------------
(* Properties.                                                                 *)

OneProcess == \E p : Proc = {p}

\* runtime-core/README.md:20 "mutations and destructive operations run at most once":
\* whatever is cancelled, retried, killed or recovered, the adapter of a mutation is
\* called at most once.
MutationAtMostOnce ==
    \A t \in Task : request[t].effect = "mutate" => launches[t] <= 1

\* A keyed task that is recorded or certified as verified either holds the commit of
\* its key or was vouched for by recovery's own look at the files, and then the key
\* is committed all the same.
VerifiedIsCommitted ==
    \A t \in Task :
        /\ row[t].status = "verified_success" \/ cert[t] = "VERIFIED_SUCCESS"
        /\ KeyOf(t) # NoKey
        => \/ commits[KeyOf(t)] = t
           \/ Committed(t) /\ "reobserved" \in receipts[t]

\* No verified status or certificate without the receipt of a success: the receipt is
\* the earlier write on every path.
VerifiedHasReceipt ==
    \A t \in Task :
        row[t].status = "verified_success" \/ cert[t] = "VERIFIED_SUCCESS"
        => receipts[t] \cap {"success", "reobserved"} # {}

\* A task is only turned away as a duplicate if its key is really committed.
DuplicateIsCommitted ==
    \A t \in Task : row[t].error = "duplicate" => Committed(t)

\* Recovery throws, and the process cannot start, if a row in flight has no sealed
\* request: plan's two writes and execute's order must exclude that.
InterruptedHasPayload ==
    \A t \in Task : row[t].status \in InFlight => t \in sealed

\* The holder of a commit is never on record as having not done its work.
CommitterNotFailed ==
    \A k \in Key : commits[k] # NoTask =>
        row[commits[k]].status \notin {"partial", "failed", "budget_exhausted",
                                       "policy_blocked", "awaiting_approval"}

\* A certificate agrees with the final status of the record it certifies, but for a task
\* that was certified and then ended by the catch block because its row could not be
\* saved: until the second certificate is saved, if it is, the first remains.
CertificateAgrees ==
    \A t \in Task :
        row[t].status \in Final /\ cert[t] # "none"
        => \/ cert[t] = CertificateResult(row[t].status)
           \/ StoreMayFail /\ row[t].error = "error"

\* Row, receipts and certificate tell one story at every step, also of a recovery that
\* dies in the middle or a call whose writes fail.
RecordsAgree == VerifiedHasReceipt /\ CertificateAgrees

\* An AbortController outlives no call: otherwise cancel would abort a signal nobody
\* listens to and leave the task executable.
NoStrayController ==
    \A p \in Proc, t \in Task : t \in active[p] => frame[p][t] # "none"

\* A status that ends a task is never replaced, by a late answer, a cancellation or a
\* recovery.
FinalStaysFinal ==
    [][\A t \in Task : row[t].status \in Final => row'[t].status = row[t].status]_vars

\* README.md:544 "a stale plan can never ride a since-tightened policy": the adapter of
\* a task runs only in a process whose own policy lets it run.
LaunchUnderOwnPolicy ==
    [][\A t \in Task : launches'[t] > launches[t] =>
          \E p \in Proc : /\ pc[p][t] \in {"start", "adapter"}
                          /\ OutcomeOf(p, t) # "deny"
                          /\ OutcomeOf(p, t) = "confirm" => row[t].challenge]_vars

\* docs/ARCHITECTURE.md:50 "a committed attempt is not re-run": no mutation is launched
\* for a key whose commit exists.
NoMutationAfterCommit ==
    [][\A t \in Task : launches'[t] > launches[t] /\ request[t].effect = "mutate"
                       => ~Committed(t)]_vars

\* docs/ARCHITECTURE.md:274 "Interrupted reads return to planned and may retry": a task
\* is not turned away as a duplicate of itself.
NeverItsOwnDuplicate ==
    \A t \in Task : row[t].error = "duplicate" => commits[KeyOf(t)] # t

\* Whatever dies or hangs, a task in flight reaches a status somebody can act on.
InFlightEnds ==
    \A t \in Task : row[t].status \in InFlight ~> row[t].status \notin InFlight
=============================================================================
