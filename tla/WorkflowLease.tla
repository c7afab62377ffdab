---------------------------- MODULE WorkflowLease ----------------------------
(* The advances of one workflow by several processes: the queue of a process and *)
(* the lease in SQLite that serializes processes (workflow-controller.ts, advance *)
(* and leasedAdvance; storage-sqlite, workflow_leases), with time.               *)
(*                                                                              *)
(* Time.  A tick passes for everybody.  The lease row holds how long it is still *)
(* valid, below zero how long it has lapsed, up to the longest wait, and a renewal*)
(* timer how long it has to run, so that no clock grows.  A                      *)
(* store call may wait for the write lock of SQLite up to its busy_timeout, after*)
(* the time it writes was read.  A timer callback may come late: overdue says    *)
(* of an advance that a renewal of it was.                                       *)
(*                                                                              *)
(* Abstractions.  What an advance reads and commits is a version of the run; its *)
(* wave is the set of nodes it starts, and a node is at work or not.  Halts,     *)
(* cancellations and recovery move the run without a lease.                      *)
EXTENDS Integers, Sequences

CONSTANTS
    Proc, Node, Call,
    Duration,       \* leaseDurationMs
    Second,         \* 1000 ms: no renewal comes sooner
    BusyTimeout,    \* how long a store call may wait for the write lock
    MayThrow,       \* whether a node of a wave may throw
    MaxVersion,     \* bound: the run is over at this version
    MaxDeaths,      \* bound: deaths of processes
    Nobody,         \* owner when there is no row
    Gone            \* owner when its process is dead: no later one has its id

RenewalInterval == LET half == Duration \div 2 IN IF half > Second THEN half ELSE Second

ASSUME LeaseAssumption ==
    /\ Duration \in Nat /\ Second \in Nat \ {0} /\ BusyTimeout \in Nat
    /\ RenewalInterval + BusyTimeout < Duration
    /\ MayThrow \in BOOLEAN /\ MaxVersion \in Nat /\ MaxDeaths \in Nat
    /\ Nobody \notin Proc /\ Gone \notin Proc /\ Nobody # Gone

VARIABLES
    lease,      \* the row of workflow_leases
    version,    \* stateVersion of the stored run
    queue,      \* advances: the calls of each process, the first one runs
    phase,      \* where that one is
    held,       \* the version it has read
    wave,       \* its nodes that are at work
    stray,      \* nodes at work for advances that are over, with their version
    timer,      \* ticks to the next renewal
    overdue,    \* history: a renewal of this advance came late
    deaths

vars == <<lease, version, queue, phase, held, wave, stray, timer, overdue, deaths>>

Lease == [owner : Proc \cup {Nobody, Gone}, left : -BusyTimeout..Duration]

TypeOK ==
    /\ lease \in Lease
    /\ version \in Nat
    /\ queue \in [Proc -> Seq(Call)]
    /\ phase \in [Proc -> {"idle", "working", "returning"}]
    /\ held \in [Proc -> Nat]
    /\ wave \in [Proc -> SUBSET Node]
    /\ stray \in [Proc -> SUBSET (Nat \X Node)]
    /\ timer \in [Proc -> Nat]
    /\ overdue \in [Proc -> BOOLEAN]
    /\ deaths \in Nat

NoLease == [owner |-> Nobody, left |-> 0]

Init ==
    /\ lease = NoLease /\ version = 0 /\ deaths = 0
    /\ queue = [p \in Proc |-> <<>>]
    /\ phase = [p \in Proc |-> "idle"]
    /\ held = [p \in Proc |-> 0]
    /\ wave = [p \in Proc |-> {}]
    /\ stray = [p \in Proc |-> {}]
    /\ timer = [p \in Proc |-> 0]
    /\ overdue = [p \in Proc |-> FALSE]
-----------------------------------------------------------------------------
\* Mutant: a lease that has lapsed is still held.
FreeUnlessHeld(p, waited) == lease.owner \in {p, Nobody}

\* acquireWorkflowLease finds no row, its own, or one that had lapsed when the time was
\* read, before the wait.
Free(p, waited) == lease.owner \in {p, Nobody} \/ lease.left <= -waited

\* What is left of a lease whose expiry was computed before the wait.
Granted(p, waited) == [owner |-> p, left |-> Duration - waited]

\* Mutant: the expiry that was computed for the acquisition is written again.
WrittenAgain(p, waited) == lease

Renewed(p, waited) == IF lease.owner = p THEN Granted(p, waited) ELSE lease

\* Mutant: the row is deleted whoever owns it.
Deleted(p) == NoLease

Released(p) == IF lease.owner = p THEN NoLease ELSE lease

\* The call at the head of the queue has its answer; the next one no longer waits.
Settle(p) ==
    /\ queue' = [queue EXCEPT ![p] = Tail(@)]
    /\ phase' = [phase EXCEPT ![p] = "idle"]
    /\ held' = [held EXCEPT ![p] = 0]
    /\ wave' = [wave EXCEPT ![p] = {}]
    /\ timer' = [timer EXCEPT ![p] = 0]
    /\ overdue' = [overdue EXCEPT ![p] = FALSE]
-----------------------------------------------------------------------------
\* advance: a call waits for those before it.
Ask(p, c) ==
    /\ \A q \in Proc : \A i \in 1..Len(queue[q]) : queue[q][i] # c
    /\ queue' = [queue EXCEPT ![p] = Append(@, c)]
    /\ UNCHANGED <<lease, version, phase, held, wave, stray, timer, overdue, deaths>>

\* leasedAdvance with the lease: the timer is set and advanceOnce starts a wave, or
\* finds nothing to do.
Begin(p) ==
    /\ phase[p] = "idle" /\ queue[p] # <<>>
    /\ \E waited \in 0..BusyTimeout :
          Free(p, waited) /\ lease' = Granted(p, waited)
    /\ \E nodes \in SUBSET Node :
          /\ version = MaxVersion => nodes = {}
          /\ wave' = [wave EXCEPT ![p] = nodes]
          /\ phase' = [phase EXCEPT ![p] = IF nodes = {} THEN "returning" ELSE "working"]
    /\ held' = [held EXCEPT ![p] = version]
    /\ timer' = [timer EXCEPT ![p] = RenewalInterval]
    /\ UNCHANGED <<version, queue, stray, overdue, deaths>>

\* workflow_lease_held.
Refuse(p) ==
    /\ phase[p] = "idle" /\ queue[p] # <<>>
    /\ \E waited \in 0..BusyTimeout : ~Free(p, waited)
    /\ Settle(p)
    /\ UNCHANGED <<lease, version, stray, deaths>>

\* A node of the wave is done.
Answer(p) ==
    /\ phase[p] = "working"
    /\ \E n \in wave[p] : wave' = [wave EXCEPT ![p] = @ \ {n}]
    /\ UNCHANGED <<lease, version, queue, phase, held, stray, timer, overdue, deaths>>

\* All are: the wave is committed if the run has not moved, and the lease released
\* in any case.
Finish(p) ==
    /\ phase[p] # "idle" /\ wave[p] = {}
    /\ version' = IF phase[p] = "working" /\ held[p] = version THEN version + 1 ELSE version
    /\ lease' = Released(p)
    /\ Settle(p)
    /\ UNCHANGED <<stray, deaths>>

\* A node throws: Promise.all rejects and the lease is released, but the other nodes of
\* the wave stay at work.
Throw(p) ==
    /\ MayThrow /\ phase[p] = "working"
    /\ \E n \in wave[p] :
          stray' = [stray EXCEPT ![p] = @ \cup ({held[p]} \X (wave[p] \ {n}))]
    /\ lease' = Released(p)
    /\ Settle(p)
    /\ UNCHANGED <<version, deaths>>

StrayAnswer(p) ==
    /\ \E s \in stray[p] : stray' = [stray EXCEPT ![p] = @ \ {s}]
    /\ UNCHANGED <<lease, version, queue, phase, held, wave, timer, overdue, deaths>>

\* The timer fires; whether the row was still the process's own is not looked at.
Renew(p) ==
    /\ phase[p] # "idle" /\ timer[p] = 0
    /\ \E waited \in 0..BusyTimeout : lease' = Renewed(p, waited)
    /\ timer' = [timer EXCEPT ![p] = RenewalInterval]
    /\ UNCHANGED <<version, queue, phase, held, wave, stray, overdue, deaths>>

Tick ==
    /\ lease' = [lease EXCEPT !.left = IF @ = -BusyTimeout THEN @ ELSE @ - 1]
    /\ timer' = [p \in Proc |-> IF timer[p] = 0 THEN 0 ELSE timer[p] - 1]
    /\ overdue' = [p \in Proc |-> overdue[p] \/ (phase[p] # "idle" /\ timer[p] = 0)]
    /\ UNCHANGED <<version, queue, phase, held, wave, stray, deaths>>

\* A halt, a cancellation or a starting process moves the run.
Move ==
    /\ version < MaxVersion /\ version' = version + 1
    /\ UNCHANGED <<lease, queue, phase, held, wave, stray, timer, overdue, deaths>>

\* A process dies with its calls and is started again, under another owner id.
Die(p) ==
    /\ deaths < MaxDeaths /\ deaths' = deaths + 1
    /\ lease' = IF lease.owner = p THEN [lease EXCEPT !.owner = Gone] ELSE lease
    /\ queue' = [queue EXCEPT ![p] = <<>>]
    /\ phase' = [phase EXCEPT ![p] = "idle"]
    /\ held' = [held EXCEPT ![p] = 0]
    /\ wave' = [wave EXCEPT ![p] = {}]
    /\ stray' = [stray EXCEPT ![p] = {}]
    /\ timer' = [timer EXCEPT ![p] = 0]
    /\ overdue' = [overdue EXCEPT ![p] = FALSE]
    /\ UNCHANGED version
-----------------------------------------------------------------------------
Step(p) ==
    \/ \E c \in Call : Ask(p, c)
    \/ Begin(p) \/ Refuse(p) \/ Answer(p) \/ Finish(p) \/ Throw(p) \/ StrayAnswer(p)
    \/ Renew(p) \/ Die(p)

Next == Tick \/ Move \/ \E p \in Proc : Step(p)

Spec == Init /\ [][Next]_vars

\* Time passes; a call that is free to begin does, its timers fire, its nodes answer
\* and it ends.  Callers owe nothing.
Fairness ==
    /\ WF_vars(Tick)
    /\ \A p \in Proc : WF_vars(Begin(p) \/ Refuse(p)) /\ WF_vars(Renew(p))
                       /\ WF_vars(Answer(p)) /\ WF_vars(Finish(p))

FairSpec == Spec /\ Fairness
-----------------------------------------------------------------------------
(* Properties.                                                                 *)

\* workflow-controller.ts:175 "A long advance must not let its own lease lapse and invite
\* a second process in": two processes only advance the run at once if a renewal of one
\* of them came late.
OneAdvance ==
    \A p, q \in Proc : phase[p] # "idle" /\ phase[q] # "idle" /\ p # q
                       => overdue[p] \/ overdue[q]

\* An advance whose lease has lapsed may be overtaken, but when it ends, or renews at
\* last, it does not take the lease from the one that has it: a lease that is valid
\* stays with the advance that acquired it until this one is over.
LeaseIsKept ==
    [][lease.owner \in Proc /\ lease.left > 0 /\ phase[lease.owner] # "idle"
          => lease'.owner = lease.owner \/ phase'[lease.owner] = "idle"]_vars

\* storage-sqlite/src/index.ts:687 "Leases expire so a killed process cannot strand a
\* workflow forever": as long as somebody asks again and again, a dead owner is replaced.
DeadOwnerReplaced ==
    []<>(\E p \in Proc : queue[p] # <<>>) => (lease.owner = Gone ~> lease.owner # Gone)

\* workflow-controller.ts:158 "The lease is taken before any adapter runs, so a second
\* process cannot start duplicate side effects while this one is mid-flight": no node is
\* at work twice for the same state of the run, unless a renewal came late.
NoDuplicateEffects ==
    \A p, q \in Proc : \A n \in wave[p] :
        /\ <<held[p], n>> \notin stray[q]
        /\ p # q /\ n \in wave[q] /\ held[p] = held[q] => overdue[p] \/ overdue[q]
=============================================================================
