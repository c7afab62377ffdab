----------------------------- MODULE WorkflowRun -----------------------------
(* One workflow run as the store keeps it: a projection, the append-only log of *)
(* its events and the snapshots taken at checkpoints (packages/storage-sqlite),  *)
(* with the calls of packages/runtime-core/src/workflow-controller.ts that move  *)
(* it: plan, advance, pause, suspend, resume, cancel and the replay and repair   *)
(* of recoverInterrupted.                                                        *)
(*                                                                              *)
(* Granularity.  A call reads the run in one store call and commits what it made *)
(* of it in another, so any number of calls of any number of processes interleave*)
(* between the two; a commit is one SQLite transaction.  A checkpoint and its    *)
(* snapshot, and the three reads of recovery, are store calls of their own.      *)
(*                                                                              *)
(* Abstractions.  What the nodes of a wave come to, and what recovery finds out  *)
(* about them, is nondeterministic; which pending nodes are ready is any set of  *)
(* them; a node is its status and the error of a run is whether there is one.    *)
EXTENDS Naturals, Sequences, FiniteSets, FiniteSetsExt, SequencesExt

CONSTANTS
    Node,           \* the nodes of the definition
    Compensation,   \* those that are compensations
    ForNode,        \* the operation that each compensation undoes
    Client,         \* calls under way, of one process or of several
    NodeOutcomes,   \* what a node that is advanced may come to
    Recovered,      \* what recovery may find a node to be
    MaxVersion,     \* bound: events of the run
    MayCorrupt,     \* whether snapshots may become unreadable
    NoNode

NodeStatus == {"pending", "ready", "awaiting_approval", "awaiting_input",
               "verified_complete", "failed", "cancelled", "skipped", "compensated",
               "recovery_required"}
Status == {"none", "draft", "planned", "running", "awaiting_approval",
           "awaiting_input", "paused", "suspended", "recovery_required", "failed",
           "verified_complete", "cancelled"}

ASSUME RunAssumption ==
    /\ IsFiniteSet(Node) /\ NoNode \notin Node
    /\ Compensation \subseteq Node
    /\ ForNode \in [Compensation -> Node \ Compensation]
    /\ NodeOutcomes \subseteq NodeStatus
    /\ Recovered \subseteq NodeStatus
    /\ MaxVersion \in Nat
    /\ MayCorrupt \in BOOLEAN

Required == Node \ Compensation
Done     == {"verified_complete", "skipped", "compensated"}
Ended    == {"verified_complete", "cancelled"}
Halts    == {"paused", "suspended"}

Run == [status : Status, nodes : [Node -> NodeStatus], error : BOOLEAN, version : Nat]
Draft == [status |-> "draft", nodes |-> [n \in Node |-> "pending"], error |-> FALSE,
          version |-> 1]
NoRun == [Draft EXCEPT !.status = "none", !.version = 0]

StatusEvents == {"status_changed", "cancelled", "recovered", "recovery_required",
                 "paused", "suspended", "resumed"}
Event == [type : StatusEvents \cup {"created", "node_changed", "checkpoint_saved"},
          node : Node \cup {NoNode}, from : Status \cup NodeStatus,
          to : Status \cup NodeStatus, error : BOOLEAN, sequence : Nat]
Snapshot == [sequence : Nat, run : Run, readable : BOOLEAN]

Calls == {"advance", "paused", "suspended", "resume", "cancel", "recover"}

VARIABLES
    run,        \* workflow_runs: the projection
    log,        \* workflow_events
    snapshots,  \* workflow_snapshots
    pc,         \* what each call does next
    call,       \* which call it is
    held,       \* the run it has read, or last committed
    base,       \* recovery: the snapshot its replay starts from
    past        \* history: the projection after each event

vars == <<run, log, snapshots, pc, call, held, base, past>>
local == <<call, held, base>>
NoSnapshot == [sequence |-> 0, run |-> NoRun, readable |-> FALSE]
Steps == {"idle", "commit", "checkpoint", "snapshot", "replay", "events", "unservable"}

TypeOK ==
    /\ run \in Run
    /\ log \in Seq(Event)
    /\ snapshots \subseteq Snapshot
    /\ pc \in [Client -> Steps]
    /\ call \in [Client -> Calls]
    /\ held \in [Client -> Run]
    /\ base \in [Client -> Snapshot]
    /\ past \in Seq(Run)

Init ==
    /\ run = NoRun /\ log = <<>> /\ snapshots = {} /\ past = <<>>
    /\ pc = [c \in Client |-> "idle"]
    /\ call = [c \in Client |-> "advance"]
    /\ held = [c \in Client |-> NoRun]
    /\ base = [c \in Client |-> NoSnapshot]
-----------------------------------------------------------------------------
(* applyWorkflowEvent and rebuildWorkflow.                                     *)

\* The event parses and continues r.
Applicable(r, e) ==
    /\ e \in Event /\ e.type # "created"
    /\ e.sequence = r.version + 1
    /\ e.type \in StatusEvents =>
          /\ r.status = e.from /\ e.to \in Status
          /\ e.type \in {"cancelled", "recovery_required", "paused", "suspended"}
             => e.to = e.type
    /\ e.type = "node_changed" => e.node \in Node /\ r.nodes[e.node] = e.from

Apply(r, e) ==
    LET next == CASE e.type \in StatusEvents -> [r EXCEPT !.status = e.to, !.error = e.error]
                  [] e.type = "node_changed" -> [r EXCEPT !.nodes[e.node] = e.to]
                  [] OTHER -> r
    IN [next EXCEPT !.version = e.sequence]

\* The runs that replaying events on r goes through, r first.
Rebuilt(r, events) ==
    LET chain[i \in 0..Len(events)] ==
            IF i = 0 THEN r ELSE Apply(chain[i - 1], events[i])
    IN chain

\* No event of the replay is rejected and every run is valid.
Accepted(chain, r, events) ==
    /\ chain[0] = r
    /\ \A i \in 1..Len(events) : /\ Applicable(chain[i - 1], events[i])
                                 /\ chain[i] = Apply(chain[i - 1], events[i])
                                 /\ chain[i] \in Run

\* rebuildWorkflow: the run that replaying events on r gives, if none is rejected.
Rebuild(r, events) ==
    LET chain == Rebuilt(r, events)
    IN IF Accepted(chain, r, events) THEN chain[Len(events)] ELSE NoRun
-----------------------------------------------------------------------------
(* transition: what a call makes of the run it has read.  A change is an event *)
(* without its sequence; keep says that the draft keeps its error although the  *)
(* event carries none.                                                         *)

ChangeNode(n, to) ==
    [type |-> "node_changed", node |-> n, to |-> to, error |-> FALSE, keep |-> TRUE]
ChangeStatus(type, to, error, keep) ==
    [type |-> type, node |-> NoNode, to |-> to, error |-> error, keep |-> keep]

\* What the mutate of a change makes of a draft.
Mutate(d, ch) ==
    CASE ch.type = "node_changed" -> [d EXCEPT !.nodes[ch.node] = ch.to]
      [] ch.type \in StatusEvents ->
            [d EXCEPT !.status = ch.to, !.error = IF ch.keep THEN @ ELSE ch.error]
      [] OTHER -> d

\* The drafts that mutate goes through.
Drafts(r, changes) ==
    LET draft[i \in 0..Len(changes)] ==
            IF i = 0 THEN r ELSE Mutate(draft[i - 1], changes[i])
    IN draft

Events(r, changes) ==
    LET draft == Drafts(r, changes)
    IN [i \in 1..Len(changes) |->
           LET ch == changes[i]
           IN [type |-> ch.type, node |-> ch.node,
               from |-> CASE ch.type = "node_changed" -> draft[i - 1].nodes[ch.node]
                          [] ch.type \in StatusEvents -> draft[i - 1].status
                          [] OTHER -> "none",
               to |-> ch.to, error |-> ch.error,
               sequence |-> r.version + i]]

Expected(r, changes) ==
    [Drafts(r, changes)[Len(changes)] EXCEPT !.version = r.version + Len(changes)]

\* The controller's own check: the events must rebuild the draft.
Consistent(r, changes) ==
    LET chain == Rebuilt(r, Events(r, changes))
    IN /\ Accepted(chain, r, Events(r, changes))
       /\ chain[Len(changes)] = Expected(r, changes)

\* Mutant: a run that has moved on may still be replaced.
UnmovedOrMoved(r) == r.version <= run.version

\* The compare-and-swap of the store.
Unmoved(r) == r.version = run.version

\* transitionWorkflow: events and projection in one transaction.
Stored(r, changes) ==
    LET events == Events(r, changes)
        chain  == Rebuilt(r, events)
    IN /\ log' = log \o events
       /\ run' = chain[Len(events)]
       /\ past' = past \o [i \in 1..Len(events) |-> chain[i]]

\* The call is over and what it held is forgotten.
End(c) ==
    /\ pc' = [pc EXCEPT ![c] = "idle"]
    /\ call' = [call EXCEPT ![c] = "advance"]
    /\ held' = [held EXCEPT ![c] = NoRun]
    /\ base' = [base EXCEPT ![c] = NoSnapshot]

\* A call commits its changes and ends or goes on with the new run, or throws.
Transition(c, changes, next) ==
    LET r == held[c]
    IN /\ changes # <<>> /\ r.version + Len(changes) <= MaxVersion
       /\ IF Consistent(r, changes) /\ Unmoved(r)
          THEN /\ Stored(r, changes)
               /\ \/ next = "idle" /\ End(c)
                  \/ /\ next # "idle"
                     /\ held' = [held EXCEPT ![c] = run']
                     /\ pc' = [pc EXCEPT ![c] = next]
                     /\ UNCHANGED <<call, base>>
          ELSE /\ UNCHANGED <<run, log, past>>
               /\ \/ call[c] # "recover" /\ End(c)
                  \/ /\ call[c] = "recover"
                     /\ pc' = [pc EXCEPT ![c] = "unservable"]
                     /\ UNCHANGED local
       /\ UNCHANGED snapshots
-----------------------------------------------------------------------------
\* Mutant: a cancelled node counts as done.
CancelledIsDone(status) == status \in Done \cup {"cancelled"}

IsDone(status) == status \in Done

\* certified says whether the tasks of all the nodes have certificates of success.
DeriveStatus(nodes, certified) ==
    LET Some(s) == \E n \in Required : nodes[n] = s
    IN IF Some("failed") THEN "failed"
       ELSE IF Some("recovery_required") THEN "recovery_required"
       ELSE IF Some("awaiting_approval") THEN "awaiting_approval"
       ELSE IF Some("awaiting_input") THEN "awaiting_input"
       ELSE IF certified /\ \A n \in Required : IsDone(nodes[n]) THEN "verified_complete"
       ELSE "running"

NodeChanges(outcome) ==
    LET order == SetToSeq(DOMAIN outcome)
    IN [i \in 1..Len(order) |-> ChangeNode(order[i], outcome[order[i]])]

\* Node changes, then the compensations that a complete run no longer needs.
WithSkips(r, changes, certified) ==
    LET nodes  == Drafts(r, changes)[Len(changes)].nodes
        unused == {n \in Compensation : nodes[n] = "pending"}
    IN IF DeriveStatus(nodes, certified) # "verified_complete" THEN changes
       ELSE changes \o NodeChanges([n \in unused |-> "skipped"])

DerivedAfter(r, changes, certified) ==
    DeriveStatus(Drafts(r, changes)[Len(changes)].nodes, certified)

\* plan: two events and the projection in one transaction.
CreateWorkflow ==
    /\ run = NoRun
    /\ LET created == [type |-> "created", node |-> NoNode, from |-> "none",
                       to |-> "draft", error |-> FALSE, sequence |-> 1]
           planned == [type |-> "status_changed", node |-> NoNode, from |-> "draft",
                       to |-> "planned", error |-> FALSE, sequence |-> 2]
       IN /\ log' = <<created, planned>>
          /\ run' = Apply(Draft, planned)
          /\ past' = <<Draft, Apply(Draft, planned)>>
    /\ UNCHANGED <<snapshots, pc, call, held, base>>

\* Mutants: a halted run advances; a finished one is halted.
NeverHalted(r)    == FALSE
HaltableAlways(r) == r.status # "failed"

Halted(r)   == r.status \in Halts
Haltable(r) == r.status \notin Ended \cup {"failed"}

\* A call reads the run and goes on, or returns at once.
Begin(c) ==
    /\ pc[c] = "idle" /\ run # NoRun
    /\ \E k \in Calls :
          /\ \/ k = "advance" /\ run.status \notin Ended /\ ~Halted(run)
             \/ k \in Halts   /\ run.status # k /\ Haltable(run)
             \/ k = "resume"  /\ Halted(run)
             \/ k = "cancel"  /\ run.status \notin Ended
             \/ k = "recover" /\ run.status \in {"planned", "running",
                                    "awaiting_approval", "recovery_required"}
          /\ call' = [call EXCEPT ![c] = k]
          /\ pc' = [pc EXCEPT ![c] = IF k = "recover" THEN "replay" ELSE "commit"]
    /\ held' = [held EXCEPT ![c] = run]
    /\ UNCHANGED <<run, log, snapshots, base, past>>

HaltChanges(to) == <<ChangeStatus(to, to, FALSE, TRUE)>>

\* halt, for pause and for suspend.
Halt(c) ==
    /\ pc[c] = "commit" /\ call[c] \in Halts
    /\ Transition(c, HaltChanges(call[c]), "idle")

ResumedStatus(nodes) ==
    IF \E n \in Node : nodes[n] = "awaiting_approval" THEN "awaiting_approval"
    ELSE IF \E n \in Node : nodes[n] = "awaiting_input" THEN "awaiting_input"
    ELSE "running"

Resume(c) ==
    /\ pc[c] = "commit" /\ call[c] = "resume"
    /\ Transition(c, <<ChangeStatus("resumed", ResumedStatus(held[c].nodes),
                                    FALSE, FALSE)>>, "idle")

Cancel(c) ==
    /\ pc[c] = "commit" /\ call[c] = "cancel"
    /\ LET open == {n \in Node : held[c].nodes[n] \in
                                    {"pending", "ready", "awaiting_approval"}}
       IN Transition(c, Append(NodeChanges([n \in open |-> "cancelled"]),
                               ChangeStatus("cancelled", "cancelled", FALSE, FALSE)),
                     "idle")
-----------------------------------------------------------------------------
(* advanceOnce.                                                                *)

Rollback(r) ==
    {n \in Compensation : /\ r.nodes[n] \in {"pending", "awaiting_approval"}
                          /\ r.nodes[ForNode[n]] = "verified_complete"}
Awaiting(r) ==
    {n \in Required : r.nodes[n] \in {"awaiting_approval", "awaiting_input"}}

\* The sets of nodes an advance may work on.
Waves(r) ==
    IF r.status = "failed" THEN {Rollback(r)} \ {{}}
    ELSE IF Awaiting(r) # {} THEN {Awaiting(r)}
    ELSE (SUBSET {n \in Required : r.nodes[n] = "pending"}) \ {{}}

OutcomeOf(n, o) ==
    IF n \in Compensation /\ o = "verified_complete" THEN "compensated" ELSE o

\* When a node of the wave failed, the compensations that were pending when the run
\* was read run one after the other, or are skipped if their target was not verified.
CompensationChanges(r, outcome, undo) ==
    LET pending == {n \in Compensation : r.nodes[n] = "pending"}
        Target(n) == IF ForNode[n] \in DOMAIN outcome THEN outcome[ForNode[n]]
                     ELSE r.nodes[ForNode[n]]
    IN IF \A n \in DOMAIN outcome : outcome[n] # "failed" THEN <<>>
       ELSE NodeChanges([n \in pending |->
                IF Target(n) = "verified_complete" THEN OutcomeOf(n, undo[n])
                                                   ELSE "skipped"])

\* The changes of a wave with these outcomes: the nodes, then the status they derive.
AdvanceChanges(r, outcome, undo, certified) ==
    LET nodes   == WithSkips(r, NodeChanges(outcome)
                                \o CompensationChanges(r, outcome, undo), certified)
        derived == DerivedAfter(r, nodes, certified)
    IN IF derived = r.status THEN nodes
       ELSE Append(nodes, ChangeStatus("status_changed", derived, FALSE, TRUE))

\* What the nodes of a wave may come to.
Outcomes(wave) == {[n \in wave |-> OutcomeOf(n, o[n])] : o \in [wave -> NodeOutcomes]}

\* The wave is over: its outcomes and the status they derive are committed; if one
\* of its nodes was a checkpoint the call goes on to save it.
Advance(c) ==
    /\ pc[c] = "commit" /\ call[c] = "advance"
    /\ \E wave \in Waves(held[c]), undo \in [Compensation -> NodeOutcomes],
          certified, checkpoint \in BOOLEAN : \E outcome \in Outcomes(wave) :
          Transition(c, AdvanceChanges(held[c], outcome, undo, certified),
                     IF checkpoint THEN "checkpoint" ELSE "idle")

\* No node is ready, or a node of the wave throws.
Return(c) ==
    /\ pc[c] = "commit" /\ call[c] = "advance"
    /\ End(c)
    /\ UNCHANGED <<run, log, snapshots, past>>

CheckpointSaved == <<[type |-> "checkpoint_saved", node |-> NoNode, to |-> "none",
                     error |-> FALSE, keep |-> TRUE]>>

\* The checkpoint event is a transition of its own, and the snapshot a third write.
Checkpoint(c) ==
    /\ pc[c] = "checkpoint"
    /\ Transition(c, CheckpointSaved, "snapshot")

SaveSnapshot(c) ==
    /\ pc[c] = "snapshot"
    /\ LET s == [sequence |-> held[c].version, run |-> held[c], readable |-> TRUE]
       IN snapshots' = IF \E t \in snapshots : t.sequence = s.sequence
                       THEN snapshots ELSE snapshots \cup {s}
    /\ End(c)
    /\ UNCHANGED <<run, log, past>>
-----------------------------------------------------------------------------
(* recoverInterrupted, at the start of a process.                              *)

Newest == CHOOSE s \in snapshots : \A t \in snapshots : t.sequence <= s.sequence

\* Mutant: the run in the snapshot is returned.
LatestRun == IF snapshots = {} THEN NoSnapshot ELSE Newest.run

LatestSnapshot == IF snapshots = {} THEN NoSnapshot ELSE Newest

ReplaySnapshot(c) ==
    /\ pc[c] = "replay"
    /\ base' = [base EXCEPT ![c] = LatestSnapshot]
    /\ pc' = [pc EXCEPT ![c] = "events"]
    /\ UNCHANGED <<run, log, snapshots, past, call, held>>

\* Mutant: there is no second attempt.
NoFallback == NoRun

FullReplay == Rebuild(Draft, Tail(log))

\* The events after the snapshot are replayed on it, or all of them if that fails; a
\* rebuilt run of another version than the one listed ends the start of the process.
ReplayEvents(c) ==
    /\ pc[c] = "events"
    /\ LET s        == base[c]
           quick    == IF s.readable
                       THEN Rebuild(s.run, SubSeq(log, s.sequence + 1, Len(log)))
                       ELSE NoRun
           replayed == IF quick = NoRun THEN FullReplay ELSE quick
       IN pc' = [pc EXCEPT ![c] = IF replayed.version = held[c].version THEN "commit"
                                                                        ELSE "unservable"]
    /\ UNCHANGED <<run, log, snapshots, past, local>>

\* Nodes are repaired from what their tasks show and the status follows; there is
\* always an event.
Recover(c) ==
    /\ pc[c] = "commit" /\ call[c] = "recover"
    /\ \E repaired \in SUBSET Node, certified \in BOOLEAN :
          \E found \in [repaired -> Recovered] :
          LET r       == held[c]
              state   == [n \in repaired |-> OutcomeOf(n, found[n])]
              nodes   == WithSkips(r, NodeChanges(state), certified)
              derived == DerivedAfter(r, nodes, certified)
              stuck   == derived = "recovery_required"
          IN Transition(c, Append(nodes, ChangeStatus(
                 IF stuck THEN "recovery_required" ELSE "recovered",
                 derived, stuck, FALSE)), "idle")

\* The process dies, or a start that failed is given up.
Die(c) ==
    /\ pc[c] # "idle"
    /\ End(c)
    /\ UNCHANGED <<run, log, snapshots, past>>

\* A stored snapshot no longer parses.
Corrupt ==
    /\ MayCorrupt
    /\ \E s \in snapshots :
          snapshots' = (snapshots \ {s}) \cup {[s EXCEPT !.readable = FALSE]}
    /\ UNCHANGED <<run, log, past, pc, local>>
-----------------------------------------------------------------------------
Step(c) ==
    \/ Begin(c) \/ Halt(c) \/ Resume(c) \/ Cancel(c) \/ Advance(c) \/ Return(c)
    \/ Checkpoint(c) \/ SaveSnapshot(c)
    \/ ReplaySnapshot(c) \/ ReplayEvents(c) \/ Recover(c) \/ Die(c)

Next == CreateWorkflow \/ Corrupt \/ \E c \in Client : Step(c)

Spec == Init /\ [][Next]_vars
-----------------------------------------------------------------------------
(* Properties.                                                                 *)

\* docs/ARCHITECTURE.md:143 "Events are the ordered facts; the projection serves status
\* reads; snapshots accelerate replay": replaying the whole log, or the events after any
\* readable snapshot, rebuilds the stored projection, and no event is rejected.
ProjectionIsReplay ==
    run # NoRun =>
        /\ FullReplay = run
        /\ \A s \in snapshots : s.readable =>
              Rebuild(s.run, SubSeq(log, s.sequence + 1, Len(log))) = run

\* docs/ARCHITECTURE.md:137 "Accepted workflow transitions append events and update the
\* current projection in one `BEGIN IMMEDIATE` SQLite transaction": event by event the
\* log takes the run that was created to the projection, and every snapshot is the run
\* that its sequence number names.
LogLeadsToRun ==
    /\ Len(log) = Len(past) /\ run.version = Len(log)
    /\ log # <<>> => past[1] = Draft /\ past[Len(log)] = run
    /\ \A i \in 2..Len(log) : /\ Applicable(past[i - 1], log[i])
                              /\ past[i] = Apply(past[i - 1], log[i])
    /\ \A s \in snapshots : s.sequence \in 1..Len(log) /\ s.run = past[s.sequence]

\* A transition only replaces the run it was computed from: no call overwrites what
\* another committed after it had read.
NoLostTransition ==
    [][run' # run /\ run # NoRun =>
          \E c \in Client : pc[c] # pc'[c] /\ held[c] = run]_vars

\* A run that is verified complete or cancelled is never moved again, by a late wave, a
\* halt, a resume or a recovery.
EndedStaysEnded == [][run.status \in Ended => run' = run \/ run'.status = run.status]_vars

\* workflow-controller.ts:445 "Neither touches node state": while a run is halted, only
\* a cancellation changes its nodes, also when a wave was in flight when it was halted.
HaltHolds ==
    [][run.status \in Halts /\ run'.nodes # run.nodes => run'.status = "cancelled"]_vars

\* A run is complete only when all of its required nodes are done and no compensation
\* is left pending.
CompletionIsEarned ==
    run.status = "verified_complete" =>
        /\ \A n \in Required : run.nodes[n] \in Done
        /\ \A n \in Compensation : run.nodes[n] # "pending"

\* workflow-controller.ts:548 "if (canonicalJson(rebuilt) !== canonicalJson(expected))
\* throw": the events a halt or an advance emits rebuild its draft, so that neither is
\* rejected by the controller itself when nobody else has moved the run.
EventsRebuildTheDraft ==
    \A c \in Client : pc[c] = "commit" /\ held[c] = run =>
        /\ call[c] \in Halts => Consistent(run, HaltChanges(call[c]))
        /\ call[c] = "advance" =>
              \A wave \in Waves(run), undo \in [Compensation -> NodeOutcomes],
                 certified \in BOOLEAN : \A outcome \in Outcomes(wave) :
                 Consistent(run, AdvanceChanges(run, outcome, undo, certified))

\* docs/ARCHITECTURE.md:264 "Event replay rejects duplicate, missing, reordered, or
\* corrupt history. A corrupt snapshot may be ignored only when full event replay
\* succeeds": a history without gaps up to the version of the projection is not rejected
\* by a starting process, whatever became of its snapshots.
HistoryIsAccepted ==
    [][\A c \in Client : pc[c] = "events" /\ pc'[c] = "unservable"
          => Len(log) # run.version]_vars
=============================================================================
