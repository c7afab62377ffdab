---------------------------- MODULE WorkflowNodes ----------------------------
(* What an advance does with the nodes of a workflow and their tasks, and what   *)
(* a restart makes of both (packages/runtime-core/src/workflow-controller.ts).   *)
(* WorkflowRun has the log and the store of the same run, WorkflowLease the lock *)
(* around an advance, TaskController what is inside a task.                      *)
(*                                                                              *)
(* Granularity.  One process.  A step ends at an await: from planning a task to  *)
(* the call of its adapter, from the adapter's answer to the next request of its *)
(* node.  The nodes of a wave, and calls that halt or cancel the run, interleave. *)
(*                                                                              *)
(* Abstractions.  A task is its key, its status, whether its certificate was     *)
(* saved, and whether it is the one of its key that was updated last; "failed"   *)
(* stands for failed, partial, budget_exhausted and policy_blocked.  What        *)
(* adapters, predicates, approvers and people answer is a choice.                *)
EXTENDS WorkflowGraph, TLC

CONSTANTS
    Definitions,    \* accepted definitions
    Order,          \* the nodes in the order of the definition
    FaultSets,      \* the faults a behaviour has: subsets of AllFaults
    MaxTasks,       \* bound: tasks planned
    MaxFaults       \* bound: deaths, halts, throws and changes of a behaviour

AllFaults == {"death", "halt", "throw", "change"}

\* WorkflowNodeSchema.  An approval may by that be for any node; one that is not for an
\* operation throws at every advance, so it is left out.
NodeFits(d, n) ==
    LET type == d[n].type  branches == d[n].branches
    IN /\ type \in {"operation", "approval", "condition", "parallel", "bounded_loop",
                    "checkpoint", "human_input", "delegation", "compensation"}
       /\ d[n].dependsOn \in Seq(DOMAIN d)
       /\ branches \in Seq(Seq([effect : {"read", "mutate"}, ask : BOOLEAN]))
       /\ type \in {"operation", "compensation"} => Len(branches) = 1 /\ Len(branches[1]) = 1
       /\ type = "approval" => d[d[n].refersTo].type = "operation"
       /\ type = "condition" => Len(branches) = 2
       /\ type = "parallel" => Len(branches) > 1 /\ \A i \in DOMAIN branches : branches[i] # <<>>
       /\ type = "bounded_loop" => /\ Len(branches) = 1 /\ branches[1] # <<>>
                                   /\ d[n].max \in Nat \ {0}
       /\ type \in {"approval", "checkpoint", "human_input", "delegation"} => branches = <<>>

ASSUME NodesAssumption ==
    /\ FaultSets \subseteq SUBSET AllFaults /\ Order \in Seq(ToSet(Order))
    /\ MaxTasks \in Nat /\ MaxFaults \in Nat
    /\ \A d \in Definitions : /\ DOMAIN d # {} /\ DOMAIN d \subseteq ToSet(Order)
                              /\ ValidWorkflow(d) /\ \A n \in DOMAIN d : NodeFits(d, n)

VARIABLES
    def,        \* the definition
    faults,     \* which faults may happen
    answers,    \* what predicates say: the branch of a condition, and the number of
                \* iterations after which a loop may stop
    mode,       \* "serving", "down" or "repairing"
    run,        \* the stored run: status, error, nodes
    tasks,      \* the tasks in the order they were planned
    committed,  \* idempotency keys that are committed
    wave,       \* the advance under way
    jobs,       \* the nodes that are being advanced
    launched,   \* history: how often the adapter was called for each mutation
    lost,       \* history: nodes some outcome of which was never recorded
    repaired,   \* history: nodes that recovery completed
    count       \* faults so far

vars == <<def, faults, answers, mode, run, tasks, committed, wave, jobs, launched, lost,
          repaired, count>>
history == <<launched, lost, repaired>>

Ended    == {"verified_complete", "cancelled"}
Required == {n \in DOMAIN def : def[n].type # "compensation"}
Compensations == DOMAIN def \ Required
MayFault(f) == f \in faults /\ count < MaxFaults
-----------------------------------------------------------------------------
(* Keys and tasks.                                                             *)

Key(n, branch, iteration, i) == [node |-> n, branch |-> branch, iteration |-> iteration,
                                 index |-> i]
Request(k) == def[k.node].branches[k.branch][k.index]
Branch(n, b, iteration) ==
    [i \in DOMAIN def[n].branches[b] |-> Key(n, b, iteration, i)]

\* The requests that a node works through, given the branch that was chosen.
Slots(n, b) ==
    CASE def[n].type \in {"operation", "compensation"} -> Branch(n, 1, 0)
      [] def[n].type = "approval"  -> Branch(def[n].refersTo, 1, 0)
      [] def[n].type = "condition" -> Branch(n, b, 0)
      [] def[n].type = "parallel"  ->
            FlattenSeq([i \in DOMAIN def[n].branches |-> Branch(n, i, 0)])
      [] def[n].type = "bounded_loop" ->
            FlattenSeq([i \in 1..def[n].max |-> Branch(n, 1, i - 1)])
      [] OTHER -> <<>>

ExpectedKeys(n) ==
    IF def[n].type = "condition" THEN Slots(n, 1) \o Slots(n, 2) ELSE Slots(n, 1)

\* The elements of list that are in set, in their order (filter).
Among(list, set) ==
    LET kept[i \in 0..Len(list)] ==
            IF i = 0 THEN <<>>
            ELSE IF list[i] \in set THEN Append(kept[i - 1], list[i]) ELSE kept[i - 1]
    IN kept[Len(list)]

\* The first of order that occurs, if one does.
Foremost(order, occurring, otherwise) ==
    LET found == Among(order, occurring)
    IN IF found = <<>> THEN otherwise ELSE found[1]

NodeState(status, ids, iterations) ==
    [status |-> status, ids |-> ids, iterations |-> iterations]

\* nodeStateForTask.
StatusForTask(status, plannedIsComplete) ==
    CASE status = "verified_success" -> "verified_complete"
      [] status = "planned" -> IF plannedIsComplete THEN "verified_complete" ELSE "ready"
      [] status \in {"awaiting_approval", "recovery_required", "cancelled"} -> status
      [] OTHER -> "failed"

Certified(id) == tasks[id].status = "verified_success" /\ tasks[id].certified

\* Mutant: a node that is cancelled does not hold the run back.
DeriveForgivingly(nodes) ==
    IF \E n \in Required : nodes[n].status = "failed" THEN "failed"
    ELSE IF \A n \in Required : nodes[n].status \in DoneStatus \cup {"cancelled"}
         THEN "verified_complete" ELSE "running"

DeriveStatus(nodes) ==
    Foremost(<<"failed", "recovery_required", "awaiting_approval", "awaiting_input">>,
             {nodes[n].status : n \in Required},
             IF \A n \in Required : /\ nodes[n].status \in DoneStatus
                                   /\ \A i \in DOMAIN nodes[n].ids : Certified(nodes[n].ids[i])
             THEN "verified_complete" ELSE "running")

\* The compensations that a complete run does not need are skipped.
SkipUnused(nodes) ==
    [n \in DOMAIN nodes |->
        IF /\ n \in Compensations /\ nodes[n].status = "pending"
           /\ DeriveStatus(nodes) = "verified_complete"
        THEN [nodes[n] EXCEPT !.status = "skipped"] ELSE nodes[n]]
-----------------------------------------------------------------------------
(* A job is a node being advanced: the keys it works through, its task ids, what *)
(* became of each key so far, and its answer if it needs no task.  It is alive    *)
(* until its wave is given up.                                                    *)

SomeId(ids, i) == IF i \in DOMAIN ids THEN ids[i] ELSE 0

\* The task an operation starts with: the one its approval has planned, or its own.
FirstId(n, nodes) ==
    LET approvals == {a \in DOMAIN def : def[a].type = "approval" /\ def[a].refersTo = n
                                         /\ nodes[a].ids # <<>>}
    IN IF approvals # {} THEN nodes[CHOOSE a \in approvals : TRUE].ids[1]
       ELSE SomeId(nodes[n].ids, 1)

Job(n, b, answer) ==
    LET keys   == Slots(n, b)
        state  == run.nodes[n]
        offset == state.iterations * IF def[n].type = "bounded_loop"
                                     THEN Len(def[n].branches[1]) ELSE 0
        size   == Len(keys) + IF Len(state.ids) > Len(keys)
                              THEN Len(state.ids) - Len(keys) ELSE 0
    IN [node |-> n, keys |-> keys, answer |-> answer, alive |-> TRUE,
        ids |-> [i \in 1..size |->
                    IF i = 1 /\ def[n].type = "operation" THEN FirstId(n, run.nodes)
                    ELSE SomeId(state.ids, i)],
        states |-> [i \in DOMAIN keys |-> IF i <= offset THEN "verified_complete" ELSE "todo"]]

\* advanceNode: how a node may begin.
Jobs(n) ==
    CASE def[n].type = "condition" ->
            IF run.nodes[def[n].refersTo].ids = <<>> THEN {Job(n, 1, "throws")}
            ELSE {Job(n, answers[n], "none")}
      [] def[n].type = "checkpoint"  -> {Job(n, 1, "verified_complete")}
      [] def[n].type = "human_input" ->
            {Job(n, 1, a) : a \in {"awaiting_input", "verified_complete"}
                                  \cup IF MayFault("throw") THEN {"throws"} ELSE {}}
      [] def[n].type = "delegation"  ->
            {Job(n, 1, a) : a \in {"awaiting_input", "verified_complete", "failed"}}
      [] OTHER -> {Job(n, 1, "none")}

\* The request that may start: the next one, after the ones before it are verified or,
\* in a parallel node, called.
Startable(j) ==
    {i \in DOMAIN j.states :
        /\ j.states[i] = "todo"
        /\ \A k \in 1..(i - 1) : IF def[j.node].type = "parallel"
                                 THEN j.states[k] # "todo"
                                 ELSE j.states[k] = "verified_complete"}

Over(j) == \/ j.answer # "none"
           \/ /\ Startable(j) = {}
              /\ \A i \in DOMAIN j.states : j.states[i] # "busy"

\* aggregateNodeState, and the state in which a sequence of requests ends.
Aggregate(states) ==
    Foremost(<<"failed", "recovery_required", "awaiting_approval", "cancelled", "ready">>,
             ToSet(states), "verified_complete")

Planned(ids) == Among(ids, DOMAIN tasks)

Outcome(j) ==
    LET n      == j.node
        status == IF j.answer # "none" THEN j.answer ELSE Aggregate(j.states)
        whole  == Cardinality({i \in DOMAIN j.states : j.states[i] = "verified_complete"})
    IN NodeState(IF n \in Compensations /\ status = "verified_complete"
                 THEN "compensated" ELSE status,
                 Planned(j.ids),
                 IF def[n].type = "bounded_loop"
                 THEN whole \div Len(def[n].branches[1]) ELSE 0)

\* Mutant: the predicate of a loop is evaluated after every request.
StopsAnywhere(j, i) == def[j.node].type = "bounded_loop"

\* The predicate of a loop is evaluated where an iteration ends.
Stops(j, i) ==
    LET size == Len(def[j.node].branches[1])
    IN def[j.node].type = "bounded_loop" /\ i % size = 0 /\ i \div size >= answers[j.node]

\* One request of j is done.
Finished(j, i, id, status) ==
    LET next == [j EXCEPT !.ids[i] = id, !.states[i] = status]
    IN IF status = "verified_complete" /\ Stops(j, i)
       THEN [next EXCEPT !.keys = SubSeq(@, 1, i), !.states = SubSeq(@, 1, i)] ELSE next

Replace(j, next) == jobs' = (jobs \ {j}) \cup {next}

NoWave == [phase |-> "none", base |-> <<>>, results |-> <<>>, undo |-> <<>>, moved |-> FALSE]
Idle   == wave = NoWave

\* The wave is rejected: what it has started goes on, and nobody waits for it.
Reject(nodes, still) ==
    /\ wave' = NoWave
    /\ jobs' = {[j EXCEPT !.alive = FALSE] : j \in {k \in still : ~Over(k)}}
    /\ lost' = lost \cup nodes
    /\ UNCHANGED <<launched, repaired>>
-----------------------------------------------------------------------------
(* advanceOnce.                                                                *)

Rollback(nodes) ==
    {n \in Compensations : /\ nodes[n].status \in {"pending", "awaiting_approval"}
                           /\ nodes[def[n].refersTo].status = "verified_complete"}
Awaiting(nodes) ==
    {n \in Required : nodes[n].status \in {"awaiting_approval", "awaiting_input"}}
StatusOf(nodes) == [n \in DOMAIN nodes |-> nodes[n].status]

\* The nodes that the next advance works on.
WaveOf(r) ==
    IF r.status = "failed" THEN Rollback(r.nodes)
    ELSE IF Awaiting(r.nodes) # {} THEN Awaiting(r.nodes)
    ELSE ReadyNodes(def, StatusOf(r.nodes))

Advance ==
    /\ mode = "serving" /\ Idle /\ run.status \notin Ended \cup {"paused"}
    /\ LET nodes == WaveOf(run)
       IN /\ nodes # {}
          /\ \E begin \in [nodes -> UNION {Jobs(n) : n \in nodes}] :
                /\ \A n \in nodes : begin[n] \in Jobs(n)
                /\ LET started == {begin[n] : n \in nodes}
                   IN IF \E j \in started : j.answer = "throws"
                      THEN /\ MayFault("throw") /\ count' = count + 1
                           /\ Reject(nodes, jobs \cup started)
                      ELSE /\ jobs' = jobs \cup started
                           /\ wave' = [NoWave EXCEPT !.phase = "work", !.base = run.nodes]
                           /\ UNCHANGED <<history, count>>
    /\ UNCHANGED <<def, faults, answers, mode, run, tasks, committed>>

\* A task is updated: it is now the latest of its key.
Touch(known, id, status) ==
    [i \in DOMAIN known |->
        IF i = id THEN [known[i] EXCEPT !.status = status, !.latest = TRUE]
        ELSE [known[i] EXCEPT !.latest = @ /\ known[i].key # known[id].key]]

\* execute: a key that is committed is not executed again, else the adapter is called.
Execute(j, i, id, known) ==
    LET own == known[id].key
    IN IF own \in committed
       THEN /\ tasks' = Touch(known, id, "cancelled")
            /\ Replace(j, Finished(j, i, id, "cancelled"))
            /\ UNCHANGED launched
       ELSE /\ tasks' = Touch(known, id, "running")
            /\ Replace(j, [j EXCEPT !.ids[i] = id, !.states[i] = "busy"])
            /\ launched' = IF Request(own).effect = "mutate"
                           THEN [launched EXCEPT ![own] = @ + 1] ELSE launched

\* runTask, from the plan to the call of the adapter: a request is executed unless it
\* waits for an approval that this advance does not bring, or need only be planned.
StartRequest(j, i) ==
    LET given   == SomeId(j.ids, i)
        id      == IF given = 0 THEN Len(tasks) + 1 ELSE given
        planned == [key |-> j.keys[i], certified |-> FALSE, latest |-> TRUE,
                    status |-> IF Request(j.keys[i]).ask THEN "awaiting_approval" ELSE "planned"]
        known   == IF given = 0 THEN Touch(Append(tasks, planned), id, planned.status)
                                ELSE tasks
        status  == known[id].status
        only    == def[j.node].type = "approval"
    IN /\ i \in Startable(j) /\ id <= MaxTasks
       /\ \/ /\ \/ status = "awaiting_approval" /\ given # 0
                \/ status = "planned" /\ ~only
             /\ Execute(j, i, id, known)
          \/ /\ status # "planned" \/ only
             /\ tasks' = known
             /\ Replace(j, Finished(j, i, id, StatusForTask(status, only)))
             /\ UNCHANGED launched
       /\ UNCHANGED <<def, faults, answers, mode, run, committed, wave, lost, repaired, count>>

\* The approval that came for a task does not fit: its node throws.
Throw(j, i) ==
    /\ MayFault("throw") /\ j.alive /\ i \in Startable(j)
    /\ SomeId(j.ids, i) # 0 /\ tasks[j.ids[i]].status = "awaiting_approval"
    /\ count' = count + 1
    /\ Reject({k.node : k \in {k \in jobs : k.alive}} \cup DOMAIN wave.results, jobs \ {j})
    /\ UNCHANGED <<def, faults, answers, mode, run, tasks, committed>>

CommitKey(k, verified) == IF verified THEN committed \cup {k} ELSE committed

\* The adapter and the verifier have answered, the task is saved and certified; what
\* another task committed meanwhile is a duplicate.
Answer(j, i) ==
    /\ i \in DOMAIN j.states /\ j.states[i] = "busy"
    /\ LET id == j.ids[i]  own == tasks[id].key
       IN \E verdict \in {"verified_success", "failed", "cancelled"} :
          LET verified == verdict = "verified_success" /\ own \notin committed
              status   == IF verdict = "verified_success" /\ ~verified THEN "cancelled"
                                                                       ELSE verdict
          IN /\ tasks' = [Touch(tasks, id, status) EXCEPT ![id].certified = TRUE]
             /\ committed' = CommitKey(own, verified)
             /\ Replace(j, Finished(j, i, id, StatusForTask(status, FALSE)))
    /\ UNCHANGED <<def, faults, answers, mode, run, wave, history, count>>

\* The compensations a failed wave looks at, the last of the definition first.
ToUndo(results) ==
    IF \A n \in DOMAIN results : results[n].status # "failed" THEN <<>>
    ELSE Among(Reverse(Order), {n \in Compensations : wave.base[n].status = "pending"})

\* Every node of the wave has answered.
Gather ==
    /\ wave.phase = "work" /\ \A j \in jobs : j.alive => Over(j)
    /\ LET over    == {j \in jobs : j.alive}
           results == [n \in {j.node : j \in over} |->
                          Outcome(CHOOSE j \in over : j.node = n)]
       IN /\ wave' = [wave EXCEPT !.phase = "undo", !.results = results,
                                  !.undo = ToUndo(results)]
          /\ jobs' = jobs \ over
    /\ UNCHANGED <<def, faults, answers, mode, run, tasks, committed, history, count>>

\* Mutant: every compensation runs when a node has failed.
UndoAnyway(n) == TRUE

\* The operation that a compensation undoes was verified, in this wave or before.
Undoes(n) ==
    LET target == def[n].refersTo
    IN IF target \in DOMAIN wave.results
       THEN wave.results[target].status = "verified_complete"
       ELSE wave.base[target].status = "verified_complete"

Noted(n, state) == [m \in {n} \cup DOMAIN wave.results |->
                       IF m = n THEN state ELSE wave.results[m]]

\* Compensations run one after the other, or are skipped.
UndoNext ==
    /\ wave.phase = "undo" /\ wave.undo # <<>>
    /\ LET n == Head(wave.undo)
           Result(state) == wave' = [wave EXCEPT !.undo = Tail(@), !.results = Noted(n, state)]
       IN \/ /\ ~Undoes(n)
             /\ Result(NodeState("skipped", <<>>, 0)) /\ UNCHANGED jobs
          \/ /\ Undoes(n) /\ \A j \in jobs : ~j.alive
             /\ jobs' = jobs \cup {[Job(n, 1, "none") EXCEPT
                                      !.ids = <<SomeId(wave.base[n].ids, 1)>>]}
             /\ UNCHANGED wave
          \/ \E j \in jobs : /\ j.alive /\ j.node = n /\ Over(j)
                             /\ Result(Outcome(j)) /\ jobs' = jobs \ {j}
    /\ UNCHANGED <<def, faults, answers, mode, run, tasks, committed, history, count>>

\* The outcomes are committed, unless the run has moved or the events of a run with an
\* error would not rebuild it: then they are lost.
Commit ==
    /\ wave.phase = "undo" /\ wave.undo = <<>>
    /\ LET nodes   == SkipUnused([n \in DOMAIN def |->
                          IF n \in DOMAIN wave.results THEN wave.results[n] ELSE run.nodes[n]])
           derived == DeriveStatus(nodes)
       IN IF wave.moved \/ (run.error /\ derived # run.status)
          THEN lost' = lost \cup DOMAIN wave.results /\ UNCHANGED run
          ELSE run' = [run EXCEPT !.nodes = nodes, !.status = derived] /\ UNCHANGED lost
    /\ wave' = NoWave
    /\ UNCHANGED <<def, faults, answers, mode, tasks, committed, jobs, launched, repaired, count>>
-----------------------------------------------------------------------------
(* pause, suspend, resume and cancel.                                          *)

Moved == wave' = IF Idle THEN wave ELSE [wave EXCEPT !.moved = TRUE]

\* A run with an error cannot be halted (see WorkflowRun).
Halt ==
    /\ mode = "serving" /\ MayFault("halt") /\ count' = count + 1
    /\ run.status \notin Ended \cup {"failed", "paused"} /\ ~run.error
    /\ run' = [run EXCEPT !.status = "paused"]
    /\ Moved
    /\ UNCHANGED <<def, faults, answers, mode, tasks, committed, jobs, history>>

Resume ==
    /\ mode = "serving" /\ run.status = "paused"
    /\ LET Some(s) == \E n \in DOMAIN def : run.nodes[n].status = s
       IN run' = [run EXCEPT !.status = IF Some("awaiting_approval") THEN "awaiting_approval"
                                        ELSE IF Some("awaiting_input") THEN "awaiting_input"
                                        ELSE "running"]
    /\ Moved
    /\ UNCHANGED <<def, faults, answers, mode, tasks, committed, jobs, history, count>>

\* The tasks of open nodes are cancelled, one that runs when its adapter answers.
Cancel ==
    /\ mode = "serving" /\ MayFault("halt") /\ count' = count + 1
    /\ run.status \notin Ended
    /\ LET open == {n \in DOMAIN def : run.nodes[n].status \in
                                          {"pending", "ready", "awaiting_approval"}}
           ids  == UNION {ToSet(run.nodes[n].ids) : n \in open}
       IN /\ run' = [status |-> "cancelled", error |-> FALSE,
                     nodes |-> [n \in DOMAIN def |-> IF n \in open
                                THEN [run.nodes[n] EXCEPT !.status = "cancelled"]
                                ELSE run.nodes[n]]]
          /\ tasks' = [id \in DOMAIN tasks |->
                          IF id \in ids /\ tasks[id].status \in {"planned", "awaiting_approval"}
                          THEN [tasks[id] EXCEPT !.status = "cancelled"] ELSE tasks[id]]
    /\ Moved
    /\ UNCHANGED <<def, faults, answers, mode, committed, jobs, history>>

\* The world changes, and with it what predicates say when they are evaluated again.
Change ==
    /\ mode = "serving" /\ MayFault("change") /\ count' = count + 1
    /\ \E n \in DOMAIN def : /\ def[n].type \in {"condition", "bounded_loop"}
                            /\ answers' = [answers EXCEPT ![n] = 3 - @]
    /\ UNCHANGED <<def, faults, mode, run, tasks, committed, wave, jobs, history>>
-----------------------------------------------------------------------------
(* Death and recovery.                                                         *)

\* The process dies, perhaps while it records that a task was verified: after the
\* commit of its key, or after its row and before its certificate.
Die ==
    /\ mode # "down" /\ MayFault("death") /\ count' = count + 1
    /\ \/ UNCHANGED <<tasks, committed>>
       \/ /\ mode = "serving"
          /\ \E id \in DOMAIN tasks :
                /\ tasks[id].status = "running" /\ tasks[id].key \notin committed
                /\ committed' = committed \cup {tasks[id].key}
                /\ \/ UNCHANGED tasks
                   \/ tasks' = Touch(tasks, id, "verified_success")
    /\ mode' = "down" /\ wave' = NoWave /\ jobs' = {}
    /\ UNCHANGED <<def, faults, answers, run, history>>

\* recoverInterrupted of TaskController: interrupted reads may be retried, mutations are
\* observed again or require reconciliation.
RecoverTasks ==
    /\ mode = "down" /\ mode' = "repairing"
    /\ LET interrupted == {id \in DOMAIN tasks : tasks[id].status = "running"}
           mutations   == {id \in interrupted : Request(tasks[id].key).effect = "mutate"}
       IN \E seen \in SUBSET mutations :
             /\ tasks' = [id \in DOMAIN tasks |->
                   [tasks[id] EXCEPT
                      !.status = IF id \in seen THEN "verified_success"
                                 ELSE IF id \in mutations THEN "recovery_required"
                                 ELSE IF id \in interrupted THEN "planned" ELSE @,
                      !.certified = @ \/ id \in seen,
                      !.latest = IF \E t \in interrupted : tasks[t].key = tasks[id].key
                                 THEN id \in interrupted ELSE @]]
             /\ committed' = committed \cup {tasks[id].key : id \in seen}
    /\ UNCHANGED <<def, faults, answers, run, wave, jobs, history, count>>

TasksOf(k) == {id \in DOMAIN tasks : tasks[id].key = k}

\* preferredTask: a verified one, or the one that was updated last.
Preferred(k) ==
    LET verified == {id \in TasksOf(k) : tasks[id].status = "verified_success"}
    IN IF verified # {} THEN verified ELSE {id \in TasksOf(k) : tasks[id].latest}

\* Mutant: recovery looks for the first task of a node only.
FirstOnly(n) ==
    Among(ExpectedKeys(n), {tasks[id].key : id \in DOMAIN tasks} \cap {ExpectedKeys(n)[1]})

KeysToRecover(n) == Among(ExpectedKeys(n), {tasks[id].key : id \in DOMAIN tasks})

\* recoveredNodeState, given the tasks of its keys.
RecoveredState(n, ids) ==
    LET Some(s) == \E i \in DOMAIN ids : tasks[ids[i]].status = s
        All(s)  == \A i \in DOMAIN ids : tasks[ids[i]].status = s
        status  == IF Some("recovery_required") THEN "recovery_required"
                   ELSE IF Some("awaiting_approval") THEN "awaiting_approval"
                   ELSE IF Some("failed") THEN "failed"
                   ELSE IF Some("planned") THEN "pending"
                   ELSE IF ~All("verified_success") THEN "cancelled"
                   ELSE IF n \in Compensations THEN "compensated" ELSE "verified_complete"
    IN IF ids = <<>> THEN run.nodes[n]
       ELSE NodeState(status, ids,
                      IF def[n].type = "bounded_loop" /\ All("verified_success")
                      THEN (Len(ids) + Len(def[n].branches[1]) - 1)
                           \div Len(def[n].branches[1])
                      ELSE 0)

\* recoverInterrupted: the nodes of a run that is neither halted nor ended are read off
\* its tasks.
RecoverRun ==
    /\ mode = "repairing" /\ mode' = "serving"
    /\ IF run.status \notin {"planned", "running", "awaiting_approval", "recovery_required"}
       THEN /\ lost' = lost \cup {n \in DOMAIN def : run.nodes[n].status \notin DoneStatus}
            /\ UNCHANGED <<run, repaired>>
       ELSE \E choice \in [{tasks[id].key : id \in DOMAIN tasks} -> DOMAIN tasks] :
            /\ \A k \in DOMAIN choice : choice[k] \in Preferred(k)
            /\ LET found(n) == LET keys == KeysToRecover(n)
                               IN RecoveredState(n, [i \in DOMAIN keys |-> choice[keys[i]]])
                   nodes    == SkipUnused([n \in DOMAIN def |-> found(n)])
               IN /\ run' = [status |-> DeriveStatus(nodes), nodes |-> nodes,
                             error |-> DeriveStatus(nodes) = "recovery_required"]
                  /\ repaired' = repaired \cup
                        {n \in DOMAIN def : /\ nodes[n].status = "verified_complete"
                                            /\ run.nodes[n].status # "verified_complete"}
            /\ UNCHANGED lost
    /\ UNCHANGED <<def, faults, answers, tasks, committed, wave, jobs, launched, count>>
-----------------------------------------------------------------------------
Init ==
    /\ def \in Definitions /\ faults \in FaultSets
    /\ answers \in [DOMAIN def -> {1, 2}]
    /\ \A n \in DOMAIN def : def[n].type \notin {"condition", "bounded_loop"} => answers[n] = 1
    /\ mode = "serving" /\ tasks = <<>> /\ committed = {} /\ wave = NoWave /\ jobs = {}
    /\ run = [status |-> "planned", error |-> FALSE,
              nodes |-> [n \in DOMAIN def |-> NodeState("pending", <<>>, 0)]]
    /\ launched = [k \in UNION {ToSet(ExpectedKeys(n)) : n \in DOMAIN def} |-> 0]
    /\ lost = {} /\ repaired = {} /\ count = 0

Next ==
    \/ Advance \/ Gather \/ UndoNext \/ Commit \/ Halt \/ Resume \/ Cancel \/ Change
    \/ Die \/ RecoverTasks \/ RecoverRun
    \/ \E j \in jobs : \E i \in DOMAIN j.states :
          StartRequest(j, i) \/ Throw(j, i) \/ Answer(j, i)

Spec == Init /\ [][Next]_vars
-----------------------------------------------------------------------------
(* Properties.                                                                 *)

TaskStatus == {"planned", "awaiting_approval", "running", "verified_success", "failed",
               "cancelled", "recovery_required"}
NodeStatus == {"pending", "ready", "awaiting_approval", "awaiting_input", "failed", "cancelled",
               "recovery_required"} \cup DoneStatus
RunStatus  == {"planned", "running", "awaiting_approval", "awaiting_input", "paused", "failed",
               "recovery_required"} \cup Ended

\* The records are what the schemas of packages/protocol say, and name tasks that exist.
TypeOK ==
    /\ def \in Definitions /\ faults \in FaultSets
    /\ mode \in {"serving", "down", "repairing"}
    /\ run.status \in RunStatus /\ run.error \in BOOLEAN
    /\ \A n \in DOMAIN def : /\ run.nodes[n].status \in NodeStatus
                             /\ run.nodes[n].ids \in Seq(DOMAIN tasks)
    /\ \A id \in DOMAIN tasks : /\ tasks[id].status \in TaskStatus
                                /\ tasks[id].key \in DOMAIN launched
    /\ committed \subseteq DOMAIN launched
    /\ \A j \in jobs : \A i \in DOMAIN j.states :
          j.states[i] = "busy" => tasks[j.ids[i]].status = "running"
    /\ count \in 0..MaxFaults

\* docs/ARCHITECTURE.md:211 "A definition is an immutable, versioned DAG": whatever dies or
\* is halted, a run is a saga of its definition: nodes complete in the order of their
\* dependencies and stay complete, a run that failed stays failed, compensations are only
\* for verified operations of failed runs, and a complete run has all of its nodes.  A
\* compensation that ran in a wave whose outcomes were lost is left out: recovery may
\* find it in a run that goes on.
Workflow == INSTANCE Saga WITH
    plan   <- [steps  |-> {n \in Required : def[n].type # "approval"},
               undoes |-> [n \in Compensations |-> def[n].refersTo],
               needs  |-> [n \in {m \in Required : def[m].type # "approval"} |->
                              {p \in Dependencies(def, n) \cap Required :
                                  def[p].type # "approval"}]],
    state  <- CASE run.status = "failed" -> "failed"
                [] run.status = "verified_complete" -> "complete"
                [] run.status = "cancelled" -> "cancelled"
                [] OTHER -> "open",
    done   <- {n \in Required : /\ def[n].type # "approval"
                                /\ run.nodes[n].status = "verified_complete"},
    undone <- {n \in Compensations \ lost : run.nodes[n].status = "compensated"}
IsSaga == Workflow!SagaSpec

\* packages/runtime-core/README.md:34 "Recovery replays committed work rather than
\* rerunning adapters": deaths alone never make a mutation of a node run twice; for that,
\* an outcome must have been dropped by a process that goes on (a halted run, an advance
\* rejected by a node or by its own assertion), or be that of a compensation.
RerunOnlyIfLost ==
    \A k \in DOMAIN launched :
        launched[k] > 1 => \/ \E n \in lost : k \in ToSet(ExpectedKeys(n))
                           \/ k.node \in Compensations

\* docs/ARCHITECTURE.md:274 "Other interrupted mutations enter recovery_required; MELRA
\* does not repeat them automatically": no mutation is sent to its adapter twice.
MutationAtMostOnce == \A k \in DOMAIN launched : launched[k] <= 1

\* Every task that n names is verified, and there is one for every request of some way
\* through n.
Evidenced(n) ==
    LET ids  == run.nodes[n].ids
        done == {tasks[ids[i]].key : i \in {i \in DOMAIN ids :
                                               tasks[ids[i]].status = "verified_success"}}
        Through(keys) == ToSet(keys) \subseteq done
    IN IF def[n].type = "bounded_loop"
       THEN /\ run.nodes[n].iterations > 0
            /\ Through(SubSeq(Slots(n, 1), 1, run.nodes[n].iterations * Len(def[n].branches[1])))
       ELSE Through(Slots(n, 1)) \/ (def[n].type = "condition" /\ Through(Slots(n, 2)))

\* README.md:81 "zero false success": a node that an advance completed has a verified task
\* for each of its requests, also when it was parked, interrupted and taken up again.
CompleteIsEvidenced ==
    run.status = "verified_complete" =>
        \A n \in Required \ repaired : def[n].branches # <<>> => Evidenced(n)

\* The same of every node, those that recovery completed included.
SuccessIsEvidenced ==
    run.status = "verified_complete" =>
        \A n \in Required : def[n].branches # <<>> => Evidenced(n)

\* docs/ARCHITECTURE.md:271 "Planned and approval-waiting payloads remain executable after
\* restart": a node is failed only for a task that failed or evidence that did not hold.
FailureIsEarned ==
    \A n \in DOMAIN def : run.nodes[n].status = "failed" /\ def[n].type # "delegation" =>
        \E i \in DOMAIN run.nodes[n].ids : tasks[run.nodes[n].ids[i]].status = "failed"

\* workflow-controller.ts:230 "or the workflow would stall forever with the answer in
\* hand": a run that calls itself running has work for the next advance, unless one of
\* its nodes was cancelled, a verified task was left without its certificate, or it was
\* halted with an interrupted mutation, which resume (line 466) forgets.
RunningHasWork ==
    mode = "serving" /\ Idle /\ run.status = "running" =>
        \/ WaveOf(run) # {}
        \/ \E n \in Required : run.nodes[n].status = "cancelled"
        \/ \E n \in lost : run.nodes[n].status = "recovery_required"
        \/ \E id \in DOMAIN tasks : tasks[id].status = "verified_success" /\ ~Certified(id)
=============================================================================
