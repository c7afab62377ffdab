--------------------------------- MODULE Breaker ---------------------------------
(* packages/runtime-core/src/circuit-breaker.ts, with the calls of it in          *)
(* TaskController.execute: any number of tasks that are in flight together ask     *)
(* before they run and report after, so that answers arrive in any order, late     *)
(* ones of calls that began before the breaker opened among them.                  *)
EXTENDS Integers, Sequences

CONSTANTS
    Tasks,      \* tasks, each run once
    Targets,    \* targets that operations name
    Threshold,  \* options.threshold; 0 switches the breaker off
    Cooldown,   \* options.cooldownMs, in ticks
    MaxNow      \* bound: ticks

VARIABLES
    failures,   \* failures: [count, openedAt] of a target, or Clear
    task,       \* of a task: [status, target]
    now,        \* clock
    answers     \* history: what each target has answered, [ok, at], in order

vars == <<failures, task, now, answers>>

Clear == [count |-> 0, openedAt |-> 0]

\* Mutant: the cooldown runs from the failure that opened the breaker.
FailedFirst(x, at) == [count |-> x.count + 1,
                       openedAt |-> IF x.count + 1 > Threshold THEN x.openedAt ELSE at]
\* recordFailure: each failure starts the cooldown again.
Failed(x, at) == [count |-> x.count + 1, openedAt |-> at]

\* check: past the cooldown every caller is let through, until one of them answers.
Open(x) == Threshold > 0 /\ x.count >= Threshold /\ now - x.openedAt < Cooldown

Start(t, target) ==
    /\ task[t].status = "new"
    /\ task' = [task EXCEPT ![t] =
                   [status |-> IF Open(failures[target]) THEN "refused" ELSE "running",
                    target |-> target]]
    /\ UNCHANGED <<failures, now, answers>>

\* A success, or a result whose evidence disagrees, clears the count; a failure counts.
Answer(t, ok) ==
    LET target == task[t].target
    IN /\ task[t].status = "running"
       /\ task' = [task EXCEPT ![t].status = "done"]
       /\ failures' = [failures EXCEPT ![target] =
                         IF ok \/ Threshold = 0 THEN Clear ELSE Failed(@, now)]
       /\ answers' = [answers EXCEPT ![target] = Append(@, [ok |-> ok, at |-> now])]
       /\ UNCHANGED now

\* A cancellation counts neither way.
Cancel(t) ==
    /\ task[t].status = "running"
    /\ task' = [task EXCEPT ![t].status = "cancelled"]
    /\ UNCHANGED <<failures, now, answers>>

\* The breaker is in memory.
Restart ==
    /\ failures' = [x \in Targets |-> Clear] /\ answers' = [x \in Targets |-> <<>>]
    /\ task' = [t \in Tasks |-> IF task[t].status = "running"
                                THEN [task[t] EXCEPT !.status = "lost"] ELSE task[t]]
    /\ UNCHANGED now

Tick == now < MaxNow /\ now' = now + 1 /\ UNCHANGED <<failures, task, answers>>

Init == /\ failures = [x \in Targets |-> Clear]
        /\ task = [t \in Tasks |-> [status |-> "new", target |-> "none"]]
        /\ now = 0
        /\ answers = [x \in Targets |-> <<>>]

Next == \/ \E t \in Tasks : \/ \E x \in Targets : Start(t, x)
                            \/ \E ok \in BOOLEAN : Answer(t, ok)
                            \/ Cancel(t)
        \/ Restart \/ Tick

Spec == Init /\ [][Next]_vars
-----------------------------------------------------------------------------
(* Properties.                                                                 *)

\* The last n answers of a target were all failures, the last of them recent.
Failing(x, n) ==
    LET s == answers[x]
    IN /\ n > 0 /\ Len(s) >= n
       /\ \A i \in (Len(s) - n + 1)..Len(s) : ~s[i].ok
       /\ now - s[Len(s)].at < Cooldown

\* Of every step: a task is refused exactly if the last Threshold answers of its target,
\* from whichever tasks and in whichever order they came, are failures and the last is
\* more recent than the cooldown: a target that is down is not flooded by its late answers,
\* one that answered is not refused, and every target comes back after a cooldown.
RefusedIffFailing ==
    \A t \in Tasks : task[t].status = "new" /\ task'[t].status # "new" =>
        (task'[t].status = "refused" <=> Failing(task'[t].target, Threshold))
-----------------------------------------------------------------------------
(* The inductive invariant behind RefusedIffFailing.                             *)

\* The count of a target is the number of failures at the end of its answers, and the
\* cooldown runs from the last of them.
Counted(f, s) ==
    /\ f.count <= Len(s)
    /\ \A i \in (Len(s) - f.count + 1)..Len(s) : ~s[i].ok
    /\ f.count < Len(s) => s[Len(s) - f.count].ok
    /\ f.count > 0 => f.openedAt = s[Len(s)].at

BreakerInv ==
    /\ now \in Nat
    /\ failures \in [Targets -> [count : Nat, openedAt : Nat]]
    /\ answers \in [Targets -> Seq([ok : BOOLEAN, at : Nat])]
    /\ task \in [Tasks -> [status : {"new", "refused", "running", "done", "cancelled", "lost"},
                           target : Targets \cup {"none"}]]
    /\ \A t \in Tasks : task[t].status = "running" => task[t].target \in Targets
    /\ Threshold > 0 => \A x \in Targets : Counted(failures[x], answers[x])
=============================================================================
