---------------------- MODULE TaskControllerProofs ----------------------
(* Theorems of TaskController, for every set of tasks, processes, keys,        *)
(* requests and policies.                                                      *)
EXTENDS TaskController, TLAPS

\* What the handlers assign to a task object keeps it a task object.
LEMMA RowFields ==
    ASSUME NEW r \in Row
    PROVE  /\ r.status \in Status /\ r.error \in Errors /\ r.attempts \in Nat
           /\ \A s \in Status : [r EXCEPT !.status = s] \in Row
           /\ \A s \in Status, e \in Errors : [r EXCEPT !.status = s, !.error = e] \in Row
           /\ \A n \in Nat : [r EXCEPT !.attempts = n] \in Row
           /\ \A s \in Status, o \in {"none", "success", "failure"} :
                 [r EXCEPT !.status = s, !.result = o] \in Row
    BY DEF Row

LEMMA NoRowType == NoRow \in Row
    BY DEF NoRow, Row, Status, Executable, InFlight, Final, Errors

\* The helpers that write one variable each write a value of its type.
LEMMA Setters ==
    ASSUME TypeOK, NEW p \in Proc, NEW t \in Task
    PROVE  /\ \A s \in Steps : Goto(p, t, s) => pc' \in [Proc -> [Task -> Steps]]
           /\ \A r \in Row : Work(p, t, r) => mem' \in [Proc -> [Task -> Row]]
           /\ \A r \in Row : SaveTask(t, r) => row' \in [Task -> Row]
           /\ \A f \in {"none", "try", "catch"} :
                 Frame(p, t, f) => frame' \in [Proc -> [Task -> {"none", "try", "catch"}]]
           /\ Hold(p, t) \/ Await(p) => busy' \in [Proc -> Task \cup {NoTask}]
           /\ \A kind \in Receipts :
                 AddReceipt(t, kind) => receipts' \in [Task -> SUBSET Receipts]
           /\ \A earned \in BOOLEAN :
                 CommitIdempotency(t, earned) => commits' \in [Key -> Task \cup {NoTask}]
<1>1. \A s \in Steps : Goto(p, t, s) => pc' \in [Proc -> [Task -> Steps]]
    BY DEF TypeOK, Goto
<1>2. \A r \in Row : Work(p, t, r) => mem' \in [Proc -> [Task -> Row]]
    BY DEF TypeOK, Work
<1>3. \A r \in Row : SaveTask(t, r) => row' \in [Task -> Row]
    BY DEF TypeOK, SaveTask
<1>4. \A f \in {"none", "try", "catch"} :
          Frame(p, t, f) => frame' \in [Proc -> [Task -> {"none", "try", "catch"}]]
    BY DEF TypeOK, Frame
<1>5. Hold(p, t) \/ Await(p) => busy' \in [Proc -> Task \cup {NoTask}]
  <2>1. busy \in [Proc -> Task \cup {NoTask}]
    BY DEF TypeOK
  <2>2. Hold(p, t) => busy' \in [Proc -> Task \cup {NoTask}]
    BY <2>1 DEF Hold
  <2>3. Await(p) => busy' \in [Proc -> Task \cup {NoTask}]
    BY <2>1 DEF Await
  <2> QED
    BY <2>2, <2>3
<1>6. \A kind \in Receipts : AddReceipt(t, kind) => receipts' \in [Task -> SUBSET Receipts]
    BY DEF TypeOK, AddReceipt
<1>7. \A earned \in BOOLEAN :
          CommitIdempotency(t, earned) => commits' \in [Key -> Task \cup {NoTask}]
    BY DEF TypeOK, CommitIdempotency
<1> QED
    BY <1>1, <1>2, <1>3, <1>4, <1>5, <1>6, <1>7

\* So do the compound helpers: leaving a call, registering and releasing its signals.
LEMMA CompoundSetters ==
    ASSUME TypeOK, NEW p \in Proc, NEW t \in Task
    PROVE  /\ Leave(p, t) =>
                 /\ pc' \in [Proc -> [Task -> Steps]]
                 /\ mem' \in [Proc -> [Task -> Row]]
                 /\ frame' \in [Proc -> [Task -> {"none", "try", "catch"}]]
                 /\ busy' \in [Proc -> Task \cup {NoTask}]
           /\ Register(p, t) \/ Release(p, t) \/ UNCHANGED signals =>
                 /\ active' \in [Proc -> SUBSET Task]
                 /\ aborted' \in [Proc -> SUBSET Task]
                 /\ expired' \in [Proc -> SUBSET Task]
<1>1. Leave(p, t) =>
          /\ pc' \in [Proc -> [Task -> Steps]]
          /\ mem' \in [Proc -> [Task -> Row]]
          /\ frame' \in [Proc -> [Task -> {"none", "try", "catch"}]]
          /\ busy' \in [Proc -> Task \cup {NoTask}]
    BY Setters, NoRowType DEF Leave, Steps
<1>2. Register(p, t) \/ Release(p, t) \/ UNCHANGED signals =>
          /\ active' \in [Proc -> SUBSET Task]
          /\ aborted' \in [Proc -> SUBSET Task]
          /\ expired' \in [Proc -> SUBSET Task]
  <2>1. /\ active \in [Proc -> SUBSET Task] /\ aborted \in [Proc -> SUBSET Task]
        /\ expired \in [Proc -> SUBSET Task]
    BY DEF TypeOK
  <2>2. CASE Register(p, t)
    BY <2>1, <2>2 DEF Register
  <2>3. CASE Release(p, t)
    BY <2>1, <2>3 DEF Release
  <2>4. CASE UNCHANGED signals
    BY <2>1, <2>4 DEF signals
  <2> QED
    BY <2>2, <2>3, <2>4
<1> QED
    BY <1>1, <1>2

\* The breaker counts and clears within its type.
LEMMA BreakerType ==
    ASSUME TypeOK, NEW p \in Proc, NEW t \in Task,
           \/ RecordFailure(p, TargetOf(t))
           \/ RecordSuccess(p, TargetOf(t))
           \/ UNCHANGED breaker
    PROVE  /\ failures' \in [Proc -> [Target -> 0..Threshold]]
           /\ cooling' \in [Proc -> SUBSET Target]
<1>1. TargetOf(t) \in Target /\ Threshold \in Nat
    BY ConstantsAssumption DEF TypeOK, TargetOf
<1> DEFINE g == TargetOf(t)
<1>2. failures[p][g] \in 0..Threshold
    BY <1>1 DEF TypeOK
<1>3. 0 \in 0..Threshold /\ (failures[p][g] < Threshold => failures[p][g] + 1 \in 0..Threshold)
    BY <1>1, <1>2
<1> HIDE DEF g
<1>0. /\ failures \in [Proc -> [Target -> 0..Threshold]]
      /\ cooling \in [Proc -> SUBSET Target]
      /\ g \in Target
    BY <1>1 DEF TypeOK, g
<1>4. CASE RecordFailure(p, g)
  <2> DEFINE v == IF failures[p][g] < Threshold THEN failures[p][g] + 1 ELSE failures[p][g]
  <2>1. v \in 0..Threshold
    BY <1>2, <1>3
  <2>2. CASE Threshold = 0
    BY <1>0, <1>4, <2>2 DEF RecordFailure, breaker
  <2>3. CASE Threshold # 0
    <3>1. failures' = [failures EXCEPT ![p] = [failures[p] EXCEPT ![g] = v]]
      BY <1>4, <2>3 DEF RecordFailure
    <3>2. cooling' = [cooling EXCEPT ![p] = cooling[p] \cup {g}]
      BY <1>4, <2>3 DEF RecordFailure
    <3> HIDE DEF v
    <3> QED
      BY <1>0, <2>1, <3>1, <3>2
  <2> QED
    BY <2>2, <2>3
<1>5. CASE RecordSuccess(p, g)
    BY <1>0, <1>3, <1>5 DEF RecordSuccess
<1>6. CASE UNCHANGED breaker
    BY <1>6 DEF TypeOK, breaker
<1> QED
    BY <1>4, <1>5, <1>6 DEF g

\* Entering the catch block, and calling the adapter.
LEMMA CatchType ==
    ASSUME TypeOK, NEW p \in Proc, NEW t \in Task, Catch(p, t)
    PROVE  /\ pc' \in [Proc -> [Task -> Steps]]
           /\ mem' \in [Proc -> [Task -> Row]]
           /\ frame' \in [Proc -> [Task -> {"none", "try", "catch"}]]
           /\ busy' \in [Proc -> Task \cup {NoTask}]
           /\ Blame(p, t) \/ UNCHANGED breaker =>
                 /\ failures' \in [Proc -> [Target -> 0..Threshold]]
                 /\ cooling' \in [Proc -> SUBSET Target]
<1>1. PICK s \in Final : Work(p, t, [mem[p][t] EXCEPT !.status = s, !.error = "error"])
    BY DEF Catch, Final
<1>2. [mem[p][t] EXCEPT !.status = s, !.error = "error"] \in Row
  <2>1. mem[p][t] \in Row
    BY DEF TypeOK
  <2> QED
    BY <2>1, RowFields DEF Status, Errors
<1>3. Goto(p, t, "receipt") /\ Frame(p, t, "catch") /\ Hold(p, t)
    BY DEF Catch
<1>4. Blame(p, t) \/ UNCHANGED breaker =>
          /\ failures' \in [Proc -> [Target -> 0..Threshold]]
          /\ cooling' \in [Proc -> SUBSET Target]
    BY BreakerType DEF Blame
<1> QED
    BY <1>1, <1>2, <1>3, <1>4, Setters DEF Steps

LEMMA LaunchType ==
    ASSUME TypeOK, NEW p \in Proc, NEW t \in Task, NEW n \in Nat, Launch(p, t, n)
    PROVE  /\ pc' \in [Proc -> [Task -> Steps]]
           /\ mem' \in [Proc -> [Task -> Row]]
           /\ busy' \in [Proc -> Task \cup {NoTask}]
           /\ row' \in [Task -> Row]
           /\ launches' \in [Task -> Nat]
<1>1. [mem[p][t] EXCEPT !.attempts = n] \in Row
  <2>1. mem[p][t] \in Row
    BY DEF TypeOK
  <2> QED
    BY <2>1, RowFields
<1>2. /\ Work(p, t, [mem[p][t] EXCEPT !.attempts = n])
      /\ SaveTask(t, [mem[p][t] EXCEPT !.attempts = n])
      /\ Goto(p, t, "adapter") /\ Await(p)
      /\ launches' = [launches EXCEPT ![t] = @ + 1]
    BY DEF Launch
<1>3. launches' \in [Task -> Nat]
    BY <1>2 DEF TypeOK
<1> QED
    BY <1>1, <1>2, <1>3, Setters DEF Steps

\* Every step of the specification keeps the type invariant.
LEMMA TypeStep ==
    TypeOK /\ [Next]_vars => TypeOK'
<1> SUFFICES ASSUME TypeOK, [Next]_vars PROVE TypeOK'
    OBVIOUS
<1> USE DEF base, durable, records, locals, signals, breaker, history
<1>m. \A p \in Proc, t \in Task : mem[p][t] \in Row /\ row[t] \in Row
    BY DEF TypeOK
<1>1. ASSUME NEW p \in Proc, NEW t \in Task, PlanPayload(p, t) PROVE TypeOK'
    BY <1>1, <1>m, CompoundSetters DEF TypeOK, PlanPayload
<1>2. ASSUME NEW p \in Proc, NEW t \in Task, Execute(p, t) PROVE TypeOK'
    BY <1>2, <1>m, Setters DEF TypeOK, Execute, Steps
<1>3. ASSUME NEW p \in Proc, NEW t \in Task, KeyIsFree(p, t) PROVE TypeOK'
    BY <1>3, <1>m, Setters DEF TypeOK, KeyIsFree, Steps
<1>4. ASSUME NEW p \in Proc, NEW t \in Task, Refuse(p, t) PROVE TypeOK'
    BY <1>4, <1>m, CompoundSetters DEF TypeOK, Refuse
<1>5. ASSUME NEW p \in Proc, NEW t \in Task, SaveReceipt(p, t) PROVE TypeOK'
    BY <1>5, <1>m, Setters DEF TypeOK, SaveReceipt, Receipts, Steps
<1>6. ASSUME NEW p \in Proc, NEW t \in Task, Settle(p, t) PROVE TypeOK'
    BY <1>6, <1>m, Setters DEF TypeOK, Settle, Steps
<1>7. ASSUME NEW p \in Proc, NEW t \in Task, Certify(p, t) PROVE TypeOK'
    BY <1>7, <1>m, Setters DEF TypeOK, Certify, Certified, CertificateResult, Results, Steps
<1>8. ASSUME NEW p \in Proc, NEW t \in Task, Seal(p, t) PROVE TypeOK'
    BY <1>8, <1>m, Setters, CompoundSetters DEF TypeOK, Seal
<1>9. ASSUME NEW p \in Proc, NEW t \in Task, BudgetExpires(p, t) PROVE TypeOK'
    BY <1>9, <1>m DEF TypeOK, BudgetExpires
<1>10. ASSUME NEW p \in Proc, NEW t \in Task, CancelActive(p, t) PROVE TypeOK'
    BY <1>10, <1>m DEF TypeOK, CancelActive
<1>11. ASSUME NEW p \in Proc, NEW t \in Task, CancelWrite(p, t) PROVE TypeOK'
    BY <1>11, <1>m, Setters, CompoundSetters DEF TypeOK, CancelWrite
<1>12. ASSUME NEW p \in Proc, NEW t \in Task, WriteFailsUnguarded(p, t) PROVE TypeOK'
    BY <1>12, <1>m, CompoundSetters DEF TypeOK, WriteFailsUnguarded
<1>13. ASSUME NEW p \in Proc, NEW t \in Task, RecoveryReceipt(p, t) PROVE TypeOK'
    BY <1>13, <1>m, Setters DEF TypeOK, RecoveryReceipt, Receipts, Steps
<1>14. ASSUME NEW p \in Proc, NEW t \in Task, PreventDuplicate(p, t) PROVE TypeOK'
  <2> DEFINE r == [mem[p][t] EXCEPT !.status = "cancelled", !.error = "duplicate"]
  <2>1. r \in Row
    BY <1>m, RowFields DEF Status, Executable, InFlight, Final, Errors
  <2>2. Work(p, t, r) /\ SaveTask(t, r)
    BY <1>14 DEF PreventDuplicate
  <2> HIDE DEF r
  <2> QED
    BY <1>14, <2>1, <2>2, Setters DEF TypeOK, PreventDuplicate, Steps
<1>15. ASSUME NEW p \in Proc, NEW t \in Task, Block(p, t) PROVE TypeOK'
  <2> DEFINE r == [mem[p][t] EXCEPT !.status = "policy_blocked"]
  <2>1. r \in Row
    BY <1>m, RowFields DEF Status, Executable, InFlight, Final, Errors
  <2>2. Work(p, t, r) /\ SaveTask(t, r)
    BY <1>15 DEF Block
  <2> HIDE DEF r
  <2> QED
    BY <1>15, <2>1, <2>2, Setters DEF TypeOK, Block, Steps
<1>16. ASSUME NEW p \in Proc, NEW t \in Task, Admit(p, t) PROVE TypeOK'
  <2> DEFINE r == [mem[p][t] EXCEPT !.status = "running"]
  <2>1. r \in Row
    BY <1>m, RowFields DEF Status, Executable, InFlight, Final, Errors
  <2>2. Work(p, t, r) /\ SaveTask(t, r)
    BY <1>16 DEF Admit
  <2> HIDE DEF r
  <2> QED
    BY <1>16, <2>1, <2>2, Setters, CompoundSetters DEF TypeOK, Admit, Steps
<1>17. ASSUME NEW p \in Proc, NEW t \in Task, CancelPlanned(p, t) PROVE TypeOK'
  <2> DEFINE r == [row[t] EXCEPT !.status = "cancelled"]
  <2>1. r \in Row
    BY <1>m, RowFields DEF Status, Executable, InFlight, Final, Errors
  <2>2. Work(p, t, r)
    BY <1>17 DEF CancelPlanned
  <2> HIDE DEF r
  <2> QED
    BY <1>17, <2>1, <2>2, Setters DEF TypeOK, CancelPlanned, Steps
<1>18. ASSUME NEW p \in Proc, NEW t \in Task, Reobserve(p, t) PROVE TypeOK'
  <2> DEFINE r == [mem[p][t] EXCEPT !.status = "verified_success", !.error = "none"]
  <2>1. r \in Row
    BY <1>m, RowFields DEF Status, Executable, InFlight, Final, Errors
  <2>2. Work(p, t, r)
    BY <1>18 DEF Reobserve
  <2> HIDE DEF r
  <2> QED
    BY <1>18, <2>1, <2>2, Setters DEF TypeOK, Reobserve, Steps
<1>19. ASSUME NEW p \in Proc, NEW t \in Task, Plan(p, t) PROVE TypeOK'
  <2>1. OutcomeOf(p, t) \in Outcomes
    BY ConstantsAssumption DEF TypeOK, OutcomeOf, EffectOf
  <2>2. PICK s \in Executable \cup {"policy_blocked"} :
            /\ SaveTask(t, [NoRow EXCEPT !.status = s,
                                         !.challenge = (s = "awaiting_approval")])
            /\ IF s = "policy_blocked" THEN UNCHANGED <<pc, busy>>
                                       ELSE Goto(p, t, "plan") /\ Hold(p, t)
    BY <1>19, <2>1 DEF Plan, Executable, Outcomes
  <2> DEFINE r == [NoRow EXCEPT !.status = s, !.challenge = (s = "awaiting_approval")]
  <2>3. r \in Row
    BY DEF NoRow, Row, Status, Executable, Final, Errors
  <2>4. SaveTask(t, r)
    BY <2>2
  <2> HIDE DEF r
  <2>5. row' \in [Task -> Row]
    BY <2>3, <2>4, Setters
  <2>6. pc' \in [Proc -> [Task -> Steps]] /\ busy' \in [Proc -> Task \cup {NoTask}]
    BY <2>2, Setters DEF TypeOK, Steps
  <2> QED
    BY <1>19, <2>5, <2>6 DEF TypeOK, Plan
<1>20. ASSUME NEW p \in Proc, NEW t \in Task, Start(p, t) PROVE TypeOK'
  <2>1. CASE Catch(p, t) /\ UNCHANGED <<row, breaker, launches>>
    BY <1>20, <2>1, CatchType DEF TypeOK, Start
  <2>2. CASE Launch(p, t, 1) /\ UNCHANGED <<frame, breaker>>
    BY <1>20, <2>2, LaunchType DEF TypeOK, Start
  <2> QED
    BY <1>20, <2>1, <2>2 DEF Start
<1>21. ASSUME NEW p \in Proc, NEW t \in Task, AdapterThrows(p, t) PROVE TypeOK'
  <2>1. CASE Catch(p, t) /\ Blame(p, t) /\ UNCHANGED <<row, launches>>
    BY <1>21, <2>1, CatchType DEF TypeOK, AdapterThrows
  <2>2. CASE Launch(p, t, mem[p][t].attempts + 1) /\ UNCHANGED <<frame, breaker>>
    <3>1. mem[p][t].attempts + 1 \in Nat
      BY <1>m DEF Row
    <3> QED
      BY <1>21, <2>2, <3>1, LaunchType DEF TypeOK, AdapterThrows
  <2> QED
    BY <1>21, <2>1, <2>2 DEF AdapterThrows
<1>22. ASSUME NEW p \in Proc, NEW t \in Task, AdapterAnswers(p, t) PROVE TypeOK'
  <2>1. PICK o \in {"success", "failure"} :
            LET r == [mem[p][t] EXCEPT !.status = "verifying", !.result = o]
            IN Work(p, t, r) /\ SaveTask(t, r)
    BY <1>22 DEF AdapterAnswers
  <2> DEFINE r == [mem[p][t] EXCEPT !.status = "verifying", !.result = o]
  <2>2. r \in Row
    BY <1>m, RowFields DEF Status, InFlight
  <2>3. Work(p, t, r) /\ SaveTask(t, r)
    BY <2>1
  <2> HIDE DEF r
  <2> QED
    BY <1>22, <2>2, <2>3, Setters DEF TypeOK, AdapterAnswers, Steps
<1>23. ASSUME NEW p \in Proc, NEW t \in Task, VerifierAnswers(p, t) PROVE TypeOK'
  <2>1. PICK s \in Final, e \in Errors, b \in BOOLEAN :
            /\ Work(p, t, [mem[p][t] EXCEPT !.status = s, !.error = e])
            /\ CommitIdempotency(t, b)
            /\ RecordSuccess(p, TargetOf(t)) \/ RecordFailure(p, TargetOf(t))
    <3>1. mem[p][t].error \in Errors
      BY <1>m, RowFields DEF Row
    <3> QED
      BY <1>23, <3>1 DEF VerifierAnswers, EarnsCommit, Final, Errors
  <2> DEFINE r == [mem[p][t] EXCEPT !.status = s, !.error = e]
  <2>2. r \in Row
    BY <1>m, RowFields DEF Status
  <2>3. Work(p, t, r)
    BY <2>1
  <2> HIDE DEF r
  <2>4. /\ failures' \in [Proc -> [Target -> 0..Threshold]]
        /\ cooling' \in [Proc -> SUBSET Target]
    BY <2>1, BreakerType
  <2> QED
    BY <1>23, <2>1, <2>2, <2>3, <2>4, Setters DEF TypeOK, VerifierAnswers, Steps
<1>24. ASSUME NEW p \in Proc, NEW t \in Task, WriteFailsInTry(p, t) PROVE TypeOK'
    BY <1>24, CatchType DEF TypeOK, WriteFailsInTry
<1>25. ASSUME NEW p \in Proc, NEW t \in Task, Reclassify(p, t) PROVE TypeOK'
  <2>1. PICK s \in {"planned", "recovery_required"} :
            SaveTask(t, [mem[p][t] EXCEPT !.status = s, !.error = "interrupted"])
    BY <1>25 DEF Reclassify
  <2> DEFINE r == [mem[p][t] EXCEPT !.status = s, !.error = "interrupted"]
  <2>2. r \in Row
    BY <1>m, RowFields DEF Status, Executable, Errors
  <2>3. SaveTask(t, r)
    BY <2>1
  <2> HIDE DEF r
  <2> QED
    BY <1>25, <2>2, <2>3, Setters, CompoundSetters DEF TypeOK, Reclassify
<1>26. ASSUME NEW p \in Proc, NEW g \in Target, CooldownPasses(p, g) PROVE TypeOK'
    BY <1>26 DEF TypeOK, CooldownPasses
<1>27. ASSUME NEW p \in Proc, Crash(p) PROVE TypeOK'
  <2>1. 0 \in 0..Threshold
    BY ConstantsAssumption
  <2> QED
    BY <1>27, <2>1, NoRowType DEF TypeOK, Crash, Steps
<1>28. ASSUME NEW p \in Proc, Boot(p) PROVE TypeOK'
    BY <1>28, NoRowType DEF TypeOK, Boot, Steps
<1>29. ASSUME NEW p \in Proc, Serve(p) PROVE TypeOK'
    BY <1>29 DEF TypeOK, Serve
<1>30. CASE UNCHANGED vars
    BY <1>30 DEF TypeOK, vars
<1> QED
    BY <1>1, <1>2, <1>3, <1>4, <1>5, <1>6, <1>7, <1>8, <1>9, <1>10,
       <1>11, <1>12, <1>13, <1>14, <1>15, <1>16, <1>17, <1>18, <1>19, <1>20,
       <1>21, <1>22, <1>23, <1>24, <1>25, <1>26, <1>27, <1>28, <1>29, <1>30
       DEF Next, TaskStep, Call, Segment, Answer, Fault, Recover

\* Every reachable state is well typed.
THEOREM TypeCorrect == Spec => []TypeOK
<1>1. Init => TypeOK
    BY ConstantsAssumption, NoRowType DEF Init, TypeOK, Steps, Results
<1> QED
    BY <1>1, TypeStep, PTL DEF Spec
-----------------------------------------------------------------------------
(* What a step on one task leaves alone.                                       *)

\* Sealed requests, commits and receipts are never taken back.
Grows ==
    /\ request' = request
    /\ sealed \subseteq sealed'
    /\ \A k \in Key : commits[k] # NoTask => commits'[k] = commits[k]
    /\ \A u \in Task : receipts[u] \subseteq receipts'[u]

\* The calls of p on t, and the rows of t, are the only ones that change.
Elsewhere(p, t) ==
    /\ \A q \in Proc, u \in Task : q # p \/ u # t =>
          pc'[q][u] = pc[q][u] /\ mem'[q][u] = mem[q][u] /\ frame'[q][u] = frame[q][u]
    /\ \A u \in Task : u # t => row'[u] = row[u] /\ cert'[u] = cert[u]

\* What each helper writes, and that it writes nothing else.
LEMMA SetterEffects ==
    ASSUME TypeOK, NEW p \in Proc, NEW t \in Task
    PROVE  /\ \A s : Goto(p, t, s) =>
                 /\ pc'[p][t] = s
                 /\ \A q \in Proc, u \in Task : q # p \/ u # t => pc'[q][u] = pc[q][u]
           /\ \A r : Work(p, t, r) =>
                 /\ mem'[p][t] = r
                 /\ \A q \in Proc, u \in Task : q # p \/ u # t => mem'[q][u] = mem[q][u]
           /\ \A f : Frame(p, t, f) =>
                 /\ frame'[p][t] = f
                 /\ \A q \in Proc, u \in Task : q # p \/ u # t => frame'[q][u] = frame[q][u]
           /\ \A r : SaveTask(t, r) =>
                 row'[t] = r /\ \A u \in Task : u # t => row'[u] = row[u]
<1>1. \A s : Goto(p, t, s) =>
          /\ pc'[p][t] = s
          /\ \A q \in Proc, u \in Task : q # p \/ u # t => pc'[q][u] = pc[q][u]
    BY DEF TypeOK, Goto
<1>2. \A r : Work(p, t, r) =>
          /\ mem'[p][t] = r
          /\ \A q \in Proc, u \in Task : q # p \/ u # t => mem'[q][u] = mem[q][u]
    BY DEF TypeOK, Work
<1>3. \A f : Frame(p, t, f) =>
          /\ frame'[p][t] = f
          /\ \A q \in Proc, u \in Task : q # p \/ u # t => frame'[q][u] = frame[q][u]
    BY DEF TypeOK, Frame
<1>4. \A r : SaveTask(t, r) =>
          row'[t] = r /\ \A u \in Task : u # t => row'[u] = row[u]
    BY DEF TypeOK, SaveTask
<1> QED
    BY <1>1, <1>2, <1>3, <1>4

LEMMA LeaveEffect ==
    ASSUME TypeOK, NEW p \in Proc, NEW t \in Task, Leave(p, t)
    PROVE  /\ pc'[p][t] = "idle" /\ mem'[p][t] = NoRow /\ frame'[p][t] = "none"
           /\ \A q \in Proc, u \in Task : q # p \/ u # t =>
                 /\ pc'[q][u] = pc[q][u] /\ mem'[q][u] = mem[q][u]
                 /\ frame'[q][u] = frame[q][u]
    BY SetterEffects DEF Leave

LEMMA CatchEffect ==
    ASSUME TypeOK, NEW p \in Proc, NEW t \in Task, Catch(p, t)
    PROVE  /\ pc'[p][t] = "receipt" /\ frame'[p][t] = "catch"
           /\ mem'[p][t].status \in {"failed", "cancelled", "budget_exhausted"}
           /\ mem'[p][t].error = "error"
           /\ \A q \in Proc, u \in Task : q # p \/ u # t =>
                 /\ pc'[q][u] = pc[q][u] /\ mem'[q][u] = mem[q][u]
                 /\ frame'[q][u] = frame[q][u]
<1>1. PICK s \in {"failed", "cancelled", "budget_exhausted"} :
          Work(p, t, [mem[p][t] EXCEPT !.status = s, !.error = "error"])
    BY DEF Catch
<1>2. mem[p][t] \in Row
    BY DEF TypeOK
<1>3. /\ [mem[p][t] EXCEPT !.status = s, !.error = "error"].status = s
      /\ [mem[p][t] EXCEPT !.status = s, !.error = "error"].error = "error"
    BY <1>2 DEF Row
<1> DEFINE r == [mem[p][t] EXCEPT !.status = s, !.error = "error"]
<1>4. Work(p, t, r) /\ r.status = s /\ r.error = "error"
    BY <1>1, <1>3
<1>5. Goto(p, t, "receipt") /\ Frame(p, t, "catch")
    BY DEF Catch
<1> HIDE DEF r
<1>6. mem'[p][t] = r
    BY <1>4, SetterEffects
<1>7. \A q \in Proc, u \in Task : q # p \/ u # t => mem'[q][u] = mem[q][u]
    BY <1>4, SetterEffects
<1> QED
    BY <1>4, <1>5, <1>6, <1>7, SetterEffects

LEMMA LaunchEffect ==
    ASSUME TypeOK, NEW p \in Proc, NEW t \in Task, NEW n \in Nat, Launch(p, t, n)
    PROVE  /\ pc'[p][t] = "adapter" /\ row'[t] = mem'[p][t]
           /\ mem'[p][t] = [mem[p][t] EXCEPT !.attempts = n]
           /\ mem'[p][t].status = mem[p][t].status /\ mem'[p][t].error = mem[p][t].error
           /\ mem'[p][t].attempts = n
           /\ \A q \in Proc, u \in Task : q # p \/ u # t =>
                 pc'[q][u] = pc[q][u] /\ mem'[q][u] = mem[q][u]
           /\ \A u \in Task : u # t => row'[u] = row[u]
           /\ launches'[t] = launches[t] + 1
           /\ \A u \in Task : u # t => launches'[u] = launches[u]
<1>1. mem[p][t] \in Row /\ launches \in [Task -> Nat]
    BY DEF TypeOK
<1>2. /\ [mem[p][t] EXCEPT !.attempts = n].status = mem[p][t].status
      /\ [mem[p][t] EXCEPT !.attempts = n].error = mem[p][t].error
      /\ [mem[p][t] EXCEPT !.attempts = n].attempts = n
    BY <1>1 DEF Row
<1>3. launches' = [launches EXCEPT ![t] = @ + 1]
    BY DEF Launch
<1>4. /\ Work(p, t, [mem[p][t] EXCEPT !.attempts = n])
      /\ SaveTask(t, [mem[p][t] EXCEPT !.attempts = n])
      /\ Goto(p, t, "adapter")
    BY DEF Launch
<1>5. /\ launches'[t] = launches[t] + 1
      /\ \A u \in Task : u # t => launches'[u] = launches[u]
    BY <1>1, <1>3
<1> DEFINE r == [mem[p][t] EXCEPT !.attempts = n]
<1>6. Work(p, t, r) /\ SaveTask(t, r)
    BY <1>4
<1> HIDE DEF r
<1>7. /\ mem'[p][t] = r /\ row'[t] = r
      /\ \A q \in Proc, u \in Task : q # p \/ u # t => mem'[q][u] = mem[q][u]
      /\ \A u \in Task : u # t => row'[u] = row[u]
    BY <1>6, SetterEffects
<1>8. /\ pc'[p][t] = "adapter"
      /\ \A q \in Proc, u \in Task : q # p \/ u # t => pc'[q][u] = pc[q][u]
    BY <1>4, SetterEffects
<1> QED
    BY <1>2, <1>5, <1>7, <1>8 DEF r

\* Of that, what a record keeps.
LEMMA LaunchKeeps ==
    ASSUME TypeOK, NEW p \in Proc, NEW t \in Task, NEW n \in Nat, Launch(p, t, n)
    PROVE  /\ pc'[p][t] = "adapter" /\ row'[t] = mem'[p][t]
           /\ mem'[p][t].status = mem[p][t].status /\ mem'[p][t].error = mem[p][t].error
<1> DEFINE r == [mem[p][t] EXCEPT !.attempts = n]
<1>1. Work(p, t, r) /\ SaveTask(t, r) /\ Goto(p, t, "adapter")
    BY DEF Launch
<1>2. mem[p][t] \in Row
    BY DEF TypeOK
<1>3. r.status = mem[p][t].status /\ r.error = mem[p][t].error
    BY <1>2 DEF Row
<1> HIDE DEF r
<1>4. mem'[p][t] = r /\ row'[t] = r /\ pc'[p][t] = "adapter"
    BY <1>1, SetterEffects
<1> QED
    BY <1>3, <1>4

LEMMA CommitGrows ==
    ASSUME TypeOK, NEW t \in Task, NEW b, CommitIdempotency(t, b)
    PROVE  /\ \A k \in Key : commits[k] # NoTask => commits'[k] = commits[k]
           /\ b = TRUE /\ KeyOf(t) # NoKey => commits'[KeyOf(t)] # NoTask
           /\ b = TRUE /\ KeyOf(t) # NoKey /\ ~Committed(t) => commits'[KeyOf(t)] = t
<1>1. /\ commits \in [Key -> Task \cup {NoTask}]
      /\ KeyOf(t) # NoKey => KeyOf(t) \in Key
      /\ t # NoTask
    BY ConstantsAssumption DEF TypeOK, KeyOf
<1> QED
    BY <1>1 DEF CommitIdempotency, Committed

LEMMA Locality ==
    ASSUME TypeOK, NEW p \in Proc, NEW t \in Task, TaskStep(p, t)
    PROVE  Grows /\ Elsewhere(p, t)
<1> USE DEF base, durable, records, locals, signals, breaker, history, Grows, Elsewhere
<1>0. receipts \in [Task -> SUBSET Receipts] /\ cert \in [Task -> Results]
    BY DEF TypeOK
<1>1. Plan(p, t) => Grows /\ Elsewhere(p, t)
    BY SetterEffects DEF Plan
<1>2. PlanPayload(p, t) => Grows /\ Elsewhere(p, t)
    BY LeaveEffect DEF PlanPayload
<1>3. Execute(p, t) => Grows /\ Elsewhere(p, t)
    BY SetterEffects DEF Execute
<1>4. PreventDuplicate(p, t) => Grows /\ Elsewhere(p, t)
    BY SetterEffects DEF PreventDuplicate
<1>5. KeyIsFree(p, t) => Grows /\ Elsewhere(p, t)
    BY SetterEffects DEF KeyIsFree
<1>6. Block(p, t) => Grows /\ Elsewhere(p, t)
    BY SetterEffects DEF Block
<1>7. Admit(p, t) => Grows /\ Elsewhere(p, t)
    BY SetterEffects DEF Admit
<1>8. AdapterAnswers(p, t) => Grows /\ Elsewhere(p, t)
    BY SetterEffects DEF AdapterAnswers
<1>9. Settle(p, t) => Grows /\ Elsewhere(p, t)
    BY SetterEffects DEF Settle
<1>10. CancelPlanned(p, t) => Grows /\ Elsewhere(p, t)
    BY SetterEffects DEF CancelPlanned
<1>11. Refuse(p, t) => Grows /\ Elsewhere(p, t)
    BY LeaveEffect DEF Refuse
<1>12. WriteFailsUnguarded(p, t) => Grows /\ Elsewhere(p, t)
    BY LeaveEffect DEF WriteFailsUnguarded
<1>13. CancelActive(p, t) => Grows /\ Elsewhere(p, t)
    BY DEF CancelActive
<1>14. BudgetExpires(p, t) => Grows /\ Elsewhere(p, t)
    BY DEF BudgetExpires
<1>15. CancelWrite(p, t) => Grows /\ Elsewhere(p, t)
    BY LeaveEffect, SetterEffects DEF CancelWrite
<1>16. Seal(p, t) => Grows /\ Elsewhere(p, t)
    BY LeaveEffect, SetterEffects DEF Seal
<1>17. Reclassify(p, t) => Grows /\ Elsewhere(p, t)
    BY LeaveEffect, SetterEffects DEF Reclassify
<1>18. SaveReceipt(p, t) => Grows /\ Elsewhere(p, t)
    BY <1>0, SetterEffects DEF SaveReceipt, AddReceipt
<1>19. RecoveryReceipt(p, t) => Grows /\ Elsewhere(p, t)
    BY <1>0, SetterEffects DEF RecoveryReceipt, AddReceipt
<1>20. Certify(p, t) => Grows /\ Elsewhere(p, t)
    BY <1>0, SetterEffects DEF Certify
<1>21. ASSUME Reobserve(p, t) PROVE Grows /\ Elsewhere(p, t)
  <2>1. CommitIdempotency(t, TRUE)
    BY <1>21 DEF Reobserve
  <2>2. PICK r : Work(p, t, r)
    BY <1>21 DEF Reobserve
  <2>3. \A k \in Key : commits[k] # NoTask => commits'[k] = commits[k]
    BY <2>1, CommitGrows
  <2>4. \A q \in Proc, u \in Task : q # p \/ u # t => mem'[q][u] = mem[q][u]
    BY <2>2, SetterEffects
  <2>5. \A q \in Proc, u \in Task : q # p \/ u # t => pc'[q][u] = pc[q][u]
    BY <1>21, SetterEffects DEF Reobserve
  <2> QED
    BY <1>21, <2>3, <2>4, <2>5 DEF Reobserve
<1>22. ASSUME VerifierAnswers(p, t) PROVE Grows /\ Elsewhere(p, t)
  <2>1. PICK b, r : CommitIdempotency(t, b) /\ Work(p, t, r)
    BY <1>22 DEF VerifierAnswers
  <2>2. Work(p, t, r)
    BY <2>1
  <2>3. \A k \in Key : commits[k] # NoTask => commits'[k] = commits[k]
    BY <2>1, CommitGrows
  <2>4. \A q \in Proc, u \in Task : q # p \/ u # t => mem'[q][u] = mem[q][u]
    BY <2>2, SetterEffects
  <2>5. \A q \in Proc, u \in Task : q # p \/ u # t => pc'[q][u] = pc[q][u]
    BY <1>22, SetterEffects DEF VerifierAnswers
  <2> QED
    BY <1>22, <2>3, <2>4, <2>5 DEF VerifierAnswers
<1>23. ASSUME Start(p, t) PROVE Grows /\ Elsewhere(p, t)
  <2>1. CASE Catch(p, t) /\ UNCHANGED <<row, breaker, launches>>
    <3>1. \A q \in Proc, u \in Task : q # p \/ u # t =>
              /\ pc'[q][u] = pc[q][u] /\ mem'[q][u] = mem[q][u]
              /\ frame'[q][u] = frame[q][u]
      BY <2>1, CatchEffect
    <3> QED
      BY <1>23, <2>1, <3>1 DEF Start
  <2>2. CASE Launch(p, t, 1) /\ UNCHANGED <<frame, breaker>>
    <3>1. 1 \in Nat
      BY DEF TypeOK, Row
    <3>2. /\ \A q \in Proc, u \in Task : q # p \/ u # t =>
                pc'[q][u] = pc[q][u] /\ mem'[q][u] = mem[q][u]
          /\ \A u \in Task : u # t => row'[u] = row[u]
      BY <2>2, <3>1, LaunchEffect
    <3> QED
      BY <1>23, <2>2, <3>2 DEF Start
  <2> QED
    BY <1>23, <2>1, <2>2 DEF Start
<1>24. ASSUME AdapterThrows(p, t) PROVE Grows /\ Elsewhere(p, t)
  <2>1. CASE Catch(p, t) /\ Blame(p, t) /\ UNCHANGED <<row, launches>>
    <3>1. \A q \in Proc, u \in Task : q # p \/ u # t =>
              /\ pc'[q][u] = pc[q][u] /\ mem'[q][u] = mem[q][u]
              /\ frame'[q][u] = frame[q][u]
      BY <2>1, CatchEffect
    <3> QED
      BY <1>24, <2>1, <3>1 DEF AdapterThrows
  <2>2. CASE Launch(p, t, mem[p][t].attempts + 1) /\ UNCHANGED <<frame, breaker>>
    <3>1. mem[p][t].attempts + 1 \in Nat
      BY DEF TypeOK, Row
    <3>2. /\ \A q \in Proc, u \in Task : q # p \/ u # t =>
                pc'[q][u] = pc[q][u] /\ mem'[q][u] = mem[q][u]
          /\ \A u \in Task : u # t => row'[u] = row[u]
      BY <2>2, <3>1, LaunchEffect
    <3> QED
      BY <1>24, <2>2, <3>2 DEF AdapterThrows
  <2> QED
    BY <1>24, <2>1, <2>2 DEF AdapterThrows
<1>25. WriteFailsInTry(p, t) => Grows /\ Elsewhere(p, t)
    BY CatchEffect DEF WriteFailsInTry
<1> QED
    BY <1>1, <1>2, <1>3, <1>4, <1>5, <1>6, <1>7, <1>8, <1>9, <1>10,
       <1>11, <1>12, <1>13, <1>14, <1>15, <1>16, <1>17, <1>18, <1>19, <1>20,
       <1>21, <1>22, <1>23, <1>24, <1>25
       DEF TaskStep, Call, Segment, Answer, Fault, Recover
-----------------------------------------------------------------------------
(* The safety of the store: what a row may say, and what a call in progress    *)
(* must already have written before it says it.                                *)

Proven(t) == receipts[t] \cap {"success", "reobserved"} # {}
Credited(t) ==
    KeyOf(t) = NoKey \/ commits[KeyOf(t)] = t \/ (Committed(t) /\ "reobserved" \in receipts[t])

\* Of a task object, stored or in memory.
RecordSound(t, r) ==
    /\ r.error = "duplicate" => Committed(t)
    /\ r.status \in InFlight => t \in sealed

StoredSound(t) ==
    /\ RecordSound(t, row[t])
    /\ row[t].status = "verified_success" \/ cert[t] = "VERIFIED_SUCCESS" =>
          Credited(t) /\ Proven(t)

\* Of the call of p on t: a verified outcome in memory is credited before the
\* receipt is due, and has its receipt before the row or the certificate is.
CallSound(p, t) ==
    /\ RecordSound(t, mem[p][t])
    /\ pc[p][t] \in {"start", "adapter", "verify"} => t \in sealed /\ frame[p][t] = "try"
    /\ mem[p][t].status = "verified_success" =>
          \/ pc[p][t] = "recReceipt" /\ (KeyOf(t) = NoKey \/ Committed(t))
          \/ /\ pc[p][t] = "receipt" /\ Credited(t)
             /\ frame[p][t] = "try" /\ mem[p][t].result = "success"
          \/ pc[p][t] \in {"settle", "certify", "seal"} /\ Credited(t) /\ Proven(t)

StoreInv ==
    /\ \A t \in Task : StoredSound(t)
    /\ \A p \in Proc, t \in Task : CallSound(p, t)

\* What is sound stays sound while the store grows and the call stands still.
LEMMA Carried ==
    ASSUME TypeOK, Grows, NEW t \in Task
    PROVE  /\ \A r : RecordSound(t, r) => RecordSound(t, r)'
           /\ Credited(t) => Credited(t)'
           /\ Proven(t) => Proven(t)'
           /\ KeyOf(t)' = KeyOf(t)
           /\ Committed(t) => Committed(t)'
<1>1. KeyOf(t)' = KeyOf(t) /\ (KeyOf(t) # NoKey => KeyOf(t) \in Key)
    BY ConstantsAssumption DEF TypeOK, KeyOf, Grows
<1>2. Committed(t) => Committed(t)'
    BY <1>1 DEF Committed, Grows
<1>3. t # NoTask
    BY ConstantsAssumption
<1>4. Proven(t) => Proven(t)'
    BY DEF Proven, Grows
<1>5. Credited(t) => Credited(t)'
    BY <1>1, <1>2, <1>3 DEF Credited, Grows
<1>6. \A r : RecordSound(t, r) => RecordSound(t, r)'
    BY <1>2 DEF RecordSound, Grows
<1> QED
    BY <1>1, <1>2, <1>4, <1>5, <1>6

LEMMA CarriedCall ==
    ASSUME TypeOK, Grows, NEW q \in Proc, NEW u \in Task, CallSound(q, u),
           pc'[q][u] = pc[q][u], mem'[q][u] = mem[q][u], frame'[q][u] = frame[q][u]
    PROVE  CallSound(q, u)'
<1>1. RecordSound(u, mem[q][u])'
    BY Carried DEF CallSound, RecordSound
<1> QED
    BY Carried, <1>1 DEF CallSound, Grows

LEMMA CarriedRow ==
    ASSUME TypeOK, Grows, NEW u \in Task, StoredSound(u),
           row'[u] = row[u], cert'[u] = cert[u]
    PROVE  StoredSound(u)'
    BY Carried DEF StoredSound, RecordSound

\* So a step on one task keeps the invariant if it keeps it for that task.
LEMMA OneTask ==
    ASSUME TypeOK, StoreInv, NEW p \in Proc, NEW t \in Task, TaskStep(p, t),
           StoredSound(t)', CallSound(p, t)'
    PROVE  StoreInv'
<1>1. Grows /\ Elsewhere(p, t)
    BY Locality
<1>2. \A u \in Task : StoredSound(u)'
  <2> TAKE u \in Task
  <2>1. CASE u = t
    BY <2>1
  <2>2. CASE u # t
    BY <1>1, <2>2, CarriedRow DEF StoreInv, Elsewhere
  <2> QED
    BY <2>1, <2>2
<1>3. \A q \in Proc, u \in Task : CallSound(q, u)'
  <2> TAKE q \in Proc, u \in Task
  <2>1. CASE q = p /\ u = t
    BY <2>1
  <2>2. CASE q # p \/ u # t
    BY <1>1, <2>2, CarriedCall DEF StoreInv, Elsewhere
  <2> QED
    BY <2>1, <2>2
<1> QED
    BY <1>2, <1>3 DEF StoreInv

LEMMA StoreStep ==
    ASSUME TypeOK, StoreInv, NEW p \in Proc, NEW t \in Task, TaskStep(p, t)
    PROVE  StoreInv'
<1> USE DEF base, durable, records, locals, signals, breaker, history
<1>g. Grows
    BY Locality
<1>s. StoredSound(t) /\ CallSound(p, t) /\ mem[p][t] \in Row /\ row[t] \in Row
    BY DEF StoreInv, TypeOK
<1>c. /\ \A r : RecordSound(t, r) => RecordSound(t, r)'
      /\ Credited(t) => Credited(t)'
      /\ Proven(t) => Proven(t)'
      /\ KeyOf(t)' = KeyOf(t) /\ (Committed(t) => Committed(t)')
    BY <1>g, Carried
<1>n. RecordSound(t, NoRow) /\ NoRow.status # "verified_success"
    BY DEF RecordSound, NoRow, InFlight
<1> SUFFICES StoredSound(t)' /\ CallSound(p, t)'
    BY OneTask
<1>1. ASSUME PlanPayload(p, t) PROVE StoredSound(t)' /\ CallSound(p, t)'
  <2>1. StoredSound(t)'
    BY <1>1, <1>s, <1>g, CarriedRow DEF PlanPayload
  <2>2. pc'[p][t] = "idle" /\ mem'[p][t] = NoRow
    BY <1>1, LeaveEffect DEF PlanPayload
  <2>3. CallSound(p, t)'
    BY <1>n, <1>c, <2>2 DEF CallSound, RecordSound
  <2> QED
    BY <2>1, <2>3
<1>2. ASSUME Refuse(p, t) PROVE StoredSound(t)' /\ CallSound(p, t)'
  <2>1. StoredSound(t)'
    BY <1>2, <1>s, <1>g, CarriedRow DEF Refuse
  <2>2. pc'[p][t] = "idle" /\ mem'[p][t] = NoRow
    BY <1>2, LeaveEffect DEF Refuse
  <2>3. CallSound(p, t)'
    BY <1>n, <1>c, <2>2 DEF CallSound, RecordSound
  <2> QED
    BY <2>1, <2>3
<1>3. ASSUME WriteFailsUnguarded(p, t) PROVE StoredSound(t)' /\ CallSound(p, t)'
  <2>1. StoredSound(t)'
    BY <1>3, <1>s, <1>g, CarriedRow DEF WriteFailsUnguarded
  <2>2. pc'[p][t] = "idle" /\ mem'[p][t] = NoRow
    BY <1>3, LeaveEffect DEF WriteFailsUnguarded
  <2>3. CallSound(p, t)'
    BY <1>n, <1>c, <2>2 DEF CallSound, RecordSound
  <2> QED
    BY <2>1, <2>3
<1>4. ASSUME CancelActive(p, t) PROVE StoredSound(t)' /\ CallSound(p, t)'
  <2>1. StoredSound(t)'
    BY <1>4, <1>s, <1>g, CarriedRow DEF CancelActive
  <2>3. CallSound(p, t)'
    BY <1>4, <1>s, <1>g, CarriedCall DEF CancelActive
  <2> QED
    BY <2>1, <2>3
<1>5. ASSUME BudgetExpires(p, t) PROVE StoredSound(t)' /\ CallSound(p, t)'
  <2>1. StoredSound(t)'
    BY <1>5, <1>s, <1>g, CarriedRow DEF BudgetExpires
  <2>3. CallSound(p, t)'
    BY <1>5, <1>s, <1>g, CarriedCall DEF BudgetExpires
  <2> QED
    BY <2>1, <2>3
<1>6. ASSUME KeyIsFree(p, t) PROVE StoredSound(t)' /\ CallSound(p, t)'
  <2>1. StoredSound(t)'
    BY <1>6, <1>s, <1>g, CarriedRow DEF KeyIsFree
  <2>2. /\ pc[p][t] = "keyCheck" /\ pc'[p][t] = "admit"
        /\ mem'[p][t] = mem[p][t] /\ frame'[p][t] = frame[p][t]
    BY <1>6, SetterEffects DEF KeyIsFree, At
  <2>3. CallSound(p, t)'
    BY <1>s, <1>c, <2>2 DEF CallSound, RecordSound
  <2> QED
    BY <2>1, <2>3
<1>7. ASSUME SaveReceipt(p, t) PROVE StoredSound(t)' /\ CallSound(p, t)'
  <2>1. StoredSound(t)'
    BY <1>7, <1>s, <1>g, CarriedRow DEF SaveReceipt
  <2>2. /\ pc[p][t] = "receipt" /\ pc'[p][t] = "settle"
        /\ mem'[p][t] = mem[p][t] /\ frame'[p][t] = frame[p][t]
    BY <1>7, SetterEffects DEF SaveReceipt, At
  <2>r. mem[p][t].status = "verified_success" => Proven(t)'
    BY <1>7, <1>s, <2>2 DEF SaveReceipt, AddReceipt, Proven, CallSound, TypeOK
  <2>3. CallSound(p, t)'
    BY <1>s, <1>c, <2>2, <2>r DEF CallSound, RecordSound
  <2> QED
    BY <2>1, <2>3
<1>8. ASSUME RecoveryReceipt(p, t) PROVE StoredSound(t)' /\ CallSound(p, t)'
  <2>1. StoredSound(t)'
    BY <1>8, <1>s, <1>g, CarriedRow DEF RecoveryReceipt
  <2>2. /\ pc[p][t] = "recReceipt" /\ pc'[p][t] = "certify"
        /\ mem'[p][t] = mem[p][t] /\ frame'[p][t] = frame[p][t]
    BY <1>8, SetterEffects DEF RecoveryReceipt, At
  <2>r. Proven(t)' /\ ((KeyOf(t) = NoKey \/ Committed(t)) => Credited(t)')
    BY <1>8, <1>c DEF RecoveryReceipt, AddReceipt, Proven, Credited, TypeOK
  <2>3. CallSound(p, t)'
    BY <1>s, <1>c, <2>2, <2>r DEF CallSound, RecordSound
  <2> QED
    BY <2>1, <2>3
<1>9. ASSUME Execute(p, t) PROVE StoredSound(t)' /\ CallSound(p, t)'
  <2>1. StoredSound(t)'
    BY <1>9, <1>s, <1>g, CarriedRow DEF Execute
  <2>2. pc'[p][t] = "keyCheck" /\ mem'[p][t] = row[t]
    BY <1>9, SetterEffects DEF Execute
  <2>3. row[t].status # "verified_success" /\ RecordSound(t, row[t])
    BY <1>9, <1>s DEF Execute, Executable, StoredSound
  <2>4. CallSound(p, t)'
    BY <1>c, <2>2, <2>3 DEF CallSound, RecordSound
  <2> QED
    BY <2>1, <2>4
<1>10. ASSUME CancelPlanned(p, t) PROVE StoredSound(t)' /\ CallSound(p, t)'
  <2>1. StoredSound(t)'
    BY <1>10, <1>s, <1>g, CarriedRow DEF CancelPlanned
  <2> DEFINE r == [row[t] EXCEPT !.status = "cancelled"]
  <2>2. r.status = "cancelled" /\ r.error = row[t].error
    BY <1>s DEF Row
  <2>3. Work(p, t, r) /\ pc'[p][t] = "cancel"
    BY <1>10, SetterEffects DEF CancelPlanned
  <2> HIDE DEF r
  <2>4. mem'[p][t] = r
    BY <2>3, SetterEffects
  <2>5. RecordSound(t, r)
    BY <1>s, <2>2 DEF StoredSound, RecordSound, InFlight
  <2>6. CallSound(p, t)'
    BY <1>c, <2>2, <2>3, <2>4, <2>5 DEF CallSound, RecordSound
  <2> QED
    BY <2>1, <2>6
<1>11. ASSUME PreventDuplicate(p, t) PROVE StoredSound(t)' /\ CallSound(p, t)'
  <2> DEFINE r == [mem[p][t] EXCEPT !.status = "cancelled", !.error = "duplicate"]
  <2>1. r.status = "cancelled" /\ r.error = "duplicate"
    BY <1>s DEF Row
  <2>2. Work(p, t, r) /\ SaveTask(t, r) /\ pc'[p][t] = "certify" /\ cert' = cert
    BY <1>11, SetterEffects DEF PreventDuplicate
  <2> HIDE DEF r
  <2>3. mem'[p][t] = r /\ row'[t] = r
    BY <2>2, SetterEffects
  <2>4. RecordSound(t, r)
    BY <1>11, <2>1 DEF PreventDuplicate, FoundCommit, RecordSound, InFlight
  <2>5. CallSound(p, t)'
    BY <1>c, <2>1, <2>2, <2>3, <2>4 DEF CallSound, RecordSound
  <2>6. StoredSound(t)'
    BY <1>s, <1>c, <2>1, <2>2, <2>3, <2>4 DEF StoredSound, RecordSound
  <2> QED
    BY <2>5, <2>6
<1>12. ASSUME Block(p, t) PROVE StoredSound(t)' /\ CallSound(p, t)'
  <2> DEFINE r == [mem[p][t] EXCEPT !.status = "policy_blocked"]
  <2>1. r.status = "policy_blocked" /\ r.error = mem[p][t].error
    BY <1>s DEF Row
  <2>2. Work(p, t, r) /\ SaveTask(t, r) /\ pc'[p][t] = "certify" /\ cert' = cert
    BY <1>12, SetterEffects DEF Block
  <2> HIDE DEF r
  <2>3. mem'[p][t] = r /\ row'[t] = r
    BY <2>2, SetterEffects
  <2>4. RecordSound(t, r)
    BY <1>s, <2>1 DEF CallSound, RecordSound, InFlight
  <2>5. CallSound(p, t)'
    BY <1>c, <2>1, <2>2, <2>3, <2>4 DEF CallSound, RecordSound
  <2>6. StoredSound(t)'
    BY <1>s, <1>c, <2>1, <2>2, <2>3, <2>4 DEF StoredSound, RecordSound
  <2> QED
    BY <2>5, <2>6
<1>13. ASSUME Admit(p, t) PROVE StoredSound(t)' /\ CallSound(p, t)'
  <2> DEFINE r == [mem[p][t] EXCEPT !.status = "running"]
  <2>1. r.status = "running" /\ r.error = mem[p][t].error
    BY <1>s DEF Row
  <2>2. Work(p, t, r) /\ SaveTask(t, r) /\ pc'[p][t] = "start" /\ frame'[p][t] = "try"
        /\ cert' = cert /\ sealed' = sealed
    BY <1>13, SetterEffects DEF Admit
  <2> HIDE DEF r
  <2>3. mem'[p][t] = r /\ row'[t] = r
    BY <2>2, SetterEffects
  <2>4. t \in sealed /\ RecordSound(t, r)
    BY <1>13, <1>s, <2>1 DEF Admit, MayStart, CallSound, RecordSound, InFlight
  <2>5. CallSound(p, t)'
    BY <1>c, <2>1, <2>2, <2>3, <2>4 DEF CallSound, RecordSound
  <2>6. StoredSound(t)'
    BY <1>s, <1>c, <2>1, <2>2, <2>3, <2>4 DEF StoredSound, RecordSound
  <2> QED
    BY <2>5, <2>6
<1>14. ASSUME AdapterAnswers(p, t) PROVE StoredSound(t)' /\ CallSound(p, t)'
  <2>0. PICK o \in {"success", "failure"} :
            LET r == [mem[p][t] EXCEPT !.status = "verifying", !.result = o]
            IN Work(p, t, r) /\ SaveTask(t, r)
    BY <1>14 DEF AdapterAnswers
  <2> DEFINE r == [mem[p][t] EXCEPT !.status = "verifying", !.result = o]
  <2>1. r.status = "verifying" /\ r.error = mem[p][t].error
    BY <1>s DEF Row
  <2>2. Work(p, t, r) /\ SaveTask(t, r)
    BY <2>0
  <2> HIDE DEF r
  <2>3. mem'[p][t] = r /\ row'[t] = r
    BY <2>2, SetterEffects
  <2>4. /\ pc[p][t] = "adapter" /\ pc'[p][t] = "verify" /\ frame' = frame
        /\ cert' = cert /\ sealed' = sealed
    BY <1>14, SetterEffects DEF AdapterAnswers
  <2>5. t \in sealed /\ frame[p][t] = "try" /\ RecordSound(t, r)
    BY <1>s, <2>1, <2>4 DEF CallSound, RecordSound
  <2>6. CallSound(p, t)'
    BY <1>c, <2>1, <2>3, <2>4, <2>5 DEF CallSound, RecordSound
  <2>7. StoredSound(t)'
    BY <1>s, <1>c, <2>1, <2>3, <2>4, <2>5 DEF StoredSound, RecordSound
  <2> QED
    BY <2>6, <2>7
<1>15. ASSUME VerifierAnswers(p, t) PROVE StoredSound(t)' /\ CallSound(p, t)'
  <2>0. PICK passed \in BOOLEAN :
            LET succeeded == mem[p][t].result = "success"
                verified  == succeeded /\ (request[t].evidence = "none" \/ passed)
                taken     == verified /\ Committed(t)
            IN /\ Work(p, t, [mem[p][t] EXCEPT
                       !.status = IF taken THEN "cancelled"
                                  ELSE IF verified THEN "verified_success"
                                  ELSE IF succeeded THEN "partial" ELSE "failed",
                       !.error = IF taken THEN "duplicate" ELSE @])
               /\ CommitIdempotency(t, EarnsCommit(p, t, passed))
    BY <1>15 DEF VerifierAnswers
  <2> DEFINE verified == EarnsCommit(p, t, passed)
             taken    == verified /\ Committed(t)
             r == [mem[p][t] EXCEPT
                       !.status = IF taken THEN "cancelled"
                                  ELSE IF verified THEN "verified_success"
                                  ELSE IF mem[p][t].result = "success" THEN "partial"
                                  ELSE "failed",
                       !.error = IF taken THEN "duplicate" ELSE @]
  <2>1. /\ r.status \in Final /\ r.result = mem[p][t].result
        /\ r.status = "verified_success" => verified /\ ~Committed(t)
        /\ r.error = "duplicate" => Committed(t) \/ mem[p][t].error = "duplicate"
    BY <1>s DEF Row, Final
  <2>2. Work(p, t, r) /\ CommitIdempotency(t, verified)
    BY <2>0 DEF EarnsCommit
  <2>3. verified => mem[p][t].result = "success"
    BY DEF EarnsCommit
  <2>v. verified \in BOOLEAN
    BY DEF EarnsCommit
  <2> HIDE DEF r, taken, verified
  <2>4. mem'[p][t] = r
    BY <2>2, SetterEffects
  <2>5. /\ pc[p][t] = "verify" /\ pc'[p][t] = "receipt" /\ frame' = frame
        /\ cert' = cert /\ row' = row
    BY <1>15, SetterEffects DEF VerifierAnswers
  <2>6. frame[p][t] = "try" /\ RecordSound(t, r)
    BY <1>s, <2>1, <2>5 DEF CallSound, RecordSound, InFlight, Final
  <2>7. r.status = "verified_success" => Credited(t)'
    <3>1. SUFFICES ASSUME verified, ~Committed(t) PROVE Credited(t)'
      BY <2>1
    <3>2. KeyOf(t) # NoKey => commits'[KeyOf(t)] = t
      BY <2>2, <2>v, <3>1, CommitGrows
    <3> QED
      BY <1>c, <3>2 DEF Credited
  <2>8. CallSound(p, t)'
    BY <1>c, <2>1, <2>3, <2>4, <2>5, <2>6, <2>7 DEF CallSound, RecordSound
  <2>9. StoredSound(t)'
    BY <1>s, <1>g, <2>5, CarriedRow
  <2> QED
    BY <2>8, <2>9
<1>16. ASSUME Settle(p, t) PROVE StoredSound(t)' /\ CallSound(p, t)'
  <2>2. /\ pc[p][t] = "settle" /\ pc'[p][t] = "certify" /\ row'[t] = mem[p][t] /\ cert' = cert
        /\ mem'[p][t] = mem[p][t] /\ frame'[p][t] = frame[p][t]
    BY <1>16, SetterEffects DEF Settle, At
  <2>3. CallSound(p, t)'
    BY <1>s, <1>c, <2>2 DEF CallSound, RecordSound
  <2>4. StoredSound(t)'
    BY <1>s, <1>c, <2>2 DEF CallSound, StoredSound, RecordSound
  <2> QED
    BY <2>3, <2>4
<1>17. ASSUME Certify(p, t) PROVE StoredSound(t)' /\ CallSound(p, t)'
  <2>2. /\ pc[p][t] = "certify" /\ pc'[p][t] = "seal" /\ row' = row
        /\ mem'[p][t] = mem[p][t] /\ frame'[p][t] = frame[p][t]
        /\ cert'[t] = CertificateResult(mem[p][t].status)
    BY <1>17, SetterEffects DEF Certify, At, Certified, TypeOK
  <2>3. CallSound(p, t)'
    BY <1>s, <1>c, <2>2 DEF CallSound, RecordSound
  <2>4. cert'[t] = "VERIFIED_SUCCESS" => mem[p][t].status = "verified_success"
    BY <2>2 DEF CertificateResult
  <2>5. StoredSound(t)'
    BY <1>s, <1>c, <2>2, <2>4 DEF CallSound, StoredSound, RecordSound
  <2> QED
    BY <2>3, <2>5
<1>18. ASSUME Seal(p, t) PROVE StoredSound(t)' /\ CallSound(p, t)'
  <2>2. /\ pc[p][t] = "seal" /\ row'[t] = mem[p][t] /\ cert' = cert
        /\ pc'[p][t] = "idle" /\ mem'[p][t] = NoRow
    BY <1>18, SetterEffects, LeaveEffect DEF Seal, At
  <2>3. CallSound(p, t)'
    BY <1>n, <1>c, <2>2 DEF CallSound, RecordSound
  <2>4. StoredSound(t)'
    BY <1>s, <1>c, <2>2 DEF CallSound, StoredSound, RecordSound
  <2> QED
    BY <2>3, <2>4
<1>19. ASSUME CancelWrite(p, t) PROVE StoredSound(t)' /\ CallSound(p, t)'
  <2>2. /\ pc[p][t] = "cancel" /\ row'[t] = mem[p][t] /\ cert' = cert
        /\ pc'[p][t] = "idle" /\ mem'[p][t] = NoRow
    BY <1>19, SetterEffects, LeaveEffect DEF CancelWrite, At
  <2>3. CallSound(p, t)'
    BY <1>n, <1>c, <2>2 DEF CallSound, RecordSound
  <2>4. StoredSound(t)'
    BY <1>s, <1>c, <2>2 DEF CallSound, StoredSound, RecordSound
  <2> QED
    BY <2>3, <2>4
<1>20. ASSUME Reobserve(p, t) PROVE StoredSound(t)' /\ CallSound(p, t)'
  <2> DEFINE r == [mem[p][t] EXCEPT !.status = "verified_success", !.error = "none"]
  <2>1. r.status = "verified_success" /\ r.error = "none"
    BY <1>s DEF Row
  <2>2. Work(p, t, r) /\ CommitIdempotency(t, TRUE)
    BY <1>20 DEF Reobserve
  <2> HIDE DEF r
  <2>3. mem'[p][t] = r /\ pc'[p][t] = "recReceipt" /\ row' = row /\ cert' = cert
    BY <1>20, <2>2, SetterEffects DEF Reobserve
  <2>4. (KeyOf(t) = NoKey \/ Committed(t))'
    BY <1>c, <2>2, CommitGrows DEF Committed
  <2>5. CallSound(p, t)'
    BY <2>1, <2>3, <2>4 DEF CallSound, RecordSound, InFlight
  <2>6. StoredSound(t)'
    BY <1>s, <1>g, <2>3, CarriedRow
  <2> QED
    BY <2>5, <2>6
<1>21. ASSUME Reclassify(p, t) PROVE StoredSound(t)' /\ CallSound(p, t)'
  <2>0. PICK s \in {"planned", "recovery_required"} :
            SaveTask(t, [mem[p][t] EXCEPT !.status = s, !.error = "interrupted"])
    BY <1>21 DEF Reclassify
  <2> DEFINE r == [mem[p][t] EXCEPT !.status = s, !.error = "interrupted"]
  <2>1. r.status = s /\ r.error = "interrupted"
    BY <1>s DEF Row
  <2>2. SaveTask(t, r) /\ cert' = cert /\ pc'[p][t] = "idle" /\ mem'[p][t] = NoRow
    BY <1>21, <2>0, LeaveEffect DEF Reclassify
  <2> HIDE DEF r
  <2>3. row'[t] = r
    BY <2>2, SetterEffects
  <2>4. CallSound(p, t)'
    BY <1>n, <1>c, <2>2 DEF CallSound, RecordSound
  <2>5. StoredSound(t)'
    BY <1>s, <1>c, <2>1, <2>2, <2>3 DEF StoredSound, RecordSound, InFlight
  <2> QED
    BY <2>4, <2>5
<1>22. ASSUME Plan(p, t) PROVE StoredSound(t)' /\ CallSound(p, t)'
  <2>1. PICK s \in Executable \cup {"policy_blocked"} :
            SaveTask(t, [NoRow EXCEPT !.status = s, !.challenge = (s = "awaiting_approval")])
    <3>1. OutcomeOf(p, t) \in Outcomes
      BY ConstantsAssumption DEF TypeOK, OutcomeOf, EffectOf
    <3> QED
      BY <1>22, <3>1 DEF Plan, Executable, Outcomes
  <2> DEFINE r == [NoRow EXCEPT !.status = s, !.challenge = (s = "awaiting_approval")]
  <2>2. r.status = s /\ r.error = "none"
    BY DEF NoRow
  <2>3. SaveTask(t, r)
    BY <2>1
  <2> HIDE DEF r
  <2>4. row'[t] = r /\ cert' = cert
    BY <1>22, <2>3, SetterEffects DEF Plan
  <2>5. StoredSound(t)'
    BY <1>s, <1>c, <2>2, <2>4 DEF StoredSound, RecordSound, InFlight, Executable
  <2>6. mem' = mem /\ frame' = frame /\ (pc'[p][t] = pc[p][t] \/ pc'[p][t] = "plan")
    BY <1>22, SetterEffects DEF Plan
  <2>7. CASE pc'[p][t] = pc[p][t]
    BY <1>s, <1>g, <2>5, <2>6, <2>7, CarriedCall
  <2>8. CASE pc'[p][t] = "plan"
    <3>1. mem[p][t].status # "verified_success"
      BY <1>22, <1>s DEF Plan, CallSound
    <3> QED
      BY <1>s, <1>c, <2>5, <2>6, <2>8, <3>1 DEF CallSound, RecordSound
  <2> QED
    BY <2>6, <2>7, <2>8
<1>23. ASSUME Start(p, t) PROVE StoredSound(t)' /\ CallSound(p, t)'
  <2>1. CASE Catch(p, t) /\ UNCHANGED <<row, breaker, launches>>
    <3>1. /\ pc'[p][t] = "receipt"
          /\ mem'[p][t].status \in {"failed", "cancelled", "budget_exhausted"}
          /\ mem'[p][t].error = "error"
      BY <2>1, CatchEffect
    <3>2. StoredSound(t)'
      BY <1>23, <1>s, <1>g, <2>1, CarriedRow DEF Start
    <3> QED
      BY <3>1, <3>2 DEF CallSound, RecordSound, InFlight
  <2>2. CASE Launch(p, t, 1) /\ UNCHANGED <<frame, breaker>>
    <3>1. 1 \in Nat
      BY <1>s DEF Row
    <3>a. Launch(p, t, 1)
      BY <2>2
    <3>2. /\ pc'[p][t] = "adapter" /\ row'[t] = mem'[p][t]
          /\ mem'[p][t].status = mem[p][t].status /\ mem'[p][t].error = mem[p][t].error
      BY <3>1, <3>a, LaunchKeeps
    <3>3. /\ pc[p][t] \in {"start", "adapter"} /\ frame' = frame /\ sealed' = sealed
          /\ cert' = cert
      BY <1>23, <2>2 DEF Start, At
    <3>4. CallSound(p, t)'
      BY <1>s, <1>c, <3>2, <3>3 DEF CallSound, RecordSound
    <3>5. StoredSound(t)'
      BY <1>s, <1>c, <3>2, <3>3 DEF CallSound, StoredSound, RecordSound
    <3> QED
      BY <3>4, <3>5
  <2> QED
    BY <1>23, <2>1, <2>2 DEF Start
<1>24. ASSUME AdapterThrows(p, t) PROVE StoredSound(t)' /\ CallSound(p, t)'
  <2>1. CASE Catch(p, t) /\ Blame(p, t) /\ UNCHANGED <<row, launches>>
    <3>1. /\ pc'[p][t] = "receipt"
          /\ mem'[p][t].status \in {"failed", "cancelled", "budget_exhausted"}
          /\ mem'[p][t].error = "error"
      BY <2>1, CatchEffect
    <3>2. StoredSound(t)'
      BY <1>24, <1>s, <1>g, <2>1, CarriedRow DEF AdapterThrows
    <3> QED
      BY <3>1, <3>2 DEF CallSound, RecordSound, InFlight
  <2>2. CASE Launch(p, t, mem[p][t].attempts + 1) /\ UNCHANGED <<frame, breaker>>
    <3>1. mem[p][t].attempts + 1 \in Nat
      BY <1>s DEF Row
    <3>a. Launch(p, t, mem[p][t].attempts + 1)
      BY <2>2
    <3>2. /\ pc'[p][t] = "adapter" /\ row'[t] = mem'[p][t]
          /\ mem'[p][t].status = mem[p][t].status /\ mem'[p][t].error = mem[p][t].error
      BY <3>1, <3>a, LaunchKeeps
    <3>3. /\ pc[p][t] \in {"start", "adapter"} /\ frame' = frame /\ sealed' = sealed
          /\ cert' = cert
      BY <1>24, <2>2 DEF AdapterThrows, At
    <3>4. CallSound(p, t)'
      BY <1>s, <1>c, <3>2, <3>3 DEF CallSound, RecordSound
    <3>5. StoredSound(t)'
      BY <1>s, <1>c, <3>2, <3>3 DEF CallSound, StoredSound, RecordSound
    <3> QED
      BY <3>4, <3>5
  <2> QED
    BY <1>24, <2>1, <2>2 DEF AdapterThrows
<1>25. ASSUME WriteFailsInTry(p, t) PROVE StoredSound(t)' /\ CallSound(p, t)'
  <2>1. Catch(p, t)
    BY <1>25 DEF WriteFailsInTry
  <2> QED
    <3>1. /\ pc'[p][t] = "receipt"
          /\ mem'[p][t].status \in {"failed", "cancelled", "budget_exhausted"}
          /\ mem'[p][t].error = "error"
      BY <2>1, CatchEffect
    <3>2. StoredSound(t)'
      BY <1>25, <1>s, <1>g, <2>1, CarriedRow DEF WriteFailsInTry
    <3> QED
      BY <3>1, <3>2 DEF CallSound, RecordSound, InFlight
<1> QED
    BY <1>1, <1>2, <1>3, <1>4, <1>5, <1>6, <1>7, <1>8, <1>9, <1>10,
       <1>11, <1>12, <1>13, <1>14, <1>15, <1>16, <1>17, <1>18, <1>19, <1>20,
       <1>21, <1>22, <1>23, <1>24, <1>25
       DEF TaskStep, Call, Segment, Answer, Fault, Recover

LEMMA StoreInvariance ==
    TypeOK /\ StoreInv /\ [Next]_vars => StoreInv'
<1> SUFFICES ASSUME TypeOK, StoreInv, [Next]_vars PROVE StoreInv'
    OBVIOUS
<1> USE DEF base, durable, records, locals, signals, breaker, history
<1>n. NoRow.status = "absent" /\ NoRow.error = "none"
    BY DEF NoRow
<1>1. ASSUME NEW p \in Proc, NEW t \in Task, TaskStep(p, t) PROVE StoreInv'
    BY <1>1, StoreStep
<1>2. ASSUME Grows, row' = row, cert' = cert,
             \A p \in Proc, t \in Task :
                \/ CallSound(p, t)'
                \/ /\ pc'[p][t] = pc[p][t] /\ mem'[p][t] = mem[p][t]
                   /\ frame'[p][t] = frame[p][t]
      PROVE  StoreInv'
  <2>1. \A t \in Task : StoredSound(t)'
    BY <1>2, CarriedRow DEF StoreInv
  <2>2. \A p \in Proc, t \in Task : CallSound(p, t)'
    BY <1>2, CarriedCall DEF StoreInv
  <2> QED
    BY <2>1, <2>2 DEF StoreInv
<1>3. ASSUME NEW p \in Proc, NEW g \in Target, CooldownPasses(p, g) PROVE StoreInv'
    BY <1>2, <1>3 DEF CooldownPasses, Grows
<1>4. ASSUME NEW p \in Proc, Crash(p) PROVE StoreInv'
  <2>1. \A q \in Proc, t \in Task :
            \/ q = p /\ pc'[q][t] = "idle" /\ mem'[q][t] = NoRow
            \/ /\ pc'[q][t] = pc[q][t] /\ mem'[q][t] = mem[q][t]
               /\ frame'[q][t] = frame[q][t]
    BY <1>4 DEF Crash, TypeOK
  <2>2. \A q \in Proc, t \in Task :
            pc'[q][t] = "idle" /\ mem'[q][t] = NoRow => CallSound(q, t)'
    BY <1>n DEF CallSound, RecordSound, InFlight
  <2> QED
    BY <1>2, <1>4, <2>1, <2>2 DEF Crash, Grows
<1>5. ASSUME NEW p \in Proc, Boot(p) PROVE StoreInv'
  <2>1. \A q \in Proc, t \in Task :
            \/ pc'[q][t] = "idle" /\ mem'[q][t] = NoRow
            \/ /\ pc'[q][t] = "recover" /\ mem'[q][t] = row[t]
               /\ row[t].status \in InFlight
            \/ /\ pc'[q][t] = pc[q][t] /\ mem'[q][t] = mem[q][t]
               /\ frame'[q][t] = frame[q][t]
    BY <1>5 DEF Boot, Interrupted, TypeOK
  <2>2. \A q \in Proc, t \in Task :
            pc'[q][t] = "idle" /\ mem'[q][t] = NoRow => CallSound(q, t)'
    BY <1>n DEF CallSound, RecordSound, InFlight
  <2>3. Grows /\ row' = row /\ cert' = cert
    BY <1>5 DEF Boot, Grows
  <2>4. ASSUME NEW q \in Proc, NEW t \in Task,
               pc'[q][t] = "recover", mem'[q][t] = row[t], row[t].status \in InFlight
        PROVE  CallSound(q, t)'
    <3>1. RecordSound(t, row[t])
      BY DEF StoreInv, StoredSound
    <3>2. RecordSound(t, row[t])'
      BY <2>3, <3>1, Carried DEF RecordSound
    <3> QED
      BY <2>4, <2>3, <3>2 DEF CallSound, RecordSound, InFlight
  <2> QED
    BY <1>2, <2>1, <2>2, <2>3, <2>4
<1>6. ASSUME NEW p \in Proc, Serve(p) PROVE StoreInv'
    BY <1>2, <1>6 DEF Serve, Grows
<1>7. CASE UNCHANGED vars
    BY <1>2, <1>7 DEF vars, Grows
<1> QED
    BY <1>1, <1>3, <1>4, <1>5, <1>6, <1>7 DEF Next

\* In every reachable state, whatever processes share the store, die or fail to write:
\* a verified record or certificate holds its key or was reobserved under a committed
\* one, and has the receipt of a success; a duplicate is one of a committed key; and
\* a row in flight has the payload recovery needs.
THEOREM StoreIsSafe ==
    Spec => [](VerifiedIsCommitted /\ VerifiedHasReceipt /\ DuplicateIsCommitted
               /\ InterruptedHasPayload)
<1>1. Init => TypeOK /\ StoreInv
  <2> SUFFICES ASSUME Init PROVE TypeOK /\ StoreInv
    OBVIOUS
  <2>1. NoRow.status = "absent" /\ NoRow.error = "none"
    BY DEF NoRow
  <2>2. \A t \in Task : StoredSound(t)
    BY <2>1 DEF Init, StoredSound, RecordSound, InFlight
  <2>3. \A p \in Proc, t \in Task : CallSound(p, t)
    BY <2>1 DEF Init, CallSound, RecordSound, InFlight
  <2>4. TypeOK
    BY ConstantsAssumption, NoRowType DEF Init, TypeOK, Steps, Results
  <2> QED
    BY <2>2, <2>3, <2>4 DEF StoreInv
<1>2. (TypeOK /\ StoreInv) /\ [Next]_vars => (TypeOK /\ StoreInv)'
    BY TypeStep, StoreInvariance
<1>3. TypeOK /\ StoreInv => VerifiedIsCommitted /\ VerifiedHasReceipt
                            /\ DuplicateIsCommitted /\ InterruptedHasPayload
    BY DEF StoreInv, StoredSound, RecordSound, Credited, Proven, VerifiedIsCommitted,
           VerifiedHasReceipt, DuplicateIsCommitted, InterruptedHasPayload
<1> QED
    BY <1>1, <1>2, <1>3, PTL DEF Spec
-----------------------------------------------------------------------------
(* At most one adapter call for a mutation, when one process owns the store.   *)

Fresh  == Executable \cup {"absent"}
Beyond == Steps \ {"idle", "plan", "keyCheck", "admit"}

\* Once launched, neither the row nor the object a call will save is executable
\* again, and no call is on its way to the adapter.
Once(p, t) ==
    request[t].effect = "mutate" =>
        /\ launches[t] \in {0, 1}
        /\ launches[t] = 1 => row[t].status \notin Fresh
                              /\ pc[p][t] \notin {"keyCheck", "admit", "start"}
        /\ pc[p][t] \in Beyond => mem[p][t].status \notin Fresh
        /\ pc[p][t] = "adapter" => mem[p][t].attempts >= 1 /\ launches[t] = 1

OnceInv == \A p \in Proc, t \in Task : Once(p, t)

\* Only the adapter steps call the adapter.
LEMMA LaunchesElsewhere ==
    ASSUME TypeOK, NEW p \in Proc, NEW t \in Task, TaskStep(p, t)
    PROVE  \/ launches' = launches
           \/ /\ pc[p][t] = "start" /\ Launch(p, t, 1)
           \/ /\ pc[p][t] = "adapter" /\ Launch(p, t, mem[p][t].attempts + 1)
              /\ mem[p][t].attempts < MaximumAttempts(t)
<1> USE DEF base, history
<1>1. Start(p, t) => \/ launches' = launches
                     \/ pc[p][t] = "start" /\ Launch(p, t, 1)
    BY DEF Start, At
<1>2. AdapterThrows(p, t) =>
          \/ launches' = launches
          \/ /\ pc[p][t] = "adapter" /\ Launch(p, t, mem[p][t].attempts + 1)
             /\ mem[p][t].attempts < MaximumAttempts(t)
    BY DEF AdapterThrows
<1>3. Call(p, t) \/ Recover(p, t) \/ Fault(p, t) \/ BudgetExpires(p, t) => launches' = launches
    BY DEF Call, Recover, Fault, BudgetExpires, Plan, Execute, CancelActive, CancelPlanned,
           Reobserve, Reclassify, WriteFailsUnguarded, WriteFailsInTry
<1>4. AdapterAnswers(p, t) \/ VerifierAnswers(p, t) => launches' = launches
    BY DEF AdapterAnswers, VerifierAnswers
<1>5. \/ PlanPayload(p, t) \/ PreventDuplicate(p, t) \/ KeyIsFree(p, t) \/ Refuse(p, t)
      \/ Block(p, t) \/ Admit(p, t) \/ SaveReceipt(p, t) \/ Settle(p, t)
      \/ Certify(p, t) \/ Seal(p, t) \/ CancelWrite(p, t) \/ RecoveryReceipt(p, t)
      => launches' = launches
    BY DEF PlanPayload, PreventDuplicate, KeyIsFree, Refuse, Block, Admit, SaveReceipt,
           Settle, Certify, Seal, CancelWrite, RecoveryReceipt
<1> QED
    BY <1>1, <1>2, <1>3, <1>4, <1>5 DEF TaskStep, Segment, Answer

\* A step that is not an adapter call leaves launched mutations launched: what it
\* writes to the row and keeps in memory is never executable.
LEMMA QuietStep ==
    ASSUME TypeOK, NEW p \in Proc, NEW t \in Task, TaskStep(p, t), Once(p, t),
           launches' = launches
    PROVE  Once(p, t)'
<1> SUFFICES ASSUME request[t].effect = "mutate" PROVE Once(p, t)'
    BY Locality DEF Once, Grows
<1> USE DEF base, durable, records, locals, signals, breaker, history
<1>s. mem[p][t] \in Row /\ row[t] \in Row
    BY DEF TypeOK
<1>i. /\ launches[t] \in {0, 1}
      /\ launches[t] = 1 => row[t].status \notin Fresh
                            /\ pc[p][t] \notin {"keyCheck", "admit", "start"}
      /\ pc[p][t] \in Beyond => mem[p][t].status \notin Fresh
      /\ pc[p][t] = "adapter" => mem[p][t].attempts >= 1 /\ launches[t] = 1
    BY DEF Once
<1> DEFINE Goal == /\ launches[t] = 1 => row'[t].status \notin Fresh
                                         /\ pc'[p][t] \notin {"keyCheck", "admit", "start"}
                   /\ pc'[p][t] \in Beyond => mem'[p][t].status \notin Fresh
                   /\ pc'[p][t] = "adapter" => mem'[p][t].attempts >= 1 /\ launches[t] = 1
<1> SUFFICES Goal
    BY <1>i DEF Once
<1>1. ASSUME PlanPayload(p, t) PROVE Goal
  <2>1. row' = row /\ pc'[p][t] = "idle"
    BY <1>1, LeaveEffect DEF PlanPayload
  <2> QED
    BY <1>i, <2>1 DEF Beyond
<1>2. ASSUME Refuse(p, t) PROVE Goal
  <2>1. row' = row /\ pc'[p][t] = "idle"
    BY <1>2, LeaveEffect DEF Refuse
  <2> QED
    BY <1>i, <2>1 DEF Beyond
<1>3. ASSUME WriteFailsUnguarded(p, t) PROVE Goal
  <2>1. row' = row /\ pc'[p][t] = "idle"
    BY <1>3, LeaveEffect DEF WriteFailsUnguarded
  <2> QED
    BY <1>i, <2>1 DEF Beyond
<1>4. ASSUME CancelActive(p, t) PROVE Goal
    BY <1>4, <1>i DEF CancelActive
<1>5. ASSUME BudgetExpires(p, t) PROVE Goal
    BY <1>5, <1>i DEF BudgetExpires
<1>6. ASSUME KeyIsFree(p, t) PROVE Goal
  <2>1. /\ pc[p][t] = "keyCheck" /\ pc'[p][t] = "admit" /\ row' = row /\ mem' = mem
    BY <1>6, SetterEffects DEF KeyIsFree, At
  <2> QED
    BY <1>i, <2>1 DEF Beyond, Steps
<1>7. ASSUME SaveReceipt(p, t) PROVE Goal
  <2>1. /\ pc[p][t] = "receipt" /\ pc'[p][t] = "settle" /\ row' = row /\ mem' = mem
    BY <1>7, SetterEffects DEF SaveReceipt, At
  <2> QED
    BY <1>i, <2>1 DEF Beyond, Steps
<1>8. ASSUME RecoveryReceipt(p, t) PROVE Goal
  <2>1. /\ pc[p][t] = "recReceipt" /\ pc'[p][t] = "certify" /\ row' = row /\ mem' = mem
    BY <1>8, SetterEffects DEF RecoveryReceipt, At
  <2> QED
    BY <1>i, <2>1 DEF Beyond, Steps
<1>9. ASSUME Certify(p, t) PROVE Goal
  <2>1. /\ pc[p][t] = "certify" /\ pc'[p][t] = "seal" /\ row' = row /\ mem' = mem
    BY <1>9, SetterEffects DEF Certify, At
  <2> QED
    BY <1>i, <2>1 DEF Beyond, Steps
<1>10. ASSUME Settle(p, t) PROVE Goal
  <2>1. /\ pc[p][t] = "settle" /\ pc'[p][t] = "certify" /\ row'[t] = mem[p][t] /\ mem' = mem
    BY <1>10, SetterEffects DEF Settle, At
  <2> QED
    BY <1>i, <2>1 DEF Beyond, Steps
<1>11. ASSUME Seal(p, t) PROVE Goal
  <2>1. /\ pc[p][t] = "seal" /\ pc'[p][t] = "idle" /\ row'[t] = mem[p][t]
    BY <1>11, SetterEffects, LeaveEffect DEF Seal, At
  <2> QED
    BY <1>i, <2>1 DEF Beyond, Steps
<1>12. ASSUME CancelWrite(p, t) PROVE Goal
  <2>1. /\ pc[p][t] = "cancel" /\ pc'[p][t] = "idle" /\ row'[t] = mem[p][t]
    BY <1>12, SetterEffects, LeaveEffect DEF CancelWrite, At
  <2> QED
    BY <1>i, <2>1 DEF Beyond, Steps
<1>13. ASSUME Plan(p, t) PROVE Goal
  <2>1. launches[t] = 0
    BY <1>13, <1>i DEF Plan, NoRow, Fresh
  <2>2. /\ pc'[p][t] \in {"idle", "plan"} /\ mem' = mem
    BY <1>13, SetterEffects DEF Plan
  <2> QED
    BY <2>1, <2>2 DEF Beyond
<1>14. ASSUME Execute(p, t) PROVE Goal
  <2>1. launches[t] = 0 /\ pc'[p][t] = "keyCheck"
    BY <1>14, <1>i, SetterEffects DEF Execute, Fresh
  <2> QED
    BY <2>1 DEF Beyond
<1>15. ASSUME PreventDuplicate(p, t) PROVE Goal
  <2> DEFINE r == [mem[p][t] EXCEPT !.status = "cancelled", !.error = "duplicate"]
  <2>1. r.status \notin Fresh
    BY <1>s DEF Row, Fresh, Executable
  <2>2. Work(p, t, r) /\ pc[p][t] \in {"keyCheck", "admit"} /\ pc'[p][t] = "certify"
    BY <1>15, SetterEffects DEF PreventDuplicate, MayStart, At
  <2> HIDE DEF r
  <2>3. mem'[p][t] = r
    BY <2>2, SetterEffects
  <2> QED
    BY <1>i, <2>1, <2>2, <2>3
<1>16. ASSUME Block(p, t) PROVE Goal
  <2> DEFINE r == [mem[p][t] EXCEPT !.status = "policy_blocked"]
  <2>1. r.status \notin Fresh
    BY <1>s DEF Row, Fresh, Executable
  <2>2. Work(p, t, r) /\ pc[p][t] \in {"keyCheck", "admit"} /\ pc'[p][t] = "certify"
    BY <1>16, SetterEffects DEF Block, MayStart, At
  <2> HIDE DEF r
  <2>3. mem'[p][t] = r
    BY <2>2, SetterEffects
  <2> QED
    BY <1>i, <2>1, <2>2, <2>3
<1>17. ASSUME Admit(p, t) PROVE Goal
  <2> DEFINE r == [mem[p][t] EXCEPT !.status = "running"]
  <2>1. r.status \notin Fresh
    BY <1>s DEF Row, Fresh, Executable
  <2>2. Work(p, t, r) /\ pc[p][t] \in {"keyCheck", "admit"} /\ pc'[p][t] = "start"
    BY <1>17, SetterEffects DEF Admit, MayStart, At
  <2> HIDE DEF r
  <2>3. mem'[p][t] = r
    BY <2>2, SetterEffects
  <2> QED
    BY <1>i, <2>1, <2>2, <2>3
<1>18. ASSUME CancelPlanned(p, t) PROVE Goal
  <2> DEFINE r == [row[t] EXCEPT !.status = "cancelled"]
  <2>1. r.status \notin Fresh
    BY <1>s DEF Row, Fresh, Executable
  <2>2. Work(p, t, r) /\ row' = row /\ pc'[p][t] = "cancel"
    BY <1>18, SetterEffects DEF CancelPlanned
  <2> HIDE DEF r
  <2>3. mem'[p][t] = r
    BY <2>2, SetterEffects
  <2> QED
    BY <1>i, <2>1, <2>2, <2>3
<1>19. ASSUME AdapterAnswers(p, t) PROVE Goal
  <2>0. PICK o \in {"success", "failure"} :
            LET r == [mem[p][t] EXCEPT !.status = "verifying", !.result = o]
            IN Work(p, t, r) /\ SaveTask(t, r)
    BY <1>19 DEF AdapterAnswers
  <2> DEFINE r == [mem[p][t] EXCEPT !.status = "verifying", !.result = o]
  <2>1. r.status \notin Fresh
    BY <1>s DEF Row, Fresh, Executable
  <2>2. Work(p, t, r) /\ SaveTask(t, r) /\ pc'[p][t] = "verify"
    BY <1>19, <2>0, SetterEffects DEF AdapterAnswers
  <2> HIDE DEF r
  <2>3. mem'[p][t] = r /\ row'[t] = r
    BY <2>2, SetterEffects
  <2> QED
    BY <1>i, <2>1, <2>2, <2>3
<1>20. ASSUME VerifierAnswers(p, t) PROVE Goal
  <2>a. PICK s \in Final : \E e : Work(p, t, [mem[p][t] EXCEPT !.status = s, !.error = e])
    BY <1>20 DEF VerifierAnswers, Final
  <2>0. PICK e : Work(p, t, [mem[p][t] EXCEPT !.status = s, !.error = e])
    BY <2>a
  <2> DEFINE r == [mem[p][t] EXCEPT !.status = s, !.error = e]
  <2>1. r.status \notin Fresh
    BY <1>s DEF Row, Fresh, Executable, Final
  <2>2. Work(p, t, r) /\ row' = row /\ pc'[p][t] = "receipt"
    BY <1>20, <2>0, SetterEffects DEF VerifierAnswers
  <2> HIDE DEF r
  <2>3. mem'[p][t] = r
    BY <2>2, SetterEffects
  <2> QED
    BY <1>i, <2>1, <2>2, <2>3
<1>21. ASSUME Reobserve(p, t) PROVE Goal
  <2> DEFINE r == [mem[p][t] EXCEPT !.status = "verified_success", !.error = "none"]
  <2>1. r.status \notin Fresh
    BY <1>s DEF Row, Fresh, Executable
  <2>2. Work(p, t, r) /\ row' = row /\ pc'[p][t] = "recReceipt"
    BY <1>21, SetterEffects DEF Reobserve
  <2> HIDE DEF r
  <2>3. mem'[p][t] = r
    BY <2>2, SetterEffects
  <2> QED
    BY <1>i, <2>1, <2>2, <2>3
<1>22. ASSUME Reclassify(p, t) PROVE Goal
  <2> DEFINE r == [mem[p][t] EXCEPT !.status = "recovery_required", !.error = "interrupted"]
  <2>1. r.status \notin Fresh
    BY <1>s DEF Row, Fresh, Executable
  <2>2. SaveTask(t, r) /\ pc'[p][t] = "idle"
    BY <1>22, LeaveEffect DEF Reclassify, EffectOf
  <2> HIDE DEF r
  <2>3. row'[t] = r
    BY <2>2, SetterEffects
  <2> QED
    BY <2>1, <2>2, <2>3 DEF Beyond
<1>23. ASSUME Start(p, t) PROVE Goal
  <2>1. CASE Catch(p, t) /\ row' = row
    <3>1. /\ pc'[p][t] = "receipt" /\ row' = row
          /\ mem'[p][t].status \in {"failed", "cancelled", "budget_exhausted"}
      BY <1>23, <2>1, CatchEffect DEF Start
    <3> QED
      BY <1>i, <3>1 DEF Fresh, Executable
  <2>2. CASE Launch(p, t, 1)
    <3>1. launches'[t] = launches[t] + 1
      <4>1. 1 \in Nat
        OBVIOUS
      <4> QED
        BY <2>2, <4>1, LaunchEffect
    <3>2. launches[t] \in Nat
      BY DEF TypeOK
    <3>3. launches'[t] # launches[t]
      BY <3>1, <3>2
    <3> QED
      BY <3>3
  <2> QED
    BY <1>23, <2>1, <2>2 DEF Start
<1>24. ASSUME AdapterThrows(p, t) PROVE Goal
  <2>1. CASE Catch(p, t) /\ row' = row
    <3>1. /\ pc'[p][t] = "receipt" /\ row' = row
          /\ mem'[p][t].status \in {"failed", "cancelled", "budget_exhausted"}
      BY <1>24, <2>1, CatchEffect DEF AdapterThrows
    <3> QED
      BY <1>i, <3>1 DEF Fresh, Executable
  <2>2. CASE Launch(p, t, mem[p][t].attempts + 1)
    <3>1. launches'[t] = launches[t] + 1
      <4>1. mem[p][t].attempts + 1 \in Nat
        BY <1>s DEF Row
      <4> QED
        BY <2>2, <4>1, LaunchEffect
    <3>2. launches[t] \in Nat
      BY DEF TypeOK
    <3>3. launches'[t] # launches[t]
      BY <3>1, <3>2
    <3> QED
      BY <3>3
  <2> QED
    BY <1>24, <2>1, <2>2 DEF AdapterThrows
<1>25. ASSUME WriteFailsInTry(p, t) PROVE Goal
  <2>1. Catch(p, t)
    BY <1>25 DEF WriteFailsInTry
  <2> QED
    <3>1. /\ pc'[p][t] = "receipt" /\ row' = row
          /\ mem'[p][t].status \in {"failed", "cancelled", "budget_exhausted"}
      BY <1>25, <2>1, CatchEffect DEF WriteFailsInTry
    <3> QED
      BY <1>i, <3>1 DEF Fresh, Executable
<1> QED
    BY <1>1, <1>2, <1>3, <1>4, <1>5, <1>6, <1>7, <1>8, <1>9, <1>10,
       <1>11, <1>12, <1>13, <1>14, <1>15, <1>16, <1>17, <1>18, <1>19, <1>20,
       <1>21, <1>22, <1>23, <1>24, <1>25
       DEF TaskStep, Call, Segment, Answer, Fault, Recover

LEMMA OnceStep ==
    ASSUME OneProcess, TypeOK, OnceInv, NEW p \in Proc, NEW t \in Task, TaskStep(p, t)
    PROVE  OnceInv'
<1>1. Once(p, t)'
  <2>1. CASE launches' = launches
    BY <2>1, QuietStep DEF OnceInv
  <2>2. CASE pc[p][t] = "start" /\ Launch(p, t, 1)
    <3>1. /\ mem[p][t].status \notin Fresh \/ request[t].effect # "mutate"
          /\ launches[t] = 0 \/ request[t].effect # "mutate"
          /\ request' = request
      BY <2>2, Locality DEF OnceInv, Once, Beyond, Steps, Grows
    <3>2. /\ pc'[p][t] = "adapter" /\ row'[t] = mem'[p][t] /\ mem'[p][t].attempts = 1
          /\ mem'[p][t].status = mem[p][t].status /\ launches'[t] = launches[t] + 1
      <4>1. 1 \in Nat
        OBVIOUS
      <4> QED
        BY <2>2, <4>1, LaunchEffect
    <3> QED
      BY <3>1, <3>2 DEF Once
  <2>3. CASE /\ pc[p][t] = "adapter" /\ Launch(p, t, mem[p][t].attempts + 1)
             /\ mem[p][t].attempts < MaximumAttempts(t)
    <3>1. request[t].effect # "mutate"
      <4>1. mem[p][t].attempts \in Nat
        BY DEF TypeOK, Row
      <4> QED
        BY <2>3, <4>1 DEF OnceInv, Once, MaximumAttempts, EffectOf
    <3> QED
      BY <3>1, Locality DEF Once, Grows
  <2> QED
    BY <2>1, <2>2, <2>3, LaunchesElsewhere
<1>2. ASSUME NEW q \in Proc, NEW u \in Task PROVE Once(q, u)'
  <2>1. q = p
    BY DEF OneProcess
  <2>2. CASE u = t
    BY <1>1, <2>1, <2>2
  <2>3. CASE u # t
    <3>1. /\ pc'[q][u] = pc[q][u] /\ mem'[q][u] = mem[q][u] /\ row'[u] = row[u]
          /\ request' = request
      BY <2>3, Locality DEF Elsewhere, Grows
    <3>2. launches'[u] = launches[u]
      <4>1. 1 \in Nat
        OBVIOUS
      <4>2. mem[p][t].attempts + 1 \in Nat
        BY DEF TypeOK, Row
      <4>3. CASE launches' = launches
        BY <4>3
      <4>4. ASSUME NEW n \in Nat, Launch(p, t, n) PROVE launches'[u] = launches[u]
        BY <2>3, <4>4, LaunchEffect
      <4>5. CASE Launch(p, t, 1)
        BY <4>1, <4>4, <4>5
      <4>6. CASE Launch(p, t, mem[p][t].attempts + 1)
        BY <4>2, <4>4, <4>6
      <4> QED
        BY <4>3, <4>5, <4>6, LaunchesElsewhere
    <3> QED
      BY <3>1, <3>2 DEF OnceInv, Once
  <2> QED
    BY <2>2, <2>3
<1> QED
    BY <1>2 DEF OnceInv

LEMMA OnceInit == Init => OnceInv
    BY DEF Init, OnceInv, Once, Beyond

LEMMA OnceInvariance ==
    ASSUME OneProcess
    PROVE  TypeOK /\ OnceInv /\ [Next]_vars => (TypeOK /\ OnceInv)'
<1> USE DEF base, durable, records, locals, signals, breaker, history
<1> SUFFICES ASSUME TypeOK, OnceInv, [Next]_vars PROVE OnceInv'
  BY TypeStep
<1>1. ASSUME NEW p \in Proc, NEW t \in Task, TaskStep(p, t) PROVE OnceInv'
  BY <1>1, OnceStep
<1>2. ASSUME NEW p \in Proc, NEW g \in Target, CooldownPasses(p, g) PROVE OnceInv'
  BY <1>2 DEF CooldownPasses, OnceInv, Once
<1>3. ASSUME NEW p \in Proc, Crash(p) PROVE OnceInv'
  <2>1. \A q \in Proc, t \in Task :
            pc'[q][t] = "idle" \/ (pc'[q][t] = pc[q][t] /\ mem'[q][t] = mem[q][t])
    BY <1>3 DEF Crash, TypeOK
  <2>2. row' = row /\ launches' = launches /\ request' = request
    BY <1>3 DEF Crash
  <2> QED
    BY <2>1, <2>2 DEF OnceInv, Once, Beyond
<1>4. ASSUME NEW p \in Proc, Boot(p) PROVE OnceInv'
  <2>1. \A q \in Proc, t \in Task :
            \/ pc'[q][t] = "idle"
            \/ /\ pc'[q][t] = "recover" /\ mem'[q][t] = row[t]
               /\ row[t].status \in InFlight
            \/ pc'[q][t] = pc[q][t] /\ mem'[q][t] = mem[q][t]
    BY <1>4 DEF Boot, Interrupted, TypeOK
  <2>2. row' = row /\ launches' = launches /\ request' = request
    BY <1>4 DEF Boot
  <2> QED
    BY <2>1, <2>2 DEF OnceInv, Once, Beyond, Fresh, InFlight, Executable
<1>5. ASSUME NEW p \in Proc, Serve(p) PROVE OnceInv'
  BY <1>5 DEF Serve, OnceInv, Once
<1>6. CASE UNCHANGED vars
  BY <1>6 DEF vars, OnceInv, Once
<1> QED
  BY <1>1, <1>2, <1>3, <1>4, <1>5, <1>6 DEF Next

\* With one process on the store, and whatever it retries, cancels, times out, fails to
\* write, dies during or recovers, no mutation reaches its adapter twice.
THEOREM OneProcessRunsOnce ==
    ASSUME OneProcess
    PROVE  Spec => []MutationAtMostOnce
<1>1. Init => TypeOK
    BY ConstantsAssumption, NoRowType DEF Init, TypeOK, Steps, Results
<1>2. TypeOK /\ OnceInv => MutationAtMostOnce
  <2> SUFFICES ASSUME TypeOK, OnceInv, NEW t \in Task, request[t].effect = "mutate"
               PROVE  launches[t] <= 1
    BY DEF MutationAtMostOnce
  <2>1. PICK p : Proc = {p}
    BY DEF OneProcess
  <2> QED
    BY <2>1 DEF OnceInv, Once
<1> QED
    BY <1>1, <1>2, OnceInit, OnceInvariance, PTL DEF Spec
=============================================================================
