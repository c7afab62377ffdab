----------------------- MODULE TaskRecordsProofs -----------------------
(* More theorems of TaskController: its records, certificates, controllers and *)
(* launches.  Every step of a call is first shown to be one of ten moves, said *)
(* of one task object, one row and one certificate; the invariants are then    *)
(* proved over the moves.                                                      *)
EXTENDS TaskControllerProofs

-----------------------------------------------------------------------------
(* The moves.                                                                  *)

\* A call that stops and leaves the store as it is.
Dropped(p, t) ==
    /\ pc[p][t] \in {"plan", "admit"} \/ StoreMayFail
    /\ pc'[p][t] = "idle" /\ mem'[p][t] = NoRow /\ frame'[p][t] = "none"
    /\ row'[t] = row[t] /\ cert'[t] = cert[t]

\* A call that enters its catch block.
Caught(p, t) ==
    /\ pc[p][t] \in {"start", "adapter"} \/ StoreMayFail
    /\ frame[p][t] = "try"
    /\ pc'[p][t] = "receipt" /\ frame'[p][t] = "catch"
    /\ mem'[p][t].status \in {"failed", "cancelled", "budget_exhausted"}
    /\ mem'[p][t].error = "error" /\ mem'[p][t].challenge = mem[p][t].challenge
    /\ row'[t] = row[t] /\ cert'[t] = cert[t]

\* A call that goes on with its task object as it is, perhaps saving it.
Advanced(p, t) ==
    /\ <<pc[p][t], pc'[p][t]>> \in
           {<<"keyCheck", "admit">>, <<"receipt", "settle">>, <<"settle", "certify">>,
            <<"certify", "seal">>, <<"recReceipt", "certify">>}
    /\ pc'[p][t] = "admit" => ~Committed(t)
    /\ mem'[p][t] = mem[p][t] /\ frame'[p][t] = frame[p][t]
    /\ row'[t] = IF pc[p][t] = "settle" THEN mem[p][t] ELSE row[t]
    /\ cert'[t] = IF pc[p][t] = "certify" THEN CertificateResult(mem[p][t].status)
                                          ELSE cert[t]

\* A call that ends by saving its task object.
Ended(p, t) ==
    /\ pc[p][t] \in {"seal", "cancel"}
    /\ pc'[p][t] = "idle" /\ mem'[p][t] = NoRow /\ frame'[p][t] = "none"
    /\ row'[t] = mem[p][t] /\ cert'[t] = cert[t]

\* A call that takes up the stored row.
Taken(p, t) ==
    /\ mode[p] = "serving" /\ pc[p][t] = "idle" /\ row[t].status \in Executable
    /\ \/ pc'[p][t] = "keyCheck" /\ mem'[p][t] = row[t]
       \/ /\ pc'[p][t] = "cancel" /\ mem'[p][t].status = "cancelled"
          /\ mem'[p][t].challenge = row[t].challenge
    /\ frame'[p][t] = frame[p][t] /\ row'[t] = row[t] /\ cert'[t] = cert[t]

\* The policy of p lets the task run, at once or by a confirmed challenge.
MayLaunch(p, t) ==
    /\ OutcomeOf(p, t) # "deny"
    /\ OutcomeOf(p, t) = "confirm" => mem[p][t].challenge

\* A call that changes its task object and saves it in the same step.
Wrote(p, t) ==
    /\ <<pc[p][t], pc'[p][t], mem'[p][t].status>> \in
           {<<"keyCheck", "certify", "cancelled">>, <<"admit", "certify", "policy_blocked">>,
            <<"admit", "start", "running">>, <<"start", "adapter", mem[p][t].status>>,
            <<"adapter", "adapter", mem[p][t].status>>, <<"adapter", "verify", "verifying">>}
    /\ pc'[p][t] = "start" => MayLaunch(p, t)
    /\ mem'[p][t].challenge = mem[p][t].challenge
    /\ frame'[p][t] = IF pc'[p][t] = "start" THEN "try" ELSE frame[p][t]
    /\ row'[t] = mem'[p][t] /\ cert'[t] = cert[t]

\* The verifier's answer, and recovery's look at the files: nothing is saved yet.
Judged(p, t) ==
    /\ \/ /\ pc[p][t] = "verify" /\ pc'[p][t] = "receipt"
          /\ mem'[p][t].status \in {"verified_success", "cancelled", "partial", "failed"}
       \/ /\ pc[p][t] = "recover" /\ pc'[p][t] = "recReceipt"
          /\ mem[p][t].status = "verifying" /\ EffectOf(t) # "read"
          /\ mem'[p][t].status = "verified_success"
    /\ mem'[p][t].challenge = mem[p][t].challenge
    /\ frame'[p][t] = frame[p][t] /\ row'[t] = row[t] /\ cert'[t] = cert[t]

\* A task is planned.
Planned(p, t) ==
    /\ mode[p] = "serving" /\ pc[p][t] = "idle" /\ row[t] = NoRow
    /\ \/ pc'[p][t] = "plan" /\ row'[t].status \in Executable
       \/ pc'[p][t] = "idle" /\ row'[t].status = "policy_blocked"
    /\ mem'[p][t] = mem[p][t] /\ frame'[p][t] = frame[p][t] /\ cert'[t] = cert[t]

\* Recovery gives an interrupted task back.
Returned(p, t) ==
    /\ pc[p][t] = "recover"
    /\ row'[t].status = IF EffectOf(t) = "read" THEN "planned" ELSE "recovery_required"
    /\ row'[t].challenge = mem[p][t].challenge
    /\ pc'[p][t] = "idle" /\ mem'[p][t] = NoRow /\ frame'[p][t] = "none"
    /\ cert'[t] = cert[t]

Still(p, t) ==
    /\ pc'[p][t] = pc[p][t] /\ mem'[p][t] = mem[p][t] /\ frame'[p][t] = frame[p][t]
    /\ row'[t] = row[t] /\ cert'[t] = cert[t]

Moved(p, t) ==
    \/ Dropped(p, t) \/ Caught(p, t) \/ Advanced(p, t) \/ Ended(p, t) \/ Taken(p, t)
    \/ Wrote(p, t) \/ Judged(p, t) \/ Planned(p, t) \/ Returned(p, t) \/ Still(p, t)

-----------------------------------------------------------------------------
(* Each helper, said of the object it writes.                                  *)

LEMMA LeaveMove ==
    ASSUME TypeOK, NEW p \in Proc, NEW t \in Task, Leave(p, t)
    PROVE  pc'[p][t] = "idle" /\ mem'[p][t] = NoRow /\ frame'[p][t] = "none"
    BY LeaveEffect

LEMMA GotoMove ==
    ASSUME TypeOK, NEW p \in Proc, NEW t \in Task, NEW s, Goto(p, t, s)
    PROVE  pc'[p][t] = s
    BY DEF TypeOK, Goto

LEMMA WorkMove ==
    ASSUME TypeOK, NEW p \in Proc, NEW t \in Task, NEW r, Work(p, t, r)
    PROVE  mem'[p][t] = r
    BY DEF TypeOK, Work

LEMMA SaveMove ==
    ASSUME TypeOK, NEW t \in Task, NEW r, SaveTask(t, r)
    PROVE  row'[t] = r
    BY DEF TypeOK, SaveTask

\* Changing the status, or the status and the error, of a task object.
LEMMA StatusOf ==
    ASSUME NEW r \in Row, NEW s
    PROVE  /\ [r EXCEPT !.status = s].status = s
           /\ [r EXCEPT !.status = s].challenge = r.challenge
           /\ \A e : [r EXCEPT !.status = s, !.error = e].status = s
           /\ \A e : [r EXCEPT !.status = s, !.error = e].challenge = r.challenge
           /\ \A o : [r EXCEPT !.status = s, !.result = o].status = s
           /\ \A o : [r EXCEPT !.status = s, !.result = o].challenge = r.challenge
    BY DEF Row

LEMMA CatchMove ==
    ASSUME TypeOK, NEW p \in Proc, NEW t \in Task, Catch(p, t)
    PROVE  /\ pc'[p][t] = "receipt" /\ frame'[p][t] = "catch"
           /\ mem'[p][t].status \in {"failed", "cancelled", "budget_exhausted"}
           /\ mem'[p][t].error = "error" /\ mem'[p][t].challenge = mem[p][t].challenge
<1>1. PICK s : Work(p, t, [mem[p][t] EXCEPT !.status = s, !.error = "error"])
    BY DEF Catch
<1> DEFINE r == [mem[p][t] EXCEPT !.status = s, !.error = "error"]
<1>2. Work(p, t, r)
    BY <1>1
<1>3. mem[p][t] \in Row
    BY DEF TypeOK
<1>4. r.challenge = mem[p][t].challenge
    BY <1>3, StatusOf
<1> HIDE DEF r
<1>5. mem'[p][t] = r
    BY <1>2, WorkMove
<1> QED
    BY <1>4, <1>5, CatchEffect

LEMMA LaunchMove ==
    ASSUME TypeOK, NEW p \in Proc, NEW t \in Task, NEW n \in Nat, Launch(p, t, n)
    PROVE  /\ pc'[p][t] = "adapter" /\ row'[t] = mem'[p][t]
           /\ mem'[p][t].status = mem[p][t].status
           /\ mem'[p][t].challenge = mem[p][t].challenge
<1> DEFINE r == [mem[p][t] EXCEPT !.attempts = n]
<1>1. Work(p, t, r)
    BY DEF Launch
<1>2. mem[p][t] \in Row
    BY DEF TypeOK
<1>3. r.challenge = mem[p][t].challenge
    BY <1>2 DEF Row
<1> HIDE DEF r
<1>4. mem'[p][t] = r
    BY <1>1, WorkMove
<1> QED
    BY <1>3, <1>4, LaunchKeeps

\* The adapter is called for one task.
LEMMA LaunchCounts ==
    ASSUME TypeOK, NEW p \in Proc, NEW t \in Task, NEW n, Launch(p, t, n),
           NEW u \in Task, u # t
    PROVE  launches'[u] = launches[u]
<1>1. launches \in [Task -> Nat]
    BY DEF TypeOK
<1>2. launches' = [launches EXCEPT ![t] = @ + 1]
    BY DEF Launch
<1> QED
    BY <1>1, <1>2

\* Every step of a call is a move.
LEMMA StepMoves ==
    ASSUME TypeOK, NEW p \in Proc, NEW t \in Task, TaskStep(p, t),
           pc[p][t] \in {"start", "adapter"} => frame[p][t] = "try"
    PROVE  Moved(p, t)
<1> USE DEF base, durable, records, locals, signals, breaker, history
<1>s. mem[p][t] \in Row /\ row[t] \in Row
    BY DEF TypeOK
<1>f. pc[p][t] \in {"start", "adapter"} => frame[p][t] = "try"
    OBVIOUS
<1>1. ASSUME PlanPayload(p, t) PROVE Moved(p, t)
    BY <1>1, LeaveMove DEF PlanPayload, At, MayStart, Moved, Dropped
<1>2. ASSUME Refuse(p, t) PROVE Moved(p, t)
    BY <1>2, LeaveMove DEF Refuse, At, MayStart, Moved, Dropped
<1>3. ASSUME WriteFailsUnguarded(p, t) PROVE Moved(p, t)
    BY <1>3, LeaveMove DEF WriteFailsUnguarded, At, MayStart, Moved, Dropped
<1>4. ASSUME CancelActive(p, t) PROVE Moved(p, t)
    BY <1>4 DEF CancelActive, Moved, Still
<1>5. ASSUME BudgetExpires(p, t) PROVE Moved(p, t)
    BY <1>5 DEF BudgetExpires, Moved, Still
<1>6. ASSUME KeyIsFree(p, t) PROVE Moved(p, t)
    BY <1>6, GotoMove DEF KeyIsFree, FoundCommit, At, Moved, Advanced
<1>7. ASSUME SaveReceipt(p, t) PROVE Moved(p, t)
    BY <1>7, GotoMove DEF SaveReceipt, At, Moved, Advanced
<1>8. ASSUME RecoveryReceipt(p, t) PROVE Moved(p, t)
    BY <1>8, GotoMove DEF RecoveryReceipt, At, Moved, Advanced
<1>9. ASSUME Certify(p, t) PROVE Moved(p, t)
    BY <1>9, GotoMove DEF Certify, Certified, At, Moved, Advanced, TypeOK
<1>10. ASSUME Settle(p, t) PROVE Moved(p, t)
    BY <1>10, GotoMove, SaveMove DEF Settle, At, Moved, Advanced
<1>11. ASSUME Seal(p, t) PROVE Moved(p, t)
    BY <1>11, LeaveMove, SaveMove DEF Seal, At, Moved, Ended
<1>12. ASSUME CancelWrite(p, t) PROVE Moved(p, t)
    BY <1>12, LeaveMove, SaveMove DEF CancelWrite, At, Moved, Ended
<1>13. ASSUME Execute(p, t) PROVE Moved(p, t)
    BY <1>13, GotoMove, WorkMove DEF Execute, Idle, Moved, Taken
<1>14. ASSUME CancelPlanned(p, t) PROVE Moved(p, t)
  <2> DEFINE r == [row[t] EXCEPT !.status = "cancelled"]
  <2>1. r.status = "cancelled" /\ r.challenge = row[t].challenge
    BY <1>s, StatusOf
  <2>2. Work(p, t, r) /\ Goto(p, t, "cancel")
    BY <1>14 DEF CancelPlanned
  <2> HIDE DEF r
  <2>3. mem'[p][t] = r /\ pc'[p][t] = "cancel"
    BY <2>2, GotoMove, WorkMove
  <2> QED
    BY <1>14, <2>1, <2>3 DEF CancelPlanned, Idle, Cancellable, Moved, Taken
<1>15. ASSUME PreventDuplicate(p, t) PROVE Moved(p, t)
  <2> DEFINE r == [mem[p][t] EXCEPT !.status = "cancelled", !.error = "duplicate"]
  <2>1. r.status = "cancelled" /\ r.challenge = mem[p][t].challenge
    BY <1>s, StatusOf
  <2>2. Work(p, t, r) /\ SaveTask(t, r) /\ Goto(p, t, "certify")
    BY <1>15 DEF PreventDuplicate
  <2>f. frame'[p][t] = frame[p][t]
    BY <1>15 DEF PreventDuplicate
  <2> HIDE DEF r
  <2>3. mem'[p][t] = r /\ row'[t] = r /\ pc'[p][t] = "certify"
    BY <2>2, GotoMove, WorkMove, SaveMove
  <2>4. pc[p][t] = "keyCheck" /\ cert' = cert
    BY <1>15 DEF PreventDuplicate, MayStart, At
  <2> QED
    BY <2>1, <2>f, <2>3, <2>4 DEF Moved, Wrote
<1>16. ASSUME Block(p, t) PROVE Moved(p, t)
  <2> DEFINE r == [mem[p][t] EXCEPT !.status = "policy_blocked"]
  <2>1. r.status = "policy_blocked" /\ r.challenge = mem[p][t].challenge
    BY <1>s, StatusOf
  <2>2. Work(p, t, r) /\ SaveTask(t, r) /\ Goto(p, t, "certify")
    BY <1>16 DEF Block
  <2>f. frame'[p][t] = frame[p][t]
    BY <1>16 DEF Block
  <2> HIDE DEF r
  <2>3. mem'[p][t] = r /\ row'[t] = r /\ pc'[p][t] = "certify"
    BY <2>2, GotoMove, WorkMove, SaveMove
  <2>4. pc[p][t] = "admit" /\ cert' = cert
    BY <1>16 DEF Block, MayStart, At
  <2> QED
    BY <2>1, <2>f, <2>3, <2>4 DEF Moved, Wrote
<1>17. ASSUME Admit(p, t) PROVE Moved(p, t)
  <2> DEFINE r == [mem[p][t] EXCEPT !.status = "running"]
  <2>1. r.status = "running" /\ r.challenge = mem[p][t].challenge
    BY <1>s, StatusOf
  <2>2. Work(p, t, r) /\ SaveTask(t, r) /\ Goto(p, t, "start")
    BY <1>17 DEF Admit
  <2>f. frame'[p][t] = "try"
    BY <1>17, SetterEffects DEF Admit
  <2> HIDE DEF r
  <2>3. mem'[p][t] = r /\ row'[t] = r /\ pc'[p][t] = "start"
    BY <2>2, GotoMove, WorkMove, SaveMove
  <2>4. pc[p][t] = "admit" /\ cert' = cert
    BY <1>17 DEF Admit, MayStart, At
  <2>5. MayLaunch(p, t)
    <3>1. OutcomeOf(p, t) = "allow" \/ (OutcomeOf(p, t) = "confirm" /\ mem[p][t].challenge)
      BY <1>17 DEF Admit, MayStart
    <3> QED
      BY <3>1 DEF MayLaunch
  <2> QED
    BY <2>1, <2>f, <2>3, <2>4, <2>5 DEF Moved, Wrote
<1>18. ASSUME AdapterAnswers(p, t) PROVE Moved(p, t)
  <2>0. PICK o : LET r == [mem[p][t] EXCEPT !.status = "verifying", !.result = o]
                 IN Work(p, t, r) /\ SaveTask(t, r)
    BY <1>18 DEF AdapterAnswers
  <2> DEFINE r == [mem[p][t] EXCEPT !.status = "verifying", !.result = o]
  <2>1. r.status = "verifying" /\ r.challenge = mem[p][t].challenge
    BY <1>s, StatusOf
  <2>2. Work(p, t, r) /\ SaveTask(t, r)
    BY <2>0
  <2> HIDE DEF r
  <2>3. mem'[p][t] = r /\ row'[t] = r
    BY <2>2, WorkMove, SaveMove
  <2>4. pc[p][t] = "adapter" /\ pc'[p][t] = "verify" /\ cert' = cert /\ frame' = frame
    BY <1>18, GotoMove DEF AdapterAnswers
  <2> QED
    BY <2>1, <2>3, <2>4 DEF Moved, Wrote
<1>19. ASSUME VerifierAnswers(p, t) PROVE Moved(p, t)
  <2>a. PICK s \in {"verified_success", "cancelled", "partial", "failed"} :
            \E e : Work(p, t, [mem[p][t] EXCEPT !.status = s, !.error = e])
    BY <1>19 DEF VerifierAnswers
  <2>0. PICK e : Work(p, t, [mem[p][t] EXCEPT !.status = s, !.error = e])
    BY <2>a
  <2> DEFINE r == [mem[p][t] EXCEPT !.status = s, !.error = e]
  <2>1. r.status = s /\ r.challenge = mem[p][t].challenge
    BY <1>s, StatusOf
  <2>2. Work(p, t, r)
    BY <2>0
  <2> HIDE DEF r
  <2>3. mem'[p][t] = r
    BY <2>2, WorkMove
  <2>4. /\ pc[p][t] = "verify" /\ pc'[p][t] = "receipt" /\ cert' = cert /\ frame' = frame
        /\ row' = row
    BY <1>19, GotoMove DEF VerifierAnswers
  <2> QED
    BY <2>1, <2>3, <2>4 DEF Moved, Judged
<1>20. ASSUME Reobserve(p, t) PROVE Moved(p, t)
  <2> DEFINE r == [mem[p][t] EXCEPT !.status = "verified_success", !.error = "none"]
  <2>1. r.status = "verified_success" /\ r.challenge = mem[p][t].challenge
    BY <1>s, StatusOf
  <2>2. Work(p, t, r)
    BY <1>20 DEF Reobserve
  <2> HIDE DEF r
  <2>3. mem'[p][t] = r
    BY <2>2, WorkMove
  <2>4. /\ pc[p][t] = "recover" /\ pc'[p][t] = "recReceipt" /\ cert' = cert
        /\ frame' = frame /\ row' = row
        /\ mem[p][t].status = "verifying" /\ EffectOf(t) # "read"
    BY <1>20, GotoMove DEF Reobserve, Recovering, Reobservable
  <2> QED
    BY <2>1, <2>3, <2>4 DEF Moved, Judged
<1>21. ASSUME Reclassify(p, t) PROVE Moved(p, t)
  <2> DEFINE s == IF EffectOf(t) = "read" THEN "planned" ELSE "recovery_required"
             r == [mem[p][t] EXCEPT !.status = s, !.error = "interrupted"]
  <2>1. r.status = s /\ r.challenge = mem[p][t].challenge
    BY <1>s, StatusOf
  <2>2. SaveTask(t, r)
    BY <1>21 DEF Reclassify
  <2> HIDE DEF r
  <2>3. row'[t] = r
    BY <2>2, SaveMove
  <2>4. /\ pc[p][t] = "recover" /\ cert' = cert
        /\ pc'[p][t] = "idle" /\ mem'[p][t] = NoRow /\ frame'[p][t] = "none"
    BY <1>21, LeaveMove DEF Reclassify, Recovering
  <2> QED
    BY <2>1, <2>3, <2>4 DEF Moved, Returned
<1>22. ASSUME Plan(p, t) PROVE Moved(p, t)
  <2>1. PICK s \in Executable \cup {"policy_blocked"} :
            /\ SaveTask(t, [NoRow EXCEPT !.status = s, !.challenge = (s = "awaiting_approval")])
            /\ IF s = "policy_blocked" THEN UNCHANGED <<pc, busy>>
                                       ELSE Goto(p, t, "plan") /\ Hold(p, t)
    <3>1. OutcomeOf(p, t) \in Outcomes
      BY ConstantsAssumption DEF TypeOK, OutcomeOf, EffectOf
    <3> QED
      BY <1>22, <3>1 DEF Plan, Executable, Outcomes
  <2> DEFINE r == [NoRow EXCEPT !.status = s, !.challenge = (s = "awaiting_approval")]
  <2>2. r.status = s
    BY DEF NoRow
  <2>3. SaveTask(t, r)
    BY <2>1
  <2> HIDE DEF r
  <2>4. row'[t] = r
    BY <2>3, SaveMove
  <2>5. \/ pc'[p][t] = "plan" /\ s \in Executable
        \/ pc'[p][t] = pc[p][t] /\ s = "policy_blocked"
    BY <2>1, GotoMove
  <2>6. /\ mode[p] = "serving" /\ pc[p][t] = "idle" /\ row[t] = NoRow
        /\ mem' = mem /\ frame' = frame /\ cert' = cert
    BY <1>22 DEF Plan, Idle
  <2> QED
    BY <2>2, <2>4, <2>5, <2>6 DEF Moved, Planned
<1>23. ASSUME Start(p, t) PROVE Moved(p, t)
  <2>0. /\ pc[p][t] = "start" /\ cert' = cert
        /\ \/ Catch(p, t) /\ row' = row
           \/ Launch(p, t, 1) /\ frame' = frame
    BY <1>23 DEF Start, At
  <2>1. CASE Catch(p, t) /\ row' = row
    <3>1. Catch(p, t) /\ frame[p][t] = "try"
      BY <1>f, <2>0, <2>1
    <3> QED
      BY <2>0, <2>1, <3>1, CatchMove DEF Moved, Caught
  <2>2. CASE Launch(p, t, 1) /\ frame' = frame
    <3>1. Launch(p, t, 1) /\ 1 \in Nat
      BY <1>s, <2>2 DEF Row
    <3>2. /\ pc'[p][t] = "adapter" /\ row'[t] = mem'[p][t]
          /\ mem'[p][t].status = mem[p][t].status
          /\ mem'[p][t].challenge = mem[p][t].challenge
      BY <3>1, LaunchMove
    <3> QED
      BY <2>0, <2>2, <3>2 DEF Moved, Wrote
  <2> QED
    BY <2>0, <2>1, <2>2
<1>24. ASSUME AdapterThrows(p, t) PROVE Moved(p, t)
  <2>0. /\ pc[p][t] = "adapter" /\ cert' = cert
        /\ \/ Catch(p, t) /\ row' = row
           \/ Launch(p, t, mem[p][t].attempts + 1) /\ frame' = frame
    BY <1>24 DEF AdapterThrows, At
  <2>1. CASE Catch(p, t) /\ row' = row
    <3>1. Catch(p, t) /\ frame[p][t] = "try"
      BY <1>f, <2>0, <2>1
    <3> QED
      BY <2>0, <2>1, <3>1, CatchMove DEF Moved, Caught
  <2>2. CASE Launch(p, t, mem[p][t].attempts + 1) /\ frame' = frame
    <3>1. Launch(p, t, mem[p][t].attempts + 1) /\ mem[p][t].attempts + 1 \in Nat
      BY <1>s, <2>2 DEF Row
    <3>2. /\ pc'[p][t] = "adapter" /\ row'[t] = mem'[p][t]
          /\ mem'[p][t].status = mem[p][t].status
          /\ mem'[p][t].challenge = mem[p][t].challenge
      BY <3>1, LaunchMove
    <3> QED
      BY <2>0, <2>2, <3>2 DEF Moved, Wrote
  <2> QED
    BY <2>0, <2>1, <2>2
<1>25. ASSUME WriteFailsInTry(p, t) PROVE Moved(p, t)
  <2>1. Catch(p, t)
    BY <1>25 DEF WriteFailsInTry
  <2> QED
    BY <1>25, <2>1, CatchMove DEF WriteFailsInTry, Moved, Caught
<1> QED
    BY <1>1, <1>2, <1>3, <1>4, <1>5, <1>6, <1>7, <1>8, <1>9, <1>10,
       <1>11, <1>12, <1>13, <1>14, <1>15, <1>16, <1>17, <1>18, <1>19, <1>20,
       <1>21, <1>22, <1>23, <1>24, <1>25
       DEF TaskStep, Call, Segment, Answer, Fault, Recover
-----------------------------------------------------------------------------
(* The shape of a call, whoever else works on the task.                        *)

\* Where a call has not entered the try block.
Early == {"idle", "plan", "keyCheck", "admit", "cancel", "recover", "recReceipt"}

\* Of the call of p on t, whoever else works on the task.
CallShape(p, t) ==
    /\ pc[p][t] \in Early => frame[p][t] = "none"
    /\ pc[p][t] \in {"start", "adapter", "verify"} => frame[p][t] = "try"
    /\ pc[p][t] \in {"receipt", "settle"} => frame[p][t] # "none"
    /\ pc[p][t] # "idle" => row[t].status # "absent"
    /\ pc[p][t] \notin {"idle", "plan"} =>
          mem[p][t].challenge = row[t].challenge /\ mem[p][t].status # "absent"
    /\ mode[p] = "down" => pc[p][t] = "idle"
    /\ pc[p][t] \in {"start", "adapter"} => MayLaunch(p, t)

ShapeInv == \A p \in Proc, t \in Task : CallShape(p, t)

\* A step on a task changes no mode, no policy and no request.
LEMMA StepKeeps ==
    ASSUME NEW p \in Proc, NEW t \in Task, TaskStep(p, t)
    PROVE  mode' = mode /\ policy' = policy /\ request' = request
<1> USE DEF base
<1>1. Call(p, t) \/ Fault(p, t) \/ Recover(p, t) \/ BudgetExpires(p, t) =>
          mode' = mode /\ policy' = policy /\ request' = request
    BY DEF Call, Recover, Fault, BudgetExpires, Plan, Execute, CancelActive, CancelPlanned,
           Reobserve, Reclassify, WriteFailsUnguarded, WriteFailsInTry
<1>2. Answer(p, t) => mode' = mode /\ policy' = policy /\ request' = request
    BY DEF Answer, AdapterAnswers, AdapterThrows, VerifierAnswers
<1>3. Segment(p, t) => mode' = mode /\ policy' = policy /\ request' = request
    BY DEF Segment, PlanPayload, PreventDuplicate, KeyIsFree, Refuse, Block, Admit, Start,
           SaveReceipt, Settle, Certify, Seal, CancelWrite, RecoveryReceipt
<1> QED
    BY <1>1, <1>2, <1>3 DEF TaskStep

\* A move keeps the shape of its own call.
LEMMA ShapeOfMove ==
    ASSUME NEW p \in Proc, NEW t \in Task, CallShape(p, t), Moved(p, t),
           mode' = mode, policy' = policy, request' = request
    PROVE  CallShape(p, t)'
<1>1. NoRow.status = "absent"
    BY DEF NoRow
<1>2. OutcomeOf(p, t)' = OutcomeOf(p, t)
    BY DEF OutcomeOf, EffectOf
<1> USE DEF CallShape, Early, MayLaunch
<1>3. Dropped(p, t) => CallShape(p, t)'
    BY <1>1, <1>2 DEF Dropped
<1>4. Caught(p, t) => CallShape(p, t)'
    BY <1>1, <1>2 DEF Caught
<1>5. Advanced(p, t) => CallShape(p, t)'
    BY <1>1, <1>2 DEF Advanced
<1>6. Ended(p, t) => CallShape(p, t)'
    BY <1>1, <1>2 DEF Ended
<1>7. Taken(p, t) => CallShape(p, t)'
    BY <1>1, <1>2 DEF Taken, Executable
<1>8. Wrote(p, t) => CallShape(p, t)'
    BY <1>1, <1>2 DEF Wrote
<1>9. Judged(p, t) => CallShape(p, t)'
    BY <1>1, <1>2 DEF Judged
<1>10. Planned(p, t) => CallShape(p, t)'
    BY <1>1, <1>2 DEF Planned, Executable
<1>11. Returned(p, t) => CallShape(p, t)'
    BY <1>1, <1>2 DEF Returned
<1>12. Still(p, t) => CallShape(p, t)'
    BY <1>1, <1>2 DEF Still
<1> QED
    BY <1>3, <1>4, <1>5, <1>6, <1>7, <1>8, <1>9, <1>10, <1>11, <1>12 DEF Moved

\* It never forgets that a task was planned, nor its challenge.
LEMMA RowOfMove ==
    ASSUME NEW p \in Proc, NEW t \in Task, CallShape(p, t), Moved(p, t),
           row[t].status # "absent"
    PROVE  row'[t].status # "absent" /\ row'[t].challenge = row[t].challenge
<1>1. NoRow.status = "absent"
    BY DEF NoRow
<1> USE DEF CallShape
<1>2. Dropped(p, t) =>
          row'[t].status # "absent" /\ row'[t].challenge = row[t].challenge
    BY <1>1 DEF Dropped
<1>3. Caught(p, t) =>
          row'[t].status # "absent" /\ row'[t].challenge = row[t].challenge
    BY <1>1 DEF Caught
<1>4. Advanced(p, t) =>
          row'[t].status # "absent" /\ row'[t].challenge = row[t].challenge
    BY <1>1 DEF Advanced
<1>5. Ended(p, t) =>
          row'[t].status # "absent" /\ row'[t].challenge = row[t].challenge
    BY <1>1 DEF Ended
<1>6. Taken(p, t) =>
          row'[t].status # "absent" /\ row'[t].challenge = row[t].challenge
    BY <1>1 DEF Taken
<1>7. Wrote(p, t) =>
          row'[t].status # "absent" /\ row'[t].challenge = row[t].challenge
    BY <1>1 DEF Wrote
<1>8. Judged(p, t) =>
          row'[t].status # "absent" /\ row'[t].challenge = row[t].challenge
    BY <1>1 DEF Judged
<1>9. Planned(p, t) =>
          row'[t].status # "absent" /\ row'[t].challenge = row[t].challenge
    BY <1>1 DEF Planned
<1>10. Returned(p, t) =>
          row'[t].status # "absent" /\ row'[t].challenge = row[t].challenge
    BY <1>1 DEF Returned
<1>11. Still(p, t) =>
          row'[t].status # "absent" /\ row'[t].challenge = row[t].challenge
    BY <1>1 DEF Still
<1> QED
    BY <1>2, <1>3, <1>4, <1>5, <1>6, <1>7, <1>8, <1>9, <1>10, <1>11 DEF Moved

LEMMA ShapeStep ==
    ASSUME TypeOK, ShapeInv, NEW p \in Proc, NEW t \in Task, TaskStep(p, t)
    PROVE  ShapeInv' /\ Moved(p, t)
<1>1. CallShape(p, t)
    BY DEF ShapeInv
<1>2. Moved(p, t)
    BY <1>1, StepMoves DEF CallShape
<1>3. mode' = mode /\ policy' = policy /\ request' = request
    BY StepKeeps
<1>4. Elsewhere(p, t)
    BY Locality
<1>5. ASSUME NEW q \in Proc, NEW u \in Task PROVE CallShape(q, u)'
  <2>1. CASE q = p /\ u = t
    BY <1>1, <1>2, <1>3, <2>1, ShapeOfMove
  <2>2. CASE q # p \/ u # t
    <3>1. CallShape(q, u)
      BY DEF ShapeInv
    <3>2. pc'[q][u] = pc[q][u] /\ mem'[q][u] = mem[q][u] /\ frame'[q][u] = frame[q][u]
      BY <1>4, <2>2 DEF Elsewhere
    <3>3. row[u].status # "absent" =>
              row'[u].status # "absent" /\ row'[u].challenge = row[u].challenge
      <4>1. CASE u = t
        BY <1>1, <1>2, <4>1, RowOfMove
      <4>2. CASE u # t
        BY <1>4, <4>2 DEF Elsewhere
      <4> QED
        BY <4>1, <4>2
    <3>4. OutcomeOf(q, u)' = OutcomeOf(q, u)
      BY <1>3 DEF OutcomeOf, EffectOf
    <3> QED
      BY <1>3, <3>1, <3>2, <3>3, <3>4 DEF CallShape, MayLaunch
  <2> QED
    BY <2>1, <2>2
<1> QED
    BY <1>2, <1>5 DEF ShapeInv

LEMMA ShapeInvariance ==
    TypeOK /\ ShapeInv /\ [Next]_vars => ShapeInv'
<1> SUFFICES ASSUME TypeOK, ShapeInv, [Next]_vars PROVE ShapeInv'
    OBVIOUS
<1> USE DEF base, durable, records, locals, signals, breaker, history
<1>1. ASSUME NEW p \in Proc, NEW t \in Task, TaskStep(p, t) PROVE ShapeInv'
    BY <1>1, ShapeStep
<1>2. ASSUME NEW p \in Proc, NEW g \in Target, CooldownPasses(p, g) PROVE ShapeInv'
    BY <1>2 DEF CooldownPasses, ShapeInv, CallShape, MayLaunch, OutcomeOf, EffectOf
<1>3. ASSUME NEW p \in Proc, Crash(p) PROVE ShapeInv'
  <2> SUFFICES ASSUME NEW q \in Proc, NEW t \in Task PROVE CallShape(q, t)'
    BY DEF ShapeInv
  <2>1. CallShape(q, t) /\ row' = row /\ OutcomeOf(q, t)' = OutcomeOf(q, t)
    BY <1>3 DEF ShapeInv, Crash, OutcomeOf, EffectOf
  <2>2. \/ q = p /\ pc'[q][t] = "idle" /\ frame'[q][t] = "none"
        \/ /\ pc'[q][t] = pc[q][t] /\ mem'[q][t] = mem[q][t] /\ mode'[q] = mode[q]
           /\ frame'[q][t] = frame[q][t]
    BY <1>3 DEF Crash, TypeOK
  <2> QED
    BY <2>1, <2>2 DEF CallShape, MayLaunch
<1>4. ASSUME NEW p \in Proc, Boot(p) PROVE ShapeInv'
  <2> SUFFICES ASSUME NEW q \in Proc, NEW t \in Task PROVE CallShape(q, t)'
    BY DEF ShapeInv
  <2>1. CallShape(q, t) /\ row' = row /\ frame' = frame
    BY <1>4 DEF ShapeInv, Boot
  <2>2. CASE q = p
    <3>1. /\ mode[p] = "down" /\ mode'[p] = "recovering"
          /\ pc'[p][t] = "idle" \/ (pc'[p][t] = "recover" /\ mem'[p][t] = row[t]
                                     /\ row[t].status \in InFlight)
      BY <1>4 DEF Boot, Interrupted, TypeOK
    <3> QED
      BY <2>1, <2>2, <3>1 DEF CallShape, Early, InFlight
  <2>3. CASE q # p
    <3>1. /\ pc'[q] = pc[q] /\ mem'[q] = mem[q] /\ mode'[q] = mode[q]
          /\ policy'[q] = policy[q] /\ request' = request
      BY <1>4, <2>3 DEF Boot, TypeOK
    <3>2. OutcomeOf(q, t)' = OutcomeOf(q, t)
      BY <3>1 DEF OutcomeOf, EffectOf
    <3> QED
      BY <2>1, <3>1, <3>2 DEF CallShape, MayLaunch
  <2> QED
    BY <2>2, <2>3
<1>5. ASSUME NEW p \in Proc, Serve(p) PROVE ShapeInv'
  <2> SUFFICES ASSUME NEW q \in Proc, NEW t \in Task PROVE CallShape(q, t)'
    BY DEF ShapeInv
  <2>1. /\ pc' = pc /\ mem' = mem /\ frame' = frame /\ row' = row
        /\ mode'[q] = "down" => mode[q] = "down"
    BY <1>5 DEF Serve, TypeOK
  <2>2. OutcomeOf(q, t)' = OutcomeOf(q, t)
    BY <1>5 DEF Serve, OutcomeOf, EffectOf
  <2>3. CallShape(q, t)
    BY DEF ShapeInv
  <2> QED
    BY <2>1, <2>2, <2>3 DEF CallShape, MayLaunch
<1>6. CASE UNCHANGED vars
    BY <1>6 DEF vars, ShapeInv, CallShape, MayLaunch, OutcomeOf, EffectOf
<1> QED
    BY <1>1, <1>2, <1>3, <1>4, <1>5, <1>6 DEF Next

LEMMA ShapeInit == Init => TypeOK /\ ShapeInv
<1>1. Init => TypeOK
    BY ConstantsAssumption, NoRowType DEF Init, TypeOK, Steps, Results
<1>2. Init => ShapeInv
    BY DEF Init, ShapeInv, CallShape, Early
<1> QED
    BY <1>1, <1>2

\* Whatever processes share the store, and however often they restart under another
\* policy: the adapter of a task is called only by a process whose own policy lets the
\* task run, and one that asks for confirmation has the challenge in the stored row.
THEOREM LaunchesObeyPolicy == Spec => LaunchUnderOwnPolicy
<1> DEFINE Allowed(t) ==
               \E p \in Proc : /\ pc[p][t] \in {"start", "adapter"}
                               /\ OutcomeOf(p, t) # "deny"
                               /\ OutcomeOf(p, t) = "confirm" => row[t].challenge
<1>1. TypeOK /\ ShapeInv /\ [Next]_vars =>
          \A t \in Task : launches'[t] > launches[t] => Allowed(t)
  <2> SUFFICES ASSUME TypeOK, ShapeInv, [Next]_vars,
                      NEW t \in Task, launches'[t] > launches[t]
               PROVE  Allowed(t)
    <3> HIDE DEF Allowed
    <3> QED
      OBVIOUS
  <2> USE DEF base, durable, records, locals, signals, breaker, history
  <2>1. launches' # launches
    BY DEF TypeOK
  <2>2. PICK p \in Proc, u \in Task : TaskStep(p, u)
    BY <2>1 DEF Next, CooldownPasses, Crash, Boot, Serve, vars
  <2>3. /\ pc[p][u] \in {"start", "adapter"}
        /\ \E n \in Nat : Launch(p, u, n)
    <3>1. mem[p][u].attempts + 1 \in Nat
      BY DEF TypeOK, Row
    <3>2. 1 \in Nat
      OBVIOUS
    <3> QED
      BY <2>1, <2>2, <3>1, <3>2, LaunchesElsewhere
  <2>4. u = t
    <3>1. PICK n \in Nat : Launch(p, u, n)
      BY <2>3
    <3>2. t # u => launches'[t] = launches[t]
      BY <3>1, LaunchCounts
    <3>3. launches[t] \in Nat
      BY DEF TypeOK
    <3> QED
      BY <3>2, <3>3
  <2>5. CallShape(p, t)
    BY DEF ShapeInv
  <2> QED
    BY <2>3, <2>4, <2>5 DEF CallShape, MayLaunch
<1> QED
    BY <1>1, ShapeInit, TypeStep, ShapeInvariance, PTL DEF Spec, LaunchUnderOwnPolicy
-----------------------------------------------------------------------------
(* Row, certificate and call, when one process owns the store.                 *)

\* What the certificate says of a row at rest.
RowAgrees(t) ==
    /\ row[t].status \in Executable \cup {"absent"} => cert[t] = "none"
    /\ row[t].status \in InFlight /\ cert[t] # "none" => EffectOf(t) # "read"
    /\ row[t].status \in Final /\ cert[t] # "none" =>
          \/ cert[t] = CertificateResult(row[t].status)
          \/ StoreMayFail /\ row[t].error = "error"

\* What the row and the certificate are while the call of p on t is at each step.
CallAgrees(p, t) ==
    /\ pc[p][t] \in {"plan", "cancel"} => row[t].status \in Executable
    /\ pc[p][t] = "cancel" => mem[p][t].status = "cancelled"
    /\ pc[p][t] \in {"keyCheck", "admit"} => row[t].status \in Executable /\ mem[p][t] = row[t]
    /\ pc[p][t] \in {"start", "adapter"} =>
          row[t].status = "running" /\ mem[p][t] = row[t] /\ cert[t] = "none"
    /\ pc[p][t] = "verify" => row[t].status = "verifying" /\ cert[t] = "none"
    /\ pc[p][t] \in {"receipt", "settle"} =>
          /\ mem[p][t].status \in Final
          /\ \/ row[t].status \in InFlight /\ cert[t] = "none"
             \/ /\ StoreMayFail /\ frame[p][t] = "catch" /\ mem[p][t].error = "error"
                /\ row[t].status \in InFlight \cup Final
                /\ row[t].status \in InFlight => cert[t] = "none"
    /\ pc[p][t] = "recover" => row[t].status \in InFlight /\ mem[p][t] = row[t]
    /\ pc[p][t] = "recReceipt" =>
          row[t].status = "verifying" /\ mem[p][t].status = "verified_success"
          /\ EffectOf(t) # "read"
    /\ pc[p][t] \in {"certify", "seal"} =>
          /\ mem[p][t].status \in Final
          /\ \/ row[t] = mem[p][t]
             \/ /\ row[t].status = "verifying" /\ mem[p][t].status = "verified_success"
                /\ EffectOf(t) # "read" /\ frame[p][t] = "none"
          /\ pc[p][t] = "seal" => cert[t] = CertificateResult(mem[p][t].status)

AgreeInv == (\A t \in Task : RowAgrees(t)) /\ (\A p \in Proc, t \in Task : CallAgrees(p, t))

\* A status that ends a task is kept by a step, if the store does not fail.
StatusKept(t) ==
    ~StoreMayFail /\ row[t].status \in Final => row'[t].status = row[t].status

\* A move keeps row, certificate and call in agreement, and a final status as it is.
LEMMA AgreeOfMove ==
    ASSUME NEW p \in Proc, NEW t \in Task, pc[p][t] \in Steps, request' = request,
           CallShape(p, t), RowAgrees(t), CallAgrees(p, t), Moved(p, t)
    PROVE  RowAgrees(t)' /\ CallAgrees(p, t)' /\ StatusKept(t)
<1> DEFINE Goal == RowAgrees(t)' /\ CallAgrees(p, t)' /\ StatusKept(t)
<1>1. NoRow.status = "absent"
    BY DEF NoRow
<1>2. EffectOf(t)' = EffectOf(t)
    BY DEF EffectOf
<1> USE DEF CallShape, RowAgrees, CallAgrees, StatusKept, Executable, InFlight, Final
<1>3. Dropped(p, t) => Goal
    BY <1>1, <1>2 DEF Dropped
<1>4. ASSUME Caught(p, t) PROVE Goal
  <2>1. /\ pc'[p][t] = "receipt" /\ frame'[p][t] = "catch" /\ frame[p][t] = "try"
        /\ mem'[p][t].status \in Final /\ mem'[p][t].error = "error"
        /\ row'[t] = row[t] /\ cert'[t] = cert[t]
        /\ pc[p][t] \in {"start", "adapter"} \/ StoreMayFail
    BY <1>4 DEF Caught
  <2>2. RowAgrees(t)' /\ StatusKept(t)
    BY <1>2, <2>1
  <2>3. pc[p][t] \in {"start", "adapter", "verify", "receipt", "settle", "certify", "seal"}
    BY <2>1 DEF Early, Steps
  <2>4. /\ row[t].status \in InFlight \cup Final
        /\ row[t].status \in InFlight => cert[t] = "none"
        /\ ~StoreMayFail => row[t].status \in InFlight
    BY <2>1, <2>3
  <2>5. CallAgrees(p, t)'
    BY <2>1, <2>4
  <2> QED
    BY <2>2, <2>5
<1>5. ASSUME Advanced(p, t) PROVE Goal
  <2>1. /\ mem'[p][t] = mem[p][t] /\ frame'[p][t] = frame[p][t]
        /\ row'[t] = IF pc[p][t] = "settle" THEN mem[p][t] ELSE row[t]
        /\ cert'[t] = IF pc[p][t] = "certify" THEN CertificateResult(mem[p][t].status)
                                              ELSE cert[t]
    BY <1>5 DEF Advanced
  <2>2. CASE pc[p][t] = "keyCheck" /\ pc'[p][t] = "admit"
    BY <1>2, <2>1, <2>2
  <2>3. CASE pc[p][t] = "receipt" /\ pc'[p][t] = "settle"
    BY <1>2, <2>1, <2>3
  <2>4. CASE pc[p][t] = "settle" /\ pc'[p][t] = "certify"
    BY <1>2, <2>1, <2>4
  <2>5. CASE pc[p][t] = "certify" /\ pc'[p][t] = "seal"
    BY <1>2, <2>1, <2>5
  <2>6. CASE pc[p][t] = "recReceipt" /\ pc'[p][t] = "certify"
    BY <1>2, <2>1, <2>6 DEF Early
  <2>7. \/ pc[p][t] = "keyCheck" /\ pc'[p][t] = "admit"
        \/ pc[p][t] = "receipt" /\ pc'[p][t] = "settle"
        \/ pc[p][t] = "settle" /\ pc'[p][t] = "certify"
        \/ pc[p][t] = "certify" /\ pc'[p][t] = "seal"
        \/ pc[p][t] = "recReceipt" /\ pc'[p][t] = "certify"
    BY <1>5 DEF Advanced
  <2> HIDE DEF Goal
  <2> QED
    BY ONLY <2>2, <2>3, <2>4, <2>5, <2>6, <2>7
<1>6. Ended(p, t) => Goal
    BY <1>1, <1>2 DEF Ended
<1>7. Taken(p, t) => Goal
    BY <1>1, <1>2 DEF Taken
<1>8. Wrote(p, t) => Goal
    BY <1>1, <1>2 DEF Wrote
<1>9. Judged(p, t) => Goal
    BY <1>1, <1>2 DEF Judged
<1>10. Planned(p, t) => Goal
    BY <1>1, <1>2 DEF Planned
<1>11. Returned(p, t) => Goal
    BY <1>1, <1>2 DEF Returned
<1>12. Still(p, t) => Goal
    BY <1>1, <1>2 DEF Still
<1> QED
    BY <1>3, <1>4, <1>5, <1>6, <1>7, <1>8, <1>9, <1>10, <1>11, <1>12 DEF Moved

\* With one process, so does every step of the system.
LEMMA AgreeStep ==
    ASSUME OneProcess, TypeOK, ShapeInv, AgreeInv, [Next]_vars
    PROVE  AgreeInv' /\ \A t \in Task : StatusKept(t)
<1> USE DEF base, durable, records, locals, signals, breaker, history
<1>1. ASSUME NEW p \in Proc, NEW t \in Task, TaskStep(p, t)
      PROVE  AgreeInv' /\ \A u \in Task : StatusKept(u)
  <2>1. Moved(p, t) /\ request' = request /\ Elsewhere(p, t)
    BY <1>1, ShapeStep, StepKeeps, Locality
  <2>2. RowAgrees(t)' /\ CallAgrees(p, t)' /\ StatusKept(t)
    <3>1. pc[p][t] \in Steps
      BY DEF TypeOK
    <3>2. CallShape(p, t) /\ RowAgrees(t) /\ CallAgrees(p, t)
      BY DEF ShapeInv, AgreeInv
    <3> QED
      BY <2>1, <3>1, <3>2, AgreeOfMove
  <2>3. ASSUME NEW u \in Task, u # t
        PROVE  RowAgrees(u)' /\ StatusKept(u) /\ \A q \in Proc : CallAgrees(q, u)'
    <3>1. row'[u] = row[u] /\ cert'[u] = cert[u] /\ EffectOf(u)' = EffectOf(u)
      BY <2>1, <2>3 DEF Elsewhere, EffectOf
    <3>2. \A q \in Proc : /\ pc'[q][u] = pc[q][u] /\ mem'[q][u] = mem[q][u]
                          /\ frame'[q][u] = frame[q][u]
      BY <2>1, <2>3 DEF Elsewhere
    <3>3. RowAgrees(u) /\ \A q \in Proc : CallAgrees(q, u)
      BY DEF AgreeInv
    <3> QED
      BY <3>1, <3>2, <3>3 DEF RowAgrees, CallAgrees, StatusKept
  <2>4. \A q \in Proc : q = p
    BY DEF OneProcess
  <2> QED
    BY <2>2, <2>3, <2>4 DEF AgreeInv
<1>2. ASSUME row' = row, cert' = cert, request' = request,
             \A p \in Proc, t \in Task :
                \/ pc'[p][t] = "idle"
                \/ pc'[p][t] = "recover" /\ mem'[p][t] = row[t] /\ row[t].status \in InFlight
                \/ /\ pc'[p][t] = pc[p][t] /\ mem'[p][t] = mem[p][t]
                   /\ frame'[p][t] = frame[p][t]
      PROVE  AgreeInv' /\ \A t \in Task : StatusKept(t)
  <2>1. \A t \in Task : RowAgrees(t)' /\ StatusKept(t)
    BY <1>2 DEF AgreeInv, RowAgrees, StatusKept, EffectOf
  <2>2. ASSUME NEW p \in Proc, NEW t \in Task PROVE CallAgrees(p, t)'
    <3>1. CallAgrees(p, t) /\ EffectOf(t)' = EffectOf(t)
      BY <1>2 DEF AgreeInv, EffectOf
    <3>2. CASE pc'[p][t] = "idle"
      BY <3>2 DEF CallAgrees
    <3>3. CASE pc'[p][t] = "recover" /\ mem'[p][t] = row[t] /\ row[t].status \in InFlight
      BY <1>2, <3>3 DEF CallAgrees
    <3>4. CASE /\ pc'[p][t] = pc[p][t] /\ mem'[p][t] = mem[p][t]
               /\ frame'[p][t] = frame[p][t]
      BY <1>2, <3>1, <3>4 DEF CallAgrees
    <3> QED
      BY <1>2, <3>2, <3>3, <3>4
  <2> QED
    BY <2>1, <2>2 DEF AgreeInv
<1> DEFINE Goal == AgreeInv' /\ \A t \in Task : StatusKept(t)
<1> HIDE DEF Goal
<1>3. ASSUME NEW p \in Proc, NEW g \in Target, CooldownPasses(p, g) PROVE Goal
    BY <1>2, <1>3 DEF CooldownPasses, Goal
<1>4. ASSUME NEW p \in Proc, Crash(p) PROVE Goal
  <2>1. \A q \in Proc, t \in Task :
            \/ pc'[q][t] = "idle"
            \/ /\ pc'[q][t] = pc[q][t] /\ mem'[q][t] = mem[q][t]
               /\ frame'[q][t] = frame[q][t]
    BY <1>4 DEF Crash, TypeOK
  <2>2. row' = row /\ cert' = cert /\ request' = request
    BY <1>4 DEF Crash
  <2> QED
    BY <1>2, <2>1, <2>2 DEF Goal
<1>5. ASSUME NEW p \in Proc, Boot(p) PROVE Goal
  <2>1. \A q \in Proc, t \in Task :
            \/ pc'[q][t] = "idle"
            \/ pc'[q][t] = "recover" /\ mem'[q][t] = row[t] /\ row[t].status \in InFlight
            \/ /\ pc'[q][t] = pc[q][t] /\ mem'[q][t] = mem[q][t]
               /\ frame'[q][t] = frame[q][t]
    BY <1>5 DEF Boot, Interrupted, TypeOK
  <2>2. row' = row /\ cert' = cert /\ request' = request
    BY <1>5 DEF Boot
  <2> QED
    BY <1>2, <2>1, <2>2 DEF Goal
<1>6. ASSUME NEW p \in Proc, Serve(p) PROVE Goal
    BY <1>2, <1>6 DEF Serve, Goal
<1>7. CASE UNCHANGED vars
    BY <1>2, <1>7 DEF vars, Goal
<1> QED
    BY <1>1, <1>3, <1>4, <1>5, <1>6, <1>7 DEF Next, Goal

LEMMA AgreeInit == Init => AgreeInv
<1>1. NoRow.status = "absent"
    BY DEF NoRow
<1> QED
    BY <1>1 DEF Init, AgreeInv, RowAgrees, CallAgrees, InFlight, Final

\* With one process on the store, also if its writes fail and it dies in the middle of a
\* recovery: a certificate says of a task what its final record says, unless the record
\* is the one of a task whose first ending could not be saved.
THEOREM CertificatesAgree ==
    ASSUME OneProcess
    PROVE  Spec => []CertificateAgrees
<1>1. TypeOK /\ ShapeInv /\ AgreeInv /\ [Next]_vars => (TypeOK /\ ShapeInv /\ AgreeInv)'
    BY TypeStep, ShapeInvariance, AgreeStep
<1>2. AgreeInv => CertificateAgrees
    BY DEF AgreeInv, RowAgrees, CertificateAgrees
<1> QED
    BY <1>1, <1>2, ShapeInit, AgreeInit, PTL DEF Spec

\* So row, receipts and certificate tell one story.
THEOREM OneStory ==
    ASSUME OneProcess
    PROVE  Spec => []RecordsAgree
<1>1. Spec => []VerifiedHasReceipt
    BY StoreIsSafe, PTL
<1>2. VerifiedHasReceipt /\ CertificateAgrees => RecordsAgree
    BY DEF RecordsAgree
<1> QED
    BY <1>1, <1>2, CertificatesAgree, PTL

\* With one process and a store that does not fail, no late answer, cancellation, budget
\* or recovery replaces a status that ended a task.
THEOREM FinalIsFinal ==
    ASSUME OneProcess, ~StoreMayFail
    PROVE  Spec => FinalStaysFinal
<1>1. TypeOK /\ ShapeInv /\ AgreeInv /\ [Next]_vars => (TypeOK /\ ShapeInv /\ AgreeInv)'
    BY TypeStep, ShapeInvariance, AgreeStep
<1>2. TypeOK /\ ShapeInv /\ AgreeInv /\ [Next]_vars =>
          \A t \in Task : row[t].status \in Final => row'[t].status = row[t].status
    BY AgreeStep DEF StatusKept
<1> QED
    BY <1>1, <1>2, ShapeInit, AgreeInit, PTL DEF Spec, FinalStaysFinal

\* A row that recovery would load has its sealed request, whoever else shares the store.
THEOREM InterruptedIsSealed == Spec => []InterruptedHasPayload
    BY StoreIsSafe, PTL

-----------------------------------------------------------------------------
(* Abort controllers, for any number of processes.                             *)

\* Without failing writes, a call loses its frame only by the finally block, and that
\* takes its controller back.
LEMMA ActiveStep ==
    ASSUME ~StoreMayFail, TypeOK, ShapeInv, NEW p \in Proc, NEW t \in Task, TaskStep(p, t)
    PROVE  /\ \/ active' = active
              \/ active' = [active EXCEPT ![p] = @ \cup {t}] /\ frame'[p][t] = "try"
              \/ active' = [active EXCEPT ![p] = @ \ {t}]
           /\ frame'[p][t] = "none" /\ frame[p][t] # "none" =>
                 active' = [active EXCEPT ![p] = @ \ {t}]
<1> USE DEF base, durable, records, locals, signals, breaker, history
<1>1. Call(p, t) \/ Recover(p, t) \/ BudgetExpires(p, t) => active' = active
    BY DEF Call, Recover, BudgetExpires, Plan, Execute, CancelActive, CancelPlanned,
           Reobserve, Reclassify
<1>2. Answer(p, t) => active' = active
    BY DEF Answer, AdapterAnswers, AdapterThrows, VerifierAnswers
<1>3. \/ PlanPayload(p, t) \/ PreventDuplicate(p, t) \/ KeyIsFree(p, t) \/ Refuse(p, t)
      \/ Block(p, t) \/ Start(p, t) \/ SaveReceipt(p, t) \/ Settle(p, t)
      \/ Certify(p, t) \/ CancelWrite(p, t) \/ RecoveryReceipt(p, t)
      => active' = active
    BY DEF PlanPayload, PreventDuplicate, KeyIsFree, Refuse, Block, SaveReceipt, Start,
           Settle, Certify, CancelWrite, RecoveryReceipt
<1>4. Fault(p, t) => FALSE
    BY DEF Fault, WriteFailsUnguarded, WriteFailsInTry
<1>5. Admit(p, t) => /\ active' = [active EXCEPT ![p] = @ \cup {t}]
                     /\ frame'[p][t] = "try"
    BY SetterEffects DEF Admit, Register
<1>6. Seal(p, t) => /\ pc[p][t] = "seal"
                    /\ IF frame[p][t] = "none" THEN active' = active
                       ELSE active' = [active EXCEPT ![p] = @ \ {t}]
    BY DEF Seal, Release, At
<1>7. frame'[p][t] = "none" /\ frame[p][t] # "none" => Seal(p, t)
  <2> SUFFICES ASSUME frame'[p][t] = "none", frame[p][t] # "none" PROVE Seal(p, t)
    OBVIOUS
  <2>1. Moved(p, t) /\ CallShape(p, t)
    BY ShapeStep DEF ShapeInv
  <2>2. pc[p][t] = "seal" /\ pc'[p][t] = "idle"
    BY <2>1 DEF Moved, CallShape, Early, Dropped, Caught, Advanced, Ended, Taken, Wrote,
                Judged, Planned, Returned, Still
  <2>3. ~(Call(p, t) \/ Recover(p, t) \/ BudgetExpires(p, t) \/ Answer(p, t))
    <3>1. ~Recover(p, t) /\ ~Answer(p, t) /\ ~BudgetExpires(p, t)
      BY <2>2 DEF Recover, Reobserve, Reclassify, Recovering, Answer, AdapterAnswers,
                  AdapterThrows, VerifierAnswers, BudgetExpires
    <3>2. CancelActive(p, t) => pc' = pc
      BY DEF CancelActive
    <3> QED
      BY <2>2, <3>1, <3>2 DEF Call, Plan, Execute, CancelPlanned
  <2>4. Segment(p, t)
    BY <1>4, <2>3 DEF TaskStep
  <2> QED
    BY <2>2, <2>4 DEF Segment, At, PlanPayload, PreventDuplicate, KeyIsFree, Refuse, Block,
          Admit, MayStart, SaveReceipt, Start, Settle, Certify, CancelWrite, RecoveryReceipt
<1> QED
    BY <1>1, <1>2, <1>3, <1>4, <1>5, <1>6, <1>7 DEF TaskStep, Segment

\* If writes do not fail, no controller outlives its call, in any process: a cancellation
\* that finds one reaches somebody who listens.
THEOREM NoStrays ==
    ASSUME ~StoreMayFail
    PROVE  Spec => []NoStrayController
<1> USE DEF base, durable, records, locals, signals, breaker, history
<1>1. Init => NoStrayController
    BY DEF Init, NoStrayController
<1>2. TypeOK /\ ShapeInv /\ NoStrayController /\ [Next]_vars => NoStrayController'
  <2> SUFFICES ASSUME TypeOK, ShapeInv, NoStrayController, [Next]_vars
               PROVE  NoStrayController'
    OBVIOUS
  <2>1. ASSUME NEW p \in Proc, NEW t \in Task, TaskStep(p, t) PROVE NoStrayController'
    <3> SUFFICES ASSUME NEW q \in Proc, NEW u \in Task, u \in active'[q]
                 PROVE  frame'[q][u] # "none"
      BY DEF NoStrayController
    <3>1. u \in active[q] => frame[q][u] # "none"
      BY DEF NoStrayController
    <3>2. active \in [Proc -> SUBSET Task]
      BY DEF TypeOK
    <3>3. CASE q = p /\ u = t
      BY <2>1, <3>1, <3>2, <3>3, ActiveStep
    <3>4. CASE q # p \/ u # t
      <4>1. frame'[q][u] = frame[q][u]
        BY <2>1, <3>4, Locality DEF Elsewhere
      <4>2. u \in active[q]
        BY <2>1, <3>2, <3>4, ActiveStep
      <4> QED
        BY <3>1, <4>1, <4>2
    <3> QED
      BY <3>3, <3>4
  <2>2. ASSUME NEW p \in Proc, NEW g \in Target, CooldownPasses(p, g)
        PROVE  NoStrayController'
    BY <2>2 DEF CooldownPasses, NoStrayController
  <2>3. ASSUME NEW p \in Proc, Crash(p) PROVE NoStrayController'
    <3>1. \A q \in Proc : active'[q] = {} \/ (active'[q] = active[q] /\ frame'[q] = frame[q])
      BY <2>3 DEF Crash, TypeOK
    <3> QED
      BY <3>1 DEF NoStrayController
  <2>4. ASSUME NEW p \in Proc, Boot(p) \/ Serve(p) PROVE NoStrayController'
    BY <2>4 DEF Boot, Serve, NoStrayController
  <2>5. CASE UNCHANGED vars
    BY <2>5 DEF vars, NoStrayController
  <2> QED
    BY <2>1, <2>2, <2>3, <2>4, <2>5 DEF Next
<1> QED
    BY <1>1, <1>2, TypeStep, ShapeInit, ShapeInvariance, PTL DEF Spec

-----------------------------------------------------------------------------
(* Commits, when one process owns the store.                                   *)

\* A call runs only when the event loop is free or already its own; the two answers
\* that commit keys find it free.
LEMMA LoopStep ==
    ASSUME TypeOK, NEW p \in Proc, NEW t \in Task, TaskStep(p, t)
    PROVE  /\ busy[p] \in {NoTask, t}
           /\ \/ commits' = commits
              \/ VerifierAnswers(p, t) /\ busy[p] = NoTask
              \/ Reobserve(p, t) /\ busy[p] = NoTask
           /\ pc'[p][t] \in {"admit", "start"} =>
                 \/ KeyIsFree(p, t) /\ busy' = busy /\ busy[p] = t
                 \/ Admit(p, t) /\ busy' = busy /\ busy[p] = t /\ pc[p][t] = "admit"
                 \/ pc'[p][t] = pc[p][t] /\ busy[p] = NoTask
<1> USE DEF base, durable, records, locals, signals, breaker, history
<1>1. ASSUME \/ PlanPayload(p, t) \/ Refuse(p, t) \/ WriteFailsUnguarded(p, t)
             \/ CancelWrite(p, t) \/ Seal(p, t)
      PROVE  busy[p] = t /\ commits' = commits /\ pc'[p][t] = "idle"
    BY <1>1, LeaveMove DEF PlanPayload, Refuse, WriteFailsUnguarded, CancelWrite, Seal, At
<1>2. ASSUME \/ PreventDuplicate(p, t) \/ Block(p, t) \/ SaveReceipt(p, t) \/ Settle(p, t)
             \/ Certify(p, t) \/ RecoveryReceipt(p, t)
      PROVE  busy[p] = t /\ commits' = commits /\ pc'[p][t] \in {"certify", "settle", "seal"}
    BY <1>2, GotoMove DEF PreventDuplicate, Block, SaveReceipt, Settle, Certify,
                          RecoveryReceipt, At
<1>3. ASSUME CancelActive(p, t) \/ BudgetExpires(p, t)
      PROVE  busy[p] = NoTask /\ commits' = commits /\ pc' = pc
    BY <1>3 DEF CancelActive, BudgetExpires, Idle
<1>4. ASSUME \/ Execute(p, t) \/ CancelPlanned(p, t) \/ AdapterAnswers(p, t)
      PROVE  busy[p] = NoTask /\ commits' = commits
             /\ pc'[p][t] \in {"keyCheck", "cancel", "verify"}
    BY <1>4, GotoMove DEF Execute, CancelPlanned, AdapterAnswers, Idle
<1>5. ASSUME Plan(p, t)
      PROVE  /\ busy[p] = NoTask /\ commits' = commits
             /\ pc'[p][t] = "plan" \/ pc' = pc
    BY <1>5, GotoMove DEF Plan, Idle
<1>6. ASSUME KeyIsFree(p, t) \/ Admit(p, t)
      PROVE  /\ busy[p] = t /\ commits' = commits /\ busy' = busy
             /\ Admit(p, t) => pc[p][t] = "admit"
    BY <1>6 DEF KeyIsFree, Admit, MayStart, At
<1>7. ASSUME Reclassify(p, t)
      PROVE  busy[p] = NoTask /\ commits' = commits /\ pc'[p][t] = "idle"
    BY <1>7, LeaveMove DEF Reclassify, Recovering
<1>8. ASSUME VerifierAnswers(p, t) \/ Reobserve(p, t)
      PROVE  busy[p] = NoTask /\ pc'[p][t] \in {"receipt", "recReceipt"}
    BY <1>8, GotoMove DEF VerifierAnswers, Reobserve, Recovering, Idle
<1>9. ASSUME Start(p, t) \/ AdapterThrows(p, t) \/ WriteFailsInTry(p, t)
      PROVE  /\ busy[p] \in {NoTask, t} /\ commits' = commits
             /\ pc'[p][t] \in {"adapter", "receipt"}
  <2>1. busy[p] \in {NoTask, t} /\ commits' = commits
    BY <1>9 DEF Start, AdapterThrows, WriteFailsInTry, At, Idle
  <2>2. Goto(p, t, "adapter") \/ Goto(p, t, "receipt")
    BY <1>9 DEF Start, AdapterThrows, WriteFailsInTry, Catch, Launch
  <2> QED
    BY <2>1, <2>2, GotoMove
<1>10. \/ PlanPayload(p, t) \/ Refuse(p, t) \/ WriteFailsUnguarded(p, t)
       \/ CancelWrite(p, t) \/ Seal(p, t) \/ PreventDuplicate(p, t) \/ Block(p, t)
       \/ SaveReceipt(p, t) \/ Settle(p, t) \/ Certify(p, t) \/ RecoveryReceipt(p, t)
       \/ CancelActive(p, t) \/ BudgetExpires(p, t) \/ Execute(p, t)
       \/ CancelPlanned(p, t) \/ AdapterAnswers(p, t) \/ Plan(p, t) \/ KeyIsFree(p, t)
       \/ Admit(p, t) \/ Reclassify(p, t) \/ VerifierAnswers(p, t) \/ Reobserve(p, t)
       \/ Start(p, t) \/ AdapterThrows(p, t) \/ WriteFailsInTry(p, t)
    BY DEF TaskStep, Call, Segment, Answer, Fault, Recover
<1> QED
    BY ONLY <1>1, <1>2, <1>3, <1>4, <1>5, <1>6, <1>7, <1>8, <1>9, <1>10

\* Between the look at the commits and the call of the adapter no other call runs, and
\* the key stays free.
GateInv ==
    \A p \in Proc, t \in Task :
        pc[p][t] \in {"admit", "start"} => busy[p] = t /\ ~Committed(t)

LEMMA GateStep ==
    ASSUME OneProcess, TypeOK, GateInv, [Next]_vars
    PROVE  GateInv'
<1> USE DEF base, durable, records, locals, signals, breaker, history
<1>n. \A t \in Task : t # NoTask
    BY ConstantsAssumption
<1>1. ASSUME NEW p \in Proc, NEW t \in Task, TaskStep(p, t) PROVE GateInv'
  <2> SUFFICES ASSUME NEW q \in Proc, NEW u \in Task, pc'[q][u] \in {"admit", "start"}
               PROVE  (busy[q] = u /\ ~Committed(u))'
    BY DEF GateInv
  <2>1. q = p
    BY DEF OneProcess
  <2>2. request' = request
    BY <1>1, StepKeeps
  <2>3. CASE u = t
    <3>1. ~(pc[p][t] \in {"admit", "start"} /\ busy[p] = NoTask)
      BY <1>n DEF GateInv
    <3>2. /\ busy' = busy /\ busy[p] = t
          /\ KeyIsFree(p, t) \/ (Admit(p, t) /\ pc[p][t] = "admit")
      BY <1>1, <2>1, <2>3, <3>1, LoopStep
    <3>3. ~Committed(t) /\ commits' = commits
      BY <3>2 DEF GateInv, KeyIsFree, Admit, FoundCommit
    <3> QED
      BY <2>1, <2>2, <2>3, <3>2, <3>3 DEF Committed, KeyOf
  <2>4. CASE u # t
    <3>1. pc'[p][u] = pc[p][u]
      BY <1>1, <2>4, Locality DEF Elsewhere
    <3>2. busy[p] = u
      BY <2>1, <3>1 DEF GateInv
    <3> QED
      BY <1>1, <1>n, <2>4, <3>2, LoopStep
  <2> QED
    BY <2>3, <2>4
<1>2. ASSUME NEW p \in Proc, NEW g \in Target, CooldownPasses(p, g) PROVE GateInv'
    BY <1>2 DEF CooldownPasses, GateInv, Committed, KeyOf
<1>3. ASSUME NEW p \in Proc, Crash(p) \/ Boot(p) PROVE GateInv'
  <2>1. \A q \in Proc, t \in Task : pc'[q][t] \in {"idle", "recover"}
    <3>1. \A q \in Proc : q = p
      BY DEF OneProcess
    <3>2. \A t \in Task : pc'[p][t] \in {"idle", "recover"}
      BY <1>3 DEF Crash, Boot, TypeOK
    <3> QED
      BY <3>1, <3>2
  <2> QED
    BY <2>1 DEF GateInv
<1>4. ASSUME NEW p \in Proc, Serve(p) PROVE GateInv'
    BY <1>4 DEF Serve, GateInv, Committed, KeyOf
<1>5. CASE UNCHANGED vars
    BY <1>5 DEF vars, GateInv, Committed, KeyOf
<1> QED
    BY <1>1, <1>2, <1>3, <1>4, <1>5 DEF Next

\* With one process on the store, no mutation reaches its adapter once its key is
\* committed, by whichever task.
THEOREM NoLaunchAfterCommit ==
    ASSUME OneProcess
    PROVE  Spec => NoMutationAfterCommit
<1>1. Init => GateInv
    BY DEF Init, GateInv
<1>2. TypeOK /\ GateInv /\ OnceInv /\ [Next]_vars =>
          \A t \in Task : launches'[t] > launches[t] /\ request[t].effect = "mutate"
                         => ~Committed(t)
  <2> SUFFICES ASSUME TypeOK, GateInv, OnceInv, [Next]_vars, NEW t \in Task,
                      launches'[t] > launches[t], request[t].effect = "mutate"
               PROVE  ~Committed(t)
    OBVIOUS
  <2>0. launches'[t] # launches[t]
    <3>1. launches[t] \in Nat
      BY DEF TypeOK
    <3> QED
      BY <3>1
  <2>1. launches' # launches
    BY <2>0
  <2>2. PICK p \in Proc, u \in Task : TaskStep(p, u)
    BY <2>1 DEF Next, CooldownPasses, Crash, Boot, Serve, vars, history
  <2>3. \/ pc[p][u] = "start" /\ \E n \in Nat : Launch(p, u, n)
        \/ /\ pc[p][u] = "adapter" /\ \E n \in Nat : Launch(p, u, n)
           /\ mem[p][u].attempts < MaximumAttempts(u)
    <3>1. mem[p][u].attempts + 1 \in Nat
      BY DEF TypeOK, Row
    <3>2. 1 \in Nat
      OBVIOUS
    <3> QED
      BY <2>1, <2>2, <3>1, <3>2, LaunchesElsewhere
  <2>4. u = t
    <3>1. PICK n \in Nat : Launch(p, u, n)
      BY <2>3
    <3>2. t # u => launches'[t] = launches[t]
      BY <3>1, LaunchCounts
    <3> QED
      BY <2>0, <3>2
  <2>5. ~(pc[p][t] = "adapter" /\ mem[p][t].attempts < MaximumAttempts(t))
    <3>1. mem[p][t].attempts \in Nat
      BY DEF TypeOK, Row
    <3> QED
      BY <3>1 DEF OnceInv, Once, MaximumAttempts, EffectOf
  <2> QED
    BY <2>3, <2>4, <2>5 DEF GateInv
<1> QED
    BY <1>1, <1>2, ShapeInit, TypeStep, GateStep, OnceInit, OnceInvariance, PTL
       DEF Spec, NoMutationAfterCommit

\* The task that holds the commit of its key.
Holds(t) == KeyOf(t) # NoKey /\ commits[KeyOf(t)] = t

\* What its record, and a call on it, may still say.
HolderSound(p, t) ==
    Holds(t) =>
        /\ row[t].status \in {"verifying", "verified_success", "recovery_required",
                              "planned", "cancelled"}
        /\ pc[p][t] \notin {"plan", "admit", "start", "adapter", "verify"}
        /\ pc[p][t] \in {"receipt", "settle", "certify", "seal", "cancel", "recReceipt"} =>
              mem[p][t].status \in {"verified_success", "cancelled"}

HolderInv ==
    /\ \A k \in Key, t \in Task : commits[k] = t => k = KeyOf(t)
    /\ \A p \in Proc, t \in Task : HolderSound(p, t)

\* A key is committed by the answer that makes the task verified.
LEMMA CommitStep ==
    ASSUME TypeOK, NEW p \in Proc, NEW t \in Task, TaskStep(p, t)
    PROVE  \/ commits' = commits
           \/ /\ commits' = [commits EXCEPT ![KeyOf(t)] = t]
              /\ pc[p][t] \in {"verify", "recover"}
              /\ pc'[p][t] \in {"receipt", "recReceipt"}
              /\ mem'[p][t].status = "verified_success" /\ row' = row
<1> USE DEF base, durable, records, locals, signals, breaker, history
<1>s. mem[p][t] \in Row
    BY DEF TypeOK
<1>1. ASSUME VerifierAnswers(p, t), commits' # commits
      PROVE  /\ commits' = [commits EXCEPT ![KeyOf(t)] = t]
             /\ mem'[p][t].status = "verified_success"
  <2>0. PICK passed \in BOOLEAN :
            LET succeeded == mem[p][t].result = "success"
                verified  == succeeded /\ (request[t].evidence = "none" \/ passed)
                taken     == verified /\ Committed(t)
            IN /\ Work(p, t, [mem[p][t] EXCEPT
                       !.status = IF taken THEN "cancelled"
                                  ELSE IF verified THEN "verified_success"
                                  ELSE IF succeeded THEN "partial" ELSE "failed",
                       !.error = IF taken THEN "duplicate" ELSE @])
               /\ CommitIdempotency(t, EarnsCommit(p, t, passed))
    BY <1>1 DEF VerifierAnswers
  <2>1. /\ EarnsCommit(p, t, passed) /\ ~Committed(t)
        /\ commits' = [commits EXCEPT ![KeyOf(t)] = t]
    BY <1>1, <2>0 DEF CommitIdempotency
  <2>2. PICK e : Work(p, t, [mem[p][t] EXCEPT !.status = "verified_success", !.error = e])
    BY <2>0, <2>1 DEF EarnsCommit
  <2> DEFINE r == [mem[p][t] EXCEPT !.status = "verified_success", !.error = e]
  <2>3. r.status = "verified_success" /\ Work(p, t, r)
    BY <1>s, <2>2, StatusOf
  <2> HIDE DEF r
  <2>4. mem'[p][t] = r
    BY <2>3, WorkMove
  <2> QED
    BY <2>1, <2>3, <2>4
<1>2. ASSUME Reobserve(p, t), commits' # commits
      PROVE  /\ commits' = [commits EXCEPT ![KeyOf(t)] = t]
             /\ mem'[p][t].status = "verified_success"
  <2> DEFINE r == [mem[p][t] EXCEPT !.status = "verified_success", !.error = "none"]
  <2>1. r.status = "verified_success"
    BY <1>s, StatusOf
  <2>2. Work(p, t, r)
    BY <1>2 DEF Reobserve
  <2>3. commits' = [commits EXCEPT ![KeyOf(t)] = t]
    BY <1>2 DEF Reobserve, CommitIdempotency
  <2> HIDE DEF r
  <2>4. mem'[p][t] = r
    BY <2>2, WorkMove
  <2> QED
    BY <2>1, <2>3, <2>4
<1>3. VerifierAnswers(p, t) => pc[p][t] = "verify" /\ pc'[p][t] = "receipt" /\ row' = row
    BY GotoMove DEF VerifierAnswers
<1>4. Reobserve(p, t) => pc[p][t] = "recover" /\ pc'[p][t] = "recReceipt" /\ row' = row
    BY GotoMove DEF Reobserve, Recovering
<1> QED
    BY <1>1, <1>2, <1>3, <1>4, LoopStep

\* A move that commits nothing keeps what the holder of a commit may say.
LEMMA HolderOfMove ==
    ASSUME ~StoreMayFail, NEW p \in Proc, NEW t \in Task, Moved(p, t),
           HolderSound(p, t), CallAgrees(p, t), commits' = commits, request' = request
    PROVE  HolderSound(p, t)'
<1>1. NoRow.status = "absent"
    BY DEF NoRow
<1>2. Holds(t)' <=> Holds(t)
    BY DEF Holds, KeyOf
<1>3. Holds(t) => Committed(t)
    BY ConstantsAssumption DEF Holds, Committed
<1> SUFFICES ASSUME Holds(t)
             PROVE  /\ row'[t].status \in {"verifying", "verified_success",
                                    "recovery_required", "planned", "cancelled"}
                    /\ pc'[p][t] \notin {"plan", "admit", "start", "adapter", "verify"}
                    /\ pc'[p][t] \in {"receipt", "settle", "certify", "seal", "cancel",
                                      "recReceipt"} =>
                          mem'[p][t].status \in {"verified_success", "cancelled"}
    BY <1>2 DEF HolderSound
<1> DEFINE Goal == /\ row'[t].status \in {"verifying", "verified_success",
                                    "recovery_required", "planned", "cancelled"}
                   /\ pc'[p][t] \notin {"plan", "admit", "start", "adapter", "verify"}
                   /\ pc'[p][t] \in {"receipt", "settle", "certify", "seal", "cancel",
                                      "recReceipt"} =>
                          mem'[p][t].status \in {"verified_success", "cancelled"}
<1>h. /\ row[t].status \in {"verifying", "verified_success", "recovery_required",
                             "planned", "cancelled"}
      /\ pc[p][t] \notin {"plan", "admit", "start", "adapter", "verify"}
      /\ pc[p][t] \in {"receipt", "settle", "certify", "seal", "cancel", "recReceipt"} =>
            mem[p][t].status \in {"verified_success", "cancelled"}
    BY DEF HolderSound
<1>4. Dropped(p, t) => Goal
    BY <1>1, <1>3, <1>h DEF Dropped
<1>5. Caught(p, t) => Goal
    BY <1>1, <1>3, <1>h DEF Caught
<1>6. Advanced(p, t) => Goal
    BY <1>1, <1>3, <1>h DEF Advanced
<1>7. Ended(p, t) => Goal
    BY <1>1, <1>3, <1>h DEF Ended
<1>8. Taken(p, t) => Goal
    BY <1>1, <1>3, <1>h DEF Taken
<1>9. Wrote(p, t) => Goal
    BY <1>1, <1>3, <1>h DEF Wrote
<1>10. Judged(p, t) => Goal
    BY <1>1, <1>3, <1>h DEF Judged
<1>11. Planned(p, t) => Goal
    BY <1>1, <1>3, <1>h DEF Planned
<1>12. Returned(p, t) => Goal
    BY <1>1, <1>3, <1>h DEF Returned
<1>13. Still(p, t) => Goal
    BY <1>1, <1>3, <1>h DEF Still
<1> QED
    BY <1>4, <1>5, <1>6, <1>7, <1>8, <1>9, <1>10, <1>11, <1>12, <1>13 DEF Moved

LEMMA HolderStep ==
    ASSUME OneProcess, ~StoreMayFail, TypeOK, ShapeInv, AgreeInv, HolderInv, [Next]_vars
    PROVE  HolderInv'
<1> USE DEF base, durable, records, locals, signals, breaker, history
<1>1. ASSUME NEW p \in Proc, NEW t \in Task, TaskStep(p, t) PROVE HolderInv'
  <2>1. request' = request /\ Moved(p, t) /\ Elsewhere(p, t)
    BY <1>1, StepKeeps, ShapeStep, Locality
  <2>2. \A u \in Task : KeyOf(u)' = KeyOf(u) /\ (KeyOf(u) # NoKey => KeyOf(u) \in Key)
    BY <2>1, ConstantsAssumption DEF KeyOf, TypeOK
  <2>3. commits \in [Key -> Task \cup {NoTask}]
    BY DEF TypeOK
  <2>4. \A k \in Key, u \in Task : commits'[k] = u => k = KeyOf(u)'
    <3>1. CASE commits' = commits
      BY <2>2, <3>1 DEF HolderInv
    <3>2. CASE commits' = [commits EXCEPT ![KeyOf(t)] = t]
      BY <2>2, <2>3, <3>2 DEF HolderInv
    <3> QED
      BY <1>1, <3>1, <3>2, CommitStep
  <2>5. HolderSound(p, t)'
    <3>1. HolderSound(p, t) /\ CallAgrees(p, t)
      BY DEF HolderInv, AgreeInv
    <3>2. CASE commits' = commits
      BY <2>1, <3>1, <3>2, HolderOfMove
    <3>3. CASE /\ pc[p][t] \in {"verify", "recover"}
               /\ pc'[p][t] \in {"receipt", "recReceipt"}
               /\ mem'[p][t].status = "verified_success" /\ row' = row
      <4>1. row[t].status = "verifying"
        <5>1. pc[p][t] = "recover" => mem[p][t].status = "verifying"
          BY <2>1, <3>3 DEF Moved, Dropped, Caught, Advanced, Ended, Taken, Wrote, Judged,
                            Planned, Returned, Still
        <5> QED
          BY <3>1, <3>3, <5>1 DEF CallAgrees
      <4> QED
        BY <3>3, <4>1 DEF HolderSound
    <3> QED
      BY <1>1, <3>2, <3>3, CommitStep
  <2>6. ASSUME NEW u \in Task, u # t PROVE HolderSound(p, u)'
    <3>1. /\ row'[u] = row[u] /\ pc'[p][u] = pc[p][u] /\ mem'[p][u] = mem[p][u]
      BY <2>1, <2>6 DEF Elsewhere
    <3>2. Holds(u)' => Holds(u)
      <4>1. CASE commits' = commits
        BY <2>2, <4>1 DEF Holds
      <4>2. CASE commits' = [commits EXCEPT ![KeyOf(t)] = t]
        BY <2>2, <2>3, <2>6, <4>2 DEF Holds
      <4> QED
        BY <1>1, <4>1, <4>2, CommitStep
    <3>3. HolderSound(p, u)
      BY DEF HolderInv
    <3> QED
      BY <3>1, <3>2, <3>3 DEF HolderSound
  <2>7. \A q \in Proc : q = p
    BY DEF OneProcess
  <2> QED
    BY <2>4, <2>5, <2>6, <2>7 DEF HolderInv
<1>2. ASSUME row' = row, commits' = commits, request' = request,
             \A p \in Proc, t \in Task :
                \/ pc'[p][t] \in {"idle", "recover"}
                \/ pc'[p][t] = pc[p][t] /\ mem'[p][t] = mem[p][t]
      PROVE  HolderInv'
    BY <1>2 DEF HolderInv, HolderSound, Holds, KeyOf
<1>3. ASSUME NEW p \in Proc, NEW g \in Target, CooldownPasses(p, g) PROVE HolderInv'
    BY <1>2, <1>3 DEF CooldownPasses
<1>4. ASSUME NEW p \in Proc, Crash(p) \/ Boot(p) PROVE HolderInv'
  <2>1. \A q \in Proc : q = p
    BY DEF OneProcess
  <2>2. \A t \in Task : pc'[p][t] \in {"idle", "recover"}
    BY <1>4 DEF Crash, Boot, TypeOK
  <2>3. row' = row /\ commits' = commits /\ request' = request
    BY <1>4 DEF Crash, Boot
  <2> QED
    BY <1>2, <2>1, <2>2, <2>3
<1>5. ASSUME NEW p \in Proc, Serve(p) PROVE HolderInv'
    BY <1>2, <1>5 DEF Serve
<1>6. CASE UNCHANGED vars
    BY <1>2, <1>6 DEF vars
<1> QED
    BY <1>1, <1>3, <1>4, <1>5, <1>6 DEF Next

\* With one process and a store that does not fail: the task that holds the commit of a
\* key is never on record as one that did not do its work, whatever is cancelled, times
\* out, dies or is recovered after the commit.
THEOREM CommitterStands ==
    ASSUME OneProcess, ~StoreMayFail
    PROVE  Spec => []CommitterNotFailed
<1>n. \A t \in Task : t # NoTask
    BY ConstantsAssumption
<1>1. Init => HolderInv
  <2> SUFFICES ASSUME Init PROVE HolderInv
    OBVIOUS
  <2>1. \A k \in Key, t \in Task : commits[k] # t
    BY <1>n DEF Init
  <2>2. \A t \in Task : KeyOf(t) # NoKey => KeyOf(t) \in Key
    BY ShapeInit, ConstantsAssumption DEF TypeOK, KeyOf
  <2> QED
    BY <2>1, <2>2 DEF HolderInv, HolderSound, Holds
<1>2. TypeOK /\ ShapeInv /\ AgreeInv /\ HolderInv /\ [Next]_vars =>
          (TypeOK /\ ShapeInv /\ AgreeInv /\ HolderInv)'
    BY TypeStep, ShapeInvariance, AgreeStep, HolderStep
<1>3. TypeOK /\ HolderInv => CommitterNotFailed
  <2> SUFFICES ASSUME TypeOK, HolderInv, NEW k \in Key, commits[k] # NoTask
               PROVE  row[commits[k]].status \notin {"partial", "failed",
                          "budget_exhausted", "policy_blocked", "awaiting_approval"}
    BY DEF CommitterNotFailed
  <2>1. commits[k] \in Task
    BY DEF TypeOK
  <2>2. PICK p : p \in Proc
    BY DEF OneProcess
  <2>3. Holds(commits[k])
    BY <2>1, ConstantsAssumption DEF HolderInv, Holds
  <2> QED
    BY <2>1, <2>2, <2>3 DEF HolderInv, HolderSound
<1> QED
    BY <1>1, <1>2, <1>3, ShapeInit, AgreeInit, PTL DEF Spec
=============================================================================
