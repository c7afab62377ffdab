------------------------- MODULE WorkflowLeaseProofs -------------------------
(* Theorems of WorkflowLease, for any number of processes, nodes and calls, any *)
(* duration that exceeds the renewal interval by more than the busy timeout, and *)
(* any number of deaths.                                                        *)
EXTENDS WorkflowLease, TLAPS

\* An advance whose renewals have come in time holds a lease that outlasts its timer.
PunctualHolds ==
    \A p \in Proc : phase[p] # "idle" /\ ~overdue[p] =>
        lease.owner = p /\ lease.left > timer[p]

\* An advance runs for the call at the head of the queue.
RunsForACall == \A p \in Proc : phase[p] # "idle" => queue[p] # <<>>

Inv == TypeOK /\ PunctualHolds /\ RunsForACall

LEMMA IntervalType ==
    /\ RenewalInterval \in Nat /\ BusyTimeout \in Nat /\ Duration \in Nat
    /\ RenewalInterval + BusyTimeout < Duration
<1>1. Duration \div 2 \in Nat
    BY LeaseAssumption
<1> QED
    BY <1>1, LeaseAssumption DEF RenewalInterval

\* A lease that is granted after a wait is valid until the next renewal.
LEMMA GrantedOutlasts ==
    ASSUME NEW p \in Proc, NEW waited \in 0..BusyTimeout
    PROVE  /\ Granted(p, waited) \in Lease /\ Granted(p, waited).owner = p
           /\ Granted(p, waited).left > RenewalInterval
BY IntervalType DEF Granted, Lease

LEMMA SettleType ==
    ASSUME TypeOK, NEW p \in Proc, queue[p] # <<>>, Settle(p)
    PROVE  /\ queue' \in [Proc -> Seq(Call)]
           /\ phase' \in [Proc -> {"idle", "working", "returning"}]
           /\ held' \in [Proc -> Nat] /\ wave' \in [Proc -> SUBSET Node]
           /\ timer' \in [Proc -> Nat] /\ overdue' \in [Proc -> BOOLEAN]
           /\ phase'[p] = "idle"
           /\ \A q \in Proc \ {p} :
                 /\ phase'[q] = phase[q] /\ timer'[q] = timer[q]
                 /\ overdue'[q] = overdue[q] /\ queue'[q] = queue[q]
<1>1. Tail(queue[p]) \in Seq(Call)
    BY DEF TypeOK
<1> QED
    BY <1>1 DEF Settle, TypeOK

\* An advance that ends only lets go of its own lease.
LEMMA EndsKeeps ==
    ASSUME Inv, NEW p \in Proc, queue[p] # <<>>, Settle(p), lease' \in {lease, Released(p)},
           version' \in Nat, stray' \in [Proc -> SUBSET (Nat \X Node)], deaths' = deaths
    PROVE  Inv'
<1>1. lease' \in Lease /\ (lease' = lease \/ lease.owner = p)
    BY IntervalType DEF Released, NoLease, Lease, Inv, TypeOK
<1>2. /\ queue' \in [Proc -> Seq(Call)]
      /\ phase' \in [Proc -> {"idle", "working", "returning"}]
      /\ held' \in [Proc -> Nat] /\ wave' \in [Proc -> SUBSET Node]
      /\ timer' \in [Proc -> Nat] /\ overdue' \in [Proc -> BOOLEAN]
      /\ phase'[p] = "idle"
      /\ \A q \in Proc \ {p} : /\ phase'[q] = phase[q] /\ timer'[q] = timer[q]
                               /\ overdue'[q] = overdue[q] /\ queue'[q] = queue[q]
    BY SettleType DEF Inv
<1>3. TypeOK'
    BY <1>1, <1>2 DEF Inv, TypeOK
<1>4. \A q \in Proc : phase'[q] # "idle" => q # p
    BY <1>2
<1>5. PunctualHolds'
    BY <1>1, <1>2, <1>4 DEF Inv, PunctualHolds
<1>6. RunsForACall'
    BY <1>2, <1>4 DEF Inv, RunsForACall
<1> QED
    BY <1>3, <1>5, <1>6 DEF Inv

LEMMA StepKeeps ==
    ASSUME Inv, NEW p \in Proc, Step(p)
    PROVE  Inv'
<1> USE DEF Inv
<1>1. CASE \E c \in Call : Ask(p, c)
  <2>1. PICK c \in Call : Ask(p, c)
    BY <1>1
  <2>2. Append(queue[p], c) \in Seq(Call) /\ Append(queue[p], c) # <<>>
    <3>1. queue[p] \in Seq(Call)
      BY DEF TypeOK
    <3> QED
      BY ONLY <3>1, c \in Call
  <2> QED
    BY <2>1, <2>2 DEF Ask, TypeOK, PunctualHolds, RunsForACall
<1>2. CASE Begin(p)
  <2>1. PICK waited \in 0..BusyTimeout : Free(p, waited) /\ lease' = Granted(p, waited)
    BY <1>2 DEF Begin
  <2>2. PICK nodes \in SUBSET Node :
            /\ wave' = [wave EXCEPT ![p] = nodes]
            /\ phase' = [phase EXCEPT ![p] = IF nodes = {} THEN "returning" ELSE "working"]
    BY <1>2 DEF Begin
  <2>3. /\ phase[p] = "idle" /\ queue[p] # <<>>
        /\ held' = [held EXCEPT ![p] = version]
        /\ timer' = [timer EXCEPT ![p] = RenewalInterval]
        /\ UNCHANGED <<version, queue, stray, overdue, deaths>>
    BY <1>2 DEF Begin
  <2>4. TypeOK'
    BY <2>1, <2>2, <2>3, GrantedOutlasts, IntervalType DEF TypeOK
  <2>5. timer'[p] = RenewalInterval
        /\ \A q \in Proc \ {p} : phase'[q] = phase[q] /\ timer'[q] = timer[q]
    BY <2>2, <2>3 DEF TypeOK
  <2>6. \A q \in Proc \ {p} : phase[q] = "idle" \/ overdue[q]
    BY <2>1, LeaseAssumption DEF Free, PunctualHolds, TypeOK, Lease
  <2>7. PunctualHolds'
    BY <2>1, <2>3, <2>5, <2>6, GrantedOutlasts DEF PunctualHolds
  <2>8. RunsForACall'
    BY <2>3, <2>5 DEF RunsForACall
  <2> QED
    BY <2>4, <2>7, <2>8
<1>3. CASE Refuse(p)
    BY <1>3, EndsKeeps DEF Refuse, TypeOK
<1>4. CASE Answer(p)
    BY <1>4 DEF Answer, TypeOK, PunctualHolds, RunsForACall
<1>5. CASE Finish(p)
  <2>1. version' \in Nat
    BY <1>5 DEF Finish, TypeOK
  <2> QED
    BY <1>5, <2>1, EndsKeeps DEF Finish, TypeOK, RunsForACall
<1>6. CASE Throw(p)
  <2>1. PICK n \in wave[p] :
            stray' = [stray EXCEPT ![p] = @ \cup ({held[p]} \X (wave[p] \ {n}))]
    BY <1>6 DEF Throw
  <2>2. {held[p]} \X (wave[p] \ {n}) \in SUBSET (Nat \X Node)
    BY DEF TypeOK
  <2>3. stray' \in [Proc -> SUBSET (Nat \X Node)]
    BY <2>1, <2>2 DEF TypeOK
  <2> QED
    BY <1>6, <2>3, EndsKeeps DEF Throw, TypeOK, RunsForACall
<1>7. CASE StrayAnswer(p)
    BY <1>7 DEF StrayAnswer, TypeOK, PunctualHolds, RunsForACall
<1>8. CASE Renew(p)
  <2>1. PICK waited \in 0..BusyTimeout : lease' = Renewed(p, waited)
    BY <1>8 DEF Renew
  <2>2. /\ lease' \in Lease
        /\ lease' = lease \/ (lease.owner = p /\ lease'.owner = p /\ lease'.left > RenewalInterval)
    BY <2>1, GrantedOutlasts DEF Renewed, TypeOK
  <2>3. /\ timer' = [timer EXCEPT ![p] = RenewalInterval] /\ phase[p] # "idle"
        /\ UNCHANGED <<version, queue, phase, held, wave, stray, overdue, deaths>>
    BY <1>8 DEF Renew
  <2>4. TypeOK'
    BY <2>2, <2>3, IntervalType DEF TypeOK
  <2>5. PunctualHolds'
    <3> SUFFICES ASSUME NEW q \in Proc, phase[q] # "idle", ~overdue[q]
                 PROVE  lease'.owner = q /\ lease'.left > timer'[q]
      BY <2>3 DEF PunctualHolds
    <3>1. lease.owner = q /\ lease.left > timer[q]
      BY DEF PunctualHolds
    <3>2. CASE q = p
      <4>1. lease' = Granted(p, waited)
        BY <2>1, <3>1, <3>2 DEF Renewed
      <4> QED
        BY <2>3, <3>2, <4>1, GrantedOutlasts DEF TypeOK
    <3>3. CASE q # p
      BY <2>2, <2>3, <3>1, <3>3 DEF TypeOK
    <3> QED
      BY <3>2, <3>3
  <2> QED
    BY <2>3, <2>4, <2>5 DEF RunsForACall
<1>9. CASE Die(p)
  <2>1. lease' \in Lease /\ (lease' = lease \/ lease.owner = p)
    BY <1>9 DEF Die, TypeOK, Lease
  <2>2. /\ phase' = [phase EXCEPT ![p] = "idle"] /\ timer' = [timer EXCEPT ![p] = 0]
        /\ overdue' = [overdue EXCEPT ![p] = FALSE] /\ queue' = [queue EXCEPT ![p] = <<>>]
        /\ deaths' = deaths + 1
    BY <1>9 DEF Die
  <2>3. TypeOK'
    BY <1>9, <2>1, <2>2 DEF Die, TypeOK
  <2>4. PunctualHolds' /\ RunsForACall'
    BY <2>1, <2>2 DEF TypeOK, PunctualHolds, RunsForACall
  <2> QED
    BY <2>3, <2>4
<1> QED
    BY <1>1, <1>2, <1>3, <1>4, <1>5, <1>6, <1>7, <1>8, <1>9 DEF Step

LEMMA TickKeeps ==
    ASSUME Inv, Tick
    PROVE  Inv'
<1>1. lease' \in Lease /\ lease'.owner = lease.owner
      /\ (lease.left > 0 => lease'.left = lease.left - 1)
  <2> DEFINE left == IF lease.left = -BusyTimeout THEN lease.left ELSE lease.left - 1
  <2>1. lease \in Lease /\ lease' = [lease EXCEPT !.left = left]
    BY DEF Tick, Inv, TypeOK
  <2>2. lease.left \in -BusyTimeout..Duration
    BY <2>1 DEF Lease
  <2>3. left \in -BusyTimeout..Duration /\ (lease.left > 0 => left = lease.left - 1)
    BY <2>2, IntervalType
  <2> HIDE DEF left
  <2> QED
    BY <2>1, <2>3 DEF Lease
<1>2. TypeOK'
    BY <1>1 DEF Tick, Inv, TypeOK
<1>3. PunctualHolds'
  <2> SUFFICES ASSUME NEW p \in Proc, phase[p] # "idle", ~overdue'[p]
               PROVE  lease'.owner = p /\ lease'.left > timer'[p]
    BY DEF Tick, PunctualHolds
  <2>1. ~overdue[p] /\ timer[p] # 0 /\ timer'[p] = timer[p] - 1
    BY DEF Tick
  <2> QED
    BY <1>1, <2>1 DEF Inv, PunctualHolds, TypeOK, Lease
<1> QED
    BY <1>2, <1>3 DEF Tick, Inv, RunsForACall

LEMMA Invariance == Spec => []Inv
<1>1. Init => Inv
    BY IntervalType DEF Init, Inv, TypeOK, PunctualHolds, RunsForACall, NoLease, Lease
<1>2. Inv /\ [Next]_vars => Inv'
  <2> SUFFICES ASSUME Inv, [Next]_vars PROVE Inv'
    OBVIOUS
  <2>1. CASE Move
    BY <2>1 DEF Move, Inv, TypeOK, PunctualHolds, RunsForACall
  <2>2. CASE UNCHANGED vars
    BY <2>2 DEF vars, Inv, TypeOK, PunctualHolds, RunsForACall
  <2> QED
    BY <2>1, <2>2, TickKeeps, StepKeeps DEF Next
<1> QED
    BY <1>1, <1>2, PTL DEF Spec
-----------------------------------------------------------------------------
\* The variables keep their types.
THEOREM TypeCorrect == Spec => []TypeOK
<1>1. Inv => TypeOK
    BY DEF Inv
<1> QED
    BY Invariance, <1>1, PTL

\* leasedAdvance renews at half the duration: no second process advances the run as long
\* as the renewals of the first are not late, however long its wave takes and however
\* long the store calls wait.
THEOREM NeverOvertaken == Spec => []OneAdvance
<1>1. Inv => OneAdvance
    BY DEF Inv, PunctualHolds, OneAdvance
<1> QED
    BY Invariance, <1>1, PTL

\* acquireWorkflowLease, renewWorkflowLease and releaseWorkflowLease all name the owner: a
\* valid lease is only given up by the end, or the death, of the advance that has it.
THEOREM LeaseKept == Spec => LeaseIsKept
<1>1. ASSUME Inv, [Next]_vars, lease.owner \in Proc, lease.left > 0, phase[lease.owner] # "idle"
      PROVE  lease'.owner = lease.owner \/ phase'[lease.owner] = "idle"
  <2>1. CASE lease' = lease
    BY <2>1
  <2>2. CASE Tick
    BY <2>2 DEF Tick, Inv, TypeOK, Lease
  <2>3. ASSUME NEW p \in Proc, Begin(p) PROVE FALSE
    <3>1. PICK waited \in 0..BusyTimeout : Free(p, waited)
      BY <2>3 DEF Begin
    <3>2. lease.owner # p /\ lease.owner # Nobody
      BY <1>1, <2>3, LeaseAssumption DEF Begin
    <3> QED
      BY <1>1, <3>1, <3>2, IntervalType DEF Free, Inv, TypeOK, Lease
  <2>4. ASSUME NEW p \in Proc, Finish(p) \/ Throw(p)
        PROVE  lease' = lease \/ (lease.owner = p /\ phase'[p] = "idle")
    <3>1. Settle(p) /\ lease' = Released(p)
      BY <2>4 DEF Finish, Throw
    <3>2. phase' = [phase EXCEPT ![p] = "idle"]
      BY <3>1 DEF Settle
    <3>3. phase'[p] = "idle"
      BY <1>1, <3>2 DEF Inv, TypeOK
    <3> QED
      BY <3>1, <3>3 DEF Released
  <2>5. ASSUME NEW p \in Proc, Renew(p) PROVE lease'.owner = lease.owner
    BY <2>5 DEF Renew, Renewed, Granted
  <2>6. ASSUME NEW p \in Proc, Die(p)
        PROVE  lease' = lease \/ (lease.owner = p /\ phase'[p] = "idle")
    BY <1>1, <2>6 DEF Die, Inv, TypeOK
  <2>7. CASE Move \/ UNCHANGED vars
    BY <2>7 DEF Move, vars
  <2>8. ASSUME NEW p \in Proc, (\E c \in Call : Ask(p, c)) \/ Refuse(p) \/ Answer(p) \/ StrayAnswer(p)
        PROVE  lease' = lease
    BY <2>8 DEF Ask, Refuse, Answer, StrayAnswer
  <2> QED
    BY <1>1, <2>1, <2>2, <2>3, <2>4, <2>5, <2>6, <2>7, <2>8 DEF Next, Step
<1>2. Inv /\ [Next]_vars =>
         [lease.owner \in Proc /\ lease.left > 0 /\ phase[lease.owner] # "idle"
            => lease'.owner = lease.owner \/ phase'[lease.owner] = "idle"]_vars
    BY <1>1
<1> QED
    BY Invariance, <1>2, PTL DEF Spec, LeaseIsKept
=============================================================================
