------------------------ MODULE WorkflowReplayProofs ------------------------
(* Proofs about what the recursive functions of WorkflowRun compute: replaying   *)
(* any part of a log rebuilds the projection, so that a starting process accepts *)
(* the history; and the drafts of a transition are the run that it stores, so    *)
(* that a run is complete only when its nodes are.                               *)
EXTENDS WorkflowRunProofs, SequenceTheorems

\* Induction on the natural numbers, for the membership of a set.
LEMMA Induction ==
    ASSUME NEW S, 0 \in S, \A k \in Nat : k \in S => k + 1 \in S
    PROVE  \A k \in Nat : k \in S
<1> DEFINE R == OpToRel(<, Nat)
           T == Nat \ S
<1> SUFFICES ASSUME T # {} PROVE FALSE
    OBVIOUS
<1>1. PICK x \in T : \A y \in T : ~(<<y, x>> \in R)
  <2>1. T \subseteq Nat
    OBVIOUS
  <2> HIDE DEF T, R
  <2>2. IsWellFoundedOn(R, Nat)
    BY NatLessThanWellFounded DEF R
  <2> QED
    BY <2>1, <2>2, WFMin
<1>2. \A y \in T : ~(y < x)
    BY <1>1 DEF OpToRel
<1>3. x # 0 /\ x - 1 \in Nat /\ x - 1 < x /\ (x - 1) + 1 = x
    OBVIOUS
<1>4. x - 1 \in S
    BY <1>2, <1>3
<1> QED
    BY <1>3, <1>4

-----------------------------------------------------------------------------
(* Replay.                                                                      *)

\* The runs of a replay exist, and each is what an event makes of the one before.
LEMMA RebuiltSteps ==
    ASSUME NEW r, NEW events \in Seq(Event)
    PROVE  /\ Rebuilt(r, events)[0] = r
           /\ \A i \in 1..Len(events) :
                 Rebuilt(r, events)[i] = Apply(Rebuilt(r, events)[i - 1], events[i])
<1> DEFINE n == Len(events)
           Step1(g, i) == IF i = 0 THEN r ELSE Apply(g[i - 1], events[i])
           S == {k \in Nat : \E g : \A i \in 0..k : g[i] = Step1(g, i)}
<1>1. 0 \in S
  <2>1. \A i \in 0..0 : [j \in {0} |-> r][i] = Step1([j \in {0} |-> r], i)
    OBVIOUS
  <2> QED
    BY <2>1
<1>2. ASSUME NEW k \in Nat, k \in S PROVE k + 1 \in S
  <2>1. PICK g : \A i \in 0..k : g[i] = Step1(g, i)
    BY <1>2
  <2> DEFINE h == [i \in 0..(k + 1) |-> IF i <= k THEN g[i]
                                         ELSE Apply(g[k], events[k + 1])]
  <2>2. ASSUME NEW i \in 0..(k + 1) PROVE h[i] = Step1(h, i)
    <3>1. CASE i <= k
      <4>1. i \in 0..k /\ h[i] = g[i] /\ (i # 0 => h[i - 1] = g[i - 1])
        BY <3>1
      <4> QED
        BY <2>1, <4>1
    <3>2. CASE ~(i <= k)
      <4>1. i = k + 1 /\ i # 0 /\ i - 1 = k /\ k \in 0..(k + 1) /\ k <= k
        BY <3>2
      <4>2. h[i] = Apply(g[k], events[i]) /\ h[i - 1] = g[k]
        BY <4>1
      <4> QED
        BY <4>1, <4>2
    <3> QED
      BY <3>1, <3>2
  <2> HIDE DEF h
  <2> QED
    BY <2>2
<1>3. n \in S
  <2>1. n \in Nat
    OBVIOUS
  <2> HIDE DEF S, n
  <2> QED
    BY <1>1, <1>2, <2>1, Induction
<1> DEFINE Body(f) == [i \in 0..n |-> Step1(f, i)]
<1>4. \E f : f = Body(f)
  <2>1. PICK g : \A i \in 0..n : g[i] = Step1(g, i)
    BY <1>3
  <2> DEFINE f == [i \in 0..n |-> g[i]]
  <2>2. n \in Nat
    OBVIOUS
  <2> HIDE DEF n
  <2>3. \A i \in 0..n : f[i] = Step1(f, i)
    <3> TAKE i \in 0..n
    <3>1. f[i] = g[i] /\ (i # 0 => f[i - 1] = g[i - 1])
      BY <2>2
    <3> QED
      BY <2>1, <3>1
  <2>4. f = Body(f)
    BY <2>3
  <2> QED
    BY <2>4
<1>5. Rebuilt(r, events) = CHOOSE f : f = Body(f)
    BY DEF Rebuilt
<1> HIDE DEF Body
<1>6. Rebuilt(r, events) = Body(Rebuilt(r, events))
    BY <1>4, <1>5
<1>7. n \in Nat
    OBVIOUS
<1> DEFINE f == Rebuilt(r, events)
<1>8. f = [i \in 0..n |-> IF i = 0 THEN r ELSE Apply(f[i - 1], events[i])]
    BY <1>6 DEF Body
<1> HIDE DEF f, n
<1> QED
    BY <1>7, <1>8 DEF f, n

\* Replaying the events after any run of the past gives the projection.
LEMMA ReplayFrom ==
    ASSUME TypeOK, LogLeadsToRun, NEW k \in 1..Len(log),
           NEW events, events = SubSeq(log, k + 1, Len(log))
    PROVE  Rebuild(past[k], events) = run
<1> DEFINE l == Len(log)
           n == l - k
           chain == Rebuilt(past[k], events)
<1>1. /\ log \in Seq(Event) /\ past \in Seq(Run)
      /\ l \in Nat /\ Len(past) = l /\ n \in Nat /\ k \in 1..l /\ past[l] = run
      /\ \A i \in 2..l : /\ Applicable(past[i - 1], log[i])
                        /\ past[i] = Apply(past[i - 1], log[i])
    BY DEF TypeOK, LogLeadsToRun
<1>2. \A i \in 1..l : past[i] \in Run
    BY <1>1
<1>3. events \in Seq(Event) /\ Len(events) = n /\ \A i \in 1..n : events[i] = log[k + i]
  <2> DEFINE m == k + 1
  <2>1. log \in Seq(Event) /\ l = Len(log) /\ k \in 1..l /\ n = l - k /\ m = k + 1
    BY <1>1
  <2>2. events = SubSeq(log, m, l)
    OBVIOUS
  <2> HIDE DEF l, n, m
  <2>3. m \in Int /\ l \in Int /\ \A i \in m..l : log[i] \in Event
    BY ONLY <2>1
  <2>4. /\ n \in Nat /\ n = IF m <= l THEN l - m + 1 ELSE 0
        /\ n = l - m + 1 /\ \A i \in 1..n : m + i - 1 = k + i
    BY ONLY <2>1
  <2>5. /\ SubSeq(log, m, l) \in Seq(Event)
        /\ Len(SubSeq(log, m, l)) = IF m <= l THEN l - m + 1 ELSE 0
        /\ \A i \in 1..(l - m + 1) : SubSeq(log, m, l)[i] = log[m + i - 1]
    BY ONLY <2>3, SubSeqProperties
  <2>6. /\ events \in Seq(Event)
        /\ Len(events) = IF m <= l THEN l - m + 1 ELSE 0
        /\ \A i \in 1..(l - m + 1) : events[i] = log[m + i - 1]
    BY ONLY <2>2, <2>5, Zenon
  <2> QED
    BY ONLY <2>4, <2>6
<1> HIDE DEF n, l
<1>4. /\ chain[0] = past[k]
      /\ \A i \in 1..n : chain[i] = Apply(chain[i - 1], events[i])
  <2>1. /\ chain[0] = past[k]
        /\ \A i \in 1..Len(events) : chain[i] = Apply(chain[i - 1], events[i])
    BY ONLY <1>3, RebuiltSteps, Zenon
  <2> QED
    BY ONLY <1>3, <2>1, Zenon
<1> HIDE DEF chain
<1>5. n = l - k
    BY DEF n
<1> DEFINE S == {i \in Nat : i <= n => chain[i] = past[k + i]}
<1>6. \A i \in Nat : i \in S
  <2>1. 0 \in S
    BY <1>1, <1>4
  <2>2. ASSUME NEW i \in Nat, i \in S PROVE i + 1 \in S
    <3> SUFFICES ASSUME i + 1 <= n PROVE chain[i + 1] = past[k + (i + 1)]
      OBVIOUS
    <3>1. /\ i + 1 \in 1..n /\ (i + 1) - 1 = i /\ i <= n
          /\ k + (i + 1) \in 2..l /\ (k + (i + 1)) - 1 = k + i
      BY <1>1, <1>5
    <3>2. chain[i + 1] = Apply(chain[i], events[i + 1])
      BY <1>4, <3>1
    <3>3. events[i + 1] = log[k + (i + 1)] /\ chain[i] = past[k + i]
      BY <1>3, <2>2, <3>1
    <3>4. past[k + (i + 1)] = Apply(past[k + i], log[k + (i + 1)])
      BY <1>1, <3>1
    <3> QED
      BY <3>2, <3>3, <3>4
  <2> HIDE DEF S
  <2> QED
    BY <2>1, <2>2, Induction
<1>7. \A i \in 0..n : chain[i] = past[k + i]
    BY <1>1, <1>6
<1>8. \A i \in 1..n : /\ Applicable(chain[i - 1], events[i])
                     /\ chain[i] = Apply(chain[i - 1], events[i])
                     /\ chain[i] \in Run
  <2> TAKE i \in 1..n
  <2>1. /\ k + i \in 2..l /\ k + i \in 1..l /\ (k + i) - 1 = k + (i - 1)
        /\ i \in 0..n /\ i - 1 \in 0..n
    BY <1>1, <1>5
  <2>2. Applicable(past[k + (i - 1)], log[k + i])
    BY <1>1, <2>1
  <2>3. chain[i] = past[k + i] /\ chain[i - 1] = past[k + (i - 1)] /\ events[i] = log[k + i]
    BY <1>3, <1>7, <2>1
  <2> QED
    BY <1>2, <1>4, <2>1, <2>2, <2>3
<1>9. chain[n] = run
    BY <1>1, <1>5, <1>7
<1>10. Accepted(chain, past[k], events)
    BY <1>3, <1>4, <1>8 DEF Accepted
<1> QED
    BY <1>3, <1>9, <1>10 DEF Rebuild, chain

\* Replaying the whole log does so too.
LEMMA FullReplayIsRun ==
    ASSUME Inv, run # NoRun
    PROVE  FullReplay = run
<1>1. log \in Seq(Event) /\ log # <<>> /\ past[1] = Draft
    BY DEF Inv, TypeOK, LogLeadsToRun, NothingBeforeCreation, NoRun, Run
<1>2. 1 \in 1..Len(log) /\ 1 + 1 = 2
    BY <1>1
<1>3. Tail(log) = SubSeq(log, 2, Len(log))
    BY <1>1
<1> QED
    BY <1>1, <1>2, <1>3, ReplayFrom DEF FullReplay, Inv

\* rebuildWorkflow (workflow-events.ts:116-131) on the log that transitionWorkflow keeps:
\* full replay, and replay from any readable snapshot, give the stored projection and
\* reject no event, for every definition and history.
THEOREM ReplayRebuilds == Spec => []ProjectionIsReplay
<1>1. ASSUME Inv PROVE ProjectionIsReplay
  <2> SUFFICES ASSUME run # NoRun PROVE /\ FullReplay = run
                                       /\ \A s \in snapshots : s.readable =>
              Rebuild(s.run, SubSeq(log, s.sequence + 1, Len(log))) = run
    BY DEF ProjectionIsReplay
  <2>1. \A s \in snapshots : Rebuild(s.run, SubSeq(log, s.sequence + 1, Len(log))) = run
    <3> TAKE s \in snapshots
    <3>1. s.sequence \in 1..Len(log) /\ s.run = past[s.sequence]
      BY <1>1 DEF Inv, LogLeadsToRun
    <3> QED
      BY <1>1, <3>1, ReplayFrom DEF Inv
  <2> QED
    BY <1>1, <2>1, FullReplayIsRun
<1> QED
    BY Invariance, <1>1, PTL
-----------------------------------------------------------------------------
(* A starting process accepts the history.                                      *)

\* A replay starts from a snapshot that was the run of its sequence number.
BaseIsPast ==
    \A c \in Client : pc[c] = "events" =>
        \/ base[c] = NoSnapshot
        \/ base[c].sequence \in 1..Len(past) /\ base[c].run = past[base[c].sequence]

\* No step takes an event back.
LEMMA PastStays ==
    ASSUME Inv, [Next]_vars
    PROVE  Len(past) <= Len(past') /\ \A i \in 1..Len(past) : past'[i] = past[i]
<1>1. /\ past \in Seq(Run) /\ Len(past) \in Nat
      /\ \/ UNCHANGED <<run, log, past>>
         \/ run = NoRun
         \/ \E c \in Client, changes \in Seq(Change) :
               /\ \E next \in {"idle", "checkpoint", "snapshot"} : Moves(c, changes, next)
               /\ held[c] = run /\ pc'[c] # pc[c]
               /\ Consistent(run, changes) /\ Stored(run, changes)
    BY NextStep DEF Inv, TypeOK
<1>2. CASE UNCHANGED <<run, log, past>>
    BY <1>1, <1>2
<1>3. CASE run = NoRun
  <2>1. Len(past) = 0 /\ past' \in Seq(Run)
    BY <1>3, NextStep DEF Inv, LogLeadsToRun, NoRun, Draft, TypeOK
  <2> QED
    BY <2>1
<1>4. ASSUME NEW c \in Client, NEW changes \in Seq(Change),
             \E next \in {"idle", "checkpoint", "snapshot"} : Moves(c, changes, next),
             held[c] = run, Consistent(run, changes), Stored(run, changes)
      PROVE  Len(past) <= Len(past') /\ \A i \in 1..Len(past) : past'[i] = past[i]
  <2>1. changes # <<>> /\ snapshots' = snapshots /\ pc[c] # "idle"
    BY <1>4 DEF Moves, Transition
  <2>2. run \in Run /\ Unmoved(run) /\ run.version \in 1..Len(past) /\ run = past[run.version]
    BY <1>4, <2>1 DEF Inv, TypeOK, HeldIsPast, Unmoved
  <2> QED
    BY <1>4, <2>1, <2>2, StoredExtends DEF Inv
<1> QED
    BY <1>1, <1>2, <1>3, <1>4

LEMMA BaseStep ==
    ASSUME Inv, BaseIsPast, [Next]_vars
    PROVE  BaseIsPast'
<1>1. /\ Len(past) <= Len(past') /\ \A i \in 1..Len(past) : past'[i] = past[i]
      /\ Len(past) \in Nat /\ Len(past') \in Nat
  <2>1. past \in Seq(Run) /\ past' \in Seq(Run)
    BY NextStep DEF Inv, TypeOK
  <2> QED
    BY <2>1, PastStays
<1>2. ASSUME NEW c \in Client, pc'[c] = "events"
      PROVE  \/ pc[c] = "events" /\ base'[c] = base[c]
             \/ base'[c] = LatestSnapshot /\ past' = past
  <2>1. pc \in [Client -> Steps] /\ base \in [Client -> Snapshot]
    BY DEF Inv, TypeOK
  <2>2. CASE UNCHANGED <<pc, base>>
    BY <1>2, <2>2
  <2>3. ASSUME NEW d \in Client, End(d)
        PROVE  pc[c] = "events" /\ base'[c] = base[c]
    BY <1>2, <2>1, <2>3 DEF End
  <2>4. ASSUME NEW d \in Client, NEW to \in Steps, to # "events",
               pc' = [pc EXCEPT ![d] = to], base' = base
        PROVE  pc[c] = "events" /\ base'[c] = base[c]
    BY <1>2, <2>1, <2>4
  <2>5. ASSUME NEW d \in Client, NEW changes, NEW next \in Steps \ {"events"},
               Transition(d, changes, next)
        PROVE  pc[c] = "events" /\ base'[c] = base[c]
    <3>1. \/ End(d)
          \/ base' = base /\ \E to \in {next, "unservable"} : pc' = [pc EXCEPT ![d] = to]
      BY <2>5 DEF Transition, local
    <3> QED
      BY <2>3, <2>4, <3>1 DEF Steps
  <2>6. CASE CreateWorkflow \/ Corrupt \/ UNCHANGED vars
    BY <2>2, <2>6 DEF CreateWorkflow, Corrupt, local, vars
  <2>7. ASSUME NEW d \in Client, Step(d)
        PROVE  \/ pc[c] = "events" /\ base'[c] = base[c]
               \/ base'[c] = LatestSnapshot /\ past' = past
    <3>1. CASE Begin(d)
      BY <2>4, <3>1 DEF Begin, Steps
    <3>2. CASE Halt(d) \/ Resume(d) \/ Cancel(d)
      <4>1. \E changes : Transition(d, changes, "idle")
        BY <3>2 DEF Halt, Resume, Cancel
      <4> QED
        BY <2>5, <4>1 DEF Steps
    <3>8. CASE Recover(d)
      <4>1. \E changes : Transition(d, changes, "idle")
        BY <3>8 DEF Recover
      <4> QED
        BY <2>5, <4>1 DEF Steps
    <3>3. CASE Advance(d)
      BY <2>5, <3>3 DEF Advance, Steps
    <3>4. CASE Checkpoint(d)
      BY <2>5, <3>4 DEF Checkpoint, Steps
    <3>5. CASE Return(d) \/ SaveSnapshot(d) \/ Die(d)
      BY <2>3, <3>5 DEF Return, SaveSnapshot, Die
    <3>6. CASE ReplaySnapshot(d)
      <4>1. base' = [base EXCEPT ![d] = LatestSnapshot] /\ past' = past
            /\ pc' = [pc EXCEPT ![d] = "events"]
        BY <3>6 DEF ReplaySnapshot
      <4> QED
        BY <1>2, <2>1, <4>1
    <3>7. CASE ReplayEvents(d)
      <4>1. base' = base /\ \E to \in {"commit", "unservable"} : pc' = [pc EXCEPT ![d] = to]
        BY <3>7 DEF ReplayEvents, local
      <4> QED
        BY <2>4, <4>1 DEF Steps
    <3> QED
      BY <2>7, <3>1, <3>2, <3>3, <3>4, <3>5, <3>6, <3>7, <3>8 DEF Step
  <2> QED
    BY <2>6, <2>7 DEF Next
<1>3. \/ LatestSnapshot = NoSnapshot
      \/ /\ LatestSnapshot.sequence \in 1..Len(past)
         /\ LatestSnapshot.run = past[LatestSnapshot.sequence]
    BY LatestSnapshotStored DEF Inv, LogLeadsToRun
<1> QED
  <2> SUFFICES ASSUME NEW c \in Client, pc'[c] = "events"
               PROVE  \/ base'[c] = NoSnapshot
                      \/ /\ base'[c].sequence \in 1..Len(past')
                         /\ base'[c].run = past'[base'[c].sequence]
    BY DEF BaseIsPast
  <2>1. CASE pc[c] = "events" /\ base'[c] = base[c]
    BY <1>1, <2>1 DEF BaseIsPast
  <2>2. CASE base'[c] = LatestSnapshot /\ past' = past
    BY <1>3, <2>2
  <2> QED
    BY <1>2, <2>1, <2>2

LEMMA ReplayInvariance == Spec => [](Inv /\ BaseIsPast)
<1>1. Init => BaseIsPast
    BY DEF Init, BaseIsPast
<1>2. Inv /\ BaseIsPast /\ [Next]_vars => (Inv /\ BaseIsPast)'
    BY NextStep, BaseStep
<1> QED
    BY InitInv, <1>1, <1>2, PTL DEF Spec

\* A replay is refused only if the run is no longer the one that was listed.
LEMMA RefusedOnlyIfMoved ==
    ASSUME Inv, BaseIsPast, [Next]_vars, NEW c \in Client,
           pc[c] = "events", pc'[c] = "unservable"
    PROVE  held[c].version # run.version
<1>1. pc \in [Client -> Steps]
    BY DEF Inv, TypeOK
<1>2. ReplayEvents(c)
  <2>1. ASSUME NEW d \in Client, End(d)
        PROVE  FALSE
    BY <1>1, <2>1 DEF End
  <2>2. ASSUME NEW d \in Client, d # c, NEW to, pc' = [pc EXCEPT ![d] = to]
        PROVE  FALSE
    BY <1>1, <2>2
  <2>3. ASSUME NEW d \in Client, NEW changes, NEW next, pc[d] # "events",
               Transition(d, changes, next)
        PROVE  FALSE
    <3>1. End(d) \/ \E to \in {next, "unservable"} : pc' = [pc EXCEPT ![d] = to]
      BY <2>3 DEF Transition
    <3> QED
      BY <2>1, <2>2, <2>3, <3>1
  <2>4. ~UNCHANGED pc
    OBVIOUS
  <2>5. PICK d \in Client : Step(d)
    BY <2>4 DEF Next, CreateWorkflow, Corrupt, local, vars
  <2>6. ~Begin(d) /\ ~ReplaySnapshot(d)
    BY <1>1 DEF Begin, ReplaySnapshot
  <2>7. ~Halt(d) /\ ~Resume(d) /\ ~Cancel(d) /\ ~Recover(d)
    BY <2>3 DEF Halt, Resume, Cancel, Recover
  <2>8. ~Advance(d) /\ ~Checkpoint(d)
    BY <2>3 DEF Advance, Checkpoint
  <2>9. ~Return(d) /\ ~SaveSnapshot(d) /\ ~Die(d)
    BY <2>1 DEF Return, SaveSnapshot, Die
  <2>10. ReplayEvents(d)
    BY <2>5, <2>6, <2>7, <2>8, <2>9 DEF Step
  <2> QED
    BY <2>2, <2>10 DEF ReplayEvents
<1> DEFINE s == base[c]
           quick == IF s.readable
                    THEN Rebuild(s.run, SubSeq(log, s.sequence + 1, Len(log)))
                    ELSE NoRun
           replayed == IF quick = NoRun THEN FullReplay ELSE quick
<1>3. run # NoRun
  <2>1. held[c].version \in 1..Len(past)
    BY DEF Inv, HeldIsPast
  <2>2. Len(past) = run.version
    BY DEF Inv, LogLeadsToRun
  <2>3. NoRun.version = 0
    BY DEF NoRun, Draft
  <2> QED
    BY <2>1, <2>2, <2>3
<1>4. FullReplay = run
    BY <1>3, FullReplayIsRun
<1>5. quick \in {run, NoRun}
  <2>1. CASE s = NoSnapshot
    BY <2>1 DEF NoSnapshot
  <2>2. CASE s.sequence \in 1..Len(past) /\ s.run = past[s.sequence]
    <3>1. TypeOK /\ LogLeadsToRun /\ s.sequence \in 1..Len(log)
      BY <2>2 DEF Inv, LogLeadsToRun
    <3>2. Rebuild(past[s.sequence], SubSeq(log, s.sequence + 1, Len(log))) = run
      <4> HIDE DEF s
      <4> QED
        BY ONLY <3>1, ReplayFrom
    <3> QED
      BY <2>2, <3>2
  <2> QED
    BY <2>1, <2>2 DEF BaseIsPast
<1>6. replayed = run
    BY <1>4, <1>5
<1>7. pc' = [pc EXCEPT ![c] = IF replayed.version = held[c].version THEN "commit"
                                                                    ELSE "unservable"]
    BY <1>2 DEF ReplayEvents
<1> HIDE DEF replayed
<1> QED
    BY <1>1, <1>6, <1>7

\* recoverInterrupted and replay (workflow-controller.ts:369-382, 577-592), while any number
\* of other calls move the run: a starting process refuses a history only if the run has
\* been moved since it was listed.
THEOREM RefusedIfMoved ==
    Spec => [][\A c \in Client : pc[c] = "events" /\ pc'[c] = "unservable"
                  => held[c] # run]_vars
<1>1. Inv /\ BaseIsPast /\ [Next]_vars =>
         [\A c \in Client : pc[c] = "events" /\ pc'[c] = "unservable" => held[c] # run]_vars
    BY RefusedOnlyIfMoved
<1> QED
    BY ReplayInvariance, <1>1, PTL DEF Spec

\* No other call is under way when a process starts.
OneCall == \A c, d \in Client : c = d

ListedIsRun == \A c \in Client : pc[c] \in {"replay", "events"} => held[c] = run

LEMMA ListedStep ==
    ASSUME OneCall, Inv, ListedIsRun, [Next]_vars
    PROVE  ListedIsRun'
<1> SUFFICES ASSUME NEW c \in Client, pc'[c] \in {"replay", "events"}
             PROVE  held'[c] = run'
    BY DEF ListedIsRun
<1>1. pc \in [Client -> Steps] /\ held \in [Client -> Run]
    BY DEF Inv, TypeOK
<1>2. ASSUME NEW d \in Client, End(d)
      PROVE  FALSE
    BY <1>1, <1>2 DEF End, OneCall
<1>3. ASSUME NEW d \in Client, NEW changes, NEW next \in {"idle", "checkpoint", "snapshot"},
             Transition(d, changes, next)
      PROVE  FALSE
  <2>1. d = c
    BY DEF OneCall
  <2>2. End(d) \/ \E to \in {next, "unservable"} : pc' = [pc EXCEPT ![d] = to]
    BY <1>3 DEF Transition
  <2> QED
    BY <1>1, <1>2, <2>1, <2>2
<1>4. CASE UNCHANGED <<pc, held, run>>
    BY <1>4 DEF ListedIsRun
<1>5. CASE CreateWorkflow
  <2>1. run = NoRun /\ UNCHANGED <<pc, held>>
    BY <1>5 DEF CreateWorkflow
  <2>2. held[c].version \in 1..Len(past) /\ past \in Seq(Run)
    BY <2>1 DEF Inv, TypeOK, HeldIsPast
  <2> QED
    BY <2>1, <2>2 DEF Inv, LogLeadsToRun, NoRun, Draft
<1>6. ASSUME NEW d \in Client, Step(d)
      PROVE  held'[c] = run'
  <2>1. d = c
    BY DEF OneCall
  <2>2. CASE Begin(d)
    BY <1>1, <2>1, <2>2 DEF Begin
  <2>3. CASE Halt(d) \/ Resume(d) \/ Cancel(d) \/ Recover(d)
    BY <1>3, <2>3 DEF Halt, Resume, Cancel, Recover
  <2>4. CASE Advance(d)
    BY <1>3, <2>4 DEF Advance
  <2>5. CASE Checkpoint(d)
    BY <1>3, <2>5 DEF Checkpoint
  <2>6. CASE Return(d) \/ SaveSnapshot(d) \/ Die(d)
    BY <1>2, <2>6 DEF Return, SaveSnapshot, Die
  <2>7. CASE ReplaySnapshot(d) \/ ReplayEvents(d)
    BY <1>1, <2>1, <2>7 DEF ReplaySnapshot, ReplayEvents, ListedIsRun, local
  <2> QED
    BY <1>6, <2>2, <2>3, <2>4, <2>5, <2>6, <2>7 DEF Step
<1>7. CASE Corrupt \/ UNCHANGED vars
    BY <1>4, <1>7 DEF Corrupt, local, vars
<1> QED
    BY <1>5, <1>6, <1>7 DEF Next

\* recoverInterrupted when no other call is under way: a history without gaps up to the
\* version of the projection is never rejected, whatever became of its snapshots.
THEOREM HistoryAccepted ==
    ASSUME OneCall
    PROVE  Spec => HistoryIsAccepted
<1>1. Init => ListedIsRun
    BY DEF Init, ListedIsRun
<1>2. Inv /\ ListedIsRun /\ [Next]_vars => ListedIsRun'
    BY OneCall, ListedStep
<1>3. Inv /\ BaseIsPast /\ ListedIsRun /\ [Next]_vars =>
         [\A c \in Client : pc[c] = "events" /\ pc'[c] = "unservable"
             => Len(log) # run.version]_vars
    BY RefusedOnlyIfMoved DEF ListedIsRun
<1> QED
    BY ReplayInvariance, <1>1, <1>2, <1>3, PTL DEF Spec, HistoryIsAccepted
-----------------------------------------------------------------------------
(* The drafts of a transition.                                                  *)

\* The drafts of a transition exist, and each is what a change makes of the one before.
LEMMA DraftsSteps ==
    ASSUME NEW r, NEW changes \in Seq(Change)
    PROVE  /\ Drafts(r, changes)[0] = r
           /\ \A i \in 1..Len(changes) :
                 Drafts(r, changes)[i] = Mutate(Drafts(r, changes)[i - 1], changes[i])
<1> DEFINE n == Len(changes)
           Step1(g, i) == IF i = 0 THEN r ELSE Mutate(g[i - 1], changes[i])
           S == {k \in Nat : \E g : \A i \in 0..k : g[i] = Step1(g, i)}
<1>1. 0 \in S
  <2>1. \A i \in 0..0 : [j \in {0} |-> r][i] = Step1([j \in {0} |-> r], i)
    OBVIOUS
  <2> QED
    BY <2>1
<1>2. ASSUME NEW k \in Nat, k \in S PROVE k + 1 \in S
  <2>1. PICK g : \A i \in 0..k : g[i] = Step1(g, i)
    BY <1>2
  <2> DEFINE h == [i \in 0..(k + 1) |-> IF i <= k THEN g[i]
                                         ELSE Mutate(g[k], changes[k + 1])]
  <2>2. ASSUME NEW i \in 0..(k + 1) PROVE h[i] = Step1(h, i)
    <3>1. CASE i <= k
      <4>1. i \in 0..k /\ h[i] = g[i] /\ (i # 0 => h[i - 1] = g[i - 1])
        BY <3>1
      <4> QED
        BY <2>1, <4>1
    <3>2. CASE ~(i <= k)
      <4>1. i = k + 1 /\ i # 0 /\ i - 1 = k /\ k \in 0..(k + 1) /\ k <= k
        BY <3>2
      <4>2. h[i] = Mutate(g[k], changes[i]) /\ h[i - 1] = g[k]
        BY <4>1
      <4> QED
        BY <4>1, <4>2
    <3> QED
      BY <3>1, <3>2
  <2> HIDE DEF h
  <2> QED
    BY <2>2
<1>3. n \in S
  <2>1. n \in Nat
    OBVIOUS
  <2> HIDE DEF S, n
  <2> QED
    BY <1>1, <1>2, <2>1, Induction
<1> DEFINE Body(f) == [i \in 0..n |-> Step1(f, i)]
<1>4. \E f : f = Body(f)
  <2>1. PICK g : \A i \in 0..n : g[i] = Step1(g, i)
    BY <1>3
  <2> DEFINE f == [i \in 0..n |-> g[i]]
  <2>2. n \in Nat
    OBVIOUS
  <2> HIDE DEF n
  <2>3. \A i \in 0..n : f[i] = Step1(f, i)
    <3> TAKE i \in 0..n
    <3>1. f[i] = g[i] /\ (i # 0 => f[i - 1] = g[i - 1])
      BY <2>2
    <3> QED
      BY <2>1, <3>1
  <2>4. f = Body(f)
    BY <2>3
  <2> QED
    BY <2>4
<1>5. Drafts(r, changes) = CHOOSE f : f = Body(f)
    BY DEF Drafts
<1> HIDE DEF Body
<1>6. Drafts(r, changes) = Body(Drafts(r, changes))
    BY <1>4, <1>5
<1>7. n \in Nat
    OBVIOUS
<1> DEFINE f == Drafts(r, changes)
<1>8. f = [i \in 0..n |-> IF i = 0 THEN r ELSE Mutate(f[i - 1], changes[i])]
    BY <1>6 DEF Body
<1> HIDE DEF f, n
<1> QED
    BY <1>7, <1>8 DEF f, n

\* A draft: a run whose nodes and status may be of either kind.
Loose == [status : Status \cup NodeStatus, nodes : [Node -> Status \cup NodeStatus],
          error : BOOLEAN, version : Nat]

LEMMA MutateFields ==
    ASSUME NEW d \in Loose, NEW ch \in Change
    PROVE  /\ Mutate(d, ch) \in Loose
           /\ Mutate(d, ch).status = IF ch.type \in StatusEvents THEN ch.to ELSE d.status
           /\ Mutate(d, ch).nodes = IF ch.type = "node_changed"
                                    THEN [d.nodes EXCEPT ![ch.node] = ch.to] ELSE d.nodes
<1>1. DOMAIN d = {"status", "nodes", "error", "version"}
    BY DEF Loose
<1>2. /\ ch.to \in Status \cup NodeStatus /\ ch.error \in BOOLEAN
      /\ d.nodes \in [Node -> Status \cup NodeStatus] /\ d.error \in BOOLEAN
    BY DEF Change, Loose
<1>3. CASE ch.type \in StatusEvents
  <2>1. ch.type # "node_changed"
    BY <1>3 DEF StatusEvents
  <2>2. Mutate(d, ch) = [d EXCEPT !.status = ch.to,
                                  !.error = IF ch.keep THEN @ ELSE ch.error]
    BY <1>3, <2>1 DEF Mutate
  <2> QED
    BY <1>1, <1>2, <1>3, <2>1, <2>2 DEF Loose
<1>4. CASE ch.type = "node_changed"
  <2>1. ch.type \notin StatusEvents
    BY <1>4 DEF StatusEvents
  <2>2. Mutate(d, ch) = [d EXCEPT !.nodes[ch.node] = ch.to]
    BY <1>4, <2>1, Zenon DEF Mutate
  <2>3. [d.nodes EXCEPT ![ch.node] = ch.to] \in [Node -> Status \cup NodeStatus]
    BY <1>2
  <2>4. Mutate(d, ch) = [d EXCEPT !.nodes = [d.nodes EXCEPT ![ch.node] = ch.to]]
    BY <2>2
  <2> QED
    BY <1>1, <1>4, <2>1, <2>3, <2>4 DEF Loose
<1>5. CASE ch.type \notin StatusEvents \cup {"node_changed"}
    BY <1>5 DEF Mutate
<1> QED
    BY <1>3, <1>4, <1>5

LEMMA DraftsType ==
    ASSUME NEW r \in Run, NEW changes \in Seq(Change)
    PROVE  \A i \in 0..Len(changes) : Drafts(r, changes)[i] \in Loose
<1> DEFINE n == Len(changes)
           f == Drafts(r, changes)
           S == {i \in Nat : i <= n => f[i] \in Loose}
<1>1. /\ f[0] = r
      /\ \A i \in 1..n : f[i] = Mutate(f[i - 1], changes[i])
    BY DraftsSteps
<1>2. n \in Nat /\ \A i \in 1..n : changes[i] \in Change
    OBVIOUS
<1> HIDE DEF f, n
<1>3. 0 \in S
    BY <1>1 DEF Run, Loose
<1>4. ASSUME NEW i \in Nat, i \in S PROVE i + 1 \in S
  <2> SUFFICES ASSUME i + 1 <= n PROVE f[i + 1] \in Loose
    OBVIOUS
  <2>1. i + 1 \in 1..n /\ (i + 1) - 1 = i /\ i <= n
    BY <1>2
  <2>2. f[i] \in Loose /\ f[i + 1] = Mutate(f[i], changes[i + 1]) /\ changes[i + 1] \in Change
    BY <1>1, <1>2, <1>4, <2>1
  <2> QED
    BY <2>2, MutateFields
<1>5. \A i \in Nat : i \in S
  <2> HIDE DEF S
  <2> QED
    BY <1>3, <1>4, Induction
<1> QED
    BY <1>2, <1>5 DEF f, n

\* Later changes do not disturb earlier drafts.
LEMMA DraftsPrefix ==
    ASSUME NEW r, NEW s \in Seq(Change), NEW t \in Seq(Change),
           Len(s) <= Len(t), \A i \in 1..Len(s) : t[i] = s[i]
    PROVE  Drafts(r, t)[Len(s)] = Drafts(r, s)[Len(s)]
<1> DEFINE n == Len(s)
           m == Len(t)
           f == Drafts(r, s)
           g == Drafts(r, t)
           S == {i \in Nat : i <= n => g[i] = f[i]}
<1>1. /\ f[0] = r
      /\ \A i \in 1..n : f[i] = Mutate(f[i - 1], s[i])
    BY DraftsSteps
<1>2. /\ g[0] = r
      /\ \A i \in 1..m : g[i] = Mutate(g[i - 1], t[i])
    BY DraftsSteps
<1>3. n \in Nat /\ m \in Nat /\ n <= m /\ \A i \in 1..n : t[i] = s[i]
    OBVIOUS
<1> HIDE DEF f, g, n, m
<1>4. 0 \in S
    BY <1>1, <1>2
<1>5. ASSUME NEW i \in Nat, i \in S PROVE i + 1 \in S
  <2> SUFFICES ASSUME i + 1 <= n PROVE g[i + 1] = f[i + 1]
    OBVIOUS
  <2>1. i + 1 \in 1..n /\ i + 1 \in 1..m /\ (i + 1) - 1 = i /\ i <= n
    BY <1>3
  <2> QED
    BY <1>1, <1>2, <1>3, <1>5, <2>1
<1>6. \A i \in Nat : i \in S
  <2> HIDE DEF S
  <2> QED
    BY <1>4, <1>5, Induction
<1> QED
    BY <1>3, <1>6 DEF f, g, n

\* Changes of nodes leave the status alone.
LEMMA NodesOnly ==
    ASSUME NEW r \in Run, NEW changes \in Seq(Change),
           \A i \in 1..Len(changes) : changes[i].type = "node_changed"
    PROVE  Drafts(r, changes)[Len(changes)].status = r.status
<1> DEFINE n == Len(changes)
           f == Drafts(r, changes)
           S == {i \in Nat : i <= n => f[i].status = r.status}
<1>1. /\ f[0] = r
      /\ \A i \in 1..n : f[i] = Mutate(f[i - 1], changes[i])
    BY DraftsSteps
<1>2. \A i \in 0..n : f[i] \in Loose
    BY DraftsType
<1>3. n \in Nat /\ \A i \in 1..n : changes[i] \in Change /\ changes[i].type \notin StatusEvents
    BY DEF StatusEvents
<1> HIDE DEF f, n
<1>4. 0 \in S
    BY <1>1
<1>5. ASSUME NEW i \in Nat, i \in S PROVE i + 1 \in S
  <2> SUFFICES ASSUME i + 1 <= n PROVE f[i + 1].status = r.status
    OBVIOUS
  <2>1. i + 1 \in 1..n /\ (i + 1) - 1 = i /\ i <= n /\ i \in 0..n
    BY <1>3
  <2>2. /\ f[i + 1] = Mutate(f[i], changes[i + 1]) /\ f[i] \in Loose
        /\ changes[i + 1] \in Change /\ changes[i + 1].type \notin StatusEvents
        /\ f[i].status = r.status
    BY <1>1, <1>2, <1>3, <1>5, <2>1
  <2>3. f[i + 1].status = f[i].status
    BY <2>2, MutateFields
  <2> QED
    BY <2>2, <2>3
<1>6. \A i \in Nat : i \in S
  <2> HIDE DEF S
  <2> QED
    BY <1>4, <1>5, Induction
<1> QED
    BY <1>3, <1>6 DEF f, n

\* The changes skip are t after s, and skip each node of U.
OnTop(t, s, skip, U) ==
    /\ \A i \in 1..Len(skip) : /\ skip[i].type = "node_changed" /\ skip[i].node \in U
                              /\ skip[i].to = "skipped"
    /\ \A n \in U : \E i \in 1..Len(skip) : skip[i].node = n
    /\ Len(t) = Len(s) + Len(skip)
    /\ \A i \in 1..Len(s) : t[i] = s[i]
    /\ \A i \in 1..Len(skip) : t[Len(s) + i] = skip[i]

\* In comparison with s, the changes t skip the nodes of U and alter nothing else.
SkipsMore(r, t, s, U) ==
    /\ NodesAlone(s) => NodesAlone(t)
    /\ \A n \in Node : Drafts(r, t)[Len(t)].nodes[n] =
           IF n \in U THEN "skipped" ELSE Drafts(r, s)[Len(s)].nodes[n]

\* Skipping a set of nodes skips these and no other.
LEMMA SkipsOnTop ==
    ASSUME NEW r \in Run, NEW s \in Seq(Change), NEW U \in SUBSET Node,
           NEW skip \in Seq(Change), NEW t \in Seq(Change), OnTop(t, s, skip, U)
    PROVE  SkipsMore(r, t, s, U)
<1> DEFINE a == Len(s)
           b == Len(skip)
           f == Drafts(r, t)
           N == Drafts(r, s)[Len(s)].nodes
           S == {j \in Nat : j <= b => \A n \in Node : f[a + j].nodes[n] =
                    IF \E i \in 1..j : skip[i].node = n THEN "skipped" ELSE N[n]}
<1>2. /\ \A i \in 1..b : /\ skip[i] \in Change /\ skip[i].type = "node_changed"
                         /\ skip[i].node \in U /\ skip[i].to = "skipped"
      /\ \A n \in U : \E i \in 1..b : skip[i].node = n
    BY DEF OnTop
<1>3. /\ Len(t) = a + b
      /\ \A i \in 1..a : t[i] = s[i]
      /\ \A i \in 1..b : t[a + i] = skip[i]
    BY DEF OnTop
<1>4. a \in Nat /\ b \in Nat
    OBVIOUS
<1>5. NodesAlone(s) => NodesAlone(t)
  <2> SUFFICES ASSUME NodesAlone(s), NEW i \in 1..Len(t) PROVE t[i].type = "node_changed"
    BY DEF NodesAlone
  <2>1. CASE i \in 1..a
    BY <1>3, <2>1 DEF NodesAlone
  <2>2. CASE i \notin 1..a
    <3>1. i - a \in 1..b /\ a + (i - a) = i
      <4>1. i \in 1..(a + b)
        BY <1>3
      <4> HIDE DEF a, b
      <4> QED
        BY ONLY <1>4, <2>2, <4>1
    <3> HIDE DEF a, b
    <3>2. t[i] = skip[i - a]
      BY ONLY <1>3, <3>1
    <3>3. skip[i - a].type = "node_changed"
      BY ONLY <1>2, <3>1
    <3> QED
      BY ONLY <3>2, <3>3
  <2> QED
    BY <2>1, <2>2
<1>6. f[a].nodes = N
  <2>1. a <= Len(t)
    BY <1>3, <1>4
  <2>2. f[a] = Drafts(r, s)[a]
    BY <1>3, <2>1, DraftsPrefix
  <2> QED
    BY <2>2
<1>7. \A i \in 1..(a + b) : f[i] = Mutate(f[i - 1], t[i]) /\ f[i - 1] \in Loose
  <2>1. r \in Run /\ t \in Seq(Change)
    OBVIOUS
  <2>3. \A i \in 1..Len(t) : f[i] = Mutate(f[i - 1], t[i])
    BY ONLY <2>1, DraftsSteps, Zenon
  <2>4. \A i \in 0..Len(t) : f[i] \in Loose
    BY ONLY <2>1, DraftsType, Zenon
  <2>2. \A i \in 1..(a + b) : i - 1 \in 0..(a + b)
    BY <1>4
  <2> HIDE DEF f, a, b
  <2> QED
    BY ONLY <1>3, <2>2, <2>3, <2>4
<1> HIDE DEF f, N, a, b
<1>8. 0 \in S
    BY <1>4, <1>6
<1>9. ASSUME NEW j \in Nat, j \in S PROVE j + 1 \in S
  <2> SUFFICES ASSUME j + 1 <= b, NEW n \in Node
               PROVE  f[a + (j + 1)].nodes[n] =
                        IF \E i \in 1..(j + 1) : skip[i].node = n THEN "skipped" ELSE N[n]
    OBVIOUS
  <2> DEFINE k == a + (j + 1)
             x == skip[j + 1]
             d == f[a + j]
  <2>1. k \in 1..(a + b) /\ k - 1 = a + j /\ j + 1 \in 1..b /\ j <= b
    BY <1>4
  <2>2. x \in Change /\ x.type = "node_changed" /\ x.to = "skipped"
    BY <1>2, <2>1
  <2>3. f[k] = Mutate(d, x) /\ d \in Loose
    BY <1>3, <1>7, <2>1
  <2>4. d.nodes[n] = IF \E i \in 1..j : skip[i].node = n THEN "skipped" ELSE N[n]
    BY <1>9, <2>1
  <2> HIDE DEF k, x, d
  <2>5. f[k].nodes = [d.nodes EXCEPT ![x.node] = "skipped"] /\ DOMAIN d.nodes = Node
    <3>1. f[k].nodes = IF x.type = "node_changed"
                       THEN [d.nodes EXCEPT ![x.node] = x.to] ELSE d.nodes
      BY ONLY <2>2, <2>3, MutateFields, Zenon
    <3>2. DOMAIN d.nodes = Node
      BY ONLY <2>3 DEF Loose
    <3> QED
      BY ONLY <2>2, <3>1, <3>2
  <2>6. f[k].nodes[n] = IF x.node = n THEN "skipped" ELSE d.nodes[n]
    BY <2>5
  <2>7. (\E i \in 1..(j + 1) : skip[i].node = n)
        <=> x.node = n \/ \E i \in 1..j : skip[i].node = n
    <3>1. \A i \in 1..(j + 1) : i \in 1..j \/ i = j + 1
      OBVIOUS
    <3>2. j + 1 \in 1..(j + 1) /\ \A i \in 1..j : i \in 1..(j + 1)
      OBVIOUS
    <3> QED
      BY <3>1, <3>2 DEF x
  <2> QED
    BY <2>4, <2>6, <2>7 DEF k
<1>10. \A j \in Nat : j \in S
  <2> HIDE DEF S
  <2> QED
    BY <1>8, <1>9, Induction
<1>11. \A n \in Node : f[a + b].nodes[n] =
           IF \E i \in 1..b : skip[i].node = n THEN "skipped" ELSE N[n]
  <2>1. b \in S /\ b <= b
    BY <1>4, <1>10
  <2> QED
    BY <2>1
<1>12. \A n \in Node : (\E i \in 1..b : skip[i].node = n) <=> n \in U
    BY <1>2
<1>13. \A n \in Node : f[Len(t)].nodes[n] = IF n \in U THEN "skipped" ELSE N[n]
    BY <1>3, <1>11, <1>12
<1> QED
    BY <1>5, <1>13 DEF f, N, SkipsMore

LEMMA SkipsSkip ==
    ASSUME NEW r \in Run, NEW s \in Seq(Change), NEW U \in SUBSET Node,
           NEW g, g = [n \in U |-> "skipped"], NEW t, t = s \o NodeChanges(g)
    PROVE  t \in Seq(Change) /\ SkipsMore(r, t, s, U)
<1> DEFINE skip == NodeChanges(g)
<1>1. g \in [U -> NodeStatus] /\ \A n \in U : g[n] = "skipped"
    BY DEF NodeStatus
<1>7. r \in Run /\ s \in Seq(Change) /\ U \in SUBSET Node
    OBVIOUS
<1>2. /\ skip \in Seq(Change)
      /\ \A i \in 1..Len(skip) : /\ skip[i].type = "node_changed" /\ skip[i].node \in U
                                 /\ skip[i].to = g[skip[i].node]
      /\ \A n \in U : \E i \in 1..Len(skip) : skip[i].node = n
  <2>1. /\ NodeChanges(g) \in Seq(Change)
        /\ \A i \in 1..Len(NodeChanges(g)) :
              /\ NodeChanges(g)[i].type = "node_changed"
              /\ NodeChanges(g)[i].node \in U
              /\ NodeChanges(g)[i].to = g[NodeChanges(g)[i].node]
        /\ \A n \in U : \E i \in 1..Len(NodeChanges(g)) : NodeChanges(g)[i].node = n
    BY ONLY <1>1, <1>7, NodeChangesType, Zenon
  <2> QED
    BY ONLY <2>1
<1>3. t = s \o skip /\ s \in Seq(Change)
    OBVIOUS
<1> HIDE DEF skip
<1>4. \A i \in 1..Len(skip) : skip[i].type = "node_changed" /\ skip[i].node \in U
                              /\ skip[i].to = "skipped"
    BY ONLY <1>1, <1>2
<1>5. t \in Seq(Change) /\ Len(t) = Len(s) + Len(skip)
    BY ONLY <1>2, <1>3
<1>6. /\ \A i \in 1..Len(s) : t[i] = s[i]
      /\ \A i \in 1..Len(skip) : t[Len(s) + i] = skip[i]
    BY ONLY <1>2, <1>3
<1> QED
  <2>1. OnTop(t, s, skip, U)
    BY ONLY <1>2, <1>4, <1>5, <1>6 DEF OnTop
  <2> QED
    BY ONLY <1>2, <1>5, <1>7, <2>1, SkipsOnTop, Zenon

\* The run that a transition stores is its last draft.
LEMMA StoredIsDraft ==
    ASSUME run \in Run, NEW changes \in Seq(Change),
           Consistent(run, changes), Stored(run, changes)
    PROVE  /\ run'.status = Drafts(run, changes)[Len(changes)].status
           /\ run'.nodes = Drafts(run, changes)[Len(changes)].nodes
<1>1. Len(Events(run, changes)) = Len(changes)
    BY EventsFields
<1>2. run' = Expected(run, changes)
    BY <1>1 DEF Consistent, Stored
<1> DEFINE d == Drafts(run, changes)[Len(changes)]
<1>3. d \in Loose
  <2>1. Len(changes) \in 0..Len(changes)
    OBVIOUS
  <2> QED
    BY <2>1, DraftsType
<1>4. run' = [d EXCEPT !.version = run.version + Len(changes)]
    BY <1>2 DEF Expected
<1> HIDE DEF d
<1>5. run'.status = d.status /\ run'.nodes = d.nodes
    BY <1>3, <1>4 DEF Loose
<1> QED
    BY <1>5 DEF d

\* What an advance or a recovery makes of a run is complete only if its nodes are.
LEMMA ConcludedEarns ==
    ASSUME run \in Run, run.status \notin Ended, NEW changes \in Seq(Change),
           Concluded(run, changes), Consistent(run, changes), Stored(run, changes)
    PROVE  CompletionIsEarned'
<1>1. PICK both \in Seq(Change), certified \in BOOLEAN :
        /\ NodesAlone(both)
        /\ LET nodes   == WithSkips(run, both, certified)
               derived == DerivedAfter(run, nodes, certified)
           IN \/ changes = nodes /\ derived = run.status
              \/ \E last \in Change : /\ changes = Append(nodes, last)
                                     /\ last.type \in StatusEvents /\ last.to = derived
    BY DEF Concluded
<1> DEFINE nodes   == WithSkips(run, both, certified)
           derived == DerivedAfter(run, nodes, certified)
           N0 == Drafts(run, both)[Len(both)].nodes
           N  == Drafts(run, nodes)[Len(nodes)].nodes
           U  == {n \in Compensation : N0[n] = "pending"}
           skip == NodeChanges([n \in U |-> "skipped"])
<1>2. U \in SUBSET Node
    BY RunAssumption
<1>3. /\ both \o skip \in Seq(Change) /\ NodesAlone(both \o skip)
      /\ \A n \in Node : Drafts(run, both \o skip)[Len(both \o skip)].nodes[n] =
            IF n \in U THEN "skipped" ELSE N0[n]
  <2> DEFINE g == [n \in U |-> "skipped"]
             t == both \o NodeChanges(g)
  <2>1. U \in SUBSET Node /\ both \in Seq(Change) /\ run \in Run
    BY <1>2
  <2>2. g = [n \in U |-> "skipped"] /\ t = both \o NodeChanges(g)
    OBVIOUS
  <2> HIDE DEF U, g, t
  <2>3. t \in Seq(Change) /\ SkipsMore(run, t, both, U)
    BY ONLY <2>1, <2>2, SkipsSkip, Zenon
  <2>4. t = both \o skip
    BY DEF t, g, U
  <2> HIDE DEF skip
  <2> QED
    BY <1>1, <2>3, <2>4 DEF SkipsMore
<1>4. nodes = IF DeriveStatus(N0, certified) # "verified_complete" THEN both ELSE both \o skip
    BY DEF WithSkips
<1>5. nodes \in Seq(Change) /\ NodesAlone(nodes)
    BY <1>1, <1>3, <1>4
<1>6. derived = DeriveStatus(N, certified)
    BY DEF DerivedAfter
<1>7. derived = "verified_complete" =>
         /\ \A n \in Required : N[n] \in Done
         /\ \A n \in Compensation : N[n] # "pending"
  <2> SUFFICES ASSUME derived = "verified_complete"
               PROVE  /\ \A n \in Required : N[n] \in Done
                      /\ \A n \in Compensation : N[n] # "pending"
    OBVIOUS
  <2>1. \A n \in Required : N[n] \in Done
    <3> HIDE DEF N, derived
    <3> QED
      BY <1>6 DEF DeriveStatus, IsDone
  <2>2. nodes = both \o skip
    BY <1>4, <1>6
  <2>3. \A n \in Compensation : N[n] = IF n \in U THEN "skipped" ELSE N0[n]
    BY <1>3, <2>2, RunAssumption
  <2>4. \A n \in Compensation : n \notin U => N0[n] # "pending"
    OBVIOUS
  <2> HIDE DEF N, N0, U
  <2> QED
    BY <2>1, <2>3, <2>4
<1>8. /\ run'.status = Drafts(run, changes)[Len(changes)].status
      /\ run'.nodes = Drafts(run, changes)[Len(changes)].nodes
    BY StoredIsDraft
<1>9. CASE changes = nodes /\ derived = run.status
  <2>1. Drafts(run, nodes)[Len(nodes)].status = run.status
    <3> HIDE DEF nodes
    <3> QED
      BY <1>5, NodesOnly DEF NodesAlone
  <2>2. run'.status = run.status
    BY <1>8, <1>9, <2>1
  <2> QED
    BY <2>2 DEF CompletionIsEarned, Ended
<1>10. ASSUME NEW last \in Change, changes = Append(nodes, last),
              last.type \in StatusEvents, last.to = derived
       PROVE  CompletionIsEarned'
  <2> HIDE DEF nodes, derived, N
  <2> DEFINE l == Len(nodes)
             f == Drafts(run, changes)
  <2>1. /\ l \in Nat /\ Len(changes) = l + 1 /\ changes[l + 1] = last
        /\ \A i \in 1..l : changes[i] = nodes[i]
    BY <1>5, <1>10
  <2>2. f[l] = Drafts(run, nodes)[l]
    BY <1>5, <2>1, DraftsPrefix
  <2>3. f[l + 1] = Mutate(f[l], last) /\ f[l] \in Loose
    <3>1. l + 1 \in 1..Len(changes) /\ (l + 1) - 1 = l /\ l \in 0..Len(changes)
      BY <2>1
    <3> QED
      BY <2>1, <3>1, DraftsSteps, DraftsType
  <2>4. f[l].nodes = N
    BY <2>2 DEF N
  <2>5. f[l + 1].status = derived /\ f[l + 1].nodes = f[l].nodes
    <3>1. last.type # "node_changed"
      BY <1>10 DEF StatusEvents
    <3> HIDE DEF f
    <3> QED
      BY <1>10, <2>3, <3>1, MutateFields
  <2>6. run'.status = derived /\ run'.nodes = N
    BY <1>8, <2>1, <2>4, <2>5
  <2> QED
    BY <1>7, <2>6 DEF CompletionIsEarned
<1> QED
    BY <1>1, <1>9, <1>10

LEMMA EarnedStep ==
    ASSUME Inv, CompletionIsEarned, [Next]_vars
    PROVE  CompletionIsEarned'
<1>1. \/ UNCHANGED <<run, log, past>>
      \/ run = NoRun
      \/ \E c \in Client, changes \in Seq(Change) :
            /\ \E next \in {"idle", "checkpoint", "snapshot"} : Moves(c, changes, next)
            /\ held[c] = run /\ pc'[c] # pc[c]
            /\ Consistent(run, changes) /\ Stored(run, changes)
    BY NextStep
<1>2. CASE UNCHANGED run
    BY <1>2 DEF CompletionIsEarned
<1>3. CASE run = NoRun /\ run' # run
  <2>1. Len(past) = 0
    <3>1. NoRun.version = 0
      BY DEF NoRun, Draft
    <3> QED
      BY <1>3, <3>1 DEF Inv, LogLeadsToRun
  <2>2. \A c \in Client : ~Step(c)
    <3> SUFFICES ASSUME NEW c \in Client, Step(c) PROVE FALSE
      OBVIOUS
    <3>1. pc[c] = "idle"
      BY <2>1 DEF Inv, HeldIsPast
    <3> QED
      BY <1>3, <3>1 DEF Step, Begin, Halt, Resume, Cancel, Advance, Return, Checkpoint,
                        SaveSnapshot, ReplaySnapshot, ReplayEvents, Recover, Die
  <2>3. CreateWorkflow
    BY <1>3, <2>2 DEF Next, Corrupt, vars
  <2>4. run'.status = "planned"
    BY <2>3 DEF CreateWorkflow, Apply, Draft, StatusEvents
  <2> QED
    BY <2>4 DEF CompletionIsEarned
<1>4. ASSUME NEW c \in Client, NEW changes \in Seq(Change),
             NEW next \in {"idle", "checkpoint", "snapshot"}, Moves(c, changes, next),
             held[c] = run, Consistent(run, changes), Stored(run, changes)
      PROVE  CompletionIsEarned'
  <2>1. run \in Run /\ call[c] \in Calls /\ pc[c] \in {"commit", "checkpoint"}
    BY <1>4 DEF Inv, TypeOK, Moves
  <2>2. CASE pc[c] = "checkpoint"
    <3>1. run'.nodes = run.nodes /\ run'.status = run.status
      BY <1>4, <2>1, <2>2, CheckpointKeeps DEF Moves
    <3> QED
      BY <3>1 DEF CompletionIsEarned
  <2>3. ASSUME pc[c] = "commit", NEW ch \in Change, ch.type \in StatusEvents,
               ch.to \notin {"verified_complete"}, changes # <<>>,
               changes[Len(changes)] = ch
        PROVE  CompletionIsEarned'
    <3>1. PICK before \in Run, e \in Event :
              run' = Apply(before, e) /\ e.type = ch.type /\ e.to = ch.to
      BY <1>4, <2>1, <2>3, LastEvent
    <3>2. run'.status = ch.to
      BY <2>3, <3>1, ApplyFields
    <3> QED
      BY <2>3, <3>2 DEF CompletionIsEarned
  <2>4. CASE pc[c] = "commit" /\ call[c] \in Halts
    <3> DEFINE ch == ChangeStatus(call[c], call[c], FALSE, TRUE)
    <3>1. changes = <<ch>>
      BY <1>4, <2>4 DEF Moves, HaltChanges
    <3>2. ch \in Change /\ ch.type \in StatusEvents /\ ch.to # "verified_complete"
      BY <2>4 DEF Halts, ChangeStatus, Change, StatusEvents, Status
    <3> HIDE DEF ch
    <3>3. changes # <<>> /\ changes[Len(changes)] = ch
      BY <3>1
    <3> QED
      BY <2>3, <2>4, <3>2, <3>3
  <2>5. CASE pc[c] = "commit" /\ call[c] = "resume"
    <3>1. PICK to \in Status \ Ended : changes = <<ChangeStatus("resumed", to, FALSE, FALSE)>>
      BY <1>4, <2>5 DEF Moves
    <3> DEFINE ch == ChangeStatus("resumed", to, FALSE, FALSE)
    <3>2. ch \in Change /\ ch.type \in StatusEvents /\ ch.to # "verified_complete"
      BY DEF Ended, ChangeStatus, Change, StatusEvents
    <3>3. changes = <<ch>>
      BY <3>1
    <3> HIDE DEF ch
    <3>4. changes # <<>> /\ changes[Len(changes)] = ch
      BY <3>3
    <3> QED
      BY <2>3, <2>5, <3>2, <3>4
  <2>6. CASE pc[c] = "commit" /\ call[c] = "cancel"
    <3> DEFINE ch == ChangeStatus("cancelled", "cancelled", FALSE, FALSE)
    <3>1. PICK first \in Seq(Change) : changes = Append(first, ch)
      BY <1>4, <2>6 DEF Moves
    <3>2. ch \in Change /\ ch.type \in StatusEvents /\ ch.to # "verified_complete"
      BY DEF ChangeStatus, Change, StatusEvents, Status
    <3> HIDE DEF ch
    <3>3. changes # <<>> /\ changes[Len(changes)] = ch
      <4>1. /\ Len(changes) = Len(first) + 1 /\ changes[Len(first) + 1] = ch
            /\ Len(first) \in Nat
        BY <3>1, <3>2, AppendType
      <4> QED
        BY <4>1
    <3> QED
      BY <2>3, <2>6, <3>2, <3>3
  <2>7. CASE pc[c] = "commit" /\ call[c] \in {"advance", "recover"}
    <3>1. Concluded(run, changes)
      BY <1>4, <2>7 DEF Moves
    <3>2. run.status \notin Ended
      BY <1>4, <2>7 DEF Inv, HeldIsOpen
    <3> QED
      BY <1>4, <2>1, <3>1, <3>2, ConcludedEarns
  <2> QED
    BY <2>1, <2>2, <2>4, <2>5, <2>6, <2>7 DEF Calls, Halts
<1> QED
    BY <1>1, <1>2, <1>3, <1>4

\* advanceOnce and recoverInterrupted (workflow-controller.ts:314-346, 405-440) with
\* deriveStatus (943-993), whatever the wave came to, whatever recovery found, and whoever
\* else moves the run meanwhile: a run is complete only when all of its required nodes are
\* done and none of its compensations is left pending.
THEOREM CompletionEarned == Spec => []CompletionIsEarned
<1>1. Init => CompletionIsEarned
    BY DEF Init, CompletionIsEarned, NoRun, Draft
<1>2. Inv /\ CompletionIsEarned /\ [Next]_vars => CompletionIsEarned'
    BY EarnedStep
<1> QED
    BY Invariance, <1>1, <1>2, PTL DEF Spec
=============================================================================
