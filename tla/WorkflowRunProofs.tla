--------------------------- MODULE WorkflowRunProofs ---------------------------
(* Theorems of WorkflowRun, for every definition, any number of calls and       *)
(* processes, and any outcomes.                                                 *)
EXTENDS WorkflowRun, FiniteSetTheorems, WellFoundedInduction, TLAPS

\* What one draft differs from the next by.
Change == [type : StatusEvents \cup {"node_changed", "checkpoint_saved"},
           node : Node \cup {NoNode}, to : Status \cup NodeStatus,
           error : BOOLEAN, keep : BOOLEAN]

LEMMA Singleton ==
    ASSUME NEW S, NEW x \in S
    PROVE  <<x>> \in Seq(S) /\ Len(<<x>>) = 1 /\ <<x>>[1] = x
OBVIOUS

LEMMA AppendType ==
    ASSUME NEW S, NEW s \in Seq(S), NEW x \in S
    PROVE  /\ Append(s, x) \in Seq(S)
           /\ Len(Append(s, x)) = Len(s) + 1 /\ Append(s, x)[Len(s) + 1] = x
OBVIOUS

\* A function on 1..n is a sequence.
LEMMA SequenceOfValues ==
    ASSUME NEW n \in Nat, NEW S, NEW f, f = [i \in 1..n |-> f[i]],
           \A i \in 1..n : f[i] \in S
    PROVE  f \in Seq(S) /\ Len(f) = n
<1>1. f \in [1..n -> S]
    OBVIOUS
<1> QED
    BY <1>1

\* The list of a finite set has all of its elements.
LEMMA SetToSeqType ==
    ASSUME NEW S, IsFiniteSet(S)
    PROVE  /\ SetToSeq(S) \in Seq(S)
           /\ \A x \in S : \E i \in 1..Len(SetToSeq(S)) : SetToSeq(S)[i] = x
<1> DEFINE n == Cardinality(S)
           s == SetToSeq(S)
<1>1. n \in Nat /\ ExistsBijection(1..n, S)
    BY FS_CardinalityType
<1>2. \E f \in [1..n -> S] : IsInjective(f)
    BY <1>1 DEF ExistsBijection, Bijection, Injection, IsInjective
<1>3. s \in [1..n -> S] /\ IsInjective(s)
  <2>1. s = CHOOSE f \in [1..n -> S] : IsInjective(f)
    BY DEF SetToSeq
  <2> HIDE DEF s, n
  <2> QED
    BY <1>2, <2>1, Zenon
<1> HIDE DEF s
<1>4. s \in Injection(1..n, S)
    BY <1>3 DEF Injection, IsInjective
<1>5. Cardinality(1..n) = n
    BY <1>1, FS_Interval
<1>6. s \in Surjection(1..n, S)
    BY <1>4, <1>5, FS_Injection
<1>7. s \in Seq(S) /\ Len(s) = n
    BY <1>1, <1>3
<1> QED
    BY <1>6, <1>7 DEF Surjection, s

\* The changes of a set of nodes: one for each, and no other.
LEMMA NodeChangesType ==
    ASSUME NEW D \in SUBSET Node, NEW f \in [D -> NodeStatus]
    PROVE  /\ NodeChanges(f) \in Seq(Change)
           /\ \A i \in 1..Len(NodeChanges(f)) :
                 /\ NodeChanges(f)[i].type = "node_changed"
                 /\ NodeChanges(f)[i].node \in D
                 /\ NodeChanges(f)[i].to = f[NodeChanges(f)[i].node]
           /\ \A n \in D : \E i \in 1..Len(NodeChanges(f)) : NodeChanges(f)[i].node = n
<1> DEFINE order == SetToSeq(D)
           N == NodeChanges(f)
<1>1. IsFiniteSet(D)
    BY FS_Subset, RunAssumption
<1>2. /\ order \in Seq(D)
      /\ \A x \in D : \E i \in 1..Len(order) : order[i] = x
    BY <1>1, SetToSeqType
<1>3. N = [i \in 1..Len(order) |-> ChangeNode(order[i], f[order[i]])]
    BY DEF NodeChanges
<1>4. \A i \in 1..Len(order) : N[i] \in Change
  <2> TAKE i \in 1..Len(order)
  <2>1. order[i] \in Node /\ f[order[i]] \in NodeStatus
    BY <1>2
  <2> QED
    BY <1>3, <2>1 DEF ChangeNode, Change
<1>5. Len(order) \in Nat /\ \A i \in 1..Len(order) : order[i] \in D
    BY <1>2
<1> HIDE DEF order, N
<1>6. /\ DOMAIN N = 1..Len(order)
      /\ \A i \in 1..Len(order) : /\ N[i].type = "node_changed" /\ N[i].node = order[i]
                                   /\ N[i].to = f[order[i]]
    BY <1>3 DEF ChangeNode
<1>7. N \in Seq(Change) /\ Len(N) = Len(order)
  <2>1. N = [i \in 1..Len(order) |-> N[i]]
    BY <1>3
  <2> QED
    BY <1>4, <1>5, <2>1, SequenceOfValues
<1> QED
    BY <1>2, <1>5, <1>6, <1>7 DEF N

LEMMA DeriveStatusType ==
    ASSUME NEW nodes, NEW certified
    PROVE  DeriveStatus(nodes, certified) \in Status
BY DEF DeriveStatus, Status

LEMMA ChangeStatusType ==
    ASSUME NEW type \in StatusEvents, NEW to \in Status, NEW error \in BOOLEAN,
           NEW keep \in BOOLEAN
    PROVE  ChangeStatus(type, to, error, keep) \in Change
BY DEF ChangeStatus, Change

LEMMA OutcomeOfType ==
    ASSUME NEW n \in Node, NEW o \in NodeStatus
    PROVE  OutcomeOf(n, o) \in NodeStatus
BY DEF OutcomeOf, NodeStatus

LEMMA WithSkipsType ==
    ASSUME NEW r, NEW changes \in Seq(Change), NEW certified
    PROVE  WithSkips(r, changes, certified) \in Seq(Change)
<1> DEFINE unused == {n \in Compensation :
                         Drafts(r, changes)[Len(changes)].nodes[n] = "pending"}
<1>1. unused \in SUBSET Node
    BY RunAssumption
<1> HIDE DEF unused
<1>2. [n \in unused |-> "skipped"] \in [unused -> NodeStatus]
    BY DEF NodeStatus
<1>3. NodeChanges([n \in unused |-> "skipped"]) \in Seq(Change)
    BY <1>1, <1>2, NodeChangesType
<1>4. changes \o NodeChanges([n \in unused |-> "skipped"]) \in Seq(Change)
    BY <1>3
<1> QED
    BY <1>4 DEF WithSkips, unused

\* All of the changes are changes of nodes.
NodesAlone(changes) == \A i \in 1..Len(changes) : changes[i].type = "node_changed"

\* An advance or a recovery commits changes of nodes, skips the compensations that a
\* complete run does not need, and then takes the status that is derived, if it is new.
Concluded(r, changes) ==
    \E both \in Seq(Change), certified \in BOOLEAN :
        /\ NodesAlone(both)
        /\ LET nodes   == WithSkips(r, both, certified)
               derived == DerivedAfter(r, nodes, certified)
           IN \/ changes = nodes /\ derived = r.status
              \/ \E last \in Change : /\ changes = Append(nodes, last)
                                     /\ last.type \in StatusEvents /\ last.to = derived

LEMMA CompensationChangesType ==
    ASSUME NEW r, NEW outcome, NEW undo \in [Compensation -> NodeOutcomes]
    PROVE  /\ CompensationChanges(r, outcome, undo) \in Seq(Change)
           /\ NodesAlone(CompensationChanges(r, outcome, undo))
<1> DEFINE pending == {n \in Compensation : r.nodes[n] = "pending"}
           Target(n) == IF ForNode[n] \in DOMAIN outcome THEN outcome[ForNode[n]]
                        ELSE r.nodes[ForNode[n]]
           made == [n \in pending |-> IF Target(n) = "verified_complete"
                                      THEN OutcomeOf(n, undo[n]) ELSE "skipped"]
<1>1. pending \in SUBSET Node /\ pending \subseteq Compensation
    BY RunAssumption
<1>2. \A n \in pending : OutcomeOf(n, undo[n]) \in NodeStatus
    BY <1>1, OutcomeOfType, RunAssumption
<1>3. made \in [pending -> NodeStatus]
    BY <1>2 DEF NodeStatus
<1> HIDE DEF pending, made
<1>4. NodeChanges(made) \in Seq(Change) /\ NodesAlone(NodeChanges(made))
    BY <1>1, <1>3, NodeChangesType DEF NodesAlone
<1> USE DEF pending, made
<1>5. CompensationChanges(r, outcome, undo) = <<>>
      \/ CompensationChanges(r, outcome, undo) = NodeChanges(made)
    BY DEF CompensationChanges
<1> HIDE DEF pending, made
<1>6. <<>> \in Seq(Change) /\ NodesAlone(<<>>)
    BY DEF NodesAlone
<1> QED
    BY <1>4, <1>5, <1>6

LEMMA AdvanceChangesType ==
    ASSUME NEW r \in Run, NEW wave \in SUBSET Node, NEW outcome \in Outcomes(wave),
           NEW undo \in [Compensation -> NodeOutcomes], NEW certified \in BOOLEAN
    PROVE  /\ AdvanceChanges(r, outcome, undo, certified) \in Seq(Change)
           /\ Concluded(r, AdvanceChanges(r, outcome, undo, certified))
<1>1. outcome \in [wave -> NodeStatus]
    BY OutcomeOfType, RunAssumption DEF Outcomes
<1>2. NodeChanges(outcome) \in Seq(Change) /\ NodesAlone(NodeChanges(outcome))
    BY <1>1, NodeChangesType DEF NodesAlone
<1> DEFINE both == NodeChanges(outcome) \o CompensationChanges(r, outcome, undo)
           nodes == WithSkips(r, both, certified)
           derived == DerivedAfter(r, nodes, certified)
           last == ChangeStatus("status_changed", derived, FALSE, TRUE)
<1>3. both \in Seq(Change) /\ NodesAlone(both)
  <2> DEFINE s == NodeChanges(outcome)
             u == CompensationChanges(r, outcome, undo)
  <2>1. s \in Seq(Change) /\ NodesAlone(s) /\ u \in Seq(Change) /\ NodesAlone(u)
    BY <1>2, CompensationChangesType
  <2> HIDE DEF s, u
  <2>2. s \o u \in Seq(Change) /\ NodesAlone(s \o u)
    BY ONLY <2>1 DEF NodesAlone
  <2> QED
    BY <2>2 DEF s, u
<1> HIDE DEF both
<1>4. nodes \in Seq(Change)
    BY <1>3, WithSkipsType
<1> HIDE DEF nodes
<1>5. derived \in Status
    BY DeriveStatusType DEF DerivedAfter
<1> HIDE DEF derived
<1>6. last \in Change /\ last.type \in StatusEvents /\ last.to = derived
    BY <1>5, ChangeStatusType DEF StatusEvents, ChangeStatus
<1> HIDE DEF last
<1>7. \/ AdvanceChanges(r, outcome, undo, certified) = nodes /\ derived = r.status
      \/ AdvanceChanges(r, outcome, undo, certified) = Append(nodes, last)
    BY DEF AdvanceChanges, both, nodes, derived, last
<1> DEFINE changes == AdvanceChanges(r, outcome, undo, certified)
<1> HIDE DEF changes
<1>8. \/ changes = nodes /\ derived = r.status
      \/ changes = Append(nodes, last)
    BY <1>7 DEF changes
<1>9. Concluded(r, changes)
    BY <1>3, <1>6, <1>8 DEF Concluded, nodes, derived
<1>10. changes \in Seq(Change)
    BY <1>4, <1>6, <1>8
<1> QED
    BY <1>9, <1>10 DEF changes
-----------------------------------------------------------------------------
(* The events of a transition and the runs they lead through.                  *)

LEMMA EventsFields ==
    ASSUME NEW r, NEW changes \in Seq(Change)
    PROVE  /\ Len(Events(r, changes)) = Len(changes)
           /\ \A i \in 1..Len(changes) :
                 /\ Events(r, changes)[i].sequence = r.version + i
                 /\ Events(r, changes)[i].type = changes[i].type
                 /\ Events(r, changes)[i].to = changes[i].to
<1> DEFINE ev == Events(r, changes)
<1>1. Len(changes) \in Nat
    OBVIOUS
<1>2. /\ ev = [i \in 1..Len(changes) |-> ev[i]]
      /\ \A i \in 1..Len(changes) : /\ ev[i].sequence = r.version + i
                                    /\ ev[i].type = changes[i].type
                                    /\ ev[i].to = changes[i].to
    BY DEF Events
<1> HIDE DEF ev
<1>3. Len(ev) = Len(changes)
    BY <1>1, <1>2, SequenceOfValues
<1> QED
    BY <1>2, <1>3 DEF ev

LEMMA ApplyFields ==
    ASSUME NEW r \in Run, NEW e
    PROVE  /\ Apply(r, e).version = e.sequence
           /\ Apply(r, e).status = IF e.type \in StatusEvents THEN e.to ELSE r.status
           /\ e.type # "node_changed" => Apply(r, e).nodes = r.nodes
<1>1. DOMAIN r = {"status", "nodes", "error", "version"}
    BY DEF Run
<1>2. CASE e.type \in StatusEvents
    BY <1>1, <1>2 DEF Apply, Run, StatusEvents
<1>3. CASE e.type = "node_changed"
    BY <1>1, <1>3 DEF Apply, Run, StatusEvents
<1>4. CASE e.type \notin StatusEvents \cup {"node_changed"}
    BY <1>1, <1>4 DEF Apply, Run
<1> QED
    BY <1>2, <1>3, <1>4

LEMMA ConsistentChain ==
    ASSUME NEW r \in Run, NEW changes \in Seq(Change), Consistent(r, changes),
           NEW chain, chain = Rebuilt(r, Events(r, changes)),
           NEW ev, ev = Events(r, changes)
    PROVE  /\ ev \in Seq(Event) /\ Len(ev) = Len(changes)
           /\ chain[0] = r
           /\ \A i \in 1..Len(changes) :
                 /\ Applicable(chain[i - 1], ev[i])
                 /\ chain[i] = Apply(chain[i - 1], ev[i])
                 /\ chain[i - 1] \in Run /\ chain[i] \in Run
                 /\ chain[i].version = r.version + i
<1> DEFINE n == Len(changes)
<1>1. n \in Nat
    OBVIOUS
<1>2. /\ Len(ev) = n
      /\ \A i \in 1..n : ev[i].sequence = r.version + i
    BY EventsFields
<1>3. /\ chain[0] = r
      /\ \A i \in 1..n : /\ Applicable(chain[i - 1], ev[i])
                         /\ chain[i] = Apply(chain[i - 1], ev[i])
                         /\ chain[i] \in Run
    BY <1>2 DEF Consistent, Accepted
<1> HIDE DEF n
<1>4. \A i \in 1..n : chain[i - 1] \in Run
  <2> TAKE i \in 1..n
  <2>1. CASE i = 1
    BY <1>3, <2>1
  <2>2. CASE i # 1
    <3>1. i - 1 \in 1..n
      BY <1>1, <2>2
    <3> QED
      BY <1>3, <3>1
  <2> QED
    BY <2>1, <2>2
<1>5. \A i \in 1..n : chain[i].version = r.version + i
  <2> TAKE i \in 1..n
  <2>1. chain[i - 1] \in Run /\ chain[i] = Apply(chain[i - 1], ev[i])
    BY <1>3, <1>4
  <2>2. Apply(chain[i - 1], ev[i]).version = ev[i].sequence
    BY ONLY <2>1, ApplyFields, Zenon
  <2>3. chain[i].version = ev[i].sequence
    BY <2>1, <2>2
  <2> QED
    BY <1>2, <2>3
<1>6. \A i \in 1..n : ev[i] \in Event
    BY <1>3 DEF Applicable
<1>7. ev = [i \in 1..n |-> ev[i]]
    BY DEF Events, n
<1>8. ev \in Seq(Event)
    BY <1>1, <1>6, <1>7, SequenceOfValues
<1> QED
    BY <1>2, <1>3, <1>4, <1>5, <1>8 DEF n
-----------------------------------------------------------------------------
(* What a call holds is a run that the log has led to, and one that the call    *)
(* may move.                                                                   *)

HeldIsPast ==
    \A c \in Client : pc[c] # "idle" =>
        held[c].version \in 1..Len(past) /\ held[c] = past[held[c].version]

HeldIsOpen ==
    \A c \in Client : pc[c] \in {"commit", "replay", "events"} =>
        /\ held[c].status \notin Ended
        /\ call[c] \in {"advance", "recover"} => held[c].status \notin Halts

NothingBeforeCreation == log = <<>> => run = NoRun

Inv == TypeOK /\ LogLeadsToRun /\ NothingBeforeCreation /\ HeldIsPast /\ HeldIsOpen

\* A transition that is stored was computed from the run it replaces, and extends the log.
LEMMA StoredExtends ==
    ASSUME TypeOK, LogLeadsToRun, NEW r \in Run, NEW changes \in Seq(Change),
           changes # <<>>, Consistent(r, changes), Unmoved(r),
           r.version \in 1..Len(past), r = past[r.version],
           Stored(r, changes), snapshots' = snapshots
    PROVE  /\ r = run
           /\ run' \in Run /\ log' \in Seq(Event) /\ past' \in Seq(Run)
           /\ Len(past) <= Len(past') /\ \A i \in 1..Len(past) : past'[i] = past[i]
           /\ LogLeadsToRun'
<1> DEFINE n == Len(changes)
           ev == Events(r, changes)
           chain == Rebuilt(r, ev)
           tail == [i \in 1..n |-> chain[i]]
<1>1. n \in Nat /\ n >= 1
    OBVIOUS
<1>2. /\ ev \in Seq(Event) /\ Len(ev) = n
      /\ chain[0] = r
      /\ \A i \in 1..n : /\ Applicable(chain[i - 1], ev[i])
                         /\ chain[i] = Apply(chain[i - 1], ev[i])
                         /\ chain[i - 1] \in Run /\ chain[i] \in Run
                         /\ chain[i].version = r.version + i
    BY ConsistentChain
<1>3. log' = log \o ev /\ run' = chain[n] /\ past' = past \o tail
    BY <1>2 DEF Stored
<1> HIDE DEF n, ev, chain
<1>4. tail \in Seq(Run) /\ Len(tail) = n /\ \A i \in 1..n : tail[i] = chain[i]
  <2>1. /\ tail = [i \in 1..n |-> tail[i]]
        /\ \A i \in 1..n : tail[i] = chain[i] /\ tail[i] \in Run
    BY <1>2
  <2> HIDE DEF tail
  <2> QED
    BY <1>1, <2>1, SequenceOfValues
<1> HIDE DEF tail
<1>5. /\ log \in Seq(Event) /\ past \in Seq(Run) /\ run \in Run
      /\ Len(log) = Len(past) /\ run.version = Len(log) /\ r.version = run.version
    BY DEF TypeOK, LogLeadsToRun, Unmoved
<1>6. r = run
    BY <1>5 DEF LogLeadsToRun
<1> DEFINE l == Len(log)
<1>7. l \in Nat /\ l >= 1 /\ Len(past) = l /\ r = past[l]
    BY <1>5
<1>8. /\ log' \in Seq(Event) /\ past' \in Seq(Run)
      /\ Len(log') = l + n /\ Len(past') = l + n
      /\ \A i \in 1..l : log'[i] = log[i] /\ past'[i] = past[i]
      /\ \A i \in 1..n : log'[l + i] = ev[i] /\ past'[l + i] = tail[i]
  <2>1. l = Len(log) /\ l = Len(past) /\ n = Len(ev) /\ n = Len(tail)
    BY <1>2, <1>4, <1>5
  <2> HIDE DEF l
  <2>2. /\ log \in Seq(Event) /\ ev \in Seq(Event) /\ log' = log \o ev
        /\ l = Len(log) /\ n = Len(ev)
    BY <1>2, <1>3, <1>5, <2>1
  <2>3. /\ past \in Seq(Run) /\ tail \in Seq(Run) /\ past' = past \o tail
        /\ l = Len(past) /\ n = Len(tail)
    BY <1>3, <1>4, <1>5, <2>1
  <2>4. log' \in Seq(Event) /\ Len(log') = l + n
    BY ONLY <2>2
  <2>5. past' \in Seq(Run) /\ Len(past') = l + n
    BY ONLY <2>3
  <2>6. l \in Nat /\ n \in Nat
    BY ONLY <2>2
  <2>7. /\ \A i \in 1..l : log'[i] = log[i]
        /\ \A i \in 1..n : log'[l + i] = ev[i]
    BY ONLY <2>2, <2>6
  <2>8. /\ \A i \in 1..l : past'[i] = past[i]
        /\ \A i \in 1..n : past'[l + i] = tail[i]
    BY ONLY <2>3, <2>6
  <2> QED
    BY <2>4, <2>5, <2>7, <2>8
<1>9. \A i \in 0..n : past'[l + i] = chain[i]
  <2> TAKE i \in 0..n
  <2>1. CASE i = 0
    BY <1>2, <1>7, <1>8, <2>1
  <2>2. CASE i # 0
    <3>1. i \in 1..n
      BY ONLY <1>1, <2>2, i \in 0..n
    <3>2. past'[l + i] = tail[i] /\ tail[i] = chain[i]
      BY ONLY <1>4, <1>8, <3>1, Zenon
    <3> QED
      BY <3>2
  <2> QED
    BY <2>1, <2>2
<1> HIDE DEF l
<1>10. run' \in Run /\ run'.version = l + n /\ past'[l + n] = run'
  <2>1. n \in 1..n /\ n \in 0..n
    BY <1>1
  <2> QED
    BY <1>2, <1>3, <1>5, <1>9, <2>1 DEF l
<1>11. \A i \in 2..Len(log') : /\ Applicable(past'[i - 1], log'[i])
                               /\ past'[i] = Apply(past'[i - 1], log'[i])
  <2> TAKE i \in 2..Len(log')
  <2>1. CASE i <= l
    <3>1. i \in 2..Len(log) /\ i - 1 \in 1..l /\ i \in 1..l
      BY <1>7, <2>1 DEF l
    <3> QED
      BY <1>8, <3>1 DEF LogLeadsToRun
  <2>2. CASE i > l
    <3> DEFINE j == i - l
    <3>1. j \in 1..n /\ j - 1 \in 0..n /\ j \in 0..n /\ l + j = i /\ l + (j - 1) = i - 1
      BY <1>1, <1>7, <1>8, <2>2
    <3> HIDE DEF j
    <3>2. past'[i] = chain[j] /\ past'[i - 1] = chain[j - 1] /\ log'[i] = ev[j]
      BY <1>8, <1>9, <3>1
    <3> QED
      BY <1>2, <3>1, <3>2
  <2> QED
    BY <1>7, <1>8, <2>1, <2>2
<1>12. \A s \in snapshots' : s.sequence \in 1..Len(log') /\ s.run = past'[s.sequence]
  <2> TAKE s \in snapshots'
  <2>1. s.sequence \in 1..l /\ s.run = past[s.sequence]
    BY DEF LogLeadsToRun, l
  <2> QED
    BY <1>1, <1>7, <1>8, <2>1
<1>13. past'[1] = Draft
    BY <1>7, <1>8 DEF LogLeadsToRun, l
<1>14. LogLeadsToRun'
    BY <1>1, <1>7, <1>8, <1>10, <1>11, <1>12, <1>13 DEF LogLeadsToRun
<1> QED
    BY <1>1, <1>6, <1>7, <1>8, <1>10, <1>14

\* What a call commits when it moves the run.
Moves(c, changes, next) ==
    /\ pc[c] \in {"commit", "checkpoint"}
    /\ Transition(c, changes, next)
    /\ pc[c] = "checkpoint" => changes = CheckpointSaved /\ next = "snapshot"
    /\ call[c] \in Halts /\ pc[c] = "commit" => changes = HaltChanges(call[c])
    /\ call[c] = "resume" /\ pc[c] = "commit" => \E to \in Status \ Ended :
          changes = <<ChangeStatus("resumed", to, FALSE, FALSE)>>
    /\ call[c] = "cancel" /\ pc[c] = "commit" => \E first \in Seq(Change) :
          changes = Append(first, ChangeStatus("cancelled", "cancelled", FALSE, FALSE))
    /\ call[c] \in {"advance", "recover"} /\ pc[c] = "commit" => Concluded(held[c], changes)

\* Every call that commits a transition commits a sequence of changes.
LEMMA MovingStep ==
    ASSUME TypeOK, NEW c \in Client,
           \/ Halt(c) \/ Resume(c) \/ Cancel(c) \/ Advance(c) \/ Checkpoint(c) \/ Recover(c)
    PROVE  \E changes \in Seq(Change), next \in {"idle", "checkpoint", "snapshot"} :
              Moves(c, changes, next)
<1>1. held[c] \in Run
    BY DEF TypeOK
<1>2. CASE Halt(c)
  <2>1. HaltChanges(call[c]) \in Seq(Change)
    <3>1. ChangeStatus(call[c], call[c], FALSE, TRUE) \in Change
      BY <1>2 DEF Halt, Halts, ChangeStatus, Change, StatusEvents, Status
    <3> QED
      BY ONLY <3>1, Singleton, Zenon DEF HaltChanges
  <2>2. Moves(c, HaltChanges(call[c]), "idle")
    BY <1>2 DEF Halt, Moves, Halts
  <2> QED
    BY <2>1, <2>2
<1>3. CASE Resume(c)
  <2> DEFINE to == ResumedStatus(held[c].nodes)
             ch == <<ChangeStatus("resumed", to, FALSE, FALSE)>>
  <2>1. to \in Status \ Ended
    BY DEF ResumedStatus, Status, Ended
  <2> HIDE DEF to
  <2>2. ch \in Seq(Change)
    <3>1. ChangeStatus("resumed", to, FALSE, FALSE) \in Change
      BY <2>1 DEF ChangeStatus, Change, StatusEvents
    <3> QED
      BY ONLY <3>1, Singleton, Zenon
  <2>3. Moves(c, ch, "idle")
    BY <1>3, <2>1 DEF Resume, Moves, Halts, to
  <2> QED
    BY <2>2, <2>3
<1>4. CASE Cancel(c)
  <2> DEFINE open == {n \in Node : held[c].nodes[n] \in
                                      {"pending", "ready", "awaiting_approval"}}
             first == NodeChanges([n \in open |-> "cancelled"])
             last == ChangeStatus("cancelled", "cancelled", FALSE, FALSE)
  <2>1. first \in Seq(Change)
    <3>1. [n \in open |-> "cancelled"] \in [open -> NodeStatus]
      BY DEF NodeStatus
    <3>2. open \in SUBSET Node
      OBVIOUS
    <3> HIDE DEF open
    <3> QED
      BY <3>1, <3>2, NodeChangesType
  <2>2. last \in Change
    BY DEF ChangeStatus, Change, StatusEvents, Status
  <2>3. pc[c] = "commit" /\ call[c] = "cancel" /\ Transition(c, Append(first, last), "idle")
    BY <1>4 DEF Cancel
  <2> HIDE DEF first, last
  <2>4. Append(first, last) \in Seq(Change)
    BY ONLY <2>1, <2>2, AppendType, Zenon
  <2>5. Moves(c, Append(first, last), "idle")
    BY <2>1, <2>3 DEF Moves, Halts, last
  <2> QED
    BY <2>4, <2>5
<1>5. CASE Advance(c)
  <2>1. PICK wave \in Waves(held[c]), undo \in [Compensation -> NodeOutcomes],
             certified \in BOOLEAN, checkpoint \in BOOLEAN : \E outcome \in Outcomes(wave) :
             Transition(c, AdvanceChanges(held[c], outcome, undo, certified),
                        IF checkpoint THEN "checkpoint" ELSE "idle")
    BY <1>5 DEF Advance
  <2>2. PICK outcome \in Outcomes(wave) :
             Transition(c, AdvanceChanges(held[c], outcome, undo, certified),
                        IF checkpoint THEN "checkpoint" ELSE "idle")
    BY <2>1
  <2>3. wave \in SUBSET Node
    BY RunAssumption DEF Waves, Rollback, Awaiting, Required
  <2>4. /\ AdvanceChanges(held[c], outcome, undo, certified) \in Seq(Change)
        /\ Concluded(held[c], AdvanceChanges(held[c], outcome, undo, certified))
    BY <1>1, <2>3, AdvanceChangesType
  <2> DEFINE changes == AdvanceChanges(held[c], outcome, undo, certified)
             next == IF checkpoint THEN "checkpoint" ELSE "idle"
  <2>5. next \in {"idle", "checkpoint", "snapshot"}
    OBVIOUS
  <2>6. pc[c] = "commit" /\ call[c] = "advance"
    BY <1>5 DEF Advance
  <2>7. Transition(c, changes, next)
    BY <2>2
  <2>9. Concluded(held[c], changes)
    BY <2>4
  <2> HIDE DEF changes, next
  <2>8. Moves(c, changes, next)
    BY <2>6, <2>7, <2>9 DEF Moves, Halts
  <2> QED
    BY <2>4, <2>5, <2>8 DEF changes
<1>6. CASE Checkpoint(c)
  <2>1. CheckpointSaved \in Seq(Change)
    <3>1. [type |-> "checkpoint_saved", node |-> NoNode, to |-> "none",
           error |-> FALSE, keep |-> TRUE] \in Change
      BY DEF Change, Status
    <3> QED
      BY <3>1 DEF CheckpointSaved
  <2>2. Moves(c, CheckpointSaved, "snapshot")
    BY <1>6 DEF Checkpoint, Moves
  <2> QED
    BY <2>1, <2>2
<1>7. CASE Recover(c)
  <2>1. PICK repaired \in SUBSET Node, certified \in BOOLEAN :
             \E found \in [repaired -> Recovered] :
             LET r       == held[c]
                 state   == [n \in repaired |-> OutcomeOf(n, found[n])]
                 nodes   == WithSkips(r, NodeChanges(state), certified)
                 derived == DerivedAfter(r, nodes, certified)
                 stuck   == derived = "recovery_required"
             IN Transition(c, Append(nodes, ChangeStatus(
                    IF stuck THEN "recovery_required" ELSE "recovered",
                    derived, stuck, FALSE)), "idle")
    BY <1>7 DEF Recover
  <2>2. PICK found \in [repaired -> Recovered] :
             LET r       == held[c]
                 state   == [n \in repaired |-> OutcomeOf(n, found[n])]
                 nodes   == WithSkips(r, NodeChanges(state), certified)
                 derived == DerivedAfter(r, nodes, certified)
                 stuck   == derived = "recovery_required"
             IN Transition(c, Append(nodes, ChangeStatus(
                    IF stuck THEN "recovery_required" ELSE "recovered",
                    derived, stuck, FALSE)), "idle")
    BY <2>1
  <2> DEFINE state   == [n \in repaired |-> OutcomeOf(n, found[n])]
             nodes   == WithSkips(held[c], NodeChanges(state), certified)
             derived == DerivedAfter(held[c], nodes, certified)
             stuck   == derived = "recovery_required"
             last    == ChangeStatus(IF stuck THEN "recovery_required" ELSE "recovered",
                                     derived, stuck, FALSE)
  <2>3. state \in [repaired -> NodeStatus]
    BY OutcomeOfType, RunAssumption
  <2>4. nodes \in Seq(Change)
    <3>1. NodeChanges(state) \in Seq(Change)
      BY <2>3, NodeChangesType
    <3> HIDE DEF state
    <3> QED
      BY <3>1, WithSkipsType
  <2>5. derived \in Status
    BY DeriveStatusType DEF DerivedAfter
  <2>6. last \in Change
    <3> HIDE DEF derived
    <3>1. stuck \in BOOLEAN
      OBVIOUS
    <3> QED
      BY <2>5, <3>1 DEF ChangeStatus, Change, StatusEvents
  <2>7. pc[c] = "commit" /\ call[c] = "recover" /\ Transition(c, Append(nodes, last), "idle")
    BY <1>7, <2>2 DEF Recover
  <2>10. NodeChanges(state) \in Seq(Change) /\ NodesAlone(NodeChanges(state))
    <3> HIDE DEF state
    <3> QED
      BY <2>3, NodeChangesType DEF NodesAlone
  <2>11. last.type \in StatusEvents /\ last.to = derived
    BY DEF ChangeStatus, StatusEvents
  <2>12. Concluded(held[c], Append(nodes, last))
    <3> HIDE DEF state, last
    <3> QED
      BY <2>6, <2>10, <2>11 DEF Concluded
  <2> HIDE DEF nodes, last
  <2>8. Append(nodes, last) \in Seq(Change)
    BY <2>4, <2>6
  <2>9. Moves(c, Append(nodes, last), "idle")
    BY <2>7, <2>12 DEF Moves, Halts
  <2> QED
    BY <2>8, <2>9
<1> QED
    BY <1>2, <1>3, <1>4, <1>5, <1>6, <1>7

LEMMA NothingHeld == NoRun \in Run /\ NoSnapshot \in Snapshot
<1>1. Draft \in Run
    BY DEF Draft, Run, Status, NodeStatus
<1>2. NoRun \in Run
    BY <1>1 DEF NoRun, Run, Status
<1> QED
    BY <1>2 DEF NoSnapshot, Snapshot

\* What a call holds, and what the others hold, is still of the past when the past has
\* grown.
LEMMA PastGrows ==
    ASSUME Inv, NEW c \in Client, past' \in Seq(Run),
           Len(past) <= Len(past'), \A i \in 1..Len(past) : past'[i] = past[i]
    PROVE  \A d \in Client : pc[d] # "idle" =>
              held[d].version \in 1..Len(past') /\ held[d] = past'[held[d].version]
<1>1. past \in Seq(Run) /\ HeldIsPast
    BY DEF Inv, TypeOK
<1>2. Len(past) \in Nat /\ Len(past') \in Nat
    BY <1>1
<1> QED
    BY <1>1, <1>2 DEF HeldIsPast

\* A call that ends leaves the rest as it is.
LEMMA EndStep ==
    ASSUME Inv, NEW c \in Client, End(c), UNCHANGED <<run, log, past, snapshots>>
    PROVE  Inv'
<1> USE DEF Inv
<1>1. TypeOK'
    BY NothingHeld DEF TypeOK, End, Steps, Calls
<1>2. \A d \in Client : \/ pc'[d] = "idle"
                        \/ pc'[d] = pc[d] /\ held'[d] = held[d] /\ call'[d] = call[d]
    BY DEF End, TypeOK
<1>3. HeldIsPast' /\ HeldIsOpen'
    BY <1>2 DEF HeldIsPast, HeldIsOpen
<1>4. LogLeadsToRun' /\ NothingBeforeCreation'
    BY DEF LogLeadsToRun, NothingBeforeCreation
<1> QED
    BY <1>1, <1>3, <1>4

\* A transition keeps the invariant, and what moves the run was computed from it.
LEMMA MovesStep ==
    ASSUME Inv, NEW c \in Client, NEW changes \in Seq(Change),
           NEW next \in {"idle", "checkpoint", "snapshot"}, Moves(c, changes, next)
    PROVE  /\ Inv'
           /\ \/ UNCHANGED <<run, log, past>>
              \/ /\ held[c] = run /\ pc'[c] # pc[c]
                 /\ Consistent(run, changes) /\ Stored(run, changes)
<1>1. /\ pc[c] \in {"commit", "checkpoint"} /\ held[c] \in Run
      /\ held[c].version \in 1..Len(past) /\ held[c] = past[held[c].version]
    BY DEF Inv, TypeOK, Moves, HeldIsPast
<1>2. changes # <<>> /\ snapshots' = snapshots
    BY DEF Moves, Transition
<1>3. CASE Consistent(held[c], changes) /\ Unmoved(held[c])
  <2>1. /\ Stored(held[c], changes)
        /\ \/ next = "idle" /\ End(c)
           \/ /\ next # "idle"
              /\ held' = [held EXCEPT ![c] = run']
              /\ pc' = [pc EXCEPT ![c] = next]
              /\ UNCHANGED <<call, base>>
    BY <1>3 DEF Moves, Transition
  <2>2. /\ held[c] = run
        /\ run' \in Run /\ log' \in Seq(Event) /\ past' \in Seq(Run)
        /\ Len(past) <= Len(past') /\ \A i \in 1..Len(past) : past'[i] = past[i]
        /\ LogLeadsToRun'
    BY <1>1, <1>2, <1>3, <2>1, StoredExtends DEF Inv
  <2>3. \A d \in Client : pc[d] # "idle" =>
            held[d].version \in 1..Len(past') /\ held[d] = past'[held[d].version]
    BY <2>2, PastGrows
  <2>7. NothingBeforeCreation'
    <3>1. Len(log') # 0
      BY <1>1, <2>2 DEF LogLeadsToRun, Inv, TypeOK
    <3> QED
      BY <3>1 DEF NothingBeforeCreation
  <2>4. pc'[c] # pc[c]
    BY <1>1, <2>1 DEF Moves, End, Inv, TypeOK
  <2>5. CASE End(c)
    <3>1. TypeOK'
      BY <1>2, <2>2, <2>5, NothingHeld DEF Inv, TypeOK, End, Steps, Calls
    <3>2. \A d \in Client : \/ pc'[d] = "idle"
                            \/ pc'[d] = pc[d] /\ held'[d] = held[d] /\ call'[d] = call[d]
      BY <2>5 DEF End, Inv, TypeOK
    <3>3. HeldIsPast' /\ HeldIsOpen'
      BY <2>3, <3>2 DEF Inv, HeldIsPast, HeldIsOpen
    <3> QED
      BY <1>3, <2>1, <2>2, <2>4, <2>7, <3>1, <3>3 DEF Inv
  <2>6. CASE /\ next # "idle"
             /\ held' = [held EXCEPT ![c] = run']
             /\ pc' = [pc EXCEPT ![c] = next]
             /\ UNCHANGED <<call, base>>
    <3>1. TypeOK'
      BY <1>2, <2>2, <2>6 DEF Inv, TypeOK, Steps
    <3>2. \A d \in Client \ {c} :
              pc'[d] = pc[d] /\ held'[d] = held[d] /\ call'[d] = call[d]
      BY <2>6 DEF Inv, TypeOK
    <3>3. pc'[c] = next /\ held'[c] = run' /\ next \in {"checkpoint", "snapshot"}
      BY <2>6 DEF Inv, TypeOK
    <3>4. run'.version \in 1..Len(past') /\ run' = past'[run'.version]
      <4>1. Len(log') \in Nat /\ Len(log') # 0 /\ log' # <<>>
        BY <1>1, <2>2 DEF LogLeadsToRun, Inv, TypeOK
      <4> QED
        BY <2>2, <4>1 DEF LogLeadsToRun
    <3>5. HeldIsPast'
      BY <2>3, <3>2, <3>3, <3>4 DEF HeldIsPast
    <3>6. HeldIsOpen'
      BY <3>2, <3>3 DEF Inv, HeldIsOpen
    <3> QED
      BY <1>3, <2>1, <2>2, <2>4, <2>7, <3>1, <3>5, <3>6 DEF Inv
  <2> QED
    BY <2>1, <2>5, <2>6
<1>4. CASE ~(Consistent(held[c], changes) /\ Unmoved(held[c]))
  <2>1. /\ UNCHANGED <<run, log, past>>
        /\ \/ End(c)
           \/ /\ pc' = [pc EXCEPT ![c] = "unservable"]
              /\ UNCHANGED local
    BY <1>4 DEF Moves, Transition
  <2>2. CASE End(c)
    BY <1>2, <2>1, <2>2, EndStep
  <2>3. CASE pc' = [pc EXCEPT ![c] = "unservable"] /\ UNCHANGED local
    <3>1. TypeOK'
      BY <1>2, <2>1, <2>3 DEF Inv, TypeOK, Steps, local
    <3>2. \A d \in Client : pc'[d] \in {pc[d], "unservable"} /\ (pc'[d] # "idle" => pc[d] # "idle")
      BY <1>1, <2>3 DEF Inv, TypeOK
    <3>3. HeldIsPast' /\ HeldIsOpen'
      BY <2>1, <2>3, <3>2 DEF Inv, HeldIsPast, HeldIsOpen, local
    <3>4. LogLeadsToRun' /\ NothingBeforeCreation'
      BY <1>2, <2>1 DEF Inv, LogLeadsToRun, NothingBeforeCreation
    <3> QED
      BY <2>1, <3>1, <3>3, <3>4 DEF Inv
  <2> QED
    BY <2>1, <2>2, <2>3
<1> QED
    BY <1>3, <1>4
-----------------------------------------------------------------------------
(* The other steps.                                                             *)

\* Of the snapshots one is the newest.
LEMMA LatestSnapshotStored ==
    ASSUME TypeOK, LogLeadsToRun
    PROVE  LatestSnapshot \in snapshots \cup {NoSnapshot}
<1> DEFINE n == Len(log)
           R == OpToRel(<, Nat)
           T == {n - s.sequence : s \in snapshots}
<1>1. CASE snapshots = {}
    BY <1>1 DEF LatestSnapshot
<1>2. CASE snapshots # {}
  <2>1. n \in Nat /\ \A s \in snapshots : s.sequence \in 1..n
    BY DEF TypeOK, LogLeadsToRun
  <2> HIDE DEF n
  <2>2. T \subseteq Nat /\ T # {}
    BY <1>2, <2>1
  <2>3. PICK x \in T : \A y \in T : ~(<<y, x>> \in R)
    <3> HIDE DEF T, R
    <3>1. IsWellFoundedOn(R, Nat)
      BY NatLessThanWellFounded DEF R
    <3> QED
      BY <2>2, <3>1, WFMin
  <2>4. \A y \in T : ~(y < x)
    BY <2>2, <2>3 DEF OpToRel
  <2>5. PICK s \in snapshots : x = n - s.sequence
    OBVIOUS
  <2>6. \A t \in snapshots : t.sequence <= s.sequence
    <3> TAKE t \in snapshots
    <3>1. n - t.sequence \in T
      OBVIOUS
    <3>2. ~(n - t.sequence < n - s.sequence)
      BY <2>4, <2>5, <3>1
    <3> QED
      BY <2>1, <3>2
  <2>7. Newest \in snapshots
    BY <2>6 DEF Newest
  <2> QED
    BY <1>2, <2>7 DEF LatestSnapshot
<1> QED
    BY <1>1, <1>2

LEMMA LatestSnapshotType ==
    ASSUME TypeOK, LogLeadsToRun
    PROVE  LatestSnapshot \in Snapshot
BY LatestSnapshotStored, NothingHeld DEF TypeOK

LEMMA CreateStep ==
    ASSUME Inv, CreateWorkflow
    PROVE  Inv'
<1> DEFINE created == [type |-> "created", node |-> NoNode, from |-> "none",
                       to |-> "draft", error |-> FALSE, sequence |-> 1]
           planned == [type |-> "status_changed", node |-> NoNode, from |-> "draft",
                       to |-> "planned", error |-> FALSE, sequence |-> 2]
<1>1. /\ run = NoRun
      /\ log' = <<created, planned>> /\ run' = Apply(Draft, planned)
      /\ past' = <<Draft, Apply(Draft, planned)>>
      /\ UNCHANGED <<snapshots, pc, call, held, base>>
    BY DEF CreateWorkflow
<1>2. log = <<>> /\ past = <<>> /\ snapshots = {}
  <2>1. run.version = 0
    BY <1>1 DEF NoRun
  <2>2. Len(log) = 0 /\ Len(past) = 0
    BY <2>1 DEF Inv, LogLeadsToRun
  <2> QED
    BY <2>2 DEF Inv, LogLeadsToRun, TypeOK
<1>3. \A c \in Client : pc[c] = "idle"
    BY <1>2 DEF Inv, HeldIsPast
<1>4. created \in Event /\ planned \in Event
    BY DEF Event, StatusEvents, Status
<1>5. Draft \in Run /\ Draft.version = 1 /\ Draft.status = "draft"
    BY DEF Draft, Run, Status, NodeStatus
<1>6. /\ Apply(Draft, planned) \in Run /\ Apply(Draft, planned).version = 2
      /\ Applicable(Draft, planned)
  <2>1. planned.type \in StatusEvents /\ planned.to = "planned" /\ planned.sequence = 2
        /\ planned.error = FALSE /\ planned.from = "draft" /\ planned.type = "status_changed"
    BY DEF StatusEvents
  <2> HIDE DEF planned
  <2>2. Apply(Draft, planned) \in Run
    <3> DEFINE mid == [Draft EXCEPT !.status = planned.to, !.error = planned.error]
    <3>1. mid \in Run
      BY <1>5, <2>1 DEF Run, Status
    <3>2. Apply(Draft, planned) = [mid EXCEPT !.version = planned.sequence]
      BY <2>1 DEF Apply
    <3> HIDE DEF mid
    <3> QED
      BY <2>1, <3>1, <3>2 DEF Run
  <2>3. Apply(Draft, planned).version = 2
    BY <1>5, <2>1, ApplyFields
  <2>4. Applicable(Draft, planned)
    BY <1>4, <1>5, <2>1 DEF Applicable, Status
  <2> QED
    BY <2>2, <2>3, <2>4
<1> HIDE DEF created, planned
<1>7. log' \in Seq(Event) /\ Len(log') = 2 /\ log'[2] = planned
    BY <1>1, <1>4
<1>8. past' \in Seq(Run) /\ Len(past') = 2 /\ past'[1] = Draft /\ past'[2] = Apply(Draft, planned)
    BY <1>1, <1>5, <1>6
<1>9. TypeOK'
    BY <1>1, <1>6, <1>7, <1>8 DEF Inv, TypeOK
<1>10. LogLeadsToRun'
  <2>1. \A i \in 2..Len(log') : i = 2
    BY <1>7
  <2> QED
    BY <1>1, <1>2, <1>6, <1>7, <1>8, <2>1 DEF LogLeadsToRun
<1>11. HeldIsPast' /\ HeldIsOpen'
    BY <1>1, <1>3 DEF HeldIsPast, HeldIsOpen
<1>12. NothingBeforeCreation'
    BY <1>7 DEF NothingBeforeCreation
<1> QED
    BY <1>9, <1>10, <1>11, <1>12 DEF Inv

LEMMA BeginStep ==
    ASSUME Inv, NEW c \in Client, Begin(c)
    PROVE  Inv'
<1>1. PICK k \in Calls :
          /\ \/ k = "advance" /\ run.status \notin Ended /\ ~Halted(run)
             \/ k \in Halts   /\ run.status # k /\ Haltable(run)
             \/ k = "resume"  /\ Halted(run)
             \/ k = "cancel"  /\ run.status \notin Ended
             \/ k = "recover" /\ run.status \in {"planned", "running",
                                    "awaiting_approval", "recovery_required"}
          /\ call' = [call EXCEPT ![c] = k]
          /\ pc' = [pc EXCEPT ![c] = IF k = "recover" THEN "replay" ELSE "commit"]
    BY DEF Begin
<1>2. /\ run # NoRun /\ held' = [held EXCEPT ![c] = run]
      /\ UNCHANGED <<run, log, snapshots, base, past>>
    BY DEF Begin
<1>3. TypeOK'
    BY <1>1, <1>2 DEF Inv, TypeOK, Steps
<1>4. LogLeadsToRun' /\ NothingBeforeCreation'
    BY <1>2 DEF Inv, LogLeadsToRun, NothingBeforeCreation
<1>5. run.version \in 1..Len(past) /\ run = past[run.version]
  <2>1. log # <<>> /\ log \in Seq(Event)
    BY <1>2 DEF Inv, NothingBeforeCreation, TypeOK
  <2>2. Len(log) \in Nat /\ Len(log) # 0
    BY <2>1
  <2> QED
    BY <2>1, <2>2 DEF Inv, LogLeadsToRun
<1>6. \A d \in Client \ {c} : pc'[d] = pc[d] /\ held'[d] = held[d] /\ call'[d] = call[d]
    BY <1>1, <1>2 DEF Inv, TypeOK
<1>7. held'[c] = run /\ call'[c] = k
    BY <1>1, <1>2 DEF Inv, TypeOK
<1>8. HeldIsPast'
    BY <1>2, <1>5, <1>6, <1>7 DEF Inv, HeldIsPast
<1>9. run.status \notin Ended /\ (k \in {"advance", "recover"} => run.status \notin Halts)
    BY <1>1 DEF Halted, Haltable, Halts, Ended
<1>10. HeldIsOpen'
    BY <1>6, <1>7, <1>9 DEF Inv, HeldIsOpen
<1> QED
    BY <1>3, <1>4, <1>8, <1>10 DEF Inv

\* Every step keeps the invariant; one that replaces the run was computed from it.
LEMMA NextStep ==
    ASSUME Inv, [Next]_vars
    PROVE  /\ Inv'
           /\ \/ UNCHANGED <<run, log, past>>
              \/ run = NoRun
              \/ \E c \in Client, changes \in Seq(Change) :
                    /\ \E next \in {"idle", "checkpoint", "snapshot"} : Moves(c, changes, next)
                    /\ held[c] = run /\ pc'[c] # pc[c]
                    /\ Consistent(run, changes) /\ Stored(run, changes)
<1>1. CASE UNCHANGED vars
    BY <1>1 DEF vars, Inv, TypeOK, LogLeadsToRun, NothingBeforeCreation, HeldIsPast, HeldIsOpen
<1>2. CASE CreateWorkflow
    BY <1>2, CreateStep DEF CreateWorkflow
<1>3. CASE Corrupt
  <2>1. PICK s \in snapshots :
            snapshots' = (snapshots \ {s}) \cup {[s EXCEPT !.readable = FALSE]}
    BY <1>3 DEF Corrupt
  <2>2. UNCHANGED <<run, log, past, pc, call, held, base>>
    BY <1>3 DEF Corrupt, local
  <2> DEFINE bad == [s EXCEPT !.readable = FALSE]
  <2>3. bad \in Snapshot /\ bad.sequence = s.sequence /\ bad.run = s.run
    BY DEF Inv, TypeOK, Snapshot
  <2> HIDE DEF bad
  <2>4. TypeOK'
    BY <2>1, <2>2, <2>3 DEF Inv, TypeOK, bad
  <2>5. LogLeadsToRun' /\ NothingBeforeCreation'
    BY <2>1, <2>2, <2>3 DEF Inv, LogLeadsToRun, NothingBeforeCreation, bad
  <2>6. HeldIsPast' /\ HeldIsOpen'
    BY <2>2 DEF Inv, HeldIsPast, HeldIsOpen
  <2> QED
    BY <2>2, <2>4, <2>5, <2>6 DEF Inv
<1>4. ASSUME NEW c \in Client, Step(c)
      PROVE  /\ Inv'
             /\ \/ UNCHANGED <<run, log, past>>
                \/ \E changes \in Seq(Change) :
                      /\ \E next \in {"idle", "checkpoint", "snapshot"} : Moves(c, changes, next)
                      /\ held[c] = run /\ pc'[c] # pc[c]
                      /\ Consistent(run, changes) /\ Stored(run, changes)
  <2>1. CASE Begin(c)
      BY <2>1, BeginStep DEF Begin
  <2>2. CASE Halt(c) \/ Resume(c) \/ Cancel(c) \/ Advance(c) \/ Checkpoint(c) \/ Recover(c)
    <3>1. PICK changes \in Seq(Change), next \in {"idle", "checkpoint", "snapshot"} :
              Moves(c, changes, next)
      BY <2>2, MovingStep DEF Inv
    <3> QED
      BY <3>1, MovesStep
  <2>3. CASE Return(c) \/ Die(c)
    BY <2>3, EndStep DEF Return, Die
  <2>4. CASE SaveSnapshot(c)
    <3> DEFINE s == [sequence |-> held[c].version, run |-> held[c], readable |-> TRUE]
    <3>1. /\ pc[c] = "snapshot" /\ End(c) /\ UNCHANGED <<run, log, past>>
          /\ snapshots' \subseteq snapshots \cup {s}
      BY <2>4 DEF SaveSnapshot
    <3>2. held[c] \in Run /\ held[c].version \in Nat
      BY DEF Inv, TypeOK, Run
    <3>3. s \in Snapshot
      BY <3>2 DEF Snapshot
    <3>4. s.sequence \in 1..Len(log) /\ s.run = past[s.sequence]
      BY <3>1 DEF Inv, HeldIsPast, LogLeadsToRun
    <3> HIDE DEF s
    <3>5. TypeOK'
      BY <3>1, <3>3, NothingHeld DEF Inv, TypeOK, End, Steps, Calls
    <3>6. LogLeadsToRun' /\ NothingBeforeCreation'
      BY <3>1, <3>4 DEF Inv, LogLeadsToRun, NothingBeforeCreation
    <3>7. \A d \in Client : \/ pc'[d] = "idle"
                            \/ pc'[d] = pc[d] /\ held'[d] = held[d] /\ call'[d] = call[d]
      BY <3>1 DEF End, Inv, TypeOK
    <3>8. HeldIsPast' /\ HeldIsOpen'
      BY <3>1, <3>7 DEF Inv, HeldIsPast, HeldIsOpen
    <3> QED
      BY <3>1, <3>5, <3>6, <3>8 DEF Inv
  <2>5. CASE ReplaySnapshot(c) \/ ReplayEvents(c)
    <3>1. /\ pc[c] \in {"replay", "events"}
          /\ \/ pc' = [pc EXCEPT ![c] = "events"] \/ pc' = [pc EXCEPT ![c] = "commit"]
             \/ pc' = [pc EXCEPT ![c] = "unservable"]
          /\ UNCHANGED <<run, log, snapshots, past, call, held>>
      BY <2>5 DEF ReplaySnapshot, ReplayEvents, local
    <3>2. base' \in [Client -> Snapshot]
      BY <2>5, LatestSnapshotType DEF ReplaySnapshot, ReplayEvents, local, Inv, TypeOK
    <3>3. TypeOK'
      BY <3>1, <3>2 DEF Inv, TypeOK, Steps
    <3>4. LogLeadsToRun' /\ NothingBeforeCreation'
      BY <3>1 DEF Inv, LogLeadsToRun, NothingBeforeCreation
    <3>5. \A d \in Client : \/ pc'[d] = pc[d]
                            \/ /\ pc[d] \in {"replay", "events"}
                               /\ pc'[d] \in {"events", "commit", "unservable"}
      BY <3>1 DEF Inv, TypeOK
    <3>6. HeldIsPast' /\ HeldIsOpen'
      BY <3>1, <3>5 DEF Inv, HeldIsPast, HeldIsOpen
    <3> QED
      BY <3>1, <3>3, <3>4, <3>6 DEF Inv
  <2> QED
    BY <1>4, <2>1, <2>2, <2>3, <2>4, <2>5 DEF Step
<1> QED
    BY <1>1, <1>2, <1>3, <1>4 DEF Next, Corrupt

LEMMA InitInv == Init => Inv
<1> SUFFICES ASSUME Init PROVE Inv
    OBVIOUS
<1>1. TypeOK
    BY NothingHeld DEF Init, TypeOK, Steps, Calls
<1>2. LogLeadsToRun
    BY DEF Init, LogLeadsToRun, NoRun
<1> QED
    BY <1>1, <1>2 DEF Init, Inv, NothingBeforeCreation, HeldIsPast, HeldIsOpen

LEMMA Invariance == Spec => []Inv
<1>1. Inv /\ [Next]_vars => Inv'
    BY NextStep
<1> QED
    BY InitInv, <1>1, PTL DEF Spec
-----------------------------------------------------------------------------
(* Theorems.                                                                    *)

\* The variables keep their types.
THEOREM TypeCorrect == Spec => []TypeOK
<1>1. Inv => TypeOK
    BY DEF Inv
<1> QED
    BY Invariance, <1>1, PTL

\* transitionWorkflow (storage-sqlite index.ts:755-782): event by event the log leads from
\* the draft to the projection, and a snapshot is the run of its sequence number,
\* whatever calls interleave between a read and a commit.
THEOREM LogIsHistory == Spec => []LogLeadsToRun
<1>1. Inv => LogLeadsToRun
    BY DEF Inv
<1> QED
    BY Invariance, <1>1, PTL

\* The compare-and-swap of transitionWorkflow: a transition replaces the run that its call
\* had read, never one committed since.
THEOREM NothingLost == Spec => NoLostTransition
<1>1. Inv /\ [Next]_vars =>
         [run' # run /\ run # NoRun => \E c \in Client : pc[c] # pc'[c] /\ held[c] = run]_vars
    BY NextStep
<1> QED
    BY Invariance, <1>1, PTL DEF Spec, NoLostTransition

\* The last change of a transition is the last step to the run that it stores.
LEMMA LastEvent ==
    ASSUME run \in Run, NEW changes \in Seq(Change), changes # <<>>,
           Consistent(run, changes), Stored(run, changes)
    PROVE  \E before \in Run, e \in Event :
              /\ run' = Apply(before, e)
              /\ e.type = changes[Len(changes)].type
              /\ e.to = changes[Len(changes)].to
              /\ Len(changes) = 1 => before = run
<1> DEFINE n == Len(changes)
           ev == Events(run, changes)
           chain == Rebuilt(run, ev)
<1>1. n \in Nat /\ n >= 1 /\ n \in 1..n /\ (n = 1 => n - 1 = 0)
    OBVIOUS
<1>2. /\ Len(ev) = n /\ chain[0] = run /\ ev \in Seq(Event)
      /\ \A i \in 1..n : chain[i] = Apply(chain[i - 1], ev[i]) /\ chain[i - 1] \in Run
    BY ConsistentChain
<1>3. \A i \in 1..n : ev[i].type = changes[i].type /\ ev[i].to = changes[i].to
    BY EventsFields
<1>4. run' = chain[n]
    BY <1>2 DEF Stored
<1> HIDE DEF ev, chain, n
<1>5. /\ run' = Apply(chain[n - 1], ev[n]) /\ chain[n - 1] \in Run
      /\ ev[n].type = changes[n].type /\ ev[n].to = changes[n].to
      /\ n = 1 => chain[n - 1] = run
      /\ ev[n] \in Event
    BY <1>1, <1>2, <1>3, <1>4
<1> QED
    BY <1>5 DEF n

\* A transition of one change that is not a change of a node keeps the nodes.
LEMMA OneChange ==
    ASSUME run \in Run, NEW ch \in Change,
           Consistent(run, <<ch>>), Stored(run, <<ch>>)
    PROVE  /\ ch.type # "node_changed" => run'.nodes = run.nodes
           /\ ch.type \notin StatusEvents => run'.status = run.status
<1>1. <<ch>> \in Seq(Change) /\ Len(<<ch>>) = 1 /\ <<ch>>[1] = ch /\ <<ch>> # <<>>
    BY Singleton
<1>2. PICK before \in Run, e \in Event :
              /\ run' = Apply(before, e)
              /\ e.type = <<ch>>[Len(<<ch>>)].type
              /\ e.to = <<ch>>[Len(<<ch>>)].to
              /\ Len(<<ch>>) = 1 => before = run
    BY <1>1, LastEvent
<1>3. run' = Apply(run, e) /\ e.type = ch.type
    BY <1>1, <1>2
<1> QED
    BY <1>3, ApplyFields

\* A checkpoint neither changes nodes nor the status.
LEMMA CheckpointKeeps ==
    ASSUME run \in Run, Consistent(run, CheckpointSaved), Stored(run, CheckpointSaved)
    PROVE  run'.nodes = run.nodes /\ run'.status = run.status
<1> DEFINE ch == [type |-> "checkpoint_saved", node |-> NoNode, to |-> "none",
                  error |-> FALSE, keep |-> TRUE]
<1>1. ch \in Change /\ ch.type = "checkpoint_saved"
    BY DEF Change, Status
<1>2. CheckpointSaved = <<ch>>
    BY DEF CheckpointSaved
<1> HIDE DEF ch
<1>3. ch.type \notin StatusEvents \cup {"node_changed"}
    BY <1>1 DEF StatusEvents
<1> QED
    BY <1>1, <1>2, <1>3, OneChange

\* advance, halt, cancel and recovery (workflow-controller.ts:132, 476, 503, 373) each refuse
\* an ended run when they read it, and commit only if it is still the run they have read;
\* the checkpoint that follows a wave does not move the status.
THEOREM EndedStays == Spec => EndedStaysEnded
<1>1. ASSUME Inv, [Next]_vars, run.status \in Ended
      PROVE  run' = run \/ run'.status = run.status
  <2>1. run # NoRun /\ run \in Run
    BY <1>1 DEF NoRun, Draft, Ended, Inv, TypeOK
  <2>2. CASE run' = run
    BY <2>2
  <2>3. CASE run' # run
    <3>1. PICK c \in Client, changes \in Seq(Change) :
              /\ \E next \in {"idle", "checkpoint", "snapshot"} : Moves(c, changes, next)
              /\ held[c] = run
              /\ Consistent(run, changes) /\ Stored(run, changes)
      BY <1>1, <2>1, <2>3, NextStep
    <3>2. changes = CheckpointSaved
      BY <1>1, <3>1 DEF Moves, Inv, HeldIsOpen
    <3> QED
      BY <2>1, <3>1, <3>2, CheckpointKeeps
  <2> QED
    BY <2>2, <2>3
<1>2. Inv /\ [Next]_vars => [run.status \in Ended => run' = run \/ run'.status = run.status]_vars
    BY <1>1
<1> QED
    BY Invariance, <1>2, PTL DEF Spec, EndedStaysEnded

\* A wave, or a recovery, that was in flight when the run was halted does not commit: only
\* a cancellation changes the nodes of a halted run.
THEOREM HaltsHold == Spec => HaltHolds
<1>1. ASSUME Inv, [Next]_vars, run.status \in Halts, run'.nodes # run.nodes
      PROVE  run'.status = "cancelled"
  <2>1. run # NoRun /\ run \in Run
    BY <1>1 DEF NoRun, Draft, Halts, Inv, TypeOK
  <2>2. PICK c \in Client, changes \in Seq(Change), next \in {"idle", "checkpoint", "snapshot"} :
            /\ Moves(c, changes, next)
            /\ held[c] = run
            /\ Consistent(run, changes) /\ Stored(run, changes)
    BY <1>1, <2>1, NextStep
  <2>3. pc[c] \in {"commit", "checkpoint"}
    BY <2>2 DEF Moves
  <2>4. pc[c] # "checkpoint"
    BY <1>1, <2>1, <2>2, CheckpointKeeps DEF Moves
  <2>5. call[c] \notin {"advance", "recover"} /\ call[c] \in Calls
    BY <1>1, <2>2, <2>3, <2>4 DEF Inv, HeldIsOpen, TypeOK
  <2>6. call[c] \notin Halts
    <3> SUFFICES ASSUME call[c] \in Halts PROVE FALSE
      OBVIOUS
    <3> DEFINE ch == ChangeStatus(call[c], call[c], FALSE, TRUE)
    <3>1. changes = <<ch>>
      BY <2>2, <2>3, <2>4 DEF Moves, HaltChanges
    <3>2. ch \in Change /\ ch.type # "node_changed"
      BY DEF Halts, ChangeStatus, Change, StatusEvents, Status
    <3> HIDE DEF ch
    <3> QED
      BY <1>1, <2>1, <2>2, <3>1, <3>2, OneChange
  <2>7. call[c] # "resume"
    <3> SUFFICES ASSUME call[c] = "resume" PROVE FALSE
      OBVIOUS
    <3>1. PICK to \in Status : changes = <<ChangeStatus("resumed", to, FALSE, FALSE)>>
      BY <2>2, <2>3, <2>4 DEF Moves
    <3> DEFINE ch == ChangeStatus("resumed", to, FALSE, FALSE)
    <3>2. ch \in Change /\ ch.type # "node_changed"
      BY DEF ChangeStatus, Change, StatusEvents
    <3>3. changes = <<ch>>
      BY <3>1
    <3> HIDE DEF ch
    <3> QED
      BY <1>1, <2>1, <2>2, <3>2, <3>3, OneChange
  <2>8. call[c] = "cancel"
    BY <2>5, <2>6, <2>7 DEF Calls, Halts
  <2> DEFINE last == ChangeStatus("cancelled", "cancelled", FALSE, FALSE)
  <2>9. PICK first \in Seq(Change) : changes = Append(first, last)
    BY <2>2, <2>3, <2>4, <2>8 DEF Moves
  <2>10. last \in Change /\ last.type \in StatusEvents /\ last.to = "cancelled"
    BY DEF ChangeStatus, Change, StatusEvents, Status
  <2> HIDE DEF last
  <2>11. changes[Len(changes)] = last /\ changes # <<>>
    <3>1. /\ Append(first, last) \in Seq(Change)
          /\ Len(Append(first, last)) = Len(first) + 1
          /\ Append(first, last)[Len(first) + 1] = last
      BY ONLY <2>10, AppendType, Zenon
    <3>2. Len(first) \in Nat
      OBVIOUS
    <3> QED
      BY <2>9, <3>1, <3>2
  <2>12. PICK before \in Run, e \in Event :
              run' = Apply(before, e) /\ e.type = last.type /\ e.to = last.to
    BY <2>1, <2>2, <2>11, LastEvent
  <2> QED
    BY <2>10, <2>12, ApplyFields
<1>2. Inv /\ [Next]_vars =>
         [run.status \in Halts /\ run'.nodes # run.nodes => run'.status = "cancelled"]_vars
    BY <1>1
<1> QED
    BY Invariance, <1>2, PTL DEF Spec, HaltHolds
=============================================================================
