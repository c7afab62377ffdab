------------------------- MODULE WorkflowNodesProofs -------------------------
(* Theorems of WorkflowNodes, each with the invariant that it takes: what tasks    *)
(* there are and whose they are (TaskInv); what recovery may conclude from them   *)
(* (MetInv), with which the saga survives deaths; that no request is planned      *)
(* twice (OnceInv); and that a run has work, or says what keeps it (WorkInv).     *)
EXTENDS WorkflowSagaProofs

-----------------------------------------------------------------------------
(* What tasks there are.  As long as predicates answer as before, each node works *)
(* through one line of requests, as far as its goal, in their order; its ids, and  *)
(* those of its jobs, are tasks of the first of them; a node is complete when the  *)
(* tasks of all of them are verified, or, after a recovery, of all that were found. *)

Plan(n) ==
    LET line == Slots(n, answers[n])
        size == IF def[n].type = "bounded_loop" THEN Size(n) ELSE 0
    IN [type |-> def[n].type, line |-> line, size |-> size,
        goal |-> IF size # 0 /\ answers[n] * size < Len(line)
                 THEN answers[n] * size ELSE Len(line)]

\* What a node's record says of the tasks in list.
Sound(state, p, list) ==
    /\ Len(state.ids) <= p.goal
    /\ \A i \in DOMAIN state.ids : list[state.ids[i]].key = p.line[i]
    /\ p.size # 0 /\ state.status # "verified_complete" =>
          /\ state.iterations * p.size <= Len(state.ids) /\ state.iterations * p.size < p.goal
          /\ \A i \in 1..(state.iterations * p.size) :
                list[state.ids[i]].status = "verified_success"
    /\ state.status \in {"verified_complete", "compensated"} /\ p.type # "approval" =>
          \A i \in DOMAIN state.ids : list[state.ids[i]].status = "verified_success"
    /\ state.status = "awaiting_approval" => state.ids # <<>>

\* A node that has a task for each request of its line.
Whole(state, p) == /\ Len(state.ids) = p.goal
                   /\ p.size # 0 => state.iterations * p.size = p.goal

\* What a job says of the tasks in list.
JobSound(j, p, list) ==
    /\ Len(j.keys) \in {Len(p.line), p.goal} /\ Len(j.ids) = Len(p.line)
    /\ \A i \in DOMAIN j.keys : j.keys[i] = p.line[i]
    /\ \A i \in DOMAIN j.ids : j.ids[i] # 0 => /\ i <= p.goal /\ list[j.ids[i]].key = p.line[i]
                                               /\ \A m \in 1..i : j.ids[m] # 0
    /\ \A i \in DOMAIN j.states : j.states[i] # "todo" =>
          /\ i <= p.goal /\ j.ids[i] # 0
          /\ \A m \in 1..(i - 1) : IF p.type = "parallel" THEN j.states[m] # "todo"
                                   ELSE j.states[m] = "verified_complete"
          /\ j.states[i] = "verified_complete" /\ p.type # "approval" =>
                list[j.ids[i]].status = "verified_success"
          /\ j.states[i] = "verified_complete" /\ i = p.goal => Len(j.keys) = p.goal
    /\ j.answer # "none" => p.type \in {"checkpoint", "human_input", "delegation"}

Steps == {n \in Required : def[n].type # "approval"}
VerifiedIn(list, key) ==
    \E id \in DOMAIN list : list[id].key = key /\ list[id].status = "verified_success"
KnownIn(list) == {list[id].key : id \in DOMAIN list}

RecordsInv ==
    /\ \A n \in DOMAIN def : Sound(run.nodes[n], Plan(n), tasks)
    /\ wave.phase # "none" => \A n \in DOMAIN def : Sound(wave.base[n], Plan(n), tasks)
    /\ \A n \in DOMAIN wave.results :
          /\ Sound(wave.results[n], Plan(n), tasks)
          /\ wave.results[n].status = "verified_complete" => Whole(wave.results[n], Plan(n))
    /\ \A j \in jobs : JobSound(j, Plan(j.node), tasks)

\* The tasks of a node are of the first requests of its line.
KnownInv ==
    \A key \in KnownIn(tasks) : \E i \in 1..Plan(key.node).goal :
        /\ key = Plan(key.node).line[i]
        /\ \A m \in 1..i : Plan(key.node).line[m] \in KnownIn(tasks)

\* What is complete, and nobody works on what recovery completed.
CompleteInv ==
    /\ \A n \in DOMAIN def : def[n].type = "approval" /\ Status(n) = "verified_complete" =>
          Whole(run.nodes[n], Plan(n))
    /\ \A n \in Steps : Status(n) = "verified_complete" =>
          \A key \in KnownIn(tasks) : key.node = n => VerifiedIn(tasks, key)
    /\ \A n \in Steps : Status(n) = "verified_complete" =>
          (n \in repaired /\ def[n].type # "operation") \/ Whole(run.nodes[n], Plan(n))
    /\ \A n \in Steps : Status(n) = "verified_complete" =>
          \A j \in jobs : Target(j.node) = n => Whole(run.nodes[n], Plan(n))
    /\ \A n \in Steps \cap repaired : Status(n) = "verified_complete"

TaskInv == RecordsInv /\ KnownInv /\ CompleteInv

-----------------------------------------------------------------------------
(* The line of a node, and what later tasks leave of what is said of the earlier. *)

PlanForm(p) ==
    /\ Len(p.line) \in Nat /\ DOMAIN p.line = 1..Len(p.line)
    /\ p.goal \in 0..Len(p.line) /\ p.size \in Nat
    /\ Len(p.line) # 0 => p.goal # 0
    /\ p.size = 0 => p.goal = Len(p.line)
    /\ p.size # 0 <=> p.type = "bounded_loop"
    /\ p.size # 0 => \E turns \in Nat \ {0} : p.goal = turns * p.size

\* Its requests differ, and it ends where an iteration of a loop does.
LEMMA PlanFacts ==
    ASSUME PlainInv, NEW n \in DOMAIN def
    PROVE  /\ PlanForm(Plan(n)) /\ Plan(n).type = def[n].type
           /\ Plan(n).line = Slots(n, answers[n]) /\ Plan(n).line \in Seq(AllKeys)
           /\ Injective(Plan(n).line)
           /\ \A i \in 1..Len(Plan(n).line) : Plan(n).line[i].node = Target(n)
           /\ answers[n] \in {1, 2}
           /\ def[n].type # "condition" => Plan(n).line = Slots(n, 1)
           /\ def[n].type = "bounded_loop" =>
                 /\ Plan(n).size = Size(n) /\ Plan(n).goal <= answers[n] * Size(n)
                 /\ Plan(n).goal < Len(Plan(n).line) => Plan(n).goal = answers[n] * Size(n)
           /\ def[n].type \in {"operation", "compensation", "approval"} =>
                 Len(Plan(n).line) = 1 /\ Plan(n).goal = 1
           /\ def[n].type \in {"checkpoint", "human_input", "delegation"} => Plan(n).line = <<>>
<1> DEFINE line == Slots(n, answers[n])
           size == IF def[n].type = "bounded_loop" THEN Size(n) ELSE 0
           goal == IF size # 0 /\ answers[n] * size < Len(line) THEN answers[n] * size
                                                                ELSE Len(line)
<1>1. Plan(n) = [type |-> def[n].type, line |-> line, size |-> size, goal |-> goal]
    BY DEF Plan
<1>2. def \in Definitions /\ answers[n] \in {1, 2}
    BY DEF PlainInv
<1>3. /\ line \in Seq(AllKeys) /\ Injective(line)
      /\ \A i \in DOMAIN line : line[i].node = Target(n)
      /\ def[n].type \in {"operation", "compensation", "approval"} => Len(line) = 1
      /\ def[n].type \in {"checkpoint", "human_input", "delegation"} => line = <<>>
      /\ def[n].type # "condition" => line = Slots(n, 1)
      /\ def[n].type = "bounded_loop" => /\ Size(n) \in Nat \ {0} /\ def[n].max \in Nat \ {0}
                                         /\ Len(line) = def[n].max * Size(n)
    BY <1>2, SlotsFacts, ExpectedFacts
<1> HIDE DEF line
<1>4. Len(line) \in Nat /\ DOMAIN line = 1..Len(line)
    BY <1>3
<1>5. CASE def[n].type # "bounded_loop"
  <2>1. size = 0 /\ goal = Len(line)
    BY <1>5
  <2> HIDE DEF size, goal
  <2> QED
    BY <1>1, <1>2, <1>3, <1>4, <1>5, <2>1 DEF PlanForm, line
<1>6. CASE def[n].type = "bounded_loop"
  <2>1. size = Size(n) /\ size \in Nat \ {0} /\ Len(line) = def[n].max * size
        /\ def[n].max \in Nat \ {0}
    BY <1>3, <1>6
  <2> HIDE DEF size
  <2>2. answers[n] * size \in Nat \ {0} /\ def[n].max * size \in Nat \ {0}
    BY <1>2, <2>1
  <2>3. /\ goal \in 0..Len(line) /\ goal <= answers[n] * size /\ goal # 0
        /\ goal < Len(line) => goal = answers[n] * size
        /\ \E turns \in Nat \ {0} : goal = turns * size
    BY <1>2, <1>4, <2>1, <2>2
  <2> HIDE DEF goal
  <2> QED
    BY <1>1, <1>2, <1>3, <1>4, <1>6, <2>1, <2>3 DEF PlanForm, line
<1> QED
    BY <1>5, <1>6

\* An approval goes through the line of its operation.
LEMMA SharedLine ==
    ASSUME PlainInv, NEW n \in DOMAIN def
    PROVE  /\ Target(n) \in DOMAIN def /\ Plan(Target(n)).line = Plan(n).line
           /\ Plan(Target(n)).goal = Plan(n).goal
           /\ def[n].type # "approval" => Target(n) = n
           /\ def[n].type = "approval" => def[Target(n)].type = "operation"
<1>1. /\ Target(n) \in DOMAIN def
      /\ def[n].type = "approval" => def[Target(n)].type = "operation"
    BY NodeFacts DEF PlainInv
<1>2. CASE def[n].type # "approval"
    BY <1>1, <1>2 DEF Target
<1>3. CASE def[n].type = "approval"
  <2>1. Plan(n).line = Slots(Target(n), 1)
    BY <1>3, PlanFacts, SlotsFacts DEF PlainInv
  <2>2. Plan(Target(n)).line = Slots(Target(n), 1)
    BY <1>1, <1>3, PlanFacts
  <2>3. Plan(n).goal = 1 /\ Plan(Target(n)).goal = 1
    BY <1>1, <1>3, PlanFacts
  <2> QED
    BY <1>1, <1>3, <2>1, <2>2, <2>3
<1> QED
    BY <1>2, <1>3

\* Lines change only with what the predicates say.
LEMMA SamePlans ==
    ASSUME UNCHANGED <<def, answers>>
    PROVE  /\ \A n : Plan(n)' = Plan(n) /\ Target(n)' = Target(n)
           /\ Steps' = Steps /\ Required' = Required /\ Compensations' = Compensations
<1>1. \A n, b : Slots(n, b)' = Slots(n, b)
    BY SameKeys
<1>2. \A n : Plan(n)' = Plan(n)
    BY <1>1 DEF Plan, Size
<1> QED
    BY <1>2 DEF Target, Steps, Required, Compensations

\* Tasks are never dropped, and stay verified.
Later(list, next) ==
    /\ Len(list) \in Nat /\ Len(next) \in Nat /\ Len(list) <= Len(next)
    /\ DOMAIN list = 1..Len(list) /\ DOMAIN next = 1..Len(next)
    /\ \A id \in 1..Len(list) :
          /\ next[id].key = list[id].key
          /\ list[id].status = "verified_success" => next[id].status = "verified_success"

LEMMA SoundStays ==
    ASSUME NEW list, NEW next, Later(list, next), NEW state, Typed(state, Len(list)), NEW p,
           PlanForm(p), Sound(state, p, list)
    PROVE  Sound(state, p, next)
<1>1. /\ Len(state.ids) \in Nat /\ DOMAIN state.ids = 1..Len(state.ids)
      /\ \A i \in DOMAIN state.ids : state.ids[i] \in 1..Len(list)
  <2> DEFINE S == 1..Len(list)
  <2>1. state.ids \in Seq(S)
    BY DEF Typed
  <2> HIDE DEF S
  <2>2. /\ Len(state.ids) \in Nat /\ DOMAIN state.ids = 1..Len(state.ids)
        /\ \A i \in DOMAIN state.ids : state.ids[i] \in S
    BY <2>1
  <2> QED
    BY <2>2 DEF S
<1>2. \A i \in DOMAIN state.ids :
         /\ next[state.ids[i]].key = list[state.ids[i]].key
         /\ list[state.ids[i]].status = "verified_success" =>
               next[state.ids[i]].status = "verified_success"
    BY <1>1 DEF Later
<1> DEFINE done == state.iterations * p.size
<1>3. done \in Nat
    BY DEF Typed, PlanForm
<1>4. /\ p.size # 0 /\ state.status # "verified_complete" =>
            \A i \in 1..done : next[state.ids[i]].status = "verified_success"
  <2> SUFFICES ASSUME p.size # 0, state.status # "verified_complete", NEW i \in 1..done
               PROVE  next[state.ids[i]].status = "verified_success"
    OBVIOUS
  <2>1. done <= Len(state.ids) /\ list[state.ids[i]].status = "verified_success"
    BY DEF Sound
  <2> HIDE DEF done
  <2> QED
    BY <1>1, <1>2, <1>3, <2>1
<1> QED
    BY <1>1, <1>2, <1>4 DEF Sound

LEMMA JobStays ==
    ASSUME NEW list, NEW next, Later(list, next), NEW j, j.ids \in Seq(0..Len(list)),
           Len(j.states) = Len(j.keys), Len(j.keys) <= Len(j.ids),
           NEW S, j.states \in Seq(S), NEW p, JobSound(j, p, list)
    PROVE  JobSound(j, p, next)
<1>1. /\ Len(j.ids) \in Nat /\ DOMAIN j.ids = 1..Len(j.ids)
      /\ \A i \in DOMAIN j.ids : j.ids[i] # 0 => j.ids[i] \in 1..Len(list)
  <2> DEFINE I == 0..Len(list)
  <2>1. j.ids \in Seq(I)
    OBVIOUS
  <2> HIDE DEF I
  <2>2. /\ Len(j.ids) \in Nat /\ DOMAIN j.ids = 1..Len(j.ids)
        /\ \A i \in DOMAIN j.ids : j.ids[i] \in I
    BY <2>1
  <2> QED
    BY <2>2 DEF I, Later
<1>2. \A i \in DOMAIN j.ids : j.ids[i] # 0 =>
         /\ next[j.ids[i]].key = list[j.ids[i]].key
         /\ list[j.ids[i]].status = "verified_success" =>
               next[j.ids[i]].status = "verified_success"
    BY <1>1 DEF Later
<1>3. DOMAIN j.states \subseteq DOMAIN j.ids
    BY <1>1
<1> QED
    BY <1>2, <1>3 DEF JobSound

-----------------------------------------------------------------------------
(* A request is taken in its turn.                                            *)

\* What happens to a task of a job leaves those that are verified.
LEMMA AskedLater ==
    ASSUME TypeInv, NEW j \in jobs, NEW i, NEW id, NEW st, Asked(j, i, id, st)
    PROVE  Later(tasks, tasks')
<1>1. Len(tasks) \in Nat /\ DOMAIN tasks = 1..Len(tasks)
    BY DEF TypeInv
<1>2. Len(tasks') \in Nat /\ DOMAIN tasks' = 1..Len(tasks')
    BY DEF Asked
<1>3. Len(tasks) <= Len(tasks')
    BY <1>1 DEF Asked
<1>4. ASSUME NEW m \in 1..Len(tasks)
      PROVE  /\ tasks'[m].key = tasks[m].key
             /\ tasks[m].status = "verified_success" => tasks'[m].status = "verified_success"
    BY <1>1, <1>4 DEF Asked
<1> QED
    BY <1>1, <1>2, <1>3, <1>4 DEF Later

\* The request of a job that is taken is within the goal, and those before it have tasks.
LEMMA InTurn ==
    ASSUME TypeInv, NEW j \in jobs, NEW p, PlanForm(p), JobSound(j, p, tasks),
           NEW i \in DOMAIN j.states,
           (i \in Startable(j) /\ j.states[i] = "todo") \/ j.states[i] = "busy",
           p.type = def[j.node].type
    PROVE  /\ i <= p.goal /\ i <= Len(j.ids) /\ \A m \in 1..(i - 1) : j.ids[m] # 0
           /\ \A m \in 1..(i - 1) : IF p.type = "parallel" THEN j.states[m] # "todo"
                                    ELSE j.states[m] = "verified_complete"
<1>1. /\ Len(j.states) \in Nat /\ DOMAIN j.states = 1..Len(j.states)
      /\ Len(j.keys) = Len(j.states) /\ Len(j.ids) \in Nat /\ DOMAIN j.ids = 1..Len(j.ids)
      /\ Len(j.states) <= Len(j.ids) /\ i \in 1..Len(j.states)
    BY DEF TypeInv, JobsInv, JobsTyped, JobTyped
<1>2. p.goal \in 0..Len(p.line) /\ Len(p.line) \in Nat
    BY DEF PlanForm
<1>3. CASE j.states[i] = "busy"
    BY <1>1, <1>3 DEF JobSound
<1>4. CASE i \in Startable(j) /\ j.states[i] = "todo"
  <2>1. \A m \in 1..(i - 1) : IF p.type = "parallel" THEN j.states[m] # "todo"
                              ELSE j.states[m] = "verified_complete"
    BY <1>4 DEF Startable
  <2>2. \A m \in 1..(i - 1) : j.states[m] # "todo" /\ m \in DOMAIN j.states
    BY <1>1, <2>1
  <2>3. \A m \in 1..(i - 1) : j.ids[m] # 0
    BY <2>2 DEF JobSound
  <2>4. i <= p.goal
    <3>1. SUFFICES ASSUME i > p.goal PROVE FALSE
      BY <1>1, <1>2
    <3>2. Len(j.keys) = Len(p.line) /\ p.goal # Len(p.line) /\ p.goal # 0
      BY <1>1, <1>2, <3>1 DEF JobSound, PlanForm
    <3>3. p.type # "parallel"
      BY <3>2 DEF PlanForm
    <3>4. j.states[p.goal] = "verified_complete" /\ p.goal \in DOMAIN j.states
      BY <1>1, <1>2, <2>1, <3>1, <3>2, <3>3
    <3>5. Len(j.keys) = p.goal
      BY <3>4 DEF JobSound
    <3> QED
      BY <3>2, <3>5
  <2> QED
    BY <1>1, <2>1, <2>3, <2>4
<1> QED
    BY <1>3, <1>4

\* How iterations are counted.
LEMMA Division ==
    ASSUME NEW i \in Nat, NEW z \in Nat \ {0}
    PROVE  /\ i = z * (i \div z) + (i % z) /\ i \div z \in Nat /\ i % z \in 0..(z - 1)
           /\ (i * z) \div z = i /\ (i * z) % z = 0
           /\ (i * z + z - 1) \div z = i
    OBVIOUS

\* A loop stops at its goal only.
LEMMA KeptFacts ==
    ASSUME TypeInv, NEW j \in jobs, JobForm(j), NEW p, p = Plan(j.node),
           JobSound(j, p, tasks), NEW i \in DOMAIN j.states, i <= p.goal, NEW st
    PROVE  /\ Kept(j, i, st) \in {Len(p.line), p.goal} /\ Kept(j, i, st) <= Len(j.keys)
           /\ Kept(j, i, st) \in {Len(j.keys), p.goal}
           /\ st = "verified_complete" /\ i = p.goal => Kept(j, i, st) = p.goal
<1>1. /\ PlanForm(p) /\ p.type = def[j.node].type /\ answers[j.node] \in {1, 2}
      /\ def[j.node].type = "bounded_loop" =>
            /\ p.size = Size(j.node) /\ p.goal <= answers[j.node] * Size(j.node)
            /\ p.goal < Len(p.line) => p.goal = answers[j.node] * Size(j.node)
    BY PlanFacts DEF TypeInv, JobForm
<1>2. /\ Len(j.states) \in Nat /\ Len(j.keys) = Len(j.states) /\ i \in 1..Len(j.states)
    BY DEF TypeInv, JobsInv, JobsTyped, JobTyped
<1>3. Len(j.keys) \in {Len(p.line), p.goal}
    BY DEF JobSound
<1>4. p.goal \in 0..Len(p.line) /\ Len(p.line) \in Nat
    BY <1>1 DEF PlanForm
<1>5. CASE p.type # "bounded_loop"
  <2>1. ~Stops(j, i) /\ p.goal = Len(p.line)
    BY <1>1, <1>5 DEF Stops, PlanForm
  <2> QED
    BY <1>2, <1>3, <1>4, <2>1 DEF Kept
<1>6. CASE p.type = "bounded_loop"
  <2>1. /\ p.size = Size(j.node) /\ p.size \in Nat \ {0}
        /\ Stops(j, i) <=> i % p.size = 0 /\ i \div p.size >= answers[j.node]
    BY <1>1, <1>6 DEF Stops, PlanForm, Size
  <2>2. PICK turns \in Nat \ {0} : p.goal = turns * p.size
    BY <1>1, <2>1 DEF PlanForm
  <2> DEFINE a == answers[j.node]  z == p.size  g == p.goal
  <2>3. a \in {1, 2} /\ z \in Nat \ {0} /\ g <= a * z /\ (g < Len(p.line) => g = a * z)
        /\ g = turns * z /\ g \in Nat /\ i <= g /\ i \in Nat \ {0}
    BY <1>1, <1>2, <1>4, <1>6, <2>1, <2>2
  <2> HIDE DEF a, z, g
  <2>4. Stops(j, i) => i = g
    <3>1. ASSUME i % z = 0, i \div z >= a PROVE i = g
      <4>1. i = z * (i \div z) /\ i \div z \in Nat
        <5>1. i \in Nat /\ z \in Nat \ {0} /\ i % z = 0
          BY ONLY <2>3, <3>1
        <5>2. i = z * (i \div z) + (i % z) /\ i \div z \in Nat
          BY ONLY <5>1, Division
        <5> QED
          BY ONLY <5>1, <5>2
      <4>2. i >= a * z
        BY <2>3, <3>1, <4>1
      <4> QED
        BY <2>3, <4>2
    <3> QED
      BY <2>1, <3>1 DEF z, a
  <2>5. i = g /\ Len(j.keys) # g => Stops(j, i)
    <3>1. ASSUME i = g, g < Len(p.line) PROVE i % z = 0 /\ i \div z >= a
      <4>1. i = a * z
        BY <2>3, <3>1
      <4> QED
        <5>1. a \in Nat /\ z \in Nat \ {0}
          BY ONLY <2>3
        <5>2. (a * z) \div z = a /\ (a * z) % z = 0
          BY ONLY <5>1, Division
        <5> QED
          BY ONLY <4>1, <5>1, <5>2
    <3>2. Len(j.keys) # g => g < Len(p.line)
      BY <1>3, <1>4 DEF g
    <3> QED
      BY <2>1, <3>1, <3>2 DEF z, a
  <2> QED
    BY <1>2, <1>3, <1>4, <2>4, <2>5 DEF Kept, g
<1> QED
    BY <1>5, <1>6


\* A request that is taken leaves its job sound.
LEMMA RequestSound ==
    ASSUME TypeInv, FormInv, NEW j \in jobs, NEW i \in DOMAIN j.states, NEW p,
           p = Plan(j.node), JobSound(j, p, tasks), NEW id, NEW st, NEW next,
           (i \in Startable(j) /\ j.states[i] = "todo") \/ (st # "busy" /\ j.states[i] = "busy"),
           Became(j, next, i, id, st), Plain(next, Len(tasks')), Asked(j, i, id, st)
    PROVE  /\ JobSound(next, p, tasks') /\ next.node = j.node
           /\ i <= p.goal /\ tasks'[id].key = p.line[i]
           /\ \A m \in 1..(i - 1) : p.line[m] \in KnownIn(tasks)
<1>1. JobForm(j) /\ PlanForm(p) /\ p.type = def[j.node].type
    BY PlanFacts DEF FormInv, TypeInv, JobForm
<1>2. Later(tasks, tasks')
    BY AskedLater
<1>3. /\ i <= p.goal /\ i <= Len(j.ids) /\ \A m \in 1..(i - 1) : j.ids[m] # 0
      /\ \A m \in 1..(i - 1) : IF p.type = "parallel" THEN j.states[m] # "todo"
                               ELSE j.states[m] = "verified_complete"
    BY <1>1, InTurn
<1>4. /\ Kept(j, i, st) \in {Len(p.line), p.goal} /\ Kept(j, i, st) <= Len(j.keys)
      /\ Kept(j, i, st) \in {Len(j.keys), p.goal}
      /\ st = "verified_complete" /\ i = p.goal => Kept(j, i, st) = p.goal
    BY <1>1, <1>3, KeptFacts
<1>5. /\ Len(j.states) \in Nat /\ DOMAIN j.states = 1..Len(j.states)
      /\ Len(j.keys) = Len(j.states) /\ DOMAIN j.keys = 1..Len(j.states)
      /\ Len(j.ids) \in Nat /\ DOMAIN j.ids = 1..Len(j.ids)
      /\ Len(j.states) <= Len(j.ids) /\ i \in 1..Len(j.states)
      /\ j.ids \in Seq(0..Len(tasks))
    BY DEF TypeInv, JobsInv, JobsTyped, JobTyped
<1>6. \A m \in 1..Len(j.ids) : j.ids[m] # 0 => j.ids[m] \in 1..Len(tasks)
  <2> DEFINE I == 0..Len(tasks)
  <2>1. j.ids \in Seq(I)
    BY <1>5
  <2> HIDE DEF I
  <2>2. \A m \in 1..Len(j.ids) : j.ids[m] \in I
    BY <2>1
  <2> QED
    BY <1>2, <2>2 DEF I, Later
<1>7. p.goal \in 0..Len(p.line) /\ Len(p.line) \in Nat
    BY <1>1 DEF PlanForm
<1>8. Len(j.ids) = Len(p.line) /\ Len(j.keys) \in {Len(p.line), p.goal}
      /\ \A m \in DOMAIN j.keys : j.keys[m] = p.line[m]
    BY DEF JobSound
<1> DEFINE k == Kept(j, i, st)
<1>9. /\ Len(next.ids) = Len(j.ids) /\ DOMAIN next.ids = 1..Len(j.ids)
      /\ Len(next.keys) = k /\ DOMAIN next.keys = 1..k
      /\ Len(next.states) = k /\ DOMAIN next.states = 1..k
  <2>1. /\ next.ids \in Seq(0..Len(tasks')) /\ next.keys \in Seq(AllKeys)
        /\ next.states \in Seq(JobStatus)
    BY DEF Plain
  <2>2. Len(next.ids) = Len(j.ids) /\ Len(next.keys) = k /\ Len(next.states) = k
    BY DEF Became
  <2> HIDE DEF k
  <2> QED
    BY <2>1, <2>2
<1>10. /\ \A m \in 1..Len(j.ids) : next.ids[m] = IF m = i THEN id ELSE j.ids[m]
       /\ \A m \in 1..k : /\ next.keys[m] = j.keys[m]
                          /\ next.states[m] = IF m = i THEN st ELSE j.states[m]
       /\ next.node = j.node /\ next.answer = j.answer
    BY DEF Became
<1> HIDE DEF k
<1>11. id \in Nat \ {0} /\ tasks'[id].key = p.line[i]
  <2>1. /\ id = IF SomeId(j.ids, i) = 0 THEN Len(tasks) + 1 ELSE j.ids[i]
        /\ SomeId(j.ids, i) = 0 => tasks'[id].key = j.keys[i]
    BY DEF Asked
  <2>2. SomeId(j.ids, i) = j.ids[i] /\ j.keys[i] = p.line[i]
    BY <1>5, <1>8 DEF SomeId
  <2>3. CASE j.ids[i] = 0
    BY <2>1, <2>2, <2>3, <1>2 DEF Later
  <2>4. CASE j.ids[i] # 0
    <3>1. id = j.ids[i] /\ id \in 1..Len(tasks) /\ tasks[id].key = p.line[i]
      BY <2>1, <2>2, <2>4, <1>5, <1>6 DEF JobSound
    <3> QED
      BY <3>1, <1>2 DEF Later
  <2> QED
    BY <2>3, <2>4
<1>12. st # "todo"
       /\ (st = "verified_complete" /\ p.type # "approval" =>
              tasks'[id].status = "verified_success")
    BY <1>1 DEF Asked
<1>13. \A m \in 1..(i - 1) : p.line[m] \in KnownIn(tasks)
  <2> TAKE m \in 1..(i - 1)
  <2>1. m \in 1..Len(j.ids) /\ j.ids[m] # 0
    BY <1>3, <1>5
  <2>2. j.ids[m] \in DOMAIN tasks /\ tasks[j.ids[m]].key = p.line[m]
    BY <2>1, <1>2, <1>5, <1>6 DEF JobSound, Later
  <2> QED
    BY <2>2 DEF KnownIn
<1>14. JobSound(next, p, tasks')
  <2>1. /\ Len(next.keys) \in {Len(p.line), p.goal} /\ Len(next.ids) = Len(p.line)
        /\ \A m \in DOMAIN next.keys : next.keys[m] = p.line[m]
    BY <1>4, <1>5, <1>8, <1>9, <1>10 DEF k
  <2>2. \A m \in DOMAIN next.ids : next.ids[m] # 0 =>
           m <= p.goal /\ tasks'[next.ids[m]].key = p.line[m] /\ \A e \in 1..m : next.ids[e] # 0
    <3> SUFFICES ASSUME NEW m \in 1..Len(j.ids), next.ids[m] # 0
                 PROVE  /\ m <= p.goal /\ tasks'[next.ids[m]].key = p.line[m]
                        /\ \A e \in 1..m : next.ids[e] # 0
      BY <1>9
    <3>1. CASE m = i
      <4>1. next.ids[i] = id /\ id # 0 /\ tasks'[next.ids[i]].key = p.line[i]
        BY ONLY <3>1, <1>10, <1>11, m \in 1..Len(j.ids)
      <4>2. \A e \in 1..(i - 1) : next.ids[e] # 0
        <5> TAKE e \in 1..(i - 1)
        <5>1. e \in 1..Len(j.ids) /\ e # i
          BY <1>3, <1>5
        <5> QED
          BY <5>1, <1>3, <1>10
      <4>3. \A e \in 1..i : e = i \/ e \in 1..(i - 1)
        BY <1>5
      <4> QED
        BY ONLY <3>1, <4>1, <4>2, <4>3, <1>3
    <3>2. CASE m # i
      <4>1. j.ids[m] # 0 /\ next.ids[m] = j.ids[m] /\ j.ids[m] \in 1..Len(tasks)
        BY <3>2, <1>6, <1>10
      <4>2. m <= p.goal /\ tasks[j.ids[m]].key = p.line[m] /\ \A e \in 1..m : j.ids[e] # 0
        BY <4>1, <1>5 DEF JobSound
      <4>3. tasks'[j.ids[m]].key = tasks[j.ids[m]].key
        BY <4>1, <1>2 DEF Later
      <4>4. \A e \in 1..m : next.ids[e] # 0
        <5> TAKE e \in 1..m
        <5>1. e \in 1..Len(j.ids)
          BY <1>5
        <5> QED
          BY <5>1, <4>2, <1>10, <1>11
      <4> QED
        BY ONLY <4>1, <4>2, <4>3, <4>4
    <3> QED
      BY <3>1, <3>2
  <2>3. ASSUME NEW m \in DOMAIN next.states, next.states[m] # "todo"
        PROVE  /\ m <= p.goal /\ next.ids[m] # 0
               /\ \A e \in 1..(m - 1) : IF p.type = "parallel" THEN next.states[e] # "todo"
                                        ELSE next.states[e] = "verified_complete"
               /\ next.states[m] = "verified_complete" /\ p.type # "approval" =>
                     tasks'[next.ids[m]].status = "verified_success"
               /\ next.states[m] = "verified_complete" /\ m = p.goal => Len(next.keys) = p.goal
    <3>1. m \in 1..k /\ k <= Len(j.states) /\ m \in 1..Len(j.states) /\ m \in 1..Len(j.ids)
          /\ k \in Nat
      BY <2>3, <1>4, <1>5, <1>7, <1>9 DEF k
    <3>2. CASE m = i
      <4>1. \A e \in 1..(m - 1) : next.states[e] = j.states[e]
        BY <3>1, <3>2, <1>10
      <4> QED
        BY <3>1, <3>2, <4>1, <1>3, <1>4, <1>9, <1>10, <1>11, <1>12 DEF k
    <3>3. CASE m # i
      <4>1. next.states[m] = j.states[m] /\ next.ids[m] = j.ids[m] /\ m \in DOMAIN j.states
        BY <3>1, <3>3, <1>5, <1>10
      <4>2. /\ m <= p.goal /\ j.ids[m] # 0
            /\ \A e \in 1..(m - 1) : IF p.type = "parallel" THEN j.states[e] # "todo"
                                     ELSE j.states[e] = "verified_complete"
            /\ j.states[m] = "verified_complete" /\ p.type # "approval" =>
                  tasks[j.ids[m]].status = "verified_success"
            /\ j.states[m] = "verified_complete" /\ m = p.goal => Len(j.keys) = p.goal
        BY <2>3, <4>1 DEF JobSound
      <4>3. \A e \in 1..(m - 1) : IF p.type = "parallel" THEN next.states[e] # "todo"
                                  ELSE next.states[e] = "verified_complete"
        <5> TAKE e \in 1..(m - 1)
        <5>1. next.states[e] = IF e = i THEN st ELSE j.states[e]
          BY <3>1, <1>10
        <5>2. CASE e # i
          BY <4>2, <5>1, <5>2
        <5>3. CASE e = i
          <6>1. j.states[i] \in {"todo", "busy"}
            OBVIOUS
          <6> QED
            BY <4>2, <5>1, <5>3, <6>1, <1>12
        <5> QED
          BY <5>2, <5>3
      <4>4. tasks[j.ids[m]].status = "verified_success" =>
               tasks'[next.ids[m]].status = "verified_success"
        BY <3>1, <4>1, <4>2, <1>2, <1>6 DEF Later
      <4>5. k = Len(j.keys) \/ k = p.goal
        BY <1>4 DEF k
      <4> QED
        BY <4>1, <4>2, <4>3, <4>4, <4>5, <1>9
    <3> QED
      BY <3>2, <3>3
  <2>4. next.answer # "none" => p.type \in {"checkpoint", "human_input", "delegation"}
    BY <1>10 DEF JobSound
  <2> QED
    BY <2>1, <2>2, <2>3, <2>4 DEF JobSound
<1> QED
    BY <1>3, <1>10, <1>11, <1>13, <1>14

-----------------------------------------------------------------------------
(* What later tasks leave of the whole.                                       *)


LEMMA RecordsStay ==
    ASSUME TypeInv, FormInv, RecordsInv, Later(tasks, tasks')
    PROVE  /\ \A n \in DOMAIN def : Sound(run.nodes[n], Plan(n), tasks')
           /\ wave.phase # "none" => \A n \in DOMAIN def : Sound(wave.base[n], Plan(n), tasks')
           /\ \A n \in DOMAIN wave.results : Sound(wave.results[n], Plan(n), tasks')
           /\ \A j \in jobs : JobSound(j, Plan(j.node), tasks')
<1>1. \A n \in DOMAIN def : PlanForm(Plan(n))
    BY PlanFacts DEF TypeInv
<1>2. DOMAIN wave.results \subseteq DOMAIN def /\ \A j \in jobs : j.node \in DOMAIN def
    BY DEF FormInv, WaveForm, JobForm
<1>3. ASSUME NEW n \in DOMAIN def, NEW state, Typed(state, Len(tasks)),
             Sound(state, Plan(n), tasks)
      PROVE  Sound(state, Plan(n), tasks')
    BY <1>1, <1>3, SoundStays
<1>4. \A n \in DOMAIN def : Sound(run.nodes[n], Plan(n), tasks')
    BY <1>3 DEF RecordsInv, TypeInv, NodesInv, NodeTyped
<1>5. wave.phase # "none" => \A n \in DOMAIN def : Sound(wave.base[n], Plan(n), tasks')
    BY <1>3 DEF RecordsInv, TypeInv, NodesInv, NodeTyped
<1>6. \A n \in DOMAIN wave.results : Sound(wave.results[n], Plan(n), tasks')
    BY <1>2, <1>3 DEF RecordsInv, TypeInv, NodesInv, NodeTyped
<1>7. ASSUME NEW j \in jobs PROVE JobSound(j, Plan(j.node), tasks')
  <2>1. /\ j.ids \in Seq(0..Len(tasks)) /\ j.states \in Seq(JobStatus)
        /\ Len(j.states) = Len(j.keys) /\ Len(j.keys) <= Len(j.ids)
    BY DEF TypeInv, JobsInv, JobsTyped, JobTyped
  <2>2. JobSound(j, Plan(j.node), tasks)
    BY DEF RecordsInv
  <2> QED
    BY <2>1, <2>2, JobStays
<1> QED
    BY <1>4, <1>5, <1>6, <1>7

\* Nothing changes but the tasks.
LEMMA RecordsAgain ==
    ASSUME FormInv, RecordsInv, UNCHANGED <<def, answers>>,
           \A n \in DOMAIN def : Sound(run'.nodes[n], Plan(n), tasks'),
           wave'.phase # "none" => \A n \in DOMAIN def : Sound(wave'.base[n], Plan(n), tasks'),
           \A n \in DOMAIN wave'.results :
              /\ n \in DOMAIN def /\ Sound(wave'.results[n], Plan(n), tasks')
              /\ wave'.results[n].status = "verified_complete" => Whole(wave'.results[n], Plan(n)),
           \A j \in jobs' : JobSound(j, Plan(j.node), tasks')
    PROVE  RecordsInv'
    BY SamePlans DEF RecordsInv

LEMMA KnownStays ==
    ASSUME KnownInv, UNCHANGED <<def, answers>>, KnownIn(tasks') = KnownIn(tasks)
    PROVE  KnownInv'
    BY SamePlans DEF KnownInv

\* The keys are those there were, when there are no more tasks.
LEMMA SameKnown ==
    ASSUME Later(tasks, tasks'), Len(tasks') = Len(tasks)
    PROVE  KnownIn(tasks') = KnownIn(tasks)
    BY DEF Later, KnownIn

LEMMA VerifiedStays ==
    ASSUME Later(tasks, tasks'), NEW key, VerifiedIn(tasks, key)
    PROVE  VerifiedIn(tasks', key)
    BY DEF Later, VerifiedIn

\* Nodes complete and cease to be so only elsewhere.
SameComplete == \A n \in DOMAIN def :
                   /\ run'.nodes[n].status = "verified_complete"
                         <=> run.nodes[n].status = "verified_complete"
                   /\ run.nodes[n].status = "verified_complete" => run'.nodes[n] = run.nodes[n]

LEMMA CompleteStays ==
    ASSUME CompleteInv, UNCHANGED <<def, answers, repaired>>, SameComplete,
           Later(tasks, tasks'),
           \A n \in Steps : Status(n) = "verified_complete" =>
               \A key \in KnownIn(tasks') : key.node = n =>
                  key \in KnownIn(tasks) \/ VerifiedIn(tasks', key),
           \A j \in jobs' : \A n \in Steps :
               Status(n) = "verified_complete" /\ Target(j.node) = n => Whole(run.nodes[n], Plan(n))
    PROVE  CompleteInv'
<1>1. /\ \A n : Plan(n)' = Plan(n) /\ Target(n)' = Target(n)
      /\ Steps' = Steps /\ Steps \subseteq DOMAIN def /\ repaired' = repaired
    BY SamePlans DEF Steps, Required
<1>2. \A n \in DOMAIN def : /\ Status(n)' = "verified_complete" <=> Status(n) = "verified_complete"
                            /\ Status(n) = "verified_complete" => run'.nodes[n] = run.nodes[n]
    BY DEF SameComplete, Status
<1>3. \A n \in Steps : Status(n) = "verified_complete" =>
         \A key \in KnownIn(tasks') : key.node = n => VerifiedIn(tasks', key)
    BY VerifiedStays DEF CompleteInv
<1>4. \A n \in DOMAIN def : def'[n].type = "approval" /\ Status(n)' = "verified_complete" =>
         Whole(run'.nodes[n], Plan(n))
    BY <1>2 DEF CompleteInv
<1>5. \A n \in Steps : Status(n)' = "verified_complete" =>
         (n \in repaired /\ def[n].type # "operation") \/ Whole(run'.nodes[n], Plan(n))
    BY <1>1, <1>2 DEF CompleteInv
<1>6. \A n \in Steps : Status(n)' = "verified_complete" =>
         \A j \in jobs' : Target(j.node) = n => Whole(run'.nodes[n], Plan(n))
    BY <1>1, <1>2 DEF CompleteInv
<1>7. \A n \in Steps \cap repaired : Status(n)' = "verified_complete"
    BY <1>1, <1>2 DEF CompleteInv
<1> QED
    BY <1>1, <1>2, <1>3, <1>4, <1>5, <1>6, <1>7 DEF CompleteInv

\* The jobs that are left are for the same nodes.
LEMMA CompleteRests ==
    ASSUME CompleteInv, UNCHANGED <<def, answers, repaired>>, SameComplete,
           Later(tasks, tasks'), KnownIn(tasks') = KnownIn(tasks),
           \A j \in jobs' : \E old \in jobs : old.node = j.node
    PROVE  CompleteInv'
<1>1. ASSUME NEW j \in jobs', NEW n \in Steps, Status(n) = "verified_complete",
             Target(j.node) = n
      PROVE  Whole(run.nodes[n], Plan(n))
  <2>1. PICK old \in jobs : old.node = j.node
    BY <1>1
  <2> QED
    BY <1>1, <2>1 DEF CompleteInv
<1> QED
    BY <1>1, CompleteStays

LEMMA TasksAsBefore ==
    ASSUME TypeInv, UNCHANGED tasks
    PROVE  Later(tasks, tasks') /\ KnownIn(tasks') = KnownIn(tasks)
    BY DEF TypeInv, Later

\* A request is taken, or answered.
LEMMA RequestTasks ==
    ASSUME TypeInv, FormInv, TaskInv, NEW j \in jobs, NEW i \in DOMAIN j.states,
           StartRequest(j, i) \/ Answer(j, i)
    PROVE  TaskInv'
<1>1. PICK id, st, next : /\ (i \in Startable(j) /\ j.states[i] = "todo")
                                \/ (st # "busy" /\ j.states[i] = "busy")
                          /\ Replace(j, next) /\ Became(j, next, i, id, st)
                          /\ Plain(next, Len(tasks')) /\ Asked(j, i, id, st)
    BY RequestMeans
<1> DEFINE p == Plan(j.node)
           t == Target(j.node)
<1>2. JobSound(j, p, tasks) /\ j.node \in DOMAIN def
    BY DEF TaskInv, RecordsInv, FormInv, JobForm
<1>3. /\ JobSound(next, p, tasks') /\ next.node = j.node
      /\ i <= p.goal /\ tasks'[id].key = p.line[i]
      /\ \A m \in 1..(i - 1) : p.line[m] \in KnownIn(tasks)
  <2>1. p = Plan(j.node)
    OBVIOUS
  <2> HIDE DEF p, t
  <2>2. \/ i \in Startable(j) /\ j.states[i] = "todo"
        \/ st # "busy" /\ j.states[i] = "busy"
    BY <1>1
  <2>3. Became(j, next, i, id, st) /\ Plain(next, Len(tasks')) /\ Asked(j, i, id, st)
    BY <1>1
  <2> QED
    BY ONLY TypeInv, FormInv, j \in jobs, i \in DOMAIN j.states, <1>2, <2>1, <2>2, <2>3,
            RequestSound
<1>4. Later(tasks, tasks') /\ UNCHANGED <<def, answers, run, wave, repaired>>
  <2>1. Later(tasks, tasks')
    BY <1>1, AskedLater
  <2>2. UNCHANGED <<def, answers, run, wave, repaired>>
    BY <1>1 DEF Asked
  <2> QED
    BY <2>1, <2>2
<1>5. jobs' = (jobs \ {j}) \cup {next}
    BY <1>1 DEF Replace
<1>6. PlainInv /\ PlanForm(p) /\ i \in Nat \ {0} /\ p.line[i].node = t /\ i <= Len(p.line)
  <2>1. PlainInv /\ PlanForm(p) /\ i \in Nat \ {0}
    BY <1>2, PlanFacts DEF TypeInv, JobsInv, JobsTyped, JobTyped
  <2>2. i \in 1..Len(p.line)
    BY <1>3, <2>1 DEF PlanForm
  <2> QED
    BY <1>2, <2>1, <2>2, PlanFacts
<1>7. t \in DOMAIN def /\ Plan(t).line = p.line /\ Plan(t).goal = p.goal
    BY <1>2, <1>6, SharedLine
<1>8. /\ KnownIn(tasks) \subseteq KnownIn(tasks')
      /\ \A key \in KnownIn(tasks') : key \in KnownIn(tasks) \/ key = p.line[i]
      /\ p.line[i] \in KnownIn(tasks')
  <2>1. /\ DOMAIN tasks = 1..Len(tasks) /\ DOMAIN tasks' = 1..Len(tasks')
        /\ Len(tasks) \in Nat /\ Len(tasks') \in Nat /\ Len(tasks) <= Len(tasks')
    BY <1>4 DEF Later
  <2>2. id \in 1..Len(tasks') /\ \A m \in 1..Len(tasks') : m \in 1..Len(tasks) \/ m = id
    BY <1>1, <2>1 DEF Asked
  <2>3. \A m \in 1..Len(tasks) : tasks'[m].key = tasks[m].key
    BY <1>4 DEF Later
  <2> QED
    BY <1>3, <2>1, <2>2, <2>3 DEF KnownIn
<1> HIDE DEF p, t
<1>9. RecordsInv'
  <2>1. /\ \A n \in DOMAIN def : Sound(run.nodes[n], Plan(n), tasks')
        /\ wave.phase # "none" => \A n \in DOMAIN def : Sound(wave.base[n], Plan(n), tasks')
        /\ \A n \in DOMAIN wave.results : Sound(wave.results[n], Plan(n), tasks')
        /\ \A job \in jobs : JobSound(job, Plan(job.node), tasks')
    BY <1>4, RecordsStay DEF TaskInv
  <2>2. \A job \in jobs' : JobSound(job, Plan(job.node), tasks')
    BY <1>3, <1>5, <2>1 DEF p
  <2>3. DOMAIN wave.results \subseteq DOMAIN def
    BY DEF FormInv, WaveForm
  <2> QED
    BY <1>4, <2>1, <2>2, <2>3, RecordsAgain DEF TaskInv, RecordsInv
<1>10. KnownInv'
  <2>1. ASSUME NEW key \in KnownIn(tasks')
        PROVE  \E q \in 1..Plan(key.node).goal :
                  /\ key = Plan(key.node).line[q]
                  /\ \A m \in 1..q : Plan(key.node).line[m] \in KnownIn(tasks')
    <3>1. CASE key \in KnownIn(tasks)
      BY <3>1, <1>8 DEF TaskInv, KnownInv
    <3>2. CASE key = p.line[i]
      <4>1. key.node = t /\ i \in 1..Plan(t).goal
        BY <3>2, <1>3, <1>6, <1>7 DEF PlanForm
      <4>2. \A m \in 1..i : Plan(t).line[m] \in KnownIn(tasks')
        <5> TAKE m \in 1..i
        <5>1. m = i \/ m \in 1..(i - 1)
          BY <1>6
        <5> QED
          BY <5>1, <1>3, <1>7, <1>8
      <4> QED
        BY <3>2, <4>1, <4>2, <1>7
    <3> QED
      BY <3>1, <3>2, <1>8
  <2> QED
    BY <1>4, <2>1, SamePlans DEF KnownInv
<1>11. CompleteInv'
  <2>1. SameComplete
    BY <1>4 DEF SameComplete
  <2>2. ASSUME NEW n \in Steps, Status(n) = "verified_complete", NEW key \in KnownIn(tasks'),
               key.node = n, key \notin KnownIn(tasks)
        PROVE  VerifiedIn(tasks', key)
    <3>1. key = p.line[i] /\ n = t
      BY <2>2, <1>6, <1>8
    <3>2. Whole(run.nodes[t], Plan(t)) /\ t \in Steps /\ Status(t) = "verified_complete"
      BY <2>2, <3>1 DEF TaskInv, CompleteInv, t
    <3>3. Sound(run.nodes[t], Plan(t), tasks) /\ Plan(t).type # "approval"
      BY <1>6, <1>7, <3>2, PlanFacts DEF TaskInv, RecordsInv, Steps
    <3>4. i \in DOMAIN run.nodes[t].ids
      <4>1. Len(run.nodes[t].ids) = p.goal /\ run.nodes[t].ids \in Seq(1..Len(tasks))
        BY <1>7, <3>2 DEF Whole, TypeInv, NodesInv, NodeTyped, Typed
      <4>2. i \in 1..Len(run.nodes[t].ids)
        BY <1>3, <1>6, <4>1 DEF PlanForm
      <4> QED
        BY <4>1, <4>2
    <3>5. run.nodes[t].ids[i] \in DOMAIN tasks
      <4> DEFINE S == 1..Len(tasks)
      <4>1. run.nodes[t].ids \in Seq(S)
        BY <1>7 DEF TypeInv, NodesInv, NodeTyped, Typed
      <4>2. S = DOMAIN tasks
        BY <1>4 DEF Later
      <4> HIDE DEF S
      <4>3. run.nodes[t].ids[i] \in S
        BY <3>4, <4>1
      <4> QED
        BY <4>2, <4>3
    <3>6. /\ tasks[run.nodes[t].ids[i]].key = key
          /\ tasks[run.nodes[t].ids[i]].status = "verified_success"
      BY <1>7, <3>1, <3>2, <3>3, <3>4 DEF Sound, Status
    <3>7. VerifiedIn(tasks, key)
      BY <3>5, <3>6 DEF VerifiedIn
    <3> QED
      BY <3>7, <1>4, VerifiedStays
  <2>3. \A job \in jobs' : \E old \in jobs : old.node = job.node
    BY <1>3, <1>5
  <2>4. \A job \in jobs' : \A n \in Steps :
           Status(n) = "verified_complete" /\ Target(job.node) = n => Whole(run.nodes[n], Plan(n))
    BY <2>3 DEF TaskInv, CompleteInv
  <2> QED
    BY <1>4, <2>1, <2>2, <2>4, CompleteStays DEF TaskInv
<1> QED
    BY <1>9, <1>10, <1>11 DEF TaskInv

-----------------------------------------------------------------------------
(* How a node begins and ends.                                                *)

\* A job begins with what its node's record says.
LEMMA BeginsSound ==
    ASSUME TypeInv, FormInv, RecordsInv, NEW n \in DOMAIN def, Open(n), NEW j \in Jobs(n),
           j.answer # "throws"
    PROVE  JobSound(j, Plan(n), tasks)
<1> DEFINE p == Plan(n)
           state == run.nodes[n]
           offset == state.iterations * (IF def[n].type = "bounded_loop" THEN Size(n) ELSE 0)
<1>1. PICK b \in {1, 2}, answer \in Answers :
         /\ j = Job(n, b, answer)
         /\ def[n].type = "condition" /\ answer # "throws" => b = answers[n]
         /\ def[n].type # "condition" => b = 1
         /\ answer \notin {"none", "throws"} =>
               def[n].type \in {"checkpoint", "human_input", "delegation"}
    BY JobsFacts
<1>2. /\ j.answer = answer /\ j.keys = Slots(n, b)
      /\ \A i \in DOMAIN j.states : j.states[i] = IF i <= offset THEN "verified_complete"
                                                                 ELSE "todo"
      /\ Len(j.ids) = IF Len(state.ids) > Len(Slots(n, b)) THEN Len(state.ids)
                                                           ELSE Len(Slots(n, b))
      /\ \A i \in DOMAIN j.ids :
            j.ids[i] = IF i = 1 /\ def[n].type = "operation" THEN FirstId(n, run.nodes)
                       ELSE SomeId(state.ids, i)
      /\ JobTyped(j)
    BY <1>1, JobBegins
<1>3. /\ PlanForm(p) /\ p.type = def[n].type /\ p.line = Slots(n, answers[n])
      /\ p.line \in Seq(AllKeys)
      /\ def[n].type # "condition" => p.line = Slots(n, 1)
      /\ def[n].type = "bounded_loop" => p.size = Size(n)
      /\ def[n].type \in {"operation", "compensation", "approval"} =>
            Len(p.line) = 1 /\ p.goal = 1
    BY PlanFacts DEF TypeInv
<1>4. j.keys = p.line
    BY <1>1, <1>2, <1>3
<1>5. Sound(state, p, tasks) /\ Typed(state, Len(tasks))
    BY DEF RecordsInv, TypeInv, NodesInv, NodeTyped
<1>6. /\ Len(state.ids) \in Nat /\ DOMAIN state.ids = 1..Len(state.ids)
      /\ \A i \in DOMAIN state.ids : state.ids[i] \in 1..Len(tasks)
  <2> DEFINE S == 1..Len(tasks)
  <2>1. state.ids \in Seq(S)
    BY <1>5 DEF Typed
  <2> HIDE DEF S, state
  <2>2. /\ Len(state.ids) \in Nat /\ DOMAIN state.ids = 1..Len(state.ids)
        /\ \A i \in DOMAIN state.ids : state.ids[i] \in S
    BY <2>1
  <2> QED
    BY <2>2 DEF S
<1>7. /\ p.goal \in 0..Len(p.line) /\ Len(p.line) \in Nat /\ Len(state.ids) <= p.goal
      /\ DOMAIN p.line = 1..Len(p.line)
    BY <1>3, <1>5 DEF PlanForm, Sound
<1>8. Len(j.ids) = Len(p.line) /\ DOMAIN j.ids = 1..Len(p.line)
  <2>1. Len(j.ids) = Len(p.line)
    BY <1>1, <1>2, <1>4, <1>6, <1>7
  <2> QED
    BY <1>2, <2>1 DEF JobTyped
<1>9. /\ Len(j.states) = Len(p.line) /\ DOMAIN j.states = 1..Len(p.line)
    BY <1>2, <1>4 DEF JobTyped
<1>10. /\ offset \in Nat /\ offset <= Len(state.ids) /\ (offset = 0 \/ offset < p.goal)
       /\ offset # 0 => p.type = "bounded_loop"
       /\ \A i \in 1..offset : tasks[state.ids[i]].status = "verified_success"
  <2>1. state.status # "verified_complete"
    BY DEF Open, Status
  <2>2. CASE def[n].type = "bounded_loop"
    <3>1. offset = state.iterations * p.size /\ p.size # 0 /\ p.size \in Nat
          /\ state.iterations \in Nat
      BY <2>2, <1>3, <1>5 DEF PlanForm, Typed
    <3>2. offset \in Nat
      BY <3>1
    <3> HIDE DEF offset, p, state
    <3> QED
      BY <2>1, <2>2, <3>1, <3>2, <1>3, <1>5 DEF Sound
  <2>3. CASE def[n].type # "bounded_loop"
    <3>1. state.iterations \in Nat
      BY <1>5 DEF Typed
    <3>2. offset = 0
      BY <2>3, <3>1
    <3> HIDE DEF offset, p, state
    <3> QED
      BY <3>2, <1>6
  <2> QED
    BY <2>2, <2>3
<1> HIDE DEF offset, state, p
<1>11. ASSUME NEW i \in 1..Len(p.line), j.ids[i] # 0
       PROVE  /\ i <= p.goal /\ tasks[j.ids[i]].key = p.line[i]
              /\ \A m \in 1..i : j.ids[m] # 0
  <2>1. CASE i = 1 /\ def[n].type = "operation"
    <3>1. j.ids[1] = FirstId(n, run.nodes)
      BY <2>1, <1>2, <1>8, <1>11
    <3> DEFINE approvals == {a \in DOMAIN def : def[a].type = "approval" /\ def[a].refersTo = n
                                                /\ run.nodes[a].ids # <<>>}
    <3>2. tasks[j.ids[1]].key = p.line[1]
      <4>1. CASE approvals # {}
        <5>1. PICK a \in approvals : FirstId(n, run.nodes) = run.nodes[a].ids[1]
          BY <4>1 DEF FirstId
        <5>2. Target(a) = n /\ Plan(a).line = p.line
          BY <5>1, SharedLine DEF Target, TypeInv, p
        <5>3. Sound(run.nodes[a], Plan(a), tasks) /\ run.nodes[a].ids \in Seq(1..Len(tasks))
          BY <5>1 DEF RecordsInv, TypeInv, NodesInv, NodeTyped, Typed
        <5>4. 1 \in DOMAIN run.nodes[a].ids
          <6> DEFINE S == 1..Len(tasks)
          <6>1. run.nodes[a].ids \in Seq(S) /\ run.nodes[a].ids # <<>>
            BY <5>1, <5>3
          <6> HIDE DEF S
          <6> QED
            BY <6>1
        <5> QED
          BY <3>1, <5>1, <5>2, <5>3, <5>4 DEF Sound
      <4>2. CASE approvals = {}
        <5>1. j.ids[1] = SomeId(state.ids, 1)
          BY <3>1, <4>2 DEF FirstId, state
        <5>2. 1 \in DOMAIN state.ids /\ j.ids[1] = state.ids[1]
          BY <2>1, <5>1, <1>11 DEF SomeId
        <5> QED
          BY <5>2, <1>5 DEF Sound
      <4> QED
        BY <4>1, <4>2
    <3> QED
      BY <2>1, <3>2, <1>3, <1>11
  <2>2. CASE ~(i = 1 /\ def[n].type = "operation")
    <3>1. j.ids[i] = SomeId(state.ids, i) /\ def[n].type # "operation"
      <4>1. j.ids[i] = SomeId(state.ids, i)
        BY <2>2, <1>2, <1>8 DEF state
      <4>2. def[n].type = "operation" => i = 1
        BY <1>3
      <4> QED
        BY <2>2, <4>1, <4>2
    <3>2. i \in DOMAIN state.ids /\ j.ids[i] = state.ids[i]
      BY <3>1, <1>11 DEF SomeId
    <3>3. \A m \in 1..i : m \in DOMAIN state.ids /\ m \in DOMAIN j.ids
      BY <3>2, <1>6, <1>8
    <3>4. \A m \in 1..i : j.ids[m] = state.ids[m]
      BY <3>1, <3>3, <1>2 DEF SomeId, state
    <3>5. \A m \in 1..i : j.ids[m] # 0
      BY <3>3, <3>4, <1>6
    <3>6. tasks[j.ids[i]].key = p.line[i]
      BY <3>2, <1>5 DEF Sound
    <3> QED
      BY <3>2, <3>5, <3>6, <1>6, <1>7
  <2> QED
    BY <2>1, <2>2
<1>12. ASSUME NEW i \in 1..Len(p.line), j.states[i] # "todo"
       PROVE  /\ i <= p.goal /\ j.ids[i] # 0
              /\ \A m \in 1..(i - 1) : IF p.type = "parallel" THEN j.states[m] # "todo"
                                       ELSE j.states[m] = "verified_complete"
              /\ tasks[j.ids[i]].status = "verified_success"
              /\ i # p.goal
  <2>1. i <= offset /\ i \in DOMAIN j.ids
    BY <1>2, <1>8, <1>9, <1>12 DEF offset, state
  <2>2. p.type = "bounded_loop" /\ i < p.goal /\ i \in DOMAIN state.ids
    BY <2>1, <1>6, <1>7, <1>10
  <2>3. j.ids[i] = state.ids[i]
    BY <2>1, <2>2, <1>2, <1>3 DEF SomeId, state
  <2>4. \A m \in 1..(i - 1) : j.states[m] = "verified_complete"
    <3> TAKE m \in 1..(i - 1)
    <3>1. m \in 1..Len(p.line) /\ m <= offset
      BY ONLY <2>1, <1>7, <1>10, i \in 1..Len(p.line), m \in 1..(i - 1)
    <3>2. m \in DOMAIN j.states
      BY ONLY <3>1, <1>9
    <3> QED
      BY ONLY <3>1, <3>2, <1>2
  <2>5. j.ids[i] # 0
    BY <2>2, <2>3, <1>6
  <2> QED
    BY <2>1, <2>2, <2>3, <2>4, <2>5, <1>7, <1>10
<1>13. JobSound(j, p, tasks)
  <2>1. Len(j.keys) \in {Len(p.line), p.goal} /\ \A i \in DOMAIN j.keys : j.keys[i] = p.line[i]
    BY <1>4
  <2>2. j.answer # "none" => p.type \in {"checkpoint", "human_input", "delegation"}
    BY <1>1, <1>2, <1>3
  <2> QED
    BY <1>8, <1>9, <1>11, <1>12, <2>1, <2>2 DEF JobSound
<1> QED
  BY <1>13 DEF p


\* The tasks of a job are those of its first requests.
LEMMA PlannedFirst ==
    ASSUME TypeInv, NEW ids, ids \in Seq(0..Len(tasks)),
           \A i \in 1..Len(ids) : ids[i] # 0 => \A m \in 1..i : ids[m] # 0
    PROVE  \E high \in 0..Len(ids) :
              /\ \A i \in 1..Len(ids) : ids[i] # 0 <=> i <= high
              /\ Planned(ids) \in Seq(1..Len(tasks)) /\ Len(Planned(ids)) = high
              /\ \A i \in 1..high : Planned(ids)[i] = ids[i]
<1> DEFINE n == Len(ids)
           P == {i \in 1..n : ids[i] # 0}
           I == 0..Len(tasks)
<1>1. n \in Nat /\ Len(tasks) \in Nat /\ DOMAIN tasks = 1..Len(tasks)
    BY DEF TypeInv
<1>2. \A i \in 1..n : ids[i] \in I
  <2>1. ids \in Seq(I)
    OBVIOUS
  <2> HIDE DEF I
  <2> QED
    BY <2>1
<1>3. \A i \in 1..n : i \in P => \A m \in 1..i : m \in P
    BY <1>1
<1>4. PICK high \in 0..n : \A i \in 1..n : i \in P <=> i <= high
  <2> HIDE DEF P, n
  <2> QED
    BY <1>1, <1>3, StretchOf
<1>5. \A i \in 1..n : ids[i] \in DOMAIN tasks <=> 0 < i /\ i <= high
    BY <1>1, <1>2, <1>4
<1>6. /\ Len(Among(ids, DOMAIN tasks)) = high
      /\ \A i \in 1..high : Among(ids, DOMAIN tasks)[i] = ids[i]
  <2> DEFINE low == 0
             set == DOMAIN tasks
  <2>1. ids \in Seq(I) /\ low \in Nat /\ high \in Nat /\ low <= high /\ high <= Len(ids)
        /\ low = 0
    BY <1>1, <1>4
  <2>2. Between(ids, set, low, high)
    BY <2>1, <1>5 DEF Between
  <2> HIDE DEF I, n, P, low, set
  <2>3. /\ Len(Among(ids, set)) = high - low
        /\ \A i \in 1..(high - low) : Among(ids, set)[i] = ids[low + i]
    BY ONLY <2>1, <2>2, AmongStretch
  <2>4. high - low = high /\ \A i \in 1..high : low + i = i
    BY ONLY <2>1
  <2>5. Len(Among(ids, set)) = high /\ \A i \in 1..high : Among(ids, set)[i] = ids[i]
    BY ONLY <2>3, <2>4
  <2> QED
    BY ONLY <2>5 DEF set
<1>7. Planned(ids) \in Seq(1..Len(tasks))
    BY PlannedFacts DEF TypeInv
<1>8. \A i \in 1..n : ids[i] # 0 <=> i <= high
    BY <1>4
<1> QED
  <2>1. Planned(ids) = Among(ids, DOMAIN tasks)
    BY DEF Planned
  <2> HIDE DEF P, I
  <2> QED
    BY ONLY <2>1, <1>4, <1>6, <1>7, <1>8 DEF n

\* A node whose requests all went well has worked through all of them.
LEMMA AllVerified ==
    ASSUME NEW j, NEW p, p.type = def[j.node].type, JobSound(j, p, tasks),
           j.states \in Seq(JobStatus), j.answer = "none", Over(j),
           Aggregate(j.states) = "verified_complete"
    PROVE  \A i \in DOMAIN j.states : j.states[i] = "verified_complete"
<1> DEFINE n == Len(j.states)
           P == {i \in 1..n : j.states[i] = "todo"}
<1>1. n \in Nat /\ DOMAIN j.states = 1..n
    OBVIOUS
<1>2. Startable(j) = {} /\ \A i \in DOMAIN j.states : j.states[i] # "busy"
    BY DEF Over
<1>3. \A i \in DOMAIN j.states : j.states[i] \in {"todo", "busy", "verified_complete"}
    BY AggregateFacts
<1>4. SUFFICES ASSUME NEW e \in 1..n, e \in P PROVE FALSE
    BY <1>1, <1>2, <1>3
<1>5. PICK f \in 1..n : f \in P /\ \A m \in 1..(f - 1) : m \notin P
  <2> HIDE DEF P, n
  <2> QED
    BY <1>1, <1>4, FirstOf
<1>6. \A m \in 1..(f - 1) : j.states[m] = "verified_complete"
    BY <1>1, <1>2, <1>3, <1>5
<1>7. f \in Startable(j)
    BY <1>1, <1>5, <1>6 DEF Startable
<1> QED
    BY <1>2, <1>7

\* A node ends with what its tasks are.
LEMMA OutcomeSound ==
    ASSUME TypeInv, FormInv, NEW j \in jobs, JobSound(j, Plan(j.node), tasks), Over(j)
    PROVE  /\ Sound(Outcome(j), Plan(j.node), tasks)
           /\ Outcome(j).status = "verified_complete" => Whole(Outcome(j), Plan(j.node))
<1> DEFINE p == Plan(j.node)
           state == Outcome(j)
           status == IF j.answer # "none" THEN j.answer ELSE Aggregate(j.states)
           good == {i \in DOMAIN j.states : j.states[i] = "verified_complete"}
<1>1. j.node \in DOMAIN def /\ j.answer \in Answers
    BY DEF FormInv, JobForm
<1>2. /\ PlanForm(p) /\ p.type = def[j.node].type
      /\ def[j.node].type = "bounded_loop" => p.size = Size(j.node)
      /\ def[j.node].type \in {"checkpoint", "human_input", "delegation"} => p.line = <<>>
    BY <1>1, PlanFacts DEF TypeInv
<1>3. /\ state.ids = Planned(j.ids)
      /\ state.iterations = IF def[j.node].type = "bounded_loop"
                            THEN Cardinality(good) \div Size(j.node) ELSE 0
      /\ state.status = IF j.node \in Compensations /\ status = "verified_complete"
                        THEN "compensated" ELSE status
    BY OutcomeTyped
<1>4. /\ j.ids \in Seq(0..Len(tasks)) /\ j.states \in Seq(JobStatus)
      /\ Len(j.states) = Len(j.keys) /\ Len(j.keys) <= Len(j.ids)
      /\ Len(j.ids) \in Nat /\ DOMAIN j.ids = 1..Len(j.ids)
      /\ Len(j.states) \in Nat /\ DOMAIN j.states = 1..Len(j.states)
    BY DEF TypeInv, JobsInv, JobsTyped, JobTyped
<1>5. /\ Len(j.keys) \in {Len(p.line), p.goal} /\ Len(j.ids) = Len(p.line)
      /\ \A i \in DOMAIN j.ids : j.ids[i] # 0 => /\ i <= p.goal /\ tasks[j.ids[i]].key = p.line[i]
                                                 /\ \A m \in 1..i : j.ids[m] # 0
      /\ j.answer # "none" => p.type \in {"checkpoint", "human_input", "delegation"}
    BY DEF JobSound
<1>6. PICK high \in 0..Len(j.ids) :
         /\ \A i \in 1..Len(j.ids) : j.ids[i] # 0 <=> i <= high
         /\ Planned(j.ids) \in Seq(1..Len(tasks)) /\ Len(Planned(j.ids)) = high
         /\ \A i \in 1..high : Planned(j.ids)[i] = j.ids[i]
    BY <1>4, <1>5, PlannedFirst
<1>7. /\ Len(state.ids) = high /\ DOMAIN state.ids = 1..high
      /\ \A i \in 1..high : state.ids[i] = j.ids[i]
    BY <1>3, <1>6
<1>8. p.goal \in 0..Len(p.line) /\ Len(p.line) \in Nat
    BY <1>2 DEF PlanForm
<1>9. high <= p.goal
  <2>1. CASE high = 0
    BY <2>1, <1>8
  <2>2. CASE high # 0
    <3>1. high \in 1..Len(j.ids)
      BY <2>2, <1>4
    <3>2. j.ids[high] # 0
      BY <3>1, <1>6
    <3> QED
      BY <3>1, <3>2, <1>4, <1>5
  <2> QED
    BY <2>1, <2>2
<1>10. \A i \in DOMAIN state.ids : tasks[state.ids[i]].key = p.line[i]
  <2> SUFFICES ASSUME NEW i \in 1..high PROVE tasks[state.ids[i]].key = p.line[i]
    BY <1>7
  <2>1. i \in 1..Len(j.ids) /\ i <= high
    BY <1>4, <1>6
  <2>2. j.ids[i] # 0
    BY <2>1, <1>6
  <2> QED
    BY <2>1, <2>2, <1>4, <1>5, <1>7
<1> HIDE DEF p, state, status, good
<1>11. CASE j.answer # "none"
  <2>1. p.line = <<>> /\ p.goal = 0 /\ p.size = 0 /\ p.type \in {"checkpoint", "human_input", "delegation"}
    BY <1>2, <1>5, <1>8, <1>11 DEF PlanForm
  <2>2. high = 0 /\ DOMAIN state.ids = {}
    BY <2>1, <1>7, <1>8, <1>9
  <2>3. state.status # "awaiting_approval"
    BY <1>1, <1>3, <1>11 DEF status, Answers
  <2> QED
    BY <2>1, <2>2, <2>3, <1>7 DEF Sound, Whole, p, state
<1>12. CASE j.answer = "none"
  <2>1. status = Aggregate(j.states)
    BY <1>12 DEF status
  <2>2. \A i \in DOMAIN j.states : j.states[i] # "todo" =>
           /\ i <= p.goal /\ j.ids[i] # 0
           /\ \A m \in 1..(i - 1) : IF p.type = "parallel" THEN j.states[m] # "todo"
                                    ELSE j.states[m] = "verified_complete"
           /\ j.states[i] = "verified_complete" /\ p.type # "approval" =>
                 tasks[j.ids[i]].status = "verified_success"
           /\ j.states[i] = "verified_complete" /\ i = p.goal => Len(j.keys) = p.goal
    BY DEF JobSound, p
  <2>3. \A i \in DOMAIN j.states : j.states[i] # "todo" => i \in 1..high /\ state.ids[i] = j.ids[i]
    <3> SUFFICES ASSUME NEW i \in DOMAIN j.states, j.states[i] # "todo"
                 PROVE  i \in 1..high /\ state.ids[i] = j.ids[i]
      OBVIOUS
    <3>1. i \in 1..Len(j.ids) /\ j.ids[i] # 0
      BY <2>2, <1>4
    <3>2. i <= high
      BY <3>1, <1>6
    <3>3. i \in 1..high
      BY ONLY <3>1, <3>2, <1>4, <1>6
    <3> QED
      BY <3>3, <1>7
  <2>4. status = "verified_complete" =>
           /\ \A i \in DOMAIN j.states : j.states[i] = "verified_complete"
           /\ Len(j.states) = p.goal /\ high = p.goal
    <3>1. SUFFICES ASSUME status = "verified_complete"
                   PROVE  /\ \A i \in DOMAIN j.states : j.states[i] = "verified_complete"
                          /\ Len(j.states) = p.goal /\ high = p.goal
      OBVIOUS
    <3>2. \A i \in DOMAIN j.states : j.states[i] = "verified_complete"
      BY <2>1, <3>1, <1>2, <1>4, <1>12, AllVerified DEF p
    <3>3. CASE p.goal = 0
      BY <3>2, <3>3, <1>2, <1>4, <1>5, <1>6, <1>8, <1>9 DEF PlanForm
    <3>4. CASE p.goal # 0
      <4>1. p.goal \in DOMAIN j.states
        BY <3>4, <1>4, <1>5, <1>8
      <4>2. Len(j.keys) = p.goal /\ p.goal \in 1..high
        BY <3>2, <4>1, <2>2, <2>3
      <4> QED
        BY <3>2, <4>2, <1>4, <1>6, <1>8, <1>9
    <3> QED
      BY <3>2, <3>3, <3>4
  <2>5. state.status \in {"verified_complete", "compensated"} => status = "verified_complete"
    <3>1. status # "compensated"
      BY <2>1, <1>4, AggregateFacts
    <3> QED
      BY <3>1, <1>3
  <2>6. state.status \in {"verified_complete", "compensated"} /\ p.type # "approval" =>
           \A i \in DOMAIN state.ids : tasks[state.ids[i]].status = "verified_success"
    <3> SUFFICES ASSUME state.status \in {"verified_complete", "compensated"},
                        p.type # "approval", NEW i \in DOMAIN state.ids
                 PROVE  tasks[state.ids[i]].status = "verified_success"
      OBVIOUS
    <3>1. i \in DOMAIN j.states /\ j.states[i] = "verified_complete"
      BY <2>4, <2>5, <1>4, <1>7
    <3> QED
      BY <3>1, <2>2, <2>3
  <2>7. state.status = "awaiting_approval" => state.ids # <<>>
    <3>1. SUFFICES ASSUME state.status = "awaiting_approval" PROVE high # 0
      BY <1>7
    <3>2. Aggregate(j.states) = "awaiting_approval"
      BY <2>1, <3>1, <1>3
    <3>3. "awaiting_approval" \in ToSet(j.states)
      BY <3>2, <1>4, AggregateFacts
    <3>4. PICK i \in DOMAIN j.states : j.states[i] = "awaiting_approval"
      BY <3>3 DEF ToSet
    <3> QED
      BY <3>4, <2>3, <1>6
  <2>8. ASSUME p.size # 0
        PROVE  /\ state.status # "verified_complete" =>
                     /\ state.iterations * p.size <= Len(state.ids)
                     /\ state.iterations * p.size < p.goal
                     /\ \A i \in 1..(state.iterations * p.size) :
                           tasks[state.ids[i]].status = "verified_success"
               /\ state.status = "verified_complete" => state.iterations * p.size = p.goal
    <3>1. /\ p.type = "bounded_loop" /\ p.size \in Nat \ {0}
          /\ state.iterations = Cardinality(good) \div p.size
          /\ \E turns \in Nat \ {0} : p.goal = turns * p.size
      BY <2>8, <1>2, <1>3 DEF PlanForm
    <3> DEFINE P == {i \in 1..Len(j.states) : j.states[i] = "verified_complete"}
    <3>2. \A i \in 1..Len(j.states) : i \in P => \A m \in 1..i : m \in P
      <4> SUFFICES ASSUME NEW i \in 1..Len(j.states), j.states[i] = "verified_complete",
                          NEW m \in 1..i
                   PROVE  m \in 1..Len(j.states) /\ j.states[m] = "verified_complete"
        OBVIOUS
      <4>1. m = i \/ m \in 1..(i - 1)
        BY <1>4
      <4>2. j.states[i] # "todo" /\ i \in DOMAIN j.states /\ p.type # "parallel"
        BY <3>1, <1>4
      <4>3. \A e \in 1..(i - 1) : j.states[e] = "verified_complete"
        BY ONLY <4>2, <2>2
      <4>4. m \in 1..Len(j.states)
        BY <1>4
      <4> QED
        BY ONLY <4>1, <4>3, <4>4, j.states[i] = "verified_complete"
    <3>3. PICK w \in 0..Len(j.states) : \A i \in 1..Len(j.states) : i \in P <=> i <= w
      <4> HIDE DEF P
      <4> QED
        BY <3>2, <1>4, StretchOf
    <3>4. good = 1..w
      BY <3>3, <1>4 DEF good
    <3>5. Cardinality(good) = w
      BY <3>3, <3>4, <1>4, FS_Interval
    <3>6. \A i \in 1..w : i \in 1..high /\ tasks[state.ids[i]].status = "verified_success"
      <4> TAKE i \in 1..w
      <4>1. i \in DOMAIN j.states /\ j.states[i] = "verified_complete"
        BY <3>3, <1>4
      <4> QED
        BY <4>1, <3>1, <2>2, <2>3
    <3>7. w <= high /\ w \in Nat
      BY <3>3, <3>6, <1>4, <1>6
    <3>8. /\ state.iterations = w \div p.size /\ w \div p.size \in Nat
          /\ (w \div p.size) * p.size <= w
      <4>1. w = p.size * (w \div p.size) + (w % p.size) /\ w \div p.size \in Nat
            /\ w % p.size \in 0..(p.size - 1)
        <5>1. w \in Nat /\ p.size \in Nat \ {0}
          BY <3>1, <3>7
        <5> QED
          BY ONLY <5>1, Division
      <4>2. p.size \in Nat
        BY <3>1
      <4> QED
        BY ONLY <3>1, <3>5, <4>1, <4>2
    <3>9. status = "verified_complete" => w = p.goal
      <4> SUFFICES ASSUME status = "verified_complete" PROVE w = p.goal
        OBVIOUS
      <4>1. Len(j.states) = p.goal /\ p.goal \in DOMAIN j.states
        BY <2>4, <3>1, <1>2, <1>4, <1>8 DEF PlanForm
      <4>2. p.goal \in P
        BY <2>4, <4>1
      <4> QED
        BY <4>1, <4>2, <3>3, <1>4
    <3>10. w = p.goal => status = "verified_complete"
      <4> SUFFICES ASSUME w = p.goal, status # "verified_complete" PROVE FALSE
        OBVIOUS
      <4>1. p.goal # 0
        BY <3>1
      <4>2. p.goal \in DOMAIN j.states /\ j.states[p.goal] = "verified_complete"
        BY <4>1, <3>3, <1>4, <1>8
      <4>3. Len(j.states) = p.goal
        BY <4>2, <2>2, <1>4
      <4>4. \A i \in DOMAIN j.states : j.states[i] = "verified_complete"
        BY <4>3, <3>3, <1>4
      <4>5. status \in ToSet(j.states)
        BY <2>1, <1>4, AggregateFacts
      <4> QED
        BY <4>4, <4>5 DEF ToSet
    <3>11. w <= p.goal
      BY <3>7, <1>6, <1>8, <1>9
    <3>12. state.status = "verified_complete" <=> status = "verified_complete"
      <4>1. j.node \notin Compensations
        BY <1>2, <3>1, DefinitionFacts DEF FormInv
      <4> QED
        BY <4>1, <1>3
    <3>13. p.goal \in Nat /\ state.iterations * p.size \in Nat
      BY <1>8, <3>1, <3>8
    <3>14. CASE status = "verified_complete"
      <4>1. PICK turns \in Nat \ {0} : p.goal = turns * p.size
        BY <3>1
      <4>2. (turns * p.size) \div p.size = turns
        <5>1. turns \in Nat /\ p.size \in Nat \ {0}
          BY <3>1
        <5> QED
          BY ONLY <5>1, Division
      <4>3. state.iterations = turns
        BY ONLY <3>8, <3>9, <3>14, <4>1, <4>2
      <4> QED
        BY ONLY <4>1, <4>3, <3>12, <3>14
    <3>15. CASE status # "verified_complete"
      <4>1. w < p.goal
        BY <3>10, <3>11, <3>15, <3>7, <3>13
      <4> HIDE DEF P
      <4>2. state.iterations * p.size <= w
        BY <3>8
      <4>3. /\ state.iterations * p.size <= Len(state.ids)
            /\ state.iterations * p.size < p.goal
            /\ \A i \in 1..(state.iterations * p.size) : i \in 1..w
        BY ONLY <4>1, <4>2, <3>7, <3>13, <1>6, <1>7
      <4> QED
        BY ONLY <4>3, <3>6, <3>12, <3>15
    <3> QED
      BY <3>14, <3>15
  <2>9. state.status = "verified_complete" => Len(state.ids) = p.goal
    BY <2>4, <2>5, <1>7
  <2> QED
    BY <2>6, <2>7, <2>8, <2>9, <1>7, <1>9, <1>10 DEF Sound, Whole, p, state
<1> QED
    BY <1>11, <1>12

-----------------------------------------------------------------------------
(* The steps of an advance.                                                   *)

\* The tasks and the run stay, the wave goes on.
LEMMA WaveTasks ==
    ASSUME TypeInv, FormInv, TaskInv, UNCHANGED <<def, answers, run, tasks, repaired>>,
           wave'.phase # "none" => \A n \in DOMAIN def : Sound(wave'.base[n], Plan(n), tasks),
           \A n \in DOMAIN wave'.results :
              /\ n \in DOMAIN def /\ Sound(wave'.results[n], Plan(n), tasks)
              /\ wave'.results[n].status = "verified_complete" => Whole(wave'.results[n], Plan(n)),
           \A j \in jobs' :
              /\ JobSound(j, Plan(j.node), tasks)
              /\ \A n \in Steps : Status(n) = "verified_complete" /\ Target(j.node) = n =>
                    Whole(run.nodes[n], Plan(n))
    PROVE  TaskInv'
<1>1. RecordsInv'
    BY RecordsAgain DEF TaskInv, RecordsInv
<1>2. Later(tasks, tasks') /\ KnownIn(tasks') = KnownIn(tasks)
    BY TasksAsBefore
<1>3. KnownInv'
    BY <1>2, KnownStays DEF TaskInv
<1>4. SameComplete
    BY DEF SameComplete
<1>5. CompleteInv'
    BY <1>2, <1>4, CompleteStays DEF TaskInv
<1> QED
    BY <1>1, <1>3, <1>5 DEF TaskInv

\* What the jobs there are say of completed nodes.
LEMMA JobsWhole ==
    ASSUME TaskInv, NEW j \in jobs
    PROVE  /\ JobSound(j, Plan(j.node), tasks)
           /\ \A n \in Steps : Status(n) = "verified_complete" /\ Target(j.node) = n =>
                 Whole(run.nodes[n], Plan(n))
    BY DEF TaskInv, RecordsInv, CompleteInv

LEMMA AdvanceTasks ==
    ASSUME TypeInv, SagaInv, TaskInv, Advance
    PROVE  TaskInv'
<1> DEFINE nodes == WaveOf(run)
<1>1. PICK begin \in [nodes -> UNION {Jobs(n) : n \in nodes}] :
         /\ \A n \in nodes : begin[n] \in Jobs(n)
         /\ LET started == {begin[n] : n \in nodes}
            IN \/ Reject(nodes, jobs \cup started)
               \/ /\ \A j \in started : j.answer # "throws"
                  /\ jobs' = jobs \cup started
                  /\ wave' = [NoWave EXCEPT !.phase = "work", !.base = run.nodes]
                  /\ UNCHANGED <<history, count>>
    BY Zenon DEF Advance
<1>2. UNCHANGED <<def, faults, answers, mode, run, tasks, committed>> /\ UNCHANGED repaired
    BY <1>1 DEF Advance, Reject, history
<1>3. \A n \in nodes : n \in DOMAIN def /\ Open(n)
    BY WaveFacts
<1> DEFINE started == {begin[n] : n \in nodes}
           Good(j) == /\ JobSound(j, Plan(j.node), tasks)
                      /\ \A n \in Steps : Status(n) = "verified_complete" /\ Target(j.node) = n =>
                            Whole(run.nodes[n], Plan(n))
<1>4. \A j \in started : j.answer # "throws" => Good(j)
  <2> SUFFICES ASSUME NEW n \in nodes, begin[n].answer # "throws" PROVE Good(begin[n])
    OBVIOUS
  <2> DEFINE j == begin[n]
  <2>1. j \in Jobs(n) /\ n \in DOMAIN def /\ Open(n) /\ j.node = n
    BY <1>1, <1>3, JobFacts
  <2> HIDE DEF nodes, started
  <2>2. JobSound(j, Plan(n), tasks)
    <3> HIDE DEF j
    <3> QED
      BY <2>1, BeginsSound DEF SagaInv, TaskInv, j
  <2>3. ASSUME NEW m \in Steps, Status(m) = "verified_complete", Target(n) = m
        PROVE  Whole(run.nodes[m], Plan(m))
    <3>1. m # n
      BY <2>1, <2>3 DEF Open
    <3>2. def[m].type = "operation"
      BY <2>1, <2>3, <3>1, SharedLine DEF TypeInv
    <3> QED
      BY <2>3, <3>2 DEF TaskInv, CompleteInv
  <2> QED
    BY <2>1, <2>2, <2>3
<1>5. \A j \in jobs : Good(j)
    BY JobsWhole
<1>6. \A j \in jobs' : Good(j)
  <2>1. CASE Reject(nodes, jobs \cup started)
    <3> SUFFICES ASSUME NEW k \in jobs \cup started, ~Over(k)
                 PROVE  Good([k EXCEPT !.alive = FALSE])
      BY <2>1 DEF Reject
    <3>1. k.answer # "throws"
      BY DEF Over
    <3>2. JobForm(k)
      BY <1>1, <1>3, JobFacts DEF SagaInv, FormInv
    <3>3. Good(k)
      BY <3>1, <1>4, <1>5
    <3> DEFINE gone == [k EXCEPT !.alive = FALSE]
    <3>4. /\ gone.node = k.node /\ gone.keys = k.keys /\ gone.ids = k.ids
          /\ gone.states = k.states /\ gone.answer = k.answer
      BY <3>2 DEF JobForm
    <3> HIDE DEF gone, nodes, started
    <3>5. Good(gone)
      BY <3>3, <3>4 DEF JobSound
    <3> QED
      BY <3>5 DEF gone
  <2>2. CASE /\ \A j \in started : j.answer # "throws"
             /\ jobs' = jobs \cup started
    <3> HIDE DEF started, Good
    <3> QED
      BY <1>4, <1>5, <2>2
  <2> QED
    BY <1>1, <2>1, <2>2
<1>7. /\ DOMAIN wave'.results = {}
      /\ wave'.phase # "none" => wave'.base = run.nodes
  <2>1. \/ wave' = NoWave
        \/ wave' = [NoWave EXCEPT !.phase = "work", !.base = run.nodes]
    BY <1>1 DEF Reject
  <2> HIDE DEF nodes, started, Good
  <2>2. wave'.results = <<>> /\ (wave'.phase = "none" \/ wave'.base = run.nodes)
    <3>1. CASE wave' = NoWave
      BY ONLY <3>1 DEF NoWave
    <3>2. CASE wave' = [NoWave EXCEPT !.phase = "work", !.base = run.nodes]
      BY ONLY <3>2 DEF NoWave
    <3> QED
      BY <2>1, <3>1, <3>2
  <2> QED
    BY ONLY <2>2
<1> HIDE DEF nodes, started
<1>8. wave'.phase # "none" => \A n \in DOMAIN def : Sound(wave'.base[n], Plan(n), tasks)
    BY <1>7 DEF TaskInv, RecordsInv
<1> QED
    BY <1>2, <1>6, <1>7, <1>8, WaveTasks DEF SagaInv

LEMMA ThrowTasks ==
    ASSUME TypeInv, SagaInv, TaskInv, NEW j \in jobs, NEW i, Throw(j, i)
    PROVE  TaskInv'
<1> DEFINE Good(k) == /\ JobSound(k, Plan(k.node), tasks)
                      /\ \A n \in Steps : Status(n) = "verified_complete" /\ Target(k.node) = n =>
                            Whole(run.nodes[n], Plan(n))
<1>1. /\ UNCHANGED <<def, answers, run, tasks, repaired>> /\ wave' = NoWave
      /\ jobs' = {[k EXCEPT !.alive = FALSE] : k \in {k \in jobs \ {j} : ~Over(k)}}
    BY DEF Throw, Reject
<1>2. \A k \in jobs' : Good(k)
  <2> SUFFICES ASSUME NEW k \in jobs PROVE Good([k EXCEPT !.alive = FALSE])
    BY <1>1
  <2>1. JobForm(k) /\ Good(k)
    BY JobsWhole DEF SagaInv, FormInv
  <2> DEFINE gone == [k EXCEPT !.alive = FALSE]
  <2>2. /\ gone.node = k.node /\ gone.keys = k.keys /\ gone.ids = k.ids
        /\ gone.states = k.states /\ gone.answer = k.answer
    BY <2>1 DEF JobForm
  <2> HIDE DEF gone
  <2>3. Good(gone)
    BY <2>1, <2>2 DEF JobSound
  <2> QED
    BY <2>3 DEF gone
<1>3. DOMAIN wave'.results = {} /\ wave'.phase = "none"
    BY <1>1 DEF NoWave
<1> QED
    BY <1>1, <1>2, <1>3, WaveTasks DEF SagaInv

LEMMA GatherTasks ==
    ASSUME TypeInv, SagaInv, TaskInv, Gather
    PROVE  TaskInv'
<1> DEFINE over    == {j \in jobs : j.alive}
           results == [n \in {j.node : j \in over} |-> Outcome(CHOOSE j \in over : j.node = n)]
<1>1. /\ jobs' = jobs \ over
      /\ wave' = [wave EXCEPT !.phase = "undo", !.results = results, !.undo = ToUndo(results)]
      /\ wave.phase = "work"
      /\ UNCHANGED <<def, answers, run, tasks, repaired>>
      /\ \A j \in jobs : j.alive => Over(j)
    BY DEF Gather, history
<1>2. wave'.results = results /\ wave'.base = wave.base
    BY <1>1 DEF SagaInv, FormInv, WaveForm
<1>3. \A n \in DOMAIN results :
         /\ n \in DOMAIN def /\ Sound(results[n], Plan(n), tasks)
         /\ results[n].status = "verified_complete" => Whole(results[n], Plan(n))
  <2> TAKE n \in DOMAIN results
  <2>1. \E j \in over : j.node = n
    OBVIOUS
  <2> DEFINE j == CHOOSE j \in over : j.node = n
  <2>2. j \in over /\ j.node = n /\ results[n] = Outcome(j)
    BY <2>1
  <2> HIDE DEF j, results
  <2>3. j \in jobs /\ Over(j) /\ JobSound(j, Plan(j.node), tasks) /\ j.node \in DOMAIN def
    BY <1>1, <2>2 DEF TaskInv, RecordsInv, SagaInv, FormInv, JobForm
  <2>4. /\ Sound(Outcome(j), Plan(j.node), tasks)
        /\ Outcome(j).status = "verified_complete" => Whole(Outcome(j), Plan(j.node))
    BY <2>3, OutcomeSound DEF SagaInv
  <2> QED
    BY <2>2, <2>3, <2>4
<1> HIDE DEF results, over
<1>4. wave'.phase # "none" => \A n \in DOMAIN def : Sound(wave'.base[n], Plan(n), tasks)
    BY <1>1, <1>2 DEF TaskInv, RecordsInv
<1>5. \A j \in jobs' :
         /\ JobSound(j, Plan(j.node), tasks)
         /\ \A n \in Steps : Status(n) = "verified_complete" /\ Target(j.node) = n =>
               Whole(run.nodes[n], Plan(n))
    BY <1>1, JobsWhole
<1> QED
    BY <1>1, <1>2, <1>3, <1>4, <1>5, WaveTasks DEF SagaInv

LEMMA UndoTasks ==
    ASSUME TypeInv, SagaInv, TaskInv, UndoNext
    PROVE  TaskInv'
<1> DEFINE n == Head(wave.undo)
           Result(state) == /\ wave'.results = Noted(n, state) /\ wave'.base = wave.base
                            /\ wave'.phase = "undo" /\ wave'.undo = Tail(wave.undo)
                            /\ wave'.moved = wave.moved
           Good(j) == /\ JobSound(j, Plan(j.node), tasks)
                      /\ \A m \in Steps : Status(m) = "verified_complete" /\ Target(j.node) = m =>
                            Whole(run.nodes[m], Plan(m))
<1>1. /\ n \in Compensations /\ n \in DOMAIN def /\ wave.phase = "undo"
      /\ UNCHANGED <<def, answers, run, tasks, repaired>>
      /\ \/ ~Undoes(n) /\ Result(NodeState("skipped", <<>>, 0)) /\ UNCHANGED jobs
         \/ /\ Undoes(n) /\ (\A j \in jobs : ~j.alive) /\ UNCHANGED wave
            /\ jobs' = jobs \cup {[Job(n, 1, "none") EXCEPT
                                      !.ids = <<SomeId(wave.base[n].ids, 1)>>]}
         \/ \E j \in jobs : /\ j.alive /\ j.node = n /\ Over(j)
                            /\ Result(Outcome(j)) /\ jobs' = jobs \ {j}
    BY UndoMeans
<1> HIDE DEF n
<1>2. /\ def[n].type = "compensation" /\ Target(n) = n /\ n \notin Steps
      /\ PlanForm(Plan(n)) /\ Plan(n).type = "compensation" /\ Plan(n).size = 0
      /\ Len(Plan(n).line) = 1 /\ Plan(n).goal = 1 /\ Plan(n).line = Slots(n, 1)
  <2>1. def[n].type = "compensation" /\ n \notin Required
    BY <1>1, DefinitionFacts DEF SagaInv, FormInv, Compensations
  <2> QED
    BY <1>1, <2>1, PlanFacts DEF Target, Steps, PlanForm, TypeInv
<1>3. \A j \in jobs : Good(j)
    BY JobsWhole
<1>4. /\ \A m \in DOMAIN def : Sound(wave.base[m], Plan(m), tasks)
      /\ \A m \in DOMAIN wave.results :
            /\ m \in DOMAIN def /\ Sound(wave.results[m], Plan(m), tasks)
            /\ wave.results[m].status = "verified_complete" => Whole(wave.results[m], Plan(m))
    BY <1>1 DEF TaskInv, RecordsInv, SagaInv, FormInv, WaveForm
<1>5. ASSUME NEW state, Sound(state, Plan(n), tasks),
             state.status = "verified_complete" => Whole(state, Plan(n)),
             Result(state), jobs' \subseteq jobs
      PROVE  TaskInv'
  <2>1. \A m \in DOMAIN wave'.results :
           /\ m \in DOMAIN def /\ Sound(wave'.results[m], Plan(m), tasks)
           /\ wave'.results[m].status = "verified_complete" => Whole(wave'.results[m], Plan(m))
    <3> TAKE m \in DOMAIN wave'.results
    <3>1. wave'.results = Noted(n, state)
      BY <1>5
    <3>2. m = n \/ m \in DOMAIN wave.results
      BY <3>1 DEF Noted
    <3>3. wave'.results[m] = IF m = n THEN state ELSE wave.results[m]
      BY <3>1 DEF Noted
    <3> QED
      BY <1>1, <1>4, <1>5, <3>2, <3>3
  <2>2. wave'.phase # "none" => \A m \in DOMAIN def : Sound(wave'.base[m], Plan(m), tasks)
    BY <1>4, <1>5
  <2>3. \A j \in jobs' : Good(j)
    BY <1>3, <1>5
  <2> HIDE DEF Result
  <2> QED
    BY <1>1, <2>1, <2>2, <2>3, WaveTasks DEF SagaInv
<1>6. CASE ~Undoes(n) /\ Result(NodeState("skipped", <<>>, 0)) /\ UNCHANGED jobs
  <2> DEFINE state == NodeState("skipped", <<>>, 0)
  <2>1. state.status = "skipped" /\ state.ids = <<>>
    BY DEF NodeState
  <2>2. Result(state) /\ jobs' \subseteq jobs
    BY <1>6
  <2> HIDE DEF state, Result
  <2>3. Sound(state, Plan(n), tasks)
    BY <1>2, <2>1 DEF Sound
  <2> QED
    BY <1>5, <2>1, <2>2, <2>3
<1>7. ASSUME NEW j \in jobs, j.node = n, Over(j), Result(Outcome(j)), jobs' = jobs \ {j}
      PROVE  TaskInv'
  <2>1. /\ Sound(Outcome(j), Plan(n), tasks)
        /\ Outcome(j).status = "verified_complete" => Whole(Outcome(j), Plan(n))
    BY <1>3, <1>7, OutcomeSound DEF SagaInv
  <2> HIDE DEF Result
  <2> QED
    BY <1>5, <1>7, <2>1
<1>8. CASE /\ Undoes(n) /\ (\A j \in jobs : ~j.alive) /\ UNCHANGED wave
           /\ jobs' = jobs \cup {[Job(n, 1, "none") EXCEPT
                                      !.ids = <<SomeId(wave.base[n].ids, 1)>>]}
  <2> DEFINE id == SomeId(wave.base[n].ids, 1)
  <2>1. id \in 0..Len(tasks)
    <3>1. wave.base[n].ids \in Seq(1..Len(tasks)) /\ Len(tasks) \in Nat
      BY <1>1 DEF TypeInv, NodesInv, NodeTyped, Typed
    <3> QED
      BY <3>1, SomeIdTyped
  <2>2. jobs' = jobs \cup {[Job(n, 1, "none") EXCEPT !.ids = <<id>>]}
    BY <1>8
  <2>3. id # 0 => tasks[id].key = Plan(n).line[1]
    <3> SUFFICES ASSUME id # 0 PROVE tasks[id].key = Plan(n).line[1]
      OBVIOUS
    <3>1. 1 \in DOMAIN wave.base[n].ids /\ id = wave.base[n].ids[1]
      BY DEF SomeId
    <3> HIDE DEF id
    <3> QED
      BY <3>1, <1>1, <1>4 DEF Sound
  <2> HIDE DEF id
  <2>4. PICK job : /\ job = [Job(n, 1, "none") EXCEPT !.ids = <<id>>]
                   /\ job.node = n /\ job.answer = "none" /\ job.keys = Slots(n, 1)
                   /\ job.ids = <<id>> /\ Len(job.keys) = 1
                   /\ DOMAIN job.states = {1} /\ job.states[1] = "todo"
    <3>1. TypeInv /\ FormInv /\ n \in DOMAIN def /\ n \in Compensations
      BY <1>1 DEF SagaInv
    <3> HIDE DEF n
    <3> QED
      BY ONLY <3>1, <2>1, UndoingJob
  <2>5. JobSound(job, Plan(n), tasks)
    <3>1. DOMAIN job.ids = 1..1 /\ Len(job.ids) = 1 /\ job.ids[1] = id
      BY <2>4
    <3> QED
      BY <1>2, <2>3, <2>4, <3>1 DEF JobSound
  <2>6. Good(job)
    BY <1>2, <2>4, <2>5
  <2>7. \A j \in jobs' : Good(j)
    BY <1>3, <2>2, <2>4, <2>6
  <2> HIDE DEF Good, Result
  <2>8. \A j \in jobs' :
           /\ JobSound(j, Plan(j.node), tasks)
           /\ \A m \in Steps : Status(m) = "verified_complete" /\ Target(j.node) = m =>
                 Whole(run.nodes[m], Plan(m))
    BY <2>7 DEF Good
  <2> QED
    BY <1>1, <1>4, <1>8, <2>8, WaveTasks DEF SagaInv
<1> QED
  <2> HIDE DEF Result
  <2> QED
    BY <1>1, <1>6, <1>7, <1>8

\* What is complete afterwards, node by node.
LEMMA CompleteAgain ==
    ASSUME UNCHANGED <<def, answers>>,
           \A n \in DOMAIN def : def[n].type = "approval" /\ Status(n)' = "verified_complete" =>
              Whole(run'.nodes[n], Plan(n)),
           \A n \in Steps : Status(n)' = "verified_complete" =>
              /\ \A key \in KnownIn(tasks') : key.node = n => VerifiedIn(tasks', key)
              /\ (n \in repaired' /\ def[n].type # "operation") \/ Whole(run'.nodes[n], Plan(n))
              /\ \A j \in jobs' : Target(j.node) = n => Whole(run'.nodes[n], Plan(n)),
           \A n \in Steps \cap repaired' : Status(n)' = "verified_complete"
    PROVE  CompleteInv'
<1>1. /\ \A n : Plan(n)' = Plan(n) /\ Target(n)' = Target(n)
      /\ Steps' = Steps /\ Steps \subseteq DOMAIN def
    BY SamePlans DEF Steps, Required
<1> QED
    BY <1>1 DEF CompleteInv

\* The tasks of a node that are all verified, one for each of its requests, are all that
\* there are.
LEMMA WholeVerified ==
    ASSUME TypeInv, KnownInv, NEW n \in Steps, NEW state, Typed(state, Len(tasks)),
           Sound(state, Plan(n), tasks), Whole(state, Plan(n)),
           state.status = "verified_complete"
    PROVE  \A key \in KnownIn(tasks) : key.node = n => VerifiedIn(tasks, key)
<1> SUFFICES ASSUME NEW key \in KnownIn(tasks), key.node = n
             PROVE  VerifiedIn(tasks, key)
    OBVIOUS
<1>1. PICK i \in 1..Plan(n).goal : key = Plan(n).line[i]
    BY DEF KnownInv
<1>2. Plan(n).type # "approval"
    BY DEF Steps, Plan
<1>3. state.ids \in Seq(1..Len(tasks)) /\ Len(state.ids) = Plan(n).goal
    BY DEF Typed, Whole
<1>4. i \in DOMAIN state.ids /\ DOMAIN tasks = 1..Len(tasks)
    BY <1>1, <1>3 DEF TypeInv
<1>5. state.ids[i] \in 1..Len(tasks)
  <2> DEFINE S == 1..Len(tasks)
  <2>1. state.ids \in Seq(S)
    BY <1>3
  <2> HIDE DEF S
  <2>2. state.ids[i] \in S
    BY ONLY <1>4, <2>1
  <2> QED
    BY <2>2 DEF S
<1>6. tasks[state.ids[i]].key = key /\ tasks[state.ids[i]].status = "verified_success"
    BY <1>1, <1>2, <1>4 DEF Sound
<1> QED
    BY <1>4, <1>5, <1>6 DEF VerifiedIn

\* A node that is skipped is as sound as it was.
LEMMA SkipSound ==
    ASSUME TypeInv, FormInv, NEW given, DOMAIN given = DOMAIN def,
           \A n \in DOMAIN def : NodeForm(given[n]), NEW n \in DOMAIN def,
           Sound(given[n], Plan(n), tasks)
    PROVE  /\ Sound(SkipUnused(given)[n], Plan(n), tasks)
           /\ n \in Required => SkipUnused(given)[n] = given[n]
           /\ SkipUnused(given)[n].status = "verified_complete" =>
                 SkipUnused(given)[n] = given[n]
<1> DEFINE next == SkipUnused(given)[n]
<1>1. /\ next.ids = given[n].ids /\ next.iterations = given[n].iterations
      /\ \/ next = given[n]
         \/ next.status = "skipped" /\ n \in Compensations
    BY SkipKeeps
<1>2. n \in Compensations => n \notin Required /\ Plan(n).size = 0
  <2>1. PlanForm(Plan(n)) /\ Plan(n).type = def[n].type
    BY PlanFacts DEF TypeInv
  <2> QED
    BY <2>1, DefinitionFacts DEF PlanForm, FormInv, Compensations
<1> HIDE DEF next
<1>3. Sound(next, Plan(n), tasks)
  <2>1. CASE next = given[n]
    BY <2>1
  <2>2. CASE next.status = "skipped" /\ n \in Compensations
    BY <1>1, <1>2, <2>2 DEF Sound
  <2> QED
    BY <1>1, <2>1, <2>2
<1> QED
    BY <1>1, <1>2, <1>3 DEF next

LEMMA CommitTasks ==
    ASSUME TypeInv, SagaInv, TaskInv, Commit
    PROVE  TaskInv'
<1>1. /\ UNCHANGED <<def, answers, tasks, jobs, repaired>>
      /\ wave'.phase = "none" /\ DOMAIN wave'.results = {}
      /\ DOMAIN Merged = DOMAIN def
      /\ \A n \in DOMAIN def : /\ NodeForm(Merged[n])
                               /\ n \in DOMAIN wave.results => Merged[n] = wave.results[n]
                               /\ n \notin DOMAIN wave.results => Merged[n] = run.nodes[n]
  <2>1. wave' = NoWave
    BY CommitMeans
  <2>2. wave'.phase = "none" /\ DOMAIN wave'.results = {}
    BY <2>1 DEF NoWave
  <2> QED
    BY <2>2, CommitMeans
<1>2. Later(tasks, tasks') /\ KnownIn(tasks') = KnownIn(tasks)
    BY <1>1, TasksAsBefore
<1>3. \A j \in jobs :
         /\ JobSound(j, Plan(j.node), tasks)
         /\ \A n \in Steps : Status(n) = "verified_complete" /\ Target(j.node) = n =>
               Whole(run.nodes[n], Plan(n))
    BY JobsWhole
<1>4. CASE UNCHANGED run
    BY <1>1, <1>3, <1>4, WaveTasks DEF SagaInv
<1>5. CASE run'.nodes = SkipUnused(Merged)
  <2>1. \A n \in DOMAIN def : Sound(Merged[n], Plan(n), tasks)
    BY <1>1 DEF TaskInv, RecordsInv
  <2>2. \A n \in DOMAIN def :
           /\ Sound(run'.nodes[n], Plan(n), tasks)
           /\ n \in Required => run'.nodes[n] = Merged[n]
           /\ run'.nodes[n].status = "verified_complete" => run'.nodes[n] = Merged[n]
    BY <1>1, <1>5, <2>1, SkipSound DEF SagaInv
  <2>3. RecordsInv'
    BY <1>1, <1>3, <2>2, RecordsAgain DEF TaskInv, SagaInv
  <2>4. KnownInv'
    BY <1>1, <1>2, KnownStays DEF TaskInv
  <2>5. \A n \in DOMAIN wave.results :
           /\ n \in DOMAIN def /\ Status(n) # "verified_complete"
           /\ Typed(wave.results[n], Len(tasks)) /\ Sound(wave.results[n], Plan(n), tasks)
           /\ wave.results[n].status = "verified_complete" => Whole(wave.results[n], Plan(n))
    BY DEF SagaInv, FormInv, WaveForm, WaveInv, Open, TaskInv, RecordsInv, TypeInv, NodesInv,
           NodeTyped
  <2>6. \A n \in DOMAIN def : n \notin DOMAIN wave.results =>
           /\ Status(n)' = "verified_complete" => Status(n) = "verified_complete"
           /\ Status(n)' = "verified_complete" => run'.nodes[n] = run.nodes[n]
           /\ n \in Required => run'.nodes[n] = run.nodes[n]
    BY <1>1, <2>2 DEF Status
  <2>7. \A n \in DOMAIN wave.results : Status(n)' = "verified_complete" =>
           run'.nodes[n] = wave.results[n] /\ Whole(run'.nodes[n], Plan(n))
    BY <1>1, <2>2, <2>5 DEF Status
  <2>8. \A n \in Steps : n \in DOMAIN def /\ n \in Required
    BY DEF Steps, Required
  <2>9. \A n \in DOMAIN def : def[n].type = "approval" /\ Status(n)' = "verified_complete" =>
           Whole(run'.nodes[n], Plan(n))
    BY <2>6, <2>7 DEF TaskInv, CompleteInv
  <2>10. ASSUME NEW n \in Steps, Status(n)' = "verified_complete"
         PROVE  /\ \A key \in KnownIn(tasks') : key.node = n => VerifiedIn(tasks', key)
                /\ (n \in repaired' /\ def[n].type # "operation") \/ Whole(run'.nodes[n], Plan(n))
                /\ \A j \in jobs' : Target(j.node) = n => Whole(run'.nodes[n], Plan(n))
    <3>1. CASE n \in DOMAIN wave.results
      <4>1. Whole(run'.nodes[n], Plan(n)) /\ run'.nodes[n] = wave.results[n]
        BY <2>7, <2>10, <3>1
      <4>2. \A key \in KnownIn(tasks) : key.node = n => VerifiedIn(tasks, key)
        BY <2>5, <2>10, <3>1, <4>1, WholeVerified DEF TaskInv, Status
      <4> QED
        BY <1>2, <4>1, <4>2, VerifiedStays
    <3>2. CASE n \notin DOMAIN wave.results
      <4>1. Status(n) = "verified_complete" /\ run'.nodes[n] = run.nodes[n]
        BY <2>6, <2>8, <2>10, <3>2
      <4>2. \A key \in KnownIn(tasks') : key.node = n => VerifiedIn(tasks', key)
        BY <1>2, <4>1, VerifiedStays DEF TaskInv, CompleteInv
      <4> QED
        BY <1>1, <4>1, <4>2 DEF TaskInv, CompleteInv
    <3> QED
      BY <3>1, <3>2
  <2>11. ASSUME NEW n \in Steps \cap repaired' PROVE Status(n)' = "verified_complete"
    <3>1. Status(n) = "verified_complete"
      BY <1>1 DEF TaskInv, CompleteInv
    <3> QED
      BY <2>5, <2>6, <2>8, <3>1 DEF Status
  <2>12. CompleteInv'
    BY <1>1, <2>9, <2>10, <2>11, CompleteAgain
  <2> QED
    BY <2>3, <2>4, <2>12 DEF TaskInv
<1> QED
    BY <1>4, <1>5, CommitMeans

-----------------------------------------------------------------------------
(* The steps around an advance.                                               *)

\* The run moves under a wave: what is complete stays so.
LEMMA MovedKeepsTasks ==
    ASSUME TypeInv, SagaInv, TaskInv, Moved, UNCHANGED <<def, answers, jobs, repaired>>,
           Later(tasks, tasks'), Len(tasks') = Len(tasks), SameComplete,
           \A n \in DOMAIN def : Sound(run'.nodes[n], Plan(n), tasks')
    PROVE  TaskInv'
<1>1. /\ wave'.phase = wave.phase /\ wave'.base = wave.base /\ wave'.results = wave.results
    BY MovedMeans
<1>2. KnownIn(tasks') = KnownIn(tasks)
    BY SameKnown
<1>3. /\ wave.phase # "none" => \A n \in DOMAIN def : Sound(wave.base[n], Plan(n), tasks')
      /\ \A n \in DOMAIN wave.results : Sound(wave.results[n], Plan(n), tasks')
      /\ \A j \in jobs : JobSound(j, Plan(j.node), tasks')
    BY RecordsStay DEF TaskInv, SagaInv
<1>4. \A n \in DOMAIN wave.results :
         /\ n \in DOMAIN def
         /\ wave.results[n].status = "verified_complete" => Whole(wave.results[n], Plan(n))
    BY DEF TaskInv, RecordsInv, SagaInv, FormInv, WaveForm
<1>5. RecordsInv'
    BY <1>1, <1>3, <1>4, RecordsAgain DEF TaskInv, SagaInv
<1>6. KnownInv'
    BY <1>2, KnownStays DEF TaskInv
<1>7. CompleteInv'
    BY <1>2, CompleteRests DEF TaskInv
<1> QED
    BY <1>5, <1>6, <1>7 DEF TaskInv

LEMMA MovedTasks ==
    ASSUME TypeInv, SagaInv, TaskInv, Halt \/ Resume \/ Cancel
    PROVE  TaskInv'
<1>1. /\ Moved /\ UNCHANGED <<def, answers, jobs, repaired>>
    BY DEF Halt, Resume, Cancel, history
<1>2. RunForm
    BY DEF SagaInv, FormInv
<1>3. CASE Halt \/ Resume
  <2>1. run'.nodes = run.nodes /\ UNCHANGED tasks
    <3>1. CASE Halt
      BY <1>2, <3>1 DEF Halt, RunForm
    <3>2. CASE Resume
      BY <1>2, <3>2 DEF Resume, RunForm
    <3> QED
      BY <1>3, <3>1, <3>2
  <2>2. Later(tasks, tasks') /\ Len(tasks') = Len(tasks)
    BY <2>1, TasksAsBefore
  <2>3. SameComplete
    BY <2>1 DEF SameComplete
  <2>4. \A n \in DOMAIN def : Sound(run'.nodes[n], Plan(n), tasks')
    BY <2>1 DEF TaskInv, RecordsInv
  <2> QED
    BY <1>1, <2>2, <2>3, <2>4, MovedKeepsTasks
<1>4. CASE Cancel
  <2> DEFINE open == {n \in DOMAIN def : Status(n) \in {"pending", "ready", "awaiting_approval"}}
  <2>1. PICK ids :
           /\ run'.nodes = [n \in DOMAIN def |-> IF n \in open
                                THEN [run.nodes[n] EXCEPT !.status = "cancelled"]
                                ELSE run.nodes[n]]
           /\ tasks' = [id \in DOMAIN tasks |->
                          IF id \in ids /\ tasks[id].status \in {"planned", "awaiting_approval"}
                          THEN [tasks[id] EXCEPT !.status = "cancelled"] ELSE tasks[id]]
    BY <1>4 DEF Cancel, Status
  <2>2. tasks \in Seq(TaskRecord) /\ DOMAIN tasks = 1..Len(tasks) /\ Len(tasks) \in Nat
    BY DEF TypeInv
  <2>3. tasks' \in Seq(TaskRecord') /\ TaskRecord' = TaskRecord
    BY <1>1, <1>4, TouchIn, MovedTypes DEF TypeInv
  <2>4. Later(tasks, tasks') /\ Len(tasks') = Len(tasks)
    <3>1. DOMAIN tasks' = 1..Len(tasks') /\ Len(tasks') \in Nat
      <4> HIDE DEF TaskRecord
      <4>1. tasks' \in Seq(TaskRecord)
        BY <2>3
      <4> QED
        BY ONLY <4>1
    <3>2. DOMAIN tasks' = 1..Len(tasks)
      BY <2>1, <2>2
    <3>3. Len(tasks') = Len(tasks)
      <4>1. ASSUME NEW a \in Nat, NEW b \in Nat, 1..a = 1..b PROVE a = b
        <5>1. a > b => a \in 1..a /\ a \notin 1..b
          OBVIOUS
        <5>2. b > a => b \in 1..b /\ b \notin 1..a
          OBVIOUS
        <5> QED
          BY <4>1, <5>1, <5>2
      <4> QED
        BY <2>2, <3>1, <3>2, <4>1
    <3>4. ASSUME NEW id \in 1..Len(tasks)
          PROVE  /\ tasks'[id].key = tasks[id].key
                 /\ tasks[id].status = "verified_success" => tasks'[id].status = "verified_success"
      <4>1. tasks[id] \in TaskRecord
        BY <2>2
      <4>2. tasks'[id] = IF id \in ids /\ tasks[id].status \in {"planned", "awaiting_approval"}
                         THEN [tasks[id] EXCEPT !.status = "cancelled"] ELSE tasks[id]
        BY <2>1, <2>2
      <4> HIDE DEF open
      <4>3. CASE tasks[id].status \in {"planned", "awaiting_approval"} /\ id \in ids
        BY ONLY <4>1, <4>2, <4>3 DEF TaskRecord
      <4>4. CASE ~(tasks[id].status \in {"planned", "awaiting_approval"} /\ id \in ids)
        BY ONLY <4>2, <4>4
      <4> QED
        BY ONLY <4>3, <4>4
    <3> QED
      BY <2>2, <3>1, <3>3, <3>4 DEF Later
  <2>5. \A n \in DOMAIN def : Sound(run.nodes[n], Plan(n), tasks')
    BY <2>4, RecordsStay DEF TaskInv, SagaInv
  <2>6. \A n \in DOMAIN def :
           \/ run'.nodes[n] = run.nodes[n]
           \/ /\ Status(n) \in {"pending", "ready", "awaiting_approval"}
              /\ run'.nodes[n].status = "cancelled" /\ run'.nodes[n].ids = run.nodes[n].ids
              /\ run'.nodes[n].iterations = run.nodes[n].iterations
    <3> SUFFICES ASSUME NEW n \in DOMAIN def
                 PROVE  \/ run'.nodes[n] = run.nodes[n]
                        \/ /\ Status(n) \in {"pending", "ready", "awaiting_approval"}
                           /\ run'.nodes[n].status = "cancelled"
                           /\ run'.nodes[n].ids = run.nodes[n].ids
                           /\ run'.nodes[n].iterations = run.nodes[n].iterations
      OBVIOUS
    <3>1. NodeForm(run.nodes[n])
      BY <1>2 DEF RunForm
    <3>2. run'.nodes[n] = IF n \in open THEN [run.nodes[n] EXCEPT !.status = "cancelled"]
                          ELSE run.nodes[n]
      BY <2>1
    <3>3. n \in open => Status(n) \in {"pending", "ready", "awaiting_approval"}
      OBVIOUS
    <3> HIDE DEF open
    <3> QED
      BY ONLY <3>1, <3>2, <3>3 DEF NodeForm
  <2> HIDE DEF open
  <2>7. SameComplete
    BY <2>6 DEF SameComplete, Status
  <2>8. \A n \in DOMAIN def : Sound(run'.nodes[n], Plan(n), tasks')
    <3> SUFFICES ASSUME NEW n \in DOMAIN def PROVE Sound(run'.nodes[n], Plan(n), tasks')
      OBVIOUS
    <3>1. CASE run'.nodes[n] = run.nodes[n]
      BY <2>5, <3>1
    <3>2. CASE /\ Status(n) \in {"pending", "ready", "awaiting_approval"}
               /\ run'.nodes[n].status = "cancelled" /\ run'.nodes[n].ids = run.nodes[n].ids
               /\ run'.nodes[n].iterations = run.nodes[n].iterations
      <4>1. Sound(run.nodes[n], Plan(n), tasks')
        BY <2>5
      <4> QED
        BY ONLY <3>2, <4>1 DEF Sound, Status
    <3> QED
      BY <2>6, <3>1, <3>2
  <2> QED
    BY <1>1, <2>4, <2>7, <2>8, MovedKeepsTasks
<1> QED
    BY <1>3, <1>4

\* A death, and the recovery of tasks: the run stays, and nobody works on it.
LEMMA QuietTasks ==
    ASSUME TypeInv, SagaInv, TaskInv, Die \/ RecoverTasks
    PROVE  TaskInv'
<1>1. /\ UNCHANGED <<def, answers, run, repaired>> /\ jobs' = {}
      /\ wave'.phase = "none" /\ DOMAIN wave'.results = {}
      /\ tasks' \in Seq(TaskRecord) /\ Len(tasks') = Len(tasks)
      /\ \A id \in 1..Len(tasks) :
            /\ tasks'[id].key = tasks[id].key
            /\ tasks[id].status = "verified_success" => tasks'[id].status = "verified_success"
  <2>1. /\ UNCHANGED <<def, answers, run, repaired>> /\ jobs' = {} /\ wave' = NoWave
        /\ tasks' \in Seq(TaskRecord) /\ Len(tasks') = Len(tasks)
        /\ \A id \in 1..Len(tasks) :
              /\ tasks'[id].key = tasks[id].key
              /\ tasks[id].status = "verified_success" => tasks'[id].status = "verified_success"
    <3>1. CASE Die
      BY <3>1, DieMeans DEF history
    <3>2. CASE RecoverTasks
      <4>1. wave = NoWave /\ jobs = {}
        BY <3>2, RecoverTasksMeans DEF SagaInv, WaveInv
      <4> QED
        BY <3>2, <4>1, RecoverTasksMeans DEF history
    <3> QED
      BY <3>1, <3>2
  <2>2. wave'.phase = "none" /\ DOMAIN wave'.results = {}
    BY <2>1 DEF NoWave
  <2> QED
    BY <2>1, <2>2
<1>2. Later(tasks, tasks')
  <2>1. /\ DOMAIN tasks = 1..Len(tasks) /\ Len(tasks) \in Nat
        /\ DOMAIN tasks' = 1..Len(tasks')
    BY <1>1 DEF TypeInv
  <2> QED
    BY <1>1, <2>1 DEF Later
<1>3. KnownIn(tasks') = KnownIn(tasks)
    BY <1>1, <1>2, SameKnown
<1>4. \A n \in DOMAIN def : Sound(run.nodes[n], Plan(n), tasks')
    BY <1>2, RecordsStay DEF TaskInv, SagaInv
<1>5. RecordsInv'
    BY <1>1, <1>4, RecordsAgain DEF TaskInv, SagaInv
<1>6. KnownInv'
    BY <1>1, <1>3, KnownStays DEF TaskInv
<1>7. SameComplete
    BY <1>1 DEF SameComplete
<1>8. CompleteInv'
    BY <1>1, <1>2, <1>3, <1>7, CompleteRests DEF TaskInv
<1> QED
    BY <1>5, <1>6, <1>8 DEF TaskInv

\* Nothing happens.
LEMMA StillTasks ==
    ASSUME TypeInv, SagaInv, TaskInv, UNCHANGED vars
    PROVE  TaskInv'
<1>1. UNCHANGED <<def, answers, run, tasks, repaired, wave, jobs>>
    BY DEF vars
<1>2. \A j \in jobs :
         /\ JobSound(j, Plan(j.node), tasks)
         /\ \A n \in Steps : Status(n) = "verified_complete" /\ Target(j.node) = n =>
               Whole(run.nodes[n], Plan(n))
    BY JobsWhole
<1>3. /\ wave.phase # "none" => \A n \in DOMAIN def : Sound(wave.base[n], Plan(n), tasks)
      /\ \A n \in DOMAIN wave.results :
            /\ n \in DOMAIN def /\ Sound(wave.results[n], Plan(n), tasks)
            /\ wave.results[n].status = "verified_complete" => Whole(wave.results[n], Plan(n))
    BY DEF TaskInv, RecordsInv, SagaInv, FormInv, WaveForm
<1> QED
    BY <1>1, <1>2, <1>3, WaveTasks DEF SagaInv

-----------------------------------------------------------------------------
(* The recovery of the run.                                                   *)

\* Where a key has a verified task, it is the one that is chosen.
LEMMA PreferredFacts ==
    ASSUME NEW k, NEW id \in Preferred(k), VerifiedIn(tasks, k)
    PROVE  IsVerified(id)
BY DEF Preferred, TasksOf, VerifiedIn, IsVerified

\* What stands in one half of a list only.
LEMMA BetweenHalves ==
    ASSUME NEW S, NEW front, front \in Seq(S), NEW back, back \in Seq(S), NEW set, NEW high
    PROVE  /\ Between(front, set, 0, high) /\ (\A i \in 1..Len(back) : back[i] \notin set) =>
                 Between(front \o back, set, 0, high)
           /\ Between(back, set, 0, high) /\ (\A i \in 1..Len(front) : front[i] \notin set) =>
                 Between(front \o back, set, Len(front), Len(front) + high)
<1> DEFINE f == Len(front)  b == Len(back)  both == front \o back
<1>1. f \in Nat /\ b \in Nat /\ Len(both) = f + b
    OBVIOUS
<1>2. \A i \in 1..f : both[i] = front[i]
    OBVIOUS
<1>3. \A i \in 1..b : both[f + i] = back[i]
    OBVIOUS
<1>4. f = Len(front) /\ b = Len(back)
    OBVIOUS
<1> HIDE DEF f, b, both
<1>5. \A i \in 1..(f + b) : i \in 1..f \/ \E m \in 1..b : i = f + m
  <2> SUFFICES ASSUME NEW i \in 1..(f + b), i \notin 1..f PROVE \E m \in 1..b : i = f + m
    OBVIOUS
  <2>1. i - f \in 1..b /\ i = f + (i - f)
    BY ONLY <1>1, i \in 1..(f + b), i \notin 1..f
  <2> QED
    BY <2>1
<1>6. ASSUME Between(front, set, 0, high), \A i \in 1..b : back[i] \notin set
      PROVE  Between(both, set, 0, high)
  <2>1. /\ high \in Nat /\ high <= f
        /\ \A i \in 1..f : front[i] \in set <=> 0 < i /\ i <= high
    BY <1>4, <1>6 DEF Between
  <2>2. ASSUME NEW i \in 1..(f + b) PROVE both[i] \in set <=> 0 < i /\ i <= high
    <3>1. CASE i \in 1..f
      BY <1>2, <2>1, <3>1
    <3>2. CASE i \notin 1..f
      <4>1. PICK m \in 1..b : i = f + m
        BY <1>5, <3>2
      <4>2. both[i] \notin set
        BY <1>3, <1>6, <4>1
      <4>3. ~(i <= high)
        BY ONLY <1>1, <2>1, <4>1, m \in 1..b
      <4> QED
        BY <4>2, <4>3
    <3> QED
      BY <3>1, <3>2
  <2>3. 0 <= high /\ high <= f + b
    BY ONLY <1>1, <2>1
  <2> QED
    BY <1>1, <2>1, <2>2, <2>3 DEF Between
<1>7. ASSUME Between(back, set, 0, high), \A i \in 1..f : front[i] \notin set
      PROVE  Between(both, set, f, f + high)
  <2>1. /\ high \in Nat /\ high <= b
        /\ \A i \in 1..b : back[i] \in set <=> 0 < i /\ i <= high
    BY <1>4, <1>7 DEF Between
  <2>2. ASSUME NEW i \in 1..(f + b) PROVE both[i] \in set <=> f < i /\ i <= f + high
    <3>1. CASE i \in 1..f
      <4>1. both[i] \notin set
        BY <1>2, <1>7, <3>1
      <4>2. ~(f < i)
        BY ONLY <1>1, <3>1
      <4> QED
        BY <4>1, <4>2
    <3>2. CASE i \notin 1..f
      <4>1. PICK m \in 1..b : i = f + m
        BY <1>5, <3>2
      <4>2. both[i] \in set <=> 0 < m /\ m <= high
        BY <1>3, <2>1, <4>1
      <4>3. (0 < m /\ m <= high) <=> (f < i /\ i <= f + high)
        BY ONLY <1>1, <2>1, <4>1, m \in 1..b
      <4> QED
        BY <4>2, <4>3
    <3> QED
      BY <3>1, <3>2
  <2>3. f + high \in Nat /\ f <= f + high /\ f + high <= f + b
    BY ONLY <1>1, <2>1
  <2> QED
    BY <1>1, <2>1, <2>2, <2>3 DEF Between
<1> QED
    BY <1>4, <1>6, <1>7 DEF both

\* Recovery finds the first requests of the line of a node.
LEMMA KeysFound ==
    ASSUME TypeInv, KnownInv, NEW n \in DOMAIN def
    PROVE  \E high \in 0..Plan(n).goal :
              /\ Len(KeysToRecover(n)) = high
              /\ \A i \in 1..high : KeysToRecover(n)[i] = Plan(n).line[i]
              /\ \A i \in 1..Plan(n).goal : Plan(n).line[i] \in Known <=> i <= high
<1> DEFINE line == Plan(n).line  goal == Plan(n).goal  size == Len(line)  t == Target(n)
<1>1. /\ line \in Seq(AllKeys) /\ Injective(line) /\ size \in Nat /\ DOMAIN line = 1..size
      /\ goal \in 0..size /\ \A i \in 1..size : line[i].node = t
    BY PlanFacts DEF TypeInv, PlanForm
<1>2. Plan(t).line = line /\ Plan(t).goal = goal /\ (def[n].type # "approval" => t = n)
    BY SharedLine DEF TypeInv
<1>3. Known = KnownIn(tasks)
    BY DEF Known, KnownIn
<1> DEFINE P == {i \in 1..size : line[i] \in Known}
<1>4. ASSUME NEW key \in Known, key.node = t
      PROVE  \E i \in 1..goal : key = line[i] /\ \A m \in 1..i : line[m] \in Known
    BY <1>2, <1>3, <1>4 DEF KnownInv
<1> HIDE DEF line, goal, size, t
<1>5. \A i \in 1..size : i \in P => i <= goal /\ \A m \in 1..i : m \in P
  <2> SUFFICES ASSUME NEW i \in 1..size, line[i] \in Known
               PROVE  i <= goal /\ \A m \in 1..i : m \in P
    OBVIOUS
  <2>1. PICK k \in 1..goal : line[i] = line[k] /\ \A m \in 1..k : line[m] \in Known
    BY <1>1, <1>4
  <2>2. k \in 1..size
    BY ONLY <1>1, k \in 1..goal
  <2>3. i = k
    BY <1>1, <2>1, <2>2 DEF Injective
  <2>4. \A m \in 1..i : m \in 1..size
    BY ONLY <1>1, i \in 1..size
  <2>5. i <= goal
    BY ONLY <1>1, <2>3, k \in 1..goal
  <2> QED
    BY <2>1, <2>3, <2>4, <2>5
<1>6. PICK high \in 0..size : \A i \in 1..size : i \in P <=> i <= high
  <2> HIDE DEF P
  <2>1. \A i \in 1..size : i \in P => \A m \in 1..i : m \in P
    BY <1>5
  <2> QED
    BY ONLY <1>1, <2>1, StretchOf
<1>7. high \in 0..goal
  <2>1. high = 0 \/ (high \in 1..size /\ high <= high)
    BY <1>1
  <2>2. high = 0 \/ high <= goal
    BY <1>5, <1>6, <2>1
  <2> QED
    BY <1>1, <2>2
<1>8. \A i \in 1..size : line[i] \in Known <=> i <= high
    BY <1>6
<1>9. Between(line, Known, 0, high)
  <2>1. \A i \in 1..size : line[i] \in Known <=> 0 < i /\ i <= high
    BY <1>8
  <2>2. 0 \in Nat /\ high \in Nat /\ 0 <= high /\ high <= size
    BY <1>1
  <2> QED
    BY <2>1, <2>2 DEF Between, size
<1> HIDE DEF P
<1>10. \E low : /\ Between(ExpectedKeys(n), Known, low, low + high)
                /\ low \in Nat /\ low + high \in Nat
                /\ \A i \in 1..high : ExpectedKeys(n)[low + i] = line[i]
  <2>1. CASE def[n].type # "condition"
    <3>1. ExpectedKeys(n) = line
      BY <2>1, ExpectedFacts, PlanFacts DEF TypeInv, PlainInv, line
    <3>2. 0 + high = high /\ high \in Nat
      BY <1>1
    <3>3. \A i \in 1..high : 0 + i = i
      BY <1>1
    <3> QED
      BY <1>9, <3>1, <3>2, <3>3
  <2>2. CASE def[n].type = "condition"
    <3> DEFINE front == Slots(n, 1)  back == Slots(n, 2)
    <3>1. /\ front \in Seq(AllKeys) /\ back \in Seq(AllKeys)
          /\ ExpectedKeys(n) = front \o back
      BY <2>2, ExpectedFacts DEF TypeInv, PlainInv
    <3>2. \A b \in {1, 2} : \A i \in 1..Len(Slots(n, b)) :
             Slots(n, b)[i].node = n /\ Slots(n, b)[i].branch = b
      <4> SUFFICES ASSUME NEW b \in {1, 2}, NEW i \in 1..Len(Slots(n, b))
                   PROVE  Slots(n, b)[i].node = n /\ Slots(n, b)[i].branch = b
        OBVIOUS
      <4>1. Slots(n, b) \in Seq(KeyRecord)
        BY SlotsFacts DEF TypeInv, PlainInv
      <4>2. i \in DOMAIN Slots(n, b)
        BY ONLY <4>1, i \in 1..Len(Slots(n, b))
      <4>3. Target(n) = n
        BY <2>2 DEF Target
      <4> QED
        BY <2>2, <4>2, <4>3, SlotsFacts DEF TypeInv, PlainInv
    <3>3. answers[n] \in {1, 2} /\ line = Slots(n, answers[n]) /\ t = n
      BY <1>2, <2>2, PlanFacts DEF TypeInv, line
    <3>4. \A b \in {1, 2} : b # answers[n] =>
             \A i \in 1..Len(Slots(n, b)) : Slots(n, b)[i] \notin Known
      <4> SUFFICES ASSUME NEW b \in {1, 2}, b # answers[n], NEW i \in 1..Len(Slots(n, b)),
                          Slots(n, b)[i] \in Known
                   PROVE  FALSE
        OBVIOUS
      <4>1. Slots(n, b)[i].node = t /\ Slots(n, b)[i].branch = b
        BY <3>2, <3>3
      <4>2. PICK m \in 1..goal : Slots(n, b)[i] = line[m]
        BY <1>4, <4>1
      <4>3. m \in 1..size
        BY ONLY <1>1, m \in 1..goal
      <4>4. line[m].branch = answers[n]
        BY <3>2, <3>3, <4>3 DEF size
      <4> QED
        BY <4>1, <4>2, <4>4
    <3> DEFINE f == Len(front)
    <3>5. f \in Nat /\ high \in Nat
      BY <1>1, <3>1
    <3>6. CASE answers[n] = 1
      <4>1. line = front /\ \A i \in 1..Len(back) : back[i] \notin Known
        BY <3>3, <3>4, <3>6
      <4>2. Between(front \o back, Known, 0, high)
        <5> HIDE DEF front, back, Known
        <5> QED
          BY <1>9, <3>1, <4>1, BetweenHalves
      <4>3. \A i \in 1..high : (front \o back)[0 + i] = line[i]
        <5> SUFFICES ASSUME NEW i \in 1..high PROVE (front \o back)[0 + i] = line[i]
          OBVIOUS
        <5>1. i \in 1..Len(front) /\ 0 + i = i
          BY <1>1, <4>1 DEF size
        <5> HIDE DEF front, back
        <5> QED
          BY <3>1, <4>1, <5>1
      <4>4. 0 + high = high
        BY <3>5
      <4> QED
        BY <3>1, <3>5, <4>2, <4>3, <4>4
    <3>7. CASE answers[n] = 2
      <4>1. line = back /\ \A i \in 1..Len(front) : front[i] \notin Known
        BY <3>3, <3>4, <3>7
      <4>2. Between(front \o back, Known, f, f + high)
        <5> HIDE DEF front, back, Known
        <5> QED
          BY <1>9, <3>1, <4>1, BetweenHalves
      <4>3. \A i \in 1..high : (front \o back)[f + i] = line[i]
        <5> SUFFICES ASSUME NEW i \in 1..high PROVE (front \o back)[f + i] = line[i]
          OBVIOUS
        <5>1. i \in 1..Len(back)
          BY <1>1, <4>1 DEF size
        <5>2. (front \o back)[f + i] = back[i]
          <6> HIDE DEF front, back
          <6> QED
            BY ONLY <3>1, <5>1 DEF f
        <5> QED
          BY <4>1, <5>2
      <4>4. f + high \in Nat
        BY <3>5
      <4> HIDE DEF f, front, back
      <4> QED
        BY <3>1, <3>5, <4>2, <4>3, <4>4
    <3> QED
      BY <3>3, <3>6, <3>7
  <2> QED
    BY <2>1, <2>2
<1>11. PICK low : /\ Between(ExpectedKeys(n), Known, low, low + high)
                  /\ low \in Nat /\ low + high \in Nat
                  /\ \A i \in 1..high : ExpectedKeys(n)[low + i] = line[i]
    BY <1>10
<1>12. ExpectedKeys(n) \in Seq(AllKeys)
    BY ExpectedFacts DEF TypeInv, PlainInv
<1>13. KeysToRecover(n) = Among(ExpectedKeys(n), Known)
    BY DEF KeysToRecover, Known
<1> DEFINE all == ExpectedKeys(n)  top == low + high
<1>14. /\ Len(Among(all, Known)) = top - low
       /\ \A i \in 1..(top - low) : Among(all, Known)[i] = all[low + i]
  <2> HIDE DEF all, top, Known
  <2> QED
    BY <1>11, <1>12, AmongStretch DEF all, top
<1>15. top - low = high
    BY <1>1, <1>11
<1> HIDE DEF all, top
<1>16. Len(KeysToRecover(n)) = high /\ \A i \in 1..high : KeysToRecover(n)[i] = line[i]
    BY <1>11, <1>13, <1>14, <1>15 DEF all
<1>17. \A i \in 1..goal : line[i] \in Known <=> i <= high
  <2>1. \A i \in 1..goal : i \in 1..size
    BY ONLY <1>1
  <2> QED
    BY <1>8, <2>1
<1> QED
    BY <1>7, <1>16, <1>17 DEF line, goal

\* What recovery makes of a node is sound; what was complete stays so, and what is complete
\* now has all tasks that were found verified.
LEMMA RecoveredTasks ==
    ASSUME TypeInv, FormInv, TaskInv, NEW n \in DOMAIN def, NEW choice \in Picks,
           NEW state, state = RecoveredState(n, Chosen(n, choice))
    PROVE  /\ Sound(state, Plan(n), tasks)
           /\ def[n].type = "approval" /\ state.status = "verified_complete" =>
                 Whole(state, Plan(n))
           /\ n \in Steps /\ Status(n) = "verified_complete" =>
                 /\ state.status = "verified_complete"
                 /\ Whole(run.nodes[n], Plan(n)) => Whole(state, Plan(n))
           /\ n \in Steps /\ state.status = "verified_complete" =>
                 /\ \A key \in KnownIn(tasks) : key.node = n => VerifiedIn(tasks, key)
                 /\ Status(n) # "verified_complete" /\ def[n].type = "operation" =>
                       Whole(state, Plan(n))
<1> DEFINE ids == Chosen(n, choice)  p == Plan(n)  line == p.line  goal == p.goal
<1>1. PICK high \in 0..goal :
         /\ Len(KeysToRecover(n)) = high
         /\ \A i \in 1..high : KeysToRecover(n)[i] = line[i]
         /\ \A i \in 1..goal : line[i] \in Known <=> i <= high
    BY KeysFound DEF TaskInv
<1>2. /\ ids \in Seq(1..Len(tasks)) /\ Len(ids) = high
      /\ \A i \in 1..high : /\ ids[i] \in Preferred(line[i]) /\ line[i] \in Known
                            /\ tasks[ids[i]].key = line[i]
    BY <1>1, ChosenFacts
<1>3. /\ PlanForm(p) /\ p.type = def[n].type /\ goal \in Nat
      /\ def[n].type \in {"operation", "approval"} => goal = 1
      /\ \A i \in 1..goal : line[i].node = Target(n)
  <2>1. PlanForm(p)
    BY PlanFacts DEF TypeInv
  <2>2. \A i \in 1..goal : i \in 1..Len(line)
    BY <2>1 DEF PlanForm
  <2>3. /\ p.type = def[n].type /\ (def[n].type \in {"operation", "approval"} => goal = 1)
        /\ \A i \in 1..Len(line) : line[i].node = Target(n)
    BY PlanFacts DEF TypeInv
  <2> QED
    BY <2>1, <2>2, <2>3 DEF PlanForm
<1>4. /\ Known = KnownIn(tasks) /\ Sound(run.nodes[n], p, tasks)
      /\ Typed(run.nodes[n], Len(tasks)) /\ DOMAIN tasks = 1..Len(tasks)
    BY DEF Known, KnownIn, TaskInv, RecordsInv, TypeInv, NodesInv, NodeTyped
<1>5. /\ Fits(n, state.status) /\ state.iterations \in Nat
      /\ ids = <<>> => state = run.nodes[n]
      /\ ids # <<>> =>
            /\ state.ids = ids
            /\ state.status \in {"verified_complete", "compensated"} <=>
                  \A i \in DOMAIN ids : IsVerified(ids[i])
            /\ state.iterations =
                  IF def[n].type = "bounded_loop" /\ \A i \in DOMAIN ids : IsVerified(ids[i])
                  THEN (Len(ids) + Size(n) - 1) \div Size(n) ELSE 0
  <2> HIDE DEF ids
  <2>1. state = RecoveredState(n, ids)
    BY DEF ids
  <2>2. ids \in Seq(1..Len(tasks))
    BY <1>2
  <2>3. /\ NodeTyped(state) /\ Fits(n, state.status)
        /\ ids = <<>> => state = run.nodes[n]
        /\ ids # <<>> =>
              /\ state.ids = ids
              /\ state.status \in {"verified_complete", "compensated"} <=>
                    \A i \in DOMAIN ids : IsVerified(ids[i])
              /\ state.iterations =
                    IF def[n].type = "bounded_loop" /\ \A i \in DOMAIN ids : IsVerified(ids[i])
                    THEN (Len(ids) + Size(n) - 1) \div Size(n) ELSE 0
    BY <2>1, <2>2, RecoveredFacts
  <2> QED
    BY <2>3 DEF NodeTyped, Typed
<1>6. DOMAIN ids = 1..high /\ high \in Nat /\ (ids = <<>> <=> high = 0)
    BY <1>2, <1>3
<1>7. \A i \in 1..high : i \in 1..goal
    BY <1>3
<1> HIDE DEF ids, p, line, goal
<1>8. n \in Steps => /\ n \in Required /\ def[n].type # "approval" /\ Target(n) = n
                     /\ (Fits(n, state.status) => state.status # "compensated")
    BY DEF Steps, Target, Fits
\* The loop has all of its iterations when the last request is found.
<1>9. ASSUME ids # <<>>, high = goal, state.status = "verified_complete"
      PROVE  Whole(state, p)
  <2>1. Len(state.ids) = goal
    BY <1>2, <1>5, <1>9
  <2>2. CASE p.size = 0
    BY <2>1, <2>2 DEF Whole, goal
  <2>3. CASE p.size # 0
    <3>1. PICK turns \in Nat \ {0} : goal = turns * p.size
      BY <1>3, <2>3 DEF PlanForm, goal
    <3>2. def[n].type = "bounded_loop" /\ p.size = Size(n) /\ p.size \in Nat \ {0}
      <4>1. def[n].type = "bounded_loop" /\ p.size \in Nat \ {0}
        BY <1>3, <2>3 DEF PlanForm
      <4> QED
        BY <4>1, PlanFacts DEF TypeInv, p
    <3>3. state.iterations = (turns * p.size + p.size - 1) \div p.size
      BY <1>2, <1>5, <1>9, <3>1, <3>2
    <3>4. state.iterations = turns
      BY ONLY <3>1, <3>2, <3>3, Division
    <3> QED
      BY <2>1, <3>1, <3>4 DEF Whole, goal
  <2> QED
    BY <2>2, <2>3
<1>10. Sound(state, p, tasks)
  <2>1. CASE ids = <<>>
    BY <1>4, <1>5, <2>1
  <2>2. CASE ids # <<>>
    <3>1. Len(state.ids) <= p.goal /\ state.ids # <<>>
      BY <1>2, <1>3, <1>5, <2>2 DEF goal
    <3>2. \A i \in DOMAIN state.ids : tasks[state.ids[i]].key = p.line[i]
      BY <1>2, <1>5, <1>6, <2>2 DEF line
    <3>3. state.status \in {"verified_complete", "compensated"} =>
             \A i \in DOMAIN state.ids : tasks[state.ids[i]].status = "verified_success"
      BY <1>5, <2>2 DEF IsVerified
    <3>4. ASSUME p.size # 0, state.status # "verified_complete"
          PROVE  state.iterations = 0 /\ 0 < goal
      <4>1. def[n].type = "bounded_loop"
        BY <1>3, <3>4 DEF PlanForm
      <4>2. state.status # "compensated"
        BY <1>5, <4>1 DEF Fits, Required
      <4>3. state.iterations = 0
        BY <1>5, <2>2, <3>4, <4>2
      <4>4. 0 < goal
        BY <1>3, <1>6, <2>2
      <4> QED
        BY <4>3, <4>4
    <3>5. p.size \in Nat /\ Len(state.ids) \in Nat /\ 0 * p.size = 0
      <4>1. p.size \in Nat
        BY <1>3 DEF PlanForm
      <4>2. Len(state.ids) \in Nat
        BY <1>2, <1>5, <1>6, <2>2
      <4> QED
        BY ONLY <4>1, <4>2
    <3>6. p.size # 0 /\ state.status # "verified_complete" =>
             /\ state.iterations * p.size <= Len(state.ids) /\ state.iterations * p.size < p.goal
             /\ \A i \in 1..(state.iterations * p.size) :
                   tasks[state.ids[i]].status = "verified_success"
      <4> SUFFICES ASSUME p.size # 0, state.status # "verified_complete"
                   PROVE  /\ state.iterations * p.size <= Len(state.ids)
                          /\ state.iterations * p.size < p.goal
                          /\ \A i \in 1..(state.iterations * p.size) :
                                tasks[state.ids[i]].status = "verified_success"
        OBVIOUS
      <4>1. state.iterations * p.size = 0 /\ 0 < p.goal
        BY <3>4, <3>5 DEF goal
      <4>2. 0 <= Len(state.ids) /\ 1..0 = {}
        BY <3>5
      <4> QED
        BY <4>1, <4>2
    <3> QED
      BY <3>1, <3>2, <3>3, <3>6 DEF Sound
  <2> QED
    BY <2>1, <2>2
<1>11. ASSUME def[n].type = "approval", state.status = "verified_complete"
       PROVE  Whole(state, p)
  <2>1. CASE ids = <<>>
    BY <1>5, <1>11, <2>1 DEF TaskInv, CompleteInv, Status, p
  <2>2. CASE ids # <<>>
    <3>1. high = goal
      BY <1>3, <1>6, <1>11, <2>2
    <3> QED
      BY <1>9, <1>11, <2>2, <3>1
  <2> QED
    BY <2>1, <2>2
<1>12. ASSUME n \in Steps, Status(n) = "verified_complete"
       PROVE  /\ state.status = "verified_complete"
              /\ Whole(run.nodes[n], p) => Whole(state, p)
  <2>1. CASE ids = <<>>
    BY <1>5, <1>12, <2>1 DEF Status
  <2>2. CASE ids # <<>>
    <3>1. \A i \in 1..high : IsVerified(ids[i])
      <4> SUFFICES ASSUME NEW i \in 1..high PROVE IsVerified(ids[i])
        OBVIOUS
      <4>1. line[i] \in KnownIn(tasks) /\ line[i].node = n /\ ids[i] \in Preferred(line[i])
        BY <1>2, <1>3, <1>4, <1>7, <1>8, <1>12
      <4>2. VerifiedIn(tasks, line[i])
        BY <1>12, <4>1 DEF TaskInv, CompleteInv
      <4> QED
        BY <4>1, <4>2, PreferredFacts
    <3>2. state.status = "verified_complete"
      BY <1>5, <1>6, <1>8, <1>12, <2>2, <3>1
    <3>3. ASSUME Whole(run.nodes[n], p) PROVE high = goal
      <4> DEFINE had == run.nodes[n].ids
      <4>1. had \in Seq(1..Len(tasks)) /\ Len(had) = goal
        BY <1>4, <3>3 DEF Typed, Whole, goal
      <4>2. CASE goal = 0
        BY <1>1, <4>2
      <4>3. CASE goal # 0
        <5>1. goal \in DOMAIN had /\ goal \in 1..goal
          <6> HIDE DEF had
          <6> QED
            BY ONLY <1>3, <4>1, <4>3
        <5>2. had[goal] \in DOMAIN tasks
          <6> DEFINE S == 1..Len(tasks)
          <6>1. had \in Seq(S)
            BY <4>1
          <6> HIDE DEF S, had
          <6>2. had[goal] \in S
            BY ONLY <5>1, <6>1
          <6> QED
            BY <1>4, <6>2 DEF S
        <5>3. tasks[had[goal]].key = line[goal]
          BY <1>4, <5>1 DEF Sound, line
        <5>4. line[goal] \in Known
          BY <5>2, <5>3 DEF Known
        <5>5. goal <= high
          BY <1>1, <5>1, <5>4
        <5> QED
          BY ONLY <1>3, <5>5, high \in 0..goal
      <4> QED
        BY <4>2, <4>3
    <3> QED
      BY <1>9, <2>2, <3>2, <3>3
  <2> QED
    BY <2>1, <2>2
<1>13. ASSUME n \in Steps, state.status = "verified_complete", NEW key \in KnownIn(tasks),
              key.node = n
       PROVE  VerifiedIn(tasks, key)
  <2>1. CASE ids = <<>>
    BY <1>5, <1>13, <2>1 DEF TaskInv, CompleteInv, Status
  <2>2. CASE ids # <<>>
    <3>1. PICK i \in 1..goal : key = line[i]
      BY <1>13 DEF TaskInv, KnownInv, goal, line, p
    <3>2. i \in 1..high
      <4>1. i <= high
        BY <1>1, <1>4, <1>13, <3>1
      <4> QED
        BY ONLY <1>3, <1>6, <4>1, i \in 1..goal
    <3>3. tasks[ids[i]].key = key /\ IsVerified(ids[i])
      BY <1>2, <1>5, <1>6, <1>13, <2>2, <3>1, <3>2
    <3>4. ids[i] \in DOMAIN tasks
      <4> DEFINE S == 1..Len(tasks)
      <4>1. ids \in Seq(S)
        BY <1>2
      <4> HIDE DEF S
      <4>2. ids[i] \in S
        BY ONLY <1>6, <3>2, <4>1
      <4> QED
        BY <1>4, <4>2 DEF S
    <3> QED
      BY <3>3, <3>4 DEF VerifiedIn, IsVerified
  <2> QED
    BY <2>1, <2>2
<1>14. ASSUME n \in Steps, state.status = "verified_complete", Status(n) # "verified_complete",
              def[n].type = "operation"
       PROVE  Whole(state, p)
  <2>1. ids # <<>>
    BY <1>5, <1>14 DEF Status
  <2>2. high = goal
    BY <1>3, <1>6, <1>14, <2>1
  <2> QED
    BY <1>9, <1>14, <2>1, <2>2
<1> QED
    BY <1>10, <1>11, <1>12, <1>13, <1>14 DEF p

LEMMA RecoverRunTasks ==
    ASSUME TypeInv, SagaInv, TaskInv, RecoverRun
    PROVE  TaskInv'
<1>1. UNCHANGED <<def, faults, answers, tasks, committed, wave, jobs, launched, count>>
    BY RecoverRunMeans
<1>2. wave = NoWave /\ jobs = {} /\ wave.phase = "none" /\ DOMAIN wave.results = {}
  <2>1. wave = NoWave /\ jobs = {}
    BY RecoverRunMeans DEF SagaInv, WaveInv
  <2>2. wave.phase = "none" /\ DOMAIN wave.results = {}
    BY <2>1 DEF NoWave
  <2> QED
    BY <2>1, <2>2
<1>3. Later(tasks, tasks') /\ KnownIn(tasks') = KnownIn(tasks)
    BY <1>1, TasksAsBefore
<1>4. CASE UNCHANGED <<run, repaired>>
    BY <1>1, <1>2, <1>4, WaveTasks DEF SagaInv
<1>5. ASSUME NEW choice \in Picks, run'.nodes = SkipUnused(RecoveredNodes(choice)),
             repaired' = repaired \cup
                {n \in DOMAIN def : /\ SkipUnused(RecoveredNodes(choice))[n].status =
                                          "verified_complete"
                                    /\ run.nodes[n].status # "verified_complete"}
      PROVE  TaskInv'
  <2> DEFINE given == RecoveredNodes(choice)
  <2>1. /\ DOMAIN given = DOMAIN def
        /\ \A n \in DOMAIN def : given[n] = RecoveredState(n, Chosen(n, choice))
    BY DEF RecoveredNodes
  <2>2. \A n \in DOMAIN def : NodeForm(given[n])
    BY <2>1, RecoveredFacts, ChosenFacts DEF SagaInv
  <2> HIDE DEF given
  <2>3. \A n \in DOMAIN def :
           /\ Sound(given[n], Plan(n), tasks)
           /\ def[n].type = "approval" /\ given[n].status = "verified_complete" =>
                 Whole(given[n], Plan(n))
           /\ n \in Steps /\ Status(n) = "verified_complete" =>
                 /\ given[n].status = "verified_complete"
                 /\ Whole(run.nodes[n], Plan(n)) => Whole(given[n], Plan(n))
           /\ n \in Steps /\ given[n].status = "verified_complete" =>
                 /\ \A key \in KnownIn(tasks) : key.node = n => VerifiedIn(tasks, key)
                 /\ Status(n) # "verified_complete" /\ def[n].type = "operation" =>
                       Whole(given[n], Plan(n))
    BY <2>1, RecoveredTasks DEF SagaInv
  <2>4. \A n \in DOMAIN def :
           /\ Sound(run'.nodes[n], Plan(n), tasks)
           /\ n \in Required => run'.nodes[n] = given[n]
           /\ Status(n)' = "verified_complete" => run'.nodes[n] = given[n]
    BY <1>5, <2>1, <2>2, <2>3, SkipSound DEF SagaInv, given, Status
  <2>5. \A n \in Steps : n \in DOMAIN def /\ n \in Required
    BY DEF Steps, Required
  <2>6. RecordsInv'
    BY <1>1, <1>2, <2>4, RecordsAgain DEF TaskInv, SagaInv
  <2>7. KnownInv'
    BY <1>1, <1>3, KnownStays DEF TaskInv
  <2>8. \A n \in DOMAIN def : def[n].type = "approval" /\ Status(n)' = "verified_complete" =>
           Whole(run'.nodes[n], Plan(n))
    BY <2>3, <2>4 DEF Status
  <2>9. \A n \in DOMAIN def : n \in repaired' <=>
           n \in repaired \/ (Status(n)' = "verified_complete" /\ Status(n) # "verified_complete")
    BY <1>5 DEF Status
  <2>10. ASSUME NEW n \in Steps, Status(n)' = "verified_complete"
         PROVE  /\ \A key \in KnownIn(tasks') : key.node = n => VerifiedIn(tasks', key)
                /\ (n \in repaired' /\ def[n].type # "operation") \/ Whole(run'.nodes[n], Plan(n))
                /\ \A j \in jobs' : Target(j.node) = n => Whole(run'.nodes[n], Plan(n))
    <3>1. run'.nodes[n] = given[n] /\ given[n].status = "verified_complete"
      BY <2>4, <2>5, <2>10 DEF Status
    <3>2. \A key \in KnownIn(tasks') : key.node = n => VerifiedIn(tasks', key)
      BY <1>3, <2>3, <2>5, <3>1, VerifiedStays
    <3>3. (n \in repaired' /\ def[n].type # "operation") \/ Whole(run'.nodes[n], Plan(n))
      <4>1. CASE Status(n) = "verified_complete"
        <5>1. (n \in repaired /\ def[n].type # "operation") \/ Whole(run.nodes[n], Plan(n))
          BY <4>1 DEF TaskInv, CompleteInv
        <5> QED
          BY <2>3, <2>5, <2>9, <3>1, <4>1, <5>1
      <4>2. CASE Status(n) # "verified_complete"
        BY <2>3, <2>5, <2>9, <2>10, <3>1, <4>2
      <4> QED
        BY <4>1, <4>2
    <3> QED
      BY <1>1, <1>2, <3>2, <3>3
  <2>11. ASSUME NEW n \in Steps \cap repaired' PROVE Status(n)' = "verified_complete"
    <3>1. CASE n \in repaired
      <4>1. Status(n) = "verified_complete"
        BY <3>1 DEF TaskInv, CompleteInv
      <4> QED
        BY <2>3, <2>4, <2>5, <4>1 DEF Status
    <3>2. CASE n \notin repaired
      BY <2>5, <2>9, <3>2
    <3> QED
      BY <3>1, <3>2
  <2>12. CompleteInv'
    BY <1>1, <2>8, <2>10, <2>11, CompleteAgain
  <2> QED
    BY <2>6, <2>7, <2>12 DEF TaskInv
<1>6. \/ UNCHANGED <<run, repaired>>
      \/ \E choice \in Picks :
            /\ run'.nodes = SkipUnused(RecoveredNodes(choice))
            /\ repaired' = repaired \cup
                  {n \in DOMAIN def : /\ SkipUnused(RecoveredNodes(choice))[n].status =
                                            "verified_complete"
                                      /\ run.nodes[n].status # "verified_complete"}
    BY RecoverRunMeans
<1> QED
    BY <1>4, <1>5, <1>6

\* Every step keeps the tasks in order, as long as predicates answer as before.
LEMMA TasksKept ==
    ASSUME TypeInv, SagaInv, TaskInv, "change" \notin faults, [Next]_vars
    PROVE  TaskInv'
<1>1. FormInv
    BY DEF SagaInv
<1>2. CASE Advance
    BY <1>2, AdvanceTasks
<1>3. CASE Gather
    BY <1>3, GatherTasks
<1>4. CASE UndoNext
    BY <1>4, UndoTasks
<1>5. CASE Commit
    BY <1>5, CommitTasks
<1>6. CASE Halt \/ Resume \/ Cancel
    BY <1>6, MovedTasks
<1>7. CASE Change
    BY <1>7 DEF Change, MayFault
<1>8. CASE Die \/ RecoverTasks
    BY <1>8, QuietTasks
<1>9. CASE RecoverRun
    BY <1>9, RecoverRunTasks
<1>10. ASSUME NEW j \in jobs, NEW i \in DOMAIN j.states,
              StartRequest(j, i) \/ Throw(j, i) \/ Answer(j, i)
       PROVE  TaskInv'
    BY <1>1, <1>10, RequestTasks, ThrowTasks
<1>11. CASE UNCHANGED vars
    BY <1>11, StillTasks
<1> QED
    BY <1>2, <1>3, <1>4, <1>5, <1>6, <1>7, <1>8, <1>9, <1>10, <1>11 DEF Next

LEMMA TasksBegin ==
    ASSUME Init
    PROVE  TaskInv
<1>1. TypeInv /\ SagaInv
    BY TypesBegin, SagaBegins
<1>2. /\ tasks = <<>> /\ wave = NoWave /\ jobs = {} /\ repaired = {}
      /\ \A n \in DOMAIN def : run.nodes[n] = NodeState("pending", <<>>, 0)
    BY DEF Init
<1>3. wave.phase = "none" /\ DOMAIN wave.results = {}
    BY <1>2 DEF NoWave
<1>4. DOMAIN tasks = {} /\ KnownIn(tasks) = {}
    BY <1>2 DEF KnownIn
<1>5. \A n \in DOMAIN def : /\ run.nodes[n].status = "pending" /\ run.nodes[n].ids = <<>>
                            /\ run.nodes[n].iterations = 0
    BY <1>2 DEF NodeState
<1>6. ASSUME NEW n \in DOMAIN def PROVE Sound(run.nodes[n], Plan(n), tasks)
  <2> DEFINE p == Plan(n)
  <2>1. PlanForm(p) /\ p.goal \in Nat /\ p.size \in Nat
    BY <1>1, PlanFacts DEF TypeInv, PlanForm
  <2>2. p.size # 0 => 0 < p.goal
    <3>1. CASE p.size # 0
      <4>1. PICK turns \in Nat \ {0} : p.goal = turns * p.size
        BY <2>1, <3>1 DEF PlanForm
      <4> HIDE DEF p
      <4> QED
        BY ONLY <2>1, <3>1, <4>1
    <3> QED
      BY <3>1
  <2> HIDE DEF p
  <2>3. 0 * p.size = 0 /\ 1..0 = {} /\ Len(<<>>) = 0 /\ DOMAIN <<>> = {} /\ 0 <= p.goal
    BY <2>1
  <2>4. Sound(run.nodes[n], p, tasks)
    BY <1>5, <2>2, <2>3 DEF Sound
  <2> QED
    BY <2>4 DEF p
<1>7. RecordsInv
    BY <1>2, <1>3, <1>6 DEF RecordsInv
<1>8. KnownInv
    BY <1>4 DEF KnownInv
<1>9. CompleteInv
  <2>1. \A n \in DOMAIN def : Status(n) # "verified_complete"
    BY <1>5 DEF Status
  <2> QED
    BY <1>2, <2>1 DEF CompleteInv, Steps, Required
<1> QED
    BY <1>7, <1>8, <1>9 DEF TaskInv

-----------------------------------------------------------------------------
(* Deaths.  Recovery reads the nodes off their tasks; so that it completes them in *)
(* their order, whatever has a task, or is worked on by jobs that nobody waits for, *)
(* has what it depends on.                                                        *)

MetInv == Supported /\ "death" \in faults =>
              /\ \A j \in jobs : Met(j.node)
              /\ \A id \in DOMAIN tasks : Met(tasks[id].key.node)

\* The process is down only if it may die, and a run is complete only if its nodes are.
EndInv == /\ mode # "serving" => "death" \in faults
          /\ run.status = "verified_complete" => \A n \in Required : Status(n) = "verified_complete"

RunInv == /\ SagaInv /\ TypeInv /\ MetInv /\ EndInv
          /\ "change" \notin faults => TaskInv

\* What a run that is complete by its nodes requires.
LEMMA CompleteMeans ==
    ASSUME NEW nodes, \A n \in Required : Fits(n, nodes[n].status),
           DeriveStatus(nodes) = "verified_complete"
    PROVE  \A n \in Required : nodes[n].status = "verified_complete"
BY DerivedFacts DEF Fits, DoneStatus

\* What steps leave alone.
LEMMA StepsFrame ==
    ASSUME [Next]_vars
    PROVE  /\ UNCHANGED <<def, faults>>
           /\ mode' = "serving" \/ mode # "serving" \/ UNCHANGED mode \/ "death" \in faults
           /\ UNCHANGED run \/ Halt \/ Resume \/ Cancel \/ Commit \/ RecoverRun
<1>1. CASE Advance
    BY <1>1 DEF Advance
<1>2. CASE Gather
    BY <1>2 DEF Gather
<1>3. CASE UndoNext
    BY <1>3 DEF UndoNext
<1>4. CASE Commit
    BY <1>4 DEF Commit
<1>5. CASE Halt
    BY <1>5 DEF Halt
<1>6. CASE Resume
    BY <1>6 DEF Resume
<1>7. CASE Cancel
    BY <1>7 DEF Cancel
<1>8. CASE Change
    BY <1>8 DEF Change
<1>9. CASE Die
    BY <1>9 DEF Die, MayFault
<1>10. CASE RecoverTasks
    BY <1>10 DEF RecoverTasks
<1>11. CASE RecoverRun
    BY <1>11 DEF RecoverRun
<1>12. ASSUME NEW j \in jobs, NEW i, StartRequest(j, i) \/ Throw(j, i) \/ Answer(j, i)
      PROVE  UNCHANGED <<def, faults, mode, run>>
    BY <1>12 DEF StartRequest, Throw, Answer
<1>13. CASE UNCHANGED vars
    BY <1>13 DEF vars
<1> QED
    BY <1>1, <1>2, <1>3, <1>4, <1>5, <1>6, <1>7, <1>8, <1>9, <1>10, <1>11, <1>12, <1>13 DEF Next

LEMMA EndKept ==
    ASSUME SagaInv, TypeInv, EndInv, [Next]_vars
    PROVE  EndInv'
<1>1. mode' # "serving" => "death" \in faults'
    BY StepsFrame DEF EndInv
<1>2. UNCHANGED def
    BY StepsFrame
<1>3. Required' = Required /\ Required \subseteq DOMAIN def
    BY <1>2 DEF Required
<1>4. RunForm
    BY DEF SagaInv, FormInv
<1>5. CASE UNCHANGED run
    BY <1>1, <1>3, <1>5 DEF EndInv, Status
<1>6. CASE Halt \/ Resume \/ Cancel
  <2>1. run'.status # "verified_complete"
    <3>1. CASE Halt
      BY <1>4, <3>1 DEF Halt, RunForm
    <3>2. CASE Resume
      <4>1. PICK s \in {"awaiting_approval", "awaiting_input", "running"} :
               run' = [run EXCEPT !.status = s]
        BY <3>2 DEF Resume
      <4> QED
        BY <1>4, <4>1 DEF RunForm
    <3>3. CASE Cancel
      BY <3>3 DEF Cancel
    <3> QED
      BY <1>6, <3>1, <3>2, <3>3
  <2> QED
    BY <1>1, <2>1 DEF EndInv
<1>7. ASSUME NEW given, DOMAIN given = DOMAIN def,
             \A n \in DOMAIN def : NodeForm(given[n]) /\ Fits(n, given[n].status),
             run'.nodes = SkipUnused(given), run'.status = DeriveStatus(SkipUnused(given))
      PROVE  EndInv'
  <2> DEFINE nodes == SkipUnused(given)
  <2>1. \A n \in Required : Fits(n, nodes[n].status)
    BY <1>3, <1>7, SkipFacts
  <2> HIDE DEF nodes
  <2>2. run'.status = "verified_complete" =>
           \A n \in Required : run'.nodes[n].status = "verified_complete"
    BY <1>7, <2>1, CompleteMeans DEF nodes
  <2> QED
    BY <1>1, <1>3, <2>2 DEF EndInv, Status
<1>8. CASE Commit
  <2>1. /\ UNCHANGED run \/ (/\ run'.nodes = SkipUnused(Merged)
                             /\ run'.status = DeriveStatus(SkipUnused(Merged)))
        /\ DOMAIN Merged = DOMAIN def
        /\ \A n \in DOMAIN def : /\ NodeForm(Merged[n])
                                 /\ n \in DOMAIN wave.results => Merged[n] = wave.results[n]
                                 /\ n \notin DOMAIN wave.results => Merged[n] = run.nodes[n]
    BY <1>8, CommitMeans
  <2>2. \A n \in DOMAIN def : Fits(n, Merged[n].status)
    BY <1>4, <2>1 DEF RunForm, Status, SagaInv, FormInv, WaveForm
  <2> QED
    BY <1>5, <1>7, <2>1, <2>2
<1>9. CASE RecoverRun
  <2>1. \/ UNCHANGED run
        \/ \E choice \in Picks :
              /\ run'.nodes = SkipUnused(RecoveredNodes(choice))
              /\ run'.status = DeriveStatus(SkipUnused(RecoveredNodes(choice)))
    BY <1>9, RecoverRunMeans
  <2>2. ASSUME NEW choice \in Picks
        PROVE  /\ DOMAIN RecoveredNodes(choice) = DOMAIN def
               /\ \A n \in DOMAIN def : /\ NodeForm(RecoveredNodes(choice)[n])
                                        /\ Fits(n, RecoveredNodes(choice)[n].status)
    BY RecoveredFacts, ChosenFacts DEF RecoveredNodes, SagaInv
  <2> QED
    BY <1>5, <1>7, <2>1, <2>2
<1> QED
    BY <1>5, <1>6, <1>8, <1>9, StepsFrame

\* Where a saga moves, steps that are done stay done.
LEMMA SagaGrows ==
    ASSUME UNCHANGED <<def, faults>>, SagaStep
    PROVE  \A n \in Required : def[n].type # "approval" /\ Status(n) = "verified_complete" =>
               Status(n)' = "verified_complete"
<1> DEFINE Done == {n \in Required : /\ def[n].type # "approval"
                                     /\ run.nodes[n].status = "verified_complete"}
<1>1. Required' = Required
    BY DEF Required
<1>2. Done \subseteq Done'
  <2>1. CASE Workflow!Work
    BY <2>1 DEF Workflow!Work, Workflow!Progress
  <2>2. CASE Workflow!Undo
    BY <2>2 DEF Workflow!Undo
  <2>3. CASE Workflow!Abandon
    BY <2>3 DEF Workflow!Abandon
  <2>4. CASE UNCHANGED Workflow!sagaVars
    BY <2>4 DEF Workflow!sagaVars
  <2> QED
    BY <2>1, <2>2, <2>3, <2>4 DEF SagaStep, Workflow!SagaNext
<1> QED
    BY <1>1, <1>2 DEF Status

LEMMA MetGrows ==
    ASSUME UNCHANGED <<def, faults>>,
           \A n \in Required : def[n].type # "approval" /\ Status(n) = "verified_complete" =>
               Status(n)' = "verified_complete"
    PROVE  \A n : Met(n) => Met(n)'
BY SamePlan DEF Met

\* An operation is met with its approval.
LEMMA MetTogether ==
    ASSUME PlainInv, NEW n \in DOMAIN def
    PROVE  Met(n) <=> Met(Target(n))
<1>1. Target(Target(n)) = Target(n)
    BY SharedLine DEF Target
<1> QED
    BY <1>1 DEF Met

\* The nodes, if the process may die and the order is promised.
LEMMA AllPromised ==
    ASSUME def \in Definitions, Supported, "death" \in faults, NEW n \in DOMAIN def
    PROVE  Promised(n) /\ n \in Required
<1>1. n \in Required
    BY DEF Supported, Compensations
<1> QED
    BY <1>1 DEF Promised

\* A node that recovery finds tasks of has what it depends on.
LEMMA RecoveredMet ==
    ASSUME TypeInv, TaskInv, MetInv, Supported, "death" \in faults, NEW n \in DOMAIN def,
           NEW choice \in Picks, Chosen(n, choice) # <<>>
    PROVE  Met(n)
<1> DEFINE ids == Chosen(n, choice)
<1>1. PICK high \in 0..Plan(n).goal :
         /\ Len(KeysToRecover(n)) = high
         /\ \A i \in 1..high : KeysToRecover(n)[i] = Plan(n).line[i]
    BY KeysFound DEF TaskInv
<1>2. /\ ids \in Seq(1..Len(tasks)) /\ Len(ids) = high
      /\ \A i \in 1..high : tasks[ids[i]].key = Plan(n).line[i]
    BY <1>1, ChosenFacts
<1>3. /\ Plan(n).goal \in 0..Len(Plan(n).line) /\ Len(Plan(n).line) \in Nat
      /\ \A i \in 1..Len(Plan(n).line) : Plan(n).line[i].node = Target(n)
    BY PlanFacts DEF TypeInv, PlanForm
<1> HIDE DEF ids
<1>4. high # 0 /\ DOMAIN ids = 1..high
    BY <1>2 DEF ids
<1>5. 1 \in 1..high /\ 1 \in 1..Len(Plan(n).line)
    BY <1>1, <1>3, <1>4
<1>6. ids[1] \in DOMAIN tasks
  <2> DEFINE S == 1..Len(tasks)
  <2>1. ids \in Seq(S) /\ DOMAIN tasks = S
    BY <1>2 DEF TypeInv
  <2> HIDE DEF S
  <2> QED
    BY ONLY <1>4, <1>5, <2>1
<1>7. tasks[ids[1]].key.node = Target(n)
    BY <1>2, <1>3, <1>5
<1>8. Met(Target(n))
    BY <1>6, <1>7 DEF MetInv
<1> QED
    BY <1>8, MetTogether DEF TypeInv

\* The recovery of the run.
LEMMA RecoverRunStep ==
    ASSUME RunInv, RecoverRun
    PROVE  SagaInv' /\ (Supported => SagaStep)
<1>1. /\ SagaInv /\ TypeInv /\ FormInv /\ MetInv /\ "death" \in faults
      /\ Supported => TaskInv /\ Compensations = {}
    BY RecoverRunMeans DEF RunInv, SagaInv, EndInv, Supported
<1>2. /\ UNCHANGED <<def, faults, tasks>> /\ mode' = "serving"
      /\ wave' = NoWave /\ jobs' = {} /\ def' \in Definitions
    BY <1>1, RecoverRunMeans DEF SagaInv, WaveInv, FormInv
<1>3. RunForm /\ RunOrder /\ def \in Definitions
    BY <1>1 DEF SagaInv, FormInv, OrderInv
<1>4. CASE /\ UNCHANGED run
           /\ lost' = lost \cup {n \in DOMAIN def : run.nodes[n].status \notin DoneStatus}
  <2>1. SagaInv'
    BY <1>2, <1>3, <1>4, SameRun, IdleKeeps
  <2>2. SagaStep
    <3> DEFINE gone == {n \in DOMAIN def : run.nodes[n].status \notin DoneStatus}
    <3>1. \A n \in gone : Status(n) # "compensated"
      BY DEF Status, DoneStatus
    <3>2. lost' = lost \cup gone
      BY <1>4
    <3> HIDE DEF gone
    <3> QED
      BY <1>2, <1>4, <3>1, <3>2, LossStutters
  <2> QED
    BY <2>1, <2>2
<1>5. ASSUME NEW choice \in Picks, NEW nodes, nodes = SkipUnused(RecoveredNodes(choice)),
             run' = [status |-> DeriveStatus(nodes), nodes |-> nodes,
                     error |-> DeriveStatus(nodes) = "recovery_required"],
             UNCHANGED lost, run.status \notin Ended \cup {"failed"}
      PROVE  SagaInv' /\ (Supported => SagaStep)
  <2> DEFINE given == RecoveredNodes(choice)
  <2>1. /\ DOMAIN given = DOMAIN def
        /\ \A n \in DOMAIN def : given[n] = RecoveredState(n, Chosen(n, choice))
    BY DEF RecoveredNodes
  <2>2. \A n \in DOMAIN def : /\ Chosen(n, choice) \in Seq(1..Len(tasks))
                              /\ NodeForm(given[n]) /\ Fits(n, given[n].status)
                              /\ Chosen(n, choice) = <<>> => given[n] = run.nodes[n]
    BY <1>1, <2>1, RecoveredFacts, ChosenFacts
  <2> HIDE DEF given
  <2>3. /\ DOMAIN nodes = DOMAIN def
        /\ \A n \in DOMAIN def : NodeForm(nodes[n]) /\ Fits(n, nodes[n].status)
        /\ \A n \in Required : nodes[n] = given[n]
    BY <1>5, <2>1, <2>2, SkipFacts DEF given
  <2>4. /\ DOMAIN run' = {"status", "error", "nodes"} /\ run'.status = DeriveStatus(nodes)
        /\ run'.nodes = nodes
    BY ONLY <1>5
  <2>5. /\ run'.status = "failed" <=> \E n \in Required : nodes[n].status = "failed"
        /\ run'.status \in RunStatus \ {"planned", "paused", "cancelled"}
        /\ run'.status = "verified_complete" => \A n \in Required : nodes[n].status \in DoneStatus
    BY <2>4, DerivedFacts
  <2>6. RunForm'
    BY <1>2, <2>3, <2>4, <2>5, SamePlan DEF RunForm, Status, Fits
  <2>7. Required' = Required /\ Required \subseteq DOMAIN def
    BY <1>2 DEF Required
  <2>8. Supported => \A n \in Required : def[n].type # "approval" /\ Status(n) = "verified_complete" =>
           Status(n)' = "verified_complete"
    <3> SUFFICES ASSUME Supported, NEW n \in Required, def[n].type # "approval",
                        Status(n) = "verified_complete"
                 PROVE  Status(n)' = "verified_complete"
      OBVIOUS
    <3>1. n \in Steps /\ n \in DOMAIN def
      BY <2>7 DEF Steps
    <3>2. given[n].status = "verified_complete"
      BY <1>1, <2>1, <3>1, RecoveredTasks
    <3> QED
      BY <2>3, <2>4, <3>2 DEF Status
  <2>9. Supported => \A n \in Required : nodes[n].status = Status(n) \/ Met(n)
    <3> SUFFICES ASSUME Supported, NEW n \in Required PROVE nodes[n].status = Status(n) \/ Met(n)
      OBVIOUS
    <3>1. CASE Chosen(n, choice) = <<>>
      BY <2>2, <2>3, <2>7, <3>1 DEF Status
    <3>2. CASE Chosen(n, choice) # <<>>
      BY <1>1, <2>7, <3>2, RecoveredMet
    <3> QED
      BY <3>1, <3>2
  <2>10. RunOrder'
    <3>1. run'.status = "failed" => \E n \in Required' : Status(n)' = "failed"
      BY <2>4, <2>5, <2>7 DEF Status
    <3>2. ASSUME NEW n \in Required, Promised(n), Status(n)' \notin {"pending", "cancelled"}
          PROVE  Met(n)'
      <4>1. Supported /\ Status(n)' = nodes[n].status
        BY <2>4, <3>2 DEF Promised, Status
      <4>2. Met(n)
        BY <1>3, <2>9, <3>2, <4>1 DEF RunOrder
      <4> QED
        BY <1>2, <2>8, <4>1, <4>2, MetGrows
    <3> QED
      BY <1>2, <2>7, <3>1, <3>2, SamePlan DEF RunOrder
  <2>11. SagaInv'
    BY <1>2, <2>6, <2>10, IdleKeeps
  <2>12. ASSUME Supported PROVE SagaStep
    <3>1. Compensations = {}
      BY <1>1, <2>12
    <3>2. \A n \in Required : Status(n)' = "verified_complete" =>
             Status(n) = "verified_complete" \/ def[n].type = "approval" \/ Met(n)
      BY <2>4, <2>9, <2>12 DEF Status
    <3>3. run'.status = "verified_complete" => \A n \in Required : Status(n)' = "verified_complete"
      BY <2>3, <2>4, <2>5, <2>7 DEF Status, Fits, DoneStatus
    <3>4. run'.status # "cancelled"
      BY <2>5
    <3> QED
      BY <1>2, <1>3, <1>5, <2>8, <2>12, <3>1, <3>2, <3>3, <3>4, WorkMoves
  <2> QED
    BY <2>11, <2>12
<1>6. \/ /\ UNCHANGED run
         /\ lost' = lost \cup {n \in DOMAIN def : run.nodes[n].status \notin DoneStatus}
      \/ /\ run.status \notin Ended \cup {"failed"} /\ UNCHANGED lost
         /\ \E choice \in Picks :
               LET nodes == SkipUnused(RecoveredNodes(choice))
               IN run' = [status |-> DeriveStatus(nodes), nodes |-> nodes,
                          error |-> DeriveStatus(nodes) = "recovery_required"]
    BY RecoverRunMeans DEF Ended
<1> QED
    BY <1>4, <1>5, <1>6

\* Jobs are of nodes that a wave begins with, or that had jobs.
LEMMA JobsOrigin ==
    ASSUME TypeInv, SagaInv, [Next]_vars, NEW j \in jobs'
    PROVE  j.alive \/ (\E old \in jobs : old.node = j.node) \/ j.node \in WaveOf(run)
<1>1. \A k \in jobs : JobForm(k)
    BY DEF SagaInv, FormInv
<1> DEFINE Fine(k) == k.alive \/ (\E old \in jobs : old.node = k.node) \/ k.node \in WaveOf(run)
<1>2. ASSUME NEW still, NEW nodes, Reject(nodes, still),
             \A k \in still : JobForm(k) /\ (k \in jobs \/ k.node \in WaveOf(run))
      PROVE  Fine(j)
  <2>1. PICK k \in still : j = [k EXCEPT !.alive = FALSE]
    BY <1>2 DEF Reject
  <2>2. j.node = k.node
    BY <1>2, <2>1 DEF JobForm
  <2> QED
    BY <1>2, <2>2
<1>3. CASE Advance
  <2> DEFINE nodes == WaveOf(run)
  <2>1. PICK begin \in [nodes -> UNION {Jobs(n) : n \in nodes}] :
           /\ \A n \in nodes : begin[n] \in Jobs(n)
           /\ LET started == {begin[n] : n \in nodes}
              IN \/ Reject(nodes, jobs \cup started)
                 \/ jobs' = jobs \cup started
    BY <1>3, Zenon DEF Advance
  <2> DEFINE started == {begin[n] : n \in nodes}
  <2>2. \A k \in started : JobForm(k) /\ k.node \in nodes /\ k.alive
    <3> SUFFICES ASSUME NEW n \in nodes PROVE JobForm(begin[n]) /\ begin[n].node \in nodes /\ begin[n].alive
      OBVIOUS
    <3>1. n \in DOMAIN def /\ begin[n] \in Jobs(n)
      BY <2>1, WaveFacts
    <3> QED
      BY <3>1, JobFacts
  <2>3. CASE Reject(nodes, jobs \cup started)
    <3> HIDE DEF started
    <3>1. \A k \in jobs \cup started : JobForm(k) /\ (k \in jobs \/ k.node \in WaveOf(run))
      BY <1>1, <2>2
    <3> QED
      BY <1>2, <2>3, <3>1
  <2>4. CASE jobs' = jobs \cup started
    <3> HIDE DEF started
    <3> QED
      BY <2>2, <2>4
  <2> QED
    BY <2>1, <2>3, <2>4
<1>4. CASE UndoNext
  <2>1. j \in jobs \/ j = [Job(Head(wave.undo), 1, "none") EXCEPT
                             !.ids = <<SomeId(wave.base[Head(wave.undo)].ids, 1)>>]
    BY <1>4, UndoMeans
  <2>2. CASE j \notin jobs
    <3> DEFINE made == Job(Head(wave.undo), 1, "none")
    <3>1. DOMAIN made = {"node", "keys", "answer", "alive", "ids", "states"} /\ made.alive
      BY DEF Job
    <3>2. \E list : j = [made EXCEPT !.ids = list]
      BY <2>1, <2>2
    <3> HIDE DEF made
    <3>3. j.alive
      BY ONLY <3>1, <3>2
    <3> QED
      BY <3>3
  <2> QED
    BY <2>2
<1>5. ASSUME NEW k \in jobs, NEW i, Throw(k, i)
      PROVE  Fine(j)
  <2>1. PICK nodes : Reject(nodes, jobs \ {k})
    BY <1>5 DEF Throw
  <2> QED
    BY <1>1, <1>2, <2>1
<1>6. ASSUME NEW k \in jobs, NEW i \in DOMAIN k.states, StartRequest(k, i) \/ Answer(k, i)
      PROVE  Fine(j)
  <2>1. PICK next : Replace(k, next) /\ next.node = k.node
    BY <1>6, RequestMeans DEF Became, SagaInv
  <2>2. j \in jobs \/ j = next
    BY <2>1 DEF Replace
  <2> QED
    BY <2>1, <2>2
<1>7. CASE jobs' \subseteq jobs
    BY <1>7
<1>8. CASE Gather \/ Commit \/ Halt \/ Resume \/ Cancel \/ Change \/ Die \/ RecoverTasks \/ RecoverRun
           \/ UNCHANGED vars
  <2>1. jobs' \subseteq jobs
    <3>1. CASE Gather
      BY <3>1 DEF Gather
    <3>2. CASE Commit \/ Halt \/ Resume \/ Cancel
      BY <3>2 DEF Commit, Halt, Resume, Cancel
    <3>3. CASE Change \/ Die \/ RecoverTasks \/ RecoverRun \/ UNCHANGED vars
      BY <3>3 DEF Change, Die, RecoverTasks, RecoverRun, vars
    <3> QED
      BY <1>8, <3>1, <3>2, <3>3
  <2> QED
    BY <1>7, <2>1
<1> QED
    BY <1>3, <1>4, <1>5, <1>6, <1>8 DEF Next

\* Tasks are those there were, or one that a job has planned.
LEMMA TasksOrigin ==
    ASSUME TypeInv, SagaInv, TaskInv, [Next]_vars, NEW id \in DOMAIN tasks'
    PROVE  \/ id \in DOMAIN tasks /\ tasks'[id].key = tasks[id].key
           \/ \E j \in jobs : tasks'[id].key.node = Target(j.node)
<1>1. DOMAIN tasks = 1..Len(tasks) /\ Len(tasks) \in Nat
    BY DEF TypeInv
<1>2. ASSUME NEW j \in jobs, NEW i \in DOMAIN j.states, StartRequest(j, i) \/ Answer(j, i)
      PROVE  \/ id \in DOMAIN tasks /\ tasks'[id].key = tasks[id].key
             \/ \E k \in jobs : tasks'[id].key.node = Target(k.node)
  <2>1. PICK t, st, next : Asked(j, i, t, st)
    BY <1>2, RequestMeans DEF SagaInv
  <2>2. DOMAIN tasks' = 1..Len(tasks')
    BY <2>1 DEF Asked
  <2>3. CASE id \in 1..Len(tasks)
    BY <1>1, <2>1, <2>3 DEF Asked
  <2>4. CASE id \notin 1..Len(tasks)
    <3>1. /\ Len(tasks') = IF SomeId(j.ids, i) = 0 THEN Len(tasks) + 1 ELSE Len(tasks)
          /\ t = IF SomeId(j.ids, i) = 0 THEN Len(tasks) + 1 ELSE j.ids[i]
          /\ SomeId(j.ids, i) = 0 => tasks'[t].key = j.keys[i]
      BY <2>1 DEF Asked
    <3>2. SomeId(j.ids, i) = 0 /\ id = Len(tasks) + 1
      <4> DEFINE L == Len(tasks)  M == Len(tasks')
      <4>1. id \in 1..M /\ L \in Nat /\ id \notin 1..L /\ (M = L \/ (M = L + 1 /\ SomeId(j.ids, i) = 0))
        BY <1>1, <2>2, <2>4, <3>1
      <4> HIDE DEF L, M
      <4>2. SomeId(j.ids, i) = 0 /\ id = L + 1
        BY ONLY <4>1
      <4> QED
        BY <4>2 DEF L
    <3>3. tasks'[id].key = j.keys[i]
      BY <3>1, <3>2
    <3>4. /\ j.node \in DOMAIN def /\ JobSound(j, Plan(j.node), tasks)
          /\ i \in DOMAIN j.keys /\ Len(j.keys) <= Len(Plan(j.node).line)
          /\ PlanForm(Plan(j.node))
      <4>1. j.node \in DOMAIN def /\ JobSound(j, Plan(j.node), tasks)
        BY DEF SagaInv, FormInv, JobForm, TaskInv, RecordsInv
      <4>2. i \in DOMAIN j.keys
        BY DEF TypeInv, JobsInv, JobsTyped, JobTyped
      <4>3. PlanForm(Plan(j.node))
        BY <4>1, PlanFacts DEF TypeInv
      <4> QED
        BY <4>1, <4>2, <4>3 DEF JobSound, PlanForm
    <3>5. j.keys[i] = Plan(j.node).line[i]
      BY <3>4 DEF JobSound
    <3>6. i \in 1..Len(Plan(j.node).line)
      <4>1. j.keys \in Seq(AllKeys)
        BY DEF TypeInv, JobsInv, JobsTyped, JobTyped
      <4> DEFINE L == Len(Plan(j.node).line)
      <4>2. L \in Nat /\ Len(j.keys) <= L
        BY <3>4 DEF PlanForm
      <4> HIDE DEF L
      <4>3. i \in 1..L
        BY ONLY <3>4, <4>1, <4>2
      <4> QED
        BY <4>3 DEF L
    <3>7. Plan(j.node).line[i].node = Target(j.node)
      BY <3>4, <3>6, PlanFacts DEF TypeInv
    <3> QED
      BY <3>3, <3>5, <3>7
  <2> QED
    BY <2>3, <2>4
<1>3. CASE UNCHANGED tasks
    BY <1>3
<1>4. CASE Cancel
    <2>1. PICK ids : tasks' = [t \in DOMAIN tasks |->
                          IF t \in ids /\ tasks[t].status \in {"planned", "awaiting_approval"}
                          THEN [tasks[t] EXCEPT !.status = "cancelled"] ELSE tasks[t]]
      BY <1>4 DEF Cancel
    <2>2. id \in DOMAIN tasks /\ tasks[id] \in TaskRecord
      BY <1>1, <2>1 DEF TypeInv
    <2>3. tasks'[id] \in {[tasks[id] EXCEPT !.status = "cancelled"], tasks[id]}
      BY <2>1, <2>2
    <2>4. tasks'[id].key = tasks[id].key
      BY ONLY <2>2, <2>3 DEF TaskRecord
    <2> QED
      BY <2>2, <2>4
<1>5. CASE Die \/ RecoverTasks
  <2>1. /\ tasks' \in Seq(TaskRecord) /\ Len(tasks') = Len(tasks)
        /\ \A t \in 1..Len(tasks) : tasks'[t].key = tasks[t].key
    BY <1>5, DieMeans, RecoverTasksMeans
  <2>2. DOMAIN tasks' = 1..Len(tasks)
    BY <2>1
  <2> QED
    BY <1>1, <2>1, <2>2
<1>6. ASSUME NEW j \in jobs, NEW i, Throw(j, i) PROVE UNCHANGED tasks
    BY <1>6 DEF Throw
<1>7. CASE Advance \/ Gather \/ UndoNext \/ Commit \/ Halt \/ Resume \/ Change \/ RecoverRun
           \/ UNCHANGED vars
  <2>1. UNCHANGED tasks
    <3>1. CASE Advance \/ Gather \/ UndoNext
      BY <3>1 DEF Advance, Gather, UndoNext
    <3>2. CASE Commit \/ Halt \/ Resume
      BY <3>2 DEF Commit, Halt, Resume
    <3>3. CASE Change \/ RecoverRun \/ UNCHANGED vars
      BY <3>3 DEF Change, RecoverRun, vars
    <3> QED
      BY <1>7, <3>1, <3>2, <3>3
  <2> QED
    BY <1>3, <2>1
<1> QED
    BY <1>2, <1>3, <1>4, <1>5, <1>6, <1>7 DEF Next

LEMMA MetKept ==
    ASSUME RunInv, [Next]_vars, SagaInv', Supported => SagaStep
    PROVE  MetInv'
<1>1. UNCHANGED <<def, faults>>
    BY StepsFrame
<1> SUFFICES ASSUME Supported, "death" \in faults
             PROVE  /\ \A j \in jobs' : Met(j.node)'
                    /\ (\A id \in DOMAIN tasks : Met(tasks[id].key.node))'
    BY <1>1, SamePlan DEF MetInv
<1>2. SagaInv /\ TypeInv /\ TaskInv /\ MetInv /\ def \in Definitions
    BY DEF RunInv, Supported, SagaInv, FormInv
<1>3. \A n : Met(n) => Met(n)'
    BY <1>1, SagaGrows, MetGrows
<1>4. \A n \in DOMAIN def : Promised(n)
    BY <1>2, AllPromised
<1>5. ASSUME NEW j \in jobs' PROVE Met(j.node)'
  <2>1. j.node \in DOMAIN def
    BY <1>1 DEF SagaInv, FormInv, JobForm
  <2>2. CASE j.alive
    <3>1. Promised(j.node)'
      BY <1>1, <1>4, <2>1, SamePlan
    <3> QED
      BY <2>2, <3>1 DEF SagaInv, OrderInv
  <2>3. CASE \E old \in jobs : old.node = j.node
    BY <1>2, <1>3, <2>3 DEF MetInv
  <2>4. CASE j.node \in WaveOf(run)
    <3>1. Met(j.node)
      BY <1>2, <1>4, <2>1, <2>4, WaveFacts
    <3> QED
      BY <1>3, <3>1
  <2> QED
    BY <1>2, <2>2, <2>3, <2>4, JobsOrigin
<1>6. ASSUME NEW id \in DOMAIN tasks', NEW n, n = tasks'[id].key.node PROVE Met(n)'
  <2>1. CASE id \in DOMAIN tasks /\ tasks'[id].key = tasks[id].key
    <3>1. Met(n)
      BY <1>2, <1>6, <2>1 DEF MetInv
    <3> QED
      BY <1>3, <3>1
  <2>2. CASE \E j \in jobs : tasks'[id].key.node = Target(j.node)
    <3>1. PICK j \in jobs : tasks'[id].key.node = Target(j.node)
      BY <2>2
    <3>2. j.node \in DOMAIN def /\ Met(j.node)
      BY <1>2 DEF SagaInv, FormInv, JobForm, MetInv
    <3>3. Met(Target(j.node))
      BY <1>2, <3>2, MetTogether DEF TypeInv
    <3> QED
      BY <1>3, <1>6, <3>1, <3>3
  <2> QED
    BY <1>2, <2>1, <2>2, TasksOrigin
<1>7. ASSUME NEW id \in DOMAIN tasks', NEW n, n = tasks'[id].key.node, Met(n)'
      PROVE  (Met(tasks[id].key.node))'
    BY <1>7 DEF Met, Target, Status, Dependencies
<1>8. ASSUME NEW id \in DOMAIN tasks' PROVE (Met(tasks[id].key.node))'
  <2>1. PICK n : n = tasks'[id].key.node
    OBVIOUS
  <2> QED
    BY <1>6, <1>7, <2>1
<1> QED
    BY <1>5, <1>8

-----------------------------------------------------------------------------
(* The theorems.                                                              *)

LEMMA RunBegins ==
    ASSUME Init
    PROVE  RunInv
<1>1. SagaInv /\ TypeInv /\ TaskInv
    BY SagaBegins, TypesBegin, TasksBegin
<1>2. mode = "serving" /\ run.status = "planned" /\ jobs = {} /\ DOMAIN tasks = {}
    BY DEF Init
<1> QED
    BY <1>1, <1>2 DEF RunInv, MetInv, EndInv

LEMMA RunKept ==
    ASSUME RunInv, [Next]_vars
    PROVE  RunInv' /\ (Supported => SagaStep)
<1>1. SagaInv' /\ (Supported => SagaStep)
    BY SagaKept, RecoverRunStep DEF RunInv
<1>2. TypeInv' /\ EndInv'
    BY TypesKept, EndKept DEF RunInv
<1>3. MetInv'
    BY <1>1, MetKept
<1>4. "change" \notin faults' => TaskInv'
    BY StepsFrame, TasksKept DEF RunInv
<1> QED
    BY <1>1, <1>2, <1>3, <1>4 DEF RunInv

\* The records of the nodes, the tasks and the jobs are what the schemas of
\* packages/protocol say, and name tasks that exist, whatever dies, is halted, throws or
\* changes; a request that is busy is of a task that runs.
THEOREM TypeCorrect == Spec => []TypeOK
<1>1. RunInv => TypeOK
    BY TypesShow DEF RunInv
<1>2. RunInv /\ [Next]_vars => RunInv'
    BY RunKept
<1> QED
    BY RunBegins, <1>1, <1>2, PTL DEF Spec

\* docs/ARCHITECTURE.md:211 "A definition is an immutable, versioned DAG": a run is a saga of
\* its definition, also across deaths of its process, if then predicates answer as before,
\* no operation waits for more than its approval does, and nothing is compensated.
THEOREM SagaSurvives == Spec /\ Supported => IsSaga
<1>1. Init /\ Supported => RunInv /\ Supported /\ Workflow!SagaInit
    BY RunBegins, SagaBegins
<1>2. RunInv /\ Supported /\ [Next]_vars => RunInv' /\ Supported' /\ SagaStep
    BY RunKept, StepsFrame, SamePlan
<1>3. SagaStep => [Workflow!SagaNext]_(Workflow!sagaVars)
    BY DEF SagaStep
<1> QED
    BY <1>1, <1>2, <1>3, PTL DEF Spec, IsSaga, Workflow!SagaSpec

\* A node that is complete, with a task of each of its requests, shows them.
LEMMA WholeShows ==
    ASSUME TypeInv, TaskInv, NEW n \in Steps, Status(n) = "verified_complete",
           Whole(run.nodes[n], Plan(n)), def[n].branches # <<>>
    PROVE  Evidenced(n)
<1> DEFINE p == Plan(n)  line == p.line  goal == p.goal  ids == run.nodes[n].ids
           done == {tasks[ids[i]].key : i \in {i \in DOMAIN ids :
                                                  tasks[ids[i]].status = "verified_success"}}
<1>1. n \in DOMAIN def /\ def[n].type # "approval"
    BY DEF Steps, Required
<1>2. /\ PlanForm(p) /\ p.type = def[n].type /\ line = Slots(n, answers[n])
      /\ line \in Seq(AllKeys) /\ answers[n] \in {1, 2}
      /\ def[n].type # "condition" => line = Slots(n, 1)
      /\ def[n].type = "bounded_loop" => p.size = Size(n)
    BY <1>1, PlanFacts DEF TypeInv
<1>3. Sound(run.nodes[n], p, tasks) /\ ids \in Seq(1..Len(tasks)) /\ Len(ids) = goal
    BY <1>1 DEF TaskInv, RecordsInv, TypeInv, NodesInv, NodeTyped, Typed, Whole
<1>4. goal \in 0..Len(line) /\ Len(line) \in Nat /\ DOMAIN line = 1..Len(line)
    BY <1>2 DEF PlanForm
<1>5. DOMAIN ids = 1..goal
    BY <1>3
<1>6. \A i \in 1..goal : line[i] \in done
    BY <1>1, <1>2, <1>3, <1>5 DEF Sound, Status
<1> HIDE DEF p, line, goal, ids, done
<1>7. CASE def[n].type = "bounded_loop"
  <2> DEFINE turns == run.nodes[n].iterations
  <2>1. p.size # 0 /\ p.size = Size(n) /\ p.size \in Nat /\ Len(line) # 0
    <3>1. p.size # 0 /\ p.size \in Nat /\ p.size = Size(n)
      BY <1>2, <1>7 DEF PlanForm
    <3>2. PICK t \in Nat \ {0} : goal = t * p.size
      BY <1>2, <3>1 DEF PlanForm, goal
    <3>3. goal # 0
      BY ONLY <3>1, <3>2
    <3> QED
      BY ONLY <1>4, <3>1, <3>3
  <2>2. turns * p.size = goal /\ goal # 0 /\ turns \in Nat
    <3>1. turns * p.size = goal
      BY <2>1 DEF Whole, p, goal
    <3>2. goal # 0
      BY <1>2, <2>1 DEF PlanForm, goal, line
    <3>3. turns \in Nat
      BY <1>1 DEF TypeInv, NodesInv, NodeTyped, Typed
    <3> QED
      BY <3>1, <3>2, <3>3
  <2> HIDE DEF turns
  <2>3. turns > 0
    <3>1. CASE turns = 0
      <4>1. 0 * p.size = 0
        BY <2>1
      <4> QED
        BY <2>2, <3>1, <4>1
    <3> QED
      BY ONLY <2>2, <3>1
  <2>4. ToSet(SubSeq(line, 1, goal)) \subseteq done
    <3> DEFINE cut == SubSeq(line, 1, goal)
    <3>1. DOMAIN cut = 1..goal /\ \A i \in 1..goal : cut[i] = line[i]
      BY <1>2, <1>4
    <3> HIDE DEF cut
    <3> QED
      BY <1>6, <3>1 DEF ToSet, cut
  <2>5. Slots(n, 1) = line
    BY <1>2, <1>7
  <2>6. turns * Len(def[n].branches[1]) = goal
    BY <2>1, <2>2 DEF Size
  <2> QED
    BY <1>7, <2>3, <2>4, <2>5, <2>6 DEF Evidenced, turns, done, ids
<1>8. CASE def[n].type # "bounded_loop"
  <2>1. goal = Len(line)
    BY <1>2, <1>8 DEF PlanForm, goal, line
  <2>2. ToSet(line) \subseteq done
    BY <1>4, <1>6, <2>1 DEF ToSet
  <2>3. \/ line = Slots(n, 1)
        \/ def[n].type = "condition" /\ line = Slots(n, 2)
    BY <1>2
  <2> QED
    BY <1>8, <2>2, <2>3 DEF Evidenced, done, ids
<1> QED
    BY <1>7, <1>8

\* Predicates answer as before.
Steady == "change" \notin faults

\* README.md:81 "zero false success": when a run is complete, each of its nodes has a
\* verified task for every request of the way that its predicate chose, or of as many
\* iterations as it chose, also when it was parked, interrupted, halted, rejected and
\* taken up again in any order; only nodes that recovery completed are left out.
THEOREM EvidenceIsComplete == Spec /\ "change" \notin faults => []CompleteIsEvidenced
<1>1. RunInv /\ Steady => CompleteIsEvidenced
  <2> SUFFICES ASSUME RunInv, "change" \notin faults, run.status = "verified_complete",
                      NEW n \in Required \ repaired, def[n].branches # <<>>
               PROVE  Evidenced(n)
    BY DEF CompleteIsEvidenced, Steady
  <2>1. TypeInv /\ TaskInv /\ Status(n) = "verified_complete" /\ n \in DOMAIN def
    BY DEF RunInv, EndInv, Required
  <2>2. def[n].type # "approval"
    <3>1. def \in Definitions
      BY <2>1 DEF TypeInv, PlainInv
    <3> QED
      BY <2>1, <3>1, NodesAssumption DEF NodeFits
  <2>3. n \in Steps
    BY <2>2 DEF Steps
  <2>4. Whole(run.nodes[n], Plan(n))
    BY <2>1, <2>3 DEF TaskInv, CompleteInv
  <2> QED
    BY <2>1, <2>3, <2>4, WholeShows
<1>2. RunInv /\ Steady /\ [Next]_vars => RunInv' /\ Steady'
    BY RunKept, StepsFrame DEF Steady
<1>3. "change" \notin faults => Steady
    BY DEF Steady
<1> QED
    BY RunBegins, <1>1, <1>2, <1>3, PTL DEF Spec
-----------------------------------------------------------------------------
(* Once.  The tasks of a request are planned by one node: the approval of an       *)
(* operation, if it has one, else the node itself.  Unless an outcome of that node *)
(* was lost, it holds all tasks of its requests that there are, and so plans none   *)
(* a second time; and a mutation that was launched is not planned any more.        *)

\* An operation waits for its approval, and has one at most.
Direct == \A p \in DOMAIN def : def[p].type = "approval" =>
             /\ p \in Dependencies(def, def[p].refersTo)
             /\ \A q \in DOMAIN def : def[q].type = "approval" /\ def[q].refersTo = def[p].refersTo =>
                   q = p

Planner(n) == n \in Required /\ \A p \in DOMAIN def : def[p].type = "approval" => def[p].refersTo # n

\* A list of ids has a task of each request that has any.
Covers(ids, p, list) ==
    \A i \in 1..p.goal : p.line[i] \in KnownIn(list) => i \in DOMAIN ids /\ ids[i] # 0

\* What is said of the launches of a key.
Single(list, key, times) ==
    /\ \A i1, i2 \in DOMAIN list : list[i1].key = key /\ list[i2].key = key => i1 = i2
    /\ times # 0 => /\ times = 1
                    /\ \E id \in DOMAIN list : /\ list[id].key = key
                                               /\ list[id].status \notin {"planned", "awaiting_approval"}

Unattended(n) == (\A j \in jobs : j.alive => j.node # n) /\ n \notin DOMAIN wave.results

\* Dead jobs are of nodes that lost an outcome, an operation that is approved begins with
\* the task of its approval, and operations do not wait for input.
OnceJobs ==
    /\ \A j \in jobs : ~j.alive => j.node \in lost
    /\ \A j, other \in jobs : j.alive /\ other.alive /\ j.node = other.node => j = other
    /\ \A j \in jobs : j.node \in Required /\ ~Planner(j.node) => j.ids[1] # 0
    /\ \A n \in DOMAIN def : def[n].type = "operation" =>
          /\ Status(n) # "awaiting_input"
          /\ n \in DOMAIN wave.results => wave.results[n].status # "awaiting_input"

LaunchInv ==
    /\ \A key \in AllKeys : launched[key] # 0 => Request(key).effect = "mutate"
    /\ \A n \in DOMAIN def : Planner(n) /\ n \notin lost =>
          \A key \in AllKeys : key.node = Target(n) => Single(tasks, key, launched[key])

HeldInv ==
    mode = "serving" => \A n \in DOMAIN def : Planner(n) /\ n \notin lost =>
       /\ \A j \in jobs : j.node = n => Covers(j.ids, Plan(n), tasks)
       /\ n \in DOMAIN wave.results => Covers(wave.results[n].ids, Plan(n), tasks)
       /\ Unattended(n) /\ Status(n) \notin DoneStatus => Covers(run.nodes[n].ids, Plan(n), tasks)

OnceInv == OnceJobs /\ LaunchInv /\ HeldInv

\* There is one node that plans the requests of an operation.
LEMMA PlannerFacts ==
    ASSUME PlainInv, Direct
    PROVE  /\ \A n, m \in DOMAIN def : Planner(n) /\ Target(m) = Target(n) /\ m # n =>
                 m \in Required /\ ~Planner(m)
           /\ \A m \in Required : \E n \in DOMAIN def : Planner(n) /\ Target(n) = Target(m)
           /\ \A m \in Required : ~Planner(m) =>
                 /\ def[m].type = "operation"
                 /\ \E p \in DOMAIN def : /\ def[p].type = "approval" /\ def[p].refersTo = m
                                          /\ p \in Dependencies(def, m)
<1>1. \A n \in DOMAIN def : /\ Target(n) \in DOMAIN def
                            /\ def[n].type # "approval" => Target(n) = n
                            /\ def[n].type = "approval" => /\ Target(n) = def[n].refersTo
                                                           /\ def[Target(n)].type = "operation"
    BY SharedLine DEF Target
<1>2. ASSUME NEW n \in DOMAIN def, NEW m \in DOMAIN def, Planner(n), Target(m) = Target(n), m # n
      PROVE  m \in Required /\ ~Planner(m)
  <2>1. CASE def[n].type = "approval"
    <3>1. m = Target(n) \/ (def[m].type = "approval" /\ def[m].refersTo = def[n].refersTo)
      BY <1>1, <1>2, <2>1
    <3>2. m = Target(n)
      BY <1>2, <2>1, <3>1 DEF Direct
    <3> QED
      BY <1>1, <2>1, <3>2 DEF Planner, Required
  <2>2. CASE def[n].type # "approval"
    <3>1. def[m].type = "approval" /\ def[m].refersTo = n
      BY <1>1, <1>2, <2>2
    <3> QED
      BY <1>2, <3>1 DEF Planner
  <2> QED
    BY <2>1, <2>2
<1>3. ASSUME NEW m \in Required
      PROVE  \E n \in DOMAIN def : Planner(n) /\ Target(n) = Target(m)
  <2>1. m \in DOMAIN def /\ Target(m) \in Required /\ Target(Target(m)) = Target(m)
    BY <1>1 DEF Required
  <2>2. CASE Planner(Target(m))
    BY <1>1, <2>1, <2>2
  <2>3. CASE ~Planner(Target(m))
    <3>1. PICK p \in DOMAIN def : def[p].type = "approval" /\ def[p].refersTo = Target(m)
      BY <2>1, <2>3 DEF Planner
    <3>2. p \in Required /\ Target(p) = Target(m)
      BY <1>1, <3>1 DEF Required
    <3>3. Planner(p)
      BY <1>1, <3>1, <3>2 DEF Planner
    <3> QED
      BY <3>2, <3>3
  <2> QED
    BY <2>2, <2>3
<1>4. ASSUME NEW m \in Required, ~Planner(m)
      PROVE  /\ def[m].type = "operation"
             /\ \E p \in DOMAIN def : /\ def[p].type = "approval" /\ def[p].refersTo = m
                                      /\ p \in Dependencies(def, m)
  <2>1. PICK p \in DOMAIN def : def[p].type = "approval" /\ def[p].refersTo = m
    BY <1>4 DEF Planner
  <2> QED
    BY <1>1, <2>1 DEF Direct
<1> QED
    BY <1>2, <1>3, <1>4

\* Who plans is said by the definition.
LEMMA SamePlanners ==
    ASSUME UNCHANGED def
    PROVE  /\ \A n : Planner(n)' <=> Planner(n)
           /\ Direct' <=> Direct
           /\ \A key : Request(key)' = Request(key)
BY DEF Planner, Direct, Request, Required, Dependencies

\* No request is launched: launched mutations are not planned again.
LEMMA LaunchStays ==
    ASSUME TypeInv, LaunchInv, UNCHANGED <<def, launched>>, lost \subseteq lost',
           tasks' \in Seq(TaskRecord), Len(tasks') = Len(tasks),
           \A id \in 1..Len(tasks) :
              /\ tasks'[id].key = tasks[id].key
              /\ \/ tasks'[id].status = tasks[id].status
                 \/ tasks'[id].status \notin {"planned", "awaiting_approval"}
                 \/ Request(tasks[id].key).effect # "mutate"
    PROVE  LaunchInv'
<1>1. DOMAIN tasks = 1..Len(tasks) /\ DOMAIN tasks' = 1..Len(tasks)
  <2> HIDE DEF TaskRecord
  <2> QED
    BY DEF TypeInv
<1>2. /\ \A n : Planner(n)' <=> Planner(n)
      /\ \A key : Request(key)' = Request(key)
      /\ AllKeys' = AllKeys /\ \A n : Target(n)' = Target(n)
    BY SamePlanners, SameKeys
<1>3. ASSUME NEW key \in AllKeys, Single(tasks, key, launched[key])
      PROVE  Single(tasks', key, launched[key])
  <2>1. \A i1, i2 \in DOMAIN tasks' : tasks'[i1].key = key /\ tasks'[i2].key = key => i1 = i2
    BY <1>1, <1>3 DEF Single
  <2>2. ASSUME launched[key] # 0
        PROVE  /\ launched[key] = 1
               /\ \E id \in DOMAIN tasks' :
                     /\ tasks'[id].key = key
                     /\ tasks'[id].status \notin {"planned", "awaiting_approval"}
    <3>1. PICK id \in DOMAIN tasks : /\ tasks[id].key = key
                                     /\ tasks[id].status \notin {"planned", "awaiting_approval"}
      BY <1>3, <2>2 DEF Single
    <3>2. Request(tasks[id].key).effect = "mutate"
      BY <2>2, <3>1 DEF LaunchInv
    <3> QED
      BY <1>1, <1>3, <2>2, <3>1, <3>2 DEF Single
  <2> QED
    BY <2>1, <2>2 DEF Single
<1> QED
    BY <1>2, <1>3 DEF LaunchInv

\* The launches after a step that leaves the tasks alone.
LEMMA LaunchRests ==
    ASSUME TypeInv, LaunchInv, UNCHANGED <<def, launched, tasks>>, lost \subseteq lost'
    PROVE  LaunchInv'
BY LaunchStays DEF TypeInv

\* No task is planned: what covers the tasks there are goes on to.
LEMMA HeldStays ==
    ASSUME UNCHANGED <<def, answers>>, KnownIn(tasks') = KnownIn(tasks),
           mode' = "serving" => \A n \in DOMAIN def : Planner(n) /\ n \notin lost' =>
              /\ \A j \in jobs' : j.node = n => Covers(j.ids, Plan(n), tasks)
              /\ n \in DOMAIN wave'.results => Covers(wave'.results[n].ids, Plan(n), tasks)
              /\ Unattended(n)' /\ Status(n)' \notin DoneStatus =>
                    Covers(run'.nodes[n].ids, Plan(n), tasks)
    PROVE  HeldInv'
<1>1. /\ \A n : Planner(n)' <=> Planner(n)
      /\ \A n : Plan(n)' = Plan(n)
    BY SamePlanners, SamePlans
<1>2. \A ids, p : Covers(ids, p, tasks) => Covers(ids, p, tasks')
    BY DEF Covers
<1>3. ASSUME mode' = "serving", NEW n \in DOMAIN def, Planner(n), n \notin lost'
      PROVE  /\ \A j \in jobs' : j.node = n => Covers(j.ids, Plan(n), tasks')
             /\ n \in DOMAIN wave'.results => Covers(wave'.results[n].ids, Plan(n), tasks')
             /\ Unattended(n)' /\ Status(n)' \notin DoneStatus =>
                   Covers(run'.nodes[n].ids, Plan(n), tasks')
    BY <1>2, <1>3
<1> QED
    BY <1>1, <1>3 DEF HeldInv

\* A job begins with the tasks that its node has.
LEMMA BeginsCovers ==
    ASSUME TypeInv, FormInv, NEW n \in DOMAIN def, Planner(n), NEW j \in Jobs(n),
           Covers(run.nodes[n].ids, Plan(n), tasks)
    PROVE  Covers(j.ids, Plan(n), tasks)
<1> DEFINE had == run.nodes[n].ids
<1>1. PICK b \in {1, 2}, answer \in Answers : j = Job(n, b, answer)
    BY JobsFacts
<1>2. /\ Len(j.ids) = IF Len(had) > Len(Slots(n, b)) THEN Len(had) ELSE Len(Slots(n, b))
      /\ \A i \in DOMAIN j.ids :
            j.ids[i] = IF i = 1 /\ def[n].type = "operation" THEN FirstId(n, run.nodes)
                       ELSE SomeId(had, i)
    BY <1>1, JobBegins
<1>3. had \in Seq(1..Len(tasks)) /\ Slots(n, b) \in Seq(KeyRecord)
    BY SlotsFacts DEF TypeInv, NodesInv, NodeTyped, Typed, PlainInv
<1>4. j.ids \in Seq(0..Len(tasks))
    BY JobsBegin DEF JobTyped
<1>5. def[n].type = "operation" => FirstId(n, run.nodes) = SomeId(had, 1)
  <2>1. {a \in DOMAIN def : /\ def[a].type = "approval" /\ def[a].refersTo = n
                            /\ run.nodes[a].ids # <<>>} = {}
    BY DEF Planner
  <2> QED
    BY <2>1 DEF FirstId
<1> HIDE DEF had
<1>6. ASSUME NEW i \in 1..Plan(n).goal, Plan(n).line[i] \in KnownIn(tasks)
      PROVE  i \in DOMAIN j.ids /\ j.ids[i] # 0
  <2>1. i \in DOMAIN had /\ had[i] # 0
    BY <1>6 DEF Covers, had
  <2>2. Len(had) <= Len(j.ids)
    BY ONLY <1>2, <1>3
  <2>3. i \in DOMAIN j.ids
    BY ONLY <1>3, <1>4, <2>1, <2>2
  <2>4. j.ids[i] = SomeId(had, i)
    BY <1>2, <1>5, <2>3
  <2> QED
    BY <2>1, <2>3, <2>4 DEF SomeId
<1> QED
    BY <1>6 DEF Covers

\* An operation that is approved begins with the task of its approval.
LEMMA BeginsHeld ==
    ASSUME TypeInv, SagaInv, TaskInv, OnceJobs, Direct, NEW n \in WaveOf(run), n \in Required,
           ~Planner(n), NEW j \in Jobs(n)
    PROVE  j.ids[1] # 0
<1>1. /\ n \in DOMAIN def /\ def[n].type = "operation" /\ FormInv
      /\ run.status # "failed" /\ Required \cap Compensations = {}
    BY WaveFacts, PlannerFacts DEF TypeInv, SagaInv, Required, Compensations
<1>2. PICK p \in DOMAIN def : /\ def[p].type = "approval" /\ def[p].refersTo = n
                              /\ p \in Dependencies(def, n)
    BY PlannerFacts DEF TypeInv
<1>3. \A m \in DOMAIN def : run.nodes[m].ids \in Seq(1..Len(tasks))
    BY DEF TypeInv, NodesInv, NodeTyped, Typed
<1>4. \A m \in DOMAIN def : run.nodes[m].ids # <<>> => run.nodes[m].ids[1] # 0 /\ 1 \in DOMAIN run.nodes[m].ids
  <2> SUFFICES ASSUME NEW m \in DOMAIN def, run.nodes[m].ids # <<>>
               PROVE  run.nodes[m].ids[1] # 0 /\ 1 \in DOMAIN run.nodes[m].ids
    OBVIOUS
  <2> DEFINE list == run.nodes[m].ids  S == 1..Len(tasks)
  <2>1. list \in Seq(S) /\ list # <<>> /\ 0 \notin S
    BY <1>3
  <2> HIDE DEF list, S
  <2>2. list[1] # 0 /\ 1 \in DOMAIN list
    BY ONLY <2>1
  <2> QED
    BY <2>2 DEF list
<1>5. run.nodes[p].ids # <<>> \/ run.nodes[n].ids # <<>>
  <2>1. CASE n \in Awaiting(run.nodes)
    <3>1. Status(n) = "awaiting_approval"
      BY <1>1, <2>1 DEF Awaiting, OnceJobs, Status
    <3> QED
      BY <1>1, <3>1 DEF TaskInv, RecordsInv, Sound, Status
  <2>2. CASE n \notin Awaiting(run.nodes)
    <3>1. n \in ReadyNodes(def, StatusOf(run.nodes))
      BY <1>1, <2>2 DEF WaveOf
    <3>2. StatusOf(run.nodes)[p] \in DoneStatus
      BY <1>2, <3>1 DEF ReadyNodes
    <3>3. StatusOf(run.nodes)[p] = Status(p)
      BY <1>1, <1>2 DEF StatusOf, Status, FormInv, RunForm
    <3>4. p \in Required /\ Status(p) = "verified_complete"
      BY <1>2, <3>2, <3>3 DEF Required, DoneStatus, SagaInv, FormInv, RunForm, Fits, Status
    <3>5. Len(run.nodes[p].ids) = Plan(p).goal
      BY <1>2, <3>4 DEF TaskInv, CompleteInv, Whole
    <3>6. Plan(p).goal = 1
      BY <1>2, PlanFacts DEF TypeInv
    <3> QED
      BY <3>5, <3>6
  <2> QED
    BY <2>1, <2>2
<1> DEFINE approvals == {a \in DOMAIN def : /\ def[a].type = "approval" /\ def[a].refersTo = n
                                            /\ run.nodes[a].ids # <<>>}
<1>6. FirstId(n, run.nodes) # 0
  <2>1. FirstId(n, run.nodes) = IF approvals # {} THEN run.nodes[CHOOSE a \in approvals : TRUE].ids[1]
                                ELSE SomeId(run.nodes[n].ids, 1)
    BY DEF FirstId
  <2>2. CASE approvals # {}
    <3> DEFINE a == CHOOSE a \in approvals : TRUE
    <3>1. a \in approvals
      BY <2>2
    <3>2. a \in DOMAIN def /\ run.nodes[a].ids # <<>>
      BY <3>1
    <3> HIDE DEF a
    <3>3. run.nodes[a].ids[1] # 0
      BY <1>4, <3>2
    <3> QED
      BY <2>1, <2>2, <3>3 DEF a
  <2>3. CASE approvals = {}
    <3>1. run.nodes[p].ids = <<>>
      BY <1>2, <2>3
    <3> HIDE DEF approvals
    <3> QED
      BY <1>1, <1>4, <1>5, <2>1, <2>3, <3>1 DEF SomeId
  <2> QED
    BY <2>2, <2>3
<1>7. PICK b \in {1, 2}, answer \in Answers : j = Job(n, b, answer)
    BY <1>1, JobsFacts
<1>8. /\ Len(j.ids) = IF Len(run.nodes[n].ids) > Len(Slots(n, b)) THEN Len(run.nodes[n].ids)
                      ELSE Len(Slots(n, b))
      /\ \A i \in DOMAIN j.ids : i = 1 => j.ids[i] = FirstId(n, run.nodes)
    BY <1>1, <1>7, JobBegins
<1>9. Len(Slots(n, b)) = 1 /\ Len(run.nodes[n].ids) \in Nat
    BY <1>1, <1>3, SlotsFacts DEF TypeInv, PlainInv
<1>10. j.ids \in Seq(0..Len(tasks))
    BY <1>1, JobsBegin DEF JobTyped
<1>11. 1 \in DOMAIN j.ids
  <2>1. Len(j.ids) >= 1
    BY <1>8, <1>9
  <2> QED
    BY <1>10, <2>1
<1> QED
    BY <1>6, <1>8, <1>11

\* There is no wave: the nodes are unattended.
LEMMA IdleMeans ==
    ASSUME SagaInv, wave = NoWave
    PROVE  /\ \A j \in jobs : ~j.alive
           /\ DOMAIN wave.results = {} /\ wave.phase = "none"
           /\ \A n : Unattended(n)
<1>1. wave.phase = "none" /\ DOMAIN wave.results = {}
    BY DEF NoWave
<1> QED
    BY <1>1 DEF SagaInv, WaveInv, Unattended

LEMMA AdvanceOnce ==
    ASSUME TypeInv, SagaInv, TaskInv, OnceInv, Direct, Advance
    PROVE  OnceInv'
<1> DEFINE nodes == WaveOf(run)
<1>1. PICK begin \in [nodes -> UNION {Jobs(n) : n \in nodes}] :
         /\ \A n \in nodes : begin[n] \in Jobs(n)
         /\ LET started == {begin[n] : n \in nodes}
            IN \/ Reject(nodes, jobs \cup started)
               \/ /\ jobs' = jobs \cup started
                  /\ wave' = [NoWave EXCEPT !.phase = "work", !.base = run.nodes]
                  /\ UNCHANGED <<history, count>>
    BY Zenon DEF Advance
<1>2. /\ UNCHANGED <<def, faults, answers, mode, run, tasks, committed, launched>>
      /\ lost \subseteq lost' /\ mode = "serving" /\ wave = NoWave
    BY <1>1 DEF Advance, Reject, history, Idle
<1>3. \A n \in nodes : n \in DOMAIN def /\ Open(n)
    BY WaveFacts
<1> DEFINE started == {begin[n] : n \in nodes}
<1>4. /\ \A j \in jobs : ~j.alive
      /\ \A n : Unattended(n)
    BY <1>2, IdleMeans
<1>5. \A n \in nodes :
         /\ JobForm(begin[n]) /\ begin[n].node = n /\ begin[n].alive
         /\ n \in Required /\ ~Planner(n) => begin[n].ids[1] # 0
         /\ Planner(n) /\ n \notin lost => Covers(begin[n].ids, Plan(n), tasks)
  <2> SUFFICES ASSUME NEW n \in nodes
               PROVE  /\ JobForm(begin[n]) /\ begin[n].node = n /\ begin[n].alive
                      /\ n \in Required /\ ~Planner(n) => begin[n].ids[1] # 0
                      /\ Planner(n) /\ n \notin lost => Covers(begin[n].ids, Plan(n), tasks)
    OBVIOUS
  <2>1. n \in DOMAIN def /\ Open(n) /\ begin[n] \in Jobs(n)
    BY <1>1, <1>3
  <2>2. JobForm(begin[n]) /\ begin[n].node = n /\ begin[n].alive
    BY <2>1, JobFacts
  <2>3. n \in Required /\ ~Planner(n) => begin[n].ids[1] # 0
    BY <2>1, BeginsHeld DEF OnceInv
  <2>4. ASSUME Planner(n), n \notin lost PROVE Covers(begin[n].ids, Plan(n), tasks)
    <3>1. Covers(run.nodes[n].ids, Plan(n), tasks)
      BY <1>2, <1>4, <2>1, <2>4 DEF OnceInv, HeldInv, Open, DoneStatus
    <3> QED
      BY <2>1, <2>4, <3>1, BeginsCovers DEF SagaInv
  <2> QED
    BY <2>2, <2>3, <2>4
<1>6. \A j \in jobs : JobForm(j)
    BY DEF SagaInv, FormInv
<1>7. KnownIn(tasks') = KnownIn(tasks)
    BY <1>2
<1>8. LaunchInv'
    BY <1>2, LaunchRests DEF OnceInv
<1>9. CASE Reject(nodes, jobs \cup started)
  <2>1. wave' = NoWave /\ lost' = lost \cup nodes
    BY <1>9 DEF Reject
  <2>2. DOMAIN wave'.results = {}
    BY <2>1 DEF NoWave
  <2>3. \A j \in jobs' : \E k \in jobs \cup started :
           j = [k EXCEPT !.alive = FALSE] /\ JobForm(k)
    BY <1>5, <1>6, <1>9 DEF Reject
  <2>4. \A k \in jobs \cup started :
           /\ k.node \in lost'
           /\ k.node \in Required /\ ~Planner(k.node) => k.ids[1] # 0
    BY <1>4, <1>5, <2>1 DEF OnceInv, OnceJobs
  <2> HIDE DEF nodes, started
  <2>5. \A j \in jobs' : /\ ~j.alive /\ j.node \in lost'
                         /\ j.node \in Required /\ ~Planner(j.node) => j.ids[1] # 0
    <3> SUFFICES ASSUME NEW k \in jobs \cup started, JobForm(k),
                        NEW j, j = [k EXCEPT !.alive = FALSE]
                 PROVE  /\ ~j.alive /\ j.node \in lost'
                        /\ j.node \in Required /\ ~Planner(j.node) => j.ids[1] # 0
      BY <2>3
    <3>1. ~j.alive /\ j.node = k.node /\ j.ids = k.ids
      BY DEF JobForm
    <3> QED
      BY <2>4, <3>1
  <2>6. OnceJobs'
    <3>1. \A n : Planner(n)' <=> Planner(n)
      BY <1>2, SamePlanners
    <3> QED
      BY <1>2, <2>2, <2>5, <3>1 DEF OnceInv, OnceJobs, Required, Status
  <2>7. ASSUME NEW n \in DOMAIN def, Planner(n), n \notin lost'
        PROVE  /\ \A j \in jobs' : j.node = n => Covers(j.ids, Plan(n), tasks)
               /\ n \in DOMAIN wave'.results => Covers(wave'.results[n].ids, Plan(n), tasks)
               /\ Status(n)' \notin DoneStatus => Covers(run'.nodes[n].ids, Plan(n), tasks)
    <3>1. n \notin lost
      BY <1>2, <2>7
    <3>2. Status(n)' = Status(n) /\ run'.nodes[n] = run.nodes[n]
      BY <1>2 DEF Status
    <3> QED
      BY <1>2, <1>4, <2>2, <2>5, <2>7, <3>1, <3>2 DEF OnceInv, HeldInv
  <2>8. HeldInv'
    BY <1>2, <1>7, <2>7, HeldStays
  <2> QED
    BY <1>8, <2>6, <2>8 DEF OnceInv
<1>10. CASE /\ jobs' = jobs \cup started
            /\ wave' = [NoWave EXCEPT !.phase = "work", !.base = run.nodes]
            /\ UNCHANGED <<history, count>>
  <2>1. UNCHANGED lost
    BY <1>10 DEF history
  <2>2. DOMAIN wave'.results = {}
    BY ONLY <1>10 DEF NoWave
  <2>3. \A j \in jobs' : j \in jobs \/ \E n \in nodes : j = begin[n]
    BY <1>10
  <2> HIDE DEF nodes, started
  <2>4. \A j \in jobs' : ~j.alive => j.node \in lost'
    BY <1>5, <2>1, <2>3 DEF OnceInv, OnceJobs
  <2>5. \A j, other \in jobs' : j.alive /\ other.alive /\ j.node = other.node => j = other
    BY <1>4, <1>5, <2>3
  <2>6. \A j \in jobs' : j.node \in Required /\ ~Planner(j.node) => j.ids[1] # 0
    BY <1>5, <2>3 DEF OnceInv, OnceJobs
  <2>7. OnceJobs'
    <3>1. \A n : Planner(n)' <=> Planner(n)
      BY <1>2, SamePlanners
    <3> QED
      BY <1>2, <2>2, <2>4, <2>5, <2>6, <3>1 DEF OnceInv, OnceJobs, Required, Status
  <2>8. ASSUME NEW n \in DOMAIN def, Planner(n), n \notin lost'
        PROVE  /\ \A j \in jobs' : j.node = n => Covers(j.ids, Plan(n), tasks)
               /\ n \in DOMAIN wave'.results => Covers(wave'.results[n].ids, Plan(n), tasks)
               /\ Status(n)' \notin DoneStatus => Covers(run'.nodes[n].ids, Plan(n), tasks)
    <3>1. Status(n)' = Status(n) /\ run'.nodes[n] = run.nodes[n]
      BY <1>2 DEF Status
    <3> QED
      BY <1>2, <1>4, <1>5, <2>1, <2>2, <2>3, <2>8, <3>1 DEF OnceInv, HeldInv
  <2>9. HeldInv'
    BY <1>2, <1>7, <2>8, HeldStays
  <2> QED
    BY <1>8, <2>7, <2>9 DEF OnceInv
<1> QED
    BY <1>1, <1>9, <1>10

LEMMA ThrowOnce ==
    ASSUME TypeInv, SagaInv, OnceInv, NEW j \in jobs, NEW i, Throw(j, i)
    PROVE  OnceInv'
<1> DEFINE nodes == {k.node : k \in {k \in jobs : k.alive}} \cup DOMAIN wave.results
<1>1. /\ UNCHANGED <<def, faults, answers, mode, run, tasks, committed, launched>>
      /\ Reject(nodes, jobs \ {j})
    BY DEF Throw, Reject
<1>2. wave' = NoWave /\ lost' = lost \cup nodes
    BY <1>1 DEF Reject
<1>3. DOMAIN wave'.results = {}
    BY <1>2 DEF NoWave
<1>4. \A k \in jobs : JobForm(k) /\ k.node \in lost'
    BY <1>2 DEF SagaInv, FormInv, OnceInv, OnceJobs
<1>5. \A k \in jobs' : \E old \in jobs : k = [old EXCEPT !.alive = FALSE]
    BY <1>1 DEF Reject
<1>6. \A n : n \notin lost' => Unattended(n)
    BY <1>2 DEF Unattended
<1> HIDE DEF nodes
<1>7. \A k \in jobs' : /\ ~k.alive /\ k.node \in lost'
                       /\ k.node \in Required /\ ~Planner(k.node) => k.ids[1] # 0
  <2> SUFFICES ASSUME NEW old \in jobs, NEW k, k = [old EXCEPT !.alive = FALSE]
               PROVE  /\ ~k.alive /\ k.node \in lost'
                      /\ k.node \in Required /\ ~Planner(k.node) => k.ids[1] # 0
    BY <1>5
  <2>1. ~k.alive /\ k.node = old.node /\ k.ids = old.ids
    BY <1>4 DEF JobForm
  <2> QED
    BY <1>4, <2>1 DEF OnceInv, OnceJobs
<1>8. OnceJobs'
  <2>1. \A n : Planner(n)' <=> Planner(n)
    BY <1>1, SamePlanners
  <2> QED
    BY <1>1, <1>3, <1>7, <2>1 DEF OnceInv, OnceJobs, Required, Status
<1>9. LaunchInv'
    BY <1>1, <1>2, LaunchRests DEF OnceInv
<1>10. ASSUME mode' = "serving", NEW n \in DOMAIN def, Planner(n), n \notin lost'
       PROVE  /\ \A k \in jobs' : k.node = n => Covers(k.ids, Plan(n), tasks)
              /\ n \in DOMAIN wave'.results => Covers(wave'.results[n].ids, Plan(n), tasks)
              /\ Unattended(n)' /\ Status(n)' \notin DoneStatus =>
                    Covers(run'.nodes[n].ids, Plan(n), tasks)
  <2>1. n \notin lost /\ Status(n)' = Status(n) /\ run'.nodes[n] = run.nodes[n]
    BY <1>1, <1>2, <1>10 DEF Status
  <2> QED
    BY <1>1, <1>3, <1>6, <1>7, <1>10, <2>1 DEF OnceInv, HeldInv
<1>11. HeldInv'
    BY <1>1, <1>10, HeldStays
<1> QED
    BY <1>8, <1>9, <1>11 DEF OnceInv

\* The tasks of a job cover what is planned, and so does its outcome.
LEMMA OutcomeCovers ==
    ASSUME TypeInv, FormInv, NEW j \in jobs, JobSound(j, Plan(j.node), tasks),
           Covers(j.ids, Plan(j.node), tasks)
    PROVE  Covers(Outcome(j).ids, Plan(j.node), tasks)
<1> DEFINE p == Plan(j.node)  ids == j.ids  L == Len(tasks)
<1>1. Outcome(j).ids = Planned(ids) /\ j.node \in DOMAIN def /\ PlanForm(p)
    BY OutcomeTyped, PlanFacts DEF FormInv, JobForm, TypeInv
<1>2. ids \in Seq(0..L) /\ DOMAIN ids = 1..Len(ids)
  <2>1. ids \in Seq(0..L)
    BY DEF TypeInv, JobsInv, JobsTyped, JobTyped
  <2> HIDE DEF ids
  <2> QED
    BY <2>1
<1>3. \A i \in DOMAIN ids : ids[i] # 0 => \A m \in 1..i : ids[m] # 0
    BY DEF JobSound
<1>4. \A i \in 1..p.goal : p.line[i] \in KnownIn(tasks) => i \in DOMAIN ids /\ ids[i] # 0
    BY DEF Covers
<1> HIDE DEF p, ids, L
<1>5. PICK high \in 0..Len(ids) :
         /\ \A i \in 1..Len(ids) : ids[i] # 0 <=> i <= high
         /\ Planned(ids) \in Seq(1..Len(tasks)) /\ Len(Planned(ids)) = high
         /\ \A i \in 1..high : Planned(ids)[i] = ids[i]
    BY <1>2, <1>3, PlannedFirst DEF L
<1>6. ASSUME NEW i \in 1..p.goal, p.line[i] \in KnownIn(tasks)
      PROVE  i \in DOMAIN Planned(ids) /\ Planned(ids)[i] # 0
  <2>1. i \in 1..Len(ids) /\ ids[i] # 0
    BY <1>2, <1>4, <1>6
  <2>2. i \in 1..high
    BY <1>5, <2>1
  <2>3. DOMAIN Planned(ids) = 1..high
    BY <1>5
  <2> QED
    BY <1>5, <2>1, <2>2, <2>3
<1> QED
    BY <1>1, <1>6 DEF Covers, p, ids

\* An operation that has no answer of its own does not wait for input.
LEMMA OutcomeAsks ==
    ASSUME TypeInv, FormInv, NEW j \in jobs, JobSound(j, Plan(j.node), tasks),
           def[j.node].type = "operation"
    PROVE  Outcome(j).status # "awaiting_input"
<1>1. j.answer = "none"
    BY PlanFacts DEF JobSound, FormInv, JobForm, TypeInv
<1>2. j.states \in Seq(JobStatus)
    BY DEF TypeInv, JobsInv, JobsTyped, JobTyped
<1>3. Aggregate(j.states) # "awaiting_input"
    BY <1>2, AggregateFacts
<1> QED
    BY <1>1, <1>3, OutcomeTyped

LEMMA GatherOnce ==
    ASSUME TypeInv, SagaInv, TaskInv, OnceInv, Gather
    PROVE  OnceInv'
<1> DEFINE over    == {j \in jobs : j.alive}
           results == [n \in {j.node : j \in over} |-> Outcome(CHOOSE j \in over : j.node = n)]
<1>1. /\ UNCHANGED <<def, faults, answers, mode, run, tasks, committed, launched, lost>>
      /\ wave.phase = "work"
      /\ wave' = [wave EXCEPT !.phase = "undo", !.results = results, !.undo = ToUndo(results)]
      /\ jobs' = jobs \ over
    BY DEF Gather, history
<1>2. wave'.results = results /\ DOMAIN results = {j.node : j \in over}
    BY <1>1 DEF SagaInv, FormInv, WaveForm
<1>3. \A j \in jobs : /\ JobForm(j) /\ JobSound(j, Plan(j.node), tasks)
    BY DEF SagaInv, FormInv, TaskInv, RecordsInv
<1>4. \A n \in DOMAIN results : \E j \in jobs : j.alive /\ j.node = n /\ results[n] = Outcome(j)
    BY <1>2
<1>5. \A j \in jobs' : j \in jobs /\ ~j.alive
    BY <1>1
<1>6. \A j \in jobs : j.alive => j.node \in DOMAIN results
    BY <1>2
<1> HIDE DEF over, results
<1>7. DOMAIN wave.results = {}
    BY <1>1 DEF SagaInv, WaveInv
<1>8. OnceJobs'
  <2>1. \A n : Planner(n)' <=> Planner(n)
    BY <1>1, SamePlanners
  <2>2. ASSUME NEW n \in DOMAIN results, n \in DOMAIN def, def[n].type = "operation"
        PROVE  results[n].status # "awaiting_input"
    BY <1>3, <1>4, <2>2, OutcomeAsks DEF SagaInv
  <2> QED
    BY <1>1, <1>2, <1>5, <2>1, <2>2 DEF OnceInv, OnceJobs, Required, Status
<1>9. LaunchInv'
    BY <1>1, LaunchRests DEF OnceInv
<1>10. ASSUME mode' = "serving", NEW n \in DOMAIN def, Planner(n), n \notin lost'
       PROVE  /\ \A k \in jobs' : k.node = n => Covers(k.ids, Plan(n), tasks)
              /\ n \in DOMAIN wave'.results => Covers(wave'.results[n].ids, Plan(n), tasks)
              /\ Unattended(n)' /\ Status(n)' \notin DoneStatus =>
                    Covers(run'.nodes[n].ids, Plan(n), tasks)
  <2>1. n \notin lost /\ Status(n)' = Status(n) /\ run'.nodes[n] = run.nodes[n]
        /\ mode = "serving"
    BY <1>1, <1>10 DEF Status
  <2>2. \A k \in jobs : k.node = n => Covers(k.ids, Plan(n), tasks)
    BY <1>10, <2>1 DEF OnceInv, HeldInv
  <2>3. ASSUME n \in DOMAIN results PROVE Covers(results[n].ids, Plan(n), tasks)
    <3>1. PICK j \in jobs : j.alive /\ j.node = n /\ results[n] = Outcome(j)
      BY <1>4, <2>3
    <3> QED
      BY <1>3, <2>2, <3>1, OutcomeCovers DEF SagaInv
  <2>4. Unattended(n)' => Unattended(n)
    BY <1>2, <1>6, <1>7 DEF Unattended
  <2>5. Unattended(n) /\ Status(n) \notin DoneStatus => Covers(run.nodes[n].ids, Plan(n), tasks)
    BY <1>10, <2>1 DEF OnceInv, HeldInv
  <2> QED
    BY <1>2, <1>5, <2>1, <2>2, <2>3, <2>4, <2>5
<1>11. HeldInv'
    BY <1>1, <1>10, HeldStays
<1> QED
    BY <1>8, <1>9, <1>11 DEF OnceInv

LEMMA UndoOnce ==
    ASSUME TypeInv, SagaInv, OnceInv, UndoNext
    PROVE  OnceInv'
<1> DEFINE m == Head(wave.undo)
           fresh == [Job(m, 1, "none") EXCEPT !.ids = <<SomeId(wave.base[m].ids, 1)>>]
<1>1. /\ m \in Compensations /\ m \in DOMAIN def
      /\ UNCHANGED <<def, faults, answers, mode, run, tasks, committed, launched, lost>>
    BY UndoMeans
<1>2. fresh.node = m /\ fresh.alive
    BY DEF Job
<1>3. \/ /\ \E state : wave'.results = Noted(m, state)
         /\ jobs' \subseteq jobs
         /\ \A j \in jobs \ jobs' : j.node = m
      \/ /\ \A j \in jobs : ~j.alive
         /\ UNCHANGED wave /\ jobs' = jobs \cup {fresh}
    BY UndoMeans
<1>4. m \notin Required /\ def[m].type # "operation"
    BY <1>1 DEF Compensations, Required
<1> HIDE DEF m, fresh
<1>5. \A n \in DOMAIN wave'.results : n # m =>
         n \in DOMAIN wave.results /\ wave'.results[n] = wave.results[n]
    BY <1>3 DEF Noted
<1>6. \A n \in DOMAIN wave.results : n \in DOMAIN wave'.results
    BY <1>3 DEF Noted
<1>7. \A j \in jobs' : j \in jobs \/ j.node = m
    BY <1>2, <1>3
<1>8. OnceJobs'
  <2>1. \A n : Planner(n)' <=> Planner(n)
    BY <1>1, SamePlanners
  <2>2. \A j \in jobs' : ~j.alive => j.node \in lost'
    BY <1>1, <1>2, <1>3 DEF OnceInv, OnceJobs
  <2>3. \A j, other \in jobs' : j.alive /\ other.alive /\ j.node = other.node => j = other
    BY <1>2, <1>3 DEF OnceInv, OnceJobs
  <2>4. \A j \in jobs' : j.node \in Required /\ ~Planner(j.node) => j.ids[1] # 0
    BY <1>4, <1>7 DEF OnceInv, OnceJobs
  <2>5. \A n \in DOMAIN def : def[n].type = "operation" =>
           /\ Status(n) # "awaiting_input"
           /\ n \in DOMAIN wave'.results => wave'.results[n].status # "awaiting_input"
    BY <1>4, <1>5 DEF OnceInv, OnceJobs
  <2> QED
    BY <1>1, <2>1, <2>2, <2>3, <2>4, <2>5 DEF OnceJobs, Required, Status
<1>9. LaunchInv'
    BY <1>1, LaunchRests DEF OnceInv
<1>10. ASSUME mode' = "serving", NEW n \in DOMAIN def, Planner(n), n \notin lost'
       PROVE  /\ \A k \in jobs' : k.node = n => Covers(k.ids, Plan(n), tasks)
              /\ n \in DOMAIN wave'.results => Covers(wave'.results[n].ids, Plan(n), tasks)
              /\ Unattended(n)' /\ Status(n)' \notin DoneStatus =>
                    Covers(run'.nodes[n].ids, Plan(n), tasks)
  <2>1. n \notin lost /\ Status(n)' = Status(n) /\ run'.nodes[n] = run.nodes[n]
        /\ mode = "serving"
    BY <1>1, <1>10 DEF Status
  <2>2. n # m
    BY <1>4, <1>10 DEF Planner
  <2>3. Unattended(n)' => Unattended(n)
    BY <1>3, <1>6, <2>2 DEF Unattended
  <2> QED
    BY <1>5, <1>7, <1>10, <2>1, <2>2, <2>3 DEF OnceInv, HeldInv
<1>11. HeldInv'
    BY <1>1, <1>10, HeldStays
<1> QED
    BY <1>8, <1>9, <1>11 DEF OnceInv

LEMMA CommitOnce ==
    ASSUME TypeInv, SagaInv, OnceInv, Commit
    PROVE  OnceInv'
<1> DEFINE state(n) == IF n \in DOMAIN wave.results THEN wave.results[n] ELSE run.nodes[n]
<1>1. /\ UNCHANGED <<def, faults, answers, mode, tasks, committed, jobs, launched>>
      /\ wave' = NoWave /\ wave.phase = "undo" /\ wave.undo = <<>> /\ lost \subseteq lost'
    BY CommitMeans
<1>2. DOMAIN wave'.results = {}
    BY <1>1 DEF NoWave
<1>3. \A j \in jobs : ~j.alive
    BY <1>1 DEF SagaInv, WaveInv
<1>4. \/ lost' = lost \cup DOMAIN wave.results /\ UNCHANGED run
      \/ \A n \in DOMAIN def : n \in Required => run'.nodes[n] = state(n)
  <2>1. CASE run'.nodes = SkipUnused(Merged)
    <3>1. \A n \in DOMAIN def : NodeForm(Merged[n]) /\ Merged[n] = state(n)
      BY CommitMeans
    <3>2. DOMAIN Merged = DOMAIN def
      BY CommitMeans
    <3>3. \A n \in DOMAIN def : SkipUnused(Merged)[n] = Merged[n] \/ n \in Compensations
      BY <3>1, <3>2, SkipKeeps
    <3> QED
      BY <2>1, <3>1, <3>3 DEF Compensations
  <2> QED
    BY <2>1, CommitMeans
<1>5. \A n \in DOMAIN def : n \in Required =>
         \/ run'.nodes[n] = run.nodes[n]
         \/ n \in DOMAIN wave.results /\ run'.nodes[n] = wave.results[n]
    BY <1>4
<1>6. OnceJobs'
  <2>1. \A n : Planner(n)' <=> Planner(n)
    BY <1>1, SamePlanners
  <2>2. ASSUME NEW n \in DOMAIN def, def[n].type = "operation"
        PROVE  run'.nodes[n].status # "awaiting_input"
    BY <1>5, <2>2 DEF OnceInv, OnceJobs, Status, Required
  <2> QED
    BY <1>1, <1>2, <1>3, <2>1, <2>2 DEF OnceInv, OnceJobs, Required, Status
<1>7. LaunchInv'
    BY <1>1, LaunchRests DEF OnceInv
<1>8. ASSUME mode' = "serving", NEW n \in DOMAIN def, Planner(n), n \notin lost'
      PROVE  /\ \A k \in jobs' : k.node = n => Covers(k.ids, Plan(n), tasks)
             /\ n \in DOMAIN wave'.results => Covers(wave'.results[n].ids, Plan(n), tasks)
             /\ Unattended(n)' /\ Status(n)' \notin DoneStatus =>
                   Covers(run'.nodes[n].ids, Plan(n), tasks)
  <2>1. n \notin lost /\ n \in Required /\ mode = "serving"
    BY <1>1, <1>8 DEF Planner
  <2>2. CASE n \in DOMAIN wave.results
    <3>1. run'.nodes[n] = wave.results[n]
      BY <1>4, <1>8, <2>1, <2>2
    <3> QED
      BY <1>1, <1>2, <1>8, <2>1, <2>2, <3>1 DEF OnceInv, HeldInv
  <2>3. CASE n \notin DOMAIN wave.results
    <3>1. run'.nodes[n] = run.nodes[n] /\ Status(n)' = Status(n)
      BY <1>4, <1>8, <2>1, <2>3 DEF Status
    <3>2. Unattended(n)
      BY <1>3, <2>3 DEF Unattended
    <3> QED
      BY <1>1, <1>2, <1>8, <2>1, <3>1, <3>2 DEF OnceInv, HeldInv
  <2> QED
    BY <2>2, <2>3
<1>9. HeldInv'
    BY <1>1, <1>8, HeldStays
<1> QED
    BY <1>6, <1>7, <1>9 DEF OnceInv

\* The run is halted, resumed or cancelled: nodes at most become cancelled.
LEMMA MovedKeepsOnce ==
    ASSUME TypeInv, SagaInv, OnceInv, Moved, UNCHANGED <<def, answers, mode, jobs, launched, lost>>,
           tasks' \in Seq(TaskRecord), Len(tasks') = Len(tasks),
           \A id \in 1..Len(tasks) :
              /\ tasks'[id].key = tasks[id].key
              /\ tasks'[id].status = tasks[id].status \/ tasks'[id].status = "cancelled",
           \A n \in DOMAIN def :
              /\ run'.nodes[n].ids = run.nodes[n].ids
              /\ \/ run'.nodes[n].status = run.nodes[n].status
                 \/ run'.nodes[n].status = "cancelled" /\ run.nodes[n].status \notin DoneStatus
    PROVE  OnceInv'
<1>1. wave'.results = wave.results
    BY MovedMeans
<1>2. LaunchInv'
    BY LaunchStays DEF OnceInv
<1>3. OnceJobs'
  <2>1. \A n : Planner(n)' <=> Planner(n)
    BY SamePlanners
  <2> QED
    BY <1>1, <2>1 DEF OnceInv, OnceJobs, Required, Status
<1>4. DOMAIN tasks = 1..Len(tasks) /\ DOMAIN tasks' = 1..Len(tasks)
  <2> HIDE DEF TaskRecord
  <2> QED
    BY DEF TypeInv
<1>5. KnownIn(tasks') = KnownIn(tasks)
    BY <1>4 DEF KnownIn
<1>6. ASSUME mode' = "serving", NEW n \in DOMAIN def, Planner(n), n \notin lost'
      PROVE  /\ \A k \in jobs' : k.node = n => Covers(k.ids, Plan(n), tasks)
             /\ n \in DOMAIN wave'.results => Covers(wave'.results[n].ids, Plan(n), tasks)
             /\ Unattended(n)' /\ Status(n)' \notin DoneStatus =>
                   Covers(run'.nodes[n].ids, Plan(n), tasks)
  <2>1. Unattended(n)' <=> Unattended(n)
    BY <1>1 DEF Unattended
  <2>2. Status(n)' \notin DoneStatus => Status(n) \notin DoneStatus
    BY DEF Status
  <2> QED
    BY <1>1, <1>6, <2>1, <2>2 DEF OnceInv, HeldInv
<1>7. HeldInv'
    BY <1>5, <1>6, HeldStays
<1> QED
    BY <1>2, <1>3, <1>7 DEF OnceInv

LEMMA MovedOnce ==
    ASSUME TypeInv, SagaInv, OnceInv, Halt \/ Resume \/ Cancel
    PROVE  OnceInv'
<1>1. Moved /\ UNCHANGED <<def, answers, mode, jobs, launched, lost>>
    BY DEF Halt, Resume, Cancel, history
<1>2. DOMAIN run = {"status", "error", "nodes"} /\ DOMAIN run.nodes = DOMAIN def
    BY DEF SagaInv, FormInv, RunForm
<1>3. tasks \in Seq(TaskRecord)
    BY DEF TypeInv
<1>4. CASE Halt \/ Resume
  <2>1. UNCHANGED tasks
    BY <1>4 DEF Halt, Resume
  <2>2. run'.nodes = run.nodes
    BY <1>2, <1>4 DEF Halt, Resume
  <2> QED
    BY <1>1, <1>3, <2>1, <2>2, MovedKeepsOnce
<1>5. CASE Cancel
  <2> DEFINE open == {n \in DOMAIN def : run.nodes[n].status \in
                                           {"pending", "ready", "awaiting_approval"}}
             ids  == UNION {ToSet(run.nodes[n].ids) : n \in open}
  <2>1. /\ tasks' = [id \in DOMAIN tasks |->
                       IF id \in ids /\ tasks[id].status \in {"planned", "awaiting_approval"}
                       THEN [tasks[id] EXCEPT !.status = "cancelled"] ELSE tasks[id]]
        /\ run'.nodes = [n \in DOMAIN def |-> IF n \in open
                            THEN [run.nodes[n] EXCEPT !.status = "cancelled"] ELSE run.nodes[n]]
    BY <1>5 DEF Cancel
  <2>2. \A n \in DOMAIN def : /\ run'.nodes[n].ids = run.nodes[n].ids
                              /\ \/ run'.nodes[n].status = run.nodes[n].status
                                 \/ /\ run'.nodes[n].status = "cancelled"
                                    /\ run.nodes[n].status \notin DoneStatus
    <3>1. \A n \in DOMAIN def : NodeForm(run.nodes[n])
      BY DEF SagaInv, FormInv, RunForm
    <3>2. \A n \in open : run.nodes[n].status \notin DoneStatus
      BY DEF DoneStatus
    <3> HIDE DEF open, ids
    <3> QED
      BY <2>1, <3>1, <3>2 DEF NodeForm
  <2> HIDE DEF open, ids
  <2>3. DOMAIN tasks = 1..Len(tasks) /\ \A id \in 1..Len(tasks) : tasks[id] \in TaskRecord
    <3> HIDE DEF TaskRecord
    <3> QED
      BY <1>3
  <2>4. \A id \in 1..Len(tasks) :
           /\ tasks'[id] \in TaskRecord /\ tasks'[id].key = tasks[id].key
           /\ tasks'[id].status = tasks[id].status \/ tasks'[id].status = "cancelled"
    BY <2>1, <2>3 DEF TaskRecord, TaskStatus
  <2>5. tasks' \in Seq(TaskRecord) /\ Len(tasks') = Len(tasks)
    <3>1. DOMAIN tasks' = 1..Len(tasks) /\ Len(tasks) \in Nat
      BY <1>3, <2>1, <2>3
    <3>2. tasks' = [id \in 1..Len(tasks) |-> tasks'[id]]
      BY <2>1, <2>3
    <3> DEFINE n == Len(tasks)  value(id) == tasks'[id]
    <3>3. \A id \in 1..n : value(id) \in TaskRecord
      BY <2>4
    <3>4. tasks' = [id \in 1..n |-> value(id)] /\ n \in Nat
      BY <3>1, <3>2
    <3> HIDE DEF n, value, TaskRecord
    <3>5. [id \in 1..n |-> value(id)] \in Seq(TaskRecord) /\ Len([id \in 1..n |-> value(id)]) = n
      BY ONLY <3>3, <3>4
    <3> QED
      BY <3>4, <3>5 DEF n
  <2> QED
    BY <1>1, <2>2, <2>4, <2>5, MovedKeepsOnce
<1> QED
    BY <1>4, <1>5

\* The process dies, or it starts again and takes up its tasks.
LEMMA QuietOnce ==
    ASSUME TypeInv, SagaInv, OnceInv, Die \/ RecoverTasks
    PROVE  OnceInv'
<1>1. /\ UNCHANGED <<def, answers, run, launched, lost>> /\ mode' # "serving"
      /\ jobs' = {} /\ DOMAIN wave'.results = {}
  <2>1. NoWave.results = <<>>
    BY DEF NoWave
  <2>2. CASE Die
    BY <2>1, <2>2, DieMeans DEF history
  <2>3. CASE RecoverTasks
    BY <2>1, <2>3, RecoverTasksMeans DEF history, SagaInv, WaveInv
  <2> QED
    BY <2>2, <2>3
<1>2. /\ tasks' \in Seq(TaskRecord) /\ Len(tasks') = Len(tasks)
      /\ \A id \in 1..Len(tasks) : tasks'[id].key = tasks[id].key
  <2>1. CASE Die
    BY <2>1, DieMeans
  <2>2. CASE RecoverTasks
    BY <2>2, RecoverTasksMeans
  <2> QED
    BY <2>1, <2>2
<1>3. \A id \in 1..Len(tasks) :
         \/ tasks'[id].status = tasks[id].status
         \/ tasks'[id].status \notin {"planned", "awaiting_approval"}
         \/ Request(tasks[id].key).effect # "mutate"
  <2>1. CASE Die
    BY <2>1, DieMeans
  <2>2. CASE RecoverTasks
    <3>1. DOMAIN tasks = 1..Len(tasks) /\ \A id \in 1..Len(tasks) : tasks[id] \in TaskRecord
      <4> HIDE DEF TaskRecord
      <4> QED
        BY DEF TypeInv
    <3> DEFINE interrupted == {id \in DOMAIN tasks : tasks[id].status = "running"}
               mutations   == {id \in interrupted : Request(tasks[id].key).effect = "mutate"}
    <3>2. PICK seen \in SUBSET mutations :
             tasks' = [id \in DOMAIN tasks |->
                   [tasks[id] EXCEPT
                      !.status = IF id \in seen THEN "verified_success"
                                 ELSE IF id \in mutations THEN "recovery_required"
                                 ELSE IF id \in interrupted THEN "planned" ELSE @,
                      !.certified = @ \/ id \in seen,
                      !.latest = IF \E t \in interrupted : tasks[t].key = tasks[id].key
                                 THEN id \in interrupted ELSE @]]
      BY <2>2 DEF RecoverTasks
    <3>3. \A id \in interrupted : id \notin mutations => Request(tasks[id].key).effect # "mutate"
      OBVIOUS
    <3> HIDE DEF interrupted, mutations
    <3>4. ASSUME NEW id \in 1..Len(tasks)
          PROVE  tasks'[id].status = IF id \in seen THEN "verified_success"
                                 ELSE IF id \in mutations THEN "recovery_required"
                                 ELSE IF id \in interrupted THEN "planned" ELSE tasks[id].status
      BY <3>1, <3>2 DEF TaskRecord
    <3> QED
      BY <3>3, <3>4
  <2> QED
    BY <2>1, <2>2
<1>4. LaunchInv'
    BY <1>1, <1>2, <1>3, LaunchStays DEF OnceInv
<1>5. OnceJobs'
  <2>1. \A n : Planner(n)' <=> Planner(n)
    BY <1>1, SamePlanners
  <2> QED
    BY <1>1, <2>1 DEF OnceInv, OnceJobs, Required, Status
<1>6. HeldInv'
    BY <1>1 DEF HeldInv
<1> QED
    BY <1>4, <1>5, <1>6 DEF OnceInv

\* Recovery finds all tasks of a node, or takes its outcome for lost.
LEMMA RecoverRunOnce ==
    ASSUME TypeInv, SagaInv, TaskInv, OnceInv, RecoverRun
    PROVE  OnceInv'
<1>1. /\ mode = "repairing"
      /\ UNCHANGED <<def, answers, tasks, wave, jobs, launched>> /\ lost \subseteq lost'
    BY RecoverRunMeans
<1>2. jobs' = {} /\ DOMAIN wave'.results = {}
  <2>1. jobs = {} /\ wave = NoWave
    BY <1>1 DEF SagaInv, WaveInv
  <2> QED
    BY <1>1, <2>1 DEF NoWave
<1>3. LaunchInv'
    BY <1>1, LaunchRests DEF OnceInv
<1>4. /\ \A n \in DOMAIN def : def[n].type = "operation" => run'.nodes[n].status # "awaiting_input"
      /\ \A n \in DOMAIN def : Planner(n) /\ n \notin lost' =>
            run'.nodes[n].status \in DoneStatus \/ Covers(run'.nodes[n].ids, Plan(n), tasks)
  <2>1. CASE /\ lost' = lost \cup {n \in DOMAIN def : run.nodes[n].status \notin DoneStatus}
             /\ UNCHANGED run
    BY <2>1 DEF OnceInv, OnceJobs, Status
  <2>2. ASSUME NEW choice \in Picks, run'.nodes = SkipUnused(RecoveredNodes(choice))
        PROVE  /\ \A n \in DOMAIN def : def[n].type = "operation" =>
                     run'.nodes[n].status # "awaiting_input"
               /\ \A n \in DOMAIN def : Planner(n) => Covers(run'.nodes[n].ids, Plan(n), tasks)
    <3> DEFINE given == RecoveredNodes(choice)
    <3>1. /\ DOMAIN given = DOMAIN def
          /\ \A n \in DOMAIN def : given[n] = RecoveredState(n, Chosen(n, choice))
      BY DEF RecoveredNodes
    <3>2. \A n \in DOMAIN def : Chosen(n, choice) \in Seq(1..Len(tasks))
      BY ChosenFacts
    <3>3. \A n \in DOMAIN def : NodeForm(given[n])
      BY <3>1, <3>2, RecoveredFacts DEF SagaInv
    <3>4. run'.nodes = SkipUnused(given)
      BY <2>2
    <3> HIDE DEF given
    <3>5. \A n \in Required : run'.nodes[n] = given[n]
      BY <3>1, <3>3, <3>4, SkipKeeps DEF Required, Compensations
    <3>6. ASSUME NEW n \in DOMAIN def, def[n].type = "operation"
          PROVE  run'.nodes[n].status # "awaiting_input"
      <4>1. n \in Required
        BY <3>6 DEF Required
      <4>2. run'.nodes[n] = RecoveredState(n, Chosen(n, choice))
        BY <3>1, <3>5, <4>1
      <4>3. CASE Chosen(n, choice) = <<>>
        <5>1. run'.nodes[n] = run.nodes[n]
          BY <3>2, <4>2, <4>3, RecoveredFacts DEF SagaInv
        <5> QED
          BY <3>6, <5>1 DEF OnceInv, OnceJobs, Status
      <4>4. CASE Chosen(n, choice) # <<>>
        BY <3>2, <4>2, <4>4, RecoveredFacts DEF SagaInv
      <4> QED
        BY <4>3, <4>4
    <3>7. ASSUME NEW n \in DOMAIN def, Planner(n)
          PROVE  Covers(run'.nodes[n].ids, Plan(n), tasks)
      <4> DEFINE ids == Chosen(n, choice)  p == Plan(n)
      <4>1. n \in Required /\ run'.nodes[n] = RecoveredState(n, ids)
        BY <3>1, <3>5, <3>7 DEF Planner, Required
      <4>2. ids # <<>> => run'.nodes[n].ids = ids
        BY <3>2, <4>1, RecoveredFacts DEF SagaInv
      <4>3. ids \in Seq(1..Len(tasks)) /\ Len(ids) = Len(KeysToRecover(n))
        BY <3>2, ChosenFacts
      <4>4. PICK high \in 0..p.goal :
               /\ Len(KeysToRecover(n)) = high
               /\ \A i \in 1..p.goal : p.line[i] \in Known <=> i <= high
        BY KeysFound DEF TaskInv
      <4>5. p.goal \in Nat
        BY PlanFacts DEF TypeInv, PlanForm
      <4> HIDE DEF ids, p
      <4>6. ASSUME NEW i \in 1..p.goal, p.line[i] \in Known
            PROVE  i \in DOMAIN ids /\ ids[i] # 0 /\ ids # <<>>
        <5> DEFINE S == 1..Len(tasks)
        <5>1. ids \in Seq(S) /\ 0 \notin S
          BY <4>3
        <5>2. 1 <= i /\ i <= Len(ids)
          BY <4>3, <4>4, <4>6
        <5> HIDE DEF S
        <5>3. i \in DOMAIN ids /\ ids[i] \in S /\ ids # <<>>
          BY ONLY <5>1, <5>2, i \in 1..p.goal, <4>5
        <5> QED
          BY <5>1, <5>3
      <4>7. KnownIn(tasks) = Known
        BY DEF KnownIn, Known
      <4> QED
        BY <4>2, <4>6, <4>7 DEF Covers, p
    <3> QED
      BY <3>6, <3>7
  <2>3. CASE \E choice \in Picks :
                LET nodes == SkipUnused(RecoveredNodes(choice))
                IN run' = [status |-> DeriveStatus(nodes), nodes |-> nodes,
                           error |-> DeriveStatus(nodes) = "recovery_required"]
    <3>1. PICK choice \in Picks : run'.nodes = SkipUnused(RecoveredNodes(choice))
      BY <2>3
    <3> QED
      BY <2>2, <3>1
  <2> QED
    BY <2>1, <2>3, RecoverRunMeans
<1>5. OnceJobs'
  <2>1. \A n : Planner(n)' <=> Planner(n)
    BY <1>1, SamePlanners
  <2> QED
    BY <1>1, <1>2, <1>4, <2>1 DEF OnceInv, OnceJobs, Required, Status
<1>6. HeldInv'
  <2>1. \A n \in DOMAIN def : Planner(n) /\ n \notin lost' =>
           /\ \A k \in jobs' : k.node = n => Covers(k.ids, Plan(n), tasks)
           /\ n \in DOMAIN wave'.results => Covers(wave'.results[n].ids, Plan(n), tasks)
           /\ Unattended(n)' /\ Status(n)' \notin DoneStatus =>
                 Covers(run'.nodes[n].ids, Plan(n), tasks)
    BY <1>2, <1>4 DEF Status
  <2> QED
    BY <1>1, <2>1, HeldStays
<1> QED
    BY <1>3, <1>5, <1>6 DEF OnceInv

\* Nothing happens, or the world changes what a behaviour with changes sees.
LEMMA StillOnce ==
    ASSUME OnceInv, UNCHANGED vars
    PROVE  OnceInv'
BY SamePlanners, SamePlans, SameKeys
   DEF vars, OnceInv, OnceJobs, LaunchInv, HeldInv, Single, Covers, Unattended, Required, Status,
       DoneStatus, AllKeys

\* A job that plans a task is the only one that its node has.
LEMMA PlansAlone ==
    ASSUME TypeInv, SagaInv, TaskInv, OnceInv, Direct, NEW j \in jobs,
           NEW i \in 1..Plan(j.node).goal, SomeId(j.ids, i) = 0,
           NEW n \in DOMAIN def, Planner(n), n \notin lost, Target(n) = Target(j.node)
    PROVE  /\ j.node = n /\ j.alive /\ Plan(n).line[i] \notin KnownIn(tasks)
           /\ n \notin DOMAIN wave.results /\ \A k \in jobs : k.node = n => k = j
<1>1. /\ j.node \in DOMAIN def /\ mode = "serving"
      /\ JobSound(j, Plan(j.node), tasks)
    BY DEF SagaInv, FormInv, JobForm, WaveInv, TaskInv, RecordsInv
<1>2. j.node = n
  <2> SUFFICES ASSUME j.node # n PROVE FALSE
    OBVIOUS
  <2>1. j.node \in Required /\ ~Planner(j.node)
    BY <1>1, PlannerFacts DEF TypeInv
  <2>2. def[j.node].type = "operation" /\ j.ids[1] # 0
    BY <2>1, PlannerFacts DEF TypeInv, OnceInv, OnceJobs
  <2>3. Len(Plan(j.node).line) = 1 /\ Plan(j.node).goal = 1
    BY <1>1, <2>2, PlanFacts DEF TypeInv
  <2>4. i = 1 /\ Len(j.ids) = 1 /\ j.ids \in Seq(0..Len(tasks))
    BY <1>1, <2>3 DEF JobSound, TypeInv, JobsInv, JobsTyped, JobTyped
  <2>5. 1 \in DOMAIN j.ids
    BY <2>4
  <2> QED
    BY <2>2, <2>4, <2>5 DEF SomeId
<1>3. j.alive /\ \A k \in jobs : k.node = n => k = j
    BY <1>2 DEF OnceInv, OnceJobs, SagaInv, FormInv, JobForm
<1>4. Plan(n).line[i] \notin KnownIn(tasks)
  <2>1. Covers(j.ids, Plan(n), tasks)
    BY <1>1, <1>2 DEF OnceInv, HeldInv
  <2> QED
    BY <1>2, <2>1 DEF Covers, SomeId
<1>5. n \notin DOMAIN wave.results
  <2>1. CASE wave.phase = "work"
    BY <2>1 DEF SagaInv, WaveInv
  <2>2. CASE wave.phase = "undo"
    <3>1. wave.undo # <<>> /\ n = Head(wave.undo)
      BY <1>2, <1>3, <2>2 DEF SagaInv, WaveInv
    <3>2. wave.undo \in Seq(Compensations)
      BY DEF SagaInv, FormInv, WaveForm
    <3>3. n \in Compensations
      BY <3>1, <3>2
    <3> QED
      BY <3>3 DEF Planner, Compensations
  <2>3. wave.phase \in {"work", "undo"}
    BY <1>3 DEF SagaInv, WaveInv, FormInv, WaveForm
  <2> QED
    BY <2>1, <2>2, <2>3
<1> QED
    BY <1>2, <1>3, <1>4, <1>5

\* What is launched is a mutation, and what is answered is done.
LEMMA RequestLaunches ==
    ASSUME TypeInv, NEW j \in jobs, NEW i \in DOMAIN j.states,
           StartRequest(j, i) \/ Answer(j, i)
    PROVE  /\ \A key \in AllKeys : launched'[key] # launched[key] => Request(key).effect = "mutate"
           /\ j.states[i] = "busy" => tasks'[j.ids[i]].status \notin {"planned", "awaiting_approval"}
<1>1. CASE StartRequest(j, i)
  <2>1. j.states[i] = "todo"
    BY <1>1 DEF StartRequest, Startable
  <2>2. \/ UNCHANGED launched
        \/ \E own : Request(own).effect = "mutate"
                    /\ launched' = [launched EXCEPT ![own] = @ + 1]
    BY <1>1, Zenon DEF StartRequest, Execute
  <2>3. launched \in [AllKeys -> Nat]
    BY DEF TypeInv, PlainInv
  <2>4. \A key \in AllKeys : launched'[key] # launched[key] => Request(key).effect = "mutate"
    BY <2>2, <2>3
  <2> QED
    BY <2>1, <2>4
<1>2. CASE Answer(j, i)
  <2>1. UNCHANGED launched
    BY <1>2 DEF Answer, history
  <2> DEFINE id == j.ids[i]
  <2>2. PICK status \in {"verified_success", "failed", "cancelled"} :
           tasks' = [Touch(tasks, id, status) EXCEPT ![id].certified = TRUE]
    BY <1>2 DEF Answer
  <2>3. ASSUME j.states[i] = "busy"
        PROVE  tasks'[id].status \notin {"planned", "awaiting_approval"}
    <3>1. id # 0 /\ i \in 1..Len(j.states) /\ Len(j.states) <= Len(j.ids)
          /\ j.ids \in Seq(0..Len(tasks)) /\ Len(j.states) \in Nat
      BY <2>3 DEF TypeInv, JobsInv, JobsTyped, JobTyped, BusyRun
    <3> DEFINE S == 0..Len(tasks)
    <3>2. id \in S
      <4>1. j.ids \in Seq(S)
        BY <3>1
      <4> HIDE DEF S
      <4> QED
        BY <3>1, <4>1
    <3>3. id \in 1..Len(tasks) /\ tasks \in Seq(TaskRecord)
      BY <3>1, <3>2 DEF TypeInv
    <3>4. status \in TaskStatus
      BY DEF TaskStatus
    <3> DEFINE touched == Touch(tasks, id, status)
    <3>5. touched \in Seq(TaskRecord) /\ Len(touched) = Len(tasks) /\ touched[id].status = status
      BY <3>3, <3>4, TouchFacts
    <3> HIDE DEF id, touched
    <3>6. id \in DOMAIN touched /\ touched[id] \in TaskRecord
      <4> HIDE DEF TaskRecord
      <4> QED
        BY <3>3, <3>5
    <3>7. tasks' = [touched EXCEPT ![id].certified = TRUE]
      BY <2>2 DEF touched, id
    <3>8. tasks'[id].status = touched[id].status
      BY <3>6, <3>7 DEF TaskRecord
    <3> QED
      BY <3>5, <3>8
  <2> QED
    BY <2>1, <2>3
<1> QED
    BY <1>1, <1>2

LEMMA RequestOnce ==
    ASSUME TypeInv, SagaInv, TaskInv, OnceInv, Direct, NEW j \in jobs, NEW i \in DOMAIN j.states,
           StartRequest(j, i) \/ Answer(j, i)
    PROVE  OnceInv'
<1> DEFINE p == Plan(j.node)
<1>1. FormInv /\ JobForm(j) /\ j.node \in DOMAIN def /\ JobSound(j, p, tasks) /\ mode = "serving"
    BY DEF SagaInv, FormInv, JobForm, WaveInv, TaskInv, RecordsInv
<1>2. PICK id, st, next :
         /\ (i \in Startable(j) /\ j.states[i] = "todo") \/ (st # "busy" /\ j.states[i] = "busy")
         /\ Replace(j, next) /\ Became(j, next, i, id, st)
         /\ Plain(next, Len(tasks')) /\ Asked(j, i, id, st)
    BY <1>1, RequestMeans
<1>3. /\ next.node = j.node /\ next.alive = j.alive /\ Len(next.ids) = Len(j.ids)
      /\ \A m \in 1..Len(j.ids) : next.ids[m] = IF m = i THEN id ELSE j.ids[m]
      /\ jobs' = (jobs \ {j}) \cup {next}
    BY <1>2 DEF Became, Replace
<1>4. i \in 1..p.goal /\ tasks'[id].key = p.line[i]
  <2>1. i <= p.goal /\ tasks'[id].key = p.line[i]
    BY <1>1, <1>2, RequestSound
  <2>2. i \in Nat \ {0} /\ p.goal \in Nat
    <3>1. j.states \in Seq(JobStatus)
      BY DEF TypeInv, JobsInv, JobsTyped, JobTyped
    <3>2. p.goal \in Nat
      BY <1>1, PlanFacts DEF TypeInv, PlanForm
    <3> HIDE DEF p
    <3> QED
      BY <3>1, <3>2
  <2> QED
    BY <2>1, <2>2
<1>5. /\ id \in 1..Len(tasks') /\ DOMAIN tasks' = 1..Len(tasks')
      /\ DOMAIN tasks = 1..Len(tasks) /\ Len(tasks) \in Nat
      /\ UNCHANGED <<def, answers, mode, run, wave, lost>>
      /\ Len(tasks') = IF SomeId(j.ids, i) = 0 THEN Len(tasks) + 1 ELSE Len(tasks)
      /\ id = IF SomeId(j.ids, i) = 0 THEN Len(tasks) + 1 ELSE j.ids[i]
      /\ \A m \in 1..Len(tasks) : /\ tasks'[m].key = tasks[m].key
                                  /\ m # id => tasks'[m].status = tasks[m].status
    BY <1>2 DEF Asked, TypeInv
<1>6. /\ j.ids \in Seq(0..Len(tasks)) /\ Len(j.ids) = Len(p.line) /\ Len(p.line) \in Nat
      /\ i \in 1..Len(j.ids)
  <2>1. j.ids \in Seq(0..Len(tasks)) /\ Len(j.ids) = Len(p.line)
    BY <1>1 DEF TypeInv, JobsInv, JobsTyped, JobTyped, JobSound
  <2>2. Len(p.line) \in Nat /\ p.goal \in 0..Len(p.line)
    BY <1>1, PlanFacts DEF TypeInv, PlanForm
  <2> HIDE DEF p
  <2> QED
    BY <1>4, <2>1, <2>2
<1>7. /\ \A n : Planner(n)' <=> Planner(n)
      /\ \A key : Request(key)' = Request(key)
      /\ AllKeys' = AllKeys /\ \A n : Target(n)' = Target(n) /\ Plan(n)' = Plan(n)
    BY <1>5, SamePlanners, SameKeys, SamePlans
<1>8. p.line[i].node = Target(j.node) /\ p.line[i] \in AllKeys
  <2>1. \A m \in 1..Len(p.line) : p.line[m].node = Target(j.node)
    BY <1>1, PlanFacts DEF TypeInv
  <2>2. p.line \in Seq(AllKeys)
    BY <1>1, PlanFacts DEF TypeInv
  <2> HIDE DEF p
  <2> QED
    BY <1>6, <2>1, <2>2
<1>9. \A key \in KnownIn(tasks') : key \in KnownIn(tasks) \/ (SomeId(j.ids, i) = 0 /\ key = p.line[i])
  <2> SUFFICES ASSUME NEW t \in 1..Len(tasks')
               PROVE  \/ tasks'[t].key \in KnownIn(tasks)
                      \/ SomeId(j.ids, i) = 0 /\ tasks'[t].key = p.line[i]
    BY <1>5 DEF KnownIn
  <2>1. CASE t \in 1..Len(tasks)
    BY <1>5, <2>1 DEF KnownIn
  <2>2. CASE t \notin 1..Len(tasks)
    <3>1. SomeId(j.ids, i) = 0 /\ t = id
      BY <1>5, <2>2
    <3> QED
      BY <1>4, <3>1
  <2> QED
    BY <2>1, <2>2
<1> HIDE DEF p
\* OnceJobs
<1>10. OnceJobs'
  <2>1. \A k \in jobs' : /\ ~k.alive => k.node \in lost
                         /\ k.node \in Required /\ ~Planner(k.node) => k.ids[1] # 0
    <3>1. j.node \in Required /\ ~Planner(j.node) => next.ids[1] # 0
      <4>1. 1 \in 1..Len(j.ids)
        BY <1>6
      <4> QED
        BY <1>3, <1>5, <4>1 DEF OnceInv, OnceJobs
    <3>2. ~next.alive => next.node \in lost
      BY <1>3 DEF OnceInv, OnceJobs
    <3> QED
      BY <1>3, <3>1, <3>2 DEF OnceInv, OnceJobs
  <2>2. \A k, other \in jobs' : k.alive /\ other.alive /\ k.node = other.node => k = other
    BY <1>3 DEF OnceInv, OnceJobs
  <2> QED
    BY <1>5, <1>7, <2>1, <2>2 DEF OnceInv, OnceJobs, Required, Status
\* LaunchInv
<1>11. LaunchInv'
  <2>1. \A key \in AllKeys : launched'[key] # launched[key] => Request(key).effect = "mutate"
    BY RequestLaunches
  <2>2. j.states[i] = "busy" => tasks'[j.ids[i]].status \notin {"planned", "awaiting_approval"}
    BY RequestLaunches
  <2>3. launched \in [AllKeys -> Nat]
    BY DEF TypeInv, PlainInv
  <2>4. ASSUME NEW n \in DOMAIN def, Planner(n), n \notin lost,
               NEW key \in AllKeys, key.node = Target(n), Single(tasks, key, launched[key])
        PROVE  Single(tasks', key, launched'[key])
    <3>1. ASSUME SomeId(j.ids, i) = 0, key = p.line[i]
          PROVE  key \notin KnownIn(tasks)
      BY <1>4, <1>8, <2>4, <3>1, PlansAlone DEF p
    <3>2. ASSUME NEW i1 \in DOMAIN tasks', NEW i2 \in DOMAIN tasks', tasks'[i1].key = key,
                 tasks'[i2].key = key, i1 < i2
          PROVE  FALSE
      <4>1. CASE i2 \in 1..Len(tasks)
        BY <1>5, <2>4, <3>2, <4>1 DEF Single
      <4>2. CASE i2 \notin 1..Len(tasks)
        <5>1. i2 = id /\ SomeId(j.ids, i) = 0 /\ i1 \in 1..Len(tasks)
          BY <1>5, <3>2, <4>2
        <5>2. key \in KnownIn(tasks) /\ key = p.line[i]
          BY <1>4, <1>5, <3>2, <5>1 DEF KnownIn
        <5> QED
          BY <3>1, <5>1, <5>2
      <4> QED
        BY <4>1, <4>2
    <3>3. \A i1, i2 \in DOMAIN tasks' : tasks'[i1].key = key /\ tasks'[i2].key = key => i1 = i2
      <4>1. \A a, b \in 1..Len(tasks') : a < b \/ b < a \/ a = b
        OBVIOUS
      <4> QED
        BY <1>5, <3>2, <4>1
    <3>4. ASSUME launched'[key] = launched[key], launched'[key] # 0
          PROVE  /\ launched'[key] = 1
                 /\ \E t \in DOMAIN tasks' : /\ tasks'[t].key = key
                                             /\ tasks'[t].status \notin {"planned", "awaiting_approval"}
      <4>1. PICK t \in DOMAIN tasks : /\ tasks[t].key = key
                                      /\ tasks[t].status \notin {"planned", "awaiting_approval"}
        BY <2>4, <3>4 DEF Single
      <4>2. t \in DOMAIN tasks' /\ tasks'[t].key = key
        BY <1>5, <4>1
      <4>3. CASE t = id
        <5>1. id <= Len(tasks) /\ id = j.ids[i]
          BY <1>5, <4>1, <4>3
        <5>2. \/ tasks'[id].status = tasks[id].status
              \/ tasks[id].status \in {"planned", "awaiting_approval"}
              \/ j.states[i] = "busy"
          BY <1>2, <5>1 DEF Asked
        <5>3. tasks'[t].status \notin {"planned", "awaiting_approval"}
          BY <2>2, <4>1, <4>3, <5>1, <5>2
        <5> QED
          BY <2>4, <3>4, <4>2, <5>3 DEF Single
      <4>4. CASE t # id
        <5>1. tasks'[t].status = tasks[t].status
          BY <1>5, <4>1, <4>4
        <5> QED
          BY <2>4, <3>4, <4>1, <4>2, <5>1 DEF Single
      <4> QED
        BY <4>3, <4>4
    <3>5. ASSUME launched'[key] # launched[key]
          PROVE  /\ launched'[key] = 1
                 /\ \E t \in DOMAIN tasks' : /\ tasks'[t].key = key
                                             /\ tasks'[t].status \notin {"planned", "awaiting_approval"}
      <4>1. st = "busy" /\ launched' = [launched EXCEPT ![tasks'[id].key] = @ + 1]
        BY <1>2, <3>5 DEF Asked
      <4> DEFINE own == p.line[i]
      <4>2. own \in AllKeys /\ launched' = [launched EXCEPT ![own] = launched[own] + 1]
        BY <1>4, <1>8, <4>1
      <4> HIDE DEF own
      <4>3. key = own /\ launched'[key] = launched[key] + 1
        BY <2>3, <3>5, <4>2
      <4>4. tasks'[id].status = "running" /\ tasks'[id].key = key /\ id \in DOMAIN tasks'
        BY <1>2, <1>4, <1>5, <4>1, <4>3 DEF Asked, own
      <4>5. launched[key] = 0
        <5> SUFFICES ASSUME launched[key] # 0 PROVE FALSE
          OBVIOUS
        <5>1. PICK t \in DOMAIN tasks : /\ tasks[t].key = key
                                        /\ tasks[t].status \notin {"planned", "awaiting_approval"}
          BY <2>4 DEF Single
        <5>2. key \in KnownIn(tasks)
          BY <5>1 DEF KnownIn
        <5>3. id <= Len(tasks) /\ id \in DOMAIN tasks
          BY <1>5, <3>1, <4>3, <5>2 DEF own
        <5>4. tasks[id].status \in {"planned", "awaiting_approval"} /\ tasks[id].key = key
          BY <1>2, <1>5, <4>1, <4>4, <5>3 DEF Asked
        <5>5. t = id
          BY <2>4, <5>1, <5>3, <5>4 DEF Single
        <5> QED
          BY <5>1, <5>4, <5>5
      <4> QED
        BY <4>3, <4>4, <4>5
    <3> QED
      BY <3>3, <3>4, <3>5 DEF Single
  <2>5. \A key \in AllKeys : launched'[key] # 0 => Request(key).effect = "mutate"
    BY <2>1 DEF OnceInv, LaunchInv
  <2>6. \A n \in DOMAIN def : Planner(n) /\ n \notin lost =>
           \A key \in AllKeys : key.node = Target(n) => Single(tasks', key, launched'[key])
    BY <2>4 DEF OnceInv, LaunchInv
  <2> QED
    BY <1>5, <1>7, <2>5, <2>6 DEF LaunchInv
\* HeldInv
<1>12. HeldInv'
  <2>1. ASSUME NEW n \in DOMAIN def, Planner(n), n \notin lost
        PROVE  /\ \A k \in jobs' : k.node = n => Covers(k.ids, Plan(n), tasks')
               /\ n \in DOMAIN wave.results => Covers(wave.results[n].ids, Plan(n), tasks')
               /\ Unattended(n)' /\ Status(n) \notin DoneStatus =>
                     Covers(run.nodes[n].ids, Plan(n), tasks')
    <3>1. /\ \A k \in jobs : k.node = n => Covers(k.ids, Plan(n), tasks)
          /\ n \in DOMAIN wave.results => Covers(wave.results[n].ids, Plan(n), tasks)
          /\ Unattended(n) /\ Status(n) \notin DoneStatus => Covers(run.nodes[n].ids, Plan(n), tasks)
      BY <1>1, <2>1 DEF OnceInv, HeldInv
    <3>2. \A m \in 1..Plan(n).goal : Plan(n).line[m].node = Target(n)
      <4>1. Plan(n).goal \in 0..Len(Plan(n).line)
            /\ \A m \in 1..Len(Plan(n).line) : Plan(n).line[m].node = Target(n)
            /\ Len(Plan(n).line) \in Nat
        BY PlanFacts DEF TypeInv, PlanForm
      <4> QED
        BY <4>1
    <3>3. ASSUME NEW m \in 1..Plan(n).goal, Plan(n).line[m] \in KnownIn(tasks'),
                 Plan(n).line[m] \notin KnownIn(tasks)
          PROVE  /\ j.node = n /\ j.alive /\ n \notin DOMAIN wave.results /\ m = i
                 /\ \A k \in jobs : k.node = n => k = j
      <4>1. SomeId(j.ids, i) = 0 /\ Plan(n).line[m] = p.line[i]
        BY <1>9, <3>3
      <4>2. Target(n) = Target(j.node)
        BY <1>8, <3>2, <4>1
      <4>3. /\ j.node = n /\ j.alive /\ n \notin DOMAIN wave.results
            /\ \A k \in jobs : k.node = n => k = j
        BY <1>4, <2>1, <4>1, <4>2, PlansAlone DEF p
      <4>4. Injective(p.line) /\ p = Plan(n) /\ p.line \in Seq(AllKeys) /\ p.goal \in 0..Len(p.line)
        BY <1>1, <4>3, PlanFacts DEF p, TypeInv, PlanForm
      <4>5. m \in DOMAIN p.line /\ i \in DOMAIN p.line
        BY <1>4, <3>3, <4>4
      <4>6. m = i
        BY <4>1, <4>4, <4>5 DEF Injective
      <4> QED
        BY <4>3, <4>6
    <3>4. ASSUME NEW k \in jobs', k.node = n
          PROVE  Covers(k.ids, Plan(n), tasks')
      <4>1. CASE k = next
        <5>1. j.node = n /\ Covers(j.ids, Plan(n), tasks)
          BY <1>3, <3>1, <3>4, <4>1
        <5>2. DOMAIN j.ids = 1..Len(j.ids) /\ DOMAIN next.ids = 1..Len(j.ids)
          BY <1>2, <1>3, <1>6 DEF Plain
        <5>3. ASSUME NEW m \in 1..Plan(n).goal, Plan(n).line[m] \in KnownIn(tasks')
              PROVE  m \in DOMAIN next.ids /\ next.ids[m] # 0
          <6>1. CASE Plan(n).line[m] \in KnownIn(tasks)
            <7>1. m \in DOMAIN j.ids /\ j.ids[m] # 0
              BY <5>1, <6>1 DEF Covers
            <7> QED
              BY <1>3, <1>5, <5>2, <7>1
          <6>2. CASE Plan(n).line[m] \notin KnownIn(tasks)
            BY <1>3, <1>5, <1>6, <3>3, <5>2, <5>3, <6>2
          <6> QED
            BY <6>1, <6>2
        <5> QED
          BY <4>1, <5>3 DEF Covers
      <4>2. CASE k # next
        <5>1. k \in jobs /\ k # j
          BY <1>3, <3>4, <4>2
        <5>2. \A m \in 1..Plan(n).goal : Plan(n).line[m] \in KnownIn(tasks') =>
                 Plan(n).line[m] \in KnownIn(tasks)
          BY <3>3, <3>4, <5>1
        <5> QED
          BY <3>1, <3>4, <5>1, <5>2 DEF Covers
      <4> QED
        BY <4>1, <4>2
    <3>5. ASSUME n \in DOMAIN wave.results
          PROVE  Covers(wave.results[n].ids, Plan(n), tasks')
      BY <3>1, <3>3, <3>5 DEF Covers
    <3>6. ASSUME Unattended(n)', Status(n) \notin DoneStatus
          PROVE  Covers(run.nodes[n].ids, Plan(n), tasks')
      <4>1. \A k \in jobs' : k.alive => k.node # n
        BY <3>6 DEF Unattended
      <4>2. ~(j.alive /\ j.node = n)
        BY <1>3, <4>1
      <4>3. Unattended(n)
        BY <1>3, <1>5, <3>6, <4>2 DEF Unattended
      <4> QED
        BY <3>1, <3>3, <3>6, <4>2, <4>3 DEF Covers
    <3> QED
      BY <3>4, <3>5, <3>6
  <2> QED
    BY <1>5, <1>7, <2>1 DEF HeldInv, Status
<1> QED
    BY <1>10, <1>11, <1>12 DEF OnceInv

LEMMA OnceBegins ==
    ASSUME Init
    PROVE  OnceInv
<1>1. /\ tasks = <<>> /\ wave = NoWave /\ jobs = {} /\ launched = [k \in AllKeys |-> 0]
      /\ \A n \in DOMAIN def : run.nodes[n] = NodeState("pending", <<>>, 0)
    BY DEF Init, AllKeys
<1>2. DOMAIN wave.results = {} /\ DOMAIN tasks = {} /\ KnownIn(tasks) = {}
    BY <1>1 DEF NoWave, KnownIn
<1>3. OnceJobs
    BY <1>1, <1>2 DEF OnceJobs, Status, NodeState
<1>4. LaunchInv
    BY <1>1, <1>2 DEF LaunchInv, Single
<1>5. HeldInv
    BY <1>1, <1>2 DEF HeldInv, Covers
<1> QED
    BY <1>3, <1>4, <1>5 DEF OnceInv

LEMMA OnceKept ==
    ASSUME TypeInv, SagaInv, TaskInv, OnceInv, Direct, "change" \notin faults, [Next]_vars
    PROVE  OnceInv'
<1>1. CASE Advance
    BY <1>1, AdvanceOnce
<1>2. CASE Gather
    BY <1>2, GatherOnce
<1>3. CASE UndoNext
    BY <1>3, UndoOnce
<1>4. CASE Commit
    BY <1>4, CommitOnce
<1>5. CASE Halt \/ Resume \/ Cancel
    BY <1>5, MovedOnce
<1>6. CASE Change
    BY <1>6 DEF Change, MayFault
<1>7. CASE Die \/ RecoverTasks
    BY <1>7, QuietOnce
<1>8. CASE RecoverRun
    BY <1>8, RecoverRunOnce
<1>9. ASSUME NEW j \in jobs, NEW i \in DOMAIN j.states,
             StartRequest(j, i) \/ Throw(j, i) \/ Answer(j, i)
      PROVE  OnceInv'
    BY <1>9, RequestOnce, ThrowOnce
<1>10. CASE UNCHANGED vars
    BY <1>10, StillOnce
<1> QED
    BY <1>1, <1>2, <1>3, <1>4, <1>5, <1>6, <1>7, <1>8, <1>9, <1>10 DEF Next

\* The requests of an approval are those of its operation.
LEMMA SharedKeys ==
    ASSUME PlainInv, NEW n \in DOMAIN def
    PROVE  /\ ExpectedKeys(Target(n)) = ExpectedKeys(n)
           /\ \A key \in ToSet(ExpectedKeys(n)) : key.node = Target(n)
<1>1. def \in Definitions
    BY DEF PlainInv
<1>2. /\ Target(n) \in DOMAIN def
      /\ def[n].type # "approval" => Target(n) = n
      /\ def[n].type = "approval" => def[Target(n)].type = "operation"
    BY SharedLine
<1>3. ExpectedKeys(Target(n)) = ExpectedKeys(n)
    BY <1>1, <1>2, ExpectedFacts, SlotsFacts
<1>4. ASSUME NEW key \in ToSet(ExpectedKeys(n)) PROVE key.node = Target(n)
  <2>1. \E b \in {1, 2} : key \in ToSet(Slots(n, b))
    <3> DEFINE one == Slots(n, 1)  two == Slots(n, 2)
    <3>1. one \in Seq(AllKeys) /\ two \in Seq(AllKeys)
      BY <1>1, ExpectedFacts
    <3>2. ExpectedKeys(n) = one \/ ExpectedKeys(n) = one \o two
      BY <1>1, ExpectedFacts
    <3> HIDE DEF one, two
    <3>3. key \in ToSet(one) \/ key \in ToSet(two)
      <4>1. CASE ExpectedKeys(n) = one
        BY <1>4, <4>1
      <4>2. CASE ExpectedKeys(n) = one \o two
        <5>1. PICK i \in DOMAIN (one \o two) : key = (one \o two)[i]
          BY <1>4, <4>2 DEF ToSet
        <5>2. (i \in DOMAIN one /\ key = one[i]) \/ \E m \in DOMAIN two : key = two[m]
          BY ONLY <3>1, <5>1
        <5> QED
          BY <5>2 DEF ToSet
      <4> QED
        BY <3>2, <4>1, <4>2
    <3> QED
      BY <3>3 DEF one, two
  <2>2. PICK b \in {1, 2} : key \in ToSet(Slots(n, b))
    BY <2>1
  <2> QED
    BY <1>1, <2>2, SlotsFacts DEF ToSet
<1> QED
    BY <1>3, <1>4

\* A request that was launched twice is of a node that lost an outcome.
LEMMA OnceShows ==
    ASSUME TypeInv, OnceInv, Direct
    PROVE  RerunOnlyIfLost
<1> SUFFICES ASSUME NEW k \in AllKeys, launched[k] > 1, k.node \notin Compensations
             PROVE  \E n \in lost : k \in ToSet(ExpectedKeys(n))
    BY DEF RerunOnlyIfLost, TypeInv, PlainInv
<1>1. PICK m \in DOMAIN def : k \in ToSet(ExpectedKeys(m))
    BY DEF AllKeys
<1>2. /\ k.node = Target(m) /\ ExpectedKeys(Target(m)) = ExpectedKeys(m)
      /\ Target(m) \in DOMAIN def /\ Target(Target(m)) = Target(m)
    BY <1>1, SharedKeys, SharedLine DEF TypeInv
<1>3. Target(m) \in Required
    BY <1>2 DEF Compensations
<1>4. PICK n \in DOMAIN def : Planner(n) /\ Target(n) = Target(m)
    BY <1>2, <1>3, PlannerFacts DEF TypeInv
<1>5. n \in lost
  <2> SUFFICES ASSUME n \notin lost PROVE FALSE
    OBVIOUS
  <2>1. Single(tasks, k, launched[k])
    BY <1>2, <1>4 DEF OnceInv, LaunchInv
  <2>2. launched[k] \in Nat
    BY DEF TypeInv, PlainInv
  <2> QED
    BY <2>1, <2>2 DEF Single
<1>6. ExpectedKeys(n) = ExpectedKeys(m)
    BY <1>2, <1>4, SharedKeys DEF TypeInv
<1> QED
    BY <1>1, <1>5, <1>6

\* packages/runtime-core/README.md:34 "Recovery replays committed work rather than
\* rerunning adapters": where predicates answer as before, and an operation waits for its
\* approval and has one at most, a mutation of a node runs twice only if a process that
\* went on has dropped an outcome of the node, or if it undoes another.
THEOREM RerunsAreOfLosses ==
    Spec /\ "change" \notin faults /\ Direct => []RerunOnlyIfLost
<1>1. RunInv /\ Steady /\ Direct /\ OnceInv => RerunOnlyIfLost
    BY OnceShows DEF RunInv
<1>2. RunInv /\ Steady /\ Direct /\ OnceInv /\ [Next]_vars =>
         RunInv' /\ Steady' /\ Direct' /\ OnceInv'
  <2>1. Steady /\ RunInv /\ [Next]_vars => RunInv' /\ Steady'
    BY RunKept, StepsFrame DEF Steady
  <2>2. Direct /\ [Next]_vars => Direct'
    BY StepsFrame, SamePlanners
  <2>3. RunInv /\ Steady /\ Direct /\ OnceInv /\ [Next]_vars => OnceInv'
    BY OnceKept DEF RunInv, Steady
  <2> QED
    BY <2>1, <2>2, <2>3
<1>3. "change" \notin faults => Steady
    BY DEF Steady
<1> QED
    BY RunBegins, OnceBegins, <1>1, <1>2, <1>3, PTL DEF Spec
-----------------------------------------------------------------------------
(* Graphs.  Kahn's algorithm puts a node below the nodes it depends on.            *)

\* The layers, one after the other.
LEMMA LayersSteps ==
    ASSUME NEW d, NEW C, C = Cardinality(DOMAIN d), C \in Nat
    PROVE  /\ Layers(d)[0].ready = {n \in DOMAIN d : d[n].dependsOn = <<>>}
           /\ Layers(d)[0].left = [n \in DOMAIN d |-> Len(d[n].dependsOn)]
           /\ \A k \in 1..C :
                 /\ Layers(d)[k].left = [n \in DOMAIN d |->
                       Layers(d)[k - 1].left[n] - Named(d, n, Layers(d)[k - 1].ready)]
                 /\ Layers(d)[k].ready = {n \in DOMAIN d : /\ Layers(d)[k - 1].left[n] > 0
                                                           /\ Layers(d)[k].left[n] = 0}
<1> DEFINE left(above)  == [n \in DOMAIN d |-> above.left[n] - Named(d, n, above.ready)]
           below(above) == [ready |-> {n \in DOMAIN d : above.left[n] > 0 /\ left(above)[n] = 0},
                            left  |-> left(above)]
           top == [ready |-> {n \in DOMAIN d : d[n].dependsOn = <<>>},
                   left  |-> [n \in DOMAIN d |-> Len(d[n].dependsOn)]]
           Step(g, i) == IF i = 0 THEN top ELSE below(g[i - 1])
           M == {m \in Nat : \E g : \A i \in 0..m : g[i] = Step(g, i)}
           Body(f) == [i \in 0..C |-> Step(f, i)]
<1>1. 0 \in M
  <2> DEFINE g == [m \in {0} |-> top]
  <2>1. \A i \in 0..0 : g[i] = Step(g, i)
    OBVIOUS
  <2> HIDE DEF g, Step
  <2> QED
    BY <2>1
<1>2. ASSUME NEW m \in Nat, m \in M PROVE m + 1 \in M
  <2> HIDE DEF below, top
  <2>1. PICK g : \A i \in 0..m : g[i] = Step(g, i)
    BY <1>2
  <2> DEFINE f == [i \in 0..(m + 1) |-> IF i <= m THEN g[i] ELSE below(g[m])]
  <2>2. ASSUME NEW i \in 0..(m + 1) PROVE f[i] = Step(f, i)
    <3>1. CASE i <= m
      <4>1. i \in 0..m /\ f[i] = g[i] /\ (i # 0 => f[i - 1] = g[i - 1])
        BY <3>1
      <4> QED
        BY <2>1, <4>1
    <3>2. CASE ~(i <= m)
      <4>1. i = m + 1 /\ i # 0 /\ i - 1 = m /\ m \in 0..(m + 1) /\ m <= m
        BY <3>2
      <4>2. f[i] = below(g[m]) /\ f[i - 1] = g[m]
        BY <4>1
      <4> QED
        BY <4>1, <4>2
    <3> QED
      BY <3>1, <3>2
  <2> HIDE DEF f, Step
  <2> QED
    BY <2>2
<1>3. C \in M
  <2> HIDE DEF M
  <2> QED
    BY <1>1, <1>2, Induction
<1>4. \E f : f = Body(f)
  <2> HIDE DEF below, top
  <2>1. PICK g : \A i \in 0..C : g[i] = Step(g, i)
    BY <1>3
  <2> DEFINE f == [i \in 0..C |-> g[i]]
  <2>2. \A i \in 0..C : f[i] = Step(f, i)
    <3> TAKE i \in 0..C
    <3>1. f[i] = g[i] /\ (i # 0 => f[i - 1] = g[i - 1])
      OBVIOUS
    <3> QED
      BY <2>1, <3>1
  <2>3. f = Body(f)
    BY <2>2
  <2> QED
    BY <2>3
<1> DEFINE layers == CHOOSE f : f = Body(f)
<1>5. Layers(d) = layers
    BY DEF Layers
<1> HIDE DEF Body
<1>6. layers = Body(layers)
    BY <1>4
<1> HIDE DEF layers
<1>7. layers = [i \in 0..C |-> Step(layers, i)]
    BY <1>6 DEF Body
<1> HIDE DEF Step, below, top
<1>8. layers[0] = Step(layers, 0) /\ \A i \in 1..C : layers[i] = Step(layers, i)
    BY <1>7
<1>9. layers[0] = top /\ \A i \in 1..C : layers[i] = below(layers[i - 1])
    BY <1>8 DEF Step
<1>10. /\ top.ready = {n \in DOMAIN d : d[n].dependsOn = <<>>}
       /\ top.left = [n \in DOMAIN d |-> Len(d[n].dependsOn)]
    BY DEF top
<1>11. ASSUME NEW above
       PROVE  /\ below(above).left = [n \in DOMAIN d |-> above.left[n] - Named(d, n, above.ready)]
              /\ below(above).ready = {n \in DOMAIN d : above.left[n] > 0
                                                       /\ below(above).left[n] = 0}
  <2>1. below(above).left = left(above)
    BY DEF below
  <2>2. below(above).ready = {n \in DOMAIN d : above.left[n] > 0 /\ left(above)[n] = 0}
    BY DEF below
  <2> QED
    BY <2>1, <2>2
<1> HIDE DEF left
<1>12. ASSUME NEW i \in 1..C
       PROVE  /\ layers[i].left = [n \in DOMAIN d |->
                     layers[i - 1].left[n] - Named(d, n, layers[i - 1].ready)]
              /\ layers[i].ready = {n \in DOMAIN d : layers[i - 1].left[n] > 0
                                                     /\ layers[i].left[n] = 0}
    BY <1>9, <1>11
<1> QED
    BY <1>5, <1>9, <1>10, <1>12

\* The dependencies of a node are in the layers above it.
LEMMA LayersAbove ==
    ASSUME NEW d, NEW C, C = Cardinality(DOMAIN d), C \in Nat,
           \A n \in DOMAIN d : d[n].dependsOn \in Seq(DOMAIN d)
    PROVE  \A k \in 0..C : \A n \in Layers(d)[k].ready : \A p \in Dependencies(d, n) :
              \E above \in 0..(k - 1) : p \in Layers(d)[above].ready
<1> DEFINE L == Layers(d)
           Above(k) == UNION {L[m].ready : m \in 0..(k - 1)}
           Missing(n, k) == {i \in DOMAIN d[n].dependsOn : d[n].dependsOn[i] \notin Above(k)}
           P(k) == \A n \in DOMAIN d : /\ L[k].left[n] = Cardinality(Missing(n, k))
                                       /\ n \in L[k].ready => Missing(n, k) = {}
           S == {k \in Nat : \A m \in 0..k : m <= C => P(m)}
<1>1. /\ L[0].ready = {n \in DOMAIN d : d[n].dependsOn = <<>>}
      /\ L[0].left = [n \in DOMAIN d |-> Len(d[n].dependsOn)]
      /\ \A k \in 1..C :
            /\ L[k].left = [n \in DOMAIN d |-> L[k - 1].left[n] - Named(d, n, L[k - 1].ready)]
            /\ L[k].ready = {n \in DOMAIN d : L[k - 1].left[n] > 0 /\ L[k].left[n] = 0}
    BY LayersSteps
<1>2. ASSUME NEW n \in DOMAIN d
      PROVE  /\ DOMAIN d[n].dependsOn = 1..Len(d[n].dependsOn) /\ Len(d[n].dependsOn) \in Nat
             /\ IsFiniteSet(DOMAIN d[n].dependsOn)
             /\ Cardinality(DOMAIN d[n].dependsOn) = Len(d[n].dependsOn)
  <2> DEFINE list == d[n].dependsOn
  <2>1. list \in Seq(DOMAIN d)
    OBVIOUS
  <2> HIDE DEF list
  <2>2. DOMAIN list = 1..Len(list) /\ Len(list) \in Nat
    BY <2>1
  <2>3. IsFiniteSet(1..Len(list)) /\ Cardinality(1..Len(list)) =
           IF 1 > Len(list) THEN 0 ELSE Len(list) - 1 + 1
    <3>1. 1 \in Int /\ Len(list) \in Int
      BY <2>2
    <3> QED
      BY <3>1, FS_Interval
  <2>4. (IF 1 > Len(list) THEN 0 ELSE Len(list) - 1 + 1) = Len(list)
    BY <2>2
  <2> QED
    BY <2>2, <2>3, <2>4 DEF list
<1>3. 0 \in S
  <2>1. Above(0) = {}
    OBVIOUS
  <2>2. \A n : Missing(n, 0) = DOMAIN d[n].dependsOn
    BY <2>1
  <2> HIDE DEF L, Above, Missing
  <2>3. P(0)
    BY <1>1, <1>2, <2>2
  <2> HIDE DEF P
  <2> QED
    BY <2>3
<1>4. ASSUME NEW k \in Nat, k \in S PROVE k + 1 \in S
  <2>0. \A m \in 0..k : m <= C => P(m)
    <3> HIDE DEF P
    <3> QED
      BY <1>4
  <2>1. ASSUME k + 1 <= C, NEW n \in DOMAIN d
        PROVE  /\ L[k + 1].left[n] = Cardinality(Missing(n, k + 1))
               /\ n \in L[k + 1].ready => Missing(n, k + 1) = {}
    <3>0. k \in 0..C /\ k + 1 \in 1..C /\ (k + 1) - 1 = k
      BY <2>1
    <3>1. \A m \in 0..k : P(m)
      <4> HIDE DEF P
      <4> QED
        BY <2>0, <3>0
    <3> HIDE DEF L
    <3> DEFINE here == {i \in DOMAIN d[n].dependsOn : d[n].dependsOn[i] \in L[k].ready}
    <3>2. Above(k + 1) = Above(k) \cup L[k].ready
      <4>1. \A m : m \in 0..((k + 1) - 1) <=> m \in 0..(k - 1) \/ m = k
        OBVIOUS
      <4> QED
        BY <4>1
    <3>3. ASSUME NEW p \in DOMAIN d, p \in L[k].ready, p \in Above(k) PROVE FALSE
      <4>1. PICK m \in 0..(k - 1) : p \in L[m].ready
        BY <3>3
      <4>2. m \in 0..k /\ k - 1 \in 0..k /\ m <= k - 1 /\ k \in 1..C
        BY <3>0, <4>1
      <4>3. Missing(p, m) = {}
        BY <3>1, <3>3, <4>1, <4>2
      <4>4. Above(m) \subseteq Above(k - 1)
        BY <4>2
      <4>5. Missing(p, k - 1) = {}
        BY <4>3, <4>4
      <4> HIDE DEF Missing, Above
      <4>6. L[k - 1].left[p] = 0
        BY <3>1, <4>2, <4>5, FS_EmptySet
      <4>7. L[k].ready = {q \in DOMAIN d : L[k - 1].left[q] > 0 /\ L[k].left[q] = 0}
        BY <1>1, <4>2
      <4> QED
        BY ONLY <3>3, <4>6, <4>7
    <3>4. Missing(n, k) = Missing(n, k + 1) \cup here /\ Missing(n, k + 1) \cap here = {}
      <4>1. \A i \in DOMAIN d[n].dependsOn : d[n].dependsOn[i] \in DOMAIN d
        BY <1>2
      <4> HIDE DEF Above
      <4> QED
        BY <3>2, <3>3, <4>1
    <3>5. IsFiniteSet(Missing(n, k + 1)) /\ IsFiniteSet(here)
      <4>1. Missing(n, k + 1) \subseteq DOMAIN d[n].dependsOn /\ here \subseteq DOMAIN d[n].dependsOn
        OBVIOUS
      <4> HIDE DEF Missing, here
      <4> QED
        BY <1>2, <4>1, FS_Subset
    <3>6. Named(d, n, L[k].ready) = Cardinality(here)
      BY DEF Named
    <3> HIDE DEF Missing, Above, here
    <3>7. /\ Cardinality(Missing(n, k)) = Cardinality(Missing(n, k + 1)) + Cardinality(here)
          /\ Cardinality(Missing(n, k + 1)) \in Nat /\ Cardinality(here) \in Nat
      <4>1. Cardinality(Missing(n, k + 1) \cap here) = 0
        BY <3>4, FS_EmptySet
      <4>2. Cardinality(Missing(n, k + 1)) \in Nat /\ Cardinality(here) \in Nat
        BY <3>5, FS_CardinalityType
      <4>3. Cardinality(Missing(n, k + 1) \cup here) =
               Cardinality(Missing(n, k + 1)) + Cardinality(here)
                  - Cardinality(Missing(n, k + 1) \cap here)
        BY <3>5, FS_Union
      <4> QED
        BY <3>4, <4>1, <4>2, <4>3
    <3>8. L[k].left[n] = Cardinality(Missing(n, k))
      BY <3>0, <3>1
    <3>9. L[k + 1].left[n] = L[k].left[n] - Named(d, n, L[k].ready)
      <4>1. L[k + 1].left = [q \in DOMAIN d |->
                L[(k + 1) - 1].left[q] - Named(d, q, L[(k + 1) - 1].ready)]
        BY <1>1, <3>0
      <4> QED
        BY <2>1, <3>0, <4>1
    <3>10. L[k + 1].left[n] = Cardinality(Missing(n, k + 1))
      BY <3>6, <3>7, <3>8, <3>9
    <3>11. n \in L[k + 1].ready => L[k + 1].left[n] = 0
      <4>1. L[k + 1].ready = {q \in DOMAIN d : /\ L[(k + 1) - 1].left[q] > 0
                                              /\ L[k + 1].left[q] = 0}
        BY <1>1, <3>0
      <4> QED
        BY ONLY <4>1
    <3> QED
      BY <3>5, <3>10, <3>11, FS_EmptySet
  <2> HIDE DEF L, Missing
  <2>2. k + 1 <= C => P(k + 1)
    BY <2>1
  <2>3. \A m \in 0..(k + 1) : m \in 0..k \/ m = k + 1
    OBVIOUS
  <2> HIDE DEF P
  <2> QED
    BY <1>4, <2>2, <2>3
<1>5. ASSUME NEW k \in 0..C PROVE P(k)
  <2> HIDE DEF S, P
  <2>1. k \in S
    BY <1>3, <1>4, Induction
  <2> QED
    BY <2>1 DEF S
<1>6. ASSUME NEW k \in 0..C, NEW n \in L[k].ready, NEW p \in Dependencies(d, n)
      PROVE  p \in Above(k)
  <2>1. n \in DOMAIN d
    <3> HIDE DEF L
    <3>1. k = 0 \/ k \in 1..C
      OBVIOUS
    <3> QED
      BY <1>1, <1>6, <3>1
  <2>2. Missing(n, k) = {}
    BY <1>5, <1>6, <2>1
  <2>3. PICK i \in DOMAIN d[n].dependsOn : p = d[n].dependsOn[i]
    BY <1>6 DEF Dependencies
  <2> HIDE DEF L, Above
  <2> QED
    BY <2>2, <2>3
<1> QED
    BY <1>6

\* Of any nodes of an acyclic definition, one depends on none of the others.
LEMMA AcyclicHasFirst ==
    ASSUME def \in Definitions, NEW some, some \subseteq DOMAIN def, some # {}
    PROVE  \E n \in some : Dependencies(def, n) \cap some = {}
<1> DEFINE C == Cardinality(DOMAIN def)  L == Layers(def)
<1>1. C \in Nat
  <2>1. DOMAIN def \subseteq ToSet(Order) /\ Order \in Seq(ToSet(Order))
    BY NodesAssumption
  <2> DEFINE all == ToSet(Order)  n == Len(Order)
  <2>2. Order \in [1..n -> all] /\ n \in Nat /\ all = {Order[i] : i \in 1..n}
    BY <2>1 DEF ToSet
  <2> HIDE DEF all, n
  <2>3. Order \in Surjection(1..n, all)
    BY <2>2 DEF Surjection
  <2>4. IsFiniteSet(1..n)
    BY <2>2, FS_Interval
  <2>5. IsFiniteSet(all)
    BY <2>3, <2>4, FS_Surjection
  <2>6. IsFiniteSet(DOMAIN def)
    BY <2>1, <2>5, FS_Subset DEF all
  <2> QED
    BY <2>6, FS_CardinalityType
<1>2. /\ IsAcyclic(def)
      /\ \A n \in DOMAIN def : def[n].dependsOn \in Seq(DOMAIN def)
    BY NodesAssumption DEF ValidWorkflow, NodeFits
<1>3. \A k \in 0..C : \A n \in L[k].ready : \A p \in Dependencies(def, n) :
         \E above \in 0..(k - 1) : p \in L[above].ready
    BY <1>1, <1>2, LayersAbove
<1>4. \A n \in DOMAIN def : \E k \in 0..C : n \in L[k].ready
    BY <1>2 DEF IsAcyclic
<1> HIDE DEF C, L
<1> DEFINE Q == {k \in 1..(C + 1) : \E n \in some : n \in L[k - 1].ready}
<1>5. PICK e \in 1..(C + 1) : e \in Q
  <2>1. PICK n \in some : TRUE
    OBVIOUS
  <2>2. PICK k \in 0..C : n \in L[k].ready
    BY <1>4, <2>1
  <2>3. k + 1 \in 1..(C + 1) /\ (k + 1) - 1 = k
    BY <1>1, <2>2
  <2> QED
    BY <2>2, <2>3
<1>6. PICK f \in 1..(C + 1) : f \in Q /\ \A m \in 1..(f - 1) : m \notin Q
  <2> HIDE DEF Q
  <2>1. C + 1 \in Nat
    BY <1>1
  <2> QED
    BY <1>5, <2>1, FirstOf
<1>7. PICK n \in some : n \in L[f - 1].ready
    BY <1>6
<1>8. ASSUME NEW p \in Dependencies(def, n), p \in some PROVE FALSE
  <2>1. f - 1 \in 0..C
    BY <1>1, <1>6
  <2>2. PICK above \in 0..(f - 1 - 1) : p \in L[above].ready
    BY <1>3, <1>7, <1>8, <2>1
  <2>3. above + 1 \in 1..(f - 1) /\ above + 1 \in 1..(C + 1) /\ (above + 1) - 1 = above
    BY <1>1, <1>6, <2>2
  <2>4. above + 1 \in Q
    BY <1>8, <2>2, <2>3
  <2> QED
    BY <1>6, <2>3, <2>4
<1> QED
    BY <1>8

-----------------------------------------------------------------------------
(* Work.  A run that calls itself running has work, for a node is only kept from    *)
(* the next advance by a node that is ready or waiting before it, and the run says   *)
(* what else keeps it.  What has to be shown for that is that a run does not forget   *)
(* a failed node, nor one whose task needs reconciliation unless its outcome was lost, *)
(* and that a run of which all nodes are complete is complete.                        *)

\* No required node depends on a compensation (it would wait forever).
Closed == \A n \in Required : Dependencies(def, n) \subseteq Required

\* A job goes on, perhaps unattended.
Continues(j, k) == /\ j.node = k.node /\ j.ids = k.ids /\ j.states = k.states
                   /\ j.answer = k.answer /\ (j.alive => k.alive)

\* What the steps of a wave do with jobs and results, before the wave is committed.
LEMMA WaveMeans ==
    ASSUME TypeInv, SagaInv,
           Advance \/ Gather \/ UndoNext \/ \E j \in jobs : \E i \in DOMAIN j.states : Throw(j, i)
    PROVE  /\ UNCHANGED <<def, faults, answers, mode, run, tasks>> /\ mode = "serving"
           /\ lost \subseteq lost'
           /\ \A j \in jobs' : \E k :
                 /\ Continues(j, k)
                 /\ \/ k \in jobs
                    \/ \E n \in WaveOf(run) : k \in Jobs(n)
                    \/ k.node \in Compensations /\ DOMAIN k.states = {1} /\ k.states[1] = "todo"
           /\ \A n \in DOMAIN wave'.results :
                 \/ n \in DOMAIN wave.results /\ wave'.results[n] = wave.results[n]
                 \/ \E j \in jobs : j.alive /\ j.node = n /\ wave'.results[n] = Outcome(j)
                 \/ n \in Compensations /\ wave'.results[n].status = "skipped"
<1>1. \A j \in jobs : JobForm(j)
    BY DEF SagaInv, FormInv
<1>2. \A j : Continues(j, j)
    BY DEF Continues
<1>3. \A k, j : JobForm(k) /\ j = [k EXCEPT !.alive = FALSE] => Continues(j, k)
    BY DEF JobForm, Continues
<1>4. NoWave.results = <<>> /\ DOMAIN <<>> = {}
    BY DEF NoWave
<1>5. ASSUME Advance
      PROVE  /\ UNCHANGED <<def, faults, answers, mode, run, tasks>> /\ mode = "serving"
             /\ lost \subseteq lost' /\ DOMAIN wave'.results = {}
             /\ \A j \in jobs' : \E k :
                   Continues(j, k) /\ (k \in jobs \/ \E n \in WaveOf(run) : k \in Jobs(n))
  <2> DEFINE nodes == WaveOf(run)
  <2>1. PICK begin \in [nodes -> UNION {Jobs(n) : n \in nodes}] :
           /\ \A n \in nodes : begin[n] \in Jobs(n)
           /\ LET started == {begin[n] : n \in nodes}
              IN \/ Reject(nodes, jobs \cup started)
                 \/ /\ jobs' = jobs \cup started
                    /\ wave' = [NoWave EXCEPT !.phase = "work", !.base = run.nodes]
                    /\ UNCHANGED <<history, count>>
      BY <1>5, Zenon DEF Advance
  <2> DEFINE started == {begin[n] : n \in nodes}
  <2>2. /\ UNCHANGED <<def, faults, answers, mode, run, tasks>> /\ mode = "serving"
        /\ lost \subseteq lost'
    BY <1>5, <2>1 DEF Advance, Reject, history
  <2>3. DOMAIN wave'.results = {}
    BY <1>4, <2>1 DEF Reject, NoWave
  <2>4. \A k \in jobs \cup started : JobForm(k) /\ (k \in jobs \/ \E n \in nodes : k \in Jobs(n))
    <3> SUFFICES ASSUME NEW n \in nodes
                 PROVE  JobForm(begin[n])
      BY <1>1, <2>1
    <3>1. n \in DOMAIN def /\ begin[n] \in Jobs(n)
      BY <2>1, WaveFacts
    <3> QED
      BY <3>1, JobFacts
  <2>5. \A j \in jobs' : \E k \in jobs \cup started : j = k \/ j = [k EXCEPT !.alive = FALSE]
    BY <2>1 DEF Reject
  <2> HIDE DEF started, nodes
  <2>6. \A j \in jobs' : \E k \in jobs \cup started : Continues(j, k)
    BY <1>2, <1>3, <2>4, <2>5
  <2> QED
    BY <2>2, <2>3, <2>4, <2>6 DEF nodes
<1>6. ASSUME NEW j \in jobs, NEW i, Throw(j, i)
      PROVE  /\ UNCHANGED <<def, faults, answers, mode, run, tasks>> /\ mode = "serving"
             /\ lost \subseteq lost' /\ DOMAIN wave'.results = {}
             /\ \A other \in jobs' : \E k \in jobs : Continues(other, k)
  <2> DEFINE nodes == {k.node : k \in {k \in jobs : k.alive}} \cup DOMAIN wave.results
  <2>1. /\ UNCHANGED <<def, faults, answers, mode, run, tasks>> /\ Reject(nodes, jobs \ {j})
    BY <1>6 DEF Throw
  <2> HIDE DEF nodes
  <2>2. mode = "serving"
    BY DEF SagaInv, WaveInv
  <2>3. /\ lost \subseteq lost' /\ DOMAIN wave'.results = {}
        /\ \A other \in jobs' : \E k \in jobs : other = [k EXCEPT !.alive = FALSE]
    BY <1>4, <2>1 DEF Reject
  <2> QED
    BY <1>1, <1>3, <2>1, <2>2, <2>3
<1>7. ASSUME Gather
      PROVE  /\ UNCHANGED <<def, faults, answers, mode, run, tasks, lost>> /\ mode = "serving"
             /\ jobs' \subseteq jobs
             /\ \A n \in DOMAIN wave'.results :
                   \E j \in jobs : j.alive /\ j.node = n /\ wave'.results[n] = Outcome(j)
  <2> DEFINE over    == {j \in jobs : j.alive}
             results == [n \in {j.node : j \in over} |-> Outcome(CHOOSE j \in over : j.node = n)]
  <2>1. /\ UNCHANGED <<def, faults, answers, mode, run, tasks, lost>> /\ wave.phase = "work"
        /\ wave' = [wave EXCEPT !.phase = "undo", !.results = results, !.undo = ToUndo(results)]
        /\ jobs' = jobs \ over
    BY <1>7 DEF Gather, history
  <2>2. wave'.results = results /\ DOMAIN results = {j.node : j \in over}
    BY <2>1 DEF SagaInv, FormInv, WaveForm
  <2>3. mode = "serving"
    BY <2>1 DEF SagaInv, WaveInv, NoWave
  <2>4. \A n \in DOMAIN results : \E j \in jobs : j.alive /\ j.node = n /\ results[n] = Outcome(j)
    BY <2>2
  <2>5. jobs' \subseteq jobs
    BY <2>1
  <2> HIDE DEF over, results
  <2> QED
    BY <2>1, <2>2, <2>3, <2>4, <2>5
<1>8. ASSUME UndoNext
      PROVE  /\ UNCHANGED <<def, faults, answers, mode, run, tasks, lost>> /\ mode = "serving"
             /\ \A j \in jobs' : \/ j \in jobs
                                 \/ /\ j.node \in Compensations
                                    /\ DOMAIN j.states = {1} /\ j.states[1] = "todo"
             /\ \A n \in DOMAIN wave'.results :
                   \/ n \in DOMAIN wave.results /\ wave'.results[n] = wave.results[n]
                   \/ \E j \in jobs : j.alive /\ j.node = n /\ wave'.results[n] = Outcome(j)
                   \/ n \in Compensations /\ wave'.results[n].status = "skipped"
  <2> DEFINE m == Head(wave.undo)
             fresh == [Job(m, 1, "none") EXCEPT !.ids = <<SomeId(wave.base[m].ids, 1)>>]
  <2>1. /\ m \in Compensations /\ m \in DOMAIN def /\ wave.phase = "undo"
        /\ UNCHANGED <<def, faults, answers, mode, run, tasks, lost>>
    BY <1>8, UndoMeans
  <2>2. mode = "serving"
    BY <2>1 DEF SagaInv, WaveInv, NoWave
  <2>3. \/ wave'.results = Noted(m, NodeState("skipped", <<>>, 0)) /\ UNCHANGED jobs
        \/ UNCHANGED wave /\ jobs' = jobs \cup {fresh}
        \/ \E j \in jobs : /\ j.alive /\ j.node = m
                           /\ wave'.results = Noted(m, Outcome(j)) /\ jobs' = jobs \ {j}
    BY <1>8, UndoMeans
  <2>4. fresh.node = m /\ DOMAIN fresh.states = {1} /\ fresh.states[1] = "todo"
    <3>1. wave.base[m].ids \in Seq(1..Len(tasks)) /\ Len(tasks) \in Nat
      BY <2>1 DEF TypeInv, NodesInv, NodeTyped, Typed
    <3>2. SomeId(wave.base[m].ids, 1) \in 0..Len(tasks)
      BY <3>1, SomeIdTyped
    <3> DEFINE id == SomeId(wave.base[m].ids, 1)
    <3>3. id \in 0..Len(tasks) /\ FormInv
      BY <3>2 DEF SagaInv
    <3>4. fresh = [Job(m, 1, "none") EXCEPT !.ids = <<id>>]
      OBVIOUS
    <3> HIDE DEF id, fresh, m
    <3>5. TypeInv /\ FormInv /\ m \in DOMAIN def /\ m \in Compensations
      BY <2>1, <3>3
    <3>6. PICK job : /\ job = [Job(m, 1, "none") EXCEPT !.ids = <<id>>] /\ job.node = m
                     /\ DOMAIN job.states = {1} /\ job.states[1] = "todo"
      BY ONLY <3>3, <3>5, UndoingJob
    <3> QED
      BY ONLY <3>4, <3>6
  <2> HIDE DEF m, fresh
  <2>5. NodeState("skipped", <<>>, 0).status = "skipped"
    BY DEF NodeState
  <2>6. \A j \in jobs' : j \in jobs \/ j = fresh
    BY <2>3
  <2>7. \/ UNCHANGED wave
        \/ \E state : /\ wave'.results = Noted(m, state)
                      /\ \/ state.status = "skipped"
                         \/ \E j \in jobs : j.alive /\ j.node = m /\ state = Outcome(j)
    BY <2>3, <2>5
  <2>8. ASSUME NEW n \in DOMAIN wave'.results
        PROVE  \/ n \in DOMAIN wave.results /\ wave'.results[n] = wave.results[n]
               \/ \E j \in jobs : j.alive /\ j.node = n /\ wave'.results[n] = Outcome(j)
               \/ n \in Compensations /\ wave'.results[n].status = "skipped"
    BY <2>1, <2>7 DEF Noted
  <2> QED
    BY <2>1, <2>2, <2>4, <2>6, <2>8
<1> QED
    BY <1>2, <1>5, <1>6, <1>7, <1>8


\* A job begins with tasks of its node, or of the approval of its node.
LEMMA BeginsFresh ==
    ASSUME TypeInv, SagaInv, NEW n \in DOMAIN def, NEW k \in Jobs(n)
    PROVE  /\ \A i \in DOMAIN k.states : k.states[i] \in {"verified_complete", "todo"}
           /\ \A i \in DOMAIN k.ids : k.ids[i] # 0 =>
                 \E m \in DOMAIN def : \E e \in DOMAIN run.nodes[m].ids :
                    Target(m) = Target(n) /\ k.ids[i] = run.nodes[m].ids[e]
<1>1. PICK b \in {1, 2}, answer \in Answers : k = Job(n, b, answer)
    BY JobsFacts
<1>2. /\ \A i \in DOMAIN k.states : k.states[i] \in {"verified_complete", "todo"}
      /\ \A i \in DOMAIN k.ids :
            k.ids[i] = IF i = 1 /\ def[n].type = "operation" THEN FirstId(n, run.nodes)
                       ELSE SomeId(run.nodes[n].ids, i)
    BY <1>1, JobBegins DEF SagaInv
<1>3. Target(n) \in DOMAIN def /\ (def[n].type = "operation" => Target(n) = n)
    BY SharedLine DEF TypeInv
<1> DEFINE approvals == {a \in DOMAIN def : /\ def[a].type = "approval" /\ def[a].refersTo = n
                                            /\ run.nodes[a].ids # <<>>}
<1>4. ASSUME def[n].type = "operation", FirstId(n, run.nodes) # 0
      PROVE  \E m \in DOMAIN def : \E e \in DOMAIN run.nodes[m].ids :
                Target(m) = Target(n) /\ FirstId(n, run.nodes) = run.nodes[m].ids[e]
  <2>1. FirstId(n, run.nodes) = IF approvals # {} THEN run.nodes[CHOOSE a \in approvals : TRUE].ids[1]
                                ELSE SomeId(run.nodes[n].ids, 1)
    BY DEF FirstId
  <2>2. CASE approvals # {}
    <3> DEFINE a == CHOOSE a \in approvals : TRUE
    <3>1. a \in approvals
      BY <2>2
    <3>2. /\ a \in DOMAIN def /\ run.nodes[a].ids # <<>> /\ Target(a) = n
          /\ FirstId(n, run.nodes) = run.nodes[a].ids[1]
      BY <2>1, <2>2, <3>1 DEF Target
    <3> HIDE DEF a
    <3> DEFINE list == run.nodes[a].ids  S == 1..Len(tasks)
    <3>3. list \in Seq(S) /\ list # <<>>
      BY <3>2 DEF TypeInv, NodesInv, NodeTyped, Typed
    <3> HIDE DEF list, S
    <3>4. 1 \in DOMAIN list
      BY ONLY <3>3
    <3> QED
      BY <1>3, <1>4, <3>2, <3>4 DEF list
  <2>3. CASE approvals = {}
    <3>1. FirstId(n, run.nodes) = SomeId(run.nodes[n].ids, 1)
      BY <2>1, <2>3
    <3> QED
      BY <1>4, <3>1 DEF SomeId
  <2> QED
    BY <2>2, <2>3
<1>5. ASSUME NEW i \in DOMAIN k.ids, k.ids[i] # 0
      PROVE  \E m \in DOMAIN def : \E e \in DOMAIN run.nodes[m].ids :
                Target(m) = Target(n) /\ k.ids[i] = run.nodes[m].ids[e]
  <2>1. CASE i = 1 /\ def[n].type = "operation"
    BY <1>2, <1>4, <1>5, <2>1
  <2>2. CASE ~(i = 1 /\ def[n].type = "operation")
    BY <1>2, <1>5, <2>2 DEF SomeId
  <2> QED
    BY <2>1, <2>2
<1> QED
    BY <1>2, <1>5

\* The outcome of a job is that of one of its requests, and has tasks of the job.
LEMMA OutcomeFrom ==
    ASSUME TypeInv, SagaInv, NEW j \in jobs
    PROVE  /\ Outcome(j).status \in {"ready", "recovery_required"} =>
                 \E i \in DOMAIN j.states : j.states[i] = Outcome(j).status
           /\ \A i \in DOMAIN Outcome(j).ids :
                 \E e \in DOMAIN j.ids : j.ids[e] # 0 /\ Outcome(j).ids[i] = j.ids[e]
<1>1. JobForm(j) /\ j.ids \in Seq(0..Len(tasks)) /\ j.states \in Seq(JobStatus)
    BY DEF SagaInv, FormInv, TypeInv, JobsInv, JobsTyped, JobTyped
<1>2. /\ Outcome(j).ids = Planned(j.ids)
      /\ LET status == IF j.answer # "none" THEN j.answer ELSE Aggregate(j.states)
         IN Outcome(j).status = IF j.node \in Compensations /\ status = "verified_complete"
                                THEN "compensated" ELSE status
    BY OutcomeTyped DEF SagaInv
<1>3. Aggregate(j.states) # "verified_complete" => Aggregate(j.states) \in ToSet(j.states)
    BY <1>1, AggregateFacts
<1>4. Outcome(j).status \in {"ready", "recovery_required"} =>
         \E i \in DOMAIN j.states : j.states[i] = Outcome(j).status
    BY <1>1, <1>2, <1>3 DEF ToSet, JobForm, Answers
<1>5. ASSUME NEW i \in DOMAIN Planned(j.ids)
      PROVE  \E e \in DOMAIN j.ids : j.ids[e] # 0 /\ Planned(j.ids)[i] = j.ids[e]
  <2> DEFINE list == j.ids  all == ToSet(list)  ids == Planned(list)
  <2>1. list \in Seq(all)
    <3> DEFINE S == 0..Len(tasks)
    <3>1. list \in Seq(S)
      BY <1>1
    <3> HIDE DEF list, S
    <3> QED
      BY <3>1 DEF ToSet
  <2>2. Planned(list) \in Seq(all \cap DOMAIN tasks)
    <3> HIDE DEF list, all
    <3> QED
      BY <2>1, AmongFacts DEF Planned
  <2>3. DOMAIN tasks = 1..Len(tasks)
    BY DEF TypeInv
  <2>4. Planned(list)[i] \in all \cap DOMAIN tasks
    <3> DEFINE S == all \cap DOMAIN tasks
    <3>1. ids \in Seq(S) /\ i \in DOMAIN ids
      BY <1>5, <2>2
    <3> HIDE DEF S, ids
    <3>2. ids[i] \in S
      BY ONLY <3>1
    <3> QED
      BY <3>2 DEF S, ids
  <2>5. \E e \in DOMAIN list : Planned(list)[i] = list[e]
    BY <2>4 DEF ToSet
  <2> HIDE DEF list, all, ids
  <2> QED
    BY <2>3, <2>4, <2>5 DEF list
<1> QED
    BY <1>2, <1>4, <1>5

-----------------------------------------------------------------------------
(* No task is merely ready when its node is recorded, and a node that failed is not *)
(* forgotten.                                                                     *)

NoReady ==
    /\ \A n \in DOMAIN def : Status(n) # "ready"
    /\ \A n \in DOMAIN wave.results : wave.results[n].status # "ready"
    /\ \A j \in jobs : \A i \in DOMAIN j.states : j.states[i] # "ready"

FailedInv == run.status \notin {"failed", "cancelled"} => \A n \in Required : Status(n) # "failed"

\* What a step does with the nodes of the run.
LEMMA RunMeans ==
    ASSUME TypeInv, SagaInv, [Next]_vars
    PROVE  \/ UNCHANGED run
           \/ /\ Halt \/ Resume \/ Cancel
              /\ \A n \in DOMAIN def :
                    /\ run'.nodes[n].ids = run.nodes[n].ids
                    /\ \/ run'.nodes[n].status = run.nodes[n].status
                       \/ /\ run'.nodes[n].status = "cancelled" /\ run'.status = "cancelled"
                          /\ run.nodes[n].status \in {"pending", "ready", "awaiting_approval"}
              /\ \/ run'.status = "cancelled"
                 \/ /\ run.status \notin {"failed", "cancelled", "verified_complete"}
                    /\ ~run.error \/ run.status = "paused"
           \/ /\ Commit /\ ~wave.moved /\ wave.phase = "undo" /\ run'.error = run.error
              /\ run.error => run'.status = run.status
              /\ run'.status = DeriveStatus(run'.nodes)
              /\ \A n \in DOMAIN def :
                    LET new == IF n \in DOMAIN wave.results THEN wave.results[n] ELSE run.nodes[n]
                    IN /\ run'.nodes[n].ids = new.ids
                       /\ run'.nodes[n] = new \/ (n \in Compensations /\ run'.nodes[n].status = "skipped")
           \/ /\ RecoverRun
              /\ run'.status = DeriveStatus(run'.nodes)
              /\ run'.error = (run'.status = "recovery_required")
              /\ \E choice \in Picks : \A n \in DOMAIN def :
                    LET new == RecoveredState(n, Chosen(n, choice))
                    IN /\ run'.nodes[n].ids = new.ids
                       /\ run'.nodes[n] = new \/ (n \in Compensations /\ run'.nodes[n].status = "skipped")
<1>1. FormInv /\ RunForm
    BY DEF SagaInv, FormInv
<1>2. CASE Halt \/ Resume \/ Cancel
  <2>1. CASE Halt \/ Resume
    <3>1. run'.nodes = run.nodes
      BY <1>1, <2>1 DEF Halt, Resume, RunForm
    <3>2. /\ run.status \notin {"failed", "cancelled", "verified_complete"}
          /\ ~run.error \/ run.status = "paused"
      BY <2>1 DEF Halt, Resume, Ended
    <3> QED
      BY <1>2, <3>1, <3>2
  <2>2. CASE Cancel
    <3> DEFINE open == {n \in DOMAIN def : run.nodes[n].status \in
                                             {"pending", "ready", "awaiting_approval"}}
    <3>1. /\ run'.status = "cancelled"
          /\ run'.nodes = [n \in DOMAIN def |-> IF n \in open
                              THEN [run.nodes[n] EXCEPT !.status = "cancelled"] ELSE run.nodes[n]]
      BY <2>2 DEF Cancel
    <3>2. \A n \in DOMAIN def : NodeForm(run.nodes[n])
      BY <1>1 DEF RunForm
    <3>3. \A n \in open : run.nodes[n].status \in {"pending", "ready", "awaiting_approval"}
      OBVIOUS
    <3> HIDE DEF open
    <3>4. \A n \in DOMAIN def :
             /\ run'.nodes[n].ids = run.nodes[n].ids
             /\ \/ run'.nodes[n].status = run.nodes[n].status
                \/ n \in open /\ run'.nodes[n].status = "cancelled"
      BY <3>1, <3>2 DEF NodeForm
    <3> QED
      BY <1>2, <3>1, <3>3, <3>4
  <2> QED
    BY <1>2, <2>1, <2>2
<1>3. CASE Commit
  <2>1. CASE UNCHANGED run
    BY <2>1
  <2>2. CASE /\ ~wave.moved /\ run'.nodes = SkipUnused(Merged) /\ run'.error = run.error
             /\ run'.status = DeriveStatus(SkipUnused(Merged))
             /\ run.error => run'.status = run.status
    <3>1. /\ DOMAIN Merged = DOMAIN def
          /\ \A n \in DOMAIN def : /\ NodeForm(Merged[n])
                                   /\ n \in DOMAIN wave.results => Merged[n] = wave.results[n]
                                   /\ n \notin DOMAIN wave.results => Merged[n] = run.nodes[n]
          /\ wave.phase = "undo"
      BY <1>3, CommitMeans
    <3>2. \A n \in DOMAIN def :
             /\ SkipUnused(Merged)[n].ids = Merged[n].ids
             /\ \/ SkipUnused(Merged)[n] = Merged[n]
                \/ n \in Compensations /\ SkipUnused(Merged)[n].status = "skipped"
      BY <3>1, SkipKeeps
    <3> QED
      BY <1>3, <2>2, <3>1, <3>2
  <2> QED
    BY <1>3, <2>1, <2>2, CommitMeans
<1>4. CASE RecoverRun
  <2>1. CASE UNCHANGED run
    BY <2>1
  <2>2. ASSUME NEW choice \in Picks, NEW nodes, nodes = SkipUnused(RecoveredNodes(choice)),
               run' = [status |-> DeriveStatus(nodes), nodes |-> nodes,
                       error |-> DeriveStatus(nodes) = "recovery_required"]
        PROVE  /\ run'.status = DeriveStatus(run'.nodes)
               /\ run'.error = (run'.status = "recovery_required")
               /\ \A n \in DOMAIN def :
                     LET new == RecoveredState(n, Chosen(n, choice))
                     IN /\ run'.nodes[n].ids = new.ids
                        /\ run'.nodes[n] = new \/ (n \in Compensations /\ run'.nodes[n].status = "skipped")
    <3> DEFINE given == RecoveredNodes(choice)
    <3>1. /\ DOMAIN given = DOMAIN def
          /\ \A n \in DOMAIN def : given[n] = RecoveredState(n, Chosen(n, choice))
      BY DEF RecoveredNodes
    <3>2. \A n \in DOMAIN def : Chosen(n, choice) \in Seq(1..Len(tasks))
      BY ChosenFacts
    <3>3. \A n \in DOMAIN def : NodeForm(given[n])
      BY <1>1, <3>1, <3>2, RecoveredFacts
    <3> HIDE DEF given
    <3>4. \A n \in DOMAIN def :
             /\ SkipUnused(given)[n].ids = given[n].ids
             /\ \/ SkipUnused(given)[n] = given[n]
                \/ n \in Compensations /\ SkipUnused(given)[n].status = "skipped"
      BY <3>1, <3>3, SkipKeeps
    <3>5. run'.nodes = SkipUnused(given) /\ run'.status = DeriveStatus(run'.nodes)
          /\ run'.error = (run'.status = "recovery_required")
      BY <2>2 DEF given
    <3> QED
      BY <3>1, <3>4, <3>5
  <2>3. UNCHANGED run \/ \E choice \in Picks :
           LET nodes == SkipUnused(RecoveredNodes(choice))
           IN run' = [status |-> DeriveStatus(nodes), nodes |-> nodes,
                      error |-> DeriveStatus(nodes) = "recovery_required"]
    BY <1>4, RecoverRunMeans
  <2> QED
    BY <1>4, <2>1, <2>2, <2>3
<1> QED
    BY <1>2, <1>3, <1>4, StepsFrame


\* The steps that neither start nor continue a job.
LEMMA RestMeans ==
    ASSUME TypeInv, SagaInv,
           Commit \/ Halt \/ Resume \/ Cancel \/ Change \/ Die \/ RecoverTasks \/ RecoverRun
              \/ UNCHANGED vars
    PROVE  /\ jobs' \subseteq jobs /\ UNCHANGED <<def, faults>> /\ lost \subseteq lost'
           /\ \A n \in DOMAIN wave'.results :
                 n \in DOMAIN wave.results /\ wave'.results[n] = wave.results[n]
<1>1. NoWave.results = <<>> /\ DOMAIN <<>> = {}
    BY DEF NoWave
<1>2. CASE Commit
  <2>1. /\ UNCHANGED <<def, faults, jobs>> /\ wave' = NoWave
        /\ lost \subseteq lost'
    BY <1>2, CommitMeans
  <2> QED
    BY <1>1, <2>1
<1>3. CASE Halt \/ Resume \/ Cancel
  <2>1. UNCHANGED <<def, faults, jobs, lost>> /\ Moved
    BY <1>3 DEF Halt, Resume, Cancel, history
  <2>2. wave'.results = wave.results
    BY <2>1, MovedMeans
  <2> QED
    BY <2>1, <2>2
<1>4. CASE Change \/ UNCHANGED vars
    BY <1>4 DEF Change, vars, history
<1>5. CASE Die
  <2>1. wave' = NoWave /\ jobs' = {} /\ UNCHANGED <<def, faults, lost>>
    BY <1>5, DieMeans DEF history
  <2> QED
    BY <1>1, <2>1
<1>6. CASE RecoverTasks
    BY <1>6 DEF RecoverTasks, history
<1>7. CASE RecoverRun
  <2>1. UNCHANGED <<def, faults, wave, jobs>> /\ lost \subseteq lost'
    BY <1>7, RecoverRunMeans
  <2> QED
    BY <2>1
<1> QED
    BY <1>2, <1>3, <1>4, <1>5, <1>6, <1>7

\* A request leaves the rest of its node, and other jobs, as they are.
LEMMA RequestLeaves ==
    ASSUME TypeInv, FormInv, NEW j \in jobs, NEW i \in DOMAIN j.states,
           StartRequest(j, i) \/ Answer(j, i)
    PROVE  \E id, st, next :
              /\ Replace(j, next) /\ Asked(j, i, id, st)
              /\ next.node = j.node /\ next.alive = j.alive /\ next.answer = j.answer
              /\ next.ids \in Seq(0..Len(tasks')) /\ Len(next.ids) = Len(j.ids)
              /\ \A m \in 1..Len(j.ids) : next.ids[m] = IF m = i THEN id ELSE j.ids[m]
              /\ \A m \in DOMAIN next.states :
                    next.states[m] = st \/ (m \in DOMAIN j.states /\ next.states[m] = j.states[m])
<1>1. PICK id, st, next :
         /\ Replace(j, next) /\ Became(j, next, i, id, st)
         /\ Plain(next, Len(tasks')) /\ Asked(j, i, id, st)
    BY RequestMeans
<1>2. /\ next.ids \in Seq(0..Len(tasks')) /\ next.states \in Seq(JobStatus)
      /\ Len(next.states) \in {i, Len(j.states)}
      /\ \A m \in 1..Len(next.states) : next.states[m] = IF m = i THEN st ELSE j.states[m]
      /\ next.node = j.node /\ next.alive = j.alive /\ next.answer = j.answer
      /\ Len(next.ids) = Len(j.ids)
      /\ \A m \in 1..Len(j.ids) : next.ids[m] = IF m = i THEN id ELSE j.ids[m]
    BY <1>1 DEF Became, Plain
<1>3. \A m \in DOMAIN next.states :
         next.states[m] = st \/ (m \in DOMAIN j.states /\ next.states[m] = j.states[m])
  <2>1. j.states \in Seq(JobStatus)
    BY DEF TypeInv, JobsInv, JobsTyped, JobTyped
  <2>2. i \in DOMAIN j.states
    OBVIOUS
  <2> DEFINE old == j.states  new == next.states
  <2>3. /\ old \in Seq(JobStatus) /\ new \in Seq(JobStatus) /\ i \in DOMAIN old
        /\ Len(new) \in {i, Len(old)}
        /\ \A m \in 1..Len(new) : new[m] = IF m = i THEN st ELSE old[m]
    BY <1>2, <2>1, <2>2
  <2> HIDE DEF old, new
  <2>4. DOMAIN new = 1..Len(new) /\ DOMAIN old = 1..Len(old) /\ Len(new) <= Len(old)
        /\ Len(new) \in Nat /\ Len(old) \in Nat
    BY ONLY <2>3
  <2> QED
    BY <2>3, <2>4 DEF old, new
<1> QED
    BY <1>1, <1>2, <1>3

\* Every step is of a wave, of a request, or of the rest.
LEMMA StepKinds ==
    ASSUME [Next]_vars
    PROVE  \/ Advance \/ Gather \/ UndoNext
              \/ \E j \in jobs : \E i \in DOMAIN j.states : Throw(j, i)
           \/ \E j \in jobs : \E i \in DOMAIN j.states : StartRequest(j, i) \/ Answer(j, i)
           \/ Commit \/ Halt \/ Resume \/ Cancel \/ Change \/ Die \/ RecoverTasks \/ RecoverRun
              \/ UNCHANGED vars
BY DEF Next

LEMMA NoReadyKept ==
    ASSUME TypeInv, SagaInv, NoReady, [Next]_vars
    PROVE  NoReady'
<1>1. UNCHANGED <<def, faults>>
    BY StepsFrame
<1>2. ASSUME NEW n \in DOMAIN def PROVE run'.nodes[n].status # "ready"
  <2>1. run.nodes[n].status # "ready"
    BY DEF NoReady, Status
  <2>2. ASSUME NEW choice \in Picks PROVE RecoveredState(n, Chosen(n, choice)).status # "ready"
    <3>1. Chosen(n, choice) \in Seq(1..Len(tasks))
      BY ChosenFacts
    <3> QED
      BY <2>1, <3>1, RecoveredFacts DEF SagaInv
  <2> QED
    BY <2>1, <2>2, RunMeans DEF NoReady
<1>3. /\ \A n \in DOMAIN wave'.results : wave'.results[n].status # "ready"
      /\ \A j \in jobs' : \A i \in DOMAIN j.states : j.states[i] # "ready"
  <2>1. CASE Advance \/ Gather \/ UndoNext \/ \E j \in jobs : \E i \in DOMAIN j.states : Throw(j, i)
    <3>1. \A j \in jobs : Outcome(j).status # "ready"
      BY OutcomeFrom DEF NoReady
    <3>2. ASSUME NEW n \in WaveOf(run), NEW k \in Jobs(n)
          PROVE  \A i \in DOMAIN k.states : k.states[i] # "ready"
      BY WaveFacts, BeginsFresh
    <3>3. \A n \in DOMAIN wave'.results : wave'.results[n].status # "ready"
      BY <2>1, <3>1, WaveMeans DEF NoReady
    <3>4. ASSUME NEW j \in jobs' PROVE \A i \in DOMAIN j.states : j.states[i] # "ready"
      <4>1. PICK k : /\ Continues(j, k)
                     /\ \/ k \in jobs
                        \/ \E n \in WaveOf(run) : k \in Jobs(n)
                        \/ k.node \in Compensations /\ DOMAIN k.states = {1} /\ k.states[1] = "todo"
        BY <2>1, WaveMeans
      <4> QED
        BY <3>2, <4>1 DEF NoReady, Continues
    <3> QED
      BY <3>3, <3>4
  <2>2. ASSUME NEW j \in jobs, NEW i \in DOMAIN j.states, StartRequest(j, i) \/ Answer(j, i)
        PROVE  /\ \A n \in DOMAIN wave'.results : wave'.results[n].status # "ready"
               /\ \A k \in jobs' : \A m \in DOMAIN k.states : k.states[m] # "ready"
    <3>1. PICK id, st, next :
             /\ Replace(j, next) /\ Asked(j, i, id, st)
             /\ \A m \in DOMAIN next.states :
                   next.states[m] = st \/ (m \in DOMAIN j.states /\ next.states[m] = j.states[m])
      BY <2>2, RequestLeaves DEF SagaInv
    <3>2. st # "ready" /\ UNCHANGED wave /\ jobs' = (jobs \ {j}) \cup {next}
      BY <3>1 DEF Asked, Replace
    <3> QED
      BY <3>1, <3>2 DEF NoReady
  <2>3. CASE Commit \/ Halt \/ Resume \/ Cancel \/ Change \/ Die \/ RecoverTasks \/ RecoverRun
                \/ UNCHANGED vars
    BY <2>3, RestMeans DEF NoReady
  <2> QED
    BY <2>1, <2>2, <2>3, StepKinds
<1> QED
    BY <1>1, <1>2, <1>3 DEF NoReady, Status

LEMMA FailedKept ==
    ASSUME TypeInv, SagaInv, FailedInv, [Next]_vars
    PROVE  FailedInv'
<1>1. UNCHANGED <<def, faults>> /\ Required' = Required /\ Required \subseteq DOMAIN def
    BY StepsFrame DEF Required
<1>2. ASSUME run'.status \notin {"failed", "cancelled"}, NEW n \in Required
      PROVE  run'.nodes[n].status # "failed"
    BY <1>1, <1>2, RunMeans, DerivedFacts DEF FailedInv, Status
<1> QED
    BY <1>1, <1>2 DEF FailedInv, Status

-----------------------------------------------------------------------------
(* Tasks.  Only a restart makes a task need reconciliation; and a verified task that *)
(* has no certificate stays so.                                                    *)

Surely(known, old) ==
    \A m \in 1..Len(old) : known[m].status = old[m].status /\ known[m].certified = old[m].certified

LEMMA TouchMore ==
    ASSUME NEW known, known \in Seq(TaskRecord), NEW id \in 1..Len(known), NEW status
    PROVE  \A m \in 1..Len(known) :
              /\ Touch(known, id, status)[m].certified = known[m].certified
              /\ Touch(known, id, status)[m].status = IF m = id THEN status ELSE known[m].status
<1> SUFFICES ASSUME NEW m \in 1..Len(known)
             PROVE  /\ Touch(known, id, status)[m].certified = known[m].certified
                    /\ Touch(known, id, status)[m].status = IF m = id THEN status
                                                                      ELSE known[m].status
    OBVIOUS
<1>1. known[m] \in TaskRecord /\ m \in DOMAIN known
  <2> HIDE DEF TaskRecord
  <2> QED
    OBVIOUS
<1>2. Touch(known, id, status)[m] =
         IF m = id THEN [known[m] EXCEPT !.status = status, !.latest = TRUE]
         ELSE [known[m] EXCEPT !.latest = @ /\ known[m].key # known[id].key]
    BY <1>1 DEF Touch
<1> DEFINE old == known[m]
<1>3. DOMAIN old = {"key", "certified", "latest", "status"}
    BY <1>1 DEF TaskRecord
<1> HIDE DEF old
<1>4. ASSUME NEW flag
      PROVE  /\ [old EXCEPT !.status = status, !.latest = TRUE].certified = old.certified
             /\ [old EXCEPT !.status = status, !.latest = TRUE].status = status
             /\ [old EXCEPT !.latest = flag].certified = old.certified
             /\ [old EXCEPT !.latest = flag].status = old.status
    BY <1>3
<1> DEFINE flag == old.latest /\ known[m].key # known[id].key
<1>5. Touch(known, id, status)[m] =
         IF m = id THEN [old EXCEPT !.status = status, !.latest = TRUE]
         ELSE [old EXCEPT !.latest = flag]
    BY <1>2 DEF old
<1> HIDE DEF flag
<1> QED
    BY <1>4, <1>5 DEF old

\* A task that is verified and has no certificate.
Uncertain(list, id) == list[id].status = "verified_success" /\ ~list[id].certified

LEMMA RequestRecords ==
    ASSUME TypeInv, FormInv, NEW j \in jobs, NEW i \in DOMAIN j.states,
           StartRequest(j, i) \/ Answer(j, i)
    PROVE  /\ \A id \in 1..Len(tasks') : tasks'[id].status = "recovery_required" =>
                 id \in 1..Len(tasks) /\ tasks[id].status = "recovery_required"
           /\ \A id \in 1..Len(tasks) : Uncertain(tasks, id) => Uncertain(tasks', id)
<1> DEFINE L == Len(tasks)
<1>1. JobTyped(j) /\ BusyRun(j) /\ tasks \in Seq(TaskRecord) /\ L \in Nat
  <2>1. tasks \in Seq(TaskRecord) /\ JobTyped(j) /\ BusyRun(j)
    BY DEF TypeInv, JobsInv, JobsTyped
  <2> QED
    BY <2>1
<1>2. i \in DOMAIN j.ids /\ j.ids[i] \in 0..L
  <2> DEFINE S == 0..L
  <2>1. /\ j.ids \in Seq(S) /\ j.states \in Seq(JobStatus)
        /\ Len(j.states) <= Len(j.ids)
    BY <1>1 DEF JobTyped
  <2> HIDE DEF S
  <2>2. i \in DOMAIN j.ids
    BY <2>1
  <2>3. j.ids[i] \in S
    BY ONLY <2>1, <2>2
  <2> QED
    BY <2>2, <2>3 DEF S
<1>3. CASE StartRequest(j, i)
  <2> DEFINE given   == SomeId(j.ids, i)
             id      == IF given = 0 THEN Len(tasks) + 1 ELSE given
             planned == [key |-> j.keys[i], certified |-> FALSE, latest |-> TRUE,
                         status |-> IF Request(j.keys[i]).ask THEN "awaiting_approval"
                                                              ELSE "planned"]
             known   == IF given = 0 THEN Touch(Append(tasks, planned), id, planned.status)
                                     ELSE tasks
             only    == def[j.node].type = "approval"
  <2>1. \/ /\ known[id].status \in {"awaiting_approval", "planned"}
           /\ Execute(j, i, id, known)
        \/ tasks' = known
    BY <1>3, Zenon DEF StartRequest
  <2>2. \/ /\ known[id].status \in {"awaiting_approval", "planned"}
           /\ \E status \in {"cancelled", "running"} : tasks' = Touch(known, id, status)
        \/ tasks' = known
    BY <2>1 DEF Execute
  <2>3. /\ known \in Seq(TaskRecord) /\ id \in 1..Len(known)
        /\ Len(known) \in {L, L + 1}
        /\ Surely(known, tasks)
        /\ Len(known) = L + 1 => known[L + 1].status \in {"planned", "awaiting_approval"}
    <3>1. CASE given # 0
      <4>1. known = tasks /\ id = j.ids[i]
        BY <3>1 DEF SomeId
      <4> HIDE DEF known, id
      <4> QED
        BY <1>1, <1>2, <3>1, <4>1 DEF Surely, SomeId
    <3>2. CASE given = 0
      <4> DEFINE longer == Append(tasks, planned)
      <4>1. planned \in TaskRecord /\ planned.status \in {"planned", "awaiting_approval"}
            /\ planned.status \in TaskStatus
        <5>1. j.keys[i] \in AllKeys
          <6>1. j.keys \in Seq(AllKeys) /\ j.states \in Seq(JobStatus) /\ Len(j.states) = Len(j.keys)
            BY <1>1 DEF JobTyped
          <6> QED
            BY <6>1
        <5> QED
          BY <5>1 DEF TaskRecord, TaskStatus
      <4>2. known = Touch(longer, id, planned.status) /\ id = L + 1
        BY <3>2
      <4> HIDE DEF planned, known, id
      <4>3. /\ longer \in Seq(TaskRecord) /\ Len(longer) = L + 1
            /\ \A m \in 1..L : longer[m] = tasks[m]
        BY <1>1, <4>1
      <4> HIDE DEF longer
      <4>4. L + 1 \in 1..Len(longer) /\ \A m \in 1..L : m \in 1..Len(longer) /\ m # L + 1
        BY <1>1, <4>3
      <4>5. known \in Seq(TaskRecord) /\ Len(known) = L + 1
        BY <4>1, <4>2, <4>3, <4>4, TouchFacts
      <4>6. \A m \in 1..Len(longer) :
               /\ known[m].certified = longer[m].certified
               /\ known[m].status = IF m = id THEN planned.status ELSE longer[m].status
        BY <4>2, <4>3, <4>4, TouchMore
      <4> HIDE DEF L
      <4> QED
        BY <4>1, <4>2, <4>3, <4>4, <4>5, <4>6 DEF Surely, L
    <3> QED
      BY <3>1, <3>2
  <2> HIDE DEF known, id, given, planned
  <2>4. ASSUME NEW status \in {"cancelled", "running"}, tasks' = Touch(known, id, status)
        PROVE  /\ Len(tasks') = Len(known)
               /\ \A m \in 1..Len(known) :
                     /\ tasks'[m].certified = known[m].certified
                     /\ tasks'[m].status = IF m = id THEN status ELSE known[m].status
    <3>1. status \in TaskStatus
      BY DEF TaskStatus
    <3> QED
      BY <2>3, <2>4, <3>1, TouchFacts, TouchMore
  <2>5. 1..L \subseteq 1..Len(known)
        /\ \A m \in 1..Len(known) : m \in 1..L \/ (m = L + 1 /\ Len(known) = L + 1)
    BY <1>1, <2>3
  <2>6. CASE tasks' = known
    BY <2>3, <2>5, <2>6 DEF Surely, Uncertain
  <2>7. ASSUME known[id].status \in {"awaiting_approval", "planned"},
               NEW status \in {"cancelled", "running"}, tasks' = Touch(known, id, status)
        PROVE  /\ \A m \in 1..Len(tasks') : tasks'[m].status = "recovery_required" =>
                     m \in 1..Len(tasks) /\ tasks[m].status = "recovery_required"
               /\ \A m \in 1..Len(tasks) : Uncertain(tasks, m) => Uncertain(tasks', m)
    BY <2>3, <2>4, <2>5, <2>7 DEF Surely, Uncertain
  <2> QED
    BY <2>2, <2>6, <2>7
<1>4. CASE Answer(j, i)
  <2> DEFINE id == j.ids[i]
  <2>1. PICK status \in {"verified_success", "failed", "cancelled"} :
           tasks' = [Touch(tasks, id, status) EXCEPT ![id].certified = TRUE]
    <3>1. \E verdict \in {"verified_success", "failed", "cancelled"} :
             LET verified == verdict = "verified_success" /\ tasks[id].key \notin committed
             IN tasks' = [Touch(tasks, id, IF verdict = "verified_success" /\ ~verified
                                           THEN "cancelled" ELSE verdict)
                            EXCEPT ![id].certified = TRUE]
      BY <1>4, Zenon DEF Answer
    <3> QED
      BY <3>1
  <2>2. id # 0 /\ tasks[id].status = "running"
    BY <1>1, <1>4 DEF Answer, BusyRun
  <2>3. id \in 1..L
    BY <1>1, <1>2, <2>2
  <2> DEFINE touched == Touch(tasks, id, status)
  <2>4. /\ touched \in Seq(TaskRecord) /\ Len(touched) = L
        /\ \A m \in 1..L : /\ touched[m].certified = tasks[m].certified
                           /\ touched[m].status = IF m = id THEN status ELSE tasks[m].status
    <3>1. status \in TaskStatus
      BY DEF TaskStatus
    <3> HIDE DEF id
    <3> QED
      BY <1>1, <2>3, <3>1, TouchFacts, TouchMore
  <2>5. tasks' = [touched EXCEPT ![id].certified = TRUE]
    BY <2>1
  <2> HIDE DEF touched, id
  <2>6. /\ Len(tasks') = L
        /\ \A m \in 1..L : /\ m # id => tasks'[m] = touched[m]
                           /\ tasks'[m].status = touched[m].status
    <3>1. touched[id] \in TaskRecord /\ DOMAIN touched = 1..L /\ L \in Nat
      <4> HIDE DEF TaskRecord, L
      <4> QED
        BY <1>1, <2>3, <2>4
    <3>2. DOMAIN touched[id] = {"key", "certified", "latest", "status"}
      BY <3>1 DEF TaskRecord
    <3>3. DOMAIN tasks' = 1..L
      BY <2>5, <3>1
    <3>4. \A m \in 1..L : m # id => tasks'[m] = touched[m]
      BY <2>5, <3>1
    <3> DEFINE e == [touched[id] EXCEPT !.certified = TRUE]
    <3>5. tasks'[id] = e
      BY <2>3, <2>5, <3>1
    <3>6. e.status = touched[id].status
      BY <3>2
    <3>7. Len(tasks') = L
      <4>1. tasks' \in Seq(TaskRecord) /\ Len(tasks') = IF SomeId(j.ids, i) = 0 THEN L + 1 ELSE L
        <5>1. PICK k, st, next : Asked(j, i, k, st)
          BY <1>4, RequestLeaves
        <5> QED
          BY <5>1 DEF Asked
      <4> QED
        BY <1>2, <2>2, <4>1 DEF SomeId, id
    <3> HIDE DEF e
    <3> QED
      BY <3>4, <3>5, <3>6, <3>7
  <2> QED
    BY <2>1, <2>2, <2>4, <2>6 DEF Uncertain
<1> QED
    BY <1>3, <1>4


LEMMA TasksStep ==
    ASSUME TypeInv, SagaInv, [Next]_vars
    PROVE  /\ \A id \in 1..Len(tasks) : Uncertain(tasks, id) => Uncertain(tasks', id)
           /\ Len(tasks) <= Len(tasks')
           /\ mode' = "serving" => \A id \in 1..Len(tasks') :
                 tasks'[id].status = "recovery_required" =>
                    id \in 1..Len(tasks) /\ tasks[id].status = "recovery_required"
<1>1. /\ tasks \in Seq(TaskRecord) /\ Len(tasks) \in Nat /\ DOMAIN tasks = 1..Len(tasks)
      /\ \A id \in 1..Len(tasks) : tasks[id] \in TaskRecord
      /\ \A id \in 1..Len(tasks) : DOMAIN tasks[id] = {"key", "certified", "latest", "status"}
  <2>1. /\ tasks \in Seq(TaskRecord) /\ Len(tasks) \in Nat /\ DOMAIN tasks = 1..Len(tasks)
        /\ \A id \in 1..Len(tasks) : tasks[id] \in TaskRecord
    <3> HIDE DEF TaskRecord
    <3> QED
      BY DEF TypeInv
  <2> QED
    BY <2>1 DEF TaskRecord
<1>2. CASE UNCHANGED tasks
    BY <1>1, <1>2 DEF Uncertain
<1>3. ASSUME NEW j \in jobs, NEW i \in DOMAIN j.states, StartRequest(j, i) \/ Answer(j, i)
      PROVE  /\ \A id \in 1..Len(tasks) : Uncertain(tasks, id) => Uncertain(tasks', id)
             /\ Len(tasks) <= Len(tasks')
             /\ \A id \in 1..Len(tasks') : tasks'[id].status = "recovery_required" =>
                   id \in 1..Len(tasks) /\ tasks[id].status = "recovery_required"
  <2>1. FormInv
    BY DEF SagaInv
  <2>2. PICK id, st : Asked(j, i, id, st)
    BY <1>3, <2>1, RequestLeaves
  <2>3. Len(tasks) <= Len(tasks')
    BY <1>1, <2>2 DEF Asked
  <2> QED
    BY <1>3, <2>1, <2>3, RequestRecords
<1>4. CASE Cancel
  <2> DEFINE open == {n \in DOMAIN def : run.nodes[n].status \in
                                           {"pending", "ready", "awaiting_approval"}}
             ids  == UNION {ToSet(run.nodes[n].ids) : n \in open}
  <2>1. tasks' = [id \in DOMAIN tasks |->
                    IF id \in ids /\ tasks[id].status \in {"planned", "awaiting_approval"}
                    THEN [tasks[id] EXCEPT !.status = "cancelled"] ELSE tasks[id]]
    BY <1>4 DEF Cancel
  <2>2. Len(tasks') = Len(tasks)
    <3>1. PICK L \in Nat : L = Len(tasks)
      BY <1>1
    <3>2. DOMAIN tasks' = 1..L
      BY <1>1, <2>1, <3>1
    <3> QED
      BY ONLY <3>1, <3>2
  <2> HIDE DEF open, ids
  <2>3. \A id \in 1..Len(tasks) :
           \/ tasks'[id] = tasks[id]
           \/ /\ tasks[id].status \in {"planned", "awaiting_approval"}
              /\ tasks'[id].status = "cancelled"
    BY <1>1, <2>1
  <2> QED
    BY <1>1, <2>2, <2>3 DEF Uncertain
<1>5. CASE Die
  <2>1. mode' = "down" /\ Len(tasks') = Len(tasks)
    BY <1>5, DieMeans
  <2>2. ASSUME NEW id \in DOMAIN tasks, tasks[id].status = "running",
               tasks' = Touch(tasks, id, "verified_success")
        PROVE  \A m \in 1..Len(tasks) : Uncertain(tasks, m) => Uncertain(tasks', m)
    BY <1>1, <2>2, TouchMore DEF Uncertain
  <2> QED
    BY <1>1, <1>2, <1>5, <2>1, <2>2 DEF Die
<1>6. CASE RecoverTasks
  <2> DEFINE interrupted == {id \in DOMAIN tasks : tasks[id].status = "running"}
             mutations   == {id \in interrupted : Request(tasks[id].key).effect = "mutate"}
  <2>1. PICK seen \in SUBSET mutations :
           tasks' = [id \in DOMAIN tasks |->
                 [tasks[id] EXCEPT
                    !.status = IF id \in seen THEN "verified_success"
                               ELSE IF id \in mutations THEN "recovery_required"
                               ELSE IF id \in interrupted THEN "planned" ELSE @,
                    !.certified = @ \/ id \in seen,
                    !.latest = IF \E t \in interrupted : tasks[t].key = tasks[id].key
                               THEN id \in interrupted ELSE @]]
    BY <1>6, Zenon DEF RecoverTasks
  <2>2. mode' = "repairing" /\ Len(tasks') = Len(tasks)
    BY <1>6, RecoverTasksMeans
  <2>3. ASSUME NEW id \in 1..Len(tasks), tasks[id].status = "verified_success"
        PROVE  /\ tasks'[id].status = tasks[id].status
               /\ ~tasks[id].certified => ~tasks'[id].certified
    <3>1. id \notin interrupted /\ id \notin mutations /\ id \notin seen
      BY <2>3
    <3> HIDE DEF interrupted, mutations
    <3> DEFINE last == IF \E t \in interrupted : tasks[t].key = tasks[id].key
                       THEN id \in interrupted ELSE tasks[id].latest
    <3>2. tasks'[id] = [tasks[id] EXCEPT !.status = tasks[id].status,
                                         !.certified = tasks[id].certified \/ FALSE, !.latest = last]
      BY <1>1, <2>1, <3>1
    <3> DEFINE old == tasks[id]  sure == tasks[id].certified \/ FALSE
    <3>3. DOMAIN old = {"key", "certified", "latest", "status"}
      BY <1>1
    <3> HIDE DEF last, sure
    <3>4. tasks'[id] = [old EXCEPT !.status = old.status, !.certified = sure, !.latest = last]
      BY <3>2 DEF sure
    <3> HIDE DEF old
    <3>5. tasks'[id].status = old.status /\ tasks'[id].certified = sure
      BY ONLY <3>3, <3>4
    <3>6. ~tasks[id].certified => sure = FALSE
      BY DEF sure
    <3> QED
      BY <3>5, <3>6 DEF old
  <2> QED
    BY <1>1, <2>2, <2>3 DEF Uncertain
<1>7. Halt \/ Resume \/ Commit \/ Change \/ RecoverRun \/ UNCHANGED vars => UNCHANGED tasks
    BY RecoverRunMeans DEF Halt, Resume, Commit, Change, vars
<1>8. Advance \/ Gather \/ UndoNext \/ (\E j \in jobs : \E i \in DOMAIN j.states : Throw(j, i)) =>
         UNCHANGED tasks
    BY WaveMeans
<1> QED
    BY <1>2, <1>3, <1>4, <1>5, <1>6, <1>7, <1>8, StepKinds
-----------------------------------------------------------------------------
(* While the outcome of a node that is not complete may still be recorded, its tasks *)
(* do not need reconciliation; so a node that does need it is recorded by recovery,   *)
(* together with the error of the run, or its outcome was lost.                    *)

Calm(ids, list) == \A i \in DOMAIN ids : ids[i] # 0 => list[ids[i]].status # "recovery_required"

\* A node of the family of n, its operation and the approvals of that, is on its way.
Hopeful(n) == \E m \in Required \ lost : /\ Target(m) = Target(n)
                                        /\ Status(m) \notin DoneStatus \cup {"recovery_required"}

CalmInv == mode = "serving" =>
    /\ \A j \in jobs : Hopeful(j.node) =>
          Calm(j.ids, tasks) /\ \A i \in DOMAIN j.states : j.states[i] # "recovery_required"
    /\ \A n \in DOMAIN wave.results : Hopeful(n) =>
          Calm(wave.results[n].ids, tasks) /\ wave.results[n].status # "recovery_required"
    /\ \A n \in DOMAIN def : Hopeful(n) => Calm(run.nodes[n].ids, tasks)

ReconciledInv == \A n \in Required \ lost : Status(n) = "recovery_required" =>
    run.status \in {"failed", "cancelled"} \/ (run.status = "recovery_required" /\ run.error)

LEMMA CalmGrows ==
    ASSUME TypeInv, SagaInv, [Next]_vars, mode' = "serving",
           NEW ids, ids \in Seq(0..Len(tasks)), Calm(ids, tasks)
    PROVE  Calm(ids, tasks')
<1>1. \A id \in 1..Len(tasks') : tasks'[id].status = "recovery_required" =>
         id \in 1..Len(tasks) /\ tasks[id].status = "recovery_required"
    BY TasksStep
<1>2. Len(tasks) \in Nat /\ Len(tasks') \in Nat /\ Len(tasks) <= Len(tasks')
  <2>1. tasks' \in Seq(TaskRecord')
    BY TypesKept DEF TypeInv
  <2> HIDE DEF TaskRecord
  <2> QED
    BY <2>1, TasksStep DEF TypeInv
<1>3. ASSUME NEW i \in DOMAIN ids, ids[i] # 0 PROVE tasks'[ids[i]].status # "recovery_required"
  <2> DEFINE S == 0..Len(tasks)
  <2>1. ids \in Seq(S)
    OBVIOUS
  <2> HIDE DEF S
  <2>2. ids[i] \in S
    BY <2>1, <1>3
  <2>3. ids[i] \in 1..Len(tasks')
    BY <1>2, <1>3, <2>2 DEF S
  <2> QED
    BY <1>1, <1>3, <2>3 DEF Calm
<1> QED
    BY <1>3 DEF Calm


LEMMA LostGrows ==
    ASSUME TypeInv, SagaInv, [Next]_vars
    PROVE  lost \subseteq lost'
<1>1. ASSUME NEW j \in jobs, NEW i \in DOMAIN j.states, StartRequest(j, i) \/ Answer(j, i)
      PROVE  UNCHANGED lost
    BY <1>1 DEF StartRequest, Answer, history
<1> QED
    BY <1>1, WaveMeans, RestMeans, StepKinds

LEMMA HopesDwindle ==
    ASSUME TypeInv, SagaInv, [Next]_vars, mode = "serving", NEW n, Hopeful(n)'
    PROVE  Hopeful(n)
<1>1. UNCHANGED <<def, faults>> /\ lost \subseteq lost'
    BY StepsFrame, LostGrows
<1>2. Required' = Required /\ \A m : Target(m)' = Target(m)
    BY <1>1, SamePlan
<1>3. PICK m \in Required' \ lost' :
         /\ Target(m)' = Target(n)'
         /\ run'.nodes[m].status \notin DoneStatus \cup {"recovery_required"}
    BY DEF Hopeful, Status, DoneStatus
<1>4. m \in Required \ lost /\ m \in DOMAIN def /\ Target(m) = Target(n)
    BY <1>1, <1>2, <1>3 DEF Required
<1>5. run.nodes[m].status \notin DoneStatus \cup {"recovery_required"}
  <2>1. CASE UNCHANGED run
    BY <1>3, <2>1
  <2>2. CASE \/ run'.nodes[m].status = run.nodes[m].status
             \/ run.nodes[m].status \in {"pending", "ready", "awaiting_approval"}
    BY <1>3, <2>2 DEF DoneStatus
  <2>3. CASE /\ m \in DOMAIN wave.results
    <3>1. Open(m)
      BY <2>3 DEF SagaInv, WaveInv
    <3> QED
      BY <3>1 DEF Open, Status, DoneStatus
  <2>4. CASE m \notin DOMAIN wave.results /\ run'.nodes[m] = run.nodes[m]
    BY <1>3, <2>4
  <2>5. ~RecoverRun
    BY DEF RecoverRun
  <2>6. m \notin Compensations
    BY <1>4 DEF Compensations
  <2> QED
    BY <1>4, <2>1, <2>2, <2>3, <2>4, <2>5, <2>6, RunMeans
<1> QED
    BY <1>4, <1>5 DEF Hopeful, Status

\* What belongs to one family shares its hopes.
LEMMA FamilyHopes ==
    ASSUME NEW n, NEW m, Target(n) = Target(m), Hopeful(n)
    PROVE  Hopeful(m)
BY DEF Hopeful

LEMMA CalmWave ==
    ASSUME TypeInv, SagaInv, CalmInv,
           Advance \/ Gather \/ UndoNext \/ \E j \in jobs : \E i \in DOMAIN j.states : Throw(j, i)
    PROVE  CalmInv'
<1>1. /\ UNCHANGED <<def, faults, answers, mode, run, tasks>> /\ mode = "serving"
      /\ \A j \in jobs' : \E k :
            /\ Continues(j, k)
            /\ \/ k \in jobs
               \/ \E n \in WaveOf(run) : k \in Jobs(n)
               \/ k.node \in Compensations /\ DOMAIN k.states = {1} /\ k.states[1] = "todo"
      /\ \A n \in DOMAIN wave'.results :
            \/ n \in DOMAIN wave.results /\ wave'.results[n] = wave.results[n]
            \/ \E j \in jobs : j.alive /\ j.node = n /\ wave'.results[n] = Outcome(j)
            \/ n \in Compensations /\ wave'.results[n].status = "skipped"
    BY WaveMeans
<1>2. [Next]_vars
    BY DEF Next
<1>3. \A n : Hopeful(n)' => Hopeful(n)
    BY <1>1, <1>2, HopesDwindle
<1>4. \A n \in Compensations : ~Hopeful(n)
  <2> SUFFICES ASSUME NEW n \in Compensations, NEW m \in Required, Target(m) = Target(n)
               PROVE  FALSE
    BY DEF Hopeful
  <2>1. def \in Definitions /\ n \in DOMAIN def /\ m \in DOMAIN def /\ def[n].type = "compensation"
        /\ m # n /\ PlainInv
    BY DefinitionFacts DEF TypeInv, PlainInv, Required, Compensations
  <2> QED
    BY <2>1, SharedLine
<1>5. ASSUME NEW n \in DOMAIN def, Hopeful(n) PROVE Calm(run.nodes[n].ids, tasks)
    BY <1>1, <1>5 DEF CalmInv
<1>6. ASSUME NEW n \in WaveOf(run), NEW k \in Jobs(n), Hopeful(n)
      PROVE  Calm(k.ids, tasks) /\ \A i \in DOMAIN k.states : k.states[i] # "recovery_required"
  <2>1. n \in DOMAIN def
    BY WaveFacts
  <2>2. \A i \in DOMAIN k.ids : k.ids[i] # 0 =>
           \E m \in DOMAIN def : \E e \in DOMAIN run.nodes[m].ids :
              Target(m) = Target(n) /\ k.ids[i] = run.nodes[m].ids[e]
    BY <2>1, BeginsFresh
  <2>3. \A m \in DOMAIN def : Target(m) = Target(n) => Calm(run.nodes[m].ids, tasks)
    BY <1>5, <1>6, FamilyHopes
  <2>4. Calm(k.ids, tasks)
    BY <2>2, <2>3 DEF Calm
  <2>5. \A i \in DOMAIN k.states : k.states[i] # "recovery_required"
    BY <2>1, BeginsFresh
  <2> QED
    BY <2>4, <2>5
<1>7. ASSUME NEW j \in jobs', Hopeful(j.node)
      PROVE  Calm(j.ids, tasks) /\ \A i \in DOMAIN j.states : j.states[i] # "recovery_required"
  <2>1. PICK k : /\ Continues(j, k)
                 /\ \/ k \in jobs
                    \/ \E n \in WaveOf(run) : k \in Jobs(n)
                    \/ k.node \in Compensations
    BY <1>1
  <2>2. j.node = k.node /\ j.ids = k.ids /\ j.states = k.states
    BY <2>1 DEF Continues
  <2>3. CASE k \in jobs
    BY <1>1, <1>7, <2>2, <2>3 DEF CalmInv
  <2>4. ASSUME NEW n \in WaveOf(run), k \in Jobs(n)
        PROVE  Calm(k.ids, tasks) /\ \A i \in DOMAIN k.states : k.states[i] # "recovery_required"
    <3>1. k.node = n
      BY <2>4, WaveFacts, JobFacts
    <3> QED
      BY <1>6, <1>7, <2>2, <2>4, <3>1
  <2> QED
    BY <1>4, <1>7, <2>1, <2>2, <2>3, <2>4
<1>8. ASSUME NEW n \in DOMAIN wave'.results, Hopeful(n)
      PROVE  Calm(wave'.results[n].ids, tasks) /\ wave'.results[n].status # "recovery_required"
  <2>1. CASE n \in DOMAIN wave.results /\ wave'.results[n] = wave.results[n]
    BY <1>1, <1>8, <2>1 DEF CalmInv
  <2>2. ASSUME NEW j \in jobs, j.node = n, wave'.results[n] = Outcome(j)
        PROVE  Calm(wave'.results[n].ids, tasks) /\ wave'.results[n].status # "recovery_required"
    <3>1. Calm(j.ids, tasks) /\ \A i \in DOMAIN j.states : j.states[i] # "recovery_required"
      BY <1>1, <1>8, <2>2 DEF CalmInv
    <3>2. Calm(Outcome(j).ids, tasks) /\ Outcome(j).status # "recovery_required"
      BY <3>1, OutcomeFrom DEF Calm
    <3> QED
      BY <2>2, <3>2
  <2> QED
    BY <1>1, <1>4, <1>8, <2>1, <2>2
<1>9. /\ \A j \in jobs' : Hopeful(j.node)' =>
            Calm(j.ids, tasks)' /\ \A i \in DOMAIN j.states : j.states[i] # "recovery_required"
      /\ \A n \in DOMAIN wave'.results : Hopeful(n)' =>
            Calm(wave'.results[n].ids, tasks') /\ wave'.results[n].status # "recovery_required"
      /\ \A n \in DOMAIN def : Hopeful(n)' => Calm(run'.nodes[n].ids, tasks')
  <2>1. tasks' = tasks /\ run' = run
    BY <1>1
  <2>2. \A j : Calm(j.ids, tasks)' <=> Calm(j.ids, tasks)
    BY <2>1 DEF Calm
  <2>3. \A ids : Calm(ids, tasks') <=> Calm(ids, tasks)
    BY <2>1
  <2> QED
    BY <1>3, <1>5, <1>7, <1>8, <2>1, <2>2, <2>3
<1> QED
    BY <1>1, <1>9 DEF CalmInv

LEMMA CalmRequest ==
    ASSUME TypeInv, SagaInv, CalmInv, NEW j \in jobs, NEW i \in DOMAIN j.states,
           StartRequest(j, i) \/ Answer(j, i)
    PROVE  CalmInv'
<1>1. PICK id, st, next :
         /\ Replace(j, next) /\ Asked(j, i, id, st) /\ next.node = j.node
         /\ next.ids \in Seq(0..Len(tasks')) /\ Len(next.ids) = Len(j.ids)
         /\ \A m \in 1..Len(j.ids) : next.ids[m] = IF m = i THEN id ELSE j.ids[m]
         /\ \A m \in DOMAIN next.states :
               next.states[m] = st \/ (m \in DOMAIN j.states /\ next.states[m] = j.states[m])
    BY RequestLeaves DEF SagaInv
<1>2. [Next]_vars /\ mode = "serving" /\ UNCHANGED <<def, faults, mode, run, wave, lost>>
    BY <1>1 DEF Next, SagaInv, WaveInv, Asked
<1>3. \A n : Hopeful(n)' => Hopeful(n)
    BY <1>2, HopesDwindle
<1>4. \A ids \in Seq(0..Len(tasks)) : Calm(ids, tasks) => Calm(ids, tasks')
    BY <1>2, CalmGrows
<1>5. \A k \in jobs : k.ids \in Seq(0..Len(tasks))
    BY DEF TypeInv, JobsInv, JobsTyped, JobTyped
<1>6. /\ \A n \in DOMAIN def : run.nodes[n].ids \in Seq(0..Len(tasks))
      /\ \A n \in DOMAIN wave.results : wave.results[n].ids \in Seq(0..Len(tasks))
  <2>1. \A list : list \in Seq(1..Len(tasks)) => list \in Seq(0..Len(tasks))
    OBVIOUS
  <2> QED
    BY <2>1 DEF TypeInv, NodesInv, NodeTyped, Typed
<1>7. ASSUME Hopeful(j.node)
      PROVE  Calm(next.ids, tasks') /\ \A m \in DOMAIN next.states : next.states[m] # "recovery_required"
  <2>1. Calm(j.ids, tasks) /\ \A m \in DOMAIN j.states : j.states[m] # "recovery_required"
    BY <1>2, <1>7 DEF CalmInv
  <2>2. Calm(j.ids, tasks')
    BY <1>4, <1>5, <2>1
  <2>3. tasks'[id].status # "recovery_required"
    <3>1. \A m \in 1..Len(tasks') : tasks'[m].status = "recovery_required" =>
             m \in 1..Len(tasks) /\ tasks[m].status = "recovery_required"
      BY RequestRecords DEF SagaInv
    <3>2. id \in 1..Len(tasks') /\ Len(tasks) \in Nat
          /\ id = IF SomeId(j.ids, i) = 0 THEN Len(tasks) + 1 ELSE j.ids[i]
      BY <1>1 DEF Asked, TypeInv
    <3>3. CASE SomeId(j.ids, i) = 0
      BY <3>1, <3>2, <3>3
    <3>4. CASE SomeId(j.ids, i) # 0
      <4>1. i \in DOMAIN j.ids /\ j.ids[i] = id /\ id # 0
        BY <3>2, <3>4 DEF SomeId
      <4> QED
        BY <2>1, <3>1, <3>2, <4>1 DEF Calm
    <3> QED
      BY <3>3, <3>4
  <2>4. st # "recovery_required"
    BY <1>1, <2>3 DEF Asked
  <2>5. Calm(next.ids, tasks')
    <3> DEFINE old == j.ids  new == next.ids
    <3>1. DOMAIN old = 1..Len(old) /\ DOMAIN new = 1..Len(old)
      BY <1>1, <1>5
    <3>2. \A m \in DOMAIN new : new[m] = id \/ (m \in DOMAIN old /\ new[m] = old[m])
      BY <1>1, <3>1
    <3> HIDE DEF old, new
    <3>3. Calm(old, tasks')
      BY <2>2 DEF old
    <3> QED
      BY <2>3, <3>2, <3>3 DEF Calm, new
  <2> QED
    BY <1>1, <2>1, <2>4, <2>5
<1>8. ASSUME NEW k \in jobs', Hopeful(k.node)'
      PROVE  Calm(k.ids, tasks') /\ \A m \in DOMAIN k.states : k.states[m] # "recovery_required"
  <2>1. k = next \/ k \in jobs
    BY <1>1 DEF Replace
  <2>2. Hopeful(k.node)
    BY <1>3, <1>8
  <2> QED
    BY <1>1, <1>2, <1>4, <1>5, <1>7, <2>1, <2>2 DEF CalmInv
<1>9. ASSUME NEW n \in DOMAIN wave.results, Hopeful(n)'
      PROVE  Calm(wave.results[n].ids, tasks') /\ wave.results[n].status # "recovery_required"
    BY <1>2, <1>3, <1>4, <1>6, <1>9 DEF CalmInv
<1>10. ASSUME NEW n \in DOMAIN def, Hopeful(n)'
       PROVE  Calm(run.nodes[n].ids, tasks')
    BY <1>2, <1>3, <1>4, <1>6, <1>10 DEF CalmInv
<1>11. /\ \A k \in jobs' : Hopeful(k.node)' =>
             Calm(k.ids, tasks') /\ \A m \in DOMAIN k.states : k.states[m] # "recovery_required"
       /\ \A n \in DOMAIN wave'.results : Hopeful(n)' =>
             Calm(wave'.results[n].ids, tasks') /\ wave'.results[n].status # "recovery_required"
       /\ \A n \in DOMAIN def' : Hopeful(n)' => Calm(run'.nodes[n].ids, tasks')
    BY <1>2, <1>8, <1>9, <1>10
<1> QED
    BY <1>11 DEF CalmInv

\* What recovery finds of a node is what it finds of its family.
LEMMA SharedChosen ==
    ASSUME PlainInv, NEW n \in DOMAIN def, NEW m \in DOMAIN def, Target(n) = Target(m)
    PROVE  /\ KeysToRecover(n) = KeysToRecover(m)
           /\ \A choice : Chosen(n, choice) = Chosen(m, choice)
<1>1. ASSUME NEW a \in DOMAIN def PROVE ExpectedKeys(a) = ExpectedKeys(Target(a))
  <2>1. CASE def[a].type = "approval"
    BY <2>1, SharedKeys
  <2>2. CASE def[a].type # "approval"
    BY <2>2 DEF Target
  <2> QED
    BY <2>1, <2>2
<1>2. KeysToRecover(n) = KeysToRecover(m)
    BY <1>1 DEF KeysToRecover
<1> QED
    BY <1>2 DEF Chosen

\* A node has no tasks if none are found for it.
LEMMA NothingChosen ==
    ASSUME TypeInv, TaskInv, NEW n \in DOMAIN def, NEW choice \in Picks, Chosen(n, choice) = <<>>
    PROVE  run.nodes[n].ids = <<>>
<1> DEFINE p == Plan(n)  list == run.nodes[n].ids  S == 1..Len(tasks)
<1>1. PICK high \in 0..p.goal :
         /\ Len(KeysToRecover(n)) = high
         /\ \A i \in 1..p.goal : p.line[i] \in Known <=> i <= high
    BY KeysFound DEF TaskInv
<1>2. Len(KeysToRecover(n)) = 0
  <2>1. Len(Chosen(n, choice)) = Len(KeysToRecover(n))
    BY ChosenFacts
  <2> QED
    BY <2>1
<1>3. p.goal \in Nat
    BY PlanFacts DEF TypeInv, PlanForm
<1>4. list \in Seq(S) /\ Len(list) <= p.goal /\ \A i \in DOMAIN list : tasks[list[i]].key = p.line[i]
    BY DEF TypeInv, NodesInv, NodeTyped, Typed, TaskInv, RecordsInv, Sound
<1>5. DOMAIN tasks = S
    BY DEF TypeInv
<1> HIDE DEF list, S, p
<1>6. SUFFICES ASSUME list # <<>> PROVE FALSE
    BY DEF list
<1>7. 1 \in DOMAIN list /\ list[1] \in S /\ Len(list) >= 1
    BY ONLY <1>4, <1>6
<1>8. p.line[1] \in Known
    BY <1>4, <1>5, <1>7 DEF Known
<1>9. 1 \in 1..p.goal
    BY <1>3, <1>4, <1>7
<1> QED
    BY <1>1, <1>2, <1>8, <1>9

LEMMA CalmRest ==
    ASSUME TypeInv, SagaInv, TaskInv, CalmInv,
           Commit \/ Halt \/ Resume \/ Cancel \/ Change \/ Die \/ RecoverTasks \/ RecoverRun
              \/ UNCHANGED vars
    PROVE  CalmInv'
<1>1. /\ jobs' \subseteq jobs /\ UNCHANGED <<def, faults>>
      /\ \A n \in DOMAIN wave'.results :
            n \in DOMAIN wave.results /\ wave'.results[n] = wave.results[n]
    BY RestMeans
<1>2. [Next]_vars
    BY DEF Next
<1>3. \A m : Target(m)' = Target(m)
    BY <1>1, SamePlan
<1>4. Required' = Required /\ \A m \in Required : m \in DOMAIN def /\ m \notin Compensations
    BY <1>1 DEF Required, Compensations
<1>5. CASE mode = "serving" /\ mode' = "serving"
  <2>1. \A n : Hopeful(n)' => Hopeful(n)
    BY <1>2, <1>5, HopesDwindle
  <2>2. \A ids \in Seq(0..Len(tasks)) : Calm(ids, tasks) => Calm(ids, tasks')
    BY <1>2, <1>5, CalmGrows
  <2>3. \A k \in jobs : k.ids \in Seq(0..Len(tasks))
    BY DEF TypeInv, JobsInv, JobsTyped, JobTyped
  <2>4. /\ \A n \in DOMAIN def : run.nodes[n].ids \in Seq(0..Len(tasks))
        /\ \A n \in DOMAIN wave.results : wave.results[n].ids \in Seq(0..Len(tasks))
    <3>1. \A list : list \in Seq(1..Len(tasks)) => list \in Seq(0..Len(tasks))
      OBVIOUS
    <3> QED
      BY <3>1 DEF TypeInv, NodesInv, NodeTyped, Typed
  <2>5. ASSUME NEW n \in DOMAIN def, Hopeful(n)
        PROVE  Calm(run'.nodes[n].ids, tasks')
    <3>1. Calm(run.nodes[n].ids, tasks')
      BY <1>5, <2>2, <2>4, <2>5 DEF CalmInv
    <3>2. n \in DOMAIN wave.results => Calm(wave.results[n].ids, tasks')
      BY <1>5, <2>2, <2>4, <2>5 DEF CalmInv
    <3>3. \/ run'.nodes[n].ids = run.nodes[n].ids
          \/ n \in DOMAIN wave.results /\ run'.nodes[n].ids = wave.results[n].ids
      <4>1. ~RecoverRun
        BY <1>5 DEF RecoverRun
      <4> QED
        BY <1>2, <4>1, RunMeans
    <3> QED
      BY <3>1, <3>2, <3>3
  <2>6. ASSUME NEW k \in jobs', Hopeful(k.node)
        PROVE  Calm(k.ids, tasks') /\ \A i \in DOMAIN k.states : k.states[i] # "recovery_required"
    BY <1>1, <1>5, <2>2, <2>3, <2>6 DEF CalmInv
  <2>7. ASSUME NEW n \in DOMAIN wave'.results, Hopeful(n)
        PROVE  Calm(wave'.results[n].ids, tasks') /\ wave'.results[n].status # "recovery_required"
    BY <1>1, <1>5, <2>2, <2>4, <2>7 DEF CalmInv
  <2>8. /\ \A k \in jobs' : Hopeful(k.node)' =>
              Calm(k.ids, tasks') /\ \A m \in DOMAIN k.states : k.states[m] # "recovery_required"
        /\ \A n \in DOMAIN wave'.results : Hopeful(n)' =>
              Calm(wave'.results[n].ids, tasks') /\ wave'.results[n].status # "recovery_required"
        /\ \A n \in DOMAIN def' : Hopeful(n)' => Calm(run'.nodes[n].ids, tasks')
    BY <1>1, <2>1, <2>5, <2>6, <2>7
  <2> QED
    BY <2>8 DEF CalmInv
<1>6. CASE mode' # "serving"
    BY <1>6 DEF CalmInv
<1>7. CASE RecoverRun
  <2>1. /\ mode = "repairing" /\ UNCHANGED <<tasks, wave, jobs>>
        /\ \/ lost' = lost \cup {n \in DOMAIN def : run.nodes[n].status \notin DoneStatus}
              /\ UNCHANGED run
           \/ UNCHANGED lost
              /\ \E choice \in Picks :
                    LET nodes == SkipUnused(RecoveredNodes(choice))
                    IN run' = [status |-> DeriveStatus(nodes), nodes |-> nodes,
                               error |-> DeriveStatus(nodes) = "recovery_required"]
    BY <1>7, RecoverRunMeans
  <2>2. jobs' = {} /\ DOMAIN wave'.results = {}
    <3>1. jobs = {} /\ wave = NoWave
      BY <2>1 DEF SagaInv, WaveInv
    <3> QED
      BY <2>1, <3>1 DEF NoWave
  <2>3. ASSUME NEW n \in DOMAIN def, Hopeful(n)'
        PROVE  Calm(run'.nodes[n].ids, tasks)
    <3>1. PICK m \in Required \ lost' :
             /\ Target(m) = Target(n)
             /\ run'.nodes[m].status \notin DoneStatus \cup {"recovery_required"}
      BY <1>3, <1>4, <2>3 DEF Hopeful, Status, DoneStatus
    <3>2. m \in DOMAIN def /\ m \notin Compensations
      BY <1>4, <3>1
    <3>3. CASE /\ lost' = lost \cup {e \in DOMAIN def : run.nodes[e].status \notin DoneStatus}
               /\ UNCHANGED run
      BY <3>1, <3>2, <3>3
    <3>4. ASSUME NEW choice \in Picks,
                 LET nodes == SkipUnused(RecoveredNodes(choice))
                 IN run' = [status |-> DeriveStatus(nodes), nodes |-> nodes,
                            error |-> DeriveStatus(nodes) = "recovery_required"]
          PROVE  Calm(run'.nodes[n].ids, tasks)
      <4> DEFINE given == RecoveredNodes(choice)  ids == Chosen(n, choice)
      <4>1. /\ DOMAIN given = DOMAIN def
            /\ \A e \in DOMAIN def : given[e] = RecoveredState(e, Chosen(e, choice))
        BY DEF RecoveredNodes
      <4>2. \A e \in DOMAIN def : Chosen(e, choice) \in Seq(1..Len(tasks))
        BY ChosenFacts
      <4>3. \A e \in DOMAIN def : NodeForm(given[e])
        BY <4>1, <4>2, RecoveredFacts DEF SagaInv
      <4>4. run'.nodes = SkipUnused(given)
        BY <3>4
      <4>5. ids = Chosen(m, choice)
        BY <3>1, <3>2, SharedChosen DEF TypeInv
      <4>6. ids \in Seq(1..Len(tasks))
        BY <4>2
      <4> HIDE DEF given, ids
      <4>7. run'.nodes[n].ids = given[n].ids /\ run'.nodes[m] = given[m]
        BY <3>2, <4>1, <4>3, <4>4, SkipKeeps
      <4>8. given[n] = RecoveredState(n, ids) /\ given[m] = RecoveredState(m, ids)
        BY <3>2, <4>1, <4>5 DEF ids
      <4>9. CASE ids = <<>>
        <5>1. run.nodes[n].ids = <<>>
          BY <4>9, NothingChosen DEF ids
        <5>2. given[n] = run.nodes[n]
          BY <4>6, <4>8, <4>9, RecoveredFacts DEF SagaInv
        <5> QED
          BY <4>7, <5>1, <5>2 DEF Calm
      <4>10. CASE ids # <<>>
        <5>1. /\ RecoveredState(n, ids).ids = ids
              /\ RecoveredState(m, ids).status = "recovery_required" <=>
                    \E i \in DOMAIN ids : tasks[ids[i]].status = "recovery_required"
          BY <3>2, <4>6, <4>10, RecoveredFacts DEF SagaInv
        <5> QED
          BY <3>1, <4>7, <4>8, <5>1 DEF Calm
      <4> QED
        BY <4>9, <4>10
    <3> QED
      BY <2>1, <3>3, <3>4
  <2>4. /\ \A k \in jobs' : FALSE
        /\ \A n \in DOMAIN wave'.results : FALSE
        /\ \A n \in DOMAIN def' : Hopeful(n)' => Calm(run'.nodes[n].ids, tasks')
    BY <1>1, <2>1, <2>2, <2>3
  <2> QED
    BY <2>4 DEF CalmInv
<1>8. mode' = mode \/ RecoverRun \/ mode' # "serving"
  <2>1. Commit => UNCHANGED mode
    BY CommitMeans
  <2>2. Halt \/ Resume \/ Cancel \/ Change => UNCHANGED mode
    BY DEF Halt, Resume, Cancel, Change
  <2>3. Die \/ RecoverTasks => mode' # "serving"
    BY DieMeans DEF RecoverTasks
  <2>4. UNCHANGED vars => mode' = mode
    BY DEF vars
  <2> QED
    BY <2>1, <2>2, <2>3, <2>4
<1> QED
    BY <1>5, <1>6, <1>7, <1>8

\* The tasks of a node that is on its way are calm.
LEMMA CalmKept ==
    ASSUME TypeInv, SagaInv, TaskInv, CalmInv, [Next]_vars
    PROVE  CalmInv'
BY CalmWave, CalmRequest, CalmRest, StepKinds

\* A list that grows at its end begins as it did.
LEMMA AppendStarts ==
    ASSUME NEW S, NEW list \in Seq(S), list # <<>>, NEW e \in S
    PROVE  Append(list, e) \in Seq(S) /\ Append(list, e) # <<>> /\ Append(list, e)[1] = list[1]
    OBVIOUS

\* A run one of whose nodes needs reconciliation says so, unless it has failed; and one of
\* which all is done and certified is complete.
LEMMA DerivedMore ==
    ASSUME NEW nodes
    PROVE  /\ (\E n \in Required : nodes[n].status = "recovery_required") =>
                 DeriveStatus(nodes) \in {"failed", "recovery_required"}
           /\ (\A n \in Required : /\ nodes[n].status = "verified_complete"
                                   /\ \A i \in DOMAIN nodes[n].ids : Certified(nodes[n].ids[i])) =>
                 DeriveStatus(nodes) = "verified_complete"
<1> DEFINE order == <<"failed", "recovery_required", "awaiting_approval", "awaiting_input">>
           names == {"failed", "recovery_required", "awaiting_approval", "awaiting_input"}
           occurring == {nodes[n].status : n \in Required}
           whole == \A n \in Required :
                       /\ nodes[n].status \in DoneStatus
                       /\ \A i \in DOMAIN nodes[n].ids : Certified(nodes[n].ids[i])
           otherwise == IF whole THEN "verified_complete" ELSE "running"
           result == Foremost(order, occurring, otherwise)
<1>1. /\ order \in Seq(names) /\ Len(order) = 4 /\ order[1] = "failed"
      /\ order[2] = "recovery_required"
    OBVIOUS
<1>2. DeriveStatus(nodes) = result
    BY Zenon DEF DeriveStatus
<1>3. ASSUME \A n \in Required : /\ nodes[n].status = "verified_complete"
                                 /\ \A i \in DOMAIN nodes[n].ids : Certified(nodes[n].ids[i])
      PROVE  otherwise = "verified_complete" /\ names \cap occurring = {}
  <2>1. whole
    BY <1>3, Zenon DEF DoneStatus
  <2>2. otherwise = "verified_complete"
    BY ONLY <2>1
  <2>3. names \cap occurring = {}
    BY <1>3
  <2> QED
    BY <2>2, <2>3
<1>4. (\E n \in Required : nodes[n].status = "recovery_required") => "recovery_required" \in occurring
    OBVIOUS
<1> HIDE DEF order, occurring, otherwise
<1>5. \/ result = otherwise /\ \A i \in 1..Len(order) : order[i] \notin occurring
      \/ result \in names \cap occurring
    BY <1>1, ForemostFacts
<1>6. ASSUME "recovery_required" \in occurring PROVE result \in {"failed", "recovery_required"}
  <2>1. CASE "failed" \in occurring
    <3>1. result = order[1]
      BY <1>1, <2>1, ForemostFacts
    <3> QED
      BY <1>1, <3>1
  <2>2. CASE "failed" \notin occurring
    <3> HIDE DEF names
    <3>0. PICK S : order \in Seq(S) /\ S = names
      BY <1>1
    <3>1. PICK kept : /\ kept[0] = <<>>
                      /\ \A i \in 1..Len(order) :
                            kept[i] = IF order[i] \in occurring THEN Append(kept[i - 1], order[i])
                                                                ELSE kept[i - 1]
                      /\ Among(order, occurring) = kept[Len(order)]
      BY ONLY <3>0, AmongSteps
    <3>2. \A i \in 1..Len(order) :
             \/ kept[i] = kept[i - 1] /\ order[i] \notin occurring
             \/ kept[i] = Append(kept[i - 1], order[i]) /\ order[i] \in occurring
      BY <3>1, Zenon
    <3>3. /\ 1 - 1 = 0 /\ 2 - 1 = 1 /\ 3 - 1 = 2 /\ 4 - 1 = 3
          /\ \A i \in {1, 2, 3, 4} : i \in 1..Len(order)
      BY <1>1
    <3>4. /\ kept[1] = kept[0] /\ kept[2] = Append(kept[1], order[2])
          /\ kept[3] = kept[2] \/ kept[3] = Append(kept[2], order[3])
          /\ kept[4] = kept[3] \/ kept[4] = Append(kept[3], order[4])
      BY ONLY <1>1, <1>6, <2>2, <3>2, <3>3
    <3>5. order[2] \in S /\ order[3] \in S /\ order[4] \in S
      BY ONLY <1>1, <3>0
    <3> DEFINE one == kept[1]  two == kept[2]  three == kept[3]  four == kept[4]
               o2 == order[2]  o3 == order[3]  o4 == order[4]
    <3>6. /\ one = <<>> /\ o2 \in S /\ o3 \in S /\ o4 \in S
          /\ two = Append(one, o2)
          /\ three = two \/ three = Append(two, o3)
          /\ four = three \/ four = Append(three, o4)
      BY <3>1, <3>4, <3>5
    <3> HIDE DEF one, two, three, four, o2, o3, o4
    <3>7. two \in Seq(S) /\ two # <<>> /\ two[1] = o2
      <4>1. two = <<o2>>
        BY ONLY <3>6
      <4>2. two[1] = o2
        BY ONLY <4>1
      <4>3. two # <<>>
        <5>1. \A e : <<e>> # <<>>
          OBVIOUS
        <5> QED
          BY ONLY <4>1, <5>1
      <4>4. two \in Seq(S)
        <5>1. \A e \in S : <<e>> \in Seq(S)
          OBVIOUS
        <5> QED
          BY ONLY <3>6, <4>1, <5>1
      <4> QED
        BY ONLY <4>2, <4>3, <4>4
    <3>8. three \in Seq(S) /\ three # <<>> /\ three[1] = o2
      <4>1. /\ Append(two, o3) \in Seq(S) /\ Append(two, o3) # <<>>
            /\ Append(two, o3)[1] = two[1]
        BY ONLY <3>6, <3>7, AppendStarts, Zenon
      <4>2. three = two \/ three = Append(two, o3)
        BY ONLY <3>6
      <4> QED
        BY ONLY <3>7, <4>1, <4>2, Zenon
    <3>9. four \in Seq(S) /\ four # <<>> /\ four[1] = o2
      <4>1. /\ Append(three, o4) \in Seq(S) /\ Append(three, o4) # <<>>
            /\ Append(three, o4)[1] = three[1]
        BY ONLY <3>6, <3>8, AppendStarts, Zenon
      <4>2. four = three \/ four = Append(three, o4)
        BY ONLY <3>6
      <4> QED
        BY ONLY <3>8, <4>1, <4>2, Zenon
    <3>10. Among(order, occurring) # <<>> /\ Among(order, occurring)[1] = "recovery_required"
      BY <1>1, <3>1, <3>9 DEF four, o2
    <3> QED
      BY <3>10 DEF Foremost
  <2> QED
    BY <2>1, <2>2
<1> HIDE DEF result
<1> QED
    BY <1>2, <1>3, <1>4, <1>5, <1>6

LEMMA ReconciledKept ==
    ASSUME TypeInv, SagaInv, CalmInv, ReconciledInv, [Next]_vars
    PROVE  ReconciledInv'
<1>1. UNCHANGED <<def, faults>> /\ Required' = Required /\ lost \subseteq lost'
      /\ Required \cap Compensations = {} /\ Required \subseteq DOMAIN def
    BY StepsFrame, LostGrows DEF Required, Compensations
<1> SUFFICES ASSUME NEW n \in Required, n \notin lost', run'.nodes[n].status = "recovery_required",
                    run'.status \notin {"failed", "cancelled"}
             PROVE  run'.status = "recovery_required" /\ run'.error
    BY <1>1 DEF ReconciledInv, Status
<1>2. n \notin lost /\ n \in DOMAIN def /\ n \notin Compensations
    BY <1>1
<1>3. Status(n) = "recovery_required" =>
         \/ run.status \in {"failed", "cancelled"}
         \/ run.status = "recovery_required" /\ run.error
    BY <1>2 DEF ReconciledInv
<1>4. ASSUME run'.status = DeriveStatus(run'.nodes)
      PROVE  run'.status = "recovery_required"
    BY <1>4, DerivedMore
<1>5. CASE UNCHANGED run
    BY <1>3, <1>5 DEF Status
<1>6. CASE /\ run'.nodes[n].status = run.nodes[n].status
           /\ run.status \notin {"failed", "cancelled", "verified_complete"}
           /\ ~run.error \/ run.status = "paused"
    BY <1>3, <1>6 DEF Status
<1>7. CASE /\ ~wave.moved /\ wave.phase = "undo" /\ run'.error = run.error
           /\ run'.status = DeriveStatus(run'.nodes)
           /\ \A m \in DOMAIN def :
                 LET new == IF m \in DOMAIN wave.results THEN wave.results[m] ELSE run.nodes[m]
                 IN run'.nodes[m] = new \/ (m \in Compensations /\ run'.nodes[m].status = "skipped")
  <2>1. run'.status = "recovery_required"
    BY <1>4, <1>7
  <2>2. CASE n \in DOMAIN wave.results
    <3>1. run'.nodes[n] = wave.results[n]
      BY <1>2, <1>7, <2>2
    <3>2. Open(n) /\ mode = "serving"
      BY <1>7, <2>2 DEF SagaInv, WaveInv, NoWave
    <3>3. Hopeful(n)
      BY <1>2, <3>2 DEF Hopeful, Open, DoneStatus
    <3> QED
      BY <2>2, <3>1, <3>2, <3>3 DEF CalmInv
  <2>3. CASE n \notin DOMAIN wave.results
    <3>1. Status(n) = "recovery_required"
      BY <1>2, <1>7, <2>3 DEF Status
    <3>2. run.status # "cancelled"
      BY <1>7 DEF SagaInv, UnmovedInv, Ended
    <3>3. run.status # "failed"
      <4> SUFFICES ASSUME run.status = "failed" PROVE FALSE
        OBVIOUS
      <4>1. PICK m \in Required : Status(m) = "failed"
        BY DEF SagaInv, OrderInv, RunOrder
      <4>2. DOMAIN wave.results \subseteq Compensations
        BY <1>7 DEF SagaInv, UnmovedInv
      <4>3. run'.nodes[m].status = "failed"
        BY <1>1, <1>7, <4>1, <4>2 DEF Status
      <4> QED
        BY <1>7, <2>1, <4>1, <4>3, DerivedFacts
    <3> QED
      BY <1>3, <1>7, <2>1, <3>1, <3>2, <3>3
  <2> QED
    BY <2>2, <2>3
<1>8. CASE /\ run'.status = DeriveStatus(run'.nodes)
           /\ run'.error = (run'.status = "recovery_required")
    BY <1>4, <1>8
<1>9. CASE /\ Halt \/ Resume \/ Cancel
           /\ \/ run'.nodes[n].status = run.nodes[n].status
              \/ run'.nodes[n].status = "cancelled"
           /\ \/ run'.status = "cancelled"
              \/ /\ run.status \notin {"failed", "cancelled", "verified_complete"}
                 /\ ~run.error \/ run.status = "paused"
    BY <1>6, <1>9
<1> QED
    BY <1>2, <1>5, <1>7, <1>8, <1>9, RunMeans

-----------------------------------------------------------------------------
(* An operation and its approval have one task between them.                     *)

LEMMA OneEach ==
    ASSUME NEW S, NEW one \in Seq(S), NEW T, NEW other \in Seq(T),
           Len(one) = 1, Len(other) = 1, one[1] = other[1]
    PROVE  one = other
    OBVIOUS

SharedInv == \A p \in DOMAIN def : def[p].type = "approval" =>
    LET y == def[p].refersTo  had == run.nodes[p].ids
    IN /\ run.nodes[y].ids # <<>> => run.nodes[y].ids = had
       /\ \A j \in jobs : j.alive /\ j.node = y => had # <<>> /\ j.ids = had
       /\ \A j \in jobs : j.alive /\ j.node = p /\ had # <<>> => j.ids = had
       /\ y \in DOMAIN wave.results => had # <<>> /\ wave.results[y].ids = had
       /\ p \in DOMAIN wave.results /\ had # <<>> => wave.results[p].ids = had

\* A node with one request has a task at most.
LEMMA OneRequest ==
    ASSUME TypeInv, TaskInv, NEW n \in DOMAIN def, def[n].type \in {"operation", "approval"}
    PROVE  /\ run.nodes[n].ids \in Seq(1..Len(tasks)) /\ Len(tasks) \in Nat
           /\ run.nodes[n].ids # <<>> => Len(run.nodes[n].ids) = 1 /\ run.nodes[n].ids[1] # 0
           /\ \A b \in {1, 2} : Len(Slots(n, b)) = 1
           /\ \A j \in jobs : j.node = n => Len(j.ids) = 1 /\ j.ids \in Seq(0..Len(tasks))
<1> DEFINE list == run.nodes[n].ids  S == 1..Len(tasks)
<1>1. list \in Seq(S) /\ Len(tasks) \in Nat /\ 0 \notin S
    BY DEF TypeInv, NodesInv, NodeTyped, Typed
<1>2. Plan(n).goal = 1 /\ Len(Plan(n).line) = 1
    BY PlanFacts DEF TypeInv
<1>3. Len(list) <= 1
    BY <1>2 DEF TaskInv, RecordsInv, Sound
<1>4. ASSUME list # <<>> PROVE Len(list) = 1 /\ list[1] # 0
  <2> HIDE DEF list, S
  <2>1. list \in Seq(S) /\ list # <<>> /\ Len(list) <= 1
    BY <1>1, <1>3, <1>4
  <2>2. 1 \in DOMAIN list
    BY ONLY <2>1
  <2>3. list[1] \in S
    BY ONLY <2>1, <2>2
  <2>4. Len(list) = 1
    <3>1. Len(list) \in Nat /\ DOMAIN list = 1..Len(list)
      BY ONLY <2>1
    <3> QED
      BY ONLY <2>1, <2>2, <3>1
  <2> QED
    BY ONLY <1>1, <2>3, <2>4
<1>5. \A b \in {1, 2} : Len(Slots(n, b)) = 1
    BY SlotsFacts DEF TypeInv, PlainInv
<1>6. \A j \in jobs : j.node = n => Len(j.ids) = 1 /\ j.ids \in Seq(0..Len(tasks))
    BY <1>2 DEF TaskInv, RecordsInv, JobSound, TypeInv, JobsInv, JobsTyped, JobTyped
<1> QED
    BY <1>1, <1>4, <1>5, <1>6

LEMMA BeginsShared ==
    ASSUME TypeInv, SagaInv, TaskInv, OnceJobs, Direct, SharedInv, NEW p \in DOMAIN def,
           def[p].type = "approval", NEW n \in WaveOf(run), NEW j \in Jobs(n)
    PROVE  LET had == run.nodes[p].ids
           IN /\ n = def[p].refersTo => had # <<>> /\ j.ids = had
              /\ n = p /\ had # <<>> => j.ids = had
<1> DEFINE y == def[p].refersTo  had == run.nodes[p].ids
<1>1. /\ n \in DOMAIN def /\ y \in DOMAIN def /\ def[y].type = "operation"
      /\ y \in Required /\ p \in Required /\ FormInv
    BY WaveFacts, SharedLine DEF TypeInv, SagaInv, Required, Target
<1>2. PICK b \in {1, 2}, answer \in Answers : j = Job(n, b, answer)
    BY <1>1, JobsFacts
<1>3. /\ Len(j.ids) = IF Len(run.nodes[n].ids) > Len(Slots(n, b)) THEN Len(run.nodes[n].ids)
                      ELSE Len(Slots(n, b))
      /\ \A i \in DOMAIN j.ids :
            j.ids[i] = IF i = 1 /\ def[n].type = "operation" THEN FirstId(n, run.nodes)
                       ELSE SomeId(run.nodes[n].ids, i)
    BY <1>1, <1>2, JobBegins
<1>4. j.ids \in Seq(0..Len(tasks))
    BY <1>1, JobsBegin DEF JobTyped
<1>5. /\ had \in Seq(1..Len(tasks)) /\ Len(tasks) \in Nat
      /\ had # <<>> => Len(had) = 1 /\ had[1] # 0
    BY OneRequest
<1>6. ASSUME def[n].type \in {"operation", "approval"}
      PROVE  Len(j.ids) = 1 /\ 1 \in DOMAIN j.ids
  <2>1. /\ run.nodes[n].ids # <<>> => Len(run.nodes[n].ids) = 1
        /\ Len(Slots(n, b)) = 1
    BY <1>1, <1>6, OneRequest
  <2>2. Len(<<>>) = 0
    OBVIOUS
  <2>3. Len(j.ids) = 1
    BY <1>3, <2>1, <2>2
  <2> QED
    BY <1>4, <2>3
<1>7. ASSUME had # <<>>, Len(j.ids) = 1, j.ids[1] = had[1] PROVE j.ids = had
  <2> DEFINE one == j.ids  S == 0..Len(tasks)  T == 1..Len(tasks)
  <2>1. one \in Seq(S) /\ had \in Seq(T) /\ Len(one) = 1 /\ Len(had) = 1 /\ one[1] = had[1]
    BY <1>4, <1>5, <1>7
  <2> HIDE DEF one, S, T, had
  <2>2. one = had
    BY ONLY <2>1, OneEach, Zenon
  <2> QED
    BY <2>2 DEF one
<1>8. ASSUME n = p, had # <<>> PROVE j.ids = had
  <2>1. j.ids[1] = SomeId(had, 1)
    BY <1>3, <1>6, <1>8
  <2>2. 1 \in DOMAIN had
    BY <1>5, <1>8
  <2> QED
    BY <1>6, <1>7, <1>8, <2>1, <2>2 DEF SomeId
<1>9. ASSUME n = y PROVE had # <<>> /\ j.ids = had
  <2>1. run.status # "failed" /\ n \in Required
    BY <1>1, <1>9, WaveFacts DEF Compensations
  <2>2. had # <<>>
    <3>1. CASE n \in Awaiting(run.nodes)
      <4>1. Status(n) = "awaiting_approval"
        BY <1>1, <1>9, <3>1 DEF Awaiting, OnceJobs, Status
      <4>2. run.nodes[n].ids # <<>>
        BY <1>1, <4>1 DEF TaskInv, RecordsInv, Sound, Status
      <4> QED
        BY <1>9, <4>2 DEF SharedInv
    <3>2. CASE n \notin Awaiting(run.nodes)
      <4>1. n \in ReadyNodes(def, StatusOf(run.nodes))
        BY <2>1, <3>2 DEF WaveOf
      <4>2. StatusOf(run.nodes)[p] \in DoneStatus
        BY <1>9, <4>1 DEF ReadyNodes, Direct
      <4>3. StatusOf(run.nodes)[p] = Status(p)
        BY <1>1 DEF StatusOf, Status, FormInv, RunForm
      <4>4. Status(p) = "verified_complete"
        BY <1>1, <4>2, <4>3 DEF DoneStatus, SagaInv, FormInv, RunForm, Fits, Status
      <4>5. Len(had) = Plan(p).goal
        BY <4>4 DEF TaskInv, CompleteInv, Whole
      <4>6. Plan(p).goal = 1
        BY PlanFacts DEF TypeInv
      <4>7. Len(<<>>) # 1
        OBVIOUS
      <4> HIDE DEF had
      <4> QED
        BY ONLY <4>5, <4>6, <4>7
    <3> QED
      BY <3>1, <3>2
  <2> DEFINE approvals == {a \in DOMAIN def : /\ def[a].type = "approval" /\ def[a].refersTo = n
                                              /\ run.nodes[a].ids # <<>>}
  <2>3. FirstId(n, run.nodes) = IF approvals # {} THEN run.nodes[CHOOSE a \in approvals : TRUE].ids[1]
                                ELSE SomeId(run.nodes[n].ids, 1)
    BY DEF FirstId
  <2>4. p \in approvals /\ \A a \in approvals : a = p
    BY <1>9, <2>2 DEF Direct
  <2>5. FirstId(n, run.nodes) = had[1]
    <3> DEFINE a == CHOOSE a \in approvals : TRUE
    <3>1. a = p
      BY <2>4
    <3> HIDE DEF a
    <3>2. FirstId(n, run.nodes) = run.nodes[a].ids[1]
      BY <2>3, <2>4 DEF a
    <3> QED
      BY <3>1, <3>2
  <2>6. j.ids[1] = had[1]
    BY <1>1, <1>3, <1>6, <1>9, <2>5
  <2> QED
    BY <1>1, <1>6, <1>7, <1>9, <2>2, <2>6
<1> QED
    BY <1>8, <1>9

\* A request that has its task keeps it.
LEMMA RequestShared ==
    ASSUME TypeInv, SagaInv, TaskInv, SharedInv, NEW j \in jobs, NEW i \in DOMAIN j.states,
           StartRequest(j, i) \/ Answer(j, i)
    PROVE  SharedInv'
<1>1. PICK id, st, next :
         /\ Replace(j, next) /\ Asked(j, i, id, st) /\ next.node = j.node /\ next.alive = j.alive
         /\ next.ids \in Seq(0..Len(tasks')) /\ Len(next.ids) = Len(j.ids)
         /\ \A m \in 1..Len(j.ids) : next.ids[m] = IF m = i THEN id ELSE j.ids[m]
    BY RequestLeaves DEF SagaInv
<1>2. UNCHANGED <<def, run, wave>> /\ jobs' = (jobs \ {j}) \cup {next}
      /\ id = IF SomeId(j.ids, i) = 0 THEN Len(tasks) + 1 ELSE j.ids[i]
    BY <1>1 DEF Asked, Replace
<1>3. ASSUME NEW p \in DOMAIN def, def[p].type = "approval", run.nodes[p].ids # <<>>,
             j.ids = run.nodes[p].ids
      PROVE  next.ids = run.nodes[p].ids
  <2> DEFINE had == run.nodes[p].ids  new == next.ids  S == 0..Len(tasks')  T == 1..Len(tasks)
  <2>1. had \in Seq(T) /\ Len(had) = 1 /\ had[1] # 0
    BY <1>3, OneRequest
  <2>2. i = 1
    <3>1. /\ j.states \in Seq(JobStatus) /\ Len(j.states) <= Len(j.ids)
      BY DEF TypeInv, JobsInv, JobsTyped, JobTyped
    <3>2. Len(j.states) <= 1
      BY <1>3, <2>1, <3>1
    <3> DEFINE list == j.states
    <3>3. list \in Seq(JobStatus) /\ i \in DOMAIN list /\ Len(list) <= 1
      BY <3>1, <3>2
    <3> HIDE DEF list
    <3> QED
      BY ONLY <3>3
  <2>3. SomeId(j.ids, i) # 0 /\ id = had[1]
    <3>1. 1 \in DOMAIN had
      BY <2>1
    <3> QED
      BY <1>2, <1>3, <2>1, <2>2, <3>1 DEF SomeId
  <2>4. new \in Seq(S) /\ Len(new) = 1 /\ new[1] = had[1]
    BY <1>1, <1>3, <2>1, <2>2, <2>3
  <2> HIDE DEF had, new, S, T
  <2>5. new = had
    BY ONLY <2>1, <2>4, OneEach, Zenon
  <2> QED
    BY <2>5 DEF new, had
<1>4. ASSUME NEW p \in DOMAIN def, def[p].type = "approval"
      PROVE  LET y == def[p].refersTo  had == run.nodes[p].ids
             IN /\ \A k \in jobs' : k.alive /\ k.node = y => had # <<>> /\ k.ids = had
                /\ \A k \in jobs' : k.alive /\ k.node = p /\ had # <<>> => k.ids = had
  <2> DEFINE y == def[p].refersTo  had == run.nodes[p].ids
  <2>1. /\ \A k \in jobs : k.alive /\ k.node = y => had # <<>> /\ k.ids = had
        /\ \A k \in jobs : k.alive /\ k.node = p /\ had # <<>> => k.ids = had
    BY <1>4 DEF SharedInv
  <2>2. had # <<>> /\ j.ids = had => next.ids = had
    BY <1>3, <1>4
  <2> HIDE DEF y, had
  <2>3. /\ \A k \in jobs' : k.alive /\ k.node = y => had # <<>> /\ k.ids = had
        /\ \A k \in jobs' : k.alive /\ k.node = p /\ had # <<>> => k.ids = had
    BY <1>1, <1>2, <2>1, <2>2
  <2> QED
    BY <2>3 DEF y, had
<1> QED
  <2>1. def' = def /\ run' = run /\ wave' = wave
    BY <1>2
  <2> QED
    BY <1>4, <2>1 DEF SharedInv

LEMMA WaveShared ==
    ASSUME TypeInv, SagaInv, TaskInv, OnceJobs, Direct, SharedInv,
           Advance \/ Gather \/ UndoNext \/ \E j \in jobs : \E i \in DOMAIN j.states : Throw(j, i)
    PROVE  SharedInv'
<1>1. /\ UNCHANGED <<def, run>>
      /\ \A j \in jobs' : \E k :
            /\ Continues(j, k)
            /\ \/ k \in jobs
               \/ \E n \in WaveOf(run) : k \in Jobs(n)
               \/ k.node \in Compensations
      /\ \A n \in DOMAIN wave'.results :
            \/ n \in DOMAIN wave.results /\ wave'.results[n] = wave.results[n]
            \/ \E j \in jobs : j.alive /\ j.node = n /\ wave'.results[n] = Outcome(j)
            \/ n \in Compensations
    BY WaveMeans
<1> SUFFICES ASSUME NEW p \in DOMAIN def, def[p].type = "approval"
             PROVE  LET y == def[p].refersTo  had == run.nodes[p].ids
                    IN /\ run.nodes[y].ids # <<>> => run.nodes[y].ids = had
                       /\ \A j \in jobs' : j.alive /\ j.node = y => had # <<>> /\ j.ids = had
                       /\ \A j \in jobs' : j.alive /\ j.node = p /\ had # <<>> => j.ids = had
                       /\ y \in DOMAIN wave'.results => had # <<>> /\ wave'.results[y].ids = had
                       /\ p \in DOMAIN wave'.results /\ had # <<>> => wave'.results[p].ids = had
  <2>1. def' = def /\ run' = run
    BY <1>1
  <2> QED
    BY <2>1 DEF SharedInv
<1> DEFINE y == def[p].refersTo  had == run.nodes[p].ids
<1>2. /\ run.nodes[y].ids # <<>> => run.nodes[y].ids = had
      /\ \A j \in jobs : j.alive /\ j.node = y => had # <<>> /\ j.ids = had
      /\ \A j \in jobs : j.alive /\ j.node = p /\ had # <<>> => j.ids = had
      /\ y \in DOMAIN wave.results => had # <<>> /\ wave.results[y].ids = had
      /\ p \in DOMAIN wave.results /\ had # <<>> => wave.results[p].ids = had
    BY DEF SharedInv
<1>3. /\ y \in DOMAIN def /\ def[y].type = "operation"
      /\ y \notin Compensations /\ p \notin Compensations
    BY SharedLine DEF TypeInv, Required, Target, Compensations
<1>4. \A n \in WaveOf(run) : \A j \in Jobs(n) :
         /\ j.node = n
         /\ n = y => had # <<>> /\ j.ids = had
         /\ n = p /\ had # <<>> => j.ids = had
    BY BeginsShared, JobFacts, WaveFacts
<1>5. ASSUME NEW j \in jobs', j.alive
      PROVE  /\ j.node = y => had # <<>> /\ j.ids = had
             /\ j.node = p /\ had # <<>> => j.ids = had
  <2>1. PICK k : /\ Continues(j, k)
                 /\ \/ k \in jobs
                    \/ \E n \in WaveOf(run) : k \in Jobs(n)
                    \/ k.node \in Compensations
    BY <1>1
  <2>2. j.node = k.node /\ j.ids = k.ids /\ k.alive
    BY <1>5, <2>1 DEF Continues
  <2> HIDE DEF y, had
  <2> QED
    BY <1>2, <1>3, <1>4, <2>1, <2>2
<1>6. ASSUME NEW j \in jobs, j.ids = had, had # <<>>
      PROVE  Outcome(j).ids = had
  <2>1. Outcome(j).ids = Planned(j.ids)
    BY OutcomeTyped DEF SagaInv
  <2>2. /\ had \in Seq(1..Len(tasks)) /\ Len(had) = 1 /\ had[1] # 0 /\ Len(tasks) \in Nat
    BY <1>6, OneRequest
  <2>3. had \in Seq(0..Len(tasks))
    <3>1. \A list : list \in Seq(1..Len(tasks)) => list \in Seq(0..Len(tasks))
      OBVIOUS
    <3> QED
      BY <2>2, <3>1
  <2>4. \A i \in 1..Len(had) : had[i] # 0 => \A m \in 1..i : had[m] # 0
    BY <2>2
  <2>5. PICK high \in 0..Len(had) :
           /\ \A i \in 1..Len(had) : had[i] # 0 <=> i <= high
           /\ Planned(had) \in Seq(1..Len(tasks)) /\ Len(Planned(had)) = high
           /\ \A i \in 1..high : Planned(had)[i] = had[i]
    <3> HIDE DEF had
    <3> QED
      BY <2>3, <2>4, PlannedFirst
  <2>6. high = 1
    BY <2>2, <2>5
  <2> DEFINE new == Planned(had)  T == 1..Len(tasks)
  <2>7. had \in Seq(T) /\ Len(had) = 1 /\ new \in Seq(T) /\ Len(new) = 1 /\ new[1] = had[1]
    BY <2>2, <2>5, <2>6
  <2> HIDE DEF had, new, T
  <2>8. new = had
    BY ONLY <2>7, OneEach, Zenon
  <2> QED
    BY <1>6, <2>1, <2>8 DEF new
<1>7. ASSUME NEW n \in DOMAIN wave'.results
      PROVE  /\ n = y => had # <<>> /\ wave'.results[n].ids = had
             /\ n = p /\ had # <<>> => wave'.results[n].ids = had
  <2> HIDE DEF y, had
  <2> QED
    BY <1>1, <1>2, <1>3, <1>6, <1>7
<1> QED
    BY <1>2, <1>5, <1>7

LEMMA RestShared ==
    ASSUME TypeInv, SagaInv, TaskInv, SharedInv,
           Commit \/ Halt \/ Resume \/ Cancel \/ Change \/ Die \/ RecoverTasks \/ RecoverRun
              \/ UNCHANGED vars
    PROVE  SharedInv'
<1>1. /\ jobs' \subseteq jobs /\ UNCHANGED <<def, faults>>
      /\ \A n \in DOMAIN wave'.results :
            n \in DOMAIN wave.results /\ wave'.results[n] = wave.results[n]
    BY RestMeans
<1>2. [Next]_vars
    BY DEF Next
<1> SUFFICES ASSUME NEW p \in DOMAIN def, def[p].type = "approval"
             PROVE  LET y == def[p].refersTo  had == run'.nodes[p].ids
                    IN /\ run'.nodes[y].ids # <<>> => run'.nodes[y].ids = had
                       /\ \A j \in jobs' : j.alive /\ j.node = y => had # <<>> /\ j.ids = had
                       /\ \A j \in jobs' : j.alive /\ j.node = p /\ had # <<>> => j.ids = had
                       /\ y \in DOMAIN wave'.results => had # <<>> /\ wave'.results[y].ids = had
                       /\ p \in DOMAIN wave'.results /\ had # <<>> => wave'.results[p].ids = had
    BY <1>1 DEF SharedInv
<1> DEFINE y == def[p].refersTo  had == run.nodes[p].ids
<1>3. /\ run.nodes[y].ids # <<>> => run.nodes[y].ids = had
      /\ \A j \in jobs : j.alive /\ j.node = y => had # <<>> /\ j.ids = had
      /\ \A j \in jobs : j.alive /\ j.node = p /\ had # <<>> => j.ids = had
      /\ y \in DOMAIN wave.results => had # <<>> /\ wave.results[y].ids = had
      /\ p \in DOMAIN wave.results /\ had # <<>> => wave.results[p].ids = had
    BY DEF SharedInv
<1>4. y \in DOMAIN def /\ Target(y) = y /\ Target(p) = y
    BY SharedLine DEF TypeInv, Target
<1>5. CASE \A n \in DOMAIN def : run'.nodes[n].ids = run.nodes[n].ids
  <2>1. run'.nodes[p].ids = had /\ run'.nodes[y].ids = run.nodes[y].ids
    BY <1>4, <1>5
  <2> HIDE DEF y, had
  <2>2. /\ run'.nodes[y].ids # <<>> => run'.nodes[y].ids = had
        /\ \A j \in jobs' : j.alive /\ j.node = y => had # <<>> /\ j.ids = had
        /\ \A j \in jobs' : j.alive /\ j.node = p /\ had # <<>> => j.ids = had
        /\ y \in DOMAIN wave'.results => had # <<>> /\ wave'.results[y].ids = had
        /\ p \in DOMAIN wave'.results /\ had # <<>> => wave'.results[p].ids = had
    BY <1>1, <1>3, <2>1
  <2> QED
    BY <2>1, <2>2 DEF y
<1>6. ASSUME Commit,
             \A n \in DOMAIN def :
                LET new == IF n \in DOMAIN wave.results THEN wave.results[n] ELSE run.nodes[n]
                IN run'.nodes[n].ids = new.ids
      PROVE  /\ run'.nodes[y].ids # <<>> => run'.nodes[y].ids = run'.nodes[p].ids
             /\ \A j \in jobs' : ~j.alive
             /\ DOMAIN wave'.results = {}
  <2>1. wave.phase = "undo" /\ wave.undo = <<>> /\ wave' = NoWave
    BY <1>6, CommitMeans
  <2>2. \A j \in jobs : ~j.alive
    BY <2>1 DEF SagaInv, WaveInv
  <2>3. NoWave.results = <<>> /\ DOMAIN <<>> = {}
    BY DEF NoWave
  <2>4. /\ run'.nodes[y].ids = IF y \in DOMAIN wave.results THEN wave.results[y].ids ELSE run.nodes[y].ids
        /\ run'.nodes[p].ids = IF p \in DOMAIN wave.results THEN wave.results[p].ids ELSE had
    BY <1>4, <1>6
  <2> HIDE DEF y, had
  <2>5. run'.nodes[y].ids # <<>> => run'.nodes[y].ids = run'.nodes[p].ids
    BY <1>3, <2>4
  <2> QED
    BY <1>1, <2>1, <2>2, <2>3, <2>5
<1>7. ASSUME RecoverRun, NEW choice \in Picks,
             \A n \in DOMAIN def : run'.nodes[n].ids = RecoveredState(n, Chosen(n, choice)).ids
      PROVE  /\ run'.nodes[y].ids # <<>> => run'.nodes[y].ids = run'.nodes[p].ids
             /\ \A j \in jobs' : ~j.alive
             /\ DOMAIN wave'.results = {}
  <2>1. jobs' = {} /\ DOMAIN wave'.results = {}
    <3>1. mode = "repairing" /\ UNCHANGED <<wave, jobs>>
      BY <1>7, RecoverRunMeans
    <3>2. jobs = {} /\ wave = NoWave
      BY <3>1 DEF SagaInv, WaveInv
    <3> QED
      BY <3>1, <3>2 DEF NoWave
  <2> DEFINE ids == Chosen(y, choice)
  <2>2. Chosen(p, choice) = ids /\ ids \in Seq(1..Len(tasks))
    BY <1>4, SharedChosen, ChosenFacts DEF TypeInv
  <2>3. /\ run'.nodes[y].ids = RecoveredState(y, ids).ids
        /\ run'.nodes[p].ids = RecoveredState(p, ids).ids
    BY <1>4, <1>7, <2>2
  <2>4. CASE ids = <<>>
    <3>1. run.nodes[y].ids = <<>>
      BY <1>4, <2>4, NothingChosen
    <3> HIDE DEF ids
    <3>2. RecoveredState(y, ids) = run.nodes[y]
      BY <1>4, <2>2, <2>4, RecoveredFacts DEF SagaInv
    <3> QED
      BY <2>1, <2>3, <3>1, <3>2
  <2>5. CASE ids # <<>>
    <3> HIDE DEF ids
    <3>1. RecoveredState(y, ids).ids = ids /\ RecoveredState(p, ids).ids = ids
      BY <1>4, <2>2, <2>5, RecoveredFacts DEF SagaInv
    <3> QED
      BY <2>1, <2>3, <3>1
  <2> QED
    BY <2>4, <2>5
<1>8. CASE /\ run'.nodes[y].ids # <<>> => run'.nodes[y].ids = run'.nodes[p].ids
           /\ \A j \in jobs' : ~j.alive
           /\ DOMAIN wave'.results = {}
    BY <1>8
<1>9. \/ \A n \in DOMAIN def : run'.nodes[n].ids = run.nodes[n].ids
      \/ /\ Commit
         /\ \A n \in DOMAIN def :
               LET new == IF n \in DOMAIN wave.results THEN wave.results[n] ELSE run.nodes[n]
               IN run'.nodes[n].ids = new.ids
      \/ /\ RecoverRun
         /\ \E choice \in Picks :
               \A n \in DOMAIN def : run'.nodes[n].ids = RecoveredState(n, Chosen(n, choice)).ids
  <2>1. \/ UNCHANGED run
        \/ \A n \in DOMAIN def : run'.nodes[n].ids = run.nodes[n].ids
        \/ /\ Commit
           /\ \A n \in DOMAIN def :
                 LET new == IF n \in DOMAIN wave.results THEN wave.results[n] ELSE run.nodes[n]
                 IN run'.nodes[n].ids = new.ids
        \/ /\ RecoverRun
           /\ \E choice \in Picks : \A n \in DOMAIN def :
                 LET new == RecoveredState(n, Chosen(n, choice))
                 IN run'.nodes[n].ids = new.ids
    BY <1>2, RunMeans
  <2> QED
    BY <2>1
<1> HIDE DEF y, had
<1>10. CASE \E choice \in Picks :
               /\ RecoverRun
               /\ \A n \in DOMAIN def : run'.nodes[n].ids = RecoveredState(n, Chosen(n, choice)).ids
    BY <1>7, <1>8, <1>10
<1> QED
    BY <1>5, <1>6, <1>8, <1>9, <1>10

LEMMA SharedKept ==
    ASSUME TypeInv, SagaInv, TaskInv, OnceJobs, Direct, SharedInv, [Next]_vars
    PROVE  SharedInv'
BY RequestShared, WaveShared, RestShared, StepKinds

-----------------------------------------------------------------------------
(* A run of which all nodes are complete is complete, unless a verified task has no *)
(* certificate: the tasks of its steps are verified, and those of its approvals are  *)
(* the tasks of operations.                                                        *)

DoneInv == (\A n \in Required : Status(n) = "verified_complete") =>
    \/ run.status \in {"verified_complete", "cancelled"}
    \/ \E id \in 1..Len(tasks) : Uncertain(tasks, id)

LEMMA DoneMeans ==
    ASSUME TypeInv, UNCHANGED <<def, answers, tasks>>, TypeInv', TaskInv', SharedInv',
           \A n \in Required : run'.nodes[n].status = "verified_complete"
    PROVE  \A n \in Required : \A i \in DOMAIN run'.nodes[n].ids :
              /\ run'.nodes[n].ids[i] \in 1..Len(tasks)
              /\ tasks[run'.nodes[n].ids[i]].status = "verified_success"
<1>1. /\ \A n : Plan(n)' = Plan(n) /\ Target(n)' = Target(n)
      /\ Steps' = Steps /\ Required' = Required /\ def' = def /\ tasks' = tasks
    BY SamePlans
<1>2. \A n \in DOMAIN def : run'.nodes[n].ids \in Seq(1..Len(tasks))
  <2>1. \A n \in DOMAIN def' : run'.nodes[n].ids \in Seq(1..Len(tasks'))
    BY DEF TypeInv, NodesInv, NodeTyped, Typed
  <2> QED
    BY <1>1, <2>1
<1>3. \A n \in DOMAIN def : \A i \in DOMAIN run'.nodes[n].ids : run'.nodes[n].ids[i] \in 1..Len(tasks)
  <2> SUFFICES ASSUME NEW n \in DOMAIN def, NEW i \in DOMAIN run'.nodes[n].ids
               PROVE  run'.nodes[n].ids[i] \in 1..Len(tasks)
    OBVIOUS
  <2> DEFINE list == run'.nodes[n].ids  S == 1..Len(tasks)
  <2>1. list \in Seq(S) /\ i \in DOMAIN list
    BY <1>2
  <2> HIDE DEF list, S
  <2>2. list[i] \in S
    BY ONLY <2>1
  <2> QED
    BY <2>2 DEF list, S
<1>4. \A n \in Required : n \in DOMAIN def
    BY DEF Required
<1>5. \A n \in DOMAIN def : Sound(run'.nodes[n], Plan(n), tasks)
  <2>1. \A n \in DOMAIN def' : Sound(run'.nodes[n], Plan(n)', tasks')
    BY DEF TaskInv, RecordsInv
  <2> QED
    BY <1>1, <2>1
<1>6. \A n \in Steps : \A i \in DOMAIN run'.nodes[n].ids :
         tasks[run'.nodes[n].ids[i]].status = "verified_success"
  <2> SUFFICES ASSUME NEW n \in Steps, NEW i \in DOMAIN run'.nodes[n].ids
               PROVE  tasks[run'.nodes[n].ids[i]].status = "verified_success"
    OBVIOUS
  <2>1. n \in Required /\ n \in DOMAIN def /\ def[n].type # "approval"
    BY <1>4 DEF Steps
  <2>2. Plan(n).type # "approval" /\ run'.nodes[n].status = "verified_complete"
    BY <2>1, PlanFacts DEF TypeInv
  <2> QED
    BY <1>5, <2>1, <2>2 DEF Sound
<1>7. ASSUME NEW p \in Required, def[p].type = "approval"
      PROVE  \E y \in Steps : run'.nodes[y].ids = run'.nodes[p].ids
  <2> DEFINE y == def[p].refersTo
  <2>1. y \in DOMAIN def /\ def[y].type = "operation" /\ p \in DOMAIN def
    BY <1>4, <1>7, SharedLine DEF TypeInv, Target
  <2>2. y \in Steps /\ y \in Required
    BY <2>1 DEF Steps, Required
  <2>3. run'.nodes[y].ids # <<>> => run'.nodes[y].ids = run'.nodes[p].ids
    <3>1. p \in DOMAIN def' /\ def'[p].type = "approval" /\ def'[p].refersTo = y
      BY <1>1, <1>7, <2>1
    <3> HIDE DEF y
    <3> QED
      BY <3>1 DEF SharedInv
  <2>4. run'.nodes[y].ids # <<>>
    <3>1. Whole(run'.nodes[y], Plan(y))
      <4>1. \A n \in Steps' : run'.nodes[n].status = "verified_complete" =>
               (n \in repaired' /\ def'[n].type # "operation") \/ Whole(run'.nodes[n], Plan(n)')
        BY DEF TaskInv, CompleteInv, Status
      <4> QED
        BY <1>1, <2>1, <2>2, <4>1
    <3>2. Plan(y).goal = 1
      BY <2>1, PlanFacts DEF TypeInv
    <3>3. Len(<<>>) # 1
      OBVIOUS
    <3> HIDE DEF y
    <3> QED
      BY <3>1, <3>2, <3>3 DEF Whole
  <2> HIDE DEF y
  <2> QED
    BY <2>2, <2>3, <2>4
<1>8. ASSUME NEW n \in Required, NEW i \in DOMAIN run'.nodes[n].ids
      PROVE  /\ run'.nodes[n].ids[i] \in 1..Len(tasks)
             /\ tasks[run'.nodes[n].ids[i]].status = "verified_success"
  <2>1. run'.nodes[n].ids[i] \in 1..Len(tasks)
    BY <1>3, <1>4, <1>8
  <2>2. CASE n \in Steps
    BY <1>6, <1>8, <2>1, <2>2
  <2>3. CASE n \notin Steps
    <3>1. def[n].type = "approval"
      BY <2>3 DEF Steps
    <3>2. PICK y \in Steps : run'.nodes[y].ids = run'.nodes[n].ids
      BY <1>7, <3>1
    <3>3. i \in DOMAIN run'.nodes[y].ids
      BY <1>8, <3>2
    <3> QED
      BY <1>6, <2>1, <3>2, <3>3
  <2> QED
    BY <2>2, <2>3
<1> QED
    BY <1>8

LEMMA DoneKept ==
    ASSUME TypeInv, SagaInv, DoneInv, [Next]_vars, TypeInv', TaskInv', SharedInv'
    PROVE  DoneInv'
<1>1. UNCHANGED <<def, faults>> /\ Required' = Required
      /\ Required \cap Compensations = {} /\ Required \subseteq DOMAIN def
    BY StepsFrame DEF Required, Compensations
<1> SUFFICES ASSUME \A n \in Required : run'.nodes[n].status = "verified_complete",
                    \A id \in 1..Len(tasks') : ~Uncertain(tasks', id)
             PROVE  run'.status \in {"verified_complete", "cancelled"}
    BY <1>1 DEF DoneInv, Status
<1>2. \A id \in 1..Len(tasks) : ~Uncertain(tasks, id)
  <2>1. Len(tasks) <= Len(tasks') /\ Len(tasks) \in Nat /\ Len(tasks') \in Nat
    <3>1. tasks \in Seq(TaskRecord) /\ tasks' \in Seq(TaskRecord')
      BY DEF TypeInv
    <3> HIDE DEF TaskRecord
    <3> QED
      BY <3>1, TasksStep
  <2>2. \A id \in 1..Len(tasks) : id \in 1..Len(tasks')
    BY <2>1
  <2> QED
    BY <2>2, TasksStep
<1>3. (\A n \in Required : Status(n) = "verified_complete") =>
         run.status \in {"verified_complete", "cancelled"}
    BY <1>2 DEF DoneInv
<1>4. CASE UNCHANGED run
    BY <1>3, <1>4 DEF Status
<1>5. CASE /\ \A n \in DOMAIN def : \/ run'.nodes[n].status = run.nodes[n].status
                                    \/ run'.nodes[n].status = "cancelled"
           /\ \/ run'.status = "cancelled"
              \/ run.status \notin {"cancelled", "verified_complete"}
  <2>1. \A n \in Required : Status(n) = "verified_complete"
    BY <1>1, <1>5 DEF Status
  <2> QED
    BY <1>3, <1>5, <2>1
<1>6. CASE (Commit \/ RecoverRun) /\ run'.status = DeriveStatus(run'.nodes)
  <2>1. UNCHANGED <<def, answers, tasks>>
    BY <1>6, CommitMeans, RecoverRunMeans
  <2>2. \A n \in Required : \A i \in DOMAIN run'.nodes[n].ids :
           /\ run'.nodes[n].ids[i] \in 1..Len(tasks)
           /\ tasks[run'.nodes[n].ids[i]].status = "verified_success"
    BY <2>1, DoneMeans
  <2>3. \A n \in Required : \A i \in DOMAIN run'.nodes[n].ids : Certified(run'.nodes[n].ids[i])
    BY <1>2, <2>2 DEF Certified, Uncertain
  <2>4. DeriveStatus(run'.nodes) = "verified_complete"
    <3> DEFINE nodes == run'.nodes
    <3>1. \A n \in Required : /\ nodes[n].status = "verified_complete"
                              /\ \A i \in DOMAIN nodes[n].ids : Certified(nodes[n].ids[i])
      BY <2>3
    <3> HIDE DEF nodes
    <3>2. DeriveStatus(nodes) = "verified_complete"
      BY <3>1, DerivedMore, Zenon
    <3> QED
      BY <3>2 DEF nodes
  <2> QED
    BY <1>6, <2>4
<1> QED
    BY <1>4, <1>5, <1>6, RunMeans

LEMMA SomethingRequired ==
    ASSUME def \in Definitions
    PROVE  Required # {}
<1>1. PICK n : n \in DOMAIN def
    BY NodesAssumption
<1>2. n \in Required \/ n \in Compensations
    BY <1>1, DefinitionFacts
<1> QED
    BY <1>2, DefinitionFacts

-----------------------------------------------------------------------------
(* The invariant of the work of a run.                                            *)

WorkInv == NoReady /\ FailedInv /\ CalmInv /\ ReconciledInv /\ SharedInv /\ DoneInv

LEMMA WorkBegins ==
    ASSUME Init
    PROVE  WorkInv
<1>1. /\ tasks = <<>> /\ wave = NoWave /\ jobs = {} /\ run.status = "planned" /\ def \in Definitions
      /\ \A n \in DOMAIN def : run.nodes[n] = NodeState("pending", <<>>, 0)
    BY DEF Init
<1>2. /\ DOMAIN wave.results = {} /\ Required \subseteq DOMAIN def
      /\ \A n \in DOMAIN def : Status(n) = "pending" /\ run.nodes[n].ids = <<>>
    BY <1>1 DEF NoWave, Status, NodeState, Required
<1>3. NoReady /\ FailedInv /\ ReconciledInv
    BY <1>1, <1>2 DEF NoReady, FailedInv, ReconciledInv
<1>4. CalmInv
    BY <1>1, <1>2 DEF CalmInv, Calm
<1>5. SharedInv
  <2> SUFFICES ASSUME NEW p \in DOMAIN def, def[p].type = "approval"
               PROVE  run.nodes[def[p].refersTo].ids = <<>>
    BY <1>1, <1>2 DEF SharedInv
  <2>1. def[p].refersTo \in DOMAIN def
    BY <1>1, NodeFacts DEF Target
  <2> QED
    BY <1>2, <2>1
<1>6. DoneInv
    BY <1>1, <1>2, SomethingRequired DEF DoneInv
<1> QED
    BY <1>3, <1>4, <1>5, <1>6 DEF WorkInv

LEMMA WorkKept ==
    ASSUME RunInv, Steady, Direct, OnceInv, WorkInv, [Next]_vars
    PROVE  WorkInv'
<1>1. TypeInv /\ SagaInv /\ TaskInv /\ OnceJobs
    BY DEF RunInv, Steady, OnceInv
<1>2. NoReady' /\ FailedInv'
    BY <1>1, NoReadyKept, FailedKept DEF WorkInv
<1>3. CalmInv' /\ ReconciledInv'
    BY <1>1, CalmKept, ReconciledKept DEF WorkInv
<1>4. SharedInv'
    BY <1>1, SharedKept DEF WorkInv
<1>5. TypeInv' /\ TaskInv'
  <2>1. RunInv'
    BY RunKept
  <2>2. "change" \notin faults'
    BY StepsFrame DEF Steady
  <2> QED
    BY <2>1, <2>2 DEF RunInv
<1>6. DoneInv'
    BY <1>1, <1>4, <1>5, DoneKept DEF WorkInv
<1> QED
    BY <1>2, <1>3, <1>4, <1>6 DEF WorkInv

\* A run that has no work, and no node or task that accounts for that, is complete.
LEMMA WorkShows ==
    ASSUME TypeInv, SagaInv, WorkInv, Closed
    PROVE  RunningHasWork
<1> SUFFICES ASSUME run.status = "running", WaveOf(run) = {},
                    \A n \in Required : run.nodes[n].status # "cancelled",
                    \A n \in lost : run.nodes[n].status # "recovery_required",
                    \A id \in DOMAIN tasks : ~(tasks[id].status = "verified_success" /\ ~Certified(id))
             PROVE  FALSE
    BY DEF RunningHasWork
<1>1. /\ def \in Definitions /\ Required \subseteq DOMAIN def /\ DOMAIN run.nodes = DOMAIN def
      /\ \A n \in Required : Status(n) \in NodeStatus \ {"skipped", "compensated"}
    BY DEF TypeInv, PlainInv, NodesInv, NodeTyped, Typed, SagaInv, FormInv, RunForm, Status, Fits, Required
<1>2. Awaiting(run.nodes) = {} /\ ReadyNodes(def, StatusOf(run.nodes)) = {}
    BY DEF WaveOf
<1>3. ASSUME NEW n \in Required PROVE Status(n) \in {"pending", "verified_complete"}
  <2>1. Status(n) \notin {"awaiting_approval", "awaiting_input"}
    BY <1>2 DEF Awaiting, Status
  <2>2. Status(n) \notin {"ready", "failed", "cancelled"}
    BY <1>1 DEF WorkInv, NoReady, FailedInv, Status
  <2>3. Status(n) # "recovery_required"
    BY DEF WorkInv, ReconciledInv, Status
  <2> QED
    BY <1>1, <2>1, <2>2, <2>3 DEF NodeStatus, DoneStatus
<1>4. \A n \in Required : Status(n) = "verified_complete"
  <2> DEFINE some == {n \in Required : Status(n) = "pending"}
  <2> SUFFICES ASSUME some # {} PROVE FALSE
    BY <1>3
  <2>1. PICK n \in some : Dependencies(def, n) \cap some = {}
    <3>1. some \subseteq DOMAIN def
      BY <1>1
    <3> HIDE DEF some
    <3> QED
      BY <1>1, <3>1, AcyclicHasFirst
  <2>2. \A p \in Dependencies(def, n) : p \in Required /\ Status(p) = "verified_complete"
    BY <1>3, <2>1 DEF Closed
  <2>3. n \in ReadyNodes(def, StatusOf(run.nodes))
    <3>1. \A m \in DOMAIN def : StatusOf(run.nodes)[m] = Status(m)
      BY <1>1 DEF StatusOf, Status
    <3> HIDE DEF StatusOf
    <3> QED
      BY <1>1, <2>2, <3>1 DEF ReadyNodes, DoneStatus, Required
  <2> QED
    BY <1>2, <2>3
<1>5. PICK id \in 1..Len(tasks) : Uncertain(tasks, id)
    BY <1>4 DEF WorkInv, DoneInv
<1>6. id \in DOMAIN tasks
  <2>1. tasks \in Seq(TaskRecord)
    BY DEF TypeInv
  <2> HIDE DEF TaskRecord
  <2> QED
    BY <1>5, <2>1
<1> QED
    BY <1>5, <1>6 DEF Uncertain, Certified

\* workflow-controller.ts:230 "or the workflow would stall forever with the answer in
\* hand": where predicates answer as before, an operation waits for its approval and has
\* one at most, and no node waits for a compensation, a run that calls itself running
\* has work, or a node or a task that accounts for having none.
THEOREM RunsDoNotStall ==
    Spec /\ "change" \notin faults /\ Direct /\ Closed => []RunningHasWork
<1>1. RunInv /\ WorkInv /\ Closed => RunningHasWork
    BY WorkShows DEF RunInv
<1>2. RunInv /\ Steady /\ Direct /\ Closed /\ OnceInv /\ WorkInv /\ [Next]_vars =>
         RunInv' /\ Steady' /\ Direct' /\ Closed' /\ OnceInv' /\ WorkInv'
  <2>1. Steady /\ RunInv /\ [Next]_vars => RunInv' /\ Steady'
    BY RunKept, StepsFrame DEF Steady
  <2>2. Direct /\ [Next]_vars => Direct'
    BY StepsFrame, SamePlanners
  <2>3. Closed /\ [Next]_vars => Closed'
    BY StepsFrame DEF Closed, Required, Dependencies
  <2>4. RunInv /\ Steady /\ Direct /\ OnceInv /\ [Next]_vars => OnceInv'
    BY OnceKept DEF RunInv, Steady
  <2>5. RunInv /\ Steady /\ Direct /\ OnceInv /\ WorkInv /\ [Next]_vars => WorkInv'
    BY WorkKept
  <2> QED
    BY <2>1, <2>2, <2>3, <2>4, <2>5
<1>3. "change" \notin faults => Steady
    BY DEF Steady
<1> QED
    BY RunBegins, OnceBegins, WorkBegins, <1>1, <1>2, <1>3, PTL DEF Spec

=============================================================================
