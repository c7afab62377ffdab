---------------------------- MODULE WorkflowGraph ----------------------------
(* packages/runtime-core/src/workflow-graph.ts: which definitions are accepted, *)
(* and which nodes of an accepted one are ready.  A definition is a function    *)
(* from node ids to nodes, so that ids are unique; dependsOn is a sequence,      *)
(* which may name a node twice.                                                 *)
EXTENDS Naturals, Sequences, FiniteSets, SequencesExt

CONSTANTS NodeLimit     \* 500

DoneStatus == {"verified_complete", "skipped", "compensated"}

Dependencies(d, n) == {d[n].dependsOn[i] : i \in DOMAIN d[n].dependsOn}

\* The references of every node: to other nodes that exist and are of the right type.
ReferencesExist(d) ==
    \A n \in DOMAIN d :
        /\ Dependencies(d, n) \subseteq DOMAIN d \ {n}
        /\ d[n].type \in {"approval", "compensation", "condition"} =>
              d[n].refersTo \in DOMAIN d
        /\ d[n].type \in {"compensation", "condition"} =>
              d[d[n].refersTo].type = "operation"

\* How many dependencies of n are in a layer, each as often as it is named.
Named(d, n, layer) ==
    Cardinality({i \in DOMAIN d[n].dependsOn : d[n].dependsOn[i] \in layer})

\* Kahn's algorithm: the layers, with the in-degrees that are left below each.
Layers(d) ==
    LET step[k \in 0..Cardinality(DOMAIN d)] ==
            IF k = 0
            THEN [ready |-> {n \in DOMAIN d : d[n].dependsOn = <<>>},
                  left  |-> [n \in DOMAIN d |-> Len(d[n].dependsOn)]]
            ELSE LET above == step[k - 1]
                     left  == [n \in DOMAIN d |->
                                  above.left[n] - Named(d, n, above.ready)]
                 IN [ready |-> {n \in DOMAIN d : above.left[n] > 0 /\ left[n] = 0},
                     left  |-> left]
    IN step

IsAcyclic(d) == UNION {Layers(d)[k].ready : k \in 0..Cardinality(DOMAIN d)} = DOMAIN d

\* hasDependency: the nodes visited on the way up from n.
Visited(d, n) ==
    LET step[k \in 0..Cardinality(DOMAIN d)] ==
            IF k = 0 THEN Dependencies(d, n)
            ELSE step[k - 1] \cup UNION {Dependencies(d, p) : p \in step[k - 1]}
    IN step[Cardinality(DOMAIN d)]

HasDependency(d, n, p) == p \in Visited(d, n)

ValidWorkflow(d) ==
    /\ Cardinality(DOMAIN d) <= NodeLimit
    /\ ReferencesExist(d)
    /\ IsAcyclic(d)
    /\ \A n \in DOMAIN d : d[n].type = "approval" => HasDependency(d, d[n].refersTo, n)

ReadyNodes(d, status) ==
    {n \in DOMAIN d : /\ d[n].type # "compensation" /\ status[n] = "pending"
                      /\ \A p \in Dependencies(d, n) : status[p] \in DoneStatus}
-----------------------------------------------------------------------------
(* Reference definitions, over all orders of the nodes.                        *)

Orders(d) == {o \in [1..Cardinality(DOMAIN d) -> DOMAIN d] :
                 \A i, j \in DOMAIN o : i # j => o[i] # o[j]}
Before(o, p, n) == \E i, j \in DOMAIN o : i < j /\ o[i] = p /\ o[j] = n
Sorted(d) == {o \in Orders(d) : \A n \in DOMAIN d : \A p \in Dependencies(d, n) : Before(o, p, n)}
=============================================================================
