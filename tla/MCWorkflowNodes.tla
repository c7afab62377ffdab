--------------------------- MODULE MCWorkflowNodes ---------------------------
(* The instances of WorkflowNodes that TLC checks: small definitions that have   *)
(* every node type between them.                                                *)
EXTENDS WorkflowNodes

CONSTANTS a, b, undoA, p, x, s, c, l, h, q, d, k

Node(type, deps, refersTo, branches, max) ==
    [type |-> type, dependsOn |-> deps, refersTo |-> refersTo, branches |-> branches,
     max |-> max]
Read   == [effect |-> "read", ask |-> FALSE]
Mutate == [effect |-> "mutate", ask |-> FALSE]
Asked  == [effect |-> "mutate", ask |-> TRUE]

Operation(deps, request)  == Node("operation", deps, "none", <<<<request>>>>, 0)
Compensation(n, request)  == Node("compensation", <<>>, n, <<<<request>>>>, 0)

\* A mutation, one that depends on it, and the compensation of the first.
Undoing == a :> Operation(<<>>, Mutate) @@ b :> Operation(<<a>>, Mutate)
           @@ undoA :> Compensation(a, Mutate)

\* An approval before a mutation, and a mutation that needs one without a node for it.
Approving == p :> Node("approval", <<>>, x, <<>>, 0) @@ x :> Operation(<<p>>, Asked)
             @@ b :> Operation(<<>>, Asked)

\* A condition on a read: two requests, or one.
Choosing == s :> Operation(<<>>, Read)
            @@ c :> Node("condition", <<s>>, s, <<<<Read, Mutate>>, <<Mutate>>>>, 0)

\* Branches side by side, then a person.
Branching == q :> Node("parallel", <<>>, "none", <<<<Mutate>>, <<Read, Asked>>>>, 0)
             @@ h :> Node("human_input", <<q>>, "none", <<>>, 0)

\* A loop, a delegate and a checkpoint.
Looping == l :> Node("bounded_loop", <<>>, "none", <<<<Read, Mutate>>>>, 2)
           @@ d :> Node("delegation", <<>>, "none", <<>>, 0)
           @@ k :> Node("checkpoint", <<l, d>>, "none", <<>>, 0)

NodeOrder      == <<a, b, undoA, p, x, s, c, l, h, q, d, k>>
AllDefinitions == {Undoing, Approving, Choosing, Branching, Looping}
SideBySide     == {Branching}
Deaths         == {{"death"}}
AllFaultSets   == {{"death"}, {"throw"}, {"halt", "death"}, {"change"}}

\* The graph functions agree with their reference definitions on every graph of up to
\* three nodes, each of which names up to two dependencies, perhaps one of them twice.
SmallGraphs ==
    UNION {[1..size -> {[dependsOn |-> named] : named \in BoundedSeq(1..size, 2)}] : size \in 0..3}

ASSUME GraphsAreSorted == \A g \in SmallGraphs : IsAcyclic(g) <=> Sorted(g) # {}

ASSUME DependenciesComeFirst ==
    \A g \in {g \in SmallGraphs : Sorted(g) # {}} : \A m, n \in DOMAIN g :
        m # n => (HasDependency(g, n, m) <=> \A o \in Sorted(g) : Before(o, m, n))
=============================================================================
