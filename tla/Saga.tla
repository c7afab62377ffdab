-------------------------------- MODULE Saga --------------------------------
(* What a durable workflow promises, whatever its processes do: steps are done  *)
(* in the order of their dependencies and stay done, a run is complete when all *)
(* of them are, and only a run that has failed undoes steps, and only ones that *)
(* are done.                                                                    *)
VARIABLES
    plan,       \* [steps, undoes, needs]: the steps, what each undoing undoes,
                \* and what each step needs
    state,      \* "open", "failed", "complete" or "cancelled"
    done,       \* the steps that are done
    undone      \* the undoings that are done

sagaVars == <<plan, state, done, undone>>

SagaInit ==
    /\ plan.undoes \in [DOMAIN plan.undoes -> plan.steps]
    /\ plan.needs \in [plan.steps -> SUBSET plan.steps]
    /\ state = "open" /\ done = {} /\ undone = {}

\* Some steps whose needs were done are done now.
Progress == done \subseteq done' /\ \A n \in done' \ done : plan.needs[n] \subseteq done

Work ==
    /\ state = "open" /\ state' \in {"open", "failed", "complete"}
    /\ Progress
    /\ state' = "complete" => done' = plan.steps
    /\ undone \subseteq undone'
    /\ undone' # undone => state' = "failed"
    /\ \A u \in undone' \ undone : plan.undoes[u] \in done'

Undo ==
    /\ state = "failed" /\ UNCHANGED <<state, done>>
    /\ undone \subseteq undone'
    /\ \A u \in undone' \ undone : plan.undoes[u] \in done

Abandon ==
    /\ state \in {"open", "failed"} /\ state' = "cancelled"
    /\ UNCHANGED <<done, undone>>

SagaNext == (Work \/ Undo \/ Abandon) /\ UNCHANGED plan

SagaSpec == SagaInit /\ [][SagaNext]_sagaVars
=============================================================================
