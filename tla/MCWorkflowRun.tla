--------------------------- MODULE MCWorkflowRun ---------------------------
(* The instances of WorkflowRun that TLC checks: two operations, or one,     *)
(* and a compensation that undoes the first of them.                           *)
EXTENDS WorkflowRun, TLC

CONSTANTS a, b, undoA

Nodes         == {a, b, undoA}
TwoNodes      == {a, undoA}
Compensations == {undoA}
Undoes        == undoA :> a

\* What the tasks of a node may come to; all, or the two that end it.
TwoOutcomes == {"verified_complete", "failed"}
AllOutcomes == {"verified_complete", "failed", "cancelled", "recovery_required"}
Findings    == {"verified_complete", "recovery_required"}
AllFindings == {"failed", "awaiting_approval", "recovery_required"}
=============================================================================
