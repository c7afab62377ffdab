------------------------------- MODULE ToolGuards -------------------------------
(* packages/runtime-core/src/retry-guard.ts and verification-gate.ts: what a       *)
(* host that drives tools is told while it works: that a call keeps failing, and   *)
(* that it has changed something without verifying it.                             *)
(*                                                                              *)
(* A call is its key (toolCallKey: name and canonical input).  The history of      *)
(* calls is kept to state the properties.                                          *)
EXTENDS Integers, Sequences, FiniteSets

CONSTANTS
    Keys,               \* calls, by key
    WarnAt, StopAt,     \* options of the retry guard
    HardStop,           \* hardStopEnabled
    MaxCalls            \* bound: calls

VARIABLES
    failuresByKey, hintedKeys,                  \* RetryGuardState
    mutated, verifiedAfterMutation, prompted,   \* VerificationGateState
    log         \* history: [key, failed, effect, verdict] of each call

guard == <<failuresByKey, hintedKeys>>
gate  == <<mutated, verifiedAfterMutation, prompted>>
vars  == <<guard, gate, log>>

Init == /\ failuresByKey = [k \in Keys |-> 0] /\ hintedKeys = {}
        /\ mutated = FALSE /\ verifiedAfterMutation = FALSE /\ prompted = FALSE
        /\ log = <<>>

\* recordToolResult: shouldStop and shouldWarn.
Verdict(k, count) ==
    LET stop == HardStop /\ count >= StopAt
    IN IF stop THEN "stop" ELSE IF count >= WarnAt /\ k \notin hintedKeys THEN "warn" ELSE "go"

\* Mutant: a success leaves the hint of its key behind.
KeepsHint(k, failed) ==
    LET count == IF failed THEN failuresByKey[k] + 1 ELSE 0
    IN /\ failuresByKey' = [failuresByKey EXCEPT ![k] = count]
       /\ hintedKeys' = IF failed /\ Verdict(k, count) = "warn"
                         THEN hintedKeys \cup {k} ELSE hintedKeys

Count(k, failed) ==
    LET count == IF failed THEN failuresByKey[k] + 1 ELSE 0
    IN /\ failuresByKey' = [failuresByKey EXCEPT ![k] = count]
       /\ hintedKeys' = IF ~failed THEN hintedKeys \ {k}
                        ELSE IF Verdict(k, count) = "warn" THEN hintedKeys \cup {k}
                        ELSE hintedKeys

\* observeToolCall: "check" is a read with a structured verification of an expectation.
Observe(effect) ==
    /\ mutated' = (mutated \/ effect = "mutate")
    /\ verifiedAfterMutation' =
          (effect # "mutate" /\ (verifiedAfterMutation \/ (mutated /\ effect = "check")))

Call(k, failed, effect) ==
    /\ Len(log) < MaxCalls
    /\ Count(k, failed) /\ Observe(effect) /\ UNCHANGED prompted
    /\ log' = Append(log, [key |-> k, failed |-> failed, effect |-> effect,
                           verdict |-> IF failed THEN Verdict(k, failuresByKey[k] + 1) ELSE "go"])

\* requiresVerification: the host is asked once, and says so (markVerificationPrompted).
Requires == mutated /\ ~verifiedAfterMutation /\ ~prompted

Prompt == Requires /\ prompted' = TRUE /\ UNCHANGED <<guard, mutated, verifiedAfterMutation, log>>

\* resetRetryGuard and a new gate.
Reset == /\ log # <<>>
         /\ failuresByKey' = [k \in Keys |-> 0] /\ hintedKeys' = {} /\ log' = <<>>
         /\ mutated' = FALSE /\ verifiedAfterMutation' = FALSE /\ prompted' = FALSE

Next == \/ \E k \in Keys, failed \in BOOLEAN, effect \in {"read", "check", "mutate"} :
              Call(k, failed, effect)
        \/ Prompt \/ Reset

Spec == Init /\ [][Next]_vars
-----------------------------------------------------------------------------
(* Properties.                                                                 *)

\* The failures of key k that end at call i, since its last success.
Streak(k, i) ==
    LET since == {j \in 1..i : log[j].key = k /\ ~log[j].failed}
    IN {j \in 1..i : log[j].key = k /\ log[j].failed /\ \A s \in since : s < j}

\* A host is warned once in every streak of failures of one call, at the WarnAt-th,
\* however the calls of other keys fall between, and with a hard stop is stopped from the
\* StopAt-th on.  The streak and not the total counts.
HintedOncePerStreak ==
    \A i \in DOMAIN log :
        LET n == Cardinality(Streak(log[i].key, i))
        IN log[i].failed => log[i].verdict = IF HardStop /\ n >= StopAt THEN "stop"
                                             ELSE IF n = WarnAt THEN "warn" ELSE "go"

\* A mutation after which nothing was verified is reported, unless the host was asked
\* before: the question is put once, also for the mutations that follow it.
UnverifiedIsReported ==
    (\E i \in DOMAIN log : /\ log[i].effect = "mutate"
                           /\ \A j \in (i + 1)..Len(log) : log[j].effect # "check")
        => Requires \/ prompted

\* Both.
GuardsSpeak == HintedOncePerStreak /\ UnverifiedIsReported
-----------------------------------------------------------------------------
(* The inductive invariant behind GuardsSpeak.                                    *)

\* The guard counts the streak of each key that has not ended, and remembers the keys that
\* were warned in theirs: those that have reached WarnAt, unless the stop comes first.
CountsStreaks ==
    \A k \in Keys :
        /\ failuresByKey[k] = Cardinality(Streak(k, Len(log)))
        /\ k \in hintedKeys <=> /\ failuresByKey[k] >= WarnAt
                                /\ ~(HardStop /\ WarnAt >= StopAt)

\* An unverified mutation is remembered as one.
RemembersMutation ==
    (\E i \in DOMAIN log : /\ log[i].effect = "mutate"
                           /\ \A j \in (i + 1)..Len(log) : log[j].effect # "check")
        => mutated /\ ~verifiedAfterMutation

GuardsInv ==
    /\ failuresByKey \in [Keys -> Nat] /\ hintedKeys \subseteq Keys
    /\ mutated \in BOOLEAN /\ verifiedAfterMutation \in BOOLEAN /\ prompted \in BOOLEAN
    /\ log \in Seq([key : Keys, failed : BOOLEAN, effect : {"read", "check", "mutate"},
                    verdict : {"go", "warn", "stop"}])
    /\ CountsStreaks /\ HintedOncePerStreak /\ RemembersMutation
=============================================================================
