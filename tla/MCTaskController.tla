------------------------- MODULE MCTaskController -------------------------
(* Finite instances of TaskController: the request mixes and policies that     *)
(* its configurations choose from.                                             *)
EXTENDS TaskController, TLC

CONSTANTS t1, t2, k1, file

Ask(effect, evidence, retries, target, key) ==
    [effect |-> effect, evidence |-> evidence, retries |-> retries,
     target |-> target, key |-> key]

\* One of each kind that a guard of the controller tells apart, all with one key.
MCRequests ==
    { Ask("mutate", "file", 1, file, k1),     \* recovery can look at the files
      Ask("mutate", "other", 1, file, k1),    \* it cannot
      Ask("read", "none", 1, file, k1) }      \* one retry, nothing to verify

\* Those and one that carries no key.
MCMoreRequests == MCRequests \cup { Ask("mutate", "file", 1, file, NoKey) }

MCFileMutations == { Ask("mutate", "file", 1, file, k1) }
MCFileMutationOrRead == MCFileMutations \cup { Ask("read", "none", 0, file, k1) }

Policy(mutations) == [read |-> "allow", mutate |-> mutations]
MCPolicies == {Policy("allow"), Policy("confirm"), Policy("deny")}
MCAllowing == {Policy("allow")}

Symmetric == Permutations(Task) \cup Permutations(Proc)
=============================================================================
