------------------------------- MODULE Authority -------------------------------
(* packages/policy-core/src/index.ts: what an operation is classified as, what   *)
(* the policy of a process decides about it, and how plan and execute of         *)
(* TaskController use that decision while grants expire, approvals age and the   *)
(* policy file is edited between starts.                                         *)
(*                                                                              *)
(* Abstractions.  A command is its name's class ("reader", "network", "runner",   *)
(* "git", "manager", "shell" for the ones always denied, or "other"); an argument *)
(* is a flag, a flag that takes the next argument, or a subcommand of a class.    *)
(* A URL is its scheme and host.  Patterns are the sets that they match.  Names   *)
(* are normalized (normalizeCommandName) before they are compared.                *)
EXTENDS Integers, Sequences, FiniteSets

CONSTANTS
    Requests,       \* requests that callers make
    Policies,       \* contents of the policy file
    ApprovalTtl,    \* approvalTtlMs, in ticks
    MaxNow          \* bound: ticks

VARIABLES
    policy,     \* the policy this process has read
    now,        \* the time
    task        \* the task that was planned last; launched when it is done

vars == <<policy, now, task>>
-----------------------------------------------------------------------------
(* Classification.                                                             *)

\* subcommandOf: the first argument that is neither a flag nor the value of one.
Subcommand(args) ==
    LET from[i \in 1..(Len(args) + 2)] ==
            IF i > Len(args) THEN "none"
            ELSE CASE args[i] = "flag-with-value" -> from[i + 2]
                   [] args[i] = "flag"            -> from[i + 1]
                   [] OTHER                       -> args[i]
    IN from[1]

Traits(o) ==
    LET sub == Subcommand(o.args)
    IN CASE o.name = "runner" -> {"package-install", "network"}
         [] o.name = "network" \/ (o.name = "git" /\ sub = "remote") -> {"network"}
         [] o.name = "manager" /\ sub = "install" -> {"package-install", "network"}
         [] o.name = "manager" /\ sub = "query"   -> {"network"}
         [] OTHER -> {}

IsReadCommand(o) ==
    \/ o.name = "reader"
    \/ o.name \in {"git", "manager"} /\ Subcommand(o.args) = "query"

ReadActions ==
    [file     |-> {"list", "read", "stat", "hash"},
     terminal |-> {"status", "output"},
     browser  |-> {"navigate", "back", "forward", "reload", "inspect", "wait", "screenshot",
                   "tabs", "tab_new", "tab_switch", "scroll"},
     memory   |-> {"search", "list"},
     computer |-> {"capabilities", "inspect", "screenshot"},
     system   |-> {"info"}]

HasCommand(o) == o.kind = "terminal" /\ o.action \notin {"status", "output", "send"}

Effect(o) ==
    IF \/ o.kind = "file" /\ o.action = "delete"
       \/ o.kind = "memory" /\ o.action \in {"delete", "clear"} THEN "destructive"
    ELSE IF o.action \in ReadActions[o.kind] \/ (HasCommand(o) /\ IsReadCommand(o)) THEN "read"
    ELSE "mutate"

\* classifyOperation: the effect and traits; the capability is kind and action, the
\* target what the operation is about.
TraitsOf(o) == IF o.kind = "browser" THEN {"network"}
               ELSE IF HasCommand(o) THEN Traits(o) ELSE {}

\* defaultEvidenceFor, with withDefaultEvidence of TaskController: whether the request
\* has evidence to be held to.
HasEvidence(r) ==
    LET o == r.operation
    IN \/ r.evidence
       \/ /\ Effect(o) # "read"
          /\ \/ o.kind = "file" /\ o.action \in {"write", "mkdir", "delete", "move"}
             \/ o.kind = "memory" /\ o.action \in {"put", "delete"}
             \/ o.kind \in {"browser", "computer"}
             \/ o.kind = "terminal" /\ o.action = "send"
-----------------------------------------------------------------------------
(* Decisions.                                                                  *)

\* isCommandAllowed: a job that runs was allowed when it was started.
CommandAllowed(o, p) ==
    \/ o.kind # "terminal"
    \/ o.action \in {"status", "output", "stop", "send"} /\ o.job
    \/ /\ o.action \notin {"status", "output", "stop", "send"}
       /\ o.name \notin {"none", "shell"} /\ o.name \in p.commands

DomainAllowed(o, p) ==
    \/ o.kind # "browser" \/ o.url = "none"
    \/ o.url = "localhost" /\ p.localhost
    \/ o.url \notin {"localhost", "file"} /\ o.url \in p.domains

Matching(r, p) ==
    {g \in p.grants : /\ [kind |-> r.operation.kind, action |-> r.operation.action] \in g.covers
                      /\ Effect(r.operation) \in g.effects
                      /\ r.principal \in g.principals}

\* Mutant: a grant that has expired still counts.
UsableForEver(g, p, at) == g.version \in {"any", p.version}

Usable(g, p, at) == g.until > at /\ g.version \in {"any", p.version}

\* Mutant: the world is closed only to what a grant covers.
GrantedIfNamed(r, p, at) ==
    Matching(r, p) = {} \/ \E g \in Matching(r, p) : Usable(g, p, at)

\* capabilityRefusal: grants are a closed world, no grants an open one.
Granted(r, p, at) ==
    p.grants = {} \/ \E g \in Matching(r, p) : Usable(g, p, at)

\* evaluatePolicy.
Decision(r, p, at) ==
    LET o == r.operation
    IN IF r.constrained \/ Effect(o) \in r.forbidden THEN "deny"
       ELSE IF p.unhinged THEN "allow"
       ELSE IF \/ ~Granted(r, p, at) \/ TraitsOf(o) \cap p.deniedTraits # {}
               \/ ~CommandAllowed(o, p) \/ ~DomainAllowed(o, p)
               \/ Effect(o) # "read" /\ ~HasEvidence(r) THEN "deny"
       ELSE IF Effect(o) = "read" THEN "allow"
       ELSE IF p.mutations = "deny" THEN "deny" ELSE "confirm"

\* validateApproval: the answer to this challenge, in time.
Fits(challenge, response, at) == response = challenge.phrase /\ challenge.expires > at
-----------------------------------------------------------------------------
(* plan and execute.                                                           *)

NoTask == [status |-> "none"]

\* A task is planned once the one before it has ended.  Its phrase is a digest of the
\* task and its operation.
Plan(r) ==
    LET d == Decision(r, policy, now)
    IN /\ task.status \in {"none", "policy_blocked", "done"}
       /\ task' = [status |-> CASE d = "deny"    -> "policy_blocked"
                                [] d = "confirm" -> "awaiting_approval"
                                [] OTHER         -> "planned",
                   request |-> r, createdAt |-> now,
                   approval |-> IF d = "confirm"
                                THEN {[phrase |-> r, expires |-> now + ApprovalTtl]}
                                ELSE {}]
       /\ UNCHANGED <<policy, now>>

\* The policy is evaluated again: what this process has read, and now.
Execute(response) ==
    /\ task.status \in {"planned", "awaiting_approval"}
    /\ LET d == Decision(task.request, policy, now)
       IN \/ d = "deny" /\ task' = [task EXCEPT !.status = "policy_blocked"]
          \/ /\ \/ d = "allow"
                \/ d = "confirm" /\ \E c \in task.approval : Fits(c, response, now)
             /\ task' = [task EXCEPT !.status = "done"]
    /\ UNCHANGED <<policy, now>>

\* Another process, which reads the policy file as it is then.
Restart == policy' \in Policies \ {policy} /\ UNCHANGED <<now, task>>

Tick == now < MaxNow /\ now' = now + 1 /\ UNCHANGED <<policy, task>>

Init == policy \in Policies /\ now = 0 /\ task = NoTask

Next == \/ Restart \/ Tick
        \/ \E r \in Requests : Plan(r) \/ Execute(r)

Spec == Init /\ [][Next]_vars
-----------------------------------------------------------------------------
(* Properties of every step.                                                   *)

\* What is launched has authority at that moment, whatever it had when it was planned
\* and whichever policy it was planned under: unless the process is unhinged, it is a
\* read, or a mutation approved within the lifetime of its approval, and if the policy
\* issues grants one that covers it has not expired (docs/ARCHITECTURE.md:60).
NothingRunsOnStaleAuthority ==
    (task.status # "done" /\ task'.status = "done" /\ ~policy.unhinged) =>
        /\ \/ Effect(task.request.operation) = "read"
           \/ now < task.createdAt + ApprovalTtl
        /\ policy.grants # {} =>
              \E g \in Matching(task.request, policy) :
                 g.until > now /\ g.version \in {"any", policy.version}

\* q restricts p.  Taking the last grant away does not: without grants every caller has
\* the authority that the other rules leave.
Tighter(q, p) ==
    /\ q.version = p.version
    /\ q.commands \subseteq p.commands /\ q.domains \subseteq p.domains
    /\ p.deniedTraits \subseteq q.deniedTraits
    /\ q.localhost => p.localhost
    /\ q.unhinged => p.unhinged
    /\ q.mutations = "deny" \/ p.mutations = "confirm"
    /\ p.grants = {} \/ (q.grants # {} /\ q.grants \subseteq p.grants)

\* An operator who restricts the policy in any way never makes a request possible that
\* was denied, and never lets one run without the approval that it needed.
TighterNeverAllows ==
    Tighter(policy', policy) =>
        \A r \in Requests :
            LET before == Decision(r, policy, now)
                after  == Decision(r, policy', now)
            IN (before = "deny" => after = "deny") /\ (before = "confirm" => after # "allow")
-----------------------------------------------------------------------------
(* The inductive invariant behind NothingRunsOnStaleAuthority: an approval expires a     *)
(* lifetime after its task was planned.                                          *)

Challenges == [phrase : Requests, expires : Int]
Tasks == [status : {"planned", "awaiting_approval", "policy_blocked", "done"},
          request : Requests, createdAt : Nat, approval : SUBSET Challenges]

ApprovalsAge ==
    /\ now \in Nat
    /\ task = NoTask \/ task \in Tasks
    /\ task # NoTask => \A c \in task.approval : c.expires = task.createdAt + ApprovalTtl
=============================================================================
