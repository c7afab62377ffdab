----------------------------- MODULE ServicesProofs -----------------------------
(* What the services promise, for every number of processes, tasks, calls and       *)
(* clients and every limit.  A service is one part of Services, so each proof has   *)
(* the same frame: a step of a behaviour of the part is a step of its module, and   *)
(* the invariant of the module is kept by it.                                     *)
EXTENDS Services, FiniteSetTheorems, TLAPS

\* What the provers are told about sequences.
LEMMA SeqOfFunction ==
    ASSUME NEW E, NEW n \in Nat, NEW f \in [1..n -> E] PROVE f \in Seq(E) /\ Len(f) = n
OBVIOUS

LEMMA ConcatFacts ==
    ASSUME NEW E, NEW s \in Seq(E), NEW t \in Seq(E)
    PROVE  /\ s \o t \in Seq(E) /\ Len(s \o t) = Len(s) + Len(t)
           /\ \A i \in 1..(Len(s) + Len(t)) :
                 (s \o t)[i] = IF i <= Len(s) THEN s[i] ELSE t[i - Len(s)]
OBVIOUS

LEMMA AppendFacts ==
    ASSUME NEW E, NEW s \in Seq(E), NEW x \in E
    PROVE  /\ Append(s, x) \in Seq(E) /\ Len(Append(s, x)) = Len(s) + 1
           /\ \A i \in 1..(Len(s) + 1) : Append(s, x)[i] = IF i <= Len(s) THEN s[i] ELSE x
OBVIOUS

LEMMA TailFacts ==
    ASSUME NEW E, NEW s \in Seq(E), s # <<>>
    PROVE  /\ Head(s) = s[1] /\ Head(s) \in E /\ Len(s) > 0
           /\ Tail(s) \in Seq(E) /\ Len(Tail(s)) = Len(s) - 1
           /\ \A i \in 1..(Len(s) - 1) : Tail(s)[i] = s[i + 1]
OBVIOUS

\* A sequence of at most two.
LEMMA ShortSeq ==
    ASSUME NEW E, NEW h \in Seq(E), Len(h) <= 2
    PROVE  \/ h = <<>> /\ Len(h) = 0
           \/ h # <<>> /\ Len(h) = 1 /\ h[1] \in E /\ Tail(h) = <<>> /\ DOMAIN h = {1}
           \/ /\ h # <<>> /\ Len(h) = 2 /\ h[1] \in E /\ h[2] \in E /\ DOMAIN h = {1, 2}
              /\ Tail(h) \in Seq(E) /\ Len(Tail(h)) = 1 /\ Tail(h)[1] = h[2]
              /\ Tail(h) # <<>> /\ DOMAIN Tail(h) = {1}
<1>1. Len(h) \in Nat /\ DOMAIN h = 1..Len(h) /\ (h = <<>> <=> Len(h) = 0)
    OBVIOUS
<1>2. CASE Len(h) = 0
    BY <1>1, <1>2
<1>3. CASE Len(h) = 1
    <2>1. /\ Tail(h) \in Seq(E) /\ Len(Tail(h)) = 0
        BY <1>1, <1>3, TailFacts
    <2>2. PICK y : y = Tail(h)
        OBVIOUS
    <2>3. y = <<>>
        BY <2>1, <2>2
    <2> QED BY <1>1, <1>3, <2>2, <2>3
<1>4. CASE Len(h) = 2
    <2>1. /\ Tail(h) \in Seq(E) /\ Len(Tail(h)) = 1 /\ Tail(h)[1] = h[2]
        <3>1. \A i \in 1..(Len(h) - 1) : Tail(h)[i] = h[i + 1]
            BY <1>1, <1>4, TailFacts
        <3>2. Tail(h) \in Seq(E) /\ Len(Tail(h)) = Len(h) - 1
            BY <1>1, <1>4, TailFacts
        <3>3. 1 \in 1..(Len(h) - 1)
            BY <1>4
        <3> QED BY <1>4, <3>1, <3>2, <3>3
    <2>2. PICK y : y = Tail(h)
        OBVIOUS
    <2>3. y \in Seq(E) /\ Len(y) = 1
        BY <2>1, <2>2
    <2>4. DOMAIN y = 1..1
        BY ONLY <2>3
    <2>5. y # <<>>
        <3>1. DOMAIN <<>> = {} /\ 1 \in 1..1
            OBVIOUS
        <3> QED BY <2>4, <3>1
    <2>6. 1..1 = {1} /\ 1..2 = {1, 2}
        OBVIOUS
    <2> QED BY <1>1, <1>4, <2>1, <2>2, <2>4, <2>5, <2>6
<1> QED BY <1>1, <1>2, <1>3, <1>4

\* Two sequences are one if they have the same elements in the same places.
LEMMA SameSeq ==
    ASSUME NEW E, NEW s \in Seq(E), NEW t \in Seq(E), Len(s) = Len(t),
           \A i \in 1..Len(s) : s[i] = t[i]
    PROVE  s = t
OBVIOUS

LEMMA FirstAndRest ==
    ASSUME NEW E, NEW a \in E, NEW t \in Seq(E), NEW u \in Seq(E), Len(u) = Len(t) + 1, u[1] = a,
           \A i \in 1..Len(t) : u[i + 1] = t[i]
    PROVE  <<a>> \o t = u
<1>1. PICK f, n : f = <<a>> /\ n = Len(t)
    OBVIOUS
<1>2. f \in Seq(E) /\ Len(f) = 1 /\ f[1] = a /\ n \in Nat
    BY <1>1
<1>3. /\ f \o t \in Seq(E) /\ Len(f \o t) = Len(f) + n
      /\ \A i \in 1..(Len(f) + n) : (f \o t)[i] = IF i <= Len(f) THEN f[i] ELSE t[i - Len(f)]
    BY <1>1, <1>2, ConcatFacts
<1>4. /\ f \o t \in Seq(E) /\ Len(f \o t) = 1 + n
      /\ \A i \in 1..(1 + n) : (f \o t)[i] = IF i <= 1 THEN f[i] ELSE t[i - 1]
    BY <1>2, <1>3
<1>5. ASSUME NEW i \in 1..(1 + n) PROVE (f \o t)[i] = u[i]
    <2>1. CASE i = 1
        BY <2>1, <1>2, <1>4
    <2>2. CASE i # 1
        <3>1. i - 1 \in 1..n /\ (i - 1) + 1 = i /\ ~(i <= 1)
            BY <1>2, <2>2
        <3>2. (f \o t)[i] = t[i - 1]
            BY <1>4, <3>1
        <3>3. u[(i - 1) + 1] = t[i - 1]
            BY <1>1, <3>1
        <3> QED BY <3>1, <3>2, <3>3
    <2> QED BY <2>1, <2>2
<1>6. Len(u) = 1 + n
    BY <1>1, <1>2
<1> QED BY <1>1, <1>4, <1>5, <1>6, SameSeq

LEMMA FirstAndOne ==
    ASSUME NEW E, NEW a \in E, NEW b \in E PROVE <<a>> \o <<b>> = <<a, b>>
<1>1. PICK t, u : t = <<b>> /\ u = <<a, b>>
    OBVIOUS
<1>2. /\ t \in Seq(E) /\ u \in Seq(E) /\ Len(t) = 1 /\ Len(u) = 2 /\ Len(u) = Len(t) + 1
      /\ u[1] = a /\ \A i \in 1..Len(t) : u[i + 1] = t[i]
    BY <1>1
<1>3. <<a>> \o t = u
    BY <1>2, FirstAndRest
<1> QED BY <1>1, <1>3

LEMMA FirstAndTwo ==
    ASSUME NEW E, NEW a \in E, NEW b \in E, NEW c \in E PROVE <<a>> \o <<b, c>> = <<a, b, c>>
<1>1. PICK t, u : t = <<b, c>> /\ u = <<a, b, c>>
    OBVIOUS
<1>2. /\ t \in Seq(E) /\ u \in Seq(E) /\ Len(t) = 2 /\ Len(u) = 3 /\ Len(u) = Len(t) + 1
      /\ u[1] = a /\ \A i \in 1..Len(t) : u[i + 1] = t[i]
    BY <1>1
<1>3. <<a>> \o t = u
    BY <1>2, FirstAndRest
<1> QED BY <1>1, <1>3

LEMMA FirstAndThree ==
    ASSUME NEW E, NEW a \in E, NEW b \in E, NEW c \in E, NEW d \in E
    PROVE  <<a>> \o <<b, c, d>> = <<a, b, c, d>>
<1>1. PICK t, u : t = <<b, c, d>> /\ u = <<a, b, c, d>>
    OBVIOUS
<1>2. /\ t \in Seq(E) /\ u \in Seq(E) /\ Len(t) = 3 /\ Len(u) = 4 /\ Len(u) = Len(t) + 1
      /\ u[1] = a /\ \A i \in 1..Len(t) : u[i + 1] = t[i]
    BY <1>1
<1>3. <<a>> \o t = u
    BY <1>2, FirstAndRest
<1> QED BY <1>1, <1>3

\* A behaviour is of one service from its beginning to its end.
LEMMA PartStays == ASSUME [Next]_vars PROVE part' = part
BY DEF Next, vars
-----------------------------------------------------------------------------
(* Vault                                                                       *)

\* A process is not called what the file and its environment are called.
LEMMA ProcessNames == {"", "part", "none", "env"} \cap Processes = {}
BY ServicesAssumption

\* In a behaviour of the vault every step is one of the vault.
LEMMA VaultSteps ==
    ASSUME part = "vault", [Next]_vars
    PROVE  V!Next \/ UNCHANGED <<v1, v2, v3, v4, v5, v6>>
BY DEF Next, vars, after3, after4, after5

LEMMA VaultInit == ASSUME V!Init PROVE V!KeyInv
BY ProcessNames
   DEF V!Init, V!KeyInv, V!Form, V!OneCreates, V!KeyOfFile, V!NoFile

LEMMA VaultStartEnv ==
    ASSUME V!KeyInv, NEW p \in Processes, V!Start(p, TRUE)
    PROVE  V!KeyInv'
<1> USE ProcessNames DEF V!KeyInv, V!Start, V!Goto
<1>1. V!Form'
    BY DEF V!Form, V!NoFile, V!Env
<1>2. V!OneCreates'
    BY DEF V!Form, V!OneCreates, V!NoFile
<1>3. V!KeyOfFile'
    BY DEF V!Form, V!OneCreates, V!KeyOfFile, V!NoFile
<1> QED BY <1>1, <1>2, <1>3

LEMMA VaultStart ==
    ASSUME V!KeyInv, NEW p \in Processes, V!Start(p, FALSE)
    PROVE  V!KeyInv'
<1>1. /\ v3' = v3 /\ v4' = v4 /\ v6' = v6
      /\ \/ /\ v1 = V!NoFile /\ v1' = [text |-> "", mode |-> "private"]
            /\ v2' = [v2 EXCEPT ![p] = "create"]
         \/ v1' = v1 /\ v2' = [v2 EXCEPT ![p] = "read"]
    BY DEF V!Start, V!Create, V!Goto
<1>2. CASE v1' = v1 /\ v2' = [v2 EXCEPT ![p] = "read"]
    <2>1. V!Form'
        BY <1>1, <1>2 DEF V!KeyInv, V!Form
    <2>2. V!OneCreates'
        BY <1>1, <1>2 DEF V!KeyInv, V!Form, V!OneCreates
    <2>3. V!KeyOfFile'
        BY <1>1, <1>2 DEF V!KeyInv, V!Form, V!KeyOfFile
    <2> QED BY <2>1, <2>2, <2>3 DEF V!KeyInv
\* There is no file, so nobody creates one and, unless it was tampered with, nobody is up.
<1>3. CASE /\ v1 = V!NoFile /\ v1' = [text |-> "", mode |-> "private"]
           /\ v2' = [v2 EXCEPT ![p] = "create"]
    <2>1. v1.text = "none" /\ v1'.text = "" /\ "none" \notin Processes
        BY <1>3, ProcessNames DEF V!NoFile
    <2>2. \A q \in Processes : v2[q] # "create" /\ (~v6 => v2[q] # "up")
        BY <2>1 DEF V!KeyInv, V!OneCreates, V!KeyOfFile
    <2>3. ~v6 => v4 = {}
        BY <2>1 DEF V!KeyInv, V!KeyOfFile
    <2>4. V!Form'
        BY <1>1, <1>3 DEF V!KeyInv, V!Form
    <2>5. V!OneCreates'
        BY <1>3, <2>1, <2>2 DEF V!KeyInv, V!Form, V!OneCreates
    <2>6. V!KeyOfFile'
        BY <1>1, <1>3, <2>1, <2>2, <2>3 DEF V!KeyInv, V!Form, V!KeyOfFile
    <2> QED BY <2>4, <2>5, <2>6 DEF V!KeyInv
<1> QED BY <1>1, <1>2, <1>3

LEMMA VaultWritePart ==
    ASSUME V!KeyInv, NEW p \in Processes, V!WritePart(p)
    PROVE  V!KeyInv'
<1> USE ProcessNames DEF V!KeyInv, V!WritePart, V!Goto
<1>1. V!Form'
    BY DEF V!Form, V!NoFile, V!Env
<1>2. V!OneCreates'
    BY DEF V!Form, V!OneCreates, V!NoFile
<1>3. V!KeyOfFile'
    BY DEF V!Form, V!OneCreates, V!KeyOfFile, V!NoFile
<1> QED BY <1>1, <1>2, <1>3

LEMMA VaultWrite ==
    ASSUME V!KeyInv, NEW p \in Processes, V!Write(p)
    PROVE  V!KeyInv'
<1> USE ProcessNames DEF V!KeyInv, V!Write, V!Goto
<1>1. V!Form'
    BY DEF V!Form, V!NoFile, V!Env
<1>2. V!OneCreates'
    BY DEF V!Form, V!OneCreates, V!NoFile
<1>3. V!KeyOfFile'
    BY DEF V!Form, V!OneCreates, V!KeyOfFile, V!NoFile
<1> QED BY <1>1, <1>2, <1>3

LEMMA VaultRead ==
    ASSUME V!KeyInv, NEW p \in Processes, V!Read(p)
    PROVE  V!KeyInv'
<1>1. /\ v1' = v1 /\ v4' = v4 /\ v6' = v6
      /\ \/ /\ v1.text \in Processes /\ v3' = [v3 EXCEPT ![p] = v1.text]
            /\ v2' = [v2 EXCEPT ![p] = "up"]
         \/ v3' = v3 /\ v2' = [v2 EXCEPT ![p] = "failed"]
    BY DEF V!Read, V!Goto
<1> USE ProcessNames, <1>1 DEF V!KeyInv
<1>2. V!Form'
    BY DEF V!Form, V!NoFile
<1>3. V!OneCreates'
    BY DEF V!Form, V!OneCreates, V!NoFile
<1>4. V!KeyOfFile'
    BY DEF V!Form, V!OneCreates, V!KeyOfFile, V!NoFile
<1> QED BY <1>2, <1>3, <1>4

LEMMA VaultSeal ==
    ASSUME V!KeyInv, NEW p \in Processes, V!Seal(p)
    PROVE  V!KeyInv'
<1> USE ProcessNames DEF V!KeyInv, V!Seal, V!Goto
<1>1. V!Form'
    BY DEF V!Form, V!NoFile, V!Env
<1>2. V!OneCreates'
    BY DEF V!Form, V!OneCreates, V!NoFile
<1>3. V!KeyOfFile'
    BY DEF V!Form, V!OneCreates, V!KeyOfFile, V!NoFile
<1> QED BY <1>1, <1>2, <1>3

LEMMA VaultDie ==
    ASSUME V!KeyInv, NEW p \in Processes, V!Die(p)
    PROVE  V!KeyInv'
<1> USE ProcessNames DEF V!KeyInv, V!Die, V!Goto
<1>1. V!Form'
    BY DEF V!Form, V!NoFile, V!Env
<1>2. V!OneCreates'
    BY DEF V!Form, V!OneCreates, V!NoFile
<1>3. V!KeyOfFile'
    BY DEF V!Form, V!OneCreates, V!KeyOfFile, V!NoFile
<1> QED BY <1>1, <1>2, <1>3

LEMMA VaultLoosen ==
    ASSUME V!KeyInv, V!Loosen
    PROVE  V!KeyInv'
<1> USE ProcessNames DEF V!KeyInv, V!Loosen
<1>1. V!Form'
    BY DEF V!Form, V!NoFile, V!Env
<1>2. V!OneCreates'
    BY DEF V!Form, V!OneCreates, V!NoFile
<1>3. V!KeyOfFile'
    BY DEF V!Form, V!OneCreates, V!KeyOfFile, V!NoFile
<1> QED BY <1>1, <1>2, <1>3

LEMMA VaultRemove ==
    ASSUME V!KeyInv, V!Remove
    PROVE  V!KeyInv'
<1> USE ProcessNames DEF V!KeyInv, V!Remove
<1>1. V!Form'
    BY DEF V!Form, V!NoFile, V!Env
<1>2. V!OneCreates'
    BY DEF V!Form, V!OneCreates, V!NoFile
<1>3. V!KeyOfFile'
    BY DEF V!Form, V!OneCreates, V!KeyOfFile, V!NoFile
<1> QED BY <1>1, <1>2, <1>3

\* However many processes start at once, and wherever they die, all that run hold one key
\* and open what any of them sealed (packages/server/src/payload-key.ts).
THEOREM KeysAgree == Spec => []OneKey
<1> DEFINE Inv == part = "vault" => V!KeyInv
<1>1. Init => Inv
    BY VaultInit DEF Init
<1>2. Inv /\ [Next]_vars => Inv'
    <2> SUFFICES ASSUME V!KeyInv, part = "vault", [Next]_vars PROVE V!KeyInv'
        BY PartStays
    <2>1. CASE UNCHANGED <<v1, v2, v3, v4, v5, v6>>
        BY <2>1 DEF V!KeyInv, V!Form, V!OneCreates, V!KeyOfFile
    <2>2. CASE V!Next
        BY <2>2, VaultStartEnv, VaultStart, VaultWritePart, VaultWrite, VaultRead, VaultSeal,
           VaultDie, VaultLoosen, VaultRemove DEF V!Next
    <2> QED BY <2>1, <2>2, VaultSteps
<1>3. Inv => OneKey
    BY DEF OneKey, V!OneKey, V!KeyInv, V!KeyOfFile, V!Opens
<1> QED BY <1>1, <1>2, <1>3, PTL DEF Spec
-----------------------------------------------------------------------------
(* Authority                                                                   *)

\* In a behaviour of the authority every step is one of it.
LEMMA AuthoritySteps ==
    ASSUME part = "authority", [Next]_vars
    PROVE  A!Next \/ UNCHANGED <<v1, v2, v3>>
BY DEF Next, vars

\* What lets a request run at once, and what it takes to let it run at all.
LEMMA DecisionFacts ==
    ASSUME NEW r, NEW p, NEW at, ~p.unhinged
    PROVE  /\ A!Decision(r, p, at) = "allow" => A!Effect(r.operation) = "read"
           /\ A!Decision(r, p, at) # "deny" => A!Granted(r, p, at)
BY DEF A!Decision

LEMMA AuthorityInit == ASSUME A!Init PROVE A!ApprovalsAge
BY DEF A!Init, A!ApprovalsAge

LEMMA AuthorityPlan ==
    ASSUME A!ApprovalsAge, NEW r \in Requests, A!Plan(r) PROVE A!ApprovalsAge'
<1>1. PICK d : /\ v3' = [status |-> CASE d = "deny"    -> "policy_blocked"
                                     [] d = "confirm" -> "awaiting_approval"
                                     [] OTHER         -> "planned",
                         request |-> r, createdAt |-> v2,
                         approval |-> IF d = "confirm"
                                      THEN {[phrase |-> r, expires |-> v2 + ApprovalTtl]}
                                      ELSE {}]
               /\ v2' = v2
    BY DEF A!Plan
<1>2. v2 \in Nat /\ ApprovalTtl \in Nat
    BY ServicesAssumption DEF ServicesAssumption, A!ApprovalsAge
<1>3. /\ v3'.status \in {"planned", "awaiting_approval", "policy_blocked"}
      /\ v3'.approval \subseteq {[phrase |-> r, expires |-> v2 + ApprovalTtl]}
    BY <1>1
<1>4. v3' \in A!Tasks
    BY <1>1, <1>2, <1>3 DEF A!Tasks, A!Challenges
<1>5. \A c \in v3'.approval : c.expires = v3'.createdAt + ApprovalTtl
    BY <1>1, <1>3
<1> QED BY <1>1, <1>2, <1>4, <1>5 DEF A!ApprovalsAge

LEMMA AuthorityExecute ==
    ASSUME A!ApprovalsAge, NEW response, A!Execute(response) PROVE A!ApprovalsAge'
<1>1. /\ v3.status \in {"planned", "awaiting_approval"} /\ v2' = v2
      /\ \E s \in {"policy_blocked", "done"} : v3' = [v3 EXCEPT !.status = s]
    BY DEF A!Execute
<1>2. v3 \in A!Tasks
    BY <1>1 DEF A!ApprovalsAge, A!NoTask
<1>3. v3' \in A!Tasks /\ v3'.approval = v3.approval /\ v3'.createdAt = v3.createdAt
    BY <1>1, <1>2 DEF A!Tasks
<1>4. v3 # A!NoTask
    BY <1>1 DEF A!NoTask
<1> QED BY <1>1, <1>3, <1>4 DEF A!ApprovalsAge

LEMMA AuthorityKept == Spec => [](part = "authority" => A!ApprovalsAge)
<1> DEFINE Inv == part = "authority" => A!ApprovalsAge
<1>1. Init => Inv
    BY AuthorityInit DEF Init
<1>2. Inv /\ [Next]_vars => Inv'
    <2> SUFFICES ASSUME A!ApprovalsAge, part = "authority", [Next]_vars PROVE A!ApprovalsAge'
        BY PartStays
    <2>1. CASE UNCHANGED <<v1, v2, v3>>
        BY <2>1 DEF A!ApprovalsAge
    <2>2. CASE A!Restart \/ A!Tick
        BY <2>2 DEF A!Restart, A!Tick, A!ApprovalsAge
    <2>3. CASE \E r \in Requests : A!Plan(r) \/ A!Execute(r)
        BY <2>3, AuthorityPlan, AuthorityExecute
    <2> QED BY <2>1, <2>2, <2>3, AuthoritySteps DEF A!Next
<1> QED BY <1>1, <1>2, PTL DEF Spec

LEMMA LaunchIsAuthorised ==
    ASSUME A!ApprovalsAge, A!Next PROVE A!NothingRunsOnStaleAuthority
<1> SUFFICES ASSUME v3.status # "done", v3'.status = "done", ~v1.unhinged
             PROVE  /\ \/ A!Effect(v3.request.operation) = "read"
                       \/ v2 < v3.createdAt + ApprovalTtl
                    /\ A!Granted(v3.request, v1, v2)
    BY DEF A!NothingRunsOnStaleAuthority, A!Granted, A!Usable
<1>1. PICK response \in Requests : A!Execute(response)
    <2>1. ~A!Restart /\ ~A!Tick
        BY DEF A!Restart, A!Tick
    <2>2. ASSUME NEW r \in Requests, A!Plan(r) PROVE FALSE
        BY <2>2 DEF A!Plan
    <2> QED BY <2>1, <2>2 DEF A!Next
<1>2. /\ v3.status \in {"planned", "awaiting_approval"}
      /\ \/ A!Decision(v3.request, v1, v2) = "allow"
         \/ /\ A!Decision(v3.request, v1, v2) = "confirm"
            /\ \E c \in v3.approval : A!Fits(c, response, v2)
    <2>1. v3 \in A!Tasks
        BY <1>1 DEF A!Execute, A!ApprovalsAge, A!NoTask
    <2>2. [v3 EXCEPT !.status = "policy_blocked"].status = "policy_blocked"
        BY <2>1 DEF A!Tasks
    <2> QED BY <1>1, <2>2 DEF A!Execute
<1>3. CASE A!Decision(v3.request, v1, v2) = "allow"
    BY <1>3, DecisionFacts
<1>4. CASE /\ A!Decision(v3.request, v1, v2) = "confirm"
           /\ \E c \in v3.approval : A!Fits(c, response, v2)
    <2>1. v3 # A!NoTask /\ v3 \in A!Tasks
        BY <1>2 DEF A!ApprovalsAge, A!NoTask
    <2>2. v2 < v3.createdAt + ApprovalTtl
        BY <1>4, <2>1 DEF A!ApprovalsAge, A!Fits
    <2> QED BY <1>4, <2>2, DecisionFacts
<1> QED BY <1>2, <1>3, <1>4

\* Whatever a task was allowed when it was planned and under whichever policy, what is
\* launched is a read or approved within the lifetime of its approval, and covered by a grant
\* that has not expired if the policy issues any (packages/policy-core/src/index.ts).
THEOREM AuthorityIsFresh == Spec => NothingRunsOnStaleAuthority
<1>1. /\ part = "authority" => A!ApprovalsAge
      /\ [Next]_vars
      => [(part = "authority") => A!NothingRunsOnStaleAuthority]_vars
    <2> SUFFICES ASSUME part = "authority", A!ApprovalsAge, Next
                 PROVE  A!NothingRunsOnStaleAuthority
        BY DEF vars
    <2>1. CASE A!Next
        BY <2>1, LaunchIsAuthorised
    <2>2. CASE UNCHANGED <<v1, v2, v3>>
        BY <2>2 DEF A!NothingRunsOnStaleAuthority
    <2> QED BY <2>1, <2>2, AuthoritySteps
<1> QED BY <1>1, AuthorityKept, PTL DEF Spec, NothingRunsOnStaleAuthority

\* A policy that restricts another denies what that denied, and lets nothing run at once that
\* needed an approval under it.
LEMMA TighterDecides ==
    ASSUME NEW p, NEW q, NEW r, NEW at, A!Tighter(q, p)
    PROVE  /\ A!Decision(r, p, at) = "deny" => A!Decision(r, q, at) = "deny"
           /\ A!Decision(r, p, at) = "confirm" => A!Decision(r, q, at) # "allow"
<1>1. A!Granted(r, q, at) => A!Granted(r, p, at)
    BY DEF A!Tighter, A!Granted, A!Matching, A!Usable
<1>2. A!CommandAllowed(r.operation, q) => A!CommandAllowed(r.operation, p)
    BY DEF A!Tighter, A!CommandAllowed
<1>3. A!DomainAllowed(r.operation, q) => A!DomainAllowed(r.operation, p)
    BY DEF A!Tighter, A!DomainAllowed
<1>4. /\ q.unhinged => p.unhinged
      /\ p.mutations = "deny" => q.mutations = "deny"
      /\ A!TraitsOf(r.operation) \cap p.deniedTraits # {}
            => A!TraitsOf(r.operation) \cap q.deniedTraits # {}
    BY DEF A!Tighter
<1> QED BY <1>1, <1>2, <1>3, <1>4 DEF A!Decision

\* An operator who restricts the policy in any way never makes a request possible that was
\* denied, and never lets one run without the approval that it needed.
THEOREM RestrictingNeverAllows == Spec => TighterNeverAllows
<1>1. [Next]_vars => [(part = "authority") => A!TighterNeverAllows]_vars
    BY TighterDecides DEF A!TighterNeverAllows
<1> QED BY <1>1, PTL DEF Spec, TighterNeverAllows
-----------------------------------------------------------------------------
(* HttpServer                                                                  *)

\* In a behaviour of the server every step is one of it.
LEMMA HttpSteps ==
    ASSUME part = "http", [Next]_vars
    PROVE  H!Next \/ UNCHANGED <<v1, v2, v3, v4, v5, v6, v7, v8>>
BY DEF Next, vars, after3, after4, after5, after6

\* A tick puts on the wire what follows, and nothing twice.
LEMMA TickedFacts ==
    ASSUME NEW s \in H!Streams, NEW n \in Nat, v5 \in Nat, s.open, H!Continues(s, n)
    PROVE  H!Ticked(s) \in H!Streams /\ H!Continues(H!Ticked(s), n)
<1> DEFINE k == v5 - s.cursor
           new == [i \in 1 .. k |-> s.cursor + i]
           t == [s EXCEPT !.wire = s.wire \o new, !.cursor = IF new = <<>> THEN s.cursor ELSE v5]
<1>1. /\ s.wire \in Seq(Nat) /\ s.cursor \in Nat /\ k \in Nat
      /\ s.cursor = n + Len(s.wire) /\ Len(s.wire) \in Nat
      /\ \A i \in 1 .. Len(s.wire) : s.wire[i] = n + i
    BY DEF H!Streams, H!Continues
<1>2. new \in Seq(Nat) /\ Len(new) = k /\ \A i \in 1 .. k : new[i] = s.cursor + i
    <2>1. \A i \in 1 .. k : s.cursor + i \in Nat
        BY <1>1
    <2>2. new \in [1 .. k -> Nat]
        BY <2>1
    <2>3. \A i \in 1 .. k : new[i] = s.cursor + i
        OBVIOUS
    <2>4. k \in Nat
        BY <1>1
    <2> HIDE DEF new, k
    <2>5. new \in Seq(Nat) /\ Len(new) = k
        BY ONLY <2>4, <2>2, SeqOfFunction
    <2> QED BY <2>3, <2>5
<1>3. new = <<>> => k = 0
    BY <1>2
<1> HIDE DEF new, k
<1>4. /\ s.wire \o new \in Seq(Nat) /\ Len(s.wire \o new) = Len(s.wire) + k
      /\ \A i \in 1 .. (Len(s.wire) + k) :
            (s.wire \o new)[i] = IF i <= Len(s.wire) THEN s.wire[i] ELSE new[i - Len(s.wire)]
    <2>1. s.wire \in Seq(Nat) /\ new \in Seq(Nat)
        BY <1>1, <1>2
    <2>2. /\ s.wire \o new \in Seq(Nat) /\ Len(s.wire \o new) = Len(s.wire) + Len(new)
          /\ \A i \in 1 .. (Len(s.wire) + Len(new)) :
                (s.wire \o new)[i] = IF i <= Len(s.wire) THEN s.wire[i]
                                                        ELSE new[i - Len(s.wire)]
        BY ONLY <2>1, ConcatFacts
    <2> QED BY <2>2, <1>2
<1>5. \A i \in 1 .. (Len(s.wire) + k) : (s.wire \o new)[i] = n + i
    BY <1>1, <1>2, <1>4
<1>6. s.cursor + k = v5
    BY <1>1 DEF k
<1>7. /\ t \in H!Streams /\ t.open = s.open /\ t.wire = s.wire \o new
      /\ t.cursor = v5
    <2>1. (IF new = <<>> THEN s.cursor ELSE v5) = v5
        BY <1>1, <1>3, <1>6
    <2>2. t = [s EXCEPT !.wire = s.wire \o new, !.cursor = v5]
        BY <2>1
    <2> QED BY <2>2, <1>4 DEF H!Streams
<1>8. H!Continues(t, n)
    BY <1>1, <1>4, <1>5, <1>6, <1>7 DEF H!Continues
<1>9. H!Ticked(s) = t
    BY DEF H!Ticked, new, k
<1> QED BY <1>7, <1>8, <1>9

LEMMA StreamsInit == ASSUME H!Init PROVE H!StreamsInv
BY DEF H!Init, H!StreamsInv, H!ResumesWithoutGaps, H!Continues, H!NoStream, H!Streams

LEMMA StreamsOpen ==
    ASSUME H!StreamsInv, NEW c \in Clients, H!Open(c) PROVE H!StreamsInv'
<1> DEFINE seen == v7[c].seen
           s == [H!NoStream EXCEPT !.open = TRUE,
                                   !.cursor = IF seen = <<>> THEN 0 ELSE seen[Len(seen)]]
<1>1. /\ v5' = v5 /\ v6' = [v6 EXCEPT ![c] = H!Ticked(s)]
      /\ v7' = [v7 EXCEPT ![c].connects = @ + 1]
    BY DEF H!Open
<1>2. seen \in Seq(Nat) /\ Len(seen) \in Nat /\ Len(seen) <= v5
    <2>1. seen \in Seq(Nat) /\ v6[c].wire \in Seq(Nat) /\ v5 \in Nat
        BY DEF H!StreamsInv, H!Streams
    <2>2. Len(seen) + Len(v6[c].wire) <= v5
        BY DEF H!StreamsInv, H!Continues
    <2>3. Len(seen) \in Nat /\ Len(v6[c].wire) \in Nat
        BY <2>1
    <2> HIDE DEF seen
    <2> QED BY <2>1, <2>2, <2>3
<1>3. \A i \in 1 .. Len(seen) : seen[i] = i
    BY <1>2 DEF H!StreamsInv, H!ResumesWithoutGaps
<1>4. (IF seen = <<>> THEN 0 ELSE seen[Len(seen)]) = Len(seen)
    BY <1>2, <1>3
<1>5. s = [H!NoStream EXCEPT !.open = TRUE, !.cursor = Len(seen)]
    BY <1>4
<1> HIDE DEF s, seen
<1>6. s \in H!Streams /\ s.open /\ H!Continues(s, Len(seen))
    <2>1. H!NoStream \in H!Streams /\ H!NoStream.wire = <<>>
        BY DEF H!NoStream, H!Streams
    <2>2. /\ s \in H!Streams /\ s.open = TRUE /\ s.cursor = Len(seen) /\ s.wire = <<>>
        BY <1>2, <1>5, <2>1 DEF H!Streams
    <2> QED BY <1>2, <2>2 DEF H!Continues
<1>7. v5 \in Nat
    BY DEF H!StreamsInv
<1>8. H!Ticked(s) \in H!Streams /\ H!Continues(H!Ticked(s), Len(seen))
    BY <1>2, <1>6, <1>7, TickedFacts
<1>9. /\ v6' \in [Clients -> H!Streams]
      /\ v7' \in [Clients -> [seen : Seq(Nat), connects : Nat]]
      /\ \A d \in Clients : v7'[d].seen = v7[d].seen
      /\ \A d \in Clients : d # c => v6'[d] = v6[d]
      /\ v6'[c] = H!Ticked(s)
    <2>1. /\ v6 \in [Clients -> H!Streams]
          /\ v7 \in [Clients -> [seen : Seq(Nat), connects : Nat]]
        BY DEF H!StreamsInv
    <2>2. /\ v7' \in [Clients -> [seen : Seq(Nat), connects : Nat]]
          /\ \A d \in Clients : v7'[d].seen = v7[d].seen
        BY <1>1, <2>1
    <2>3. /\ v6' \in [Clients -> H!Streams] /\ v6'[c] = H!Ticked(s)
          /\ \A d \in Clients : d # c => v6'[d] = v6[d]
        BY <1>1, <1>8, <2>1
    <2> QED BY <2>2, <2>3
<1>10. H!ResumesWithoutGaps'
    BY <1>9 DEF H!StreamsInv, H!ResumesWithoutGaps
<1>11. \A d \in Clients : H!Continues(v6[d], Len(v7[d].seen))
    BY DEF H!StreamsInv
<1>12. ASSUME NEW d \in Clients PROVE H!Continues(v6[d], Len(v7[d].seen))'
    <2>1. CASE d = c
        BY <2>1, <1>1, <1>8, <1>9 DEF H!Continues, seen
    <2>2. CASE d # c
        BY <2>2, <1>1, <1>9, <1>11 DEF H!Continues
    <2> QED BY <2>1, <2>2
<1> QED BY <1>1, <1>7, <1>9, <1>10, <1>12 DEF H!StreamsInv

LEMMA StreamsTick ==
    ASSUME H!StreamsInv, NEW c \in Clients, H!Tick(c) PROVE H!StreamsInv'
<1>1. /\ v5' = v5 /\ v6' = [v6 EXCEPT ![c] = H!Ticked(v6[c])] /\ v7' = v7 /\ v6[c].open
    BY DEF H!Tick
<1>2. v6[c] \in H!Streams /\ Len(v7[c].seen) \in Nat /\ v5 \in Nat
    BY DEF H!StreamsInv
<1>3. \A d \in Clients : H!Continues(v6[d], Len(v7[d].seen))
    BY DEF H!StreamsInv
<1>4. H!Ticked(v6[c]) \in H!Streams /\ H!Continues(H!Ticked(v6[c]), Len(v7[c].seen))
    BY <1>1, <1>2, <1>3, TickedFacts
<1>5. /\ v6' \in [Clients -> H!Streams] /\ v6'[c] = H!Ticked(v6[c])
      /\ \A d \in Clients : d # c => v6'[d] = v6[d]
    BY <1>1, <1>4 DEF H!StreamsInv
<1>6. ASSUME NEW d \in Clients PROVE H!Continues(v6[d], Len(v7[d].seen))'
    BY <1>1, <1>3, <1>4, <1>5 DEF H!Continues
<1> QED BY <1>1, <1>5, <1>6 DEF H!StreamsInv, H!ResumesWithoutGaps

LEMMA StreamsReceive ==
    ASSUME H!StreamsInv, NEW c \in Clients, H!Receive(c) PROVE H!StreamsInv'
<1> DEFINE w == v6[c].wire
           seen == v7[c].seen
<1>1. /\ v5' = v5 /\ v6' = [v6 EXCEPT ![c].wire = Tail(w)]
      /\ v7' = [v7 EXCEPT ![c].seen = Append(seen, Head(w))] /\ w # <<>>
    BY DEF H!Receive
<1>2. /\ w \in Seq(Nat) /\ seen \in Seq(Nat) /\ v5 \in Nat
      /\ H!Continues(v6[c], Len(seen)) /\ \A i \in 1 .. Len(seen) : seen[i] = i
    BY DEF H!StreamsInv, H!Streams, H!ResumesWithoutGaps
<1> HIDE DEF w, seen
<1>3. /\ Head(w) = w[1] /\ Head(w) \in Nat /\ Tail(w) \in Seq(Nat) /\ Len(w) > 0
      /\ Len(Tail(w)) = Len(w) - 1 /\ \A i \in 1 .. (Len(w) - 1) : Tail(w)[i] = w[i + 1]
    BY <1>1, <1>2, TailFacts
<1>4. /\ Append(seen, Head(w)) \in Seq(Nat) /\ Len(Append(seen, Head(w))) = Len(seen) + 1
      /\ \A i \in 1 .. (Len(seen) + 1) :
            Append(seen, Head(w))[i] = IF i <= Len(seen) THEN seen[i] ELSE Head(w)
    BY <1>2, <1>3, AppendFacts
<1>5. /\ \A i \in 1 .. Len(w) : w[i] = Len(seen) + i
      /\ Len(seen) + Len(w) <= v5
      /\ v6[c].open /\ v6[c].cursor = Len(seen) + Len(w)
    BY <1>1, <1>2 DEF H!Continues, w
<1>6. \A i \in 1 .. (Len(seen) + 1) : Append(seen, Head(w))[i] = i
    BY <1>2, <1>3, <1>4, <1>5
<1>7. /\ v6' \in [Clients -> H!Streams]
      /\ v7' \in [Clients -> [seen : Seq(Nat), connects : Nat]]
      /\ v6'[c].wire = Tail(w) /\ v6'[c].open = v6[c].open /\ v6'[c].cursor = v6[c].cursor
      /\ v7'[c].seen = Append(seen, Head(w))
      /\ \A d \in Clients : d # c => v6'[d] = v6[d] /\ v7'[d] = v7[d]
    <2>1. v6 \in [Clients -> [open : BOOLEAN, cursor : Nat, wire : Seq(Nat)]]
        BY DEF H!StreamsInv, H!Streams
    <2>2. v7 \in [Clients -> [seen : Seq(Nat), connects : Nat]]
        BY DEF H!StreamsInv
    <2>3. /\ v6' \in [Clients -> [open : BOOLEAN, cursor : Nat, wire : Seq(Nat)]]
          /\ v6'[c].wire = Tail(w) /\ v6'[c].open = v6[c].open /\ v6'[c].cursor = v6[c].cursor
          /\ \A d \in Clients : d # c => v6'[d] = v6[d]
        BY <1>1, <1>3, <2>1
    <2>4. /\ v7' \in [Clients -> [seen : Seq(Nat), connects : Nat]]
          /\ v7'[c].seen = Append(seen, Head(w))
          /\ \A d \in Clients : d # c => v7'[d] = v7[d]
        BY <1>1, <1>4, <2>2
    <2> QED BY <2>3, <2>4 DEF H!Streams
<1>8. H!ResumesWithoutGaps'
    <2>1. DOMAIN v7'[c].seen = 1 .. (Len(seen) + 1)
        BY <1>4, <1>7
    <2>2. \A i \in DOMAIN v7'[c].seen : v7'[c].seen[i] = i
        BY <1>6, <1>7, <2>1
    <2>3. \A d \in Clients : \A i \in DOMAIN v7[d].seen : v7[d].seen[i] = i
        BY DEF H!StreamsInv, H!ResumesWithoutGaps
    <2> QED BY <1>7, <2>2, <2>3 DEF H!ResumesWithoutGaps
<1>9. ASSUME NEW d \in Clients PROVE H!Continues(v6[d], Len(v7[d].seen))'
    <2>1. CASE d = c
        <3>1. ASSUME NEW i \in 1 .. (Len(w) - 1) PROVE Tail(w)[i] = Len(seen) + 1 + i
            <4>1. PICK n, m : n = Len(w) /\ m = Len(seen)
                OBVIOUS
            <4>2. n \in Nat /\ m \in Nat /\ i \in 1..(n - 1)
                BY <1>2, <4>1
            <4>3. i + 1 \in 1..n
                BY ONLY <4>2
            <4>4. Tail(w)[i] = w[i + 1] /\ w[i + 1] = m + (i + 1)
                BY <1>3, <1>5, <4>1, <4>3
            <4>5. m + (i + 1) = m + 1 + i
                BY ONLY <4>2
            <4> QED BY <4>1, <4>4, <4>5
        <3> QED BY <2>1, <3>1, <1>1, <1>2, <1>3, <1>4, <1>5, <1>7 DEF H!Continues
    <2>2. CASE d # c
        BY <2>2, <1>1, <1>7 DEF H!Continues, H!StreamsInv
    <2> QED BY <2>1, <2>2
<1> QED BY <1>1, <1>2, <1>7, <1>8, <1>9 DEF H!StreamsInv

\* A stream that is not open has nothing on its wire.
LEMMA NothingToCome ==
    ASSUME NEW s, NEW n \in Nat, v5' \in Nat, n <= v5', s.wire = <<>>, ~s.open
    PROVE  /\ \A i \in DOMAIN s.wire : s.wire[i] = n + i
           /\ n + Len(s.wire) <= v5'
           /\ IF s.open THEN s.cursor = n + Len(s.wire) ELSE s.wire = <<>>
OBVIOUS

LEMMA StreamsElse ==
    ASSUME H!StreamsInv, H!Next,
           \A c \in Clients : ~H!Open(c) /\ ~H!Tick(c) /\ ~H!Receive(c)
    PROVE  H!StreamsInv'
<1> USE DEF H!StreamsInv, H!ResumesWithoutGaps
<1>1. CASE H!NewEvent
    <2>1. v5' = v5 + 1 /\ v6' = v6 /\ v7' = v7 /\ v5 \in Nat
        BY <1>1 DEF H!NewEvent
    <2>2. ASSUME NEW c \in Clients PROVE H!Continues(v6[c], Len(v7[c].seen))'
        <3>1. H!Continues(v6[c], Len(v7[c].seen)) /\ Len(v7[c].seen) \in Nat
            OBVIOUS
        <3>2. Len(v6[c].wire) \in Nat
            BY DEF H!Streams
        <3> HIDE DEF H!StreamsInv, H!ResumesWithoutGaps
        <3> DEFINE n == Len(v7[c].seen)
                   s == v6[c]
        <3>3. /\ \A i \in DOMAIN s.wire : s.wire[i] = n + i
              /\ n + Len(s.wire) <= v5 /\ n \in Nat /\ Len(s.wire) \in Nat
              /\ IF s.open THEN s.cursor = n + Len(s.wire) ELSE s.wire = <<>>
            BY <3>1, <3>2 DEF H!Continues
        <3>4. v7'[c] = v7[c] /\ v6'[c] = v6[c]
            BY <2>1
        <3> HIDE DEF n, s
        <3>5. n + Len(s.wire) <= v5'
            BY <2>1, <3>3
        <3> QED BY <3>3, <3>4, <3>5, Zenon DEF H!Continues, n, s
    <2> QED BY <2>1, <2>2
<1>2. ASSUME NEW c \in Clients, H!Disconnect(c) PROVE H!StreamsInv'
    <2>1. v5' = v5 /\ v6' = [v6 EXCEPT ![c] = H!NoStream] /\ v7' = v7
        BY <1>2 DEF H!Disconnect
    <2>2. H!NoStream \in H!Streams /\ ~H!NoStream.open /\ H!NoStream.wire = <<>>
        BY DEF H!NoStream, H!Streams
    <2>3. /\ v6' \in [Clients -> H!Streams] /\ v6'[c] = H!NoStream
          /\ \A d \in Clients : d # c => v6'[d] = v6[d]
        BY <2>1, <2>2
    <2>4. ASSUME NEW d \in Clients PROVE H!Continues(v6[d], Len(v7[d].seen))'
        <3>1. /\ H!Continues(v6[d], Len(v7[d].seen)) /\ Len(v7[d].seen) \in Nat
              /\ Len(v6[d].wire) \in Nat /\ v5 \in Nat
            BY DEF H!Streams
        <3>2. /\ v7'[d] = v7[d]
              /\ (v6'[d].wire = <<>> /\ ~v6'[d].open) \/ v6'[d] = v6[d]
            BY <2>1, <2>2, <2>3
        <3>3. Len(v7[d].seen) <= v5'
            <4>1. Len(v7[d].seen) + Len(v6[d].wire) <= v5
                BY <3>1 DEF H!Continues
            <4> DEFINE n == Len(v7[d].seen)
                       m == Len(v6[d].wire)
            <4>2. n \in Nat /\ m \in Nat /\ n + m <= v5 /\ v5 \in Nat
                BY ONLY <4>1, <3>1
            <4>3. v5' = v5
                BY <2>1
            <4> HIDE DEF n, m
            <4>4. n <= v5
                BY ONLY <4>2
            <4> QED BY ONLY <4>3, <4>4 DEF n
        <3>4. CASE v6'[d].wire = <<>> /\ ~v6'[d].open
            <4>1. v5' \in Nat /\ Len(v7[d].seen) \in Nat
                BY <2>1, <3>1
            <4> HIDE DEF H!StreamsInv, H!ResumesWithoutGaps
            <4> QED BY <3>2, <3>3, <3>4, <4>1, NothingToCome DEF H!Continues
        <3>5. CASE v6'[d] = v6[d]
            <4>1. v5' = v5
                BY <2>1
            <4> HIDE DEF H!StreamsInv, H!ResumesWithoutGaps
            <4> QED BY <3>1, <3>2, <3>5, <4>1, Zenon DEF H!Continues
        <3> QED BY <3>2, <3>4, <3>5
    <2> QED BY <2>1, <2>3, <2>4
<1>3. CASE H!Closed
    <2>1. v5' = v5 /\ v6' = [c \in Clients |-> H!NoStream] /\ v7' = v7
        BY <1>3 DEF H!Closed
    <2>2. H!NoStream \in H!Streams /\ ~H!NoStream.open /\ H!NoStream.wire = <<>>
        BY DEF H!NoStream, H!Streams
    <2>3. ASSUME NEW d \in Clients PROVE H!Continues(v6[d], Len(v7[d].seen))'
        <3>1. /\ H!Continues(v6[d], Len(v7[d].seen)) /\ Len(v7[d].seen) \in Nat
              /\ Len(v6[d].wire) \in Nat /\ v5 \in Nat
            BY DEF H!Streams
        <3>2. /\ v7'[d] = v7[d]
              /\ (v6'[d].wire = <<>> /\ ~v6'[d].open) \/ v6'[d] = v6[d]
            BY <2>1, <2>2
        <3>3. Len(v7[d].seen) <= v5'
            <4>1. Len(v7[d].seen) + Len(v6[d].wire) <= v5
                BY <3>1 DEF H!Continues
            <4> DEFINE n == Len(v7[d].seen)
                       m == Len(v6[d].wire)
            <4>2. n \in Nat /\ m \in Nat /\ n + m <= v5 /\ v5 \in Nat
                BY ONLY <4>1, <3>1
            <4>3. v5' = v5
                BY <2>1
            <4> HIDE DEF n, m
            <4>4. n <= v5
                BY ONLY <4>2
            <4> QED BY ONLY <4>3, <4>4 DEF n
        <3>4. CASE v6'[d].wire = <<>> /\ ~v6'[d].open
            <4>1. v5' \in Nat /\ Len(v7[d].seen) \in Nat
                BY <2>1, <3>1
            <4> HIDE DEF H!StreamsInv, H!ResumesWithoutGaps
            <4> QED BY <3>2, <3>3, <3>4, <4>1, NothingToCome DEF H!Continues
        <3>5. CASE v6'[d] = v6[d]
            <4>1. v5' = v5
                BY <2>1
            <4> HIDE DEF H!StreamsInv, H!ResumesWithoutGaps
            <4> QED BY <3>1, <3>2, <3>5, <4>1, Zenon DEF H!Continues
        <3> QED BY <3>2, <3>4, <3>5
    <2> QED BY <2>1, <2>2, <2>3
<1>4. CASE UNCHANGED <<v5, v6, v7>>
    BY <1>4 DEF H!Continues
<1>5. \/ H!NewEvent \/ H!Closed \/ UNCHANGED <<v5, v6, v7>>
      \/ \E c \in Clients : H!Disconnect(c)
    BY DEF H!Next, H!Close, H!Post, H!Refuse, H!Connect, H!Initialized, H!End, H!CloseSession
<1> QED BY <1>1, <1>2, <1>3, <1>4, <1>5

LEMMA SessionsInit == ASSUME H!Init PROVE H!SessionsInv
BY DEF H!Init, H!SessionsInv, H!SessionsAreClosed

\* Only three steps take a client off the ways by which its transport is reached, and each
\* takes the transport with it or puts the client on another.
LEMMA SessionsKept ==
    ASSUME H!SessionsInv, H!Next PROVE H!SessionsInv'
<1> USE DEF H!SessionsInv, H!SessionsAreClosed
<1>1. ASSUME NEW c \in Clients, H!Post(c) \/ H!Refuse(c) PROVE H!SessionsInv'
    BY <1>1 DEF H!Post, H!Refuse
<1>2. ASSUME NEW c \in Clients, H!Connect(c) PROVE H!SessionsInv'
    BY <1>2 DEF H!Connect
<1>3. ASSUME NEW c \in Clients, H!Initialized(c) PROVE H!SessionsInv'
    BY <1>3 DEF H!Initialized
<1>4. ASSUME NEW c \in Clients, H!End(c) \/ H!CloseSession(c) PROVE H!SessionsInv'
    BY <1>4 DEF H!End, H!CloseSession, H!SessionEnds
<1>5. CASE H!Closed
    BY <1>5 DEF H!Closed
<1>6. CASE UNCHANGED <<v2, v3, v4, v8>>
    BY <1>6
<1>7. \/ UNCHANGED <<v2, v3, v4, v8>> \/ H!Closed
      \/ \E c \in Clients : \/ H!Post(c) \/ H!Refuse(c) \/ H!Connect(c) \/ H!Initialized(c)
                            \/ H!End(c) \/ H!CloseSession(c)
    BY DEF H!Next, H!NewEvent, H!Close, H!Open, H!Tick, H!Receive, H!Disconnect
<1> QED BY <1>1, <1>2, <1>3, <1>4, <1>5, <1>6, <1>7

\* A client that follows a workflow reads every event once and in order, over all its
\* connections, and close() leaves no session behind but those that connected while it ran.
THEOREM ServedInOrder == Spec => []ClientsAreServed
<1> DEFINE Inv == part = "http" => H!StreamsInv /\ H!SessionsInv
<1>1. Init => Inv
    BY StreamsInit, SessionsInit DEF Init
<1>2. Inv /\ [Next]_vars => Inv'
    <2> SUFFICES ASSUME H!StreamsInv, H!SessionsInv, part = "http", [Next]_vars
                 PROVE  H!StreamsInv' /\ H!SessionsInv'
        BY PartStays
    <2>1. CASE UNCHANGED <<v1, v2, v3, v4, v5, v6, v7, v8>>
        BY <2>1 DEF H!StreamsInv, H!ResumesWithoutGaps, H!Continues, H!SessionsInv,
                    H!SessionsAreClosed
    <2>2. CASE H!Next
        BY <2>2, StreamsOpen, StreamsTick, StreamsReceive, StreamsElse, SessionsKept
    <2> QED BY <2>1, <2>2, HttpSteps
<1>3. Inv => ClientsAreServed
    BY DEF ClientsAreServed, H!ClientsAreServed, H!StreamsInv, H!SessionsInv
<1> QED BY <1>1, <1>2, <1>3, PTL DEF Spec
-----------------------------------------------------------------------------
(* Destinations                                                                *)

\* In a behaviour of the network every step is one of it.
LEMMA NetworkSteps ==
    ASSUME part = "network", [Next]_vars
    PROVE  N!Next \/ UNCHANGED <<v1, v2, v3, v4, v5, v6, v7, v8>>
BY DEF Next, vars, after3, after4, after5, after6

\* What is known of one request.
Kept(q, r) ==
    /\ q.at \in N!AtProxy => v2
    /\ q.at \in {"checked", "open"} => N!Acceptable(q.address) /\ q.host \in v1.allowed
    /\ q.at \in N!AtProxy /\ ~v7 => r \in v8
    /\ q.at = "open" /\ q.tunnel /\ v7 => r \in v6

AnyRequest == [at : N!AtProxy \cup {"new", "refused", "routed", "direct", "ended"},
               host : N!Hosts, tunnel : BOOLEAN, address : N!Kinds]

LEMMA ProxyInvIs ==
    N!ProxyInv <=> /\ v1.unhinged => ~v2
                   /\ v7 => v2
                   /\ v3 \in [Names -> SUBSET N!Kinds]
                   /\ v5 \in [Visits -> AnyRequest]
                   /\ \A r \in Visits : Kept(v5[r], r)
BY DEF N!ProxyInv, Kept, AnyRequest

LEMMA NetworkInit == ASSUME N!Init PROVE N!ProxyInv
<1>1. \A r \in Visits : v5[r] = N!New
    BY DEF N!Init
<1>2. N!New \in AnyRequest /\ N!New.at = "new"
    BY DEF N!New, AnyRequest, N!Hosts, N!Kinds
<1>3. v5 \in [Visits -> AnyRequest]
    BY <1>2 DEF N!Init
<1>4. \A r \in Visits : Kept(v5[r], r)
    BY <1>1, <1>2 DEF Kept, N!AtProxy
<1> QED BY <1>3, <1>4, ProxyInvIs DEF N!Init, N!Kinds

\* The addresses that a host has are of the kinds.
LEMMA ResolvedKinds ==
    ASSUME NEW host \in N!Hosts, v3 \in [Names -> SUBSET N!Kinds]
    PROVE  N!Resolved(host) \subseteq N!Kinds
BY DEF N!Resolved, N!Hosts, N!Kinds, N!Literals

\* A step of one request that leaves the others, the policy and the proxy alone.
LEMMA OneRequest ==
    ASSUME N!ProxyInv, NEW r \in Visits, NEW q \in AnyRequest, Kept(q, r)',
           UNCHANGED <<v1, v2, v3, v7, v8>>, v6 \ {r} = v6' \ {r},
           v5' = [v5 EXCEPT ![r] = q]
    PROVE  N!ProxyInv'
<1>1. /\ v5 \in [Visits -> AnyRequest] /\ \A s \in Visits : Kept(v5[s], s)
    BY ProxyInvIs
<1>2. /\ v5' \in [Visits -> AnyRequest] /\ v5'[r] = q
      /\ \A s \in Visits : s # r => v5'[s] = v5[s]
    BY <1>1
<1>3. ASSUME NEW s \in Visits PROVE Kept(v5[s], s)'
    <2>1. CASE s = r
        BY <2>1, <1>2 DEF Kept, N!Acceptable
    <2>2. CASE s # r
        <3>1. Kept(v5[s], s) /\ v5'[s] = v5[s]
            BY <1>1, <1>2, <2>2
        <3>2. s \in v6' <=> s \in v6
            BY <2>2
        <3> QED BY <3>1, <3>2 DEF Kept, N!Acceptable
    <2> QED BY <2>1, <2>2
<1>4. (N!ProxyInv)' <=> /\ v1'.unhinged => ~v2'
                        /\ v7' => v2'
                        /\ v3' \in [Names -> SUBSET N!Kinds]
                        /\ v5' \in [Visits -> AnyRequest]
                        /\ \A s \in Visits : Kept(v5[s], s)'
    BY DEF N!ProxyInv, Kept, AnyRequest
<1> QED BY <1>2, <1>3, <1>4, ProxyInvIs

LEMMA NetworkRouted ==
    ASSUME N!ProxyInv, NEW r \in Visits, NEW host \in N!Hosts, NEW web \in BOOLEAN,
           NEW tunnel \in BOOLEAN, N!Routed(r, host, web, tunnel)
    PROVE  N!ProxyInv'
<1>1. N!New \in AnyRequest
    BY DEF N!New, AnyRequest, N!Hosts, N!Kinds
<1>2. PICK at \in {"refused", "routed"} :
         /\ v5' = [v5 EXCEPT ![r] = [N!New EXCEPT !.at = at, !.host = host, !.tunnel = tunnel]]
         /\ UNCHANGED <<v1, v2, v3, v7, v8, v6>>
    BY DEF N!Routed, N!Unchanged
<1>3. PICK q : q = [N!New EXCEPT !.at = at, !.host = host, !.tunnel = tunnel]
    OBVIOUS
<1>4. q \in AnyRequest /\ q.at \in {"refused", "routed"}
    BY <1>1, <1>3 DEF AnyRequest
<1>5. Kept(q, r)'
    BY <1>4 DEF Kept, N!AtProxy
<1> QED BY <1>2, <1>3, <1>4, <1>5, OneRequest

\* What a request is after its place in the course has changed.
LEMMA MovedOnly ==
    ASSUME N!ProxyInv, NEW r \in Visits, NEW at,
           at \in N!AtProxy \cup {"new", "refused", "routed", "direct", "ended"},
           NEW q, q = [v5[r] EXCEPT !.at = at]
    PROVE  /\ q \in AnyRequest /\ q.at = at /\ q.address = v5[r].address
           /\ q.host = v5[r].host /\ q.tunnel = v5[r].tunnel
<1>1. v5[r] \in AnyRequest
    BY ProxyInvIs
<1> QED BY <1>1 DEF AnyRequest

LEMMA NetworkDirect ==
    ASSUME N!ProxyInv, NEW r \in Visits, N!Direct(r) PROVE N!ProxyInv'
<1>1. v5[r] \in AnyRequest /\ v3 \in [Names -> SUBSET N!Kinds]
    BY ProxyInvIs
<1>2. PICK a \in N!Resolved(v5[r].host) :
         /\ v5' = [v5 EXCEPT ![r].at = "direct", ![r].address = a]
         /\ UNCHANGED <<v1, v2, v3, v7, v8, v6>>
    BY DEF N!Direct, N!Unchanged
<1>3. a \in N!Kinds
    BY <1>1, ResolvedKinds DEF AnyRequest
<1>4. PICK q : q = [v5[r] EXCEPT !.at = "direct", !.address = a]
    OBVIOUS
<1>5. q \in AnyRequest /\ q.at = "direct"
    BY <1>1, <1>3, <1>4 DEF AnyRequest
<1>6. Kept(q, r)'
    BY <1>5 DEF Kept, N!AtProxy
<1>7. v5' = [v5 EXCEPT ![r] = q]
    BY <1>2, <1>4
<1> QED BY <1>2, <1>5, <1>6, <1>7, OneRequest

LEMMA NetworkToProxy ==
    ASSUME N!ProxyInv, NEW r \in Visits, N!ToProxy(r) PROVE N!ProxyInv'
<1>1. /\ v5' = [v5 EXCEPT ![r].at = "asking"] /\ v7
      /\ UNCHANGED <<v1, v2, v3, v7, v8, v6>>
    BY DEF N!ToProxy, N!Set, N!Unchanged
<1>2. PICK q : q = [v5[r] EXCEPT !.at = "asking"]
    OBVIOUS
<1>3. q \in AnyRequest /\ q.at = "asking"
    BY <1>2, MovedOnly DEF N!AtProxy
<1>4. Kept(q, r)'
    BY <1>1, <1>3, ProxyInvIs DEF Kept, N!AtProxy
<1>5. v5' = [v5 EXCEPT ![r] = q]
    BY <1>1, <1>2
<1> QED BY <1>1, <1>3, <1>4, <1>5, OneRequest

\* The check finds addresses only where the policy accepts them.
LEMMA SafeFacts ==
    ASSUME NEW host \in N!Hosts, NEW a \in N!SafeAddresses(host, TRUE), ~v1.unhinged,
           v3 \in [Names -> SUBSET N!Kinds]
    PROVE  N!Acceptable(a) /\ host \in v1.allowed /\ a \in N!Kinds
<1>1. /\ N!SafeAddresses(host, TRUE) = N!Resolved(host) /\ host \in v1.allowed
      /\ \A x \in N!Resolved(host) : N!Acceptable(x)
    BY DEF N!SafeAddresses
<1> QED BY <1>1, ResolvedKinds

LEMMA NetworkCheck ==
    ASSUME N!ProxyInv, NEW r \in Visits, N!Check(r) PROVE N!ProxyInv'
<1>1. /\ v5[r].at = "asking" /\ UNCHANGED <<v1, v2, v3, v7, v8, v6>>
      /\ \/ v5' = [v5 EXCEPT ![r].at = "refused"]
         \/ N!Pin(r)
    BY DEF N!Check, N!Set, N!Unchanged
<1>2. /\ v5[r] \in AnyRequest /\ v3 \in [Names -> SUBSET N!Kinds] /\ Kept(v5[r], r)
      /\ v1.unhinged => ~v2
    BY ProxyInvIs
<1>3. v2 /\ ~v1.unhinged /\ (v7 \/ r \in v8) /\ v5[r].host \in N!Hosts
    BY <1>1, <1>2 DEF Kept, N!AtProxy, AnyRequest
<1>4. CASE v5' = [v5 EXCEPT ![r].at = "refused"]
    <2>1. PICK q : q = [v5[r] EXCEPT !.at = "refused"]
        OBVIOUS
    <2>2. q \in AnyRequest /\ q.at = "refused"
        BY <2>1, MovedOnly
    <2>3. Kept(q, r)'
        BY <2>2 DEF Kept, N!AtProxy
    <2>4. v5' = [v5 EXCEPT ![r] = q]
        BY <1>4, <2>1
    <2> QED BY <1>1, <2>2, <2>3, <2>4, OneRequest
<1>5. CASE N!Pin(r)
    <2>1. PICK a \in N!SafeAddresses(v5[r].host, TRUE) :
             v5' = [v5 EXCEPT ![r].at = "checked", ![r].address = a]
        BY <1>5 DEF N!Pin
    <2>2. N!Acceptable(a) /\ v5[r].host \in v1.allowed /\ a \in N!Kinds
        BY <1>2, <1>3, SafeFacts
    <2>3. PICK q : q = [v5[r] EXCEPT !.at = "checked", !.address = a]
        OBVIOUS
    <2>4. q \in AnyRequest /\ q.at = "checked" /\ q.address = a /\ q.host = v5[r].host
        BY <1>2, <2>2, <2>3 DEF AnyRequest, N!AtProxy
    <2>5. Kept(q, r)'
        BY <1>1, <1>3, <2>2, <2>4 DEF Kept, N!AtProxy, N!Acceptable
    <2>6. v5' = [v5 EXCEPT ![r] = q]
        BY <2>1, <2>3
    <2> QED BY <1>1, <2>4, <2>5, <2>6, OneRequest
<1> QED BY <1>1, <1>4, <1>5

LEMMA NetworkConnect ==
    ASSUME N!ProxyInv, NEW r \in Visits, N!Connect(r) PROVE N!ProxyInv'
<1>1. /\ v5[r].at = "checked" /\ UNCHANGED <<v1, v2, v3, v7, v8>>
      /\ v6' = IF v5[r].tunnel THEN v6 \cup {r} ELSE v6
    BY DEF N!Connect, N!Unchanged
<1>2. PICK a \in N!Resolved(v5[r].address) :
         v5' = [v5 EXCEPT ![r].at = "open", ![r].address = a]
    BY DEF N!Connect
<1>3. v5[r] \in AnyRequest /\ Kept(v5[r], r)
    BY ProxyInvIs
\* An address is no name, so what was checked is what is connected to.
<1>4. a = v5[r].address
    <2>1. v5[r].address \in N!Kinds
        BY <1>3 DEF AnyRequest
    <2>2. \A x \in N!Kinds : x \notin Names /\ x # "localhost"
        BY ServicesAssumption DEF ServicesAssumption, N!Kinds
    <2> QED BY <2>1, <2>2 DEF N!Resolved
<1>5. PICK q : q = [v5[r] EXCEPT !.at = "open", !.address = a]
    OBVIOUS
<1>6. a \in N!Kinds
    BY <1>3, <1>4 DEF AnyRequest
<1>7. /\ q \in AnyRequest /\ q.at = "open" /\ q.address = v5[r].address
      /\ q.host = v5[r].host /\ q.tunnel = v5[r].tunnel
    BY <1>3, <1>4, <1>5, <1>6 DEF AnyRequest, N!AtProxy
<1>8. /\ N!Acceptable(v5[r].address) /\ v5[r].host \in v1.allowed /\ v2
      /\ ~v7 => r \in v8
    BY <1>1, <1>3 DEF Kept, N!AtProxy
<1>9. Kept(q, r)'
    <2>1. q.tunnel => r \in v6'
        BY <1>1, <1>7
    <2> QED BY <1>1, <1>7, <1>8, <2>1 DEF Kept, N!AtProxy, N!Acceptable
<1>10. v5' = [v5 EXCEPT ![r] = q]
    BY <1>2, <1>5
<1>11. v6 \ {r} = v6' \ {r}
    BY <1>1
<1> QED BY <1>1, <1>7, <1>9, <1>10, <1>11, OneRequest

LEMMA NetworkEnds ==
    ASSUME N!ProxyInv, NEW r \in Visits, N!Ends(r) PROVE N!ProxyInv'
<1>1. /\ v5' = [v5 EXCEPT ![r].at = "ended"] /\ v6' = v6 \ {r}
      /\ UNCHANGED <<v1, v2, v3, v7, v8>>
    BY DEF N!Ends, N!Set, N!Unchanged
<1>2. PICK q : q = [v5[r] EXCEPT !.at = "ended"]
    OBVIOUS
<1>3. q \in AnyRequest /\ q.at = "ended"
    BY <1>2, MovedOnly
<1>4. Kept(q, r)'
    BY <1>3 DEF Kept, N!AtProxy
<1>5. v5' = [v5 EXCEPT ![r] = q]
    BY <1>1, <1>2
<1>6. v6 \ {r} = v6' \ {r}
    BY <1>1
<1> QED BY <1>1, <1>3, <1>4, <1>5, <1>6, OneRequest

\* When the proxy closes, a tunnel that is open is destroyed and what else is at the proxy
\* is remembered as late.
LEMMA NetworkClose ==
    ASSUME N!ProxyInv, N!CloseProxy PROVE N!ProxyInv'
<1>1. /\ v7 /\ v7' = FALSE /\ v6' = {} /\ UNCHANGED <<v1, v2, v3>>
      /\ v5' = [r \in Visits |->
                   IF r \in v6 THEN [v5[r] EXCEPT !.at = "ended"] ELSE v5[r]]
      /\ v8' = {r \in Visits : \/ v5[r].at \in {"asking", "checked"}
                               \/ (v5[r].at = "open" /\ ~v5[r].tunnel)}
    BY DEF N!CloseProxy, N!Destroy, N!Unchanged
<1>2. /\ v5 \in [Visits -> AnyRequest] /\ \A r \in Visits : Kept(v5[r], r)
      /\ v3 \in [Names -> SUBSET N!Kinds] /\ (v1.unhinged => ~v2)
    BY ProxyInvIs
<1>3. ASSUME NEW r \in Visits PROVE v5'[r] \in AnyRequest /\ Kept(v5[r], r)'
    <2>1. v5[r] \in AnyRequest /\ Kept(v5[r], r)
        BY <1>2
    <2>2. CASE r \in v6
        <3>1. v5'[r] = [v5[r] EXCEPT !.at = "ended"]
            BY <1>1, <2>2
        <3>2. v5'[r] \in AnyRequest /\ v5'[r].at = "ended"
            BY <3>1, MovedOnly
        <3> QED BY <3>2 DEF Kept, N!AtProxy
    <2>3. CASE r \notin v6
        <3>1. v5'[r] = v5[r]
            BY <1>1, <2>3
        <3>2. v5[r].at = "open" => ~v5[r].tunnel
            BY <1>1, <2>1, <2>3 DEF Kept
        <3>3. v5[r].at \in N!AtProxy => r \in v8'
            BY <1>1, <3>2 DEF N!AtProxy
        <3> QED BY <1>1, <2>1, <3>1, <3>3 DEF Kept, N!Acceptable
    <2> QED BY <2>2, <2>3
<1>4. v5' \in [Visits -> AnyRequest]
    BY <1>1, <1>3
<1> QED BY <1>1, <1>2, <1>3, <1>4 DEF N!ProxyInv, Kept, AnyRequest

LEMMA NetworkChanges ==
    ASSUME N!ProxyInv, NEW n \in Names, NEW set \in SUBSET N!Kinds, N!Changes(n, set)
    PROVE  N!ProxyInv'
<1>1. v3' = [v3 EXCEPT ![n] = set] /\ UNCHANGED <<v1, v2, v5, v6, v7, v8>>
    BY DEF N!Changes
<1>2. v3' \in [Names -> SUBSET N!Kinds]
    BY <1>1 DEF N!ProxyInv
<1> QED BY <1>1, <1>2 DEF N!ProxyInv, N!Acceptable

\* Through the proxy a socket is open only to an address that the policy accepts and for a
\* host that it allows, however the answers of the resolver change, and when the proxy has
\* closed no tunnel is open but those whose check was under way
\* (packages/browser-runtime/src/pinning-proxy.ts).
THEOREM SocketsStayPinned == Spec => []SocketsAreKept
<1> DEFINE Inv == part = "network" => N!ProxyInv
<1>1. Init => Inv
    BY NetworkInit DEF Init
<1>2. Inv /\ [Next]_vars => Inv'
    <2> SUFFICES ASSUME N!ProxyInv, part = "network", [Next]_vars PROVE N!ProxyInv'
        BY PartStays
    <2>1. CASE UNCHANGED <<v1, v2, v3, v4, v5, v6, v7, v8>>
        BY <2>1 DEF N!ProxyInv, N!Acceptable
    <2>2. CASE N!Next
        BY <2>2, NetworkRouted, NetworkDirect, NetworkToProxy, NetworkCheck, NetworkConnect,
           NetworkEnds, NetworkClose, NetworkChanges DEF N!Next
    <2> QED BY <2>1, <2>2, NetworkSteps
<1>3. Inv => SocketsAreKept
    BY DEF SocketsAreKept, N!SocketsAreKept, N!ConnectsWhereChecked, N!TunnelsEndWithProxy,
           N!ProxyInv, N!AtProxy
<1> QED BY <1>1, <1>2, <1>3, PTL DEF Spec
-----------------------------------------------------------------------------
(* Breaker                                                                     *)

\* In a behaviour of the breaker every step is one of it.
LEMMA BreakerSteps ==
    ASSUME part = "breaker", [Next]_vars
    PROVE  B!Next \/ UNCHANGED <<v1, v2, v3, v4>>
BY DEF Next, vars, after3

Given == [ok : BOOLEAN, at : Nat]

LEMMA BreakerInit == ASSUME B!Init PROVE B!BreakerInv
<1>1. \A x \in Targets : B!Counted(v1[x], v4[x])
    BY DEF B!Init, B!Counted, B!Clear
<1> QED BY <1>1 DEF B!Init, B!BreakerInv, B!Clear

\* One more answer, and what the breaker makes of it.
LEMMA AnswerCounts ==
    ASSUME NEW f \in [count : Nat, openedAt : Nat], NEW s \in Seq(Given), B!Counted(f, s),
           NEW a \in Given, NEW g,
           g = IF a.ok THEN B!Clear ELSE B!Failed(f, a.at)
    PROVE  B!Counted(g, Append(s, a))
<1> DEFINE t == Append(s, a)
           n == Len(s)
           k == f.count
<1>1. /\ Len(t) = n + 1 /\ n \in Nat /\ k \in Nat
      /\ \A i \in 1..(n + 1) : t[i] = IF i <= n THEN s[i] ELSE a
    BY AppendFacts
<1>2. /\ k <= n /\ \A i \in (n - k + 1)..n : ~s[i].ok
      /\ k < n => s[n - k].ok
    BY DEF B!Counted
<1>3. t[n + 1] = a
    BY <1>1
<1>4. CASE a.ok
    <2>1. g.count = 0
        BY <1>4 DEF B!Clear
    <2>2. \A i \in (n + 1 - 0 + 1)..(n + 1) : FALSE
        BY <1>1
    <2>3. n + 1 - 0 = n + 1
        BY <1>1
    <2> HIDE DEF t, n, k
    <2> QED BY <1>1, <1>3, <1>4, <2>1, <2>2, <2>3 DEF B!Counted, t
<1>5. CASE ~a.ok
    <2>1. g.count = k + 1 /\ g.openedAt = a.at
        BY <1>5 DEF B!Failed
    <2> HIDE DEF t, n, k
    <2>2. \A i \in ((n + 1) - (k + 1) + 1)..(n + 1) : ~t[i].ok
        <3> SUFFICES ASSUME NEW i \in ((n + 1) - (k + 1) + 1)..(n + 1) PROVE ~t[i].ok
            OBVIOUS
        <3>1. CASE i = n + 1
            BY <1>3, <1>5, <3>1
        <3>2. CASE i <= n
            <4>1. i \in (n - k + 1)..n /\ i \in 1..(n + 1)
                BY <1>1, <1>2, <3>2
            <4> QED BY <1>1, <1>2, <3>2, <4>1
        <3> QED BY <1>1, <3>1, <3>2
    <2>3. k + 1 < n + 1 => t[(n + 1) - (k + 1)].ok
        <3> SUFFICES ASSUME k < n PROVE t[(n + 1) - (k + 1)].ok
            BY <1>1
        <3>1. (n + 1) - (k + 1) = n - k /\ n - k \in 1..(n + 1) /\ n - k <= n
            BY <1>1
        <3> QED BY <1>1, <1>2, <3>1
    <2>4. k + 1 <= n + 1
        BY <1>1, <1>2
    <2> QED BY <1>1, <1>3, <2>1, <2>2, <2>3, <2>4 DEF B!Counted, t
<1> QED BY <1>4, <1>5

LEMMA BreakerAnswer ==
    ASSUME B!BreakerInv, NEW t \in BreakerTasks, NEW ok \in BOOLEAN, B!Answer(t, ok)
    PROVE  B!BreakerInv'
<1>1. PICK x : x = v2[t].target
    OBVIOUS
<1>2. x \in Targets
    BY <1>1 DEF B!Answer, B!BreakerInv
<1>3. PICK a : a = [ok |-> ok, at |-> v3]
    OBVIOUS
<1>4. PICK g : g = IF ok \/ Threshold = 0 THEN B!Clear ELSE B!Failed(v1[x], v3)
    OBVIOUS
<1>5. /\ v3' = v3 /\ v1' = [v1 EXCEPT ![x] = g] /\ v4' = [v4 EXCEPT ![x] = Append(v4[x], a)]
      /\ v2' = [v2 EXCEPT ![t].status = "done"]
    BY <1>1, <1>3, <1>4 DEF B!Answer
<1>6. /\ v3 \in Nat /\ v1[x] \in [count : Nat, openedAt : Nat] /\ v4[x] \in Seq(Given)
    BY <1>2 DEF B!BreakerInv, Given
<1>7. a \in Given /\ a.ok = ok /\ a.at = v3
    BY <1>3, <1>6 DEF Given
<1>8. g \in [count : Nat, openedAt : Nat]
    BY <1>4, <1>6 DEF B!Clear, B!Failed
<1>9. Append(v4[x], a) \in Seq(Given)
    BY <1>6, <1>7, AppendFacts
<1>10. /\ v1' \in [Targets -> [count : Nat, openedAt : Nat]] /\ v1'[x] = g
       /\ \A y \in Targets : y # x => v1'[y] = v1[y]
    BY <1>2, <1>5, <1>8 DEF B!BreakerInv
<1>11. /\ v4' \in [Targets -> Seq(Given)] /\ v4'[x] = Append(v4[x], a)
       /\ \A y \in Targets : y # x => v4'[y] = v4[y]
    BY <1>2, <1>5, <1>9 DEF B!BreakerInv, Given
<1>12. Threshold > 0 => \A y \in Targets : B!Counted(v1'[y], v4'[y])
    <2> SUFFICES ASSUME Threshold > 0, NEW y \in Targets PROVE B!Counted(v1'[y], v4'[y])
        OBVIOUS
    <2>1. B!Counted(v1[x], v4[x]) /\ B!Counted(v1[y], v4[y])
        BY <1>2 DEF B!BreakerInv
    <2>2. CASE y = x
        <3>1. g = IF a.ok THEN B!Clear ELSE B!Failed(v1[x], a.at)
            BY <1>4, <1>7
        <3>2. B!Counted(g, Append(v4[x], a))
            BY <1>6, <1>7, <2>1, <3>1, AnswerCounts
        <3> QED BY <1>10, <1>11, <2>2, <3>2
    <2>3. CASE y # x
        BY <1>10, <1>11, <2>1, <2>3
    <2> QED BY <2>2, <2>3
<1>13. /\ v2' \in [BreakerTasks ->
                      [status : {"new", "refused", "running", "done", "cancelled", "lost"},
                       target : Targets \cup {"none"}]]
       /\ \A u \in BreakerTasks : v2'[u].status = "running" => v2'[u].target \in Targets
    BY <1>5 DEF B!BreakerInv
<1> QED BY <1>5, <1>6, <1>10, <1>11, <1>12, <1>13 DEF B!BreakerInv, Given

LEMMA BreakerElse ==
    ASSUME B!BreakerInv, B!Next, \A t \in BreakerTasks, ok \in BOOLEAN : ~B!Answer(t, ok)
    PROVE  B!BreakerInv'
<1>1. ASSUME NEW t \in BreakerTasks, NEW x \in Targets, B!Start(t, x) PROVE B!BreakerInv'
    <2>1. PICK s \in {"refused", "running"} :
             v2' = [v2 EXCEPT ![t] = [status |-> s, target |-> x]]
        BY <1>1 DEF B!Start
    <2>2. UNCHANGED <<v1, v3, v4>>
        BY <1>1 DEF B!Start
    <2> QED BY <2>1, <2>2 DEF B!BreakerInv
<1>2. ASSUME NEW t \in BreakerTasks, B!Cancel(t) PROVE B!BreakerInv'
    BY <1>2 DEF B!Cancel, B!BreakerInv
<1>3. CASE B!Restart
    <2>1. /\ v3' = v3 /\ v1' = [x \in Targets |-> B!Clear] /\ v4' = [x \in Targets |-> <<>>]
          /\ v2' = [t \in BreakerTasks |-> IF v2[t].status = "running"
                                          THEN [v2[t] EXCEPT !.status = "lost"] ELSE v2[t]]
        BY <1>3 DEF B!Restart
    <2>2. B!Counted(B!Clear, <<>>)
        BY DEF B!Counted, B!Clear
    <2>3. \A x \in Targets : B!Counted(v1'[x], v4'[x])
        BY <2>1, <2>2
    <2>4. /\ v1' \in [Targets -> [count : Nat, openedAt : Nat]]
          /\ v4' \in [Targets -> Seq([ok : BOOLEAN, at : Nat])]
        BY <2>1 DEF B!Clear
    <2>5. /\ v2' \in [BreakerTasks ->
                         [status : {"new", "refused", "running", "done", "cancelled", "lost"},
                          target : Targets \cup {"none"}]]
          /\ \A u \in BreakerTasks : v2'[u].status = "running" => v2'[u].target \in Targets
        BY <2>1 DEF B!BreakerInv
    <2>6. v3' \in Nat
        BY <2>1 DEF B!BreakerInv
    <2> QED BY <2>3, <2>4, <2>5, <2>6 DEF B!BreakerInv
<1>4. CASE B!Tick
    BY <1>4 DEF B!Tick, B!BreakerInv
<1> QED BY <1>1, <1>2, <1>3, <1>4 DEF B!Next

LEMMA FailingTail ==
    ASSUME NEW x \in Targets
    PROVE  B!Failing(x, Threshold) <=>
              /\ Threshold > 0 /\ Len(v4[x]) >= Threshold
              /\ \A i \in (Len(v4[x]) - Threshold + 1)..Len(v4[x]) : ~v4[x][i].ok
              /\ v3 - v4[x][Len(v4[x])].at < Cooldown
BY Zenon DEF B!Failing

\* The breaker is open to a target exactly while the target is failing.
LEMMA OpenIffFailing ==
    ASSUME B!BreakerInv, NEW x \in Targets
    PROVE  B!Open(v1[x]) <=> B!Failing(x, Threshold)
<1>1. CASE Threshold = 0
    BY <1>1 DEF B!Open, B!Failing
<1>2. CASE Threshold > 0
    <2> DEFINE s == v4[x]
               n == Len(s)
               k == v1[x].count
    <2>1. /\ n \in Nat /\ k \in Nat /\ Threshold \in Nat /\ k <= n
          /\ \A i \in (n - k + 1)..n : ~s[i].ok
          /\ k < n => s[n - k].ok
          /\ k > 0 => v1[x].openedAt = s[n].at
        <3>1. /\ v4[x] \in Seq([ok : BOOLEAN, at : Nat]) /\ k \in Nat
              /\ B!Counted(v1[x], v4[x])
            BY <1>2 DEF B!BreakerInv
        <3>2. n \in Nat
            BY <3>1
        <3> QED BY <3>1, <3>2, ServicesAssumption DEF B!Counted, ServicesAssumption
    <2> HIDE DEF s, n, k
    <2>2. k >= Threshold => n >= Threshold /\ \A i \in (n - Threshold + 1)..n : ~s[i].ok
        <3> SUFFICES ASSUME k >= Threshold
                     PROVE  n >= Threshold /\ \A i \in (n - Threshold + 1)..n : ~s[i].ok
            OBVIOUS
        <3>1. \A i \in (n - Threshold + 1)..n : i \in (n - k + 1)..n
            BY <2>1
        <3> QED BY <2>1, <3>1
    <2>3. ASSUME n >= Threshold, \A i \in (n - Threshold + 1)..n : ~s[i].ok
          PROVE  k >= Threshold
        <3> SUFFICES ASSUME k < Threshold PROVE FALSE
            BY <2>1
        <3>1. k < n /\ n - k \in (n - Threshold + 1)..n
            BY <2>1, <2>3
        <3> QED BY <2>1, <2>3, <3>1
    <2>4. k >= Threshold => v1[x].openedAt = s[n].at
        BY <1>2, <2>1
    <2>5. B!Open(v1[x]) <=> k >= Threshold /\ v3 - v1[x].openedAt < Cooldown
        BY <1>2 DEF B!Open, k
    <2>6. B!Failing(x, Threshold) <=>
             /\ Threshold > 0 /\ n >= Threshold
             /\ \A i \in (n - Threshold + 1)..n : ~s[i].ok
             /\ v3 - s[n].at < Cooldown
        <3>1. s = v4[x] /\ n = Len(v4[x])
            BY DEF s, n
        <3>2. B!Failing(x, Threshold) <=>
              /\ Threshold > 0 /\ Len(v4[x]) >= Threshold
              /\ \A i \in (Len(v4[x]) - Threshold + 1)..Len(v4[x]) : ~v4[x][i].ok
              /\ v3 - v4[x][Len(v4[x])].at < Cooldown
            BY FailingTail
        <3> QED BY <3>1, <3>2, Zenon
    <2> QED BY <1>2, <2>2, <2>3, <2>4, <2>5, <2>6
<1>3. Threshold = 0 \/ Threshold > 0
    <2>1. Threshold \in Nat
        BY ServicesAssumption DEF ServicesAssumption
    <2> QED BY ONLY <2>1
<1> QED BY <1>1, <1>2, <1>3, Zenon

LEMMA RefusesIffOpen ==
    ASSUME B!BreakerInv, B!Next PROVE B!RefusedIffFailing
<1> SUFFICES ASSUME NEW t \in BreakerTasks, v2[t].status = "new", v2'[t].status # "new"
             PROVE  v2'[t].status = "refused" <=> B!Failing(v2'[t].target, Threshold)
    BY DEF B!RefusedIffFailing
<1>1. PICK x \in Targets : B!Start(t, x)
    <2>1. ASSUME NEW u \in BreakerTasks, NEW x \in Targets, B!Start(u, x), u # t PROVE FALSE
        BY <2>1 DEF B!Start, B!BreakerInv
    <2>2. ASSUME NEW u \in BreakerTasks, NEW ok \in BOOLEAN, B!Answer(u, ok) PROVE FALSE
        BY <2>2 DEF B!Answer, B!BreakerInv
    <2>3. ASSUME NEW u \in BreakerTasks, B!Cancel(u) PROVE FALSE
        BY <2>3 DEF B!Cancel, B!BreakerInv
    <2>4. ~B!Restart /\ ~B!Tick
        BY DEF B!Restart, B!Tick, B!BreakerInv
    <2> QED BY <2>1, <2>2, <2>3, <2>4 DEF B!Next
<1>2. v2'[t] = [status |-> IF B!Open(v1[x]) THEN "refused" ELSE "running", target |-> x]
    BY <1>1 DEF B!Start, B!BreakerInv
<1>3. v2'[t].target = x /\ (v2'[t].status = "refused" <=> B!Open(v1[x]))
    BY <1>2
<1> QED BY <1>3, OpenIffFailing

\* A task is refused exactly if the last answers of its target, from whichever tasks and in
\* whichever order, were as many failures as the threshold and the last of them is more recent
\* than the cooldown (packages/runtime-core/src/circuit-breaker.ts).
THEOREM BreakerIsExact == Spec => RefusedIffFailing
<1> DEFINE Inv == part = "breaker" => B!BreakerInv
<1>1. Init => Inv
    BY BreakerInit DEF Init
<1>2. Inv /\ [Next]_vars => Inv'
    <2> SUFFICES ASSUME B!BreakerInv, part = "breaker", [Next]_vars PROVE B!BreakerInv'
        BY PartStays
    <2>1. CASE UNCHANGED <<v1, v2, v3, v4>>
        BY <2>1 DEF B!BreakerInv
    <2>2. CASE B!Next
        BY <2>2, BreakerAnswer, BreakerElse
    <2> QED BY <2>1, <2>2, BreakerSteps
<1>3. Inv /\ [Next]_vars => [(part = "breaker") => B!RefusedIffFailing]_vars
    <2> SUFFICES ASSUME part = "breaker", B!BreakerInv, Next PROVE B!RefusedIffFailing
        BY DEF vars
    <2>1. CASE B!Next
        BY <2>1, RefusesIffOpen
    <2>2. CASE UNCHANGED <<v1, v2, v3, v4>>
        BY <2>2 DEF B!RefusedIffFailing
    <2> QED BY <2>1, <2>2, BreakerSteps
<1> QED BY <1>1, <1>2, <1>3, PTL DEF Spec, RefusedIffFailing
-----------------------------------------------------------------------------
(* ToolGuards                                                                  *)

LEMMA GuardsSteps ==
    ASSUME part = "guards", [Next]_vars
    PROVE  G!Next \/ UNCHANGED <<v1, v2, v3, v4, v5, v6>>
BY DEF Next, vars, after3, after4, after5

LEMMA StreakIsFinite ==
    ASSUME NEW k, NEW i \in Nat PROVE IsFiniteSet(G!Streak(k, i))
<1>1. IsFiniteSet(1..i)
    BY FS_Interval
<1>2. G!Streak(k, i) \in SUBSET (1..i)
    BY DEF G!Streak
<1> QED BY <1>1, <1>2, FS_Subset

\* The module counts with its own instance of the standard operator.
LEMMA SameCardinality == ASSUME NEW X PROVE G!Cardinality(X) = Cardinality(X)
BY DEF G!Cardinality, Cardinality

\* Before the first call there is no streak.
LEMMA NoStreak == ASSUME NEW k PROVE G!Cardinality(G!Streak(k, 0)) = 0
<1>1. G!Streak(k, 0) = {}
    BY DEF G!Streak
<1> QED BY <1>1, FS_EmptySet, SameCardinality

\* The streaks that ended at earlier calls are not changed by a call.
LEMMA OldStreaks ==
    ASSUME NEW k, NEW i \in Nat, \A j \in 1..i : v6'[j] = v6[j]
    PROVE  G!Streak(k, i)' = G!Streak(k, i)
BY DEF G!Streak

\* A call of another key leaves the streak of a key as it was.
LEMMA StreakOfOthers ==
    ASSUME NEW k, NEW n \in Nat, \A j \in 1..n : v6'[j] = v6[j], v6'[n + 1].key # k
    PROVE  G!Streak(k, n + 1)' = G!Streak(k, n)
<1>1. 1..(n + 1) = (1..n) \cup {n + 1} /\ n + 1 \notin 1..n
    OBVIOUS
<1> QED BY <1>1 DEF G!Streak

\* A call that fails is one more in the streak of its key.
LEMMA StreakGrows ==
    ASSUME NEW k, NEW n \in Nat, \A j \in 1..n : v6'[j] = v6[j],
           v6'[n + 1].key = k, v6'[n + 1].failed = TRUE
    PROVE  G!Cardinality(G!Streak(k, n + 1)') = G!Cardinality(G!Streak(k, n)) + 1
<1>1. 1..(n + 1) = (1..n) \cup {n + 1} /\ n + 1 \notin 1..n /\ \A s \in 1..n : s < n + 1
    OBVIOUS
<1>2. G!Streak(k, n + 1)' = G!Streak(k, n) \cup {n + 1}
    BY <1>1 DEF G!Streak
<1>3. n + 1 \notin G!Streak(k, n)
    BY <1>1 DEF G!Streak
<1> QED BY <1>2, <1>3, StreakIsFinite, FS_AddElement, SameCardinality

\* A call that succeeds ends the streak of its key.
LEMMA StreakEnds ==
    ASSUME NEW k, NEW n \in Nat, v6'[n + 1].key = k, v6'[n + 1].failed = FALSE
    PROVE  G!Cardinality(G!Streak(k, n + 1)') = 0
<1>1. n + 1 \in 1..(n + 1) /\ \A j \in 1..(n + 1) : ~(n + 1 < j)
    OBVIOUS
<1>2. G!Streak(k, n + 1)' = {}
    BY <1>1 DEF G!Streak
<1> QED BY <1>2, FS_EmptySet, SameCardinality

LEMMA GuardsInit == ASSUME G!Init PROVE G!GuardsInv
<1>1. Len(v6) = 0 /\ v6 = <<>> /\ DOMAIN v6 = {}
    BY DEF G!Init
<1>2. G!CountsStreaks
    <2> SUFFICES ASSUME NEW k \in Keys
                 PROVE  /\ v1[k] = G!Cardinality(G!Streak(k, Len(v6)))
                        /\ k \in v2 <=> /\ v1[k] >= WarnAt
                                        /\ ~(HardStop /\ WarnAt >= StopAt)
        BY Zenon DEF G!CountsStreaks
    <2>1. v1[k] = 0 /\ k \notin v2
        BY DEF G!Init
    <2>2. WarnAt \in Nat \ {0}
        BY ServicesAssumption DEF ServicesAssumption
    <2>3. v1[k] = G!Cardinality(G!Streak(k, Len(v6)))
        BY <1>1, <2>1, NoStreak
    <2>4. ~(v1[k] >= WarnAt)
        BY ONLY <2>1, <2>2
    <2> QED BY <2>1, <2>3, <2>4
<1>3. G!HintedOncePerStreak /\ G!RemembersMutation
    BY <1>1 DEF G!HintedOncePerStreak, G!RemembersMutation
<1>4. /\ v1 \in [Keys -> Nat] /\ v2 \subseteq Keys
      /\ v3 \in BOOLEAN /\ v4 \in BOOLEAN /\ v5 \in BOOLEAN
      /\ v6 \in Seq([key : Keys, failed : BOOLEAN, effect : {"read", "check", "mutate"},
                     verdict : {"go", "warn", "stop"}])
    <2>1. v1 = [k \in Keys |-> 0] /\ v2 = {} /\ v3 = FALSE /\ v4 = FALSE /\ v5 = FALSE
        BY DEF G!Init
    <2>2. \A X : <<>> \in Seq(X)
        OBVIOUS
    <2> QED BY <1>1, <2>1, <2>2
<1> QED BY <1>2, <1>3, <1>4 DEF G!GuardsInv

\* What a call adds to the history, and what it does to the guard.
LEMMA CallFacts ==
    ASSUME G!GuardsInv, NEW k \in Keys, NEW failed \in BOOLEAN,
           NEW effect \in {"read", "check", "mutate"}, G!Call(k, failed, effect)
    PROVE  /\ v6' \in Seq([key : Keys, failed : BOOLEAN, effect : {"read", "check", "mutate"},
                           verdict : {"go", "warn", "stop"}])
           /\ Len(v6) \in Nat /\ Len(v6') = Len(v6) + 1
           /\ \A j \in 1..Len(v6) : v6'[j] = v6[j]
           /\ v6'[Len(v6) + 1].key = k /\ v6'[Len(v6) + 1].failed = failed
           /\ v6'[Len(v6) + 1].effect = effect
           /\ v6'[Len(v6) + 1].verdict = IF failed THEN G!Verdict(k, v1[k] + 1) ELSE "go"
           /\ v1' = [v1 EXCEPT ![k] = IF failed THEN v1[k] + 1 ELSE 0]
           /\ v2' = IF ~failed THEN v2 \ {k}
                    ELSE IF G!Verdict(k, v1[k] + 1) = "warn" THEN v2 \cup {k} ELSE v2
           /\ v5' = v5 /\ G!Observe(effect)
<1> DEFINE R == [key : Keys, failed : BOOLEAN, effect : {"read", "check", "mutate"},
                 verdict : {"go", "warn", "stop"}]
<1>1. PICK r : r = [key |-> k, failed |-> failed, effect |-> effect,
                    verdict |-> IF failed THEN G!Verdict(k, v1[k] + 1) ELSE "go"]
    OBVIOUS
<1>2. v6' = Append(v6, r) /\ v6 \in Seq(R)
    BY <1>1 DEF G!Call, G!GuardsInv
<1>3. r \in R
    <2>1. G!Verdict(k, v1[k] + 1) \in {"go", "warn", "stop"}
        BY DEF G!Verdict
    <2> QED BY <1>1, <2>1
<1>4. /\ r.key = k /\ r.failed = failed /\ r.effect = effect
      /\ r.verdict = IF failed THEN G!Verdict(k, v1[k] + 1) ELSE "go"
    BY <1>1
<1> HIDE DEF R
<1>5. /\ v6' \in Seq(R) /\ Len(v6) \in Nat /\ Len(v6') = Len(v6) + 1
      /\ \A j \in 1..Len(v6) : v6'[j] = v6[j]
      /\ v6'[Len(v6) + 1] = r
    BY ONLY <1>2, <1>3, AppendFacts
<1>6. /\ v1' = [v1 EXCEPT ![k] = IF failed THEN v1[k] + 1 ELSE 0]
      /\ v2' = IF ~failed THEN v2 \ {k}
               ELSE IF G!Verdict(k, v1[k] + 1) = "warn" THEN v2 \cup {k} ELSE v2
      /\ v5' = v5 /\ G!Observe(effect)
    BY DEF G!Call, G!Count
<1> QED BY <1>4, <1>5, <1>6 DEF R

LEMMA CallCounts ==
    ASSUME G!GuardsInv, NEW k \in Keys, NEW failed \in BOOLEAN,
           NEW effect \in {"read", "check", "mutate"}, G!Call(k, failed, effect)
    PROVE  G!CountsStreaks'
<1> DEFINE Early == HardStop /\ WarnAt >= StopAt
<1>n. PICK n : n = Len(v6)
    OBVIOUS
<1>1. /\ n \in Nat /\ Len(v6') = n + 1 /\ \A j \in 1..n : v6'[j] = v6[j]
      /\ v6'[n + 1].key = k /\ v6'[n + 1].failed = failed
      /\ v1' = [v1 EXCEPT ![k] = IF failed THEN v1[k] + 1 ELSE 0]
      /\ v2' = IF ~failed THEN v2 \ {k}
               ELSE IF G!Verdict(k, v1[k] + 1) = "warn" THEN v2 \cup {k} ELSE v2
    BY <1>n, CallFacts
<1>2. /\ v1 \in [Keys -> Nat]
      /\ \A x \in Keys : v1[x] = G!Cardinality(G!Streak(x, n)) /\ (x \in v2 <=> v1[x] >= WarnAt /\ ~Early)
    BY <1>n, Zenon DEF G!GuardsInv, G!CountsStreaks
<1>3. WarnAt \in Nat \ {0} /\ StopAt \in Nat /\ HardStop \in BOOLEAN
    BY ServicesAssumption DEF ServicesAssumption
<1>4. \A x \in Keys : v1'[x] = G!Cardinality(G!Streak(x, n + 1)')
    <2> SUFFICES ASSUME NEW x \in Keys PROVE v1'[x] = G!Cardinality(G!Streak(x, n + 1)')
        OBVIOUS
    <2>1. CASE x # k
        <3>1. G!Streak(x, n + 1)' = G!Streak(x, n)
            BY <1>1, <2>1, StreakOfOthers
        <3> QED BY <1>1, <1>2, <2>1, <3>1
    <2>2. CASE x = k /\ failed = TRUE
        <3>1. G!Cardinality(G!Streak(x, n + 1)') = G!Cardinality(G!Streak(x, n)) + 1
            BY <1>1, <2>2, StreakGrows
        <3> QED BY <1>1, <1>2, <2>2, <3>1
    <2>3. CASE x = k /\ failed = FALSE
        <3>1. G!Cardinality(G!Streak(x, n + 1)') = 0
            BY <1>1, <2>3, StreakEnds
        <3> QED BY <1>1, <1>2, <2>3, <3>1
    <2> QED BY <2>1, <2>2, <2>3
<1>5. \A x \in Keys : x \in v2' <=> v1'[x] >= WarnAt /\ ~Early
    <2> SUFFICES ASSUME NEW x \in Keys PROVE x \in v2' <=> v1'[x] >= WarnAt /\ ~Early
        OBVIOUS
    <2>1. CASE x # k
        <3>1. v1'[x] = v1[x] /\ (x \in v2' <=> x \in v2)
            BY <1>1, <1>2, <2>1
        <3> QED BY <1>2, <3>1
    <2>2. CASE x = k /\ failed = TRUE
        <3>1. v1'[x] = v1[x] + 1 /\ v1[x] \in Nat
            BY <1>1, <1>2, <2>2
        <3>2. x \in v2' <=> x \in v2 \/ G!Verdict(x, v1[x] + 1) = "warn"
            BY <1>1, <2>2
        <3>3. G!Verdict(x, v1[x] + 1) = "warn" <=>
                 ~(HardStop /\ v1[x] + 1 >= StopAt) /\ v1[x] + 1 >= WarnAt /\ x \notin v2
            BY DEF G!Verdict
        <3>4. x \in v2 <=> v1[x] >= WarnAt /\ ~(HardStop /\ WarnAt >= StopAt)
            BY <1>2
        <3> QED BY ONLY <1>3, <3>1, <3>2, <3>3, <3>4
    <2>3. CASE x = k /\ failed = FALSE
        <3>1. v1'[x] = 0 /\ x \notin v2'
            BY <1>1, <1>2, <2>3
        <3> QED BY ONLY <1>3, <3>1
    <2> QED BY <2>1, <2>2, <2>3
<1> QED BY <1>1, <1>4, <1>5, Zenon DEF G!CountsStreaks

LEMMA CallHints ==
    ASSUME G!GuardsInv, NEW k \in Keys, NEW failed \in BOOLEAN,
           NEW effect \in {"read", "check", "mutate"}, G!Call(k, failed, effect)
    PROVE  G!HintedOncePerStreak'
<1> DEFINE Right(v, c) == v = IF HardStop /\ c >= StopAt THEN "stop"
                              ELSE IF c = WarnAt THEN "warn" ELSE "go"
<1>n. PICK n : n = Len(v6)
    OBVIOUS
<1>1. /\ n \in Nat /\ Len(v6') = n + 1 /\ \A j \in 1..n : v6'[j] = v6[j]
      /\ v6'[n + 1].key = k /\ v6'[n + 1].failed = failed
      /\ v6'[n + 1].verdict = IF failed THEN G!Verdict(k, v1[k] + 1) ELSE "go"
      /\ v6 \in Seq([key : Keys, failed : BOOLEAN, effect : {"read", "check", "mutate"},
                     verdict : {"go", "warn", "stop"}])
      /\ v6' \in Seq([key : Keys, failed : BOOLEAN, effect : {"read", "check", "mutate"},
                      verdict : {"go", "warn", "stop"}])
    BY <1>n, CallFacts DEF G!GuardsInv
<1>2. DOMAIN v6 = 1..n /\ DOMAIN v6' = 1..(n + 1)
    BY <1>n, <1>1
<1>3. \A i \in 1..n : v6[i].failed =>
         Right(v6[i].verdict, G!Cardinality(G!Streak(v6[i].key, i)))
    BY <1>2, Zenon DEF G!GuardsInv, G!HintedOncePerStreak
<1>4. /\ v1[k] \in Nat /\ v1[k] = G!Cardinality(G!Streak(k, n))
      /\ k \in v2 <=> v1[k] >= WarnAt /\ ~(HardStop /\ WarnAt >= StopAt)
    BY <1>n, Zenon DEF G!GuardsInv, G!CountsStreaks
<1>5. ASSUME NEW i \in 1..(n + 1), v6'[i].failed
      PROVE  Right(v6'[i].verdict, G!Cardinality(G!Streak(v6[i].key, i)'))
    <2>1. CASE i \in 1..n
        <3>1. v6'[i] = v6[i] /\ \A j \in 1..i : v6'[j] = v6[j]
            BY <1>1, <2>1
        <3>2. PICK x : x = v6[i].key
            OBVIOUS
        <3>3. G!Streak(x, i)' = G!Streak(x, i)
            BY <2>1, <3>1, OldStreaks
        <3>4. v6[i].failed
            BY <1>5, <3>1
        <3>5. Right(v6[i].verdict, G!Cardinality(G!Streak(v6[i].key, i)))
            BY ONLY <1>3, <2>1, <3>4, Zenon DEF Right
        <3>6. G!Streak(v6[i].key, i)' = G!Streak(x, i)'
            BY <3>1, <3>2 DEF G!Streak
        <3>7. G!Streak(v6[i].key, i)' = G!Streak(v6[i].key, i)
            BY ONLY <3>2, <3>3, <3>6
        <3> QED BY ONLY <3>1, <3>5, <3>7 DEF Right
    <2>2. CASE i = n + 1
        <3>1. failed = TRUE /\ v6'[i].key = k /\ v6'[i].verdict = G!Verdict(k, v1[k] + 1)
            BY <1>1, <1>5, <2>2
        <3>2. G!Cardinality(G!Streak(k, i)') = v1[k] + 1
            BY <1>1, <1>4, <2>2, <3>1, StreakGrows
        <3>3. WarnAt \in Nat \ {0} /\ StopAt \in Nat /\ HardStop \in BOOLEAN
            BY ServicesAssumption DEF ServicesAssumption
        <3>4. PICK m : m = v1[k]
            OBVIOUS
        <3>5. G!Verdict(k, v1[k] + 1) = IF HardStop /\ m + 1 >= StopAt THEN "stop"
                                        ELSE IF m + 1 >= WarnAt /\ k \notin v2
                                             THEN "warn" ELSE "go"
            BY <3>4 DEF G!Verdict
        <3>6. ~(HardStop /\ m + 1 >= StopAt) =>
                 (m + 1 >= WarnAt /\ k \notin v2 <=> m + 1 = WarnAt)
            BY ONLY <1>4, <3>3, <3>4
        <3>7. Right(v6'[i].verdict, m + 1)
            BY ONLY <3>1, <3>5, <3>6 DEF Right
        <3>8. G!Streak(v6[i].key, i)' = G!Streak(k, i)'
            BY <3>1 DEF G!Streak
        <3>9. G!Cardinality(G!Streak(v6[i].key, i)') = m + 1
            BY ONLY <3>2, <3>4, <3>8
        <3> QED BY ONLY <3>7, <3>9 DEF Right
    <2> QED BY <1>1, <2>1, <2>2
<1> QED BY <1>2, <1>5, Zenon DEF G!HintedOncePerStreak, Right

LEMMA CallRemembers ==
    ASSUME G!GuardsInv, NEW k \in Keys, NEW failed \in BOOLEAN,
           NEW effect \in {"read", "check", "mutate"}, G!Call(k, failed, effect)
    PROVE  G!RemembersMutation'
<1>n. PICK n : n = Len(v6)
    OBVIOUS
<1>1. /\ n \in Nat /\ Len(v6') = n + 1 /\ \A j \in 1..n : v6'[j] = v6[j]
      /\ v6'[n + 1].effect = effect /\ G!Observe(effect)
      /\ v6 \in Seq([key : Keys, failed : BOOLEAN, effect : {"read", "check", "mutate"},
                     verdict : {"go", "warn", "stop"}])
      /\ v6' \in Seq([key : Keys, failed : BOOLEAN, effect : {"read", "check", "mutate"},
                      verdict : {"go", "warn", "stop"}])
    BY <1>n, CallFacts DEF G!GuardsInv
<1>2. DOMAIN v6 = 1..n /\ DOMAIN v6' = 1..(n + 1)
    BY <1>n, <1>1
<1>3. (\E i \in 1..n : /\ v6[i].effect = "mutate"
                       /\ \A j \in (i + 1)..n : v6[j].effect # "check") => v3 /\ ~v4
    BY <1>n, <1>2 DEF G!GuardsInv, G!RemembersMutation
<1>4. ASSUME NEW i \in 1..(n + 1), v6'[i].effect = "mutate",
             \A j \in (i + 1)..(n + 1) : v6'[j].effect # "check"
      PROVE  v3' /\ ~v4'
    <2>1. CASE i = n + 1
        BY <1>1, <1>4, <2>1 DEF G!Observe
    <2>2. CASE i \in 1..n
        <3>1. v6[i].effect = "mutate" /\ \A j \in (i + 1)..n : v6[j].effect # "check"
            <4>1. \A j \in (i + 1)..n : j \in 1..n /\ j \in (i + 1)..(n + 1)
                BY <1>1, <2>2
            <4> QED BY <1>1, <1>4, <2>2, <4>1
        <3>2. effect # "check"
            <4>1. n + 1 \in (i + 1)..(n + 1)
                BY <1>1, <2>2
            <4> QED BY <1>1, <1>4, <4>1
        <3>3. v3 /\ ~v4
            BY <1>3, <2>2, <3>1
        <3> QED BY <1>1, <3>2, <3>3 DEF G!Observe
    <2> QED BY <1>1, <2>1, <2>2
<1> QED BY <1>1, <1>2, <1>4 DEF G!RemembersMutation

LEMMA GuardsStep == ASSUME G!GuardsInv, G!Next PROVE G!GuardsInv'
<1>1. ASSUME NEW k \in Keys, NEW failed \in BOOLEAN, NEW effect \in {"read", "check", "mutate"},
             G!Call(k, failed, effect)
      PROVE  G!GuardsInv'
    <2>1. v6' \in Seq([key : Keys, failed : BOOLEAN, effect : {"read", "check", "mutate"},
                       verdict : {"go", "warn", "stop"}])
        BY <1>1, CallFacts
    <2>2. v1' \in [Keys -> Nat] /\ v2' \subseteq Keys
        BY <1>1, CallFacts DEF G!GuardsInv
    <2>3. v3' \in BOOLEAN /\ v4' \in BOOLEAN /\ v5' \in BOOLEAN
        BY <1>1, CallFacts DEF G!GuardsInv, G!Observe
    <2>4. G!CountsStreaks' /\ G!HintedOncePerStreak' /\ G!RemembersMutation'
        BY <1>1, CallCounts, CallHints, CallRemembers
    <2> QED BY <2>1, <2>2, <2>3, <2>4 DEF G!GuardsInv
<1>2. CASE G!Prompt
    <2>1. UNCHANGED <<v1, v2, v3, v4, v6>> /\ v5' = TRUE
        BY <1>2 DEF G!Prompt, G!guard
    <2>2. G!CountsStreaks' /\ G!HintedOncePerStreak' /\ G!RemembersMutation'
        BY <2>1 DEF G!GuardsInv, G!CountsStreaks, G!HintedOncePerStreak, G!RemembersMutation,
                    G!Streak
    <2> QED BY <2>1, <2>2 DEF G!GuardsInv
<1>3. CASE G!Reset
    <2>1. G!Init'
        BY <1>3 DEF G!Reset, G!Init
    <2> QED BY <2>1, GuardsInit, PTL
<1> QED BY <1>1, <1>2, <1>3 DEF G!Next

\* A host is warned once in every streak of failures of one call and stopped in time, and it
\* is told of its unverified mutations (packages/runtime-core/src/retry-guard.ts,
\* verification-gate.ts).
THEOREM HostIsTold == Spec => []GuardsSpeak
<1> DEFINE Inv == part = "guards" => G!GuardsInv
<1>1. Init => Inv
    BY GuardsInit DEF Init
<1>2. Inv /\ [Next]_vars => Inv'
    <2> SUFFICES ASSUME G!GuardsInv, part = "guards", [Next]_vars PROVE G!GuardsInv'
        BY PartStays
    <2>1. CASE UNCHANGED <<v1, v2, v3, v4, v5, v6>>
        BY <2>1 DEF G!GuardsInv, G!CountsStreaks, G!HintedOncePerStreak, G!RemembersMutation,
                    G!Streak
    <2>2. CASE G!Next
        BY <2>2, GuardsStep
    <2> QED BY <2>1, <2>2, GuardsSteps
<1>3. Inv => GuardsSpeak
    <2> SUFFICES ASSUME G!GuardsInv PROVE G!GuardsSpeak
        BY DEF GuardsSpeak
    <2>1. G!UnverifiedIsReported
        BY DEF G!GuardsInv, G!RemembersMutation, G!UnverifiedIsReported, G!Requires
    <2> QED BY <2>1 DEF G!GuardsInv, G!GuardsSpeak
<1> QED BY <1>1, <1>2, <1>3, PTL DEF Spec
-----------------------------------------------------------------------------
(* Workspace                                                                   *)

LEMMA WorkspaceSteps ==
    ASSUME part = "workspace", [Next]_vars
    PROVE  W!Next \/ UNCHANGED <<v1, v2, v3, v4, v5>>
BY DEF Next, vars, after3, after4

LEMMA WorkspaceInit == ASSUME W!Init PROVE W!WorkspaceInv
<1>1. /\ v1 \in BOOLEAN /\ v2 \in [W!Files -> W!Whole \cup {"absent"}]
      /\ v3 \in [FileTasks -> Contents \cup {"partial", "absent"}] /\ v5 \subseteq FileTasks
    BY DEF W!Init, W!Whole
<1>2. W!New \in W!Entries
    <2>1. <<>> \in Seq(W!Predicates)
        OBVIOUS
    <2>2. PICK e : e = <<>>
        OBVIOUS
    <2>3. e \in Seq(W!Predicates) /\ "d" \in W!Paths
        BY <2>1, <2>2 DEF W!Paths
    <2>4. W!New = [op |-> "none", path |-> "d", to |-> "d", content |-> "absent", at |-> "new",
                   evidence |-> e, got |-> "absent"]
        BY <2>2 DEF W!New
    <2> QED BY ONLY <2>3, <2>4 DEF W!Entries, W!Ops, W!Places
<1>3. \A t \in FileTasks : v4[t] = W!New
    BY DEF W!Init
<1>4. v4 \in [FileTasks -> W!Entries]
    BY <1>2 DEF W!Init
<1>5. W!New.at = "new"
    BY DEF W!New
<1>6. \A t \in FileTasks : W!Working(v4[t], v3[t]) /\ W!Stands(t)
    BY <1>3, <1>5 DEF W!Working, W!Stands
<1> QED BY <1>1, <1>4, <1>6 DEF W!WorkspaceInv

\* A step of task t changes files and evidence of nobody else but on the paths in P, whose
\* tasks it disturbs.
Spares(t, P) ==
    /\ v1' \in BOOLEAN /\ v2' \in [W!Files -> W!Whole \cup {"absent"}]
    /\ v3' \in [FileTasks -> Contents \cup {"partial", "absent"}]
    /\ v5 \subseteq v5' /\ v5' \subseteq FileTasks
    /\ \A u \in FileTasks \ {t} :
          /\ v3'[u] = v3[u] \/ v3'[u] = "absent"
          /\ u \notin v5' /\ v4[u].at = "verify" => {v4[u].path, v4[u].to} \cap P = {}
    /\ \A x \in W!Paths \ P : W!Exists(x)' = W!Exists(x)

\* A step of task t, after which its record is r, keeps the invariant if it is right for r and
\* disturbs the tasks that have taken effect on the paths that it changed.
LEMMA TaskLands ==
    ASSUME W!WorkspaceInv, NEW t \in FileTasks, NEW r \in W!Entries, NEW P,
           v4' = [v4 EXCEPT ![t] = r],
           Spares(t, P),
           W!Working(r, v3'[t]), r.at = "partial" => t \in v5',
           r.at = "verify" =>
              \A i \in DOMAIN r.evidence : /\ r.evidence[i].path \in {r.path, r.to}
                                           /\ t \notin v5' =>
                                                 W!Exists(r.evidence[i].path)' =
                                                    (r.evidence[i].type = "exists")
    PROVE  W!WorkspaceInv'
<1>1. /\ v4 \in [FileTasks -> W!Entries] /\ v4'[t] = r
      /\ \A u \in FileTasks \ {t} : v4'[u] = v4[u]
      /\ v4' \in [FileTasks -> W!Entries]
    BY DEF W!WorkspaceInv
<1> USE DEF Spares
<1>2. ASSUME NEW u \in FileTasks PROVE W!Working(v4'[u], v3'[u])
    <2>1. CASE u = t
        BY <1>1, <2>1
    <2>2. CASE u # t
        <3>1. W!Working(v4[u], v3[u]) /\ (v3'[u] = v3[u] \/ v3'[u] = "absent")
            BY <2>2 DEF W!WorkspaceInv
        <3>2. W!Working(v4[u], v3'[u])
            BY <3>1 DEF W!Working
        <3> QED BY <1>1, <2>2, <3>2
    <2> QED BY <2>1, <2>2
<1>3. ASSUME NEW u \in FileTasks, v4'[u].at = "partial" PROVE u \in v5'
    <2>1. CASE u = t
        BY <1>1, <1>3, <2>1
    <2>2. CASE u # t
        BY <1>1, <1>3, <2>2 DEF W!WorkspaceInv, W!Stands
    <2> QED BY <2>1, <2>2
<1>4. ASSUME NEW u \in FileTasks, v4'[u].at = "verify", NEW i \in DOMAIN v4'[u].evidence,
             NEW q, q = v4'[u].evidence[i]
      PROVE  /\ q.path \in {v4'[u].path, v4'[u].to}
             /\ u \notin v5' => W!Exists(q.path)' = (q.type = "exists")
    <2>1. CASE u = t
        <3>1. i \in DOMAIN r.evidence /\ q = r.evidence[i] /\ r.at = "verify"
            BY <1>1, <1>4, <2>1
        <3>2. /\ q.path \in {r.path, r.to}
              /\ t \notin v5' => W!Exists(r.evidence[i].path)' = (q.type = "exists")
            BY <3>1
        <3>3. W!Exists(q.path)' = W!Exists(r.evidence[i].path)'
            BY <3>1
        <3> QED BY <1>1, <2>1, <3>2, <3>3
    <2>2. CASE u # t
        <3>1. PICK w : w = v4[u]
            OBVIOUS
        <3>2. /\ w \in W!Entries /\ v4'[u] = w /\ w.at = "verify" /\ i \in DOMAIN w.evidence
            BY <1>1, <1>4, <2>2, <3>1
        <3>3. /\ w.evidence[i].path \in {w.path, w.to}
              /\ u \notin v5 => W!Exists(w.evidence[i].path) = (w.evidence[i].type = "exists")
            BY <3>1, <3>2 DEF W!WorkspaceInv, W!Stands, W!Holds
        <3>4. ASSUME u \notin v5' PROVE w.evidence[i].path \in W!Paths \ P
            <4>1. {w.path, w.to} \cap P = {}
                BY <2>2, <3>1, <3>2, <3>4
            <4>2. w.path \in W!Paths /\ w.to \in W!Paths
                BY <3>2 DEF W!Entries
            <4> QED BY <3>3, <4>1, <4>2
        <3>5. q = w.evidence[i]
            BY <1>4, <3>2
        <3>6. u \notin v5' => W!Exists(q.path)' = (q.type = "exists")
            BY <3>3, <3>4, <3>5
        <3> QED BY <3>2, <3>3, <3>5, <3>6
    <2> QED BY <2>1, <2>2
<1>5. \A u \in FileTasks : W!Stands(u)'
    BY <1>3, <1>4 DEF W!Stands, W!Holds, W!Exists
<1> QED BY <1>1, <1>2, <1>5 DEF W!WorkspaceInv

\* Such a step to another place, with its evidence to be checked only if it was before.
LEMMA TaskGoes ==
    ASSUME W!WorkspaceInv, NEW t \in FileTasks, NEW place \in W!Places, NEW P,
           v4' = [v4 EXCEPT ![t].at = place], Spares(t, P),
           place \in {"write-2", "write-3", "write-4"} => v4[t].at \in {"write", "write-2", "write-3"},
           place \in {"move", "move-2"} => v4[t].at = "move",
           place = "read-2" => v4[t].at = "read",
           place \notin {"mkdir", "write", "delete", "read", "hash", "stat", "list", "verify"},
           place = "write-4" => v3'[t] # "partial", place = "partial" => t \in v5'
    PROVE  W!WorkspaceInv'
<1>1. PICK w \in W!Entries : w = v4[t]
    BY DEF W!WorkspaceInv
<1>2. PICK r : r = [w EXCEPT !.at = place]
    OBVIOUS
<1>3. r \in W!Entries
    BY <1>1, <1>2 DEF W!Entries
<1>4. v4' = [v4 EXCEPT ![t] = r]
    BY <1>1, <1>2
<1>5. /\ r.at = place /\ r.op = w.op /\ r.path = w.path /\ r.to = w.to
      /\ r.content = w.content
    BY <1>1, <1>2 DEF W!Entries
<1>6. W!Working(w, v3[t])
    BY <1>1 DEF W!WorkspaceInv
<1>7. W!Working(r, v3'[t])
    BY <1>1, <1>5, <1>6 DEF W!Working
<1>8. r.at # "verify" /\ (r.at = "partial" => t \in v5')
    BY <1>5
<1> QED BY <1>3, <1>4, <1>7, <1>8, TaskLands

\* And one with which its operation takes effect.
LEMMA TaskTakes ==
    ASSUME W!WorkspaceInv, NEW t \in FileTasks, NEW e \in Seq(W!Predicates), NEW P,
           NEW got \in W!Whole \cup {"absent"},
           v4' = [v4 EXCEPT ![t].at = "verify", ![t].evidence = e, ![t].got = got],
           Spares(t, P),
           \A i \in DOMAIN e : /\ e[i].path \in {v4[t].path, v4[t].to}
                               /\ W!Exists(e[i].path)' = (e[i].type = "exists")
    PROVE  W!WorkspaceInv'
<1>1. PICK w \in W!Entries : w = v4[t]
    BY DEF W!WorkspaceInv
<1>2. PICK r : r = [w EXCEPT !.at = "verify", !.evidence = e, !.got = got]
    OBVIOUS
<1>3. r \in W!Entries
    BY <1>1, <1>2 DEF W!Entries, W!Places
<1>4. v4' = [v4 EXCEPT ![t] = r]
    BY <1>1, <1>2
<1>5. r.at = "verify" /\ r.path = w.path /\ r.to = w.to /\ r.evidence = e
    BY <1>1, <1>2 DEF W!Entries
<1>6. W!Working(r, v3'[t]) /\ r.at # "partial"
    BY <1>5 DEF W!Working
<1>7. \A i \in DOMAIN r.evidence : /\ r.evidence[i].path \in {r.path, r.to}
                                   /\ W!Exists(r.evidence[i].path)' =
                                         (r.evidence[i].type = "exists")
    BY <1>1, <1>5
<1> QED BY <1>3, <1>4, <1>6, <1>7, TaskLands

LEMMA Quiet ==
    ASSUME W!WorkspaceInv, NEW t \in FileTasks, UNCHANGED <<v1, v2, v3, v5>>
    PROVE  Spares(t, {})
BY DEF Spares, W!WorkspaceInv, W!Exists

LEMMA Disturbs ==
    ASSUME W!WorkspaceInv, NEW t \in FileTasks, NEW P, W!Disturb(t, P)
    PROVE  /\ v5 \subseteq v5' /\ v5' \subseteq FileTasks
           /\ \A u \in FileTasks \ {t} : u \notin v5' /\ v4[u].at = "verify" =>
                 {v4[u].path, v4[u].to} \cap P = {}
BY DEF W!Disturb, W!WorkspaceInv

LEMMA OneEvidence ==
    ASSUME NEW type \in {"exists", "absent"}, NEW p \in W!Paths,
           NEW e, e = <<[type |-> type, path |-> p]>>
    PROVE  e \in Seq(W!Predicates) /\ \A i \in DOMAIN e : e[i].type = type /\ e[i].path = p
<1>1. PICK q : q = [type |-> type, path |-> p]
    OBVIOUS
<1>2. q \in W!Predicates /\ q.type = type /\ q.path = p
    BY <1>1 DEF W!Predicates
<1>3. e = <<q>>
    BY <1>1
<1> QED BY ONLY <1>2, <1>3

LEMMA TwoEvidence ==
    ASSUME NEW p \in W!Paths, NEW p2 \in W!Paths,
           NEW e, e = <<[type |-> "absent", path |-> p], [type |-> "exists", path |-> p2]>>
    PROVE  /\ e \in Seq(W!Predicates)
           /\ \A i \in DOMAIN e : \/ e[i].type = "absent" /\ e[i].path = p
                                  \/ e[i].type = "exists" /\ e[i].path = p2
<1>1. PICK q : q = [type |-> "absent", path |-> p]
    OBVIOUS
<1>2. PICK q2 : q2 = [type |-> "exists", path |-> p2]
    OBVIOUS
<1>3. q \in W!Predicates /\ q.type = "absent" /\ q.path = p
    BY <1>1 DEF W!Predicates
<1>4. q2 \in W!Predicates /\ q2.type = "exists" /\ q2.path = p2
    BY <1>2 DEF W!Predicates
<1>5. e = <<q, q2>>
    BY <1>1, <1>2
<1> QED BY ONLY <1>3, <1>4, <1>5

LEMMA NoEvidence ==
    ASSUME W!WorkspaceInv, NEW t \in FileTasks, NEW got \in W!Whole \cup {"absent"},
           v4[t].op \in {"read", "hash", "stat", "list"}, W!Took(t, got),
           UNCHANGED <<v1, v2, v3, v5>>
    PROVE  W!WorkspaceInv'
<1>1. W!Evidence(t) = <<>>
    BY DEF W!Evidence
<1>2. PICK e : e = <<>>
    OBVIOUS
<1>3. e \in Seq(W!Predicates) /\ DOMAIN e = {}
    BY <1>2
<1>4. v4' = [v4 EXCEPT ![t].at = "verify", ![t].evidence = e, ![t].got = got]
    BY <1>1, <1>2 DEF W!Took
<1>5. Spares(t, {})
    BY Quiet
<1> QED BY <1>3, <1>4, <1>5, TaskTakes

LEMMA WorkspaceFails ==
    ASSUME W!WorkspaceInv, NEW t \in FileTasks, NEW place \in {"failed", "done"},
           W!Goto(t, place), UNCHANGED <<v1, v2, v3, v5>>
    PROVE  W!WorkspaceInv'
<1>1. Spares(t, {}) /\ place \in W!Places
    BY Quiet DEF W!Places
<1>2. v4' = [v4 EXCEPT ![t].at = place]
    BY DEF W!Goto
<1> QED BY <1>1, <1>2, TaskGoes

LEMMA WorkspaceStart ==
    ASSUME W!WorkspaceInv, NEW t \in FileTasks, NEW op \in W!Ops, NEW path \in W!Paths,
           NEW to \in W!Paths, NEW content \in Contents \cup {"absent"},
           op # "none",
           op = "write" => path \in W!Files /\ content \in Contents,
           op = "move" => path \in W!Files /\ to \in W!Files /\ path # to,
           op \in {"read", "hash"} => path \in W!Files, op = "mkdir" => path = "d",
           W!Start(t, op, path, to, content)
    PROVE  W!WorkspaceInv'
<1>1. PICK e : e = <<>>
    OBVIOUS
<1>2. e \in Seq(W!Predicates)
    BY <1>1
<1>3. PICK r : r = [op |-> op, path |-> path, to |-> to, content |-> content, at |-> op,
                    evidence |-> e, got |-> "absent"]
    OBVIOUS
<1>4. v4' = [v4 EXCEPT ![t] = r] /\ UNCHANGED <<v1, v2, v3, v5>>
    BY <1>1, <1>3 DEF W!Start
<1>5. r \in W!Entries
    BY ONLY <1>2, <1>3, op \in W!Ops, path \in W!Paths, to \in W!Paths,
            content \in Contents \cup {"absent"} DEF W!Entries, W!Places
<1>6. r.at = op /\ r.op = op /\ r.path = path /\ r.to = to /\ r.content = content
    BY <1>3
<1>7. W!Working(r, v3'[t]) /\ r.at \notin {"partial", "verify"}
    BY <1>6 DEF W!Working, W!Ops
<1>8. Spares(t, {})
    BY <1>4, Quiet
<1> QED BY <1>4, <1>5, <1>7, <1>8, TaskLands

LEMMA WorkspaceMake ==
    ASSUME W!WorkspaceInv, NEW t \in FileTasks, W!MakeDirectory(t) PROVE W!WorkspaceInv'
<1>1. PICK w \in W!Entries : w = v4[t]
    BY DEF W!WorkspaceInv
<1>2. v1' = TRUE /\ UNCHANGED <<v2, v3>> /\ w.at \in {"mkdir", "write", "move"}
    BY <1>1 DEF W!MakeDirectory
<1>3. W!Working(w, v3[t])
    BY <1>1 DEF W!WorkspaceInv
<1>4. PICK P : Spares(t, P)
    <2>1. CASE v1 = TRUE
        <3>1. UNCHANGED <<v1, v2, v3, v5>>
            BY <1>2, <2>1 DEF W!MakeDirectory
        <3> QED BY <3>1, Quiet
    <2>2. CASE v1 = FALSE
        <3>1. W!Disturb(t, {"d"})
            BY <2>2 DEF W!MakeDirectory
        <3>2. \A x \in W!Paths \ {"d"} : W!Exists(x)' = W!Exists(x)
            BY <1>2 DEF W!Exists
        <3>3. Spares(t, {"d"})
            BY <1>2, <3>1, <3>2, Disturbs DEF Spares, W!WorkspaceInv
        <3> QED BY <3>3
    <2> QED BY <2>1, <2>2 DEF W!WorkspaceInv
<1>5. CASE w.op = "mkdir"
    <2>1. w.path = "d"
        BY <1>2, <1>3, <1>5 DEF W!Working
    <2>2. PICK e : e = <<[type |-> "exists", path |-> "d"]>>
        OBVIOUS
    <2>3. /\ e \in Seq(W!Predicates)
          /\ \A i \in DOMAIN e : e[i].type = "exists" /\ e[i].path = "d"
        BY <2>2, OneEvidence DEF W!Paths
    <2>4. W!Evidence(t) = e
        BY <1>1, <1>5, <2>1, <2>2 DEF W!Evidence
    <2>5. v4' = [v4 EXCEPT ![t].at = "verify", ![t].evidence = e, ![t].got = "absent"]
        BY <1>1, <1>5, <2>4 DEF W!MakeDirectory, W!Took
    <2>6. \A i \in DOMAIN e : /\ e[i].path \in {v4[t].path, v4[t].to}
                              /\ W!Exists(e[i].path)' = (e[i].type = "exists")
        BY <1>1, <1>2, <2>1, <2>3 DEF W!Exists
    <2> QED BY <1>4, <2>3, <2>5, <2>6, TaskTakes
<1>6. CASE w.op # "mkdir"
    <2>1. PICK place \in {"write-2", "move-2"} :
             /\ v4' = [v4 EXCEPT ![t].at = place]
             /\ place = (IF w.op = "write" THEN "write-2" ELSE "move-2")
        BY <1>1, <1>6 DEF W!MakeDirectory, W!Goto
    <2>2. place \in W!Places
        BY <2>1 DEF W!Places
    <2>3. /\ place = "write-2" => v4[t].at = "write"
          /\ place = "move-2" => v4[t].at = "move"
        BY <1>1, <1>2, <1>3, <1>6, <2>1 DEF W!Working
    <2> QED BY <1>4, <2>1, <2>2, <2>3, TaskGoes
<1> QED BY <1>5, <1>6

LEMMA WorkspaceWrite ==
    ASSUME W!WorkspaceInv, NEW t \in FileTasks, W!WriteTemporary(t) \/ W!EndOfWrite(t)
    PROVE  W!WorkspaceInv'
<1>1. PICK w \in W!Entries : w = v4[t]
    BY DEF W!WorkspaceInv
<1>2. W!Working(w, v3[t])
    BY <1>1 DEF W!WorkspaceInv
<1>3. CASE W!WriteTemporary(t) /\ v1 = FALSE
    BY <1>3, WorkspaceFails DEF W!WriteTemporary, W!Fails
<1>4. CASE W!WriteTemporary(t) /\ v1 = TRUE
    <2>1. /\ UNCHANGED <<v1, v2, v5>> /\ v3' = [v3 EXCEPT ![t] = "partial"]
          /\ v4' = [v4 EXCEPT ![t].at = "write-3"] /\ v4[t].at = "write-2"
        BY <1>4 DEF W!WriteTemporary, W!Goto
    <2>2. Spares(t, {})
        BY <2>1 DEF Spares, W!WorkspaceInv, W!Exists
    <2>3. "write-3" \in W!Places
        BY DEF W!Places
    <2> QED BY <2>1, <2>2, <2>3, TaskGoes
<1>5. CASE W!EndOfWrite(t)
    <2>1. /\ UNCHANGED <<v1, v2, v5>>
          /\ v3' = [v3 EXCEPT ![t] = IF v3[t] = "partial" THEN w.content ELSE v3[t]]
          /\ v4' = [v4 EXCEPT ![t].at = "write-4"] /\ w.at = "write-3"
        BY <1>1, <1>5 DEF W!EndOfWrite, W!CompleteTemporary, W!Goto
    <2>2. w.content \in Contents /\ w.content # "partial"
        BY <1>2, <2>1, ServicesAssumption DEF W!Working, ServicesAssumption
    <2>3. Spares(t, {})
        BY <2>1, <2>2 DEF Spares, W!WorkspaceInv, W!Exists
    <2>4. "write-4" \in W!Places
        BY DEF W!Places
    <2>5. v3'[t] # "partial"
        BY <2>1, <2>2 DEF W!WorkspaceInv
    <2> QED BY <1>1, <2>1, <2>3, <2>4, <2>5, TaskGoes
<1> QED BY <1>3, <1>4, <1>5 DEF W!WorkspaceInv

LEMMA WorkspaceRename ==
    ASSUME W!WorkspaceInv, NEW t \in FileTasks, W!Rename(t) PROVE W!WorkspaceInv'
<1>1. PICK w \in W!Entries : w = v4[t]
    BY DEF W!WorkspaceInv
<1>2. W!Working(w, v3[t]) /\ w.at = "write-4"
    BY <1>1 DEF W!WorkspaceInv, W!Rename
<1>3. PICK p : p = w.path
    OBVIOUS
<1>4. w.op = "write" /\ p \in W!Files /\ v3[t] # "partial" /\ p \in W!Paths /\ p # "d"
    BY <1>2, <1>3 DEF W!Working, W!Paths, W!Files
<1>5. CASE v3[t] = "absent"
    BY <1>5, WorkspaceFails DEF W!Rename, W!Fails
<1>6. CASE v3[t] # "absent"
    <2>1. /\ v1' = v1 /\ v2' = [v2 EXCEPT ![p] = v3[t]] /\ v3' = [v3 EXCEPT ![t] = "absent"]
          /\ W!Took(t, "absent") /\ W!Disturb(t, {p})
        BY <1>1, <1>3, <1>6 DEF W!Rename
    <2>2. v3[t] \in Contents
        BY <1>4, <1>6 DEF W!WorkspaceInv
    <2>3. \A x \in W!Paths \ {p} : W!Exists(x)' = W!Exists(x)
        BY <1>4, <2>1 DEF W!Exists, W!WorkspaceInv, W!Paths
    <2>4. Spares(t, {p})
        BY <2>1, <2>2, <2>3, Disturbs DEF Spares, W!WorkspaceInv, W!Whole
    <2>5. PICK e : e = <<[type |-> "exists", path |-> p]>>
        OBVIOUS
    <2>6. /\ e \in Seq(W!Predicates)
          /\ \A i \in DOMAIN e : e[i].type = "exists" /\ e[i].path = p
        BY <1>4, <2>5, OneEvidence
    <2>7. W!Evidence(t) = e
        BY <1>1, <1>3, <1>4, <2>5 DEF W!Evidence
    <2>8. v4' = [v4 EXCEPT ![t].at = "verify", ![t].evidence = e, ![t].got = "absent"]
        BY <2>1, <2>7 DEF W!Took
    <2>9. W!Exists(p)' = TRUE
        BY <1>4, <1>6, <2>1 DEF W!Exists, W!WorkspaceInv
    <2>10. \A i \in DOMAIN e : /\ e[i].path \in {v4[t].path, v4[t].to}
                               /\ W!Exists(e[i].path)' = (e[i].type = "exists")
        BY <1>1, <1>3, <2>6, <2>9
    <2> QED BY <2>4, <2>6, <2>8, <2>10, TaskTakes
<1> QED BY <1>5, <1>6

LEMMA WorkspaceMove ==
    ASSUME W!WorkspaceInv, NEW t \in FileTasks, W!Move(t) PROVE W!WorkspaceInv'
<1>1. PICK w \in W!Entries : w = v4[t]
    BY DEF W!WorkspaceInv
<1>2. W!Working(w, v3[t]) /\ w.at = "move-2"
    BY <1>1 DEF W!WorkspaceInv, W!Move
<1>3. PICK p, p2 : p = w.path /\ p2 = w.to
    OBVIOUS
<1>4. /\ w.op = "move" /\ p \in W!Files /\ p2 \in W!Files /\ p # p2
      /\ p \in W!Paths /\ p2 \in W!Paths /\ p # "d" /\ p2 # "d"
    BY <1>2, <1>3 DEF W!Working, W!Paths, W!Files
<1>5. CASE v2[p] = "absent" \/ ~v1
    BY <1>1, <1>3, <1>5, WorkspaceFails DEF W!Move, W!Fails
<1>6. CASE ~(v2[p] = "absent" \/ ~v1)
    <2>1. /\ v1' = v1 /\ v2' = [v2 EXCEPT ![p2] = v2[p], ![p] = "absent"] /\ v3' = v3
          /\ W!Took(t, "absent") /\ W!Disturb(t, {p, p2})
        BY <1>1, <1>3, <1>6 DEF W!Move
    <2>2. v2 \in [W!Files -> W!Whole \cup {"absent"}]
        BY DEF W!WorkspaceInv
    <2>3. /\ v2' \in [W!Files -> W!Whole \cup {"absent"}]
          /\ v2'[p] = "absent" /\ v2'[p2] = v2[p]
          /\ \A x \in W!Files \ {p, p2} : v2'[x] = v2[x]
        BY <1>4, <2>1, <2>2
    <2>4. \A x \in W!Paths \ {p, p2} : W!Exists(x)' = W!Exists(x)
        BY <2>1, <2>3 DEF W!Exists, W!Paths
    <2>5. Spares(t, {p, p2})
        BY <2>1, <2>3, <2>4, Disturbs DEF Spares, W!WorkspaceInv
    <2>6. PICK e : e = <<[type |-> "absent", path |-> p], [type |-> "exists", path |-> p2]>>
        OBVIOUS
    <2>7. /\ e \in Seq(W!Predicates)
          /\ \A i \in DOMAIN e : \/ e[i].type = "absent" /\ e[i].path = p
                                 \/ e[i].type = "exists" /\ e[i].path = p2
        BY <1>4, <2>6, TwoEvidence
    <2>8. W!Evidence(t) = e
        BY <1>1, <1>3, <1>4, <2>6 DEF W!Evidence
    <2>9. v4' = [v4 EXCEPT ![t].at = "verify", ![t].evidence = e, ![t].got = "absent"]
        BY <2>1, <2>8 DEF W!Took
    <2>10. W!Exists(p)' = FALSE /\ W!Exists(p2)' = TRUE
        BY <1>4, <1>6, <2>3 DEF W!Exists
    <2>11. \A i \in DOMAIN e : /\ e[i].path \in {v4[t].path, v4[t].to}
                               /\ W!Exists(e[i].path)' = (e[i].type = "exists")
        BY <1>1, <1>3, <2>7, <2>10
    <2> QED BY <2>5, <2>7, <2>9, <2>11, TaskTakes
<1> QED BY <1>5, <1>6

LEMMA WorkspaceDelete ==
    ASSUME W!WorkspaceInv, NEW t \in FileTasks, W!Delete(t) PROVE W!WorkspaceInv'
<1>1. PICK w \in W!Entries : w = v4[t]
    BY DEF W!WorkspaceInv
<1>2. W!Working(w, v3[t]) /\ w.at = "delete"
    BY <1>1 DEF W!WorkspaceInv, W!Delete
<1>3. PICK p : p = w.path
    OBVIOUS
<1>4. w.op = "delete" /\ p \in W!Paths
    BY <1>1, <1>2, <1>3 DEF W!Working, W!Entries
<1>5. CASE ~W!Exists(p)
    BY <1>1, <1>3, <1>5, WorkspaceFails DEF W!Delete, W!Fails
<1>6. CASE W!Exists(p)
    <2>1. PICK gone : gone = IF p = "d" THEN W!Files ELSE {p}
        OBVIOUS
    <2>2. /\ v1' = (v1 /\ p # "d")
          /\ v2' = [y \in W!Files |-> IF y \in gone THEN "absent" ELSE v2[y]]
          /\ v3' = IF p = "d" THEN [u \in FileTasks |-> "absent"] ELSE v3
          /\ W!Took(t, "absent") /\ W!Disturb(t, gone \cup {p})
        BY <1>1, <1>3, <1>6, <2>1 DEF W!Delete
    <2>3. v2 \in [W!Files -> W!Whole \cup {"absent"}] /\ v1 \in BOOLEAN
          /\ v3 \in [FileTasks -> Contents \cup {"partial", "absent"}]
        BY DEF W!WorkspaceInv
    <2>4. /\ v1' \in BOOLEAN /\ v2' \in [W!Files -> W!Whole \cup {"absent"}]
          /\ v3' \in [FileTasks -> Contents \cup {"partial", "absent"}]
          /\ \A u \in FileTasks : v3'[u] = v3[u] \/ v3'[u] = "absent"
        BY <2>2, <2>3
    <2>5. \A x \in W!Paths \ (gone \cup {p}) : W!Exists(x)' = W!Exists(x)
        BY <2>2, <2>3 DEF W!Exists, W!Paths
    <2>6. Spares(t, gone \cup {p})
        BY <2>2, <2>4, <2>5, Disturbs DEF Spares
    <2>7. PICK e : e = <<[type |-> "absent", path |-> p]>>
        OBVIOUS
    <2>8. /\ e \in Seq(W!Predicates)
          /\ \A i \in DOMAIN e : e[i].type = "absent" /\ e[i].path = p
        BY <1>4, <2>7, OneEvidence
    <2>9. W!Evidence(t) = e
        BY <1>1, <1>3, <1>4, <2>7 DEF W!Evidence
    <2>10. v4' = [v4 EXCEPT ![t].at = "verify", ![t].evidence = e, ![t].got = "absent"]
        BY <2>2, <2>9 DEF W!Took
    <2>11. W!Exists(p)' = FALSE
        BY <1>4, <2>1, <2>2 DEF W!Exists, W!Paths, W!Files
    <2>12. \A i \in DOMAIN e : /\ e[i].path \in {v4[t].path, v4[t].to}
                               /\ W!Exists(e[i].path)' = (e[i].type = "exists")
        BY <1>1, <1>3, <2>8, <2>11
    <2> QED BY <2>6, <2>8, <2>10, <2>12, TaskTakes
<1> QED BY <1>5, <1>6

LEMMA WorkspaceRead ==
    ASSUME W!WorkspaceInv, NEW t \in FileTasks, W!Look(t) \/ W!Read(t) \/ W!Inspect(t)
    PROVE  W!WorkspaceInv'
<1>1. PICK w \in W!Entries : w = v4[t]
    BY DEF W!WorkspaceInv
<1>2. W!Working(w, v3[t]) /\ UNCHANGED <<v1, v2, v3, v5>>
    BY <1>1 DEF W!WorkspaceInv, W!Look, W!Read, W!Inspect
<1>3. CASE W!Look(t)
    <2>1. CASE v2[w.path] \in {"absent", "big"}
        BY <1>1, <1>2, <1>3, <2>1, WorkspaceFails DEF W!Look, W!Fails
    <2>2. CASE v2[w.path] \notin {"absent", "big"}
        <3>1. v4' = [v4 EXCEPT ![t].at = "read-2"] /\ v4[t].at = "read"
            BY <1>1, <1>3, <2>2 DEF W!Look, W!Goto
        <3>2. Spares(t, {}) /\ "read-2" \in W!Places
            BY <1>2, Quiet DEF W!Places
        <3> QED BY <3>1, <3>2, TaskGoes
    <2> QED BY <2>1, <2>2
<1>4. CASE W!Read(t)
    <2>1. CASE W!Fails(t)
        BY <1>2, <2>1, WorkspaceFails DEF W!Fails
    <2>2. CASE ~W!Fails(t)
        <3>1. W!Took(t, v2[w.path]) /\ w.at \in {"read-2", "hash"}
            BY <1>1, <1>4, <2>2 DEF W!Read
        <3>2. w.op \in {"read", "hash"} /\ w.path \in W!Files
            BY <1>2, <3>1 DEF W!Working
        <3>3. PICK got : got = v2[w.path]
            OBVIOUS
        <3>4. got \in W!Whole \cup {"absent"}
            BY <3>2, <3>3 DEF W!WorkspaceInv
        <3>5. W!Took(t, got)
            BY <3>1, <3>3
        <3> QED BY <1>1, <1>2, <3>2, <3>4, <3>5, NoEvidence
    <2> QED BY <2>1, <2>2
<1>5. CASE W!Inspect(t)
    <2>1. CASE W!Fails(t)
        BY <1>2, <2>1, WorkspaceFails DEF W!Fails
    <2>2. CASE ~W!Fails(t)
        <3>1. W!Took(t, "absent") /\ w.at \in {"stat", "list"}
            BY <1>1, <1>5, <2>2 DEF W!Inspect
        <3>2. w.op \in {"stat", "list"}
            BY <1>2, <3>1 DEF W!Working
        <3> QED BY <1>1, <1>2, <3>1, <3>2, NoEvidence
    <2> QED BY <2>1, <2>2
<1> QED BY <1>3, <1>4, <1>5

LEMMA WorkspaceCheck ==
    ASSUME W!WorkspaceInv, NEW t \in FileTasks, W!Check(t) PROVE W!WorkspaceInv'
<1>1. PICK w \in W!Entries : w = v4[t]
    BY DEF W!WorkspaceInv
<1>2. PICK e : e = w.evidence
    OBVIOUS
<1>3. e \in Seq(W!Predicates) /\ w.at = "verify" /\ UNCHANGED <<v1, v2, v3, v5>>
    BY <1>1, <1>2 DEF W!Entries, W!Check
<1>4. \A i \in DOMAIN e : /\ e[i].path \in {w.path, w.to}
                          /\ t \notin v5 => W!Exists(e[i].path) = (e[i].type = "exists")
    BY <1>1, <1>2, <1>3 DEF W!WorkspaceInv, W!Stands, W!Holds
<1>5. CASE e = <<>>
    BY <1>1, <1>2, <1>3, <1>5, WorkspaceFails DEF W!Check
<1>6. CASE e # <<>>
    <2>1. /\ Head(e) = e[1] /\ 1 \in DOMAIN e /\ Len(e) > 0
          /\ Tail(e) \in Seq(W!Predicates) /\ Len(Tail(e)) = Len(e) - 1
          /\ \A i \in 1..(Len(e) - 1) : Tail(e)[i] = e[i + 1]
        BY <1>3, <1>6, TailFacts
    <2>2. CASE W!Holds(Head(e))
        <3>1. v4' = [v4 EXCEPT ![t].evidence = Tail(e)]
            BY <1>1, <1>2, <1>6, <2>2 DEF W!Check
        <3>2. PICK e2 : e2 = Tail(e)
            OBVIOUS
        <3>3. e2 \in Seq(W!Predicates) /\ \A i \in DOMAIN e2 : \E j \in DOMAIN e : e2[i] = e[j]
            BY ONLY <1>3, <2>1, <3>2
        <3>4. PICK r : r = [w EXCEPT !.evidence = e2]
            OBVIOUS
        <3>5. /\ r \in W!Entries /\ v4' = [v4 EXCEPT ![t] = r]
              /\ r.at = "verify" /\ r.path = w.path /\ r.to = w.to /\ r.evidence = e2
            BY <1>1, <1>3, <3>1, <3>2, <3>3, <3>4 DEF W!Entries
        <3>6. Spares(t, {})
            BY <1>3, Quiet
        <3>7. W!Working(r, v3'[t])
            BY <3>5 DEF W!Working
        <3>8. ASSUME NEW i \in DOMAIN r.evidence
              PROVE  /\ r.evidence[i].path \in {r.path, r.to}
                     /\ t \notin v5' => W!Exists(r.evidence[i].path)' =
                                           (r.evidence[i].type = "exists")
            <4>1. PICK q : q = r.evidence[i]
                OBVIOUS
            <4>2. PICK j \in DOMAIN e : q = e[j]
                BY <3>3, <3>5, <4>1
            <4>3. W!Exists(q.path)' = W!Exists(q.path)
                BY <1>3 DEF W!Exists
            <4>4. /\ q.path \in {r.path, r.to}
                  /\ t \notin v5' => W!Exists(q.path)' = (q.type = "exists")
                BY <1>3, <1>4, <3>5, <4>2, <4>3
            <4> QED BY <4>1, <4>4
        <3> QED BY <3>5, <3>6, <3>7, <3>8, TaskLands
    <2>3. CASE ~W!Holds(Head(e))
        <3>1. v4' = [v4 EXCEPT ![t].at = "partial"]
            BY <1>1, <1>2, <1>6, <2>3 DEF W!Check, W!Goto
        <3>2. Spares(t, {}) /\ "partial" \in W!Places
            BY <1>3, Quiet DEF W!Places
        <3>3. t \in v5
            BY <1>4, <2>1, <2>3 DEF W!Holds
        <3> QED BY <1>3, <3>1, <3>2, <3>3, TaskGoes
    <2> QED BY <2>2, <2>3
<1> QED BY <1>5, <1>6

LEMMA WorkspaceStep == ASSUME W!WorkspaceInv, W!Next PROVE W!WorkspaceInv'
<1>1. PICK t \in FileTasks :
        \/ \E x \in W!Files, c \in Contents : W!Start(t, "write", x, x, c)
        \/ \E x \in W!Files :
              \/ \E op \in {"read", "hash", "stat"} : W!Start(t, op, x, x, "absent")
              \/ \E y \in W!Files \ {x} : W!Start(t, "move", x, y, "absent")
        \/ \E x \in W!Paths : W!Start(t, "delete", x, x, "absent")
        \/ \E op \in {"mkdir", "list"} : W!Start(t, op, "d", "d", "absent")
        \/ W!MakeDirectory(t) \/ W!DirectoryExists(t) \/ W!WriteTemporary(t) \/ W!EndOfWrite(t)
        \/ W!Rename(t) \/ W!Move(t) \/ W!Delete(t) \/ W!Look(t) \/ W!Read(t) \/ W!Inspect(t)
        \/ W!Die(t) \/ W!Check(t)
    BY DEF W!Next
<1>2. ASSUME NEW x \in W!Files, NEW c \in Contents, W!Start(t, "write", x, x, c)
      PROVE  W!WorkspaceInv'
    BY <1>2, WorkspaceStart DEF W!Ops, W!Paths
<1>3. ASSUME NEW x \in W!Files, NEW op \in {"read", "hash", "stat"},
             W!Start(t, op, x, x, "absent")
      PROVE  W!WorkspaceInv'
    BY <1>3, WorkspaceStart DEF W!Ops, W!Paths
<1>4. ASSUME NEW x \in W!Files, NEW y \in W!Files \ {x}, W!Start(t, "move", x, y, "absent")
      PROVE  W!WorkspaceInv'
    BY <1>4, WorkspaceStart DEF W!Ops, W!Paths
<1>5. ASSUME NEW x \in W!Paths, W!Start(t, "delete", x, x, "absent") PROVE W!WorkspaceInv'
    BY <1>5, WorkspaceStart DEF W!Ops
<1>6. ASSUME NEW op \in {"mkdir", "list"}, W!Start(t, op, "d", "d", "absent")
      PROVE  W!WorkspaceInv'
    BY <1>6, WorkspaceStart DEF W!Ops, W!Paths
<1>7. CASE W!DirectoryExists(t)
    BY <1>7, WorkspaceFails DEF W!DirectoryExists, W!Fails
<1>8. CASE W!Die(t)
    BY <1>8, WorkspaceFails DEF W!Die
<1> QED BY <1>1, <1>2, <1>3, <1>4, <1>5, <1>6, <1>7, <1>8, WorkspaceMake, WorkspaceWrite,
           WorkspaceRename, WorkspaceMove, WorkspaceDelete, WorkspaceRead, WorkspaceCheck

\* Files are always whole, for any number of tasks that write, move and delete them and die, and
\* a task fails its evidence only if another one changed its paths since
\* (packages/file-runtime/src/index.ts, verifier-core/src/index.ts).
THEOREM WorkspaceIsHonest == Spec => []FilesAreHonest
<1> DEFINE Inv == part = "workspace" => W!WorkspaceInv
<1>1. Init => Inv
    BY WorkspaceInit DEF Init
<1>2. Inv /\ [Next]_vars => Inv'
    <2> SUFFICES ASSUME W!WorkspaceInv, part = "workspace", [Next]_vars PROVE W!WorkspaceInv'
        BY PartStays
    <2>1. CASE UNCHANGED <<v1, v2, v3, v4, v5>>
        BY <2>1 DEF W!WorkspaceInv, W!Stands, W!Holds, W!Exists
    <2>2. CASE W!Next
        BY <2>2, WorkspaceStep
    <2> QED BY <2>1, <2>2, WorkspaceSteps
<1>3. Inv => FilesAreHonest
    BY DEF FilesAreHonest, W!FilesAreHonest, W!FilesAreWhole, W!OnlyOthersSpoilEvidence,
           W!WorkspaceInv, W!Stands
<1> QED BY <1>1, <1>2, <1>3, PTL DEF Spec
-----------------------------------------------------------------------------
(* TerminalJobs                                                                *)

LEMMA JobsSteps ==
    ASSUME part = "terminal", [Next]_vars
    PROVE  T!Next \/ UNCHANGED <<v1, v2, v3, v4, v5, v6, v7, v8, v9>>
BY DEF Next, vars, after3, after4, after5, after6, after8, after9

LEMMA JobsInit == ASSUME T!Init PROVE T!JobsInv
<1>1. T!NoJob \in [listed : BOOLEAN, ended : BOOLEAN, out : Nat, truncated : BOOLEAN]
      /\ T!NoJob.ended = FALSE
    BY DEF T!NoJob
<1>2. v7 = [c \in Commands |-> T!NoJob]
    BY DEF T!Init
<1>3. /\ v1 = [c \in Commands |-> "none"] /\ v2 = [c \in Commands |-> "idle"]
      /\ v3 = [c \in Commands |-> "none"]
      /\ v4 = [c \in Commands |-> [stubborn |-> FALSE, heir |-> FALSE]]
      /\ v5 = [c \in Commands |-> -1] /\ v6 = [c \in Commands |-> -1]
      /\ v8 = TRUE /\ v9 = 0
    BY DEF T!Init, T!Off
<1>4. T!ClosedWhenTold /\ T!TimeoutEndsIt
    BY <1>1, <1>2, <1>3 DEF T!ClosedWhenTold, T!TimeoutEndsIt
<1>5. v7 \in [Commands -> [listed : BOOLEAN, ended : BOOLEAN, out : Nat, truncated : BOOLEAN]]
    BY <1>1, <1>2
<1> QED BY <1>3, <1>4, <1>5 DEF T!JobsInv

\* What a signal does to a child.
LEMMA SignalFacts ==
    ASSUME T!JobsInv, NEW c \in Commands, NEW sigkill \in BOOLEAN
    PROVE  /\ T!Signalled(c, sigkill) \in [Commands -> {"none", "alive", "exited", "closed"}]
           /\ \A d \in Commands \ {c} : T!Signalled(c, sigkill)[d] = v3[d]
           /\ v3[c] # "alive" => T!Signalled(c, sigkill)[c] = v3[c]
           /\ v3[c] = "alive" => T!Signalled(c, sigkill)[c] \in {"alive", "exited"}
           /\ sigkill => T!Signalled(c, sigkill)[c] # "alive"
BY DEF T!Signalled, T!Set, T!JobsInv

\* A step that ends no child but as it says and sets no timer late keeps the invariant.
LEMMA JobsKept ==
    ASSUME T!JobsInv,
           v9' \in Nat, v8' \in BOOLEAN,
           v1' \in [Commands -> {"none", "run", "start"}],
           v2' \in [Commands -> {"idle", "waiting", "started", "done", "failed", "aborted"}],
           v3' \in [Commands -> {"none", "alive", "exited", "closed"}],
           v4' \in [Commands -> [stubborn : BOOLEAN, heir : BOOLEAN]],
           v5' \in [Commands -> Int], v6' \in [Commands -> Int],
           v7' \in [Commands -> [listed : BOOLEAN, ended : BOOLEAN, out : Nat,
                                 truncated : BOOLEAN]],
           \A d \in Commands :
              /\ v7'[d].ended => v7[d].ended \/ v3'[d] = "closed"
              /\ v2'[d] = "done" => v2[d] = "done" \/ v3'[d] = "closed"
              /\ v2'[d] = "failed" => v2[d] = "failed" \/ v3'[d] = "none"
              /\ v3[d] = "closed" => v3'[d] = "closed"
              /\ v3[d] = "none" => v3'[d] = "none" \/ v2[d] = "waiting"
              /\ v3'[d] = "alive" /\ v8' /\ v2'[d] # "aborted" =>
                    \/ /\ v3[d] = "alive" /\ v8 /\ v2[d] # "aborted"
                       /\ v9' = v9 /\ v5'[d] = v5[d] /\ v6'[d] = v6[d]
                    \/ v5'[d] \in v9'..(v9' + Timeout)
                    \/ v6'[d] \in v9'..(v9' + Grace)
    PROVE  T!JobsInv'
<1>1. T!ClosedWhenTold'
    BY DEF T!ClosedWhenTold, T!JobsInv
<1>2. T!TimeoutEndsIt'
    BY DEF T!TimeoutEndsIt, T!JobsInv
<1> QED BY <1>1, <1>2 DEF T!JobsInv

LEMMA JobsTimers ==
    ASSUME T!JobsInv, NEW c \in Commands, T!Overrun(c) \/ T!Escalate(c) PROVE T!JobsInv'
<1>1. Grace \in Nat /\ Timeout \in Nat
    BY ServicesAssumption DEF ServicesAssumption
<1>2. CASE T!Overrun(c)
    <2>1. /\ UNCHANGED <<v1, v2, v4, v7, v8, v9>> /\ v3' = T!Signalled(c, FALSE)
          /\ v5' = [v5 EXCEPT ![c] = -1] /\ v6' = [v6 EXCEPT ![c] = v9 + Grace]
        BY <1>2 DEF T!Overrun, T!Set, T!Off
    <2>2. \A d \in Commands : d = c => v6'[d] \in v9'..(v9' + Grace)
        BY <1>1, <2>1 DEF T!JobsInv
    <2>3. \A d \in Commands : d # c => v5'[d] = v5[d] /\ v6'[d] = v6[d]
        BY <2>1 DEF T!JobsInv
    <2>4. v5' \in [Commands -> Int] /\ v6' \in [Commands -> Int]
        BY <1>1, <2>1 DEF T!JobsInv
    <2>5. /\ v3' \in [Commands -> {"none", "alive", "exited", "closed"}]
          /\ v3[c] # "alive" => v3'[c] = v3[c]
          /\ \A d \in Commands \ {c} : v3'[d] = v3[d]
        BY <2>1, SignalFacts
    <2> QED BY <2>1, <2>2, <2>3, <2>4, <2>5, JobsKept DEF T!JobsInv
<1>3. CASE T!Escalate(c)
    <2>1. /\ UNCHANGED <<v1, v2, v4, v5, v7, v8, v9>> /\ v3' = T!Signalled(c, TRUE)
          /\ v6' = [v6 EXCEPT ![c] = -1]
        BY <1>3 DEF T!Escalate, T!Set, T!Off
    <2>2. /\ v3' \in [Commands -> {"none", "alive", "exited", "closed"}]
          /\ v3[c] # "alive" => v3'[c] = v3[c]
          /\ v3'[c] # "alive"
          /\ \A d \in Commands \ {c} : v3'[d] = v3[d]
        BY <2>1, SignalFacts
    <2>3. \A d \in Commands : d # c => v5'[d] = v5[d] /\ v6'[d] = v6[d]
        BY <2>1 DEF T!JobsInv
    <2>4. v5' \in [Commands -> Int] /\ v6' \in [Commands -> Int]
        BY <2>1 DEF T!JobsInv
    <2> QED BY <2>1, <2>2, <2>3, <2>4, JobsKept DEF T!JobsInv
<1> QED BY <1>2, <1>3

LEMMA JobsChildren ==
    ASSUME T!JobsInv, NEW c \in Commands, T!Exit(c) \/ T!HeirEnds(c) \/ T!Close(c)
    PROVE  T!JobsInv'
<1>1. CASE T!Exit(c)
    <2>1. /\ UNCHANGED <<v1, v2, v4, v5, v6, v7, v8, v9>> /\ v3[c] = "alive"
          /\ v3' = [v3 EXCEPT ![c] = "exited"]
        BY <1>1 DEF T!Exit, T!Set, T!timers
    <2> QED BY <2>1, JobsKept DEF T!JobsInv
<1>2. CASE T!HeirEnds(c)
    <2>1. /\ UNCHANGED <<v1, v2, v3, v5, v6, v7, v8, v9>>
          /\ v4' = [v4 EXCEPT ![c].heir = FALSE]
        BY <1>2 DEF T!HeirEnds, T!timers
    <2>2. v4' \in [Commands -> [stubborn : BOOLEAN, heir : BOOLEAN]]
        BY <2>1 DEF T!JobsInv
    <2> QED BY <2>1, <2>2, JobsKept DEF T!JobsInv
<1>3. CASE T!Close(c)
    <2>1. /\ UNCHANGED <<v1, v4, v6, v8, v9>> /\ v3[c] = "exited"
          /\ v3' = [v3 EXCEPT ![c] = "closed"] /\ v5' = [v5 EXCEPT ![c] = -1]
          /\ v2' = v2 \/ v2' = [v2 EXCEPT ![c] = "done"]
          /\ v7' = v7 \/ v7' = [v7 EXCEPT ![c].ended = TRUE]
        BY <1>3 DEF T!Close, T!Set, T!Off
    <2>2. /\ v7' \in [Commands -> [listed : BOOLEAN, ended : BOOLEAN, out : Nat,
                                   truncated : BOOLEAN]]
          /\ \A d \in Commands \ {c} : v7'[d] = v7[d]
        <3>1. PICK j : j = [v7[c] EXCEPT !.ended = TRUE]
            OBVIOUS
        <3>2. v7[c] \in [listed : BOOLEAN, ended : BOOLEAN, out : Nat, truncated : BOOLEAN]
            BY DEF T!JobsInv
        <3>3. j \in [listed : BOOLEAN, ended : BOOLEAN, out : Nat, truncated : BOOLEAN]
            BY ONLY <3>1, <3>2
        <3>4. v7' = v7 \/ v7' = [v7 EXCEPT ![c] = j]
            BY <2>1, <3>1
        <3> QED BY <3>3, <3>4 DEF T!JobsInv
    <2>3. /\ v2' \in [Commands -> {"idle", "waiting", "started", "done", "failed", "aborted"}]
          /\ \A d \in Commands \ {c} : v2'[d] = v2[d]
          /\ v2'[c] = "failed" => v2[c] = "failed"
        BY <2>1 DEF T!JobsInv
    <2>4. v5' \in [Commands -> Int] /\ \A d \in Commands \ {c} : v5'[d] = v5[d]
        BY <2>1 DEF T!JobsInv
    <2>5. /\ v3' \in [Commands -> {"none", "alive", "exited", "closed"}] /\ v3'[c] = "closed"
          /\ \A d \in Commands \ {c} : v3'[d] = v3[d]
        BY <2>1 DEF T!JobsInv
    <2>6. /\ v1' \in [Commands -> {"none", "run", "start"}] /\ v6' \in [Commands -> Int]
          /\ v4' \in [Commands -> [stubborn : BOOLEAN, heir : BOOLEAN]]
          /\ v8' \in BOOLEAN /\ v9' \in Nat
        BY <2>1 DEF T!JobsInv
    <2>7. /\ v2[c] = "failed" => v3[c] = "none"
          /\ v3[c] = "exited"
        BY <2>1 DEF T!JobsInv, T!ClosedWhenTold
    <2> QED BY <2>1, <2>2, <2>3, <2>4, <2>5, <2>6, <2>7, JobsKept
<1> QED BY <1>1, <1>2, <1>3

LEMMA JobsOutput ==
    ASSUME T!JobsInv, NEW c \in Commands, NEW n \in 1..(MaxOutput + 1), T!Output(c, n)
    PROVE  T!JobsInv'
<1>1. PICK out, truncated : v7' = [v7 EXCEPT ![c].out = out, ![c].truncated = truncated]
                            /\ out = (IF v7[c].out + n > MaxOutput THEN MaxOutput
                                      ELSE v7[c].out + n)
                            /\ truncated = (v7[c].truncated \/ v7[c].out + n > MaxOutput)
    BY DEF T!Output
<1>2. v7[c] \in [listed : BOOLEAN, ended : BOOLEAN, out : Nat, truncated : BOOLEAN]
      /\ MaxOutput \in Nat
    BY ServicesAssumption DEF T!JobsInv, ServicesAssumption
<1>3. out \in Nat /\ truncated \in BOOLEAN
    BY <1>1, <1>2
<1>4. /\ v7' \in [Commands -> [listed : BOOLEAN, ended : BOOLEAN, out : Nat,
                               truncated : BOOLEAN]]
      /\ \A d \in Commands : v7'[d].ended = v7[d].ended
    <2>1. PICK j : j = [v7[c] EXCEPT !.out = out, !.truncated = truncated]
        OBVIOUS
    <2>2. /\ j \in [listed : BOOLEAN, ended : BOOLEAN, out : Nat, truncated : BOOLEAN]
          /\ j.ended = v7[c].ended
        BY ONLY <1>2, <1>3, <2>1
    <2>3. v7' = [v7 EXCEPT ![c] = j]
        BY <1>1, <2>1
    <2> QED BY <2>2, <2>3 DEF T!JobsInv
<1>5. UNCHANGED <<v1, v2, v3, v4, v5, v6, v8, v9>>
    BY DEF T!Output, T!timers
<1> QED BY <1>4, <1>5, JobsKept DEF T!JobsInv

LEMMA JobsAsked ==
    ASSUME T!JobsInv, NEW c \in Commands, (\E k \in {"run", "start"} : T!Ask(c, k)) \/ T!Fail(c)
    PROVE  T!JobsInv'
<1>1. ASSUME NEW k \in {"run", "start"}, T!Ask(c, k) PROVE T!JobsInv'
    <2>1. /\ UNCHANGED <<v3, v4, v5, v6, v7, v8, v9>> /\ v2[c] = "idle"
          /\ v1' = [v1 EXCEPT ![c] = k] /\ v2' = [v2 EXCEPT ![c] = "waiting"]
        BY <1>1 DEF T!Ask, T!Set, T!timers
    <2> QED BY <2>1, JobsKept DEF T!JobsInv
<1>2. CASE T!Fail(c)
    <2>1. /\ UNCHANGED <<v1, v3, v4, v5, v6, v7, v8, v9>> /\ v2[c] = "waiting"
          /\ v3[c] = "none" /\ v2' = [v2 EXCEPT ![c] = "failed"]
        BY <1>2 DEF T!Fail, T!Set, T!timers
    <2> QED BY <2>1, JobsKept DEF T!JobsInv
<1> QED BY <1>1, <1>2

LEMMA JobsSpawn ==
    ASSUME T!JobsInv, NEW c \in Commands, NEW n \in [stubborn : BOOLEAN, heir : BOOLEAN],
           T!Spawn(c, n)
    PROVE  T!JobsInv'
<1>1. Timeout \in Nat
    BY ServicesAssumption DEF ServicesAssumption
<1>2. /\ UNCHANGED <<v1, v6, v8, v9>> /\ v2[c] = "waiting" /\ v3[c] = "none"
      /\ v3' = [v3 EXCEPT ![c] = "alive"] /\ v4' = [v4 EXCEPT ![c] = n]
      /\ v5' = [v5 EXCEPT ![c] = v9 + Timeout]
      /\ v2' = v2 \/ v2' = [v2 EXCEPT ![c] = "started"]
      /\ v7' = v7 \/ v7' = [v7 EXCEPT ![c].listed = TRUE]
    BY DEF T!Spawn, T!Set
<1>3. /\ v7' \in [Commands -> [listed : BOOLEAN, ended : BOOLEAN, out : Nat,
                               truncated : BOOLEAN]]
      /\ \A d \in Commands : v7'[d].ended = v7[d].ended
    <2>1. PICK j : j = [v7[c] EXCEPT !.listed = TRUE]
        OBVIOUS
    <2>2. v7[c] \in [listed : BOOLEAN, ended : BOOLEAN, out : Nat, truncated : BOOLEAN]
        BY DEF T!JobsInv
    <2>3. /\ j \in [listed : BOOLEAN, ended : BOOLEAN, out : Nat, truncated : BOOLEAN]
          /\ j.ended = v7[c].ended
        BY ONLY <2>1, <2>2
    <2>4. v7' = v7 \/ v7' = [v7 EXCEPT ![c].listed = TRUE]
        BY <1>2
    <2>5. v7' = v7 \/ v7' = [v7 EXCEPT ![c] = j]
        BY <2>1, <2>4
    <2>6. v7 \in [Commands -> [listed : BOOLEAN, ended : BOOLEAN, out : Nat,
                               truncated : BOOLEAN]]
        BY DEF T!JobsInv
    <2> QED BY ONLY <2>3, <2>5, <2>6
<1>4. /\ v2' \in [Commands -> {"idle", "waiting", "started", "done", "failed", "aborted"}]
      /\ v2'[c] \in {"waiting", "started"} /\ \A d \in Commands \ {c} : v2'[d] = v2[d]
    BY <1>2 DEF T!JobsInv
<1>5. /\ v5' \in [Commands -> Int] /\ v5'[c] \in v9'..(v9' + Timeout)
      /\ \A d \in Commands \ {c} : v5'[d] = v5[d] /\ v6'[d] = v6[d]
    BY <1>1, <1>2 DEF T!JobsInv
<1>6. /\ v3' \in [Commands -> {"none", "alive", "exited", "closed"}] /\ v3'[c] = "alive"
      /\ \A d \in Commands \ {c} : v3'[d] = v3[d]
    BY <1>2 DEF T!JobsInv
<1>7. /\ v1' \in [Commands -> {"none", "run", "start"}] /\ v6' \in [Commands -> Int]
      /\ v4' \in [Commands -> [stubborn : BOOLEAN, heir : BOOLEAN]]
      /\ v8' \in BOOLEAN /\ v9' \in Nat
    BY <1>2 DEF T!JobsInv
<1>8. ~v7[c].ended /\ UNCHANGED <<v8, v9>>
    BY <1>2 DEF T!JobsInv, T!ClosedWhenTold
<1> QED BY <1>2, <1>3, <1>4, <1>5, <1>6, <1>7, <1>8, JobsKept

LEMMA JobsAbort ==
    ASSUME T!JobsInv, NEW c \in Commands, T!Abort(c) PROVE T!JobsInv'
<1>1. /\ UNCHANGED <<v1, v4, v6, v7, v8, v9>> /\ v2[c] = "waiting" /\ v3[c] = "alive"
      /\ v2' = [v2 EXCEPT ![c] = "aborted"] /\ v5' = [v5 EXCEPT ![c] = -1]
      /\ v3' = T!Signalled(c, FALSE)
    BY DEF T!Abort, T!Set, T!Off
<1>2. /\ v3' \in [Commands -> {"none", "alive", "exited", "closed"}]
      /\ v3'[c] \in {"alive", "exited"}
      /\ \A d \in Commands \ {c} : v3'[d] = v3[d]
    BY <1>1, SignalFacts
<1>3. /\ v2' \in [Commands -> {"idle", "waiting", "started", "done", "failed", "aborted"}]
      /\ v2'[c] = "aborted" /\ \A d \in Commands \ {c} : v2'[d] = v2[d]
    BY <1>1 DEF T!JobsInv
<1>4. v5' \in [Commands -> Int] /\ \A d \in Commands \ {c} : v5'[d] = v5[d] /\ v6'[d] = v6[d]
    BY <1>1 DEF T!JobsInv
<1> QED BY <1>1, <1>2, <1>3, <1>4, JobsKept DEF T!JobsInv

LEMMA JobsStop ==
    ASSUME T!JobsInv, NEW c \in Commands, T!Stop(c) \/ T!Send(c) PROVE T!JobsInv'
<1>1. CASE T!Stop(c)
    <2>1. UNCHANGED <<v1, v2, v4, v5, v6, v7, v8, v9>> /\ v3' = T!Signalled(c, FALSE)
        BY <1>1 DEF T!Stop, T!timers
    <2>2. /\ v3' \in [Commands -> {"none", "alive", "exited", "closed"}]
          /\ v3[c] # "alive" => v3'[c] = v3[c]
          /\ v3[c] = "alive" => v3'[c] \in {"alive", "exited"}
          /\ \A d \in Commands \ {c} : v3'[d] = v3[d]
        BY <2>1, SignalFacts
    <2> QED BY <2>1, <2>2, JobsKept DEF T!JobsInv
<1>2. CASE T!Send(c)
    <2>1. /\ UNCHANGED <<v1, v2, v3, v5, v6, v7, v8, v9>>
          /\ v4' = [v4 EXCEPT ![c].stubborn = FALSE]
        BY <1>2 DEF T!Send, T!timers
    <2>2. v4' \in [Commands -> [stubborn : BOOLEAN, heir : BOOLEAN]]
        BY <2>1 DEF T!JobsInv
    <2> QED BY <2>1, <2>2, JobsKept DEF T!JobsInv
<1> QED BY <1>1, <1>2

LEMMA JobsEnd == ASSUME T!JobsInv, T!CloseRuntime PROVE T!JobsInv'
<1>1. /\ UNCHANGED <<v1, v2, v4, v6, v9>> /\ v8' = FALSE
      /\ v5' = [c \in Commands |-> IF v7[c].listed THEN -1 ELSE v5[c]]
      /\ v3' = [c \in Commands |-> IF v7[c].listed /\ ~v7[c].ended
                                   THEN T!Signalled(c, FALSE)[c] ELSE v3[c]]
      /\ v7' = [c \in Commands |-> [v7[c] EXCEPT !.listed = FALSE]]
    BY DEF T!CloseRuntime, T!Off
<1>2. ASSUME NEW c \in Commands
      PROVE  /\ v3'[c] \in {"none", "alive", "exited", "closed"}
             /\ v3[c] # "alive" => v3'[c] = v3[c]
    <2>1. /\ T!Signalled(c, FALSE)[c] \in {"none", "alive", "exited", "closed"}
          /\ v3[c] # "alive" => T!Signalled(c, FALSE)[c] = v3[c]
        BY SignalFacts
    <2> QED BY <1>1, <2>1 DEF T!JobsInv
<1>3. v3' \in [Commands -> {"none", "alive", "exited", "closed"}]
    BY <1>1, <1>2
<1>4. v5' \in [Commands -> Int]
    BY <1>1 DEF T!JobsInv
<1>5. ASSUME NEW c \in Commands
      PROVE  /\ v7'[c] \in [listed : BOOLEAN, ended : BOOLEAN, out : Nat, truncated : BOOLEAN]
             /\ v7'[c].ended = v7[c].ended
    <2>1. PICK j : j = v7[c]
        OBVIOUS
    <2>2. j \in [listed : BOOLEAN, ended : BOOLEAN, out : Nat, truncated : BOOLEAN]
        BY <2>1 DEF T!JobsInv
    <2>3. v7'[c] = [j EXCEPT !.listed = FALSE]
        BY <1>1, <2>1
    <2> QED BY ONLY <2>1, <2>2, <2>3
<1>6. v7' \in [Commands -> [listed : BOOLEAN, ended : BOOLEAN, out : Nat, truncated : BOOLEAN]]
    BY <1>1, <1>5
<1> QED BY <1>1, <1>2, <1>3, <1>4, <1>5, <1>6, JobsKept DEF T!JobsInv

LEMMA JobsTick == ASSUME T!JobsInv, T!Tick PROVE T!JobsInv'
<1>1. /\ UNCHANGED <<v1, v2, v3, v4, v5, v6, v7, v8>> /\ v9' = v9 + 1 /\ v9 \in Nat
      /\ v8 => \A c \in Commands : ~(v5[c] \in 0..v9) /\ ~(v6[c] \in 0..v9)
    BY DEF T!Tick, T!timers, T!JobsInv
<1>2. Timeout \in Nat /\ Grace \in Nat
    BY ServicesAssumption DEF ServicesAssumption
<1>3. ASSUME NEW c \in Commands, v3'[c] = "alive", v8', v2'[c] # "aborted"
      PROVE  v5'[c] \in v9'..(v9' + Timeout) \/ v6'[c] \in v9'..(v9' + Grace)
    <2>1. v5[c] \in v9..(v9 + Timeout) \/ v6[c] \in v9..(v9 + Grace)
        BY <1>1, <1>3 DEF T!JobsInv, T!TimeoutEndsIt
    <2>2. ~(v5[c] \in 0..v9) /\ ~(v6[c] \in 0..v9) /\ v5[c] \in Int /\ v6[c] \in Int
        BY <1>1, <1>3 DEF T!JobsInv
    <2>3. v5[c] \in (v9 + 1)..(v9 + 1 + Timeout) \/ v6[c] \in (v9 + 1)..(v9 + 1 + Grace)
        BY ONLY <1>1, <1>2, <2>1, <2>2
    <2> QED BY <1>1, <2>3
<1> QED BY <1>1, <1>3, JobsKept DEF T!JobsInv

LEMMA JobsStep == ASSUME T!JobsInv, T!Next PROVE T!JobsInv'
<1>1. ASSUME NEW c \in Commands,
             \/ T!Overrun(c) \/ T!Escalate(c) \/ T!Exit(c) \/ T!HeirEnds(c) \/ T!Close(c)
             \/ \E n \in 1..(MaxOutput + 1) : T!Output(c, n)
             \/ \E k \in {"run", "start"} : T!Ask(c, k)
             \/ T!Fail(c)
             \/ \E n \in [stubborn : BOOLEAN, heir : BOOLEAN] : T!Spawn(c, n)
             \/ T!Abort(c) \/ T!Stop(c) \/ T!Send(c)
      PROVE  T!JobsInv'
    BY <1>1, JobsTimers, JobsChildren, JobsOutput, JobsAsked, JobsSpawn, JobsAbort, JobsStop
<1> QED BY <1>1, JobsEnd, JobsTick DEF T!Next

\* A job that is reported as ended and a command as done have a child that has closed, and no
\* child, not one that ignores SIGTERM, outlives its timeout and the grace after it, whatever
\* the number of commands (packages/terminal-runtime/src/index.ts).
THEOREM JobsEndAsTold == Spec => []EndsAsTold
<1> DEFINE Inv == part = "terminal" => T!JobsInv
<1>1. Init => Inv
    BY JobsInit DEF Init
<1>2. Inv /\ [Next]_vars => Inv'
    <2> SUFFICES ASSUME T!JobsInv, part = "terminal", [Next]_vars PROVE T!JobsInv'
        BY PartStays
    <2>1. CASE UNCHANGED <<v1, v2, v3, v4, v5, v6, v7, v8, v9>>
        BY <2>1 DEF T!JobsInv, T!ClosedWhenTold, T!TimeoutEndsIt
    <2>2. CASE T!Next
        BY <2>2, JobsStep
    <2> QED BY <2>1, <2>2, JobsSteps
<1>3. Inv => EndsAsTold
    BY DEF EndsAsTold, T!EndsAsTold, T!EndIsReal, T!JobsInv, T!ClosedWhenTold
<1> QED BY <1>1, <1>2, <1>3, PTL DEF Spec
-----------------------------------------------------------------------------
(* Memories                                                                    *)

LEMMA MemoriesSteps ==
    ASSUME part = "memories", [Next]_vars
    PROVE  M!Next \/ UNCHANGED <<v1, v2, v3, v4, v5>>
BY DEF Next, vars, after3, after4

LEMMA IdNumbers == Ids \subseteq Nat \ {0} /\ "none" \notin Scopes
BY ServicesAssumption

LEMMA MemoriesInit == ASSUME M!Init PROVE M!MemoriesInv
<1>1. /\ \A i \in Ids : v1[i] = M!Absent
      /\ v1 \in [Ids -> M!Row \cup {M!Absent}]
    BY DEF M!Init
<1>2. /\ \A p \in Processes : v2[p] = M!Idle
      /\ v2 \in [Processes -> M!Put \cup {M!Idle}]
    BY DEF M!Init
<1>3. \A p \in Processes : v2[p].at = "idle"
    BY <1>2 DEF M!Idle
<1>4. M!Superseding
    BY <1>1 DEF M!Superseding, M!Stored
<1> QED BY <1>1, <1>2, <1>3, <1>4 DEF M!MemoriesInv, M!Init

\* What the invariant says of one row and of one put.
LEMMA RowOf ==
    ASSUME M!MemoriesInv, NEW i \in Ids
    PROVE  /\ v1[i] = M!Absent \/ v1[i] \in M!Row
           /\ v1[i] = M!Absent <=> v1[i].scope = "none"
           /\ v1[i] # M!Absent => /\ v1[i].scope \in Scopes
                                  /\ v1[i].expires \in Nat /\ v1[i].updated \in Nat
                                  /\ v1[i].supersedes \in Ids \cup {0}
                                  /\ v1[i].supersededBy \in Ids \cup {0}
<1>1. v1[i] = M!Absent \/ v1[i] \in M!Row
    BY DEF M!MemoriesInv
<1>2. v1[i] = M!Absent => v1[i].scope = "none"
    BY DEF M!Absent
<1>3. ASSUME v1[i] \in M!Row
      PROVE  /\ v1[i].scope \in Scopes
             /\ v1[i].expires \in Nat /\ v1[i].updated \in Nat
             /\ v1[i].supersedes \in Ids \cup {0}
             /\ v1[i].supersededBy \in Ids \cup {0}
    BY <1>3 DEF M!Row, M!None
<1> QED BY <1>1, <1>2, <1>3, IdNumbers

LEMMA PutOf ==
    ASSUME M!MemoriesInv, NEW p \in Processes
    PROVE  /\ v2[p] = M!Idle \/ v2[p] \in M!Put
           /\ v2[p] = M!Idle <=> v2[p].at = "idle"
           /\ v2[p] # M!Idle => /\ v2[p].at \in {"write", "supersede", "undo", "compact"}
                                /\ v2[p].id \in Ids /\ v2[p].scope \in Scopes
                                /\ v2[p].target \in Ids \cup {0} /\ v2[p].expires \in Nat
                                /\ v2[p].seen \in M!Row \cup {M!Absent}
           /\ v2[p].at = "supersede" => v2[p].target # 0
           /\ v2[p].at = "write" /\ v2[p].seen # M!Absent => v2[p].seen.scope = v2[p].scope
<1>1. v2[p] = M!Idle \/ v2[p] \in M!Put
    BY DEF M!MemoriesInv
<1>2. v2[p] = M!Idle => v2[p].at = "idle"
    BY DEF M!Idle
<1>3. ASSUME v2[p] \in M!Put
      PROVE  /\ v2[p].at \in {"write", "supersede", "undo", "compact"}
             /\ v2[p].id \in Ids /\ v2[p].scope \in Scopes
             /\ v2[p].target \in Ids \cup {0} /\ v2[p].expires \in Nat
             /\ v2[p].seen \in M!Row \cup {M!Absent}
    BY <1>3 DEF M!Put, M!None
<1>4. /\ v2[p].at = "supersede" => v2[p].target # 0
      /\ v2[p].at = "write" /\ v2[p].seen # M!Absent => v2[p].seen.scope = v2[p].scope
    BY DEF M!MemoriesInv, M!None
<1> QED BY <1>1, <1>2, <1>3, <1>4

LEMMA MemoriesBegin ==
    ASSUME M!MemoriesInv, NEW p \in Processes, NEW id \in Ids, NEW scope \in Scopes,
           NEW target \in Ids \cup {0}, NEW expires \in {v3 + 1, 99},
           M!Begin(p, id, scope, target, expires)
    PROVE  M!MemoriesInv'
<1>1. PICK put : /\ put = [at |-> "write", id |-> id, scope |-> scope, target |-> target,
                           expires |-> expires, seen |-> v1[id]]
                 /\ v2' = [v2 EXCEPT ![p] = put]
    BY DEF M!Begin
<1>2. /\ UNCHANGED <<v1, v3, v5>> /\ v2[p] = M!Idle
      /\ id \in M!Stored => v1[id].scope = scope
    BY DEF M!Begin
<1>3. v1[id] \in M!Row \cup {M!Absent} /\ expires \in Nat
    BY DEF M!MemoriesInv
<1>4. put \in M!Put /\ put.at = "write" /\ put.seen = v1[id] /\ put.scope = scope
    BY <1>1, <1>3 DEF M!Put, M!None
<1>5. /\ v2' \in [Processes -> M!Put \cup {M!Idle}] /\ v2'[p] = put
      /\ \A q \in Processes \ {p} : v2'[q] = v2[q]
    BY <1>1, <1>4 DEF M!MemoriesInv
<1>6. put.seen # M!Absent => put.seen.scope = put.scope
    BY <1>2, <1>4 DEF M!Stored
<1>7. ASSUME NEW q \in Processes
      PROVE  /\ v2'[q].at = "supersede" => v2'[q].target # 0
             /\ v2'[q].at = "write" /\ v2'[q].seen # M!Absent => v2'[q].seen.scope = v2'[q].scope
    BY <1>4, <1>5, <1>6, PutOf
<1>8. v2[p].at \notin {"supersede", "undo"}
    BY <1>2, PutOf
<1>9. M!Superseding => M!Superseding'
    BY <1>2, <1>5, <1>8 DEF M!Superseding, M!Stored
<1> QED BY <1>2, <1>5, <1>7, <1>9 DEF M!MemoriesInv, M!None

\* The puts after one of them has moved to its next place.
LEMMA Moved ==
    ASSUME M!MemoriesInv, NEW p \in Processes, v2[p] # M!Idle,
           NEW at \in {"supersede", "undo", "compact"}, at = "supersede" => v2[p].target # 0,
           v2' = [v2 EXCEPT ![p].at = at]
    PROVE  /\ v2' \in [Processes -> M!Put \cup {M!Idle}]
           /\ \A q \in Processes \ {p} : v2'[q] = v2[q]
           /\ v2'[p].at = at /\ v2'[p].id = v2[p].id /\ v2'[p].scope = v2[p].scope
           /\ v2'[p].target = v2[p].target
           /\ \A q \in Processes :
                /\ v2'[q].at = "supersede" => v2'[q].target # 0
                /\ v2'[q].at = "write" /\ v2'[q].seen # M!Absent =>
                      v2'[q].seen.scope = v2'[q].scope
<1>1. PICK put : put = [v2[p] EXCEPT !.at = at]
    OBVIOUS
<1>2. v2[p] \in M!Put
    BY PutOf
<1>3. /\ put \in M!Put /\ put.at = at /\ put.id = v2[p].id /\ put.scope = v2[p].scope
      /\ put.target = v2[p].target
    BY ONLY <1>1, <1>2 DEF M!Put
<1>4. /\ v2' \in [Processes -> M!Put \cup {M!Idle}] /\ v2'[p] = put
      /\ \A q \in Processes \ {p} : v2'[q] = v2[q]
    BY <1>1, <1>3 DEF M!MemoriesInv
<1> QED BY <1>3, <1>4, PutOf

\* The puts after one of them has ended.
LEMMA Ended ==
    ASSUME M!MemoriesInv, NEW p \in Processes, v2' = [v2 EXCEPT ![p] = M!Idle]
    PROVE  /\ v2' \in [Processes -> M!Put \cup {M!Idle}] /\ v2'[p].at = "idle"
           /\ \A q \in Processes \ {p} : v2'[q] = v2[q]
           /\ \A q \in Processes :
                /\ v2'[q].at = "supersede" => v2'[q].target # 0
                /\ v2'[q].at = "write" /\ v2'[q].seen # M!Absent =>
                      v2'[q].seen.scope = v2'[q].scope
<1>1. /\ v2' \in [Processes -> M!Put \cup {M!Idle}] /\ v2'[p] = M!Idle
      /\ \A q \in Processes \ {p} : v2'[q] = v2[q]
    BY DEF M!MemoriesInv
<1>2. v2'[p].at = "idle"
    BY <1>1 DEF M!Idle
<1> QED BY <1>1, <1>2, PutOf

LEMMA MemoriesWrite ==
    ASSUME M!MemoriesInv, NEW p \in Processes, M!Write(p) PROVE M!MemoriesInv'
<1>1. PICK row, at :
         /\ row = [scope |-> v2[p].scope, expires |-> v2[p].expires, updated |-> v3,
                   supersedes |-> v2[p].target, supersededBy |-> 0]
         /\ at = (IF v2[p].target = 0 THEN "compact" ELSE "supersede")
         /\ v1' = [v1 EXCEPT ![v2[p].id] = row] /\ v2' = [v2 EXCEPT ![p].at = at]
    BY DEF M!Write, M!None
<1>2. /\ v2[p].at = "write" /\ UNCHANGED v3
      /\ v5' = \/ v5 \/ v2[p].seen # v1[v2[p].id]
               \/ \E i \in M!Stored : v1[i].supersedes = v2[p].id
    BY DEF M!Write
<1>3. /\ v2[p] # M!Idle /\ v2[p].id \in Ids /\ v2[p].scope \in Scopes /\ v3 \in Nat
      /\ v2[p].target \in Ids \cup {0} /\ v2[p].expires \in Nat
    BY <1>2, PutOf DEF M!MemoriesInv
<1>4. row \in M!Row /\ row.supersedes = v2[p].target /\ row.scope = v2[p].scope
    BY <1>1, <1>3 DEF M!Row, M!None
<1>5. /\ v1' \in [Ids -> M!Row \cup {M!Absent}] /\ v1'[v2[p].id] = row
      /\ \A i \in Ids : i # v2[p].id => v1'[i] = v1[i]
    BY <1>1, <1>3, <1>4 DEF M!MemoriesInv
<1>6. /\ v2' \in [Processes -> M!Put \cup {M!Idle}]
      /\ \A q \in Processes \ {p} : v2'[q] = v2[q]
      /\ v2'[p].at = at /\ v2'[p].id = v2[p].id /\ v2'[p].scope = v2[p].scope
      /\ v2'[p].target = v2[p].target
      /\ \A q \in Processes :
           /\ v2'[q].at = "supersede" => v2'[q].target # 0
           /\ v2'[q].at = "write" /\ v2'[q].seen # M!Absent => v2'[q].seen.scope = v2'[q].scope
    BY <1>1, <1>3, Moved
<1>7. ASSUME ~v5', NEW i \in M!Stored', v1'[i].supersedes \in M!Stored'
      PROVE  \/ v1'[v1'[i].supersedes].supersededBy = i
             \/ \E q \in Processes :
                   /\ v2'[q].at \in {"supersede", "undo"} /\ v2'[q].id = i
                   /\ v2'[q].target = v1'[i].supersedes /\ v2'[q].scope = v1'[i].scope
    <2>1. i \in Ids /\ v1'[i].supersedes \in Ids
        BY <1>7 DEF M!Stored
    <2>2. CASE i = v2[p].id
        <3>1. v1'[i].supersedes = v2[p].target /\ v2[p].target # 0
            BY <1>4, <1>5, <2>1, <2>2, IdNumbers
        <3>2. v2'[p].at = "supersede"
            BY <1>1, <1>6, <3>1
        <3> QED BY <1>4, <1>5, <1>6, <2>2, <3>1, <3>2
    <2>3. CASE i # v2[p].id
        <3>1. v1'[i] = v1[i] /\ i \in M!Stored
            BY <1>5, <1>7, <2>1, <2>3 DEF M!Stored
        <3>2. v1[i].supersedes # v2[p].id
            BY <1>2, <1>7, <3>1
        <3>3. v1'[v1[i].supersedes] = v1[v1[i].supersedes] /\ v1[i].supersedes \in M!Stored
            BY <1>5, <1>7, <2>1, <3>1, <3>2 DEF M!Stored
        <3>4. \/ v1[v1[i].supersedes].supersededBy = i
              \/ \E q \in Processes :
                   /\ v2[q].at \in {"supersede", "undo"} /\ v2[q].id = i
                   /\ v2[q].target = v1[i].supersedes /\ v2[q].scope = v1[i].scope
            BY <1>2, <1>7, <3>1, <3>3 DEF M!MemoriesInv, M!Superseding
        <3> QED BY <1>2, <1>6, <3>1, <3>3, <3>4
    <2> QED BY <2>2, <2>3
<1>8. ~v5' => M!Superseding'
    BY <1>7 DEF M!Superseding
<1>9. v3' \in Nat /\ v5' \in BOOLEAN
    BY <1>2 DEF M!MemoriesInv
<1> QED BY <1>5, <1>6, <1>8, <1>9 DEF M!MemoriesInv, M!None

LEMMA MemoriesSupersede ==
    ASSUME M!MemoriesInv, NEW p \in Processes, M!Supersede(p) PROVE M!MemoriesInv'
<1>1. v2[p].at = "supersede" /\ UNCHANGED <<v3, v5>>
    BY DEF M!Supersede
<1>2. /\ v2[p] # M!Idle /\ v2[p].id \in Ids /\ v2[p].scope \in Scopes /\ v3 \in Nat
      /\ v2[p].target \in Ids
    BY <1>1, PutOf DEF M!MemoriesInv
<1>3. CASE M!CanSupersede(v2[p].target, v2[p].scope)
    <2>1. PICK row :
             /\ row = [v1[v2[p].target] EXCEPT !.supersededBy = v2[p].id, !.updated = v3]
             /\ v1' = [v1 EXCEPT ![v2[p].target] = row]
             /\ v2' = [v2 EXCEPT ![p].at = "compact"]
        BY <1>3 DEF M!Supersede
    <2>2. v1[v2[p].target] \in M!Row /\ v1[v2[p].target].supersededBy = 0
        BY <1>2, <1>3, RowOf, IdNumbers DEF M!CanSupersede, M!Hidden, M!None
    <2>3. /\ row \in M!Row /\ row.supersededBy = v2[p].id
          /\ row.supersedes = v1[v2[p].target].supersedes
          /\ row.scope = v1[v2[p].target].scope
        BY ONLY <1>2, <2>1, <2>2 DEF M!Row
    <2>4. /\ v1' \in [Ids -> M!Row \cup {M!Absent}] /\ v1'[v2[p].target] = row
          /\ \A i \in Ids : i # v2[p].target => v1'[i] = v1[i]
        BY <1>2, <2>1, <2>3 DEF M!MemoriesInv
    <2>5. /\ v2' \in [Processes -> M!Put \cup {M!Idle}]
          /\ \A q \in Processes \ {p} : v2'[q] = v2[q]
          /\ v2'[p].at = "compact"
          /\ \A q \in Processes :
               /\ v2'[q].at = "supersede" => v2'[q].target # 0
               /\ v2'[q].at = "write" /\ v2'[q].seen # M!Absent =>
                     v2'[q].seen.scope = v2'[q].scope
        BY <1>2, <2>1, Moved
    <2>9. ASSUME NEW j \in Ids
          PROVE  /\ v1'[j] # M!Absent <=> v1[j] # M!Absent
                 /\ v1'[j].supersedes = v1[j].supersedes /\ v1'[j].scope = v1[j].scope
        <3>1. v1[v2[p].target] # M!Absent /\ row # M!Absent
            BY <2>2, <2>3, IdNumbers DEF M!Row, M!Absent
        <3> QED BY <2>3, <2>4, <3>1
    <2>6. ASSUME ~v5', NEW i \in M!Stored', v1'[i].supersedes \in M!Stored'
          PROVE  \/ v1'[v1'[i].supersedes].supersededBy = i
                 \/ \E q \in Processes :
                       /\ v2'[q].at \in {"supersede", "undo"} /\ v2'[q].id = i
                       /\ v2'[q].target = v1'[i].supersedes /\ v2'[q].scope = v1'[i].scope
        <3>1. /\ i \in M!Stored /\ v1'[i].supersedes = v1[i].supersedes
              /\ v1'[i].scope = v1[i].scope
            BY <2>6, <2>9 DEF M!Stored
        <3>2. v1[i].supersedes \in M!Stored
            BY <2>6, <2>9, <3>1 DEF M!Stored
        <3>3. \/ v1[v1[i].supersedes].supersededBy = i
              \/ \E q \in Processes :
                   /\ v2[q].at \in {"supersede", "undo"} /\ v2[q].id = i
                   /\ v2[q].target = v1[i].supersedes /\ v2[q].scope = v1[i].scope
            BY <1>1, <2>6, <3>1, <3>2 DEF M!MemoriesInv, M!Superseding
        <3>4. CASE i = v2[p].id /\ v1[i].supersedes = v2[p].target
            BY <2>3, <2>4, <3>1, <3>4
        <3>5. CASE ~(i = v2[p].id /\ v1[i].supersedes = v2[p].target)
            <4>1. CASE v1[v1[i].supersedes].supersededBy = i
                <5>1. v1[i].supersedes # v2[p].target
                    BY <2>2, <3>1, <4>1, IdNumbers DEF M!Stored
                <5> QED BY <2>4, <3>1, <3>2, <4>1, <5>1 DEF M!Stored
            <4>2. CASE \E q \in Processes :
                   /\ v2[q].at \in {"supersede", "undo"} /\ v2[q].id = i
                   /\ v2[q].target = v1[i].supersedes /\ v2[q].scope = v1[i].scope
                BY <2>5, <3>1, <3>5, <4>2
            <4> QED BY <3>3, <4>1, <4>2
        <3> QED BY <3>4, <3>5
    <2>7. ~v5' => M!Superseding'
        BY <2>6 DEF M!Superseding
    <2>8. v3' \in Nat /\ v5' \in BOOLEAN
        BY <1>1 DEF M!MemoriesInv
    <2> QED BY <2>4, <2>5, <2>7, <2>8 DEF M!MemoriesInv, M!None
<1>4. CASE ~M!CanSupersede(v2[p].target, v2[p].scope)
    <2>1. v2' = [v2 EXCEPT ![p].at = "undo"] /\ v1' = v1
        BY <1>4 DEF M!Supersede
    <2>2. /\ v2' \in [Processes -> M!Put \cup {M!Idle}]
          /\ \A q \in Processes \ {p} : v2'[q] = v2[q]
          /\ v2'[p].at = "undo" /\ v2'[p].id = v2[p].id /\ v2'[p].scope = v2[p].scope
          /\ v2'[p].target = v2[p].target
          /\ \A q \in Processes :
               /\ v2'[q].at = "supersede" => v2'[q].target # 0
               /\ v2'[q].at = "write" /\ v2'[q].seen # M!Absent =>
                     v2'[q].seen.scope = v2'[q].scope
        BY <1>2, <2>1, Moved
    <2>3. ASSUME NEW q \in Processes, v2[q].at \in {"supersede", "undo"}
          PROVE  /\ v2'[q].at \in {"supersede", "undo"} /\ v2'[q].id = v2[q].id
                 /\ v2'[q].target = v2[q].target /\ v2'[q].scope = v2[q].scope
        BY <2>2, <2>3
    <2>4. M!Superseding => M!Superseding'
        BY <2>1, <2>3 DEF M!Superseding, M!Stored
    <2> QED BY <1>1, <2>1, <2>2, <2>4 DEF M!MemoriesInv, M!None
<1> QED BY <1>3, <1>4

LEMMA MemoriesUndo ==
    ASSUME M!MemoriesInv, NEW p \in Processes, M!Undo(p) PROVE M!MemoriesInv'
<1>1. /\ v2[p].at = "undo" /\ UNCHANGED <<v3, v5>> /\ v2' = [v2 EXCEPT ![p] = M!Idle]
      /\ v1' = [v1 EXCEPT ![v2[p].id] =
                  IF v1[v2[p].id].scope = v2[p].scope THEN M!Absent ELSE v1[v2[p].id]]
    BY DEF M!Undo
<1>2. v2[p].id \in Ids
    BY <1>1, PutOf
<1>3. /\ v1' \in [Ids -> M!Row \cup {M!Absent}]
      /\ v1[v2[p].id].scope = v2[p].scope => v1'[v2[p].id] = M!Absent
      /\ \A i \in M!Stored' : v1'[i] = v1[i] /\ i \in M!Stored
    BY <1>1, <1>2 DEF M!MemoriesInv, M!Stored
<1>4. /\ v2' \in [Processes -> M!Put \cup {M!Idle}] /\ v2'[p].at = "idle"
      /\ \A q \in Processes \ {p} : v2'[q] = v2[q]
      /\ \A q \in Processes :
           /\ v2'[q].at = "supersede" => v2'[q].target # 0
           /\ v2'[q].at = "write" /\ v2'[q].seen # M!Absent => v2'[q].seen.scope = v2'[q].scope
    BY <1>1, Ended
<1>5. ASSUME ~v5', NEW i \in M!Stored', v1'[i].supersedes \in M!Stored'
      PROVE  \/ v1'[v1'[i].supersedes].supersededBy = i
             \/ \E q \in Processes :
                   /\ v2'[q].at \in {"supersede", "undo"} /\ v2'[q].id = i
                   /\ v2'[q].target = v1'[i].supersedes /\ v2'[q].scope = v1'[i].scope
    <2>1. \/ v1[v1[i].supersedes].supersededBy = i
          \/ \E q \in Processes :
                /\ v2[q].at \in {"supersede", "undo"} /\ v2[q].id = i
                /\ v2[q].target = v1[i].supersedes /\ v2[q].scope = v1[i].scope
        BY <1>1, <1>3, <1>5 DEF M!MemoriesInv, M!Superseding
    <2>2. ~(v2[p].id = i /\ v2[p].scope = v1[i].scope)
        BY <1>3, <1>5 DEF M!Stored
    <2> QED BY <1>3, <1>4, <1>5, <2>1, <2>2
<1>6. ~v5' => M!Superseding'
    BY <1>5 DEF M!Superseding
<1>7. v3' \in Nat /\ v5' \in BOOLEAN
    BY <1>1 DEF M!MemoriesInv
<1> QED BY <1>3, <1>4, <1>6, <1>7 DEF M!MemoriesInv, M!None

\* Rows that are taken out and a put that ends, which was not about to supersede or undo.
LEMMA MemoriesWithout ==
    ASSUME M!MemoriesInv, NEW gone, v1' = M!Without(gone), UNCHANGED <<v3, v5>>,
           \/ v2' = v2
           \/ \E p \in Processes : /\ v2[p].at \notin {"supersede", "undo"}
                                   /\ v2' = [v2 EXCEPT ![p] = M!Idle]
    PROVE  M!MemoriesInv'
<1>1. /\ v1' \in [Ids -> M!Row \cup {M!Absent}]
      /\ \A i \in M!Stored' : v1'[i] = v1[i] /\ i \in M!Stored
    BY DEF M!MemoriesInv, M!Stored, M!Without
<1>2. /\ v2' \in [Processes -> M!Put \cup {M!Idle}]
      /\ \A q \in Processes : v2[q].at \in {"supersede", "undo"} => v2'[q] = v2[q]
      /\ \A q \in Processes :
           /\ v2'[q].at = "supersede" => v2'[q].target # 0
           /\ v2'[q].at = "write" /\ v2'[q].seen # M!Absent => v2'[q].seen.scope = v2'[q].scope
    <2>1. CASE v2' = v2
        BY <2>1, PutOf DEF M!MemoriesInv
    <2>2. ASSUME NEW p \in Processes, v2[p].at \notin {"supersede", "undo"},
                 v2' = [v2 EXCEPT ![p] = M!Idle]
          PROVE  <1>2
        BY <2>2, Ended
    <2> QED BY <2>1, <2>2
<1>3. ASSUME ~v5', NEW i \in M!Stored', v1'[i].supersedes \in M!Stored'
      PROVE  \/ v1'[v1'[i].supersedes].supersededBy = i
             \/ \E q \in Processes :
                   /\ v2'[q].at \in {"supersede", "undo"} /\ v2'[q].id = i
                   /\ v2'[q].target = v1'[i].supersedes /\ v2'[q].scope = v1'[i].scope
    <2>1. \/ v1[v1[i].supersedes].supersededBy = i
          \/ \E q \in Processes :
                /\ v2[q].at \in {"supersede", "undo"} /\ v2[q].id = i
                /\ v2[q].target = v1[i].supersedes /\ v2[q].scope = v1[i].scope
        BY <1>1, <1>3 DEF M!MemoriesInv, M!Superseding
    <2> QED BY <1>1, <1>2, <1>3, <2>1
<1>4. ~v5' => M!Superseding'
    BY <1>3 DEF M!Superseding
<1>5. v3' \in Nat /\ v5' \in BOOLEAN
    BY DEF M!MemoriesInv
<1> QED BY <1>1, <1>2, <1>4, <1>5 DEF M!MemoriesInv, M!None

LEMMA MemoriesRest ==
    ASSUME M!MemoriesInv,
           M!Tick \/ (\E p \in Processes : M!Compact(p) \/ M!Die(p))
           \/ \E scope \in Scopes : M!Clear(scope) \/ \E id \in Ids : M!Delete(id, scope)
    PROVE  M!MemoriesInv'
<1>1. CASE M!Tick
    BY <1>1 DEF M!Tick, M!MemoriesInv, M!Superseding, M!Stored
<1>2. ASSUME NEW p \in Processes, M!Compact(p) PROVE M!MemoriesInv'
    <2>1. \E gone : v1' = M!Without(gone)
        BY <1>2 DEF M!Compact
    <2>2. UNCHANGED <<v3, v5>> /\ v2[p].at = "compact" /\ v2' = [v2 EXCEPT ![p] = M!Idle]
        BY <1>2 DEF M!Compact
    <2> QED BY <2>1, <2>2, MemoriesWithout
<1>3. ASSUME NEW p \in Processes, M!Die(p) PROVE M!MemoriesInv'
    <2>1. /\ UNCHANGED <<v1, v3>> /\ v2' = [v2 EXCEPT ![p] = M!Idle]
          /\ v5' = (v5 \/ v2[p].at \in {"supersede", "undo"})
        BY <1>3 DEF M!Die
    <2>2. /\ v2' \in [Processes -> M!Put \cup {M!Idle}]
          /\ \A q \in Processes \ {p} : v2'[q] = v2[q]
          /\ \A q \in Processes :
               /\ v2'[q].at = "supersede" => v2'[q].target # 0
               /\ v2'[q].at = "write" /\ v2'[q].seen # M!Absent =>
                     v2'[q].seen.scope = v2'[q].scope
        BY <2>1, Ended
    <2>3. ~v5' => M!Superseding'
        BY <2>1, <2>2 DEF M!Superseding, M!Stored, M!MemoriesInv
    <2>4. v3' \in Nat /\ v5' \in BOOLEAN /\ v1' \in [Ids -> M!Row \cup {M!Absent}]
        BY <2>1 DEF M!MemoriesInv
    <2> QED BY <2>2, <2>3, <2>4 DEF M!MemoriesInv, M!None
<1>4. ASSUME NEW scope \in Scopes, M!Clear(scope) \/ \E id \in Ids : M!Delete(id, scope)
      PROVE  M!MemoriesInv'
    <2>1. (\E gone : v1' = M!Without(gone)) /\ v2' = v2 /\ UNCHANGED <<v3, v5>>
        BY <1>4 DEF M!Clear, M!Delete
    <2> QED BY <2>1, MemoriesWithout
<1> QED BY <1>1, <1>2, <1>3, <1>4

LEMMA MemoriesStep == ASSUME M!MemoriesInv, M!Next PROVE M!MemoriesInv'
<1>1. ASSUME NEW p \in Processes,
             \/ \E id \in Ids, scope \in Scopes, target \in Ids \cup {0},
                   expires \in {v3 + 1, 99} : M!Begin(p, id, scope, target, expires)
             \/ M!Write(p) \/ M!Supersede(p) \/ M!Undo(p) \/ M!Compact(p) \/ M!Die(p)
      PROVE  M!MemoriesInv'
    BY <1>1, MemoriesBegin, MemoriesWrite, MemoriesSupersede, MemoriesUndo, MemoriesRest
<1>2. CASE \E scope \in Scopes : M!Clear(scope) \/ \E id \in Ids : M!Delete(id, scope)
    BY <1>2, MemoriesRest
<1> QED BY <1>1, <1>2, MemoriesRest DEF M!Next, M!None, M!Never

\* Of the records that supersede one fact readers find one, however the puts of any number
\* of processes are interleaved (packages/memory/src/index.ts put, 332-405), unless a put
\* died half done or wrote over what it had not seen.
THEOREM OneSuccessor == Spec => []NoTwins
<1> DEFINE Inv == part = "memories" => M!MemoriesInv
<1>1. Init => Inv
    BY MemoriesInit DEF Init
<1>2. Inv /\ [Next]_vars => Inv'
    <2> SUFFICES ASSUME M!MemoriesInv, part = "memories", [Next]_vars PROVE M!MemoriesInv'
        BY PartStays
    <2>1. CASE UNCHANGED <<v1, v2, v3, v4, v5>>
        BY <2>1 DEF M!MemoriesInv, M!Superseding, M!Stored
    <2>2. CASE M!Next
        BY <2>2, MemoriesStep
    <2> QED BY <2>1, <2>2, MemoriesSteps
<1>3. Inv => NoTwins
    <2> SUFFICES ASSUME M!MemoriesInv, ~v5, \A p \in Processes : v2[p] = M!Idle,
                        NEW s \in Scopes, NEW i \in M!Candidates(s),
                        v1[i].supersedes \in M!Stored
                 PROVE  v1[v1[i].supersedes].supersededBy = i
        BY DEF NoTwins, M!NoTwins
    <2>1. i \in Ids /\ v1[i].scope = s
        BY DEF M!Candidates, M!Rows
    <2>2. i \in M!Stored
        BY <2>1, RowOf, IdNumbers DEF M!Stored
    <2>3. \A p \in Processes : v2[p].at = "idle"
        BY PutOf
    <2> QED BY <2>2, <2>3 DEF M!MemoriesInv, M!Superseding
<1> QED BY <1>1, <1>2, <1>3, PTL DEF Spec

\* A set of numbers has a least one.
LEMMA LeastOf ==
    ASSUME NEW Sizes, Sizes \subseteq Nat, Sizes # {} PROVE \E n \in Sizes : \A m \in Sizes : n <= m
<1> DEFINE R == OpToRel(<, Nat)
<1>1. PICK n \in Sizes : \A m \in Sizes : ~(<<m, n>> \in R)
    <2> HIDE DEF R
    <2>1. IsWellFoundedOn(R, Nat)
        BY NatLessThanWellFounded DEF R
    <2> QED BY <2>1, WFMin
<1>2. \A m \in Sizes : ~(m < n)
    BY <1>1 DEF OpToRel
<1> QED BY <1>2

LEMMA MemoriesCount == ASSUME NEW X PROVE M!Cardinality(X) = Cardinality(X)
BY DEF M!Cardinality, Cardinality

\* Records are ordered by their last update, then by their ids.
LEMMA NewerOrder ==
    ASSUME M!MemoriesInv, NEW s \in Scopes
    PROVE  \A i, j, k \in M!Rows(s) :
              /\ ~M!Newer(i, i)
              /\ M!Newer(i, j) /\ M!Newer(j, k) => M!Newer(i, k)
<1>1. \A i \in M!Rows(s) : i \in Nat /\ v1[i].updated \in Nat
    BY RowOf, IdNumbers DEF M!Rows
<1> QED BY <1>1 DEF M!Newer

\* Of some records of a scope one is the newest.
LEMMA NewestOf ==
    ASSUME M!MemoriesInv, NEW s \in Scopes, NEW U \in SUBSET M!Rows(s), U # {}
    PROVE  \E x \in U : \A y \in U : ~M!Newer(y, x)
<1> DEFINE Above(x) == {y \in U : M!Newer(y, x)}
           Sizes == {Cardinality(Above(x)) : x \in U}
<1>1. IsFiniteSet(U)
    BY ServicesAssumption, FS_Subset DEF M!Rows, ServicesAssumption
<1>2. \A x \in U : Above(x) \in SUBSET U /\ IsFiniteSet(Above(x))
    BY <1>1, FS_Subset
<1>3. Sizes \subseteq Nat /\ Sizes # {}
    BY <1>2, FS_CardinalityType
<1>4. PICK x \in U : \A y \in U : Cardinality(Above(x)) <= Cardinality(Above(y))
    <2>1. PICK n \in Sizes : \A m \in Sizes : n <= m
        <3> HIDE DEF Sizes
        <3> QED BY <1>3, LeastOf
    <2>2. PICK x \in U : n = Cardinality(Above(x))
        OBVIOUS
    <2> QED BY <2>1, <2>2
<1>5. ASSUME NEW y \in U, M!Newer(y, x) PROVE FALSE
    <2>1. Above(y) \in SUBSET Above(x) /\ y \in Above(x) /\ y \notin Above(y)
        BY <1>5, NewerOrder
    <2>2. Cardinality(Above(y)) <= Cardinality(Above(x)) /\ Above(y) # Above(x)
        BY <1>2, <2>1, FS_Subset
    <2>3. Cardinality(Above(y)) # Cardinality(Above(x))
        BY <1>2, <2>1, <2>2, FS_Subset
    <2>4. Cardinality(Above(y)) \in Nat /\ Cardinality(Above(x)) \in Nat
        BY <1>2, FS_CardinalityType
    <2>5. Cardinality(Above(x)) <= Cardinality(Above(y))
        BY <1>4
    <2> HIDE DEF Above
    <2> QED BY <2>2, <2>3, <2>4, <2>5
<1> QED BY <1>4, <1>5

\* The ceiling leaves as many records as it allows: those newer than the newest that goes.
LEMMA CeilingLeaves ==
    ASSUME M!MemoriesInv, NEW s \in Scopes, M!Evicted(s) # {}
    PROVE  /\ MaxPerScope \in Nat \ {0}
           /\ M!Evicted(s) \subseteq M!Candidates(s)
           /\ Cardinality(M!Candidates(s) \ M!Evicted(s)) >= MaxPerScope
<1>1. MaxPerScope \in Nat /\ IsFiniteSet(Ids)
    BY ServicesAssumption
<1>2. {i \in M!Rows(s) \ M!Lapsed(s) : ~M!Hidden(i)} = M!Candidates(s)
    BY DEF M!Candidates, M!Lapsed
<1>3. /\ MaxPerScope # 0
      /\ M!Evicted(s) = {i \in M!Candidates(s) :
                           Cardinality({j \in M!Candidates(s) : M!Newer(j, i)}) >= MaxPerScope}
    BY <1>2, MemoriesCount DEF M!Evicted
<1>4. M!Candidates(s) \subseteq M!Rows(s)
    BY DEF M!Candidates
<1>5. PICK x \in M!Evicted(s) : \A y \in M!Evicted(s) : ~M!Newer(y, x)
    BY <1>3, <1>4, NewestOf
<1>6. PICK newer : newer = {j \in M!Candidates(s) : M!Newer(j, x)}
    OBVIOUS
<1>7. newer \subseteq M!Candidates(s) \ M!Evicted(s)
    BY <1>5, <1>6
<1>8. Cardinality(newer) >= MaxPerScope
    BY <1>3, <1>5, <1>6
<1>9. IsFiniteSet(M!Candidates(s) \ M!Evicted(s))
    BY <1>1, FS_Subset DEF M!Candidates, M!Rows
<1>10. /\ Cardinality(newer) <= Cardinality(M!Candidates(s) \ M!Evicted(s))
       /\ Cardinality(newer) \in Nat /\ Cardinality(M!Candidates(s) \ M!Evicted(s)) \in Nat
    BY <1>7, <1>9, FS_Subset, FS_CardinalityType
<1> QED BY <1>1, <1>3, <1>8, <1>10

\* What makes a record one that is found, before a step and after it.
LEMMA FoundFacts ==
    ASSUME M!MemoriesInv, NEW s \in Scopes, NEW i \in M!Candidates(s)
    PROVE  /\ i \in Ids /\ i \in M!Stored /\ v1[i].scope = s /\ v1[i].supersededBy = 0
           /\ ~(v1[i].expires <= v3)
<1>1. /\ i \in Ids /\ v1[i].scope = s /\ v1[i].supersededBy = 0
      /\ ~(v1[i].expires <= v3)
    BY DEF M!Candidates, M!Rows, M!Expired, M!Hidden, M!None
<1> QED BY <1>1, RowOf, IdNumbers DEF M!Stored

LEMMA FoundAfter ==
    ASSUME NEW s \in Scopes, NEW i \in Ids, v1'[i].scope = s, v1'[i].supersededBy = 0,
           ~(v1'[i].expires <= v3')
    PROVE  i \in M!Candidates(s)'
BY DEF M!Candidates, M!Rows, M!Expired, M!Hidden, M!None

\* Each way in which a record is lost to its readers.
LEMMA LostToWrite ==
    ASSUME M!MemoriesInv, NEW p \in Processes, M!Write(p), NEW s \in Scopes,
           NEW i \in M!Candidates(s), i \notin M!Candidates(s)'
    PROVE  \/ /\ v2[p] # M!Idle /\ v2[p].id = i /\ v2[p].at = "write" /\ v2[p].seen # v1[i]
           \/ i \in M!Stored' /\ M!Expired(i)'
<1>1. /\ v2[p].at = "write" /\ UNCHANGED v3
      /\ v1' = [v1 EXCEPT ![v2[p].id] =
                  [scope |-> v2[p].scope, expires |-> v2[p].expires, updated |-> v3,
                   supersedes |-> v2[p].target, supersededBy |-> 0]]
    BY DEF M!Write, M!None
<1>2. v2[p] # M!Idle /\ v2[p].id \in Ids /\ v2[p].scope \in Scopes
    BY <1>1, PutOf
<1>3. v1 \in [Ids -> M!Row \cup {M!Absent}]
    BY DEF M!MemoriesInv
<1>4. CASE i # v2[p].id
    BY <1>1, <1>3, <1>4, FoundFacts, FoundAfter
<1>5. CASE i = v2[p].id /\ v2[p].seen = v1[i]
    <2>1. v2[p].scope = s
        BY <1>1, <1>5, FoundFacts, PutOf DEF M!Stored
    <2>2. v1'[i].scope = s /\ v1'[i].supersededBy = 0 /\ i \in Ids
        BY <1>1, <1>2, <1>3, <1>5, <2>1
    <2>3. v1'[i] # M!Absent
        BY <2>1, <2>2, IdNumbers DEF M!Absent
    <2> QED BY <2>2, <2>3, FoundAfter DEF M!Stored, M!Expired
<1> QED BY <1>1, <1>2, <1>4, <1>5

LEMMA LostToSuccessor ==
    ASSUME M!MemoriesInv, NEW p \in Processes, M!Supersede(p), NEW s \in Scopes,
           NEW i \in M!Candidates(s), i \notin M!Candidates(s)'
    PROVE  i \in M!Stored' /\ v1'[i].supersededBy \in Ids
<1>1. v2[p].at = "supersede" /\ v2[p].id \in Ids /\ v2[p].target \in Ids /\ UNCHANGED v3
    <2>1. v2[p].at = "supersede" /\ UNCHANGED v3
        BY DEF M!Supersede
    <2> QED BY <2>1, PutOf
<1>2. v1' # v1
    BY <1>1, FoundFacts, FoundAfter
<1>3. v1' = [v1 EXCEPT ![v2[p].target] = [v1[v2[p].target] EXCEPT !.supersededBy = v2[p].id,
                                                                  !.updated = v3]]
    BY <1>2 DEF M!Supersede
<1>4. v1 \in [Ids -> M!Row \cup {M!Absent}]
    BY DEF M!MemoriesInv
<1>5. i = v2[p].target
    BY <1>1, <1>3, <1>4, FoundFacts, FoundAfter
<1>6. v1[i] \in M!Row
    BY FoundFacts, RowOf DEF M!Stored
<1>7. PICK row : row = [v1[i] EXCEPT !.supersededBy = v2[p].id, !.updated = v3]
    OBVIOUS
<1>8. row.supersededBy = v2[p].id /\ row.scope = v1[i].scope
    BY ONLY <1>6, <1>7 DEF M!Row
<1>9. v1'[i] = row /\ v1[i].scope = s /\ i \in Ids
    BY <1>1, <1>3, <1>4, <1>5, <1>7, FoundFacts
<1>10. v1'[i] # M!Absent
    BY <1>8, <1>9, IdNumbers DEF M!Absent
<1> QED BY <1>1, <1>8, <1>9, <1>10 DEF M!Stored

LEMMA LostToUndo ==
    ASSUME M!MemoriesInv, NEW p \in Processes, M!Undo(p), NEW s \in Scopes,
           NEW i \in M!Candidates(s), i \notin M!Candidates(s)'
    PROVE  v2[p] # M!Idle /\ v2[p].id = i /\ v2[p].at = "undo"
<1>1. /\ v2[p].at = "undo" /\ UNCHANGED v3
      /\ v1' = [v1 EXCEPT ![v2[p].id] =
                  IF v1[v2[p].id].scope = v2[p].scope THEN M!Absent ELSE v1[v2[p].id]]
    BY DEF M!Undo
<1>2. v1 \in [Ids -> M!Row \cup {M!Absent}]
    BY DEF M!MemoriesInv
<1>3. v2[p].id = i
    BY <1>1, <1>2, FoundFacts, FoundAfter
<1> QED BY <1>1, <1>3, PutOf

LEMMA LostToCompaction ==
    ASSUME M!MemoriesInv, NEW p \in Processes, M!Compact(p), NEW s \in Scopes,
           NEW i \in M!Candidates(s), i \notin M!Candidates(s)'
    PROVE  MaxPerScope > 0 /\ M!Cardinality(M!Candidates(s)') >= MaxPerScope
<1>1. PICK scope : scope = v2[p].scope
    OBVIOUS
<1>2. /\ v2[p].at = "compact" /\ UNCHANGED v3
      /\ v1' = M!Without(M!Lapsed(scope) \cup M!Unreachable(scope) \cup M!Evicted(scope))
    BY <1>1 DEF M!Compact
<1>3. v2[p].scope \in Scopes
    BY <1>2, PutOf
<1>4. ASSUME NEW j \in M!Candidates(s), j \notin M!Candidates(s)'
      PROVE  scope = s /\ j \in M!Evicted(s)
    <2>1. j \in M!Lapsed(scope) \cup M!Unreachable(scope) \cup M!Evicted(scope)
        BY <1>2, <1>4, FoundFacts, FoundAfter DEF M!Without
    <2>2. j \notin M!Lapsed(scope) /\ j \notin M!Unreachable(scope)
        BY <1>4, FoundFacts DEF M!Lapsed, M!Unreachable, M!Expired, M!Hidden, M!None
    <2>3. j \in M!Rows(scope)
        BY <2>1, <2>2 DEF M!Evicted
    <2> QED BY <1>4, <2>1, <2>2, <2>3, FoundFacts DEF M!Rows
<1>5. /\ M!Evicted(s) # {}
      /\ M!Candidates(s) \ M!Evicted(s) \subseteq M!Candidates(s)'
    BY <1>4
<1>6. PICK after : after = M!Candidates(s)'
    OBVIOUS
<1>7. IsFiniteSet(after)
    BY <1>6, ServicesAssumption, FS_Subset DEF ServicesAssumption, M!Candidates, M!Rows
<1>8. /\ Cardinality(M!Candidates(s) \ M!Evicted(s)) <= Cardinality(after)
      /\ Cardinality(after) \in Nat /\ Cardinality(M!Candidates(s) \ M!Evicted(s)) \in Nat
    BY <1>5, <1>6, <1>7, FS_Subset, FS_CardinalityType
<1>9. /\ MaxPerScope \in Nat \ {0}
      /\ Cardinality(M!Candidates(s) \ M!Evicted(s)) >= MaxPerScope
    BY <1>5, CeilingLeaves
<1>10. MaxPerScope > 0 /\ Cardinality(after) >= MaxPerScope
    BY ONLY <1>8, <1>9
<1> QED BY <1>6, <1>10, MemoriesCount

LEMMA MemoriesKeep ==
    ASSUME M!MemoriesInv, M!Next \/ UNCHANGED <<v1, v2, v3, v4, v5>> PROVE M!NothingFoundIsLost
<1> SUFFICES ASSUME NEW s \in Scopes, NEW i \in M!Candidates(s), i \notin M!Candidates(s)',
                    v3' = v3
             PROVE  \/ \E p \in Processes :
                          /\ v2[p] # M!Idle /\ v2[p].id = i
                          /\ \/ v2[p].at = "undo"
                             \/ v2[p].at = "write" /\ v2[p].seen # v1[i]
                    \/ i \in M!Stored' /\ (M!Expired(i)' \/ v1'[i].supersededBy \in Ids)
                    \/ i \notin M!Stored' /\ v2' = v2
                    \/ MaxPerScope > 0 /\ M!Cardinality(M!Candidates(s)') >= MaxPerScope
    BY DEF M!NothingFoundIsLost
<1>1. v1' # v1
    BY FoundFacts, FoundAfter
<1>2. CASE \E p \in Processes : M!Write(p)
    BY <1>2, LostToWrite
<1>3. CASE \E p \in Processes : M!Supersede(p)
    BY <1>3, LostToSuccessor
<1>4. CASE \E p \in Processes : M!Undo(p)
    BY <1>4, LostToUndo
<1>5. CASE \E p \in Processes : M!Compact(p)
    BY <1>5, LostToCompaction
<1>6. ASSUME NEW scope \in Scopes, M!Clear(scope) \/ \E id \in Ids : M!Delete(id, scope)
      PROVE  i \notin M!Stored' /\ v2' = v2
    <2>1. PICK gone : v1' = M!Without(gone)
        BY <1>6 DEF M!Clear, M!Delete
    <2>2. v2' = v2 /\ v3' = v3
        BY <1>6 DEF M!Clear, M!Delete
    <2>3. i \in gone
        BY <2>1, <2>2, FoundFacts, FoundAfter DEF M!Without
    <2> QED BY <2>1, <2>2, <2>3, FoundFacts DEF M!Without, M!Stored
<1>7. M!Next
    BY <1>1
<1>8. \/ \E p \in Processes : M!Write(p) \/ M!Supersede(p) \/ M!Undo(p) \/ M!Compact(p)
      \/ \E scope \in Scopes : M!Clear(scope) \/ \E id \in Ids : M!Delete(id, scope)
    <2>1. CASE M!Tick
        BY <2>1, <1>1 DEF M!Tick
    <2>2. ASSUME NEW p \in Processes, NEW id \in Ids, NEW scope \in Scopes,
                 NEW target \in Ids \cup {0}, NEW expires \in {v3 + 1, 99},
                 M!Begin(p, id, scope, target, expires)
          PROVE  FALSE
        BY <2>2, <1>1 DEF M!Begin
    <2>3. ASSUME NEW p \in Processes, M!Die(p) PROVE FALSE
        BY <2>3, <1>1 DEF M!Die
    <2> QED BY <1>7, <2>1, <2>2, <2>3 DEF M!Next, M!None, M!Never
<1> QED BY <1>2, <1>3, <1>4, <1>5, <1>6, <1>8

\* A record that readers can find is lost to them only by time, by its deletion, by a put over
\* it that is refused or that began when it was another one, to its successor, or to the
\* ceiling of its scope when that many newer ones can be found, for every number of processes
\* and records (packages/storage-sqlite/src/index.ts compactMemories; docs/INSTALLATION.md:252).
THEOREM RecordsAreKept == Spec => NothingFoundIsLost
<1> DEFINE Inv == part = "memories" => M!MemoriesInv
<1>1. Init => Inv
    BY MemoriesInit DEF Init
<1>2. Inv /\ [Next]_vars => Inv'
    <2> SUFFICES ASSUME M!MemoriesInv, part = "memories", [Next]_vars PROVE M!MemoriesInv'
        BY PartStays
    <2>1. CASE UNCHANGED <<v1, v2, v3, v4, v5>>
        BY <2>1 DEF M!MemoriesInv, M!Superseding, M!Stored
    <2>2. CASE M!Next
        BY <2>2, MemoriesStep
    <2> QED BY <2>1, <2>2, MemoriesSteps
<1>3. Inv /\ [Next]_vars => [part = "memories" => M!NothingFoundIsLost]_vars
    BY MemoriesSteps, MemoriesKeep
<1> QED BY <1>1, <1>2, <1>3, PTL DEF Spec, NothingFoundIsLost
-----------------------------------------------------------------------------
(* Browser                                                                     *)

\* In a behaviour of the browser every step is one of its session.
LEMMA BrowserSteps ==
    ASSUME part = "browser", [Next]_vars
    PROVE  S!Next \/ UNCHANGED <<v1, v2, v3, v4, v5, v6, v7, v8, v9, v10, v11, v12, v13, v14,
                                 v15, v16, v17, v18, v19>>
BY DEF Next, vars, after3, after4, after5, after6, after8, after9, after10

LEMMA BrowserInit == ASSUME S!Init PROVE S!SessionInv
<1>1. /\ v14 = [c \in Calls |-> S!New] /\ v16 = [launches |-> 0, pages |-> 0, dialogs |-> 0, events |-> 0]
      /\ v2 = 0 /\ v3 = 0 /\ v4 = 0 /\ v9 = {} /\ v10 = {} /\ v11 = {} /\ v15 = "no"
      /\ v18 = FALSE /\ v17 = {} /\ v19 = FALSE
    BY DEF S!Init
<1>2. S!New \in S!Call /\ S!New.at = "new"
    BY DEF S!New, S!Call, S!Stages
<1>3. v16 \in S!Totals
    BY <1>1 DEF S!Totals
<1>4. S!Types
    BY <1>1, <1>2, <1>3 DEF S!Types
<1>5. S!Running = {}
    BY <1>1, <1>2 DEF S!Running, S!Ended
<1> QED BY <1>1, <1>2, <1>4, <1>5 DEF S!SessionInv, S!OneBrowser, S!OneProxy

LEMMA CallOf ==
    ASSUME S!Types, NEW c \in Calls
    PROVE  /\ v14[c] \in S!Call /\ v14[c].at \in S!Stages /\ v14[c].next \in {"page", "tab"}
           /\ v14[c].launch \in Nat /\ v14[c].taken \subseteq Nat
           /\ v14[c].asked \in Seq(Nat) /\ v14[c].opened \subseteq Nat
           /\ (c \in S!Running <=> v14[c].at \notin {"new", "done", "failed"})
<1>1. v14[c] \in S!Call
    BY DEF S!Types
<1> QED BY <1>1 DEF S!Call, S!Running, S!Ended

\* The calls after one of them has changed.
LEMMA CallSet ==
    ASSUME S!Types, NEW c \in Calls, NEW j \in S!Call, v14' = [v14 EXCEPT ![c] = j]
    PROVE  /\ v14' \in [Calls -> S!Call] /\ v14'[c] = j
           /\ \A d \in Calls \ {c} : v14'[d] = v14[d]
BY DEF S!Types

LEMMA CallMoved ==
    ASSUME S!Types, NEW c \in Calls, NEW at \in S!Stages, v14' = [v14 EXCEPT ![c].at = at]
    PROVE  /\ v14' \in [Calls -> S!Call] /\ v14'[c].at = at /\ v14'[c].launch = v14[c].launch
           /\ v14'[c].asked = v14[c].asked /\ v14'[c].opened = v14[c].opened
           /\ \A d \in Calls \ {c} : v14'[d] = v14[d]
<1>1. PICK j : j = [v14[c] EXCEPT !.at = at]
    OBVIOUS
<1>2. v14[c] \in S!Call
    BY CallOf
<1>3. j \in S!Call /\ j.at = at /\ j.launch = v14[c].launch
      /\ j.asked = v14[c].asked /\ j.opened = v14[c].opened
    BY ONLY <1>1, <1>2, at \in S!Stages DEF S!Call
<1>4. v14' = [v14 EXCEPT ![c] = j]
    BY <1>1
<1> QED BY <1>3, <1>4, CallSet

LEMMA CallPlaced ==
    ASSUME S!Types, NEW c \in Calls, NEW at \in S!Stages, NEW launch \in Nat,
           v14' = [v14 EXCEPT ![c].at = at, ![c].launch = launch]
    PROVE  /\ v14' \in [Calls -> S!Call] /\ v14'[c].at = at /\ v14'[c].launch = launch
           /\ v14'[c].asked = v14[c].asked /\ v14'[c].opened = v14[c].opened
           /\ \A d \in Calls \ {c} : v14'[d] = v14[d]
<1>1. PICK j : j = [v14[c] EXCEPT !.at = at, !.launch = launch]
    OBVIOUS
<1>2. v14[c] \in S!Call
    BY CallOf
<1>3. j \in S!Call /\ j.at = at /\ j.launch = launch
      /\ j.asked = v14[c].asked /\ j.opened = v14[c].opened
    BY ONLY <1>1, <1>2, at \in S!Stages, launch \in Nat DEF S!Call
<1>4. v14' = [v14 EXCEPT ![c] = j]
    BY <1>1
<1> QED BY <1>3, <1>4, CallSet

LEMMA CallEnds ==
    ASSUME S!Types, NEW c \in Calls, NEW at \in {"done", "failed"}, S!End(c, at)
    PROVE  /\ v14' \in [Calls -> S!Call] /\ v14'[c].at = at
           /\ \A d \in Calls \ {c} : v14'[d] = v14[d]
<1>1. PICK j : j = [S!New EXCEPT !.at = at]
    OBVIOUS
<1>2. j \in S!Call /\ j.at = at
    <2>1. S!New \in S!Call
        BY DEF S!New, S!Call, S!Stages
    <2>2. PICK new : new = S!New
        OBVIOUS
    <2>3. at \in S!Stages
        BY DEF S!Stages
    <2>4. j = [new EXCEPT !.at = at] /\ new \in S!Call
        BY <1>1, <2>1, <2>2
    <2> QED BY ONLY <2>3, <2>4 DEF S!Call
<1>3. v14' = [v14 EXCEPT ![c] = j]
    BY <1>1 DEF S!End
<1> QED BY <1>2, <1>3, CallSet

\* The totals after one or two of them have grown.
LEMMA TotalsGrow ==
    ASSUME S!Types,
           \/ v16' = v16
           \/ v16' = [v16 EXCEPT !.launches = v16.launches + 1]
           \/ v16' = [v16 EXCEPT !.pages = v16.pages + 1]
           \/ v16' = [v16 EXCEPT !.events = v16.events + 1]
           \/ v16' = [v16 EXCEPT !.pages = v16.pages + 1, !.events = v16.events + 1]
           \/ v16' = [v16 EXCEPT !.dialogs = v16.dialogs + 1, !.events = v16.events + 1]
    PROVE  v16' \in S!Totals
<1>1. PICK a, b : a = v16 /\ b = v16'
    OBVIOUS
<1>2. a \in S!Totals
    BY <1>1 DEF S!Types
<1>3. \/ b = a
      \/ b = [a EXCEPT !.launches = a.launches + 1]
      \/ b = [a EXCEPT !.pages = a.pages + 1]
      \/ b = [a EXCEPT !.events = a.events + 1]
      \/ b = [a EXCEPT !.pages = a.pages + 1, !.events = a.events + 1]
      \/ b = [a EXCEPT !.dialogs = a.dialogs + 1, !.events = a.events + 1]
    BY <1>1
<1>4. /\ b = [a EXCEPT !.launches = a.launches + 1] => b \in S!Totals
      /\ b = [a EXCEPT !.pages = a.pages + 1] => b \in S!Totals
      /\ b = [a EXCEPT !.events = a.events + 1] => b \in S!Totals
    BY ONLY <1>2 DEF S!Totals
<1>5. ASSUME b = [a EXCEPT !.pages = a.pages + 1, !.events = a.events + 1] PROVE b \in S!Totals
    <2>1. PICK m : m = [a EXCEPT !.pages = a.pages + 1]
        OBVIOUS
    <2>2. m \in S!Totals
        BY ONLY <1>2, <2>1 DEF S!Totals
    <2>3. b = [m EXCEPT !.events = a.events + 1] /\ a.events \in Nat
        BY <1>2, <1>5, <2>1 DEF S!Totals
    <2> QED BY ONLY <2>2, <2>3 DEF S!Totals
<1>6. ASSUME b = [a EXCEPT !.dialogs = a.dialogs + 1, !.events = a.events + 1] PROVE b \in S!Totals
    <2>1. PICK m : m = [a EXCEPT !.dialogs = a.dialogs + 1]
        OBVIOUS
    <2>2. m \in S!Totals
        BY ONLY <1>2, <2>1 DEF S!Totals
    <2>3. b = [m EXCEPT !.events = a.events + 1] /\ a.events \in Nat
        BY <1>2, <1>6, <2>1 DEF S!Totals
    <2> QED BY ONLY <2>2, <2>3 DEF S!Totals
<1> QED BY <1>1, <1>2, <1>3, <1>4, <1>5, <1>6

\* A step that moves no call to or from a launch, begins none, and leaves the fields, the
\* browsers and the proxies alone keeps the invariant.
LEMMA SessionKept ==
    ASSUME S!SessionInv, UNCHANGED <<v1, v2, v3, v4, v10, v11, v15, v18, v19>>,
           v9' \subseteq Nat, v16' \in S!Totals, v14' \in [Calls -> S!Call],
           \A d \in Calls :
              /\ v14[d].at \in {"new", "done", "failed"} =>
                    v14'[d].at \in {"new", "done", "failed"}
              /\ v14[d].at = "launch" => v14'[d].at = "launch"
              /\ v14'[d].at \in {"connect", "launch"} =>
                    v14'[d].at = v14[d].at /\ v14'[d].launch = v14[d].launch
    PROVE  S!SessionInv'
<1>1. S!Types'
    BY DEF S!SessionInv, S!Types
<1>2. S!Running' \subseteq S!Running
    BY DEF S!Running, S!Ended
<1>3. S!OneBrowser => S!OneBrowser'
    BY <1>2 DEF S!OneBrowser, S!attached
<1>4. S!OneProxy => S!OneProxy'
    BY DEF S!OneProxy
<1> QED BY <1>1, <1>3, <1>4 DEF S!SessionInv

\* A step of one call within its work.
LEMMA WorkKept ==
    ASSUME S!SessionInv, NEW c \in Calls, UNCHANGED <<v1, v2, v3, v4, v10, v11, v15, v18, v19>>,
           v9' \subseteq Nat, v16' \in S!Totals,
           v14[c].at \notin {"new", "done", "failed", "launch"},
           v14' \in [Calls -> S!Call], v14'[c].at \notin {"connect", "launch"},
           \A d \in Calls \ {c} : v14'[d] = v14[d]
    PROVE  S!SessionInv'
BY SessionKept

LEMMA SessionGoto ==
    ASSUME S!SessionInv, NEW c \in Calls,
           S!ChoosePage(c) \/ S!Operate(c) \/ S!NewTab(c) \/ S!SwitchTab(c) \/ S!CloseTab(c)
           \/ S!Fail(c) \/ S!Answer(c)
    PROVE  S!SessionInv'
<1>1. /\ UNCHANGED <<v1, v2, v3, v4, v9, v10, v11, v15, v16, v18, v19>>
      /\ v14[c].at \in {"page", "run", "tab", "answer"}
      /\ \/ S!Goto(c, "run") \/ S!Goto(c, "open") \/ S!Goto(c, "drain")
         \/ S!End(c, "failed") \/ S!End(c, "done")
    BY DEF S!ChoosePage, S!Operate, S!NewTab, S!SwitchTab, S!CloseTab, S!Fail, S!Answer,
           S!Settings, S!Reports, S!World, S!History, S!fields
<1>2. S!Types
    BY DEF S!SessionInv
<1>3. /\ v14' \in [Calls -> S!Call] /\ v14'[c].at \notin {"connect", "launch"}
      /\ \A d \in Calls \ {c} : v14'[d] = v14[d]
    <2>1. CASE \E at \in {"run", "open", "drain"} : S!Goto(c, at)
        BY <1>2, <2>1, CallMoved DEF S!Goto, S!Stages
    <2>2. CASE \E at \in {"failed", "done"} : S!End(c, at)
        BY <1>2, <2>2, CallEnds
    <2> QED BY <1>1, <2>1, <2>2
<1>4. v9' \subseteq Nat /\ v16' \in S!Totals
    BY <1>1, <1>2 DEF S!Types
<1> QED BY <1>1, <1>3, <1>4, WorkKept

LEMMA SessionDrain ==
    ASSUME S!SessionInv, NEW c \in Calls, S!AskContext(c) \/ S!Drain(c) PROVE S!SessionInv'
<1>1. /\ UNCHANGED <<v1, v2, v3, v4, v10, v11, v15, v16, v18, v19>>
      /\ v14[c].at \in {"run", "drain"}
      /\ v9' = v9 \/ v9' = {}
    BY DEF S!AskContext, S!Drain, S!Settings, S!Reports, S!World, S!History, S!fields
<1>2. S!Types
    BY DEF S!SessionInv
<1>3. PICK j : /\ \/ j = [v14[c] EXCEPT !.at = "context", !.next = "tab"]
                  \/ j = [v14[c] EXCEPT !.at = "answer", !.taken = v9]
               /\ v14' = [v14 EXCEPT ![c] = j]
    BY DEF S!AskContext, S!Drain
<1>4. v14[c] \in S!Call /\ v9 \subseteq Nat
    BY <1>2, CallOf DEF S!Types
<1>5. j \in S!Call /\ j.at \in {"context", "answer"}
    <2>1. CASE j = [v14[c] EXCEPT !.at = "context", !.next = "tab"]
        <3>1. PICK m : m = [v14[c] EXCEPT !.at = "context"]
            OBVIOUS
        <3>2. m \in S!Call /\ m.at = "context"
            BY ONLY <1>4, <3>1 DEF S!Call, S!Stages
        <3>3. j = [m EXCEPT !.next = "tab"]
            BY <2>1, <3>1
        <3> QED BY ONLY <3>2, <3>3 DEF S!Call
    <2>2. CASE j = [v14[c] EXCEPT !.at = "answer", !.taken = v9]
        <3>1. PICK m : m = [v14[c] EXCEPT !.at = "answer"]
            OBVIOUS
        <3>2. m \in S!Call /\ m.at = "answer"
            BY ONLY <1>4, <3>1 DEF S!Call, S!Stages
        <3>3. j = [m EXCEPT !.taken = v9]
            BY <2>2, <3>1
        <3> QED BY ONLY <1>4, <3>2, <3>3 DEF S!Call
    <2> QED BY <1>3, <2>1, <2>2
<1>6. /\ v14' \in [Calls -> S!Call] /\ v14'[c] = j
      /\ \A d \in Calls \ {c} : v14'[d] = v14[d]
    BY <1>2, <1>3, <1>5, CallSet
<1>7. v9' \subseteq Nat /\ v16' \in S!Totals
    BY <1>1, <1>2 DEF S!Types
<1> QED BY <1>1, <1>5, <1>6, <1>7, WorkKept

LEMMA SessionOpen ==
    ASSUME S!SessionInv, NEW c \in Calls, S!OpenPage(c) PROVE S!SessionInv'
<1>1. /\ UNCHANGED <<v1, v2, v3, v4, v10, v11, v15, v18, v19>> /\ v14[c].at = "open"
    BY DEF S!OpenPage, S!Settings, S!History
<1>2. S!Types
    BY DEF S!SessionInv
<1>3. v16' = v16 \/ v16' = [v16 EXCEPT !.pages = v16.pages + 1]
    BY DEF S!OpenPage
<1>4. v16.pages \in Nat
    BY <1>2 DEF S!Types, S!Totals
<1>5. v9' \subseteq Nat /\ v16' \in S!Totals
    <2>1. v9' \subseteq v9 \cup {v16.pages + 1}
        BY DEF S!OpenPage, S!Appears
    <2> QED BY <1>2, <1>3, <1>4, <2>1, TotalsGrow DEF S!Types
<1>6. CASE S!End(c, "failed")
    BY <1>1, <1>2, <1>5, <1>6, CallEnds, WorkKept
<1>7. CASE ~S!End(c, "failed")
    <2>1. PICK op : /\ op \in {v14[c].op, "act"}
                    /\ v14' = [v14 EXCEPT ![c].at = "run", ![c].op = op]
        BY <1>7 DEF S!OpenPage
    <2>2. PICK m, j : m = [v14[c] EXCEPT !.at = "run"] /\ j = [m EXCEPT !.op = op]
        OBVIOUS
    <2>3. v14' = [v14 EXCEPT ![c] = j]
        BY <2>1, <2>2
    <2>4. v14[c] \in S!Call
        BY <1>2, CallOf
    <2>5. m \in S!Call /\ m.at = "run"
        BY ONLY <2>2, <2>4 DEF S!Call, S!Stages
    <2>6. op \in {"act", "tab_new", "tab_switch", "close"}
        BY <2>1, <2>4 DEF S!Call
    <2>7. j \in S!Call /\ j.at = "run"
        BY ONLY <2>2, <2>5, <2>6 DEF S!Call
    <2> QED BY <1>1, <1>2, <1>5, <2>3, <2>7, CallSet, WorkKept
<1> QED BY <1>6, <1>7

LEMMA SessionBegin ==
    ASSUME S!SessionInv, NEW c \in Calls,
           NEW op \in {"act", "tab_new", "tab_switch", "close"}, S!Begin(c, op)
    PROVE  S!SessionInv'
<1>1. /\ UNCHANGED <<v1, v2, v3, v4, v9, v10, v11, v15, v16, v19>> /\ v14[c].at = "new"
      /\ v18' = (v18 \/ S!Running # {} \/ v15 # "no")
    BY DEF S!Begin, S!Settings, S!World, S!fields
<1>2. S!Types
    BY DEF S!SessionInv
<1>3. PICK m, j : /\ m = [S!New EXCEPT !.at = "context"] /\ j = [m EXCEPT !.op = op]
                  /\ v14' = [v14 EXCEPT ![c] = j]
    BY DEF S!Begin, S!Enter
<1>4. j \in S!Call /\ j.at = "context"
    <2>1. S!New \in S!Call
        BY DEF S!New, S!Call, S!Stages
    <2>2. PICK new : new = S!New
        OBVIOUS
    <2>3. m = [new EXCEPT !.at = "context"] /\ new \in S!Call
        BY <1>3, <2>1, <2>2
    <2>4. m \in S!Call /\ m.at = "context"
        BY ONLY <2>3 DEF S!Call, S!Stages
    <2>5. j = [m EXCEPT !.op = op]
        BY <1>3
    <2> QED BY ONLY <2>4, <2>5, op \in {"act", "tab_new", "tab_switch", "close"} DEF S!Call
<1>5. /\ v14' \in [Calls -> S!Call] /\ v14'[c] = j
      /\ \A d \in Calls \ {c} : v14'[d] = v14[d]
    BY <1>2, <1>3, <1>4, CallSet
<1>6. S!Types'
    BY <1>1, <1>2, <1>4, <1>5 DEF S!Types
<1>7. S!Running' \subseteq S!Running \cup {c}
    BY <1>5 DEF S!Running, S!Ended
<1>8. ASSUME ~v18', S!OneBrowser PROVE S!OneBrowser'
    <2>1. S!Running = {} /\ v15 = "no" /\ v15' = "no"
        BY <1>1, <1>8 DEF S!Types
    <2> QED BY <1>1, <1>4, <1>5, <1>7, <1>8, <2>1 DEF S!OneBrowser, S!attached
<1>9. S!OneProxy => S!OneProxy'
    <2>1. v14[c].at # "launch" /\ \A d \in Calls : v14[d].at = "launch" => v14'[d].at = "launch"
        BY <1>1, <1>5
    <2> QED BY <1>1, <2>1 DEF S!OneProxy
<1> QED BY <1>1, <1>6, <1>8, <1>9 DEF S!SessionInv, S!Types

LEMMA SessionEnsure ==
    ASSUME S!SessionInv, NEW c \in Calls, S!Ensure(c) \/ S!Route(c) PROVE S!SessionInv'
<1>1. /\ UNCHANGED <<v1, v2, v3, v4, v9, v10, v11, v15, v18, v19>>
      /\ v14[c].at \in {"context", "route"}
    BY DEF S!Ensure, S!Route, S!Settings, S!Reports, S!History, S!fields
<1>2. S!Types
    BY DEF S!SessionInv
<1>3. v9' \subseteq Nat /\ v16' \in S!Totals
    <2>1. v16' = v16 \/ v16' = [v16 EXCEPT !.launches = v16.launches + 1]
        <3>1. CASE v2 = 0 /\ S!Ensure(c)
            BY <3>1 DEF S!Ensure
        <3>2. CASE v2 # 0 /\ S!Ensure(c)
            <4>1. v16' = [v16 EXCEPT !.launches = v16.launches]
                BY <3>2 DEF S!Ensure
            <4>2. PICK a, b : a = v16 /\ b = v16'
                OBVIOUS
            <4>3. a \in S!Totals /\ b = [a EXCEPT !.launches = a.launches]
                BY <1>2, <4>1, <4>2 DEF S!Types
            <4>4. b = a
                BY ONLY <4>3 DEF S!Totals
            <4> QED BY <4>2, <4>4
        <3>3. CASE S!Route(c)
            BY <3>3 DEF S!Route
        <3> QED BY <3>1, <3>2, <3>3
    <2> QED BY <1>1, <1>2, <2>1, TotalsGrow DEF S!Types
<1>4. CASE S!End(c, "failed")
    BY <1>1, <1>2, <1>3, <1>4, CallEnds, WorkKept
<1>5. CASE v14' = [v14 EXCEPT ![c].at = v14[c].next, ![c].launch = v2]
    <2>1. v14[c].next \in {"page", "tab"} /\ v14[c].next \in S!Stages /\ v2 \in Nat
        BY <1>2, CallOf DEF S!Stages, S!Types
    <2>2. PICK at : at = v14[c].next
        OBVIOUS
    <2> QED BY <1>1, <1>2, <1>3, <1>5, <2>1, <2>2, CallPlaced, WorkKept
<1>6. CASE v2 = 0 /\ v14' = [v14 EXCEPT ![c].at = "connect", ![c].launch = v16.launches + 1]
    <2>1. v16.launches \in Nat
        BY <1>2 DEF S!Types, S!Totals
    <2>2. /\ v14' \in [Calls -> S!Call] /\ v14'[c].at = "connect"
          /\ v14'[c].launch = v16.launches + 1
          /\ \A d \in Calls \ {c} : v14'[d] = v14[d]
        <3>1. PICK m, j : /\ m = [v14[c] EXCEPT !.at = "connect"]
                          /\ j = [m EXCEPT !.launch = v16.launches + 1]
            OBVIOUS
        <3>2. v14[c] \in S!Call
            BY <1>2, CallOf
        <3>3. m \in S!Call /\ m.at = "connect"
            BY ONLY <3>1, <3>2 DEF S!Call, S!Stages
        <3>6. PICK n : n = v16.launches + 1
            OBVIOUS
        <3>7. n \in Nat /\ j = [m EXCEPT !.launch = n]
            BY <2>1, <3>1, <3>6
        <3>8. j \in S!Call /\ j.at = "connect" /\ j.launch = n
            BY ONLY <3>3, <3>7 DEF S!Call
        <3>4. j \in S!Call /\ j.at = "connect" /\ j.launch = v16.launches + 1
            BY <3>6, <3>8
        <3>5. v14' = [v14 EXCEPT ![c] = j]
            BY <1>6, <3>1
        <3> QED BY <1>2, <3>4, <3>5, CallSet
    <2>3. S!Types'
        BY <1>1, <1>2, <1>3, <2>1, <2>2 DEF S!Types
    <2>4. S!Running' \subseteq S!Running
        BY <1>1, <2>2 DEF S!Running, S!Ended
    <2>5. S!OneBrowser => S!OneBrowser'
        BY <1>1, <1>6, <2>1, <2>2, <2>4 DEF S!OneBrowser, S!attached
    <2>6. S!OneProxy => S!OneProxy'
        <3>1. v14[c].at # "launch" /\ \A d \in Calls : v14[d].at = "launch" => v14'[d].at = "launch"
            BY <1>1, <2>2
        <3> QED BY <1>1, <3>1 DEF S!OneProxy
    <2> QED BY <1>1, <2>3, <2>5, <2>6 DEF S!SessionInv
<1>7. \/ S!End(c, "failed")
      \/ v14' = [v14 EXCEPT ![c].at = v14[c].next, ![c].launch = v2]
      \/ v2 = 0 /\ v14' = [v14 EXCEPT ![c].at = "connect", ![c].launch = v16.launches + 1]
    BY DEF S!Ensure, S!Route
<1> QED BY <1>4, <1>5, <1>6, <1>7

\* What holds of a call that launches, if nothing ran beside it.
LEMMA Launching ==
    ASSUME S!SessionInv, ~v18, NEW c \in Calls, v14[c].at \in {"connect", "launch"}
    PROVE  /\ v15 = "no" /\ v2 = 0 /\ v10 = {} /\ v14[c].launch # 0 /\ v14[c].launch \in Nat
           /\ \A d \in Calls \ {c} : v14[d].at \in {"new", "done", "failed"}
<1>1. S!Types /\ S!OneBrowser
    BY DEF S!SessionInv
<1>2. \A d \in Calls : d \in S!Running <=> v14[d].at \notin {"new", "done", "failed"}
    BY DEF S!Running, S!Ended
<1>3. v15 = "no" /\ v2 = 0 /\ v14[c].launch # 0
    BY <1>1, <1>2 DEF S!OneBrowser, S!Types
<1>4. v10 \subseteq {0} /\ 0 \notin v10
    BY <1>1, <1>3 DEF S!OneBrowser, S!Types
<1> QED BY <1>1, <1>2, <1>3, <1>4, CallOf DEF S!OneBrowser

LEMMA SessionProxy ==
    ASSUME S!SessionInv, NEW c \in Calls, S!StartProxy(c) PROVE S!SessionInv'
<1>1. /\ UNCHANGED <<v1, v2, v3, v9, v10, v15, v16, v18, v19>> /\ v14[c].at = "connect"
      /\ v14' = [v14 EXCEPT ![c].at = "launch"]
      /\ \/ v11' = v11 \cup {v14[c].launch} /\ v4' = v14[c].launch
         \/ v11' = v11 /\ v4' = 0
    BY DEF S!StartProxy, S!Goto, S!Settings, S!Reports, S!History
<1>2. S!Types
    BY DEF S!SessionInv
<1>3. /\ v14' \in [Calls -> S!Call] /\ v14'[c].at = "launch"
      /\ v14'[c].launch = v14[c].launch
      /\ \A d \in Calls \ {c} : v14'[d] = v14[d]
    BY <1>1, <1>2, CallMoved DEF S!Stages
<1>4. S!Types'
    BY <1>1, <1>2, <1>3, CallOf DEF S!Types
<1>5. S!Running' \subseteq S!Running
    BY <1>1, <1>3 DEF S!Running, S!Ended
<1>6. S!OneBrowser => S!OneBrowser'
    BY <1>1, <1>3, <1>5 DEF S!OneBrowser, S!attached
<1>7. ASSUME ~v18, S!OneProxy PROVE S!OneProxy'
    <2>1. v15 = "no" /\ v2 = 0 /\ \A d \in Calls : v14[d].at # "launch"
        BY <1>1, <1>7, Launching
    <2>2. v11 = {}
        BY <1>7, <2>1 DEF S!OneProxy
    <2> QED BY <1>1, <1>3, <2>1, <2>2 DEF S!OneProxy
<1> QED BY <1>1, <1>4, <1>6, <1>7 DEF S!SessionInv

LEMMA SessionLaunch ==
    ASSUME S!SessionInv, NEW c \in Calls, S!Launch(c) \/ S!LaunchFails(c) PROVE S!SessionInv'
<1>1. S!Types
    BY DEF S!SessionInv
<1>2. CASE S!Launch(c)
    <2>1. /\ UNCHANGED <<v1, v4, v9, v11, v15, v16, v18, v19>> /\ v14[c].at = "launch"
          /\ v14' = [v14 EXCEPT ![c].at = "route"]
          /\ v2' = v14[c].launch /\ v3' = v14[c].launch /\ v10' = v10 \cup {v14[c].launch}
        BY <1>2 DEF S!Launch, S!Goto, S!Settings, S!Reports, S!History
    <2>2. /\ v14' \in [Calls -> S!Call] /\ v14'[c].at = "route"
          /\ \A d \in Calls \ {c} : v14'[d] = v14[d]
        BY <1>1, <2>1, CallMoved DEF S!Stages
    <2>3. v14[c].launch \in Nat \ {0}
        BY <1>1, <2>1, CallOf DEF S!Types
    <2>4. S!Types'
        BY <1>1, <2>1, <2>2, <2>3 DEF S!Types
    <2>5. S!Running' \subseteq S!Running
        BY <2>1, <2>2 DEF S!Running, S!Ended
    <2>6. ASSUME ~v18, S!OneBrowser PROVE S!OneBrowser'
        <3>1. /\ v15 = "no" /\ v10 = {}
              /\ \A d \in Calls \ {c} : v14[d].at \in {"new", "done", "failed"}
            BY <2>1, <2>6, Launching
        <3> QED BY <2>1, <2>2, <2>5, <2>6, <3>1 DEF S!OneBrowser, S!attached
    <2>7. ASSUME ~v18, S!OneProxy PROVE S!OneProxy'
        <3>1. v15 = "no"
            BY <2>1, <2>7, Launching
        <3> QED BY <2>1, <2>3, <2>7, <3>1 DEF S!OneProxy
    <2> QED BY <2>1, <2>4, <2>6, <2>7 DEF S!SessionInv
<1>3. CASE S!LaunchFails(c)
    <2>1. /\ UNCHANGED <<v1, v2, v3, v4, v9, v10, v11, v15, v16, v18>> /\ v14[c].at = "launch"
          /\ S!End(c, "failed") /\ v19' = TRUE
        BY <1>3 DEF S!LaunchFails, S!Settings, S!Reports, S!World, S!fields
    <2>2. /\ v14' \in [Calls -> S!Call] /\ v14'[c].at = "failed"
          /\ \A d \in Calls \ {c} : v14'[d] = v14[d]
        BY <1>1, <2>1, CallEnds
    <2>3. S!Types'
        BY <1>1, <2>1, <2>2 DEF S!Types
    <2>4. S!Running' \subseteq S!Running
        BY <2>1, <2>2 DEF S!Running, S!Ended
    <2>5. S!OneBrowser => S!OneBrowser'
        BY <2>1, <2>2, <2>4 DEF S!OneBrowser, S!attached
    <2> QED BY <2>1, <2>3, <2>5 DEF S!SessionInv
<1> QED BY <1>2, <1>3

LEMMA CallObserved ==
    ASSUME S!SessionInv, NEW p \in v13,
           S!Dialog(p) \/ S!Popup(p) \/ S!PopupCloses(p) \/ S!PageCloses(p), NEW c \in Calls
    PROVE  v14'[c] \in S!Call /\ v14'[c].at = v14[c].at /\ v14'[c].launch = v14[c].launch
<1>1. S!Types
    BY DEF S!SessionInv
<1>2. v16.pages + 1 \in Nat /\ v16.dialogs + 1 \in Nat
    BY <1>1 DEF S!Types, S!Totals
<1>3. \/ v14' = v14
      \/ v14' = [d \in Calls |->
                   IF d \in S!Running THEN [v14[d] EXCEPT !.asked = Append(@, v16.dialogs + 1)]
                   ELSE v14[d]]
      \/ v14' = [d \in Calls |->
                   IF d \in S!Running /\ v14[d].at # "answer"
                   THEN [v14[d] EXCEPT !.opened = @ \cup {v16.pages + 1}] ELSE v14[d]]
    BY DEF S!Dialog, S!Popup, S!PopupCloses, S!PageCloses, S!During
<1>4. PICK a, b : a = v14[c] /\ b = v14'[c]
    OBVIOUS
<1>5. a \in S!Call
    BY <1>1, <1>4, CallOf
<1>6. \/ b = a
      \/ b = [a EXCEPT !.asked = Append(a.asked, v16.dialogs + 1)]
      \/ b = [a EXCEPT !.opened = a.opened \cup {v16.pages + 1}]
    BY <1>3, <1>4
<1>7. PICK asked, opened : /\ asked = Append(a.asked, v16.dialogs + 1)
                           /\ opened = a.opened \cup {v16.pages + 1}
    OBVIOUS
<1>8. asked \in Seq(Nat) /\ opened \in SUBSET Nat
    <2>1. a.asked \in Seq(Nat) /\ a.opened \subseteq Nat
        BY <1>1, <1>4, CallOf
    <2> QED BY <1>2, <1>7, <2>1, AppendFacts
<1>9. \/ b = a
      \/ b = [a EXCEPT !.asked = asked]
      \/ b = [a EXCEPT !.opened = opened]
    BY <1>6, <1>7
<1>10. b \in S!Call /\ b.at = a.at /\ b.launch = a.launch
    BY ONLY <1>5, <1>8, <1>9 DEF S!Call
<1> QED BY <1>4, <1>10

LEMMA SessionEvents ==
    ASSUME S!SessionInv, NEW p \in v13,
           S!Dialog(p) \/ S!Popup(p) \/ S!PopupCloses(p) \/ S!PageCloses(p)
    PROVE  S!SessionInv'
<1>1. UNCHANGED <<v1, v2, v3, v4, v10, v11, v15, v18, v19>>
    BY DEF S!Dialog, S!Popup, S!PopupCloses, S!PageCloses, S!Settings, S!Reports, S!History,
           S!fields
<1>2. S!Types
    BY DEF S!SessionInv
<1>3. v16' \in S!Totals
    <2>1. \/ v16' = v16
          \/ v16' = [v16 EXCEPT !.events = v16.events + 1]
          \/ v16' = [v16 EXCEPT !.pages = v16.pages + 1, !.events = v16.events + 1]
          \/ v16' = [v16 EXCEPT !.dialogs = v16.dialogs + 1, !.events = v16.events + 1]
        BY DEF S!Dialog, S!Popup, S!PopupCloses, S!PageCloses
    <2> QED BY <1>2, <2>1, TotalsGrow
<1>4. v16.pages + 1 \in Nat /\ v16.dialogs + 1 \in Nat
    BY <1>2 DEF S!Types, S!Totals
<1>5. v9' \subseteq Nat
    <2>1. v9' \subseteq v9 \cup {v16.pages + 1}
        BY DEF S!Dialog, S!Popup, S!PopupCloses, S!PageCloses, S!Appears, S!Reports
    <2> QED BY <1>2, <1>4, <2>1 DEF S!Types
<1>7. \A c \in Calls :
         v14'[c] \in S!Call /\ v14'[c].at = v14[c].at /\ v14'[c].launch = v14[c].launch
    BY CallObserved
<1>8. v14' \in [Calls -> S!Call]
    <2>1. v14 \in [Calls -> S!Call]
        BY <1>2 DEF S!Types
    <2>2. v14' = [c \in Calls |-> v14'[c]]
        BY <2>1 DEF S!Dialog, S!Popup, S!PopupCloses, S!PageCloses, S!During
    <2> QED BY <1>7, <2>2
<1> QED BY <1>1, <1>3, <1>5, <1>7, <1>8, SessionKept

LEMMA SessionDies ==
    ASSUME S!SessionInv, NEW k \in v10, S!BrowserDies(k) PROVE S!SessionInv'
<1>1. /\ UNCHANGED <<v1, v3, v4, v9, v11, v14, v15, v18>> /\ v19' = TRUE
      /\ v10' = v10 \ {k} /\ v2' \in {v2, 0}
      /\ v16' = [v16 EXCEPT !.events = v16.events + 1]
    BY DEF S!BrowserDies, S!ContextGone, S!Settings, S!Reports
<1>2. S!Types
    BY DEF S!SessionInv
<1>3. S!Types'
    BY <1>1, <1>2, TotalsGrow DEF S!Types
<1>4. ASSUME S!OneBrowser PROVE S!OneBrowser'
    <2>1. v15 = "no" => v10 = {k}
        BY <1>4 DEF S!OneBrowser
    <2>2. S!Running' = S!Running
        BY <1>1 DEF S!Running
    <2>3. v15 = "no" => v10' = {}
        BY <1>1, <2>1
    <2> QED BY <1>1, <1>4, <2>2, <2>3 DEF S!OneBrowser, S!attached
<1> QED BY <1>1, <1>3, <1>4 DEF S!SessionInv

LEMMA SessionCloses ==
    ASSUME S!SessionInv, S!CloseContext \/ S!CloseBrowser \/ S!CloseProxy PROVE S!SessionInv'
<1>1. S!Types
    BY DEF S!SessionInv
<1>2. UNCHANGED <<v1, v9, v14, v16, v19>>
    BY DEF S!CloseContext, S!CloseBrowser, S!CloseProxy, S!Settings, S!Reports, S!History
<1>3. S!Running' = S!Running
    BY <1>2 DEF S!Running
<1>4. CASE S!CloseContext
    <2>1. /\ UNCHANGED <<v3, v4, v10, v11>> /\ v15 = "no" /\ v15' = "browser"
          /\ v2' \in {v2, 0} /\ v18' = (v18 \/ S!Running # {})
        BY <1>4 DEF S!CloseContext, S!ContextGone, S!Reports
    <2>2. S!Types'
        BY <1>1, <1>2, <2>1 DEF S!Types
    <2>3. ~v18' /\ S!OneBrowser => S!OneBrowser'
        BY <1>2, <1>3, <2>1 DEF S!OneBrowser, S!attached
    <2>4. S!OneProxy => S!OneProxy'
        BY <1>2, <2>1 DEF S!OneProxy
    <2> QED BY <1>2, <2>1, <2>2, <2>3, <2>4 DEF S!SessionInv, S!Types
<1>5. CASE S!CloseBrowser
    <2>1. /\ UNCHANGED <<v2, v3, v4, v11, v18>> /\ v15 = "browser" /\ v15' = "proxy"
          /\ v10' = IF v1 = "attached" THEN v10 ELSE v10 \ {v3}
        BY <1>5 DEF S!CloseBrowser, S!fields, S!History, S!attached
    <2>2. S!Types'
        BY <1>1, <1>2, <2>1 DEF S!Types
    <2>3. S!OneBrowser => S!OneBrowser'
        BY <1>2, <1>3, <2>1 DEF S!OneBrowser, S!attached
    <2>4. S!OneProxy => S!OneProxy'
        BY <1>2, <2>1 DEF S!OneProxy
    <2> QED BY <1>2, <2>1, <2>2, <2>3, <2>4 DEF S!SessionInv
<1>6. CASE S!CloseProxy
    <2>1. /\ UNCHANGED <<v10, v18>> /\ v15 = "proxy" /\ v15' = "done"
          /\ v2' = 0 /\ v3' = 0 /\ v4' = 0 /\ v11' = v11 \ {v4}
        BY <1>6 DEF S!CloseProxy, S!EndProxy, S!History
    <2>2. S!Types'
        BY <1>1, <1>2, <2>1 DEF S!Types
    <2>3. S!OneBrowser => S!OneBrowser'
        BY <1>2, <1>3, <2>1 DEF S!OneBrowser, S!attached
    <2>4. S!OneProxy => S!OneProxy'
        BY <1>2, <2>1 DEF S!OneProxy
    <2> QED BY <1>2, <2>1, <2>2, <2>3, <2>4 DEF S!SessionInv
<1> QED BY <1>4, <1>5, <1>6

LEMMA SessionStep == ASSUME S!SessionInv, S!Next PROVE S!SessionInv'
<1>1. ASSUME NEW c \in Calls,
             \/ \E op \in {"act", "tab_new", "tab_switch", "close"} : S!Begin(c, op)
             \/ S!Ensure(c) \/ S!StartProxy(c) \/ S!Launch(c) \/ S!LaunchFails(c) \/ S!Route(c)
             \/ S!ChoosePage(c) \/ S!OpenPage(c) \/ S!Operate(c) \/ S!Fail(c)
             \/ S!AskContext(c) \/ S!NewTab(c) \/ S!SwitchTab(c) \/ S!CloseTab(c)
             \/ S!Drain(c) \/ S!Answer(c)
      PROVE  S!SessionInv'
    BY <1>1, SessionBegin, SessionEnsure, SessionProxy, SessionLaunch, SessionGoto,
       SessionOpen, SessionDrain
<1> QED BY <1>1, SessionEvents, SessionDies, SessionCloses DEF S!Next

\* close() leaves no browser that MELRA launched and no proxy behind, for any number of calls,
\* launches and events, unless calls overlapped, a launch failed or a browser died
\* (packages/browser-runtime/src/index.ts close and ensureContext).
THEOREM CloseLeavesNothing == Spec => []NothingOutlivesClose
<1> DEFINE Inv == part = "browser" => S!SessionInv
<1>1. Init => Inv
    BY BrowserInit DEF Init
<1>2. Inv /\ [Next]_vars => Inv'
    <2> SUFFICES ASSUME S!SessionInv, part = "browser", [Next]_vars PROVE S!SessionInv'
        BY PartStays
    <2>1. CASE UNCHANGED <<v1, v2, v3, v4, v5, v6, v7, v8, v9, v10, v11, v12, v13, v14,
                           v15, v16, v17, v18, v19>>
        BY <2>1 DEF S!SessionInv, S!Types, S!OneBrowser, S!OneProxy, S!Running, S!attached
    <2>2. CASE S!Next
        BY <2>2, SessionStep
    <2> QED BY <2>1, <2>2, BrowserSteps
<1>3. Inv => NothingOutlivesClose
    BY DEF NothingOutlivesClose, S!NothingOutlivesClose, S!SessionInv, S!OneBrowser, S!OneProxy
<1> QED BY <1>1, <1>2, <1>3, PTL DEF Spec

LEMMA WindowsCount ==
    ASSUME NEW X
    PROVE  S!Cardinality(X) = Cardinality(X) /\ (S!IsFiniteSet(X) <=> IsFiniteSet(X))
BY DEF S!Cardinality, Cardinality, S!IsFiniteSet, IsFiniteSet

LEMMA TellInit == ASSUME S!Init PROVE S!TellInv
<1>1. /\ v14 = [c \in Calls |-> S!New] /\ v2 = 0 /\ v10 = {} /\ v13 = {} /\ v7 = <<>>
      /\ v8 = {}
    BY DEF S!Init
<1>2. S!New.at = "new"
    BY DEF S!New
<1>3. S!Running = {}
    BY <1>1, <1>2 DEF S!Running, S!Ended
<1>4. S!IsFiniteSet(v8)
    BY <1>1, FS_EmptySet, WindowsCount
<1> QED BY <1>1, <1>2, <1>3, <1>4 DEF S!TellInv, S!Handled, S!Launched

\* The first of the dialogs that a call was asked are kept as they come.
LEMMA FirstFacts ==
    ASSUME NEW s \in Seq(Nat), NEW d \in Nat
    PROVE  /\ S!First(s) \in Seq(Nat) /\ S!First(<<>>) = <<>>
           /\ S!First(Append(s, d)) = IF Len(S!First(s)) < MaxDialogs
                                      THEN Append(S!First(s), d) ELSE S!First(s)
<1>1. MaxDialogs \in Nat
    BY ServicesAssumption
<1>2. SubSeq(<<>>, 1, 0) = <<>>
    OBVIOUS
<1>3. S!First(<<>>) = <<>>
    BY <1>1, <1>2 DEF S!First
<1>4. S!First(s) \in Seq(Nat)
    BY <1>1 DEF S!First
<1>5. CASE Len(s) < MaxDialogs
    <2>1. S!First(s) = SubSeq(s, 1, Len(s)) /\ SubSeq(s, 1, Len(s)) = s
        BY <1>5 DEF S!First
    <2>2. S!First(Append(s, d)) = SubSeq(Append(s, d), 1, Len(s) + 1)
        BY <1>1, <1>5, AppendFacts DEF S!First
    <2>3. SubSeq(Append(s, d), 1, Len(s) + 1) = Append(s, d)
        BY AppendFacts
    <2> QED BY <1>3, <1>4, <1>5, <2>1, <2>2, <2>3
<1>6. CASE ~(Len(s) < MaxDialogs)
    <2>1. S!First(s) = SubSeq(s, 1, MaxDialogs)
        BY <1>6 DEF S!First
    <2>2. S!First(Append(s, d)) = SubSeq(Append(s, d), 1, MaxDialogs)
        BY <1>1, <1>6, AppendFacts DEF S!First
    <2>3. SubSeq(Append(s, d), 1, MaxDialogs) = SubSeq(s, 1, MaxDialogs)
        BY <1>1, <1>6, AppendFacts
    <2>4. Len(SubSeq(s, 1, MaxDialogs)) = MaxDialogs
        BY <1>1, <1>6
    <2>5. Len(S!First(s)) = MaxDialogs
        BY <2>1, <2>4
    <2>6. ~(Len(S!First(s)) < MaxDialogs)
        BY ONLY <1>1, <2>5
    <2>7. S!First(Append(s, d)) = S!First(s)
        BY <2>1, <2>2, <2>3
    <2> QED BY ONLY <1>3, <1>4, <2>6, <2>7
<1> QED BY <1>5, <1>6

\* What one call that runs alone finds.
LEMMA AloneIn ==
    ASSUME S!SessionInv, ~v18, NEW c \in S!Running
    PROVE  v15 = "no" /\ v10 \subseteq {v2} /\ 0 \notin v10 /\ \A d \in S!Running : d = c
BY DEF S!SessionInv, S!OneBrowser, S!Types

\* A step of the calls in which the page does nothing keeps what was recorded, if no call
\* begins or reaches a page that has no handlers.
LEMMA TellKept ==
    ASSUME S!SessionInv, S!TellInv, UNCHANGED <<v1, v2, v7, v8, v10, v12, v18>>,
           v16'.pages = v16.pages, v13' \subseteq v13, v9 \subseteq v9', v14' \in [Calls -> S!Call],
           \A d \in S!Running' :
              /\ d \in S!Running
              /\ v14'[d].asked = v14[d].asked /\ v14'[d].opened = v14[d].opened
              /\ \/ v14'[d].at # "answer" /\ v14[d].at # "answer"
                 \/ v14'[d] = v14[d],
           \A d \in Calls :
              /\ v14'[d].at = "route" <=> v14[d].at = "route"
              /\ v14'[d].at = "route" => v14'[d].launch = v14[d].launch
              /\ v14'[d].at \in S!Launched =>
                    \/ v14[d].at \in S!Launched /\ v14'[d].launch = v14[d].launch
                    \/ v14'[d].launch \in v10 => v14'[d].launch \in v12
    PROVE  S!TellInv'
<1>1. v7' \in Seq(Nat) /\ v13' \subseteq [id : Nat, of : Nat] /\ S!IsFiniteSet(v8')
    BY DEF S!TellInv
<1>2. S!Handled => S!Handled'
    BY DEF S!Handled, S!Launched
<1>3. ASSUME NEW d \in S!Running', ~v18, \A c \in S!Running : S!Recorded(c)
      PROVE  S!Recorded(d)'
    <2>1. /\ S!Recorded(d) /\ v14'[d].asked = v14[d].asked /\ v14'[d].opened = v14[d].opened
          /\ \/ v14'[d].at # "answer" /\ v14[d].at # "answer"
             \/ v14'[d] = v14[d]
        BY <1>3
    <2>2. S!PageIds(v13') \subseteq S!PageIds(v13)
        BY DEF S!PageIds
    <2>3. v7' = S!First(v14'[d].asked) /\ v14'[d].opened \subseteq 1..v16'.pages
        BY <2>1 DEF S!Recorded
    <2>4. v14'[d].opened \subseteq v8' \/ S!Cardinality(v8') >= MaxDialogs
        BY <2>1 DEF S!Recorded
    <2>5. \/ S!allows
          \/ v14'[d].opened \cap S!PageIds(v13') \subseteq
                IF v14'[d].at = "answer" THEN v14'[d].taken ELSE v9'
        BY <2>1, <2>2 DEF S!Recorded
    <2>6. S!allows' = S!allows
        BY DEF S!allows
    <2> QED BY <2>3, <2>4, <2>5, <2>6 DEF S!Recorded
<1> QED BY <1>1, <1>2, <1>3 DEF S!TellInv

\* The steps of a call that ends.
LEMMA TellEnds ==
    ASSUME S!SessionInv, S!TellInv, NEW c \in Calls, NEW at \in {"done", "failed"}, S!End(c, at),
           UNCHANGED <<v1, v2, v7, v8, v10, v12, v13, v16, v18>>, v9 \subseteq v9',
           v14[c].at # "route"
    PROVE  S!TellInv'
<1>1. S!Types
    BY DEF S!SessionInv
<1>2. /\ v14' \in [Calls -> S!Call] /\ v14'[c].at = at
      /\ \A d \in Calls \ {c} : v14'[d] = v14[d]
    BY <1>1, CallEnds
<1>3. \A d \in S!Running' : d \in S!Running /\ v14'[d] = v14[d]
    BY <1>2 DEF S!Running, S!Ended
<1> QED BY <1>2, <1>3, TellKept DEF S!Launched

\* The steps of a call from one place to another.
LEMMA TellMoves ==
    ASSUME S!SessionInv, S!TellInv, NEW c \in Calls, NEW at \in S!Stages,
           v14' = [v14 EXCEPT ![c].at = at],
           v14[c].at \in {"connect", "page", "run", "tab"},
           at \in {"launch", "open", "run", "drain"},
           at = "launch" <=> v14[c].at = "connect",
           UNCHANGED <<v1, v2, v7, v8, v9, v10, v12, v16, v18>>, v13' \subseteq v13
    PROVE  S!TellInv'
<1>1. S!Types
    BY DEF S!SessionInv
<1>2. /\ v14' \in [Calls -> S!Call] /\ v14'[c].at = at /\ v14'[c].launch = v14[c].launch
      /\ v14'[c].asked = v14[c].asked /\ v14'[c].opened = v14[c].opened
      /\ \A d \in Calls \ {c} : v14'[d] = v14[d]
    BY <1>1, CallMoved
<1>3. S!Running' \subseteq S!Running
    BY <1>2 DEF S!Running, S!Ended
<1>4. /\ at # "route" /\ v14[c].at # "route" /\ at # "answer" /\ v14[c].at # "answer"
      /\ at \in S!Launched => v14[c].at \in S!Launched
    BY DEF S!Launched
<1> QED BY <1>2, <1>3, <1>4, TellKept

LEMMA TellWork ==
    ASSUME S!SessionInv, S!TellInv, NEW c \in Calls,
           \/ S!ChoosePage(c) \/ S!Operate(c) \/ S!NewTab(c) \/ S!SwitchTab(c) \/ S!CloseTab(c)
           \/ S!Fail(c) \/ S!Answer(c) \/ S!StartProxy(c) \/ S!LaunchFails(c)
    PROVE  S!TellInv'
<1>1. /\ UNCHANGED <<v1, v2, v7, v8, v9, v10, v12, v16, v18>> /\ v13' \subseteq v13
      /\ \/ v13' = v13 /\ v14[c].at # "route" /\ \E at \in {"done", "failed"} : S!End(c, at)
         \/ \E at \in {"launch", "open", "run", "drain"} :
               /\ v14' = [v14 EXCEPT ![c].at = at]
               /\ v14[c].at \in {"connect", "page", "run", "tab"}
               /\ at = "launch" <=> v14[c].at = "connect"
    BY DEF S!ChoosePage, S!Operate, S!NewTab, S!SwitchTab, S!CloseTab, S!Fail, S!Answer,
           S!StartProxy, S!LaunchFails, S!Goto, S!Settings, S!Reports, S!World, S!History,
           S!fields
<1>2. CASE v13' = v13 /\ v14[c].at # "route" /\ \E at \in {"done", "failed"} : S!End(c, at)
    BY <1>1, <1>2, TellEnds
<1>3. ASSUME NEW at \in {"launch", "open", "run", "drain"},
             v14' = [v14 EXCEPT ![c].at = at], v14[c].at \in {"connect", "page", "run", "tab"},
             at = "launch" <=> v14[c].at = "connect"
      PROVE  S!TellInv'
    <2>1. at \in S!Stages
        BY DEF S!Stages
    <2> QED BY <1>1, <1>3, <2>1, TellMoves
<1> QED BY <1>1, <1>2, <1>3

LEMMA TellPages ==
    ASSUME S!SessionInv, S!TellInv, NEW p \in v13, S!PopupCloses(p) \/ S!PageCloses(p)
    PROVE  S!TellInv'
<1>1. /\ UNCHANGED <<v1, v2, v7, v8, v9, v10, v12, v14, v18>> /\ v13' \subseteq v13
    BY DEF S!PopupCloses, S!PageCloses, S!Settings, S!Reports, S!History, S!fields
<1>2. S!Running' = S!Running /\ v14' \in [Calls -> S!Call]
    BY <1>1 DEF S!Running, S!SessionInv, S!Types
<1>3. v16'.pages = v16.pages
    <2>1. v16' = v16 \/ v16' = [v16 EXCEPT !.events = v16.events + 1]
        BY DEF S!PopupCloses, S!PageCloses
    <2> QED BY <2>1 DEF S!SessionInv, S!Types, S!Totals
<1> QED BY <1>1, <1>2, <1>3, TellKept

LEMMA TellAsks ==
    ASSUME S!SessionInv, S!TellInv, NEW c \in Calls, S!AskContext(c) PROVE S!TellInv'
<1>1. /\ UNCHANGED <<v1, v2, v7, v8, v9, v10, v12, v13, v16, v18>> /\ v14[c].at = "run"
      /\ v14' = [v14 EXCEPT ![c].at = "context", ![c].next = "tab"]
    BY DEF S!AskContext, S!Settings, S!Reports, S!World, S!History, S!fields
<1>2. S!Types
    BY DEF S!SessionInv
<1>3. PICK m, j : m = [v14[c] EXCEPT !.at = "context"] /\ j = [m EXCEPT !.next = "tab"]
    OBVIOUS
<1>4. v14[c] \in S!Call
    BY <1>2, CallOf
<1>5. /\ m \in S!Call /\ m.at = "context"
      /\ m.asked = v14[c].asked /\ m.opened = v14[c].opened
    BY ONLY <1>3, <1>4 DEF S!Call, S!Stages
<1>6. /\ j \in S!Call /\ j.at = "context"
      /\ j.asked = v14[c].asked /\ j.opened = v14[c].opened
    BY ONLY <1>3, <1>5 DEF S!Call
<1>7. v14' = [v14 EXCEPT ![c] = j]
    BY <1>1, <1>3
<1>8. /\ v14' \in [Calls -> S!Call] /\ v14'[c] = j
      /\ \A d \in Calls \ {c} : v14'[d] = v14[d]
    BY <1>2, <1>6, <1>7, CallSet
<1>9. S!Running' \subseteq S!Running
    BY <1>1, <1>8 DEF S!Running, S!Ended
<1>10. "context" \notin S!Launched
    BY DEF S!Launched
<1>11. \A d \in S!Running' :
          /\ d \in S!Running
          /\ v14'[d].asked = v14[d].asked /\ v14'[d].opened = v14[d].opened
          /\ \/ v14'[d].at # "answer" /\ v14[d].at # "answer"
             \/ v14'[d] = v14[d]
    BY <1>1, <1>6, <1>8, <1>9 DEF S!Running
<1>12. \A d \in Calls : d = c \/ v14'[d] = v14[d]
    BY <1>8
<1>13. v14'[c].at = "context" /\ v14[c].at = "run"
    BY <1>1, <1>6, <1>8
<1> QED BY <1>1, <1>8, <1>10, <1>11, <1>12, <1>13, TellKept

LEMMA TellEnsure ==
    ASSUME S!SessionInv, S!TellInv, NEW c \in Calls, S!Ensure(c) PROVE S!TellInv'
<1>1. /\ UNCHANGED <<v1, v2, v7, v8, v9, v10, v12, v13, v18>> /\ v14[c].at = "context"
    BY DEF S!Ensure, S!Settings, S!Reports, S!History, S!fields
<1>2. S!Types
    BY DEF S!SessionInv
<1>3. PICK at, launch :
         /\ v14' = [v14 EXCEPT ![c].at = at, ![c].launch = launch]
         /\ \/ at = v14[c].next /\ launch = v2
            \/ at = "connect" /\ launch = v16.launches + 1
    BY DEF S!Ensure
<1>9. v16'.pages = v16.pages
    <2>1. v16' = [v16 EXCEPT !.launches = IF v2 = 0 THEN v16.launches + 1 ELSE v16.launches]
        BY DEF S!Ensure
    <2> QED BY <1>2, <2>1 DEF S!Types, S!Totals
<1>4. at \in {"page", "tab", "connect"} /\ at \in S!Stages /\ launch \in Nat
    BY <1>2, <1>3, CallOf DEF S!Types, S!Totals, S!Stages
<1>5. /\ v14' \in [Calls -> S!Call] /\ v14'[c].at = at /\ v14'[c].launch = launch
      /\ v14'[c].asked = v14[c].asked /\ v14'[c].opened = v14[c].opened
      /\ \A d \in Calls \ {c} : v14'[d] = v14[d]
    BY <1>2, <1>3, <1>4, CallPlaced
<1>6. c \in S!Running /\ S!Running' \subseteq S!Running
    BY <1>1, <1>5 DEF S!Running, S!Ended
<1>7. CASE ~v18
    <2>1. \A d \in Calls : v14[d].at # "route"
        BY <1>1, <1>6, <1>7, AloneIn DEF S!Running, S!Ended
    <2>2. v2 \in v10 => v2 \in v12
        BY <1>7, <2>1 DEF S!TellInv, S!Handled
    <2>3. at \in S!Launched => launch = v2
        BY <1>3 DEF S!Launched
    <2>4. \A d \in S!Running' :
             /\ d \in S!Running
             /\ v14'[d].asked = v14[d].asked /\ v14'[d].opened = v14[d].opened
             /\ \/ v14'[d].at # "answer" /\ v14[d].at # "answer"
                \/ v14'[d] = v14[d]
        BY <1>1, <1>4, <1>5, <1>6 DEF S!Running
    <2>5. \A d \in Calls : d = c \/ v14'[d] = v14[d]
        BY <1>5
    <2>6. /\ v14'[c].at # "route" /\ v14[c].at # "route"
          /\ v14'[c].at \in S!Launched => (v14'[c].launch \in v10 => v14'[c].launch \in v12)
        BY <1>1, <1>4, <1>5, <2>2, <2>3
    <2> QED BY <1>1, <1>5, <1>9, <2>4, <2>5, <2>6, TellKept
<1>8. CASE v18
    BY <1>1, <1>8 DEF S!TellInv
<1> QED BY <1>7, <1>8

\* A page that appears is recorded and closed, unless MELRA opens one or such pages stay.
LEMMA Appearance ==
    ASSUME S!SessionInv, S!TellInv, NEW k \in Nat, S!Appears(k)
    PROVE  /\ v13' \subseteq [id : Nat, of : Nat] /\ S!IsFiniteSet(v8')
           /\ S!PageIds(v13') = S!PageIds(v13) \cup {v16.pages + 1}
           /\ \A p \in v13' : p \in v13 \/ p.of = k
           /\ v8 \subseteq v8' /\ v9 \subseteq v9'
           /\ S!Cardinality(v8) >= MaxDialogs => v8' = v8
           /\ ~v6 /\ k \in v12 => /\ v16.pages + 1 \in v8' \/ S!Cardinality(v8') >= MaxDialogs
                                  /\ S!allows \/ v16.pages + 1 \in v9'
<1>1. v16.pages \in Nat /\ MaxDialogs \in Nat
    BY ServicesAssumption DEF S!SessionInv, S!Types, S!Totals, ServicesAssumption
<1>2. PICK n, page : n = v16.pages + 1 /\ page = [id |-> n, of |-> k]
    OBVIOUS
<1>3. page \in [id : Nat, of : Nat] /\ page.id = n /\ page.of = k
    BY <1>1, <1>2
<1>4. v13' = v13 \cup {page} /\ v13 \subseteq [id : Nat, of : Nat]
    BY <1>2 DEF S!Appears, S!TellInv
<1>5. S!PageIds(v13') = S!PageIds(v13) \cup {n}
    BY <1>3, <1>4 DEF S!PageIds
<1>6. v13' \subseteq [id : Nat, of : Nat] /\ \A p \in v13' : p \in v13 \/ p.of = k
    BY <1>3, <1>4
<1>7. /\ v8' = v8 /\ v9' = v9 /\ ~(~v6 /\ k \in v12)
      \/ /\ v8' = IF S!Cardinality(v8) < MaxDialogs THEN v8 \cup {n} ELSE v8
         /\ v9' = IF S!allows THEN v9 ELSE v9 \cup {n}
    BY <1>2 DEF S!Appears
<1>8. S!Cardinality(v8) \in Nat /\ IsFiniteSet(v8)
    <2>1. S!IsFiniteSet(v8)
        BY DEF S!TellInv
    <2>2. IsFiniteSet(v8)
        BY <2>1, WindowsCount
    <2>3. Cardinality(v8) \in Nat
        BY <2>2, FS_CardinalityType
    <2>4. S!Cardinality(v8) = Cardinality(v8)
        BY WindowsCount
    <2> QED BY <2>2, <2>3, <2>4
<1>9. S!IsFiniteSet(v8')
    BY <1>7, <1>8, WindowsCount, FS_AddElement
<1>10. /\ v8 \subseteq v8' /\ v9 \subseteq v9'
       /\ S!Cardinality(v8) >= MaxDialogs => v8' = v8
    BY <1>1, <1>7, <1>8
<1>11. ~v6 /\ k \in v12 => /\ n \in v8' \/ S!Cardinality(v8') >= MaxDialogs
                           /\ S!allows \/ n \in v9'
    <2>1. CASE S!Cardinality(v8) < MaxDialogs
        BY <1>7, <2>1
    <2>2. CASE ~(S!Cardinality(v8) < MaxDialogs)
        <3>1. S!Cardinality(v8) >= MaxDialogs /\ v8' = v8
            BY <1>1, <1>7, <1>8, <2>2
        <3> QED BY <1>7, <3>1
    <2> QED BY <2>1, <2>2
<1> QED BY <1>2, <1>5, <1>6, <1>9, <1>10, <1>11

LEMMA TellOpen ==
    ASSUME S!SessionInv, S!TellInv, NEW c \in Calls, S!OpenPage(c) PROVE S!TellInv'
<1>1. UNCHANGED <<v1, v2, v7, v10, v12, v18>> /\ v14[c].at = "open"
    BY DEF S!OpenPage, S!Settings, S!History
<1>2. S!Types /\ v14[c].launch \in Nat /\ v16.pages \in Nat
    BY CallOf DEF S!SessionInv, S!Types, S!Totals
<1>3. CASE v14[c].launch \notin v10
    <2>1. S!End(c, "failed") /\ UNCHANGED <<v8, v9, v13, v16>>
        BY <1>3 DEF S!OpenPage
    <2> QED BY <1>1, <2>1, TellEnds
<1>4. CASE v14[c].launch \in v10
    <2>1. /\ S!Appears(v14[c].launch)
          /\ v16' = [v16 EXCEPT !.pages = v16.pages + 1]
        BY <1>4 DEF S!OpenPage
    <2>2. PICK op : v14' = [v14 EXCEPT ![c].at = "run", ![c].op = op]
                    /\ op \in {v14[c].op, "act"}
        BY <1>4 DEF S!OpenPage
    <2>3. PICK m, j : m = [v14[c] EXCEPT !.at = "run"] /\ j = [m EXCEPT !.op = op]
        OBVIOUS
    <2>4. v14' = [v14 EXCEPT ![c] = j]
        BY <2>2, <2>3
    <2>5. v14[c] \in S!Call
        BY <1>2, CallOf
    <2>6. /\ m \in S!Call /\ m.at = "run" /\ m.launch = v14[c].launch
          /\ m.asked = v14[c].asked /\ m.opened = v14[c].opened
        BY ONLY <2>3, <2>5 DEF S!Call, S!Stages
    <2>7. op \in {"act", "tab_new", "tab_switch", "close"}
        BY <2>2, <2>5 DEF S!Call
    <2>8. /\ j \in S!Call /\ j.at = "run" /\ j.launch = v14[c].launch
          /\ j.asked = v14[c].asked /\ j.opened = v14[c].opened
        BY ONLY <2>3, <2>6, <2>7 DEF S!Call
    <2>9. /\ v14' \in [Calls -> S!Call] /\ v14'[c] = j
          /\ \A d \in Calls \ {c} : v14'[d] = v14[d]
        BY <1>2, <2>4, <2>8, CallSet
    <2>10. S!Running' = S!Running /\ c \in S!Running
        BY <1>1, <2>8, <2>9 DEF S!Running, S!Ended
    <2>11. v16'.pages = v16.pages + 1
        BY <1>2, <2>1 DEF S!Types, S!Totals
    <2>12. /\ v13' \subseteq [id : Nat, of : Nat] /\ S!IsFiniteSet(v8')
           /\ S!PageIds(v13') = S!PageIds(v13) \cup {v16.pages + 1}
           /\ \A p \in v13' : p \in v13 \/ p.of = v14[c].launch
           /\ v8 \subseteq v8' /\ v9 \subseteq v9'
           /\ S!Cardinality(v8) >= MaxDialogs => v8' = v8
        BY <1>2, <2>1, Appearance
    <2>13. S!Handled => S!Handled'
        <3>1. "open" \in S!Launched /\ "run" \in S!Launched
            BY DEF S!Launched
        <3>2. \A d \in Calls : /\ v14'[d].launch = v14[d].launch
                               /\ v14'[d].at = "route" <=> v14[d].at = "route"
                               /\ v14'[d].at \in S!Launched <=> v14[d].at \in S!Launched
            BY <1>1, <2>8, <2>9, <3>1
        <3> QED BY <1>1, <1>4, <2>12, <3>1, <3>2 DEF S!Handled
    <2>14. ASSUME ~v18, S!Recorded(c) PROVE S!Recorded(c)'
        <3>1. v14'[c].asked = v14[c].asked /\ v14'[c].opened = v14[c].opened
              /\ v14'[c].at = "run"
            BY <2>8, <2>9
        <3>2. v14[c].opened \subseteq 1..v16.pages
            BY <2>14 DEF S!Recorded
        <3>3. v14[c].opened \subseteq 1..(v16.pages + 1) /\ v16.pages + 1 \notin v14[c].opened
            BY ONLY <1>2, <3>2
        <3>4. v7' = S!First(v14'[c].asked) /\ v14'[c].opened \subseteq 1..v16'.pages
            BY <1>1, <2>11, <2>14, <3>1, <3>3 DEF S!Recorded
        <3>5. v14'[c].opened \subseteq v8' \/ S!Cardinality(v8') >= MaxDialogs
            BY <2>12, <2>14, <3>1 DEF S!Recorded
        <3>6. S!allows \/ v14'[c].opened \cap S!PageIds(v13') \subseteq v9'
            BY <1>1, <2>12, <2>14, <3>1, <3>3 DEF S!Recorded
        <3>7. S!allows' = S!allows
            BY <1>1 DEF S!allows
        <3> QED BY <3>1, <3>4, <3>5, <3>6, <3>7 DEF S!Recorded
    <2>15. ~v18 => S!Running = {c}
        BY <2>10, AloneIn
    <2> QED BY <1>1, <2>10, <2>12, <2>13, <2>14, <2>15 DEF S!TellInv
<1> QED BY <1>3, <1>4

LEMMA TellLaunch ==
    ASSUME S!SessionInv, S!TellInv, NEW c \in Calls, S!Launch(c) \/ S!Route(c)
    PROVE  S!TellInv'
<1>1. UNCHANGED <<v1, v7, v8, v9, v13, v16, v18>> /\ v14[c].at \in {"launch", "route"}
    BY DEF S!Launch, S!Route, S!Settings, S!Reports, S!History, S!fields
<1>2. S!Types /\ c \in S!Running
    BY <1>1 DEF S!SessionInv, S!Running, S!Ended
<1>3. CASE v18
    BY <1>1, <1>3 DEF S!TellInv
<1> SUFFICES ASSUME ~v18 PROVE S!TellInv'
    BY <1>3
<1>4. /\ v15 = "no" /\ v10 \subseteq {v2} /\ 0 \notin v10 /\ S!Running = {c}
      /\ S!Handled /\ S!Recorded(c)
    BY <1>2, AloneIn DEF S!TellInv
<1>5. ASSUME v14' \in [Calls -> S!Call], S!Running' \subseteq {c},
             c \in S!Running' =>
                v14'[c].at # "answer" /\ v14'[c].asked = v14[c].asked
                /\ v14'[c].opened = v14[c].opened,
             S!Handled'
      PROVE  S!TellInv'
    <2>1. v14[c].at # "answer"
        BY <1>1
    <2>2. S!allows' = S!allows /\ S!PageIds(v13') = S!PageIds(v13)
        BY <1>1 DEF S!allows
    <2>3. c \in S!Running' => S!Recorded(c)'
        BY <1>1, <1>4, <1>5, <2>1, <2>2 DEF S!Recorded
    <2> QED BY <1>1, <1>5, <2>3 DEF S!TellInv
<1>6. CASE S!Launch(c)
    <2>1. /\ v14[c].at = "launch" /\ v14' = [v14 EXCEPT ![c].at = "route"] /\ v12' = v12
          /\ v2' = v14[c].launch /\ v10' = v10 \cup {v14[c].launch}
        BY <1>6 DEF S!Launch, S!Goto
    <2>2. /\ v14' \in [Calls -> S!Call] /\ v14'[c].at = "route"
          /\ v14'[c].launch = v14[c].launch
          /\ v14'[c].asked = v14[c].asked /\ v14'[c].opened = v14[c].opened
          /\ \A d \in Calls \ {c} : v14'[d] = v14[d]
        BY <1>2, <2>1, CallMoved DEF S!Stages
    <2>3. \A d \in Calls \ {c} : v14[d].at \in {"new", "done", "failed"}
        BY <1>4 DEF S!Running, S!Ended
    <2>4. S!Handled'
        BY <1>1, <1>4, <2>1, <2>2, <2>3 DEF S!Handled, S!Launched
    <2>5. S!Running' \subseteq {c}
        BY <2>2, <2>3 DEF S!Running, S!Ended
    <2> QED BY <1>5, <2>2, <2>4, <2>5
<1>7. CASE S!Route(c)
    <2>1. v14[c].at = "route" /\ UNCHANGED <<v2, v10>>
        BY <1>7 DEF S!Route, S!fields
    <2>2. v2 \in {v14[c].launch, 0}
        BY <1>4, <2>1 DEF S!Handled
    <2>3. \A d \in Calls \ {c} : v14[d].at \in {"new", "done", "failed"}
        BY <1>4 DEF S!Running, S!Ended
    <2>4. CASE v14[c].launch \in v10
        <3>1. PICK at : /\ at = v14[c].next
                        /\ v14' = [v14 EXCEPT ![c].at = at, ![c].launch = v2]
                        /\ v12' = v12 \cup {v14[c].launch}
            BY <1>7, <2>4 DEF S!Route
        <3>2. at \in {"page", "tab"} /\ at \in S!Stages /\ v2 \in Nat
            BY <1>2, <3>1, CallOf DEF S!Stages, S!Types
        <3>3. /\ v14' \in [Calls -> S!Call] /\ v14'[c].at = at /\ v14'[c].launch = v2
              /\ v14'[c].asked = v14[c].asked /\ v14'[c].opened = v14[c].opened
              /\ \A d \in Calls \ {c} : v14'[d] = v14[d]
            <4>1. PICK m, j : m = [v14[c] EXCEPT !.at = at] /\ j = [m EXCEPT !.launch = v2]
                OBVIOUS
            <4>2. v14[c] \in S!Call
                BY <1>2, CallOf
            <4>3. /\ m \in S!Call /\ m.at = at
                  /\ m.asked = v14[c].asked /\ m.opened = v14[c].opened
                BY ONLY <3>2, <4>1, <4>2 DEF S!Call
            <4>4. /\ j \in S!Call /\ j.at = at /\ j.launch = v2
                  /\ j.asked = v14[c].asked /\ j.opened = v14[c].opened
                BY ONLY <3>2, <4>1, <4>3 DEF S!Call
            <4>5. v14' = [v14 EXCEPT ![c] = j]
                BY <3>1, <4>1
            <4> QED BY <1>2, <4>4, <4>5, CallSet
        <3>4. v2 = v14[c].launch
            BY <1>4, <2>4
        <3>5. S!Handled'
            BY <1>1, <1>4, <2>1, <2>3, <3>1, <3>2, <3>3, <3>4 DEF S!Handled, S!Launched
        <3>6. S!Running' \subseteq {c}
            BY <2>3, <3>3 DEF S!Running, S!Ended
        <3> QED BY <1>5, <3>2, <3>3, <3>5, <3>6
    <2>5. CASE v14[c].launch \notin v10
        <3>1. S!End(c, "failed") /\ v12' = v12
            BY <1>7, <2>5 DEF S!Route
        <3>2. /\ v14' \in [Calls -> S!Call] /\ v14'[c].at = "failed"
              /\ \A d \in Calls \ {c} : v14'[d] = v14[d]
            BY <1>2, <3>1, CallEnds
        <3>3. v2 \notin v10
            BY <1>4, <2>2, <2>5
        <3>4. S!Handled'
            BY <1>1, <1>4, <2>1, <2>3, <3>1, <3>2, <3>3 DEF S!Handled, S!Launched
        <3>5. S!Running' \subseteq {c} /\ c \notin S!Running'
            BY <2>3, <3>2 DEF S!Running, S!Ended
        <3> QED BY <1>5, <3>2, <3>4, <3>5
    <2> QED BY <2>4, <2>5
<1> QED BY <1>6, <1>7

LEMMA TellBegin ==
    ASSUME S!SessionInv, S!TellInv, NEW c \in Calls,
           NEW op \in {"act", "tab_new", "tab_switch", "close"}, S!Begin(c, op)
    PROVE  S!TellInv'
<1>1. /\ UNCHANGED <<v1, v2, v9, v10, v12, v13, v16>> /\ v14[c].at = "new"
      /\ v18' = (v18 \/ S!Running # {} \/ v15 # "no") /\ v7' = <<>> /\ v8' = {}
    BY DEF S!Begin, S!Enter, S!Settings, S!World, S!fields
<1>2. S!Types
    BY DEF S!SessionInv
<1>3. PICK m, j : /\ m = [S!New EXCEPT !.at = "context"] /\ j = [m EXCEPT !.op = op]
                  /\ v14' = [v14 EXCEPT ![c] = j]
    BY DEF S!Begin, S!Enter
<1>4. j \in S!Call /\ j.at = "context" /\ j.asked = <<>> /\ j.opened = {}
    <2>1. S!New \in S!Call /\ S!New.asked = <<>> /\ S!New.opened = {}
        BY DEF S!New, S!Call, S!Stages
    <2>2. PICK new : new = S!New
        OBVIOUS
    <2>3. /\ m = [new EXCEPT !.at = "context"] /\ new \in S!Call
          /\ new.asked = <<>> /\ new.opened = {}
        BY <1>3, <2>1, <2>2
    <2>4. m \in S!Call /\ m.at = "context" /\ m.asked = <<>> /\ m.opened = {}
        BY ONLY <2>3 DEF S!Call, S!Stages
    <2>5. j = [m EXCEPT !.op = op]
        BY <1>3
    <2> QED BY ONLY <2>4, <2>5, op \in {"act", "tab_new", "tab_switch", "close"} DEF S!Call
<1>5. /\ v14' \in [Calls -> S!Call] /\ v14'[c] = j
      /\ \A d \in Calls \ {c} : v14'[d] = v14[d]
    BY <1>2, <1>3, <1>4, CallSet
<1>6. S!Handled => S!Handled'
    <2>1. "context" \notin S!Launched /\ "new" \notin S!Launched
        BY DEF S!Launched
    <2> QED BY <1>1, <1>4, <1>5, <2>1 DEF S!Handled
<1>7. S!IsFiniteSet(v8')
    BY <1>1, FS_EmptySet, WindowsCount
<1>8. v7' \in Seq(Nat)
    BY <1>1
<1>9. ASSUME ~v18' PROVE \A d \in S!Running' : S!Recorded(d)'
    <2>1. S!Running = {}
        BY <1>1, <1>9
    <2>2. S!Running' \subseteq {c}
        BY <1>5, <2>1 DEF S!Running
    <2>3. S!First(<<>>) = <<>>
        BY <1>8, 0 \in Nat, <<>> \in Seq(Nat), FirstFacts
    <2>4. S!Recorded(c)'
        BY <1>1, <1>4, <1>5, <2>3 DEF S!Recorded
    <2> QED BY <2>2, <2>4
<1>10. v18' \/ ~v18
    BY <1>1 DEF S!SessionInv, S!Types
<1> QED BY <1>1, <1>6, <1>7, <1>8, <1>9, <1>10 DEF S!TellInv

LEMMA TellDrain ==
    ASSUME S!SessionInv, S!TellInv, NEW c \in Calls, S!Drain(c) PROVE S!TellInv'
<1>1. /\ UNCHANGED <<v1, v2, v7, v8, v10, v12, v13, v16, v18>> /\ v14[c].at = "drain"
      /\ v14' = [v14 EXCEPT ![c].at = "answer", ![c].taken = v9] /\ v9' = {}
    BY DEF S!Drain, S!Settings, S!World, S!History, S!fields
<1>2. S!Types /\ c \in S!Running
    BY <1>1 DEF S!SessionInv, S!Running, S!Ended
<1>3. PICK m, j : m = [v14[c] EXCEPT !.at = "answer"] /\ j = [m EXCEPT !.taken = v9]
    OBVIOUS
<1>4. v14[c] \in S!Call /\ v9 \in SUBSET Nat
    BY <1>2, CallOf DEF S!Types
<1>5. /\ m \in S!Call /\ m.at = "answer" /\ m.launch = v14[c].launch
      /\ m.asked = v14[c].asked /\ m.opened = v14[c].opened
    BY ONLY <1>3, <1>4 DEF S!Call, S!Stages
<1>6. /\ j \in S!Call /\ j.at = "answer" /\ j.launch = v14[c].launch
      /\ j.asked = v14[c].asked /\ j.opened = v14[c].opened /\ j.taken = v9
    BY ONLY <1>3, <1>4, <1>5 DEF S!Call
<1>7. v14' = [v14 EXCEPT ![c] = j]
    BY <1>1, <1>3
<1>8. /\ v14' \in [Calls -> S!Call] /\ v14'[c] = j
      /\ \A d \in Calls \ {c} : v14'[d] = v14[d]
    BY <1>2, <1>6, <1>7, CallSet
<1>9. S!Running' \subseteq S!Running
    BY <1>2, <1>8 DEF S!Running, S!Ended
<1>10. S!Handled => S!Handled'
    <2>1. "drain" \in S!Launched
        BY DEF S!Launched
    <2> QED BY <1>1, <1>6, <1>8, <2>1 DEF S!Handled
<1>11. ~v18 => S!Running = {c}
    BY <1>2, AloneIn
<1>12. S!Recorded(c) => S!Recorded(c)'
    BY <1>1, <1>6, <1>8 DEF S!Recorded, S!allows, S!PageIds
<1> QED BY <1>1, <1>2, <1>9, <1>10, <1>11, <1>12 DEF S!TellInv

LEMMA TellDialog ==
    ASSUME S!SessionInv, S!TellInv, NEW p \in v13, S!Dialog(p) PROVE S!TellInv'
<1>1. PICK d : /\ d = v16.dialogs + 1
               /\ v16' = [v16 EXCEPT !.dialogs = d, !.events = v16.events + 1]
               /\ v7' = IF Len(v7) < MaxDialogs THEN Append(v7, d) ELSE v7
               /\ v14' = [c \in Calls |->
                             IF c \in S!Running THEN [v14[c] EXCEPT !.asked = Append(@, d)]
                             ELSE v14[c]]
    BY DEF S!Dialog, S!During
<1>2. UNCHANGED <<v1, v2, v8, v9, v10, v12, v13, v18>>
    BY DEF S!Dialog, S!Settings, S!fields
<1>3. S!Types /\ d \in Nat /\ v16'.pages = v16.pages
    <2>1. S!Types
        BY DEF S!SessionInv
    <2> QED BY <1>1, <2>1 DEF S!Types, S!Totals
<1>4. ASSUME NEW c \in Calls
      PROVE  /\ v14'[c].at = v14[c].at /\ v14'[c].launch = v14[c].launch
             /\ v14'[c].taken = v14[c].taken /\ v14'[c].opened = v14[c].opened
             /\ c \in S!Running => v14'[c].asked = Append(v14[c].asked, d)
    <2>1. PICK a, b, asked : a = v14[c] /\ b = v14'[c] /\ asked = Append(a.asked, d)
        OBVIOUS
    <2>2. a \in S!Call /\ asked \in Seq(Nat)
        BY <1>3, <2>1, CallOf, AppendFacts
    <2>3. b = IF c \in S!Running THEN [a EXCEPT !.asked = asked] ELSE a
        BY <1>1, <2>1
    <2>4. /\ b.at = a.at /\ b.launch = a.launch /\ b.taken = a.taken /\ b.opened = a.opened
          /\ c \in S!Running => b.asked = asked
        BY ONLY <2>2, <2>3 DEF S!Call
    <2> QED BY <2>1, <2>4
<1>5. S!Running' = S!Running
    BY <1>4 DEF S!Running
<1>6. S!Handled => S!Handled'
    BY <1>2, <1>4 DEF S!Handled
<1>7. v7' \in Seq(Nat)
    BY <1>1, <1>3, AppendFacts DEF S!TellInv
<1>8. ASSUME NEW c \in S!Running, S!Recorded(c) PROVE S!Recorded(c)'
    <2>1. c \in Calls /\ v14[c].asked \in Seq(Nat)
        BY <1>3, CallOf DEF S!Running
    <2>2. v7' = S!First(v14'[c].asked)
        BY <1>1, <1>3, <1>4, <1>8, <2>1, FirstFacts DEF S!Recorded
    <2>3. S!allows' = S!allows /\ S!PageIds(v13') = S!PageIds(v13)
        BY <1>2 DEF S!allows
    <2> QED BY <1>2, <1>3, <1>4, <1>8, <2>1, <2>2, <2>3 DEF S!Recorded
<1> QED BY <1>2, <1>5, <1>6, <1>7, <1>8 DEF S!TellInv

LEMMA TellPopup ==
    ASSUME S!SessionInv, S!TellInv, NEW p \in v13, S!Popup(p) PROVE S!TellInv'
<1>1. PICK q : /\ q = v16.pages + 1
               /\ v16' = [v16 EXCEPT !.pages = q, !.events = v16.events + 1]
               /\ v14' = IF v6 THEN v14
                         ELSE [c \in Calls |->
                                 IF c \in S!Running /\ v14[c].at # "answer"
                                 THEN [v14[c] EXCEPT !.opened = @ \cup {q}] ELSE v14[c]]
    BY DEF S!Popup, S!During
<1>2. UNCHANGED <<v1, v2, v7, v10, v12, v18>> /\ S!Appears(p.of)
    BY DEF S!Popup, S!Settings, S!History, S!fields
<1>3. S!Types /\ v16.pages \in Nat /\ v16'.pages = q /\ q \in Nat
    <2>1. S!Types
        BY DEF S!SessionInv
    <2> QED BY <1>1, <2>1 DEF S!Types, S!Totals
<1>4. p.of \in Nat
    BY DEF S!TellInv
<1>5. ASSUME NEW c \in Calls
      PROVE  /\ v14'[c].at = v14[c].at /\ v14'[c].launch = v14[c].launch
             /\ v14'[c].taken = v14[c].taken /\ v14'[c].asked = v14[c].asked
             /\ v14'[c].opened = IF ~v6 /\ c \in S!Running /\ v14[c].at # "answer"
                                 THEN v14[c].opened \cup {q} ELSE v14[c].opened
    <2>1. PICK a, b, opened : a = v14[c] /\ b = v14'[c] /\ opened = a.opened \cup {q}
        OBVIOUS
    <2>2. a \in S!Call
        BY <1>3, <2>1, CallOf
    <2>3. b = IF ~v6 /\ c \in S!Running /\ v14[c].at # "answer"
              THEN [a EXCEPT !.opened = opened] ELSE a
        BY <1>1, <2>1
    <2>4. /\ b.at = a.at /\ b.launch = a.launch /\ b.taken = a.taken /\ b.asked = a.asked
          /\ b.opened = IF ~v6 /\ c \in S!Running /\ v14[c].at # "answer"
                        THEN opened ELSE a.opened
        BY ONLY <2>2, <2>3 DEF S!Call
    <2> QED BY <2>1, <2>4
<1>6. S!Running' = S!Running
    BY <1>5 DEF S!Running
<1>7. /\ v13' \subseteq [id : Nat, of : Nat] /\ S!IsFiniteSet(v8')
      /\ S!PageIds(v13') = S!PageIds(v13) \cup {q}
      /\ \A r \in v13' : r \in v13 \/ r.of = p.of
      /\ v8 \subseteq v8' /\ v9 \subseteq v9'
      /\ S!Cardinality(v8) >= MaxDialogs => v8' = v8
      /\ ~v6 /\ p.of \in v12 => /\ q \in v8' \/ S!Cardinality(v8') >= MaxDialogs
                                /\ S!allows \/ q \in v9'
    BY <1>1, <1>2, <1>4, Appearance
<1>8. S!Handled => S!Handled'
    BY <1>2, <1>5, <1>7 DEF S!Handled
<1>9. ASSUME NEW c \in S!Running, S!Recorded(c), p.of \in v12 PROVE S!Recorded(c)'
    <2>1. c \in Calls
        BY DEF S!Running
    <2>2. v14[c].opened \subseteq 1..v16.pages
        BY <1>9 DEF S!Recorded
    <2>3. v14[c].opened \subseteq 1..q /\ q \notin v14[c].opened /\ q \in 1..q
        BY ONLY <1>1, <1>3, <2>2
    <2>4. v14'[c].opened \subseteq 1..v16'.pages
        BY <1>3, <1>5, <2>1, <2>3
    <2>5. v7' = S!First(v14'[c].asked)
        BY <1>2, <1>5, <1>9, <2>1 DEF S!Recorded
    <2>6. v14'[c].opened \subseteq v8' \/ S!Cardinality(v8') >= MaxDialogs
        <3>1. v14[c].opened \subseteq v8 \/ S!Cardinality(v8) >= MaxDialogs
            BY <1>9 DEF S!Recorded
        <3> QED BY <1>5, <1>7, <1>9, <2>1, <3>1
    <2>7. S!allows' = S!allows
        BY <1>2 DEF S!allows
    <2>8. \/ S!allows
          \/ v14'[c].opened \cap S!PageIds(v13') \subseteq
                IF v14'[c].at = "answer" THEN v14'[c].taken ELSE v9'
        <3>1. \/ S!allows
              \/ v14[c].opened \cap S!PageIds(v13) \subseteq
                    IF v14[c].at = "answer" THEN v14[c].taken ELSE v9
            BY <1>9 DEF S!Recorded
        <3> QED BY <1>5, <1>7, <1>9, <2>1, <2>3, <3>1
    <2> QED BY <2>4, <2>5, <2>6, <2>7, <2>8 DEF S!Recorded
<1>10. S!Handled => p.of \in v12
    BY DEF S!Handled
<1>11. v7' \in Seq(Nat)
    BY <1>2 DEF S!TellInv
<1> QED BY <1>2, <1>6, <1>7, <1>8, <1>9, <1>10, <1>11 DEF S!TellInv

\* Browsers and contexts that go take their pages along.
LEMMA TellGone ==
    ASSUME S!SessionInv, S!TellInv, UNCHANGED <<v1, v7, v8, v9, v12, v14>>,
           v16'.pages = v16.pages, v13' \subseteq v13, v10' \subseteq v10,
           v2' \in {v2, 0}, v18 => v18'
    PROVE  S!TellInv'
<1>1. /\ v7' \in Seq(Nat) /\ v13' \subseteq [id : Nat, of : Nat] /\ S!IsFiniteSet(v8')
      /\ S!Running' = S!Running /\ S!PageIds(v13') \subseteq S!PageIds(v13) /\ S!allows' = S!allows
    BY DEF S!TellInv, S!Running, S!PageIds, S!allows
<1>2. 0 \notin v10'
    BY DEF S!SessionInv, S!Types
<1>3. S!Handled => S!Handled'
    BY <1>2 DEF S!Handled
<1>4. ASSUME NEW c \in S!Running, S!Recorded(c) PROVE S!Recorded(c)'
    <2>1. v14' = v14 /\ v7' = S!First(v14'[c].asked) /\ v14'[c].opened \subseteq 1..v16'.pages
        BY <1>4 DEF S!Recorded
    <2>2. v14'[c].opened \subseteq v8' \/ S!Cardinality(v8') >= MaxDialogs
        BY <1>4 DEF S!Recorded
    <2>3. \/ S!allows
          \/ v14'[c].opened \cap S!PageIds(v13') \subseteq
                IF v14'[c].at = "answer" THEN v14'[c].taken ELSE v9'
        BY <1>1, <1>4 DEF S!Recorded
    <2> QED BY <1>1, <2>1, <2>2, <2>3 DEF S!Recorded
<1> QED BY <1>1, <1>3, <1>4 DEF S!TellInv

LEMMA TellCloses ==
    ASSUME S!SessionInv, S!TellInv,
           \/ \E k \in v10 : S!BrowserDies(k)
           \/ S!CloseContext \/ S!CloseBrowser \/ S!CloseProxy
    PROVE  S!TellInv'
<1>1. /\ UNCHANGED <<v1, v7, v8, v9, v12, v14>> /\ v13' \subseteq v13 /\ v10' \subseteq v10
      /\ v2' \in {v2, 0}
      /\ v16' = v16 \/ v16' = [v16 EXCEPT !.events = v16.events + 1]
    BY DEF S!BrowserDies, S!CloseContext, S!CloseBrowser, S!CloseProxy, S!ContextGone,
           S!Settings, S!Reports, S!History, S!fields
<1>2. v18 => v18'
    BY DEF S!BrowserDies, S!CloseContext, S!CloseBrowser, S!CloseProxy, S!History
<1>3. v16'.pages = v16.pages
    BY <1>1 DEF S!SessionInv, S!Types, S!Totals
<1> QED BY <1>1, <1>2, <1>3, TellGone

LEMMA TellStep == ASSUME S!SessionInv, S!TellInv, S!Next PROVE S!TellInv'
<1>1. ASSUME NEW c \in Calls,
             \/ \E op \in {"act", "tab_new", "tab_switch", "close"} : S!Begin(c, op)
             \/ S!Ensure(c) \/ S!StartProxy(c) \/ S!Launch(c) \/ S!LaunchFails(c) \/ S!Route(c)
             \/ S!ChoosePage(c) \/ S!OpenPage(c) \/ S!Operate(c) \/ S!Fail(c)
             \/ S!AskContext(c) \/ S!NewTab(c) \/ S!SwitchTab(c) \/ S!CloseTab(c)
             \/ S!Drain(c) \/ S!Answer(c)
      PROVE  S!TellInv'
    BY <1>1, TellBegin, TellEnsure, TellWork, TellLaunch, TellOpen, TellAsks, TellDrain
<1>2. ASSUME NEW p \in v13,
             S!Dialog(p) \/ S!Popup(p) \/ S!PopupCloses(p) \/ S!PageCloses(p)
      PROVE  S!TellInv'
    BY <1>2, TellDialog, TellPopup, TellPages
<1> QED BY <1>1, <1>2, TellCloses DEF S!Next

LEMMA TellsAll ==
    ASSUME S!SessionInv, S!TellInv, S!Next PROVE S!AnswersTellAll
<1> SUFFICES ASSUME NEW c \in Calls, v14[c].at = "answer", v14'[c].at = "done", ~v18
             PROVE  /\ v7 = S!First(v14[c].asked)
                    /\ v14[c].opened \subseteq v8 \/ S!Cardinality(v8) >= MaxDialogs
                    /\ S!allows \/ v14[c].opened \cap S!PageIds(v13) = {}
    BY DEF S!AnswersTellAll
<1>1. c \in S!Running
    BY DEF S!Running, S!Ended
<1>2. S!Recorded(c) /\ \A d \in S!Running : d = c
    BY <1>1, AloneIn DEF S!TellInv
<1>3. S!Answer(c)
    <2>1. ASSUME NEW d \in Calls,
                 \/ S!Ensure(d) \/ S!StartProxy(d) \/ S!Launch(d) \/ S!LaunchFails(d)
                 \/ S!Route(d) \/ S!ChoosePage(d) \/ S!OpenPage(d) \/ S!Operate(d)
                 \/ S!Fail(d) \/ S!AskContext(d) \/ S!NewTab(d) \/ S!SwitchTab(d)
                 \/ S!CloseTab(d) \/ S!Drain(d)
          PROVE  FALSE
        <3>1. v14[d].at \notin {"new", "done", "failed", "answer"}
            BY <2>1 DEF S!Ensure, S!StartProxy, S!Launch, S!LaunchFails, S!Route, S!ChoosePage,
                        S!OpenPage, S!Operate, S!Fail, S!AskContext, S!NewTab, S!SwitchTab,
                        S!CloseTab, S!Drain
        <3> QED BY <1>2, <3>1 DEF S!Running, S!Ended
    <2>2. ASSUME NEW d \in Calls, NEW op \in {"act", "tab_new", "tab_switch", "close"},
                 S!Begin(d, op)
          PROVE  FALSE
        <3>1. v14[d].at = "new" /\ \E j : v14' = [v14 EXCEPT ![d] = j]
            BY <2>2 DEF S!Begin, S!Enter
        <3>2. v14'[c] = v14[c]
            BY <3>1 DEF S!SessionInv, S!Types
        <3> QED BY <3>2
    <2>3. ASSUME NEW p \in v13,
                 S!Dialog(p) \/ S!Popup(p) \/ S!PopupCloses(p) \/ S!PageCloses(p)
          PROVE  FALSE
        BY <2>3, CallObserved
    <2>4. CASE (\E k \in v10 : S!BrowserDies(k))
               \/ S!CloseContext \/ S!CloseBrowser \/ S!CloseProxy
        <3>1. v14' = v14
            BY <2>4 DEF S!BrowserDies, S!CloseContext, S!CloseBrowser, S!CloseProxy
        <3> QED BY <3>1
    <2>5. \E d \in Calls : S!Answer(d)
        BY <2>1, <2>2, <2>3, <2>4 DEF S!Next
    <2>6. \A d \in Calls : S!Answer(d) => v14[d].at = "answer"
        BY DEF S!Answer
    <2> QED BY <1>2, <2>5, <2>6 DEF S!Running, S!Ended
<1>4. v14[c].taken \cap S!PageIds(v13) = {}
    BY <1>3 DEF S!Answer
<1> QED BY <1>2, <1>4 DEF S!Recorded

\* A call that ran alone reports the dialogs that were raised since it began, and no others,
\* and the windows that its page opened, up to the limit, and those were closed, for any
\* number of calls, launches and events and every limit
\* (packages/browser-runtime/src/index.ts execute and the handlers of the context).
THEOREM AnswersAreComplete == Spec => AnswersTellAll
<1> DEFINE Inv == part = "browser" => S!SessionInv /\ S!TellInv
<1>1. Init => Inv
    BY BrowserInit, TellInit DEF Init
<1>2. Inv /\ [Next]_vars => Inv'
    <2> SUFFICES ASSUME S!SessionInv, S!TellInv, part = "browser", [Next]_vars
                 PROVE  S!SessionInv' /\ S!TellInv'
        BY PartStays
    <2>1. CASE UNCHANGED <<v1, v2, v3, v4, v5, v6, v7, v8, v9, v10, v11, v12, v13, v14,
                           v15, v16, v17, v18, v19>>
        <3>1. S!SessionInv'
            BY <2>1 DEF S!SessionInv, S!Types, S!OneBrowser, S!OneProxy, S!Running, S!attached
        <3>2. S!TellInv'
            BY <2>1 DEF S!TellInv, S!Handled, S!Recorded, S!Running, S!PageIds, S!allows
        <3> QED BY <3>1, <3>2
    <2>2. CASE S!Next
        BY <2>2, SessionStep, TellStep
    <2> QED BY <2>1, <2>2, BrowserSteps
<1>3. Inv /\ [Next]_vars => [part = "browser" => S!AnswersTellAll]_vars
    <2> SUFFICES ASSUME S!SessionInv, S!TellInv, part = "browser", [Next]_vars, vars' # vars
                 PROVE  S!AnswersTellAll
        OBVIOUS
    <2>1. S!Next
        BY DEF Next, vars
    <2> QED BY <2>1, TellsAll
<1> QED BY <1>1, <1>2, <1>3, PTL DEF Spec, AnswersTellAll
-----------------------------------------------------------------------------
(* Desktop                                                                     *)

\* In a behaviour of the desktop every step is one of it.
LEMMA DesktopSteps ==
    ASSUME part = "desktop", [Next]_vars
    PROVE  D!Next \/ UNCHANGED <<v1, v2, v3, v4, v5, v6, v7, v8, v9, v10>>
BY DEF Next, vars, after3, after4, after5, after6, after8, after9, after10

\* The input of one or two helpers in a row, and what is left of it when an event is sent.
LEMMA EventsFacts ==
    ASSUME NEW h \in Seq(Seq(D!Event)), Len(h) <= 2
    PROVE  /\ D!Events(h) \in Seq(D!Event)
           /\ h = <<>> => Len(D!Events(h)) = 0
           /\ Len(h) = 1 => D!Events(h) = h[1]
           /\ Len(h) = 2 => D!Events(h) = h[1] \o h[2]
<1>1. \/ h = <<>> /\ Len(h) = 0
      \/ h # <<>> /\ Len(h) = 1 /\ h[1] \in Seq(D!Event)
      \/ h # <<>> /\ Len(h) = 2 /\ h[1] \in Seq(D!Event) /\ h[2] \in Seq(D!Event)
    BY ShortSeq
<1>2. CASE h = <<>> /\ Len(h) = 0
    BY <1>2 DEF D!Events
<1>3. CASE h # <<>> /\ Len(h) = 1 /\ h[1] \in Seq(D!Event)
    BY <1>3 DEF D!Events
<1>4. CASE h # <<>> /\ Len(h) = 2 /\ h[1] \in Seq(D!Event) /\ h[2] \in Seq(D!Event)
    <2>1. D!Events(h) = h[1] \o h[2]
        BY <1>4 DEF D!Events
    <2>2. h[1] \o h[2] \in Seq(D!Event)
        BY <1>4, ConcatFacts
    <2> QED BY <1>4, <2>1, <2>2
<1> QED BY <1>1, <1>2, <1>3, <1>4

LEMMA EventSent ==
    ASSUME NEW h \in Seq(Seq(D!Event)), Len(h) <= 2, h # <<>>, Head(h) # <<>>,
           NEW g, g = <<Tail(Head(h))>> \o Tail(h)
    PROVE  /\ g \in Seq(Seq(D!Event)) /\ Len(g) = Len(h)
           /\ Head(h) = h[1] /\ h[1] \in Seq(D!Event) /\ g[1] = Tail(h[1]) /\ g[1] \in Seq(D!Event)
           /\ Len(h) = 2 => g[2] = h[2] /\ h[2] \in Seq(D!Event)
           /\ Len(D!Events(g)) = Len(D!Events(h)) - 1
           /\ \A i \in 1..(Len(D!Events(h)) - 1) : D!Events(g)[i] = D!Events(h)[i + 1]
           /\ Len(D!Events(h)) > 0 /\ D!Events(h)[1] = Head(Head(h))
           /\ Head(Head(h)) \in D!Event
<1>1. /\ Head(h) = h[1] /\ h[1] \in Seq(D!Event) /\ Len(h) > 0
      /\ Tail(h) \in Seq(Seq(D!Event)) /\ Len(Tail(h)) = Len(h) - 1
      /\ Len(h) = 2 => Tail(h)[1] = h[2] /\ h[2] \in Seq(D!Event)
    BY TailFacts
<1>2. PICK s : s = h[1]
    OBVIOUS
<1>3. /\ s \in Seq(D!Event) /\ s # <<>>
      /\ Head(s) = s[1] /\ s[1] \in D!Event /\ Len(s) > 0
      /\ Tail(s) \in Seq(D!Event) /\ Len(Tail(s)) = Len(s) - 1
      /\ \A i \in 1..(Len(s) - 1) : Tail(s)[i] = s[i + 1]
    BY <1>1, <1>2, TailFacts
<1>4. PICK z : z = <<Tail(s)>>
    OBVIOUS
<1>5. z \in Seq(Seq(D!Event)) /\ Len(z) = 1 /\ z[1] = Tail(s)
    BY <1>3, <1>4
<1>6. g = z \o Tail(h)
    BY <1>1, <1>2, <1>4
<1>7. g \in Seq(Seq(D!Event)) /\ Len(g) = Len(h) /\ g[1] = Tail(s)
      /\ (Len(h) = 2 => g[2] = h[2])
    <2>1. /\ g \in Seq(Seq(D!Event)) /\ Len(g) = 1 + Len(Tail(h))
          /\ \A i \in 1..(1 + Len(Tail(h))) : g[i] = IF i <= 1 THEN z[i] ELSE Tail(h)[i - 1]
        <3>1. PICK y : y = Tail(h)
            OBVIOUS
        <3>2. /\ z \o y \in Seq(Seq(D!Event)) /\ Len(z \o y) = Len(z) + Len(y)
              /\ \A i \in 1..(Len(z) + Len(y)) : (z \o y)[i] = IF i <= Len(z) THEN z[i] ELSE y[i - Len(z)]
            BY <1>1, <1>5, <3>1, ConcatFacts
        <3> QED BY <3>1, <3>2, <1>5, <1>6
    <2>2. Len(h) \in Nat
        OBVIOUS
    <2>3. Len(g) = Len(h) /\ g[1] = Tail(s)
        BY <2>1, <2>2, <1>1, <1>5
    <2>4. ASSUME Len(h) = 2 PROVE g[2] = h[2]
        <3>1. Len(Tail(h)) = 1 /\ Tail(h)[1] = h[2]
            BY <2>4, ShortSeq
        <3>2. 2 \in 1..(1 + Len(Tail(h))) /\ ~(2 <= 1) /\ 2 - 1 = 1
            <4>1. PICK n : n = Len(Tail(h))
                OBVIOUS
            <4>2. n = 1
                BY <3>1, <4>1
            <4>3. 2 \in 1..(1 + n) /\ ~(2 <= 1) /\ 2 - 1 = 1
                BY ONLY <4>2
            <4> QED BY <4>1, <4>3
        <3>3. g[2] = Tail(h)[2 - 1]
            BY <2>1, <3>2
        <3> QED BY <3>1, <3>2, <3>3
    <2> QED BY <2>1, <2>3, <2>4
<1>8. Len(h) = 1 \/ Len(h) = 2
    BY ShortSeq
<1>9. CASE Len(h) = 1
    <2>1. D!Events(h) = s /\ D!Events(g) = Tail(s)
        BY <1>9, <1>2, <1>7, EventsFacts
    <2> QED BY <2>1, <1>1, <1>2, <1>3, <1>7, <1>9
<1>10. CASE Len(h) = 2
    <2>1. PICK u : u = h[2]
        OBVIOUS
    <2>2. u \in Seq(D!Event)
        BY <1>10, <1>1, <2>1
    <2>3. D!Events(h) = s \o u /\ D!Events(g) = Tail(s) \o u
        BY <1>10, <1>2, <1>7, <2>1, EventsFacts
    <2>4. /\ Len(s \o u) = Len(s) + Len(u)
          /\ \A i \in 1..(Len(s) + Len(u)) : (s \o u)[i] = IF i <= Len(s) THEN s[i] ELSE u[i - Len(s)]
        BY <2>2, <1>3, ConcatFacts
    <2>5. /\ Len(Tail(s) \o u) = Len(s) - 1 + Len(u)
          /\ \A i \in 1..(Len(s) - 1 + Len(u)) :
                (Tail(s) \o u)[i] = IF i <= Len(s) - 1 THEN Tail(s)[i] ELSE u[i - (Len(s) - 1)]
        <3>1. PICK q : q = Tail(s)
            OBVIOUS
        <3>2. /\ Len(q \o u) = Len(q) + Len(u)
              /\ \A i \in 1..(Len(q) + Len(u)) : (q \o u)[i] = IF i <= Len(q) THEN q[i] ELSE u[i - Len(q)]
            BY <3>1, <2>2, <1>3, ConcatFacts
        <3> QED BY <3>1, <3>2, <1>3
    <2>6. Len(s) \in Nat /\ Len(u) \in Nat
        BY <2>2, <1>3
    <2>7. \A i \in 1..(Len(s) - 1 + Len(u)) : (Tail(s) \o u)[i] = (s \o u)[i + 1]
        <3> SUFFICES ASSUME NEW i \in 1..(Len(s) - 1 + Len(u)) PROVE (Tail(s) \o u)[i] = (s \o u)[i + 1]
            OBVIOUS
        <3>1. CASE i <= Len(s) - 1
            <4>1. (Tail(s) \o u)[i] = s[i + 1]
                BY <3>1, <1>3, <2>5, <2>6
            <4>2. (s \o u)[i + 1] = s[i + 1]
                BY <3>1, <2>4, <2>6
            <4> QED BY <4>1, <4>2
        <3>2. CASE i > Len(s) - 1
            <4>1. (Tail(s) \o u)[i] = u[i - (Len(s) - 1)]
                BY <3>2, <2>5, <2>6
            <4>2. (s \o u)[i + 1] = u[i + 1 - Len(s)]
                BY <3>2, <2>4, <2>6
            <4>3. i - (Len(s) - 1) = i + 1 - Len(s)
                BY <2>6
            <4> QED BY <4>1, <4>2, <4>3
        <3> QED BY <3>1, <3>2, <2>6
    <2>8. (s \o u)[1] = s[1]
        BY <2>4, <2>6, <1>3
    <2>9. /\ Len(D!Events(g)) = Len(D!Events(h)) - 1 /\ Len(D!Events(h)) > 0
          /\ Len(D!Events(h)) - 1 = Len(s) - 1 + Len(u)
        <3>1. PICK n, m : n = Len(s) /\ m = Len(u)
            OBVIOUS
        <3>2. n \in Nat /\ m \in Nat /\ n > 0
            BY <3>1, <2>6, <1>3
        <3>3. Len(D!Events(h)) = n + m /\ Len(D!Events(g)) = n - 1 + m
            BY <3>1, <2>3, <2>4, <2>5
        <3> QED BY ONLY <3>1, <3>2, <3>3
    <2>10. \A i \in 1..(Len(D!Events(h)) - 1) : D!Events(g)[i] = D!Events(h)[i + 1]
        BY <2>3, <2>7, <2>9
    <2> QED BY <2>2, <2>3, <2>8, <2>9, <2>10, <1>1, <1>2, <1>3, <1>7, <1>10, <2>1
<1> QED BY <1>8, <1>9, <1>10

LEMMA HelperEnds ==
    ASSUME NEW h \in Seq(Seq(D!Event)), Len(h) <= 2, h # <<>>, Head(h) = <<>>
    PROVE  /\ Tail(h) \in Seq(Seq(D!Event)) /\ Len(Tail(h)) <= 2
           /\ \A k \in DOMAIN Tail(h) : Tail(h)[k] = h[2] /\ 2 \in DOMAIN h
           /\ D!Events(Tail(h)) = D!Events(h)
<1>1. Head(h) = h[1]
    BY TailFacts
<1>2. \/ Len(h) = 1 /\ Tail(h) = <<>> /\ DOMAIN h = {1}
      \/ /\ Len(h) = 2 /\ h[2] \in Seq(D!Event) /\ DOMAIN h = {1, 2} /\ Tail(h) # <<>>
         /\ Tail(h) \in Seq(Seq(D!Event)) /\ Len(Tail(h)) = 1 /\ Tail(h)[1] = h[2]
    BY ShortSeq
<1>3. CASE Len(h) = 1 /\ Tail(h) = <<>> /\ DOMAIN h = {1}
    <2>1. D!Events(h) = h[1]
        BY <1>3 DEF D!Events
    <2>2. D!Events(<<>>) = <<>>
        BY DEF D!Events
    <2>3. <<>> \in Seq(Seq(D!Event)) /\ Len(<<>>) <= 2 /\ DOMAIN <<>> = {}
        OBVIOUS
    <2>4. D!Events(Tail(h)) = D!Events(h)
        BY <1>1, <1>3, <2>1, <2>2
    <2> QED BY <1>3, <2>3, <2>4
<1>4. CASE /\ Len(h) = 2 /\ h[2] \in Seq(D!Event) /\ DOMAIN h = {1, 2} /\ Tail(h) # <<>>
           /\ Tail(h) \in Seq(Seq(D!Event)) /\ Len(Tail(h)) = 1 /\ Tail(h)[1] = h[2]
    <2>1. D!Events(h) = h[1] \o h[2]
        BY <1>4, EventsFacts
    <2>6. D!Events(Tail(h)) = h[2]
        BY <1>4 DEF D!Events
    <2>2. PICK u : u = h[2]
        OBVIOUS
    <2>3. u \in Seq(D!Event)
        BY <1>4, <2>2
    <2>4. <<>> \o u = u
        BY <2>3
    <2>5. DOMAIN Tail(h) = {1}
        BY <1>4, ShortSeq
    <2>7. D!Events(Tail(h)) = D!Events(h)
        <3>1. h[1] = <<>>
            BY <1>1
        <3>2. D!Events(h) = <<>> \o u
            BY <2>1, <2>2, <3>1
        <3>3. D!Events(h) = u
            BY <2>4, <3>2
        <3>4. D!Events(Tail(h)) = u
            BY <2>2, <2>6
        <3> QED BY <3>3, <3>4
    <2>8. Len(Tail(h)) <= 2
        <3>1. PICK n : n = Len(Tail(h))
            OBVIOUS
        <3>2. n = 1
            BY <1>4, <3>1
        <3>3. n <= 2
            BY ONLY <3>2
        <3> QED BY <3>1, <3>3
    <2>9. \A k \in DOMAIN Tail(h) : Tail(h)[k] = h[2] /\ 2 \in DOMAIN h
        BY <1>4, <2>5
    <2> QED BY <1>4, <2>7, <2>8, <2>9
<1> QED BY <1>2, <1>3, <1>4

\* What a call will do if nothing disturbs it: which of the events are to be seen.
Full(w, all) ==
    \/ /\ Len(all) = Len(D!Meant(w)) /\ \A i \in DOMAIN all : all[i].type = D!Meant(w)[i]
       /\ w.op = "scroll" /\ all # <<>> => all[1].type # "move"
    \/ /\ w.op = "scroll" /\ Len(all) = Len(D!Meant(w)) + 1 /\ all[1].type = "move"
       /\ \A i \in DOMAIN D!Meant(w) : all[i + 1].type = D!Meant(w)[i]

Planned(w, h) ==
    /\ h \in Seq(Seq(D!Event)) /\ Len(h) <= 2 /\ \A k \in DOMAIN h : D!Releases(h[k])
    /\ \A i \in DOMAIN D!Events(h) :
          /\ D!Events(h)[i].type \in {"press", "release"} => i > 1 /\ D!Events(h)[1].type = "move"
          /\ D!Events(h)[i].type = "key" => w.op \in D!Keyed
    /\ w.delta # "tiny" => Full(w, D!Events(h))

LEMMA OneHelper ==
    ASSUME NEW s \in Seq(D!Event)
    PROVE  <<s>> \in Seq(Seq(D!Event)) /\ Len(<<s>>) = 1 /\ <<s>>[1] = s /\ D!Events(<<s>>) = s
BY DEF D!Events

\* Every adapter has one program for an action with the pointer or the keyboard.
LEMMA OneProgram ==
    ASSUME NEW w \in D!Call, NEW s \in Seq(D!Event), D!Releases(s),
           \A i \in DOMAIN s :
              /\ s[i].type \in {"press", "release"} => i > 1 /\ s[1].type = "move"
              /\ s[i].type = "key" => w.op \in D!Keyed,
           w.delta # "tiny" => Full(w, s)
    PROVE  Planned(w, <<s>>)
BY OneHelper DEF Planned

LEMMA EventOf ==
    ASSUME NEW t \in D!Types, NEW p \in D!Places
    PROVE  D!E(t, p) \in D!Event /\ D!E(t, p).type = t
BY DEF D!E, D!Event

LEMMA ClickPlanned == ASSUME NEW w \in D!Call, w.op = "click" PROVE Planned(w, <<D!Click>>)
<1>1. PICK a, b, c : a = D!E("move", "from") /\ b = D!E("press", "from") /\ c = D!E("release", "from")
    OBVIOUS
<1>2. /\ a \in D!Event /\ a.type = "move" /\ b \in D!Event /\ b.type = "press"
      /\ c \in D!Event /\ c.type = "release"
    BY <1>1, EventOf DEF D!Types, D!Places
<1>3. D!Click = <<a, b, c>>
    BY <1>1 DEF D!Click
<1>4. PICK s : s = <<a, b, c>>
    OBVIOUS
<1>5. s \in Seq(D!Event) /\ Len(s) = 3 /\ s[1] = a /\ s[2] = b /\ s[3] = c /\ DOMAIN s = 1..3
    BY <1>2, <1>4
<1>6. D!Releases(s)
    BY <1>2, <1>5 DEF D!Releases
<1>7. D!Meant(w) = <<"move", "press", "release">>
    BY DEF D!Meant
<1>8. Full(w, s)
    BY <1>2, <1>5, <1>7 DEF Full
<1>9. \A i \in DOMAIN s :
              /\ s[i].type \in {"press", "release"} => i > 1 /\ s[1].type = "move"
              /\ s[i].type = "key" => w.op \in D!Keyed
    BY <1>2, <1>5
<1> QED BY <1>3, <1>4, <1>5, <1>6, <1>8, <1>9, OneProgram

LEMMA DragPlanned == ASSUME NEW w \in D!Call, w.op = "drag" PROVE Planned(w, <<D!Drag>>)
<1>1. PICK a, b, c, d : /\ a = D!E("move", "from") /\ b = D!E("press", "from")
                        /\ c = D!E("move", "to") /\ d = D!E("release", "to")
    OBVIOUS
<1>2. /\ a \in D!Event /\ a.type = "move" /\ b \in D!Event /\ b.type = "press"
      /\ c \in D!Event /\ c.type = "move" /\ d \in D!Event /\ d.type = "release"
    BY <1>1, EventOf DEF D!Types, D!Places
<1>3. D!Drag = <<a, b, c, d>>
    BY <1>1 DEF D!Drag
<1>4. PICK s : s = <<a, b, c, d>>
    OBVIOUS
<1>5. s \in Seq(D!Event) /\ Len(s) = 4 /\ s[1] = a /\ s[2] = b /\ s[3] = c /\ s[4] = d /\ DOMAIN s = 1..4
    BY <1>2, <1>4
<1>6. D!Releases(s)
    BY <1>2, <1>5 DEF D!Releases
<1>7. D!Meant(w) = <<"move", "press", "move", "release">>
    BY DEF D!Meant
<1>8. Full(w, s)
    BY <1>2, <1>5, <1>7 DEF Full
<1>9. \A i \in DOMAIN s :
              /\ s[i].type \in {"press", "release"} => i > 1 /\ s[1].type = "move"
              /\ s[i].type = "key" => w.op \in D!Keyed
    BY <1>2, <1>5
<1> QED BY <1>3, <1>4, <1>5, <1>6, <1>8, <1>9, OneProgram

LEMMA MovePlanned ==
    ASSUME NEW w \in D!Call, w.op = "move" PROVE Planned(w, <<<<D!E("move", "from")>>>>)
<1>1. PICK a : a = D!E("move", "from")
    OBVIOUS
<1>2. a \in D!Event /\ a.type = "move"
    BY <1>1, EventOf DEF D!Types, D!Places
<1>4. PICK s : s = <<a>>
    OBVIOUS
<1>5. s \in Seq(D!Event) /\ Len(s) = 1 /\ s[1] = a /\ DOMAIN s = {1}
    BY <1>2, <1>4
<1>6. D!Releases(s)
    BY <1>2, <1>5 DEF D!Releases
<1>7. D!Meant(w) = <<"move">>
    BY DEF D!Meant
<1>8. Full(w, s)
    BY <1>2, <1>5, <1>7 DEF Full
<1>9. \A i \in DOMAIN s :
              /\ s[i].type \in {"press", "release"} => i > 1 /\ s[1].type = "move"
              /\ s[i].type = "key" => w.op \in D!Keyed
    BY <1>2, <1>5
<1> QED BY <1>1, <1>4, <1>5, <1>6, <1>8, <1>9, OneProgram

LEMMA KeysPlanned ==
    ASSUME NEW w \in D!Call, w.op \in D!Keyed PROVE Planned(w, <<D!Strokes(w)>>)
<1>1. PICK a : a = D!E("key", "here")
    OBVIOUS
<1>2. a \in D!Event /\ a.type = "key"
    BY <1>1, EventOf DEF D!Types, D!Places
<1>3. w.op = "type" \/ w.op = "key"
    BY DEF D!Keyed
<1>4. PICK s : s = D!Strokes(w)
    OBVIOUS
<1>5. /\ s = IF w.op = "type" THEN <<a, a>> ELSE <<a>>
      /\ D!Meant(w) = IF w.op = "type" THEN <<"key", "key">> ELSE <<"key">>
    BY <1>1, <1>3, <1>4 DEF D!Strokes, D!Meant
<1>6. /\ s \in Seq(D!Event) /\ Len(s) = Len(D!Meant(w)) /\ DOMAIN s \subseteq 1..2
      /\ \A i \in DOMAIN s : s[i] = a /\ D!Meant(w)[i] = "key"
    <2>1. CASE w.op = "type"
        BY <2>1, <1>2, <1>5
    <2>2. CASE w.op = "key"
        BY <2>2, <1>2, <1>5
    <2> QED BY <1>3, <2>1, <2>2
<1>7. D!Releases(s)
    BY <1>2, <1>6 DEF D!Releases
<1>8. Full(w, s)
    BY <1>2, <1>3, <1>6 DEF Full
<1>9. \A i \in DOMAIN s :
              /\ s[i].type \in {"press", "release"} => i > 1 /\ s[1].type = "move"
              /\ s[i].type = "key" => w.op \in D!Keyed
    BY <1>2, <1>6
<1> QED BY <1>4, <1>6, <1>7, <1>8, <1>9, OneProgram

\* The notches of the wheel.
LEMMA WheelOf ==
    ASSUME NEW w \in D!Call, w.op = "scroll"
    PROVE  \/ w.delta = "tiny" /\ D!Wheel(w) = <<>>
           \/ /\ w.delta # "tiny" /\ D!E(w.delta, "here") \in D!Event
              /\ D!E(w.delta, "here").type = w.delta /\ w.delta \in {"up", "down"}
              /\ D!Wheel(w) = <<D!E(w.delta, "here"), D!E(w.delta, "here")>>
              /\ D!Meant(w) = <<w.delta, w.delta>>
<1>1. w.delta \in {"up", "down", "tiny"}
    BY DEF D!Call
<1>2. D!Meant(w) = <<w.delta, w.delta>>
    BY DEF D!Meant
<1>3. CASE w.delta = "tiny"
    BY <1>3 DEF D!Wheel
<1>4. CASE w.delta # "tiny"
    <2>1. w.delta \in D!Types /\ "here" \in D!Places
        BY <1>1, <1>4 DEF D!Types, D!Places
    <2> QED BY <1>1, <1>2, <1>4, <2>1, EventOf DEF D!Wheel
<1> QED BY <1>3, <1>4

\* Programs of a scroll.
LEMMA ProgramOf ==
    ASSUME NEW w \in D!Call, w.op = "scroll", NEW s \in Seq(D!Event),
           \A i \in DOMAIN s : s[i].type \in {"move", "up", "down"},
           w.delta # "tiny" => Full(w, s)
    PROVE  Planned(w, <<s>>)
<1>1. D!Releases(s)
    BY DEF D!Releases
<1>2. \A i \in DOMAIN s :
              /\ s[i].type \in {"press", "release"} => i > 1 /\ s[1].type = "move"
              /\ s[i].type = "key" => w.op \in D!Keyed
    OBVIOUS
<1> QED BY <1>1, <1>2, OneProgram

LEMMA MacScrolls ==
    ASSUME NEW w \in D!Call, w.op = "scroll" PROVE Planned(w, D!MacHelpers(w))
<1>1. D!MacHelpers(w) = <<IF w.delta = "tiny" THEN <<D!E("down", "here")>> ELSE D!Wheel(w)>>
    BY DEF D!MacHelpers, D!Pointed, D!Keyed
<1>2. CASE w.delta = "tiny"
    <2>1. PICK a : a = D!E("down", "here")
        OBVIOUS
    <2>2. a \in D!Event /\ a.type = "down"
        BY <2>1, EventOf DEF D!Types, D!Places
    <2>3. PICK s : s = <<a>>
        OBVIOUS
    <2>4. s \in Seq(D!Event) /\ DOMAIN s = {1} /\ s[1] = a
        BY <2>2, <2>3
    <2>5. Planned(w, <<s>>)
        BY <1>2, <2>2, <2>4, ProgramOf
    <2> QED BY <1>1, <1>2, <2>1, <2>3, <2>5
<1>3. CASE w.delta # "tiny"
    <2>1. PICK a : a = D!E(w.delta, "here")
        OBVIOUS
    <2>2. /\ a \in D!Event /\ a.type = w.delta /\ w.delta \in {"up", "down"}
          /\ D!Wheel(w) = <<a, a>> /\ D!Meant(w) = <<w.delta, w.delta>>
        BY <1>3, <2>1, WheelOf
    <2>3. PICK s : s = <<a, a>>
        OBVIOUS
    <2>4. s \in Seq(D!Event) /\ DOMAIN s = 1..2 /\ Len(s) = 2 /\ s[1] = a /\ s[2] = a
        BY <2>2, <2>3
    <2>5. \A i \in DOMAIN s : s[i] = a
        BY <2>4
    <2>6. Full(w, s)
        BY <2>2, <2>4, <2>5 DEF Full
    <2>7. Planned(w, <<s>>)
        BY <2>2, <2>4, <2>5, <2>6, ProgramOf
    <2> QED BY <1>1, <1>3, <2>2, <2>3, <2>7
<1> QED BY <1>2, <1>3

LEMMA WindowsScrolls ==
    ASSUME NEW w \in D!Call, w.op = "scroll" PROVE Planned(w, D!WindowsHelpers(w))
<1>1. /\ D!WindowsHelpers(w) = <<D!WindowsPointer(w)>>
      /\ D!WindowsPointer(w) = (IF w.placed THEN <<D!E("move", "from")>> ELSE <<>>) \o D!Wheel(w)
    BY DEF D!WindowsHelpers, D!WindowsPointer, D!Pointed, D!Keyed
<1>2. PICK m : m = D!E("move", "from")
    OBVIOUS
<1>3. m \in D!Event /\ m.type = "move"
    BY <1>2, EventOf DEF D!Types, D!Places
<1>4. CASE w.delta = "tiny"
    <2>1. PICK s : s = IF w.placed THEN <<m>> ELSE <<>>
        OBVIOUS
    <2>2. s \in Seq(D!Event) /\ \A i \in DOMAIN s : s[i] = m
        <3>1. CASE w.placed
            BY <1>3, <2>1, <3>1
        <3>2. CASE ~w.placed
            BY <2>1, <3>2
        <3> QED BY <3>1, <3>2
    <2>3. D!WindowsPointer(w) = s \o <<>>
        BY <1>1, <1>2, <1>4, <2>1, WheelOf
    <2>4. D!WindowsPointer(w) = s
        BY <2>2, <2>3
    <2>5. Planned(w, <<s>>)
        BY <1>3, <1>4, <2>2, ProgramOf
    <2> QED BY <1>1, <2>4, <2>5
<1>5. CASE w.delta # "tiny"
    <2>1. PICK a : a = D!E(w.delta, "here")
        OBVIOUS
    <2>2. /\ a \in D!Event /\ a.type = w.delta /\ w.delta \in {"up", "down"}
          /\ D!Wheel(w) = <<a, a>> /\ D!Meant(w) = <<w.delta, w.delta>>
        BY <1>5, <2>1, WheelOf
    <2>3. CASE w.placed
        <3>1. PICK s : s = <<m, a, a>>
            OBVIOUS
        <3>2. /\ s \in Seq(D!Event) /\ DOMAIN s = 1..3 /\ Len(s) = 3
              /\ s[1] = m /\ s[2] = a /\ s[3] = a
            BY <1>3, <2>2, <3>1
        <3>3. D!WindowsPointer(w) = <<m>> \o <<a, a>>
            BY <1>1, <1>2, <2>2, <2>3
        <3>4. <<m>> \o <<a, a>> = <<m, a, a>>
            BY <1>3, <2>2, FirstAndTwo
        <3>5. \A i \in DOMAIN s : s[i] = m \/ s[i] = a
            BY <3>2
        <3>6. Full(w, s)
            BY <1>3, <2>2, <3>2 DEF Full
        <3>7. Planned(w, <<s>>)
            BY <1>3, <2>2, <3>2, <3>5, <3>6, ProgramOf
        <3> QED BY <1>1, <3>1, <3>3, <3>4, <3>7
    <2>4. CASE ~w.placed
        <3>1. PICK s : s = <<a, a>>
            OBVIOUS
        <3>2. s \in Seq(D!Event) /\ DOMAIN s = 1..2 /\ Len(s) = 2 /\ s[1] = a /\ s[2] = a
            BY <2>2, <3>1
        <3>3. D!WindowsPointer(w) = <<>> \o s
            BY <1>1, <2>2, <2>4, <3>1
        <3>4. <<>> \o s = s
            BY <3>2
        <3>5. \A i \in DOMAIN s : s[i] = a
            BY <3>2
        <3>6. Full(w, s)
            BY <2>2, <3>2, <3>5 DEF Full
        <3>7. Planned(w, <<s>>)
            BY <2>2, <3>2, <3>5, <3>6, ProgramOf
        <3> QED BY <1>1, <3>3, <3>4, <3>7
    <2> QED BY <2>3, <2>4
<1> QED BY <1>4, <1>5

\* On Linux every notch is a program of its own.
LEMMA LinuxScrolls ==
    ASSUME NEW w \in D!Call, w.op = "scroll" PROVE Planned(w, D!LinuxHelpers(w))
<1>1. D!LinuxHelpers(w) = [i \in 1..Len(D!Wheel(w)) |-> <<D!Wheel(w)[i]>>]
    BY DEF D!LinuxHelpers, D!Pointed, D!Keyed
<1>2. PICK h : h = D!LinuxHelpers(w)
    OBVIOUS
<1>3. CASE w.delta = "tiny"
    <2>1. D!Wheel(w) = <<>>
        BY <1>3, WheelOf
    <2>2. h = <<>>
        <3>1. Len(<<>>) = 0 /\ 1..0 = {}
            OBVIOUS
        <3>2. h = [i \in {} |-> <<D!Wheel(w)[i]>>]
            BY <1>1, <1>2, <2>1, <3>1
        <3>3. h \in [1..0 -> Seq(D!Event)]
            BY <3>1, <3>2
        <3> QED BY <3>3, SeqOfFunction
    <2>3. D!Events(h) = <<>> /\ h \in Seq(Seq(D!Event)) /\ Len(h) = 0 /\ DOMAIN h = {}
        BY <2>2 DEF D!Events
    <2>4. DOMAIN D!Events(h) = {}
        BY <2>3
    <2> QED BY <1>2, <1>3, <2>3, <2>4 DEF Planned
<1>4. CASE w.delta # "tiny"
    <2>1. PICK a : a = D!E(w.delta, "here")
        OBVIOUS
    <2>2. /\ a \in D!Event /\ a.type = w.delta /\ w.delta \in {"up", "down"}
          /\ D!Wheel(w) = <<a, a>> /\ D!Meant(w) = <<w.delta, w.delta>>
        BY <1>4, <2>1, WheelOf
    <2>3. PICK u : u = <<a>>
        OBVIOUS
    <2>4. u \in Seq(D!Event) /\ Len(u) = 1 /\ u[1] = a /\ DOMAIN u = {1}
        BY <2>2, <2>3
    <2>5. h = [i \in 1..2 |-> u]
        <3>1. PICK z : z = <<a, a>>
            OBVIOUS
        <3>2. Len(z) = 2 /\ \A i \in 1..2 : z[i] = a
            BY ONLY <3>1
        <3> QED BY <1>1, <1>2, <2>2, <2>3, <3>1, <3>2
    <2>6. h \in Seq(Seq(D!Event)) /\ Len(h) = 2
        <3>1. h \in [1..2 -> Seq(D!Event)]
            BY <2>4, <2>5
        <3> QED BY <3>1, SeqOfFunction
    <2>7. h[1] = u /\ h[2] = u /\ DOMAIN h = 1..2
        BY <2>5
    <2>8. D!Events(h) = u \o u
        <3>1. Len(h) <= 2
            BY <2>6
        <3> QED BY <2>6, <2>7, <3>1, EventsFacts
    <2>9. u \o u = <<a, a>>
        BY <2>2, <2>3, FirstAndOne
    <2>10. PICK s : s = <<a, a>>
        OBVIOUS
    <2>11. s \in Seq(D!Event) /\ DOMAIN s = 1..2 /\ Len(s) = 2 /\ \A i \in DOMAIN s : s[i] = a
        BY <2>2, <2>10
    <2>12. Full(w, s)
        <3>1. 1 \in DOMAIN s
            BY <2>11
        <3> QED BY <2>2, <2>11, <3>1 DEF Full
    <2>13. \A k \in DOMAIN h : D!Releases(h[k])
        BY <2>2, <2>4, <2>7 DEF D!Releases
    <2> QED BY <1>2, <2>2, <2>6, <2>8, <2>9, <2>10, <2>11, <2>12, <2>13 DEF Planned
<1> QED BY <1>3, <1>4

\* What is looked at needs programs that send nothing.
LEMMA LooksPlanned ==
    ASSUME NEW w \in D!Call, w.op \in {"screenshot", "inspect"}
    PROVE  Planned(w, <<<<>>>>) /\ Planned(w, <<<<>>, <<>>>>)
<1>1. D!Meant(w) = <<>>
    BY DEF D!Meant
<1>2. PICK s : s = <<>>
    OBVIOUS
<1>3. s \in Seq(D!Event) /\ DOMAIN s = {} /\ Len(s) = 0
    BY <1>2
<1>4. D!Releases(s)
    BY <1>3 DEF D!Releases
<1>5. Full(w, s)
    BY <1>1, <1>2, <1>3 DEF Full
<1>6. Planned(w, <<s>>)
    BY <1>3, <1>4, <1>5, OneProgram
<1>7. PICK h : h = <<s, s>>
    OBVIOUS
<1>8. h \in Seq(Seq(D!Event)) /\ Len(h) = 2 /\ h[1] = s /\ h[2] = s /\ DOMAIN h = 1..2
    BY <1>3, <1>7
<1>9. D!Events(h) = s
    <2>3. Len(h) <= 2
        BY <1>8
    <2>1. D!Events(h) = s \o s
        BY <1>8, <2>3, EventsFacts
    <2>2. s \o s = s
        BY <1>2
    <2> QED BY <2>1, <2>2
<1>10. Planned(w, h)
    BY <1>3, <1>4, <1>5, <1>8, <1>9 DEF Planned
<1> QED BY <1>2, <1>6, <1>7, <1>10

LEMMA HelpersPlanned == ASSUME NEW w \in D!Call PROVE Planned(w, D!Helpers(w))
<1>1. w.op \in {"click", "move", "drag", "type", "key", "scroll", "screenshot", "inspect"}
    BY DEF D!Call, D!Ops, D!Pointed, D!Keyed
<1>2. CASE w.op = "click"
    <2>1. D!MacHelpers(w) = <<D!Click>> /\ D!LinuxHelpers(w) = <<D!Click>>
        BY <1>2 DEF D!MacHelpers, D!LinuxHelpers, D!MacPointer, D!Pointed, D!Keyed
    <2>2. D!WindowsHelpers(w) = <<<<D!E("move", "from")>> \o Tail(D!Click)>>
        BY <1>2 DEF D!WindowsHelpers, D!WindowsPointer, D!Pointed, D!Keyed
    <2>3. <<D!E("move", "from")>> \o Tail(D!Click) = D!Click
        <3>1. PICK a, b, c : /\ a = D!E("move", "from") /\ b = D!E("press", "from")
                             /\ c = D!E("release", "from")
            OBVIOUS
        <3>2. a \in D!Event /\ b \in D!Event /\ c \in D!Event
            BY <3>1, EventOf DEF D!Types, D!Places
        <3>3. D!Click = <<a, b, c>>
            BY <3>1 DEF D!Click
        <3>4. Tail(<<a, b, c>>) = <<b, c>>
            OBVIOUS
        <3>5. <<a>> \o <<b, c>> = <<a, b, c>>
            BY <3>2, FirstAndTwo
        <3> QED BY <3>1, <3>3, <3>4, <3>5
    <2> QED BY <1>2, <2>1, <2>2, <2>3, ClickPlanned DEF D!Helpers
<1>3. CASE w.op = "drag"
    <2>1. D!MacHelpers(w) = <<D!Drag>> /\ D!LinuxHelpers(w) = <<D!Drag>>
        BY <1>3 DEF D!MacHelpers, D!LinuxHelpers, D!MacPointer, D!Pointed, D!Keyed
    <2>2. D!WindowsHelpers(w) = <<<<D!E("move", "from")>> \o Tail(D!Drag)>>
        BY <1>3 DEF D!WindowsHelpers, D!WindowsPointer, D!Pointed, D!Keyed
    <2>3. <<D!E("move", "from")>> \o Tail(D!Drag) = D!Drag
        <3>1. PICK a, b, c, d : /\ a = D!E("move", "from") /\ b = D!E("press", "from")
                                /\ c = D!E("move", "to") /\ d = D!E("release", "to")
            OBVIOUS
        <3>2. a \in D!Event /\ b \in D!Event /\ c \in D!Event /\ d \in D!Event
            BY <3>1, EventOf DEF D!Types, D!Places
        <3>3. D!Drag = <<a, b, c, d>>
            BY <3>1 DEF D!Drag
        <3>4. Tail(<<a, b, c, d>>) = <<b, c, d>>
            OBVIOUS
        <3>5. <<a>> \o <<b, c, d>> = <<a, b, c, d>>
            BY <3>2, FirstAndThree
        <3> QED BY <3>1, <3>3, <3>4, <3>5
    <2> QED BY <1>3, <2>1, <2>2, <2>3, DragPlanned DEF D!Helpers
<1>4. CASE w.op = "move"
    <2>1. /\ D!MacHelpers(w) = <<<<D!E("move", "from")>>>>
          /\ D!LinuxHelpers(w) = <<<<D!E("move", "from")>>>>
        BY <1>4 DEF D!MacHelpers, D!LinuxHelpers, D!MacPointer, D!Pointed, D!Keyed
    <2>2. D!WindowsHelpers(w) = <<<<D!E("move", "from")>> \o <<>>>>
        BY <1>4 DEF D!WindowsHelpers, D!WindowsPointer, D!Pointed, D!Keyed
    <2>3. <<D!E("move", "from")>> \o <<>> = <<D!E("move", "from")>>
        OBVIOUS
    <2> QED BY <1>4, <2>1, <2>2, <2>3, MovePlanned DEF D!Helpers
<1>5. CASE w.op \in {"type", "key"}
    <2>1. w.op \in D!Keyed
        BY <1>5 DEF D!Keyed
    <2>2. /\ D!MacHelpers(w) = <<D!Strokes(w)>> /\ D!LinuxHelpers(w) = <<D!Strokes(w)>>
          /\ D!WindowsHelpers(w) = <<D!Strokes(w)>>
        BY <1>5, <2>1 DEF D!MacHelpers, D!LinuxHelpers, D!WindowsHelpers, D!Pointed, D!Keyed
    <2> QED BY <2>1, <2>2, KeysPlanned DEF D!Helpers
<1>6. CASE w.op = "scroll"
    BY <1>6, MacScrolls, LinuxScrolls, WindowsScrolls DEF D!Helpers
<1>7. CASE w.op \in {"screenshot", "inspect"}
    <2>1. /\ D!MacHelpers(w) = <<<<>>>> /\ D!LinuxHelpers(w) = <<<<>>, <<>>>>
          /\ D!WindowsHelpers(w) = <<<<>>>>
        BY <1>7 DEF D!MacHelpers, D!LinuxHelpers, D!WindowsHelpers, D!Pointed, D!Keyed
    <2> QED BY <1>7, <2>1, LooksPlanned DEF D!Helpers
<1> QED BY <1>1, <1>2, <1>3, <1>4, <1>5, <1>6, <1>7

LEMMA DesktopInit == ASSUME D!Init PROVE D!DesktopInv
<1>1. /\ v3 = [c \in Calls |-> D!New] /\ v4 = D!Nobody
      /\ v5 = [call |-> D!Nobody, place |-> "elsewhere"] /\ v6 = 0 /\ v7 \in BOOLEAN
      /\ v7 => v1 = "darwin"
      /\ v10 = FALSE
    BY DEF D!Init
<1>2. PICK new : new = D!New
    OBVIOUS
<1>3. /\ new \in D!Call /\ new.at = "new" /\ new.todo = <<>> /\ Len(new.todo) <= 2
      /\ DOMAIN new.todo = {}
    <2>1. new = [at |-> "new", op |-> "move", space |-> "pixel", placed |-> FALSE, delta |-> "down",
                 sizes |-> <<>>, todo |-> <<>>, got |-> <<>>]
        BY <1>2 DEF D!New
    <2>2. "move" \in D!Ops /\ "new" \in D!Ended \cup {"checked", "helping"}
        BY DEF D!Ops, D!Pointed, D!Ended
    <2>3. /\ <<>> \in Seq({0, 1}) /\ <<>> \in Seq(Seq(D!Event))
          /\ <<>> \in Seq([type : D!Types, at : D!Point, fits : BOOLEAN])
        OBVIOUS
    <2>4. new \in D!Call
        BY <2>1, <2>2, <2>3 DEF D!Call
    <2>5. new.at = "new" /\ new.todo = <<>>
        BY <2>1
    <2>6. Len(<<>>) <= 2 /\ DOMAIN <<>> = {}
        OBVIOUS
    <2> QED BY <2>4, <2>5, <2>6
<1>4. v5 \in D!Point
    BY <1>1 DEF D!Point
<1>5. D!Formed
    BY <1>1, <1>2, <1>3, <1>4 DEF D!Formed
<1>6. D!Running = {}
    BY <1>1, <1>2, <1>3 DEF D!Running, D!Ended
<1> QED BY <1>1, <1>5, <1>6 DEF D!DesktopInv, D!HeldIsReleased, D!Undisturbed

Got == [type : D!Types, at : D!Point, fits : BOOLEAN]

LEMMA WorkOf ==
    ASSUME D!Formed, NEW c \in Calls
    PROVE  /\ v3[c] \in D!Call /\ v3[c].at \in {"new", "done", "failed", "checked", "helping"}
           /\ v3[c].sizes \in Seq({0, 1}) /\ v3[c].todo \in Seq(Seq(D!Event))
           /\ v3[c].got \in Seq(Got) /\ v3[c].delta \in {"up", "down", "tiny"}
           /\ Len(v3[c].todo) <= 2 /\ \A h \in DOMAIN v3[c].todo : D!Releases(v3[c].todo[h])
           /\ v3[c].at = "checked" => v3[c].got = <<>>
           /\ c \in D!Running <=> v3[c].at \in {"checked", "helping"}
<1>1. v3[c] \in D!Call
    BY DEF D!Formed
<1> QED BY <1>1 DEF D!Formed, D!Call, D!Running, D!Ended, Got

\* The calls after one of them has changed.
LEMMA WorkSet ==
    ASSUME D!Formed, NEW c \in Calls, NEW j \in D!Call, v3' = [v3 EXCEPT ![c] = j]
    PROVE  /\ v3' \in [Calls -> D!Call] /\ v3'[c] = j
           /\ \A d \in Calls \ {c} : v3'[d] = v3[d]
BY DEF D!Formed

LEMMA FormedAfter ==
    ASSUME D!Formed, NEW c \in Calls, NEW j \in D!Call, v3' = [v3 EXCEPT ![c] = j],
           Len(j.todo) <= 2, \A h \in DOMAIN j.todo : D!Releases(j.todo[h]),
           j.at = "checked" => j.got = <<>>,
           v5' \in D!Point, v1' = v1, v6' = v6, v7' = v7, v10' \in BOOLEAN
    PROVE  D!Formed'
<1>1. v3' \in [Calls -> D!Call] /\ v3'[c] = j /\ \A d \in Calls \ {c} : v3'[d] = v3[d]
    BY WorkSet
<1>2. ASSUME NEW d \in Calls
      PROVE  /\ Len(v3'[d].todo) <= 2
             /\ \A h \in DOMAIN v3'[d].todo : D!Releases(v3'[d].todo[h])
             /\ v3'[d].at = "checked" => v3'[d].got = <<>>
    BY <1>1, WorkOf
<1> QED BY <1>1, <1>2 DEF D!Formed

\* While a call that nothing disturbs is under way no other one takes a step.
LEMMA OnlyOne ==
    ASSUME D!Formed, D!Undisturbed, NEW c \in D!Running, NEW j \in D!Call,
           v3' = [v3 EXCEPT ![c] = j], v9' = v9,
           c \notin v9 /\ D!Running = {c} /\ j.at \in {"checked", "helping"} => D!InHand(c)'
    PROVE  D!Undisturbed'
<1>1. c \in Calls
    BY DEF D!Running
<1>2. v3'[c] = j /\ \A d \in Calls \ {c} : v3'[d] = v3[d]
    BY <1>1, WorkSet
<1>3. j.at \in {"new", "done", "failed", "checked", "helping"}
    BY DEF D!Call, D!Ended
<1>4. ASSUME NEW d \in D!Running' \ v9', d # c PROVE FALSE
    <2>1. d \in D!Running \ v9
        BY <1>2, <1>4 DEF D!Running
    <2> QED BY <2>1, <1>4 DEF D!Undisturbed
<1>5. ASSUME c \in D!Running' \ v9' PROVE D!Running' = {c} /\ D!InHand(c)'
    <2>1. D!Running = {c}
        <3>1. c \notin v9
            BY <1>5
        <3> QED BY <3>1 DEF D!Undisturbed
    <2>2. j.at \in {"checked", "helping"}
        BY <1>1, <1>2, <1>3, <1>5 DEF D!Running, D!Ended
    <2>3. D!Running' = {c}
        <3>1. ASSUME NEW d \in D!Running', d # c PROVE FALSE
            BY <3>1, <2>1, <1>2 DEF D!Running
        <3> QED BY <3>1, <1>5
    <2> QED BY <2>1, <2>2, <2>3, <1>5
<1> QED BY <1>4, <1>5 DEF D!Undisturbed

\* A call that ends.
LEMMA WorkEnds ==
    ASSUME D!DesktopInv, NEW c \in D!Running, NEW at \in {"done", "failed"}, D!End(c, at),
           v5' = v5, v4' = v4, v1' = v1, v6' = v6, v7' = v7, v9' = v9,
           v10' \in BOOLEAN, v10 => v10', v10' \/ v3[c].todo = <<>> \/ v3[c].at = "checked"
    PROVE  D!DesktopInv'
<1> USE DEF D!DesktopInv
<1>1. c \in Calls
    BY DEF D!Running
<1>2. PICK j : j = [D!New EXCEPT !.at = at]
    OBVIOUS
<1>3. /\ j \in D!Call /\ j.at = at /\ Len(j.todo) <= 2 /\ DOMAIN j.todo = {}
    <2>1. j = [at |-> at, op |-> "move", space |-> "pixel", placed |-> FALSE, delta |-> "down",
               sizes |-> <<>>, todo |-> <<>>, got |-> <<>>]
        BY <1>2 DEF D!New
    <2>2. "move" \in D!Ops /\ at \in D!Ended \cup {"checked", "helping"}
        BY DEF D!Ops, D!Pointed, D!Ended
    <2>3. /\ <<>> \in Seq({0, 1}) /\ <<>> \in Seq(Seq(D!Event))
          /\ <<>> \in Seq([type : D!Types, at : D!Point, fits : BOOLEAN])
        OBVIOUS
    <2>4. j \in D!Call
        BY <2>1, <2>2, <2>3 DEF D!Call
    <2>5. j.at = at /\ j.todo = <<>>
        BY <2>1
    <2>6. Len(<<>>) <= 2 /\ DOMAIN <<>> = {}
        OBVIOUS
    <2> QED BY <2>4, <2>5, <2>6
<1>4. v3' = [v3 EXCEPT ![c] = j]
    BY <1>2 DEF D!End
<1>5. j.at # "checked" /\ j.at # "helping"
    BY <1>3
<1>6. D!Formed'
    <2>1. v5' \in D!Point
        BY DEF D!Formed
    <2> QED BY <1>1, <1>3, <1>4, <1>5, <2>1, FormedAfter
<1>7. D!Undisturbed'
    BY <1>3, <1>4, <1>5, OnlyOne
<1>8. D!HeldIsReleased'
    <2>1. CASE v10'
        BY <2>1 DEF D!HeldIsReleased
    <2>2. CASE ~v10'
        <3>1. v4 = D!Nobody \/ (v4 \in Calls /\ D!Holds(v4))
            BY <2>2 DEF D!HeldIsReleased
        <3>2. ASSUME v4 \in Calls, D!Holds(v4) PROVE v4 # c
            BY <3>2, <2>2 DEF D!Holds
        <3>3. ASSUME v4 \in Calls, D!Holds(v4) PROVE D!Holds(v4)'
            <4>1. v3'[v4] = v3[v4]
                BY <3>2, <3>3, <1>1, <1>3, <1>4, WorkSet
            <4> QED BY <3>3, <4>1 DEF D!Holds
        <3> QED BY <3>1, <3>3 DEF D!HeldIsReleased
    <2> QED BY <2>1, <2>2
<1> QED BY <1>6, <1>7, <1>8

\* What holds of the button when a call that does not hold it has changed.
LEMMA HeldKept ==
    ASSUME D!Formed, D!HeldIsReleased, NEW c \in Calls, NEW j \in D!Call,
           v3' = [v3 EXCEPT ![c] = j], v4' = v4, v10' = v10, v3[c].at # "helping"
    PROVE  D!HeldIsReleased'
<1>1. CASE v10
    BY <1>1 DEF D!HeldIsReleased
<1>2. CASE v4 = D!Nobody
    BY <1>2 DEF D!HeldIsReleased
<1>3. CASE v4 \in Calls /\ D!Holds(v4)
    <2>1. v4 # c
        BY <1>3 DEF D!Holds
    <2>2. v3'[v4] = v3[v4]
        BY <2>1, <1>3, WorkSet
    <2>3. D!Holds(v4)'
        BY <1>3, <2>2 DEF D!Holds
    <2> QED BY <1>3, <2>3 DEF D!HeldIsReleased
<1> QED BY <1>1, <1>2, <1>3 DEF D!HeldIsReleased

LEMMA DesktopBegin ==
    ASSUME D!DesktopInv, NEW c \in Calls, NEW op \in D!Ops, NEW space \in {"pixel", "normalized"},
           NEW placed \in BOOLEAN, NEW delta \in {"up", "down", "tiny"}, NEW sound \in BOOLEAN,
           D!Begin(c, op, space, placed, delta, sound)
    PROVE  D!DesktopInv'
<1> USE DEF D!DesktopInv
<1>1. /\ v3[c].at = "new" /\ v1' = v1 /\ v4' = v4 /\ v5' = v5 /\ v6' = v6 /\ v7' = v7 /\ v10' = v10
      /\ v9' = IF D!Running = {} THEN v9 ELSE v9 \cup D!Running \cup {c}
    BY DEF D!Begin
<1>2. PICK j : /\ v3' = [v3 EXCEPT ![c] = j] /\ j \in D!Call /\ j.at \in {"failed", "checked"}
               /\ j.todo = <<>> /\ j.got = <<>> /\ j.sizes = <<>>
    <2>1. \/ v3' = [v3 EXCEPT ![c] = [D!New EXCEPT !.at = "failed"]]
          \/ v3' = [v3 EXCEPT ![c] = [D!New EXCEPT !.at = "checked", !.op = op, !.space = space,
                                                   !.placed = placed, !.delta = delta]]
        BY DEF D!Begin, D!End
    <2>2. PICK f, k : /\ f = [D!New EXCEPT !.at = "failed"]
                      /\ k = [D!New EXCEPT !.at = "checked", !.op = op, !.space = space,
                                                   !.placed = placed, !.delta = delta]
        OBVIOUS
    <2>3. /\ f = [at |-> "failed", op |-> "move", space |-> "pixel", placed |-> FALSE,
                  delta |-> "down", sizes |-> <<>>, todo |-> <<>>, got |-> <<>>]
          /\ k = [at |-> "checked", op |-> op, space |-> space, placed |-> placed,
                  delta |-> delta, sizes |-> <<>>, todo |-> <<>>, got |-> <<>>]
        BY <2>2 DEF D!New
    <2>4. "move" \in D!Ops /\ {"failed", "checked"} \subseteq D!Ended \cup {"checked", "helping"}
        BY DEF D!Ops, D!Pointed, D!Ended
    <2>5. /\ <<>> \in Seq({0, 1}) /\ <<>> \in Seq(Seq(D!Event))
          /\ <<>> \in Seq([type : D!Types, at : D!Point, fits : BOOLEAN])
        OBVIOUS
    <2>6. f \in D!Call /\ f.at = "failed" /\ f.todo = <<>> /\ f.got = <<>> /\ f.sizes = <<>>
        BY <2>3, <2>4, <2>5 DEF D!Call
    <2>7. k \in D!Call /\ k.at = "checked" /\ k.todo = <<>> /\ k.got = <<>> /\ k.sizes = <<>>
        BY <2>3, <2>4, <2>5 DEF D!Call
    <2>8. v3' = [v3 EXCEPT ![c] = f] \/ v3' = [v3 EXCEPT ![c] = k]
        BY <2>1, <2>2
    <2> QED BY <2>6, <2>7, <2>8
<1>3. Len(j.todo) <= 2 /\ DOMAIN j.todo = {} /\ DOMAIN j.sizes = {}
    <2>1. Len(<<>>) <= 2 /\ DOMAIN <<>> = {}
        OBVIOUS
    <2> QED BY <1>2, <2>1
<1>4. D!Formed'
    <2>1. v5' \in D!Point /\ v10' \in BOOLEAN
        BY <1>1 DEF D!Formed
    <2> QED BY <1>1, <1>2, <1>3, <2>1, FormedAfter
<1>5. D!HeldIsReleased'
    <2>1. v3[c].at # "helping"
        BY <1>1
    <2> QED BY <1>1, <1>2, <2>1, HeldKept
<1>6. v3'[c] = j /\ \A d \in Calls \ {c} : v3'[d] = v3[d]
    BY <1>2, WorkSet
<1>7. D!Running' \subseteq D!Running \cup {c}
    BY <1>6 DEF D!Running
<1>8. CASE D!Running # {}
    <2>1. D!Running' \ v9' = {}
        BY <1>1, <1>7, <1>8
    <2> QED BY <1>4, <1>5, <2>1 DEF D!Undisturbed
<1>9. CASE D!Running = {}
    <2>1. D!InHand(c)'
        <3>1. v3'[c].at # "helping" /\ DOMAIN v3'[c].sizes = {}
            BY <1>2, <1>3, <1>6
        <3> QED BY <3>1 DEF D!InHand
    <2>2. D!Running' \subseteq {c}
        BY <1>7, <1>9
    <2> QED BY <1>4, <1>5, <2>1, <2>2 DEF D!Undisturbed
<1> QED BY <1>8, <1>9

LEMMA DesktopMeasure ==
    ASSUME D!DesktopInv, NEW c \in Calls, D!Measure(c) PROVE D!DesktopInv'
<1> USE DEF D!DesktopInv
<1>1. /\ v3[c].at = "checked" /\ v3' = [v3 EXCEPT ![c].sizes = Append(v3[c].sizes, v6)]
      /\ v1' = v1 /\ v4' = v4 /\ v5' = v5 /\ v6' = v6 /\ v7' = v7 /\ v9' = v9 /\ v10' = v10
    BY DEF D!Measure, D!Keep
<1>2. PICK w, s, j : w = v3[c] /\ s = Append(w.sizes, v6) /\ j = [w EXCEPT !.sizes = s]
    OBVIOUS
<1>3. v3' = [v3 EXCEPT ![c] = j]
    BY <1>1, <1>2
<1>4. /\ w \in D!Call /\ w.at = "checked" /\ w.sizes \in Seq({0, 1}) /\ Len(w.todo) <= 2
      /\ \A h \in DOMAIN w.todo : D!Releases(w.todo[h])
      /\ w.got = <<>> /\ v6 \in {0, 1}
    BY <1>1, <1>2, WorkOf DEF D!Formed
<1>5. /\ s \in Seq({0, 1}) /\ Len(s) = Len(w.sizes) + 1
      /\ \A i \in 1..(Len(w.sizes) + 1) : s[i] = IF i <= Len(w.sizes) THEN w.sizes[i] ELSE v6
    BY <1>2, <1>4, AppendFacts
<1>6. /\ j \in D!Call /\ j.at = "checked" /\ j.todo = w.todo /\ j.got = w.got /\ j.sizes = s
    BY ONLY <1>2, <1>4, <1>5 DEF D!Call
<1>7. D!Formed'
    <2>1. v5' \in D!Point /\ v10' \in BOOLEAN
        BY <1>1 DEF D!Formed
    <2>2. /\ Len(j.todo) <= 2 /\ \A h \in DOMAIN j.todo : D!Releases(j.todo[h])
          /\ j.got = <<>>
        BY <1>4, <1>6
    <2> QED BY <1>1, <1>3, <1>6, <2>1, <2>2, FormedAfter
<1>8. D!HeldIsReleased'
    <2>1. v3[c].at # "helping"
        BY <1>1
    <2> QED BY <1>1, <1>3, <1>6, <2>1, HeldKept
<1>9. c \in D!Running
    BY <1>1, WorkOf
<1>10. ASSUME c \notin v9 PROVE D!InHand(c)'
    <2>1. D!InHand(c)
        BY <1>9, <1>10 DEF D!Undisturbed
    <2>2. v3'[c] = j
        BY <1>3, <1>6, WorkSet
    <2>3. \A i \in DOMAIN w.sizes : w.sizes[i] = v6
        BY <2>1, <1>2 DEF D!InHand
    <2>4. \A i \in DOMAIN s : s[i] = v6
        <3>1. DOMAIN s = 1..(Len(w.sizes) + 1) /\ DOMAIN w.sizes = 1..Len(w.sizes) /\ Len(w.sizes) \in Nat
            BY <1>4, <1>5
        <3> QED BY <3>1, <2>3, <1>5
    <2> QED BY <2>2, <2>4, <1>1, <1>6 DEF D!InHand
<1>11. D!Undisturbed'
    BY <1>1, <1>3, <1>6, <1>9, <1>10, OnlyOne
<1> QED BY <1>7, <1>8, <1>11

\* The input of a call on its way, of all that its helpers send.
Way(got, rest, all, of, c) ==
    /\ Len(got) + Len(rest) = Len(all)
    /\ \A i \in DOMAIN got : got[i].type = all[i].type /\ got[i].fits /\ got[i].at.call = c
    /\ \A i \in DOMAIN rest : rest[i] = all[Len(got) + i]
    /\ got # <<>> /\ got[1].type = "move" => of = c

LEMMA WayOf ==
    ASSUME NEW c \in Calls
    PROVE  D!OnItsWay(c) <=>
               Way(v3[c].got, D!Events(v3[c].todo), D!Events(D!Helpers(v3[c])), v5.call, c)
BY DEF D!OnItsWay, Way

LEMMA SameHelpers ==
    ASSUME NEW w, NEW z, z.op = w.op, z.placed = w.placed, z.delta = w.delta
    PROVE  /\ D!MacHelpers(z) = D!MacHelpers(w) /\ D!LinuxHelpers(z) = D!LinuxHelpers(w)
           /\ D!WindowsHelpers(z) = D!WindowsHelpers(w)
<1>1. D!Strokes(z) = D!Strokes(w) /\ D!Wheel(z) = D!Wheel(w)
    BY DEF D!Strokes, D!Wheel
<1>2. D!WindowsPointer(z) = D!WindowsPointer(w)
    BY <1>1 DEF D!WindowsPointer
<1>3. D!MacHelpers(z) = D!MacHelpers(w)
    BY <1>1 DEF D!MacHelpers
<1>4. D!LinuxHelpers(z) = D!LinuxHelpers(w)
    BY <1>1 DEF D!LinuxHelpers
<1>5. D!WindowsHelpers(z) = D!WindowsHelpers(w)
    BY <1>1, <1>2 DEF D!WindowsHelpers
<1> QED BY <1>3, <1>4, <1>5

LEMMA HelpersStay ==
    ASSUME NEW c \in Calls, v1' = v1, v3'[c].op = v3[c].op, v3'[c].placed = v3[c].placed,
           v3'[c].delta = v3[c].delta
    PROVE  D!Events(D!Helpers(v3[c]))' = D!Events(D!Helpers(v3[c]))
<1>1. /\ D!MacHelpers(v3'[c]) = D!MacHelpers(v3[c]) /\ D!LinuxHelpers(v3'[c]) = D!LinuxHelpers(v3[c])
      /\ D!WindowsHelpers(v3'[c]) = D!WindowsHelpers(v3[c])
    BY SameHelpers
<1>2. D!Helpers(v3[c])' = D!Helpers(v3[c])
    BY <1>1 DEF D!Helpers
<1> QED BY <1>2

LEMMA WayAfter ==
    ASSUME NEW c \in Calls, NEW all, D!Events(D!Helpers(v3[c]))' = all,
           Way(v3'[c].got, D!Events(v3'[c].todo), all, v5'.call, c)
    PROVE  D!OnItsWay(c)'
BY DEF D!OnItsWay, Way

LEMMA WayStarts ==
    ASSUME NEW all \in Seq(D!Event), NEW of, NEW c PROVE Way(<<>>, all, all, of, c)
<1>1. Len(<<>>) = 0 /\ DOMAIN <<>> = {} /\ Len(all) \in Nat
    OBVIOUS
<1>2. DOMAIN all = 1..Len(all) /\ \A i \in 1..Len(all) : 0 + i = i
    OBVIOUS
<1> QED BY <1>1, <1>2 DEF Way

LEMMA DesktopLaunch ==
    ASSUME D!DesktopInv, NEW c \in Calls, D!Launch(c) PROVE D!DesktopInv'
<1>1. /\ v3[c].at = "checked" /\ v1' = v1 /\ v4' = v4 /\ v5' = v5 /\ v6' = v6 /\ v7' = v7
      /\ v9' = v9 /\ v10' = v10
    BY DEF D!Launch, D!Keep
<1>2. D!Formed /\ D!HeldIsReleased /\ D!Undisturbed
    BY DEF D!DesktopInv
<1>3. c \in D!Running
    BY <1>1, <1>2, WorkOf
<1>4. CASE ~D!InputLands(c)
    <2>1. D!End(c, "failed")
        BY <1>4 DEF D!Launch
    <2>2. v10' \in BOOLEAN
        BY <1>1, <1>2 DEF D!Formed
    <2> QED BY <1>1, <1>3, <2>1, <2>2, WorkEnds
<1>5. CASE D!InputLands(c)
    <2>1. PICK w, h, s : w = v3[c] /\ h = D!Helpers(w) /\ s = IF w.sizes = <<>> THEN <<v6>> ELSE w.sizes
        OBVIOUS
    <2>2. PICK m, n, j : /\ m = [w EXCEPT !.at = "helping"] /\ n = [m EXCEPT !.todo = h]
                         /\ j = [n EXCEPT !.sizes = s]
        OBVIOUS
    <2>3. /\ w \in D!Call /\ w.sizes \in Seq({0, 1}) /\ w.got = <<>> /\ v6 \in {0, 1}
        BY <1>1, <1>2, <2>1, WorkOf DEF D!Formed
    <2>4. /\ h \in Seq(Seq(D!Event)) /\ Len(h) <= 2 /\ \A k \in DOMAIN h : D!Releases(h[k])
        BY <2>1, <2>3, HelpersPlanned DEF Planned
    <2>5. s \in Seq({0, 1}) /\ s # <<>> /\ \A i \in DOMAIN s : s[i] = v6 \/ (i \in DOMAIN w.sizes /\ s[i] = w.sizes[i])
        <3>1. CASE w.sizes = <<>>
            <4>1. PICK f : f = <<v6>>
                OBVIOUS
            <4>2. f \in Seq({0, 1}) /\ DOMAIN f = {1} /\ f[1] = v6 /\ f # <<>>
                BY <2>3, <4>1
            <4> QED BY <2>1, <3>1, <4>1, <4>2
        <3>2. CASE w.sizes # <<>>
            BY <2>1, <2>3, <3>2
        <3> QED BY <3>1, <3>2
    <2>6. "helping" \in D!Ended \cup {"checked", "helping"}
        OBVIOUS
    <2>7. m \in D!Call /\ m.at = "helping" /\ m.got = w.got /\ m.op = w.op /\ m.placed = w.placed /\ m.delta = w.delta
        BY ONLY <2>2, <2>3, <2>6 DEF D!Call
    <2>8. /\ n \in D!Call /\ n.at = "helping" /\ n.todo = h /\ n.got = w.got /\ n.op = w.op
          /\ n.placed = w.placed /\ n.delta = w.delta
        BY ONLY <2>2, <2>4, <2>7 DEF D!Call
    <2>9. /\ j \in D!Call /\ j.at = "helping" /\ j.todo = h /\ j.got = w.got /\ j.op = w.op
          /\ j.placed = w.placed /\ j.delta = w.delta /\ j.sizes = s
        BY ONLY <2>2, <2>5, <2>8 DEF D!Call
    <2>10. v3' = [v3 EXCEPT ![c] = j]
        <3>1. v3' = [v3 EXCEPT ![c].at = "helping", ![c].todo = h, ![c].sizes = s]
            BY <1>5, <2>1 DEF D!Launch
        <3> QED BY <2>1, <2>2, <3>1
    <2>11. D!Formed'
        <3>1. v5' \in D!Point /\ v10' \in BOOLEAN
            BY <1>1, <1>2 DEF D!Formed
        <3>2. /\ Len(j.todo) <= 2 /\ \A k \in DOMAIN j.todo : D!Releases(j.todo[k])
              /\ j.at # "checked"
            BY <2>4, <2>9
        <3> QED BY <1>1, <1>2, <2>9, <2>10, <3>1, <3>2, FormedAfter
    <2>12. D!HeldIsReleased'
        <3>1. v3[c].at # "helping"
            BY <1>1
        <3> QED BY <1>1, <1>2, <2>9, <2>10, <3>1, HeldKept
    <2>13. v3'[c] = j
        BY <1>2, <2>9, <2>10, WorkSet
    <2>14. ASSUME c \notin v9 PROVE D!InHand(c)'
        <3>1. D!InHand(c)
            BY <1>2, <1>3, <2>14 DEF D!Undisturbed
        <3>2. \A i \in DOMAIN s : s[i] = v6
            BY <3>1, <2>1, <2>5 DEF D!InHand
        <3>3. j.op \in D!Keyed => ~v7
            BY <1>2, <1>5, <2>1, <2>9 DEF D!InputLands, D!Formed
        <3>4. PICK all : all = D!Events(h)
            OBVIOUS
        <3>5. all \in Seq(D!Event)
            BY <2>4, <3>4, EventsFacts
        <3>6. D!Events(D!Helpers(v3[c]))' = all
            BY <1>1, <2>1, <2>9, <2>13, <3>4, HelpersStay
        <3>7. Way(v3'[c].got, D!Events(v3'[c].todo), all, v5'.call, c)
            <4>1. Way(<<>>, all, all, v5'.call, c)
                BY <3>5, WayStarts
            <4> QED BY <4>1, <2>3, <2>9, <2>13, <3>4
        <3>8. D!OnItsWay(c)'
            BY <3>6, <3>7, WayAfter
        <3> QED BY <1>1, <2>5, <2>9, <2>13, <3>2, <3>3, <3>8 DEF D!InHand
    <2>15. D!Undisturbed'
        BY <1>1, <1>2, <1>3, <2>9, <2>10, <2>14, OnlyOne
    <2> QED BY <2>11, <2>12, <2>15 DEF D!DesktopInv
<1> QED BY <1>4, <1>5

LEMMA DesktopEnds ==
    ASSUME D!DesktopInv, NEW c \in Calls, D!EndHelper(c) PROVE D!DesktopInv'
<1>1. /\ v3[c].at = "helping" /\ v1' = v1 /\ v4' = v4 /\ v5' = v5 /\ v6' = v6 /\ v7' = v7
      /\ v9' = v9 /\ v10' = v10
    BY DEF D!EndHelper, D!Keep
<1>2. D!Formed /\ D!HeldIsReleased /\ D!Undisturbed
    BY DEF D!DesktopInv
<1>3. c \in D!Running
    BY <1>1, <1>2, WorkOf
<1>4. v10' \in BOOLEAN
    BY <1>1, <1>2 DEF D!Formed
<1>5. CASE v3[c].todo = <<>> /\ D!End(c, "done")
    BY <1>1, <1>3, <1>4, <1>5, WorkEnds
<1>6. CASE v3[c].todo # <<>> /\ Head(v3[c].todo) = <<>> /\ v3' = [v3 EXCEPT ![c].todo = Tail(v3[c].todo)]
    <2>1. PICK w, h, j : w = v3[c] /\ h = Tail(w.todo) /\ j = [w EXCEPT !.todo = h]
        OBVIOUS
    <2>2. /\ w \in D!Call /\ w.at = "helping" /\ w.todo \in Seq(Seq(D!Event)) /\ Len(w.todo) <= 2
          /\ \A k \in DOMAIN w.todo : D!Releases(w.todo[k])
        BY <1>1, <1>2, <2>1, WorkOf
    <2>3. /\ h \in Seq(Seq(D!Event)) /\ Len(h) <= 2
          /\ \A k \in DOMAIN h : h[k] = w.todo[2] /\ 2 \in DOMAIN w.todo
          /\ D!Events(h) = D!Events(w.todo)
        BY <1>6, <2>1, <2>2, HelperEnds
    <2>4. /\ j \in D!Call /\ j.at = "helping" /\ j.todo = h /\ j.got = w.got /\ j.op = w.op
          /\ j.placed = w.placed /\ j.delta = w.delta /\ j.sizes = w.sizes
        BY ONLY <2>1, <2>2, <2>3 DEF D!Call
    <2>5. v3' = [v3 EXCEPT ![c] = j]
        BY <1>6, <2>1
    <2>6. D!Formed'
        <3>1. v5' \in D!Point
            BY <1>1, <1>2 DEF D!Formed
        <3>2. /\ Len(j.todo) <= 2 /\ \A k \in DOMAIN j.todo : D!Releases(j.todo[k])
              /\ j.at # "checked"
            BY <2>2, <2>3, <2>4
        <3> QED BY <1>1, <1>2, <1>4, <2>4, <2>5, <3>1, <3>2, FormedAfter
    <2>7. v3'[c] = j /\ \A d \in Calls \ {c} : v3'[d] = v3[d]
        BY <1>2, <2>4, <2>5, WorkSet
    <2>8. D!HeldIsReleased'
        <3>1. CASE v10
            BY <1>1, <3>1 DEF D!HeldIsReleased
        <3>2. CASE v4 = D!Nobody
            BY <1>1, <3>2 DEF D!HeldIsReleased
        <3>3. CASE v4 \in Calls /\ D!Holds(v4)
            <4>1. v4 # c
                BY <1>6, <3>3 DEF D!Holds
            <4>2. D!Holds(v4)'
                BY <1>1, <2>7, <3>3, <4>1 DEF D!Holds
            <4> QED BY <1>1, <3>3, <4>2 DEF D!HeldIsReleased
        <3> QED BY <1>2, <3>1, <3>2, <3>3 DEF D!HeldIsReleased
    <2>9. ASSUME c \notin v9 PROVE D!InHand(c)'
        <3>1. D!InHand(c)
            BY <1>2, <1>3, <2>9 DEF D!Undisturbed
        <3>2. PICK all : all = D!Events(D!Helpers(w))
            OBVIOUS
        <3>3. Way(w.got, D!Events(w.todo), all, v5.call, c)
            BY <1>1, <2>1, <3>1, <3>2, WayOf DEF D!InHand
        <3>4. D!Events(D!Helpers(v3[c]))' = all
            BY <1>1, <2>1, <2>4, <2>7, <3>2, HelpersStay
        <3>5. Way(v3'[c].got, D!Events(v3'[c].todo), all, v5'.call, c)
            BY <1>1, <2>3, <2>4, <2>7, <3>3
        <3>6. D!OnItsWay(c)'
            BY <3>4, <3>5, WayAfter
        <3>7. /\ \A i \in DOMAIN w.sizes : w.sizes[i] = v6
              /\ w.sizes # <<>> /\ (w.op \in D!Keyed => ~v7)
            BY <1>1, <2>1, <3>1 DEF D!InHand
        <3> QED BY <1>1, <2>4, <2>7, <3>6, <3>7 DEF D!InHand
    <2>10. D!Undisturbed'
        BY <1>1, <1>2, <1>3, <2>4, <2>5, <2>9, OnlyOne
    <2> QED BY <2>6, <2>8, <2>10 DEF D!DesktopInv
<1> QED BY <1>5, <1>6 DEF D!EndHelper

LEMMA DesktopKill ==
    ASSUME D!DesktopInv, NEW c \in Calls, D!Kill(c) PROVE D!DesktopInv'
<1>1. /\ v3[c].at \in {"checked", "helping"} /\ D!End(c, "failed") /\ v10' = TRUE
      /\ v1' = v1 /\ v4' = v4 /\ v5' = v5 /\ v6' = v6 /\ v7' = v7 /\ v9' = v9
    BY DEF D!Kill, D!Keep
<1>2. c \in D!Running
    BY <1>1, WorkOf DEF D!DesktopInv
<1> QED BY <1>1, <1>2, WorkEnds

LEMMA DesktopChanges == ASSUME D!DesktopInv, D!Change PROVE D!DesktopInv'
<1>1. /\ v9' = v9 \cup D!Running /\ v1' = v1 /\ v3' = v3 /\ v4' = v4 /\ v5' = v5 /\ v10' = v10
      /\ \/ v6' = 1 - v6 /\ v7' = v7
         \/ v1 = "darwin" /\ v7' = ~v7 /\ v6' = v6
    BY DEF D!Change
<1>2. D!Formed'
    <2>1. v6' \in {0, 1}
        <3>1. v6 \in {0, 1} /\ (v6' = 1 - v6 \/ v6' = v6)
            BY <1>1 DEF D!DesktopInv, D!Formed
        <3> QED BY ONLY <3>1
    <2>2. v7' \in BOOLEAN /\ (v7' => v1' = "darwin")
        <3>1. v7 \in BOOLEAN /\ (v7 => v1 = "darwin")
            BY DEF D!DesktopInv, D!Formed
        <3>2. CASE v7' = v7
            BY <1>1, <3>1, <3>2
        <3>3. CASE v1 = "darwin" /\ v7' = ~v7
            <4>1. v7' \in BOOLEAN
                BY <3>3
            <4>2. v1' = "darwin"
                BY <1>1, <3>3
            <4> QED BY <4>1, <4>2
        <3> QED BY <1>1, <3>2, <3>3
    <2> QED BY <1>1, <2>1, <2>2 DEF D!DesktopInv, D!Formed
<1>3. D!HeldIsReleased'
    BY <1>1 DEF D!DesktopInv, D!HeldIsReleased, D!Holds
<1>4. D!Running' \ v9' = {}
    BY <1>1 DEF D!Running
<1> QED BY <1>2, <1>3, <1>4 DEF D!DesktopInv, D!Undisturbed

LEMMA TailReleases ==
    ASSUME NEW s \in Seq(D!Event), s # <<>>, D!Releases(s)
    PROVE  /\ D!Releases(Tail(s))
           /\ Head(s).type = "press" \/ (s[Len(s)].type = "release" /\ Head(s).type # "release")
                 => Tail(s) # <<>> /\ Head(Tail(s)) = s[2]
                    /\ Tail(s)[Len(Tail(s))].type = "release"
<1>1. PICK z, n : z = Tail(s) /\ n = Len(s)
    OBVIOUS
<1>2. /\ Head(s) = s[1] /\ n \in Nat /\ n > 0 /\ z \in Seq(D!Event) /\ Len(z) = n - 1
      /\ \A i \in 1..(n - 1) : z[i] = s[i + 1]
      /\ DOMAIN s = 1..n /\ DOMAIN z = 1..(n - 1)
    BY <1>1, TailFacts
<1>3. \A i \in 1..n : s[i].type = "press" => i < n /\ s[n].type = "release"
    BY <1>1, <1>2 DEF D!Releases
<1>4. ASSUME NEW i \in 1..(n - 1), z[i].type = "press"
      PROVE  i < n - 1 /\ z[n - 1].type = "release"
    <2>1. i + 1 \in 1..n /\ s[i + 1].type = "press"
        BY <1>2, <1>4
    <2>2. i + 1 < n /\ s[n].type = "release"
        BY <1>3, <2>1
    <2>3. n - 1 \in 1..(n - 1) /\ (n - 1) + 1 = n
        BY <1>2, <2>2
    <2>4. z[n - 1] = s[(n - 1) + 1]
        BY <1>2, <2>3
    <2> QED BY <1>2, <2>2, <2>3, <2>4
<1>5. D!Releases(z)
    BY <1>2, <1>4 DEF D!Releases
<1>6. ASSUME s[1].type = "press" \/ (s[n].type = "release" /\ s[1].type # "release")
      PROVE  z # <<>> /\ Head(z) = s[2] /\ z[n - 1].type = "release"
    <2>1. n > 1 /\ s[n].type = "release"
        <3>1. 1 \in 1..n
            BY <1>2
        <3>2. CASE s[1].type = "press"
            BY <1>3, <3>1, <3>2
        <3>3. CASE s[n].type = "release" /\ s[1].type # "release"
            BY <1>2, <3>3
        <3> QED BY <1>6, <3>2, <3>3
    <2>2. n - 1 \in 1..(n - 1) /\ (n - 1) + 1 = n /\ 1 \in 1..(n - 1) /\ 1 + 1 = 2
        BY <1>2, <2>1
    <2>3. z[n - 1] = s[(n - 1) + 1] /\ z[1] = s[1 + 1]
        BY <1>2, <2>2
    <2>4. z # <<>>
        <3>1. DOMAIN <<>> = {}
            OBVIOUS
        <3> QED BY <1>2, <2>2, <3>1
    <2>5. Head(z) = z[1]
        BY <1>2, <2>4
    <2> QED BY <2>1, <2>2, <2>3, <2>4, <2>5
<1> QED BY <1>1, <1>2, <1>5, <1>6

LEMMA WaySent ==
    ASSUME NEW got \in Seq(Got), NEW rest \in Seq(D!Event), NEW all \in Seq(D!Event), NEW of, NEW c,
           Way(got, rest, all, of, c), NEW r \in Got, NEW left \in Seq(D!Event), NEW by,
           Len(rest) > 0, Len(left) = Len(rest) - 1, \A i \in 1..(Len(rest) - 1) : left[i] = rest[i + 1],
           r.type = rest[1].type, r.fits, r.at.call = c,
           r.type = "move" => by = c, r.type # "move" => by = of
    PROVE  Way(Append(got, r), left, all, by, c)
<1>1. PICK g, n, m : g = Append(got, r) /\ n = Len(got) /\ m = Len(rest)
    OBVIOUS
<1>2. /\ n \in Nat /\ m \in Nat /\ m > 0 /\ DOMAIN got = 1..n /\ DOMAIN rest = 1..m
      /\ DOMAIN left = 1..(m - 1) /\ Len(left) = m - 1
    BY <1>1
<1>3. /\ g \in Seq(Got) /\ Len(g) = n + 1
      /\ \A i \in 1..(n + 1) : g[i] = IF i <= n THEN got[i] ELSE r
    BY <1>1, AppendFacts
<1>4. /\ n + m = Len(all) /\ \A i \in 1..n : got[i].type = all[i].type /\ got[i].fits /\ got[i].at.call = c
      /\ \A i \in 1..m : rest[i] = all[n + i]
      /\ n # 0 /\ got[1].type = "move" => of = c
    BY <1>1, <1>2 DEF Way
<1>5. DOMAIN g = 1..(n + 1) /\ g # <<>>
    <2>1. DOMAIN g = 1..(n + 1) /\ 1 \in 1..(n + 1)
        BY <1>2, <1>3
    <2>2. DOMAIN <<>> = {}
        OBVIOUS
    <2> QED BY <2>1, <2>2
<1>6. Len(g) + Len(left) = Len(all)
    <2>1. (n + 1) + (m - 1) = n + m
        BY <1>2
    <2>2. Len(g) = n + 1 /\ Len(left) = m - 1 /\ Len(all) = n + m
        BY <1>2, <1>3, <1>4
    <2> QED BY <2>1, <2>2
<1>7. ASSUME NEW i \in 1..(n + 1) PROVE g[i].type = all[i].type /\ g[i].fits /\ g[i].at.call = c
    <2>1. CASE i <= n
        BY <2>1, <1>2, <1>3, <1>4
    <2>2. CASE ~(i <= n)
        <3>3. n \in Nat /\ m \in Nat /\ m > 0 /\ i \in 1..(n + 1)
            BY <1>2
        <3>1. i = n + 1 /\ 1 \in 1..m
            BY ONLY <2>2, <3>3
        <3>2. g[i] = r /\ rest[1] = all[n + 1]
            BY <1>3, <1>4, <2>2, <3>1
        <3> QED BY <3>1, <3>2
    <2> QED BY <2>1, <2>2
<1>8. ASSUME NEW i \in 1..(m - 1) PROVE left[i] = all[(n + 1) + i]
    <2>1. i + 1 \in 1..m /\ n + (i + 1) = (n + 1) + i
        BY <1>2
    <2>2. left[i] = rest[i + 1]
        BY <1>1
    <2> QED BY <1>4, <2>1, <2>2
<1>9. g[1].type = "move" => by = c
    <2>1. CASE n = 0
        BY <2>1, <1>3
    <2>2. CASE n # 0
        <3>1. 1 \in 1..(n + 1) /\ 1 <= n
            BY <1>2, <2>2
        <3>2. g[1] = got[1]
            BY <1>3, <3>1
        <3> QED BY <2>2, <3>2, <1>4
    <2> QED BY <2>1, <2>2
<1>10. Way(g, left, all, by, c)
    BY <1>2, <1>3, <1>5, <1>6, <1>7, <1>8, <1>9 DEF Way
<1> QED BY <1>1, <1>10

LEMMA DesktopSend ==
    ASSUME D!DesktopInv, NEW c \in Calls, D!Send(c) PROVE D!DesktopInv'
<1>1. D!Formed /\ D!HeldIsReleased /\ D!Undisturbed
    BY DEF D!DesktopInv
<1>2. PICK w, h, s, e, t : /\ w = v3[c] /\ h = w.todo /\ s = h[1] /\ e = Head(Head(h))
                           /\ t = <<Tail(Head(h))>> \o Tail(h)
    OBVIOUS
<1>3. /\ w.at = "helping" /\ h # <<>> /\ Head(h) # <<>>
      /\ v1' = v1 /\ v6' = v6 /\ v7' = v7 /\ v9' = v9 /\ v10' = v10
    BY <1>2 DEF D!Send
<1>4. /\ v4' = CASE e.type = "press" -> c [] e.type = "release" -> D!Nobody [] OTHER -> v4
      /\ v5' = IF e.type = "move" THEN [call |-> c, place |-> e.place] ELSE v5
    BY <1>2 DEF D!Send, D!Arrive
<1>5. PICK r : r = [type |-> e.type,
                    at |-> IF e.type \in {"press", "release"} THEN v5' ELSE [call |-> c, place |-> e.place],
                    fits |-> D!Range(w.sizes) = {v6} \/ w.space = "pixel"]
    OBVIOUS
<1>6. PICK g : g = IF e.type = "key" /\ v7 THEN w.got ELSE Append(w.got, r)
    OBVIOUS
<1>7. v3' = [v3 EXCEPT ![c].todo = t, ![c].got = g]
    BY <1>2, <1>5, <1>6 DEF D!Send
<1>8. PICK m, j : m = [w EXCEPT !.todo = t] /\ j = [m EXCEPT !.got = g]
    OBVIOUS
<1>9. v3' = [v3 EXCEPT ![c] = j]
    BY <1>2, <1>7, <1>8
<1>10. /\ w \in D!Call /\ w.sizes \in Seq({0, 1}) /\ h \in Seq(Seq(D!Event)) /\ Len(h) <= 2
       /\ w.got \in Seq(Got) /\ \A k \in DOMAIN h : D!Releases(h[k])
       /\ v5 \in D!Point /\ c \in D!Running
    BY <1>1, <1>2, <1>3, WorkOf DEF D!Formed
<1>11. /\ t \in Seq(Seq(D!Event)) /\ Len(t) = Len(h)
       /\ Head(h) = s /\ s \in Seq(D!Event) /\ t[1] = Tail(s) /\ t[1] \in Seq(D!Event)
       /\ Len(h) = 2 => t[2] = h[2] /\ h[2] \in Seq(D!Event)
       /\ Len(D!Events(t)) = Len(D!Events(h)) - 1
       /\ \A i \in 1..(Len(D!Events(h)) - 1) : D!Events(t)[i] = D!Events(h)[i + 1]
       /\ Len(D!Events(h)) > 0 /\ D!Events(h)[1] = e
       /\ e \in D!Event
    <2>1. t = <<Tail(Head(h))>> \o Tail(h)
        BY <1>2
    <2> QED BY <1>2, <1>3, <1>10, <2>1, EventSent
<1>12. e.type \in D!Types /\ e.place \in D!Places
    BY <1>11 DEF D!Event
<1>13. v5' \in D!Point
    <2>1. PICK p : p = [call |-> c, place |-> e.place]
        OBVIOUS
    <2>2. p \in D!Point
        BY <2>1, <1>12 DEF D!Point
    <2> QED BY <1>4, <1>10, <2>1, <2>2
<1>14. r \in Got /\ r.type = e.type
    <2>1. PICK p, x, b : /\ p = [call |-> c, place |-> e.place]
                         /\ x = IF e.type \in {"press", "release"} THEN v5' ELSE p
                         /\ b = (D!Range(w.sizes) = {v6} \/ w.space = "pixel")
        OBVIOUS
    <2>2. p \in D!Point
        BY <2>1, <1>12 DEF D!Point
    <2>3. x \in D!Point
        BY <1>13, <2>1, <2>2
    <2>4. b \in BOOLEAN
        BY <2>1
    <2>5. r = [type |-> e.type, at |-> x, fits |-> b]
        BY <1>5, <2>1
    <2> QED BY <1>12, <2>3, <2>4, <2>5 DEF Got
<1>15. g \in Seq(Got)
    BY <1>6, <1>10, <1>14, AppendFacts
<1>16. m \in D!Call /\ m.at = "helping" /\ m.todo = t /\ m.op = w.op /\ m.placed = w.placed
       /\ m.delta = w.delta /\ m.sizes = w.sizes
    BY ONLY <1>3, <1>8, <1>10, <1>11 DEF D!Call
<1>17. j \in D!Call /\ j.at = "helping" /\ j.todo = t /\ j.got = g /\ j.op = w.op /\ j.placed = w.placed
       /\ j.delta = w.delta /\ j.sizes = w.sizes
    BY ONLY <1>8, <1>15, <1>16 DEF D!Call, Got
<1>18. v3'[c] = j /\ \A d \in Calls \ {c} : v3'[d] = v3[d]
    BY <1>1, <1>9, <1>17, WorkSet
<1>19. s # <<>> /\ D!Releases(s) /\ e = Head(s)
    <2>1. 1 \in DOMAIN h
        BY <1>3, <1>10
    <2> QED BY <1>2, <1>3, <1>10, <1>11, <2>1
<1>20. D!Formed'
    <2>1. \A k \in DOMAIN t : D!Releases(t[k])
        <3>1. D!Releases(Tail(s))
            BY <1>11, <1>19, TailReleases
        <3>2. Len(h) = 1 \/ Len(h) = 2
            BY <1>3, <1>10, ShortSeq
        <3>3. DOMAIN t = 1..Len(h) /\ DOMAIN h = 1..Len(h)
            BY <1>10, <1>11
        <3>4. \A k \in DOMAIN t : k = 1 \/ (k = 2 /\ Len(h) = 2)
            BY <3>2, <3>3
        <3>5. Len(h) = 2 => D!Releases(h[2])
            BY <1>10, <3>3
        <3> QED BY <1>11, <3>1, <3>4, <3>5
    <2>2. v10' \in BOOLEAN
        BY <1>1, <1>3 DEF D!Formed
    <2>3. /\ Len(j.todo) <= 2 /\ \A k \in DOMAIN j.todo : D!Releases(j.todo[k])
          /\ j.at # "checked"
        BY <1>10, <1>11, <1>17, <2>1
    <2> QED BY <1>1, <1>3, <1>9, <1>13, <1>17, <2>2, <2>3, FormedAfter
<1>21. D!HeldIsReleased'
    <2>1. ASSUME e.type = "press" \/ (s[Len(s)].type = "release" /\ e.type # "release")
          PROVE  D!Holds(c)'
        <3>1. Tail(s) # <<>> /\ Tail(s)[Len(Tail(s))].type = "release"
            BY <1>11, <1>19, <2>1, TailReleases
        <3>2. t # <<>> /\ Head(t) = Tail(s)
            <4>1. Len(h) > 0
                BY <1>3, <1>10, TailFacts
            <4>2. t # <<>>
                BY <1>11, <4>1
            <4>3. Head(t) = t[1]
                BY <1>11, <4>2, TailFacts
            <4> QED BY <1>11, <4>2, <4>3
        <3> QED BY <1>17, <1>18, <3>1, <3>2 DEF D!Holds
    <2>2. CASE v10
        BY <1>3, <2>2 DEF D!HeldIsReleased
    <2>3. CASE e.type = "press"
        <3>1. v4' = c
            BY <1>4, <2>3
        <3>2. D!Holds(c)'
            BY <2>1, <2>3
        <3> QED BY <3>1, <3>2 DEF D!HeldIsReleased
    <2>4. CASE e.type = "release"
        <3>1. v4' = D!Nobody
            BY <1>4, <2>4
        <3> QED BY <3>1 DEF D!HeldIsReleased
    <2>5. CASE ~v10 /\ e.type \notin {"press", "release"}
        <3>1. v4' = v4
            BY <1>4, <2>5
        <3>2. v4 = D!Nobody \/ (v4 \in Calls /\ D!Holds(v4))
            BY <1>1, <2>5 DEF D!HeldIsReleased
        <3>3. ASSUME v4 = c, D!Holds(v4) PROVE D!Holds(c)'
            <4>1. s[Len(s)].type = "release"
                BY <1>2, <1>11, <3>3 DEF D!Holds
            <4> QED BY <2>1, <2>5, <4>1
        <3>4. ASSUME v4 \in Calls \ {c}, D!Holds(v4) PROVE D!Holds(v4)'
            BY <1>18, <3>1, <3>4 DEF D!Holds
        <3>5. CASE v4 = D!Nobody
            BY <3>1, <3>5 DEF D!HeldIsReleased
        <3>6. CASE v4 = c /\ D!Holds(v4)
            BY <3>1, <3>3, <3>6 DEF D!HeldIsReleased
        <3>7. CASE v4 \in Calls \ {c} /\ D!Holds(v4)
            BY <3>1, <3>4, <3>7 DEF D!HeldIsReleased
        <3> QED BY <3>2, <3>5, <3>6, <3>7
    <2> QED BY <2>2, <2>3, <2>4, <2>5
<1>22. ASSUME c \notin v9 PROVE D!InHand(c)'
    <2>1. D!InHand(c)
        BY <1>1, <1>10, <1>22 DEF D!Undisturbed
    <2>2. /\ \A i \in DOMAIN w.sizes : w.sizes[i] = v6
          /\ w.sizes # <<>> /\ (w.op \in D!Keyed => ~v7) /\ D!OnItsWay(c)
        BY <1>2, <1>3, <2>1 DEF D!InHand
    <2>3. PICK hs, all, rest : hs = D!Helpers(w) /\ all = D!Events(hs) /\ rest = D!Events(h)
        OBVIOUS
    <2>4. Way(w.got, rest, all, v5.call, c)
        BY <1>2, <2>2, <2>3, WayOf
    <2>5. Planned(w, hs)
        BY <1>10, <2>3, HelpersPlanned
    <2>6. all \in Seq(D!Event) /\ rest \in Seq(D!Event) /\ D!Events(t) \in Seq(D!Event)
        <3>1. Len(t) <= 2
            BY <1>10, <1>11
        <3> QED BY <1>10, <1>11, <2>3, <2>5, <3>1, EventsFacts DEF Planned
    <2>7. PICK n : n = Len(w.got)
        OBVIOUS
    <2>8. n \in Nat /\ n + 1 \in DOMAIN all /\ e = all[n + 1]
        <3>1. n \in Nat /\ Len(rest) \in Nat
            BY <1>10, <2>6, <2>7
        <3>2. n + Len(rest) = Len(all) /\ \A i \in DOMAIN rest : rest[i] = all[n + i]
            BY <2>4, <2>7 DEF Way
        <3>3. Len(rest) > 0 /\ rest[1] = e
            BY <1>11, <2>3
        <3>4. DOMAIN rest = 1..Len(rest) /\ DOMAIN all = 1..Len(all)
            BY <2>6
        <3>5. 1 \in 1..Len(rest) /\ n + 1 \in 1..Len(all)
            BY <3>1, <3>2, <3>3
        <3> QED BY <3>1, <3>2, <3>3, <3>4, <3>5
    <2>9. ~(e.type = "key" /\ v7)
        BY <2>2, <2>3, <2>5, <2>8 DEF Planned
    <2>10. r.fits
        <3>1. D!Range(w.sizes) = {v6}
            <4>1. DOMAIN w.sizes # {}
                BY <1>10, <2>2
            <4> QED BY <2>2, <4>1 DEF D!Range
        <3> QED BY <1>5, <3>1
    <2>11. r.at.call = c
        <3>1. CASE e.type \in {"press", "release"}
            <4>1. r.at = v5' /\ v5' = v5
                BY <1>4, <1>5, <3>1
            <4>2. n + 1 > 1 /\ all[1].type = "move"
                BY <2>3, <2>5, <2>8, <3>1 DEF Planned
            <4>3. 1 \in DOMAIN w.got
                BY <1>10, <2>7, <2>8, <4>2
            <4>4. w.got # <<>> /\ w.got[1].type = all[1].type
                BY <2>4, <4>3 DEF Way
            <4> QED BY <2>4, <4>1, <4>2, <4>4 DEF Way
        <3>2. CASE e.type \notin {"press", "release"}
            BY <1>5, <3>2
        <3> QED BY <3>1, <3>2
    <2>12. Way(Append(w.got, r), D!Events(t), all, v5'.call, c)
        <3>1. e.type = "move" => v5'.call = c
            BY <1>4
        <3>2. e.type # "move" => v5'.call = v5.call
            BY <1>4
        <3>3. /\ Len(rest) > 0 /\ Len(D!Events(t)) = Len(rest) - 1
              /\ \A i \in 1..(Len(rest) - 1) : D!Events(t)[i] = rest[i + 1]
              /\ r.type = rest[1].type
            BY <1>11, <1>14, <2>3
        <3> QED BY <1>10, <1>14, <2>4, <2>6, <2>10, <2>11, <3>1, <3>2, <3>3, WaySent
    <2>13. g = Append(w.got, r)
        BY <1>6, <2>9
    <2>14. D!Events(D!Helpers(v3[c]))' = all
        BY <1>2, <1>3, <1>17, <1>18, <2>3, HelpersStay
    <2>15. Way(v3'[c].got, D!Events(v3'[c].todo), all, v5'.call, c)
        BY <1>17, <1>18, <2>12, <2>13
    <2>16. D!OnItsWay(c)'
        BY <2>14, <2>15, WayAfter
    <2> QED BY <1>3, <1>17, <1>18, <2>2, <2>16 DEF D!InHand
<1>23. D!Undisturbed'
    BY <1>1, <1>3, <1>9, <1>10, <1>17, <1>22, OnlyOne
<1> QED BY <1>20, <1>21, <1>23 DEF D!DesktopInv

LEMMA DesktopStep == ASSUME D!DesktopInv, D!Next PROVE D!DesktopInv'
<1>1. ASSUME NEW c \in Calls, NEW op \in D!Ops, NEW space \in {"pixel", "normalized"},
             NEW sound \in BOOLEAN, D!Begin(c, op, space, op \in D!Pointed, "down", sound)
      PROVE  D!DesktopInv'
    <2>1. (op \in D!Pointed) \in BOOLEAN /\ "down" \in {"up", "down", "tiny"}
        OBVIOUS
    <2> QED BY <1>1, <2>1, DesktopBegin
<1>2. ASSUME NEW c \in Calls, NEW placed \in BOOLEAN, NEW delta \in {"up", "down", "tiny"},
             D!Begin(c, "scroll", "pixel", placed, delta, TRUE)
      PROVE  D!DesktopInv'
    <2>1. "scroll" \in D!Ops /\ "pixel" \in {"pixel", "normalized"} /\ TRUE \in BOOLEAN
        BY DEF D!Ops
    <2> QED BY <1>2, <2>1, DesktopBegin
<1> QED BY <1>1, <1>2, DesktopMeasure, DesktopLaunch, DesktopSend, DesktopEnds, DesktopKill,
           DesktopChanges DEF D!Next

\* Only a call whose helpers have all ended reports success.
LEMMA OnlyEndsDone ==
    ASSUME D!DesktopInv, D!Next, NEW c \in Calls, v3[c].at = "helping", v3'[c].at = "done"
    PROVE  v3[c].todo = <<>>
<1>1. v3 \in [Calls -> D!Call]
    BY DEF D!DesktopInv, D!Formed
<1>2. ASSUME NEW d \in Calls, NEW j, v3' = [v3 EXCEPT ![d] = j], d # c PROVE FALSE
    BY <1>1, <1>2
<1>3. ASSUME NEW d \in Calls, NEW at, D!End(d, at) PROVE d = c /\ at = "done"
    <2>1. PICK j : j = [D!New EXCEPT !.at = at]
        OBVIOUS
    <2>2. v3' = [v3 EXCEPT ![d] = j] /\ j.at = at
        BY <1>3, <2>1 DEF D!End, D!New
    <2>3. d = c
        BY <1>2, <2>2
    <2> QED BY <1>1, <2>2, <2>3
<1>4. ASSUME NEW d \in Calls, NEW op, NEW space, NEW placed, NEW delta, NEW sound,
             D!Begin(d, op, space, placed, delta, sound)
      PROVE  FALSE
    BY <1>4, <1>2 DEF D!Begin, D!End
<1>5. ASSUME NEW d \in Calls, D!Measure(d) PROVE FALSE
    BY <1>1, <1>5 DEF D!Measure
<1>6. ASSUME NEW d \in Calls, D!Launch(d) PROVE FALSE
    BY <1>1, <1>6 DEF D!Launch, D!End
<1>7. ASSUME NEW d \in Calls, D!Send(d) PROVE FALSE
    <2>1. PICK t, g : v3' = [v3 EXCEPT ![d].todo = t, ![d].got = g]
        BY <1>7 DEF D!Send
    <2> QED BY <1>1, <2>1
<1>8. ASSUME NEW d \in Calls, D!Kill(d) PROVE FALSE
    BY <1>3, <1>8 DEF D!Kill
<1>9. ASSUME NEW d \in Calls, D!EndHelper(d) PROVE v3[c].todo = <<>>
    <2>1. CASE v3[d].todo = <<>> /\ D!End(d, "done")
        BY <1>3, <2>1
    <2>2. CASE v3' = [v3 EXCEPT ![d].todo = Tail(v3[d].todo)]
        BY <1>1, <2>2
    <2> QED BY <1>9, <2>1, <2>2 DEF D!EndHelper
<1>10. ASSUME D!Change PROVE FALSE
    BY <1>10 DEF D!Change
<1> QED BY <1>4, <1>5, <1>6, <1>7, <1>8, <1>9, <1>10 DEF D!Next

LEMMA DoneIsDone ==
    ASSUME D!DesktopInv, NEW c \in Calls \ v9, v3[c].at = "helping", v3[c].todo = <<>>,
           v3[c].delta # "tiny"
    PROVE  /\ Len(D!Acts(v3[c])) = Len(D!Meant(v3[c]))
           /\ \A i \in DOMAIN D!Acts(v3[c]) :
                 /\ D!Acts(v3[c])[i].type = D!Meant(v3[c])[i]
                 /\ D!Acts(v3[c])[i].fits /\ D!Acts(v3[c])[i].at.call = c
<1>1. D!Formed /\ D!Undisturbed
    BY DEF D!DesktopInv
<1>2. PICK w, hs, all, g, n, k : /\ w = v3[c] /\ hs = D!Helpers(w) /\ all = D!Events(hs)
                                 /\ g = w.got /\ n = Len(g) /\ k = D!Meant(w)
    OBVIOUS
<1>3. w \in D!Call /\ g \in Seq(Got) /\ c \in D!Running
    BY <1>1, <1>2, WorkOf
<1>4. D!OnItsWay(c)
    BY <1>1, <1>3 DEF D!Undisturbed, D!InHand
<1>5. Way(g, <<>>, all, v5.call, c)
    <2>1. D!Events(<<>>) = <<>>
        BY DEF D!Events
    <2> QED BY <1>2, <1>4, <2>1, WayOf
<1>6. Planned(w, hs)
    BY <1>2, <1>3, HelpersPlanned
<1>7. all \in Seq(D!Event)
    BY <1>2, <1>6, EventsFacts DEF Planned
<1>8. /\ n \in Nat /\ Len(all) = n /\ DOMAIN g = 1..n /\ DOMAIN all = 1..n
      /\ \A i \in 1..n : g[i].type = all[i].type /\ g[i].fits /\ g[i].at.call = c
    <2>1. n \in Nat /\ DOMAIN g = 1..n /\ DOMAIN all = 1..Len(all) /\ Len(all) \in Nat
        BY <1>2, <1>3, <1>7
    <2>2. Len(g) + Len(<<>>) = Len(all)
        BY <1>5 DEF Way
    <2>3. Len(all) = n
        BY <1>2, <2>1, <2>2
    <2> QED BY <1>2, <1>5, <2>1, <2>3 DEF Way
<1>9. Full(w, all)
    BY <1>2, <1>6 DEF Planned
<1>10. CASE /\ Len(all) = Len(k) /\ \A i \in DOMAIN all : all[i].type = k[i]
            /\ w.op = "scroll" /\ all # <<>> => all[1].type # "move"
    <2>1. D!Acts(w) = g
        <3>1. CASE w.op = "scroll" /\ g # <<>>
            <4>1. 1 \in 1..n /\ Head(g) = g[1] /\ all # <<>>
                BY <1>2, <1>3, <1>7, <1>8, <3>1, TailFacts
            <4> QED BY <1>2, <1>8, <1>10, <3>1, <4>1 DEF D!Acts
        <3>2. CASE ~(w.op = "scroll" /\ g # <<>>)
            BY <1>2, <3>2 DEF D!Acts
        <3> QED BY <3>1, <3>2
    <2> QED BY <1>2, <1>8, <1>10, <2>1
<1>11. CASE /\ w.op = "scroll" /\ Len(all) = Len(k) + 1 /\ all[1].type = "move"
            /\ \A i \in DOMAIN k : all[i + 1].type = k[i]
    <2>1. k = <<w.delta, w.delta>> /\ DOMAIN k = 1..2 /\ Len(k) = 2
        BY <1>2, <1>11 DEF D!Meant
    <2>2. n = 3
        BY <1>8, <1>11, <2>1
    <2>3. g # <<>> /\ Head(g) = g[1] /\ g[1].type = "move"
        <3>1. g # <<>>
            BY <1>8, <2>2
        <3> QED BY <1>3, <1>8, <1>11, <2>2, <3>1, TailFacts
    <2>4. D!Acts(w) = Tail(g)
        BY <1>2, <1>11, <2>3 DEF D!Acts
    <2>5. PICK z : z = Tail(g)
        OBVIOUS
    <2>6. /\ z \in Seq(Got) /\ Len(z) = n - 1 /\ \A i \in 1..(n - 1) : z[i] = g[i + 1]
        BY <1>2, <1>3, <2>3, <2>5, TailFacts
    <2>7. Len(z) = 2 /\ DOMAIN z = 1..2 /\ \A i \in 1..2 : z[i] = g[i + 1] /\ i + 1 \in 1..3
        BY <2>2, <2>6
    <2>8. \A i \in 1..2 : z[i].type = k[i] /\ z[i].fits /\ z[i].at.call = c
        BY <1>8, <1>11, <2>1, <2>2, <2>7
    <2> QED BY <1>2, <2>1, <2>4, <2>5, <2>7, <2>8
<1> QED BY <1>2, <1>9, <1>10, <1>11 DEF Full

\* An action that reports success has had its whole effect where it was meant to, and no button
\* stays down when no call is under way, on every platform and however many calls there are,
\* unless the desktop or another call disturbed it or a helper was killed
\* (packages/computer-runtime/src/index.ts).
THEOREM InputIsDone == Spec => InputArrives
<1> DEFINE Inv == part = "desktop" => D!DesktopInv
<1>1. Init => Inv
    BY DesktopInit DEF Init
<1>2. Inv /\ [Next]_vars => Inv'
    <2> SUFFICES ASSUME D!DesktopInv, part = "desktop", [Next]_vars PROVE D!DesktopInv'
        BY PartStays
    <2>1. CASE UNCHANGED <<v1, v2, v3, v4, v5, v6, v7, v8, v9, v10>>
        <3>1. D!Formed'
            BY <2>1 DEF D!DesktopInv, D!Formed
        <3>2. D!HeldIsReleased'
            BY <2>1 DEF D!DesktopInv, D!HeldIsReleased, D!Holds
        <3>3. ASSUME NEW c \in Calls, D!InHand(c) PROVE D!InHand(c)'
            <4>1. D!Events(D!Helpers(v3[c]))' = D!Events(D!Helpers(v3[c]))
                BY <2>1, HelpersStay
            <4>2. D!OnItsWay(c) => D!OnItsWay(c)'
                BY <2>1, <4>1, WayOf, WayAfter
            <4> QED BY <2>1, <3>3, <4>2 DEF D!InHand
        <3>4. D!Running' = D!Running
            BY <2>1 DEF D!Running
        <3>5. D!Undisturbed'
            BY <2>1, <3>3, <3>4 DEF D!DesktopInv, D!Undisturbed, D!Running
        <3> QED BY <3>1, <3>2, <3>5 DEF D!DesktopInv
    <2>2. CASE D!Next
        BY <2>2, DesktopStep
    <2> QED BY <2>1, <2>2, DesktopSteps
<1>3. Inv /\ [Next]_vars => [part = "desktop" => D!InputArrives]_vars
    <2> SUFFICES ASSUME D!DesktopInv, part = "desktop", [Next]_vars PROVE D!InputArrives
        OBVIOUS
    <2>1. D!SuccessIsDone
        <3> SUFFICES ASSUME NEW c \in Calls \ v9, v3[c].at = "helping", v3'[c].at = "done",
                            v3[c].delta # "tiny"
                     PROVE  v3[c].todo = <<>>
            BY DoneIsDone DEF D!SuccessIsDone
        <3>1. v3' # v3
            OBVIOUS
        <3> QED BY <3>1, DesktopSteps, OnlyEndsDone
    <2>2. D!ButtonIsReleased
        BY WorkOf DEF D!ButtonIsReleased, D!DesktopInv, D!HeldIsReleased, D!Holds
    <2> QED BY <2>1, <2>2 DEF D!InputArrives
<1> QED BY <1>1, <1>2, <1>3, PTL DEF Spec, InputArrives
=============================================================================
