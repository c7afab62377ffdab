-------------------------------- MODULE Memories --------------------------------
(* packages/memory/src/index.ts (LocalMemory) and the memory tables of           *)
(* packages/storage-sqlite/src/index.ts: records that expire, are superseded,     *)
(* deleted and compacted, written by processes that share the database.  Every    *)
(* statement is a step; a put is up to five of them, and a process may die        *)
(* between any two.                                                              *)
(*                                                                              *)
(* Abstractions.  Of a record the model keeps what decides whether it is found:   *)
(* its scope, expiry, last update, the record it supersedes and the one that      *)
(* superseded it.  The two reads of a put are one step: they only refuse.         *)
(* Text, redaction and ranking are left out.                                     *)
EXTENDS Integers, FiniteSets

CONSTANTS
    Processes,      \* processes that share the database
    Ids,            \* ids of records, ordered
    Scopes,         \* scopes of records
    MaxAge,         \* memoryRetention.maxAgeDays, in ticks
    MaxPerScope,    \* memoryRetention.maxPerScope; 0 is no ceiling
    MaxNow,         \* bound: ticks
    MaxPuts         \* bound: puts that begin

VARIABLES
    records,    \* the rows of memories: record of an id, or Absent
    puts,       \* the put that each process is in, or Idle
    now,        \* the time
    begun,      \* puts that have begun
    torn        \* history: a put died before it superseded, or wrote over a change
                \* that it had not seen

vars == <<records, puts, now, begun, torn>>

None   == 0     \* no record
Never  == 99    \* no expiry
Absent == [scope |-> "none"]
Idle   == [at |-> "idle"]

Rows(scope)  == {i \in Ids : records[i].scope = scope}
Stored       == {i \in Ids : records[i] # Absent}
Expired(i)   == records[i].expires <= now
Hidden(i)    == records[i].supersededBy # None
\* What list and search work on (memoryCandidates, without includeSuperseded).
Candidates(scope) == {i \in Rows(scope) : ~Expired(i) /\ ~Hidden(i)}
-----------------------------------------------------------------------------
(* put.                                                                        *)

\* The checks: an id may be taken by a record of this scope that nothing superseded, and
\* the record to supersede exists in this scope.
Begin(p, id, scope, target, expires) ==
    /\ puts[p] = Idle /\ begun < MaxPuts
    /\ id \in Stored => records[id].scope = scope /\ ~Hidden(id)
    /\ target # None => target \in Rows(scope) \ {id}
    /\ puts' = [puts EXCEPT ![p] = [at |-> "write", id |-> id, scope |-> scope,
                                    target |-> target, expires |-> expires,
                                    seen |-> records[id]]]
    /\ begun' = begun + 1
    /\ UNCHANGED <<records, now, torn>>

\* putMemory: the row is written whole, and superseded_by with it.
Write(p) ==
    LET put == puts[p]
    IN /\ put.at = "write"
       /\ records' = [records EXCEPT ![put.id] =
                        [scope |-> put.scope, expires |-> put.expires, updated |-> now,
                         supersedes |-> put.target, supersededBy |-> None]]
       /\ puts' = [puts EXCEPT ![p].at = IF put.target = None THEN "compact" ELSE "supersede"]
       /\ torn' = \/ torn \/ put.seen # records[put.id]
                  \/ \E i \in Stored : records[i].supersedes = put.id
       /\ UNCHANGED <<now, begun>>

\* Mutant: a record that is superseded already is superseded again.
SupersedesAgain(target, scope) == records[target].scope = scope
\* supersedeMemory: whether the update finds its row.
CanSupersede(target, scope) == records[target].scope = scope /\ ~Hidden(target)

Supersede(p) ==
    LET put == puts[p]
    IN /\ put.at = "supersede"
       /\ IF CanSupersede(put.target, put.scope)
          THEN /\ records' = [records EXCEPT ![put.target].supersededBy = put.id,
                                             ![put.target].updated = now]
               /\ puts' = [puts EXCEPT ![p].at = "compact"]
          ELSE puts' = [puts EXCEPT ![p].at = "undo"] /\ UNCHANGED records
       /\ UNCHANGED <<now, begun, torn>>

\* deleteMemory of what was put, which may have been there before; the put is refused.
Undo(p) ==
    /\ puts[p].at = "undo"
    /\ records' = [records EXCEPT ![puts[p].id] =
                     IF @.scope = puts[p].scope THEN Absent ELSE @]
    /\ puts' = [puts EXCEPT ![p] = Idle]
    /\ UNCHANGED <<now, begun, torn>>

\* The deletions of compactMemories, one after the other in one transaction.
Lapsed(scope) == {i \in Rows(scope) : Expired(i)}

Unreachable(scope) ==
    LET left == Rows(scope) \ Lapsed(scope)
        kept == {records[i].supersedes : i \in {j \in left : ~Hidden(j)}}
    IN {i \in left : Hidden(i) /\ records[i].updated <= now - MaxAge} \ kept

Newer(i, j) == \/ records[i].updated > records[j].updated
               \/ records[i].updated = records[j].updated /\ i > j

\* Mutant: the ceiling counts the rows that are hidden too.
CountedAll(scope) ==
    LET left == Rows(scope) \ Lapsed(scope)
    IN IF MaxPerScope = 0 THEN {}
       ELSE {i \in left : ~Hidden(i) /\ Cardinality({j \in left : Newer(j, i)}) >= MaxPerScope}

Evicted(scope) ==
    LET live == {i \in Rows(scope) \ Lapsed(scope) : ~Hidden(i)}
    IN IF MaxPerScope = 0 THEN {}
       ELSE {i \in live : Cardinality({j \in live : Newer(j, i)}) >= MaxPerScope}

Without(gone) == [i \in Ids |-> IF i \in gone THEN Absent ELSE records[i]]

Compact(p) ==
    LET scope == puts[p].scope
    IN /\ puts[p].at = "compact"
       /\ records' = Without(Lapsed(scope) \cup Unreachable(scope) \cup Evicted(scope))
       /\ puts' = [puts EXCEPT ![p] = Idle]
       /\ UNCHANGED <<now, begun, torn>>
-----------------------------------------------------------------------------
Delete(id, scope) ==
    /\ id \in Rows(scope)
    /\ records' = Without({id}) /\ UNCHANGED <<puts, now, begun, torn>>

Clear(scope) ==
    /\ Rows(scope) # {}
    /\ records' = Without(Rows(scope)) /\ UNCHANGED <<puts, now, begun, torn>>

Die(p) ==
    /\ puts[p] # Idle
    /\ puts' = [puts EXCEPT ![p] = Idle]
    /\ torn' = (torn \/ puts[p].at \in {"supersede", "undo"})
    /\ UNCHANGED <<records, now, begun>>

Tick == now < MaxNow /\ now' = now + 1 /\ UNCHANGED <<records, puts, begun, torn>>

Init == /\ records = [i \in Ids |-> Absent]
        /\ puts = [p \in Processes |-> Idle]
        /\ now = 0 /\ begun = 0 /\ torn = FALSE

Next ==
    \/ \E p \in Processes :
          \/ \E id \in Ids, scope \in Scopes, target \in Ids \cup {None},
                expires \in {now + 1, Never} : Begin(p, id, scope, target, expires)
          \/ Write(p) \/ Supersede(p) \/ Undo(p) \/ Compact(p) \/ Die(p)
    \/ \E scope \in Scopes : Clear(scope) \/ \E id \in Ids : Delete(id, scope)
    \/ Tick

Spec == Init /\ [][Next]_vars
-----------------------------------------------------------------------------
(* Properties.                                                                 *)

\* Of the records that supersede one fact, readers find one: when no put is under way, a
\* record that can be found and supersedes another that is still stored is the one by
\* which that is hidden, however the puts of several processes were interleaved.  It
\* fails only where a put died half done or wrote over what it had not seen (torn).
NoTwins ==
    (~torn /\ \A p \in Processes : puts[p] = Idle) =>
        \A s \in Scopes : \A i \in Candidates(s) :
            LET old == records[i].supersedes
            IN old \in Stored => records[old].supersededBy = i

\* Of every step: a record that can be found is lost to readers only by time, by its
\* deletion, by a put over it that is refused or that began when it was another one, to a
\* record that takes its place, or to the ceiling of its scope when that many newer ones can
\* be found (docs/INSTALLATION.md:252-255).
NothingFoundIsLost ==
    \A s \in Scopes : \A i \in Candidates(s) :
        (i \notin Candidates(s)' /\ now' = now) =>
            \/ \E p \in Processes :
                  /\ puts[p] # Idle /\ puts[p].id = i
                  /\ puts[p].at = "undo" \/ (puts[p].at = "write" /\ puts[p].seen # records[i])
            \/ i \in Stored' /\ (Expired(i)' \/ records'[i].supersededBy \in Ids)
            \/ i \notin Stored' /\ puts' = puts
            \/ MaxPerScope > 0 /\ Cardinality(Candidates(s)') >= MaxPerScope
-----------------------------------------------------------------------------
(* The inductive invariant behind NoTwins and NothingFoundIsLost.                *)

Row == [scope : Scopes, expires : Nat, updated : Nat, supersedes : Ids \cup {None},
        supersededBy : Ids \cup {None}]
Put == [at : {"write", "supersede", "undo", "compact"}, id : Ids, scope : Scopes,
        target : Ids \cup {None}, expires : Nat, seen : Row \cup {Absent}]

\* What supersedes a stored record hides it, or is in a put that is going to hide it or to
\* take back what it wrote.
Superseding ==
    \A i \in Stored :
        LET old == records[i].supersedes
        IN old \in Stored =>
              \/ records[old].supersededBy = i
              \/ \E p \in Processes : /\ puts[p].at \in {"supersede", "undo"}
                                      /\ puts[p].id = i /\ puts[p].target = old
                                      /\ puts[p].scope = records[i].scope

MemoriesInv ==
    /\ now \in Nat /\ torn \in BOOLEAN
    /\ records \in [Ids -> Row \cup {Absent}] /\ puts \in [Processes -> Put \cup {Idle}]
    /\ \A p \in Processes :
          /\ puts[p].at = "supersede" => puts[p].target # None
          /\ puts[p].at = "write" /\ puts[p].seen # Absent => puts[p].seen.scope = puts[p].scope
    /\ ~torn => Superseding
=============================================================================
