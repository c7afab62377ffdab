---------------------------------- MODULE Vault ----------------------------------
(* packages/server/src/payload-key.ts and packages/runtime-core/src/              *)
(* payload-cipher.ts: how the processes that share a data directory come to hold    *)
(* the key under which they seal payloads, when several start at once, some with a  *)
(* key in the environment, and one may die while it creates the file.               *)
(*                                                                              *)
(* External: the file system (open with wx creates exclusively; the text arrives in *)
(* one write or in part; what the operator does to the file) and AES-GCM (what is   *)
(* sealed under a key and a context opens under both only).                         *)
EXTENDS Integers, FiniteSets

CONSTANTS
    Processes,  \* processes over the data directory; each draws one random key
    MaxStarts   \* bound: starts

VARIABLES
    file,       \* payload.key: [text, mode], text a process whose key it is, "",
                \* or "part"; or NoFile
    pc,         \* of a process: "off", "start", "create", "read", "up" or "failed"
    key,        \* the key that a process holds
    sealed,     \* payloads that are stored, by the key they are sealed under
    starts,     \* processes that have started
    tampered    \* history: an operator replaced the file, or a process its key

vars == <<file, pc, key, sealed, starts, tampered>>

NoFile == [text |-> "none", mode |-> "none"]
Env    == "env"

Init == /\ file = NoFile /\ pc = [p \in Processes |-> "off"]
        /\ key = [p \in Processes |-> "none"]
        /\ sealed = {}
        /\ starts = 0 /\ tampered = FALSE

Goto(p, at) == pc' = [pc EXCEPT ![p] = at]

\* Mutant: the file is opened for writing whether or not it exists.
CreatesAnyway(p) == file' = [text |-> "", mode |-> "private"] /\ Goto(p, "create")

\* open(path, "wx", 0o600), or EEXIST.
Create(p) == IF file = NoFile
             THEN file' = [text |-> "", mode |-> "private"] /\ Goto(p, "create")
             ELSE UNCHANGED file /\ Goto(p, "read")

\* A process with the key in its environment does not touch the file.
Start(p, env) ==
    /\ pc[p] = "off" /\ starts < MaxStarts /\ starts' = starts + 1
    /\ IF env THEN /\ key' = [key EXCEPT ![p] = Env] /\ Goto(p, "up") /\ tampered' = TRUE
                   /\ UNCHANGED file
              ELSE Create(p) /\ UNCHANGED <<key, tampered>>
    /\ UNCHANGED sealed

\* writeFile and sync; a part of the text may be seen, or left behind.
WritePart(p) ==
    /\ pc[p] = "create" /\ file.text = "" /\ file' = [file EXCEPT !.text = "part"]
    /\ UNCHANGED <<pc, key, sealed, starts, tampered>>

Write(p) ==
    /\ pc[p] = "create"
    /\ file' = [file EXCEPT !.text = p] /\ key' = [key EXCEPT ![p] = p] /\ Goto(p, "up")
    /\ UNCHANGED <<sealed, starts, tampered>>

\* readKeyFile: a whole key in a private file that is no link.  Any other text is an
\* error, also the one of a key that is being written.
Read(p) ==
    /\ pc[p] = "read"
    /\ IF file.text \in Processes /\ file.mode = "private"
       THEN key' = [key EXCEPT ![p] = file.text] /\ Goto(p, "up")
       ELSE UNCHANGED key /\ Goto(p, "failed")
    /\ UNCHANGED <<file, sealed, starts, tampered>>

\* seal, and open, which fails under any other key.
Seal(p) ==
    /\ pc[p] = "up" /\ sealed' = sealed \cup {key[p]}
    /\ UNCHANGED <<file, pc, key, starts, tampered>>

Opens(p, payload) == payload = key[p]

\* A process ends or dies, and may start again; the operator makes the file readable by
\* others, or removes it while nobody writes it.
Die(p) ==
    /\ pc[p] # "off" /\ Goto(p, "off") /\ key' = [key EXCEPT ![p] = "none"]
    /\ UNCHANGED <<file, sealed, starts, tampered>>

Loosen == /\ file # NoFile /\ file' = [file EXCEPT !.mode = "open"]
          /\ UNCHANGED <<pc, key, sealed, starts, tampered>>

Remove == /\ file # NoFile /\ \A p \in Processes : pc[p] # "create"
          /\ file' = NoFile /\ tampered' = TRUE
          /\ UNCHANGED <<pc, key, sealed, starts>>

Next == \/ \E p \in Processes :
              \/ \E env \in BOOLEAN : Start(p, env)
              \/ WritePart(p) \/ Write(p) \/ Read(p) \/ Seal(p) \/ Die(p)
        \/ Loosen \/ Remove

Spec == Init /\ [][Next]_vars
-----------------------------------------------------------------------------
(* Properties.                                                                 *)

\* However many processes start at once, and wherever one of them dies, all that run
\* hold one key, and open what any of them has sealed, before and after restarts, as
\* long as nobody removes the file or gives a process another key in its environment.
OneKey ==
    ~tampered => /\ \A p, q \in Processes : pc[p] = "up" /\ pc[q] = "up" => key[p] = key[q]
                 /\ \A p \in Processes : pc[p] = "up" => \A x \in sealed : Opens(p, x)
-----------------------------------------------------------------------------
(* The inductive invariant behind OneKey.                                      *)

\* One process at a time creates, and the file has no key in it until that has ended.
OneCreates ==
    /\ \A p \in Processes : pc[p] = "create" => file.text \in {"", "part"}
    /\ \A p, q \in Processes : pc[p] = "create" /\ pc[q] = "create" => p = q

\* What is held, and what was sealed, is of the key in the file.
KeyOfFile ==
    ~tampered =>
        /\ \A p \in Processes : pc[p] = "up" => file.text \in Processes /\ key[p] = file.text
        /\ \A x \in sealed : file.text \in Processes /\ x = file.text

Form ==
    /\ pc \in [Processes -> {"off", "start", "create", "read", "up", "failed"}]
    /\ key \in [Processes -> Processes \cup {"none", Env}]
    /\ file \in [text : Processes \cup {"none", "", "part"}, mode : {"none", "private", "open"}]
    /\ file.text = "none" => file = NoFile
    /\ tampered \in BOOLEAN

KeyInv == Form /\ OneCreates /\ KeyOfFile
=============================================================================
