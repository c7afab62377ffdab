-------------------------------- MODULE Workspace --------------------------------
(* packages/file-runtime/src/index.ts (FileRuntime) and packages/verifier-core/    *)
(* src/index.ts (Verifier): tasks that operate on the same files at once and then   *)
(* check their evidence against them, one file system call at a time; a process     *)
(* may die between two calls of an operation.                                      *)
(*                                                                              *)
(* Abstractions.  The workspace is one directory "d" with the files "d/f" and      *)
(* "d/g" in it; names of temporary files are unique to the task.  A content is a    *)
(* value; "big" is one above maxFileBytes.  Paths outside the root are refused      *)
(* before anything happens and left out.  The evidence is the default one: predicates *)
(* of the caller, file_hash among them, are left out.                               *)
(* External: the file system.  rename is atomic, and the recursive removal of d is   *)
(* taken to be; the writing of a file is not.                                       *)
EXTENDS Integers, Sequences, FiniteSets

CONSTANTS
    Tasks,      \* tasks, each run once
    Contents    \* contents that tasks write

VARIABLES
    dir,        \* whether d exists
    file,       \* of d/f and d/g: a content, "partial", or "absent"
    temporary,  \* of a task: its temporary file in d, likewise
    task,       \* of a task: [op, path, to, content, at, evidence, got]
    disturbed   \* history: tasks whose paths another task changed since their effect

vars == <<dir, file, temporary, task, disturbed>>

Files  == {"d/f", "d/g"}
Paths  == Files \cup {"d"}
Whole  == Contents \cup {"big"}
New    == [op |-> "none", path |-> "d", to |-> "d", content |-> "absent", at |-> "new",
           evidence |-> <<>>, got |-> "absent"]

Exists(x) == IF x = "d" THEN dir ELSE file[x] # "absent"

Init == /\ dir \in BOOLEAN
        /\ file \in [Files -> {"absent", "big"} \cup Contents]
        /\ ~dir => \A x \in Files : file[x] = "absent"
        /\ temporary = [t \in Tasks |-> "absent"]
        /\ task = [t \in Tasks |-> New] /\ disturbed = {}

Goto(t, at)  == task' = [task EXCEPT ![t].at = at]
\* Every other task that has taken effect on one of these paths is disturbed.
Disturb(t, paths) ==
    disturbed' = disturbed \cup
        {u \in Tasks \ {t} : /\ task[u].at \in {"verify", "done"}
                             /\ {task[u].path, task[u].to} \cap paths # {}}
-----------------------------------------------------------------------------
(* Operations.  Each path is resolved when the operation starts.                *)

Start(t, op, path, to, content) ==
    /\ task[t].at = "new"
    /\ task' = [task EXCEPT ![t] = [op |-> op, path |-> path, to |-> to, content |-> content,
                                    at |-> op, evidence |-> <<>>, got |-> "absent"]]
    /\ UNCHANGED <<dir, file, temporary, disturbed>>

\* defaultEvidenceFor: what is held against the outcome.
Evidence(t) ==
    LET w == task[t]
    IN CASE w.op \in {"write", "mkdir"} -> <<[type |-> "exists", path |-> w.path]>>
         [] w.op = "delete"             -> <<[type |-> "absent", path |-> w.path]>>
         [] w.op = "move"               -> <<[type |-> "absent", path |-> w.path],
                                             [type |-> "exists", path |-> w.to]>>
         [] OTHER -> <<>>
Took(t, got) ==
    task' = [task EXCEPT ![t].at = "verify", ![t].evidence = Evidence(t), ![t].got = got]
Fails(t)     == Goto(t, "failed")

\* mkdir of the directory, for mkdir, write and move; recursive, so it may exist.
MakeDirectory(t) ==
    /\ task[t].at \in {"mkdir", "write", "move"}
    /\ dir' = TRUE
    /\ IF task[t].op = "mkdir" THEN Took(t, "absent")
       ELSE Goto(t, IF task[t].op = "write" THEN "write-2" ELSE "move-2")
    /\ UNCHANGED <<file, temporary>>
    /\ IF dir THEN UNCHANGED disturbed ELSE Disturb(t, {"d"})

\* writeFile with wx: the content arrives in pieces.
WriteTemporary(t) ==
    /\ task[t].at = "write-2"
    /\ IF ~dir THEN Fails(t) /\ UNCHANGED temporary
       ELSE /\ temporary' = [temporary EXCEPT ![t] = "partial"] /\ Goto(t, "write-3")
    /\ UNCHANGED <<dir, file, disturbed>>

\* Mutant: the file is put in its place before the writing of it has ended.
RenamesEarly(t) ==
    IF dir
    THEN /\ file' = [file EXCEPT ![task[t].path] = "partial"]
         /\ temporary' = [temporary EXCEPT ![t] = task[t].content]
         /\ Goto(t, "write-4") /\ UNCHANGED disturbed
    ELSE Fails(t) /\ UNCHANGED <<file, temporary, disturbed>>

\* The rest of the content.
CompleteTemporary(t) ==
    /\ temporary' = [temporary EXCEPT ![t] = IF @ = "partial" THEN task[t].content ELSE @]
    /\ Goto(t, "write-4") /\ UNCHANGED <<file, disturbed>>

EndOfWrite(t) == task[t].at = "write-3" /\ CompleteTemporary(t) /\ UNCHANGED dir

Rename(t) ==
    /\ task[t].at = "write-4"
    /\ IF temporary[t] # "absent"
       THEN /\ file' = [file EXCEPT ![task[t].path] = temporary[t]]
            /\ temporary' = [temporary EXCEPT ![t] = "absent"]
            /\ Took(t, "absent") /\ Disturb(t, {task[t].path})
       ELSE Fails(t) /\ UNCHANGED <<file, temporary, disturbed>>
    /\ UNCHANGED dir

Move(t) ==
    LET w == task[t]
    IN /\ w.at = "move-2"
       /\ IF file[w.path] = "absent" \/ ~dir
          THEN Fails(t) /\ UNCHANGED <<file, disturbed>>
          ELSE /\ file' = [file EXCEPT ![w.to] = file[w.path], ![w.path] = "absent"]
               /\ Took(t, "absent") /\ Disturb(t, {w.path, w.to})
       /\ UNCHANGED <<dir, temporary>>

\* rm without force: a file, or d, recursively, with what is in it.
Delete(t) ==
    LET x == task[t].path
        gone == IF x = "d" THEN Files ELSE {x}
    IN /\ task[t].at = "delete"
       /\ IF ~Exists(x)
          THEN Fails(t) /\ UNCHANGED <<dir, file, temporary, disturbed>>
          ELSE /\ dir' = (dir /\ x # "d")
               /\ file' = [y \in Files |-> IF y \in gone THEN "absent" ELSE file[y]]
               /\ temporary' = IF x = "d" THEN [u \in Tasks |-> "absent"] ELSE temporary
               /\ Took(t, "absent") /\ Disturb(t, gone \cup {x})

\* read looks at the size and then reads; hash reads and then looks at the size.
Look(t) ==
    /\ task[t].at = "read"
    /\ IF file[task[t].path] \in {"absent", "big"} THEN Fails(t) ELSE Goto(t, "read-2")
    /\ UNCHANGED <<dir, file, temporary, disturbed>>

Read(t) ==
    LET found == file[task[t].path]
    IN /\ task[t].at \in {"read-2", "hash"}
       /\ IF found = "absent" \/ (task[t].op = "hash" /\ found = "big")
          THEN Fails(t) ELSE Took(t, found)
       /\ UNCHANGED <<dir, file, temporary, disturbed>>

\* stat and list.
Inspect(t) ==
    /\ task[t].at \in {"stat", "list"}
    /\ IF Exists(task[t].path) THEN Took(t, "absent") ELSE Fails(t)
    /\ UNCHANGED <<dir, file, temporary, disturbed>>

\* mkdir that is not recursive finds d there.
DirectoryExists(t) == /\ task[t].at = "mkdir" /\ dir /\ Fails(t)
                      /\ UNCHANGED <<dir, file, temporary, disturbed>>

Die(t) ==
    /\ task[t].at \notin {"new", "done", "failed", "partial"} /\ Goto(t, "failed")
    /\ UNCHANGED <<dir, file, temporary, disturbed>>
-----------------------------------------------------------------------------
(* verify: one predicate after the other, each of the files as they are then.   *)

Holds(predicate) == Exists(predicate.path) = (predicate.type = "exists")

Check(t) ==
    LET e == task[t].evidence
    IN /\ task[t].at = "verify"
       /\ IF e = <<>> THEN Goto(t, "done")
          ELSE IF Holds(Head(e)) THEN task' = [task EXCEPT ![t].evidence = Tail(e)]
          ELSE Goto(t, "partial")
       /\ UNCHANGED <<dir, file, temporary, disturbed>>

Next ==
    \E t \in Tasks :
        \/ \E x \in Files, c \in Contents : Start(t, "write", x, x, c)
        \/ \E x \in Files : \/ \E op \in {"read", "hash", "stat"} : Start(t, op, x, x, "absent")
                            \/ \E y \in Files \ {x} : Start(t, "move", x, y, "absent")
        \/ \E x \in Paths : Start(t, "delete", x, x, "absent")
        \/ \E op \in {"mkdir", "list"} : Start(t, op, "d", "d", "absent")
        \/ MakeDirectory(t) \/ DirectoryExists(t) \/ WriteTemporary(t) \/ EndOfWrite(t) \/ Rename(t)
        \/ Move(t) \/ Delete(t) \/ Look(t) \/ Read(t) \/ Inspect(t) \/ Die(t)
        \/ Check(t)

Spec == Init /\ [][Next]_vars
-----------------------------------------------------------------------------
(* Properties.                                                                 *)

\* A file is always one whole content, what was there before or what a task wrote, also
\* while tasks write to it at once and after one died in its write, so no read, hash or
\* verification sees a half-written one.
FilesAreWhole == \A x \in Files : file[x] \in Whole \cup {"absent"}

\* A task whose operation succeeded fails its evidence only if another task changed one of
\* its paths in between: what a caller is told is partial was not MELRA's own doing.
OnlyOthersSpoilEvidence == \A t \in Tasks : task[t].at = "partial" => t \in disturbed

\* Both.
FilesAreHonest == FilesAreWhole /\ OnlyOthersSpoilEvidence
-----------------------------------------------------------------------------
(* The inductive invariant behind FilesAreHonest.                                 *)

Predicates == [type : {"exists", "absent"}, path : Paths]
Ops        == {"none", "write", "read", "hash", "stat", "move", "delete", "mkdir", "list"}
Places     == Ops \cup {"new", "write-2", "write-3", "write-4", "move-2", "read-2", "verify",
                        "done", "failed", "partial"}
Entries    == [op : Ops, path : Paths, to : Paths, content : Contents \cup {"absent"},
               at : Places, evidence : Seq(Predicates), got : Whole \cup {"absent"}]

\* What a task w is about at each step, and that its temporary file is whole when it is moved.
Working(w, its) ==
    /\ w.at \in {"write", "write-2", "write-3", "write-4"} =>
          w.op = "write" /\ w.path \in Files /\ w.content \in Contents
    /\ w.at \in {"move", "move-2"} =>
          w.op = "move" /\ w.path \in Files /\ w.to \in Files /\ w.path # w.to
    /\ w.at = "mkdir" => w.op = "mkdir" /\ w.path = "d"
    /\ w.at = "delete" => w.op = "delete"
    /\ w.at \in {"read", "read-2", "hash"} => w.op \in {"read", "hash"} /\ w.path \in Files
    /\ w.at \in {"stat", "list"} => w.op \in {"stat", "list"}
    /\ w.at = "write-4" => its # "partial"

\* What has yet to be checked of a task holds until another task has disturbed it.
Stands(t) ==
    LET w == task[t]
    IN /\ w.at = "partial" => t \in disturbed
       /\ w.at = "verify" =>
             \A i \in DOMAIN w.evidence : /\ w.evidence[i].path \in {w.path, w.to}
                                          /\ t \notin disturbed => Holds(w.evidence[i])

WorkspaceInv ==
    /\ dir \in BOOLEAN /\ file \in [Files -> Whole \cup {"absent"}]
    /\ temporary \in [Tasks -> Contents \cup {"partial", "absent"}]
    /\ task \in [Tasks -> Entries] /\ disturbed \subseteq Tasks
    /\ \A t \in Tasks : Working(task[t], temporary[t]) /\ Stands(t)
=============================================================================
