------------------------------ MODULE TerminalJobs ------------------------------
(* packages/terminal-runtime/src/index.ts: foreground commands and background     *)
(* jobs, their children, the timers that end them, the signal of a task that      *)
(* aborts, and what calls report.                                                *)
(*                                                                              *)
(* External, from Node.js: a child exits first and closes when no process holds   *)
(* its pipes any more; a signal reaches a child that has not exited; the signal   *)
(* of spawn answers the call with an error when its SIGTERM could be sent.        *)
(* A child may ignore SIGTERM (stubborn) and may leave a process behind that      *)
(* holds its pipes (heir).  Output is its length.                                *)
EXTENDS Integers

CONSTANTS
    Calls,      \* calls of run and start, with the child that each spawns
    Timeout,    \* timeoutMs, in ticks
    Grace,      \* ticks between SIGTERM and SIGKILL
    MaxOutput,  \* maxOutputChars
    MaxNow      \* bound: ticks

VARIABLES
    kind,       \* "run" or "start", of a call
    answer,     \* what a call has answered: "idle", "waiting", "started", "done",
                \* "failed" or "aborted"
    child,      \* of a call: "none", "alive", "exited" or "closed"
    nature,     \* of a child: [stubborn, heir]
    term, kill, \* when the timers of a call send SIGTERM and SIGKILL, or Off
    job,        \* the job of a call: [listed, ended, out, truncated]
    open,       \* whether the runtime has not been closed
    now         \* the time

vars == <<kind, answer, child, nature, term, kill, job, open, now>>
timers == <<term, kill>>

Off == -1
NoJob == [listed |-> FALSE, ended |-> FALSE, out |-> 0, truncated |-> FALSE]
Set(f, c, v) == [f EXCEPT ![c] = v]
-----------------------------------------------------------------------------
(* Children.                                                                   *)

\* A signal to a child: it exits unless it ignores it.  A child that has exited is
\* not signalled.
Signalled(c, sigkill) ==
    IF child[c] = "alive" /\ (sigkill \/ ~nature[c].stubborn)
    THEN Set(child, c, "exited") ELSE child

\* Mutant: a timer only asks.
AsksOnly(c) == /\ term[c] # Off /\ term[c] <= now
               /\ term' = Set(term, c, Off) /\ UNCHANGED kill
               /\ child' = Signalled(c, FALSE)
               /\ UNCHANGED <<kind, answer, nature, job, open, now>>

\* The timer of a call: SIGTERM, and a second later SIGKILL.
Overrun(c) ==
    /\ term[c] # Off /\ term[c] <= now
    /\ term' = Set(term, c, Off) /\ kill' = Set(kill, c, now + Grace)
    /\ child' = Signalled(c, FALSE)
    /\ UNCHANGED <<kind, answer, nature, job, open, now>>

Escalate(c) ==
    /\ kill[c] # Off /\ kill[c] <= now
    /\ kill' = Set(kill, c, Off) /\ child' = Signalled(c, TRUE)
    /\ UNCHANGED <<kind, answer, nature, term, job, open, now>>

Exit(c) ==
    /\ child[c] = "alive" /\ child' = Set(child, c, "exited")
    /\ UNCHANGED <<kind, answer, nature, timers, job, open, now>>

\* The process that holds the pipes ends.
HeirEnds(c) ==
    /\ child[c] = "exited" /\ nature[c].heir /\ nature' = [nature EXCEPT ![c].heir = FALSE]
    /\ UNCHANGED <<kind, answer, child, timers, job, open, now>>

\* The close event: a foreground call answers, a job ends.
Close(c) ==
    /\ child[c] = "exited" /\ ~nature[c].heir
    /\ child' = Set(child, c, "closed") /\ term' = Set(term, c, Off)
    /\ answer' = IF answer[c] = "waiting" /\ kind[c] = "run" THEN Set(answer, c, "done") ELSE answer
    /\ job' = IF kind[c] = "start" THEN [job EXCEPT ![c].ended = TRUE] ELSE job
    /\ UNCHANGED <<kind, nature, kill, open, now>>

\* Output is cut at the maximum, and the cut recorded.
Output(c, n) ==
    /\ child[c] = "alive" \/ (child[c] = "exited" /\ nature[c].heir)
    /\ LET next == job[c].out + n
       IN job' = [job EXCEPT ![c].out = IF next > MaxOutput THEN MaxOutput ELSE next,
                             ![c].truncated = @ \/ next > MaxOutput]
    /\ job' # job
    /\ UNCHANGED <<kind, answer, child, nature, timers, open, now>>
-----------------------------------------------------------------------------
(* Calls.                                                                      *)

\* run and start, up to the await of prepare.
Ask(c, k) ==
    /\ answer[c] = "idle" /\ open
    /\ kind' = Set(kind, c, k) /\ answer' = Set(answer, c, "waiting")
    /\ UNCHANGED <<child, nature, timers, job, open, now>>

\* prepare refuses the command, its directory or its environment, or there is no such
\* program.
Fail(c) ==
    /\ answer[c] = "waiting" /\ child[c] = "none"
    /\ answer' = Set(answer, c, "failed")
    /\ UNCHANGED <<kind, child, nature, timers, job, open, now>>

\* spawn starts the child and the timer, whether or not the runtime is still open; no
\* timer fires before the spawn event.  A background call answers and its job is listed.
Spawn(c, n) ==
    /\ answer[c] = "waiting" /\ child[c] = "none"
    /\ child' = Set(child, c, "alive") /\ nature' = Set(nature, c, n)
    /\ term' = Set(term, c, now + Timeout)
    /\ IF kind[c] = "start"
       THEN answer' = Set(answer, c, "started") /\ job' = [job EXCEPT ![c].listed = TRUE]
       ELSE UNCHANGED <<answer, job>>
    /\ UNCHANGED <<kind, kill, open, now>>

\* The task of a foreground call is cancelled or exceeds its budget.
Abort(c) ==
    /\ kind[c] = "run" /\ answer[c] = "waiting" /\ child[c] = "alive"
    /\ answer' = Set(answer, c, "aborted") /\ term' = Set(term, c, Off)
    /\ child' = Signalled(c, FALSE)
    /\ UNCHANGED <<kind, nature, kill, job, open, now>>

\* stop: SIGTERM to a job that has not ended, which it may ignore.
Stop(c) ==
    /\ job[c].listed /\ ~job[c].ended /\ child' = Signalled(c, FALSE)
    /\ UNCHANGED <<kind, answer, nature, timers, job, open, now>>

\* send to a job that reads: it may end of it.
Send(c) ==
    /\ job[c].listed /\ ~job[c].ended /\ child[c] = "alive"
    /\ nature' = [nature EXCEPT ![c].stubborn = FALSE]
    /\ UNCHANGED <<kind, answer, child, timers, job, open, now>>

\* close of the runtime: the timers of the listed jobs are cleared and their children
\* signalled, and they are listed no more.
CloseRuntime ==
    /\ open /\ open' = FALSE
    /\ term' = [c \in Calls |-> IF job[c].listed THEN Off ELSE term[c]]
    /\ child' = [c \in Calls |-> IF job[c].listed /\ ~job[c].ended THEN Signalled(c, FALSE)[c]
                                 ELSE child[c]]
    /\ job' = [c \in Calls |-> [job[c] EXCEPT !.listed = FALSE]]
    /\ UNCHANGED <<kind, answer, nature, kill, now>>

\* Time.  While the runtime is open its timers are punctual.
Tick ==
    /\ now < MaxNow /\ now' = now + 1
    /\ open => \A c \in Calls : ~(term[c] \in 0..now) /\ ~(kill[c] \in 0..now)
    /\ UNCHANGED <<kind, answer, child, nature, timers, job, open>>

Init == /\ kind = [c \in Calls |-> "none"] /\ answer = [c \in Calls |-> "idle"]
        /\ child = [c \in Calls |-> "none"]
        /\ nature = [c \in Calls |-> [stubborn |-> FALSE, heir |-> FALSE]]
        /\ term = [c \in Calls |-> Off] /\ kill = [c \in Calls |-> Off]
        /\ job = [c \in Calls |-> NoJob] /\ open = TRUE /\ now = 0

Next ==
    \/ \E c \in Calls :
          \/ Overrun(c) \/ Escalate(c) \/ Exit(c) \/ HeirEnds(c) \/ Close(c)
          \/ \E n \in 1..(MaxOutput + 1) : Output(c, n)
          \/ \E k \in {"run", "start"} : Ask(c, k)
          \/ Fail(c)
          \/ \E n \in [stubborn : BOOLEAN, heir : BOOLEAN] : Spawn(c, n)
          \/ Abort(c) \/ Stop(c) \/ Send(c)
    \/ CloseRuntime \/ Tick

Spec == Init /\ [][Next]_vars
-----------------------------------------------------------------------------
(* Properties.                                                                 *)

\* What has ended is gone: a job is reported as not running, and a foreground command
\* as done, only when its child has closed (packages/terminal-runtime/src/index.ts:284-289).
EndIsReal ==
    \A c \in Calls : job[c].ended \/ answer[c] \in {"done", "failed"} =>
                         child[c] \in {"closed", "none"}

\* No child, not one that ignores SIGTERM and not one of a job that was told to stop,
\* is alive once its timeout and the grace after it are over, unless the runtime was
\* closed or its task aborted (docs/research/TERMINAL.md:32).
TimeoutEndsIt ==
    \A c \in Calls :
        child[c] = "alive" /\ open /\ answer[c] # "aborted" =>
            \/ term[c] \in now..(now + Timeout)
            \/ kill[c] \in now..(now + Grace)

\* Both.
EndsAsTold == EndIsReal /\ TimeoutEndsIt

\* "so a duration budget actually stops work rather than just reporting a timeout"
\* (packages/terminal-runtime/README.md:32-33): the child of a command that is reported as
\* aborted has exited, or is going to be killed.
BudgetStopsWork ==
    \A c \in Calls : answer[c] = "aborted" /\ child[c] = "alive" => kill[c] # Off
-----------------------------------------------------------------------------
(* The inductive invariant behind EndsAsTold.                                     *)

\* A job that has ended and a command that is done have a child that has closed, and one
\* that failed never had one.
ClosedWhenTold ==
    \A c \in Calls : /\ job[c].ended \/ answer[c] = "done" => child[c] = "closed"
                     /\ answer[c] = "failed" => child[c] = "none"

JobsInv ==
    /\ now \in Nat /\ open \in BOOLEAN
    /\ kind \in [Calls -> {"none", "run", "start"}]
    /\ answer \in [Calls -> {"idle", "waiting", "started", "done", "failed", "aborted"}]
    /\ child \in [Calls -> {"none", "alive", "exited", "closed"}]
    /\ nature \in [Calls -> [stubborn : BOOLEAN, heir : BOOLEAN]]
    /\ term \in [Calls -> Int] /\ kill \in [Calls -> Int]
    /\ job \in [Calls -> [listed : BOOLEAN, ended : BOOLEAN, out : Nat, truncated : BOOLEAN]]
    /\ ClosedWhenTold /\ TimeoutEndsIt
=============================================================================
