------------------------------- MODULE HttpServer -------------------------------
(* packages/server/src/http-server.ts (serveHttp): the sessions of MCP clients,    *)
(* the event streams that consoles and other clients follow, and the shutdown.     *)
(*                                                                              *)
(* Abstractions.  One client makes one request at a time.  The routes that only    *)
(* read a snapshot answer it and keep nothing, so they are one request here.  A     *)
(* frame on the wire is the sequence of its event.  One workflow is followed; its   *)
(* events are numbered 1, 2, ... without a hole (WorkflowRun).                      *)
(* External: the session transport of the MCP SDK, and the sockets.                *)
EXTENDS Integers, Sequences, FiniteSets

CONSTANTS
    Clients,        \* each initialises at most one session and follows at most one stream at a time
    MaxEvents,      \* bound: events of the workflow
    MaxConnects     \* bound: streams that a client opens

VARIABLES
    phase,      \* of the server: "up", "closing", "closed"
    sessions,   \* the Map from session id to transport: the clients in it
    request,    \* of a client: "none", "reading" its body, or "connecting" a new transport
    transports, \* transports that are connected to an MCP server and not closed
    events,     \* number of events of the workflow
    stream,     \* of a client: [open, cursor, wire], the wire with what it has not read yet
    follower,   \* of a client: [seen, connects], all frames that it read, over its streams
    late        \* history: clients whose transport connected after close() had begun

vars == <<phase, sessions, request, transports, events, stream, follower, late>>

NoStream == [open |-> FALSE, cursor |-> 0, wire |-> <<>>]

Init == /\ phase = "up" /\ sessions = {} /\ transports = {} /\ late = {}
        /\ request = [c \in Clients |-> "none"]
        /\ events = 0 /\ stream = [c \in Clients |-> NoStream]
        /\ follower = [c \in Clients |-> [seen |-> <<>>, connects |-> 0]]
-----------------------------------------------------------------------------
(* Sessions (handleMcp).                                                        *)

\* A request with the id of a session in the Map goes to its transport; any other needs to
\* be a POST that initialises, without an id, and is read before that is known.
Post(c) ==
    /\ phase # "closed" /\ c \notin sessions /\ request[c] = "none"
    /\ request' = [request EXCEPT ![c] = "reading"]
    /\ UNCHANGED <<phase, sessions, transports, events, stream, follower, late>>

\* The body is no initialisation, names a session that is gone, or is too large.
Refuse(c) ==
    /\ request[c] = "reading" /\ request' = [request EXCEPT ![c] = "none"]
    /\ UNCHANGED <<phase, sessions, transports, events, stream, follower, late>>

Connect(c) ==
    /\ request[c] = "reading" /\ request' = [request EXCEPT ![c] = "connecting"]
    /\ transports' = transports \cup {c}
    /\ late' = IF phase = "up" THEN late ELSE late \cup {c}
    /\ UNCHANGED <<phase, sessions, events, stream, follower>>

\* onsessioninitialized
Initialized(c) ==
    /\ request[c] = "connecting" /\ request' = [request EXCEPT ![c] = "none"]
    /\ sessions' = sessions \cup {c}
    /\ late' = IF phase = "up" THEN late ELSE late \cup {c}
    /\ UNCHANGED <<phase, transports, events, stream, follower>>

\* A transport closes, on the client's DELETE or for another reason: onsessionclosed and
\* onclose take it from the Map.  A client that goes away without one keeps its entry.
SessionEnds(c) == transports' = transports \ {c} /\ sessions' = sessions \ {c}

End(c) == /\ c \in sessions /\ phase # "closed" /\ SessionEnds(c)
          /\ UNCHANGED <<phase, request, events, stream, follower, late>>
-----------------------------------------------------------------------------
(* Streams of events (streamWorkflow).                                          *)

NewEvent == /\ events < MaxEvents /\ phase # "closed" /\ events' = events + 1
          /\ UNCHANGED <<phase, sessions, request, transports, stream, follower, late>>

\* Mutant: the cursor counts the frames instead of following the sequence.
CountsFrames(s) ==
    LET new == [i \in 1 .. events - s.cursor |-> s.cursor + i]
    IN [s EXCEPT !.wire = @ \o new, !.cursor = Len(s.wire \o new)]

\* tick: the events after the cursor.
Ticked(s) ==
    LET new == [i \in 1 .. events - s.cursor |-> s.cursor + i]
    IN [s EXCEPT !.wire = @ \o new, !.cursor = IF new = <<>> THEN @ ELSE events]

\* A client opens the stream after what it has seen; the first tick runs at once.
Open(c) ==
    /\ phase # "closed" /\ ~stream[c].open /\ follower[c].connects < MaxConnects
    /\ LET seen == follower[c].seen
       IN stream' = [stream EXCEPT ![c] = Ticked([NoStream EXCEPT !.open = TRUE, !.cursor =
                         IF seen = <<>> THEN 0 ELSE seen[Len(seen)]])]
    /\ follower' = [follower EXCEPT ![c].connects = @ + 1]
    /\ UNCHANGED <<phase, sessions, request, transports, events, late>>

Tick(c) ==
    /\ stream[c].open /\ stream[c].cursor < events
    /\ stream' = [stream EXCEPT ![c] = Ticked(@)]
    /\ UNCHANGED <<phase, sessions, request, transports, events, follower, late>>

Receive(c) ==
    /\ stream[c].wire # <<>>
    /\ stream' = [stream EXCEPT ![c].wire = Tail(@)]
    /\ follower' = [follower EXCEPT ![c].seen = Append(@, Head(stream[c].wire))]
    /\ UNCHANGED <<phase, sessions, request, transports, events, late>>

\* The connection goes, with what is on the wire; on "close" the timer goes too.
Disconnect(c) ==
    /\ stream[c].open /\ stream' = [stream EXCEPT ![c] = NoStream]
    /\ UNCHANGED <<phase, sessions, request, transports, events, follower, late>>
-----------------------------------------------------------------------------
(* close(): the sessions one after the other, then everything that is open.     *)

Close == /\ phase = "up" /\ phase' = "closing"
         /\ UNCHANGED <<sessions, request, transports, events, stream, follower, late>>

CloseSession(c) ==
    /\ phase = "closing" /\ c \in sessions /\ SessionEnds(c)
    /\ UNCHANGED <<phase, request, events, stream, follower, late>>

\* The loop has found the Map empty; a body that is still read fails with its socket.
Closed ==
    /\ phase = "closing" /\ sessions = {} /\ phase' = "closed" /\ sessions' = {}
    /\ stream' = [c \in Clients |-> NoStream]
    /\ request' = [c \in Clients |-> IF request[c] = "reading" THEN "none" ELSE request[c]]
    /\ UNCHANGED <<transports, events, follower, late>>

Next == \/ NewEvent \/ Close \/ Closed
        \/ \E c \in Clients : \/ Post(c) \/ Refuse(c) \/ Connect(c) \/ Initialized(c) \/ End(c)
                              \/ Open(c) \/ Tick(c) \/ Receive(c) \/ Disconnect(c)
                              \/ CloseSession(c)

Spec == Init /\ [][Next]_vars
-----------------------------------------------------------------------------
(* Properties.                                                                 *)

\* "A client that reconnects with after=<last sequence> resumes without gaps": over all its
\* connections, whatever was on the wire when one broke, a client reads every event once
\* and in order.
ResumesWithoutGaps ==
    \A c \in Clients : \A i \in DOMAIN follower[c].seen : follower[c].seen[i] = i

\* A transport that is connected can be reached by its id, or is about to be, so that
\* close() leaves none behind but those that connected while it ran.
SessionsAreClosed ==
    \A c \in transports : c \in sessions \/ request[c] = "connecting" \/ c \in late

\* Both.
ClientsAreServed == ResumesWithoutGaps /\ SessionsAreClosed
-----------------------------------------------------------------------------
(* The inductive invariants behind ClientsAreServed.                             *)

Streams == [open : BOOLEAN, cursor : Nat, wire : Seq(Nat)]

\* What is on the wire of a stream continues what its client has seen, up to the cursor.
Continues(s, n) ==
    /\ \A i \in DOMAIN s.wire : s.wire[i] = n + i
    /\ n + Len(s.wire) <= events
    /\ IF s.open THEN s.cursor = n + Len(s.wire) ELSE s.wire = <<>>

StreamsInv ==
    /\ events \in Nat
    /\ stream \in [Clients -> Streams]
    /\ follower \in [Clients -> [seen : Seq(Nat), connects : Nat]]
    /\ ResumesWithoutGaps
    /\ \A c \in Clients : Continues(stream[c], Len(follower[c].seen))

SessionsInv ==
    /\ request \in [Clients -> {"none", "reading", "connecting"}]
    /\ sessions \subseteq Clients /\ transports \subseteq Clients /\ late \subseteq Clients
    /\ SessionsAreClosed
=============================================================================
