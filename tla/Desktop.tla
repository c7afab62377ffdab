--------------------------------- MODULE Desktop ---------------------------------
(* packages/computer-runtime/src/index.ts (ComputerRuntime and its adapters): the   *)
(* actions of several tasks on one desktop, each carried out by helper programs,     *)
(* one after the other, that send events and may be killed between two of them.      *)
(*                                                                              *)
(* Abstractions.  A point is "from" or "to" of the call; that a point is inside the  *)
(* display is abstracted to whether its check passes.  A text has two characters, a   *)
(* motion of a drag one event, and a scroll is "tiny" (|deltaY| < 50), "up" or        *)
(* "down", of two wheel notches.  What screenshot and inspect return is left out.     *)
(* External: the desktop (button, pointer, display, secure input) and the helpers.   *)
EXTENDS Integers, Sequences, FiniteSets, Functions

CONSTANTS
    Calls,      \* execute() calls, each made once
    MaxChanges  \* bound: changes of the display, of its size or of secure input

VARIABLES
    platform,   \* "darwin", "linux", "win32" or "other"
    tools,      \* helpers that are installed: "input", "screen"
    call,       \* of a call: [at, op, space, placed, delta, sizes, todo, got]
    button,     \* the call that holds the button down, or Nobody
    pointer,    \* [call, place]: whose point the pointer is at
    display,    \* size of the display
    secure,     \* whether a process holds secure input (darwin)
    changes,    \* number of changes so far
    disturbed,  \* history: calls that a change or an event of another call fell into
    killed      \* history: whether a helper was killed

vars == <<platform, tools, call, button, pointer, display, secure, changes, disturbed, killed>>

Nobody  == "nobody"
Pointed == {"click", "move", "drag"}
Keyed   == {"type", "key"}
Ops     == Pointed \cup Keyed \cup {"scroll", "screenshot", "inspect"}
New     == [at |-> "new", op |-> "move", space |-> "pixel", placed |-> FALSE, delta |-> "down",
            sizes |-> <<>>, todo |-> <<>>, got |-> <<>>]
Ended   == {"new", "done", "failed"}
Running == {c \in Calls : call[c].at \notin Ended}

Init == /\ platform \in {"darwin", "linux", "win32", "other"}
        /\ tools \in SUBSET {"input", "screen"}
        /\ call = [c \in Calls |-> New]
        /\ button = Nobody /\ pointer = [call |-> Nobody, place |-> "elsewhere"]
        /\ display = 0 /\ secure \in BOOLEAN /\ (secure => platform = "darwin")
        /\ changes = 0 /\ disturbed = {} /\ killed = FALSE
-----------------------------------------------------------------------------
(* The adapters: what they can do, and the helpers that they run, each a sequence *)
(* of events [type, place]; "here" is wherever the pointer is.                     *)

MacCapabilities ==
    (IF "input" \in tools THEN {"pointer", "keyboard", "scroll", "inspect", "drag"} ELSE {})
        \cup (IF "screen" \in tools THEN {"screenshot"} ELSE {})
LinuxCapabilities ==
    (IF "input" \in tools THEN {"pointer", "keyboard", "scroll", "inspect", "drag"} ELSE {})
        \cup (IF "screen" \in tools THEN {"screenshot"} ELSE {})
WindowsCapabilities ==
    IF "input" \in tools
    THEN {"pointer", "keyboard", "scroll", "inspect", "drag", "screenshot"} ELSE {}

E(type, place) == [type |-> type, place |-> place]
Click  == <<E("move", "from"), E("press", "from"), E("release", "from")>>
Drag   == <<E("move", "from"), E("press", "from"), E("move", "to"), E("release", "to")>>
Strokes(w) ==
    IF w.op = "type" THEN <<E("key", "here"), E("key", "here")>> ELSE <<E("key", "here")>>
Wheel(w) == IF w.delta = "tiny" THEN <<>> ELSE <<E(w.delta, "here"), E(w.delta, "here")>>

\* coordinateScript
MacPointer(op) == CASE op = "click" -> Click [] op = "drag" -> Drag
                    [] OTHER -> <<E("move", "from")>>
MacHelpers(w) ==
    CASE w.op \in Pointed  -> <<MacPointer(w.op)>>
      [] w.op \in Keyed    -> <<Strokes(w)>>
      [] w.op = "scroll"   -> <<IF w.delta = "tiny" THEN <<E("down", "here")>> ELSE Wheel(w)>>
      [] OTHER             -> <<<<>>>>

\* xdotool; a click of the wheel is a program of its own.  Neither here nor on darwin does
\* a scroll go to its point.
LinuxHelpers(w) ==
    CASE w.op = "click"    -> <<Click>>
      [] w.op = "move"     -> <<<<E("move", "from")>>>>
      [] w.op = "drag"     -> <<Drag>>
      [] w.op \in Keyed    -> <<Strokes(w)>>
      [] w.op = "scroll"   -> [i \in 1 .. Len(Wheel(w)) |-> <<Wheel(w)[i]>>]
      [] OTHER             -> <<<<>>, <<>>>>

\* WINDOWS_POINTER_SCRIPT
WindowsPointer(w) ==
    (IF w.op \in Pointed \/ w.placed THEN <<E("move", "from")>> ELSE <<>>)
        \o (CASE w.op = "click"  -> Tail(Click)
              [] w.op = "drag"   -> Tail(Drag)
              [] w.op = "scroll" -> Wheel(w)
              [] OTHER           -> <<>>)
WindowsHelpers(w) ==
    CASE w.op \in Pointed \cup {"scroll"} -> <<WindowsPointer(w)>>
      [] w.op \in Keyed                   -> <<Strokes(w)>>
      [] OTHER                            -> <<<<>>>>

Capabilities == CASE platform = "darwin" -> MacCapabilities
                  [] platform = "linux" -> LinuxCapabilities
                  [] platform = "win32" -> WindowsCapabilities [] OTHER -> {}
Helpers(w)   == CASE platform = "darwin" -> MacHelpers(w) [] platform = "linux" -> LinuxHelpers(w)
                  [] OTHER -> WindowsHelpers(w)
-----------------------------------------------------------------------------
(* execute()                                                                    *)

End(c, at)   == call' = [call EXCEPT ![c] = [New EXCEPT !.at = at]]
Required(op) == CASE op \in {"click", "move"} -> "pointer" [] op \in Keyed -> "keyboard"
                  [] OTHER -> op

\* The checks before anything is done: the call was aborted before, the capability is
\* missing, or its points are missing or out of range.
Begin(c, op, space, placed, delta, sound) ==
    /\ call[c].at = "new"
    /\ IF ~sound \/ Required(op) \notin Capabilities THEN End(c, "failed")
       ELSE call' = [call EXCEPT ![c] = [New EXCEPT !.at = "checked", !.op = op, !.space = space,
                                         !.placed = placed, !.delta = delta]]
    /\ disturbed' = IF Running = {} THEN disturbed ELSE disturbed \cup Running \cup {c}
    /\ UNCHANGED <<platform, tools, button, pointer, display, secure, changes, killed>>

Keep == UNCHANGED <<platform, tools, button, pointer, display, secure, changes, disturbed>>
\* How many times the adapter asks for the size of the display before its helpers.
Measures(w) == IF platform # "linux" \/ w.space = "pixel" \/ w.op \notin Pointed THEN 0
               ELSE IF w.op = "drag" THEN 2 ELSE 1

\* Linux resolves each normalized point with a helper of its own.
Measure(c) ==
    LET w == call[c]
    IN /\ w.at = "checked" /\ Len(w.sizes) < Measures(w)
       /\ call' = [call EXCEPT ![c].sizes = Append(@, display)]
       /\ Keep /\ UNCHANGED killed

\* Mutant: keys are sent without asking whether they will arrive.
Unasked(c) == TRUE
\* assertInputLands: ioreg is asked first; that it cannot tell lets the keys through.
InputLands(c) == platform = "darwin" /\ call[c].op \in Keyed => ~secure

\* The first helper starts; it reads the size of the display where Linux has not.
Launch(c) ==
    LET w == call[c]
    IN /\ w.at = "checked" /\ Len(w.sizes) = Measures(w)
       /\ IF ~InputLands(c) THEN End(c, "failed")
          ELSE call' = [call EXCEPT ![c].at = "helping", ![c].todo = Helpers(w),
                                    ![c].sizes = IF @ = <<>> THEN <<display>> ELSE @]
       /\ Keep /\ UNCHANGED killed

\* What an event does; keys are dropped while secure input is held.
Arrive(c, e) ==
    /\ button' = CASE e.type = "press" -> c [] e.type = "release" -> Nobody [] OTHER -> button
    /\ pointer' = IF e.type = "move" THEN [call |-> c, place |-> e.place] ELSE pointer

Send(c) ==
    LET w == call[c]
        e == Head(Head(w.todo))
    IN /\ w.at = "helping" /\ w.todo # <<>> /\ Head(w.todo) # <<>>
       /\ Arrive(c, e)
       /\ call' = [call EXCEPT
             ![c].todo = <<Tail(Head(@))>> \o Tail(@),
             ![c].got = IF e.type = "key" /\ secure THEN @ ELSE
                        Append(@, [type |-> e.type,
                                   at |-> IF e.type \in {"press", "release"} THEN pointer'
                                          ELSE [call |-> c, place |-> e.place],
                                   fits |-> Range(w.sizes) = {display} \/ w.space = "pixel"])]
       /\ UNCHANGED <<platform, tools, display, secure, changes, disturbed, killed>>

EndHelper(c) ==
    LET w == call[c]
    IN /\ w.at = "helping"
       /\ \/ w.todo = <<>> /\ End(c, "done")
          \/ /\ w.todo # <<>> /\ Head(w.todo) = <<>>
             /\ call' = [call EXCEPT ![c].todo = Tail(@)]
       /\ Keep /\ UNCHANGED killed

\* The timeout or the abort of the task kills the helper, wherever it is; or it fails.
Kill(c) ==
    /\ call[c].at \in {"checked", "helping"} /\ End(c, "failed") /\ killed' = TRUE /\ Keep

\* The desktop changes by itself.
Change ==
    /\ changes < MaxChanges /\ changes' = changes + 1 /\ disturbed' = disturbed \cup Running
    /\ \/ display' = 1 - display /\ UNCHANGED secure
       \/ platform = "darwin" /\ secure' = ~secure /\ UNCHANGED display
    /\ UNCHANGED <<platform, tools, call, button, pointer, killed>>

Next == \/ \E c \in Calls :
              \/ \E op \in Ops, space \in {"pixel", "normalized"}, sound \in BOOLEAN :
                    Begin(c, op, space, op \in Pointed, "down", sound)
              \/ \E placed \in BOOLEAN, delta \in {"up", "down", "tiny"} :
                    Begin(c, "scroll", "pixel", placed, delta, TRUE)
              \/ Measure(c) \/ Launch(c) \/ Send(c) \/ EndHelper(c) \/ Kill(c)
        \/ Change

Spec == Init /\ [][Next]_vars
-----------------------------------------------------------------------------
(* Properties.                                                                 *)

\* What an action means, whatever the platform: the events that are to arrive, and where.
Meant(w) ==
    CASE w.op = "click"  -> <<"move", "press", "release">>
      [] w.op = "move"   -> <<"move">>
      [] w.op = "drag"   -> <<"move", "press", "move", "release">>
      [] w.op = "type"   -> <<"key", "key">>
      [] w.op = "key"    -> <<"key">>
      [] w.op = "scroll" -> <<w.delta, w.delta>>
      [] OTHER           -> <<>>

\* A scroll may move the pointer to its point first, which only Windows does.
Acts(w) == IF w.op = "scroll" /\ w.got # <<>> /\ Head(w.got).type = "move" THEN Tail(w.got)
           ELSE w.got

\* Of every step: an action that reports success has had its whole effect, where it
\* was meant to: every event arrived, presses and releases at its own points on a display
\* of the size that they were computed for, unless the desktop changed or another call
\* acted meanwhile.  Not so a scroll of less than half a notch.
SuccessIsDone ==
    \A c \in Calls \ disturbed : LET w == call[c] IN
        w.at = "helping" /\ call'[c].at = "done" /\ w.delta # "tiny" =>
            /\ Len(Acts(w)) = Len(Meant(w))
            /\ \A i \in DOMAIN Acts(w) : /\ Acts(w)[i].type = Meant(w)[i]
                                         /\ Acts(w)[i].fits /\ Acts(w)[i].at.call = c

\* The button is up whenever no call is under way, unless a helper was killed between the
\* press and the release.
ButtonIsReleased == Running = {} /\ ~killed => button = Nobody

InputArrives == SuccessIsDone /\ ButtonIsReleased
-----------------------------------------------------------------------------
(* What InputArrives rests on: until a call ends, what has arrived of its input and  *)
(* what is left of it are the whole input of its helpers.                         *)

Types  == {"move", "press", "release", "key", "up", "down"}
Places == {"from", "to", "here"}
Event  == [type : Types, place : Places]
Point  == [call : Calls \cup {Nobody}, place : Places \cup {"elsewhere"}]
Call   == [at : Ended \cup {"checked", "helping"}, op : Ops, space : {"pixel", "normalized"},
           placed : BOOLEAN, delta : {"up", "down", "tiny"}, sizes : Seq({0, 1}),
           todo : Seq(Seq(Event)), got : Seq([type : Types, at : Point, fits : BOOLEAN])]

\* What is pressed is released by the same helper, as the last thing that it does.
Releases(helper) ==
    \A i \in DOMAIN helper : helper[i].type = "press" =>
        i < Len(helper) /\ helper[Len(helper)].type = "release"

Formed ==
    /\ call \in [Calls -> Call] /\ pointer \in Point /\ display \in {0, 1}
    /\ secure \in BOOLEAN /\ (secure => platform = "darwin") /\ killed \in BOOLEAN
    /\ \A c \in Calls : /\ Len(call[c].todo) <= 2
                        /\ \A h \in DOMAIN call[c].todo : Releases(call[c].todo[h])
                        /\ call[c].at = "checked" => call[c].got = <<>>

\* The call that holds the button has yet to release it.
Holds(c) == LET w == call[c] IN
    /\ w.at = "helping" /\ w.todo # <<>> /\ Head(w.todo) # <<>>
    /\ Head(w.todo)[Len(Head(w.todo))].type = "release"
HeldIsReleased == killed \/ button = Nobody \/ (button \in Calls /\ Holds(button))

\* The events of one or two helpers, in a row.
Events(helpers) == IF helpers = <<>> THEN <<>>
                   ELSE IF Len(helpers) = 1 THEN helpers[1] ELSE helpers[1] \o helpers[2]

\* The input of a call is on its way: a part has arrived at its points, the rest is left.
OnItsWay(c) ==
    LET w == call[c]
        all == Events(Helpers(w))
        rest == Events(w.todo)
    IN /\ Len(w.got) + Len(rest) = Len(all)
       /\ \A i \in DOMAIN w.got : /\ w.got[i].type = all[i].type
                                  /\ w.got[i].fits /\ w.got[i].at.call = c
       /\ \A i \in DOMAIN rest : rest[i] = all[Len(w.got) + i]
       /\ w.got # <<>> /\ w.got[1].type = "move" => pointer.call = c

InHand(c) == LET w == call[c] IN
    /\ \A i \in DOMAIN w.sizes : w.sizes[i] = display
    /\ w.at = "helping" => w.sizes # <<>> /\ OnItsWay(c) /\ (w.op \in Keyed => ~secure)

Undisturbed == \A c \in Running \ disturbed : Running = {c} /\ InHand(c)

DesktopInv == Formed /\ HeldIsReleased /\ Undisturbed
=============================================================================
