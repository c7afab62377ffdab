----------------------------- MODULE BrowserSession -----------------------------
(* packages/browser-runtime/src/index.ts (BrowserRuntime) and browser-connection.ts: *)
(* the connection, the tabs, and what a page does by itself while operations run:    *)
(* dialogs that MELRA answers and windows that MELRA closes.                         *)
(*                                                                                *)
(* Abstractions.  What an operation does on its page is one stretch of time in      *)
(* which the page may raise dialogs and open windows and which ends well or with an *)
(* error; what it reads from the page is left out.  Launches, pages and dialogs are  *)
(* numbered in the order in which they appear.                                       *)
(* External: the browser and Playwright.  A close of a page ends at some time.       *)
EXTENDS Integers, Sequences, FiniteSets, FiniteSetsExt

CONSTANTS
    Calls,          \* execute() calls, each made once
    MaxDialogs,     \* MAX_DIALOGS and MAX_POPUPS
    MaxLaunches,    \* bound: launches
    MaxEvents,      \* bound: dialogs, windows, closings and crashes by themselves
    MaxParallel     \* bound: calls at the same time; RuntimeRouter sets none

VARIABLES
    mode,       \* the options: "launched", "attached" (cdpEndpoint) or "unhinged"
    context, connection, proxy, \* fields of the runtime: a launch, or 0
    active,     \* this.activePage, or 0
    opening,    \* this.openingTab
    dialogs, popups, closing,   \* fields: reported dialogs and windows, closes under way
    browsers, proxies, \* of launches: the browsers that run, the proxies that listen
    routed,     \* launches whose context has the handlers
    pages,      \* pages that are open: [id, of]
    call,       \* of a call: [at, op, next, launch, taken], and as history the dialogs that
                \* it was asked and the windows that were opened in it: [asked, opened]
    closer,     \* progress of close(): "no", "browser", "proxy", "done"
    counts,     \* [launches, pages, dialogs, events], all so far
    unreported, \* history: dialogs accepted while calls ran, that no answer told of
    overlapped, \* history: whether two calls, or a call and close(), ran at once
    unclean     \* history: whether a launch failed or a browser died

fields == <<context, connection, proxy, active>>
vars == <<mode, fields, opening, dialogs, popups, closing, browsers, proxies,
          routed, pages, call, closer, counts, unreported, overlapped, unclean>>

New == [at |-> "new", op |-> "act", next |-> "page", launch |-> 0, taken |-> {},
        asked |-> <<>>, opened |-> {}]
attached == mode = "attached"
allows   == mode = "unhinged"   \* windows that a page opens stay
Ended     == {"new", "done", "failed"}
Running   == {c \in Calls : call[c].at \notin Ended}
PageIds(set) == {p.id : p \in set}
PagesOf(k)   == PageIds({p \in pages : p.of = k})

Init == /\ mode \in {"launched", "attached", "unhinged"} /\ unreported = {}
        /\ context = 0 /\ connection = 0 /\ proxy = 0 /\ active = 0 /\ opening = FALSE
        /\ dialogs = <<>> /\ popups = {} /\ closing = {}
        /\ browsers = {} /\ proxies = {} /\ routed = {} /\ pages = {}
        /\ call = [c \in Calls |-> New] /\ closer = "no"
        /\ counts = [launches |-> 0, pages |-> 0, dialogs |-> 0, events |-> 0]
        /\ overlapped = FALSE /\ unclean = FALSE

Goto(c, at) == call' = [call EXCEPT ![c].at = at]
End(c, at)  == call' = [call EXCEPT ![c] = [New EXCEPT !.at = at]]
Settings    == UNCHANGED mode
Reports     == UNCHANGED <<dialogs, popups, closing>>
World       == UNCHANGED <<browsers, proxies, routed, pages, counts>>
History     == UNCHANGED <<unreported, overlapped, unclean>>
-----------------------------------------------------------------------------
(* execute() and what every operation does first.                                *)

\* Mutant: what was recorded before is left for the next call to report.
KeepsReports(c, op) ==
    /\ call' = [call EXCEPT ![c] = [New EXCEPT !.at = "context", !.op = op]]
    /\ UNCHANGED <<dialogs, popups>>

Enter(c, op) ==
    /\ call' = [call EXCEPT ![c] = [New EXCEPT !.at = "context", !.op = op]]
    /\ dialogs' = <<>> /\ popups' = {}

Begin(c, op) ==
    /\ call[c].at = "new" /\ Cardinality(Running) < MaxParallel
    /\ Enter(c, op)
    /\ overlapped' = (overlapped \/ Running # {} \/ closer # "no")
    /\ Settings /\ World /\ UNCHANGED <<fields, opening, closing, closer, unreported, unclean>>

\* ensureContext: there is one, or the proxy is started, the browser, and the handlers.
Ensure(c) ==
    /\ call[c].at = "context"
    /\ IF context # 0 THEN call' = [call EXCEPT ![c].at = call[c].next, ![c].launch = context]
       ELSE /\ counts.launches < MaxLaunches
            /\ call' = [call EXCEPT ![c].at = "connect", ![c].launch = counts.launches + 1]
    /\ counts' = [counts EXCEPT !.launches = IF context = 0 THEN @ + 1 ELSE @]
    /\ Settings /\ Reports /\ History
    /\ UNCHANGED <<fields, opening, browsers, proxies, routed, pages, closer>>

StartProxy(c) ==
    /\ call[c].at = "connect"
    /\ Goto(c, "launch")
    /\ LET k == call[c].launch
       IN /\ proxies' = IF mode = "launched" THEN proxies \cup {k} ELSE proxies
          /\ proxy' = IF mode = "launched" THEN k ELSE 0
    /\ Settings /\ Reports /\ History
    /\ UNCHANGED <<context, connection, active, opening, browsers, routed, pages, counts, closer>>

Launch(c) ==
    /\ call[c].at = "launch" /\ Goto(c, "route")
    /\ LET k == call[c].launch
       IN context' = k /\ connection' = k /\ browsers' = browsers \cup {k}
    /\ Settings /\ Reports /\ History
    /\ UNCHANGED <<proxy, active, opening, proxies, routed, pages, counts, closer>>

LaunchFails(c) ==
    /\ call[c].at = "launch" /\ End(c, "failed") /\ unclean' = TRUE
    /\ Settings /\ Reports /\ World /\ UNCHANGED <<fields, opening, closer, unreported, overlapped>>

Route(c) ==
    /\ call[c].at = "route"
    /\ IF call[c].launch \in browsers
       THEN /\ call' = [call EXCEPT ![c].at = call[c].next, ![c].launch = context]
            /\ routed' = routed \cup {call[c].launch}
       ELSE End(c, "failed") /\ UNCHANGED routed
    /\ Settings /\ Reports /\ History
    /\ UNCHANGED <<fields, opening, browsers, proxies, pages, counts, closer>>

\* page(): the active page, the first one, or a new one.
ChoosePage(c) ==
    LET own == PagesOf(call[c].launch)
    IN /\ call[c].at = "page"
       /\ IF active \in PageIds(pages) THEN Goto(c, "run") /\ UNCHANGED <<active, opening>>
          ELSE IF own # {} THEN Goto(c, "run") /\ active' = Min(own) /\ UNCHANGED opening
          ELSE Goto(c, "open") /\ opening' = TRUE /\ UNCHANGED active
       /\ Settings /\ Reports /\ World /\ History
       /\ UNCHANGED <<context, connection, proxy, closer>>

\* The page event of a context: a page that was not asked for is reported, and closed
\* unless such pages are allowed.
Appears(k) ==
    LET p == counts.pages + 1
    IN /\ pages' = pages \cup {[id |-> p, of |-> k]}
       /\ IF opening \/ k \notin routed THEN UNCHANGED <<popups, closing>>
          ELSE /\ popups' = IF Cardinality(popups) < MaxDialogs THEN popups \cup {p} ELSE popups
               /\ closing' = IF allows THEN closing ELSE closing \cup {p}

\* openPage, for page() and for tab_new, which goes on to its url there.
OpenPage(c) ==
    LET k == call[c].launch
    IN /\ call[c].at = "open"
       /\ opening' = FALSE
       /\ IF k \in browsers
          THEN /\ Appears(k) /\ active' = counts.pages + 1
               /\ counts' = [counts EXCEPT !.pages = @ + 1]
               /\ call' = [call EXCEPT ![c].at = "run",
                              ![c].op = IF call[c].next = "page" THEN @ ELSE "act"]
          ELSE End(c, "failed") /\ UNCHANGED <<pages, popups, closing, active, counts>>
       /\ Settings /\ History
       /\ UNCHANGED <<context, connection, proxy, dialogs, browsers, proxies, routed, closer>>
-----------------------------------------------------------------------------
(* run(): the operations.                                                        *)

\* Operations on the page: to their end, or to an error.
Operate(c) ==
    /\ call[c].at = "run" /\ call[c].op = "act"
    /\ active \in PageIds(pages) /\ Goto(c, "drain")
    /\ Settings /\ Reports /\ World /\ History /\ UNCHANGED <<fields, opening, closer>>

Fail(c) ==
    /\ call[c].at = "run" /\ End(c, "failed")
    /\ Settings /\ Reports /\ World /\ History /\ UNCHANGED <<fields, opening, closer>>

\* The tab operations ask for the context again, which may be gone by now.
AskContext(c) ==
    /\ call[c].at = "run" /\ call[c].op # "act"
    /\ call' = [call EXCEPT ![c].at = "context", ![c].next = "tab"]
    /\ Settings /\ Reports /\ World /\ History /\ UNCHANGED <<fields, opening, closer>>

NewTab(c) ==
    /\ call[c].at = "tab" /\ call[c].op = "tab_new"
    /\ opening' = TRUE /\ Goto(c, "open")
    /\ Settings /\ Reports /\ World /\ History /\ UNCHANGED <<fields, closer>>

SwitchTab(c) ==
    /\ call[c].at = "tab" /\ call[c].op = "tab_switch"
    /\ \/ /\ active' \in PagesOf(call[c].launch) /\ Goto(c, "drain")
       \/ PagesOf(call[c].launch) = {} /\ End(c, "failed") /\ UNCHANGED active
    /\ Settings /\ Reports /\ World /\ History
    /\ UNCHANGED <<context, connection, proxy, opening, closer>>

CloseTab(c) ==
    LET own == PagesOf(call[c].launch)
    IN /\ call[c].at = "tab" /\ call[c].op = "close"
       /\ \/ \E p \in own :
               /\ pages' = {q \in pages : q.id # p}
               /\ active' = IF own = {p} THEN 0 ELSE Max(own \ {p})
               /\ Goto(c, "drain")
          \/ own = {} /\ End(c, "failed") /\ UNCHANGED <<pages, active>>
       /\ Settings /\ Reports /\ History
       /\ UNCHANGED <<context, connection, proxy, opening, browsers, proxies, routed, counts,
                      closer>>

\* The closes that are pending are taken out of the list and waited for.
Drain(c) ==
    /\ call[c].at = "drain" /\ call' = [call EXCEPT ![c].at = "answer", ![c].taken = closing]
    /\ closing' = {}
    /\ Settings /\ World /\ History /\ UNCHANGED <<fields, opening, dialogs, popups, closer>>

Answer(c) ==
    /\ call[c].at = "answer" /\ call[c].taken \cap PageIds(pages) = {}
    /\ End(c, "done") /\ unreported' = unreported \ {dialogs[i] : i \in DOMAIN dialogs}
    /\ Settings /\ Reports /\ World
    /\ UNCHANGED <<fields, opening, closer, overlapped, unclean>>
-----------------------------------------------------------------------------
(* What happens by itself.                                                       *)

Event == counts.events < MaxEvents
During(set, field(_)) == [c \in Calls |-> IF c \in set THEN field(c) ELSE call[c]]

\* context.on("dialog"): recorded, if there is room, and accepted.
Dialog(p) ==
    LET d == counts.dialogs + 1
    IN /\ Event /\ p.of \in routed
       /\ counts' = [counts EXCEPT !.dialogs = d, !.events = @ + 1]
       /\ dialogs' = IF Len(dialogs) < MaxDialogs THEN Append(dialogs, d) ELSE dialogs
       /\ call' = During(Running, LAMBDA c : [call[c] EXCEPT !.asked = Append(@, d)])
       /\ unreported' = IF Running = {} THEN unreported ELSE unreported \cup {d}
       /\ Settings
       /\ UNCHANGED <<fields, opening, popups, closing, browsers, proxies, routed, pages, closer,
                      overlapped, unclean>>

Popup(p) ==
    LET q == counts.pages + 1
    IN /\ Event /\ Appears(p.of)
       /\ counts' = [counts EXCEPT !.pages = q, !.events = @ + 1]
       /\ call' = IF opening THEN call
                  ELSE During({c \in Running : call[c].at # "answer"},
                              LAMBDA c : [call[c] EXCEPT !.opened = @ \cup {q}])
       /\ Settings /\ History
       /\ UNCHANGED <<fields, opening, dialogs, browsers, proxies, routed, closer>>

\* A close that MELRA asked for takes place.
PopupCloses(p) ==
    /\ p.id \in closing \cup UNION {call[c].taken : c \in Calls}
    /\ pages' = pages \ {p}
    /\ Settings /\ Reports /\ History
    /\ UNCHANGED <<fields, opening, browsers, proxies, routed, call, counts, closer>>

PageCloses(p) ==
    /\ Event /\ pages' = pages \ {p} /\ counts' = [counts EXCEPT !.events = @ + 1]
    /\ Settings /\ Reports /\ History
    /\ UNCHANGED <<fields, opening, browsers, proxies, routed, call, closer>>

\* A context is gone with its pages; its close event clears the fields of the runtime.
ContextGone(k) ==
    /\ pages' = {p \in pages : p.of # k}
    /\ IF k \in routed THEN context' = 0 /\ active' = 0 ELSE UNCHANGED <<context, active>>

BrowserDies(k) ==
    /\ Event /\ k \in browsers /\ browsers' = browsers \ {k} /\ ContextGone(k)
    /\ counts' = [counts EXCEPT !.events = @ + 1] /\ unclean' = TRUE
    /\ Settings /\ Reports
    /\ UNCHANGED <<connection, proxy, opening, proxies, routed, call, closer, unreported,
                  overlapped>>
-----------------------------------------------------------------------------
(* close()                                                                       *)

CloseContext ==
    /\ closer = "no" /\ closer' = "browser"
    /\ overlapped' = (overlapped \/ Running # {})
    /\ IF connection # 0 /\ ~attached THEN ContextGone(connection)
       ELSE UNCHANGED <<pages, context, active>>
    /\ Settings /\ Reports
    /\ UNCHANGED <<connection, proxy, opening, browsers, proxies, routed, call, counts,
                   unreported, unclean>>

CloseBrowser ==
    /\ closer = "browser" /\ closer' = "proxy"
    /\ browsers' = IF attached THEN browsers ELSE browsers \ {connection}
    /\ Settings /\ Reports /\ History
    /\ UNCHANGED <<fields, opening, proxies, routed, pages, call, counts>>

\* Mutant: the fields are cleared and the proxy is left to the browser.
ForgetsProxy == proxies' = proxies

EndProxy == proxies' = proxies \ {proxy}

CloseProxy ==
    /\ closer = "proxy" /\ closer' = "done" /\ EndProxy
    /\ context' = 0 /\ connection' = 0 /\ proxy' = 0 /\ active' = 0
    /\ Settings /\ Reports /\ History
    /\ UNCHANGED <<opening, browsers, routed, pages, call, counts>>

Next ==
    \/ \E c \in Calls :
          \/ \E op \in {"act", "tab_new", "tab_switch", "close"} : Begin(c, op)
          \/ Ensure(c) \/ StartProxy(c) \/ Launch(c) \/ LaunchFails(c) \/ Route(c)
          \/ ChoosePage(c) \/ OpenPage(c) \/ Operate(c) \/ Fail(c) \/ AskContext(c)
          \/ NewTab(c) \/ SwitchTab(c) \/ CloseTab(c) \/ Drain(c) \/ Answer(c)
    \/ \E p \in pages : Dialog(p) \/ Popup(p) \/ PopupCloses(p) \/ PageCloses(p)
    \/ \E k \in browsers : BrowserDies(k)
    \/ CloseContext \/ CloseBrowser \/ CloseProxy

Spec == Init /\ [][Next]_vars
-----------------------------------------------------------------------------
(* Properties.                                                                   *)

First(s) == SubSeq(s, 1, IF Len(s) < MaxDialogs THEN Len(s) ELSE MaxDialogs)

\* Of every step: a call that ran while no other did reports the dialogs that were
\* raised since it began, and no others, up to the limit; and every window that a page
\* opened until its work was done, unless MELRA was opening one itself, is reported up to
\* the limit and was closed.
AnswersTellAll ==
    \A c \in Calls : call[c].at = "answer" /\ call'[c].at = "done" /\ ~overlapped =>
        /\ dialogs = First(call[c].asked)
        /\ call[c].opened \subseteq popups \/ Cardinality(popups) >= MaxDialogs
        /\ allows \/ call[c].opened \cap PageIds(pages) = {}

\* close() leaves nothing behind: no browser that MELRA launched and no proxy, unless calls
\* overlapped, a launch failed or a browser died.
NothingOutlivesClose ==
    closer = "done" /\ Running = {} /\ ~overlapped =>
        /\ attached \/ browsers = {}
        /\ unclean \/ proxies = {}

\* "What makes it safe is that every dialog is reported back": a dialog that was accepted
\* while a call ran is in an answer, or still recorded for one.
EveryDialogIsReported == unreported \subseteq {dialogs[i] : i \in DOMAIN dialogs}
-----------------------------------------------------------------------------
(* The inductive invariant behind NothingOutlivesClose.                          *)

Stages == {"new", "context", "connect", "launch", "route", "page", "open", "run", "tab", "drain",
           "answer", "done", "failed"}
Call   == [at : Stages, op : {"act", "tab_new", "tab_switch", "close"}, next : {"page", "tab"},
           launch : Nat, taken : SUBSET Nat, asked : Seq(Nat), opened : SUBSET Nat]
Totals == [launches : Nat, pages : Nat, dialogs : Nat, events : Nat]

Types ==
    /\ context \in Nat /\ connection \in Nat /\ proxy \in Nat /\ closing \subseteq Nat
    /\ browsers \subseteq Nat \ {0} /\ proxies \subseteq Nat
    /\ overlapped \in BOOLEAN /\ unclean \in BOOLEAN
    /\ closer \in {"no", "browser", "proxy", "done"}
    /\ call \in [Calls -> Call] /\ counts \in Totals
    /\ \A c \in Calls : call[c].at \in {"connect", "launch"} => call[c].launch # 0

\* A call that finds no context is the only one that launches, nothing runs beside close(),
\* and the runtime has the browser that runs in its fields.
OneBrowser ==
    /\ closer # "done" => browsers \subseteq {connection}
    /\ closer = "no" => browsers \subseteq {context} /\ \A c, d \in Running : c = d
    /\ closer # "no" => Running = {}
    /\ closer \in {"proxy", "done"} => attached \/ browsers = {}
    /\ \A c \in Calls : call[c].at \in {"connect", "launch"} => context = 0

\* The proxy that listens is the one in the field, and there is none without a context,
\* unless a call is about to launch the browser for it.
OneProxy ==
    /\ proxies \subseteq {proxy}
    /\ (closer = "no" /\ context = 0 /\ \A c \in Calls : call[c].at # "launch") => proxies = {}
    /\ closer = "done" => proxies = {}

SessionInv ==
    /\ Types
    /\ ~overlapped => OneBrowser
    /\ ~overlapped /\ ~unclean => OneProxy

(* What AnswersTellAll rests on besides: while one call runs, the runtime has recorded   *)
(* what the page did since it began, and every page has the handlers that record it.     *)
Recorded(c) ==
    /\ dialogs = First(call[c].asked) /\ call[c].opened \subseteq 1..counts.pages
    /\ call[c].opened \subseteq popups \/ Cardinality(popups) >= MaxDialogs
    /\ \/ allows
       \/ call[c].opened \cap PageIds(pages) \subseteq IF call[c].at = "answer" THEN call[c].taken
                                                  ELSE closing

Launched == {"page", "open", "run", "tab", "drain", "answer"}

Handled ==
    /\ \A p \in pages : p.of \in routed
    /\ (context \in browsers /\ \A c \in Calls : call[c].at # "route") => context \in routed
    /\ \A c \in Calls :
          /\ call[c].at = "route" => context \in {call[c].launch, 0}
          /\ call[c].at \in Launched /\ call[c].launch \in browsers => call[c].launch \in routed

TellInv ==
    /\ dialogs \in Seq(Nat) /\ pages \subseteq [id : Nat, of : Nat] /\ IsFiniteSet(popups)
    /\ ~overlapped => Handled /\ \A c \in Running : Recorded(c)
=============================================================================
