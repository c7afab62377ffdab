------------------------------ MODULE Destinations ------------------------------
(* packages/browser-runtime/src/network-policy.ts (assertSafeDestination) and        *)
(* pinning-proxy.ts (startPinningProxy): where the requests of pages end up.         *)
(*                                                                              *)
(* Abstractions.  An address is of one of the kinds that the policy tells apart:    *)
(* "public", "private" (isPrivateAddress, without loopback) or "loopback".  A url    *)
(* is [host, web], web if it is http(s) without credentials.  A literal address is a *)
(* host of its own.  A request over CONNECT and one in plain http differ only in     *)
(* who keeps the socket.                                                          *)
(* External: the resolver, whose answers for a name change at any time, and the      *)
(* browser, which asks the route handler and then the proxy, except for loopback.    *)
EXTENDS Integers, Sequences, FiniteSets

CONSTANTS
    Names,      \* host names
    Requests,   \* requests, each made once
    MaxChanges  \* bound: changed answers

VARIABLES
    policy,     \* NetworkPolicy: [allowed (hosts), localhost, unhinged]
    proxied,    \* whether the browser was started with the proxy
    answers,    \* of a name: the addresses that the resolver gives for it
    changes,    \* number of changes so far
    request,    \* of a request: [at, host, tunnel, address]
    sockets,    \* requests whose socket to the destination the proxy keeps, to destroy it
    listening,  \* whether the proxy is open
    late        \* history: requests that were under way when it closed

vars == <<policy, proxied, answers, changes, request, sockets, listening, late>>

Kinds    == {"public", "private", "loopback"}
Literals == Kinds
Hosts    == Names \cup Literals \cup {"localhost"}
New      == [at |-> "new", host |-> "localhost", tunnel |-> FALSE, address |-> "public"]
Local(host) == host \in {"localhost", "loopback"}

Init == /\ policy \in [allowed : {Hosts, Names, {"localhost", "loopback"}},
                       localhost : BOOLEAN, unhinged : BOOLEAN]
        /\ proxied \in BOOLEAN
        /\ policy.unhinged => ~proxied
        /\ answers = [n \in Names |-> {"public"}] /\ changes = 0
        /\ request = [r \in Requests |-> New]
        /\ sockets = {} /\ listening = proxied /\ late = {}
-----------------------------------------------------------------------------
(* assertSafeDestination                                                        *)

Acceptable(address) == address = "public" \/ (address = "loopback" /\ policy.localhost)

\* All that the resolver gives at this moment.
Resolved(host) == IF host \in Names THEN answers[host]
                  ELSE IF host = "localhost" THEN {"loopback"} ELSE {host}

\* The addresses that a check may find for a url; none if it throws.
SafeAddresses(host, web) ==
    IF policy.unhinged THEN {host}
    ELSE IF /\ web /\ (host = "localhost" => policy.localhost) /\ host \in policy.allowed
            /\ Resolved(host) # {} /\ \A a \in Resolved(host) : Acceptable(a)
    THEN Resolved(host) ELSE {}

Set(r, at)    == request' = [request EXCEPT ![r].at = at]
Unchanged     == UNCHANGED <<policy, proxied, answers, changes>>
-----------------------------------------------------------------------------
(* A request: the route handler, the browser's own connection or the proxy.     *)

\* assertSafeUrl in the handler; one of navigate and tab_new has been made before.
Routed(r, host, web, tunnel) ==
    /\ request[r].at = "new"
    /\ request' = [request EXCEPT ![r] =
          [New EXCEPT !.at = IF SafeAddresses(host, web) = {} THEN "refused" ELSE "routed",
                      !.host = host, !.tunnel = tunnel]]
    /\ Unchanged /\ UNCHANGED <<sockets, listening, late>>

\* Without a proxy, and to loopback with one, the browser resolves the host itself.
Direct(r) ==
    /\ request[r].at = "routed" /\ (~proxied \/ Local(request[r].host))
    /\ \E a \in Resolved(request[r].host) :
          request' = [request EXCEPT ![r].at = "direct", ![r].address = a]
    /\ Unchanged /\ UNCHANGED <<sockets, listening, late>>

\* Mutant: the check is made, and the socket opened to the host.
ChecksOnly(r) ==
    \E a \in SafeAddresses(request[r].host, TRUE) :
        request' = [request EXCEPT ![r].at = "checked", ![r].address = request[r].host]

\* The address that the check accepted.
Pin(r) ==
    \E a \in SafeAddresses(request[r].host, TRUE) :
        request' = [request EXCEPT ![r].at = "checked", ![r].address = a]

ToProxy(r) ==
    /\ request[r].at = "routed" /\ listening /\ ~Local(request[r].host) /\ Set(r, "asking")
    /\ Unchanged /\ UNCHANGED <<sockets, listening, late>>

Check(r) ==
    /\ request[r].at = "asking"
    /\ IF SafeAddresses(request[r].host, TRUE) = {} THEN Set(r, "refused") ELSE Pin(r)
    /\ Unchanged /\ UNCHANGED <<sockets, listening, late>>

\* The socket to the destination opens; that of a tunnel is tracked.
Connect(r) ==
    /\ request[r].at = "checked"
    /\ \E a \in Resolved(request[r].address) :
          request' = [request EXCEPT ![r].at = "open", ![r].address = a]
    /\ sockets' = IF request[r].tunnel THEN sockets \cup {r} ELSE sockets
    /\ Unchanged /\ UNCHANGED <<listening, late>>

Ends(r) == /\ request[r].at \in {"checked", "open", "direct"} /\ Set(r, "ended")
           /\ sockets' = sockets \ {r} /\ Unchanged /\ UNCHANGED <<listening, late>>

Destroy ==
    /\ sockets' = {}
    /\ request' = [r \in Requests |->
                      IF r \in sockets THEN [request[r] EXCEPT !.at = "ended"] ELSE request[r]]

CloseProxy ==
    /\ listening /\ listening' = FALSE /\ Destroy
    /\ late' = {r \in Requests : \/ request[r].at \in {"asking", "checked"}
                                 \/ (request[r].at = "open" /\ ~request[r].tunnel)}
    /\ Unchanged

Changes(n, set) ==
    /\ changes < MaxChanges /\ changes' = changes + 1 /\ answers' = [answers EXCEPT ![n] = set]
    /\ UNCHANGED <<policy, proxied, request, sockets, listening, late>>

Next ==
    \/ \E r \in Requests :
          \/ \E host \in Hosts, web, tunnel \in BOOLEAN : Routed(r, host, web, tunnel)
          \/ Direct(r) \/ ToProxy(r) \/ Check(r) \/ Connect(r) \/ Ends(r)
    \/ CloseProxy
    \/ \E n \in Names, set \in SUBSET Kinds : Changes(n, set)

Spec == Init /\ [][Next]_vars
-----------------------------------------------------------------------------
(* Properties.                                                                 *)

\* "Whatever connects has to connect to address, not to url.hostname": through the proxy, a
\* socket is open only to an address that the policy accepts and for a host that it allows,
\* however the answers of the resolver change between the checks.
ConnectsWhereChecked ==
    \A r \in Requests : request[r].at = "open" =>
        Acceptable(request[r].address) /\ request[r].host \in policy.allowed

\* When the proxy has closed, no tunnel is open but those whose check was under way then;
\* a request in plain http, whose socket the proxy does not keep, may last as well.
TunnelsEndWithProxy ==
    proxied /\ ~listening => \A r \in Requests : request[r].at = "open" => r \in late

\* Both.
SocketsAreKept == ConnectsWhereChecked /\ TunnelsEndWithProxy
-----------------------------------------------------------------------------
(* The inductive invariant behind SocketsAreKept.                                *)

\* What has come to the proxy came to it while it was open; what it has checked is as it
\* was found; what it keeps it can destroy, and what it cannot was under way.
AtProxy == {"asking", "checked", "open"}

ProxyInv ==
    /\ policy.unhinged => ~proxied
    /\ listening => proxied
    /\ answers \in [Names -> SUBSET Kinds]
    /\ request \in [Requests -> [at : AtProxy \cup {"new", "refused", "routed", "direct", "ended"},
                                 host : Hosts, tunnel : BOOLEAN, address : Kinds]]
    /\ \A r \in Requests :
          /\ request[r].at \in AtProxy => proxied
          /\ request[r].at \in {"checked", "open"} =>
                Acceptable(request[r].address) /\ request[r].host \in policy.allowed
          /\ request[r].at \in AtProxy /\ ~listening => r \in late
          /\ request[r].at = "open" /\ request[r].tunnel /\ listening => r \in sockets
=============================================================================
