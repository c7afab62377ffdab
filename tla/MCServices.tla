------------------------------ MODULE MCServices ------------------------------
(* Services with small sets: the requests and policies of Authority that differ in   *)
(* its rules, and the symmetry of the actors.                                    *)
EXTENDS Services, TLC

Op(kind, action) == [kind |-> kind, action |-> action, name |-> "none", args |-> <<>>,
                     url |-> "none", job |-> FALSE]
Run(name, args)  == [Op("terminal", "run") EXCEPT !.name = name, !.args = args]
Visit(url)       == [Op("browser", "navigate") EXCEPT !.url = url]
Request(o)       == [operation |-> o, principal |-> "local", forbidden |-> {},
                     constrained |-> FALSE, evidence |-> FALSE]
MCRequests ==
    {Request(Op("file", "write")), Request(Op("file", "delete")), Request(Op("file", "read")),
     Request(Run("manager", <<"flag-with-value", "query", "install">>)),
     Request(Run("git", <<"flag", "query">>)),
     [Request(Run("git", <<"flag-with-value", "query", "remote">>)) EXCEPT !.evidence = TRUE],
     Request(Visit("public")), Request(Visit("localhost")),
     [Request(Op("memory", "put")) EXCEPT !.principal = "agent"],
     [Request(Op("memory", "clear")) EXCEPT !.forbidden = {"destructive"}]}

Covers(ops) == {[kind |-> o.kind, action |-> o.action] : o \in ops}
Notes  == {Op("memory", "put")}
Files  == {Op("file", "write"), Op("file", "delete")}
Grant(covers, until, version) ==
    [covers |-> Covers(covers), effects |-> {"read", "mutate", "destructive"},
     principals |-> {"local", "agent"}, until |-> until, version |-> version]
Default == [version |-> "1", commands |-> {"git", "manager"}, domains |-> {"public"},
            localhost |-> TRUE, mutations |-> "confirm", deniedTraits |-> {},
            grants |-> {}, unhinged |-> FALSE]
MCPolicies ==
    {Default, [Default EXCEPT !.unhinged = TRUE], [Default EXCEPT !.deniedTraits = {"network"}],
     [Default EXCEPT !.commands = {"git"}, !.localhost = FALSE],
     [Default EXCEPT !.mutations = "deny"],
     [Default EXCEPT !.grants = {Grant(Files, 1, "any"), Grant(Notes, 9, "1")}],
     [Default EXCEPT !.grants = {Grant(Notes, 9, "1")}],
     [Default EXCEPT !.grants = {Grant(Files, 9, "2")}, !.version = "2"],
     [Default EXCEPT !.grants = {Grant(Files, 9, "1")}, !.version = "2"]}
-----------------------------------------------------------------------------
\* No service tells one of two actors from the other, nor the two more that share a breaker.
Symmetric == Permutations(Processes) \cup Permutations(BreakerTasks \ Processes)
=============================================================================
