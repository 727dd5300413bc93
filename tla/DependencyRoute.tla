--------------------------- MODULE DependencyRoute ---------------------------
(***************************************************************************)
(* The dependencies between the services of an environment, as the routes  *)
(* POST /api/services/:id/dependencies and DELETE /api/dependencies/:id    *)
(* and the deletion of a service change them.  The handler that adds one   *)
(* reads the whole graph, checks it with the new edge and inserts the      *)
(* edge, in separate calls.  Module PlanBuilder plans over this graph.     *)
(***************************************************************************)
EXTENDS Integers, FiniteSets

CONSTANTS
    AllServices, \* services of one environment
    Requests,    \* requests that may be handled at the same time
    MaxAdds      \* bound on the requests to add a dependency

ASSUME RouteAssumption == IsFiniteSet(AllServices)

VARIABLES
    services,    \* Service rows
    edges,       \* ServiceDependency rows <<dependentId, dependsOnId>>
    request,     \* the handler of each request
    adds

routeVars == <<services, edges, request, adds>>

NoRequest == [pc |-> "idle", edge |-> <<>>]

RouteInit ==
    /\ services = AllServices
    /\ edges = {}
    /\ request = [r \in Requests |-> NoRequest]
    /\ adds = 0

-----------------------------------------------------------------------------
\* Both services exist and differ.
AddBegin(r, a, b) ==
    /\ request[r].pc = "idle"
    /\ adds < MaxAdds
    /\ {a, b} \subseteq services
    /\ a # b
    /\ adds' = adds + 1
    /\ request' = [request EXCEPT ![r] = [pc |-> "check", edge |-> <<a, b>>]]
    /\ UNCHANGED <<services, edges>>

\* Mutant of Circular: only two services that depend on each other are refused.
CircularPair(E) == \E e \in E : <<e[2], e[1]>> \in E

\* resolveDependencyOrder throws: the services cannot be ranked below those that
\* depend on them.  Module PlanBuilder has the search for a cycle that decides
\* it, and shows (CyclesRefused) that it decides this.
Circular(E) ==
    ~\E rank \in [AllServices -> 1 .. Cardinality(AllServices)] :
        \A e \in E : rank[e[2]] < rank[e[1]]

\* The services of the environment are read with their dependencies and
\* checked with the new one; it is left out when one of the two is gone.
AddCheck(r) ==
    /\ request[r].pc = "check"
    /\ LET e    == request[r].edge
           seen == edges \cup (IF {e[1], e[2]} \subseteq services THEN {e} ELSE {})
       IN  request' = [request EXCEPT ![r] =
                         IF Circular(seen) THEN NoRequest
                         ELSE [@ EXCEPT !.pc = "insert"]]
    /\ UNCHANGED <<services, edges, adds>>

\* The insert: refused when the edge exists or one of the services is gone.
AddInsert(r) ==
    /\ request[r].pc = "insert"
    /\ LET e == request[r].edge IN
       edges' = IF {e[1], e[2]} \subseteq services THEN edges \cup {e} ELSE edges
    /\ request' = [request EXCEPT ![r] = NoRequest]
    /\ UNCHANGED <<services, adds>>

DeleteDependency(e) ==
    /\ e \in edges
    /\ edges' = edges \ {e}
    /\ UNCHANGED <<services, request, adds>>

\* Mutant of DeleteService: only what the service depends on goes with it.
DeleteServiceOneWay(s) ==
    /\ s \in services
    /\ services' = services \ {s}
    /\ edges' = {e \in edges : s # e[1]}
    /\ UNCHANGED <<request, adds>>

\* The dependencies of a service go with it, in both directions.
DeleteService(s) ==
    /\ s \in services
    /\ services' = services \ {s}
    /\ edges' = {e \in edges : s \notin {e[1], e[2]}}
    /\ UNCHANGED <<request, adds>>

RouteNext ==
    \/ \E r \in Requests :
         \/ \E a, b \in AllServices : AddBegin(r, a, b)
         \/ AddCheck(r) \/ AddInsert(r)
    \/ \E e \in edges : DeleteDependency(e)
    \/ \E s \in AllServices : DeleteService(s)

RouteSpec == RouteInit /\ [][RouteNext]_routeVars

-----------------------------------------------------------------------------
(* Properties. *)

\* The dependencies join services that exist.
Joined == edges \subseteq services \X services

\* No walk along dependencies comes back to where it began.
NoClosedWalk ==
    \A n \in 1 .. Cardinality(AllServices) : \A walk \in [1 .. n -> edges] :
        (\A i \in 1 .. n - 1 : walk[i][2] = walk[i + 1][1]) => walk[n][2] # walk[1][1]

\* However dependencies are added and removed, one request after the other,
\* and services deleted while they are checked, the stored graph joins services
\* that exist and has no cycle, so that a plan over it can be built.
StoredGraphSound == Joined /\ NoClosedWalk
=============================================================================
