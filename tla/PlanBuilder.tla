---------------------------- MODULE PlanBuilder ----------------------------
(***************************************************************************)
(* buildDeploymentPlan and the dependency resolution it rests on           *)
(* (detectCycle and resolveDependencyOrder of                              *)
(* src/services/orchestration.ts): which plans are refused, and in which   *)
(* order the steps of an accepted plan come.                               *)
(*                                                                         *)
(* The dependency rows and the selection are chosen in Init; the depth     *)
(* first search, Kahn's algorithm and the step list are computed by the    *)
(* actions below, one per iteration of the loops of the code.  Rows come   *)
(* from the database in no particular order, so the loops may take them in *)
(* any order.                                                              *)
(***************************************************************************)
EXTENDS Integers, Sequences, FiniteSets

CONSTANTS
  Services,        \* Service rows of the environment
  HasUrl,          \* services with a healthCheckUrl
  HealthDependents, \* services that may have dependencies of type health_before
  ReplicaChoices   \* possible numbers of ServiceDeployments: service -> Nat

ASSUME BuilderAssumption ==
  /\ IsFiniteSet(Services)
  /\ HasUrl \subseteq Services
  /\ HealthDependents \subseteq Services
  /\ ReplicaChoices \subseteq [Services -> Nat]

VARIABLES
  deps,      \* ServiceDependency rows: service -> services it depends on
  healthDeps, \* the pairs of them of type health_before (the others are deploy_after)
  selected,  \* services of the plan (serviceIds, or those of the container image)
  replicas,  \* ServiceDeployments of each service
  phase,     \* "load", "search", "sort", "emit", "ready" or "refused"
  reason,    \* why the plan was refused
  visited, recursionStack,  \* the sets detectCycle shares over all its calls
  frames,    \* the calls of detectCycle in progress: service and dependencies to look at
  inDegree, queue, levelOf, depth,  \* Kahn: levelOf is 0 for a service not placed yet
  steps      \* stepsToCreate: <<action, service, deployment>>, in order

inputVars == <<deps, healthDeps, selected, replicas>>
dfsVars   == <<visited, recursionStack, frames>>
kahnVars  == <<inDegree, queue, levelOf, depth>>
vars == <<inputVars, phase, reason, dfsVars, kahnVars, steps>>

\* Dependencies inside the plan; the others are ignored by Kahn's algorithm.
InPlan(s) == deps[s] \intersect selected

Placed == {s \in selected : levelOf[s] # 0}
Emitted == {steps[k][2] : k \in DOMAIN steps}

\* A service never depends on itself (refused by the dependency route); the
\* dependencies of a service outside the plan are never looked at.
Init ==
  /\ selected \in (SUBSET Services) \ {{}}
  /\ deps \in {f \in [Services -> SUBSET Services] :
                 \A s \in Services : s \notin f[s] /\ (s \notin selected => f[s] = {})}
  /\ healthDeps \in SUBSET {e \in HealthDependents \X Services : e[2] \in deps[e[1]]}
  /\ replicas \in ReplicaChoices
  /\ phase = "load"
  /\ reason = "none"
  /\ visited = {} /\ recursionStack = {} /\ frames = <<>>
  /\ inDegree = [s \in Services |-> 0]
  /\ queue = {}
  /\ levelOf = [s \in Services |-> 0]
  /\ depth = 0
  /\ steps = <<>>

----------------------------------------------------------------------------
Refuse(why) == phase' = "refused" /\ reason' = why

\* A selected service without deployments: the plan would have no steps for it.
RefuseEmpty ==
  /\ phase = "load"
  /\ \E s \in selected : replicas[s] = 0
  /\ Refuse("empty")
  /\ UNCHANGED <<inputVars, dfsVars, kahnVars, steps>>

\* resolveDependencyOrder counts the dependencies inside the plan.
CountDegrees ==
  /\ phase = "load"
  /\ \A s \in selected : replicas[s] # 0
  /\ inDegree' = [s \in Services |-> IF s \in selected THEN Cardinality(InPlan(s)) ELSE 0]
  /\ phase' = "search"
  /\ UNCHANGED <<inputVars, reason, dfsVars, queue, levelOf, depth, steps>>

----------------------------------------------------------------------------
(* detectCycle *)

Enter(s) == visited' = visited \union {s} /\ recursionStack' = recursionStack \union {s}
Top == frames[Len(frames)]
Callers == SubSeq(frames, 1, Len(frames) - 1)
Looked(d) == Append(Callers, [Top EXCEPT !.rest = @ \ {d}])

SearchFrom(s) ==
  /\ phase = "search"
  /\ frames = <<>>
  /\ s \in selected \ visited
  /\ Enter(s)
  /\ frames' = <<[svc |-> s, rest |-> deps[s]]>>
  /\ UNCHANGED <<inputVars, phase, reason, kahnVars, steps>>

\* A dependency not visited yet: the call for a service that is not in the plan
\* returns at once, after it was added to both sets.
SearchDependency(d) ==
  /\ phase = "search"
  /\ frames # <<>>
  /\ d \in Top.rest \ visited
  /\ Enter(d)
  /\ frames' = IF d \in selected THEN Append(Looked(d), [svc |-> d, rest |-> deps[d]])
                                 ELSE Looked(d)
  /\ UNCHANGED <<inputVars, phase, reason, kahnVars, steps>>

\* Mutant of SearchPast: the recursion stack is not looked at.
SearchPastStack(d) ==
  /\ phase = "search"
  /\ frames # <<>>
  /\ d \in Top.rest \intersect visited
  /\ frames' = Looked(d)
  /\ UNCHANGED <<inputVars, phase, reason, visited, recursionStack, kahnVars, steps>>

SearchPast(d) ==
  /\ phase = "search"
  /\ frames # <<>>
  /\ d \in (Top.rest \intersect visited) \ recursionStack
  /\ frames' = Looked(d)
  /\ UNCHANGED <<inputVars, phase, reason, visited, recursionStack, kahnVars, steps>>

CycleFound(d) ==
  /\ phase = "search"
  /\ frames # <<>>
  /\ d \in Top.rest \intersect visited \intersect recursionStack
  /\ Refuse("cycle")
  /\ UNCHANGED <<inputVars, dfsVars, kahnVars, steps>>

\* Mutant of SearchReturn: the service stays on the recursion stack.
SearchReturnOnStack ==
  /\ phase = "search"
  /\ frames # <<>>
  /\ Top.rest = {}
  /\ recursionStack' = recursionStack
  /\ frames' = Callers
  /\ UNCHANGED <<inputVars, phase, reason, visited, kahnVars, steps>>

SearchReturn ==
  /\ phase = "search"
  /\ frames # <<>>
  /\ Top.rest = {}
  /\ recursionStack' = recursionStack \ {Top.svc}
  /\ frames' = Callers
  /\ UNCHANGED <<inputVars, phase, reason, visited, kahnVars, steps>>

----------------------------------------------------------------------------
(* Kahn's algorithm *)

\* Mutant of StartSort: a service with one dependency is queued.
StartSortLow ==
  /\ phase = "search"
  /\ frames = <<>>
  /\ selected \subseteq visited
  /\ queue' = {s \in selected : inDegree[s] <= 1}
  /\ phase' = "sort"
  /\ UNCHANGED <<inputVars, reason, dfsVars, inDegree, levelOf, depth, steps>>

StartSort ==
  /\ phase = "search"
  /\ frames = <<>>
  /\ selected \subseteq visited
  /\ queue' = {s \in selected : inDegree[s] = 0}
  /\ phase' = "sort"
  /\ UNCHANGED <<inputVars, reason, dfsVars, inDegree, levelOf, depth, steps>>

\* One level: every dependent of the queue loses one degree per dependency in it.
NextLevel ==
  /\ phase = "sort"
  /\ queue # {}
  /\ depth' = depth + 1
  /\ levelOf' = [s \in Services |-> IF s \in queue THEN depth + 1 ELSE levelOf[s]]
  /\ inDegree' = [s \in Services |->
                    IF s \in selected THEN inDegree[s] - Cardinality(deps[s] \intersect queue)
                                      ELSE inDegree[s]]
  /\ queue' = {s \in selected : inDegree[s] # 0 /\ inDegree'[s] = 0}
  /\ UNCHANGED <<inputVars, phase, reason, dfsVars, steps>>

\* resolveDependencyOrder counts the services it placed.
AllOrdered == Cardinality(Placed) = Cardinality(selected)

\* A shortfall is refused; otherwise the plan row is created and the levels are
\* walked through.
FinishSort ==
  /\ phase = "sort"
  /\ queue = {}
  /\ phase' = IF AllOrdered THEN "emit" ELSE "refused"
  /\ reason' = IF AllOrdered THEN reason ELSE "unordered"
  /\ UNCHANGED <<inputVars, dfsVars, kahnVars, steps>>

----------------------------------------------------------------------------
(* The step list *)

\* hasHealthDependency || service.healthCheckUrl
NeedsCheck(s) == s \in HasUrl \/ \E d \in Services : <<s, d>> \in healthDeps

\* Mutant of ServiceSteps: the first deployment is taken each time.
ServiceStepsFirst(s) ==
  IF NeedsCheck(s)
    THEN [k \in 1..(2 * replicas[s]) |->
            <<IF k % 2 = 1 THEN "deploy" ELSE "health_check", s, (k + 1) \div 2>>]
    ELSE [k \in 1..replicas[s] |-> <<"deploy", s, 1>>]

\* For every deployment a deploy step, directly followed by its health check.
ServiceSteps(s) ==
  IF NeedsCheck(s)
    THEN [k \in 1..(2 * replicas[s]) |->
            <<IF k % 2 = 1 THEN "deploy" ELSE "health_check", s, (k + 1) \div 2>>]
    ELSE [k \in 1..replicas[s] |-> <<"deploy", s, k>>]

\* Mutant of EmitService: the levels are not followed.
EmitServiceUnordered(s) ==
  /\ phase = "emit"
  /\ s \in selected \ Emitted
  /\ steps' = steps \o ServiceSteps(s)
  /\ UNCHANGED <<inputVars, phase, reason, dfsVars, kahnVars>>

EmitService(s) ==
  /\ phase = "emit"
  /\ s \in selected \ Emitted
  /\ \A t \in selected \ Emitted : levelOf[s] <= levelOf[t]
  /\ steps' = steps \o ServiceSteps(s)
  /\ UNCHANGED <<inputVars, phase, reason, dfsVars, kahnVars>>

\* createMany writes all steps at once.
SavePlan ==
  /\ phase = "emit"
  /\ Emitted = selected
  /\ phase' = "ready"
  /\ UNCHANGED <<inputVars, reason, dfsVars, kahnVars, steps>>

----------------------------------------------------------------------------
Next ==
  \/ RefuseEmpty \/ CountDegrees
  \/ \E s \in Services : SearchFrom(s) \/ SearchDependency(s) \/ SearchPast(s) \/ CycleFound(s)
  \/ SearchReturn \/ StartSort \/ NextLevel \/ FinishSort
  \/ \E s \in Services : EmitService(s)
  \/ SavePlan

Spec == Init /\ [][Next]_vars

----------------------------------------------------------------------------
(* Properties *)

\* Reference definition of an acyclic plan: the services can be ranked below
\* their dependents.
Acyclic ==
  \E rank \in [selected -> 1..Cardinality(selected)] :
    \A s \in selected : \A d \in InPlan(s) : rank[d] < rank[s]

\* Kahn's algorithm: a service gets its level only after all the services of
\* the plan it depends on, and a strictly higher one.
LevelsRespectDependencies ==
  \A s \in Placed : \A d \in InPlan(s) : levelOf[d] # 0 /\ levelOf[d] < levelOf[s]

\* buildDeploymentPlan: in a saved plan every step for a dependency comes before
\* every step for its dependent.
DependenciesFirst ==
  phase = "ready" =>
    \A j, k \in DOMAIN steps : steps[j][2] \in InPlan(steps[k][2]) => j < k

\* buildDeploymentPlan: a saved plan deploys every deployment of every selected
\* service exactly once, and a health check of a deployment comes directly after it.
EveryDeploymentOnce ==
  phase = "ready" =>
    /\ \A s \in selected : \A i \in 1..replicas[s] :
         Cardinality({k \in DOMAIN steps : steps[k] = <<"deploy", s, i>>}) = 1
    /\ \A k \in DOMAIN steps : steps[k][1] = "health_check" =>
         k > 1 /\ steps[k - 1] = <<"deploy", steps[k][2], steps[k][3]>>

\* detectCycle finds every cycle: no plan over a cyclic selection is saved, and
\* the "not all services could be ordered" error after it is never needed.  Of
\* the selections that contain all their dependencies (as the dependency route
\* passes them) only those with a real cycle are refused.
CyclesRefused ==
  /\ phase = "ready" => Acyclic
  /\ reason # "unordered"
  /\ reason = "cycle" /\ (\A s \in selected : deps[s] \subseteq selected) => ~Acyclic

\* src/services/orchestration.test.ts: "ignores dependencies on services not in
\* the deployment set": a selection without a cycle is never refused for one.
OnlyCyclesRefused == reason = "cycle" => ~Acyclic
=============================================================================
