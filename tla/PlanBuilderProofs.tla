-------------------------- MODULE PlanBuilderProofs --------------------------
(***************************************************************************)
(* For plans of any size and over any dependency graph: Kahn's algorithm   *)
(* gives levels that respect the dependencies, the step list follows them  *)
(* and has every deployment once, and the search refuses what the sort     *)
(* could not order.  For environments of any size: the route that stores   *)
(* the dependencies lets no cycle in, one request after the other.         *)
(***************************************************************************)
EXTENDS PlanBuilder, DependencyRoute, FiniteSetTheorems, SequenceTheorems, TLAPS

StepRows == {"deploy", "health_check"} \X Services \X Nat

\* The part of the type invariant the sort and the step list need.
SortTypes ==
  /\ deps \in [Services -> SUBSET Services]
  /\ selected \subseteq Services
  /\ replicas \in [Services -> Nat]
  /\ inDegree \in [Services -> Nat]
  /\ queue \subseteq selected
  /\ levelOf \in [Services -> Nat]
  /\ depth \in Nat
  /\ steps \in Seq(StepRows)

\* The dependencies of a service that have no level yet.
Waiting(s) == {d \in InPlan(s) : levelOf[d] = 0}

\* inDegree counts the waiting dependencies, and the queue holds the services
\* that have none and no level.
Degrees ==
  /\ phase \in {"load", "search"} => depth = 0 /\ \A s \in Services : levelOf[s] = 0
  /\ phase \in {"search", "sort"} => \A s \in selected : inDegree[s] = Cardinality(Waiting(s))
  /\ phase = "sort" => queue = {s \in selected : levelOf[s] = 0 /\ inDegree[s] = 0}
  /\ \A s \in Services : levelOf[s] <= depth

\* Steps come in the order of the levels, and what is emitted is not above
\* what is still to come.
Sorted ==
  /\ phase \in {"load", "search", "sort"} => steps = <<>>
  /\ phase \in {"emit", "ready"} => Placed = selected
  /\ \A k \in DOMAIN steps : steps[k][2] \in selected
  /\ \A j, k \in DOMAIN steps : j < k => levelOf[steps[j][2]] <= levelOf[steps[k][2]]
  /\ \A k \in DOMAIN steps : \A t \in selected \ Emitted : levelOf[steps[k][2]] <= levelOf[t]

\* The inductive invariant.
SortInv == SortTypes /\ Degrees /\ LevelsRespectDependencies /\ Sorted

\* Sets of services are finite.
LEMMA FiniteServices ==
  ASSUME SortTypes, NEW s \in selected
  PROVE  /\ IsFiniteSet(selected) /\ IsFiniteSet(InPlan(s)) /\ IsFiniteSet(Waiting(s))
         /\ Waiting(s) \subseteq InPlan(s)
<1>1. IsFiniteSet(selected)
  BY FS_Subset, BuilderAssumption DEF SortTypes
<1>2. InPlan(s) \subseteq selected /\ Waiting(s) \subseteq selected
  BY DEF InPlan, Waiting
<1> QED
  BY <1>1, <1>2, FS_Subset DEF Waiting

\* One round of Kahn's algorithm: the degrees drop by the dependencies that got
\* a level, and exactly the services without waiting dependencies come next.
LEMMA NextLevelStep ==
  ASSUME SortTypes, Degrees, LevelsRespectDependencies, NextLevel
  PROVE  SortTypes' /\ Degrees' /\ LevelsRespectDependencies'
<1> USE DEF NextLevel, inputVars, dfsVars
<1>1. /\ selected' = selected /\ deps' = deps /\ phase = "sort" /\ phase' = "sort"
      /\ replicas' = replicas /\ steps' = steps
      /\ selected \subseteq Services /\ queue \subseteq selected /\ depth \in Nat
      /\ queue = {s \in selected : levelOf[s] = 0 /\ inDegree[s] = 0}
      /\ levelOf \in [Services -> Nat] /\ inDegree \in [Services -> Nat]
  BY DEF SortTypes, Degrees
<1>2. /\ depth' = depth + 1
      /\ levelOf' = [s \in Services |-> IF s \in queue THEN depth + 1 ELSE levelOf[s]]
      /\ levelOf' \in [Services -> Nat]
  BY <1>1
<1>3. ASSUME NEW s \in selected
      PROVE  /\ Waiting(s)' = Waiting(s) \ queue
             /\ inDegree'[s] = Cardinality(Waiting(s)')
             /\ inDegree'[s] \in Nat
  <2>1. InPlan(s)' = InPlan(s) /\ InPlan(s) \subseteq selected
    BY <1>1 DEF InPlan
  <2>2. \A d \in selected : levelOf'[d] = 0 <=> levelOf[d] = 0 /\ d \notin queue
    BY <1>1, <1>2
  <2>3. Waiting(s)' = Waiting(s) \ queue
    BY <2>1, <2>2 DEF Waiting
  <2>4. deps[s] \intersect queue = Waiting(s) \intersect queue
    BY <1>1 DEF Waiting, InPlan
  <2>5. IsFiniteSet(Waiting(s))
    BY FiniteServices
  <2>6. Cardinality(Waiting(s) \ queue)
          = Cardinality(Waiting(s)) - Cardinality(Waiting(s) \intersect queue)
    BY <2>5, FS_Difference
  <2>7. inDegree[s] = Cardinality(Waiting(s))
    BY <1>1 DEF Degrees
  <2>8. inDegree'[s] = inDegree[s] - Cardinality(deps[s] \intersect queue)
    BY <1>1
  <2>9. IsFiniteSet(Waiting(s) \ queue) /\ Cardinality(Waiting(s) \ queue) \in Nat
    BY <2>5, FS_Difference, FS_CardinalityType
  <2> QED
    BY <2>3, <2>4, <2>6, <2>7, <2>8, <2>9
<1>4. inDegree' \in [Services -> Nat]
  BY <1>1, <1>3
<1>5. ASSUME NEW s \in selected, levelOf[s] # 0 PROVE inDegree[s] = 0
  <2>1. \A d \in InPlan(s) : levelOf[d] # 0
    BY <1>5 DEF LevelsRespectDependencies, Placed
  <2>2. Waiting(s) = {}
    BY <2>1 DEF Waiting
  <2> QED
    BY <2>2, <1>1, FS_EmptySet DEF Degrees
<1>6. queue' = {s \in selected' : levelOf'[s] = 0 /\ inDegree'[s] = 0}
  <2>1. queue' = {s \in selected : inDegree[s] # 0 /\ inDegree'[s] = 0}
    OBVIOUS
  <2>2. \A s \in selected : levelOf'[s] = 0 <=> inDegree[s] # 0
    BY <1>1, <1>2, <1>5
  <2> QED
    BY <1>1, <2>1, <2>2
<1>7. \A s \in Services : levelOf'[s] <= depth'
  BY <1>1, <1>2 DEF Degrees
<1>8. LevelsRespectDependencies'
  <2> SUFFICES ASSUME NEW s \in selected, levelOf'[s] # 0, NEW d \in InPlan(s)
               PROVE  levelOf'[d] # 0 /\ levelOf'[d] < levelOf'[s]
    BY <1>1 DEF LevelsRespectDependencies, Placed, InPlan
  <2>0. d \in selected
    BY DEF InPlan
  <2>1. CASE s \in queue
    <3>1. Waiting(s) = {}
      BY <2>1, <1>1, FiniteServices, FS_EmptySet DEF Degrees
    <3>2. levelOf[d] # 0 /\ d \notin queue
      BY <3>1, <2>0, <1>1 DEF Waiting
    <3>3. levelOf[d] <= depth /\ levelOf[d] \in Nat
      BY <2>0, <1>1 DEF Degrees
    <3> QED
      BY <1>1, <1>2, <2>0, <2>1, <3>2, <3>3
  <2>2. CASE s \notin queue
    <3>1. levelOf[s] # 0 /\ levelOf'[s] = levelOf[s]
      BY <1>1, <1>2, <2>2
    <3>2. levelOf[d] # 0 /\ levelOf[d] < levelOf[s]
      BY <3>1 DEF LevelsRespectDependencies, Placed
    <3>3. d \notin queue
      BY <1>1, <3>2
    <3> QED
      BY <1>1, <1>2, <2>0, <3>1, <3>2, <3>3
  <2> QED
    BY <2>1, <2>2
<1>9. SortTypes'
  <2>1. queue' \subseteq selected' /\ depth' \in Nat
    BY <1>1, <1>2, <1>6
  <2> QED
    BY <1>1, <1>2, <1>4, <2>1 DEF SortTypes, StepRows
<1>10. Degrees'
  BY <1>1, <1>3, <1>6, <1>7 DEF Degrees
<1> QED
  BY <1>8, <1>9, <1>10

\* A function on 1..n whose values are step rows is a sequence of step rows.
LEMMA RowsAreSeq ==
  ASSUME NEW n \in Nat, NEW f, f = [k \in 1..n |-> f[k]], \A k \in 1..n : f[k] \in StepRows
  PROVE  f \in Seq(StepRows)
<1>1. f \in [1..n -> StepRows]
  OBVIOUS
<1> HIDE DEF StepRows
<1> QED
  BY <1>1

\* Emitting a service appends steps of its own level only.
LEMMA EmitStep ==
  ASSUME SortInv, NEW s \in Services, EmitService(s)
  PROVE  SortInv'
<1> DEFINE new == ServiceSteps(s)
<1>1. /\ s \in selected \ Emitted /\ phase = "emit" /\ phase' = "emit"
      /\ steps' = steps \o new
      /\ UNCHANGED <<deps, selected, replicas, inDegree, queue, levelOf, depth>>
      /\ \A t \in selected \ Emitted : levelOf[s] <= levelOf[t]
      /\ levelOf \in [Services -> Nat] /\ selected \subseteq Services
      /\ replicas[s] \in Nat /\ steps \in Seq(StepRows)
  BY DEF EmitService, inputVars, kahnVars, SortInv, SortTypes
<1>2. new \in Seq(StepRows) /\ \A k \in DOMAIN new : new[k][2] = s
  <2>1. CASE NeedsCheck(s)
    <3>1. new = [k \in 1..(2 * replicas[s]) |->
                   <<IF k % 2 = 1 THEN "deploy" ELSE "health_check", s, (k + 1) \div 2>>]
      BY <2>1 DEF ServiceSteps
    <3>2. \A k \in 1..(2 * replicas[s]) :
            <<IF k % 2 = 1 THEN "deploy" ELSE "health_check", s, (k + 1) \div 2>> \in StepRows
      BY <1>1 DEF StepRows
    <3>3. 2 * replicas[s] \in Nat
      BY <1>1
    <3> HIDE DEF new
    <3>4. \A k \in DOMAIN new : new[k] \in StepRows /\ new[k][2] = s
      BY <3>1, <3>2
    <3>5. DOMAIN new = 1..(2 * replicas[s]) /\ new = [k \in 1..(2 * replicas[s]) |-> new[k]]
      BY <3>1
    <3> QED
      BY <3>3, <3>4, <3>5, RowsAreSeq
  <2>2. CASE ~NeedsCheck(s)
    <3>1. new = [k \in 1..replicas[s] |-> <<"deploy", s, k>>]
      BY <2>2 DEF ServiceSteps
    <3>2. \A k \in 1..replicas[s] : <<"deploy", s, k>> \in StepRows
      BY <1>1 DEF StepRows
    <3> HIDE DEF new
    <3>3. \A k \in DOMAIN new : new[k] \in StepRows /\ new[k][2] = s
      BY <3>1, <3>2
    <3>4. DOMAIN new = 1..replicas[s] /\ new = [k \in 1..replicas[s] |-> new[k]]
      BY <3>1
    <3> QED
      BY <1>1, <3>3, <3>4, RowsAreSeq
  <2> QED
    BY <2>1, <2>2
<1> HIDE DEF new
<1>3. /\ steps' \in Seq(StepRows)
      /\ DOMAIN steps' = 1..(Len(steps) + Len(new))
      /\ \A k \in 1..Len(steps) : steps'[k] = steps[k]
      /\ \A k \in (Len(steps) + 1)..(Len(steps) + Len(new)) : steps'[k][2] = s
      /\ Len(steps) \in Nat /\ Len(new) \in Nat /\ DOMAIN steps = 1..Len(steps)
  BY <1>1, <1>2
<1>4. \A k \in DOMAIN steps' : steps'[k][2] = s \/ (k \in DOMAIN steps /\ steps'[k] = steps[k])
  BY <1>3
<1>5. Emitted \subseteq Emitted'
  BY <1>3 DEF Emitted
<1>6. \A k \in DOMAIN steps : levelOf[steps[k][2]] <= levelOf[s]
  BY <1>1 DEF SortInv, Sorted
<1>7. \A k \in DOMAIN steps' : steps'[k][2] \in selected'
  BY <1>1, <1>4 DEF SortInv, Sorted
<1>8. \A j, k \in DOMAIN steps' : j < k => levelOf'[steps'[j][2]] <= levelOf'[steps'[k][2]]
  <2> SUFFICES ASSUME NEW j \in DOMAIN steps', NEW k \in DOMAIN steps', j < k
               PROVE  levelOf[steps'[j][2]] <= levelOf[steps'[k][2]]
    BY <1>1
  <2>1. CASE k \in DOMAIN steps
    <3>1. j \in DOMAIN steps
      BY <1>3, <2>1
    <3> QED
      BY <1>3, <2>1, <3>1 DEF SortInv, Sorted
  <2>2. CASE k \notin DOMAIN steps
    <3>1. steps'[k][2] = s /\ levelOf[s] \in Nat
      BY <1>1, <1>4, <2>2
    <3> QED
      BY <1>4, <1>6, <3>1
  <2> QED
    BY <2>1, <2>2
<1>9. \A k \in DOMAIN steps' : \A t \in selected' \ Emitted' : levelOf'[steps'[k][2]] <= levelOf'[t]
  BY <1>1, <1>4, <1>5 DEF SortInv, Sorted
<1>10. Sorted'
  BY <1>1, <1>7, <1>8, <1>9 DEF Sorted, SortInv, Placed
<1>11. SortTypes'
  BY <1>1, <1>3 DEF SortTypes, SortInv
<1>12. Degrees' /\ LevelsRespectDependencies'
  BY <1>1 DEF Degrees, LevelsRespectDependencies, SortInv, Placed, InPlan, Waiting
<1> QED
  BY <1>10, <1>11, <1>12 DEF SortInv

\* A step that leaves the sort alone.
LEMMA OtherStep ==
  ASSUME SortInv, UNCHANGED <<deps, selected, replicas, inDegree, queue, levelOf, depth, steps>>,
         \/ phase' = phase
         \/ phase' = "refused"
         \/ phase = "emit" /\ phase' = "ready"
  PROVE  SortInv'
<1>1. SortTypes'
  BY DEF SortInv, SortTypes
<1>2. Degrees' /\ LevelsRespectDependencies'
  BY DEF SortInv, Degrees, LevelsRespectDependencies, Placed, InPlan, Waiting
<1>3. Sorted'
  BY DEF SortInv, Sorted, Placed, Emitted
<1> QED
  BY <1>1, <1>2, <1>3 DEF SortInv

\* SortInv is inductive: the search and the refusals leave the sort alone, and
\* every iteration of Kahn's algorithm and of the step list keeps it.
LEMMA SortStep == SortInv /\ [Next]_vars => SortInv'
<1> SUFFICES ASSUME SortInv, [Next]_vars PROVE SortInv'
  OBVIOUS
<1> USE DEF inputVars, dfsVars, kahnVars
<1>1. CASE RefuseEmpty
  BY <1>1, OtherStep DEF RefuseEmpty, Refuse
<1>2. CASE CountDegrees
  <2>1. /\ phase = "load" /\ phase' = "search"
        /\ UNCHANGED <<deps, selected, replicas, queue, levelOf, depth, steps>>
        /\ inDegree' = [s \in Services |-> IF s \in selected THEN Cardinality(InPlan(s)) ELSE 0]
    BY <1>2 DEF CountDegrees
  <2>2. \A s \in selected : Waiting(s)' = InPlan(s) /\ IsFiniteSet(InPlan(s))
    BY <2>1, FiniteServices DEF SortInv, SortTypes, Degrees, Waiting, InPlan
  <2>3. \A s \in selected : Cardinality(InPlan(s)) \in Nat
    BY <2>2, FS_CardinalityType
  <2>4. SortTypes'
    BY <2>1, <2>3 DEF SortInv, SortTypes
  <2>5. \A s \in selected' : inDegree'[s] = Cardinality(Waiting(s)')
    BY <2>1, <2>2 DEF SortInv, SortTypes
  <2>6. Degrees'
    BY <2>1, <2>5 DEF SortInv, Degrees
  <2>7. LevelsRespectDependencies'
    BY <2>1 DEF SortInv, LevelsRespectDependencies, Placed, InPlan
  <2>8. Sorted'
    BY <2>1 DEF SortInv, Sorted, Placed, Emitted
  <2> QED
    BY <2>4, <2>6, <2>7, <2>8 DEF SortInv
<1>3. ASSUME NEW s \in Services, SearchFrom(s) PROVE SortInv'
  BY <1>3, OtherStep DEF SearchFrom
<1>4. ASSUME NEW s \in Services, SearchDependency(s) PROVE SortInv'
  BY <1>4, OtherStep DEF SearchDependency
<1>5. ASSUME NEW s \in Services, SearchPast(s) PROVE SortInv'
  BY <1>5, OtherStep DEF SearchPast
<1>6. ASSUME NEW s \in Services, CycleFound(s) PROVE SortInv'
  BY <1>6, OtherStep DEF CycleFound, Refuse
<1>7. CASE SearchReturn
  BY <1>7, OtherStep DEF SearchReturn
<1>8. CASE StartSort
  <2>1. /\ phase = "search" /\ phase' = "sort"
        /\ UNCHANGED <<deps, selected, replicas, inDegree, levelOf, depth, steps>>
        /\ queue' = {s \in selected : inDegree[s] = 0}
    BY <1>8 DEF StartSort
  <2>2. SortTypes'
    BY <2>1 DEF SortInv, SortTypes
  <2>3. Degrees' /\ LevelsRespectDependencies'
    BY <2>1 DEF SortInv, SortTypes, Degrees, LevelsRespectDependencies, Placed, InPlan, Waiting
  <2>4. Sorted'
    BY <2>1 DEF SortInv, Sorted, Placed, Emitted
  <2> QED
    BY <2>2, <2>3, <2>4 DEF SortInv
<1>9. CASE NextLevel
  <2>1. Sorted'
    <3>1. phase = "sort" /\ phase' = "sort" /\ steps = <<>> /\ steps' = <<>>
      BY <1>9 DEF NextLevel, SortInv, Sorted
    <3> QED
      BY <3>1 DEF Sorted
  <2> QED
    BY <1>9, <2>1, NextLevelStep DEF SortInv
<1>10. CASE FinishSort /\ ~AllOrdered
  BY <1>10, OtherStep DEF FinishSort
<1>11. CASE FinishSort /\ AllOrdered
  <2>1. /\ phase = "sort" /\ phase' = "emit"
        /\ UNCHANGED <<deps, selected, replicas, inDegree, queue, levelOf, depth, steps>>
        /\ Cardinality(Placed) = Cardinality(selected)
    BY <1>11 DEF FinishSort, AllOrdered
  <2>2. Placed = selected
    BY <2>1, FS_Subset, BuilderAssumption DEF SortInv, SortTypes, Placed
  <2>3. SortTypes'
    BY <2>1 DEF SortInv, SortTypes
  <2>4. Degrees' /\ LevelsRespectDependencies'
    BY <2>1 DEF SortInv, Degrees, LevelsRespectDependencies, Placed, InPlan
  <2>5. Sorted'
    BY <2>1, <2>2 DEF SortInv, Sorted, Placed, Emitted
  <2> QED
    BY <2>3, <2>4, <2>5 DEF SortInv
<1>12. ASSUME NEW s \in Services, EmitService(s) PROVE SortInv'
  BY <1>12, EmitStep
<1>13. CASE SavePlan
  BY <1>13, OtherStep DEF SavePlan
<1>14. CASE UNCHANGED vars
  BY <1>14, OtherStep DEF vars
<1> QED
  BY <1>1, <1>2, <1>3, <1>4, <1>5, <1>6, <1>7, <1>8, <1>9, <1>10, <1>11, <1>12, <1>13, <1>14
  DEF Next

\* SortInv holds before resolveDependencyOrder has done anything.
LEMMA SortInit == Init => SortInv
<1> SUFFICES ASSUME Init PROVE SortInv
  OBVIOUS
<1>1. SortTypes
  BY BuilderAssumption DEF Init, SortTypes
<1>2. Degrees /\ LevelsRespectDependencies
  BY DEF Init, Degrees, LevelsRespectDependencies, Placed
<1>3. Sorted
  BY DEF Init, Sorted
<1> QED
  BY <1>1, <1>2, <1>3 DEF SortInv

\* Kahn's algorithm gives every placed service a higher level than the services
\* of the plan it depends on, for every dependency graph.
THEOREM LevelsCorrect == Spec => []LevelsRespectDependencies
<1>1. SortInv => LevelsRespectDependencies
  BY DEF SortInv
<1> QED
  BY <1>1, SortInit, SortStep, PTL DEF Spec

\* Every saved plan lists all steps of a dependency before all steps of its
\* dependents, for every dependency graph and number of deployments.
THEOREM DependenciesFirstHolds == Spec => []DependenciesFirst
<1>1. SortInv => DependenciesFirst
  <2> SUFFICES ASSUME SortInv, phase = "ready", NEW j \in DOMAIN steps, NEW k \in DOMAIN steps,
                      steps[j][2] \in InPlan(steps[k][2])
               PROVE  j < k
    BY DEF DependenciesFirst
  <2>1. levelOf[steps[j][2]] < levelOf[steps[k][2]]
    BY DEF SortInv, Sorted, LevelsRespectDependencies
  <2>2. /\ levelOf[steps[j][2]] \in Nat /\ levelOf[steps[k][2]] \in Nat
        /\ j \in Int /\ k \in Int
    BY DEF SortInv, SortTypes, Sorted
  <2>3. ~(k < j) /\ j # k
    BY <2>1, <2>2 DEF SortInv, Sorted
  <2> QED
    BY <2>2, <2>3
<1> QED
  BY <1>1, SortInit, SortStep, PTL DEF Spec

-----------------------------------------------------------------------------
(* The step list has every deployment once. *)

Unique(rows) == \A j, k \in DOMAIN rows : rows[j] = rows[k] => j = k
Deploys(rows, s) == \A i \in 1..replicas[s] : \E k \in DOMAIN rows : rows[k] = <<"deploy", s, i>>
ChecksFollow(rows) ==
  \A k \in DOMAIN rows : rows[k][1] = "health_check" =>
    k > 1 /\ k - 1 \in DOMAIN rows /\ rows[k - 1] = <<"deploy", rows[k][2], rows[k][3]>>

\* What has been emitted is complete and has no step twice.
Listed ==
  /\ Unique(steps) /\ ChecksFollow(steps)
  /\ \A s \in Emitted : Deploys(steps, s)
  /\ phase = "ready" => Emitted = selected

\* The steps of one service: one deploy for each of its deployments, each health
\* check directly behind its deploy.
LEMMA ServiceStepsListed ==
  ASSUME NEW s \in Services, SortTypes
  PROVE  /\ ServiceSteps(s) \in Seq(StepRows)
         /\ \A k \in DOMAIN ServiceSteps(s) : ServiceSteps(s)[k][2] = s
         /\ Unique(ServiceSteps(s)) /\ ChecksFollow(ServiceSteps(s)) /\ Deploys(ServiceSteps(s), s)
<1> DEFINE new == ServiceSteps(s)
           n == replicas[s]
<1>0. n \in Nat
  BY DEF SortTypes
<1>1. CASE NeedsCheck(s)
  <2> DEFINE row(k) == <<IF k % 2 = 1 THEN "deploy" ELSE "health_check", s, (k + 1) \div 2>>
  <2>1. new = [k \in 1..(2 * n) |-> row(k)]
    BY <1>1 DEF ServiceSteps
  <2>2. \A k \in 1..(2 * n) : row(k) \in StepRows
    BY <1>0 DEF StepRows
  <2>3. 2 * n \in Nat
    BY <1>0
  <2> HIDE DEF new, n
  <2>4. DOMAIN new = 1..(2 * n) /\ \A k \in 1..(2 * n) : new[k] = row(k)
    BY <2>1
  <2>5. new \in Seq(StepRows)
    BY <2>1, <2>2, <2>3, <2>4, RowsAreSeq
  <2>6. Unique(new)
    <3> SUFFICES ASSUME NEW j \in 1..(2 * n), NEW k \in 1..(2 * n), row(j) = row(k) PROVE j = k
      BY <2>4 DEF Unique
    <3>1. (j + 1) \div 2 = (k + 1) \div 2 /\ (j % 2 = 1 <=> k % 2 = 1)
      OBVIOUS
    <3> QED
      BY <3>1, <2>3
  <2>7. ChecksFollow(new)
    <3> SUFFICES ASSUME NEW k \in 1..(2 * n), row(k)[1] = "health_check"
                 PROVE  k > 1 /\ k - 1 \in 1..(2 * n) /\ row(k - 1) = <<"deploy", row(k)[2], row(k)[3]>>
      BY <2>4 DEF ChecksFollow
    <3>1. k % 2 # 1
      OBVIOUS
    <3>2. k > 1 /\ k - 1 \in 1..(2 * n) /\ (k - 1) % 2 = 1 /\ ((k - 1) + 1) \div 2 = (k + 1) \div 2
      BY <3>1, <2>3
    <3> QED
      BY <3>2
  <2>8. Deploys(new, s)
    <3> SUFFICES ASSUME NEW i \in 1..n PROVE \E k \in 1..(2 * n) : row(k) = <<"deploy", s, i>>
      BY <2>4 DEF Deploys, n
    <3>1. 2 * i - 1 \in 1..(2 * n) /\ (2 * i - 1) % 2 = 1 /\ ((2 * i - 1) + 1) \div 2 = i
      BY <1>0
    <3>2. row(2 * i - 1) = <<"deploy", s, i>>
      BY <3>1
    <3> QED
      BY <3>1, <3>2
  <2> QED
    BY <2>4, <2>5, <2>6, <2>7, <2>8 DEF new
<1>2. CASE ~NeedsCheck(s)
  <2>1. new = [k \in 1..n |-> <<"deploy", s, k>>]
    BY <1>2 DEF ServiceSteps
  <2>2. \A k \in 1..n : <<"deploy", s, k>> \in StepRows
    BY <1>0 DEF StepRows
  <2> HIDE DEF new, n
  <2>3. DOMAIN new = 1..n /\ \A k \in 1..n : new[k] = <<"deploy", s, k>>
    BY <2>1
  <2>4. new \in Seq(StepRows)
    BY <1>0, <2>1, <2>2, <2>3, RowsAreSeq
  <2>5. Unique(new) /\ ChecksFollow(new) /\ Deploys(new, s)
    BY <2>3 DEF Unique, ChecksFollow, Deploys, n
  <2> QED
    BY <2>3, <2>4, <2>5 DEF new
<1> QED
  BY <1>1, <1>2

\* Listed is inductive: a service is emitted once, its steps in one go.
LEMMA ListedStep == SortInv /\ Listed /\ [Next]_vars => Listed'
<1> SUFFICES ASSUME SortInv, Listed, [Next]_vars PROVE Listed'
  OBVIOUS
<1> USE DEF inputVars, dfsVars, kahnVars
<1>1. ASSUME NEW s \in Services, EmitService(s) PROVE Listed'
  <2> DEFINE new == ServiceSteps(s)
             n == Len(steps)
             m == Len(new)
  <2>1. /\ s \in selected \ Emitted /\ steps' = steps \o new /\ replicas' = replicas
        /\ phase' = "emit" /\ steps \in Seq(StepRows)
    BY <1>1 DEF EmitService, SortInv, SortTypes
  <2>2. /\ new \in Seq(StepRows) /\ \A k \in DOMAIN new : new[k][2] = s
        /\ Unique(new) /\ ChecksFollow(new) /\ Deploys(new, s)
    BY ServiceStepsListed DEF SortInv
  <2> HIDE DEF new
  <2>3. /\ n \in Nat /\ m \in Nat /\ DOMAIN steps = 1..n /\ DOMAIN new = 1..m
        /\ DOMAIN steps' = 1..(n + m)
        /\ \A k \in 1..n : steps'[k] = steps[k]
        /\ \A k \in (n + 1)..(n + m) : steps'[k] = new[k - n]
        /\ \A k \in 1..m : steps'[n + k] = new[k]
    BY <2>1, <2>2
  <2> HIDE DEF n, m
  <2>4. \A k \in 1..n : steps[k][2] # s
    BY <2>1, <2>3 DEF Emitted
  <2>5. Unique(steps')
    <3> SUFFICES ASSUME NEW j \in 1..(n + m), NEW k \in 1..(n + m), steps'[j] = steps'[k] PROVE j = k
      BY <2>3 DEF Unique
    <3>1. CASE j \in 1..n /\ k \in 1..n
      BY <3>1, <2>3 DEF Listed, Unique
    <3>2. CASE j \in (n + 1)..(n + m) /\ k \in (n + 1)..(n + m)
      <4>1. j - n \in DOMAIN new /\ k - n \in DOMAIN new /\ new[j - n] = new[k - n]
        BY <3>2, <2>3
      <4>2. j - n = k - n
        BY <4>1, <2>2 DEF Unique
      <4> QED
        BY <4>2, <2>3
    <3>3. CASE j \in 1..n /\ k \in (n + 1)..(n + m)
      <4>1. k - n \in DOMAIN new /\ steps'[k] = new[k - n] /\ steps'[j] = steps[j]
        BY <3>3, <2>3
      <4> QED
        BY <4>1, <2>2, <2>4, <3>3
    <3>4. CASE k \in 1..n /\ j \in (n + 1)..(n + m)
      <4>1. j - n \in DOMAIN new /\ steps'[j] = new[j - n] /\ steps'[k] = steps[k]
        BY <3>4, <2>3
      <4> QED
        BY <4>1, <2>2, <2>4, <3>4
    <3> QED
      BY <3>1, <3>2, <3>3, <3>4, <2>3
  <2>6. ChecksFollow(steps')
    <3> SUFFICES ASSUME NEW k \in 1..(n + m), steps'[k][1] = "health_check"
                 PROVE  /\ k > 1 /\ k - 1 \in 1..(n + m)
                        /\ steps'[k - 1] = <<"deploy", steps'[k][2], steps'[k][3]>>
      BY <2>3 DEF ChecksFollow
    <3>1. CASE k \in 1..n
      <4>1. k > 1 /\ k - 1 \in DOMAIN steps /\ steps[k - 1] = <<"deploy", steps[k][2], steps[k][3]>>
        BY <3>1, <2>3 DEF Listed, ChecksFollow
      <4> QED
        BY <3>1, <4>1, <2>3
    <3>2. CASE k \in (n + 1)..(n + m)
      <4>1. k - n \in DOMAIN new /\ steps'[k] = new[k - n]
        BY <3>2, <2>3
      <4>2. /\ (k - n) > 1 /\ (k - n) - 1 \in DOMAIN new
            /\ new[(k - n) - 1] = <<"deploy", new[k - n][2], new[k - n][3]>>
        BY <4>1, <2>2 DEF ChecksFollow
      <4>3. k - 1 \in (n + 1)..(n + m) /\ (k - 1) - n = (k - n) - 1
        BY <4>2, <2>3
      <4>4. steps'[k - 1] = new[(k - n) - 1]
        BY <4>3, <2>3
      <4> QED
        BY <4>1, <4>2, <4>3, <4>4, <2>3
    <3> QED
      BY <3>1, <3>2, <2>3
  <2>7. (\A e \in Emitted : Deploys(steps, e))'
    <3> SUFFICES ASSUME NEW e \in Emitted', NEW i \in 1..replicas[e]
                 PROVE  \E k \in 1..(n + m) : steps'[k] = <<"deploy", e, i>>
      BY <2>1, <2>3 DEF Deploys
    <3>1. CASE e \in Emitted
      <4>1. PICK k \in 1..n : steps[k] = <<"deploy", e, i>>
        BY <3>1, <2>3 DEF Listed, Deploys
      <4>2. k \in 1..(n + m) /\ steps'[k] = steps[k]
        BY <2>3
      <4> QED
        BY <4>1, <4>2
    <3>2. CASE e = s
      <4>1. PICK k \in 1..m : new[k] = <<"deploy", s, i>>
        BY <3>2, <2>2, <2>3 DEF Deploys
      <4>2. n + k \in 1..(n + m) /\ steps'[n + k] = new[k]
        BY <2>3
      <4> QED
        BY <3>2, <4>1, <4>2
    <3>3. e \in Emitted \/ e = s
      <4>1. PICK k \in 1..(n + m) : steps'[k][2] = e
        BY <2>3 DEF Emitted
      <4>2. CASE k \in 1..n
        BY <4>1, <4>2, <2>3 DEF Emitted
      <4>3. CASE k \in (n + 1)..(n + m)
        <5>1. k - n \in DOMAIN new /\ steps'[k] = new[k - n]
          BY <4>3, <2>3
        <5> QED
          BY <4>1, <5>1, <2>2
      <4> QED
        BY <4>2, <4>3, <2>3
    <3> QED
      BY <3>1, <3>2, <3>3
  <2> QED
    BY <2>1, <2>5, <2>6, <2>7 DEF Listed
<1>2. ASSUME steps' = steps, replicas' = replicas, selected' = selected,
             phase' = "ready" => phase = "ready" \/ Emitted = selected
      PROVE  Listed'
  BY <1>2 DEF Listed, Emitted, Unique, ChecksFollow, Deploys
<1>3. CASE RefuseEmpty \/ CountDegrees \/ SearchReturn \/ StartSort \/ NextLevel \/ FinishSort
  BY <1>2, <1>3 DEF RefuseEmpty, CountDegrees, SearchReturn, StartSort, NextLevel, FinishSort, Refuse
<1>4. ASSUME NEW s \in Services,
             SearchFrom(s) \/ SearchDependency(s) \/ SearchPast(s) \/ CycleFound(s)
      PROVE  Listed'
  BY <1>2, <1>4 DEF SearchFrom, SearchDependency, SearchPast, CycleFound, Refuse
<1>5. CASE SavePlan \/ UNCHANGED vars
  BY <1>2, <1>5 DEF SavePlan, vars
<1> QED
  BY <1>1, <1>3, <1>4, <1>5 DEF Next

\* A saved plan deploys every deployment of every selected service exactly
\* once, and a health check comes directly behind its deploy, for every
\* dependency graph and number of deployments.
THEOREM EveryDeploymentOnceHolds == Spec => []EveryDeploymentOnce
<1>1. Init => Listed
  BY DEF Init, Listed, Unique, ChecksFollow, Emitted
<1>2. SortInv /\ Listed => EveryDeploymentOnce
  <2> SUFFICES ASSUME SortInv, Listed, phase = "ready" PROVE EveryDeploymentOnce
    BY DEF EveryDeploymentOnce
  <2>1. ASSUME NEW s \in selected, NEW i \in 1..replicas[s]
        PROVE  Cardinality({k \in DOMAIN steps : steps[k] = <<"deploy", s, i>>}) = 1
    <3>1. PICK k \in DOMAIN steps : steps[k] = <<"deploy", s, i>>
      BY DEF Listed, Deploys
    <3>2. {j \in DOMAIN steps : steps[j] = <<"deploy", s, i>>} = {k}
      BY <3>1 DEF Listed, Unique
    <3> QED
      BY <3>2, FS_Singleton
  <2> QED
    BY <2>1 DEF EveryDeploymentOnce, Listed, ChecksFollow
<1> QED
  BY <1>1, <1>2, SortInit, SortStep, ListedStep, PTL DEF Spec

-----------------------------------------------------------------------------
(* The search refuses every selection that the sort could not order. *)

Frame == [svc : Services, rest : SUBSET Services]

\* The services the search has left behind.
Finished == {s \in selected : s \in visited /\ s \notin recursionStack}

\* A call in progress: what it has looked at is finished or is the call it made.
CallOK(i) ==
  /\ frames[i].svc \in selected /\ frames[i].svc \in visited
  /\ frames[i].svc \in recursionStack
  /\ frames[i].rest \subseteq deps[frames[i].svc]
  /\ \A d \in InPlan(frames[i].svc) \ frames[i].rest :
       d \in Finished \/ (i < Len(frames) /\ frames[i + 1].svc = d)

\* Services of the plan on the recursion stack are the calls in progress, one
\* call each.
OneCallEach == \A i, j \in 1..Len(frames) : frames[i].svc = frames[j].svc => i = j
StackIsCalls == \A s \in selected : s \in recursionStack => \E i \in 1..Len(frames) : frames[i].svc = s

Calls ==
  /\ frames \in Seq(Frame)
  /\ phase = "load" => visited = {} /\ recursionStack = {} /\ frames = <<>>
  /\ \A i \in 1..Len(frames) : CallOK(i)
  /\ OneCallEach /\ StackIsCalls

\* S is closed under dependencies and can be ranked.
RankedBy(S, rank) == \A s \in S : \A d \in InPlan(s) : d \in S /\ rank[d] < rank[s]
Rankable(S) == \E n \in Nat : \E rank \in [Services -> 0..n] : RankedBy(S, rank)

\* Under every ranking of the selection the calls in progress descend.
Descending ==
  \A rank \in [selected -> Nat] : RankedBy(selected, rank) =>
    \A i, j \in 1..Len(frames) : i < j => rank[frames[j].svc] < rank[frames[i].svc]

\* What the search means for the selection, and how deep the sort can go.
Outcome ==
  /\ Rankable(Finished)
  /\ phase \in {"sort", "emit", "ready"} => selected \subseteq Finished
  /\ depth <= Cardinality(Placed)
  /\ reason # "unordered"
  /\ reason = "cycle" /\ (\A s \in selected : deps[s] \subseteq selected) => ~Acyclic

\* The inductive invariant of the search.
SearchInv == Calls /\ Descending /\ Outcome

\* A nonempty set of natural numbers has a least element.
LEMMA LeastNatural ==
  ASSUME NEW T, T \subseteq Nat, T # {} PROVE \E x \in T : \A y \in T : x <= y
<1> DEFINE R == OpToRel(<, Nat)
<1>1. IsWellFoundedOn(R, Nat)
  BY NatLessThanWellFounded
<1>2. \A x, y \in Nat : y < x => <<y, x>> \in R
  BY DEF OpToRel
<1> HIDE DEF R
<1>3. PICK x \in T : \A y \in T : ~(<<y, x>> \in R)
  BY <1>1, WFMin
<1>4. \A y \in T : x <= y
  <2> SUFFICES ASSUME NEW y \in T PROVE ~(y < x)
    OBVIOUS
  <2>1. x \in Nat /\ y \in Nat
    OBVIOUS
  <2> QED
    BY <1>2, <1>3, <2>1, Zenon
<1> QED
  BY <1>4

\* A call looks at one dependency after another.
LEMMA FrameExcept ==
  ASSUME NEW f \in Frame, NEW d
  PROVE  /\ [f EXCEPT !.rest = @ \ {d}] = [svc |-> f.svc, rest |-> f.rest \ {d}]
         /\ [svc |-> f.svc, rest |-> f.rest \ {d}] \in Frame
BY DEF Frame

\* The frames of detectCycle after its top call looked at d.
LEMMA TopCall ==
  ASSUME frames \in Seq(Frame), frames # <<>>, NEW d
  PROVE  /\ Len(frames) \in Nat \ {0} /\ Top = frames[Len(frames)] /\ Top \in Frame
         /\ Callers \in Seq(Frame) /\ Len(Callers) = Len(frames) - 1
         /\ \A i \in 1..(Len(frames) - 1) : Callers[i] = frames[i]
         /\ Looked(d) \in Seq(Frame) /\ Len(Looked(d)) = Len(frames)
         /\ \A i \in 1..(Len(frames) - 1) : Looked(d)[i] = frames[i]
         /\ Looked(d)[Len(frames)] = [svc |-> Top.svc, rest |-> Top.rest \ {d}]
<1>1. Len(frames) \in Nat \ {0} /\ Len(frames) \in 1..Len(frames)
  <2> HIDE DEF Frame
  <2> QED
    OBVIOUS
<1>2. Top = frames[Len(frames)] /\ Top \in Frame
  <2> HIDE DEF Frame
  <2> QED
    BY <1>1 DEF Top
<1>3. /\ Callers \in Seq(Frame) /\ Len(Callers) = Len(frames) - 1
      /\ \A i \in 1..(Len(frames) - 1) : Callers[i] = frames[i]
  <2> HIDE DEF Frame
  <2> DEFINE l == Len(frames) - 1
             c == SubSeq(frames, 1, l)
  <2>1. \A i \in 1..l : frames[i] \in Frame
    OBVIOUS
  <2>2. /\ c \in Seq(Frame) /\ Len(c) = IF 1 <= l THEN l - 1 + 1 ELSE 0
        /\ \A i \in 1..(l - 1 + 1) : c[i] = frames[1 + i - 1]
    <3>1. 1 \in Int /\ l \in Int
      BY <1>1
    <3> HIDE DEF l
    <3> QED
      BY <2>1, <3>1, SubSeqProperties
  <2>3. c = Callers
    BY DEF Callers
  <2>4. l \in Nat
    BY <1>1
  <2> HIDE DEF c, l
  <2>5. Len(c) = l /\ \A i \in 1..l : c[i] = frames[i]
    BY <2>2, <2>4
  <2> QED
    BY <2>2, <2>3, <2>5, Zenon DEF l
<1>4. /\ [Top EXCEPT !.rest = @ \ {d}] = [svc |-> Top.svc, rest |-> Top.rest \ {d}]
      /\ [svc |-> Top.svc, rest |-> Top.rest \ {d}] \in Frame
  BY <1>2, FrameExcept, Zenon
<1> HIDE DEF Frame
<1>5. Looked(d) = Append(Callers, [svc |-> Top.svc, rest |-> Top.rest \ {d}])
  BY <1>4, Zenon DEF Looked
<1> QED
  BY <1>1, <1>2, <1>3, <1>4, <1>5

\* What the search leaves behind can still be ranked when nothing is added.
LEMMA RankableSame ==
  ASSUME deps' = deps, selected' = selected, Finished' = Finished, Rankable(Finished)
  PROVE  Rankable(Finished)'
BY DEF Rankable, RankedBy, InPlan

\* detectCycle is called for a service.
LEMMA SearchFromStep ==
  ASSUME SortTypes, Calls, Descending, Rankable(Finished), NEW s \in Services, SearchFrom(s)
  PROVE  Calls' /\ Descending' /\ Rankable(Finished)'
<1>1. /\ frames = <<>> /\ s \in selected /\ s \notin visited /\ phase' = "search"
      /\ visited' = visited \union {s} /\ recursionStack' = recursionStack \union {s}
      /\ frames' = <<[svc |-> s, rest |-> deps[s]]>> /\ deps' = deps /\ selected' = selected
      /\ selected \subseteq Services /\ deps \in [Services -> SUBSET Services]
  BY DEF SearchFrom, Enter, inputVars, SortTypes
<1>2. /\ frames' \in Seq(Frame) /\ Len(frames') = 1
      /\ frames'[1].svc = s /\ frames'[1].rest = deps[s]
  <2>1. [svc |-> s, rest |-> deps[s]] \in Frame
    BY <1>1 DEF Frame
  <2> HIDE DEF Frame
  <2> QED
    BY <1>1, <2>1
<1>3. Finished' = Finished
  BY <1>1 DEF Finished
<1>4. \A t \in selected : t \notin recursionStack
  <2>1. Len(frames) = 0
    BY <1>1
  <2> QED
    BY <2>1 DEF Calls, StackIsCalls
<1>5. InPlan(s)' = InPlan(s) /\ InPlan(s) \subseteq deps[s]
  BY <1>1 DEF InPlan
<1>6. Calls'
  BY <1>1, <1>2, <1>4, <1>5 DEF Calls, CallOK, OneCallEach, StackIsCalls
<1>7. Descending'
  BY <1>2 DEF Descending
<1> QED
  BY <1>1, <1>3, <1>6, <1>7, RankableSame

\* The top call looks at a dependency that needs no call of its own.
LEMMA LookStep ==
  ASSUME Calls, Descending, Rankable(Finished), phase = "search", phase' = "search",
         frames # <<>>, deps' = deps, selected' = selected,
         NEW d, d \in Top.rest, frames' = Looked(d),
         d \in selected => d \in Finished, Finished' = Finished,
         visited \subseteq visited',
         \A s \in selected : s \in recursionStack' <=> s \in recursionStack
  PROVE  Calls' /\ Descending' /\ Rankable(Finished)'
<1> DEFINE n == Len(frames)
<1>0. /\ frames \in Seq(Frame) /\ n \in Nat \ {0} /\ Top = frames[n] /\ Top \in Frame
      /\ frames' \in Seq(Frame) /\ Len(frames') = n
      /\ \A i \in 1..(n - 1) : frames'[i] = frames[i]
      /\ frames'[n] = [svc |-> Top.svc, rest |-> Top.rest \ {d}]
  <2>1. frames \in Seq(Frame)
    BY DEF Calls
  <2> QED
    BY <2>1, TopCall
<1>1. /\ \A i \in 1..n : frames'[i].svc = frames[i].svc
      /\ \A i \in 1..n : frames'[i].rest \subseteq frames[i].rest
      /\ \A i \in 1..n : \A e \in frames[i].rest \ frames'[i].rest : e = d
  BY <1>0
<1> HIDE DEF n
<1>2. \A s : InPlan(s)' = InPlan(s) /\ InPlan(s) \subseteq selected
  BY DEF InPlan
<1>3. ASSUME NEW i \in 1..n PROVE CallOK(i)'
  <2>1. CallOK(i)
    BY DEF Calls, n
  <2>2. ASSUME NEW e \in InPlan(frames[i].svc) \ frames'[i].rest
        PROVE  e \in Finished \/ (i < n /\ frames'[i + 1].svc = e)
    <3>1. CASE e \in frames[i].rest
      BY <1>1, <1>2, <3>1
    <3>2. CASE e \notin frames[i].rest
      <4>1. e \in Finished \/ (i < n /\ frames[i + 1].svc = e)
        BY <2>1, <3>2 DEF CallOK, n
      <4>2. i < n => i + 1 \in 1..n
        BY <1>0
      <4> QED
        BY <4>1, <4>2, <1>1
    <3> QED
      BY <3>1, <3>2
  <2>3. \A e \in InPlan(frames[i].svc)' \ frames'[i].rest :
          e \in Finished' \/ (i < Len(frames') /\ frames'[i + 1].svc = e)
    BY <1>0, <1>1, <1>2, <2>2
  <2>4. /\ frames'[i].svc \in selected' /\ frames'[i].svc \in visited'
        /\ frames'[i].svc \in recursionStack' /\ frames'[i].rest \subseteq deps'[frames'[i].svc]
    BY <1>1, <2>1 DEF CallOK
  <2> QED
    BY <2>3, <2>4 DEF CallOK
<1>4. OneCallEach'
  BY <1>0, <1>1 DEF Calls, OneCallEach, n
<1>5. StackIsCalls'
  BY <1>0, <1>1 DEF Calls, StackIsCalls, n
<1>6. Calls'
  BY <1>0, <1>3, <1>4, <1>5 DEF Calls
<1>7. Descending'
  <2> SUFFICES ASSUME NEW rank \in [selected -> Nat], RankedBy(selected, rank),
                      NEW i \in 1..n, NEW j \in 1..n, i < j
               PROVE  rank[frames'[j].svc] < rank[frames'[i].svc]
    BY <1>0, <1>2 DEF Descending, RankedBy
  <2>1. rank[frames[j].svc] < rank[frames[i].svc]
    BY DEF Descending, n
  <2> QED
    BY <1>1, <2>1
<1> QED
  BY <1>6, <1>7, RankableSame

\* The top call calls detectCycle for a dependency of the plan.
LEMMA CallStep ==
  ASSUME SortTypes, Calls, Descending, Rankable(Finished), NEW d \in selected, SearchDependency(d)
  PROVE  Calls' /\ Descending' /\ Rankable(Finished)'
<1> DEFINE n == Len(frames)
           f == [svc |-> d, rest |-> deps[d]]
<1>0. /\ frames \in Seq(Frame) /\ frames # <<>> /\ d \in Top.rest /\ d \notin visited
      /\ visited' = visited \union {d} /\ recursionStack' = recursionStack \union {d}
      /\ frames' = Append(Looked(d), f) /\ deps' = deps /\ selected' = selected
      /\ phase' = "search" /\ f \in Frame
      /\ selected \subseteq Services /\ deps \in [Services -> SUBSET Services]
  BY DEF SearchDependency, Enter, inputVars, SortTypes, Calls, Frame
<1>1. /\ n \in Nat \ {0} /\ Top = frames[n] /\ Top \in Frame
      /\ Looked(d) \in Seq(Frame) /\ Len(Looked(d)) = n
      /\ \A i \in 1..(n - 1) : Looked(d)[i] = frames[i]
      /\ Looked(d)[n] = [svc |-> Top.svc, rest |-> Top.rest \ {d}]
  BY <1>0, TopCall
<1>2. /\ frames' \in Seq(Frame) /\ Len(frames') = n + 1
      /\ \A i \in 1..n : frames'[i] = Looked(d)[i]
      /\ frames'[n + 1] = f
  <2> HIDE DEF Frame, f
  <2> QED
    BY <1>0, <1>1, AppendProperties
<1>3. /\ \A i \in 1..n : frames'[i].svc = frames[i].svc
      /\ \A i \in 1..n : frames'[i].rest \subseteq frames[i].rest
      /\ \A i \in 1..n : \A e \in frames[i].rest \ frames'[i].rest : e = d /\ i = n
      /\ frames'[n + 1].svc = d /\ frames'[n + 1].rest = deps[d]
  BY <1>1, <1>2
<1> HIDE DEF n, f
<1>4. \A s : InPlan(s)' = InPlan(s) /\ InPlan(s) \subseteq selected
  BY <1>0 DEF InPlan
<1>5. Finished' = Finished
  BY <1>0 DEF Finished
<1>6. ASSUME NEW i \in 1..(n + 1) PROVE CallOK(i)'
  <2>1. CASE i = n + 1
    <3>1. frames'[i].svc = d /\ frames'[i].rest = deps[d] /\ InPlan(d)' \subseteq deps[d]
      BY <1>0, <1>3, <2>1 DEF InPlan
    <3> QED
      BY <1>0, <3>1 DEF CallOK
  <2>2. CASE i \in 1..n
    <3>1. CallOK(i)
      BY <2>2 DEF Calls, n
    <3>2. ASSUME NEW e \in InPlan(frames[i].svc) \ frames'[i].rest
          PROVE  e \in Finished \/ (i < n + 1 /\ frames'[i + 1].svc = e)
      <4>1. CASE e \in frames[i].rest
        BY <1>1, <1>3, <2>2, <4>1
      <4>2. CASE e \notin frames[i].rest
        <5>1. e \in Finished \/ (i < n /\ frames[i + 1].svc = e)
          BY <3>1, <4>2 DEF CallOK, n
        <5>2. i < n => i + 1 \in 1..n
          BY <1>1, <2>2
        <5> QED
          BY <5>1, <5>2, <1>1, <1>3
      <4> QED
        BY <4>1, <4>2
    <3>3. \A e \in InPlan(frames[i].svc)' \ frames'[i].rest :
            e \in Finished' \/ (i < Len(frames') /\ frames'[i + 1].svc = e)
      BY <1>2, <1>3, <1>4, <1>5, <2>2, <3>2
    <3>4. /\ frames'[i].svc \in selected' /\ frames'[i].svc \in visited'
          /\ frames'[i].svc \in recursionStack' /\ frames'[i].rest \subseteq deps'[frames'[i].svc]
      BY <1>0, <1>3, <2>2, <3>1 DEF CallOK
    <3> QED
      BY <3>3, <3>4 DEF CallOK
  <2> QED
    BY <1>1, <2>1, <2>2
<1>7. \A i \in 1..n : frames'[i].svc # d
  <2>1. \A i \in 1..n : CallOK(i)
    BY DEF Calls, n
  <2> QED
    BY <1>0, <1>3, <2>1 DEF CallOK
<1>8. OneCallEach'
  <2> SUFFICES ASSUME NEW i \in 1..(n + 1), NEW j \in 1..(n + 1), frames'[i].svc = frames'[j].svc
               PROVE  i = j
    BY <1>2 DEF OneCallEach
  <2>1. CASE i \in 1..n /\ j \in 1..n
    BY <1>3, <2>1 DEF Calls, OneCallEach, n
  <2>2. CASE i = n + 1 \/ j = n + 1
    BY <1>1, <1>3, <1>7, <2>2
  <2> QED
    BY <1>1, <2>1, <2>2
<1>9. StackIsCalls'
  <2> SUFFICES ASSUME NEW s \in selected, s \in recursionStack'
               PROVE  \E i \in 1..(n + 1) : frames'[i].svc = s
    BY <1>0, <1>2 DEF StackIsCalls
  <2>1. CASE s = d
    BY <1>1, <1>3, <2>1
  <2>2. CASE s \in recursionStack
    <3>1. PICK i \in 1..n : frames[i].svc = s
      BY <2>2 DEF Calls, StackIsCalls, n
    <3>2. i \in 1..(n + 1)
      BY <1>1
    <3> QED
      BY <1>3, <3>1, <3>2
  <2> QED
    BY <1>0, <2>1, <2>2
<1>10. Calls'
  BY <1>0, <1>2, <1>6, <1>8, <1>9 DEF Calls
<1>11. d \in InPlan(frames[n].svc) /\ \A k \in 1..n : frames[k].svc \in selected
  <2>1. \A i \in 1..n : CallOK(i)
    BY DEF Calls, n
  <2> QED
    BY <1>0, <1>1, <2>1 DEF CallOK, InPlan
<1>12. Descending'
  <2> SUFFICES ASSUME NEW rank \in [selected -> Nat], RankedBy(selected, rank),
                      NEW i \in 1..(n + 1), NEW j \in 1..(n + 1), i < j
               PROVE  rank[frames'[j].svc] < rank[frames'[i].svc]
    BY <1>0, <1>2, <1>4 DEF Descending, RankedBy
  <2>1. \A k, l \in 1..n : k < l => rank[frames[l].svc] < rank[frames[k].svc]
    BY DEF Descending, n
  <2>2. CASE j \in 1..n
    <3>1. i \in 1..n
      BY <1>1, <2>2
    <3> QED
      BY <1>3, <2>1, <2>2, <3>1
  <2>3. CASE j = n + 1
    <3>1. rank[d] < rank[frames[n].svc]
      BY <1>1, <1>11 DEF RankedBy
    <3>2. i \in 1..n /\ n \in 1..n /\ (i = n \/ i < n)
      BY <1>1, <2>3
    <3>3. rank[d] \in Nat /\ rank[frames[n].svc] \in Nat /\ rank[frames[i].svc] \in Nat
      BY <1>1, <1>11, <3>2
    <3>4. i = n \/ rank[frames[n].svc] < rank[frames[i].svc]
      BY <2>1, <3>2
    <3>5. rank[d] < rank[frames[i].svc]
      BY <3>1, <3>3, <3>4
    <3> QED
      BY <1>3, <2>3, <3>2, <3>5
  <2> QED
    BY <1>1, <2>2, <2>3
<1> QED
  BY <1>0, <1>5, <1>10, <1>12, RankableSame

\* detectCycle returns: the service and all it depends on are finished.
LEMMA ReturnStep ==
  ASSUME SortTypes, Calls, Descending, Rankable(Finished), SearchReturn
  PROVE  Calls' /\ Descending' /\ Rankable(Finished)'
<1> DEFINE n == Len(frames)
           t == Top.svc
<1>0. /\ frames \in Seq(Frame) /\ frames # <<>> /\ Top.rest = {} /\ visited' = visited
      /\ recursionStack' = recursionStack \ {t} /\ frames' = Callers
      /\ deps' = deps /\ selected' = selected /\ phase' = "search" /\ selected \subseteq Services
  BY DEF SearchReturn, inputVars, SortTypes, Calls
<1>1. /\ n \in Nat \ {0} /\ Top = frames[n]
      /\ frames' \in Seq(Frame) /\ Len(frames') = n - 1
      /\ \A i \in 1..(n - 1) : frames'[i] = frames[i]
  BY <1>0, TopCall
<1>2. \A i \in 1..n : CallOK(i)
  BY DEF Calls
<1>3. t = frames[n].svc /\ CallOK(n) /\ frames[n].rest = {}
  BY <1>0, <1>1, <1>2
<1>4. \A i \in 1..(n - 1) : frames[i].svc # t
  BY <1>1, <1>3 DEF Calls, OneCallEach
<1>5. \A d \in InPlan(t) : d \in Finished
  BY <1>1, <1>3 DEF CallOK
<1> HIDE DEF n, t
<1>6. t \in selected /\ t \notin Finished
  BY <1>3 DEF CallOK, Finished
<1>7. Finished' = Finished \union {t}
  BY <1>0, <1>3 DEF CallOK, Finished
<1>8. \A s : InPlan(s)' = InPlan(s)
  BY <1>0 DEF InPlan
<1>9. ASSUME NEW i \in 1..(n - 1) PROVE CallOK(i)'
  <2>1. /\ i \in 1..n /\ i + 1 \in 1..n /\ CallOK(i) /\ frames'[i] = frames[i] /\ i < n
        /\ (i = n - 1 \/ (i < n - 1 /\ i + 1 \in 1..(n - 1)))
    BY <1>1, <1>2
  <2>2. ASSUME NEW e \in InPlan(frames[i].svc) \ frames[i].rest
        PROVE  e \in Finished' \/ (i < n - 1 /\ frames'[i + 1].svc = e)
    <3>1. e \in Finished \/ frames[i + 1].svc = e
      BY <2>1 DEF CallOK
    <3>2. CASE i = n - 1
      <4>1. i + 1 = n
        BY <1>1, <3>2
      <4> QED
        BY <1>3, <1>7, <3>1, <4>1
    <3>3. CASE i < n - 1 /\ i + 1 \in 1..(n - 1)
      BY <1>1, <1>7, <3>1, <3>3
    <3> QED
      BY <2>1, <3>2, <3>3
  <2>3. \A e \in InPlan(frames[i].svc)' \ frames'[i].rest :
          e \in Finished' \/ (i < Len(frames') /\ frames'[i + 1].svc = e)
    BY <1>1, <1>8, <2>1, <2>2
  <2>4. /\ frames'[i].svc \in selected' /\ frames'[i].svc \in visited'
        /\ frames'[i].svc \in recursionStack' /\ frames'[i].rest \subseteq deps'[frames'[i].svc]
    BY <1>0, <1>4, <2>1 DEF CallOK
  <2> QED
    BY <2>3, <2>4 DEF CallOK
<1>10. OneCallEach'
  <2>1. \A i \in 1..(n - 1) : i \in 1..n
    BY <1>1
  <2> QED
    BY <1>1, <2>1 DEF Calls, OneCallEach, n
<1>11. StackIsCalls'
  <2> SUFFICES ASSUME NEW s \in selected, s \in recursionStack, s # t
               PROVE  \E i \in 1..(n - 1) : frames'[i].svc = s
    BY <1>0, <1>1 DEF StackIsCalls
  <2>1. PICK i \in 1..n : frames[i].svc = s
    BY DEF Calls, StackIsCalls, n
  <2>2. i \in 1..(n - 1)
    BY <1>1, <1>3, <2>1
  <2> QED
    BY <1>1, <2>1, <2>2
<1>12. Calls'
  BY <1>0, <1>1, <1>9, <1>10, <1>11 DEF Calls
<1>13. Descending'
  <2> SUFFICES ASSUME NEW rank \in [selected -> Nat], RankedBy(selected, rank),
                      NEW i \in 1..(n - 1), NEW j \in 1..(n - 1), i < j
               PROVE  rank[frames'[j].svc] < rank[frames'[i].svc]
    BY <1>0, <1>1, <1>8 DEF Descending, RankedBy
  <2>1. i \in 1..n /\ j \in 1..n
    BY <1>1
  <2>2. rank[frames[j].svc] < rank[frames[i].svc]
    BY <2>1 DEF Descending, n
  <2> QED
    BY <1>1, <2>2
<1>14. Rankable(Finished)'
  <2>0. PICK m \in Nat : \E rank \in [Services -> 0..m] : RankedBy(Finished, rank)
    BY DEF Rankable
  <2>1. PICK rank \in [Services -> 0..m] : RankedBy(Finished, rank)
    BY <2>0
  <2>2. PICK higher \in [Services -> 0..(m + 1)] :
          higher[t] = m + 1 /\ \A s \in Services \ {t} : higher[s] = rank[s]
    <3> DEFINE h == [s \in Services |-> IF s = t THEN m + 1 ELSE rank[s]]
    <3>1. h \in [Services -> 0..(m + 1)]
      OBVIOUS
    <3>2. h[t] = m + 1 /\ \A s \in Services \ {t} : h[s] = rank[s]
      BY <1>0, <1>6
    <3> QED
      BY <3>1, <3>2
  <2>3. \A s \in Finished : higher[s] = rank[s] /\ rank[s] \in 0..m
    BY <1>0, <1>6, <2>2 DEF Finished
  <2>4. ASSUME NEW s \in Finished', NEW d \in InPlan(s)
        PROVE  d \in Finished' /\ higher[d] < higher[s]
    <3>1. CASE s = t
      BY <1>5, <1>7, <2>2, <2>3, <3>1
    <3>2. CASE s \in Finished
      BY <1>7, <2>1, <2>3, <3>2 DEF RankedBy
    <3> QED
      BY <1>7, <3>1, <3>2
  <2>5. RankedBy(Finished, higher)'
    BY <1>8, <2>4 DEF RankedBy
  <2>6. m + 1 \in Nat
    OBVIOUS
  <2> QED
    BY <2>5, <2>6 DEF Rankable
<1> QED
  BY <1>12, <1>13, <1>14

\* Kahn's algorithm places every service of a selection that can be ranked: of
\* the services that are left, the one ranked lowest waits for nothing.
LEMMA RankablePlaced ==
  ASSUME SortInv, phase = "sort", queue = {}, Rankable(Finished), selected \subseteq Finished
  PROVE  Placed = selected
<1>0. PICK m \in Nat : \E rank \in [Services -> 0..m] : RankedBy(Finished, rank)
  BY DEF Rankable
<1>1. PICK rank \in [Services -> 0..m] : RankedBy(Finished, rank)
  BY <1>0
<1>2. selected \subseteq Services /\ Finished = selected /\ Placed \subseteq selected
  BY DEF SortInv, SortTypes, Finished, Placed
<1> SUFFICES ASSUME NEW u \in selected \ Placed PROVE FALSE
  BY <1>2
<1> DEFINE T == {rank[s] : s \in selected \ Placed}
<1>3. T \subseteq Nat /\ T # {}
  BY <1>2
<1>4. PICK x \in T : \A y \in T : x <= y
  <2> HIDE DEF T
  <2> QED
    BY <1>3, LeastNatural
<1>5. PICK s \in selected \ Placed : x = rank[s]
  BY <1>4
<1>6. levelOf[s] = 0
  BY <1>5 DEF Placed
<1>7. inDegree[s] # 0 /\ inDegree[s] = Cardinality(Waiting(s))
  BY <1>5, <1>6 DEF SortInv, Degrees
<1>8. Waiting(s) # {}
  BY <1>7, FS_EmptySet
<1>9. PICK d \in Waiting(s) : TRUE
  BY <1>8
<1>10. d \in InPlan(s) /\ d \in selected \ Placed
  BY <1>9 DEF Waiting, InPlan, Placed
<1>11. rank[d] < rank[s] /\ rank[d] \in T
  BY <1>1, <1>2, <1>5, <1>10 DEF RankedBy
<1>12. rank[d] \in Nat /\ x \in Nat /\ x <= rank[d]
  BY <1>3, <1>4, <1>11
<1> QED
  BY <1>5, <1>11, <1>12

\* A dependency on a call in progress closes a cycle, if it is in the plan.
LEMMA CycleIsReal ==
  ASSUME SortTypes, Calls, Descending, NEW d, CycleFound(d),
         \A s \in selected : deps[s] \subseteq selected
  PROVE  ~Acyclic
<1> DEFINE n == Len(frames)
<1>0. /\ frames \in Seq(Frame) /\ frames # <<>> /\ d \in Top.rest /\ d \in recursionStack
  BY DEF CycleFound, Calls
<1>1. n \in Nat \ {0} /\ n \in 1..n /\ Top = frames[n]
  <2>1. n \in Nat \ {0} /\ Top = frames[n]
    BY <1>0, TopCall
  <2> QED
    BY <2>1
<1>2. CallOK(n) /\ \A i \in 1..n : frames[i].svc \in selected
  BY <1>1 DEF Calls, CallOK
<1>3. d \in InPlan(frames[n].svc) /\ d \in selected
  BY <1>0, <1>1, <1>2 DEF CallOK, InPlan
<1>4. PICK i \in 1..n : frames[i].svc = d
  BY <1>0, <1>3 DEF Calls, StackIsCalls
<1> SUFFICES ASSUME NEW rank \in [selected -> 1..Cardinality(selected)],
                    \A s \in selected : \A e \in InPlan(s) : rank[e] < rank[s]
             PROVE  FALSE
  BY DEF Acyclic
<1>5. Cardinality(selected) \in Nat
  BY BuilderAssumption, FS_Subset, FS_CardinalityType DEF SortTypes
<1>6. rank \in [selected -> Nat] /\ RankedBy(selected, rank)
  BY <1>5 DEF RankedBy, InPlan
<1>7. i = n \/ (i < n /\ rank[frames[n].svc] < rank[frames[i].svc])
  <2>1. i = n \/ i < n
    BY <1>1
  <2> QED
    BY <1>1, <1>6, <2>1 DEF Descending
<1>8. rank[d] < rank[frames[n].svc] /\ rank[d] \in Nat /\ rank[frames[n].svc] \in Nat
  BY <1>2, <1>3, <1>6
<1> QED
  BY <1>4, <1>7, <1>8

\* A step that leaves the search alone.
LEMMA SearchSame ==
  ASSUME Calls, Descending, Rankable(Finished),
         UNCHANGED <<deps, selected, visited, recursionStack, frames>>,
         phase' = "load" => phase = "load"
  PROVE  /\ Calls' /\ Descending' /\ Rankable(Finished)' /\ Finished' = Finished
         /\ (Acyclic' <=> Acyclic)
<1>1. Finished' = Finished /\ \A s : InPlan(s)' = InPlan(s)
  BY DEF Finished, InPlan
<1>2. Calls'
  BY <1>1 DEF Calls, CallOK, OneCallEach, StackIsCalls
<1>3. Descending'
  BY <1>1 DEF Descending, RankedBy
<1>4. Acyclic' <=> Acyclic
  BY <1>1 DEF Acyclic
<1> QED
  BY <1>1, <1>2, <1>3, <1>4, RankableSame

\* SearchInv is inductive.
LEMMA SearchStep == SortInv /\ SearchInv /\ [Next]_vars => SearchInv'
<1> SUFFICES ASSUME SortInv, SearchInv, [Next]_vars PROVE SearchInv'
  OBVIOUS
<1> USE DEF inputVars, dfsVars, kahnVars
<1>0. /\ SortTypes /\ Calls /\ Descending /\ Rankable(Finished) /\ Outcome
      /\ reason # "unordered" /\ depth <= Cardinality(Placed)
      /\ phase \in {"sort", "emit", "ready"} => selected \subseteq Finished
  BY DEF SortInv, SearchInv, Outcome
\* The steps of the search.
<1>1. ASSUME Calls', Descending', Rankable(Finished)', phase' = "search", reason' = reason,
             UNCHANGED <<deps, selected, levelOf, depth>>
      PROVE  SearchInv'
  <2>1. Placed' = Placed /\ (Acyclic' <=> Acyclic)
    BY <1>1 DEF Placed, Acyclic, InPlan
  <2> QED
    BY <1>0, <1>1, <2>1 DEF SearchInv, Outcome
<1>2. ASSUME NEW s \in Services, SearchFrom(s) PROVE SearchInv'
  <2>1. phase' = "search" /\ reason' = reason /\ UNCHANGED <<deps, selected, levelOf, depth>>
    BY <1>2 DEF SearchFrom
  <2> QED
    BY <1>0, <1>1, <1>2, <2>1, SearchFromStep
<1>3. ASSUME NEW d \in Services, SearchDependency(d) PROVE SearchInv'
  <2>1. /\ phase = "search" /\ phase' = "search" /\ reason' = reason
        /\ UNCHANGED <<deps, selected, levelOf, depth>>
        /\ frames # <<>> /\ d \in Top.rest /\ visited' = visited \union {d}
        /\ recursionStack' = recursionStack \union {d}
    BY <1>3 DEF SearchDependency, Enter
  <2>2. CASE d \in selected
    BY <1>0, <1>1, <1>3, <2>1, <2>2, CallStep
  <2>3. CASE d \notin selected
    <3>1. frames' = Looked(d)
      BY <1>3, <2>3 DEF SearchDependency
    <3>2. Finished' = Finished /\ \A s \in selected : s \in recursionStack' <=> s \in recursionStack
      BY <2>1, <2>3 DEF Finished
    <3>3. Calls' /\ Descending' /\ Rankable(Finished)'
      BY <1>0, <2>1, <2>3, <3>1, <3>2, LookStep
    <3> QED
      BY <1>1, <2>1, <3>3
  <2> QED
    BY <2>2, <2>3
<1>4. ASSUME NEW d \in Services, SearchPast(d) PROVE SearchInv'
  <2>1. /\ phase = "search" /\ phase' = "search" /\ reason' = reason
        /\ UNCHANGED <<deps, selected, levelOf, depth, visited, recursionStack>>
        /\ frames # <<>> /\ d \in Top.rest /\ frames' = Looked(d)
        /\ d \in visited /\ d \notin recursionStack
    BY <1>4 DEF SearchPast
  <2>2. Finished' = Finished /\ (d \in selected => d \in Finished)
    BY <2>1 DEF Finished
  <2>3. Calls' /\ Descending' /\ Rankable(Finished)'
    BY <1>0, <2>1, <2>2, LookStep
  <2> QED
    BY <1>1, <2>1, <2>3
<1>5. CASE SearchReturn
  <2>1. phase' = "search" /\ reason' = reason /\ UNCHANGED <<deps, selected, levelOf, depth>>
    BY <1>5 DEF SearchReturn
  <2> QED
    BY <1>0, <1>1, <1>5, <2>1, ReturnStep
\* Steps that leave the search and the levels alone.
<1>6. ASSUME UNCHANGED <<deps, selected, visited, recursionStack, frames, levelOf, depth>>,
             phase' = "load" => phase = "load",
             phase' \in {"sort", "emit", "ready"} => selected \subseteq Finished,
             \/ reason' = reason
             \/ reason' = "empty"
             \/ /\ reason' = "cycle"
                /\ (\A s \in selected : deps[s] \subseteq selected) => ~Acyclic
      PROVE  SearchInv'
  <2>1. /\ Calls' /\ Descending' /\ Rankable(Finished)' /\ Finished' = Finished
        /\ (Acyclic' <=> Acyclic)
    BY <1>0, <1>6, SearchSame
  <2>2. Placed' = Placed
    BY <1>6 DEF Placed
  <2> QED
    BY <1>0, <1>6, <2>1, <2>2 DEF SearchInv, Outcome
<1>7. ASSUME NEW d \in Services, CycleFound(d) PROVE SearchInv'
  <2>1. (\A s \in selected : deps[s] \subseteq selected) => ~Acyclic
    BY <1>0, <1>7, CycleIsReal
  <2> QED
    BY <1>6, <1>7, <2>1 DEF CycleFound, Refuse
<1>8. CASE RefuseEmpty \/ CountDegrees
  BY <1>6, <1>8 DEF RefuseEmpty, CountDegrees, Refuse
<1>9. CASE StartSort
  <2>1. frames = <<>> /\ selected \subseteq visited
    BY <1>9 DEF StartSort
  <2>2. \A s \in selected : s \notin recursionStack
    <3>1. Len(frames) = 0
      BY <2>1
    <3> QED
      BY <1>0, <3>1 DEF Calls, StackIsCalls
  <2>3. selected \subseteq Finished
    BY <2>1, <2>2 DEF Finished
  <2> QED
    BY <1>6, <1>9, <2>3 DEF StartSort
<1>10. CASE NextLevel
  <2>1. /\ UNCHANGED <<deps, selected, visited, recursionStack, frames, reason>>
        /\ phase = "sort" /\ phase' = "sort" /\ queue # {} /\ depth' = depth + 1
        /\ levelOf' = [s \in Services |-> IF s \in queue THEN depth + 1 ELSE levelOf[s]]
    BY <1>10 DEF NextLevel
  <2>2. /\ Calls' /\ Descending' /\ Rankable(Finished)' /\ Finished' = Finished
        /\ (Acyclic' <=> Acyclic)
    BY <1>0, <2>1, SearchSame
  <2>3. queue \subseteq selected /\ selected \subseteq Services /\ depth \in Nat
        /\ \A s \in queue : levelOf[s] = 0
    BY <1>0, <2>1 DEF SortTypes, SortInv, Degrees
  <2>4. Placed' = Placed \union queue /\ Placed \intersect queue = {}
    BY <2>1, <2>3 DEF Placed
  <2>5. IsFiniteSet(selected)
    BY <2>3, BuilderAssumption, FS_Subset
  <2>6. IsFiniteSet(Placed) /\ IsFiniteSet(queue)
    BY <2>3, <2>5, FS_Subset DEF Placed
  <2>7. Cardinality(queue) \in Nat \ {0} /\ Cardinality(Placed) \in Nat
    BY <2>1, <2>6, FS_EmptySet, FS_CardinalityType
  <2>8. Cardinality(Placed') = Cardinality(Placed) + Cardinality(queue)
    <3>1. Cardinality(Placed \union queue)
            = Cardinality(Placed) + Cardinality(queue) - Cardinality(Placed \intersect queue)
      BY <2>6, FS_Union
    <3>2. Cardinality(Placed \intersect queue) = 0
      BY <2>4, FS_EmptySet
    <3>3. Cardinality(Placed \union queue) = Cardinality(Placed) + Cardinality(queue)
      BY <2>7, <3>1, <3>2
    <3> QED
      BY <2>4, <3>3
  <2>9. depth' <= Cardinality(Placed')
    BY <1>0, <2>1, <2>3, <2>7, <2>8
  <2> QED
    BY <1>0, <2>1, <2>2, <2>9 DEF SearchInv, Outcome
<1>11. CASE FinishSort
  <2>1. Placed = selected
    BY <1>0, <1>11, RankablePlaced DEF FinishSort
  <2>2. AllOrdered
    BY <2>1 DEF AllOrdered
  <2> QED
    BY <1>0, <1>6, <1>11, <2>2 DEF FinishSort
<1>12. ASSUME NEW s \in Services, EmitService(s) PROVE SearchInv'
  BY <1>0, <1>6, <1>12 DEF EmitService
<1>13. CASE SavePlan \/ UNCHANGED vars
  BY <1>0, <1>6, <1>13 DEF SavePlan, vars
<1> QED
  BY <1>2, <1>3, <1>4, <1>5, <1>7, <1>8, <1>9, <1>10, <1>11, <1>12, <1>13 DEF Next

\* Before the search nothing is visited.
LEMMA SearchInit == Init => SearchInv
<1> SUFFICES ASSUME Init PROVE SearchInv
  OBVIOUS
<1>1. /\ frames = <<>> /\ visited = {} /\ recursionStack = {} /\ Finished = {} /\ Placed = {}
      /\ selected \subseteq Services
  BY DEF Init, Finished, Placed
<1>2. Calls
  <2>1. frames \in Seq(Frame) /\ Len(frames) = 0
    <3> HIDE DEF Frame
    <3> QED
      BY <1>1
  <2> QED
    BY <1>1, <2>1 DEF Calls, OneCallEach, StackIsCalls
<1>3. Descending
  <2>1. Len(frames) = 0
    BY <1>1
  <2> QED
    BY <2>1 DEF Descending
<1>4. Rankable(Finished)
  <2>1. [s \in Services |-> 0] \in [Services -> 0..0] /\ 0 \in Nat
    OBVIOUS
  <2>2. RankedBy(Finished, [s \in Services |-> 0])
    BY <1>1 DEF RankedBy
  <2> QED
    BY <2>1, <2>2 DEF Rankable
<1>5. Outcome
  <2>1. depth = 0 /\ Cardinality(Placed) = 0
    BY <1>1, FS_EmptySet DEF Init
  <2> QED
    BY <1>4, <2>1 DEF Outcome, Init
<1> QED
  BY <1>2, <1>3, <1>5 DEF SearchInv

\* detectCycle and Kahn's algorithm agree for every dependency graph: no plan
\* over a cyclic selection is saved, no accepted selection is left unordered,
\* and of the selections that contain all their dependencies only those with a
\* cycle are refused.
THEOREM CyclesRefusedHolds == Spec => []CyclesRefused
<1>1. SortInv /\ SearchInv => CyclesRefused
  <2> SUFFICES ASSUME SortInv, SearchInv, phase = "ready" PROVE Acyclic
    BY DEF SearchInv, Outcome, CyclesRefused
  <2>1. Placed = selected /\ selected \subseteq Services
    BY DEF SortInv, SortTypes, Sorted
  <2>2. IsFiniteSet(selected)
    BY <2>1, BuilderAssumption, FS_Subset
  <2>3. Cardinality(selected) \in Nat /\ depth <= Cardinality(selected) /\ depth \in Nat
    BY <2>1, <2>2, FS_CardinalityType DEF SearchInv, Outcome, SortInv, SortTypes
  <2>4. \A s \in selected : levelOf[s] \in Nat /\ levelOf[s] # 0 /\ levelOf[s] <= depth
    BY <2>1 DEF SortInv, SortTypes, Degrees, Placed
  <2>5. \A s \in selected : levelOf[s] \in 1..Cardinality(selected)
    BY <2>3, <2>4
  <2> DEFINE rank == [s \in selected |-> levelOf[s]]
  <2>6. rank \in [selected -> 1..Cardinality(selected)]
    BY <2>5
  <2>7. \A s \in selected : \A d \in InPlan(s) : rank[d] < rank[s]
    BY <2>1 DEF SortInv, LevelsRespectDependencies, InPlan
  <2> HIDE DEF rank
  <2> QED
    BY <2>6, <2>7 DEF Acyclic
<1> QED
  BY <1>1, SortInit, SortStep, SearchInit, SearchStep, PTL DEF Spec

-----------------------------------------------------------------------------
(* The dependency route. *)

\* Requests are handled one after the other.
OneAtATime == \A q, r \in Requests : q = r

Handlers == [pc : {"idle", "check", "insert"}, edge : {<<>>} \cup (AllServices \X AllServices)]

\* The edge that is to be inserted closes no cycle, then and since: what was
\* checked can only lose edges, or one of the two services is gone for good.
InsertIsSafe ==
  \A r \in Requests : request[r].pc = "insert" =>
    \/ ~Circular(edges \cup {request[r].edge})
    \/ ~({request[r].edge[1], request[r].edge[2]} \subseteq services)

RouteInv ==
  /\ services \subseteq AllServices
  /\ Joined
  /\ request \in [Requests -> Handlers]
  /\ \A r \in Requests : request[r].pc # "idle" => request[r].edge \in AllServices \X AllServices
  /\ ~Circular(edges)
  /\ InsertIsSafe

\* A graph with fewer edges has no cycle either.
LEMMA FewerEdges ==
  ASSUME NEW F, ~Circular(F), NEW E, E \subseteq F PROVE ~Circular(E)
BY DEF Circular

\* The services without a dependency can be ordered.
LEMMA NoEdges == ~Circular({})
<1> DEFINE rank == [s \in AllServices |-> 1]
<1>1. AllServices # {} => Cardinality(AllServices) \in Nat \ {0}
  BY RouteAssumption, FS_CardinalityType, FS_EmptySet
<1>2. rank \in [AllServices -> 1 .. Cardinality(AllServices)]
  BY <1>1
<1> QED
  BY <1>2 DEF Circular

\* In a graph whose services can be ranked a closed walk would pass a service of
\* least rank, and then one of a lower rank.
LEMMA RankedHasNoClosedWalk ==
  ASSUME ~Circular(edges), edges \subseteq AllServices \X AllServices
  PROVE  NoClosedWalk
<1>1. PICK rank \in [AllServices -> 1 .. Cardinality(AllServices)] :
        \A e \in edges : rank[e[2]] < rank[e[1]]
  BY DEF Circular
<1> SUFFICES ASSUME NEW n \in 1 .. Cardinality(AllServices), NEW walk \in [1 .. n -> edges],
                    \A i \in 1 .. n - 1 : walk[i][2] = walk[i + 1][1],
                    walk[n][2] = walk[1][1]
             PROVE  FALSE
  BY DEF NoClosedWalk
<1>2. n \in Nat /\ n >= 1
  BY RouteAssumption, FS_CardinalityType
<1> DEFINE T == {rank[walk[i][1]] : i \in 1 .. n}
<1>3. \A i \in 1 .. n : walk[i] \in edges /\ walk[i][1] \in AllServices
  OBVIOUS
<1>4. T \subseteq Nat /\ T # {}
  <2>1. \A s \in AllServices : rank[s] \in Nat
    BY RouteAssumption, FS_CardinalityType
  <2>2. rank[walk[1][1]] \in T
    BY <1>2
  <2> QED
    BY <1>3, <2>1, <2>2
<1>5. PICK m \in T : \A k \in T : m <= k
  <2> HIDE DEF T
  <2> QED
    BY <1>4, LeastNatural
<1>6. PICK i \in 1 .. n : m = rank[walk[i][1]]
  BY <1>5
<1>7. PICK j \in 1 .. n : walk[i][2] = walk[j][1]
  <2>1. CASE i = n
    BY <1>2, <2>1
  <2>2. CASE i # n
    <3>1. i \in 1 .. n - 1 /\ i + 1 \in 1 .. n
      BY <1>2, <2>2
    <3> QED
      BY <3>1
  <2> QED
    BY <2>1, <2>2
<1>8. rank[walk[j][1]] < rank[walk[i][1]]
  BY <1>1, <1>3, <1>7
<1>9. rank[walk[j][1]] \in T
  OBVIOUS
<1> HIDE DEF T
<1>10. rank[walk[j][1]] \in Nat /\ rank[walk[i][1]] \in Nat /\ rank[walk[i][1]] <= rank[walk[j][1]]
  BY <1>4, <1>5, <1>6, <1>9
<1> QED
  BY <1>8, <1>10

\* A set of pairs that loses some of them, or the services, stays joined and
\* safe to insert into.
LEMMA RemovalIsSafe ==
  ASSUME RouteInv, services' \subseteq services, edges' \subseteq edges,
         edges' \subseteq services' \X services', request' = request
  PROVE  RouteInv'
<1>1. ~Circular(edges)'
  BY FewerEdges DEF RouteInv, Circular
<1>2. InsertIsSafe'
  <2> SUFFICES ASSUME NEW r \in Requests, request[r].pc = "insert",
                      {request[r].edge[1], request[r].edge[2]} \subseteq services'
               PROVE  ~Circular(edges' \cup {request[r].edge})
    BY DEF InsertIsSafe, Circular
  <2>1. ~Circular(edges \cup {request[r].edge})
    BY DEF RouteInv, InsertIsSafe
  <2>2. edges' \cup {request[r].edge} \subseteq edges \cup {request[r].edge}
    OBVIOUS
  <2> QED
    BY <2>1, <2>2, FewerEdges
<1> QED
  BY <1>1, <1>2 DEF RouteInv, Joined

\* The inductive step, one action of the route at a time.
LEMMA RouteStep == OneAtATime /\ RouteInv /\ [RouteNext]_routeVars => RouteInv'
<1> SUFFICES ASSUME OneAtATime, RouteInv, [RouteNext]_routeVars PROVE RouteInv'
  OBVIOUS
<1> USE DEF OneAtATime
<1>1. ASSUME NEW r \in Requests, NEW a \in AllServices, NEW b \in AllServices, AddBegin(r, a, b)
      PROVE  RouteInv'
  <2>1. PICK h \in Handlers : h = [pc |-> "check", edge |-> <<a, b>>]
    BY DEF Handlers
  <2>2. request' = [request EXCEPT ![r] = h] /\ UNCHANGED <<services, edges>>
    BY <1>1, <2>1 DEF AddBegin
  <2>3. request' \in [Requests -> Handlers] /\ \A q \in Requests : request'[q] = h
    BY <2>2 DEF RouteInv
  <2> QED
    BY <2>1, <2>2, <2>3 DEF RouteInv, Joined, InsertIsSafe, Circular
<1>2. ASSUME NEW r \in Requests, AddCheck(r) PROVE RouteInv'
  <2> DEFINE e    == request[r].edge
             seen == edges \cup (IF {e[1], e[2]} \subseteq services THEN {e} ELSE {})
  <2>1. PICK h : h = request'[r]
    OBVIOUS
  <2>2. e \in AllServices \X AllServices /\ request[r] \in Handlers
    BY <1>2 DEF AddCheck, RouteInv
  <2>3. /\ request' = [request EXCEPT ![r] = h] /\ UNCHANGED <<services, edges>>
        /\ h = IF Circular(seen) THEN NoRequest ELSE [request[r] EXCEPT !.pc = "insert"]
    BY <1>2, <2>1 DEF AddCheck, RouteInv
  <2>4. h \in Handlers
    BY <2>2, <2>3 DEF Handlers, NoRequest
  <2>5. request' \in [Requests -> Handlers] /\ \A q \in Requests : request'[q] = h
    BY <2>3, <2>4 DEF RouteInv
  <2>6. h.pc # "idle" => h.pc = "insert" /\ h.edge = e /\ ~Circular(seen)
    BY <2>2, <2>3 DEF Handlers, NoRequest
  <2>7. InsertIsSafe'
    <3> SUFFICES ASSUME h.pc = "insert", {e[1], e[2]} \subseteq services
                 PROVE  ~Circular(edges \cup {e})
      BY <2>3, <2>5, <2>6 DEF InsertIsSafe, Circular
    <3> QED
      BY <2>6
  <2> QED
    BY <2>2, <2>3, <2>5, <2>6, <2>7 DEF RouteInv, Joined, Circular
<1>3. ASSUME NEW r \in Requests, AddInsert(r) PROVE RouteInv'
  <2> DEFINE e == request[r].edge
  <2>1. /\ request' = [request EXCEPT ![r] = NoRequest] /\ services' = services
        /\ edges' = IF {e[1], e[2]} \subseteq services THEN edges \cup {e} ELSE edges
        /\ e \in AllServices \X AllServices
    BY <1>3 DEF AddInsert, RouteInv
  <2>2. request' \in [Requests -> Handlers] /\ \A q \in Requests : request'[q] = NoRequest
    BY <2>1 DEF RouteInv, Handlers, NoRequest
  <2>3. ~Circular(edges') /\ edges' \subseteq services \X services
    <3>1. {e[1], e[2]} \subseteq services => ~Circular(edges \cup {e})
      BY <1>3 DEF AddInsert, RouteInv, InsertIsSafe
    <3>2. {e[1], e[2]} \subseteq services => e \in services \X services
      BY <2>1
    <3> QED
      BY <2>1, <3>1, <3>2 DEF RouteInv, Joined
  <2>4. InsertIsSafe' /\ \A q \in Requests : request'[q].pc = "idle"
    BY <2>2 DEF InsertIsSafe, NoRequest
  <2>5. (~Circular(edges))'
    BY <2>3 DEF Circular
  <2> QED
    BY <2>1, <2>2, <2>3, <2>4, <2>5 DEF RouteInv, Joined
<1>4. ASSUME NEW e \in edges, DeleteDependency(e) PROVE RouteInv'
  BY <1>4, RemovalIsSafe DEF DeleteDependency, RouteInv, Joined
<1>5. ASSUME NEW s \in AllServices, DeleteService(s) PROVE RouteInv'
  <2>1. \A e \in edges' : e \in edges /\ e \in services \X services /\ s \notin {e[1], e[2]}
    BY <1>5 DEF DeleteService, RouteInv, Joined
  <2>2. edges' \subseteq services' \X services'
    BY <1>5, <2>1 DEF DeleteService
  <2> QED
    BY <1>5, <2>1, <2>2, RemovalIsSafe DEF DeleteService
<1>6. CASE UNCHANGED routeVars
  BY <1>6, RemovalIsSafe DEF routeVars, RouteInv, Joined
<1> QED
  BY <1>1, <1>2, <1>3, <1>4, <1>5, <1>6 DEF RouteNext

\* Requests one after the other, whatever is deleted between the check of a
\* request and its insert: the stored graph joins services that exist and has
\* no cycle, for any number of services.  With two requests at once the route
\* lets a cycle through, so the hypothesis cannot be dropped.
THEOREM StoredGraphStaysSound ==
  ASSUME OneAtATime PROVE RouteSpec => []StoredGraphSound
<1>1. RouteInit => RouteInv
  BY NoEdges DEF RouteInit, RouteInv, Joined, InsertIsSafe, Handlers, NoRequest
<1>2. RouteInv => StoredGraphSound
  <2> SUFFICES ASSUME RouteInv PROVE StoredGraphSound
    OBVIOUS
  <2>1. edges \subseteq AllServices \X AllServices
    BY DEF RouteInv, Joined
  <2> QED
    BY <2>1, RankedHasNoClosedWalk DEF RouteInv, StoredGraphSound
<1>3. RouteInv /\ [RouteNext]_routeVars => RouteInv'
  BY RouteStep
<1> QED
  BY <1>1, <1>2, <1>3, PTL DEF RouteSpec
=============================================================================
