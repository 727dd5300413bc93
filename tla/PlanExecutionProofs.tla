------------------------- MODULE PlanExecutionProofs -------------------------
(***************************************************************************)
(* Proofs about PlanExecution for every number of steps, deployments and   *)
(* requests.                                                               *)
(***************************************************************************)
EXTENDS PlanExecution, TLAPS

\* The hypothesis of the safety theorems: the plan is executed by one request.
\* (Without it ExecutedOnce, and with it the theorems below, fail: see the run
\* plan_executed_once.)
SoleExecutor == \A e, f \in Executors : e = f

\* An execution that may still deploy forward.
Active(e) == Running(e) /\ mode[e] = "forward"

\* A request in rollbackPlan, from its first read to its last write.
Redeploying(p) == mode[p] # "forward" /\ pc[p] \in DeployPcs \union {"record"}
InRollback(p) == pc[p] \in {"rbread", "rbnext"} \/ Redeploying(p)

\* No execution deploys forward any more, and none can begin.
ForwardOver == plan # "pending" /\ \A e \in Executors : ~Active(e)

\* Where a request is determines whether it goes forward, and a plan that has
\* left the forward phase does not come back to it.
Phases ==
  /\ \A e \in Executors :
       /\ pc[e] \in {"idle", "start", "next", "health", "check", "fail"} => mode[e] = "forward"
       /\ pc[e] \notin {"idle", "start", "done", "dead"} => plan # "pending"
  /\ \A r \in Rollbackers \union Cancellers : mode[r] # "forward"
  /\ plan \in {"completed", "failed", "rolled_back"} => ForwardOver
  /\ \A p \in Procs : InRollback(p) => ForwardOver
  /\ \A i \in Steps : step[i] = "rolled_back" => ForwardOver

\* What rollbackPlan still has to do, or has tried in vain, covers every step
\* that is still deployed.
Coverage ==
  /\ plan = "rolled_back" => ToRollback \subseteq rbFailed
  /\ \A p \in Procs : pc[p] = "rbnext" => ToRollback \subseteq todo[p] \union rbFailed
  /\ \A p \in Procs : Redeploying(p) =>
       /\ ToRollback \subseteq todo[p] \union rbFailed \union {idx[p]}
       /\ \A j \in todo[p] : j < idx[p]

\* The steps an execution has behind it have succeeded.
Gate ==
  \A e \in Executors :
    /\ pc[e] = "idle" => idx[e] = 1
    /\ Active(e) =>
         /\ pc[e] = "start" => idx[e] = 1
         /\ \A j \in Steps : j < idx[e] /\ SdOf[j] \in snap[e] => step[j] = "success"
         /\ pc[e] = "check" => step[idx[e]] \in {"success", "failed"}

\* Where a deployment stands on its way back to previousTag.
TagBack(d) == svcTag[ServiceOf[d]] = "previous"
FileBack(d) == TagBack(d) /\ file[d] = "previous"
AllBack(d) == FileBack(d) /\ live[d] = "previous"

\* The progress of every rollback on a managed host, and of every step it recorded.
Restored ==
  /\ \A p \in Procs :
       mode[p] # "forward" /\ pc[p] \in DeployPcs \union {"record"} /\ Kind[SdOf[idx[p]]] = "managed" =>
         /\ pc[p] = "artifacts" /\ readTag[p] = "previous" => TagBack(SdOf[idx[p]])
         /\ pc[p] = "generate" => TagBack(SdOf[idx[p]])
         /\ pc[p] = "write" => TagBack(SdOf[idx[p]]) /\ readTag[p] = "previous"
         /\ pc[p] = "up" => FileBack(SdOf[idx[p]])
         /\ pc[p] = "verify" => AllBack(SdOf[idx[p]])
         /\ pc[p] = "record" /\ result[p] = "success" => AllBack(SdOf[idx[p]])
  /\ \A i \in Steps : step[i] = "rolled_back" /\ Kind[SdOf[i]] = "managed" => AllBack(SdOf[i])

\* A request has emitted its terminal webhook exactly when it has returned.
Events ==
  \A p \in Procs :
    /\ terminal[p] <= 1
    /\ pc[p] \notin {"done", "dead"} => terminal[p] = 0
    /\ pc[p] = "done" /\ p \notin Cancellers => terminal[p] = 1

\* A step that decides which image a container has.
ManagedDeploy(i) == ActionOf[i] = "deploy" /\ Kind[SdOf[i]] = "managed"

\* How far an execution has brought the container of its step to the target
\* tag, what it has behind it, and what it leaves when the plan is completed.
Behind(e) ==
  Active(e) => \A j \in Steps :
    j < idx[e] /\ SdOf[j] \in snap[e] /\ ManagedDeploy(j) => live[SdOf[j]] = "target"

Progress(e) ==
  /\ pc[e] # "idle" => attached \subseteq snap[e]
  /\ mode[e] = "forward" /\ pc[e] \in DeployPcs => ActionOf[idx[e]] = "deploy"
  /\ mode[e] = "forward" /\ pc[e] \in StepPcs /\ ManagedDeploy(idx[e]) =>
       /\ pc[e] = "artifacts" /\ readTag[e] = "target" => svcTag[ServiceOf[SdOf[idx[e]]]] = "target"
       /\ pc[e] = "generate" => svcTag[ServiceOf[SdOf[idx[e]]]] = "target"
       /\ pc[e] = "write" => readTag[e] = "target"
       /\ pc[e] = "up" => file[SdOf[idx[e]]] = "target"
       /\ pc[e] = "verify" => live[SdOf[idx[e]]] = "target"
       /\ pc[e] = "record" /\ result[e] = "success" => live[SdOf[idx[e]]] = "target"
       /\ pc[e] = "check" /\ step[idx[e]] = "success" => live[SdOf[idx[e]]] = "target"
       /\ pc[e] # "health"

Deployed ==
  /\ \A e \in Executors : Behind(e) /\ Progress(e)
  /\ plan = "completed" => \A e \in Executors : ~Running(e)
  /\ CompletedMeansDeployed

\* A terminal status without its webhook is that of a catch block whose
\* rollback is under way, or was cut off by a second fault or a crash.
Notified ==
  /\ \A p \in Procs :
       /\ pc[p] = "catch" => faults >= 1
       /\ mode[p] = "catch" => pc[p] \in DeployPcs \union {"rbread", "rbnext", "record", "done", "dead"}
       /\ mode[p] = "catch" => faults >= 1
  /\ plan \in {"completed", "failed", "rolled_back"} =>
       \/ announced = plan
       \/ \E p \in Procs : mode[p] = "catch" /\ (Running(p) \/ faults >= 2 \/ crashes >= 1)

\* TypeOK is inductive: every action of executePlan, deployService,
\* rollbackPlan and cancelPlan keeps the rows and the request state in range.
LEMMA TypeStep == TypeOK /\ [Next]_vars => TypeOK'
<1> USE PlanAssumption, ProcsAssumption, BoundsAssumption DEF Steps, Procs
<1> SUFFICES ASSUME TypeOK, [Next]_vars PROVE TypeOK'
  OBVIOUS
<1> USE DEF TypeOK, dbVars, hostVars, procVars, histVars, envVars, Goto, Returned, PlanStatus, StepStatus,
            Tags, Pcs, DeployPcs, StepPcs
<1>1. ASSUME NEW e \in Executors, ExecuteLoad(e) PROVE TypeOK'
  BY <1>1 DEF ExecuteLoad
<1>2. ASSUME NEW e \in Executors, ExecuteStart(e) PROVE TypeOK'
  BY <1>2 DEF ExecuteStart
<1>3. ASSUME NEW e \in Executors, SkipDetached(e) PROVE TypeOK'
  BY <1>3 DEF SkipDetached
<1>4. ASSUME NEW e \in Executors, BeginStep(e) PROVE TypeOK'
  BY <1>4 DEF BeginStep
<1>5. ASSUME NEW e \in Executors, HealthCheck(e) PROVE TypeOK'
  BY <1>5 DEF HealthCheck
<1>6. ASSUME NEW e \in Executors, RecordStep(e) PROVE TypeOK'
  BY <1>6 DEF RecordStep
<1>7. ASSUME NEW e \in Executors, RecordRetry(e) PROVE TypeOK'
  BY <1>7 DEF RecordRetry
<1>8. ASSUME NEW e \in Executors, StepPassed(e) PROVE TypeOK'
  BY <1>8 DEF StepPassed
<1>9. ASSUME NEW e \in Executors, StepFailedRollback(e) PROVE TypeOK'
  BY <1>9 DEF StepFailedRollback
<1>10. ASSUME NEW e \in Executors, StepFailedHalt(e) PROVE TypeOK'
  BY <1>10 DEF StepFailedHalt
<1>11. ASSUME NEW e \in Executors, FailPlan(e) PROVE TypeOK'
  BY <1>11 DEF FailPlan, Emit
<1>12. ASSUME NEW e \in Executors, CompletePlan(e) PROVE TypeOK'
  BY <1>12 DEF CompletePlan, Emit
<1>13. ASSUME NEW e \in Executors, CatchRollback(e) PROVE TypeOK'
  BY <1>13 DEF CatchRollback
<1>14. ASSUME NEW e \in Executors, CatchFail(e) PROVE TypeOK'
  BY <1>14 DEF CatchFail, Emit
<1>15. ASSUME NEW p \in Executors \union Rollbackers, DeployLoad(p) PROVE TypeOK'
  BY <1>15 DEF DeployLoad
<1>16. ASSUME NEW p \in Executors \union Rollbackers, DeployGone(p) PROVE TypeOK'
  BY <1>16 DEF DeployGone
<1>17. ASSUME NEW p \in Executors \union Rollbackers, DeployTag(p) PROVE TypeOK'
  <2>1. idx[p] \in Steps /\ TagFor(p) \in Tags
    BY <1>17 DEF DeployTag, TagFor
  <2>2. svcTag' \in [Services -> Tags]
    BY <1>17, <2>1 DEF DeployTag
  <2> QED
    BY <1>17, <2>1, <2>2 DEF DeployTag
<1>18. ASSUME NEW p \in Executors \union Rollbackers, DeployGenerate(p) PROVE TypeOK'
  BY <1>18 DEF DeployGenerate
<1>19. ASSUME NEW p \in Executors \union Rollbackers, DeployWrite(p) PROVE TypeOK'
  BY <1>19 DEF DeployWrite
<1>20. ASSUME NEW p \in Executors \union Rollbackers, DeployUp(p) PROVE TypeOK'
  BY <1>20 DEF DeployUp
<1>21. ASSUME NEW p \in Executors \union Rollbackers, DeploySucceed(p) PROVE TypeOK'
  BY <1>21 DEF DeploySucceed
<1>22. ASSUME NEW p \in Executors \union Rollbackers, DeployFail(p) PROVE TypeOK'
  BY <1>22 DEF DeployFail
<1>23. ASSUME NEW r \in Rollbackers, RollbackRequest(r) PROVE TypeOK'
  BY <1>23 DEF RollbackRequest
<1>24. ASSUME NEW p \in Executors \union Rollbackers, RollbackLoad(p) PROVE TypeOK'
  BY <1>24 DEF RollbackLoad, ToRollback
<1>25. ASSUME NEW p \in Executors \union Rollbackers, RollbackNext(p) PROVE TypeOK'
  BY <1>25 DEF RollbackNext
<1>26. ASSUME NEW p \in Executors \union Rollbackers, RollbackRecord(p) PROVE TypeOK'
  BY <1>26 DEF RollbackRecord
<1>27. ASSUME NEW p \in Executors \union Rollbackers, RollbackStepFailed(p) PROVE TypeOK'
  <2>1. rbFailed' \subseteq Steps
    <3>1. idx[p] \in Steps /\ rbFailed' = rbFailed \union {idx[p]}
      BY <1>27 DEF RollbackStepFailed
    <3> QED
      BY <3>1
  <2>2. Goto(p, "rbnext") /\ Returned(p)
    BY <1>27 DEF RollbackStepFailed
  <2>3. UNCHANGED <<dbVars, hostVars, mode, idx, snap, todo, readTag,
                    started, terminal, announced, envVars>>
    BY <1>27 DEF RollbackStepFailed
  <2> QED
    BY <2>1, <2>2, <2>3
<1>28. ASSUME NEW p \in Executors \union Rollbackers, RollbackRecordFault(p) PROVE TypeOK'
  <2>1. rbFailed' \subseteq Steps
    <3>1. idx[p] \in Steps /\ rbFailed' = rbFailed \union {idx[p]}
      BY <1>28 DEF RollbackRecordFault
    <3> QED
      BY <3>1
  <2>2. Goto(p, "rbnext") /\ Returned(p) /\ faults' \in 0..MaxFaults
    BY <1>28 DEF RollbackRecordFault
  <2>3. UNCHANGED <<dbVars, hostVars, mode, idx, snap, todo, readTag,
                    started, terminal, announced, crashes>>
    BY <1>28 DEF RollbackRecordFault
  <2> QED
    BY <2>1, <2>2, <2>3
<1>29. ASSUME NEW p \in Executors \union Rollbackers, RollbackFinish(p) PROVE TypeOK'
  BY <1>29 DEF RollbackFinish, Emit
<1>30. ASSUME NEW c \in Cancellers, CancelLoad(c) PROVE TypeOK'
  BY <1>30 DEF CancelLoad
<1>31. ASSUME NEW c \in Cancellers, CancelSkip(c) PROVE TypeOK'
  BY <1>31 DEF CancelSkip
<1>32. ASSUME NEW c \in Cancellers, CancelWrite(c) PROVE TypeOK'
  BY <1>32 DEF CancelWrite
<1>33. ASSUME NEW p \in Procs, Fault(p) PROVE TypeOK'
  BY <1>33 DEF Fault
<1>34. ASSUME NEW d \in Deployments, DeleteDeployment(d) PROVE TypeOK'
  BY <1>34 DEF DeleteDeployment
<1>35. ASSUME Crash PROVE TypeOK'
  BY <1>35 DEF Crash
<1>36. ASSUME UNCHANGED vars PROVE TypeOK'
  BY <1>36 DEF vars
<1> QED
  BY <1>1, <1>2, <1>3, <1>4, <1>5, <1>6, <1>7, <1>8, <1>9, <1>10, <1>11, <1>12, <1>13, <1>14, <1>15, <1>16,
     <1>17, <1>18, <1>19, <1>20, <1>21, <1>22, <1>23, <1>24, <1>25, <1>26, <1>27, <1>28, <1>29, <1>30, <1>31, <1>32, <1>33, <1>34, <1>35, <1>36
  DEF Next, ExecutePlan, DeployService, RollbackPlan, CancelPlan, ManualRollback

\* The rows and the request state are always in range.
THEOREM TypeCorrect == Spec => []TypeOK
<1>1. Init => TypeOK
  BY PlanAssumption, BoundsAssumption
  DEF Init, TypeOK, Steps, Procs, PlanStatus, StepStatus, Tags, Pcs, DeployPcs, StepPcs
<1> QED
  BY <1>1, TypeStep, PTL DEF Spec

\* Phases is inductive: an execution leaves the forward phase for good, and
\* the plan never becomes pending again, so only a second execution could
\* deploy forward once a rollback has begun.
LEMMA PhasesStep ==
  ASSUME SoleExecutor PROVE TypeOK /\ Phases /\ [Next]_vars => Phases'
<1> USE PlanAssumption, ProcsAssumption, SoleExecutor DEF Procs, SoleExecutor
<1> SUFFICES ASSUME TypeOK /\ Phases, [Next]_vars PROVE Phases'
  OBVIOUS
<1> USE DEF TypeOK, Phases, dbVars, hostVars, procVars, histVars, envVars, Goto, Returned,
            Running, Active, Redeploying, InRollback, ForwardOver, DeployPcs, Pcs, StepPcs
<1>1. ASSUME NEW e \in Executors, ExecuteLoad(e) PROVE Phases'
  BY <1>1 DEF ExecuteLoad
<1>2. ASSUME NEW e \in Executors, ExecuteStart(e) PROVE Phases'
  BY <1>2 DEF ExecuteStart
<1>3. ASSUME NEW e \in Executors, SkipDetached(e) PROVE Phases'
  BY <1>3 DEF SkipDetached
<1>4. ASSUME NEW e \in Executors, BeginStep(e) PROVE Phases'
  BY <1>4 DEF BeginStep
<1>5. ASSUME NEW e \in Executors, HealthCheck(e) PROVE Phases'
  BY <1>5 DEF HealthCheck
<1>6. ASSUME NEW e \in Executors, RecordStep(e) PROVE Phases'
  BY <1>6 DEF RecordStep
<1>7. ASSUME NEW e \in Executors, RecordRetry(e) PROVE Phases'
  BY <1>7 DEF RecordRetry
<1>8. ASSUME NEW e \in Executors, StepPassed(e) PROVE Phases'
  BY <1>8 DEF StepPassed
<1>9. ASSUME NEW e \in Executors, StepFailedRollback(e) PROVE Phases'
  BY <1>9 DEF StepFailedRollback
<1>10. ASSUME NEW e \in Executors, StepFailedHalt(e) PROVE Phases'
  BY <1>10 DEF StepFailedHalt
<1>11. ASSUME NEW e \in Executors, FailPlan(e) PROVE Phases'
  BY <1>11 DEF FailPlan, Emit
<1>12. ASSUME NEW e \in Executors, CompletePlan(e) PROVE Phases'
  BY <1>12 DEF CompletePlan, Emit
<1>13. ASSUME NEW e \in Executors, CatchRollback(e) PROVE Phases'
  BY <1>13 DEF CatchRollback
<1>14. ASSUME NEW e \in Executors, CatchFail(e) PROVE Phases'
  BY <1>14 DEF CatchFail, Emit
<1>15. ASSUME NEW p \in Executors \union Rollbackers, DeployLoad(p) PROVE Phases'
  BY <1>15 DEF DeployLoad
<1>16. ASSUME NEW p \in Executors \union Rollbackers, DeployGone(p) PROVE Phases'
  BY <1>16 DEF DeployGone
<1>17. ASSUME NEW p \in Executors \union Rollbackers, DeployTag(p) PROVE Phases'
  BY <1>17 DEF DeployTag
<1>18. ASSUME NEW p \in Executors \union Rollbackers, DeployGenerate(p) PROVE Phases'
  BY <1>18 DEF DeployGenerate
<1>19. ASSUME NEW p \in Executors \union Rollbackers, DeployWrite(p) PROVE Phases'
  BY <1>19 DEF DeployWrite
<1>20. ASSUME NEW p \in Executors \union Rollbackers, DeployUp(p) PROVE Phases'
  BY <1>20 DEF DeployUp
<1>21. ASSUME NEW p \in Executors \union Rollbackers, DeploySucceed(p) PROVE Phases'
  BY <1>21 DEF DeploySucceed
<1>22. ASSUME NEW p \in Executors \union Rollbackers, DeployFail(p) PROVE Phases'
  BY <1>22 DEF DeployFail
<1>23. ASSUME NEW r \in Rollbackers, RollbackRequest(r) PROVE Phases'
  BY <1>23 DEF RollbackRequest
<1>24. ASSUME NEW p \in Executors \union Rollbackers, RollbackLoad(p) PROVE Phases'
  BY <1>24 DEF RollbackLoad
<1>25. ASSUME NEW p \in Executors \union Rollbackers, RollbackNext(p) PROVE Phases'
  BY <1>25 DEF RollbackNext
<1>26. ASSUME NEW p \in Executors \union Rollbackers, RollbackRecord(p) PROVE Phases'
  BY <1>26 DEF RollbackRecord
<1>27. ASSUME NEW p \in Executors \union Rollbackers, RollbackStepFailed(p) PROVE Phases'
  BY <1>27 DEF RollbackStepFailed
<1>28. ASSUME NEW p \in Executors \union Rollbackers, RollbackRecordFault(p) PROVE Phases'
  BY <1>28 DEF RollbackRecordFault
<1>29. ASSUME NEW p \in Executors \union Rollbackers, RollbackFinish(p) PROVE Phases'
  BY <1>29 DEF RollbackFinish, Emit
<1>30. ASSUME NEW c \in Cancellers, CancelLoad(c) PROVE Phases'
  BY <1>30 DEF CancelLoad
<1>31. ASSUME NEW c \in Cancellers, CancelSkip(c) PROVE Phases'
  BY <1>31 DEF CancelSkip
<1>32. ASSUME NEW c \in Cancellers, CancelWrite(c) PROVE Phases'
  BY <1>32 DEF CancelWrite
<1>33. ASSUME NEW p \in Procs, Fault(p) PROVE Phases'
  BY <1>33 DEF Fault
<1>34. ASSUME NEW d \in Deployments, DeleteDeployment(d) PROVE Phases'
  BY <1>34 DEF DeleteDeployment
<1>35. ASSUME Crash PROVE Phases'
  BY <1>35 DEF Crash
<1>36. ASSUME UNCHANGED vars PROVE Phases'
  BY <1>36 DEF vars
<1> QED
  BY <1>1, <1>2, <1>3, <1>4, <1>5, <1>6, <1>7, <1>8, <1>9, <1>10, <1>11, <1>12, <1>13, <1>14, <1>15, <1>16,
     <1>17, <1>18, <1>19, <1>20, <1>21, <1>22, <1>23, <1>24, <1>25, <1>26, <1>27, <1>28, <1>29, <1>30, <1>31, <1>32, <1>33, <1>34, <1>35, <1>36
  DEF Next, ExecutePlan, DeployService, RollbackPlan, CancelPlan, ManualRollback

\* Coverage is inductive: a step enters ToRollback only in the forward phase,
\* and leaves a rollback's todo set only for its current step.
LEMMA CoverageStep ==
  ASSUME SoleExecutor PROVE TypeOK /\ Phases /\ Coverage /\ [Next]_vars => Coverage'
<1> USE PlanAssumption, ProcsAssumption, SoleExecutor DEF Procs, SoleExecutor
<1> SUFFICES ASSUME TypeOK /\ Phases /\ Coverage, [Next]_vars PROVE Coverage'
  OBVIOUS
<1> USE DEF TypeOK, Coverage, dbVars, hostVars, procVars, histVars, envVars, Goto, Returned,
            Running, Active, Redeploying, InRollback, ForwardOver, DeployPcs, StepPcs, Phases, ToRollback
<1>1. ASSUME NEW e \in Executors, ExecuteLoad(e) PROVE Coverage'
  BY <1>1 DEF ExecuteLoad
<1>2. ASSUME NEW e \in Executors, ExecuteStart(e) PROVE Coverage'
  BY <1>2 DEF ExecuteStart
<1>3. ASSUME NEW e \in Executors, SkipDetached(e) PROVE Coverage'
  BY <1>3 DEF SkipDetached
<1>4. ASSUME NEW e \in Executors, BeginStep(e) PROVE Coverage'
  BY <1>4 DEF BeginStep
<1>5. ASSUME NEW e \in Executors, HealthCheck(e) PROVE Coverage'
  BY <1>5 DEF HealthCheck
<1>6. ASSUME NEW e \in Executors, RecordStep(e) PROVE Coverage'
  BY <1>6 DEF RecordStep
<1>7. ASSUME NEW e \in Executors, RecordRetry(e) PROVE Coverage'
  BY <1>7 DEF RecordRetry
<1>8. ASSUME NEW e \in Executors, StepPassed(e) PROVE Coverage'
  BY <1>8 DEF StepPassed
<1>9. ASSUME NEW e \in Executors, StepFailedRollback(e) PROVE Coverage'
  BY <1>9 DEF StepFailedRollback
<1>10. ASSUME NEW e \in Executors, StepFailedHalt(e) PROVE Coverage'
  BY <1>10 DEF StepFailedHalt
<1>11. ASSUME NEW e \in Executors, FailPlan(e) PROVE Coverage'
  BY <1>11 DEF FailPlan, Emit
<1>12. ASSUME NEW e \in Executors, CompletePlan(e) PROVE Coverage'
  BY <1>12 DEF CompletePlan, Emit
<1>13. ASSUME NEW e \in Executors, CatchRollback(e) PROVE Coverage'
  BY <1>13 DEF CatchRollback
<1>14. ASSUME NEW e \in Executors, CatchFail(e) PROVE Coverage'
  BY <1>14 DEF CatchFail, Emit
<1>15. ASSUME NEW p \in Executors \union Rollbackers, DeployLoad(p) PROVE Coverage'
  BY <1>15 DEF DeployLoad
<1>16. ASSUME NEW p \in Executors \union Rollbackers, DeployGone(p) PROVE Coverage'
  BY <1>16 DEF DeployGone
<1>17. ASSUME NEW p \in Executors \union Rollbackers, DeployTag(p) PROVE Coverage'
  BY <1>17 DEF DeployTag
<1>18. ASSUME NEW p \in Executors \union Rollbackers, DeployGenerate(p) PROVE Coverage'
  BY <1>18 DEF DeployGenerate
<1>19. ASSUME NEW p \in Executors \union Rollbackers, DeployWrite(p) PROVE Coverage'
  BY <1>19 DEF DeployWrite
<1>20. ASSUME NEW p \in Executors \union Rollbackers, DeployUp(p) PROVE Coverage'
  BY <1>20 DEF DeployUp
<1>21. ASSUME NEW p \in Executors \union Rollbackers, DeploySucceed(p) PROVE Coverage'
  BY <1>21 DEF DeploySucceed
<1>22. ASSUME NEW p \in Executors \union Rollbackers, DeployFail(p) PROVE Coverage'
  BY <1>22 DEF DeployFail
<1>23. ASSUME NEW r \in Rollbackers, RollbackRequest(r) PROVE Coverage'
  BY <1>23 DEF RollbackRequest
<1>24. ASSUME NEW p \in Executors \union Rollbackers, RollbackLoad(p) PROVE Coverage'
  BY <1>24 DEF RollbackLoad
<1>25. ASSUME NEW p \in Executors \union Rollbackers, RollbackNext(p) PROVE Coverage'
  <2>1. PICK i \in todo[p] :
          /\ \A j \in todo[p] : j <= i
          /\ idx' = [idx EXCEPT ![p] = i]
          /\ todo' = [todo EXCEPT ![p] = todo[p] \ {i}]
    BY <1>25 DEF RollbackNext
  <2>2. /\ pc[p] = "rbnext" /\ pc' = [pc EXCEPT ![p] = "load"]
        /\ UNCHANGED <<plan, step, attached, mode, rbFailed>>
    BY <1>25 DEF RollbackNext
  <2>3. todo[p] \subseteq 1..NumSteps /\ i \in Int
    BY DEF Steps
  <2>4. \A j \in todo'[p] : j < idx'[p]
    BY <2>1, <2>3
  <2>5. ToRollback' = ToRollback /\ ToRollback \subseteq todo[p] \union rbFailed
    BY <2>2
  <2>6. ToRollback' \subseteq todo'[p] \union rbFailed' \union {idx'[p]}
    BY <2>1, <2>2, <2>5
  <2>7. \A q \in Procs \ {p} : todo'[q] = todo[q] /\ idx'[q] = idx[q] /\ pc'[q] = pc[q]
    BY <2>1, <2>2
  <2> QED
    BY <2>2, <2>4, <2>5, <2>6, <2>7
<1>26. ASSUME NEW p \in Executors \union Rollbackers, RollbackRecord(p) PROVE Coverage'
  BY <1>26 DEF RollbackRecord
<1>27. ASSUME NEW p \in Executors \union Rollbackers, RollbackStepFailed(p) PROVE Coverage'
  BY <1>27 DEF RollbackStepFailed
<1>28. ASSUME NEW p \in Executors \union Rollbackers, RollbackRecordFault(p) PROVE Coverage'
  BY <1>28 DEF RollbackRecordFault
<1>29. ASSUME NEW p \in Executors \union Rollbackers, RollbackFinish(p) PROVE Coverage'
  BY <1>29 DEF RollbackFinish, Emit
<1>30. ASSUME NEW c \in Cancellers, CancelLoad(c) PROVE Coverage'
  BY <1>30 DEF CancelLoad
<1>31. ASSUME NEW c \in Cancellers, CancelSkip(c) PROVE Coverage'
  BY <1>31 DEF CancelSkip
<1>32. ASSUME NEW c \in Cancellers, CancelWrite(c) PROVE Coverage'
  BY <1>32 DEF CancelWrite
<1>33. ASSUME NEW p \in Procs, Fault(p) PROVE Coverage'
  BY <1>33 DEF Fault
<1>34. ASSUME NEW d \in Deployments, DeleteDeployment(d) PROVE Coverage'
  BY <1>34 DEF DeleteDeployment
<1>35. ASSUME Crash PROVE Coverage'
  BY <1>35 DEF Crash
<1>36. ASSUME UNCHANGED vars PROVE Coverage'
  BY <1>36 DEF vars
<1> QED
  BY <1>1, <1>2, <1>3, <1>4, <1>5, <1>6, <1>7, <1>8, <1>9, <1>10, <1>11, <1>12, <1>13, <1>14, <1>15, <1>16,
     <1>17, <1>18, <1>19, <1>20, <1>21, <1>22, <1>23, <1>24, <1>25, <1>26, <1>27, <1>28, <1>29, <1>30, <1>31, <1>32, <1>33, <1>34, <1>35, <1>36
  DEF Next, ExecutePlan, DeployService, RollbackPlan, CancelPlan, ManualRollback

\* Gate is inductive: the loop of executePlan passes a step only when its row
\* says success, or when it had no deployment.
LEMMA GateStep ==
  ASSUME SoleExecutor PROVE TypeOK /\ Phases /\ Gate /\ [Next]_vars => Gate'
<1> USE PlanAssumption, ProcsAssumption, SoleExecutor DEF Procs, SoleExecutor
<1> SUFFICES ASSUME TypeOK /\ Phases /\ Gate, [Next]_vars PROVE Gate'
  OBVIOUS
<1> USE DEF TypeOK, Gate, dbVars, hostVars, procVars, histVars, envVars, Goto, Returned,
            Running, Active, Redeploying, InRollback, ForwardOver, DeployPcs, StepPcs, Phases
<1>1. ASSUME NEW e \in Executors, ExecuteLoad(e) PROVE Gate'
  BY <1>1 DEF ExecuteLoad, Steps
<1>2. ASSUME NEW e \in Executors, ExecuteStart(e) PROVE Gate'
  BY <1>2 DEF ExecuteStart
<1>3. ASSUME NEW e \in Executors, SkipDetached(e) PROVE Gate'
  <2>1. idx[e] \in 1..NumSteps /\ SdOf[idx[e]] \notin snap[e]
    BY <1>3 DEF SkipDetached
  <2>2. \A j \in Steps : j < idx[e] + 1 => j < idx[e] \/ j = idx[e]
    BY <2>1 DEF Steps
  <2> QED
    BY <1>3, <2>1, <2>2 DEF SkipDetached
<1>4. ASSUME NEW e \in Executors, BeginStep(e) PROVE Gate'
  BY <1>4 DEF BeginStep
<1>5. ASSUME NEW e \in Executors, HealthCheck(e) PROVE Gate'
  BY <1>5 DEF HealthCheck
<1>6. ASSUME NEW e \in Executors, RecordStep(e) PROVE Gate'
  BY <1>6 DEF RecordStep
<1>7. ASSUME NEW e \in Executors, RecordRetry(e) PROVE Gate'
  BY <1>7 DEF RecordRetry
<1>8. ASSUME NEW e \in Executors, StepPassed(e) PROVE Gate'
  <2>1. idx[e] \in 1..NumSteps /\ step[idx[e]] = "success"
    BY <1>8 DEF StepPassed, Steps
  <2>2. \A j \in Steps : j < idx[e] + 1 => j < idx[e] \/ j = idx[e]
    BY <2>1 DEF Steps
  <2> QED
    BY <1>8, <2>1, <2>2 DEF StepPassed
<1>9. ASSUME NEW e \in Executors, StepFailedRollback(e) PROVE Gate'
  BY <1>9 DEF StepFailedRollback
<1>10. ASSUME NEW e \in Executors, StepFailedHalt(e) PROVE Gate'
  BY <1>10 DEF StepFailedHalt
<1>11. ASSUME NEW e \in Executors, FailPlan(e) PROVE Gate'
  BY <1>11 DEF FailPlan, Emit
<1>12. ASSUME NEW e \in Executors, CompletePlan(e) PROVE Gate'
  BY <1>12 DEF CompletePlan, Emit
<1>13. ASSUME NEW e \in Executors, CatchRollback(e) PROVE Gate'
  BY <1>13 DEF CatchRollback
<1>14. ASSUME NEW e \in Executors, CatchFail(e) PROVE Gate'
  BY <1>14 DEF CatchFail, Emit
<1>15. ASSUME NEW p \in Executors \union Rollbackers, DeployLoad(p) PROVE Gate'
  BY <1>15 DEF DeployLoad
<1>16. ASSUME NEW p \in Executors \union Rollbackers, DeployGone(p) PROVE Gate'
  BY <1>16 DEF DeployGone
<1>17. ASSUME NEW p \in Executors \union Rollbackers, DeployTag(p) PROVE Gate'
  BY <1>17 DEF DeployTag
<1>18. ASSUME NEW p \in Executors \union Rollbackers, DeployGenerate(p) PROVE Gate'
  BY <1>18 DEF DeployGenerate
<1>19. ASSUME NEW p \in Executors \union Rollbackers, DeployWrite(p) PROVE Gate'
  BY <1>19 DEF DeployWrite
<1>20. ASSUME NEW p \in Executors \union Rollbackers, DeployUp(p) PROVE Gate'
  BY <1>20 DEF DeployUp
<1>21. ASSUME NEW p \in Executors \union Rollbackers, DeploySucceed(p) PROVE Gate'
  BY <1>21 DEF DeploySucceed
<1>22. ASSUME NEW p \in Executors \union Rollbackers, DeployFail(p) PROVE Gate'
  BY <1>22 DEF DeployFail
<1>23. ASSUME NEW r \in Rollbackers, RollbackRequest(r) PROVE Gate'
  BY <1>23 DEF RollbackRequest
<1>24. ASSUME NEW p \in Executors \union Rollbackers, RollbackLoad(p) PROVE Gate'
  BY <1>24 DEF RollbackLoad
<1>25. ASSUME NEW p \in Executors \union Rollbackers, RollbackNext(p) PROVE Gate'
  BY <1>25 DEF RollbackNext
<1>26. ASSUME NEW p \in Executors \union Rollbackers, RollbackRecord(p) PROVE Gate'
  BY <1>26 DEF RollbackRecord
<1>27. ASSUME NEW p \in Executors \union Rollbackers, RollbackStepFailed(p) PROVE Gate'
  BY <1>27 DEF RollbackStepFailed
<1>28. ASSUME NEW p \in Executors \union Rollbackers, RollbackRecordFault(p) PROVE Gate'
  BY <1>28 DEF RollbackRecordFault
<1>29. ASSUME NEW p \in Executors \union Rollbackers, RollbackFinish(p) PROVE Gate'
  BY <1>29 DEF RollbackFinish, Emit
<1>30. ASSUME NEW c \in Cancellers, CancelLoad(c) PROVE Gate'
  BY <1>30 DEF CancelLoad
<1>31. ASSUME NEW c \in Cancellers, CancelSkip(c) PROVE Gate'
  BY <1>31 DEF CancelSkip
<1>32. ASSUME NEW c \in Cancellers, CancelWrite(c) PROVE Gate'
  BY <1>32 DEF CancelWrite
<1>33. ASSUME NEW p \in Procs, Fault(p) PROVE Gate'
  BY <1>33 DEF Fault
<1>34. ASSUME NEW d \in Deployments, DeleteDeployment(d) PROVE Gate'
  BY <1>34 DEF DeleteDeployment
<1>35. ASSUME Crash PROVE Gate'
  BY <1>35 DEF Crash
<1>36. ASSUME UNCHANGED vars PROVE Gate'
  BY <1>36 DEF vars
<1> QED
  BY <1>1, <1>2, <1>3, <1>4, <1>5, <1>6, <1>7, <1>8, <1>9, <1>10, <1>11, <1>12, <1>13, <1>14, <1>15, <1>16,
     <1>17, <1>18, <1>19, <1>20, <1>21, <1>22, <1>23, <1>24, <1>25, <1>26, <1>27, <1>28, <1>29, <1>30, <1>31, <1>32, <1>33, <1>34, <1>35, <1>36
  DEF Next, ExecutePlan, DeployService, RollbackPlan, CancelPlan, ManualRollback

\* Restored is inductive: once the forward phase is over nobody writes the
\* target tag any more, so a stale read of Service.imageTag is harmless.
LEMMA RestoredStep ==
  ASSUME SoleExecutor PROVE TypeOK /\ Phases /\ Restored /\ [Next]_vars => Restored'
<1> USE PlanAssumption, ProcsAssumption, SoleExecutor DEF Procs, SoleExecutor
<1> SUFFICES ASSUME TypeOK /\ Phases /\ Restored, [Next]_vars PROVE Restored'
  OBVIOUS
<1> USE DEF TypeOK, Restored, dbVars, hostVars, procVars, histVars, envVars, Goto, Returned,
            Running, Active, Redeploying, InRollback, ForwardOver, DeployPcs, StepPcs, Phases, TagBack, FileBack, AllBack, TagFor, Tags, Kinds
<1>1. ASSUME NEW e \in Executors, ExecuteLoad(e) PROVE Restored'
  BY <1>1 DEF ExecuteLoad
<1>2. ASSUME NEW e \in Executors, ExecuteStart(e) PROVE Restored'
  BY <1>2 DEF ExecuteStart
<1>3. ASSUME NEW e \in Executors, SkipDetached(e) PROVE Restored'
  BY <1>3 DEF SkipDetached
<1>4. ASSUME NEW e \in Executors, BeginStep(e) PROVE Restored'
  BY <1>4 DEF BeginStep
<1>5. ASSUME NEW e \in Executors, HealthCheck(e) PROVE Restored'
  BY <1>5 DEF HealthCheck
<1>6. ASSUME NEW e \in Executors, RecordStep(e) PROVE Restored'
  BY <1>6 DEF RecordStep
<1>7. ASSUME NEW e \in Executors, RecordRetry(e) PROVE Restored'
  BY <1>7 DEF RecordRetry
<1>8. ASSUME NEW e \in Executors, StepPassed(e) PROVE Restored'
  BY <1>8 DEF StepPassed
<1>9. ASSUME NEW e \in Executors, StepFailedRollback(e) PROVE Restored'
  BY <1>9 DEF StepFailedRollback
<1>10. ASSUME NEW e \in Executors, StepFailedHalt(e) PROVE Restored'
  BY <1>10 DEF StepFailedHalt
<1>11. ASSUME NEW e \in Executors, FailPlan(e) PROVE Restored'
  BY <1>11 DEF FailPlan, Emit
<1>12. ASSUME NEW e \in Executors, CompletePlan(e) PROVE Restored'
  BY <1>12 DEF CompletePlan, Emit
<1>13. ASSUME NEW e \in Executors, CatchRollback(e) PROVE Restored'
  BY <1>13 DEF CatchRollback
<1>14. ASSUME NEW e \in Executors, CatchFail(e) PROVE Restored'
  BY <1>14 DEF CatchFail, Emit
<1>15. ASSUME NEW p \in Executors \union Rollbackers, DeployLoad(p) PROVE Restored'
  BY <1>15 DEF DeployLoad
<1>16. ASSUME NEW p \in Executors \union Rollbackers, DeployGone(p) PROVE Restored'
  BY <1>16 DEF DeployGone
<1>17. ASSUME NEW p \in Executors \union Rollbackers, DeployTag(p) PROVE Restored'
  BY <1>17 DEF DeployTag
<1>18. ASSUME NEW p \in Executors \union Rollbackers, DeployGenerate(p) PROVE Restored'
  BY <1>18 DEF DeployGenerate
<1>19. ASSUME NEW p \in Executors \union Rollbackers, DeployWrite(p) PROVE Restored'
  BY <1>19 DEF DeployWrite
<1>20. ASSUME NEW p \in Executors \union Rollbackers, DeployUp(p) PROVE Restored'
  BY <1>20 DEF DeployUp
<1>21. ASSUME NEW p \in Executors \union Rollbackers, DeploySucceed(p) PROVE Restored'
  BY <1>21 DEF DeploySucceed
<1>22. ASSUME NEW p \in Executors \union Rollbackers, DeployFail(p) PROVE Restored'
  BY <1>22 DEF DeployFail
<1>23. ASSUME NEW r \in Rollbackers, RollbackRequest(r) PROVE Restored'
  BY <1>23 DEF RollbackRequest
<1>24. ASSUME NEW p \in Executors \union Rollbackers, RollbackLoad(p) PROVE Restored'
  BY <1>24 DEF RollbackLoad
<1>25. ASSUME NEW p \in Executors \union Rollbackers, RollbackNext(p) PROVE Restored'
  BY <1>25 DEF RollbackNext
<1>26. ASSUME NEW p \in Executors \union Rollbackers, RollbackRecord(p) PROVE Restored'
  BY <1>26 DEF RollbackRecord
<1>27. ASSUME NEW p \in Executors \union Rollbackers, RollbackStepFailed(p) PROVE Restored'
  BY <1>27 DEF RollbackStepFailed
<1>28. ASSUME NEW p \in Executors \union Rollbackers, RollbackRecordFault(p) PROVE Restored'
  BY <1>28 DEF RollbackRecordFault
<1>29. ASSUME NEW p \in Executors \union Rollbackers, RollbackFinish(p) PROVE Restored'
  BY <1>29 DEF RollbackFinish, Emit
<1>30. ASSUME NEW c \in Cancellers, CancelLoad(c) PROVE Restored'
  BY <1>30 DEF CancelLoad
<1>31. ASSUME NEW c \in Cancellers, CancelSkip(c) PROVE Restored'
  BY <1>31 DEF CancelSkip
<1>32. ASSUME NEW c \in Cancellers, CancelWrite(c) PROVE Restored'
  BY <1>32 DEF CancelWrite
<1>33. ASSUME NEW p \in Procs, Fault(p) PROVE Restored'
  BY <1>33 DEF Fault
<1>34. ASSUME NEW d \in Deployments, DeleteDeployment(d) PROVE Restored'
  BY <1>34 DEF DeleteDeployment
<1>35. ASSUME Crash PROVE Restored'
  BY <1>35 DEF Crash
<1>36. ASSUME UNCHANGED vars PROVE Restored'
  BY <1>36 DEF vars
<1> QED
  BY <1>1, <1>2, <1>3, <1>4, <1>5, <1>6, <1>7, <1>8, <1>9, <1>10, <1>11, <1>12, <1>13, <1>14, <1>15, <1>16,
     <1>17, <1>18, <1>19, <1>20, <1>21, <1>22, <1>23, <1>24, <1>25, <1>26, <1>27, <1>28, <1>29, <1>30, <1>31, <1>32, <1>33, <1>34, <1>35, <1>36
  DEF Next, ExecutePlan, DeployService, RollbackPlan, CancelPlan, ManualRollback

\* Events is inductive, however many executions there are: every path that
\* emits a terminal webhook returns.
LEMMA EventsStep ==
  TypeOK /\ Events /\ [Next]_vars => Events'
<1> USE PlanAssumption, ProcsAssumption DEF Procs
<1> SUFFICES ASSUME TypeOK /\ Events, [Next]_vars PROVE Events'
  OBVIOUS
<1> USE DEF TypeOK, Events, dbVars, hostVars, procVars, histVars, envVars, Goto, Returned, Running
<1>1. ASSUME NEW e \in Executors, ExecuteLoad(e) PROVE Events'
  BY <1>1 DEF ExecuteLoad
<1>2. ASSUME NEW e \in Executors, ExecuteStart(e) PROVE Events'
  BY <1>2 DEF ExecuteStart
<1>3. ASSUME NEW e \in Executors, SkipDetached(e) PROVE Events'
  BY <1>3 DEF SkipDetached
<1>4. ASSUME NEW e \in Executors, BeginStep(e) PROVE Events'
  BY <1>4 DEF BeginStep
<1>5. ASSUME NEW e \in Executors, HealthCheck(e) PROVE Events'
  BY <1>5 DEF HealthCheck
<1>6. ASSUME NEW e \in Executors, RecordStep(e) PROVE Events'
  BY <1>6 DEF RecordStep
<1>7. ASSUME NEW e \in Executors, RecordRetry(e) PROVE Events'
  BY <1>7 DEF RecordRetry
<1>8. ASSUME NEW e \in Executors, StepPassed(e) PROVE Events'
  BY <1>8 DEF StepPassed
<1>9. ASSUME NEW e \in Executors, StepFailedRollback(e) PROVE Events'
  BY <1>9 DEF StepFailedRollback
<1>10. ASSUME NEW e \in Executors, StepFailedHalt(e) PROVE Events'
  BY <1>10 DEF StepFailedHalt
<1>11. ASSUME NEW e \in Executors, FailPlan(e) PROVE Events'
  BY <1>11 DEF FailPlan, Emit
<1>12. ASSUME NEW e \in Executors, CompletePlan(e) PROVE Events'
  BY <1>12 DEF CompletePlan, Emit
<1>13. ASSUME NEW e \in Executors, CatchRollback(e) PROVE Events'
  BY <1>13 DEF CatchRollback
<1>14. ASSUME NEW e \in Executors, CatchFail(e) PROVE Events'
  BY <1>14 DEF CatchFail, Emit
<1>15. ASSUME NEW p \in Executors \union Rollbackers, DeployLoad(p) PROVE Events'
  BY <1>15 DEF DeployLoad
<1>16. ASSUME NEW p \in Executors \union Rollbackers, DeployGone(p) PROVE Events'
  BY <1>16 DEF DeployGone
<1>17. ASSUME NEW p \in Executors \union Rollbackers, DeployTag(p) PROVE Events'
  BY <1>17 DEF DeployTag
<1>18. ASSUME NEW p \in Executors \union Rollbackers, DeployGenerate(p) PROVE Events'
  BY <1>18 DEF DeployGenerate
<1>19. ASSUME NEW p \in Executors \union Rollbackers, DeployWrite(p) PROVE Events'
  BY <1>19 DEF DeployWrite
<1>20. ASSUME NEW p \in Executors \union Rollbackers, DeployUp(p) PROVE Events'
  BY <1>20 DEF DeployUp
<1>21. ASSUME NEW p \in Executors \union Rollbackers, DeploySucceed(p) PROVE Events'
  BY <1>21 DEF DeploySucceed
<1>22. ASSUME NEW p \in Executors \union Rollbackers, DeployFail(p) PROVE Events'
  BY <1>22 DEF DeployFail
<1>23. ASSUME NEW r \in Rollbackers, RollbackRequest(r) PROVE Events'
  BY <1>23 DEF RollbackRequest
<1>24. ASSUME NEW p \in Executors \union Rollbackers, RollbackLoad(p) PROVE Events'
  BY <1>24 DEF RollbackLoad
<1>25. ASSUME NEW p \in Executors \union Rollbackers, RollbackNext(p) PROVE Events'
  BY <1>25 DEF RollbackNext
<1>26. ASSUME NEW p \in Executors \union Rollbackers, RollbackRecord(p) PROVE Events'
  BY <1>26 DEF RollbackRecord
<1>27. ASSUME NEW p \in Executors \union Rollbackers, RollbackStepFailed(p) PROVE Events'
  BY <1>27 DEF RollbackStepFailed
<1>28. ASSUME NEW p \in Executors \union Rollbackers, RollbackRecordFault(p) PROVE Events'
  BY <1>28 DEF RollbackRecordFault
<1>29. ASSUME NEW p \in Executors \union Rollbackers, RollbackFinish(p) PROVE Events'
  BY <1>29 DEF RollbackFinish, Emit
<1>30. ASSUME NEW c \in Cancellers, CancelLoad(c) PROVE Events'
  BY <1>30 DEF CancelLoad
<1>31. ASSUME NEW c \in Cancellers, CancelSkip(c) PROVE Events'
  BY <1>31 DEF CancelSkip
<1>32. ASSUME NEW c \in Cancellers, CancelWrite(c) PROVE Events'
  BY <1>32 DEF CancelWrite
<1>33. ASSUME NEW p \in Procs, Fault(p) PROVE Events'
  BY <1>33 DEF Fault
<1>34. ASSUME NEW d \in Deployments, DeleteDeployment(d) PROVE Events'
  BY <1>34 DEF DeleteDeployment
<1>35. ASSUME Crash PROVE Events'
  BY <1>35 DEF Crash
<1>36. ASSUME UNCHANGED vars PROVE Events'
  BY <1>36 DEF vars
<1> QED
  BY <1>1, <1>2, <1>3, <1>4, <1>5, <1>6, <1>7, <1>8, <1>9, <1>10, <1>11, <1>12, <1>13, <1>14, <1>15, <1>16,
     <1>17, <1>18, <1>19, <1>20, <1>21, <1>22, <1>23, <1>24, <1>25, <1>26, <1>27, <1>28, <1>29, <1>30, <1>31, <1>32, <1>33, <1>34, <1>35, <1>36
  DEF Next, ExecutePlan, DeployService, RollbackPlan, CancelPlan, ManualRollback

\* Deployed is inductive: while an execution goes forward nobody writes the
\* previous tag, and no rollback is under way.
LEMMA DeployedStep ==
  ASSUME SoleExecutor PROVE TypeOK /\ Phases /\ Gate /\ Deployed /\ [Next]_vars => Deployed'
<1> USE PlanAssumption, ProcsAssumption, SoleExecutor DEF Procs, SoleExecutor
<1> SUFFICES ASSUME TypeOK /\ Phases /\ Gate /\ Deployed, [Next]_vars PROVE Deployed'
  OBVIOUS
<1> USE DEF TypeOK, dbVars, hostVars, procVars, histVars, envVars, Goto, Returned,
            Running, Active, Redeploying, InRollback, ForwardOver, DeployPcs, StepPcs, Phases,
            TagFor, Tags, Kinds, Steps, ManagedDeploy, Behind, Progress, Deployed, CompletedMeansDeployed
<1>1. ASSUME NEW e \in Executors, ExecuteLoad(e) PROVE Deployed'
  <2>1. \A f \in Executors : Behind(f)'
    BY <1>1 DEF ExecuteLoad, Gate
  <2>2. \A f \in Executors : Progress(f)'
    BY <1>1 DEF ExecuteLoad, Gate
  <2>3. (plan = "completed" => \A f \in Executors : ~Running(f))'
    BY <1>1 DEF ExecuteLoad, Gate
  <2>4. CompletedMeansDeployed'
    BY <1>1 DEF ExecuteLoad, Gate
  <2> QED
    BY <2>1, <2>2, <2>3, <2>4
<1>2. ASSUME NEW e \in Executors, ExecuteStart(e) PROVE Deployed'
  BY <1>2 DEF ExecuteStart
<1>3. ASSUME NEW e \in Executors, SkipDetached(e) PROVE Deployed'
  BY <1>3 DEF SkipDetached
<1>4. ASSUME NEW e \in Executors, BeginStep(e) PROVE Deployed'
  BY <1>4 DEF BeginStep
<1>5. ASSUME NEW e \in Executors, HealthCheck(e) PROVE Deployed'
  BY <1>5 DEF HealthCheck
<1>6. ASSUME NEW e \in Executors, RecordStep(e) PROVE Deployed'
  BY <1>6 DEF RecordStep
<1>7. ASSUME NEW e \in Executors, RecordRetry(e) PROVE Deployed'
  BY <1>7 DEF RecordRetry
<1>8. ASSUME NEW e \in Executors, StepPassed(e) PROVE Deployed'
  <2>1. \A f \in Executors : Behind(f)'
    BY <1>8 DEF StepPassed, Gate
  <2>2. \A f \in Executors : Progress(f)'
    BY <1>8 DEF StepPassed, Gate
  <2>3. (plan = "completed" => \A f \in Executors : ~Running(f))'
    BY <1>8 DEF StepPassed, Gate
  <2>4. CompletedMeansDeployed'
    BY <1>8 DEF StepPassed, Gate
  <2> QED
    BY <2>1, <2>2, <2>3, <2>4
<1>9. ASSUME NEW e \in Executors, StepFailedRollback(e) PROVE Deployed'
  BY <1>9 DEF StepFailedRollback
<1>10. ASSUME NEW e \in Executors, StepFailedHalt(e) PROVE Deployed'
  BY <1>10 DEF StepFailedHalt
<1>11. ASSUME NEW e \in Executors, FailPlan(e) PROVE Deployed'
  BY <1>11 DEF FailPlan, Emit
<1>12. ASSUME NEW e \in Executors, CompletePlan(e) PROVE Deployed'
  <2>1. \A f \in Executors : f = e
    OBVIOUS
  <2>a. attached \subseteq snap[e]
    BY <1>12 DEF CompletePlan
  <2>b. \A i \in Steps : i < idx[e]
    <3>1. idx[e] \in Int /\ idx[e] > NumSteps /\ NumSteps \in Nat
      BY <1>12 DEF CompletePlan
    <3> QED
      BY <3>1
  <2>2. \A i \in Steps : SdOf[i] \in attached => i < idx[e] /\ SdOf[i] \in snap[e]
    BY <2>a, <2>b
  <2>3. Active(e)
    BY <1>12 DEF CompletePlan
  <2>4. \A i \in Steps : SdOf[i] \in attached => step[i] = "success"
    BY <2>2, <2>3 DEF Gate
  <2>5. \A i \in Steps : SdOf[i] \in attached /\ ManagedDeploy(i) => live[SdOf[i]] = "target"
    BY <2>2, <2>3
  <2> QED
    BY <1>12, <2>1, <2>4, <2>5 DEF CompletePlan, Emit
<1>13. ASSUME NEW e \in Executors, CatchRollback(e) PROVE Deployed'
  BY <1>13 DEF CatchRollback
<1>14. ASSUME NEW e \in Executors, CatchFail(e) PROVE Deployed'
  BY <1>14 DEF CatchFail, Emit
<1>15. ASSUME NEW p \in Executors \union Rollbackers, DeployLoad(p) PROVE Deployed'
  <2>1. \A f \in Executors : Behind(f)'
    BY <1>15 DEF DeployLoad
  <2>2. \A f \in Executors : Progress(f)'
    BY <1>15 DEF DeployLoad
  <2>3. (plan = "completed" => \A f \in Executors : ~Running(f))'
    BY <1>15 DEF DeployLoad
  <2>4. CompletedMeansDeployed'
    BY <1>15 DEF DeployLoad
  <2> QED
    BY <2>1, <2>2, <2>3, <2>4
<1>16. ASSUME NEW p \in Executors \union Rollbackers, DeployGone(p) PROVE Deployed'
  <2>1. \A f \in Executors : Behind(f)'
    BY <1>16 DEF DeployGone
  <2>2. \A f \in Executors : Progress(f)'
    BY <1>16 DEF DeployGone
  <2>3. (plan = "completed" => \A f \in Executors : ~Running(f))'
    BY <1>16 DEF DeployGone
  <2>4. CompletedMeansDeployed'
    BY <1>16 DEF DeployGone
  <2> QED
    BY <2>1, <2>2, <2>3, <2>4
<1>17. ASSUME NEW p \in Executors \union Rollbackers, DeployTag(p) PROVE Deployed'
  BY <1>17 DEF DeployTag
<1>18. ASSUME NEW p \in Executors \union Rollbackers, DeployGenerate(p) PROVE Deployed'
  <2>1. \A f \in Executors : Behind(f)'
    BY <1>18 DEF DeployGenerate
  <2>2. \A f \in Executors : Progress(f)'
    BY <1>18 DEF DeployGenerate
  <2>3. (plan = "completed" => \A f \in Executors : ~Running(f))'
    BY <1>18 DEF DeployGenerate
  <2>4. CompletedMeansDeployed'
    BY <1>18 DEF DeployGenerate
  <2> QED
    BY <2>1, <2>2, <2>3, <2>4
<1>19. ASSUME NEW p \in Executors \union Rollbackers, DeployWrite(p) PROVE Deployed'
  BY <1>19 DEF DeployWrite
<1>20. ASSUME NEW p \in Executors \union Rollbackers, DeployUp(p) PROVE Deployed'
  BY <1>20 DEF DeployUp
<1>21. ASSUME NEW p \in Executors \union Rollbackers, DeploySucceed(p) PROVE Deployed'
  BY <1>21 DEF DeploySucceed
<1>22. ASSUME NEW p \in Executors \union Rollbackers, DeployFail(p) PROVE Deployed'
  <2>1. \A f \in Executors : Behind(f)'
    BY <1>22 DEF DeployFail
  <2>2. \A f \in Executors : Progress(f)'
    BY <1>22 DEF DeployFail
  <2>3. (plan = "completed" => \A f \in Executors : ~Running(f))'
    BY <1>22 DEF DeployFail
  <2>4. CompletedMeansDeployed'
    BY <1>22 DEF DeployFail
  <2> QED
    BY <2>1, <2>2, <2>3, <2>4
<1>23. ASSUME NEW r \in Rollbackers, RollbackRequest(r) PROVE Deployed'
  BY <1>23 DEF RollbackRequest
<1>24. ASSUME NEW p \in Executors \union Rollbackers, RollbackLoad(p) PROVE Deployed'
  <2>1. \A f \in Executors : Behind(f)'
    BY <1>24 DEF RollbackLoad
  <2>2. \A f \in Executors : Progress(f)'
    BY <1>24 DEF RollbackLoad
  <2>3. (plan = "completed" => \A f \in Executors : ~Running(f))'
    BY <1>24 DEF RollbackLoad
  <2>4. CompletedMeansDeployed'
    BY <1>24 DEF RollbackLoad
  <2> QED
    BY <2>1, <2>2, <2>3, <2>4
<1>25. ASSUME NEW p \in Executors \union Rollbackers, RollbackNext(p) PROVE Deployed'
  <2>1. mode[p] # "forward" \/ p \notin Executors
    BY <1>25 DEF RollbackNext
  <2>2. pc[p] = "rbnext" /\ pc' = [pc EXCEPT ![p] = "load"]
    BY <1>25 DEF RollbackNext
  <2>3. UNCHANGED <<dbVars, hostVars, mode, snap, readTag, result>>
    BY <1>25 DEF RollbackNext
  <2>4. \A f \in Procs \ {p} : idx'[f] = idx[f]
    BY <1>25 DEF RollbackNext
  <2>5. \A f \in Executors \ {p} : Progress(f)'
    BY <2>2, <2>3, <2>4
  <2>6. p \in Executors => Progress(p)'
    BY <2>1, <2>2, <2>3
  <2>7. \A f \in Executors : Behind(f)'
    BY <1>25 DEF RollbackNext
  <2>8. (plan = "completed" => \A f \in Executors : ~Running(f))'
    BY <1>25 DEF RollbackNext
  <2>9. CompletedMeansDeployed'
    BY <1>25 DEF RollbackNext
  <2> QED
    BY <2>5, <2>6, <2>7, <2>8, <2>9
<1>26. ASSUME NEW p \in Executors \union Rollbackers, RollbackRecord(p) PROVE Deployed'
  <2>1. \A f \in Executors : Behind(f)'
    BY <1>26 DEF RollbackRecord
  <2>2. \A f \in Executors : Progress(f)'
    BY <1>26 DEF RollbackRecord
  <2>3. (plan = "completed" => \A f \in Executors : ~Running(f))'
    BY <1>26 DEF RollbackRecord
  <2>4. CompletedMeansDeployed'
    BY <1>26 DEF RollbackRecord
  <2> QED
    BY <2>1, <2>2, <2>3, <2>4
<1>27. ASSUME NEW p \in Executors \union Rollbackers, RollbackStepFailed(p) PROVE Deployed'
  <2>1. \A f \in Executors : Behind(f)'
    BY <1>27 DEF RollbackStepFailed
  <2>2. \A f \in Executors : Progress(f)'
    BY <1>27 DEF RollbackStepFailed
  <2>3. (plan = "completed" => \A f \in Executors : ~Running(f))'
    BY <1>27 DEF RollbackStepFailed
  <2>4. CompletedMeansDeployed'
    BY <1>27 DEF RollbackStepFailed
  <2> QED
    BY <2>1, <2>2, <2>3, <2>4
<1>28. ASSUME NEW p \in Executors \union Rollbackers, RollbackRecordFault(p) PROVE Deployed'
  <2>1. \A f \in Executors : Behind(f)'
    BY <1>28 DEF RollbackRecordFault
  <2>2. \A f \in Executors : Progress(f)'
    BY <1>28 DEF RollbackRecordFault
  <2>3. (plan = "completed" => \A f \in Executors : ~Running(f))'
    BY <1>28 DEF RollbackRecordFault
  <2>4. CompletedMeansDeployed'
    BY <1>28 DEF RollbackRecordFault
  <2> QED
    BY <2>1, <2>2, <2>3, <2>4
<1>29. ASSUME NEW p \in Executors \union Rollbackers, RollbackFinish(p) PROVE Deployed'
  BY <1>29 DEF RollbackFinish, Emit
<1>30. ASSUME NEW c \in Cancellers, CancelLoad(c) PROVE Deployed'
  BY <1>30 DEF CancelLoad
<1>31. ASSUME NEW c \in Cancellers, CancelSkip(c) PROVE Deployed'
  BY <1>31 DEF CancelSkip
<1>32. ASSUME NEW c \in Cancellers, CancelWrite(c) PROVE Deployed'
  BY <1>32 DEF CancelWrite
<1>33. ASSUME NEW p \in Procs, Fault(p) PROVE Deployed'
  BY <1>33 DEF Fault
<1>34. ASSUME NEW d \in Deployments, DeleteDeployment(d) PROVE Deployed'
  BY <1>34 DEF DeleteDeployment
<1>35. ASSUME Crash PROVE Deployed'
  BY <1>35 DEF Crash
<1>36. ASSUME UNCHANGED vars PROVE Deployed'
  BY <1>36 DEF vars
<1> QED
  BY <1>1, <1>2, <1>3, <1>4, <1>5, <1>6, <1>7, <1>8, <1>9, <1>10, <1>11, <1>12, <1>13, <1>14, <1>15, <1>16,
     <1>17, <1>18, <1>19, <1>20, <1>21, <1>22, <1>23, <1>24, <1>25, <1>26, <1>27, <1>28, <1>29, <1>30, <1>31, <1>32, <1>33, <1>34, <1>35, <1>36
  DEF Next, ExecutePlan, DeployService, RollbackPlan, CancelPlan, ManualRollback

\* Notified is inductive, however many executions there are: a status and its
\* webhook are one step, except in the catch block.
LEMMA NotifiedStep == TypeOK /\ Notified /\ [Next]_vars => Notified'
<1> USE PlanAssumption, ProcsAssumption, BoundsAssumption DEF Procs
<1> SUFFICES ASSUME TypeOK /\ Notified, [Next]_vars PROVE Notified'
  OBVIOUS
<1> USE DEF TypeOK, dbVars, hostVars, procVars, histVars, envVars, Goto, Returned,
            Running, DeployPcs, Notified
<1>1. ASSUME NEW e \in Executors, ExecuteLoad(e) PROVE Notified'
  BY <1>1 DEF ExecuteLoad
<1>2. ASSUME NEW e \in Executors, ExecuteStart(e) PROVE Notified'
  BY <1>2 DEF ExecuteStart
<1>3. ASSUME NEW e \in Executors, SkipDetached(e) PROVE Notified'
  BY <1>3 DEF SkipDetached
<1>4. ASSUME NEW e \in Executors, BeginStep(e) PROVE Notified'
  BY <1>4 DEF BeginStep
<1>5. ASSUME NEW e \in Executors, HealthCheck(e) PROVE Notified'
  BY <1>5 DEF HealthCheck
<1>6. ASSUME NEW e \in Executors, RecordStep(e) PROVE Notified'
  BY <1>6 DEF RecordStep
<1>7. ASSUME NEW e \in Executors, RecordRetry(e) PROVE Notified'
  BY <1>7 DEF RecordRetry
<1>8. ASSUME NEW e \in Executors, StepPassed(e) PROVE Notified'
  BY <1>8 DEF StepPassed
<1>9. ASSUME NEW e \in Executors, StepFailedRollback(e) PROVE Notified'
  BY <1>9 DEF StepFailedRollback
<1>10. ASSUME NEW e \in Executors, StepFailedHalt(e) PROVE Notified'
  BY <1>10 DEF StepFailedHalt
<1>11. ASSUME NEW e \in Executors, FailPlan(e) PROVE Notified'
  BY <1>11 DEF FailPlan, Emit
<1>12. ASSUME NEW e \in Executors, CompletePlan(e) PROVE Notified'
  BY <1>12 DEF CompletePlan, Emit
<1>13. ASSUME NEW e \in Executors, CatchRollback(e) PROVE Notified'
  BY <1>13 DEF CatchRollback
<1>14. ASSUME NEW e \in Executors, CatchFail(e) PROVE Notified'
  BY <1>14 DEF CatchFail, Emit
<1>15. ASSUME NEW p \in Executors \union Rollbackers, DeployLoad(p) PROVE Notified'
  BY <1>15 DEF DeployLoad
<1>16. ASSUME NEW p \in Executors \union Rollbackers, DeployGone(p) PROVE Notified'
  BY <1>16 DEF DeployGone
<1>17. ASSUME NEW p \in Executors \union Rollbackers, DeployTag(p) PROVE Notified'
  BY <1>17 DEF DeployTag
<1>18. ASSUME NEW p \in Executors \union Rollbackers, DeployGenerate(p) PROVE Notified'
  BY <1>18 DEF DeployGenerate
<1>19. ASSUME NEW p \in Executors \union Rollbackers, DeployWrite(p) PROVE Notified'
  BY <1>19 DEF DeployWrite
<1>20. ASSUME NEW p \in Executors \union Rollbackers, DeployUp(p) PROVE Notified'
  BY <1>20 DEF DeployUp
<1>21. ASSUME NEW p \in Executors \union Rollbackers, DeploySucceed(p) PROVE Notified'
  BY <1>21 DEF DeploySucceed
<1>22. ASSUME NEW p \in Executors \union Rollbackers, DeployFail(p) PROVE Notified'
  BY <1>22 DEF DeployFail
<1>23. ASSUME NEW r \in Rollbackers, RollbackRequest(r) PROVE Notified'
  BY <1>23 DEF RollbackRequest
<1>24. ASSUME NEW p \in Executors \union Rollbackers, RollbackLoad(p) PROVE Notified'
  BY <1>24 DEF RollbackLoad
<1>25. ASSUME NEW p \in Executors \union Rollbackers, RollbackNext(p) PROVE Notified'
  BY <1>25 DEF RollbackNext
<1>26. ASSUME NEW p \in Executors \union Rollbackers, RollbackRecord(p) PROVE Notified'
  BY <1>26 DEF RollbackRecord
<1>27. ASSUME NEW p \in Executors \union Rollbackers, RollbackStepFailed(p) PROVE Notified'
  BY <1>27 DEF RollbackStepFailed
<1>28. ASSUME NEW p \in Executors \union Rollbackers, RollbackRecordFault(p) PROVE Notified'
  BY <1>28 DEF RollbackRecordFault
<1>29. ASSUME NEW p \in Executors \union Rollbackers, RollbackFinish(p) PROVE Notified'
  BY <1>29 DEF RollbackFinish, Emit
<1>30. ASSUME NEW c \in Cancellers, CancelLoad(c) PROVE Notified'
  BY <1>30 DEF CancelLoad
<1>31. ASSUME NEW c \in Cancellers, CancelSkip(c) PROVE Notified'
  BY <1>31 DEF CancelSkip
<1>32. ASSUME NEW c \in Cancellers, CancelWrite(c) PROVE Notified'
  BY <1>32 DEF CancelWrite
<1>33. ASSUME NEW p \in Procs, Fault(p) PROVE Notified'
  BY <1>33 DEF Fault
<1>34. ASSUME NEW d \in Deployments, DeleteDeployment(d) PROVE Notified'
  BY <1>34 DEF DeleteDeployment
<1>35. ASSUME Crash PROVE Notified'
  BY <1>35 DEF Crash
<1>36. ASSUME UNCHANGED vars PROVE Notified'
  BY <1>36 DEF vars
<1> QED
  BY <1>1, <1>2, <1>3, <1>4, <1>5, <1>6, <1>7, <1>8, <1>9, <1>10, <1>11, <1>12, <1>13, <1>14, <1>15, <1>16,
     <1>17, <1>18, <1>19, <1>20, <1>21, <1>22, <1>23, <1>24, <1>25, <1>26, <1>27, <1>28, <1>29, <1>30, <1>31, <1>32, <1>33, <1>34, <1>35, <1>36
  DEF Next, ExecutePlan, DeployService, RollbackPlan, CancelPlan, ManualRollback

\* The inductive invariant: none of the safety properties is inductive alone,
\* because each needs to know that nobody deploys forward during a rollback.
IInv == TypeOK /\ Phases /\ Coverage /\ Gate /\ Restored /\ Deployed

\* Every part of the inductive invariant holds of a freshly built plan.
LEMMA InitIInv == Init => IInv
<1> SUFFICES ASSUME Init PROVE IInv
  OBVIOUS
<1> USE PlanAssumption, ProcsAssumption, BoundsAssumption DEF Init, Procs
<1>1. TypeOK
  BY DEF TypeOK, Steps, PlanStatus, StepStatus, Tags, Pcs, DeployPcs, StepPcs
<1>2. Phases
  BY DEF Phases, InRollback, Redeploying, DeployPcs
<1>3. Coverage
  BY DEF Coverage, Redeploying, DeployPcs
<1>4. Gate
  BY DEF Gate, Active, Running
<1>5. Restored
  BY DEF Restored, DeployPcs
<1>6. Deployed
  BY DEF Deployed, Behind, Progress, CompletedMeansDeployed, DeployPcs, StepPcs, Active, Running
<1> QED
  BY <1>1, <1>2, <1>3, <1>4, <1>5, <1>6 DEF IInv

\* The inductive invariant holds in every state of a plan with one executor.
THEOREM Invariance == ASSUME SoleExecutor PROVE Spec => []IInv
<1>1. IInv /\ [Next]_vars => IInv'
  BY TypeStep, PhasesStep, CoverageStep, GateStep, RestoredStep, DeployedStep DEF IInv
<1> QED
  BY <1>1, InitIInv, PTL DEF Spec

\* executePlan never goes past a step that did not succeed, for any plan and
\* any number of concurrent cancel and rollback requests.
THEOREM StepGateHolds == ASSUME SoleExecutor PROVE Spec => []StepGate
<1>1. IInv => StepGate
  BY DEF IInv, Gate, StepGate, Forward, Active
<1> QED
  BY <1>1, Invariance, PTL

\* A plan marked rolled_back has nothing left deployed but what rollbackPlan
\* tried to roll back in vain.
THEOREM RollbackCoverageHolds == ASSUME SoleExecutor PROVE Spec => []RollbackCoverage
<1>1. IInv => RollbackCoverage
  BY DEF IInv, Coverage, RollbackCoverage
<1> QED
  BY <1>1, Invariance, PTL

\* rollbackPlan works in reverse order of deployment.
THEOREM RollbackReversedHolds == ASSUME SoleExecutor PROVE Spec => []RollbackReversed
<1>1. IInv => RollbackReversed
  <2> SUFFICES ASSUME IInv, NEW p \in Procs, Redeploying(p), NEW j \in ToRollback, j > idx[p]
               PROVE j \in rbFailed
    BY DEF RollbackReversed, Redeploying
  <2>1. j \in Steps /\ idx[p] \in Steps
    BY DEF ToRollback, IInv, TypeOK, Redeploying, StepPcs
  <2>2. j \in todo[p] \union rbFailed \union {idx[p]} /\ \A k \in todo[p] : k < idx[p]
    BY DEF IInv, Coverage
  <2> QED
    BY <2>1, <2>2, PlanAssumption DEF Steps
<1> QED
  BY <1>1, Invariance, PTL

\* What a rolled_back step leaves on a managed host is the previous tag.
THEOREM RolledBackRestoredHolds == ASSUME SoleExecutor PROVE Spec => []RolledBackRestored
<1>1. IInv => RolledBackRestored
  BY DEF IInv, Restored, RolledBackRestored, AllBack, FileBack, TagBack
<1> QED
  BY <1>1, Invariance, PTL

\* Every request that returns has emitted exactly one terminal webhook, also
\* when the plan is executed twice.
THEOREM OneTerminalEventHolds == Spec => []OneTerminalEvent
<1>1. Init => Events
  BY ProcsAssumption DEF Init, Events, Procs
<1>2. Events => OneTerminalEvent
  BY ProcsAssumption DEF Events, OneTerminalEvent, Procs
<1> QED
  BY <1>1, <1>2, TypeCorrect, EventsStep, PTL DEF Spec

\* A completed plan that nobody asked to roll back has every remaining step done
\* and every managed container on the target image, for any number of steps,
\* cancels and failures.
THEOREM CompletedMeansDeployedHolds == ASSUME SoleExecutor PROVE Spec => []CompletedMeansDeployed
<1>1. IInv => CompletedMeansDeployed
  BY DEF IInv, Deployed
<1> QED
  BY <1>1, Invariance, PTL

\* With at most one failing database call and no crash the last terminal
\* webhook carries the plan's status, also when the plan is executed twice.
THEOREM AnnouncedOutcomeHolds == Spec => []AnnouncedOutcome
<1>1. Init => Notified
  BY ProcsAssumption DEF Init, Notified, Procs
<1>2. TypeOK /\ Notified => AnnouncedOutcome
  BY BoundsAssumption DEF TypeOK, Notified, AnnouncedOutcome
<1> QED
  BY <1>1, <1>2, TypeCorrect, NotifiedStep, PTL DEF Spec
=============================================================================
