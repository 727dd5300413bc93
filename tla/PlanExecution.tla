--------------------------- MODULE PlanExecution ---------------------------
(***************************************************************************)
(* Execution, cancellation and rollback of ONE deployment plan             *)
(* (src/services/orchestration.ts, src/routes/deployment-plans.ts and the  *)
(* deployService pipeline of src/services/deploy.ts that a step runs).     *)
(*                                                                         *)
(* Every request (execute, cancel, roll back) is an asynchronous function  *)
(* of the one Node process: it runs without interruption up to an await on *)
(* the database, on SSH or on Docker, and other requests run there.  One   *)
(* action below is one such uninterrupted piece.  The database rows (plan, *)
(* steps, Service.imageTag, ServiceDeployment) and the hosts (compose      *)
(* file, container) are shared and survive a crash; program counters and   *)
(* the local variables of a request do not.                                *)
(***************************************************************************)
EXTENDS Integers, FiniteSets

CONSTANTS
  NumSteps,      \* number of DeploymentPlanStep rows of the plan
  Deployments,   \* ServiceDeployment rows the plan targets
  Services,      \* Service templates of these deployments
  ActionOf,      \* step -> "deploy" or "health_check"
  SdOf,          \* step -> its ServiceDeployment
  ServiceOf,     \* ServiceDeployment -> its Service
  Kind,          \* ServiceDeployment -> how its host is driven, see Kinds
  Executors,     \* calls of executePlan (execute route, scheduler, webhook)
  Cancellers,    \* calls of cancelPlan
  Rollbackers,   \* manual rollback requests
  MaxFaults,     \* bound: failing database calls of the orchestration itself
  MaxCrashes,    \* bound: restarts of the Node process
  MaxDeletes     \* bound: ServiceDeployment rows deleted by an operator

Steps == 1..NumSteps
Procs == Executors \union Cancellers \union Rollbackers

\* How a deploy reaches the host: "managed" writes the compose file it then
\* brings up; "unmanaged" has SSH but keeps the operator's file (or has no
\* compose path and restarts the container); "socket" has no SSH client.
Kinds == {"managed", "unmanaged", "socket"}

ASSUME PlanAssumption ==
  /\ NumSteps \in Nat \ {0}
  /\ ActionOf \in [Steps -> {"deploy", "health_check"}]
  /\ SdOf \in [Steps -> Deployments]
  /\ ServiceOf \in [Deployments -> Services]
  /\ Kind \in [Deployments -> Kinds]

\* A request is of one kind.
ASSUME ProcsAssumption ==
  /\ Executors \intersect Cancellers = {}
  /\ Executors \intersect Rollbackers = {}
  /\ Cancellers \intersect Rollbackers = {}

ASSUME BoundsAssumption == MaxFaults \in Nat /\ MaxCrashes \in Nat /\ MaxDeletes \in Nat

----------------------------------------------------------------------------
VARIABLES
  plan,         \* DeploymentPlan.status
  autoRollback, \* DeploymentPlan.autoRollback, fixed when the plan is built
  step,       \* DeploymentPlanStep.status of every step
  attached,   \* ServiceDeployment rows that still exist
  svcTag,     \* Service.imageTag
  file,       \* image tag in the deployment's compose file on its host
  live,       \* image tag the deployment's container was created from
  pc,         \* where each request is
  mode,       \* "forward", "rollback", or "catch": rollback called by the catch block
  idx,        \* the step a request works on
  snap,       \* deployments that existed when executePlan loaded the plan
  todo,       \* rollbackPlan: steps of stepsToRollback not handled yet
  readTag,    \* deployService: the imageTag of the Service row it loaded last
  result,     \* deployService / verifyServiceHealth: what the step came to
  rbFailed,   \* history: steps whose rollback was tried and not recorded
  started,    \* history: how many executions set the plan running
  terminal,   \* history: terminal plan webhooks each request emitted
  announced,  \* history: status carried by the last terminal plan webhook
  faults, crashes

dbVars   == <<plan, autoRollback, step, attached, svcTag>>
hostVars == <<file, live>>
procVars == <<pc, mode, idx, snap, todo, readTag, result>>
histVars == <<rbFailed, started, terminal, announced>>
envVars  == <<faults, crashes>>
vars == <<dbVars, hostVars, procVars, histVars, envVars>>

PlanStatus == {"pending", "running", "completed", "failed", "cancelled", "rolled_back"}
StepStatus == {"pending", "running", "success", "failed", "skipped", "rolled_back"}

\* Step.previousTag (Service.imageTag when the plan was built) and Step.targetTag.
Tags == {"previous", "target"}

\* Inside deployService.
DeployPcs == {"load", "artifacts", "generate", "write", "up", "verify"}

Pcs == {"idle", "start", "next", "health", "record", "check", "fail", "catch",
        "rbread", "rbnext", "skip", "cancel", "done", "dead"} \union DeployPcs

\* A request that is working on the step idx.
StepPcs == DeployPcs \union {"health", "record", "check"}

Running(p) == pc[p] \notin {"idle", "done", "dead"}

Forward(p) == Running(p) /\ p \in Executors /\ mode[p] = "forward" /\ pc[p] # "start"

\* The tag a request's deployService call is about.
TagFor(p) == IF mode[p] = "forward" THEN "target" ELSE "previous"

TypeOK ==
  /\ plan \in PlanStatus
  /\ autoRollback \in BOOLEAN
  /\ step \in [Steps -> StepStatus]
  /\ attached \subseteq Deployments
  /\ svcTag \in [Services -> Tags]
  /\ file \in [Deployments -> Tags]
  /\ live \in [Deployments -> Tags]
  /\ pc \in [Procs -> Pcs]
  /\ mode \in [Procs -> {"forward", "rollback", "catch"}]
  /\ idx \in [Procs -> 1..(NumSteps + 1)]
  /\ snap \in [Procs -> SUBSET Deployments]
  /\ todo \in [Procs -> SUBSET Steps]
  /\ readTag \in [Procs -> Tags]
  /\ result \in [Procs -> {"success", "failed", "error"}]
  /\ rbFailed \subseteq Steps
  /\ started \in Nat
  /\ terminal \in [Procs -> Nat]
  /\ announced \in PlanStatus \union {"nothing"}
  /\ faults \in 0..MaxFaults
  /\ crashes \in 0..MaxCrashes
  /\ \A p \in Procs : pc[p] \in StepPcs => idx[p] \in Steps

Init ==
  /\ plan = "pending"
  /\ autoRollback \in BOOLEAN
  /\ step = [i \in Steps |-> "pending"]
  /\ attached = Deployments
  /\ svcTag = [s \in Services |-> "previous"]
  /\ file = [d \in Deployments |-> "previous"]
  /\ live = [d \in Deployments |-> "previous"]
  /\ pc = [p \in Procs |-> "idle"]
  /\ mode = [p \in Procs |-> IF p \in Executors THEN "forward" ELSE "rollback"]
  /\ idx = [p \in Procs |-> 1]
  /\ snap = [p \in Procs |-> {}]
  /\ todo = [p \in Procs |-> {}]
  /\ readTag = [p \in Procs |-> "previous"]
  /\ result = [p \in Procs |-> "success"]
  /\ rbFailed = {}
  /\ started = 0
  /\ terminal = [p \in Procs |-> 0]
  /\ announced = "nothing"
  /\ faults = 0
  /\ crashes = 0

Goto(p, l) == pc' = [pc EXCEPT ![p] = l]

\* The outcome of a step has been used and goes out of scope.
Returned(p) == result' = [result EXCEPT ![p] = "success"]

\* A terminal plan webhook (emitWebhookEvent of plan.completed, plan.failed
\* or plan.rolled_back): fire and forget, it never throws.
Emit(p, status) ==
  /\ terminal' = [terminal EXCEPT ![p] = @ + 1]
  /\ announced' = status

----------------------------------------------------------------------------
(* executePlan *)

\* The plan and its steps are loaded; a plan that is not pending is refused.
ExecuteLoad(e) ==
  /\ pc[e] = "idle"
  /\ plan = "pending"
  /\ snap' = [snap EXCEPT ![e] = attached]
  /\ Goto(e, "start")
  /\ UNCHANGED <<dbVars, hostVars, mode, idx, todo, readTag, result, histVars, envVars>>

\* The status is written without looking at it again.
ExecuteStart(e) ==
  /\ pc[e] = "start"
  /\ plan' = "running"
  /\ started' = started + 1
  /\ Goto(e, "next")
  /\ UNCHANGED <<autoRollback, step, attached, svcTag, hostVars, mode, idx, snap, todo, readTag, result,
                 rbFailed, terminal, announced, envVars>>

\* A step whose deployment was already gone when the plan was loaded is passed over.
SkipDetached(e) ==
  /\ pc[e] = "next"
  /\ idx[e] <= NumSteps
  /\ SdOf[idx[e]] \notin snap[e]
  /\ idx' = [idx EXCEPT ![e] = @ + 1]
  /\ UNCHANGED <<dbVars, hostVars, pc, mode, snap, todo, readTag, result, histVars, envVars>>

BeginStep(e) ==
  /\ pc[e] = "next"
  /\ idx[e] <= NumSteps
  /\ SdOf[idx[e]] \in snap[e]
  /\ step' = [step EXCEPT ![idx[e]] = "running"]
  /\ Goto(e, IF ActionOf[idx[e]] = "deploy" THEN "load" ELSE "health")
  /\ UNCHANGED <<plan, autoRollback, attached, svcTag, hostVars, mode, idx, snap, todo, readTag, result,
                 histVars, envVars>>

\* verifyServiceHealth, all its retries: it throws for a deleted deployment.
HealthCheck(e) ==
  /\ pc[e] = "health"
  /\ \E r \in {"success", "failed", "error"} :
       /\ r = "success" => SdOf[idx[e]] \in attached
       /\ result' = [result EXCEPT ![e] = r]
  /\ Goto(e, "record")
  /\ UNCHANGED <<dbVars, hostVars, mode, idx, snap, todo, readTag, histVars, envVars>>

\* executeDeployStep / executeHealthCheckStep write the outcome of the step.
RecordStep(e) ==
  /\ pc[e] = "record"
  /\ mode[e] = "forward"
  /\ step' = [step EXCEPT ![idx[e]] = IF result[e] = "success" THEN "success" ELSE "failed"]
  /\ Returned(e)
  /\ Goto(e, "check")
  /\ UNCHANGED <<plan, autoRollback, attached, svcTag, hostVars, mode, idx, snap, todo, readTag,
                 histVars, envVars>>

\* That write throws: the catch clause of the step function writes FAILED instead.
RecordRetry(e) ==
  /\ pc[e] = "record"
  /\ mode[e] = "forward"
  /\ result[e] # "error"
  /\ faults < MaxFaults
  /\ faults' = faults + 1
  /\ result' = [result EXCEPT ![e] = "error"]
  /\ UNCHANGED <<dbVars, hostVars, pc, mode, idx, snap, todo, readTag, histVars, crashes>>

\* Mutant of StepPassed: the outcome of the step is not looked at.
StepPassedUnchecked(e) ==
  /\ pc[e] = "check"
  /\ idx' = [idx EXCEPT ![e] = @ + 1]
  /\ Goto(e, "next")
  /\ UNCHANGED <<dbVars, hostVars, mode, snap, todo, readTag, result, histVars, envVars>>

\* The step row is read again: the loop goes on unless it says failed.
StepPassed(e) ==
  /\ pc[e] = "check"
  /\ step[idx[e]] # "failed"
  /\ idx' = [idx EXCEPT ![e] = @ + 1]
  /\ Goto(e, "next")
  /\ UNCHANGED <<dbVars, hostVars, mode, snap, todo, readTag, result, histVars, envVars>>

StepFailedRollback(e) ==
  /\ pc[e] = "check"
  /\ step[idx[e]] = "failed"
  /\ autoRollback
  /\ mode' = [mode EXCEPT ![e] = "rollback"]
  /\ Goto(e, "rbread")
  /\ UNCHANGED <<dbVars, hostVars, idx, snap, todo, readTag, result, histVars, envVars>>

StepFailedHalt(e) ==
  /\ pc[e] = "check"
  /\ step[idx[e]] = "failed"
  /\ ~autoRollback
  /\ Goto(e, "fail")
  /\ UNCHANGED <<dbVars, hostVars, mode, idx, snap, todo, readTag, result, histVars, envVars>>

\* Mutant of FailPlan: no webhook.
FailPlanSilent(e) ==
  /\ pc[e] = "fail"
  /\ plan' = "failed"
  /\ Goto(e, "done")
  /\ UNCHANGED <<autoRollback, step, attached, svcTag, hostVars, mode, idx, snap, todo, readTag, result,
                 histVars, envVars>>

FailPlan(e) ==
  /\ pc[e] = "fail"
  /\ plan' = "failed"
  /\ Emit(e, "failed")
  /\ Goto(e, "done")
  /\ UNCHANGED <<autoRollback, step, attached, svcTag, hostVars, mode, idx, snap, todo, readTag, result,
                 rbFailed, started, envVars>>

\* Mutant of CompletePlan: the last step is left out.
CompletePlanEarly(e) ==
  /\ pc[e] = "next"
  /\ idx[e] >= NumSteps
  /\ plan' = "completed"
  /\ Emit(e, "completed")
  /\ Goto(e, "done")
  /\ UNCHANGED <<autoRollback, step, attached, svcTag, hostVars, mode, idx, snap, todo, readTag, result,
                 rbFailed, started, envVars>>

CompletePlan(e) ==
  /\ pc[e] = "next"
  /\ idx[e] > NumSteps
  /\ plan' = "completed"
  /\ Emit(e, "completed")
  /\ Goto(e, "done")
  /\ UNCHANGED <<autoRollback, step, attached, svcTag, hostVars, mode, idx, snap, todo, readTag, result,
                 rbFailed, started, envVars>>

\* Mutant of CatchRollback: plan.failed goes out before the rollback.
CatchRollbackEmits(e) ==
  /\ pc[e] = "catch"
  /\ autoRollback
  /\ plan' = "failed"
  /\ Emit(e, "failed")
  /\ mode' = [mode EXCEPT ![e] = "catch"]
  /\ Goto(e, "rbread")
  /\ UNCHANGED <<autoRollback, step, attached, svcTag, hostVars, idx, snap, todo, readTag, result,
                 rbFailed, started, envVars>>

\* The catch block: FAILED is written; with autoRollback rollbackPlan is called
\* and owns the terminal webhook, otherwise plan.failed goes out.
CatchRollback(e) ==
  /\ pc[e] = "catch"
  /\ autoRollback
  /\ plan' = "failed"
  /\ mode' = [mode EXCEPT ![e] = "catch"]
  /\ Goto(e, "rbread")
  /\ UNCHANGED <<autoRollback, step, attached, svcTag, hostVars, idx, snap, todo, readTag, result,
                 histVars, envVars>>

CatchFail(e) ==
  /\ pc[e] = "catch"
  /\ ~autoRollback
  /\ plan' = "failed"
  /\ Emit(e, "failed")
  /\ Goto(e, "done")
  /\ UNCHANGED <<autoRollback, step, attached, svcTag, hostVars, mode, idx, snap, todo, readTag,
                 result, rbFailed, started, envVars>>

----------------------------------------------------------------------------
(* deployService, called by a step or by a rollback *)

\* The deployment and its service are loaded.
DeployLoad(p) ==
  /\ pc[p] = "load"
  /\ SdOf[idx[p]] \in attached
  /\ readTag' = [readTag EXCEPT ![p] = svcTag[ServiceOf[SdOf[idx[p]]]]]
  /\ Goto(p, "artifacts")
  /\ UNCHANGED <<dbVars, hostVars, mode, idx, snap, todo, result, histVars, envVars>>

\* The deployment is gone: deployService throws before it did anything.
DeployGone(p) ==
  /\ pc[p] = "load"
  /\ SdOf[idx[p]] \notin attached
  /\ result' = [result EXCEPT ![p] = "error"]
  /\ Goto(p, "record")
  /\ UNCHANGED <<dbVars, hostVars, mode, idx, snap, todo, readTag, histVars, envVars>>

\* With an SSH client the tag goes onto the Service row if it differs from the
\* one that was loaded; without one there is nothing to generate.
DeployTag(p) ==
  LET d == SdOf[idx[p]]
  IN /\ pc[p] = "artifacts"
     /\ svcTag' = IF Kind[d] # "socket" /\ TagFor(p) # readTag[p]
                    THEN [svcTag EXCEPT ![ServiceOf[d]] = TagFor(p)] ELSE svcTag
     /\ Goto(p, IF Kind[d] = "socket" THEN "up" ELSE "generate")
     /\ UNCHANGED <<plan, autoRollback, step, attached, hostVars, mode, idx, snap, todo, readTag, result,
                    histVars, envVars>>

\* Mutant of DeployGenerate: the compose document is made from the row loaded first.
DeployGenerateStale(p) ==
  /\ pc[p] = "generate"
  /\ SdOf[idx[p]] \in attached
  /\ Goto(p, "write")
  /\ UNCHANGED <<dbVars, hostVars, mode, idx, snap, todo, readTag, result, histVars, envVars>>

\* generateDeploymentArtifacts loads the Service row again, as it is now.
DeployGenerate(p) ==
  /\ pc[p] = "generate"
  /\ SdOf[idx[p]] \in attached
  /\ readTag' = [readTag EXCEPT ![p] = svcTag[ServiceOf[SdOf[idx[p]]]]]
  /\ Goto(p, "write")
  /\ UNCHANGED <<dbVars, hostVars, mode, idx, snap, todo, result, histVars, envVars>>

\* The generated compose file is moved into place; an operator's file is kept.
DeployWrite(p) ==
  LET d == SdOf[idx[p]]
  IN /\ pc[p] = "write"
     /\ file' = IF Kind[d] = "managed" THEN [file EXCEPT ![d] = readTag[p]] ELSE file
     /\ Goto(p, "up")
     /\ UNCHANGED <<dbVars, live, mode, idx, snap, todo, readTag, result, histVars, envVars>>

\* composeUp recreates the container from the file; otherwise it is restarted as it is.
DeployUp(p) ==
  LET d == SdOf[idx[p]]
  IN /\ pc[p] = "up"
     /\ live' = IF Kind[d] = "managed" THEN [live EXCEPT ![d] = file[d]] ELSE live
     /\ Goto(p, "verify")
     /\ UNCHANGED <<dbVars, file, mode, idx, snap, todo, readTag, result, histVars, envVars>>

\* The container runs and the ServiceDeployment row is updated: success.
DeploySucceed(p) ==
  /\ pc[p] = "verify"
  /\ SdOf[idx[p]] \in attached
  /\ result' = [result EXCEPT ![p] = "success"]
  /\ Goto(p, "record")
  /\ UNCHANGED <<dbVars, hostVars, mode, idx, snap, todo, readTag, histVars, envVars>>

\* Anything on the way throws: the Deployment row becomes FAILED, or writing
\* that throws too; what was already done (tag, file, container) stays done.
DeployFail(p) ==
  /\ pc[p] \in {"artifacts", "generate", "write", "up", "verify"}
  /\ \E r \in {"failed", "error"} : result' = [result EXCEPT ![p] = r]
  /\ Goto(p, "record")
  /\ UNCHANGED <<dbVars, hostVars, mode, idx, snap, todo, readTag, histVars, envVars>>

----------------------------------------------------------------------------
(* rollbackPlan *)

\* The manual rollback route: only a completed or failed plan with a deployed step.
RollbackRequest(r) ==
  /\ pc[r] = "idle"
  /\ plan \in {"completed", "failed"}
  /\ \E i \in Steps : ActionOf[i] = "deploy" /\ step[i] \in {"success", "rolled_back"}
  /\ Goto(r, "rbread")
  /\ UNCHANGED <<dbVars, hostVars, mode, idx, snap, todo, readTag, result, histVars, envVars>>

\* stepsToRollback
ToRollback == {i \in Steps : /\ ActionOf[i] = "deploy"
                             /\ SdOf[i] \in attached
                             /\ step[i] \in {"success", "running"}}

RollbackLoad(p) ==
  /\ pc[p] = "rbread"
  /\ todo' = [todo EXCEPT ![p] = ToRollback]
  /\ Goto(p, "rbnext")
  /\ UNCHANGED <<dbVars, hostVars, mode, idx, snap, readTag, result, histVars, envVars>>

\* Mutant of RollbackNext: steps are taken in ascending order.
RollbackNextAscending(p) ==
  /\ pc[p] = "rbnext"
  /\ \E i \in todo[p] :
       /\ \A j \in todo[p] : j >= i
       /\ idx' = [idx EXCEPT ![p] = i]
       /\ todo' = [todo EXCEPT ![p] = @ \ {i}]
  /\ Goto(p, "load")
  /\ UNCHANGED <<dbVars, hostVars, mode, snap, readTag, result, histVars, envVars>>

\* Steps are taken in descending order.
RollbackNext(p) ==
  /\ pc[p] = "rbnext"
  /\ \E i \in todo[p] :
       /\ \A j \in todo[p] : j <= i
       /\ idx' = [idx EXCEPT ![p] = i]
       /\ todo' = [todo EXCEPT ![p] = @ \ {i}]
  /\ Goto(p, "load")
  /\ UNCHANGED <<dbVars, hostVars, mode, snap, readTag, result, histVars, envVars>>

RollbackRecord(p) ==
  /\ pc[p] = "record"
  /\ mode[p] # "forward"
  /\ result[p] = "success"
  /\ step' = [step EXCEPT ![idx[p]] = "rolled_back"]
  /\ Returned(p)
  /\ Goto(p, "rbnext")
  /\ UNCHANGED <<plan, autoRollback, attached, svcTag, hostVars, mode, idx, snap, todo, readTag, histVars, envVars>>

\* A failed rollback is logged and the loop goes on.
RollbackStepFailed(p) ==
  /\ pc[p] = "record"
  /\ mode[p] # "forward"
  /\ result[p] # "success"
  /\ rbFailed' = rbFailed \union {idx[p]}
  /\ Returned(p)
  /\ Goto(p, "rbnext")
  /\ UNCHANGED <<dbVars, hostVars, mode, idx, snap, todo, readTag,
                 started, terminal, announced, envVars>>

\* Writing ROLLED_BACK onto the step throws: logged as a failed rollback too.
RollbackRecordFault(p) ==
  /\ pc[p] = "record"
  /\ mode[p] # "forward"
  /\ result[p] = "success"
  /\ faults < MaxFaults
  /\ faults' = faults + 1
  /\ rbFailed' = rbFailed \union {idx[p]}
  /\ Returned(p)
  /\ Goto(p, "rbnext")
  /\ UNCHANGED <<dbVars, hostVars, mode, idx, snap, todo, readTag,
                 started, terminal, announced, crashes>>

\* Mutant of RollbackFinish: steps are left over.
RollbackFinishEarly(p) ==
  /\ pc[p] = "rbnext"
  /\ plan' = "rolled_back"
  /\ Emit(p, "rolled_back")
  /\ Goto(p, "done")
  /\ UNCHANGED <<autoRollback, step, attached, svcTag, hostVars, mode, idx, snap, todo, readTag, result,
                 rbFailed, started, envVars>>

RollbackFinish(p) ==
  /\ pc[p] = "rbnext"
  /\ todo[p] = {}
  /\ plan' = "rolled_back"
  /\ Emit(p, "rolled_back")
  /\ Goto(p, "done")
  /\ UNCHANGED <<autoRollback, step, attached, svcTag, hostVars, mode, idx, snap, todo, readTag, result,
                 rbFailed, started, envVars>>

----------------------------------------------------------------------------
(* cancelPlan *)

CancelLoad(c) ==
  /\ pc[c] = "idle"
  /\ plan \in {"pending", "running"}
  /\ Goto(c, "skip")
  /\ UNCHANGED <<dbVars, hostVars, mode, idx, snap, todo, readTag, result, histVars, envVars>>

CancelSkip(c) ==
  /\ pc[c] = "skip"
  /\ step' = [i \in Steps |-> IF step[i] = "pending" THEN "skipped" ELSE step[i]]
  /\ Goto(c, "cancel")
  /\ UNCHANGED <<plan, autoRollback, attached, svcTag, hostVars, mode, idx, snap, todo, readTag, result,
                 histVars, envVars>>

CancelWrite(c) ==
  /\ pc[c] = "cancel"
  /\ plan' = "cancelled"
  /\ Goto(c, "done")
  /\ UNCHANGED <<autoRollback, step, attached, svcTag, hostVars, mode, idx, snap, todo, readTag, result,
                 histVars, envVars>>

----------------------------------------------------------------------------
(* The environment *)

\* Mutant of Fault: executePlan has no catch block.
FaultUncaught(p) ==
  /\ faults < MaxFaults
  /\ \/ pc[p] \in {"start", "next", "check", "fail", "catch", "rbread", "skip", "cancel"}
     \/ pc[p] = "rbnext" /\ todo[p] = {}
     \/ pc[p] = "record" /\ mode[p] = "forward" /\ result[p] = "error"
  /\ ~(pc[p] = "next" /\ idx[p] <= NumSteps /\ SdOf[idx[p]] \notin snap[p])
  /\ faults' = faults + 1
  /\ Goto(p, "dead")
  /\ UNCHANGED <<dbVars, hostVars, mode, idx, snap, todo, readTag, result, histVars, crashes>>

\* A database call of executePlan, rollbackPlan or cancelPlan throws.  Inside
\* executePlan's try block that leads to its catch block; anywhere else the
\* promise is rejected and the request is over.
Fault(p) ==
  /\ faults < MaxFaults
  /\ \/ pc[p] \in {"start", "next", "check", "fail", "catch", "rbread", "skip", "cancel"}
     \/ pc[p] = "rbnext" /\ todo[p] = {}
     \/ pc[p] = "record" /\ mode[p] = "forward" /\ result[p] = "error"
  /\ ~(pc[p] = "next" /\ idx[p] <= NumSteps /\ SdOf[idx[p]] \notin snap[p])
  /\ faults' = faults + 1
  /\ Goto(p, IF p \in Executors /\ mode[p] # "catch" /\ pc[p] \notin {"start", "catch"}
               THEN "catch" ELSE "dead")
  /\ UNCHANGED <<dbVars, hostVars, mode, idx, snap, todo, readTag, result, histVars, crashes>>

\* The Node process dies and restarts: no plan is resumed at boot.
Crash ==
  /\ crashes < MaxCrashes
  /\ \E p \in Procs : Running(p)
  /\ crashes' = crashes + 1
  /\ pc' = [p \in Procs |-> IF Running(p) THEN "dead" ELSE pc[p]]
  /\ UNCHANGED <<dbVars, hostVars, mode, idx, snap, todo, readTag, result, histVars, faults>>

\* An operator removes a deployment; its steps keep a null reference.
DeleteDeployment(d) ==
  /\ d \in attached
  /\ Cardinality(Deployments \ attached) < MaxDeletes
  /\ attached' = attached \ {d}
  /\ UNCHANGED <<plan, autoRollback, step, svcTag, hostVars, procVars, histVars, envVars>>

----------------------------------------------------------------------------
DeployService(p) ==
  \/ DeployLoad(p) \/ DeployGone(p) \/ DeployTag(p) \/ DeployGenerate(p) \/ DeployWrite(p)
  \/ DeployUp(p) \/ DeploySucceed(p) \/ DeployFail(p)

RollbackPlan(p) ==
  \/ RollbackLoad(p) \/ RollbackNext(p) \/ RollbackRecord(p) \/ RollbackStepFailed(p)
  \/ RollbackFinish(p)

ExecutePlan(e) ==
  \/ ExecuteLoad(e) \/ ExecuteStart(e) \/ SkipDetached(e) \/ BeginStep(e) \/ HealthCheck(e)
  \/ RecordStep(e) \/ StepPassed(e) \/ StepFailedRollback(e) \/ StepFailedHalt(e)
  \/ FailPlan(e) \/ CompletePlan(e) \/ CatchRollback(e) \/ CatchFail(e)
  \/ DeployService(e) \/ RollbackPlan(e)

CancelPlan(c) == CancelLoad(c) \/ CancelSkip(c) \/ CancelWrite(c)

ManualRollback(r) == RollbackRequest(r) \/ DeployService(r) \/ RollbackPlan(r)

Next ==
  \/ \E e \in Executors : ExecutePlan(e) \/ RecordRetry(e)
  \/ \E c \in Cancellers : CancelPlan(c)
  \/ \E r \in Rollbackers : ManualRollback(r)
  \/ \E p \in Executors \union Rollbackers : RollbackRecordFault(p)
  \/ \E p \in Procs : Fault(p)
  \/ \E d \in Deployments : DeleteDeployment(d)
  \/ Crash

\* Every SSH, Docker and database call returns or times out, so a request
\* that is running takes its next step.  Nobody has to send a request.
Fairness ==
  /\ \A e \in Executors : WF_vars(Running(e) /\ ExecutePlan(e))
  /\ \A r \in Rollbackers : WF_vars(Running(r) /\ ManualRollback(r))

Spec == Init /\ [][Next]_vars /\ Fairness
----------------------------------------------------------------------------
(* Properties.  All but the last two hold when the plan has one executor. *)

\* executePlan's loop stops at the first failed step: while an execution goes
\* forward, every step before the current one that had a deployment has
\* succeeded, whatever a concurrent cancel wrote.
StepGate ==
  \A e \in Executors : Forward(e) =>
    \A j \in Steps : j < idx[e] /\ SdOf[j] \in snap[e] => step[j] = "success"

\* rollbackPlan: a plan is marked rolled_back only when every deploy step that
\* succeeded or was cut off while running has been rolled back, except those
\* whose rollback was tried and failed, or whose deployment is gone.
RollbackCoverage ==
  plan = "rolled_back" => ToRollback \subseteq rbFailed

\* rollbackPlan goes in descending order: while it redeploys a step, no later
\* deploy step is still in place unless its rollback was tried and failed.
RollbackReversed ==
  \A p \in Procs : mode[p] # "forward" /\ pc[p] \in DeployPcs \union {"record"} =>
    \A j \in ToRollback : j > idx[p] => j \in rbFailed

\* deployService writes Service.imageTag only when it differs from the row it
\* loaded: for a step recorded as rolled_back on a managed host, the row, the
\* compose file and the container are nevertheless all back at previousTag,
\* also when a manual rollback overlaps the automatic one.
RolledBackRestored ==
  \A i \in Steps : step[i] = "rolled_back" /\ Kind[SdOf[i]] = "managed" =>
    /\ live[SdOf[i]] = "previous"
    /\ file[SdOf[i]] = "previous"
    /\ svcTag[ServiceOf[SdOf[i]]] = "previous"

\* executePlan's last write: a plan marked completed, that nobody asked to roll
\* back, has every step of a remaining deployment done and every managed
\* container on the target image.
CompletedMeansDeployed ==
  plan = "completed" /\ (\A r \in Rollbackers : pc[r] = "idle") =>
    \A i \in Steps : SdOf[i] \in attached =>
      /\ step[i] = "success"
      /\ ActionOf[i] = "deploy" /\ Kind[SdOf[i]] = "managed" => live[SdOf[i]] = "target"

\* "this is the ONE terminal event for an auto-rolled-back plan": an execution
\* (or a manual rollback) that returns normally emitted exactly one terminal
\* webhook, and none emits two, even when rollbackPlan throws and is run again
\* by the catch block.
OneTerminalEvent ==
  \A p \in Executors \union Rollbackers :
    /\ terminal[p] <= 1
    /\ pc[p] = "done" => terminal[p] = 1

\* Subscribers end up knowing the outcome: with at most one failing database
\* call and no crash, when every request is over the last terminal webhook
\* carries the status the plan has (a cancelled plan has no webhook).
AnnouncedOutcome ==
  /\ faults <= 1 /\ crashes = 0
  /\ \A p \in Procs : ~Running(p)
  /\ plan \in {"completed", "failed", "rolled_back"}
  => announced = plan

\* executePlan's catch block: one failing database call cannot leave the plan
\* in status running; only a crash or a second failure can.
PlanSettles ==
  plan = "running" ~> (plan # "running" \/ crashes > 0 \/ faults > 1)

\* docs/guides/deployment-plans.md: "A plan can only be executed once."
ExecutedOnce == started <= 1
=============================================================================
