-------------------------- MODULE MCPlanExecution --------------------------
(***************************************************************************)
(* Instances of PlanExecution for TLC: a step list buildDeploymentPlan     *)
(* makes.  A service api runs on two managed hosts; the first deployment   *)
(* is followed by a health check.                                          *)
(***************************************************************************)
EXTENDS PlanExecution

MCActionOf  == <<"deploy", "health_check", "deploy">>
MCSdOf      == <<"api1", "api1", "api2">>
MCServiceOf == [d \in Deployments |-> "api"]
MCKind      == [d \in Deployments |-> "managed"]
=============================================================================
