---------------------------- MODULE ImageUpdates ----------------------------
(***************************************************************************)
(* Automatic updates of one container image: the update check of the       *)
(* scheduler and of the route (scheduler.ts, syncDigestsFromRegistry of    *)
(* image-management.ts), the plan it launches, and what a deploy records   *)
(* on the image (recordTagDeployment).                                     *)
(*                                                                         *)
(* Pushes are numbered: push n is the digest n.  Every push has its own    *)
(* tag n, or, when Rolling, all carry the tag Latest, which the registry   *)
(* lists for the last one alone.  A plan is reduced to what PlanExecution  *)
(* shows of it: one service after the other, until a deploy fails; then    *)
(* the deployed ones get their previous tag back, in reverse.  Deploys     *)
(* fail in their remote commands.  One plan runs at a time, and scheduled  *)
(* checks are far enough apart not to begin beside one.                    *)
(***************************************************************************)
EXTENDS Integers, Sequences, FiniteSetsExt

CONSTANTS
  Services,    \* sequence of the services with this image, in the order of the plan
  Rolling,
  MaxPushes,   \* bound
  MaxManual,   \* bound: checks requested through the API
  Kinds,       \* which of "deploy" (by a user), "cleanup" and "failure" happen
  MaxEvents    \* bound: how many of them

VARIABLES
  pushed,     \* the last push
  rows,       \* the ImageDigest rows
  deployed, available,  \* deployedDigestId, updateAvailable of the ContainerImage
  used,       \* digests that history entries refer to
  tag,        \* Service.imageTag
  host,       \* the digest each service runs
  check,      \* the scheduled and the manual check
  exec,       \* the execution of a plan
  manuals, events

Latest == 0
Null == 0

image    == <<rows, deployed, available, used>>
runtime  == <<tag, host>>
counters == <<manuals, events>>
vars     == <<pushed, image, runtime, check, exec, counters>>

Positions == DOMAIN Services
NoCheck == [at |-> "idle", todo |-> {}, deployed |-> Null, newest |-> Null]
NoPlan  == [at |-> "idle", tag |-> Latest, i |-> 1, prev |-> <<>>, found |-> Null, back |-> FALSE]

FirstTag == IF Rolling THEN Latest ELSE 1

Init ==
  /\ pushed = 1
  /\ rows = {} /\ deployed = Null /\ available = FALSE /\ used = {}
  /\ tag = [i \in Positions |-> FirstTag]
  /\ host = [i \in Positions |-> 1]
  /\ check = [c \in {"scheduled", "manual"} |-> NoCheck]
  /\ exec = NoPlan
  /\ manuals = 0 /\ events = 0

\* The digests a listing shows, what a pull of a tag fetches, and the tag of a
\* digest by which it is deployed (getBestTag).
Listed == IF Rolling THEN {pushed} ELSE 1..pushed
Pull(t) == IF t = Latest THEN pushed ELSE t
BestTag(d) == IF Rolling THEN Latest ELSE d

\* The youngest row that has the tag; a row keeps the tag Latest when the
\* registry has moved it.
Resolve(t) ==
  IF t = Latest THEN (IF rows = {} THEN Null ELSE Max(rows))
  ELSE IF t \in rows THEN t ELSE Null

Happens(k) == k \in Kinds /\ events < MaxEvents /\ events' = events + 1

Push ==
  /\ pushed < MaxPushes
  /\ pushed' = pushed + 1
  /\ UNCHANGED <<image, runtime, check, exec, counters>>

----------------------------------------------------------------------------
(* syncDigestsFromRegistry and its callers *)

Move(c, l) == check' = [check EXCEPT ![c].at = l]
Begin(c) == check' = [check EXCEPT ![c] = [NoCheck EXCEPT !.at = "read", !.todo = Listed]]

\* runUpdateChecks, checkImageForUpdates: the tags are listed first.
CheckScheduled ==
  /\ check["scheduled"].at = "idle" /\ exec.at = "idle"
  /\ Begin("scheduled")
  /\ UNCHANGED <<pushed, image, runtime, exec, counters>>

\* POST /api/container-images/:id/check-updates, checkServiceUpdate.
CheckManual ==
  /\ check["manual"].at = "idle"
  /\ manuals < MaxManual /\ manuals' = manuals + 1
  /\ Begin("manual")
  /\ UNCHANGED <<pushed, image, runtime, exec, events>>

CheckRead(c) ==
  /\ check[c].at = "read"
  /\ check' = [check EXCEPT ![c].at = "find", ![c].deployed = deployed]
  /\ UNCHANGED <<pushed, image, runtime, exec, counters>>

CheckFind(c) ==
  /\ check[c].at = "find"
  /\ IF check[c].todo = {} THEN Move(c, "newest")
     ELSE IF Min(check[c].todo) \in rows
       THEN check' = [check EXCEPT ![c].todo = @ \ {Min(@)}]
       ELSE Move(c, "create")
  /\ UNCHANGED <<pushed, image, runtime, exec, counters>>

\* A row that the other check has created meanwhile makes the insert fail, which
\* ends this check.
CheckCreate(c) ==
  LET d == Min(check[c].todo)
  IN /\ check[c].at = "create"
     /\ rows' = rows \cup {d}
     /\ check' = [check EXCEPT ![c] = IF d \in rows THEN NoCheck
                                      ELSE [@ EXCEPT !.at = "find", !.todo = @ \ {d}]]
     /\ UNCHANGED <<pushed, deployed, available, used, runtime, exec, counters>>

CheckNewest(c) ==
  /\ check[c].at = "newest"
  /\ check' = [check EXCEPT ![c].at = "write", ![c].newest = IF rows = {} THEN Null ELSE Max(rows)]
  /\ UNCHANGED <<pushed, image, runtime, exec, counters>>

HasUpdate(c) == check[c].newest # Null /\ check[c].newest # check[c].deployed

\* The route is done; the scheduler goes on when there is an update.
CheckWrite(c) ==
  /\ check[c].at = "write"
  /\ available' = HasUpdate(c)
  /\ check' = [check EXCEPT ![c] = IF c = "scheduled" /\ HasUpdate(c)
                                    THEN [@ EXCEPT !.at = "launch"] ELSE NoCheck]
  /\ UNCHANGED <<pushed, rows, deployed, used, runtime, exec, counters>>

Start(t) == exec' = [NoPlan EXCEPT !.at = "tag", !.tag = t, !.prev = tag]

\* getImageDigest, then buildDeploymentPlan and executePlan; nothing is deployed
\* when the digest was cleaned up in between.
Launch ==
  /\ check["scheduled"].at = "launch"
  /\ IF check["scheduled"].newest \in rows
       THEN Start(BestTag(check["scheduled"].newest)) ELSE UNCHANGED exec
  /\ check' = [check EXCEPT !["scheduled"] = NoCheck]
  /\ UNCHANGED <<pushed, image, runtime, counters>>

\* POST /api/container-images/:id/deploy with a digest.
DeployRoute(d) ==
  /\ check["scheduled"].at = "idle" /\ exec.at = "idle"
  /\ d \in rows
  /\ Happens("deploy")
  /\ Start(BestTag(d))
  /\ UNCHANGED <<pushed, image, runtime, check, manuals>>

----------------------------------------------------------------------------
(* The deploys of a plan *)

Target == IF exec.back THEN exec.prev[exec.i] ELSE exec.tag

SetTag ==
  /\ exec.at = "tag"
  /\ tag' = [tag EXCEPT ![exec.i] = Target]
  /\ exec' = [exec EXCEPT !.at = "up"]
  /\ UNCHANGED <<pushed, image, host, check, counters>>

Up ==
  /\ exec.at = "up"
  /\ host' = [host EXCEPT ![exec.i] = Pull(Target)]
  /\ exec' = [exec EXCEPT !.at = "resolve"]
  /\ UNCHANGED <<pushed, image, tag, check, counters>>

ResolveDigest ==
  /\ exec.at = "resolve"
  /\ exec' = [exec EXCEPT !.at = "record", !.found = Resolve(Target)]
  /\ UNCHANGED <<pushed, image, runtime, check, counters>>

\* On to the next service, or back to the one before.
Onward ==
  exec' = IF exec.back
            THEN (IF exec.i = 1 THEN NoPlan ELSE [exec EXCEPT !.at = "tag", !.i = @ - 1])
            ELSE (IF exec.i = Len(Services) THEN NoPlan ELSE [exec EXCEPT !.at = "tag", !.i = @ + 1])

\* Mutant of Record: a rollback leaves the image alone.
RecordForward ==
  /\ exec.at = "record"
  /\ available' = FALSE
  /\ IF exec.found = Null \/ exec.back THEN UNCHANGED <<deployed, used>>
     ELSE deployed' = exec.found /\ used' = used \cup {exec.found}
  /\ Onward
  /\ UNCHANGED <<pushed, rows, runtime, check, counters>>

\* recordTagDeployment with success: the image, its deployments and the history.
Record ==
  /\ exec.at = "record"
  /\ available' = FALSE
  /\ IF exec.found = Null THEN UNCHANGED <<deployed, used>>
     ELSE deployed' = exec.found /\ used' = used \cup {exec.found}
  /\ Onward
  /\ UNCHANGED <<pushed, rows, runtime, check, counters>>

\* Mutant of DeployFails: a failed deploy is recorded like a successful one.
DeployFailsRecorded ==
  /\ exec.at \in {"tag", "up", "resolve"} /\ ~exec.back
  /\ Happens("failure")
  /\ deployed' = IF Resolve(Target) = Null THEN deployed ELSE Resolve(Target)
  /\ exec' = IF exec.i = 1 THEN NoPlan ELSE [exec EXCEPT !.at = "tag", !.back = TRUE, !.i = @ - 1]
  /\ UNCHANGED <<pushed, rows, available, used, runtime, check, manuals>>

\* The deploy fails before, in or after its compose up: the history entry leaves
\* the image alone, and the services before this one are rolled back.
DeployFails ==
  /\ exec.at \in {"tag", "up", "resolve"} /\ ~exec.back
  /\ Happens("failure")
  /\ exec' = IF exec.i = 1 THEN NoPlan ELSE [exec EXCEPT !.at = "tag", !.back = TRUE, !.i = @ - 1]
  /\ UNCHANGED <<pushed, image, runtime, check, manuals>>

----------------------------------------------------------------------------
\* cleanupOldImageDigests: old rows that neither a deployment nor the history
\* refers to.
Cleanup ==
  /\ Happens("cleanup")
  /\ \E old \in SUBSET (rows \ used) : old # {} /\ rows' = rows \ old
  /\ UNCHANGED <<pushed, deployed, available, used, runtime, check, exec, manuals>>

CheckStep(c) == CheckRead(c) \/ CheckFind(c) \/ CheckCreate(c) \/ CheckNewest(c) \/ CheckWrite(c)
Scheduled == CheckScheduled \/ CheckStep("scheduled") \/ Launch
Manual    == CheckManual \/ CheckStep("manual")
Execute   == SetTag \/ Up \/ ResolveDigest \/ Record

Next ==
  \/ Push \/ Scheduled \/ Manual \/ Execute \/ DeployFails \/ Cleanup
  \/ \E d \in 1..MaxPushes : DeployRoute(d)

----------------------------------------------------------------------------
\* Every service runs the last push, and the image says so.
UpToDate ==
  /\ \A i \in Positions : host[i] = pushed
  /\ deployed = pushed /\ ~available
=============================================================================
