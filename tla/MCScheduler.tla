----------------------------- MODULE MCScheduler -----------------------------
(***************************************************************************)
(* Who may act, and periodic jobs of the scheduler against what happens    *)
(* between their steps, for TLC.  The parts have no row in common, so a    *)
(* behaviour runs one of them:                                             *)
(*   account    two requests at a time over two users, a service account,  *)
(*              a token and two environments;                              *)
(*   container  the health of one container and its alerts;                *)
(*   server     the same for a server, with checks requested by hand;      *)
(*   agent      the status of an agent: it pushes twice per window of the  *)
(*              throttle, and the stale threshold leaves room for one      *)
(*              heartbeat lost to a rolled back transaction, as the        *)
(*              defaults (30 s, 180 s, 300 s) do;                          *)
(*   dump       two backups kept on a server, and the cleanup;             *)
(*   upload     a backup uploaded to object storage, which no timeout      *)
(*              bounds, and a user who deletes it;                         *)
(*   versions   an image whose pushes have tags of their own, with one     *)
(*              check by hand and one failed deploy, deploy of another     *)
(*              version or cleanup of digests;                             *)
(*   rolling    an image whose pushes all have one tag, without checks by  *)
(*              hand and failures.                                         *)
(***************************************************************************)
EXTENDS Accounts, HealthAlerts, AgentStatus, BackupRuns

CONSTANTS Parts, u1, u2, a1, t1, r1, r2

VARIABLES
  part,
  pushed, rows, deployed, available, used, tag, host, update, plan, manuals, events

Container == INSTANCE HealthAlerts WITH Flow <- "container", MaxFlips <- 7, MaxManual <- 0

Versions == INSTANCE ImageUpdates WITH
              Services <- <<"s1", "s2">>, Rolling <- FALSE, MaxPushes <- 2, MaxManual <- 1,
              Kinds <- {"deploy", "cleanup", "failure"}, MaxEvents <- 1,
              check <- update, exec <- plan
Latest == INSTANCE ImageUpdates WITH
            Services <- <<"s1", "s2">>, Rolling <- TRUE, MaxPushes <- 3, MaxManual <- 0,
            Kinds <- {"deploy", "cleanup"}, MaxEvents <- 2,
            check <- update, exec <- plan

imageVars == <<pushed, rows, deployed, available, used, tag, host, update, plan, manuals, events>>
mcVars    == <<part, vars, alertVars, agentVars, backupVars, imageVars>>

MCInit ==
  /\ part \in Parts
  /\ Init /\ AlertInit /\ AgentInit /\ BackupInit
  /\ IF part = "rolling" THEN Latest!Init ELSE Versions!Init

\* What a session does to an environment no property looks at.
InAccount ==
  \A r \in Requests : request'[r].pc = "handle" /\ request'[r].token = None
                     => request'[r].op[1] \notin {"work", "plan"}

\* Which of the backups a part has, and whether users delete them.
InDump == (\A b \in Uploaded : row'[b] = "none") /\ deletes' = 0
InUpload == \A b \in Backups \ Uploaded : row'[b] = "none"

MCNext ==
  \/ part = "account" /\ Next /\ InAccount /\ UNCHANGED <<part, alertVars, agentVars, backupVars, imageVars>>
  \/ /\ \/ part = "container" /\ Container!AlertNext
        \/ part = "server" /\ AlertNext
     /\ UNCHANGED <<part, vars, agentVars, backupVars, imageVars>>
  \/ part = "agent" /\ AgentNext /\ UNCHANGED <<part, vars, alertVars, backupVars, imageVars>>
  \/ /\ part \in {"dump", "upload"}
     /\ BackupNext
     /\ IF part = "dump" THEN InDump ELSE InUpload
     /\ UNCHANGED <<part, vars, alertVars, agentVars, imageVars>>
  \/ /\ \/ part = "versions" /\ Versions!Next
        \/ part = "rolling" /\ Latest!Next
     /\ UNCHANGED <<part, vars, alertVars, agentVars, backupVars>>

\* Intervals fire for ever; probes, database calls and remote commands come
\* back, but for the uploads, which nothing bounds; agents push; time passes
\* between the checks of their status, however often these are made.
MCFairness ==
  /\ WF_alertVars(part = "server" /\ RunStep(1))
  /\ WF_agentVars(part = "agent" /\ Ingest)
  /\ WF_agentVars(part = "agent" /\ Staleness)
  /\ WF_agentVars(part = "agent" /\ Deploy)
  /\ SF_agentVars(part = "agent" /\ AgentTick)
  /\ WF_backupVars(part \in {"dump", "upload"} /\ Age)
  /\ WF_backupVars(part \in {"dump", "upload"} /\ Sweep)
  /\ WF_backupVars(part = "upload" /\ DeleteRow)
  /\ \A b \in Backups :
       WF_backupVars(part \in {"dump", "upload"} /\ exec[b] \notin Slow /\ Execute(b))
  /\ WF_imageVars(part = "versions" /\ Versions!Scheduled)
  /\ WF_imageVars(part = "versions" /\ Versions!CheckStep("manual"))
  /\ WF_imageVars(part = "versions" /\ Versions!Execute)
  /\ WF_imageVars(part = "rolling" /\ Latest!Scheduled)
  /\ WF_imageVars(part = "rolling" /\ Latest!Execute)

MCSpec == MCInit /\ [][MCNext]_mcVars /\ MCFairness

----------------------------------------------------------------------------
\* docs/guides/health-checks.md, bounce logic: checks that keep failing reach
\* the threshold, and an alert is sent for a server that stays down.
StaysDownAlerted ==
  <>[](part = "server" /\ truth = "bad") => <>(\E i \in 1..Len(notices) : notices[i].kind = "alert")

\* docs/guides/monitoring-servers.md, lifecycle: every push leads back to
\* active.  An agent that keeps running with the row's token is shown active
\* for good, whatever a check with an older read of the row has written.
RunningAgentActive == <>[](part = "agent" /\ Running) => <>[](server.status = "active")

\* docs/guides/container-images.md: the deployed digest is "the source of truth
\* for what is running", and auto-update deploys what is newer.  When pushes
\* end, every service comes to run the last one, the image says so and announces
\* no update, although checks and deploys read and write the image in between
\* and a deploy fails, an old version is deployed or old digests are deleted.
ImageCatchesUp ==
  /\ part = "versions" => <>[](Versions!UpToDate)
  /\ part = "rolling" => <>[](Latest!UpToDate)

\* A dump or upload that crashed or hangs does not stay in progress for ever.
\* ("b2" is like "b1".)
InProgressEnds ==
  \A b \in {"b1", "b3"} :
    (part \in {"dump", "upload"} /\ row[b] = "in_progress") ~> row[b] # "in_progress"
==============================================================================
