----------------------------- MODULE AgentStatus -----------------------------
(***************************************************************************)
(* One monitored server: the agent on the host (bridgeport-agent/main.go), *)
(* the row of the server, the ingest route with its heartbeat throttle     *)
(* (src/routes/metrics.ts), the staleness check of the scheduler, and      *)
(* deployAgent and removeAgent (src/services/agent-deploy.ts).             *)
(*                                                                         *)
(* Times are ages, counted up to just past the offline threshold.  Remote  *)
(* work of a deployment may take any time; database calls take none.       *)
(***************************************************************************)
EXTENDS Integers

CONSTANTS
  Interval,    \* the agent's collection interval
  Window,      \* windowMs of agentHeartbeatThrottle
  Stale,       \* agentStaleThresholdMs
  Offline,     \* agentOfflineThresholdMs
  MaxLosses,   \* bound: failing database calls and remote commands, and missing SSH keys
  MaxCalls     \* bound: requests to deploy, to regenerate the token, to remove

ASSUME ThresholdAssumption ==
  /\ Interval \in Nat /\ Window \in Nat \ {0} /\ Stale \in Nat /\ Offline \in Nat
  /\ Interval <= Offline /\ Stale <= Offline

VARIABLES
  agent,     \* on the host: running, its token, time since its last push
  server,    \* the Server row: metricsMode, agentToken, agentStatus, and the ages of
             \* lastAgentPushAt and agentStatusChangedAt
  stamp,     \* age of the throttle's stamp
  push,      \* the push being handled: where, if it writes the server row, and if the
             \* status it has read was another one than active
  check,     \* the staleness check: where, the status it will write, and the history it saw
  job,       \* the request under way on the agent: where, and the token it installs
  silence,   \* history: time since a push was last answered with success
  steady,    \* history: time since the agent was last silent for more than its interval
  lost,      \* history: heartbeats rolled back since one was written
  losses, calls

agentVars == <<agent, server, stamp, push, check, job, silence, steady, lost, losses, calls>>

Null == -1
Unset == 0
Old == Offline + 1
Older(a) == IF a = Null \/ a = Old THEN a ELSE a + 1
NoPush == [at |-> "idle", writes |-> FALSE, activates |-> FALSE]
NoCheck == [at |-> "idle", target |-> "none", steady |-> 0, lost |-> 0]
NoJob == [at |-> "idle", token |-> Unset]

\* Init: a server that has never had an agent.
AgentInit ==
  /\ agent = [up |-> FALSE, token |-> Unset, idle |-> Interval]
  /\ server = [mode |-> "other", token |-> Unset, status |-> "unknown",
               push |-> Null, changed |-> Null]
  /\ stamp = Null
  /\ push = NoPush /\ check = NoCheck /\ job = NoJob
  /\ silence = Old /\ steady = 0 /\ lost = 0
  /\ losses = 0 /\ calls = 0

Fault == losses < MaxLosses /\ losses' = losses + 1
SetStatus(s) == [server EXCEPT !.status = s, !.changed = 0]

----------------------------------------------------------------------------
(* The agent pushes, POST /api/metrics/ingest *)

Accepted == server.mode = "agent" /\ server.token = agent.token
Due == agent.up /\ agent.idle = Interval /\ push.at = "idle"

PushRefused ==
  /\ Due /\ ~Accepted
  /\ agent' = [agent EXCEPT !.idle = 0]
  /\ UNCHANGED <<server, stamp, push, check, job, silence, losses, calls, steady, lost>>

\* Mutant of ShouldWrite: every push renews the stamp.
ShouldWriteSliding ==
  IF stamp # Null /\ stamp < Window THEN [writes |-> FALSE, stamp |-> 0]
                                    ELSE [writes |-> TRUE, stamp |-> 0]

\* createThrottle: the stamp is renewed only by a push that may write.
ShouldWrite ==
  IF stamp # Null /\ stamp < Window THEN [writes |-> FALSE, stamp |-> stamp]
                                    ELSE [writes |-> TRUE, stamp |-> 0]

\* The row is read; a change of status, health or version writes it without
\* asking the throttle.
PushRead ==
  /\ Due /\ Accepted
  /\ agent' = [agent EXCEPT !.idle = 0]
  /\ \E otherChange \in BOOLEAN :
       LET activates == server.status # "active"
           material == activates \/ otherChange
       IN /\ push' = [at |-> "commit", writes |-> material \/ ShouldWrite.writes,
                      activates |-> activates]
          /\ stamp' = IF material THEN stamp ELSE ShouldWrite.stamp
  /\ UNCHANGED <<server, check, job, silence, losses, calls, steady, lost>>

\* Mutant of PushCommit: only an agent that connects is made active.
PushCommitFirst ==
  /\ push.at = "commit"
  /\ server' = IF push.writes
              THEN [server EXCEPT !.push = 0,
                               !.status = IF @ \in {"waiting", "deploying"} THEN "active" ELSE @]
              ELSE server
  /\ push' = NoPush
  /\ silence' = 0
  /\ lost' = IF push.writes THEN 0 ELSE lost
  /\ UNCHANGED <<agent, stamp, check, job, losses, calls, steady>>

\* One transaction; agentStatusChangedAt goes with a change of the status that
\* was read only.
PushCommit ==
  /\ push.at = "commit"
  /\ server' = IF push.writes
              THEN [server EXCEPT !.status = "active", !.push = 0,
                               !.changed = IF push.activates THEN 0 ELSE @]
              ELSE server
  /\ push' = NoPush
  /\ silence' = 0
  /\ lost' = IF push.writes THEN 0 ELSE lost
  /\ UNCHANGED <<agent, stamp, check, job, losses, calls, steady>>

\* The transaction is rolled back, but the throttle has been stamped.
PushFails ==
  /\ push.at = "commit"
  /\ Fault
  /\ push' = NoPush
  /\ lost' = IF push.writes THEN lost + 1 ELSE lost
  /\ UNCHANGED <<agent, server, stamp, check, job, silence, calls, steady>>

AgentDies ==
  /\ agent.up
  /\ agent' = [agent EXCEPT !.up = FALSE]
  /\ UNCHANGED <<server, stamp, push, check, job, silence, losses, calls, steady, lost>>

----------------------------------------------------------------------------
(* runAgentStalenessCheck *)

\* What the first query and loop decide of a server that has pushed before.
PushedTarget ==
  IF server.mode # "agent" \/ server.push = Null
     \/ server.status \notin {"active", "stale", "waiting"} THEN "none"
  ELSE IF server.push > Offline THEN "offline"
  ELSE IF server.push > Stale /\ server.status = "active" THEN "stale"
  ELSE "none"

\* What the second query and loop decide of one that never has.
NeverTarget ==
  IF server.mode # "agent" \/ server.push # Null \/ server.changed = Null
     \/ server.status \notin {"waiting", "deploying", "stale"} THEN "none"
  ELSE IF server.changed > Offline THEN "offline"
  ELSE IF server.changed > Stale /\ server.status = "waiting" THEN "stale"
  ELSE "none"

CheckPushed ==
  /\ check.at = "idle"
  /\ check' = [at |-> IF PushedTarget = "none" THEN "never" ELSE "markPushed",
               target |-> PushedTarget, steady |-> steady, lost |-> lost]
  /\ UNCHANGED <<agent, server, stamp, push, job, silence, losses, calls, steady, lost>>

\* After the event and, for offline, the bounce tracker: the update.
CheckMarkPushed ==
  /\ check.at = "markPushed"
  /\ server' = SetStatus(check.target)
  /\ check' = [check EXCEPT !.at = "never"]
  /\ UNCHANGED <<agent, stamp, push, job, silence, losses, calls, steady, lost>>

CheckNever ==
  /\ check.at = "never"
  /\ check' = IF NeverTarget = "none" THEN NoCheck
              ELSE [at |-> "markNever", target |-> NeverTarget, steady |-> steady, lost |-> lost]
  /\ UNCHANGED <<agent, server, stamp, push, job, silence, losses, calls, steady, lost>>

CheckMarkNever ==
  /\ check.at = "markNever"
  /\ server' = SetStatus(check.target)
  /\ check' = NoCheck
  /\ UNCHANGED <<agent, stamp, push, job, silence, losses, calls, steady, lost>>

CheckFails ==
  /\ check.at # "idle"
  /\ Fault
  /\ check' = NoCheck
  /\ UNCHANGED <<agent, server, stamp, push, job, silence, calls, steady, lost>>

----------------------------------------------------------------------------
(* deployAgent, the token route and removeAgent, one request at a time *)

Request(l, t) ==
  /\ job.at = "idle"
  /\ calls < MaxCalls /\ calls' = calls + 1
  /\ job' = [at |-> l, token |-> t]

\* The token is the one of the row, or a new one.
DeployBegin ==
  /\ Request("mark", IF server.token = Unset THEN calls + 1 ELSE server.token)
  /\ server' = [server EXCEPT !.token = IF @ = Unset THEN calls + 1 ELSE @]
  /\ UNCHANGED <<agent, stamp, push, check, silence, losses, steady, lost>>

Regenerate ==
  /\ server.mode = "agent"
  /\ Request("mark", calls + 1)
  /\ server' = [server EXCEPT !.token = calls + 1]
  /\ UNCHANGED <<agent, stamp, push, check, silence, losses, steady, lost>>

DeployMark ==
  /\ job.at = "mark"
  /\ server' = SetStatus("deploying")
  /\ job' = [job EXCEPT !.at = "stop"]
  /\ UNCHANGED <<agent, stamp, push, check, silence, losses, calls, steady, lost>>

\* No SSH key, or no agent binary: an early return, before or inside the try.
DeployReturnsEarly ==
  /\ job.at = "stop"
  /\ Fault
  /\ job' = NoJob
  /\ UNCHANGED <<agent, server, stamp, push, check, silence, calls, steady, lost>>

DeployStop ==
  /\ job.at = "stop"
  /\ agent' = [agent EXCEPT !.up = FALSE]
  /\ job' = [job EXCEPT !.at = "start"]
  /\ UNCHANGED <<server, stamp, push, check, silence, losses, calls, steady, lost>>

\* The unit file carries the token; the agent pushes as soon as it starts.
DeployStart ==
  /\ job.at = "start"
  /\ agent' = [up |-> TRUE, token |-> job.token, idle |-> Interval]
  /\ job' = [job EXCEPT !.at = "finish"]
  /\ UNCHANGED <<server, stamp, push, check, silence, losses, calls, steady, lost>>

DeployFinish ==
  /\ job.at = "finish"
  /\ server' = [SetStatus("waiting") EXCEPT !.mode = "agent"]
  /\ job' = NoJob
  /\ UNCHANGED <<agent, stamp, push, check, silence, losses, calls, steady, lost>>

\* A remote command fails: the catch resets the status.
DeployFails ==
  /\ job.at \in {"stop", "start", "finish"}
  /\ Fault
  /\ server' = SetStatus("unknown")
  /\ job' = NoJob
  /\ UNCHANGED <<agent, stamp, push, check, silence, calls, steady, lost>>

RemoveBegin ==
  /\ server.mode = "agent"
  /\ Request("remove", Unset)
  /\ agent' = [agent EXCEPT !.up = FALSE]
  /\ UNCHANGED <<server, stamp, push, check, silence, losses, steady, lost>>

RemoveFinish ==
  /\ job.at = "remove"
  /\ server' = [server EXCEPT !.mode = "other", !.token = Unset]
  /\ job' = NoJob
  /\ UNCHANGED <<agent, stamp, push, check, silence, losses, calls, steady, lost>>

----------------------------------------------------------------------------
(* Time, and restarts of the server *)

\* The throttle is in memory; a request under way is not resumed.
Restart ==
  /\ Fault
  /\ stamp' = Null
  /\ push' = NoPush /\ check' = NoCheck /\ job' = NoJob
  /\ UNCHANGED <<agent, server, silence, calls, steady, lost>>

\* A running agent does not let its interval pass.
AgentTick ==
  /\ push.at = "idle" /\ check.at = "idle"
  /\ agent.up => agent.idle < Interval
  /\ agent' = [agent EXCEPT !.idle = IF @ < Interval THEN @ + 1 ELSE @]
  /\ server' = [server EXCEPT !.push = Older(@), !.changed = Older(@)]
  /\ stamp' = Older(stamp)
  /\ silence' = Older(silence)
  /\ steady' = IF silence' > Interval THEN 0 ELSE Older(steady)
  /\ UNCHANGED <<push, check, job, lost, losses, calls>>

Ingest == PushRefused \/ PushRead \/ PushCommit
Staleness == CheckPushed \/ CheckMarkPushed \/ CheckNever \/ CheckMarkNever
Deploy == DeployMark \/ DeployStop \/ DeployStart \/ DeployFinish \/ RemoveFinish

AgentNext ==
  \/ Ingest \/ PushFails \/ AgentDies
  \/ Staleness \/ CheckFails
  \/ DeployBegin \/ Regenerate \/ RemoveBegin
  \/ Deploy \/ DeployReturnsEarly \/ DeployFails
  \/ Restart \/ AgentTick

\* Agents push, the check is scheduled for ever, requests end, and time passes
\* between checks, however often they are made.
AgentFairness ==
  /\ WF_agentVars(Ingest) /\ WF_agentVars(Staleness) /\ WF_agentVars(Deploy)
  /\ SF_agentVars(AgentTick)

AgentSpec == AgentInit /\ [][AgentNext]_agentVars /\ AgentFairness

----------------------------------------------------------------------------
(* Properties *)

Marked == server'.status \in {"stale", "offline"} /\ server'.status # server.status

\* As long as pushes are accepted on schedule, one is due to write the row within
\* this time of the last that was.
Beat == Window + Interval - 1

SteadyMark == Marked => check.steady <= Stale \/ (check.lost + 1) * Beat > Stale

\* The heartbeat throttle against the staleness check: an agent whose pushes
\* were accepted on schedule for as long as the stale threshold is not marked
\* stale or offline, whatever heartbeats the throttle skipped; unless so many
\* heartbeats in a row were rolled back that the threshold leaves no room for them.
SteadyNeverMarked == [][SteadyMark]_agentVars

\* The agent runs, with the token of the row, and nobody is changing that.
Running == agent.up /\ Accepted /\ job.at = "idle"
==============================================================================
