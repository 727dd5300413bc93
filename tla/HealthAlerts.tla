---------------------------- MODULE HealthAlerts ----------------------------
(***************************************************************************)
(* How the scheduler notices that something fails and tells people: one    *)
(* watched resource, its row and its BounceTracker row.                    *)
(*                                                                         *)
(* Flow "server" is runServerHealthChecks (src/lib/scheduler.ts): the      *)
(* previous status is read with the list of servers, checkServerHealth     *)
(* probes and writes, the status is read again.  Flow "container" is the   *)
(* part of runMetricsCollection that looks at a container (its crashes or  *)
(* its health check, each with a tracker of its own): what it is now was   *)
(* collected first, the previous state is read just before the write.      *)
(*                                                                         *)
(* "bad" is unhealthy, exited or dead, "good" healthy or running, "mid"    *)
(* anything else (unknown, restarting, no health check).  A run is cut at  *)
(* its awaits; setInterval does not wait for the run before, so runs       *)
(* overlap.  Time is counted in units that are long against a run.         *)
(* The staleness check of an agent calls the tracker of its server, too;   *)
(* this is about servers without an agent.                                 *)
(***************************************************************************)
EXTENDS Integers, Sequences

CONSTANTS
  Runs,        \* scheduled runs under way at the same time
  Flow,        \* "server" or "container"
  Threshold,   \* bounceThreshold
  Cooldown,    \* bounceCooldown
  MaxFlips,  \* bound: how often the resource changes
  MaxManual,   \* bound: health checks requested through the API
  MaxBreaks    \* bound: failing database calls and missing SSH keys

ASSUME CooldownAssumption == Threshold \in Nat /\ Cooldown \in Nat

VARIABLES
  truth,     \* what the resource is
  status,    \* the status on its row
  tracker,   \* the BounceTracker row: exists, fails, and the age of alertSentAt
  run,       \* run -> where it is, the previous status, the status seen, the tracker read
  manual,    \* the manual check: where it is and what it saw
  notices,   \* the notifications sent, each with the time since the alert before
  observed,  \* history: failures noticed by runs since a run recorded a recovery
  quiet,     \* history: time since the last alert
  flips, checks, breaks

alertVars == <<truth, status, tracker, run, manual, notices, observed, quiet, flips, checks, breaks>>

States == IF Flow = "server" THEN {"good", "bad"} ELSE {"good", "mid", "bad"}
Never == Cooldown + 1       \* alertSentAt is null, or so old that it does not matter
NoTracker == [exists |-> FALSE, fails |-> 0, sent |-> FALSE, age |-> 0]
Idle == [at |-> "idle", prev |-> "mid", seen |-> "mid", read |-> NoTracker]

AlertInit ==
  /\ truth = "good"
  /\ status = "mid"
  /\ tracker = NoTracker
  /\ run = [r \in Runs |-> Idle]
  /\ manual = [at |-> "idle", seen |-> "mid"]
  /\ notices = <<>>
  /\ observed = 0
  /\ quiet = Never
  /\ flips = 0 /\ checks = 0 /\ breaks = 0

Goto(r, l) == run' = [run EXCEPT ![r].at = l]
Stop(r) == run' = [run EXCEPT ![r] = Idle]
Notify(kind) == notices' = Append(notices, [kind |-> kind, gap |-> quiet])
Resource == <<truth, flips>>
Others == <<manual, checks, breaks>>

----------------------------------------------------------------------------
(* The check itself *)

\* The list of servers is read with their status, or the containers of a server
\* are inspected.
BeginRun(r) ==
  /\ run[r].at = "idle"
  /\ run' = [run EXCEPT ![r] = IF Flow = "server"
                                THEN [Idle EXCEPT !.at = "probe", !.prev = status]
                                ELSE [Idle EXCEPT !.at = "prev", !.seen = truth]]
  /\ UNCHANGED <<Resource, status, tracker, Others, notices, observed, quiet>>

Probe(r) ==
  /\ run[r].at = "probe"
  /\ run' = [run EXCEPT ![r].at = "write", ![r].seen = truth]
  /\ UNCHANGED <<Resource, status, tracker, Others, notices, observed, quiet>>

\* Without an SSH key checkServerHealth returns unhealthy and writes nothing.
ProbeWithoutKey(r) ==
  /\ run[r].at = "probe"
  /\ breaks < MaxBreaks /\ breaks' = breaks + 1
  /\ Goto(r, "reread")
  /\ UNCHANGED <<Resource, status, tracker, manual, checks, notices, observed, quiet>>

ReadPrev(r) ==
  /\ run[r].at = "prev"
  /\ run' = [run EXCEPT ![r].at = "write", ![r].prev = status]
  /\ UNCHANGED <<Resource, status, tracker, Others, notices, observed, quiet>>

Failed(prev, now) == now = "bad" /\ prev # "bad"
Recovered(prev, now) == now = "good" /\ prev = "bad"

\* What a run does once it knows the status before and now.
Branch(r, now) ==
  LET prev == run[r].prev
  IN /\ run' = [run EXCEPT ![r] =
                  IF Failed(prev, now) THEN [@ EXCEPT !.at = "failure"]
                  ELSE IF Recovered(prev, now) THEN [@ EXCEPT !.at = "success"]
                  ELSE Idle]
     /\ observed' = IF Failed(prev, now) THEN observed + 1 ELSE observed

WriteStatus(r) ==
  /\ run[r].at = "write"
  /\ status' = run[r].seen
  /\ IF Flow = "server"
       THEN Goto(r, "reread") /\ UNCHANGED observed
       ELSE Branch(r, run[r].seen)
  /\ UNCHANGED <<Resource, tracker, Others, notices, quiet>>

Reread(r) ==
  /\ run[r].at = "reread"
  /\ Branch(r, status)
  /\ UNCHANGED <<Resource, status, tracker, Others, notices, quiet>>

----------------------------------------------------------------------------
(* recordFailure *)

FailureFind(r) ==
  /\ run[r].at = "failure"
  /\ run' = [run EXCEPT ![r].at = IF tracker.exists THEN "count" ELSE "create",
                        ![r].read = tracker]
  /\ UNCHANGED <<Resource, status, tracker, Others, notices, observed, quiet>>

\* A second create meets the unique constraint, which ends the run.
FailureCreate(r) ==
  /\ run[r].at = "create"
  /\ tracker' = IF tracker.exists THEN tracker
                ELSE [exists |-> TRUE, fails |-> 1, sent |-> FALSE, age |-> 0]
  /\ Stop(r)
  /\ UNCHANGED <<Resource, status, Others, notices, observed, quiet>>

FailureCount(r) ==
  /\ run[r].at = "count"
  /\ tracker' = [tracker EXCEPT !.fails = run[r].read.fails + 1]
  /\ Goto(r, "decide")
  /\ UNCHANGED <<Resource, status, Others, notices, observed, quiet>>

ShouldAlert(t) == t.fails + 1 >= Threshold /\ (~t.sent \/ t.age > Cooldown)

\* Mutant of FailureDecide: alertSentAt is set by the first alert only.
FailureDecideOnce(r) ==
  /\ run[r].at = "decide"
  /\ IF ShouldAlert(run[r].read)
       THEN /\ tracker' = IF tracker.sent THEN tracker ELSE [tracker EXCEPT !.sent = TRUE, !.age = 0]
            /\ Notify("alert")
            /\ quiet' = 0
       ELSE UNCHANGED <<tracker, notices, quiet>>
  /\ Stop(r)
  /\ UNCHANGED <<Resource, status, Others, observed>>

\* Decided on the tracker as it was read; alertSentAt first, then notifyAsync.
FailureDecide(r) ==
  /\ run[r].at = "decide"
  /\ IF ShouldAlert(run[r].read)
       THEN /\ tracker' = [tracker EXCEPT !.sent = TRUE, !.age = 0]
            /\ Notify("alert")
            /\ quiet' = 0
       ELSE UNCHANGED <<tracker, notices, quiet>>
  /\ Stop(r)
  /\ UNCHANGED <<Resource, status, Others, observed>>

----------------------------------------------------------------------------
(* recordSuccess *)

SuccessFind(r) ==
  /\ run[r].at = "success"
  /\ run' = [run EXCEPT ![r] = IF tracker.exists
                                THEN [@ EXCEPT !.at = "reset", !.read = tracker] ELSE Idle]
  /\ observed' = IF tracker.exists THEN observed ELSE 0
  /\ UNCHANGED <<Resource, status, tracker, Others, notices, quiet>>

\* Mutant of SuccessReset: alertSentAt is kept for the next cooldown.
SuccessResetKeepsAlert(r) ==
  /\ run[r].at = "reset"
  /\ tracker' = [tracker EXCEPT !.fails = 0]
  /\ IF run[r].read.fails > 0 /\ run[r].read.sent THEN Notify("recovery") ELSE UNCHANGED notices
  /\ observed' = 0
  /\ Stop(r)
  /\ UNCHANGED <<Resource, status, Others, quiet>>

\* Mutant of SuccessReset: the count goes on.
SuccessResetKeepsCount(r) ==
  /\ run[r].at = "reset"
  /\ tracker' = [tracker EXCEPT !.sent = FALSE, !.age = 0]
  /\ IF run[r].read.fails > 0 /\ run[r].read.sent THEN Notify("recovery") ELSE UNCHANGED notices
  /\ observed' = 0
  /\ Stop(r)
  /\ UNCHANGED <<Resource, status, Others, quiet>>

SuccessReset(r) ==
  /\ run[r].at = "reset"
  /\ tracker' = [tracker EXCEPT !.fails = 0, !.sent = FALSE, !.age = 0]
  /\ IF run[r].read.fails > 0 /\ run[r].read.sent THEN Notify("recovery") ELSE UNCHANGED notices
  /\ observed' = 0
  /\ Stop(r)
  /\ UNCHANGED <<Resource, status, Others, quiet>>

----------------------------------------------------------------------------
(* What happens beside the runs *)

\* A database call of a run throws: the run's catch logs it and that is all.
RunFails(r) ==
  /\ run[r].at # "idle"
  /\ breaks < MaxBreaks /\ breaks' = breaks + 1
  /\ Stop(r)
  /\ UNCHANGED <<Resource, status, tracker, manual, checks, notices, observed, quiet>>

\* POST /api/servers/:id/health and the monitoring routes: checkServerHealth
\* alone, without the tracker.
ManualProbe ==
  /\ Flow = "server"
  /\ manual.at = "idle"
  /\ checks < MaxManual /\ checks' = checks + 1
  /\ manual' = [at |-> "write", seen |-> truth]
  /\ UNCHANGED <<Resource, status, tracker, run, notices, observed, quiet, breaks>>

ManualWrite ==
  /\ manual.at = "write"
  /\ status' = manual.seen
  /\ manual' = [manual EXCEPT !.at = "idle"]
  /\ UNCHANGED <<Resource, tracker, run, notices, observed, quiet, checks, breaks>>

Change ==
  /\ flips < MaxFlips /\ flips' = flips + 1
  /\ \E s \in States \ {truth} : truth' = s
  /\ UNCHANGED <<status, tracker, run, Others, notices, observed, quiet>>

AlertTick ==
  /\ \A r \in Runs : run[r].at \in {"idle", "probe"}
  /\ tracker' = IF tracker.sent /\ tracker.age < Never
                THEN [tracker EXCEPT !.age = @ + 1] ELSE tracker
  /\ quiet' = IF quiet < Never THEN quiet + 1 ELSE quiet
  /\ <<tracker', quiet'>> # <<tracker, quiet>>
  /\ UNCHANGED <<Resource, status, run, Others, notices, observed>>

RunStep(r) ==
  \/ BeginRun(r) \/ Probe(r) \/ ReadPrev(r) \/ WriteStatus(r) \/ Reread(r)
  \/ FailureFind(r) \/ FailureCreate(r) \/ FailureCount(r) \/ FailureDecide(r)
  \/ SuccessFind(r) \/ SuccessReset(r)

AlertNext ==
  \/ \E r \in Runs : RunStep(r) \/ ProbeWithoutKey(r) \/ RunFails(r)
  \/ ManualProbe \/ ManualWrite \/ Change \/ AlertTick

\* The interval fires for ever, and probes and database calls come back.
AlertFairness == \A r \in Runs : WF_alertVars(RunStep(r))

AlertSpec == AlertInit /\ [][AlertNext]_alertVars /\ AlertFairness

----------------------------------------------------------------------------
(* Properties *)

AlertStep ==
  Len(notices') > Len(notices) /\ notices'[Len(notices')].kind = "alert" => observed >= Threshold

RecoveryAfterAlert ==
  \A i \in 1..Len(notices) : notices[i].kind = "recovery" =>
    i > 1 /\ notices[i - 1].kind = "alert"

AlertsSpaced ==
  \A i \in 2..Len(notices) :
    notices[i].kind = "alert" /\ notices[i - 1].kind = "alert" => notices[i].gap > Cooldown

\* docs/guides/notifications.md: "When the counter reaches the `bounceThreshold`,
\* a notification is sent", "Further failures during the `bounceCooldown` period
\* are suppressed" and "When the resource recovers (success after an alert was
\* sent), a recovery notification is sent".  An alert means that runs noticed
\* the resource failing Threshold times since one last recorded a recovery; of
\* two alerts in a row the second comes after the cooldown; a recovery answers
\* an alert; also when checks are requested by hand and runs break off.
NoticesInOrder == [][AlertStep /\ (RecoveryAfterAlert /\ AlertsSpaced)']_alertVars
==============================================================================
