------------------------------ MODULE MCBackups ------------------------------
(***************************************************************************)
(* When backups are made and which ones are kept, for TLC.  The parts have *)
(* no row in common, so a behaviour runs one of them:                      *)
(*   passes    five backups over three days and two weeks, the third a     *)
(*             manual one, two passes at a time; nobody pins or deletes;   *)
(*   overlap   four backups, with a user who pins one and deletes one;     *)
(*   schedule  the schedules of two databases, checked every minute;       *)
(*   cron      the search for the next run over months of two, four and    *)
(*             three days, weeks of four days and days of three hours of   *)
(*             two minutes.                                                *)
(***************************************************************************)
EXTENDS BackupRotation, Sequences, TLC

CONSTANTS Never, c1

VARIABLES
    part,
    clock, lastCheck, enabled, lastRun, check, started, crashes, toggles,
    cron, from

\* The passes are alike, and only invariants are checked.
Passes == Permutations(Rotators)

SizeUpTo(n)   == [b \in 1 .. n |-> IF b = 2 THEN 3 ELSE 1]
MCPeriods     == {"day", "week"}
BucketUpTo(n) == [p \in MCPeriods |->
                    [b \in 1 .. n |-> IF p = "day" THEN (b + 1) \div 2 ELSE (b + 2) \div 3]]
MCTier        == [p \in MCPeriods |-> IF p = "day" THEN 1 ELSE 2]
MCSizeOf      == SizeUpTo(5)
MCBucketOf    == BucketUpTo(5)

Overlap == INSTANCE BackupRotation WITH
             Count <- 4, SizeOf <- SizeUpTo(4), BucketOf <- BucketUpTo(4),
             MaxPasses <- 2, MaxPins <- 1, MaxDeletes <- 1

Schedule == INSTANCE BackupSchedule WITH
              Databases <- <<"d1", "d2">>, Period <- 2, Checks <- {c1},
              MaxClock <- 5, MaxCrashes <- 1, MaxToggles <- 2

Part(a, b, s) == [lo |-> a, hi |-> b, step |-> s]
Cron == INSTANCE CronSchedule WITH
          MonthDays <- <<2, 4, 3>>, Week <- 4, Hours <- 3, Minutes <- 2,
          MinuteFields <- {{Part(0, 1, 1)}, {Part(1, 1, 1)}},
          HourFields <- {{Part(0, 2, 1)}, {Part(0, 2, 2)}, {Part(1, 1, 1)}},
          DomFields <- {{Part(1, 4, 1)}, {Part(1, 4, 2)}, {Part(4, 4, 1)},
                        {Part(1, 1, 1), Part(3, 4, 1)}},
          MonthFields <- {{Part(1, 3, 1)}, {Part(1, 1, 1)}, {Part(1, 3, 2)}, {Part(2, 3, 1)}},
          DowFields <- {{Part(0, 4, 1)}, {Part(4, 4, 1)}, {Part(0, 0, 1), Part(2, 3, 1)},
                        {Part(1, 4, 2)}},
          MaxIterations <- 40, MaxTime <- 120

scheduleVars == <<clock, lastCheck, enabled, lastRun, check, started, crashes, toggles>>
cronVars     == <<cron, from>>
mcVars       == <<part, vars, scheduleVars, cronVars>>

MCInit ==
    /\ part \in {"passes", "overlap", "schedule", "cron"}
    /\ IF part = "overlap" THEN Overlap!Init ELSE Init
    /\ part \in {"schedule", "cron"} => Completed = {} /\ ~inert
    /\ Schedule!Init
    /\ IF part = "cron" THEN Cron!Init ELSE cron = <<>> /\ from = 0

MCNext ==
    \/ part = "passes" /\ Next /\ UNCHANGED <<part, scheduleVars, cronVars>>
    \/ part = "overlap" /\ Overlap!Next /\ UNCHANGED <<part, scheduleVars, cronVars>>
    \/ part = "schedule" /\ Schedule!Next /\ UNCHANGED <<part, vars, cronVars>>
    \/ part = "cron" /\ Cron!Run /\ UNCHANGED <<part, vars, scheduleVars>>

MCSpec == MCInit /\ [][MCNext]_mcVars

-----------------------------------------------------------------------------
\* Scheduled backups are made at their times: the next run is the first time
\* after the last one that the expression stands for, and no period of a
\* schedule has two backups, whatever is restarted, disabled or late, as long as
\* checks do not overlap.
SchedulesOnTime ==
    /\ Schedule!OncePerSlot
    /\ part = "cron" => Cron!NextIsTheFirst
=============================================================================
