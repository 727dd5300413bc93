--------------------------- MODULE BackupSchedule ---------------------------
(***************************************************************************)
(* checkDueBackups: a timer reads the backup schedules every minute and    *)
(* goes through them one after the other, starting a backup for each one   *)
(* that is due and rotating the database.  Nothing keeps the next check    *)
(* from starting while the last one is still deleting old backups.  All    *)
(* schedules run every Period minutes; module CronSchedule has the general *)
(* computation of the next run.                                            *)
(***************************************************************************)
EXTENDS Integers, Sequences

CONSTANTS
    Databases,     \* sequence of databases, in the order of the query
    Period,        \* minutes
    Checks,        \* calls of checkDueBackups that may run at the same time
    Never,         \* lastRunAt is null
    MaxClock, MaxCrashes, MaxToggles

VARIABLES
    clock,       \* in minutes
    lastCheck,   \* when the timer last fired
    enabled, lastRun,   \* the BackupSchedule rows
    check,       \* the calls of checkDueBackups
    started,     \* per database: the minutes its scheduled backups were due at
    crashes, toggles

rows == <<enabled, lastRun>>
vars == <<clock, lastCheck, rows, check, started, crashes, toggles>>

Positions == DOMAIN Databases
Idle == [pc |-> "idle", now |-> 0, at |-> 1, seen |-> <<>>]

Init ==
    /\ clock = 0
    /\ lastCheck = 0
    /\ enabled = [d \in Positions |-> TRUE]
    /\ lastRun = [d \in Positions |-> Never]
    /\ check = [c \in Checks |-> Idle]
    /\ started = [d \in Positions |-> <<>>]
    /\ crashes = 0 /\ toggles = 0

\* The next multiple of Period after t: getNextRunTime.
NextRun(t) == (t \div Period + 1) * Period

IsDue(last, now) == last = Never \/ NextRun(last) <= now

-----------------------------------------------------------------------------
\* The timer fires: the schedules are read once.
Load(c) ==
    /\ check[c].pc = "idle"
    /\ lastCheck < clock
    /\ lastCheck' = clock
    /\ check' = [check EXCEPT ![c] = [Idle EXCEPT !.pc = "next", !.now = clock,
                    !.seen = [d \in Positions |-> enabled[d] /\ IsDue(lastRun[d], clock)]]]
    /\ UNCHANGED <<clock, rows, started, crashes, toggles>>

Step(c, pc) == check' = [check EXCEPT ![c].pc = pc]
Onward(c) == check' = [check EXCEPT ![c] =
                 IF @.at = Len(Databases) THEN Idle
                 ELSE [@ EXCEPT !.pc = "next", !.at = check[c].at + 1]]

Skip(c) ==
    /\ check[c].pc = "next" /\ ~check[c].seen[check[c].at]
    /\ Onward(c)
    /\ UNCHANGED <<clock, lastCheck, rows, started, crashes, toggles>>

\* lastRunAt is written before the backup is started.
Claim(c) ==
    /\ check[c].pc = "next" /\ check[c].seen[check[c].at]
    /\ lastRun' = [lastRun EXCEPT ![check[c].at] = check[c].now]
    /\ Step(c, "create")
    /\ UNCHANGED <<clock, lastCheck, enabled, started, crashes, toggles>>

\* createBackup writes the row and returns; the dump runs in the background.
Create(c) ==
    /\ check[c].pc = "create"
    /\ started' = [started EXCEPT ![check[c].at] = Append(@, check[c].now)]
    /\ Step(c, "rotate")
    /\ UNCHANGED <<clock, lastCheck, rows, crashes, toggles>>

\* createBackup or rotateDatabase throws: on to the next schedule.
Throws(c) ==
    /\ check[c].pc \in {"create", "rotate"}
    /\ Onward(c)
    /\ UNCHANGED <<clock, lastCheck, rows, started, crashes, toggles>>

\* rotateDatabase, which may take long.
Rotate(c) ==
    /\ check[c].pc = "rotate"
    /\ Onward(c)
    /\ UNCHANGED <<clock, lastCheck, rows, started, crashes, toggles>>

\* Mutant of SetSchedule: a schedule that is saved starts afresh.
SetScheduleAnew(d) ==
    /\ toggles < MaxToggles
    /\ toggles' = toggles + 1
    /\ enabled' = [enabled EXCEPT ![d] = ~@]
    /\ lastRun' = [lastRun EXCEPT ![d] = Never]
    /\ UNCHANGED <<clock, lastCheck, check, started, crashes>>

\* setBackupSchedule leaves lastRunAt as it is.
SetSchedule(d) ==
    /\ toggles < MaxToggles
    /\ toggles' = toggles + 1
    /\ enabled' = [enabled EXCEPT ![d] = ~@]
    /\ UNCHANGED <<clock, lastCheck, lastRun, check, started, crashes>>

\* Time passes.  Only the deletion of old backups takes minutes.
Minute ==
    /\ clock < MaxClock
    /\ \A c \in Checks : check[c].pc \in {"idle", "rotate"}
    /\ clock' = clock + 1
    /\ UNCHANGED <<lastCheck, rows, check, started, crashes, toggles>>

Crash ==
    /\ crashes < MaxCrashes
    /\ crashes' = crashes + 1
    /\ check' = [c \in Checks |-> Idle]
    /\ UNCHANGED <<clock, lastCheck, rows, started, toggles>>

Next ==
    \/ \E c \in Checks : Load(c) \/ Skip(c) \/ Claim(c) \/ Create(c) \/ Throws(c) \/ Rotate(c)
    \/ \E d \in Positions : SetSchedule(d)
    \/ Minute \/ Crash

Spec == Init /\ [][Next]_vars

-----------------------------------------------------------------------------
(* Properties.                                                             *)

Slot(t) == t \div Period

\* No period of a schedule has two backups, whatever is restarted, disabled or
\* late.
OncePerSlot ==
    \A d \in Positions : \A i, j \in DOMAIN started[d] :
        i < j => Slot(started[d][i]) < Slot(started[d][j])
=============================================================================
