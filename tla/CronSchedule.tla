---------------------------- MODULE CronSchedule ----------------------------
(***************************************************************************)
(* getNextRunTime, the search for the next time a cron expression matches, *)
(* over a calendar whose months, days and hours are as short as the        *)
(* constants make them.  Times are minutes since the first of a year that  *)
(* begins on day 0 of a week.  A step of the specification runs a schedule *)
(* at the time found, and the search goes on from there.                   *)
(***************************************************************************)
EXTENDS Integers, Sequences, FiniteSetsExt

CONSTANTS
    MonthDays,    \* sequence: the days of each month of a year
    Week, Hours, Minutes,   \* days of a week, hours of a day, minutes of an hour
    MinuteFields, HourFields, DomFields, MonthFields, DowFields,
                  \* the fields that are tried: sets of sets of parts
    MaxIterations, MaxTime

VARIABLES cron, from    \* the expression and the time of the last run

vars == <<cron, from>>

-----------------------------------------------------------------------------
(* The calendar. *)

Day == Hours * Minutes
FirstOf(m) == MapThenSumSet(LAMBDA i : MonthDays[i], 1 .. m - 1)
YearDays == FirstOf(Len(MonthDays) + 1)

MinuteOf(t) == t % Minutes
HourOf(t)   == (t \div Minutes) % Hours
WeekDayOf(t) == (t \div Day) % Week
YearDayOf(t) == (t \div Day) % YearDays
MonthOf(t)  == Max({m \in DOMAIN MonthDays : FirstOf(m) <= YearDayOf(t)})
DateOf(t)   == YearDayOf(t) - FirstOf(MonthOf(t)) + 1

NextHour(t)  == (t \div Minutes + 1) * Minutes
NextDay(t)   == (t \div Day + 1) * Day
NextMonth(t) == (t \div Day - YearDayOf(t) + FirstOf(MonthOf(t) + 1)) * Day

-----------------------------------------------------------------------------
(* The expression. *)

\* A part of a field is a range with a step; n is n-n/1 and * is min-max/1.
Star(min, max) == {[lo |-> min, hi |-> max, step |-> 1]}
ParseCronField(parts) ==
    UNION {{i \in p.lo .. p.hi : (i - p.lo) % p.step = 0} : p \in parts}

\* Sunday is 0 or the length of the week.
DaysOfWeek(c) == LET d == ParseCronField(c.dow) IN IF Week \in d THEN d \cup {0} ELSE d

\* Either day field suffices when both are restricted.
DayMatch(c, t) ==
    LET domMatch == DateOf(t) \in ParseCronField(c.dom)
        dowMatch == WeekDayOf(t) \in DaysOfWeek(c)
    IN  IF c.dom # Star(1, Max({MonthDays[i] : i \in DOMAIN MonthDays})) /\ c.dow # Star(0, Week)
        THEN domMatch \/ dowMatch
        ELSE domMatch /\ dowMatch

\* Mutant of Advance: a change of the day does not reset the hour.
AdvanceKeepsHour(c, t) ==
    IF MonthOf(t) \notin ParseCronField(c.month) THEN NextMonth(t)
    ELSE IF ~DayMatch(c, t) THEN t + Day
    ELSE IF HourOf(t) \notin ParseCronField(c.hour) THEN NextHour(t)
    ELSE IF MinuteOf(t) \notin ParseCronField(c.minute) THEN t + 1
    ELSE t

\* One iteration of the search; a time that matches stays.
Advance(c, t) ==
    IF MonthOf(t) \notin ParseCronField(c.month) THEN NextMonth(t)
    ELSE IF ~DayMatch(c, t) THEN NextDay(t)
    ELSE IF HourOf(t) \notin ParseCronField(c.hour) THEN NextHour(t)
    ELSE IF MinuteOf(t) \notin ParseCronField(c.minute) THEN t + 1
    ELSE t

\* The search begins with the next minute and falls back to a day later.
GetNextRunTime(c, t) ==
    LET search[n \in 0 .. MaxIterations] ==
            IF n = 0 THEN t + 1 ELSE Advance(c, search[n - 1])
        found == search[MaxIterations]
    IN  IF Advance(c, found) = found THEN found ELSE t + Day

-----------------------------------------------------------------------------
Init ==
    /\ cron \in [minute : MinuteFields, hour : HourFields, dom : DomFields,
                 month : MonthFields, dow : DowFields]
    /\ from = 0

Run ==
    /\ from < MaxTime
    /\ from' = GetNextRunTime(cron, from)
    /\ UNCHANGED cron

Spec == Init /\ [][Run]_vars

-----------------------------------------------------------------------------
(* Properties. *)

\* What a cron expression stands for: every field matches; of the day fields
\* one that is not * has to match.
In(f, x) == \E p \in f : p.lo <= x /\ x <= p.hi /\ (x - p.lo) % p.step = 0
Fires(c, t) ==
    LET anyDate == c.dom = Star(1, Max({MonthDays[i] : i \in DOMAIN MonthDays}))
        anyDay  == c.dow = Star(0, Week)
    IN  /\ In(c.minute, MinuteOf(t)) /\ In(c.hour, HourOf(t)) /\ In(c.month, MonthOf(t))
        /\ \/ anyDate /\ anyDay
           \/ ~anyDate /\ In(c.dom, DateOf(t))
           \/ ~anyDay /\ (In(c.dow, WeekDayOf(t)) \/ (WeekDayOf(t) = 0 /\ In(c.dow, Week)))

\* A schedule runs at the first time after the last run that its expression
\* stands for, never at another, and never misses one; an expression that
\* stands for no time runs every day.
NextIsTheFirst ==
    LET next == GetNextRunTime(cron, from)
        NoneUpTo(t) == \A u \in from + 1 .. t : ~Fires(cron, u)
    IN  \/ next > from /\ Fires(cron, next) /\ NoneUpTo(next - 1)
        \/ next = from + Day /\ NoneUpTo(from + YearDays * Week * Day)
=============================================================================
