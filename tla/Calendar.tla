------------------------------- MODULE Calendar -----------------------------
(***************************************************************************)
(* The clock of the board: Rtc::getTime and gettimeofday above it. The     *)
(* calendar's registers are read through shadow registers: reading the time *)
(* freezes them, reading the date releases them. Several threads read.     *)
(***************************************************************************)
EXTENDS Integers, FiniteSets

CONSTANTS
    Readers,
    Years, FirstDays,   \* years after 2000, and days of a month, when behaviours begin
    SecondFraction,     \* a second has SecondFraction + 1 ticks, counted down
    NANOSECONDS_PER_SECOND,
    MaxSteps            \* bound: changes of the calendar

VARIABLES
    date, second, subseconds,   \* the calendar
    shadow,         \* what is frozen, or none
    primask,        \* the thread in an InterruptGuard, or nobody
    at,             \* per reader
    time, seen,     \* per reader: what it has read, and the moment of its call (ghost)
    steps,
    wrong           \* ghost: readers that have got a wrong time

vars == <<date, second, subseconds, shadow, primask, at, time, seen, steps, wrong>>

Nobody == "nobody"
None == [status |-> "none"]
SECONDS_PER_DAY == 86400
RTC_EPOCH_YEAR == 2000

is_leap_year(year) == year % 4 = 0 /\ (year % 100 # 0 \/ year % 400 = 0)
days_in_month(year, month) ==
    CASE month = 2 -> IF is_leap_year(year) THEN 29 ELSE 28
      [] month \in {4, 6, 9, 11} -> 30
      [] OTHER -> 31

\* Days since 1970-01-01, counted from March, so that the leap day comes last.
January_InItsYear(month) == 0
January(month) == IF month <= 2 THEN 1 ELSE 0
days_from_civil(y, month, day) ==
    LET year == y - January(month)
        year_of_era == year % 400
        day_of_year == (153 * (month + (IF month > 2 THEN -3 ELSE 9)) + 2) \div 5 + day - 1
    IN  (year \div 400) * 146097
            + year_of_era * 365 + year_of_era \div 4 - year_of_era \div 100 + day_of_year - 719468

\* The reference: all days of the years and months before.
DaysBefore(d) ==
    10957 + 365 * d.year + Cardinality({y \in 0 .. d.year - 1 : y % 4 = 0}) + d.day - 1
        + Cardinality({p \in (1 .. d.month - 1) \X (1 .. 31) : p[2] <= days_in_month(RTC_EPOCH_YEAR + d.year, p[1])})

Days(d) == days_from_civil(RTC_EPOCH_YEAR + d.year, d.month, d.day)
Nanoseconds(ss) == ((SecondFraction - ss) * NANOSECONDS_PER_SECOND) \div (SecondFraction + 1)
Moment == [days |-> DaysBefore(date), second |-> second, ns |-> Nanoseconds(subseconds)]
NotAfter(m, n) ==
    \/ m.days < n.days
    \/ m.days = n.days /\ (m.second < n.second \/ (m.second = n.second /\ m.ns <= n.ns))

Init ==
    /\ date \in {d \in [year : Years, month : 1 .. 12, day : FirstDays] :
                    d.day <= days_in_month(RTC_EPOCH_YEAR + d.year, d.month)}
    /\ second = SECONDS_PER_DAY - 1 /\ subseconds = 0
    /\ shadow = None
    /\ primask = Nobody
    /\ at = [r \in Readers |-> "out"]
    /\ time = [r \in Readers |-> None]
    /\ seen = [r \in Readers |-> None]
    /\ steps = 0 /\ wrong = {}

Registers == [status |-> "read", date |-> date, second |-> second, subseconds |-> subseconds]
NextDay(d) ==
    IF d.day < days_in_month(RTC_EPOCH_YEAR + d.year, d.month) THEN [d EXCEPT !.day = @ + 1]
    ELSE IF d.month < 12 THEN [d EXCEPT !.day = 1, !.month = @ + 1]
    ELSE [d EXCEPT !.day = 1, !.month = 1, !.year = @ + 1]
\* The calendar goes on, and from the first second of a day to its last.
Step ==
    /\ steps < MaxSteps /\ steps' = steps + 1
    /\ IF subseconds > 0 THEN subseconds' = subseconds - 1 /\ UNCHANGED <<date, second>>
       ELSE /\ subseconds' = SecondFraction
            /\ second' = SECONDS_PER_DAY - 1 - second
            /\ IF second = 0 THEN UNCHANGED date ELSE date.year < 99 /\ date' = NextDay(date)
    /\ UNCHANGED <<shadow, primask, at, time, seen, wrong>>

MayRun(r) == primask \in {Nobody, r}

\* InterruptGuard
Guarded_Not(r) == UNCHANGED primask
Guarded(r) == primask' = r
Call(r) ==
    /\ MayRun(r) /\ at[r] = "out"
    /\ at' = [at EXCEPT ![r] = "time"]
    /\ seen' = [seen EXCEPT ![r] = Moment]
    /\ Guarded(r)
    /\ UNCHANGED <<date, second, subseconds, shadow, time, steps, wrong>>

\* HAL_RTC_GetTime: the shadow registers freeze, also if it fails then.
HAL_RTC_GetTime(r, status) ==
    /\ MayRun(r) /\ at[r] = "time"
    /\ LET frozen == IF shadow = None THEN Registers ELSE shadow IN
       /\ shadow' = frozen
       /\ time' = [time EXCEPT ![r] = [frozen EXCEPT !.status = status]]
    /\ at' = [at EXCEPT ![r] = "date"]
    /\ UNCHANGED <<date, second, subseconds, primask, seen, steps, wrong>>

\* "Always read the date", which releases them.
Released_AfterSuccess(r) == shadow' = IF time[r].status = "ok" THEN None ELSE shadow
Released(r) == shadow' = None
HAL_RTC_GetDate(r) ==
    /\ MayRun(r) /\ at[r] = "date"
    /\ time' = [time EXCEPT ![r].date = (IF shadow = None THEN Registers ELSE shadow).date]
    /\ Released(r)
    /\ primask' = Nobody
    /\ at' = [at EXCEPT ![r] = "convert"]
    /\ UNCHANGED <<date, second, subseconds, seen, steps, wrong>>

\* Rtc::getTime's answer, and gettimeofday's microseconds.
getTime(r) ==
    [days |-> Days(time[r].date), second |-> time[r].second, ns |-> Nanoseconds(time[r].subseconds)]
Microseconds(moment) == [moment EXCEPT !.ns = (@ \div 1000) * 1000]
\* A time that the calendar showed during the call; gettimeofday does not round it up.
IsReal(r) ==
    /\ NotAfter(seen[r], getTime(r)) /\ NotAfter(getTime(r), Moment)
    /\ getTime(r).ns < NANOSECONDS_PER_SECOND
    /\ NotAfter(Microseconds(getTime(r)), getTime(r))
_gettimeofday(r) ==
    /\ MayRun(r) /\ at[r] = "convert"
    /\ wrong' = IF time[r].status = "ok" /\ ~IsReal(r) THEN wrong \cup {r} ELSE wrong
    /\ time' = [time EXCEPT ![r] = None] /\ seen' = [seen EXCEPT ![r] = None]
    /\ at' = [at EXCEPT ![r] = "out"]
    /\ UNCHANGED <<date, second, subseconds, shadow, primask, steps>>

Next ==
    \/ Step
    \/ \E r \in Readers : \/ Call(r) \/ HAL_RTC_GetDate(r) \/ _gettimeofday(r)
                          \/ \E status \in {"ok", "error"} : HAL_RTC_GetTime(r, status)

-----------------------------------------------------------------------------
(* No reader gets a time that the calendar did not show during its call: not *)
(* across midnight, months and leap days, not when another one reads, and not *)
(* after an error.                                                          *)
TimesAreReal == wrong = {}
=============================================================================
