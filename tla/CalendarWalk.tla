----------------------------- MODULE CalendarWalk -----------------------------
(***************************************************************************)
(* Checks KrxCalendar against the Gregorian calendar's own rules: a walk   *)
(* from one date to the next counts the days, and asks the code on each of *)
(* them, with every pattern of holidays on the days that follow, for the   *)
(* next session.                                                           *)
(***************************************************************************)
EXTENDS KrxCalendar, FiniteSets

CONSTANTS
    FirstYear, LastYear,   \* the years walked through
    HolidayYears,          \* those in which sessions are asked for
    Window                 \* how many of the following days may be holidays

ASSUME YearsAssumption == FirstYear \in Int /\ LastYear \in Int /\ HolidayYears \subseteq Int
ASSUME WindowAssumption == Window \in Nat

VARIABLES date, day, closed

Leap(y) == (y % 4 = 0 /\ y % 100 # 0) \/ y % 400 = 0

DaysIn(y, m) ==
    IF m = 2 THEN (IF Leap(y) THEN 29 ELSE 28) ELSE IF m \in {4, 6, 9, 11} THEN 30 ELSE 31

\* The days from 1970-01-01 to the first of January of a year.
YearStart(y) ==
    365 * (y - 1970) + Cardinality({x \in 1970 .. y - 1 : Leap(x)})
                     - Cardinality({x \in y .. 1969 : Leap(x)})

WalkInit ==
    \E y \in {FirstYear} \union HolidayYears :
        date = <<y, 1, 1>> /\ day = YearStart(y) /\ closed = <<>>

Tomorrow ==
    IF date[3] < DaysIn(date[1], date[2]) THEN <<date[1], date[2], date[3] + 1>>
    ELSE IF date[2] < 12 THEN <<date[1], date[2] + 1, 1>>
    ELSE <<date[1] + 1, 1, 1>>

\* The holidays there may be, as distances from today.
Patterns == {o \in UNION {[1 .. n -> 1 .. Window] : n \in 0 .. Window} : Ascending(o)}

WalkNext ==
    /\ Tomorrow[1] <= LastYear
    /\ date' = Tomorrow /\ day' = day + 1
    /\ \E offsets \in IF date'[1] \in HolidayYears THEN Patterns ELSE {<<>>} :
          closed' = [i \in 1 .. Len(offsets) |-> day' + offsets[i]]

walk == <<date, day, closed>>

-----------------------------------------------------------------------------
\* The day numbers are day counts, and the conversions are inverse to each
\* other, through leap years and before 1970.
DatesAreDayCounts ==
    /\ days_from_civil(date[1], date[2], date[3]) = day
    /\ civil_from_days(day) = date
    /\ civil_year_from_days(day) = date[1]

TradingDays ==
    {d \in day + 1 .. day + Window + 3 :
        (d - 4) % 7 < 5 /\ \A i \in 1 .. Len(closed) : closed[i] # d}

\* 09:00 in Korea on the first trading day, if the calendar reaches it.
IsNextSession(epoch, max) ==
    \E d \in TradingDays :
        /\ \A c \in TradingDays : d <= c
        /\ epoch = IF d <= max THEN d * SECONDS_PER_DAY ELSE -1

\* From any time of a Korean day the next session is 09:00 in Korea on the
\* first later day that is no weekend and no holiday, and none is named
\* when that day lies beyond the calendar.  Without holidays the function that
\* knows none says the same.
NextSessionIsFirstTradingDay ==
    date[1] \in HolidayYears => \A second \in {0, 1, 32400, 86399} :
        LET now == day * SECONDS_PER_DAY - ALPHA_KST_OFFSET_SECONDS + second
        IN /\ \A max \in day .. day + Window + 3 :
                 IsNextSession(alpha_next_trading_session_start_holiday_aware(now, closed, max),
                               max)
           /\ closed = <<>> =>
                 IsNextSession(alpha_next_trading_session_start(now), day + Window + 3)

\* The calendar of market_hours.c and date.c is the Gregorian one: its day
\* numbers, and the next session from every date.
CalendarIsRight == DatesAreDayCounts /\ NextSessionIsFirstTradingDay
=============================================================================
