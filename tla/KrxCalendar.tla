----------------------------- MODULE KrxCalendar -----------------------------
(***************************************************************************)
(* Dates and KRX trading sessions: core/src/domain/date.c,                 *)
(* core/src/calendar/market_hours.c and the calendar half of               *)
(* core/platform/cache/redis_cache.c.  A date is <<year, month, day>>, a   *)
(* day number counts from 1970-01-01, an epoch is in seconds.              *)
(***************************************************************************)
EXTENDS Integers, Sequences

SECONDS_PER_DAY == 86400
ALPHA_KST_OFFSET_SECONDS == 32400
ALPHA_SESSION_CALENDAR_INSUFFICIENT == -1
MAX_HOLIDAYS == 512

\* C's integer division truncates towards zero.
Quotient(a, b) == IF a >= 0 THEN a \div b ELSE -((-a) \div b)

-----------------------------------------------------------------------------
(* Civil dates. *)

\* Eras have 400 years and 146097 days: the one that year or day a is in.
EraOf(a, n) == Quotient(IF a >= 0 THEN a ELSE a - (n - 1), n)

\* The days of an era before its year yoe, and the year of its day doe.  A year
\* begins on 1 March.
DaysBefore(yoe) == yoe * 365 + yoe \div 4 - yoe \div 100
YearOfEra(doe) == (doe - doe \div 1460 + doe \div 36524 - doe \div 146096) \div 365

\* Adding the unsigned -3 is subtracting 3.
days_from_civil(y, m, d) ==
    LET yy == IF m <= 2 THEN y - 1 ELSE y
        era == EraOf(yy, 400)
        doy == (153 * (IF m > 2 THEN m - 3 ELSE m + 9) + 2) \div 5 + d - 1
        doe == DaysBefore(yy - era * 400) + doy
    IN era * 146097 + doe - 719468

civil_from_days(day) ==
    LET z == day + 719468
        era == EraOf(z, 146097)
        doe == z - era * 146097
        yoe == YearOfEra(doe)
        doy == doe - DaysBefore(yoe)
        mp == (5 * doy + 2) \div 153
        m == IF mp < 10 THEN mp + 3 ELSE mp - 9
    IN <<yoe + era * 400 + (IF m <= 2 THEN 1 ELSE 0), m, doy - (153 * mp + 2) \div 5 + 1>>

civil_year_from_days(day) == civil_from_days(day)[1]

\* The fields alpha_date_parse and parse_holiday_json take for a date.
IsDate(date) == date[2] \in 1 .. 12 /\ date[3] \in 1 .. 31

-----------------------------------------------------------------------------
(* Trading sessions. *)

floor_div(a, b) ==
    LET q == Quotient(a, b) IN IF a # q * b /\ (a < 0) # (b < 0) THEN q - 1 ELSE q

is_weekend(day) == (day + 3) % 7 >= 5

kst_day_of(from_epoch) == floor_div(from_epoch + ALPHA_KST_OFFSET_SECONDS, SECONDS_PER_DAY)

session_start_epoch(kst_day) == kst_day * SECONDS_PER_DAY + 9 * 3600 - ALPHA_KST_OFFSET_SECONDS

alpha_next_trading_session_start(from_epoch) ==
    LET open[day \in Int] == IF is_weekend(day) THEN open[day + 1] ELSE day
    IN session_start_epoch(open[kst_day_of(from_epoch) + 1])

\* The scan of the sorted days stops at the first later one.
is_holiday(day, holidays) ==
    \E i \in 1 .. Len(holidays) :
        holidays[i] = day /\ \A j \in 1 .. i - 1 : holidays[j] < day

\* Mutant: a trading day beyond the calendar is as good as any.
CoveredAlways(day, max) == TRUE

Covered(day, max) == day <= max

alpha_next_trading_session_start_holiday_aware(from_epoch, holidays, calendar_max_day) ==
    LET next[day \in Int] ==
            IF is_weekend(day) \/ is_holiday(day, holidays)
            THEN IF Covered(day, calendar_max_day) THEN next[day + 1]
                 ELSE ALPHA_SESSION_CALENDAR_INSUFFICIENT
            ELSE IF Covered(day, calendar_max_day) THEN session_start_epoch(day)
                 ELSE ALPHA_SESSION_CALENDAR_INSUFFICIENT
    IN next[kst_day_of(from_epoch) + 1]

-----------------------------------------------------------------------------
(* A holiday list: the dates of the JSON array, in its order. *)

DaysOf(dates) == [i \in 1 .. Len(dates) |-> days_from_civil(dates[i][1], dates[i][2], dates[i][3])]

Ascending(days) == \A i \in 1 .. Len(days) : i > 1 => days[i] > days[i - 1]

\* Every entry belongs to the year, and the days are strictly ascending.
parse_holiday_json(dates, year) ==
    /\ Len(dates) <= MAX_HOLIDAYS
    /\ \A i \in 1 .. Len(dates) :
        /\ dates[i][1] = year /\ IsDate(dates[i])
        /\ civil_year_from_days(DaysOf(dates)[i]) = year
    /\ Ascending(DaysOf(dates))
=============================================================================
