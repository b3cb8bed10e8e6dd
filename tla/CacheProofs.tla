----------------------------- MODULE CacheProofs ----------------------------
(***************************************************************************)
(* What the Redis cache says of the lockout and of the latest tick, for    *)
(* every calendar, any clock and any number of clients: when a lockout     *)
(* ends, that it holds until then, and that what a client is told is true. *)
(*                                                                         *)
(* The dates come first: what the functions of the calendar compute.       *)
(***************************************************************************)
EXTENDS MCBreaker, WellFoundedInduction, TLAPS

-----------------------------------------------------------------------------
(* Day numbers and years. *)

\* q is x divided by b, rounded down.
Times(b, q, x) == b * q <= x /\ x < b * q + b

\* Division of naturals rounds down.
LEMMA Divided ==
    ASSUME NEW x \in Nat, NEW b \in Nat \ {0}
    PROVE  x \div b \in Nat /\ Times(b, x \div b, x)
  BY SMT DEF Times

\* The 400-year era of a day number, negative ones too (date.c:10,18).
LEMMA EraFacts ==
    ASSUME NEW z \in Int
    PROVE  \E e \in Int : EraOf(z, 146097) = e /\ Times(146097, e, z)
<1>1. CASE z >= 0
  <2>1. PICK q \in Nat : q = z \div 146097 /\ Times(146097, q, z)
    BY <1>1, Divided, SMT
  <2>2. EraOf(z, 146097) = q /\ q \in Int
    BY <1>1, <2>1, SMT DEF EraOf, Quotient
  <2>3. QED
    BY <2>1, <2>2, SMT
<1>2. CASE ~(z >= 0)
  <2>1. -(z - 146096) \in Nat
    BY <1>2, SMT
  <2>2. PICK q \in Nat : q = (-(z - 146096)) \div 146097 /\ Times(146097, q, -(z - 146096))
    BY <2>1, Divided, SMT
  <2>3. ~(z - 146096 >= 0)
    BY <1>2, SMT
  <2>4. EraOf(z, 146097) = -q /\ -q \in Int
    BY <1>2, <2>2, <2>3, SMT DEF EraOf, Quotient
  <2>5. Times(146097, -q, z)
    BY <2>2, SMT DEF Times
  <2>6. QED
    BY <2>4, <2>5, SMT
<1>3. QED
  BY <1>1, <1>2, SMT

\* p and q are the leap days of n years that \div counts.
BeforeIs(n, p, q) ==
    DaysBefore(n) = (365 * n + p) - q /\ Times(4, p, n) /\ Times(100, q, n)

\* DaysBefore without its divisions.
LEMMA BeforeFacts ==
    ASSUME NEW n \in Nat
    PROVE  \E p, q \in Nat : BeforeIs(n, p, q)
<1>1. PICK p \in Nat : p = n \div 4 /\ Times(4, p, n)
  BY Divided, SMT
<1>2. PICK q \in Nat : q = n \div 100 /\ Times(100, q, n)
  BY Divided, SMT
<1>3. DaysBefore(n) = (365 * n + p) - q
  BY <1>1, <1>2, SMT DEF DaysBefore
<1>4. QED
  BY <1>1, <1>2, <1>3, ZenonT(40) DEF BeforeIs

\* A year has 365 days or more.
LEMMA BeforeGrows ==
    ASSUME NEW m \in Nat, NEW n \in Nat, m < n
    PROVE  DaysBefore(m) \in Nat /\ DaysBefore(n) \in Nat /\ DaysBefore(m) + 365 <= DaysBefore(n)
<1>1. PICK p, q \in Nat : BeforeIs(m, p, q)
  BY BeforeFacts, Zenon
<1>2. PICK r, s \in Nat : BeforeIs(n, r, s)
  BY BeforeFacts, Zenon
<1>3. QED
  BY <1>1, <1>2, SMT DEF BeforeIs, Times

\* y is the year of its era in which day doe of the era falls.
IsYearOfEra(doe, y) ==
    /\ YearOfEra(doe) = y /\ y <= 399
    /\ DaysBefore(y) \in Nat /\ DaysBefore(y) <= doe /\ doe <= DaysBefore(y) + 365
    /\ y < 399 => doe < DaysBefore(y + 1)

\* The closed formula for the year of the era finds the year (date.c:20-21).
LEMMA YearOfEraFacts ==
    ASSUME NEW doe \in Nat, doe < 146097
    PROVE  \E y \in Nat : IsYearOfEra(doe, y)
<1>1. PICK a \in Nat : a = doe \div 1460 /\ Times(1460, a, doe)
  BY Divided, SMT
<1>2. PICK b \in Nat : b = doe \div 36524 /\ Times(36524, b, doe)
  BY Divided, SMT
<1>3. PICK c \in Nat : c = doe \div 146096 /\ Times(146096, c, doe)
  BY Divided, SMT
<1>4. (doe - a) + (b - c) \in Nat
  BY <1>1, <1>2, <1>3, SMT DEF Times
<1>5. PICK y \in Nat : y = ((doe - a) + (b - c)) \div 365 /\ Times(365, y, (doe - a) + (b - c))
  BY <1>4, Divided, SMT
<1>6. YearOfEra(doe) = y
  BY <1>1, <1>2, <1>3, <1>5, SMT DEF YearOfEra
<1>7. PICK p, q \in Nat : BeforeIs(y, p, q)
  BY BeforeFacts, SMT
<1>8. y + 1 \in Nat
  BY SMT
<1>9. PICK r, s \in Nat : BeforeIs(y + 1, r, s)
  BY <1>8, BeforeFacts, SMT
<1>10. y <= 399 /\ (365 * y + p) - q <= doe /\ doe <= ((365 * y + p) - q) + 365
  BY <1>1, <1>2, <1>3, <1>5, <1>7, SMTT(30) DEF Times, BeforeIs
<1>11. ASSUME y < 399 PROVE doe < (365 * (y + 1) + r) - s
  BY <1>1, <1>2, <1>3, <1>5, <1>9, <1>11, SMT DEF Times, BeforeIs
<1>12. DaysBefore(y) \in Nat /\ DaysBefore(y + 1) \in Nat
  BY <1>8, BeforeGrows, SMT
<1>13. QED
  BY <1>6, <1>7, <1>9, <1>10, <1>11, <1>12, SMT DEF BeforeIs, IsYearOfEra

\* dn is day d of year n of era e, years beginning on 1 March.
MarchDate(dn, e, n, d) ==
    /\ dn + 719468 = 146097 * e + (DaysBefore(n) + d)
    /\ n <= 399 /\ DaysBefore(n) \in Nat /\ DaysBefore(n) + d < 146097
    /\ d <= 365
    /\ n < 399 => DaysBefore(n) + d < DaysBefore(n + 1)

\* The calendar year, month and day of a day that is counted from 1 March.
YearOf(e, n, d) == (n + e * 400) + (IF d >= 306 THEN 1 ELSE 0)

MonthOf(doy) == IF (5 * doy + 2) \div 153 < 10 THEN (5 * doy + 2) \div 153 + 3
                ELSE (5 * doy + 2) \div 153 - 9

DayOfMonth(doy) == doy - (153 * ((5 * doy + 2) \div 153) + 2) \div 5 + 1

\* The month is January or February from the 306th day on.
LEMMA EndOfMarchYear ==
    ASSUME NEW doy \in Nat, doy <= 365
    PROVE  MonthOf(doy) <= 2 <=> doy >= 306
<1>1. PICK mp \in Nat : mp = (5 * doy + 2) \div 153 /\ Times(153, mp, 5 * doy + 2)
  <2>1. 5 * doy + 2 \in Nat
    BY SMT
  <2>2. QED
    BY <2>1, Divided, SMT
<1>2. (IF mp < 10 THEN mp + 3 ELSE mp - 9) <= 2 <=> doy >= 306
  BY <1>1, SMT DEF Times
<1>3. QED
  BY <1>1, <1>2, SMT DEF MonthOf

\* The date of dn, as both functions give it.
HasDate(dn) ==
    \E e \in Int : \E n, d \in Nat :
        /\ MarchDate(dn, e, n, d)
        /\ civil_from_days(dn) = <<YearOf(e, n, d), MonthOf(d), DayOfMonth(d)>>
        /\ civil_year_from_days(dn) = YearOf(e, n, d)

\* Every day number has a date, and the two functions that give its year agree
\* (civil_from_days, civil_year_from_days).
LEMMA CivilYear == ASSUME NEW dn \in Int PROVE HasDate(dn)
<1>1. dn + 719468 \in Int
  BY SMT
<1>2. PICK z \in Int : z = dn + 719468
  BY <1>1, SMT
<1>3. PICK e \in Int : EraOf(z, 146097) = e /\ Times(146097, e, z)
  BY EraFacts, SMT
<1>4. PICK doe \in Nat : doe = z - e * 146097 /\ doe < 146097 /\ z = 146097 * e + doe
  BY <1>3, SMT DEF Times
<1>5. PICK n \in Nat : IsYearOfEra(doe, n)
  BY <1>4, YearOfEraFacts, SMT
<1>6. PICK d \in Nat : d = doe - DaysBefore(n) /\ d <= 365 /\ doe = DaysBefore(n) + d
  BY <1>5, SMT DEF IsYearOfEra
<1>7. MarchDate(dn, e, n, d)
  BY <1>2, <1>4, <1>5, <1>6, SMT DEF MarchDate, IsYearOfEra
<1>8. /\ civil_from_days(dn) = <<YearOf(e, n, d), MonthOf(d), DayOfMonth(d)>>
      /\ civil_year_from_days(dn) = YearOf(e, n, d)
  <2>1. e = EraOf(dn + 719468, 146097) /\ doe = (dn + 719468) - e * 146097
    BY <1>2, <1>3, <1>4, SMT
  <2>2. n = YearOfEra(doe) /\ d = doe - DaysBefore(n)
    BY <1>5, <1>6, SMT DEF IsYearOfEra
  <2>3. PICK year : year = (n + e * 400) + (IF MonthOf(d) <= 2 THEN 1 ELSE 0)
    BY SMT
  <2>4. civil_from_days(dn) = <<year, MonthOf(d), DayOfMonth(d)>>
    BY <2>1, <2>2, <2>3, SMT DEF civil_from_days, MonthOf, DayOfMonth
  <2>5. civil_year_from_days(dn) = year
    BY <2>4, SMT DEF civil_year_from_days
  <2>6. MonthOf(d) <= 2 <=> d >= 306
    BY <1>6, EndOfMarchYear, SMT
  <2>7. year = YearOf(e, n, d)
    BY <2>3, <2>6, SMT DEF YearOf
  <2>8. QED
    BY <2>4, <2>5, <2>7, SMT
<1>9. QED
  BY <1>7, <1>8, SMT DEF HasDate

\* A later day has a later date.
LEMMA MarchOrder ==
    ASSUME NEW x \in Int, NEW z \in Int, x <= z,
           NEW e \in Int, NEW n \in Nat, NEW d \in Nat, MarchDate(x, e, n, d),
           NEW f \in Int, NEW m \in Nat, NEW c \in Nat, MarchDate(z, f, m, c)
    PROVE  400 * e + n < 400 * f + m \/ (e = f /\ n = m /\ d <= c)
<1>1. e <= f
  BY SMT DEF MarchDate
<1>2. CASE e < f
  BY <1>2, SMT DEF MarchDate
<1>3. CASE e = f
  <2>1. DaysBefore(n) + d <= DaysBefore(m) + c
    BY <1>3, SMT DEF MarchDate
  <2>2. ASSUME m < n PROVE FALSE
    <3>1. DaysBefore(m) + c < DaysBefore(m + 1) /\ m + 1 \in Nat /\ m + 1 <= n
      BY <2>2, SMT DEF MarchDate
    <3>2. DaysBefore(m + 1) <= DaysBefore(n) /\ DaysBefore(m + 1) \in Nat
      BY <3>1, BeforeGrows, SMT
    <3>3. QED
      BY <2>1, <3>1, <3>2, SMT DEF MarchDate
  <2>3. QED
    BY <1>3, <2>1, <2>2, SMT DEF MarchDate
<1>4. QED
  BY <1>1, <1>2, <1>3, SMT

\* A later day is not in an earlier year.
LEMMA YearsGrow ==
    ASSUME NEW x \in Int, NEW z \in Int, x <= z
    PROVE  /\ civil_year_from_days(x) \in Int /\ civil_year_from_days(z) \in Int
           /\ civil_year_from_days(x) <= civil_year_from_days(z)
<1>1. PICK e \in Int : \E n, d \in Nat :
          MarchDate(x, e, n, d) /\ civil_year_from_days(x) = YearOf(e, n, d)
  <2>1. HasDate(x)
    BY CivilYear, Zenon
  <2>2. QED
    BY <2>1, Zenon DEF HasDate
<1>2. PICK n \in Nat, d \in Nat :
          MarchDate(x, e, n, d) /\ civil_year_from_days(x) = YearOf(e, n, d)
  BY <1>1, Zenon
<1>3. PICK f \in Int : \E m, c \in Nat :
          MarchDate(z, f, m, c) /\ civil_year_from_days(z) = YearOf(f, m, c)
  <2>1. HasDate(z)
    BY CivilYear, Zenon
  <2>2. QED
    BY <2>1, Zenon DEF HasDate
<1>4. PICK m \in Nat, c \in Nat :
          MarchDate(z, f, m, c) /\ civil_year_from_days(z) = YearOf(f, m, c)
  BY <1>3, Zenon
<1>5. 400 * e + n < 400 * f + m \/ (e = f /\ n = m /\ d <= c)
  BY <1>2, <1>4, MarchOrder, SMT
<1>6. YearOf(e, n, d) \in Int /\ YearOf(f, m, c) \in Int /\ YearOf(e, n, d) <= YearOf(f, m, c)
  BY <1>5, SMT DEF YearOf
<1>7. QED
  BY <1>2, <1>4, <1>6, Zenon

\* The last day of a year belongs to it.
LEMMA YearOfItsLastDay ==
    ASSUME NEW y \in Int
    PROVE  /\ days_from_civil(y, 12, 31) \in Int
           /\ civil_year_from_days(days_from_civil(y, 12, 31)) = y
<1>1. PICK e \in Int : e = EraOf(y, 400) /\ Times(400, e, y)
  <2>1. CASE y >= 0
    <3>1. PICK q \in Nat : q = y \div 400 /\ Times(400, q, y)
      BY <2>1, Divided, SMT
    <3>2. QED
      BY <2>1, <3>1, SMT DEF EraOf, Quotient
  <2>2. CASE ~(y >= 0)
    <3>1. -(y - 399) \in Nat /\ ~(y - 399 >= 0)
      BY <2>2, SMT
    <3>2. PICK q \in Nat : q = (-(y - 399)) \div 400 /\ Times(400, q, -(y - 399))
      BY <3>1, Divided, SMT
    <3>3. -q \in Int /\ -q = EraOf(y, 400) /\ Times(400, -q, y)
      BY <2>2, <3>1, <3>2, SMT DEF EraOf, Quotient, Times
    <3>4. QED
      BY <2>2, <3>3, SMT
  <2>3. QED
    BY <2>1, <2>2, SMT
<1>2. PICK n \in Nat : n = y - e * 400 /\ n <= 399
  BY <1>1, SMT DEF Times
<1>3. DaysBefore(n) \in Nat /\ DaysBefore(n + 1) \in Nat /\ DaysBefore(n) + 365 <= DaysBefore(n + 1)
  <2>1. n + 1 \in Nat /\ n < n + 1
    BY SMT
  <2>2. QED
    BY <2>1, BeforeGrows, SMT
<1>4. DaysBefore(n) <= 145731
  <2>1. PICK p, q \in Nat : BeforeIs(n, p, q)
    BY BeforeFacts, SMT
  <2>2. QED
    BY <1>2, <2>1, SMT DEF BeforeIs, Times
<1>5. PICK dn \in Int : dn = 146097 * e + (DaysBefore(n) + 305) - 719468
  BY <1>3, SMT
<1>6. (153 * 9 + 2) \div 5 = 275
  BY SMT
<1>7. days_from_civil(y, 12, 31) = dn
  BY <1>1, <1>2, <1>3, <1>5, <1>6, SMT DEF days_from_civil, DaysBefore
<1>8. MarchDate(dn, e, n, 305)
  BY <1>2, <1>3, <1>4, <1>5, SMT DEF MarchDate
<1>9. PICK f \in Int : \E m, c \in Nat :
          MarchDate(dn, f, m, c) /\ civil_year_from_days(dn) = YearOf(f, m, c)
  <2>1. HasDate(dn)
    BY CivilYear, SMT
  <2>2. QED
    BY <2>1, SMT DEF HasDate
<1>10. PICK m \in Nat, c \in Nat :
          MarchDate(dn, f, m, c) /\ civil_year_from_days(dn) = YearOf(f, m, c)
  BY <1>9, SMT
<1>11. e = f /\ n = m /\ c = 305
  <2>1. 400 * e + n < 400 * f + m \/ (e = f /\ n = m /\ 305 <= c)
    BY <1>8, <1>10, MarchOrder, SMT
  <2>2. 400 * f + m < 400 * e + n \/ (f = e /\ m = n /\ c <= 305)
    BY <1>8, <1>10, MarchOrder, SMT
  <2>3. QED
    BY <2>1, <2>2, SMT
<1>12. YearOf(f, m, c) = y
  BY <1>2, <1>11, SMT DEF YearOf
<1>13. QED
  BY <1>7, <1>10, <1>12, SMT

\* A non-empty set of natural numbers has a least element.
LEMMA Least ==
    ASSUME NEW S \in SUBSET Nat, S # {}
    PROVE  \E x \in S : \A y \in S : x <= y
<1>1. \E x \in S : \A y \in S : ~(<<y, x>> \in OpToRel(<, Nat))
  BY NatLessThanWellFounded, WFMin, Zenon
<1>2. PICK x \in S : \A y \in S : ~(<<y, x>> \in OpToRel(<, Nat))
  BY <1>1, Zenon
<1>3. ASSUME NEW y \in S, y < x PROVE FALSE
  <2>1. <<y, x>> \in Nat \X Nat /\ <<y, x>>[1] = y /\ <<y, x>>[2] = x
    OBVIOUS
  <2>2. <<y, x>> \in OpToRel(<, Nat)
    BY <1>3, <2>1, Zenon DEF OpToRel
  <2>3. QED
    BY <1>2, <2>2, Zenon
<1>4. \A y \in S : x <= y
  BY <1>3, SMT
<1>5. QED
  BY <1>4, Zenon

-----------------------------------------------------------------------------
(* Sessions. *)

\* No trading on dn.
Shut(dn, holidays) == is_weekend(dn) \/ is_holiday(dn, holidays)

\* d is the first day from `from' on that is open.
FirstOpen(from, d, holidays) ==
    from <= d /\ ~Shut(d, holidays) /\ \A x \in Int : from <= x /\ x < d => Shut(x, holidays)

\* What the search finds from a day on.
Found(epoch, from, holidays, max) ==
    \/ \E d \in Int : FirstOpen(from, d, holidays) /\ d <= max /\ epoch = session_start_epoch(d)
    \/ /\ \A x \in Int : from <= x /\ x <= max => Shut(x, holidays)
       /\ epoch = ALPHA_SESSION_CALENDAR_INSUFFICIENT

\* next is the search for the next session: the function of the model's LET.
Search(next, holidays, max) ==
    next = [dn \in Int |->
            IF is_weekend(dn) \/ is_holiday(dn, holidays)
            THEN IF Covered(dn, max) THEN next[dn + 1]
                 ELSE ALPHA_SESSION_CALENDAR_INSUFFICIENT
            ELSE IF Covered(dn, max) THEN session_start_epoch(dn)
                 ELSE ALPHA_SESSION_CALENDAR_INSUFFICIENT]

\* There is one first open day.
LEMMA OpenIsUnique ==
    ASSUME NEW from \in Int, NEW c \in Int, NEW d \in Int, NEW holidays,
           FirstOpen(from, c, holidays), FirstOpen(from, d, holidays)
    PROVE  c = d
<1>1. ASSUME c < d PROVE FALSE
  BY <1>1 DEF FirstOpen
<1>2. ASSUME d < c PROVE FALSE
  BY <1>2 DEF FirstOpen
<1>3. QED
  BY <1>1, <1>2

\* Behind a day that is shut the search goes on from the next.
LEMMA OpenBehind ==
    ASSUME NEW from \in Int, NEW d \in Int, NEW holidays, Shut(from, holidays)
    PROVE  FirstOpen(from, d, holidays) <=> FirstOpen(from + 1, d, holidays)
<1>1. ASSUME FirstOpen(from, d, holidays) PROVE FirstOpen(from + 1, d, holidays)
  <2>1. from # d
    BY <1>1, Zenon DEF FirstOpen
  <2>2. QED
    BY <1>1, <2>1 DEF FirstOpen
<1>2. ASSUME FirstOpen(from + 1, d, holidays) PROVE FirstOpen(from, d, holidays)
  <2>1. ASSUME NEW x \in Int, from <= x, x < d PROVE Shut(x, holidays)
    <3>1. CASE x = from
      BY <3>1, Zenon
    <3>2. CASE x # from
      BY <1>2, <2>1, <3>2 DEF FirstOpen
    <3>3. QED
      BY <3>1, <3>2, Zenon
  <2>2. QED
    BY <1>2, <2>1 DEF FirstOpen
<1>3. QED
  BY <1>1, <1>2, Zenon

\* A day that is open is the first open day from itself.
LEMMA OpenHere ==
    ASSUME NEW from \in Int, NEW holidays, ~Shut(from, holidays)
    PROVE  FirstOpen(from, from, holidays)
  BY DEF FirstOpen

\* The recursive function exists.
LEMMA SearchExists ==
    ASSUME NEW holidays, NEW max \in Int
    PROVE  \E next : Search(next, holidays, max)
<1> DEFINE Open(dn, d) == d \in Int /\ FirstOpen(dn, d, holidays)
           g == [dn \in Int |-> IF \E d : Open(dn, d) /\ d <= max
                                 THEN session_start_epoch(CHOOSE d : Open(dn, d))
                                 ELSE ALPHA_SESSION_CALENDAR_INSUFFICIENT]
           Turn(dn) == IF is_weekend(dn) \/ is_holiday(dn, holidays)
                        THEN IF Covered(dn, max) THEN g[dn + 1]
                             ELSE ALPHA_SESSION_CALENDAR_INSUFFICIENT
                        ELSE IF Covered(dn, max) THEN session_start_epoch(dn)
                             ELSE ALPHA_SESSION_CALENDAR_INSUFFICIENT
<1>1. ASSUME NEW dn \in Int PROVE g[dn] = Turn(dn)
  <2>1. CASE ~Covered(dn, max)
    <3>1. ~\E d : Open(dn, d) /\ d <= max
      BY <2>1 DEF FirstOpen, Covered
    <3>2. g[dn] = ALPHA_SESSION_CALENDAR_INSUFFICIENT
      BY <3>1, Zenon
    <3>3. QED
      BY <2>1, <3>2, Zenon
  <2>2. CASE Covered(dn, max) /\ Shut(dn, holidays)
    <3>1. \A d : Open(dn, d) <=> Open(dn + 1, d)
      BY <2>2, OpenBehind, Zenon
    <3>2. dn + 1 \in Int
      OBVIOUS
    <3>3. (CHOOSE d : Open(dn, d)) = (CHOOSE d : Open(dn + 1, d))
      BY <3>1, Zenon
    <3>4. g[dn] = g[dn + 1]
      BY <3>1, <3>2, <3>3, Zenon
    <3>5. QED
      BY <2>2, <3>4, Zenon DEF Shut
  <2>3. CASE Covered(dn, max) /\ ~Shut(dn, holidays)
    <3>1. Open(dn, dn) /\ dn <= max
      BY <2>3, OpenHere, Zenon DEF Covered
    <3>2. \A d : Open(dn, d) => d = dn
      BY <3>1, OpenIsUnique, Zenon
    <3>3. (CHOOSE d : Open(dn, d)) = dn
      BY <3>1, <3>2, Zenon
    <3>4. g[dn] = session_start_epoch(dn)
      BY <3>1, <3>3, Zenon
    <3>5. QED
      BY <2>3, <3>4, Zenon DEF Shut
  <2>4. QED
    BY <2>1, <2>2, <2>3, Zenon
<1>2. g = [dn \in Int |-> g[dn]]
  BY SMT
<1> HIDE DEF g
<1>3. g = [dn \in Int |-> Turn(dn)]
  BY <1>1, <1>2, Zenon
<1>4. QED
  BY <1>3, Zenon DEF Search

\* The search finds the first open day or runs off the calendar, from any day.
LEMMA SearchFinds ==
    ASSUME NEW holidays, NEW max \in Int, NEW next, Search(next, holidays, max),
           NEW from \in Int
    PROVE  Found(next[from], from, holidays, max)
<1>1. \A dn \in Int : next[dn] =
          IF Shut(dn, holidays)
          THEN IF dn <= max THEN next[dn + 1] ELSE ALPHA_SESSION_CALENDAR_INSUFFICIENT
          ELSE IF dn <= max THEN session_start_epoch(dn)
               ELSE ALPHA_SESSION_CALENDAR_INSUFFICIENT
  BY Zenon DEF Search, Shut, Covered
<1>2. ASSUME NEW dn \in Int, dn > max PROVE Found(next[dn], dn, holidays, max)
  <2>1. ~(dn <= max)
    BY <1>2
  <2>2. next[dn] = ALPHA_SESSION_CALENDAR_INSUFFICIENT
    BY <1>1, <2>1, Zenon
  <2>3. \A x \in Int : ~(dn <= x /\ x <= max)
    BY <1>2
  <2>4. QED
    BY <2>2, <2>3, Zenon DEF Found
<1>3. ASSUME NEW dn \in Int, dn <= max, Found(next[dn + 1], dn + 1, holidays, max)
      PROVE  Found(next[dn], dn, holidays, max)
  <2>1. CASE ~Shut(dn, holidays)
    <3>1. next[dn] = session_start_epoch(dn)
      BY <1>1, <1>3, <2>1, Zenon
    <3>2. QED
      BY <1>3, <2>1, <3>1, OpenHere, Zenon DEF Found
  <2>2. CASE Shut(dn, holidays)
    <3>1. next[dn] = next[dn + 1]
      BY <1>1, <1>3, <2>2, Zenon
    <3>2. CASE \E d \in Int : /\ FirstOpen(dn + 1, d, holidays) /\ d <= max
                              /\ next[dn + 1] = session_start_epoch(d)
      BY <2>2, <3>1, <3>2, OpenBehind, Zenon DEF Found
    <3>3. CASE /\ \A x \in Int : dn + 1 <= x /\ x <= max => Shut(x, holidays)
               /\ next[dn + 1] = ALPHA_SESSION_CALENDAR_INSUFFICIENT
      <4>1. ASSUME NEW x \in Int, dn <= x, x <= max PROVE Shut(x, holidays)
        <5>1. CASE x = dn
          BY <2>2, <5>1, Zenon
        <5>2. CASE x # dn
          <6>1. dn + 1 <= x
            BY <4>1, <5>2
          <6>2. QED
            BY <3>3, <4>1, <6>1, Zenon
        <5>3. QED
          BY <5>1, <5>2, Zenon
      <4>2. QED
        BY <3>1, <3>3, <4>1, Zenon DEF Found
    <3>4. QED
      BY <1>3, <3>2, <3>3, Zenon DEF Found
  <2>3. QED
    BY <2>1, <2>2, Zenon
<1> DEFINE Bad == {k \in Nat : ~Found(next[max + 1 - k], max + 1 - k, holidays, max)}
<1>4. Bad = {}
  <2>1. SUFFICES ASSUME Bad # {} PROVE FALSE
    BY Zenon
  <2>2. PICK k \in Bad : \A j \in Bad : k <= j
    BY <2>1, Least, Zenon
  <2>3. k \in Nat /\ ~Found(next[max + 1 - k], max + 1 - k, holidays, max)
    BY <2>2, Zenon
  <2>4. PICK dn \in Int : dn = max + 1 - k
    BY <2>3
  <2>5. CASE k = 0
    <3>1. dn > max
      BY <2>4, <2>5
    <3>2. QED
      BY <1>2, <2>3, <2>4, <3>1, Zenon
  <2>6. CASE k # 0
    <3>1. k - 1 \in Nat /\ ~(k <= k - 1) /\ dn <= max /\ max + 1 - (k - 1) = dn + 1
      BY <2>3, <2>4, <2>6
    <3>2. k - 1 \notin Bad
      BY <2>2, <3>1, Zenon
    <3>3. Found(next[dn + 1], dn + 1, holidays, max)
      BY <3>1, <3>2
    <3>4. QED
      BY <1>3, <2>3, <2>4, <3>1, <3>3, Zenon
  <2>7. QED
    BY <2>5, <2>6, Zenon
<1>5. CASE from > max
  BY <1>2, <1>5, Zenon
<1>6. CASE ~(from > max)
  <2>1. max + 1 - from \in Nat /\ max + 1 - (max + 1 - from) = from
    BY <1>6
  <2>2. PICK k \in Nat : max + 1 - k = from
    BY <2>1
  <2>3. k \notin Bad
    BY <1>4, Zenon
  <2>4. QED
    BY <2>2, <2>3
<1>7. QED
  BY <1>5, <1>6, Zenon

\* So does the function the lockout asks (market_hours.c).
LEMMA NextSessionFound ==
    ASSUME NEW now, kst_day_of(now) \in Int, NEW holidays, NEW max \in Int
    PROVE  Found(alpha_next_trading_session_start_holiday_aware(now, holidays, max),
                 kst_day_of(now) + 1, holidays, max)
<1> DEFINE next == CHOOSE f : Search(f, holidays, max)
<1>1. Search(next, holidays, max)
  BY SearchExists, Zenon
<1>2. alpha_next_trading_session_start_holiday_aware(now, holidays, max)
      = next[kst_day_of(now) + 1]
  BY Zenon DEF alpha_next_trading_session_start_holiday_aware, Search
<1> HIDE DEF next
<1>3. kst_day_of(now) + 1 \in Int
  OBVIOUS
<1>4. QED
  BY <1>1, <1>2, <1>3, SearchFinds, Zenon

\* n is year y within its era e.
Floored(y, e, n) == EraOf(y, 400) = e /\ n = y - e * 400 /\ n <= 399

\* The era of a year.
LEMMA EraOfYear ==
    ASSUME NEW y \in Int
    PROVE  \E e \in Int, n \in Nat : Floored(y, e, n)
<1>1. CASE y >= 0
  <2>1. PICK q \in Nat : q = y \div 400 /\ Times(400, q, y)
    BY <1>1, Divided, SMT
  <2>2. EraOf(y, 400) = q
    BY <1>1, <2>1, SMT DEF EraOf, Quotient
  <2>3. QED
    BY <2>1, <2>2, SMT DEF Floored, Times
<1>2. CASE ~(y >= 0)
  <2>1. -(y - 399) \in Nat /\ ~(y - 399 >= 0)
    BY <1>2, SMT
  <2>2. PICK q \in Nat : q = (-(y - 399)) \div 400 /\ Times(400, q, -(y - 399))
    BY <2>1, Divided, SMT
  <2>3. EraOf(y, 400) = -q /\ -q \in Int
    BY <1>2, <2>1, <2>2, SMT DEF EraOf, Quotient
  <2>4. PICK n \in Nat : n = y - (-q) * 400 /\ n <= 399
    BY <2>2, SMT DEF Times
  <2>5. QED
    BY <2>3, <2>4, SMT DEF Floored
<1>3. QED
  BY <1>1, <1>2, SMT

\* The day number of 1 March.
FirstOfMarch(y) == EraOf(y, 400) * 146097 + DaysBefore(y - EraOf(y, 400) * 400) - 719468

\* The day of the year, from March, on which month mp begins.
MonthStart(mp) == (153 * mp + 2) \div 5

\* The twelve values of the formula for it.
LEMMA MonthStarts ==
    /\ MonthStart(0) = 0 /\ MonthStart(1) = 31 /\ MonthStart(2) = 61 /\ MonthStart(3) = 92
    /\ MonthStart(4) = 122 /\ MonthStart(5) = 153 /\ MonthStart(6) = 184 /\ MonthStart(7) = 214
    /\ MonthStart(8) = 245 /\ MonthStart(9) = 275 /\ MonthStart(10) = 306
    /\ MonthStart(11) = 337
  BY SMT DEF MonthStart

\* A day number is the first of March, the months before and the days.
LEMMA FromCivil ==
    ASSUME NEW y \in Int, NEW m \in 1 .. 12, NEW d \in Int
    PROVE  days_from_civil(y, m, d) =
               (FirstOfMarch(IF m <= 2 THEN y - 1 ELSE y)
                + MonthStart(IF m > 2 THEN m - 3 ELSE m + 9)) + (d - 1)
<1>1. PICK yy \in Int : yy = IF m <= 2 THEN y - 1 ELSE y
  BY SMT
<1>2. PICK e \in Int, n \in Nat : Floored(yy, e, n)
  BY EraOfYear, SMT
<1>3. PICK mp \in 0 .. 11 : mp = IF m > 2 THEN m - 3 ELSE m + 9
  BY SMT
<1>4. MonthStart(mp) \in Nat
  BY MonthStarts, SMTT(30)
<1>5. DaysBefore(n) \in Nat
  <2>1. n + 1 \in Nat /\ n < n + 1
    BY SMT
  <2>2. QED
    BY <2>1, BeforeGrows, SMT
<1>6. days_from_civil(y, m, d) = e * 146097 + (DaysBefore(n) + ((153 * mp + 2) \div 5 + (d - 1))) - 719468
  BY <1>1, <1>2, <1>3, <1>4, <1>5, SMT DEF days_from_civil, Floored, MonthStart
<1>7. FirstOfMarch(yy) = e * 146097 + (DaysBefore(n) - 719468)
  BY <1>2, <1>5, SMT DEF FirstOfMarch, Floored
<1>8. QED
  BY <1>1, <1>3, <1>4, <1>5, <1>6, <1>7, SMT DEF MonthStart

\* Neighbours that ascend make a list that ascends.
LEMMA AscendingAll ==
    ASSUME NEW days \in Seq(Int), Ascending(days)
    PROVE  \A i, j \in 1 .. Len(days) : i < j => days[i] < days[j]
<1>1. Len(days) \in Nat /\ \A i \in 1 .. Len(days) : days[i] \in Int
  OBVIOUS
<1>2. SUFFICES ASSUME NEW i \in 1 .. Len(days), NEW j \in 1 .. Len(days), i < j,
                      ~(days[i] < days[j])
               PROVE  FALSE
  BY Zenon
<1> DEFINE Bad == {k \in Nat : k \in 1 .. Len(days) /\ i < k /\ ~(days[i] < days[k])}
<1>3. j \in Bad
  BY <1>2
<1>4. PICK k \in Bad : \A l \in Bad : k <= l
  BY <1>3, Least, Zenon
<1>5. days[k] > days[k - 1] /\ k - 1 \in 1 .. Len(days) /\ k - 1 \in Nat /\ ~(k <= k - 1)
  BY <1>1, <1>4 DEF Ascending
<1>6. k - 1 \notin Bad
  BY <1>4, <1>5, Zenon
<1>7. i = k - 1 \/ days[i] < days[k - 1]
  BY <1>1, <1>4, <1>5, <1>6
<1>8. QED
  BY <1>1, <1>4, <1>5, <1>7, SMTT(30)

\* The scan finds a day that is in the list.
LEMMA HolidayFound ==
    ASSUME NEW days \in Seq(Int), Ascending(days), NEW d \in Int
    PROVE  is_holiday(d, days) <=> \E i \in 1 .. Len(days) : days[i] = d
<1>1. ASSUME NEW i \in 1 .. Len(days), days[i] = d PROVE is_holiday(d, days)
  <2>1. ASSUME NEW j \in 1 .. i - 1 PROVE days[j] < d
    <3>1. j \in 1 .. Len(days) /\ j < i
      OBVIOUS
    <3>2. QED
      BY <1>1, <3>1, AscendingAll, Zenon
  <2>2. QED
    BY <1>1, <2>1, Zenon DEF is_holiday
<1>2. QED
  BY <1>1, Zenon DEF is_holiday

\* The Korean day of an instant is nine hours ahead of UTC, rounded down.
LEMMA KstDay ==
    ASSUME NEW now \in Int
    PROVE  \E d \in Int : kst_day_of(now) = d /\ Times(86400, d, now + 32400)
<1>1. PICK a \in Int : a = now + 32400
  BY SMT
<1>2. CASE a >= 0
  <2>1. PICK q \in Nat : q = a \div 86400 /\ Times(86400, q, a)
    BY <1>2, Divided, SMT
  <2>2. Quotient(a, 86400) = q
    BY <1>2, <2>1, SMT DEF Quotient
  <2>3. kst_day_of(now) = q
    BY <1>1, <1>2, <2>2, SMT
       DEF kst_day_of, floor_div, ALPHA_KST_OFFSET_SECONDS, SECONDS_PER_DAY
  <2>4. QED
    BY <1>1, <2>1, <2>3, SMT
<1>3. CASE ~(a >= 0)
  <2>0. PICK n \in Nat : n = -a
    BY <1>3, SMT
  <2>1. PICK q \in Nat : q = n \div 86400 /\ Times(86400, q, n)
    BY Divided, SMT
  <2>2. Quotient(a, 86400) = -q /\ a < 0
    BY <1>3, <2>0, <2>1, SMT DEF Quotient
  <2>3. kst_day_of(now) = IF a # (-q) * 86400 THEN (-q) - 1 ELSE -q
    BY <1>1, <2>2, SMT DEF kst_day_of, floor_div, ALPHA_KST_OFFSET_SECONDS, SECONDS_PER_DAY
  <2>4. PICK d \in Int : d = IF a # (-q) * 86400 THEN (-q) - 1 ELSE -q
    BY <2>1, SMT
  <2>5. Times(86400, d, a)
    BY <2>0, <2>1, <2>4, SMT DEF Times
  <2>6. QED
    BY <1>1, <2>3, <2>4, <2>5, SMT
<1>4. QED
  BY <1>2, <1>3, SMT

-----------------------------------------------------------------------------
(* The lockout. *)

\* What a call under way has read so far.
ClientFrame == [now : Int, server_now : Nat, year : Int, holidays : Seq(Int),
                expiry : Nat, session : BOOLEAN]
\* The command whose reply a client waits for.
Commands == {"idle", "session_time", "calendar_get", "calendar_ttl", "set_time",
             "set", "is_get", "is_time", "is_ttl", "del"}

\* The Korean year of an epoch.
YearAt(epoch) == civil_year_from_days(kst_day_of(epoch))

\* The days the two GETs of load_calendar put together.
HolidaysOf(first, year) ==
    IF year = first THEN DaysOf(Holidays[first])
    ELSE DaysOf(Holidays[first]) \o DaysOf(Holidays[first + 1])

\* What a client that is about to send a command has read.
GoodFrame(command, f) ==
    LET first == YearAt(f.now)
    IN /\ command \in {"session_time", "calendar_get", "calendar_ttl"} => f.session
       /\ command = "session_time" => f.holidays = <<>>
       /\ command \in {"calendar_get", "calendar_ttl"} =>
             -5 <= f.now /\ f.year \in {first, first + 1}
       /\ command = "calendar_get" =>
             IF f.year = first THEN f.holidays = <<>>
             ELSE first \in Years /\ f.holidays = DaysOf(Holidays[first])
       /\ command = "calendar_ttl" =>
             first \in Years /\ f.year \in Years /\ f.holidays = HolidaysOf(first, f.year)
       /\ command \in {"set_time", "set"} => f.expiry > f.now
       /\ command \in {"set_time", "set"} /\ f.session => IsSessionAfter(f.expiry, f.now)

\* What every client holds is right for the command it waits for.
BreakerInv == BreakerTypeOK /\ \A c \in Clients : GoodFrame(pc[c], frame[c])

\* The lockout alone, with any clients.
BreakerSpec == BreakerInit /\ [][BreakerNext]_breaker


\* A day number is an integer, whatever the day of the month.
LEMMA DayNumber ==
    ASSUME NEW y \in Int, NEW m \in 1 .. 12, NEW d \in Int
    PROVE  days_from_civil(y, m, d) \in Int
<1>1. PICK yy \in Int : yy = IF m <= 2 THEN y - 1 ELSE y
  BY SMT
<1>2. PICK mp \in 0 .. 11 : mp = IF m > 2 THEN m - 3 ELSE m + 9
  BY SMT
<1>3. days_from_civil(y, m, d) = (FirstOfMarch(yy) + MonthStart(mp)) + (d - 1)
  BY <1>1, <1>2, FromCivil, SMTT(30)
<1>4. FirstOfMarch(yy) \in Int
  <2>1. PICK e \in Int, n \in Nat : Floored(yy, e, n)
    BY EraOfYear, SMT
  <2>2. FirstOfMarch(yy) = e * 146097 + (DaysBefore(n) - 719468)
    BY <2>1, SMT DEF FirstOfMarch, Floored
  <2>3. DaysBefore(n) \in Int
    BY SMT DEF DaysBefore
  <2>4. QED
    BY <2>2, <2>3, SMT
<1>5. MonthStart(mp) \in Int
  BY <1>2, SMT DEF MonthStart
<1>6. QED
  BY <1>3, <1>4, <1>5, SMT

\* The list of one year: ascending days of that year.
IsListOf(days, y) ==
    /\ days \in Seq(Int) /\ Ascending(days)
    /\ \A i \in 1 .. Len(days) : civil_year_from_days(days[i]) = y

\* The holidays stored for a year are days of that year.
LEMMA ListOfYear ==
    ASSUME NEW y \in Years
    PROVE  /\ y \in Int /\ IsListOf(DaysOf(Holidays[y]), y)
           /\ Len(DaysOf(Holidays[y])) = Len(Holidays[y])
<1>1. PICK dates \in Seq(Int \X Int \X Int) : dates = Holidays[y]
  BY HolidaysAssumption, Zenon DEF Years
<1>2. y \in Int /\ parse_holiday_json(dates, y)
  BY <1>1, HolidaysAssumption, Zenon DEF Years
<1>3. ASSUME NEW i \in 1 .. Len(dates)
      PROVE  days_from_civil(dates[i][1], dates[i][2], dates[i][3]) \in Int
  <2>1. dates[i][1] \in Int /\ dates[i][2] \in 1 .. 12 /\ dates[i][3] \in Int
    <3>1. dates[i] \in Int \X Int \X Int
      BY <1>1, <1>3, SMT
    <3>2. dates[i][1] \in Int /\ dates[i][3] \in Int
      BY <3>1, SMT
    <3>3. dates[i][2] \in 1 .. 12
      BY <1>2, Zenon DEF parse_holiday_json, IsDate
    <3>4. QED
      BY <3>2, <3>3, Zenon
  <2>2. QED
    BY <2>1, DayNumber, Zenon
<1>4. PICK days : days = DaysOf(dates)
  OBVIOUS
<1>5. days \in Seq(Int) /\ Len(days) = Len(dates)
  BY <1>1, <1>3, <1>4, SMT DEF DaysOf
<1>6. Ascending(days) /\ \A i \in 1 .. Len(dates) : civil_year_from_days(days[i]) = y
  BY <1>2, <1>4, Zenon DEF parse_holiday_json
<1>7. QED
  BY <1>1, <1>2, <1>4, <1>5, <1>6, Zenon DEF IsListOf

\* Two lists of years that follow one another ascend together.
LEMMA ListsJoin ==
    ASSUME NEW y \in Int, NEW a, NEW b, IsListOf(a, y), IsListOf(b, y + 1)
    PROVE  a \o b \in Seq(Int) /\ Ascending(a \o b)
<1>1. a \in Seq(Int) /\ b \in Seq(Int) /\ Ascending(a) /\ Ascending(b)
  BY Zenon DEF IsListOf
<1>2. ASSUME NEW i \in 1 .. Len(a), NEW j \in 1 .. Len(b) PROVE a[i] < b[j]
  <2>1. a[i] \in Int /\ b[j] \in Int
    BY <1>1, SMT
  <2>2. civil_year_from_days(a[i]) = y /\ civil_year_from_days(b[j]) = y + 1
    BY Zenon DEF IsListOf
  <2>3. b[j] <= a[i] => civil_year_from_days(b[j]) <= civil_year_from_days(a[i])
    BY <2>1, YearsGrow, Zenon
  <2>4. QED
    BY <2>1, <2>2, <2>3, SMT
<1>3. PICK both : both = a \o b
  BY Zenon
<1>4. /\ both \in Seq(Int) /\ Len(both) = Len(a) + Len(b)
      /\ Len(a) \in Nat /\ Len(b) \in Nat
      /\ \A i \in 1 .. Len(both) : both[i] = IF i <= Len(a) THEN a[i] ELSE b[i - Len(a)]
  BY <1>1, <1>3, SMT
<1>5. Ascending(both)
  <2>1. SUFFICES ASSUME NEW i \in 1 .. Len(both), i > 1 PROVE both[i] > both[i - 1]
    BY Zenon DEF Ascending
  <2>2. i - 1 \in 1 .. Len(both)
    BY <1>4, <2>1, SMT
  <2>3. CASE i <= Len(a)
    <3>0. i \in 1 .. Len(a) /\ i - 1 <= Len(a)
      BY <1>4, <2>1, <2>3, SMT
    <3>1. both[i] = a[i] /\ both[i - 1] = a[i - 1]
      BY <1>4, <2>1, <2>2, <2>3, <3>0, Zenon
    <3>2. QED
      BY <1>1, <2>1, <3>0, <3>1, Zenon DEF Ascending
  <2>4. CASE i = Len(a) + 1
    <3>0. i - 1 \in 1 .. Len(a) /\ 1 \in 1 .. Len(b) /\ i - Len(a) = 1
          /\ ~(i <= Len(a)) /\ i - 1 <= Len(a)
      BY <1>4, <2>1, <2>4, SMTT(30)
    <3>1. both[i] = b[1] /\ both[i - 1] = a[i - 1]
      BY <1>4, <2>1, <2>2, <3>0, Zenon
    <3>2. a[i - 1] < b[1] /\ a[i - 1] \in Int /\ b[1] \in Int
      <4>1. a[i - 1] < b[1]
        BY <1>2, <3>0, Zenon
      <4>2. a[i - 1] \in Int /\ b[1] \in Int
        BY <1>1, <3>0, SMTT(30)
      <4>3. QED
        BY <4>1, <4>2, Zenon
    <3>3. QED
      BY <3>1, <3>2, SMT
  <2>5. CASE i > Len(a) + 1
    <3>1. PICK j \in 1 .. Len(b) : j > 1 /\ j = i - Len(a)
      BY <1>4, <2>1, <2>5, SMTT(30)
    <3>2. both[i] = b[j] /\ both[i - 1] = b[j - 1]
      <4>1. (i - 1) - Len(a) = j - 1 /\ i - Len(a) = j
        BY <1>4, <3>1, SMT
      <4>2. ~(i <= Len(a)) /\ ~(i - 1 <= Len(a))
        BY <1>4, <2>5, SMT
      <4>3. QED
        BY <1>4, <2>2, <4>1, <4>2, Zenon
    <3>3. b[j] > b[j - 1]
      BY <1>1, <3>1, Zenon DEF Ascending
    <3>4. QED
      BY <3>2, <3>3, Zenon
  <2>6. i \in Int
    BY <1>4, SMT
  <2>7. \A n \in Nat : i <= n \/ i = n + 1 \/ i > n + 1
    BY <2>6, SMT
  <2>8. QED
    BY <1>4, <2>3, <2>4, <2>5, <2>7, Zenon
<1>6. QED
  BY <1>3, <1>4, <1>5, Zenon

\* A session starts within its day, and later sessions later.
LEMMA SessionEpoch ==
    ASSUME NEW d \in Int
    PROVE  /\ session_start_epoch(d) \in Int
           /\ session_start_epoch(d) \div SECONDS_PER_DAY = d
           /\ \A c \in Int : c <= d => session_start_epoch(c) <= session_start_epoch(d)
<1>1. \A c \in Int : session_start_epoch(c) = 86400 * c
  BY SMT DEF session_start_epoch, SECONDS_PER_DAY, ALPHA_KST_OFFSET_SECONDS
<1>2. (86400 * d) \div 86400 = d
  BY SMT
<1>3. QED
  BY <1>1, <1>2, SMT DEF SECONDS_PER_DAY

\* The day of a session after an epoch of day k.
SessionDay(x, k, d) ==
    /\ x = session_start_epoch(d) /\ k < d /\ Trades(d)
    /\ \A c \in Int : k < c /\ c < d => ~Trades(c)

\* The property's session after an instant, as a day.
LEMMA SessionAfterIs ==
    ASSUME NEW x \in Int, NEW n \in Int
    PROVE  /\ kst_day_of(n) \in Int
           /\ IsSessionAfter(x, n) <=> \E d \in Int : SessionDay(x, kst_day_of(n), d)
<1>1. PICK k \in Int : k = kst_day_of(n)
  BY KstDay, SMT
<1>2. ASSUME IsSessionAfter(x, n) PROVE \E d \in Int : SessionDay(x, k, d)
  <2>1. PICK d \in Int : d = x \div SECONDS_PER_DAY
    BY SMT DEF SECONDS_PER_DAY
  <2>2. x = session_start_epoch(d) /\ k < d /\ Trades(d) /\ \A c \in k + 1 .. d - 1 : ~Trades(c)
    BY <1>1, <1>2, <2>1, Zenon DEF IsSessionAfter
  <2>3. ASSUME NEW c \in Int, k < c, c < d PROVE c \in k + 1 .. d - 1
    BY <2>3, SMT
  <2>4. QED
    BY <2>2, <2>3, Zenon DEF SessionDay
<1>3. ASSUME NEW d \in Int, SessionDay(x, k, d) PROVE IsSessionAfter(x, n)
  <2>1. x \div SECONDS_PER_DAY = d
    BY <1>3, SessionEpoch, Zenon DEF SessionDay
  <2>2. ASSUME NEW c \in k + 1 .. d - 1 PROVE c \in Int /\ k < c /\ c < d
    BY SMT
  <2>3. QED
    BY <1>1, <1>3, <2>1, <2>2, Zenon DEF SessionDay, IsSessionAfter
<1>4. QED
  BY <1>1, <1>2, <1>3, Zenon

\* A later event has no earlier session.
LEMMA SessionsInOrder ==
    ASSUME NEW x \in Int, NEW z \in Int, NEW m \in Int, NEW n \in Int, m <= n,
           IsSessionAfter(x, m), IsSessionAfter(z, n)
    PROVE  x <= z
<1>1. PICK j \in Int : kst_day_of(m) = j
  BY KstDay, SMT
<1>2. PICK k \in Int : kst_day_of(n) = k
  BY KstDay, SMT
<1>3. j <= k
  <2>1. Times(86400, j, m + 32400) /\ Times(86400, k, n + 32400)
    BY <1>1, <1>2, KstDay, SMT
  <2>2. QED
    BY <2>1, SMT DEF Times
<1>4. PICK c \in Int : SessionDay(x, j, c)
  BY <1>1, SessionAfterIs, Zenon
<1>5. PICK d \in Int : SessionDay(z, k, d)
  BY <1>2, SessionAfterIs, Zenon
<1>6. c <= d
  <2>1. SUFFICES ASSUME d < c PROVE FALSE
    BY SMT
  <2>2. Trades(d) /\ k < d
    BY <1>5, Zenon DEF SessionDay
  <2>3. j < d
    BY <1>3, <2>2, SMT
  <2>4. QED
    BY <1>4, <2>1, <2>2, <2>3, Zenon DEF SessionDay
<1>7. x = session_start_epoch(c) /\ z = session_start_epoch(d)
  BY <1>4, <1>5, Zenon DEF SessionDay
<1>8. QED
  BY <1>6, <1>7, SessionEpoch, Zenon

\* On the days of the years that were read a holiday is in the list.
LEMMA HolidaysKnown ==
    ASSUME NEW first \in Years, NEW year \in Years, year \in {first, first + 1},
           NEW d \in Int, first <= civil_year_from_days(d), civil_year_from_days(d) <= year
    PROVE  /\ HolidaysOf(first, year) \in Seq(Int) /\ Ascending(HolidaysOf(first, year))
           /\ d \in AllHolidays <=>
                  \E i \in 1 .. Len(HolidaysOf(first, year)) : HolidaysOf(first, year)[i] = d
<1> DEFINE In(list) == \E i \in 1 .. Len(list) : list[i] = d
<1>1. PICK y : y = civil_year_from_days(d) /\ y \in Int
  BY YearsGrow, SMT
<1>2. first \in Int /\ year \in Int /\ (y = first \/ y = first + 1) /\ y <= year /\ first <= y
  BY <1>1, ListOfYear, SMT
<1>3. d \in AllHolidays <=> \E x \in Years : In(DaysOf(Holidays[x]))
  <2>1. ASSUME NEW x \in Years
        PROVE  d \in {DaysOf(Holidays[x])[i] : i \in 1 .. Len(Holidays[x])}
                   <=> In(DaysOf(Holidays[x]))
    BY ListOfYear, Zenon
  <2>2. d \in AllHolidays <=>
            \E x \in Years : d \in {DaysOf(Holidays[x])[i] : i \in 1 .. Len(Holidays[x])}
    BY SMT DEF AllHolidays
  <2>3. QED
    BY <2>1, <2>2, Zenon
<1>4. ASSUME NEW x \in Years, In(DaysOf(Holidays[x])) PROVE x = y
  BY <1>1, <1>4, ListOfYear, Zenon DEF IsListOf
<1>5. CASE year = first
  <2>1. y = first
    BY <1>2, <1>5, SMT
  <2>2. HolidaysOf(first, year) = DaysOf(Holidays[first])
    BY <1>5, Zenon DEF HolidaysOf
  <2>3. d \in AllHolidays <=> In(DaysOf(Holidays[first]))
    BY <1>3, <1>4, <2>1, Zenon
  <2>4. QED
    BY <2>2, <2>3, ListOfYear, Zenon DEF IsListOf
<1>6. CASE year = first + 1 /\ year # first
  <2>1. PICK a, b : a = DaysOf(Holidays[first]) /\ b = DaysOf(Holidays[year])
    OBVIOUS
  <2>2. IsListOf(a, first) /\ IsListOf(b, first + 1)
    BY <1>6, <2>1, ListOfYear, Zenon
  <2>3. HolidaysOf(first, year) = a \o b
    BY <1>6, <2>1, Zenon DEF HolidaysOf
  <2>4. a \o b \in Seq(Int) /\ Ascending(a \o b)
    BY <1>2, <2>2, ListsJoin, Zenon
  <2>5. In(a \o b) <=> In(a) \/ In(b)
    <3>1. PICK both : both = a \o b
      BY Zenon
    <3>2. /\ Len(both) = Len(a) + Len(b) /\ Len(a) \in Nat /\ Len(b) \in Nat
          /\ \A i \in 1 .. Len(both) : both[i] = IF i <= Len(a) THEN a[i] ELSE b[i - Len(a)]
      BY <2>2, <3>1, SMT DEF IsListOf
    <3>3. ASSUME NEW i \in 1 .. Len(a), a[i] = d PROVE In(both)
      <4>1. i \in 1 .. Len(both) /\ i <= Len(a)
        BY <3>2, SMT
      <4>2. QED
        BY <3>2, <3>3, <4>1, Zenon
    <3>4. ASSUME NEW i \in 1 .. Len(b), b[i] = d PROVE In(both)
      <4>1. PICK j \in 1 .. Len(both) : ~(j <= Len(a)) /\ j - Len(a) = i
        <5>1. Len(a) + i \in 1 .. Len(both) /\ ~(Len(a) + i <= Len(a)) /\ (Len(a) + i) - Len(a) = i
          BY <3>2, SMT
        <5>2. QED
          BY <5>1, Zenon
      <4>2. QED
        BY <3>2, <3>4, <4>1, Zenon
    <3>5. ASSUME NEW i \in 1 .. Len(both), both[i] = d PROVE In(a) \/ In(b)
      <4>1. CASE i <= Len(a)
        <5>1. i \in 1 .. Len(a)
          BY <3>2, <4>1, SMT
        <5>2. QED
          BY <3>2, <3>5, <4>1, <5>1, Zenon
      <4>2. CASE ~(i <= Len(a))
        <5>1. i - Len(a) \in 1 .. Len(b)
          BY <3>2, <4>2, SMT
        <5>2. QED
          BY <3>2, <3>5, <4>2, <5>1, Zenon
      <4>3. QED
        BY <4>1, <4>2
    <3>6. QED
      BY <3>1, <3>3, <3>4, <3>5, Zenon
  <2>6. d \in AllHolidays <=> In(a) \/ In(b)
    BY <1>2, <1>3, <1>4, <1>6, <2>1, Zenon
  <2>7. QED
    BY <2>3, <2>4, <2>5, <2>6, Zenon
<1>7. QED
  BY <1>5, <1>6, Zenon


\* The session named by the calendars that were read is the next one.
LEMMA NextIsSession ==
    ASSUME NEW now \in Int, NEW first \in Years, first = YearAt(now),
           NEW year \in Years, year \in {first, first + 1}, NEW x,
           x = alpha_next_trading_session_start_holiday_aware(
                   now, HolidaysOf(first, year), CalendarMaxDay(year)),
           x # ALPHA_SESSION_CALENDAR_INSUFFICIENT
    PROVE  x \in Int /\ IsSessionAfter(x, now)
<1>1. PICK k \in Int : k = kst_day_of(now)
  BY KstDay, SMT
<1>2. PICK list : list = HolidaysOf(first, year)
  OBVIOUS
<1>3. PICK max \in Int : max = CalendarMaxDay(year) /\ civil_year_from_days(max) = year
  <2>1. year \in Int
    BY ListOfYear, Zenon
  <2>2. QED
    BY <2>1, YearOfItsLastDay, SMT DEF CalendarMaxDay
<1>4. Found(x, k + 1, list, max)
  BY <1>1, <1>2, <1>3, NextSessionFound, Zenon
<1>5. PICK d \in Int : FirstOpen(k + 1, d, list) /\ d <= max /\ x = session_start_epoch(d)
  BY <1>4, Zenon DEF Found
<1>6. ASSUME NEW c \in Int, k < c, c <= d PROVE Trades(c) <=> ~Shut(c, list)
  <2>1. k <= c /\ c <= max
    BY <1>5, <1>6, SMT
  <2>2. first <= civil_year_from_days(c) /\ civil_year_from_days(c) <= year
    BY <1>1, <1>3, <2>1, YearsGrow, Zenon DEF YearAt
  <2>3. list \in Seq(Int) /\ Ascending(list)
        /\ (c \in AllHolidays <=> \E i \in 1 .. Len(list) : list[i] = c)
    <3>1. /\ HolidaysOf(first, year) \in Seq(Int) /\ Ascending(HolidaysOf(first, year))
          /\ c \in AllHolidays <=>
                 \E i \in 1 .. Len(HolidaysOf(first, year)) : HolidaysOf(first, year)[i] = c
      BY <2>2, HolidaysKnown, SMT
    <3>2. QED
      BY <1>2, <3>1, SMT
  <2>4. c \in AllHolidays <=> is_holiday(c, list)
    BY <2>3, HolidayFound, Zenon
  <2>5. QED
    BY <2>4, Zenon DEF Trades, Shut
<1>7. k < d /\ k + 1 <= d /\ d <= d
  BY <1>5, SMT DEF FirstOpen
<1>8. ASSUME NEW c \in Int, k < c, c < d PROVE ~Trades(c)
  <2>1. k + 1 <= c /\ c <= d
    BY <1>8, SMT
  <2>2. Shut(c, list)
    BY <1>5, <1>8, <2>1, Zenon DEF FirstOpen
  <2>3. QED
    BY <1>6, <1>8, <2>1, <2>2, Zenon
<1>9. SessionDay(x, k, d) /\ x \in Int
  BY <1>5, <1>6, <1>7, <1>8, SessionEpoch, Zenon DEF SessionDay, FirstOpen
<1>10. QED
  BY <1>1, <1>9, SessionAfterIs, Zenon

\* C's division is the floor for an epoch that is not before 1970.
LEMMA QuotientIsKstDay ==
    ASSUME NEW now \in Int, -5 <= now
    PROVE  /\ Quotient(now + ALPHA_KST_OFFSET_SECONDS, SECONDS_PER_DAY) = kst_day_of(now)
           /\ kst_day_of(now) \in Int /\ YearAt(now) \in Int
<1>1. Quotient(now + ALPHA_KST_OFFSET_SECONDS, SECONDS_PER_DAY) = kst_day_of(now)
  BY SMT DEF kst_day_of, floor_div, Quotient, ALPHA_KST_OFFSET_SECONDS, SECONDS_PER_DAY
<1>2. kst_day_of(now) \in Int
  BY KstDay, SMT
<1>3. YearAt(now) \in Int
  BY <1>2, YearsGrow, SMT DEF YearAt
<1>4. QED
  BY <1>1, <1>2, <1>3, Zenon

\* What a call returns.
Results == [status : {"OK", "ERR_IO", "ERR_INVALID_ARG"},
            locked : {"as it was", "TRUE", "FALSE"}, expires : Nat]

\* What the clients' part of the invariant is.
ClientsOK ==
    /\ pc \in [Clients -> Commands] /\ frame \in [Clients -> ClientFrame]
    /\ out \in [Clients -> Results]
    /\ \A c \in Clients : GoodFrame(pc[c], frame[c])

\* The types of what is not a client's.
ServerOK ==
    /\ clock \in Instants /\ calendar \in [Years -> {"unusable", "stale", "fresh"}]
    /\ lock \in [type : {"none", "string", "hash"}, value : Nat, expires : Nat]
    /\ err \subseteq Clients /\ due \in Nat

\* The invariant is about the clients and about the server.
LEMMA InvSplits == BreakerInv <=> ClientsOK /\ ServerOK
<1>1. ClientsOK => \A c \in Setters : pc[c] \in {"set_time", "set"} => frame[c].expiry > frame[c].now
  BY Zenon DEF ClientsOK, Clients, GoodFrame
<1>2. QED
  BY <1>1, Zenon DEF BreakerInv, BreakerTypeOK, ClientsOK, ServerOK, Results, ClientFrame, Commands

\* A client that has called nothing satisfies it.
LEMMA NoFrameIsGood ==
    NoFrame \in ClientFrame /\ GoodFrame("idle", NoFrame) /\ NoResult \in Results
<1>1. NoFrame \in ClientFrame
  BY SMT DEF NoFrame, ClientFrame
<1>2. NoResult \in Results
  BY SMT DEF NoResult, Results
<1>3. GoodFrame("idle", NoFrame)
  BY SMT DEF GoodFrame
<1>4. QED
  BY <1>1, <1>2, <1>3

\* One client's step to another command, or out of its call.
LEMMA ClientMoves ==
    ASSUME ClientsOK, NEW c \in Clients, NEW command \in Commands, NEW f \in ClientFrame,
           GoodFrame(command, f), NEW result \in Results,
           pc' = [pc EXCEPT ![c] = command], frame' = [frame EXCEPT ![c] = f],
           out' = out \/ out' = [out EXCEPT ![c] = result]
    PROVE  ClientsOK'
<1>1. pc' \in [Clients -> Commands] /\ frame' \in [Clients -> ClientFrame]
      /\ out' \in [Clients -> Results]
  BY Zenon DEF ClientsOK
<1>2. ASSUME NEW x \in Clients PROVE GoodFrame(pc'[x], frame'[x])
  <2>1. CASE x = c
    <3>1. pc'[x] = command /\ frame'[x] = f
      BY <2>1, Zenon DEF ClientsOK
    <3>2. QED
      BY <3>1, Zenon
  <2>2. CASE x # c
    <3>1. pc'[x] = pc[x] /\ frame'[x] = frame[x]
      BY <2>2, Zenon DEF ClientsOK
    <3>2. QED
      BY <3>1, Zenon DEF ClientsOK
  <2>3. QED
    BY <2>1, <2>2
<1>3. QED
  BY <1>1, <1>2, Zenon DEF ClientsOK

\* A call that returns, fails, reads on or begins leaves the other clients alone.
LEMMA ClientReturns ==
    ASSUME ClientsOK, NEW c \in Clients,
           NEW status \in {"OK", "ERR_IO", "ERR_INVALID_ARG"},
           NEW locked \in {"as it was", "TRUE", "FALSE"}, NEW expires \in Nat,
           Return(c, status, locked, expires)
    PROVE  ClientsOK'
<1>1. [status |-> status, locked |-> locked, expires |-> expires] \in Results
  BY Zenon DEF Results
<1>2. "idle" \in Commands
  BY Zenon DEF Commands
<1>3. QED
  BY <1>1, <1>2, NoFrameIsGood, ClientMoves, Zenon DEF Return

LEMMA ClientFails ==
    ASSUME ClientsOK, NEW c \in Clients,
           \/ Return(c, "ERR_IO", "as it was", 0)
           \/ Return(c, "ERR_INVALID_ARG", "as it was", 0)
    PROVE  ClientsOK'
<1>1. 0 \in Nat
  BY Zenon
<1>2. QED
  BY <1>1, ClientReturns, Zenon

LEMMA ClientGoes ==
    ASSUME ClientsOK, NEW c \in Clients, NEW command \in Commands, NEW f \in ClientFrame,
           GoodFrame(command, f), GoTo(c, command, f)
    PROVE  ClientsOK'
  BY NoFrameIsGood, ClientMoves, Zenon DEF GoTo

LEMMA ClientBegins ==
    ASSUME ClientsOK, NEW c \in Clients, NEW command \in Commands, NEW f \in ClientFrame,
           GoodFrame(command, f), Begin(c, command, f)
    PROVE  ClientsOK'
  BY NoFrameIsGood, ClientMoves, Zenon DEF Begin


\* The invariant holds at first.
LEMMA BreakerStarts == BreakerInit => BreakerInv
<1> SUFFICES ASSUME BreakerInit PROVE BreakerInv
  OBVIOUS
<1>1. ClientsOK
  <2>1. "idle" \in Commands
    BY Zenon DEF Commands
  <2>2. QED
    BY <2>1, NoFrameIsGood, Zenon DEF BreakerInit, ClientsOK
<1>2. ServerOK
  <2>1. NoKey \in [type : {"none", "string", "hash"}, value : Nat, expires : Nat]
    BY SMT DEF NoKey
  <2>2. calendar \in [Years -> {"unusable", "stale", "fresh"}]
    BY Zenon DEF BreakerInit
  <2>3. clock \in Instants /\ err \subseteq Clients /\ due \in Nat
    BY SMT DEF BreakerInit
  <2>4. QED
    BY <2>1, <2>2, <2>3, Zenon DEF ServerOK, BreakerInit
<1>3. QED
  BY <1>1, <1>2, InvSplits

\* The time of the server is a natural number of seconds.
LEMMA TimeIsNat == ASSUME ServerOK PROVE clock \in Nat /\ TIME \in Nat
<1>1. clock \in Nat
  BY InstantsAssumption, Zenon DEF ServerOK
<1>2. QED
  BY <1>1, SMT DEF TIME

\* The clients' part: each command of a call.
LEMMA SessionTimeKeeps ==
    ASSUME ClientsOK, ServerOK, NEW c \in Clients, SessionTime(c)
    PROVE  ClientsOK'
<1>1. PICK f \in ClientFrame : f = frame[c] /\ f.session /\ f.holidays = <<>>
  BY Zenon DEF ClientsOK, SessionTime, GoodFrame
<1>2. CASE CallerIsCurrent(f.now, TIME)
  <2>1. f.now \in Int /\ -5 <= f.now
    BY <1>1, <1>2, TimeIsNat, SMTT(30) DEF CallerIsCurrent, ClientFrame
  <2>2. PICK year : year = YearAt(f.now) /\ year \in Int
    BY <2>1, QuotientIsKstDay, Zenon
  <2>3. PICK g : g = [f EXCEPT !.server_now = TIME, !.year = year]
    OBVIOUS
  <2>4. GoTo(c, "calendar_get", g)
    BY <1>1, <1>2, <2>1, <2>2, <2>3, QuotientIsKstDay, Zenon DEF SessionTime, YearAt
  <2>5. /\ g \in ClientFrame /\ g.now = f.now /\ g.session = f.session
        /\ g.holidays = f.holidays /\ g.year = year
    <3>1. TIME \in Nat
      BY TimeIsNat, Zenon
    <3>2. g \in ClientFrame
      BY <2>2, <2>3, <3>1, Zenon DEF ClientFrame
    <3>3. /\ g.now = f.now /\ g.session = f.session
          /\ g.holidays = f.holidays /\ g.year = year
      BY <2>3, Zenon DEF ClientFrame
    <3>4. QED
      BY <3>2, <3>3, Zenon
  <2>6. GoodFrame("calendar_get", g)
    BY <1>1, <2>1, <2>2, <2>5, SMT DEF GoodFrame
  <2>7. "calendar_get" \in Commands
    BY Zenon DEF Commands
  <2>8. QED
    BY <2>4, <2>5, <2>6, <2>7, ClientGoes, Zenon
<1>3. CASE ~CallerIsCurrent(f.now, TIME)
  <2>1. Return(c, "ERR_INVALID_ARG", "as it was", 0)
    BY <1>1, <1>3, Zenon DEF SessionTime
  <2>2. QED
    BY <2>1, ClientFails, Zenon
<1>4. QED
  BY <1>2, <1>3

\* Reading the holidays of a year keeps the invariant: the list of the second
\* year is joined to that of the first.
LEMMA CalendarGetKeeps ==
    ASSUME ClientsOK, ServerOK, NEW c \in Clients, CalendarGet(c)
    PROVE  ClientsOK'
<1>1. PICK f \in ClientFrame : f = frame[c] /\ GoodFrame("calendar_get", f)
  BY Zenon DEF ClientsOK, CalendarGet
<1>2. f.now \in Int /\ -5 <= f.now /\ f.session
  BY <1>1, SMT DEF GoodFrame, ClientFrame
<1>3. PICK first \in Int : first = YearAt(f.now)
  BY <1>2, QuotientIsKstDay, Zenon
<1>4. CASE f.year \in Years /\ calendar[f.year] \in {"stale", "fresh"}
  <2>1. PICK list : list = f.holidays \o DaysOf(Holidays[f.year])
    BY Zenon
  <2>2. PICK g : g = [f EXCEPT !.holidays = list]
    BY Zenon
  <2>3. GoTo(c, "calendar_ttl", g)
    BY <1>1, <1>4, <2>1, <2>2, SMT DEF CalendarGet
  <2>4. DaysOf(Holidays[f.year]) \in Seq(Int) /\ f.holidays \in Seq(Int) /\ list \in Seq(Int)
    <3>1. DaysOf(Holidays[f.year]) \in Seq(Int)
      BY <1>4, ListOfYear, Zenon DEF IsListOf
    <3>2. f.holidays \in Seq(Int)
      BY SMT DEF ClientFrame
    <3>3. QED
      BY <2>1, <3>1, <3>2, SMT
  <2>5. first \in Years /\ list = HolidaysOf(first, f.year)
    <3>1. CASE f.year = first
      <4>1. f.holidays = <<>>
        BY <1>1, <1>3, <3>1, Zenon DEF GoodFrame
      <4>2. list = DaysOf(Holidays[f.year])
        BY <2>1, <2>4, <4>1, SMT
      <4>3. QED
        BY <1>4, <3>1, <4>2, Zenon DEF HolidaysOf
    <3>2. CASE f.year # first
      <4>1. first \in Years /\ f.holidays = DaysOf(Holidays[first]) /\ f.year = first + 1
        BY <1>1, <1>3, <3>2, Zenon DEF GoodFrame
      <4>2. QED
        BY <2>1, <3>2, <4>1, Zenon DEF HolidaysOf
    <3>3. QED
      BY <3>1, <3>2
  <2>6. /\ g \in ClientFrame /\ g.now = f.now /\ g.session = f.session
        /\ g.holidays = list /\ g.year = f.year
    <3>1. g \in ClientFrame
      BY <2>2, <2>4, Zenon DEF ClientFrame
    <3>2. /\ g.now = f.now /\ g.session = f.session
          /\ g.holidays = list /\ g.year = f.year
      BY <2>2, Zenon DEF ClientFrame
    <3>3. QED
      BY <3>1, <3>2, Zenon
  <2>7. f.year \in {first, first + 1}
    BY <1>1, <1>3, Zenon DEF GoodFrame
  <2>8. GoodFrame("calendar_ttl", g)
    BY <1>2, <1>3, <1>4, <2>5, <2>6, <2>7, SMT DEF GoodFrame
  <2>9. "calendar_ttl" \in Commands
    BY Zenon DEF Commands
  <2>10. QED
    BY <2>3, <2>6, <2>8, <2>9, ClientGoes, Zenon
<1>5. CASE ~(f.year \in Years /\ calendar[f.year] \in {"stale", "fresh"})
  <2>1. Return(c, "ERR_IO", "as it was", 0)
    BY <1>1, <1>5, Zenon DEF CalendarGet
  <2>2. QED
    BY <2>1, ClientFails, Zenon
<1>6. QED
  BY <1>4, <1>5

\* So does the check that the calendar is fresh, which chooses the expiry.
LEMMA CalendarTtlKeeps ==
    ASSUME ClientsOK, ServerOK, NEW c \in Clients, CalendarTtl(c)
    PROVE  ClientsOK'
<1>1. PICK f \in ClientFrame : f = frame[c] /\ GoodFrame("calendar_ttl", f)
  BY Zenon DEF ClientsOK, CalendarTtl
<1>2. /\ f.now \in Int /\ -5 <= f.now /\ f.session /\ f.server_now \in Nat
      /\ f.year \in Int /\ f.holidays \in Seq(Int)
  BY <1>1, SMT DEF GoodFrame, ClientFrame
<1>3. PICK first \in Int : first = YearAt(f.now)
  BY <1>2, QuotientIsKstDay, Zenon
<1>4. /\ first \in Years /\ f.year \in Years /\ f.year \in {first, first + 1}
      /\ f.holidays = HolidaysOf(first, f.year)
  BY <1>1, <1>3, Zenon DEF GoodFrame
<1>5. first = civil_year_from_days(
                  Quotient(f.now + ALPHA_KST_OFFSET_SECONDS, SECONDS_PER_DAY))
  BY <1>2, <1>3, QuotientIsKstDay, Zenon DEF YearAt
<1>6. PICK expiry : expiry = alpha_next_trading_session_start_holiday_aware(
                                 f.now, f.holidays, CalendarMaxDay(f.year))
  OBVIOUS
<1>7. \/ Return(c, "ERR_IO", "as it was", 0)
      \/ Return(c, "ERR_INVALID_ARG", "as it was", 0)
      \/ /\ f.year = first
         /\ GoTo(c, "calendar_get", [f EXCEPT !.year = @ + 1])
      \/ /\ expiry # ALPHA_SESSION_CALENDAR_INSUFFICIENT /\ ~(expiry <= f.server_now)
         /\ IsFuture(expiry, f.now)
         /\ GoTo(c, "set_time", [f EXCEPT !.expiry = expiry])
  BY <1>1, <1>5, <1>6, Zenon DEF CalendarTtl
<1>8. CASE Return(c, "ERR_IO", "as it was", 0) \/ Return(c, "ERR_INVALID_ARG", "as it was", 0)
  BY <1>8, ClientFails, Zenon
<1>9. CASE f.year = first /\ GoTo(c, "calendar_get", [f EXCEPT !.year = @ + 1])
  <2>1. PICK g : g = [f EXCEPT !.year = @ + 1]
    BY Zenon
  <2>2. /\ g \in ClientFrame /\ g.now = f.now /\ g.session = f.session
        /\ g.holidays = f.holidays /\ g.year = first + 1
    BY <1>9, <2>1, SMTT(30) DEF ClientFrame
  <2>3. first + 1 # first /\ f.holidays = DaysOf(Holidays[first])
    BY <1>4, <1>9, SMT DEF HolidaysOf
  <2>4. GoodFrame("calendar_get", g)
    BY <1>2, <1>3, <1>4, <2>2, <2>3, SMT DEF GoodFrame
  <2>5. "calendar_get" \in Commands
    BY Zenon DEF Commands
  <2>6. QED
    BY <1>9, <2>1, <2>2, <2>4, <2>5, ClientGoes, Zenon
<1>10. CASE /\ expiry # ALPHA_SESSION_CALENDAR_INSUFFICIENT /\ ~(expiry <= f.server_now)
            /\ IsFuture(expiry, f.now)
            /\ GoTo(c, "set_time", [f EXCEPT !.expiry = expiry])
  <2>1. expiry \in Int /\ IsSessionAfter(expiry, f.now)
    BY <1>2, <1>3, <1>4, <1>6, <1>10, NextIsSession, SMT
  <2>2. expiry \in Nat /\ expiry > f.now
    BY <1>2, <1>10, <2>1, SMT DEF IsFuture
  <2>3. PICK g : g = [f EXCEPT !.expiry = expiry]
    BY Zenon
  <2>4. g \in ClientFrame /\ g.now = f.now /\ g.session = f.session /\ g.expiry = expiry
    <3>1. g \in ClientFrame
      BY <2>2, <2>3, Zenon DEF ClientFrame
    <3>2. g.now = f.now /\ g.session = f.session /\ g.expiry = expiry
      BY <2>3, Zenon DEF ClientFrame
    <3>3. QED
      BY <3>1, <3>2, Zenon
  <2>5. GoodFrame("set_time", g)
    BY <2>1, <2>2, <2>4, SMT DEF GoodFrame
  <2>6. "set_time" \in Commands
    BY Zenon DEF Commands
  <2>7. QED
    BY <1>10, <2>3, <2>4, <2>5, <2>6, ClientGoes, Zenon
<1>11. QED
  BY <1>7, <1>8, <1>9, <1>10, Zenon


\* The key of the lockout.
LockType == [type : {"none", "string", "hash"}, value : Nat, expires : Nat]

\* Every command keeps it.
LEMMA ClientStepKeeps ==
    ASSUME ClientsOK, ServerOK, NEW c \in Clients, Step(c)
    PROVE  ClientsOK'
<1>1. CASE alpha_redis_connect(c)
  BY <1>1, Zenon DEF alpha_redis_connect, ClientsOK
<1>2. CASE CommandFails(c)
  <2>1. 0 \in Nat
    OBVIOUS
  <2>2. QED
    BY <1>2, <2>1, ClientReturns, Zenon DEF CommandFails
<1>3. CASE SetTime(c)
  <2>1. PICK f \in ClientFrame : f = frame[c] /\ GoodFrame("set_time", f)
    BY <1>3, Zenon DEF ClientsOK, SetTime
  <2>2. GoodFrame("set", f) /\ "set" \in Commands
    BY <2>1, Zenon DEF GoodFrame, Commands
  <2>3. GoTo(c, "set", f) \/ Return(c, "ERR_INVALID_ARG", "as it was", 0)
    BY <1>3, <2>1, Zenon DEF SetTime
  <2>4. QED
    BY <2>2, <2>3, ClientGoes, ClientFails, Zenon
<1>4. CASE Set(c)
  <2>1. frame[c].expiry \in Nat
    BY Zenon DEF ClientsOK, ClientFrame
  <2>2. Return(c, "OK", "as it was", frame[c].expiry) \/ Return(c, "ERR_IO", "as it was", 0)
    BY <1>4, Zenon DEF Set
  <2>3. QED
    BY <2>1, <2>2, ClientReturns, ClientFails, Zenon
<1>5. CASE SessionTime(c)
  BY <1>5, SessionTimeKeeps, Zenon
<1>6. CASE CalendarGet(c)
  BY <1>6, CalendarGetKeeps, Zenon
<1>7. CASE CalendarTtl(c)
  BY <1>7, CalendarTtlKeeps, Zenon
<1>8. CASE IsGet(c)
  <2>1. PICK f \in ClientFrame : f = frame[c]
    BY Zenon DEF ClientsOK
  <2>2. PICK g : g = [f EXCEPT !.expiry = lock.value]
    BY Zenon
  <2>3. lock.value \in Nat
    BY Zenon DEF ServerOK
  <2>4. g \in ClientFrame
    BY <2>2, <2>3, Zenon DEF ClientFrame
  <2>5. GoodFrame("is_time", g) /\ "is_time" \in Commands
    BY Zenon DEF GoodFrame, Commands
  <2>6. \/ Return(c, "OK", "FALSE", 0) \/ Return(c, "ERR_IO", "TRUE", 0)
        \/ GoTo(c, "is_time", g) \/ Return(c, "ERR_IO", "as it was", 0)
    BY <1>8, <2>1, <2>2, Zenon DEF IsGet
  <2>7. 0 \in Nat
    OBVIOUS
  <2>8. QED
    BY <2>4, <2>5, <2>6, <2>7, ClientGoes, ClientReturns, Zenon
<1>9. CASE IsTime(c)
  <2>1. PICK f \in ClientFrame : f = frame[c]
    BY Zenon DEF ClientsOK
  <2>2. PICK g : g = [f EXCEPT !.server_now = TIME]
    BY Zenon
  <2>3. TIME \in Nat
    BY TimeIsNat, Zenon
  <2>4. g \in ClientFrame
    BY <2>2, <2>3, Zenon DEF ClientFrame
  <2>5. GoodFrame("is_ttl", g) /\ "is_ttl" \in Commands
    BY Zenon DEF GoodFrame, Commands
  <2>6. QED
    BY <1>9, <2>1, <2>2, <2>4, <2>5, ClientGoes, Zenon DEF IsTime
<1>10. CASE IsTtl(c)
  <2>1. frame[c].expiry \in Nat /\ 0 \in Nat
    BY SMT DEF ClientsOK, ClientFrame
  <2>2. Return(c, "OK", "TRUE", frame[c].expiry) \/ Return(c, "ERR_IO", "TRUE", 0)
    BY <1>10, Zenon DEF IsTtl
  <2>3. QED
    BY <2>1, <2>2, ClientReturns, Zenon
<1>11. CASE Del(c)
  <2>1. Return(c, "OK", "as it was", 0) \/ Return(c, "ERR_IO", "as it was", 0)
    BY <1>11, Zenon DEF Del
  <2>2. 0 \in Nat
    OBVIOUS
  <2>3. QED
    BY <2>1, <2>2, ClientReturns, Zenon
<1>12. QED
  BY <1>1, <1>2, <1>3, <1>4, <1>5, <1>6, <1>7, <1>8, <1>9, <1>10, <1>11, Zenon DEF Step

LEMMA ServerStepKeeps ==
    ASSUME ClientsOK, ServerOK, NEW c \in Clients, Step(c)
    PROVE  ServerOK'
<1>1. CASE Set(c)
  <2>1. frame[c].expiry \in Nat
    BY Zenon DEF ClientsOK, ClientFrame
  <2>2. NoKey \in LockType /\ LockoutKey(frame[c].expiry) \in LockType
    BY <2>1, SMT DEF NoKey, LockoutKey, Key, LockType
  <2>3. lock' \in LockType
    BY <1>1, <2>2, Zenon DEF Set
  <2>4. due' \in Nat
    BY <1>1, <2>1, Zenon DEF Set, ServerOK
  <2>5. err' \subseteq Clients
    BY <1>1, Zenon DEF Set, ServerOK
  <2>6. QED
    BY <1>1, <2>3, <2>4, <2>5, Zenon DEF Set, ServerOK, LockType
<1>2. CASE Del(c)
  <2>1. NoKey \in LockType /\ 0 \in Nat
    BY SMT DEF NoKey, LockType
  <2>2. QED
    BY <1>2, <2>1, Zenon DEF Del, ServerOK, LockType
<1>3. CASE alpha_redis_connect(c) \/ CommandFails(c)
  BY <1>3, Zenon DEF alpha_redis_connect, CommandFails, ServerOK
<1>4. CASE UNCHANGED <<clock, lock, calendar, err, due>>
  BY <1>4, Zenon DEF ServerOK
<1>5. QED
  BY <1>1, <1>2, <1>3, <1>4, Zenon
     DEF Step, SetTime, SessionTime, CalendarGet, CalendarTtl, IsGet, IsTime, IsTtl

\* Every call keeps it.
LEMMA BeginKeeps ==
    ASSUME ClientsOK, ServerOK, NEW c \in Clients,
           \/ \E now \in Int :
                 \/ alpha_redis_set_breaker_lockout_next_session(c, now)
                 \/ \E e \in Expiries : alpha_redis_set_breaker_lockout(c, now, e)
           \/ alpha_redis_is_breaker_locked(c) \/ alpha_redis_clear_breaker_lockout(c)
    PROVE  ClientsOK' /\ ServerOK'
<1>1. PICK command, f : Begin(c, command, f) /\ command \in Commands /\ f \in ClientFrame
                        /\ GoodFrame(command, f)
  <2>1. ASSUME NEW now \in Int, alpha_redis_set_breaker_lockout_next_session(c, now)
        PROVE  \E command, f : Begin(c, command, f) /\ command \in Commands /\ f \in ClientFrame
                               /\ GoodFrame(command, f)
    <3>1. PICK f : f = [NoFrame EXCEPT !.now = now, !.session = TRUE]
      OBVIOUS
    <3>2. f \in ClientFrame /\ f.session /\ f.holidays = <<>>
      <4>1. f = [now |-> now, server_now |-> 0, year |-> 0, holidays |-> <<>>, expiry |-> 0,
                 session |-> TRUE]
        BY <3>1, Zenon DEF NoFrame
      <4>2. QED
        BY <4>1, SMT DEF ClientFrame
    <3>3. GoodFrame("session_time", f) /\ "session_time" \in Commands
      BY <3>2, SMT DEF GoodFrame, Commands
    <3>4. QED
      BY <2>1, <3>1, <3>2, <3>3, Zenon DEF alpha_redis_set_breaker_lockout_next_session
  <2>2. ASSUME NEW now \in Int, NEW e \in Expiries, alpha_redis_set_breaker_lockout(c, now, e)
        PROVE  \E command, f : Begin(c, command, f) /\ command \in Commands /\ f \in ClientFrame
                               /\ GoodFrame(command, f)
    <3>1. PICK f : f = [NoFrame EXCEPT !.now = now, !.expiry = e]
      OBVIOUS
    <3>2. e \in Nat
      BY ExpiriesAssumption, Zenon
    <3>3. f \in ClientFrame /\ ~f.session /\ f.now = now /\ f.expiry = e
      <4>1. f = [now |-> now, server_now |-> 0, year |-> 0, holidays |-> <<>>, expiry |-> e,
                 session |-> FALSE]
        BY <3>1, Zenon DEF NoFrame
      <4>2. QED
        BY <3>2, <4>1, SMT DEF ClientFrame
    <3>4. e > now
      BY <2>2, Zenon DEF alpha_redis_set_breaker_lockout, IsFuture
    <3>5. GoodFrame("set_time", f) /\ "set_time" \in Commands
      BY <3>3, <3>4, SMT DEF GoodFrame, Commands
    <3>6. QED
      BY <2>2, <3>1, <3>3, <3>5, Zenon DEF alpha_redis_set_breaker_lockout
  <2>3. ASSUME alpha_redis_is_breaker_locked(c) \/ alpha_redis_clear_breaker_lockout(c)
        PROVE  \E command, f : Begin(c, command, f) /\ command \in Commands /\ f \in ClientFrame
                               /\ GoodFrame(command, f)
    <3>1. /\ GoodFrame("is_get", NoFrame) /\ GoodFrame("del", NoFrame)
          /\ "is_get" \in Commands /\ "del" \in Commands
      BY Zenon DEF GoodFrame, Commands
    <3>2. QED
      BY <2>3, <3>1, NoFrameIsGood, Zenon
         DEF alpha_redis_is_breaker_locked, alpha_redis_clear_breaker_lockout
  <2>4. QED
    BY <2>1, <2>2, <2>3, Zenon
<1>2. ClientsOK'
  BY <1>1, ClientBegins, Zenon
<1>3. ServerOK'
  BY <1>1, Zenon DEF Begin, ServerOK
<1>4. QED
  BY <1>2, <1>3

\* It is inductive.
LEMMA BreakerSteps == BreakerInv /\ [BreakerNext]_breaker => BreakerInv'
<1>0. BreakerInv' <=> ClientsOK' /\ ServerOK'
  BY InvSplits, PTL
<1> SUFFICES ASSUME ClientsOK, ServerOK, [BreakerNext]_breaker PROVE ClientsOK' /\ ServerOK'
  BY <1>0, InvSplits, Zenon
<1>1. CASE Tick
  <2>1. ClientsOK'
    BY <1>1, Zenon DEF Tick, ClientsOK
  <2>2. NoKey \in LockType
    BY SMT DEF NoKey, LockType
  <2>3. lock' \in LockType
    BY <1>1, <2>2, Zenon DEF Tick, ServerOK, LockType
  <2>4. clock' \in Instants
    BY <1>1, Zenon DEF Tick
  <2>5. QED
    BY <1>1, <2>1, <2>3, <2>4, Zenon DEF Tick, ServerOK, LockType
<1>2. CASE ForeignWrite
  <2>1. Key(0, 0) \in LockType /\ [NoKey EXCEPT !.type = "hash"] \in LockType /\ 0 \in Nat
    BY SMT DEF NoKey, LockType, Key
  <2>2. lock' \in LockType /\ due' \in Nat
    BY <1>2, <2>1, Zenon DEF ForeignWrite
  <2>3. QED
    BY <1>2, <2>2, Zenon DEF ForeignWrite, ServerOK, ClientsOK, LockType
<1>3. CASE \E y \in Years : CalendarChanges(y)
  BY <1>3, Zenon DEF CalendarChanges, ServerOK, ClientsOK
<1>4. CASE \E c \in Clients : Step(c)
  BY <1>4, ClientStepKeeps, ServerStepKeeps, Zenon
<1>5. CASE \E c \in Setters, skew \in Skews :
              \/ alpha_redis_set_breaker_lockout_next_session(c, TIME + skew)
              \/ \E e \in Expiries : alpha_redis_set_breaker_lockout(c, TIME + skew, e)
  <2>1. PICK c \in Setters, skew \in Skews :
              \/ alpha_redis_set_breaker_lockout_next_session(c, TIME + skew)
              \/ \E e \in Expiries : alpha_redis_set_breaker_lockout(c, TIME + skew, e)
    BY <1>5, Zenon
  <2>2. PICK now \in Int : now = TIME + skew
    BY TimeIsNat, SkewsAssumption, SMT
  <2>3. c \in Clients
    BY Zenon DEF Clients
  <2>4. QED
    BY <2>1, <2>2, <2>3, BeginKeeps, Zenon
<1>6. CASE \/ \E c \in Readers : alpha_redis_is_breaker_locked(c)
           \/ \E c \in Clearers : alpha_redis_clear_breaker_lockout(c)
  BY <1>6, BeginKeeps, Zenon DEF Clients
<1>7. CASE UNCHANGED breaker
  BY <1>7, Zenon DEF breaker, ServerOK, ClientsOK
<1>8. QED
  BY <1>1, <1>2, <1>3, <1>4, <1>5, <1>6, <1>7, Zenon DEF BreakerNext

\* Every lockout the next-session call sets ends at the start of the first Korean
\* trading day after the event, for any holidays, clocks and clients
\* (alpha_redis_set_breaker_lockout_next_session).
THEOREM LockoutExpiry == BreakerSpec => []ExpiryIsNextSession
<1>1. BreakerInv => ExpiryIsNextSession
  BY Zenon DEF BreakerInv, ExpiryIsNextSession, GoodFrame, Clients
<1>2. QED
  BY <1>1, BreakerStarts, BreakerSteps, PTL DEF BreakerSpec


\* No expiry that is set directly is before the session after an event up to then.
LongExpiries(k) ==
    \A e \in Expiries, i \in Instants :
        e > i \div 2 => \A x, n \in Int : n <= i \div 2 + k /\ IsSessionAfter(x, n) => x <= e

\* One client sets lockouts, by a clock that is always as wrong, or refused.
OneClock(s, k) ==
    Setters = {s} /\ k \in Int /\ (\A j \in Skews : j = k \/ j < -5) /\ LongExpiries(k)

\* The commands of the calls that set a lockout.
SetterCommands == {"session_time", "calendar_get", "calendar_ttl", "set_time", "set"}

\* The lockout that is due is in force.
LockGood(key, x, time) ==
    /\ x > time => key.type = "string" /\ key.expires >= x
    /\ key.type # "string" => key.expires = 0

\* All lockouts so far were set for events up to n, and the call under way is for
\* a later one, unless it will be refused.
DueGood(x, time, k, n) == x # 0 => IsSessionAfter(x, n) /\ n <= time + k

\* The call under way is for an event no earlier than n.
SetterGood(command, f, time, k, n) ==
    /\ command = "session_time" => f.now < time - 5 \/ (n <= f.now /\ f.now <= time + k)
    /\ command \in {"calendar_get", "calendar_ttl"} \/ (command \in {"set_time", "set"} /\ f.session)
          => n <= f.now /\ f.now <= time + k

\* An expiry that is set directly is one of Expiries, past what is due.
DirectGood(command, f, x) ==
    /\ command \in {"set_time", "set"} /\ ~f.session => f.expiry \in Expiries
    /\ command = "set" /\ ~f.session => x <= f.expiry

\* The lockout that is due holds, and the one setter cannot shorten it.
HoldInv(s, k) ==
    /\ LockGood(lock, due, TIME)
    /\ DirectGood(pc[s], frame[s], due)
    /\ \E n \in Int : DueGood(due, TIME, k, n) /\ SetterGood(pc[s], frame[s], TIME, k, n)
    /\ \A c \in Clients : pc[c] \in SetterCommands => c = s
    /\ \A c \in Clients : pc[c] = "is_ttl" => frame[c].server_now <= TIME

\* What a step of a client leaves of its call.
Onward(c) ==
    /\ UNCHANGED <<lock, due>>
    /\ frame'[c].now = frame[c].now /\ frame'[c].session = frame[c].session
    /\ \/ /\ pc[c] = "session_time" /\ pc'[c] = "calendar_get"
          /\ CallerIsCurrent(frame[c].now, TIME)
       \/ pc[c] = "calendar_get" /\ pc'[c] = "calendar_ttl"
       \/ pc[c] = "calendar_ttl" /\ pc'[c] \in {"calendar_get", "set_time"} /\ frame[c].session
       \/ /\ pc[c] = "set_time" /\ pc'[c] = "set" /\ frame'[c].expiry = frame[c].expiry
          /\ frame[c].expiry > TIME

\* What a return and a next command do to the places of the clients.
LEMMA ReturnIsIdle ==
    ASSUME ClientsOK, NEW c \in Clients, NEW status, NEW locked, NEW expires,
           Return(c, status, locked, expires)
    PROVE  /\ \A x \in Clients : x # c => pc'[x] = pc[x] /\ frame'[x] = frame[x]
           /\ pc'[c] = "idle"
  BY Zenon DEF Return, ClientsOK

LEMMA GoToIsThere ==
    ASSUME ClientsOK, NEW c \in Clients, NEW command, NEW f, GoTo(c, command, f)
    PROVE  /\ \A x \in Clients : x # c => pc'[x] = pc[x] /\ frame'[x] = frame[x]
           /\ pc'[c] = command /\ frame'[c] = f
  BY Zenon DEF GoTo, ClientsOK

\* The client's part of any step.
StepOfClient(c) ==
    /\ clock' = clock
    /\ \A x \in Clients : x # c => pc'[x] = pc[x] /\ frame'[x] = frame[x]
    /\ pc'[c] = "is_ttl" => frame'[c].server_now = TIME
    /\ pc'[c] \in SetterCommands => Onward(c)

\* A command moves one client.
LEMMA StepIsOfClient ==
    ASSUME ClientsOK, NEW c \in Clients, Step(c)
    PROVE  StepOfClient(c)
<1>0. PICK f \in ClientFrame : f = frame[c]
  BY Zenon DEF ClientsOK
<1>1. CASE /\ clock' = clock
           /\ \E status, locked, expires : Return(c, status, locked, expires)
  BY <1>1, ReturnIsIdle, Zenon DEF StepOfClient, SetterCommands
<1>2. CASE alpha_redis_connect(c)
  BY <1>2, Zenon DEF alpha_redis_connect, StepOfClient, SetterCommands
<1>3. CASE SetTime(c)
  <2>1. CASE GoTo(c, "set", f) /\ IsFuture(f.expiry, TIME)
    <3>1. /\ \A x \in Clients : x # c => pc'[x] = pc[x] /\ frame'[x] = frame[x]
          /\ pc'[c] = "set" /\ frame'[c] = f
      BY <2>1, GoToIsThere, ZenonT(40)
    <3>2. UNCHANGED <<clock, lock, due>> /\ pc[c] = "set_time"
      BY <1>3, Zenon DEF SetTime
    <3>3. QED
      BY <1>0, <2>1, <3>1, <3>2, Zenon DEF StepOfClient, Onward, IsFuture
  <2>2. QED
    BY <1>0, <1>1, <1>3, <2>1, Zenon DEF SetTime
<1>4. CASE SessionTime(c)
  <2>1. ASSUME NEW year, GoTo(c, "calendar_get", [f EXCEPT !.server_now = TIME, !.year = year]),
               CallerIsCurrent(f.now, TIME)
        PROVE  StepOfClient(c)
    <3>1. PICK g : g = [f EXCEPT !.server_now = TIME, !.year = year]
      OBVIOUS
    <3>2. g.now = f.now /\ g.session = f.session
      BY <3>1, Zenon DEF ClientFrame
    <3>3. /\ \A x \in Clients : x # c => pc'[x] = pc[x] /\ frame'[x] = frame[x]
          /\ pc'[c] = "calendar_get" /\ frame'[c] = g
      <4>1. GoTo(c, "calendar_get", g)
        BY <2>1, <3>1
      <4>2. QED
        BY <4>1, GoToIsThere, Zenon
    <3>4. UNCHANGED <<clock, lock, due>> /\ pc[c] = "session_time"
      BY <1>4, Zenon DEF SessionTime
    <3>5. QED
      BY <1>0, <2>1, <3>2, <3>3, <3>4, Zenon DEF StepOfClient, Onward
  <2>2. QED
    BY <1>0, <1>1, <1>4, <2>1, Zenon DEF SessionTime
<1>5. CASE CalendarGet(c)
  <2>1. ASSUME NEW list, GoTo(c, "calendar_ttl", [f EXCEPT !.holidays = list])
        PROVE  StepOfClient(c)
    <3>1. PICK g : g = [f EXCEPT !.holidays = list]
      BY Zenon
    <3>2. g.now = f.now /\ g.session = f.session
      BY <3>1, Zenon DEF ClientFrame
    <3>3. /\ \A x \in Clients : x # c => pc'[x] = pc[x] /\ frame'[x] = frame[x]
          /\ pc'[c] = "calendar_ttl" /\ frame'[c] = g
      BY <2>1, <3>1, GoToIsThere, ZenonT(40)
    <3>4. UNCHANGED <<clock, lock, due>> /\ pc[c] = "calendar_get"
      BY <1>5, Zenon DEF CalendarGet
    <3>5. QED
      BY <1>0, <3>2, <3>3, <3>4, Zenon DEF StepOfClient, Onward
  <2>2. \/ Return(c, "ERR_IO", "as it was", 0)
        \/ GoTo(c, "calendar_ttl", [f EXCEPT !.holidays = f.holidays \o DaysOf(Holidays[f.year])])
    BY <1>0, <1>5, Zenon DEF CalendarGet
  <2>3. clock' = clock
    BY <1>5, Zenon DEF CalendarGet
  <2>4. QED
    BY <1>1, <2>1, <2>2, <2>3, Zenon
<1>6. CASE CalendarTtl(c)
  <2>1. ASSUME NEW command \in {"calendar_get", "set_time"}, NEW g, GoTo(c, command, g),
               g.now = f.now, g.session = f.session
        PROVE  StepOfClient(c)
    <3>1. /\ \A x \in Clients : x # c => pc'[x] = pc[x] /\ frame'[x] = frame[x]
          /\ pc'[c] = command /\ frame'[c] = g
      <4>1. GoTo(c, command, g)
        BY <2>1
      <4>2. QED
        BY <4>1, GoToIsThere, ZenonT(40)
    <3>2. UNCHANGED <<clock, lock, due>> /\ pc[c] = "calendar_ttl"
      BY <1>6, Zenon DEF CalendarTtl
    <3>3. frame[c].session
      BY <3>2, Zenon DEF ClientsOK, GoodFrame
    <3>4. QED
      BY <1>0, <2>1, <3>1, <3>2, <3>3, Zenon DEF StepOfClient, Onward
  <2>2. \/ \E status : Return(c, status, "as it was", 0)
        \/ GoTo(c, "calendar_get", [f EXCEPT !.year = f.year + 1])
        \/ \E expiry : GoTo(c, "set_time", [f EXCEPT !.expiry = expiry])
    BY <1>0, <1>6, Zenon DEF CalendarTtl
  <2>3. CASE GoTo(c, "calendar_get", [f EXCEPT !.year = f.year + 1])
    <3>1. PICK g : g = [f EXCEPT !.year = f.year + 1]
      BY Zenon
    <3>2. g.now = f.now /\ g.session = f.session
      BY <3>1, Zenon DEF ClientFrame
    <3>3. QED
      BY <2>1, <2>3, <3>1, <3>2, Zenon
  <2>4. ASSUME NEW expiry, GoTo(c, "set_time", [f EXCEPT !.expiry = expiry])
        PROVE  StepOfClient(c)
    <3>1. PICK g : g = [f EXCEPT !.expiry = expiry]
      BY Zenon
    <3>2. g.now = f.now /\ g.session = f.session
      BY <3>1, Zenon DEF ClientFrame
    <3>3. QED
      BY <2>1, <2>4, <3>1, <3>2, Zenon
  <2>5. clock' = clock
    BY <1>6, Zenon DEF CalendarTtl
  <2>6. QED
    BY <1>1, <2>2, <2>3, <2>4, <2>5, Zenon
<1>7. CASE IsGet(c)
  <2>1. ASSUME NEW g, GoTo(c, "is_time", g) PROVE StepOfClient(c)
    BY <1>7, <2>1, GoToIsThere, ZenonT(40) DEF IsGet, StepOfClient, SetterCommands
  <2>2. clock' = clock
    BY <1>7, Zenon DEF IsGet
  <2>3. QED
    BY <1>1, <1>7, <2>1, <2>2, Zenon DEF IsGet
<1>8. CASE IsTime(c)
  <2>1. PICK g : g = [f EXCEPT !.server_now = TIME]
    BY Zenon
  <2>2. g.server_now = TIME
    BY <2>1, Zenon DEF ClientFrame
  <2>3. /\ \A x \in Clients : x # c => pc'[x] = pc[x] /\ frame'[x] = frame[x]
        /\ pc'[c] = "is_ttl" /\ frame'[c] = g
    BY <1>0, <1>8, <2>1, GoToIsThere, Zenon DEF IsTime
  <2>4. QED
    BY <1>8, <2>2, <2>3, Zenon DEF IsTime, StepOfClient, SetterCommands
<1>9. CASE CommandFails(c) \/ Set(c) \/ IsTtl(c) \/ Del(c)
  BY <1>1, <1>9, Zenon DEF CommandFails, Set, IsTtl, Del
<1>10. QED
  BY <1>2, <1>3, <1>4, <1>5, <1>6, <1>7, <1>8, <1>9, Zenon DEF Step

\* A command leaves the key, deletes it, or is the SET.
LEMMA LockMoves ==
    ASSUME NEW c \in Clients, Step(c)
    PROVE  UNCHANGED <<lock, due>> \/ (lock' = NoKey /\ due' = 0) \/ Set(c)
  BY Zenon DEF Step, alpha_redis_connect, CommandFails, SetTime, SessionTime, CalendarGet,
               CalendarTtl, IsGet, IsTime, IsTtl, Del

\* A call that is over, or is no setter's.
LEMMA OtherCommands ==
    ASSUME NEW command, command \notin SetterCommands
    PROVE  /\ \A f, x : DirectGood(command, f, x)
           /\ \A f, time, k, n : SetterGood(command, f, time, k, n)
  BY Zenon DEF SetterCommands, DirectGood, SetterGood

\* With no lockout due any key will do.
LEMMA NothingDue ==
    ASSUME NEW time \in Nat
    PROVE  /\ LockGood(NoKey, 0, time) /\ LockGood(Key(0, 0), 0, time)
           /\ LockGood([NoKey EXCEPT !.type = "hash"], 0, time)
           /\ \A k, n : DueGood(0, time, k, n)
<1>1. ~(0 > time)
  BY SMT
<1>2. /\ NoKey.expires = 0 /\ Key(0, 0).type = "string"
      /\ [NoKey EXCEPT !.type = "hash"].expires = 0
  BY Zenon DEF NoKey, Key
<1>3. QED
  BY <1>1, <1>2, Zenon DEF LockGood, DueGood

\* HoldInv is inductive.
LEMMA HoldStarts ==
    ASSUME NEW s, NEW k, OneClock(s, k), BreakerInit
    PROVE  HoldInv(s, k)
<1>1. s \in Clients
  BY Zenon DEF OneClock, Clients
<1>2. "idle" \notin SetterCommands
  BY Zenon DEF SetterCommands
<1>3. TIME \in Nat
  BY BreakerStarts, InvSplits, TimeIsNat, Zenon
<1>4. \A c \in Clients : pc[c] = "idle"
  BY Zenon DEF BreakerInit
<1>5. 0 \in Int
  BY SMTT(30)
<1>6. QED
  BY <1>1, <1>2, <1>3, <1>4, <1>5, NothingDue, OtherCommands, Zenon DEF HoldInv, BreakerInit

\* A step of a client other than a setter's end.
LEMMA HoldStepKeeps ==
    ASSUME NEW s, NEW k, OneClock(s, k), ClientsOK, ServerOK, HoldInv(s, k),
           NEW c \in Clients, Step(c)
    PROVE  HoldInv(s, k)'
<1>0. s \in Clients /\ k \in Int /\ TIME \in Nat /\ due \in Nat /\ clock \in Nat
  BY TimeIsNat, Zenon DEF OneClock, Clients, ServerOK
<1>1. StepOfClient(c)
  BY StepIsOfClient, Zenon
<1>2. TIME' = TIME /\ clock' = clock
  BY <1>1, Zenon DEF StepOfClient, TIME
<1>3. \A x \in Clients : pc'[x] \in SetterCommands => x = s
  <2>1. Onward(c) => pc[c] \in SetterCommands
    BY Zenon DEF Onward, SetterCommands
  <2>2. QED
    BY <1>1, <2>1, Zenon DEF HoldInv, StepOfClient
<1>4. \A x \in Clients : pc'[x] = "is_ttl" => frame'[x].server_now <= TIME
  <2>1. TIME <= TIME
    BY <1>0, SMT
  <2>2. QED
    BY <1>1, <2>1, Zenon DEF HoldInv, StepOfClient
<1>5. PICK n \in Int : DueGood(due, TIME, k, n) /\ SetterGood(pc[s], frame[s], TIME, k, n)
  BY Zenon DEF HoldInv
<1>6. SUFFICES /\ LockGood(lock', due', TIME) /\ DirectGood(pc'[s], frame'[s], due')
               /\ \E m \in Int : /\ DueGood(due', TIME, k, m)
                                 /\ SetterGood(pc'[s], frame'[s], TIME, k, m)
  BY <1>2, <1>3, <1>4, Zenon DEF HoldInv
<1>7. PICK f \in ClientFrame : f = frame[s] /\ GoodFrame(pc[s], f)
  BY <1>0, Zenon DEF ClientsOK
<1>8. f.now \in Int /\ f.expiry \in Nat
  BY Zenon DEF ClientFrame
<1>9. CASE Set(c)
  <2>1. c = s /\ pc[s] = "set"
    BY <1>9, Zenon DEF Set, HoldInv, SetterCommands
  <2>2. pc'[s] \notin SetterCommands
    <3>1. pc'[s] = "idle"
      BY <1>9, <2>1, ReturnIsIdle, Zenon DEF Set
    <3>2. QED
      BY <3>1, Zenon DEF SetterCommands
  <2>3. /\ lock' = IF f.expiry > TIME THEN LockoutKey(f.expiry) ELSE NoKey
        /\ due' = IF f.session /\ f.expiry > due THEN f.expiry ELSE due
    BY <1>7, <1>9, <2>1, Zenon DEF Set
  <2>4. /\ LockoutKey(f.expiry).type = "string" /\ LockoutKey(f.expiry).expires = f.expiry
        /\ NoKey.type = "none" /\ NoKey.expires = 0
    BY Zenon DEF LockoutKey, Key, NoKey
  <2>5. due <= f.expiry
    <3>1. CASE ~f.session
      BY <1>7, <2>1, <3>1, Zenon DEF HoldInv, DirectGood
    <3>2. CASE f.session /\ due # 0
      <4>1. IsSessionAfter(due, n) /\ IsSessionAfter(f.expiry, f.now) /\ n <= f.now
        BY <1>5, <1>7, <2>1, <3>2, Zenon DEF DueGood, SetterGood, GoodFrame
      <4>2. due \in Int /\ f.expiry \in Int
        BY <1>0, <1>8, SMT
      <4>3. QED
        BY <1>8, <4>1, <4>2, SessionsInOrder, Zenon
    <3>3. CASE due = 0
      BY <1>8, <3>3, SMT
    <3>4. QED
      BY <3>1, <3>2, <3>3, SMTT(30)
  <2>6. due' <= f.expiry /\ due' \in Nat
    BY <1>0, <1>8, <2>3, <2>5, SMT
  <2>7. LockGood(lock', due', TIME)
    <3>1. CASE f.expiry > TIME
      <4>1. lock'.type = "string" /\ lock'.expires >= due'
        BY <1>8, <2>3, <2>4, <2>6, <3>1, SMT
      <4>2. QED
        BY <4>1, ZenonT(40) DEF LockGood
    <3>2. CASE ~(f.expiry > TIME)
      <4>1. ~(due' > TIME)
        BY <1>0, <1>8, <2>6, <3>2, SMT
      <4>2. lock'.expires = 0
        BY <2>3, <2>4, <3>2, Zenon
      <4>3. QED
        BY <4>1, <4>2, Zenon DEF LockGood
    <3>3. QED
      BY <3>1, <3>2
  <2>8. \E m \in Int : DueGood(due', TIME, k, m)
    <3>1. CASE f.session
      <4>1. due' = f.expiry
        BY <1>0, <1>8, <2>3, <2>5, <3>1, SMT
      <4>2. IsSessionAfter(f.expiry, f.now) /\ f.now <= TIME + k
        BY <1>5, <1>7, <2>1, <3>1, Zenon DEF SetterGood, GoodFrame
      <4>3. QED
        BY <1>8, <4>1, <4>2, Zenon DEF DueGood
    <3>2. CASE ~f.session
      BY <1>5, <2>3, <3>2, Zenon
    <3>3. QED
      BY <3>1, <3>2
  <2>9. QED
    BY <2>2, <2>7, <2>8, OtherCommands, Zenon
<1>10. CASE ~Set(c) /\ pc'[s] \notin SetterCommands
  <2>1. LockGood(lock', due', TIME) /\ DueGood(due', TIME, k, n)
    <3>1. CASE UNCHANGED <<lock, due>>
      BY <1>5, <3>1, Zenon DEF HoldInv
    <3>2. CASE lock' = NoKey /\ due' = 0
      BY <1>0, <3>2, NothingDue, Zenon
    <3>3. QED
      BY <1>10, <3>1, <3>2, LockMoves, Zenon
  <2>2. QED
    BY <1>10, <2>1, OtherCommands, Zenon
<1>11. CASE ~Set(c) /\ pc'[s] \in SetterCommands /\ c # s
  <2>1. pc'[s] = pc[s] /\ frame'[s] = frame[s]
    BY <1>0, <1>1, <1>11, Zenon DEF StepOfClient
  <2>2. CASE UNCHANGED <<lock, due>>
    BY <1>5, <2>1, <2>2, Zenon DEF HoldInv
  <2>3. CASE lock' = NoKey /\ due' = 0
    <3>1. DirectGood(pc[s], frame[s], 0)
      <4>1. 0 <= f.expiry
        BY <1>8, SMT
      <4>2. QED
        BY <1>7, <4>1, Zenon DEF HoldInv, DirectGood
    <3>2. QED
      BY <1>0, <1>5, <2>1, <2>3, <3>1, NothingDue, Zenon
  <2>4. QED
    BY <1>11, <2>2, <2>3, LockMoves, Zenon
<1>12. CASE ~Set(c) /\ pc'[s] \in SetterCommands /\ c = s
  <2>1. Onward(s)
    BY <1>1, <1>12, Zenon DEF StepOfClient
  <2>2. LockGood(lock', due', TIME) /\ DueGood(due', TIME, k, n) /\ due' = due
    BY <1>5, <2>1, Zenon DEF HoldInv, Onward
  <2>3. frame'[s].now = f.now /\ frame'[s].session = f.session
    BY <1>7, <2>1, Zenon DEF Onward
  <2>4. SetterGood(pc'[s], frame'[s], TIME, k, n)
    <3>1. CASE pc[s] = "session_time"
      <4>1. CallerIsCurrent(f.now, TIME) /\ pc'[s] = "calendar_get"
        BY <1>7, <2>1, <3>1, Zenon DEF Onward
      <4>2. ~(f.now < TIME - 5)
        BY <1>0, <1>8, <4>1, SMT DEF CallerIsCurrent
      <4>3. n <= f.now /\ f.now <= TIME + k
        BY <1>5, <1>7, <3>1, <4>2, ZenonT(40) DEF SetterGood
      <4>4. QED
        BY <2>3, <4>1, <4>3, Zenon DEF SetterGood
    <3>2. CASE pc[s] # "session_time"
      BY <1>5, <1>7, <2>1, <2>3, <3>2, Zenon DEF SetterGood, Onward
    <3>3. QED
      BY <3>1, <3>2
  <2>5. DirectGood(pc'[s], frame'[s], due')
    <3>1. CASE f.session
      BY <2>3, <3>1, Zenon DEF DirectGood
    <3>2. CASE ~f.session
      <4>1. \/ pc'[s] \notin {"set_time", "set"}
            \/ /\ pc[s] = "set_time" /\ pc'[s] = "set" /\ frame'[s].expiry = f.expiry
               /\ f.expiry > TIME
        BY <1>7, <2>1, <3>2, Zenon DEF Onward
      <4>2. CASE pc'[s] \notin {"set_time", "set"}
        BY <4>2, Zenon DEF DirectGood
      <4>3. CASE /\ pc[s] = "set_time" /\ pc'[s] = "set" /\ frame'[s].expiry = f.expiry
                 /\ f.expiry > TIME
        <5>1. f.expiry \in Expiries
          BY <1>7, <3>2, <4>3, Zenon DEF HoldInv, DirectGood
        <5>2. due <= f.expiry
          <6>1. CASE due = 0
            BY <1>8, <6>1, SMTT(30)
          <6>2. CASE due # 0
            <7>1. IsSessionAfter(due, n) /\ n <= TIME + k /\ due \in Int
              BY <1>0, <1>5, <6>2, SMT DEF DueGood
            <7>2. clock \in Instants /\ LongExpiries(k)
              BY Zenon DEF ServerOK, OneClock
            <7>3. QED
              BY <4>3, <5>1, <7>1, <7>2, Zenon DEF LongExpiries, TIME
          <6>3. QED
            BY <6>1, <6>2
        <5>3. QED
          BY <2>2, <4>3, <5>1, <5>2, Zenon DEF DirectGood
      <4>4. QED
        BY <4>1, <4>2, <4>3
    <3>3. QED
      BY <3>1, <3>2
  <2>6. QED
    BY <2>2, <2>4, <2>5, Zenon
<1>13. QED
  BY <1>9, <1>10, <1>11, <1>12

\* Time passes.
LEMMA HoldTickKeeps ==
    ASSUME NEW s, NEW k, OneClock(s, k), ClientsOK, ServerOK, HoldInv(s, k), Tick
    PROVE  HoldInv(s, k)'
<1>0. s \in Clients /\ k \in Int /\ due \in Nat /\ lock.expires \in Nat
  BY Zenon DEF OneClock, Clients, ServerOK
<1>1. clock \in Nat /\ clock' \in Nat /\ clock < clock'
  BY TimeIsNat, InstantsAssumption, SMT DEF Tick
<1>2. /\ TIME \in Nat /\ TIME' \in Nat /\ TIME <= TIME'
      /\ 2 * TIME' <= clock' /\ clock' <= 2 * TIME' + 1
  <2>1. \A z \in Nat : z \div 2 \in Nat /\ 2 * (z \div 2) <= z /\ z <= 2 * (z \div 2) + 1
    BY SMT
  <2>2. PICK t \in Nat, u \in Nat : t = TIME /\ u = TIME'
    BY <1>1, <2>1, Zenon DEF TIME
  <2>3. 2 * t <= clock /\ clock <= 2 * t + 1 /\ 2 * u <= clock' /\ clock' <= 2 * u + 1
    BY <1>1, <2>1, <2>2, Zenon DEF TIME
  <2>4. t <= u
    BY <1>1, <2>3, SMT
  <2>5. QED
    BY <2>2, <2>3, <2>4, Zenon
<1>3. pc' = pc /\ frame' = frame /\ due' = due
  BY Zenon DEF Tick
<1>4. PICK n \in Int : DueGood(due, TIME, k, n) /\ SetterGood(pc[s], frame[s], TIME, k, n)
  BY Zenon DEF HoldInv
<1>5. DueGood(due, TIME', k, n)
  <2>1. PICK t \in Nat, u \in Nat : t = TIME /\ u = TIME' /\ t <= u
    BY <1>2, Zenon
  <2>2. n <= t + k => n <= u + k
    <3>1. \A a, b \in Int, x, z \in Nat : x <= z /\ a <= x + b => a <= z + b
      BY SMT
    <3>2. QED
      BY <1>0, <2>1, <3>1, Zenon
  <2>3. QED
    BY <1>4, <2>1, <2>2, Zenon DEF DueGood
<1>6. SetterGood(pc[s], frame[s], TIME', k, n)
  <2>1. frame[s].now \in Int
    BY <1>0, Zenon DEF ClientsOK, ClientFrame
  <2>2. /\ frame[s].now < TIME - 5 => frame[s].now < TIME' - 5
        /\ frame[s].now <= TIME + k => frame[s].now <= TIME' + k
    BY <1>0, <1>2, <2>1, SMT
  <2>3. QED
    BY <1>4, <2>2, Zenon DEF SetterGood
<1>7. \A x \in Clients : pc[x] = "is_ttl" => frame[x].server_now <= TIME'
  <2>1. ASSUME NEW x \in Clients, frame[x].server_now <= TIME PROVE frame[x].server_now <= TIME'
    <3>1. frame[x].server_now \in Nat
      BY Zenon DEF ClientsOK, ClientFrame
    <3>2. QED
      BY <1>2, <2>1, <3>1, SMTT(30)
  <2>2. QED
    BY <2>1, Zenon DEF HoldInv
<1>8. LockGood(lock', due, TIME')
  <2>1. CASE lock.expires # 0 /\ 2 * lock.expires <= clock'
    <3>1. lock' = NoKey
      BY <2>1, Zenon DEF Tick
    <3>2. ~(due > TIME')
      <4>1. due > TIME' => lock.expires >= due
        <5>1. due > TIME' => due > TIME
          BY <1>0, <1>2, SMT
        <5>2. QED
          BY <5>1, Zenon DEF HoldInv, LockGood
      <4>2. QED
        <5>1. PICK x \in Nat, u \in Nat, z \in Nat, e \in Nat :
                  x = due /\ u = TIME' /\ z = clock' /\ e = lock.expires
          BY <1>0, <1>1, <1>2, Zenon
        <5>2. (x > u => e >= x) /\ 2 * e <= z /\ z <= 2 * u + 1
          BY <1>2, <2>1, <4>1, <5>1, Zenon
        <5>3. ~(x > u)
          BY <5>2, SMT
        <5>4. QED
          BY <5>1, <5>3, Zenon
    <3>3. NoKey.expires = 0
      BY Zenon DEF NoKey
    <3>4. QED
      BY <3>1, <3>2, <3>3, Zenon DEF LockGood
  <2>2. CASE ~(lock.expires # 0 /\ 2 * lock.expires <= clock')
    <3>1. lock' = lock
      BY <2>2, Zenon DEF Tick
    <3>2. due > TIME' => due > TIME
      BY <1>0, <1>2, SMT
    <3>3. QED
      BY <3>1, <3>2, Zenon DEF HoldInv, LockGood
  <2>3. QED
    BY <2>1, <2>2
<1>9. QED
  BY <1>3, <1>5, <1>6, <1>7, <1>8, Zenon DEF HoldInv

\* A client that begins a call.
LEMMA BeginIsThere ==
    ASSUME ClientsOK, NEW c \in Clients, NEW command, NEW f, Begin(c, command, f)
    PROVE  /\ \A x \in Clients : x # c => pc'[x] = pc[x] /\ frame'[x] = frame[x]
           /\ pc'[c] = command /\ frame'[c] = f /\ pc[c] = "idle"
           /\ UNCHANGED <<clock, lock, due>> /\ TIME' = TIME
  BY Zenon DEF Begin, ClientsOK, TIME

\* A call begins.
LEMMA HoldBeginKeeps ==
    ASSUME NEW s, NEW k, OneClock(s, k), ClientsOK, ServerOK, HoldInv(s, k),
           NEW c \in Clients, NEW command, NEW f, Begin(c, command, f),
           command # "is_ttl",
           command \in SetterCommands =>
               /\ c = s /\ DirectGood(command, f, due)
               /\ \E n \in Int : DueGood(due, TIME, k, n) /\ SetterGood(command, f, TIME, k, n)
    PROVE  HoldInv(s, k)'
<1>0. s \in Clients
  BY Zenon DEF OneClock, Clients
<1>1. /\ \A x \in Clients : x # c => pc'[x] = pc[x] /\ frame'[x] = frame[x]
      /\ pc'[c] = command /\ frame'[c] = f
      /\ UNCHANGED <<clock, lock, due>> /\ TIME' = TIME
  BY BeginIsThere, ZenonT(40)
<1>2. \A x \in Clients : pc'[x] \in SetterCommands => x = s
  BY <1>1, Zenon DEF HoldInv
<1>3. \A x \in Clients : pc'[x] = "is_ttl" => frame'[x].server_now <= TIME
  BY <1>1, ZenonT(40) DEF HoldInv
<1>4. /\ DirectGood(pc'[s], frame'[s], due)
      /\ \E n \in Int : DueGood(due, TIME, k, n) /\ SetterGood(pc'[s], frame'[s], TIME, k, n)
  <2>1. CASE command \in SetterCommands
    BY <1>1, <2>1, Zenon
  <2>2. CASE command \notin SetterCommands /\ c = s
    <3>1. PICK n \in Int : DueGood(due, TIME, k, n)
      BY Zenon DEF HoldInv
    <3>2. QED
      BY <1>1, <2>2, <3>1, OtherCommands, Zenon
  <2>3. CASE c # s
    BY <1>0, <1>1, <2>3, Zenon DEF HoldInv
  <2>4. QED
    BY <2>1, <2>2, <2>3
<1>5. QED
  BY <1>1, <1>2, <1>3, <1>4, Zenon DEF HoldInv

\* Every step.
LEMMA HoldSteps ==
    ASSUME NEW s, NEW k, OneClock(s, k)
    PROVE  ClientsOK /\ ServerOK /\ HoldInv(s, k) /\ [BreakerNext]_breaker => HoldInv(s, k)'
<1> SUFFICES ASSUME ClientsOK, ServerOK, HoldInv(s, k), [BreakerNext]_breaker
             PROVE  HoldInv(s, k)'
  OBVIOUS
<1>0. s \in Clients /\ k \in Int /\ TIME \in Nat /\ due \in Nat
  BY TimeIsNat, Zenon DEF OneClock, Clients, ServerOK
<1>1. CASE Tick
  BY <1>1, HoldTickKeeps, Zenon
<1>2. CASE ForeignWrite
  <2>1. pc' = pc /\ frame' = frame /\ due' = 0 /\ TIME' = TIME
    BY <1>2, Zenon DEF ForeignWrite, TIME
  <2>2. LockGood(lock', 0, TIME)
    BY <1>0, <1>2, NothingDue, Zenon DEF ForeignWrite
  <2>3. DirectGood(pc[s], frame[s], 0)
    <3>1. frame[s].expiry \in Nat
      BY <1>0, Zenon DEF ClientsOK, ClientFrame
    <3>2. 0 <= frame[s].expiry
      BY <3>1, SMT
    <3>3. QED
      BY <3>2, Zenon DEF HoldInv, DirectGood
  <2>4. QED
    BY <1>0, <2>1, <2>2, <2>3, NothingDue, Zenon DEF HoldInv
<1>3. CASE (\E y \in Years : CalendarChanges(y)) \/ UNCHANGED breaker
  BY <1>3, Zenon DEF CalendarChanges, HoldInv, TIME, breaker
<1>4. CASE \E c \in Clients : Step(c)
  BY <1>4, HoldStepKeeps, Zenon
<1>5. ASSUME NEW c \in Setters, NEW skew \in Skews,
             alpha_redis_set_breaker_lockout_next_session(c, TIME + skew)
      PROVE  HoldInv(s, k)'
  <2>1. c = s /\ (skew = k \/ skew < -5) /\ skew \in Int
    BY SkewsAssumption, Zenon DEF OneClock
  <2>2. PICK f : f = [NoFrame EXCEPT !.now = TIME + skew, !.session = TRUE]
    OBVIOUS
  <2>3. f.now = TIME + skew /\ f.session
    BY <2>2, Zenon DEF NoFrame
  <2>4. PICK n \in Int : DueGood(due, TIME, k, n) /\ n <= TIME + k
    <3>1. PICK m \in Int : DueGood(due, TIME, k, m)
      BY Zenon DEF HoldInv
    <3>2. CASE due # 0
      BY <3>1, <3>2, Zenon DEF DueGood
    <3>3. CASE due = 0
      <4>1. TIME + k \in Int /\ TIME + k <= TIME + k
        BY <1>0, SMT
      <4>2. QED
        BY <3>3, <4>1, Zenon DEF DueGood
    <3>4. QED
      BY <3>2, <3>3
  <2>5. SetterGood("session_time", f, TIME, k, n)
    <3>1. f.now < TIME - 5 \/ (n <= f.now /\ f.now <= TIME + k)
      BY <1>0, <2>1, <2>3, <2>4, SMT
    <3>2. QED
      BY <3>1, Zenon DEF SetterGood
  <2>6. DirectGood("session_time", f, due)
    BY Zenon DEF DirectGood
  <2>7. Begin(s, "session_time", f)
    BY <1>5, <2>1, <2>2, Zenon DEF alpha_redis_set_breaker_lockout_next_session
  <2>8. QED
    BY <1>0, <2>4, <2>5, <2>6, <2>7, HoldBeginKeeps, Zenon
<1>6. ASSUME NEW c \in Setters, NEW skew \in Skews, NEW e \in Expiries,
             alpha_redis_set_breaker_lockout(c, TIME + skew, e)
      PROVE  HoldInv(s, k)'
  <2>1. c = s
    BY Zenon DEF OneClock
  <2>2. PICK f : f = [NoFrame EXCEPT !.now = TIME + skew, !.expiry = e]
    OBVIOUS
  <2>3. f.expiry = e /\ ~f.session
    BY <2>2, Zenon DEF NoFrame
  <2>4. PICK n \in Int : DueGood(due, TIME, k, n)
    BY Zenon DEF HoldInv
  <2>5. SetterGood("set_time", f, TIME, k, n) /\ DirectGood("set_time", f, due)
    BY <2>3, Zenon DEF SetterGood, DirectGood
  <2>6. Begin(s, "set_time", f)
    BY <1>6, <2>1, <2>2, Zenon DEF alpha_redis_set_breaker_lockout
  <2>7. QED
    BY <1>0, <2>4, <2>5, <2>6, HoldBeginKeeps, Zenon
<1>7. ASSUME NEW c \in Clients,
             alpha_redis_is_breaker_locked(c) \/ alpha_redis_clear_breaker_lockout(c)
      PROVE  HoldInv(s, k)'
  <2>1. "is_get" \notin SetterCommands /\ "del" \notin SetterCommands
    BY Zenon DEF SetterCommands
  <2>2. QED
    BY <1>7, <2>1, HoldBeginKeeps, Zenon
       DEF alpha_redis_is_breaker_locked, alpha_redis_clear_breaker_lockout
<1>8. QED
  BY <1>1, <1>2, <1>3, <1>4, <1>5, <1>6, <1>7, Zenon DEF BreakerNext, Clients

\* From the moment a lockout is set until it is due or cleared the key is there,
\* under one setter whose clock has one skew (redis_cache.c, the SET with EXAT).
\* With two setters it is false: a later SET of an earlier expiry shortens it.
THEOREM LockoutInForce ==
    ASSUME NEW s, NEW k, OneClock(s, k)
    PROVE  BreakerSpec => []LockoutHolds
<1>1. BreakerInit => BreakerInv /\ HoldInv(s, k)
  BY BreakerStarts, HoldStarts, Zenon
<1>2. BreakerInv /\ HoldInv(s, k) /\ [BreakerNext]_breaker => BreakerInv' /\ HoldInv(s, k)'
  BY BreakerSteps, HoldSteps, InvSplits, Zenon
<1>3. HoldInv(s, k) => LockoutHolds
  BY Zenon DEF HoldInv, LockGood, LockoutHolds
<1>4. QED
  BY <1>1, <1>2, <1>3, PTL DEF BreakerSpec

\* The step of ReportedIsLive.
LiveReply(c) ==
    pc[c] # "idle" /\ pc'[c] = "idle" =>
        /\ out'[c].status = "OK" /\ out'[c].locked = "TRUE" =>
               lock.type = "string" /\ lock.expires + 1 >= frame[c].expiry
        /\ out'[c].locked = "FALSE" => due <= TIME

\* What one step tells a reader.
LEMMA ReplyIsLive ==
    ASSUME NEW s, NEW k, OneClock(s, k), ClientsOK, ServerOK, HoldInv(s, k),
           [BreakerNext]_breaker, NEW c \in Readers
    PROVE  LiveReply(c)
<1>0. c \in Clients
  BY Zenon DEF Clients
<1>1. CASE pc'[c] = pc[c]
  BY <1>1, Zenon DEF LiveReply
<1>2. CASE ~Step(c)
  <2>1. pc'[c] = pc[c] \/ pc'[c] # "idle"
    <3>1. CASE Tick \/ ForeignWrite \/ (\E y \in Years : CalendarChanges(y)) \/ UNCHANGED breaker
      BY <3>1, Zenon DEF Tick, ForeignWrite, CalendarChanges, breaker
    <3>2. CASE \E x \in Clients : Step(x)
      BY <1>0, <1>2, <3>2, StepIsOfClient, Zenon DEF StepOfClient
    <3>3. ASSUME NEW x \in Clients, NEW command, NEW f, Begin(x, command, f), command # "idle"
          PROVE  pc'[c] = pc[c] \/ pc'[c] # "idle"
      BY <1>0, <3>3, BeginIsThere, Zenon
    <3>4. QED
      BY <3>1, <3>2, <3>3, Zenon
         DEF BreakerNext, Clients, alpha_redis_is_breaker_locked,
             alpha_redis_clear_breaker_lockout, alpha_redis_set_breaker_lockout,
             alpha_redis_set_breaker_lockout_next_session
  <2>2. QED
    BY <2>1, Zenon DEF LiveReply
<1>3. CASE IsTtl(c)
  <2>1. CASE Consistent(frame[c].expiry - frame[c].server_now, TTL)
    <3>1. PICK e \in Nat, t \in Nat, x \in Nat, z \in Nat :
              e = frame[c].expiry /\ t = frame[c].server_now /\ x = lock.expires /\ z = clock
      BY <1>0, TimeIsNat, Zenon DEF ClientsOK, ClientFrame, ServerOK
    <3>2. t <= z \div 2
      BY <1>0, <1>3, <3>1, Zenon DEF HoldInv, IsTtl, TIME
    <3>3. TTL > 0 /\ e - t <= TTL + 1
      BY <2>1, <3>1, Zenon DEF Consistent
    <3>4. lock.type # "none" /\ x # 0 /\ TTL = (2 * x - z) \div 2
      BY <3>1, <3>3, SMT DEF TTL
    <3>5. x + 1 >= e
      BY <3>2, <3>3, <3>4, SMT
    <3>6. lock.type = "string"
      BY <3>1, <3>4, Zenon DEF HoldInv, LockGood
    <3>7. out'[c].locked = "TRUE"
      <4>1. Return(c, "OK", "TRUE", frame[c].expiry)
        BY <1>3, <2>1, Zenon DEF IsTtl
      <4>2. QED
        BY <1>0, <4>1, Zenon DEF Return, ClientsOK
    <3>8. QED
      BY <3>1, <3>5, <3>6, <3>7, Zenon DEF LiveReply
  <2>2. CASE ~Consistent(frame[c].expiry - frame[c].server_now, TTL)
    <3>1. Return(c, "ERR_IO", "TRUE", 0)
      BY <1>3, <2>2, Zenon DEF IsTtl
    <3>2. out'[c].status = "ERR_IO" /\ out'[c].locked = "TRUE"
      BY <1>0, <3>1, Zenon DEF Return, ClientsOK
    <3>3. QED
      BY <3>2, ZenonT(40) DEF LiveReply
  <2>3. QED
    BY <2>1, <2>2
<1>4. CASE IsGet(c)
  <2>1. CASE lock.type = "none" /\ Return(c, "OK", "FALSE", 0)
    <3>1. out'[c].locked = "FALSE"
      BY <1>0, <2>1, Zenon DEF Return, ClientsOK
    <3>2. ~(due > TIME)
      BY <2>1, Zenon DEF HoldInv, LockGood
    <3>3. due <= TIME
      BY <3>2, TimeIsNat, SMT DEF ServerOK
    <3>4. QED
      BY <3>1, <3>3, Zenon DEF LiveReply
  <2>2. CASE \E locked \in {"TRUE", "as it was"} : Return(c, "ERR_IO", locked, 0)
    <3>0. PICK locked \in {"TRUE", "as it was"} : Return(c, "ERR_IO", locked, 0)
      BY <2>2, Zenon
    <3>1. out'[c].status = "ERR_IO" /\ out'[c].locked = locked
      BY <1>0, <3>0, Zenon DEF Return, ClientsOK
    <3>2. QED
      BY <3>1, Zenon DEF LiveReply
  <2>3. CASE \E f : GoTo(c, "is_time", f)
    <3>1. pc'[c] = "is_time"
      BY <1>0, <2>3, GoToIsThere, Zenon
    <3>2. QED
      BY <3>1, Zenon DEF LiveReply
  <2>4. QED
    BY <1>4, <2>1, <2>2, <2>3, Zenon DEF IsGet
<1>5. CASE Step(c) /\ ~IsTtl(c) /\ ~IsGet(c)
  <2>1. ASSUME NEW status, NEW locked, NEW expires, Return(c, status, locked, expires),
               status # "OK" \/ locked # "TRUE", locked # "FALSE"
        PROVE  LiveReply(c)
    <3>1. out'[c].status = status /\ out'[c].locked = locked
      BY <1>0, <2>1, Zenon DEF Return, ClientsOK
    <3>2. QED
      BY <2>1, <3>1, Zenon DEF LiveReply
  <2>2. ASSUME NEW command, NEW f, GoTo(c, command, f), command # "idle" PROVE LiveReply(c)
    <3>1. pc'[c] = command
      BY <1>0, <2>2, GoToIsThere, Zenon
    <3>2. QED
      BY <2>2, <3>1, Zenon DEF LiveReply
  <2>3. QED
    BY <1>1, <1>5, <2>1, <2>2, Zenon
       DEF Step, alpha_redis_connect, CommandFails, SetTime, Set, SessionTime, CalendarGet,
           CalendarTtl, IsTime, Del
<1>6. QED
  BY <1>2, <1>3, <1>4, <1>5

\* Under the same setter, a client that is told of no lockout is told so at a time
\* when none is due, and one that is told of a lockout is told so while it is in
\* force and lasts, up to a second, as long as said (alpha_redis_is_breaker_locked).
THEOREM LockoutReported ==
    ASSUME NEW s, NEW k, OneClock(s, k)
    PROVE  BreakerSpec => ReportedIsLive
<1>1. BreakerInit => BreakerInv /\ HoldInv(s, k)
  BY BreakerStarts, HoldStarts, Zenon
<1>2. BreakerInv /\ HoldInv(s, k) /\ [BreakerNext]_breaker => BreakerInv' /\ HoldInv(s, k)'
  BY BreakerSteps, HoldSteps, InvSplits, Zenon
<1>3. BreakerInv /\ HoldInv(s, k) /\ [BreakerNext]_breaker =>
          [\A c \in Readers : LiveReply(c)]_breaker
  BY ReplyIsLive, InvSplits, Zenon
<1>4. QED
  BY <1>1, <1>2, <1>3, PTL DEF BreakerSpec, ReportedIsLive, LiveReply

-----------------------------------------------------------------------------
(* The cache of the latest tick. *)

\* The latest tick alone, with any users.
TicksSpec == TicksInit /\ [][TicksNext]_ticks

\* A reply to SET or GET.
Replies == [type : {"waiting", "status", "error", "nil", "string"}, write : Nat, time : Int]

\* The types.
TickType ==
    /\ seconds \in Nat /\ sets \in Nat
    /\ tick \in [write : Int, time : Nat, life : Nat]
    /\ call \in [Users -> {"none", "set", "get"}] /\ reply \in [Users -> Replies]
    /\ seen \in [Users -> Nat]

\* The key holds the last write and lives for Ttl, ...
KeyIsLatest ==
    tick.write > 0 =>
        tick.write = sets /\ tick.life = Ttl /\ tick.time <= seconds /\ seconds - tick.time < Ttl

\* ... and a reply that was true when the server sent it is not older than what
\* its client knows.
ReplyIsCurrent ==
    \A u \in Users :
        /\ seen[u] <= sets
        /\ reply[u].type \in {"status", "string"} => seen[u] <= reply[u].write /\ reply[u].write <= sets
        /\ reply[u].type = "string" => reply[u].time < Ttl

\* The part of the invariant about the replies.
TickReplied == reply \in [Users -> Replies] /\ ReplyIsCurrent

\* The key holds the latest write, and no reply is older than its request.
TickInv == TickType /\ KeyIsLatest /\ ReplyIsCurrent

\* The three values a reply can be made of.
LEMMA ReplyFields ==
    ASSUME NEW type \in {"waiting", "status", "error", "nil", "string"}, NEW write \in Nat, NEW time \in Int
    PROVE  /\ TickReply(type, write, time) \in Replies
           /\ TickReply(type, write, time).type = type
           /\ TickReply(type, write, time).write = write
           /\ TickReply(type, write, time).time = time
  BY Zenon DEF TickReply, Replies

\* The reply before the reply.
LEMMA WaitingFields == Waiting \in Replies /\ Waiting.type = "waiting"
  BY DEF Waiting, Replies

\* One client's reply is replaced by one that is current.
OneReplied(u) ==
    \E r \in Replies :
        /\ reply' = [reply EXCEPT ![u] = r]
        /\ r.type \in {"status", "string"} => seen[u] <= r.write /\ r.write <= sets'
        /\ r.type = "string" => r.time < Ttl

\* A reply to one user disturbs no other.
LEMMA ReplyReplaced ==
    ASSUME TickInv, NEW u \in Users, OneReplied(u), seen' = seen, sets' \in Nat, sets <= sets'
    PROVE  TickReplied'
<1>0. PICK r \in Replies :
        /\ reply' = [reply EXCEPT ![u] = r]
        /\ r.type \in {"status", "string"} => seen[u] <= r.write /\ r.write <= sets'
        /\ r.type = "string" => r.time < Ttl
  BY Zenon DEF OneReplied
<1>1. /\ reply' \in [Users -> Replies] /\ reply'[u] = r
      /\ \A v \in Users : v # u => reply'[v] = reply[v]
  BY <1>0, Zenon DEF TickInv, TickType
<1>2. \A v \in Users : reply[v].write \in Nat /\ seen[v] \in Nat /\ sets \in Nat
  BY Zenon DEF TickInv, TickType, Replies
<1>3. ReplyIsCurrent'
  <2> SUFFICES ASSUME NEW v \in Users
               PROVE  /\ seen[v] <= sets'
                      /\ reply'[v].type \in {"status", "string"} =>
                             seen[v] <= reply'[v].write /\ reply'[v].write <= sets'
                      /\ reply'[v].type = "string" => reply'[v].time < Ttl
    BY Zenon DEF ReplyIsCurrent
  <2>1. CASE v = u
    BY <1>0, <1>1, <1>2, <2>1, SMTT(30) DEF TickInv, ReplyIsCurrent
  <2>2. CASE v # u
    BY <1>1, <1>2, <2>2 DEF TickInv, ReplyIsCurrent
  <2>3. QED
    BY <2>1, <2>2, Zenon
<1>4. QED
  BY <1>1, <1>3, Zenon DEF TickReplied

\* TickInv is inductive.
LEMMA TickInvInit == TicksInit => TickInv
<1> SUFFICES ASSUME TicksInit PROVE TickInv
  OBVIOUS
<1>1. TickType /\ tick.write = 0
  BY WaitingFields DEF TicksInit, TickType, NoTick
<1>2. \A u \in Users : reply[u].type = "waiting" /\ seen[u] = 0 /\ sets = 0
  BY WaitingFields, Zenon DEF TicksInit
<1>3. QED
  BY <1>1, <1>2 DEF TickInv, KeyIsLatest, ReplyIsCurrent

LEMMA TickInvNext == TickInv /\ [TicksNext]_ticks => TickInv'
<1> SUFFICES ASSUME TickInv, [TicksNext]_ticks PROVE TickInv'
  OBVIOUS
<1> USE TickAssumption
<1>1. CASE TimePasses
  <2>1. UNCHANGED <<sets, call, reply, seen>> /\ seconds' = seconds + 1 /\ seconds \in Nat
    BY <1>1, Zenon DEF TimePasses, TickInv, TickType
  <2>2. CASE tick' = NoTick
    BY <2>1, <2>2 DEF TickInv, TickType, KeyIsLatest, ReplyIsCurrent, NoTick
  <2>3. CASE tick' = tick /\ ~(tick.life # 0 /\ tick.time + tick.life <= seconds + 1)
    BY <2>1, <2>3 DEF TickInv, TickType, KeyIsLatest, ReplyIsCurrent
  <2>4. QED
    BY <1>1, <2>1, <2>2, <2>3, Zenon DEF TimePasses
<1>2. CASE TickSpoilt
  BY <1>2 DEF TickSpoilt, TickInv, TickType, KeyIsLatest, ReplyIsCurrent, NoTick
<1>3. ASSUME NEW u \in Users, Reconnects(u) \/ TickConnectionBreaks(u) PROVE TickInv'
  BY <1>3 DEF Reconnects, TickConnectionBreaks, TickInv, TickType, KeyIsLatest, ReplyIsCurrent
<1>4. ASSUME NEW u \in Users, Calls(u) PROVE TickInv'
  <2>1. /\ UNCHANGED <<seconds, tick, sets, seen>> /\ reply' = [reply EXCEPT ![u] = Waiting]
        /\ call' \in [Users -> {"none", "set", "get"}]
    BY <1>4, Zenon DEF Calls, TickInv, TickType
  <2>2. TickReplied'
    <3>1. PICK r \in Replies : r = Waiting /\ r.type = "waiting"
      BY WaitingFields, Zenon
    <3>2. QED
      <4>1. OneReplied(u)
        BY <2>1, <3>1, Zenon DEF OneReplied, TickInv, TickType
      <4>2. QED
        BY <2>1, <3>1, <4>1, ReplyReplaced DEF TickInv, TickType
  <2>3. QED
    BY <2>1, <2>2, Zenon DEF TickInv, TickType, TickReplied, KeyIsLatest
<1>5. ASSUME NEW u \in Users, ServerSets(u) PROVE TickInv'
  <2>1. UNCHANGED <<seconds, call, seen>> /\ seconds \in Nat /\ sets \in Nat /\ seen[u] \in Nat /\ seen[u] <= sets
    BY <1>5, Zenon DEF ServerSets, TickInv, TickType, ReplyIsCurrent
  <2>2. CASE /\ sets' = sets + 1 /\ tick' = TickSet
             /\ reply' = [reply EXCEPT ![u] = TickReply("status", sets + 1, seconds)]
    <3>1. PICK r \in Replies : r = TickReply("status", sets + 1, seconds) /\ r.type = "status" /\ r.write = sets + 1
      BY <2>1, ReplyFields, SMTT(30)
    <3>2. TickReplied'
      <4>1. OneReplied(u)
        <5>1. seen[u] <= r.write /\ r.write <= sets' /\ r.type # "string"
          BY <2>1, <2>2, <3>1
        <5>2. QED
          BY <2>2, <3>1, <5>1, Zenon DEF OneReplied
      <4>2. QED
        BY <2>1, <2>2, <3>1, <4>1, ReplyReplaced
    <3>3. tick' \in [write : Int, time : Nat, life : Nat] /\ KeyIsLatest'
      BY <2>1, <2>2 DEF TickSet, KeyIsLatest
    <3>4. QED
      BY <2>1, <2>2, <3>2, <3>3 DEF TickInv, TickType, TickReplied
  <2>3. CASE reply' = [reply EXCEPT ![u] = TickReply("error", 0, 0)] /\ UNCHANGED <<sets, tick>>
    <3>1. PICK r \in Replies : r = TickReply("error", 0, 0) /\ r.type = "error"
      BY ReplyFields
    <3>2. TickReplied'
      <4>1. OneReplied(u)
        BY <2>1, <2>3, <3>1, Zenon DEF OneReplied
      <4>2. QED
        BY <2>1, <2>3, <3>1, <4>1, ReplyReplaced
    <3>3. QED
      BY <2>1, <2>3, <3>2, Zenon DEF TickInv, TickType, TickReplied, KeyIsLatest
  <2>4. QED
    BY <1>5, <2>2, <2>3, Zenon DEF ServerSets
<1>6. ASSUME NEW u \in Users, ServerGets(u) PROVE TickInv'
  <2>1. /\ UNCHANGED <<seconds, tick, sets, call, seen>>
        /\ seconds \in Nat /\ sets \in Nat /\ seen[u] \in Nat /\ seen[u] <= sets /\ tick.write \in Int /\ tick.time \in Nat
    BY <1>6, Zenon DEF ServerGets, TickInv, TickType, ReplyIsCurrent
  <2>2. TickReplied'
    <3>1. CASE tick.write = 0
      <4>1. PICK r \in Replies : r = TickReply("nil", 0, 0) /\ r.type = "nil"
        BY ReplyFields
      <4>2. reply' = [reply EXCEPT ![u] = r]
        BY <1>6, <3>1, <4>1, Zenon DEF ServerGets
      <4>3. QED
        <5>1. OneReplied(u)
          BY <2>1, <4>1, <4>2, Zenon DEF OneReplied
        <5>2. QED
          BY <2>1, <4>1, <4>2, <5>1, ReplyReplaced
    <3>2. CASE tick.write < 0
      <4>1. PICK r \in Replies : r = TickReply("error", 0, 0) /\ r.type = "error"
        BY ReplyFields
      <4>2. reply' = [reply EXCEPT ![u] = r]
        <5>1. tick.write # 0
          BY <3>2
        <5>2. QED
          BY <1>6, <3>2, <4>1, <5>1, Zenon DEF ServerGets
      <4>3. QED
        <5>1. OneReplied(u)
          BY <2>1, <4>1, <4>2, Zenon DEF OneReplied
        <5>2. QED
          BY <2>1, <4>1, <4>2, <5>1, ReplyReplaced
    <3>3. CASE tick.write > 0
      <4>1. PICK r \in Replies : /\ r = TickReply("string", tick.write, seconds - tick.time)
                                 /\ r.write = tick.write /\ r.time = seconds - tick.time
        <5>1. tick.write \in Nat /\ seconds - tick.time \in Int
          BY <2>1, <3>3
        <5>2. QED
          BY <5>1, ReplyFields, SMTT(30)
      <4>2. reply' = [reply EXCEPT ![u] = r]
        <5>1. tick.write # 0 /\ ~(tick.write < 0)
          BY <2>1, <3>3
        <5>2. QED
          BY <1>6, <4>1, <5>1, Zenon DEF ServerGets
      <4>3. tick.write = sets /\ seconds - tick.time < Ttl
        BY <3>3, Zenon DEF TickInv, KeyIsLatest
      <4>4. QED
        <5>1. OneReplied(u)
          <6>1. seen[u] <= r.write /\ r.write <= sets' /\ r.time < Ttl
            BY <2>1, <4>1, <4>3
          <6>2. QED
            BY <4>2, <6>1, ZenonT(40) DEF OneReplied
        <5>2. QED
          BY <2>1, <4>1, <4>2, <4>3, <5>1, ReplyReplaced
    <3>4. QED
      BY <2>1, <3>1, <3>2, <3>3
  <2>3. QED
    BY <2>1, <2>2, Zenon DEF TickInv, TickType, TickReplied, KeyIsLatest
<1>7. ASSUME NEW u \in Users, alpha_redis_latest_tick_returns(u) PROVE TickInv'
  <2>1. /\ UNCHANGED <<seconds, tick, sets>> /\ call' \in [Users -> {"none", "set", "get"}] /\ sets \in Nat
        /\ reply[u] \in Replies /\ reply[u].write \in Nat
    BY <1>7, Zenon DEF alpha_redis_latest_tick_returns, TickInv, TickType, Replies
  <2>2. CASE /\ reply[u].type \in {"status", "string"}
             /\ seen' = [seen EXCEPT ![u] = reply[u].write] /\ reply' = reply
    <3>1. seen' \in [Users -> Nat] /\ seen'[u] = reply[u].write /\ \A v \in Users : v # u => seen'[v] = seen[v]
      BY <2>1, <2>2, Zenon DEF TickInv, TickType
    <3>2. ReplyIsCurrent'
      BY <2>1, <2>2, <3>1 DEF TickInv, ReplyIsCurrent
    <3>3. QED
      BY <2>1, <2>2, <3>1, <3>2, ZenonT(40) DEF TickInv, TickType, TickReplied, KeyIsLatest
  <2>3. CASE seen' = seen /\ reply' = [reply EXCEPT ![u] = Waiting]
    <3>1. PICK r \in Replies : r = Waiting /\ r.type = "waiting"
      BY WaitingFields, Zenon
    <3>2. TickReplied'
      <4>1. OneReplied(u)
        BY <2>1, <2>3, <3>1, Zenon DEF OneReplied
      <4>2. QED
        BY <2>1, <2>3, <3>1, <4>1, ReplyReplaced
    <3>3. QED
      BY <2>1, <2>3, <3>2, Zenon DEF TickInv, TickType, TickReplied, KeyIsLatest
  <2>4. QED
    BY <1>7, <2>2, <2>3, Zenon DEF alpha_redis_latest_tick_returns
<1>8. CASE UNCHANGED ticks
  BY <1>8, Zenon DEF ticks, TickInv, TickType, KeyIsLatest, ReplyIsCurrent
<1>9. QED
  BY <1>1, <1>2, <1>3, <1>4, <1>5, <1>6, <1>7, <1>8, Zenon DEF TicksNext

\* However many clients write, and whatever replies are lost, no client of
\* alpha_redis_get_latest_tick goes back in time, and none is given a tick the
\* server has kept for its whole life.
THEOREM TickNeverGoesBack == TicksSpec => TickIsCurrent
<1>1. TickInv =>
        [\A u \in Users :
            call[u] = "get" /\ call'[u] = "none" /\ u \notin broken /\ reply[u].type = "string" =>
                reply[u].write >= seen[u] /\ reply[u].time < Ttl]_ticks
  <2> SUFFICES ASSUME TickInv, NEW u \in Users, reply[u].type = "string"
               PROVE  reply[u].write >= seen[u] /\ reply[u].time < Ttl
    OBVIOUS
  <2>1. seen[u] \in Nat /\ reply[u].write \in Nat
    BY Zenon DEF TickInv, TickType, Replies
  <2>2. QED
    BY <2>1, Zenon DEF TickInv, ReplyIsCurrent
<1>2. QED
  BY <1>1, TickInvInit, TickInvNext, PTL DEF TicksSpec, TickIsCurrent

-----------------------------------------------------------------------------
(* Both keys. *)

\* A client that asks the cache, for the lockout (alpha_redis_is_breaker_locked)
\* or for the latest tick (alpha_redis_get_latest_tick), is told what still
\* holds, if one process sets the lockout, its clock differs from the server's
\* by the same k in all its calls but the refused ones, and no expiry that it
\* passes itself is before the next session.
THEOREM CacheReads ==
    ASSUME NEW s, NEW k, OneClock(s, k)
    PROVE  CacheSpec => ReadsAreLive
<1>1. CacheSpec => BreakerSpec /\ TicksSpec
  <2>1. CacheNext /\ UNCHANGED kind => BreakerNext \/ UNCHANGED breaker
    BY Zenon DEF CacheNext
  <2>2. CacheNext /\ UNCHANGED kind => TicksNext \/ UNCHANGED ticks
    BY Zenon DEF CacheNext
  <2>3. UNCHANGED <<kind, breaker, ticks>> => UNCHANGED breaker /\ UNCHANGED ticks
    BY Zenon
  <2>4. QED
    BY <2>1, <2>2, <2>3, PTL DEF CacheSpec, BreakerSpec, TicksSpec
<1>2. QED
  BY <1>1, LockoutReported, TickNeverGoesBack, PTL DEF ReadsAreLive
=============================================================================
