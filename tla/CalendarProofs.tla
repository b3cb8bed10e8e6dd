--------------------------- MODULE CalendarProofs ---------------------------
(***************************************************************************)
(* The calendar, on every date from the first the walk starts at: the day  *)
(* numbers count days, the weekday and the Korean date are right, and the  *)
(* next session is the first weekday that is no holiday.                   *)
(***************************************************************************)
EXTENDS CacheProofs, CalendarWalk, FiniteSetTheorems

\* y is year n of era e, and not the first.
Leaps(y, e, n) == y = 400 * e + n /\ 1 <= n /\ n <= 399

\* In an era the leap years are those the rule names.
LEMMA LeapInEra ==
    ASSUME NEW y \in Int, NEW e \in Int, NEW n \in Nat, Leaps(y, e, n),
           NEW p \in Nat, NEW q \in Nat, Times(4, p, n), Times(100, q, n)
    PROVE  Leap(y) <=> n = 4 * p /\ n # 100 * q
<1>1. y % 4 = 0 <=> n = 4 * p
  BY SMT DEF Leaps, Times
<1>2. y % 100 = 0 <=> n = 100 * q
  BY SMT DEF Leaps, Times
<1>3. y % 400 # 0
  BY SMT DEF Leaps
<1>4. QED
  BY <1>1, <1>2, <1>3, Zenon DEF Leap

\* From one first of March to the next there are 365 days, or 366 (date.c:9-14).
LEMMA MarchStep ==
    ASSUME NEW y \in Int
    PROVE  /\ FirstOfMarch(y) \in Int /\ FirstOfMarch(y - 1) \in Int
           /\ FirstOfMarch(y) = FirstOfMarch(y - 1) + (IF Leap(y) THEN 366 ELSE 365)
<1>1. y - 1 \in Int
  BY SMT
<1>2. PICK e \in Int, n \in Nat : Floored(y - 1, e, n)
  BY <1>1, EraOfYear, SMT
<1>3. PICK f \in Int, m \in Nat : Floored(y, f, m)
  BY EraOfYear, SMT
<1>4. PICK p, q \in Nat : BeforeIs(n, p, q)
  BY BeforeFacts, Zenon
<1>5. PICK r, s \in Nat : BeforeIs(m, r, s)
  BY BeforeFacts, Zenon
<1>6. FirstOfMarch(y - 1) = (e * 146097 + DaysBefore(n)) - 719468
  BY <1>2, <1>4, SMT DEF Floored, FirstOfMarch, BeforeIs
<1>7. FirstOfMarch(y) = (f * 146097 + DaysBefore(m)) - 719468
  BY <1>3, <1>5, SMTT(30) DEF Floored, FirstOfMarch, BeforeIs
<1>8. CASE n < 399
  <2>1. f = e /\ m = n + 1
    BY <1>2, <1>3, <1>8, SMTT(30) DEF Floored
  <2>2. Leap(y) <=> m = 4 * r /\ m # 100 * s
    <3>1. Leaps(y, e, m)
      BY <1>2, <1>8, <2>1, SMTT(30) DEF Floored, Leaps
    <3>2. QED
      BY <1>5, <3>1, LeapInEra, SMT DEF BeforeIs
  <2>3. r = IF m = 4 * r THEN p + 1 ELSE p
    BY <1>4, <1>5, <2>1, SMT DEF BeforeIs, Times
  <2>4. s = IF m = 100 * s THEN q + 1 ELSE q
    BY <1>4, <1>5, <2>1, SMTT(30) DEF BeforeIs, Times
  <2>5. m = 100 * s => m = 4 * r
    BY <1>5, SMT DEF BeforeIs, Times
  <2>6. DaysBefore(m) = DaysBefore(n) + (IF Leap(y) THEN 366 ELSE 365)
    BY <1>4, <1>5, <2>1, <2>2, <2>3, <2>4, <2>5, SMTT(30) DEF BeforeIs
  <2>7. QED
    BY <1>4, <1>6, <1>7, <2>1, <2>6, SMT DEF BeforeIs
<1>9. CASE ~(n < 399)
  <2>1. n = 399 /\ f = e + 1 /\ m = 0 /\ y = 400 * f
    BY <1>2, <1>3, <1>9, SMT DEF Floored
  <2>2. Leap(y)
    BY <2>1, SMT DEF Leap
  <2>3. DaysBefore(n) = 145731 /\ DaysBefore(m) = 0
    BY <1>4, <1>5, <2>1, SMTT(30) DEF BeforeIs, Times
  <2>4. QED
    BY <1>6, <1>7, <2>1, <2>2, <2>3, SMT
<1>10. QED
  BY <1>8, <1>9, SMT

\* The length of a month counted from March, in a leap year.
MonthLength(mp) == IF mp = 11 THEN 29 ELSE IF mp \in {1, 3, 6, 8} THEN 30 ELSE 31

\* The month that a day of the year is in, counted from March.
LEMMA MonthFound ==
    ASSUME NEW mp \in 0 .. 11, NEW d \in Nat, 1 <= d, d <= MonthLength(mp)
    PROVE  /\ MonthStart(mp) \in Nat
           /\ (5 * (MonthStart(mp) + (d - 1)) + 2) \div 153 = mp
<1>1. MonthStart(mp) \in Nat
  BY MonthStarts, SMT
<1>2. PICK x \in Nat : x = 5 * (MonthStart(mp) + (d - 1)) + 2
  BY <1>1, SMT
<1>3. 153 * mp <= x /\ x < 153 * mp + 153
  BY <1>2, MonthStarts, SMT DEF MonthLength
<1>4. PICK q \in Nat : q = x \div 153 /\ Times(153, q, x)
  BY Divided, SMT
<1>5. q = mp
  BY <1>3, <1>4, SMT DEF Times
<1>6. QED
  BY <1>1, <1>2, <1>4, <1>5, SMT

\* A date of the calendar.
IsCivil(y, m, d) == y \in Int /\ m \in 1 .. 12 /\ d \in Nat /\ 1 <= d /\ d <= DaysIn(y, m)

\* The date is that of day dn.
IsDateOf(dn, y, m, d) ==
    \E e \in Int : \E n, doy \in Nat :
        /\ MarchDate(dn, e, n, doy)
        /\ YearOf(e, n, doy) = y /\ MonthOf(doy) = m /\ DayOfMonth(doy) = d

\* Where a date is in the years from March on.
LEMMA CivilIsMarch ==
    ASSUME NEW y, NEW m, NEW d, IsCivil(y, m, d)
    PROVE  /\ days_from_civil(y, m, d) \in Int
           /\ IsDateOf(days_from_civil(y, m, d), y, m, d)
<1>1. y \in Int /\ m \in 1 .. 12 /\ d \in Nat /\ 1 <= d /\ d <= DaysIn(y, m)
  BY Zenon DEF IsCivil
<1>2. PICK yy \in Int : yy = IF m <= 2 THEN y - 1 ELSE y
  BY <1>1, SMT
<1>3. PICK mp \in 0 .. 11 : mp = IF m > 2 THEN m - 3 ELSE m + 9
  BY <1>1, SMT
<1>4. d <= MonthLength(mp) /\ (mp = 11 => d <= IF Leap(y) THEN 29 ELSE 28)
  BY <1>1, <1>3, SMTT(30) DEF DaysIn, MonthLength
<1>5. /\ MonthStart(mp) \in Nat
      /\ (5 * (MonthStart(mp) + (d - 1)) + 2) \div 153 = mp
  BY <1>1, <1>4, MonthFound, SMT
<1>6. PICK doy \in Nat : doy = MonthStart(mp) + (d - 1)
  BY <1>1, <1>5, SMTT(30)
<1>7. MonthOf(doy) = m
  BY <1>1, <1>3, <1>5, <1>6, SMT DEF MonthOf
<1>8. DayOfMonth(doy) = d
  BY <1>1, <1>5, <1>6, SMTT(30) DEF DayOfMonth, MonthStart
<1>9. PICK e \in Int, n \in Nat : Floored(yy, e, n)
  BY EraOfYear, SMT
<1>10. doy <= 365 /\ (doy >= 306 <=> m <= 2)
  BY <1>1, <1>3, <1>4, <1>6, MonthStarts, SMTT(30) DEF MonthLength
<1>11. YearOf(e, n, doy) = y
  BY <1>1, <1>2, <1>9, <1>10, SMT DEF YearOf, Floored
<1>12. DaysBefore(n) \in Nat
  <2>1. n + 1 \in Nat /\ n < n + 1
    BY SMT
  <2>2. QED
    BY <2>1, BeforeGrows, SMT
<1>13. FirstOfMarch(yy) = (e * 146097 + DaysBefore(n)) - 719468
  BY <1>9, <1>12, SMTT(30) DEF Floored, FirstOfMarch
<1>14. days_from_civil(y, m, d) = FirstOfMarch(yy) + doy
  <2>1. days_from_civil(y, m, d) = (FirstOfMarch(yy) + MonthStart(mp)) + (d - 1)
    BY <1>1, <1>2, <1>3, FromCivil, SMTT(30)
  <2>2. QED
    BY <1>1, <1>5, <1>6, <1>12, <1>13, <2>1, SMT
<1>15. PICK dn \in Int : dn = days_from_civil(y, m, d) /\ dn = FirstOfMarch(yy) + doy
  BY <1>12, <1>13, <1>14, SMT
<1>16. DaysBefore(n) + doy < 146097
  <2>1. PICK p, q \in Nat : BeforeIs(n, p, q)
    BY BeforeFacts, SMT
  <2>2. QED
    BY <1>9, <1>10, <2>1, SMT DEF BeforeIs, Times, Floored
<1>17. ASSUME n < 399 PROVE DaysBefore(n) + doy < DaysBefore(n + 1)
  <2>1. n + 1 \in Nat /\ n < n + 1 /\ yy + 1 \in Int /\ (yy + 1) - 1 = yy
    BY SMT
  <2>2. DaysBefore(n + 1) \in Nat /\ DaysBefore(n) + 365 <= DaysBefore(n + 1)
    BY <2>1, BeforeGrows, SMTT(30)
  <2>3. CASE doy <= 364
    BY <1>12, <2>2, <2>3, SMT
  <2>4. CASE doy = 365
    <3>1. mp = 11 /\ d = 29 /\ m = 2
      BY <1>1, <1>3, <1>4, <1>6, <2>4, MonthStarts, SMT DEF MonthLength
    <3>2. Leap(y) /\ y = yy + 1
      BY <1>1, <1>2, <1>4, <3>1, SMTT(30)
    <3>3. PICK f \in Int, k \in Nat : Floored(y, f, k)
      BY <1>1, EraOfYear, SMT
    <3>4. f = e /\ k = n + 1
      BY <1>1, <1>9, <1>17, <3>2, <3>3, SMTT(30) DEF Floored
    <3>5. FirstOfMarch(y) = (e * 146097 + DaysBefore(n + 1)) - 719468
      BY <2>2, <3>3, <3>4, SMT DEF Floored, FirstOfMarch
    <3>6. FirstOfMarch(y) = FirstOfMarch(yy) + 366
      BY <1>1, <2>1, <3>2, MarchStep, SMTT(30)
    <3>7. QED
      BY <1>12, <1>13, <2>2, <2>4, <3>5, <3>6, SMTT(30)
  <2>5. QED
    BY <1>10, <2>3, <2>4, SMT
<1>18. MarchDate(dn, e, n, doy)
  BY <1>9, <1>10, <1>12, <1>13, <1>15, <1>16, <1>17, SMT DEF MarchDate, Floored
<1>19. QED
  BY <1>7, <1>8, <1>11, <1>15, <1>18, SMT DEF IsDateOf

\* From a date to its day number and back.
LEMMA CivilInverse ==
    ASSUME NEW y, NEW m, NEW d, IsCivil(y, m, d)
    PROVE  /\ civil_from_days(days_from_civil(y, m, d)) = <<y, m, d>>
           /\ civil_year_from_days(days_from_civil(y, m, d)) = y
<1>1. PICK dn \in Int : dn = days_from_civil(y, m, d) /\ IsDateOf(dn, y, m, d)
  BY CivilIsMarch, Zenon
<1>2. PICK e \in Int : \E n, doy \in Nat :
          /\ MarchDate(dn, e, n, doy)
          /\ YearOf(e, n, doy) = y /\ MonthOf(doy) = m /\ DayOfMonth(doy) = d
  BY <1>1, Zenon DEF IsDateOf
<1>3. PICK n \in Nat, doy \in Nat :
          /\ MarchDate(dn, e, n, doy)
          /\ YearOf(e, n, doy) = y /\ MonthOf(doy) = m /\ DayOfMonth(doy) = d
  BY <1>2, Zenon
<1>4. HasDate(dn)
  BY CivilYear, Zenon
<1>5. PICK f \in Int : \E k, c \in Nat :
          /\ MarchDate(dn, f, k, c)
          /\ civil_from_days(dn) = <<YearOf(f, k, c), MonthOf(c), DayOfMonth(c)>>
          /\ civil_year_from_days(dn) = YearOf(f, k, c)
  BY <1>4, Zenon DEF HasDate
<1>6. PICK k \in Nat, c \in Nat :
          /\ MarchDate(dn, f, k, c)
          /\ civil_from_days(dn) = <<YearOf(f, k, c), MonthOf(c), DayOfMonth(c)>>
          /\ civil_year_from_days(dn) = YearOf(f, k, c)
  BY <1>5, Zenon
<1>7. e = f /\ n = k /\ doy = c
  <2>1. dn <= dn
    BY SMTT(30)
  <2>2. 400 * e + n < 400 * f + k \/ (e = f /\ n = k /\ doy <= c)
    BY <1>3, <1>6, <2>1, MarchOrder, SMTT(30)
  <2>3. 400 * f + k < 400 * e + n \/ (f = e /\ k = n /\ c <= doy)
    BY <1>3, <1>6, <2>1, MarchOrder, SMTT(30)
  <2>4. QED
    BY <2>2, <2>3, SMT
<1>8. QED
  BY <1>1, <1>3, <1>6, <1>7, Zenon

-----------------------------------------------------------------------------
(* The walk. *)

\* The day number of the next date is the next day number.
LEMMA NextDate ==
    ASSUME NEW y, NEW m, NEW d, IsCivil(y, m, d)
    PROVE  /\ d < DaysIn(y, m) =>
                  /\ IsCivil(y, m, d + 1)
                  /\ days_from_civil(y, m, d + 1) = days_from_civil(y, m, d) + 1
           /\ ~(d < DaysIn(y, m)) /\ m < 12 =>
                  /\ IsCivil(y, m + 1, 1)
                  /\ days_from_civil(y, m + 1, 1) = days_from_civil(y, m, d) + 1
           /\ ~(d < DaysIn(y, m)) /\ ~(m < 12) =>
                  /\ IsCivil(y + 1, 1, 1)
                  /\ days_from_civil(y + 1, 1, 1) = days_from_civil(y, m, d) + 1
<1>1. y \in Int /\ m \in 1 .. 12 /\ d \in Nat /\ 1 <= d /\ d <= DaysIn(y, m)
  BY Zenon DEF IsCivil
<1>2. y + 1 \in Int /\ y - 1 \in Int /\ (y + 1) - 1 = y /\ d \in Int /\ d + 1 \in Int
      /\ (m < 12 => m + 1 \in 1 .. 12) /\ 1 \in 1 .. 12 /\ 1 \in Int
  BY <1>1, SMT
<1>3. PICK mp \in 0 .. 11 : mp = IF m > 2 THEN m - 3 ELSE m + 9
  BY <1>1, SMT
<1>4. PICK yy \in Int : yy = IF m <= 2 THEN y - 1 ELSE y
  BY <1>1, SMT
<1>5. MonthStart(mp) \in Nat /\ FirstOfMarch(yy) \in Int
  BY <1>1, <1>4, MonthStarts, MarchStep, SMTT(30)
<1>6. days_from_civil(y, m, d) = (FirstOfMarch(yy) + MonthStart(mp)) + (d - 1)
  BY <1>1, <1>2, <1>3, <1>4, FromCivil, SMTT(30)
<1>7. ASSUME d < DaysIn(y, m)
      PROVE  /\ IsCivil(y, m, d + 1)
             /\ days_from_civil(y, m, d + 1) = days_from_civil(y, m, d) + 1
  <2>1. days_from_civil(y, m, d + 1) = (FirstOfMarch(yy) + MonthStart(mp)) + ((d + 1) - 1)
    BY <1>1, <1>2, <1>3, <1>4, FromCivil, SMTT(30)
  <2>2. DaysIn(y, m) \in Int
    BY <1>1, SMT DEF DaysIn
  <2>3. IsCivil(y, m, d + 1)
    BY <1>1, <1>7, <2>2, SMT DEF IsCivil
  <2>4. QED
    BY <1>1, <1>5, <1>6, <2>1, <2>3, SMT
<1>8. ASSUME ~(d < DaysIn(y, m)), m < 12
      PROVE  /\ IsCivil(y, m + 1, 1)
             /\ days_from_civil(y, m + 1, 1) = days_from_civil(y, m, d) + 1
  <2>1. IsCivil(y, m + 1, 1)
    BY <1>1, <1>2, <1>8, SMT DEF IsCivil, DaysIn
  <2>2. PICK k \in 0 .. 11 : k = IF m + 1 > 2 THEN (m + 1) - 3 ELSE (m + 1) + 9
    BY <1>1, <1>8, SMT
  <2>3. PICK z \in Int : z = IF m + 1 <= 2 THEN y - 1 ELSE y
    BY <1>1, SMTT(30)
  <2>4. days_from_civil(y, m + 1, 1) = (FirstOfMarch(z) + MonthStart(k)) + (1 - 1)
    BY <1>1, <1>2, <1>8, <2>2, <2>3, FromCivil, SMTT(30)
  <2>5. CASE m = 2
    <3>1. mp = 11 /\ k = 0 /\ z = y /\ yy = y - 1
      BY <1>3, <1>4, <2>2, <2>3, <2>5, SMTT(30)
    <3>2. d = IF Leap(y) THEN 29 ELSE 28
      BY <1>1, <1>8, <2>5, SMT DEF DaysIn
    <3>3. /\ FirstOfMarch(y) \in Int /\ FirstOfMarch(y - 1) \in Int
          /\ FirstOfMarch(y) = FirstOfMarch(y - 1) + (IF Leap(y) THEN 366 ELSE 365)
      BY <1>1, MarchStep, SMTT(30)
    <3>4. QED
      BY <1>6, <2>1, <2>4, <3>1, <3>2, <3>3, MonthStarts, SMT
  <2>6. CASE m # 2
    <3>1. k = mp + 1 /\ z = yy
      BY <1>1, <1>3, <1>4, <1>8, <2>2, <2>3, <2>6, SMTT(30)
    <3>2. d = IF m \in {4, 6, 9, 11} THEN 30 ELSE 31
      BY <1>1, <1>8, <2>6, SMT DEF DaysIn
    <3>3. MonthStart(k) = MonthStart(mp) + d
      BY <1>1, <1>3, <1>8, <2>6, <3>1, <3>2, MonthStarts, SMTT(30)
    <3>4. QED
      BY <1>1, <1>5, <1>6, <2>1, <2>4, <3>1, <3>3, SMTT(30)
  <2>7. QED
    BY <2>5, <2>6, SMT
<1>9. ASSUME ~(d < DaysIn(y, m)), ~(m < 12)
      PROVE  /\ IsCivil(y + 1, 1, 1)
             /\ days_from_civil(y + 1, 1, 1) = days_from_civil(y, m, d) + 1
  <2>1. m = 12 /\ d = 31 /\ mp = 9 /\ yy = y
    BY <1>1, <1>3, <1>4, <1>9, SMTT(30) DEF DaysIn
  <2>2. IsCivil(y + 1, 1, 1)
    BY <1>2, SMT DEF IsCivil, DaysIn
  <2>3. days_from_civil(y + 1, 1, 1) = (FirstOfMarch((y + 1) - 1) + MonthStart(10)) + (1 - 1)
    BY <1>2, FromCivil, SMT
  <2>4. QED
    BY <1>2, <1>5, <1>6, <2>1, <2>2, <2>3, MonthStarts, SMT
<1>10. QED
  BY <1>7, <1>8, <1>9, Zenon

\* The leap years from a to b.
LeapsIn(a, b) == {x \in a .. b : Leap(x)}

\* They can be counted.
LEMMA LeapsFinite ==
    ASSUME NEW a \in Int, NEW b \in Int
    PROVE  IsFiniteSet(LeapsIn(a, b)) /\ Cardinality(LeapsIn(a, b)) \in Nat
<1>1. IsFiniteSet(a .. b)
  BY FS_Interval, Zenon
<1>2. LeapsIn(a, b) \subseteq a .. b
  BY Zenon DEF LeapsIn
<1>3. QED
  BY <1>1, <1>2, FS_Subset, FS_CardinalityType, Zenon

\* One more year at the end, and at the beginning.
LEMMA LeapsAdded ==
    ASSUME NEW a \in Int, NEW b \in Int, NEW y \in Int, NEW S, NEW T,
           S = LeapsIn(a, b), y \notin a .. b,
           T = IF Leap(y) THEN S \union {y} ELSE S
    PROVE  Cardinality(T) = Cardinality(S) + (IF Leap(y) THEN 1 ELSE 0)
<1>1. IsFiniteSet(S) /\ Cardinality(S) \in Nat /\ y \notin S
  BY LeapsFinite, Zenon DEF LeapsIn
<1>2. CASE Leap(y)
  BY <1>1, <1>2, FS_AddElement, SMT
<1>3. CASE ~Leap(y)
  BY <1>1, <1>3, SMT
<1>4. QED
  BY <1>2, <1>3, Zenon

\* The days of a year.
YearLength(y) == IF Leap(y) THEN 366 ELSE 365

\* The reference for the first day of a year counts them.
LEMMA YearStartStep ==
    ASSUME NEW y \in Int
    PROVE  /\ YearStart(y) \in Int /\ YearStart(y + 1) \in Int
           /\ YearStart(y + 1) = YearStart(y) + YearLength(y)
<1> PICK first \in Int, last \in Int : first = 1970 /\ last = 1969
  BY SMT
<1> DEFINE After(z) == Cardinality(LeapsIn(first, z - 1))
           Until(z) == Cardinality(LeapsIn(z, last))
<1>1. \A z \in Int : After(z) \in Nat /\ Until(z) \in Nat
  BY LeapsFinite, SMT
<1>2. \A z \in Int : YearStart(z) = 365 * (z - first) + (After(z) - Until(z))
  BY SMT DEF YearStart, LeapsIn
<1>3. y + 1 \in Int /\ (y + 1) - 1 = y /\ y - 1 \in Int 
  BY SMT
<1>4. CASE y >= first
  <2>1. LeapsIn(y, last) = {} /\ LeapsIn(y + 1, last) = {}
    BY <1>4, SMT DEF LeapsIn
  <2>2. Until(y) = Until(y + 1)
    BY <2>1, SMTT(30)
  <2>3. y \notin first .. y - 1
    BY SMT
  <2>4. LeapsIn(first, y) = IF Leap(y) THEN LeapsIn(first, y - 1) \union {y}
                           ELSE LeapsIn(first, y - 1)
    BY <1>4, SMT DEF LeapsIn
  <2>5. After(y + 1) = After(y) + (IF Leap(y) THEN 1 ELSE 0)
    BY <1>3, <2>3, <2>4, LeapsAdded, SMTT(30)
  <2> HIDE DEF After, Until
  <2>6. QED
    BY <1>1, <1>2, <1>3, <2>2, <2>5, SMTT(30) DEF YearLength
<1>5. CASE ~(y >= first)
  <2>1. LeapsIn(first, y - 1) = {} /\ LeapsIn(first, y) = {}
    BY <1>5, SMT DEF LeapsIn
  <2>2. After(y) = After(y + 1)
    <3>1. LeapsIn(first, (y + 1) - 1) = {}
      BY <1>3, <2>1, SMT
    <3>2. QED
      BY <2>1, <3>1, SMTT(30)
  <2>3. y \notin y + 1 .. last
    BY SMT
  <2>4. LeapsIn(y, last) = IF Leap(y) THEN LeapsIn(y + 1, last) \union {y}
                           ELSE LeapsIn(y + 1, last)
    BY <1>5, SMT DEF LeapsIn
  <2>5. Until(y) = Until(y + 1) + (IF Leap(y) THEN 1 ELSE 0)
    BY <1>3, <2>3, <2>4, LeapsAdded, SMT
  <2> HIDE DEF After, Until
  <2>6. QED
    BY <1>1, <1>2, <1>3, <2>2, <2>5, SMTT(30) DEF YearLength
<1>6. QED
  BY <1>4, <1>5, SMT

\* The day number of the first of January.
LEMMA JanuaryStep ==
    ASSUME NEW y \in Int
    PROVE  /\ days_from_civil(y, 1, 1) \in Int /\ days_from_civil(y + 1, 1, 1) \in Int
           /\ days_from_civil(y + 1, 1, 1) = days_from_civil(y, 1, 1) + YearLength(y)
<1>1. y + 1 \in Int /\ (y + 1) - 1 = y /\ y - 1 \in Int /\ 1 \in 1 .. 12 /\ 1 \in Int
  BY SMT
<1>2. days_from_civil(y, 1, 1) = (FirstOfMarch(y - 1) + MonthStart(10)) + (1 - 1)
  BY <1>1, FromCivil, SMT
<1>3. days_from_civil(y + 1, 1, 1) = (FirstOfMarch((y + 1) - 1) + MonthStart(10)) + (1 - 1)
  BY <1>1, FromCivil, SMT
<1>4. /\ FirstOfMarch(y) \in Int /\ FirstOfMarch(y - 1) \in Int
      /\ FirstOfMarch(y) = FirstOfMarch(y - 1) + (IF Leap(y) THEN 366 ELSE 365)
  BY MarchStep, SMT
<1>5. QED
  BY <1>1, <1>2, <1>3, <1>4, MonthStarts, SMT DEF YearLength

\* Both counts begin on 1 January 1970.
LEMMA Epoch1970 == days_from_civil(1970, 1, 1) = 0 /\ YearStart(1970) = 0
<1>1. days_from_civil(1970, 1, 1) = 0
  <2>1. EraOf(1969, 400) = 4
    BY SMT DEF EraOf, Quotient
  <2>2. DaysBefore(369) = 134774
    BY SMT DEF DaysBefore
  <2>3. FirstOfMarch(1969) = -306
    BY <2>1, <2>2, SMT DEF FirstOfMarch
  <2>4. days_from_civil(1970, 1, 1) = (FirstOfMarch(1970 - 1) + MonthStart(10)) + (1 - 1)
    BY FromCivil, SMT
  <2>5. QED
    BY <2>3, <2>4, MonthStarts, SMT
<1>2. LeapsIn(1970, 1970 - 1) = {} /\ LeapsIn(1970, 1969) = {}
  BY SMT DEF LeapsIn
<1>3. YearStart(1970) = 0
  BY <1>2, FS_EmptySet, SMT DEF YearStart, LeapsIn
<1>4. QED
  BY <1>1, <1>3, SMT

\* The code's first day of the year is the reference's.
StartsRight(y) == days_from_civil(y, 1, 1) = YearStart(y)

\* The years begin where the count of the leap years says.
LEMMA YearStarts == ASSUME NEW y \in Int PROVE StartsRight(y)
<1>1. StartsRight(1970)
  BY Epoch1970, SMT DEF StartsRight
<1>2. ASSUME NEW z \in Int PROVE StartsRight(z) <=> StartsRight(z + 1)
  <2>1. /\ days_from_civil(z, 1, 1) \in Int
        /\ days_from_civil(z + 1, 1, 1) = days_from_civil(z, 1, 1) + YearLength(z)
    BY JanuaryStep, Zenon
  <2>2. YearStart(z) \in Int /\ YearStart(z + 1) = YearStart(z) + YearLength(z)
    BY YearStartStep, Zenon
  <2>3. YearLength(z) \in Int
    BY SMT DEF YearLength
  <2>4. PICK a \in Int, b \in Int, l \in Int :
            a = days_from_civil(z, 1, 1) /\ b = YearStart(z) /\ l = YearLength(z)
    BY <2>1, <2>2, <2>3, Zenon
  <2>5. days_from_civil(z + 1, 1, 1) = a + l /\ YearStart(z + 1) = b + l
    BY <2>1, <2>2, <2>4, Zenon
  <2>6. a = b <=> a + l = b + l
    BY SMT
  <2>7. QED
    BY <2>4, <2>5, <2>6, Zenon DEF StartsRight
<1>3. PICK base \in Int : base = 1970
  BY SMT
<1>4. StartsRight(base)
  BY <1>1, <1>3, SMT
<1> HIDE <1>1, <1>3
<1> DEFINE Bad == {k \in Nat : ~(StartsRight(base + k) /\ StartsRight(base - k))}
<1>5. Bad = {}
  <2>1. SUFFICES ASSUME Bad # {} PROVE FALSE
    BY Zenon
  <2>2. PICK k \in Bad : \A j \in Bad : k <= j
    BY <2>1, Least, Zenon
  <2>3. k \in Nat /\ ~(StartsRight(base + k) /\ StartsRight(base - k))
    BY <2>2, Zenon
  <2>4. k # 0
    BY <1>4, <2>3, SMT
  <2>5. k - 1 \in Nat /\ ~(k <= k - 1)
    BY <2>3, <2>4, SMT
  <2>6. StartsRight(base + (k - 1)) /\ StartsRight(base - (k - 1))
    BY <2>2, <2>5, Zenon
  <2>7. PICK a \in Int, b \in Int : a = base + (k - 1) /\ b = base - k
                                    /\ a + 1 = base + k /\ b + 1 = base - (k - 1)
    BY <2>5, SMT
  <2>8. QED
    BY <1>2, <2>3, <2>6, <2>7, ZenonT(40)
<1>6. CASE y >= base
  <2>1. PICK k \in Nat : y = base + k
    BY <1>6, SMT
  <2>2. QED
    BY <1>5, <2>1, Zenon
<1>7. CASE ~(y >= base)
  <2>1. PICK k \in Nat : y = base - k
    BY <1>7, SMT
  <2>2. QED
    BY <1>5, <2>1, Zenon
<1>8. QED
  BY <1>6, <1>7, Zenon

-----------------------------------------------------------------------------
(* Days of the week, holidays and sessions. *)

\* Of three days in a row one is a weekday.
LEMMA WeekdayComes ==
    ASSUME NEW d \in Int
    PROVE  /\ is_weekend(d) <=> ~((d - 4) % 7 < 5)
           /\ ~is_weekend(d) \/ ~is_weekend(d + 1) \/ ~is_weekend(d + 2)
  BY SMT DEF is_weekend

\* The holidays of the walk ascend and lie within the window.
HolidaysAhead ==
    /\ day \in Int /\ closed \in Seq(Int) /\ Ascending(closed)
    /\ \A i \in 1 .. Len(closed) : day < closed[i] /\ closed[i] <= day + Window

\* The days the property looks at are those the search looks at.
LEMMA TradingDay ==
    ASSUME HolidaysAhead, NEW d \in Int
    PROVE  d \in TradingDays <=> day < d /\ d <= day + Window + 3 /\ ~Shut(d, closed)
<1>1. d \in day + 1 .. day + Window + 3 <=> day < d /\ d <= day + Window + 3
  BY WindowAssumption, SMT DEF HolidaysAhead
<1>2. is_weekend(d) <=> ~((d - 4) % 7 < 5)
  BY WeekdayComes, Zenon
<1>3. is_holiday(d, closed) <=> \E i \in 1 .. Len(closed) : closed[i] = d
  BY HolidayFound, Zenon DEF HolidaysAhead
<1>4. QED
  BY <1>1, <1>2, <1>3, Zenon DEF TradingDays, Shut

\* There is a trading day behind the window, and so a first one.
LEMMA FirstTradingDay ==
    ASSUME HolidaysAhead
    PROVE  \E d \in TradingDays :
               d \in Int /\ FirstOpen(day + 1, d, closed) /\ \A c \in TradingDays : d <= c
<1>1. PICK e \in Int : e = day + Window + 1
  BY WindowAssumption, SMT DEF HolidaysAhead
<1>2. \E d \in {e, e + 1, e + 2} : ~is_weekend(d)
  BY WeekdayComes, Zenon
<1>3. PICK d \in {e, e + 1, e + 2} : ~is_weekend(d)
  BY <1>2, Zenon
<1>4. d \in Int /\ day < d /\ d <= day + Window + 3 /\ d > day + Window
  BY <1>1, <1>3, WindowAssumption, SMT DEF HolidaysAhead
<1>5. ~is_holiday(d, closed)
  <2>1. ASSUME NEW i \in 1 .. Len(closed), closed[i] = d PROVE FALSE
    <3>1. closed[i] <= day + Window
      BY Zenon DEF HolidaysAhead
    <3>2. QED
      BY <1>4, <2>1, <3>1, WindowAssumption, SMT DEF HolidaysAhead
  <2>2. QED
    BY <1>4, <2>1, HolidayFound, Zenon DEF HolidaysAhead
<1>6. d \in TradingDays
  BY <1>3, <1>4, <1>5, TradingDay, Zenon DEF Shut
<1> DEFINE S == {k \in Nat : day + k \in TradingDays}
<1>7. PICK k \in S : \A j \in S : k <= j
  <2>1. d - day \in Nat /\ day + (d - day) = d
    BY <1>4, SMT DEF HolidaysAhead
  <2>2. S # {}
    BY <1>6, <2>1, Zenon
  <2>3. QED
    BY <2>2, Least, Zenon
<1>8. PICK t \in Int : t = day + k
  BY <1>7, SMT DEF HolidaysAhead
<1>9. t \in TradingDays
  BY <1>7, <1>8, Zenon
<1>10. ASSUME NEW c \in TradingDays PROVE t <= c
  <2>1. c \in Int /\ day < c
    BY WindowAssumption, SMT DEF HolidaysAhead, TradingDays
  <2>2. c - day \in Nat /\ day + (c - day) = c
    BY <2>1, SMT DEF HolidaysAhead
  <2>3. k <= c - day
    BY <1>7, <2>2, Zenon
  <2>4. QED
    BY <1>7, <1>8, <2>1, <2>3, SMT DEF HolidaysAhead
<1>11. FirstOpen(day + 1, t, closed)
  <2>1. day < t /\ t <= day + Window + 3 /\ ~Shut(t, closed)
    BY <1>9, TradingDay, Zenon
  <2>2. ASSUME NEW x \in Int, day + 1 <= x, x < t PROVE Shut(x, closed)
    <3>1. day < x /\ x <= day + Window + 3 /\ ~(t <= x)
      BY <2>1, <2>2, WindowAssumption, SMTT(30) DEF HolidaysAhead
    <3>2. QED
      BY <1>10, <3>1, TradingDay, Zenon
  <2>3. day + 1 <= t
    BY <2>1, SMT DEF HolidaysAhead
  <2>4. QED
    BY <2>1, <2>2, <2>3, Zenon DEF FirstOpen
<1>12. QED
  BY <1>9, <1>10, <1>11, Zenon

\* What the search finds is the session the property asks for.
LEMMA FoundIsNext ==
    ASSUME HolidaysAhead, NEW max \in Int, NEW epoch, Found(epoch, day + 1, closed, max)
    PROVE  IsNextSession(epoch, max)
<1>1. PICK t \in TradingDays :
          t \in Int /\ FirstOpen(day + 1, t, closed) /\ \A c \in TradingDays : t <= c
  BY FirstTradingDay, Zenon
<1>2. day + 1 \in Int
  BY SMT DEF HolidaysAhead
<1>3. CASE \E d \in Int : /\ FirstOpen(day + 1, d, closed) /\ d <= max
                          /\ epoch = session_start_epoch(d)
  <2>1. t <= max /\ epoch = session_start_epoch(t)
    BY <1>1, <1>2, <1>3, OpenIsUnique, ZenonT(40)
  <2>2. epoch = IF t <= max THEN t * SECONDS_PER_DAY ELSE -1
    BY <1>1, <2>1, SMT DEF session_start_epoch, SECONDS_PER_DAY, ALPHA_KST_OFFSET_SECONDS
  <2>3. QED
    BY <1>1, <2>2, Zenon DEF IsNextSession
<1>4. CASE /\ \A x \in Int : day + 1 <= x /\ x <= max => Shut(x, closed)
           /\ epoch = ALPHA_SESSION_CALENDAR_INSUFFICIENT
  <2>1. ~(t <= max)
    BY <1>1, <1>4, Zenon DEF FirstOpen
  <2>2. epoch = IF t <= max THEN t * SECONDS_PER_DAY ELSE -1
    BY <1>4, <2>1, SMT DEF ALPHA_SESSION_CALENDAR_INSUFFICIENT
  <2>3. QED
    BY <1>1, <2>2, Zenon DEF IsNextSession
<1>5. QED
  BY <1>3, <1>4, Zenon DEF Found

-----------------------------------------------------------------------------
(* The function that knows no holidays. *)

\* open is the search of the function that knows no holidays.
Weekdays(open) == open = [d \in Int |-> IF is_weekend(d) THEN open[d + 1] ELSE d]

\* The search ends, as a weekday comes.
LEMMA WeekdaysExists == \E open : Weekdays(open)
<1> DEFINE Turn(f, d) == IF is_weekend(d) THEN f[d + 1] ELSE d
           g == [d \in Int |-> IF ~is_weekend(d) THEN d
                               ELSE IF ~is_weekend(d + 1) THEN d + 1 ELSE (d + 1) + 1]
<1>1. ASSUME NEW d \in Int PROVE g[d] = Turn(g, d)
  <2>1. d + 1 \in Int /\ d + 2 = (d + 1) + 1
    BY SMT
  <2>2. ~is_weekend(d) \/ ~is_weekend(d + 1) \/ ~is_weekend((d + 1) + 1)
    BY <2>1, WeekdayComes, Zenon
  <2>3. QED
    BY <2>1, <2>2, Zenon
<1>2. g = [d \in Int |-> g[d]]
  BY SMT
<1> HIDE DEF g
<1>3. g = [d \in Int |-> Turn(g, d)]
  BY <1>1, <1>2, Zenon
<1>4. QED
  BY <1>3, Zenon DEF Weekdays

\* Without holidays it finds the first weekday.
LEMMA NextWeekdayFound ==
    ASSUME NEW now, kst_day_of(now) \in Int
    PROVE  \E d \in Int : /\ FirstOpen(kst_day_of(now) + 1, d, <<>>)
                          /\ alpha_next_trading_session_start(now) = session_start_epoch(d)
<1> DEFINE open == CHOOSE f : Weekdays(f)
<1>1. Weekdays(open)
  BY WeekdaysExists, Zenon
<1>2. alpha_next_trading_session_start(now)
      = session_start_epoch(open[kst_day_of(now) + 1])
  BY Zenon DEF alpha_next_trading_session_start, Weekdays
<1> HIDE DEF open
<1>3. PICK d \in Int : d = kst_day_of(now) + 1
  BY SMT
<1>4. \A x : Shut(x, <<>>) <=> is_weekend(x)
  <2>1. \A x : ~is_holiday(x, <<>>)
    BY SMT DEF is_holiday
  <2>2. QED
    BY <2>1, Zenon DEF Shut
<1>5. \A x \in Int : open[x] = IF is_weekend(x) THEN open[x + 1] ELSE x
  BY <1>1, Zenon DEF Weekdays
<1>6. d + 1 \in Int /\ (d + 1) + 1 \in Int /\ d + 2 = (d + 1) + 1
  BY SMT
<1>7. ~is_weekend(d) \/ ~is_weekend(d + 1) \/ ~is_weekend((d + 1) + 1)
  BY <1>6, WeekdayComes, Zenon
<1>8. CASE ~is_weekend(d)
  <2>1. open[d] = d /\ FirstOpen(d, d, <<>>)
    BY <1>4, <1>5, <1>8, OpenHere, Zenon
  <2>2. QED
    BY <1>2, <1>3, <2>1, Zenon
<1>9. CASE is_weekend(d) /\ ~is_weekend(d + 1)
  <2>1. open[d] = d + 1 /\ FirstOpen(d + 1, d + 1, <<>>)
    BY <1>4, <1>5, <1>6, <1>9, OpenHere, Zenon
  <2>2. FirstOpen(d, d + 1, <<>>)
    BY <1>4, <1>6, <1>9, <2>1, OpenBehind, ZenonT(40)
  <2>3. QED
    BY <1>2, <1>3, <1>6, <2>1, <2>2, ZenonT(40)
<1>10. CASE is_weekend(d) /\ is_weekend(d + 1)
  <2>1. open[d] = (d + 1) + 1 /\ FirstOpen((d + 1) + 1, (d + 1) + 1, <<>>)
    BY <1>4, <1>5, <1>6, <1>7, <1>10, OpenHere, ZenonT(40)
  <2>2. FirstOpen(d + 1, (d + 1) + 1, <<>>)
    BY <1>4, <1>6, <1>10, <2>1, OpenBehind, Zenon
  <2>3. FirstOpen(d, (d + 1) + 1, <<>>)
    BY <1>4, <1>6, <1>10, <2>2, OpenBehind, ZenonT(40)
  <2>4. QED
    BY <1>2, <1>3, <1>6, <2>1, <2>3, Zenon
<1>11. QED
  BY <1>8, <1>9, <1>10, Zenon

-----------------------------------------------------------------------------
\* The walk over the dates.
WalkSpec == WalkInit /\ [][WalkNext]_walk

\* The day is that of the date, and the holidays are ahead of it.
WalkInv ==
    /\ date = <<date[1], date[2], date[3]>> /\ IsCivil(date[1], date[2], date[3])
    /\ day = days_from_civil(date[1], date[2], date[3])
    /\ HolidaysAhead

\* WalkInv is inductive.
LEMMA WalkStarts == WalkInit => WalkInv
<1> SUFFICES ASSUME WalkInit PROVE WalkInv
  OBVIOUS
<1>1. PICK y \in {FirstYear} \union HolidayYears :
          date = <<y, 1, 1>> /\ day = YearStart(y) /\ closed = <<>>
  BY Zenon DEF WalkInit
<1>2. y \in Int
  BY <1>1, YearsAssumption, Zenon
<1>3. IsCivil(y, 1, 1)
  BY <1>2, SMT DEF IsCivil, DaysIn
<1>4. day = days_from_civil(y, 1, 1) /\ day \in Int
  BY <1>1, <1>2, YearStarts, YearStartStep, Zenon DEF StartsRight
<1>5. closed \in Seq(Int) /\ Len(closed) = 0
  BY <1>1, SMT
<1>6. HolidaysAhead
  BY <1>4, <1>5, SMT DEF HolidaysAhead, Ascending
<1>7. date[1] = y /\ date[2] = 1 /\ date[3] = 1
  BY <1>1, SMT
<1>8. QED
  BY <1>1, <1>3, <1>4, <1>6, <1>7, Zenon DEF WalkInv

\* The holidays are a pattern behind the day.
LEMMA PatternsAhead ==
    ASSUME NEW d \in Int, NEW o \in Patterns, NEW list,
           list = [i \in 1 .. Len(o) |-> d + o[i]]
    PROVE  /\ list \in Seq(Int) /\ Ascending(list)
           /\ \A i \in 1 .. Len(list) : d < list[i] /\ list[i] <= d + Window
<1>1. PICK n \in 0 .. Window : o \in [1 .. n -> 1 .. Window]
  BY Zenon DEF Patterns
<1>2. n \in Nat /\ Window \in Nat
  BY <1>1, WindowAssumption, SMTT(30)
<1>3. o \in Seq(1 .. Window) /\ Len(o) = n
  BY <1>1, <1>2, SMT
<1>4. Ascending(o)
  BY ZenonT(40) DEF Patterns
<1>5. list \in Seq(Int) /\ Len(list) = n /\ \A i \in 1 .. n : list[i] = d + o[i]
  BY <1>1, <1>2, <1>3, SMT
<1>6. \A i \in 1 .. n : o[i] \in Int /\ 1 <= o[i] /\ o[i] <= Window
  BY <1>1, <1>2, SMTT(30)
<1>7. Ascending(list)
  <2>1. SUFFICES ASSUME NEW i \in 1 .. n, i > 1 PROVE list[i] > list[i - 1]
    BY <1>5, Zenon DEF Ascending
  <2>2. i - 1 \in 1 .. n
    BY <1>2, <2>1, SMTT(30)
  <2>3. o[i] > o[i - 1]
    BY <1>3, <1>4, <2>1, Zenon DEF Ascending
  <2>4. list[i] = d + o[i] /\ list[i - 1] = d + o[i - 1]
    BY <1>5, <2>1, <2>2, SMT
  <2>5. QED
    BY <1>6, <2>1, <2>2, <2>3, <2>4, SMTT(30)
<1>8. QED
  BY <1>2, <1>5, <1>6, <1>7, SMT

\* No holidays is one of the patterns.
LEMMA NoneIsPattern == <<>> \in Patterns
<1>1. 0 \in 0 .. Window /\ 1 .. 0 = {}
  BY WindowAssumption, SMT
<1>2. <<>> \in [1 .. 0 -> 1 .. Window]
  BY SMT
<1>3. Ascending(<<>>)
  BY SMT DEF Ascending
<1>4. <<>> \in UNION {[1 .. n -> 1 .. Window] : n \in 0 .. Window}
  BY <1>1, <1>2, Zenon
<1>5. QED
  BY <1>3, <1>4, Zenon DEF Patterns

LEMMA WalkSteps == WalkInv /\ [WalkNext]_walk => WalkInv'
<1> SUFFICES ASSUME WalkInv, [WalkNext]_walk PROVE WalkInv'
  OBVIOUS
<1>1. CASE UNCHANGED walk
  BY <1>1, Zenon DEF WalkInv, walk, HolidaysAhead, Ascending
<1>2. CASE WalkNext
  <2>1. PICK y, m, d : date = <<y, m, d>> /\ IsCivil(y, m, d) /\ day = days_from_civil(y, m, d)
                       /\ date[1] = y /\ date[2] = m /\ date[3] = d
    BY Zenon DEF WalkInv
  <2>2. day \in Int /\ day + 1 \in Int /\ day' = day + 1 /\ date' = Tomorrow
    BY <1>2, SMT DEF WalkInv, HolidaysAhead, WalkNext
  <2>3. /\ date'[1] \in Int /\ date' = <<date'[1], date'[2], date'[3]>>
        /\ IsCivil(date'[1], date'[2], date'[3])
        /\ day' = days_from_civil(date'[1], date'[2], date'[3])
    <3>0. /\ d < DaysIn(y, m) =>
                  /\ IsCivil(y, m, d + 1)
                  /\ days_from_civil(y, m, d + 1) = days_from_civil(y, m, d) + 1
          /\ ~(d < DaysIn(y, m)) /\ m < 12 =>
                  /\ IsCivil(y, m + 1, 1)
                  /\ days_from_civil(y, m + 1, 1) = days_from_civil(y, m, d) + 1
          /\ ~(d < DaysIn(y, m)) /\ ~(m < 12) =>
                  /\ IsCivil(y + 1, 1, 1)
                  /\ days_from_civil(y + 1, 1, 1) = days_from_civil(y, m, d) + 1
      BY <2>1, NextDate, SMT
    <3>1. PICK a, b, c : /\ Tomorrow = <<a, b, c>> /\ IsCivil(a, b, c)
                         /\ days_from_civil(a, b, c) = day + 1
      <4>1. CASE d < DaysIn(y, m)
        <5>1. Tomorrow = <<y, m, d + 1>>
          BY <2>1, <4>1, ZenonT(40) DEF Tomorrow
        <5>2. QED
          BY <2>1, <3>0, <4>1, <5>1, Zenon
      <4>2. CASE ~(d < DaysIn(y, m)) /\ m < 12
        <5>1. Tomorrow = <<y, m + 1, 1>>
          BY <2>1, <4>2, ZenonT(40) DEF Tomorrow
        <5>2. QED
          BY <2>1, <3>0, <4>2, <5>1, Zenon
      <4>3. CASE ~(d < DaysIn(y, m)) /\ ~(m < 12)
        <5>1. Tomorrow = <<y + 1, 1, 1>>
          BY <2>1, <4>3, Zenon DEF Tomorrow
        <5>2. QED
          BY <2>1, <3>0, <4>3, <5>1, Zenon
      <4>4. QED
        BY <4>1, <4>2, <4>3, ZenonT(40)
    <3>2. <<a, b, c>>[1] = a /\ <<a, b, c>>[2] = b /\ <<a, b, c>>[3] = c
      OBVIOUS
    <3>3. QED
      BY <2>2, <3>1, <3>2, ZenonT(40) DEF IsCivil
  <2>4. PICK o \in IF date'[1] \in HolidayYears THEN Patterns ELSE {<<>>} :
            closed' = [i \in 1 .. Len(o) |-> day' + o[i]]
    BY <1>2, Zenon DEF WalkNext
  <2>5. o \in Patterns
    BY <2>4, NoneIsPattern, Zenon
  <2>6. HolidaysAhead'
    BY <2>2, <2>4, <2>5, PatternsAhead, Zenon DEF HolidaysAhead, Ascending
  <2>7. QED
    BY <2>3, <2>6, Zenon DEF WalkInv
<1>3. QED
  BY <1>1, <1>2, Zenon

\* The date, the weekday, the Korean day and the session of a day of the walk.
LEMMA WalkIsRight == WalkInv => CalendarIsRight
<1> SUFFICES ASSUME WalkInv PROVE CalendarIsRight
  OBVIOUS
<1>1. DatesAreDayCounts
  BY CivilInverse, Zenon DEF WalkInv, DatesAreDayCounts
<1>2. ASSUME NEW second \in {0, 1, 32400, 86399}, NEW now,
             now = (day * SECONDS_PER_DAY - ALPHA_KST_OFFSET_SECONDS) + second
      PROVE  /\ \A max \in day .. day + Window + 3 :
                   IsNextSession(alpha_next_trading_session_start_holiday_aware(
                                     now, closed, max), max)
             /\ closed = <<>> =>
                   IsNextSession(alpha_next_trading_session_start(now), day + Window + 3)
  <2>1. day \in Int /\ HolidaysAhead /\ Window \in Nat
    BY WindowAssumption, SMT DEF WalkInv, HolidaysAhead
  <2>2. now \in Int /\ Times(86400, day, now + 32400)
    BY <1>2, <2>1, SMTT(30) DEF Times, SECONDS_PER_DAY, ALPHA_KST_OFFSET_SECONDS
  <2>3. kst_day_of(now) = day
    <3>1. PICK d \in Int : kst_day_of(now) = d /\ Times(86400, d, now + 32400)
      BY <2>2, KstDay, SMTT(30)
    <3>2. d = day
      BY <2>1, <2>2, <3>1, SMT DEF Times
    <3>3. QED
      BY <3>1, <3>2, SMT
  <2>4. ASSUME NEW max \in day .. day + Window + 3
        PROVE  IsNextSession(alpha_next_trading_session_start_holiday_aware(
                                 now, closed, max), max)
    <3>1. max \in Int
      BY <2>1, SMT
    <3>2. Found(alpha_next_trading_session_start_holiday_aware(now, closed, max),
                day + 1, closed, max)
      BY <2>1, <2>3, <3>1, NextSessionFound, SMTT(30)
    <3>3. QED
      BY <2>1, <3>1, <3>2, FoundIsNext, SMTT(30)
  <2>5. ASSUME closed = <<>>
        PROVE  IsNextSession(alpha_next_trading_session_start(now), day + Window + 3)
    <3>1. PICK max \in Int : max = day + Window + 3
      BY <2>1, SMTT(30)
    <3>2. PICK d \in Int : /\ FirstOpen(day + 1, d, closed)
                           /\ alpha_next_trading_session_start(now) = session_start_epoch(d)
      BY <2>1, <2>3, <2>5, NextWeekdayFound, SMT
    <3>3. d <= max
      <4>1. PICK t \in TradingDays : t \in Int /\ FirstOpen(day + 1, t, closed)
        BY <2>1, FirstTradingDay, SMT
      <4>2. t = d
        BY <2>1, <3>2, <4>1, OpenIsUnique, SMTT(30)
      <4>3. QED
        BY <2>1, <3>1, <4>1, <4>2, TradingDay, SMTT(30)
    <3>4. Found(alpha_next_trading_session_start(now), day + 1, closed, max)
      BY <3>2, <3>3, SMT DEF Found
    <3>5. QED
      BY <2>1, <3>1, <3>4, FoundIsNext, SMT
  <2>6. QED
    BY <2>4, <2>5, SMTT(30)
<1>3. NextSessionIsFirstTradingDay
  BY <1>2, SMT DEF NextSessionIsFirstTradingDay
<1>4. QED
  BY <1>1, <1>3, Zenon DEF CalendarIsRight

\* On every date the walk reaches from its first year, and for any holidays ahead:
\* the day number is the count of days, the date and the year come back from it,
\* and the next session is 09:00 in Korea on the first later weekday that is no
\* holiday, unless the calendar ends before it (date.c, market_hours.c).
THEOREM CalendarRight == WalkSpec => []CalendarIsRight
<1>1. QED
  BY WalkStarts, WalkSteps, WalkIsRight, PTL DEF WalkSpec
=============================================================================
