----------------------------- MODULE DateProofs -----------------------------
(***************************************************************************)
(* Days are counted in one number from dates of two calendars, and named     *)
(* again (Days): whatever the year, the name of a day is its date.  What the *)
(* comparisons of two dates by their bounds mean (DateBounds), of the days   *)
(* that a date may be: for any bounds in order, strict or fuzzy.  That       *)
(* numbers, names, weekdays and Easter are those of who counts (Almanac),    *)
(* and that what is found on a day, of any documents and characterisations,  *)
(* by their bounds, their keys and their rules (Recurrences), is what who    *)
(* counts finds on it.                                                       *)
(***************************************************************************)
EXTENDS Almanac, FiniteSetTheorems, TLAPS

-----------------------------------------------------------------------------
(* Days *)

\* A year is so many fours of years, and what is left.
LEMMA InFours ==
  ASSUME NEW y \in Int
  PROVE  y = 4 * (y \div 4) + (y % 4) /\ y \div 4 \in Int /\ y % 4 \in 0..3
BY SMT

\* The day of a count of days which begins on the 1 March of the year 0: day k of year y.
YearDays(k, y) == k + 365 * y + y \div 4

\* The year of a day of that count, and the day it is in its year.
YearOf(n) == (4 * n + 3) \div 1461
RestOf(n) == ((4 * n + 3) % 1461) \div 4

\* The same of the Gregorian calendar, for year z of century c, and what from_jdn adds for the
\* days that its centuries have left out.
CenturyDays(k, c, z) == k + 365 * (100 * c + z) + (100 * c + z) \div 4 - c + c \div 4
Correction(n) == ((((4 * n + 4) \div 146097) + 1) * 3) \div 4

\* Quarters of years are whole numbers.
LEMMA QuarterIsInt ==
  \A y \in Int : y \div 4 \in Int
BY SMT

\* from_jdn finds the year of a day, and which of its days it is:
\* the last day, the leap day, is the 366th of the last of four years.
LEMMA YearOfDay ==
  ASSUME NEW y \in Int, NEW k \in 0..365, k <= 364 \/ y % 4 = 3
  PROVE  YearOf(YearDays(k, y)) = y /\ RestOf(YearDays(k, y)) = k
<1> DEFINE q == y \div 4
           r == y % 4
           x == 4 * k + 3 - r
<1>1. y = 4 * q + r /\ q \in Int /\ r \in 0..3 BY InFours
<1>2. r = 3 \/ k <= 364 OBVIOUS
<1> HIDE DEF q, r
<1>3. x \in 0..1460 /\ x \div 4 = k BY <1>1, <1>2
<1>4. 4 * (k + 365 * y + q) + 3 = 1461 * y + x  BY <1>1
<1> HIDE DEF x
<1>5. (1461 * y + x) \div 1461 = y /\ (1461 * y + x) % 1461 = x BY <1>3
<1> QED BY <1>3, <1>4, <1>5 DEF q, YearOf, RestOf, YearDays

\* from_jdn adds one day for each century but each fourth: what to_jdn has left out.
LEMMA CenturyOfDay ==
  ASSUME NEW c \in Int, NEW z \in 0..99, NEW k \in 0..365,
         k <= 364 \/ (z % 4 = 3 /\ (z # 99 \/ c % 4 = 3))
  PROVE  Correction(CenturyDays(k, c, z)) = c - c \div 4
<1> DEFINE q == c \div 4
           r == c % 4
           u == z \div 4
           v == z % 4
           w == k + 365 * z + u
           x == 4 * w + 4 - r
           n == k + 365 * (100 * c + z) + (100 * c + z) \div 4 - c + c \div 4
<1>1. c = 4 * q + r /\ q \in Int /\ r \in 0..3 BY InFours
<1>2. z = 4 * u + v /\ u \in 0..24 /\ v \in 0..3 BY InFours
<1>3. (100 * c + z) \div 4 = 25 * c + u OBVIOUS
<1>4. k <= 364 \/ (v = 3 /\ (z # 99 \/ r = 3)) OBVIOUS
<1> HIDE DEF q, r, u, v
<1>5. w \in Int /\ 0 <= w /\ w <= 36524 /\ (w <= 36523 \/ r = 3)
  <2>1. CASE k <= 364  BY <1>1, <1>2, <2>1
  <2>2. CASE k = 365 /\ v = 3 /\ z # 99
    <3>1. u <= 23 BY <1>2, <2>2
    <3> QED BY <1>1, <1>2, <2>2, <3>1
  <2>3. CASE k = 365 /\ v = 3 /\ z = 99 /\ r = 3 BY <1>1, <1>2, <2>3
  <2> QED BY <1>4, <2>1, <2>2, <2>3
<1>6. n = w + 36524 * c + q BY <1>1, <1>2, <1>3 DEF q
<1> HIDE DEF w, n
<1>7. n \in Int /\ x \in Int /\ 4 * n + 4 = 146097 * c + x BY <1>1, <1>5, <1>6
<1>8. (0 <= x /\ x < 146097) \/ (r = 3 /\ x = 146097) BY <1>1, <1>5
<1> HIDE DEF x
<1>9. CASE 0 <= x /\ x < 146097
  <2>1. (4 * n + 4) \div 146097 = c BY <1>7, <1>9
  <2>2. ((c + 1) * 3) \div 4 = c - q BY <1>1
  <2> QED BY <2>1, <2>2 DEF n, q, Correction, CenturyDays
<1>10. CASE r = 3 /\ x = 146097
  <2>1. (4 * n + 4) \div 146097 = c + 1 BY <1>7, <1>10
  <2>2. ((c + 2) * 3) \div 4 = c - q BY <1>1, <1>10
  <2> QED BY <2>1, <2>2 DEF n, q, Correction, CenturyDays
<1> QED BY <1>8, <1>9, <1>10 DEF Correction, CenturyDays

\* from_jdn finds the month, of months that count from March, and the day in it.
LEMMA MonthOfDay ==
  ASSUME NEW m \in 0..11, NEW d \in 0..30, m \in {1, 3, 6, 8} => d <= 29, m = 11 => d <= 28
  PROVE LET h == 5 * (d + (153 * m + 2) \div 5) + 2 IN h \div 153 = m /\ (h % 153) \div 5 = d
<1>2. CASE m = 0  BY <1>2
<1>3. CASE m = 1  BY <1>3
<1>4. CASE m = 2  BY <1>4
<1>5. CASE m = 3  BY <1>5
<1>6. CASE m = 4  BY <1>6
<1>7. CASE m = 5  BY <1>7
<1>8. CASE m = 6  BY <1>8
<1>9. CASE m = 7  BY <1>9
<1>10. CASE m = 8  BY <1>10
<1>11. CASE m = 9  BY <1>11
<1>12. CASE m = 10  BY <1>12
<1>13. CASE m = 11  BY <1>13
<1> QED BY <1>2, <1>3, <1>4, <1>5, <1>6, <1>7, <1>8, <1>9, <1>10, <1>11, <1>12, <1>13

\* What check_date has found, month by month.
LEMMA DayInMonth ==
  ASSUME NEW cal \in Calendars, NEW year, NEW month, NEW d, IsDate(year, month, d, cal)
  PROVE  /\ year \in Int /\ year >= -4799 /\ month \in 1..12 /\ d \in Int /\ 1 <= d /\ d <= 31
         /\ month \in {4, 6, 9, 11} => d <= 30
         /\ month = 2 => d <= 29 /\ (d = 29 => IsLeapYear(year, cal))
<1>1. year \in Int /\ year >= -4799 /\ month \in 1..12 BY DEF IsDate, MinYear, MaxYear
<1>2. CASE month = 2 /\ IsLeapYear(year, cal) BY <1>1, <1>2 DEF IsDate, MonthLength
<1>3. CASE ~(month = 2 /\ IsLeapYear(year, cal))
  <2>1. d \in 1..(<<31, 28, 31, 30, 31, 30, 31, 31, 30, 31, 30, 31>>[month]) BY <1>3 DEF IsDate, MonthLength
  <2>2. <<31, 28, 31, 30, 31, 30, 31, 31, 30, 31, 30, 31>>[month] =
          CASE month = 2 -> 28 [] month \in {4, 6, 9, 11} -> 30 [] OTHER -> 31
    BY <1>1
  <2> QED BY <1>1, <1>3, <2>1, <2>2
<1> QED BY <1>1, <1>2, <1>3

\* The leap day is the last day of the last of four years, and of a century only of each fourth.
LEMMA LeapIsLast ==
  ASSUME NEW cal \in Calendars, NEW year \in Int, IsLeapYear(year, cal)
  PROVE  LET y == year + 4799 IN
         /\ y % 4 = 3
         /\ cal = "gregorian" /\ y % 100 = 99 => (y \div 100) % 4 = 3
<1>1. year % 4 = 0 /\ (cal = "gregorian" => year % 100 # 0 \/ year % 400 = 0)
  BY DEF IsLeapYear, Calendars
<1>2. (year + 4799) % 4 = 3 BY <1>1
<1>3. ASSUME (year + 4799) % 100 = 99, cal = "gregorian" PROVE ((year + 4799) \div 100) % 4 = 3
  <2>1. year % 100 = 0 BY <1>3
  <2>2. year % 400 = 0 BY <1>1, <1>3, <2>1
  <2>3. year = 400 * (year \div 400) /\ year \div 400 \in Int BY <2>2
  <2>4. (year + 4799) \div 100 = 4 * (year \div 400) + 47 BY <2>3
  <2> QED BY <2>3, <2>4
<1> QED BY <1>2, <1>3

\* to_jdn counts the months from March, so that the leap day comes last in its year.
LEMMA DayOfYear ==
  ASSUME NEW month \in 1..12, NEW d \in Int, 1 <= d, d <= 31,
         month \in {4, 6, 9, 11} => d <= 30, month = 2 => d <= 29
  PROVE  LET a == (14 - month) \div 12
             m == month + 12 * a - 3
             k == d - 1 + (153 * m + 2) \div 5 IN
         /\ a = (IF month <= 2 THEN 1 ELSE 0)
         /\ m \in 0..11
         /\ month = ((m + 2) % 12) + 1
         /\ k \in 0..365
         /\ k <= 364 \/ (month = 2 /\ d = 29)
         /\ (5 * k + 2) \div 153 = m
         /\ ((5 * k + 2) % 153) \div 5 = d - 1
<1> DEFINE a == (14 - month) \div 12
           m == month + 12 * a - 3
           k == d - 1 + (153 * m + 2) \div 5
<1>1. a = (IF month <= 2 THEN 1 ELSE 0) OBVIOUS
<1>2. m \in 0..11 /\ month = ((m + 2) % 12) + 1 BY <1>1
<1>3. m \in {1, 3, 6, 8} => d <= 30 BY <1>1, <1>2
<1>4. m = 11 => month = 2 /\ d <= 29 BY <1>1, <1>2
<1> HIDE DEF a, m
<1>5. (5 * k + 2) \div 153 = m /\ ((5 * k + 2) % 153) \div 5 = d - 1
  <2>1. d - 1 \in 0..30 OBVIOUS
  <2> QED BY <1>2, <1>3, <1>4, <2>1, MonthOfDay
<1>6. k \in 0..365 /\ (k <= 364 \/ (m = 11 /\ d = 29))
  <2>1. (153 * m + 2) \div 5 \in Int /\ 0 <= (153 * m + 2) \div 5 BY <1>2
  <2>2. m <= 10 => (153 * m + 2) \div 5 <= 306 BY <1>2
  <2>3. m = 11 => (153 * m + 2) \div 5 = 337 OBVIOUS
  <2> QED BY <1>2, <1>4, <2>1, <2>2, <2>3
<1> QED BY <1>1, <1>2, <1>4, <1>5, <1>6 DEF a, m

\* Every date that check_date accepts, of either calendar and any year, is read back from its
\* number as it was: no two dates have the same day, and no date is lost at a century or a leap day.
THEOREM DaysHaveNames ==
  ASSUME NEW cal \in Calendars, NEW year, NEW month, NEW d, IsDate(year, month, d, cal)
  PROVE  FromJDN(ToJDN(year, month, d, cal), cal) =
           [year |-> year, month |-> month, day |-> d]
<1> DEFINE a == (14 - month) \div 12
           y == year + 4800 - a
           m == month + 12 * a - 3
           k == d - 1 + (153 * m + 2) \div 5
           jdn == ToJDN(year, month, d, cal)
           c == y \div 100
           f == jdn + 1401
                + (IF cal = "gregorian"
                   THEN (((4 * jdn + 274277) \div 146097) * 3) \div 4 - 38 ELSE 0)
           e == 4 * f + 3
<1>1. /\ year \in Int /\ year >= -4799 /\ month \in 1..12 /\ d \in Int /\ 1 <= d /\ d <= 31
      /\ month \in {4, 6, 9, 11} => d <= 30
      /\ month = 2 => d <= 29 /\ (d = 29 => IsLeapYear(year, cal))
  BY DayInMonth
<1>2. /\ a = (IF month <= 2 THEN 1 ELSE 0) /\ m \in 0..11 /\ month = ((m + 2) % 12) + 1
      /\ k \in 0..365 /\ (k <= 364 \/ (month = 2 /\ d = 29))
      /\ (5 * k + 2) \div 153 = m /\ ((5 * k + 2) % 153) \div 5 = d - 1
  BY <1>1, DayOfYear
<1>3. y \in Int /\ y = year + 4800 - (IF month <= 2 THEN 1 ELSE 0) BY <1>1, <1>2
<1>4. k <= 364 \/ (/\ y % 4 = 3
                   /\ cal = "gregorian" /\ y % 100 = 99 => c % 4 = 3)
  <2>1. CASE month = 2 /\ d = 29
    <3>1. y = year + 4799 BY <1>1, <1>3, <2>1
    <3> HIDE DEF y
    <3> QED BY <1>1, <2>1, <3>1, LeapIsLast
  <2> QED BY <1>2, <2>1
<1>5. jdn = k + 1 + 365 * y + y \div 4 - (IF cal = "julian" THEN 32083 ELSE y \div 100 - y \div 400 + 32045)
  BY <1>1, <1>2, <1>3 DEF ToJDN
<1> HIDE DEF a, m, k, y, jdn
<1>6. f = k + 365 * (y - 84) + (y - 84) \div 4
  <2>1. (y - 84) \div 4 = y \div 4 - 21 BY <1>3
  <2>2. CASE cal = "julian"
    BY <1>2, <1>3, <1>5, <2>1, <2>2
  <2>3. CASE cal = "gregorian"
    <3> DEFINE z == y % 100
               n == k + 365 * y + y \div 4 - c + c \div 4
    <3>1. c \in Int /\ z \in 0..99 /\ y = 100 * c + z /\ y \div 400 = c \div 4 /\ y % 4 = z % 4
      BY <1>3
    <3>2. jdn = n - 32044 /\ n \in Int
      <4>1. jdn = k + 1 + 365 * y + y \div 4 - (c - y \div 400 + 32045) BY <1>5, <2>3
      <4>2. jdn = k + 1 + 365 * y + y \div 4 - (c - c \div 4 + 32045) BY <3>1, <4>1
      <4> HIDE DEF c
      <4>3. y \in Int /\ c \in Int BY <1>3, <3>1
      <4>6. y \div 4 \in Int /\ c \div 4 \in Int BY <4>3, QuarterIsInt, Zenon
      <4> DEFINE q == y \div 4
                 r == c \div 4
      <4>4. jdn = k + 1 + 365 * y + q - (c - r + 32045) /\ n = k + 365 * y + q - c + r BY <4>2
      <4>5. q \in Int /\ r \in Int /\ c \in Int /\ k \in Int /\ y \in Int BY <1>2, <1>3, <3>1, <4>6
      <4> HIDE DEF q, r, n, c
      <4> QED BY <4>4, <4>5
    <3>3. k <= 364 \/ (z % 4 = 3 /\ (z # 99 \/ c % 4 = 3)) BY <1>4, <2>3, <3>1
    <3>4. ((((4 * n + 4) \div 146097) + 1) * 3) \div 4 = c - c \div 4
      <4> HIDE DEF c, z
      <4>1. n = k + 365 * (100 * c + z) + (100 * c + z) \div 4 - c + c \div 4 BY <3>1
      <4> HIDE DEF n
      <4>2. c \in Int /\ z \in 0..99 /\ k \in 0..365 /\ (k <= 364 \/ (z % 4 = 3 /\ (z # 99 \/ c % 4 = 3)))
        BY <1>2, <3>1, <3>3
      <4>3. Correction(CenturyDays(k, c, z)) = c - c \div 4 BY <4>2, CenturyOfDay, Zenon
      <4>4. n = CenturyDays(k, c, z) BY <4>1 DEF CenturyDays
      <4>5. Correction(n) = c - c \div 4 BY <4>3, <4>4
      <4> QED BY <4>5 DEF Correction
    <3> HIDE DEF c, z
    <3>5. (4 * jdn + 274277) \div 146097 = ((4 * n + 4) \div 146097) + 1
      <4>1. 4 * jdn + 274277 = (4 * n + 4) + 146097 BY <3>2
      <4> HIDE DEF n
      <4> QED BY <3>2, <4>1
    <3>6. f = jdn + 1401 + (c - c \div 4) - 38 BY <2>3, <3>4, <3>5
    <3>7. y \div 4 \in Int /\ c \div 4 \in Int
      <4>1. y \in Int /\ c \in Int BY <1>3, <3>1
      <4> HIDE DEF c
      <4> QED BY <4>1, QuarterIsInt, Zenon
    <3> DEFINE q == y \div 4
               r == c \div 4
    <3>8. /\ q \in Int /\ r \in Int /\ c \in Int /\ k \in Int /\ y \in Int
          /\ n = k + 365 * y + q - c + r /\ f = jdn + 1401 + (c - r) - 38
          /\ jdn = n - 32044 /\ (y - 84) \div 4 = q - 21
      <4>1. q \in Int /\ r \in Int BY <3>7
      <4>2. c \in Int /\ k \in Int /\ y \in Int BY <1>2, <1>3, <3>1
      <4>3. n = k + 365 * y + q - c + r OBVIOUS
      <4>4. f = jdn + 1401 + (c - r) - 38 BY <3>6
      <4>5. (y - 84) \div 4 = q - 21 BY <2>1
      <4> QED BY <3>2, <4>1, <4>2, <4>3, <4>4, <4>5
    <3> HIDE DEF q, r, n, f
    <3> QED BY <3>8
  <2> QED BY <2>2, <2>3 DEF Calendars
<1> HIDE DEF f
<1>7. e \div 1461 = y - 84 /\ (e % 1461) \div 4 = k
  <2>1. y - 84 \in Int /\ (k <= 364 \/ (y - 84) % 4 = 3) BY <1>3, <1>4
  <2>2. e = 4 * (k + 365 * (y - 84) + (y - 84) \div 4) + 3 BY <1>6
  <2> DEFINE yy == y - 84
             n == k + 365 * yy + yy \div 4
  <2>3. /\ yy \in Int /\ (k <= 364 \/ yy % 4 = 3) /\ k \in 0..365
        /\ n = YearDays(k, yy) /\ e = 4 * n + 3 BY <1>2, <2>1, <2>2 DEF YearDays
  <2> HIDE DEF yy, e, n
  <2>4. YearOf(YearDays(k, yy)) = yy /\ RestOf(YearDays(k, yy)) = k BY <2>3, YearOfDay
  <2>5. YearOf(n) = yy /\ RestOf(n) = k BY <2>3, <2>4
  <2>6. e \div 1461 = yy /\ (e % 1461) \div 4 = k BY <2>3, <2>5 DEF YearOf, RestOf
  <2> QED BY <2>6 DEF yy
<1>8. FromJDN(jdn, cal) =
        LET g == (e % 1461) \div 4
            h == 5 * g + 2
            mo == ((h \div 153 + 2) % 12) + 1 IN
        [year |-> e \div 1461 - 4716 + (14 - mo) \div 12, month |-> mo, day |-> (h % 153) \div 5 + 1]
  BY DEF FromJDN, f
<1> HIDE DEF e
<1>9. FromJDN(jdn, cal) = [year |-> y - 84 - 4716 + (14 - month) \div 12, month |-> month, day |-> d - 1 + 1]
  BY <1>2, <1>7, <1>8
<1>10. y - 84 - 4716 + (14 - month) \div 12 = year /\ d - 1 + 1 = d BY <1>1, <1>2, <1>3 DEF a
<1> QED BY <1>9, <1>10 DEF jdn

-----------------------------------------------------------------------------
(* Bounds *)

AllBounds ==
  {b \in [earliest_fuzzy : Int, earliest_strict : Int, latest_strict : Int, latest_fuzzy : Int] : InOrder(b)}

\* The days that a date may be.
DaysOfBounds(b, strict) == {d \in Int : Earliest(b, strict) <= d /\ d <= Latest(b, strict)}

\* The first and the last day that a date may be are in order, and days that it may be.
LEMMA FirstAndLast ==
  ASSUME NEW b \in AllBounds, NEW strict \in BOOLEAN
  PROVE  /\ Earliest(b, strict) \in Int /\ Latest(b, strict) \in Int
         /\ Earliest(b, strict) <= Latest(b, strict)
         /\ Earliest(b, strict) \in DaysOfBounds(b, strict)
         /\ Latest(b, strict) \in DaysOfBounds(b, strict)
<1>1. /\ Earliest(b, strict) \in Int /\ Latest(b, strict) \in Int
      /\ Earliest(b, strict) <= Latest(b, strict)
  BY DEF AllBounds, InOrder, Earliest, Latest
<1>2. QED  BY <1>1 DEF DaysOfBounds

\* A range that is not refused (its end is not before its start) has its bounds in order,
\* and may be any day that is between what its start and its end may be.
THEOREM SpanInOrder ==
  ASSUME NEW a \in AllBounds, NEW b \in AllBounds, MaySpan(a, b)
  PROVE  /\ SpanningBounds(a, b) \in AllBounds
         /\ \A strict \in BOOLEAN : \A d \in Int :
              Earliest(a, strict) <= d /\ d <= Latest(b, strict) <=> d \in DaysOfBounds(SpanningBounds(a, b), strict)
<1>1. SpanningBounds(a, b) \in AllBounds
  BY DEF AllBounds, InOrder, MaySpan, SpanningBounds, Bounds
<1>2. ASSUME NEW strict \in BOOLEAN
      PROVE  /\ Earliest(SpanningBounds(a, b), strict) = Earliest(a, strict)
             /\ Latest(SpanningBounds(a, b), strict) = Latest(b, strict)
  BY DEF AllBounds, SpanningBounds, Bounds, Earliest, Latest
<1>3. QED  BY <1>1, <1>2 DEF DaysOfBounds

\* What must be so of a date strictly may be so: what it may be strictly it may be in doubt.
THEOREM StrictIsFuzzy ==
  ASSUME NEW b \in AllBounds
  PROVE  DaysOfBounds(b, TRUE) \subseteq DaysOfBounds(b, FALSE)
<1>1. /\ b.earliest_fuzzy \in Int /\ b.earliest_strict \in Int
      /\ b.latest_strict \in Int /\ b.latest_fuzzy \in Int
      /\ b.earliest_fuzzy <= b.earliest_strict /\ b.latest_strict <= b.latest_fuzzy
  BY DEF AllBounds, InOrder
<1>2. QED  BY <1>1 DEF DaysOfBounds, Earliest, Latest

\* A date is sorted by a day that it may be, whichever is chosen.
THEOREM SortedByItsDay ==
  ASSUME NEW b \in AllBounds,
         NEW by \in {"midpoint", "midpoint_fuzzy", "earliest_strict", "latest_strict",
                     "earliest_fuzzy", "latest_fuzzy"}
  PROVE  SortDay(b, by) \in DaysOfBounds(b, FALSE)
<1>1. /\ b.earliest_fuzzy \in Int /\ b.earliest_strict \in Int
      /\ b.latest_strict \in Int /\ b.latest_fuzzy \in Int /\ InOrder(b)
  BY DEF AllBounds
<1>2. ASSUME NEW x \in Int, NEW y \in Int, x <= y
      PROVE  (x + y) \div 2 \in Int /\ x <= (x + y) \div 2 /\ (x + y) \div 2 <= y
  BY <1>2
<1>3. b.earliest_strict <= b.latest_strict /\ b.earliest_fuzzy <= b.latest_fuzzy
  BY <1>1 DEF InOrder
<1>4. CASE by = "midpoint"
  BY <1>1, <1>2, <1>3, <1>4 DEF SortDay, DaysOfBounds, Earliest, Latest, InOrder
<1>5. CASE by = "midpoint_fuzzy"
  BY <1>1, <1>2, <1>3, <1>5 DEF SortDay, DaysOfBounds, Earliest, Latest, InOrder
<1>6. CASE by \notin {"midpoint", "midpoint_fuzzy"}
  BY <1>1, <1>6 DEF SortDay, DaysOfBounds, Earliest, Latest, InOrder
<1>7. QED  BY <1>4, <1>5, <1>6

\* Two dates overlap just if there is a day that both may be.
THEOREM OverlapIsACommonDay ==
  ASSUME NEW a \in AllBounds, NEW b \in AllBounds, NEW strict \in BOOLEAN
  PROVE  Overlaps(a, b, strict) <=> DaysOfBounds(a, strict) \cap DaysOfBounds(b, strict) # {}
<1> DEFINE first == IF Earliest(a, strict) <= Earliest(b, strict) THEN Earliest(b, strict) ELSE Earliest(a, strict)
<1>1. ASSUME Overlaps(a, b, strict)
      PROVE  first \in DaysOfBounds(a, strict) \cap DaysOfBounds(b, strict)
  BY <1>1, FirstAndLast DEF Overlaps, DaysOfBounds
<1>2. ASSUME NEW d \in DaysOfBounds(a, strict) \cap DaysOfBounds(b, strict)
      PROVE  Overlaps(a, b, strict)
  <2>1. /\ Earliest(a, strict) \in Int /\ Latest(a, strict) \in Int
        /\ Earliest(b, strict) \in Int /\ Latest(b, strict) \in Int
    BY FirstAndLast
  <2>2. QED  BY <2>1 DEF Overlaps, DaysOfBounds
<1>3. QED  BY <1>1, <1>2

\* One is before another just if it is, whatever day each is.
THEOREM BeforeIsWhateverTheDays ==
  ASSUME NEW a \in AllBounds, NEW b \in AllBounds, NEW strict \in BOOLEAN
  PROVE  Before(a, b, strict) <=>
           \A d \in DaysOfBounds(a, strict), e \in DaysOfBounds(b, strict) : d < e
<1>1. /\ Earliest(a, strict) \in Int /\ Latest(a, strict) \in Int
      /\ Earliest(b, strict) \in Int /\ Latest(b, strict) \in Int
      /\ Latest(a, strict) \in DaysOfBounds(a, strict) /\ Earliest(b, strict) \in DaysOfBounds(b, strict)
  BY FirstAndLast
<1>2. ASSUME Before(a, b, strict),
             NEW d \in DaysOfBounds(a, strict), NEW e \in DaysOfBounds(b, strict)
      PROVE  d < e
  BY <1>1, <1>2 DEF Before, DaysOfBounds
<1>3. ASSUME \A d \in DaysOfBounds(a, strict), e \in DaysOfBounds(b, strict) : d < e
      PROVE  Before(a, b, strict)
  BY <1>1, <1>3 DEF Before
<1>4. QED  BY <1>2, <1>3

\* One is during another just if all the days that it may be are days the other may be.
THEOREM DuringIsAllDays ==
  ASSUME NEW a \in AllBounds, NEW b \in AllBounds, NEW strict \in BOOLEAN
  PROVE  During(a, b, strict) <=> DaysOfBounds(a, strict) \subseteq DaysOfBounds(b, strict)
<1>1. /\ Earliest(a, strict) \in Int /\ Latest(a, strict) \in Int
      /\ Earliest(b, strict) \in Int /\ Latest(b, strict) \in Int
      /\ Earliest(a, strict) \in DaysOfBounds(a, strict) /\ Latest(a, strict) \in DaysOfBounds(a, strict)
  BY FirstAndLast
<1>2. ASSUME During(a, b, strict), NEW d \in DaysOfBounds(a, strict)
      PROVE  d \in DaysOfBounds(b, strict)
  BY <1>1, <1>2 DEF During, DaysOfBounds
<1>3. ASSUME DaysOfBounds(a, strict) \subseteq DaysOfBounds(b, strict)
      PROVE  During(a, b, strict)
  <2>1. Earliest(a, strict) \in DaysOfBounds(b, strict) /\ Latest(a, strict) \in DaysOfBounds(b, strict)
    BY <1>1, <1>3
  <2>2. QED  BY <2>1 DEF During, DaysOfBounds
<1>4. QED  BY <1>2, <1>3

\* One is within so many days of another just if some two days that they may be are.
THEOREM WithinIsNearDays ==
  ASSUME NEW a \in AllBounds, NEW b \in AllBounds, NEW strict \in BOOLEAN, NEW n \in Nat
  PROVE  Within(a, b, n, strict) <=>
           \E d \in DaysOfBounds(a, strict), e \in DaysOfBounds(b, strict) : d - e <= n /\ e - d <= n
<1>1. /\ Earliest(a, strict) \in Int /\ Latest(a, strict) \in Int
      /\ Earliest(b, strict) \in Int /\ Latest(b, strict) \in Int
      /\ Earliest(a, strict) \in DaysOfBounds(a, strict) /\ Latest(a, strict) \in DaysOfBounds(a, strict)
      /\ Earliest(b, strict) \in DaysOfBounds(b, strict) /\ Latest(b, strict) \in DaysOfBounds(b, strict)
  BY FirstAndLast
<1>2. ASSUME NEW d \in DaysOfBounds(a, strict), NEW e \in DaysOfBounds(b, strict), d - e <= n, e - d <= n
      PROVE  Within(a, b, n, strict)
  BY <1>1, <1>2 DEF Within, DaysOfBounds
<1>3. ASSUME Within(a, b, n, strict)
      PROVE  \E d \in DaysOfBounds(a, strict), e \in DaysOfBounds(b, strict) : d - e <= n /\ e - d <= n
  <2>1. CASE Before(a, b, strict)
    <3>1. Latest(a, strict) - Earliest(b, strict) <= n /\ Earliest(b, strict) - Latest(a, strict) <= n
      BY <1>1, <1>3, <2>1 DEF Within, Before
    <3>2. QED  BY <1>1, <3>1
  <2>2. CASE Before(b, a, strict)
    <3>1. Earliest(a, strict) - Latest(b, strict) <= n /\ Latest(b, strict) - Earliest(a, strict) <= n
      BY <1>1, <1>3, <2>2 DEF Within, Before
    <3>2. QED  BY <1>1, <3>1
  <2>3. CASE ~Before(a, b, strict) /\ ~Before(b, a, strict)
    <3>1. Overlaps(a, b, strict)
      BY <1>1, <2>3 DEF Before, Overlaps
    <3>2. PICK d \in DaysOfBounds(a, strict) : d \in DaysOfBounds(b, strict)
      BY <3>1, OverlapIsACommonDay
    <3>3. d \in Int /\ d - d <= n
      BY DEF DaysOfBounds
    <3>4. QED  BY <3>2, <3>3
  <2>4. QED  BY <2>1, <2>2, <2>3
<1>4. QED  BY <1>2, <1>3

-----------------------------------------------------------------------------
(* Someone who counts (Almanac) *)

\* to_jdn's count of the days of the years before 1 March of a year (y: with 4800 added).
YearsCounted(y, cal) ==
  365 * y + y \div 4 - (IF cal = "julian" THEN 32083 ELSE y \div 100 - y \div 400 + 32045)
LastMarch(year, cal) == YearsCounted(year + 4799, cal)
ThisMarch(year, cal) == YearsCounted(year + 4800, cal)

LeapDay(year, cal) == IF IsLeapYear(year, cal) THEN 1 ELSE 0

\* The days of a year before each month, in a common year.
Passed == <<0, 31, 59, 90, 120, 151, 181, 212, 243, 273, 304, 334>>

\* What the calendars divide a year by.
LEMMA WholeQuotients ==
  ASSUME NEW y \in Int
  PROVE  y \div 4 \in Int /\ y \div 100 \in Int /\ y \div 400 \in Int
BY SMT

\* A year on is 365 days on, and the leap day of the calendar.
LEMMA AYearOn ==
  ASSUME NEW cal \in Calendars, NEW year \in Int
  PROVE  /\ LastMarch(year, cal) \in Int /\ LeapDay(year, cal) \in {0, 1}
         /\ ThisMarch(year, cal) = LastMarch(year, cal) + 365 + LeapDay(year, cal)
<1> DEFINE y == year + 4799
<1>1. (y + 1) \div 4 = y \div 4 + (IF year % 4 = 0 THEN 1 ELSE 0)  OBVIOUS
<1>2. (y + 1) \div 100 = y \div 100 + (IF year % 100 = 0 THEN 1 ELSE 0)  OBVIOUS
<1>3. (y + 1) \div 400 = y \div 400 + (IF year % 400 = 0 THEN 1 ELSE 0)  OBVIOUS
<1>4. y \in Int /\ y \div 4 \in Int /\ y \div 100 \in Int /\ y \div 400 \in Int  BY WholeQuotients
<1>5. year % 400 = 0 => year % 100 = 0 /\ year % 4 = 0  OBVIOUS
<1>6. year % 100 = 0 => year % 4 = 0  OBVIOUS
<1>7. y + 1 = year + 4800  OBVIOUS
<1> HIDE DEF y
<1> DEFINE p == y \div 4
           q == y \div 100
           r == y \div 400
<1>8. /\ YearsCounted(y, cal) = 365 * y + p - (IF cal = "julian" THEN 32083 ELSE q - r + 32045)
      /\ YearsCounted(y + 1, cal) =
           365 * (y + 1) + (p + (IF year % 4 = 0 THEN 1 ELSE 0))
           - (IF cal = "julian" THEN 32083
              ELSE (q + (IF year % 100 = 0 THEN 1 ELSE 0)) - (r + (IF year % 400 = 0 THEN 1 ELSE 0)) + 32045)
  BY <1>1, <1>2, <1>3 DEF YearsCounted
<1> HIDE DEF p, q, r
<1>9. p \in Int /\ q \in Int /\ r \in Int  BY <1>4 DEF p, q, r
<1>10. LeapDay(year, cal) =
         (IF year % 4 = 0 THEN 1 ELSE 0)
         - (IF cal = "julian" THEN 0
            ELSE (IF year % 100 = 0 THEN 1 ELSE 0) - (IF year % 400 = 0 THEN 1 ELSE 0))
  BY <1>5, <1>6 DEF LeapDay, IsLeapYear
<1>11. /\ YearsCounted(y, cal) \in Int
       /\ YearsCounted(y + 1, cal) = YearsCounted(y, cal) + 365 + LeapDay(year, cal)
  BY <1>4, <1>8, <1>9, <1>10 DEF Calendars
<1>12. QED  BY <1>7, <1>11 DEF y, LastMarch, ThisMarch, LeapDay

\* to_jdn, of a month that so many days come before, counted from March.
LEMMA DaysCounted ==
  ASSUME NEW cal \in Calendars, NEW year \in Int, NEW month \in 1..12, NEW d \in Int
  PROVE  ToJDN(year, month, d, cal) =
           d + (IF month > 2 THEN Passed[month] - 59 ELSE Passed[month] + 306)
             + (IF month > 2 THEN ThisMarch(year, cal) ELSE LastMarch(year, cal))
<1> DEFINE a == (14 - month) \div 12
           m == month + 12 * a - 3
           y == year + 4800 - a
           w == (153 * m + 2) \div 5
           p == y \div 4
           q == y \div 100
           r == y \div 400
<1>1. a = (IF month > 2 THEN 0 ELSE 1)  OBVIOUS
<1>2. w = (IF month > 2 THEN Passed[month] - 59 ELSE Passed[month] + 306) /\ w \in Int
  <2>1. Passed[month] =
          CASE month = 1 -> 0 [] month = 2 -> 31 [] month = 3 -> 59 [] month = 4 -> 90
            [] month = 5 -> 120 [] month = 6 -> 151 [] month = 7 -> 181 [] month = 8 -> 212
            [] month = 9 -> 243 [] month = 10 -> 273 [] month = 11 -> 304 [] month = 12 -> 334
    BY DEF Passed
  <2>2. QED  BY <1>1, <2>1
<1>3. y = (IF month > 2 THEN year + 4800 ELSE year + 4799) /\ y \in Int  BY <1>1
<1>4. ToJDN(year, month, d, cal) =
        IF cal = "julian" THEN d + w + 365 * y + p - 32083 ELSE d + w + 365 * y + p - q + r - 32045
  BY DEF ToJDN
<1>5. YearsCounted(y, cal) = 365 * y + p - (IF cal = "julian" THEN 32083 ELSE q - r + 32045)
  BY DEF YearsCounted
<1> HIDE DEF a, m, y, w, p, q, r
<1>6. p \in Int /\ q \in Int /\ r \in Int  BY <1>3, WholeQuotients DEF p, q, r
<1>7. ToJDN(year, month, d, cal) = d + w + YearsCounted(y, cal)  BY <1>2, <1>3, <1>4, <1>5, <1>6
<1>8. QED  BY <1>2, <1>3, <1>7 DEF LastMarch, ThisMarch

\* New Year is the 307th day from 1 March.
LEMMA NewYearNumber ==
  ASSUME NEW cal \in Calendars, NEW year \in Int
  PROVE  ToJDN(year, 1, 1, cal) = 307 + LastMarch(year, cal)
<1>1. Passed[1] = 0  BY DEF Passed
<1>2. LastMarch(year, cal) \in Int  BY AYearOn
<1> PICK month \in 1..12 : month = 1  OBVIOUS
<1>3. ToJDN(year, month, month, cal) =
        month + (IF month > 2 THEN Passed[month] - 59 ELSE Passed[month] + 306)
              + (IF month > 2 THEN ThisMarch(year, cal) ELSE LastMarch(year, cal))
  <2> PICK d \in Int : d = month  OBVIOUS
  <2>1. ToJDN(year, month, d, cal) =
          d + (IF month > 2 THEN Passed[month] - 59 ELSE Passed[month] + 306)
            + (IF month > 2 THEN ThisMarch(year, cal) ELSE LastMarch(year, cal))
    BY DaysCounted
  <2>2. QED  BY <2>1
<1>4. QED  BY <1>1, <1>2, <1>3

\* The number of a day is that of New Year, and the days that have passed.
LEMMA DaysPassed ==
  ASSUME NEW cal \in Calendars, NEW year \in Int, NEW month \in 1..12, NEW d \in Int
  PROVE  /\ ToJDN(year, 1, 1, cal) \in Int
         /\ ToJDN(year, month, d, cal) =
              ToJDN(year, 1, 1, cal) + Passed[month] + d - 1 + (IF month > 2 THEN LeapDay(year, cal) ELSE 0)
<1>1. ToJDN(year, 1, 1, cal) = 307 + LastMarch(year, cal)  BY NewYearNumber
<1>2. LastMarch(year, cal) \in Int /\ LeapDay(year, cal) \in {0, 1}  BY AYearOn
<1>3. Passed[month] \in Int  BY DEF Passed
<1>4. ToJDN(year, month, d, cal) =
        d + (IF month > 2 THEN Passed[month] - 59 ELSE Passed[month] + 306)
          + (IF month > 2 THEN ThisMarch(year, cal) ELSE LastMarch(year, cal))
  BY DaysCounted
<1>5. ThisMarch(year, cal) = LastMarch(year, cal) + 365 + LeapDay(year, cal)  BY AYearOn
<1>6. QED  BY <1>1, <1>2, <1>3, <1>4, <1>5

\* The next New Year is a year on.
LEMMA NewYearOn ==
  ASSUME NEW cal \in Calendars, NEW year \in Int
  PROVE  ToJDN(year + 1, 1, 1, cal) = ToJDN(year, 1, 1, cal) + 365 + LeapDay(year, cal)
<1> PICK next \in Int : next = year + 1  OBVIOUS
<1>1. /\ ToJDN(year, 1, 1, cal) = 307 + LastMarch(year, cal)
      /\ ToJDN(next, 1, 1, cal) = 307 + LastMarch(next, cal)
  BY NewYearNumber
<1>2. next + 4799 = year + 4800  OBVIOUS
<1>3. LastMarch(next, cal) = ThisMarch(year, cal)  BY <1>2 DEF LastMarch, ThisMarch
<1>4. /\ LeapDay(year, cal) \in {0, 1} /\ LastMarch(year, cal) \in Int
      /\ ThisMarch(year, cal) = LastMarch(year, cal) + 365 + LeapDay(year, cal)
  BY AYearOn
<1>5. ToJDN(next, 1, 1, cal) = ToJDN(year, 1, 1, cal) + 365 + LeapDay(year, cal)
  BY <1>1, <1>3, <1>4
<1>6. QED  BY <1>5

\* Weekdays go on by one a day.
LEMMA WeekdaysGoOn ==
  ASSUME NEW n \in Int, NEW k \in Int
  PROVE  Weekday(n) \in 0..6 /\ Weekday(n + k) = (Weekday(n) + k) % 7
<1>1. (n + k + 1) % 7 = (((n + 1) % 7) + k) % 7  OBVIOUS
<1>2. QED  BY <1>1 DEF Weekday

-----------------------------------------------------------------------------
(* Easter *)

\* What remains of 30 is the same when so many are put on.
LEMMA OfThirty == ASSUME NEW x \in Int, NEW k \in Int PROVE (x + 30 * k) % 30 = x % 30
OBVIOUS

\* The days of March and April.
LEMMA Spring ==
  ASSUME NEW cal \in Calendars, NEW year \in Int, NEW d \in Int
  PROVE  /\ ToJDN(year, 3, d, cal) = d + ThisMarch(year, cal)
         /\ ToJDN(year, 4, d, cal) = d + 31 + ThisMarch(year, cal)
         /\ ThisMarch(year, cal) \in Int
<1>1. Passed[3] = 59 /\ Passed[4] = 90  BY DEF Passed
<1>2. 3 \in 1..12 /\ 4 \in 1..12 /\ 3 > 2 /\ 4 > 2  OBVIOUS
<1>3. ToJDN(year, 3, d, cal) =
        d + (IF 3 > 2 THEN Passed[3] - 59 ELSE Passed[3] + 306)
          + (IF 3 > 2 THEN ThisMarch(year, cal) ELSE LastMarch(year, cal))
  BY <1>2, DaysCounted, Zenon
<1>4. ToJDN(year, 4, d, cal) =
        d + (IF 4 > 2 THEN Passed[4] - 59 ELSE Passed[4] + 306)
          + (IF 4 > 2 THEN ThisMarch(year, cal) ELSE LastMarch(year, cal))
  BY <1>2, DaysCounted, Zenon
<1>5. ThisMarch(year, cal) \in Int  BY AYearOn
<1>6. QED  BY <1>1, <1>3, <1>4, <1>5

\* The month and the day of Easter as the code has them: so many days after 21 March.
LEMMA AfterMarch ==
  ASSUME NEW cal \in Calendars, NEW year \in Int, NEW n \in 114..154
  PROVE  ToJDN(year, n \div 31, (n % 31) + 1, cal) = n - 92 + ThisMarch(year, cal)
<1>1. CASE n < 124
  <2>1. n \div 31 = 3 /\ n % 31 = n - 93  BY <1>1
  <2> PICK d \in Int : d = (n % 31) + 1  BY <2>1
  <2>2. ToJDN(year, 3, d, cal) = d + ThisMarch(year, cal) /\ ThisMarch(year, cal) \in Int  BY Spring
  <2>3. QED  BY <2>1, <2>2
<1>2. CASE n >= 124
  <2>1. n \div 31 = 4 /\ n % 31 = n - 124  BY <1>2
  <2> PICK d \in Int : d = (n % 31) + 1  BY <2>1
  <2>2. ToJDN(year, 4, d, cal) = d + 31 + ThisMarch(year, cal) /\ ThisMarch(year, cal) \in Int  BY Spring
  <2>3. QED  BY <2>1, <2>2
<1>3. QED  BY <1>1, <1>2

\* The number of 21 March.
LEMMA TwentyFirst ==
  ASSUME NEW cal \in Calendars, NEW year \in Int
  PROVE  /\ ToJDN(year, 3, 21, cal) \in Int
         /\ ToJDN(year, 3, 21, cal) = 21 + ThisMarch(year, cal)
         /\ ToJDN(year, 3, 21, cal) = ToJDN(year, 1, 1, cal) + 79 + LeapDay(year, cal)
<1>1. /\ ToJDN(year, 1, 1, cal) = 307 + LastMarch(year, cal)
      /\ LastMarch(year, cal) \in Int /\ LeapDay(year, cal) \in {0, 1}
      /\ ThisMarch(year, cal) = LastMarch(year, cal) + 365 + LeapDay(year, cal)
  BY NewYearNumber, AYearOn
<1>2. 21 \in Int  OBVIOUS
<1>3. ToJDN(year, 3, 21, cal) = 21 + ThisMarch(year, cal)  BY <1>2, Spring, Zenon
<1>4. QED  BY <1>1, <1>3

\* In the Julian calendar: the Sunday after the moon of the table.
LEMMA JulianIsSunday ==
  ASSUME NEW year \in Int
  PROVE  LET moon == ToJDN(year, 3, 21, "julian") + JulianMoon(year) IN
         /\ JulianMoon(year) \in 0..28
         /\ JulianEaster(year) \in moon + 1 .. moon + 7
         /\ Weekday(JulianEaster(year)) = 0
<1> DEFINE a == year % 19
           d == (19 * a + 15) % 30
           x == 2 * (year % 4) + 4 * (year % 7) - d + 34
           e == x % 7
           M == ToJDN(year, 3, 21, "julian")
<1>1. d = JulianMoon(year) /\ d \in 0..28
  <2>1. a \in 0..18  OBVIOUS
  <2>2. JulianMoon(year) =
          <<15, 4, 23, 12, 1, 20, 9, 28, 17, 6, 25, 14, 3, 22, 11, 0, 19, 8, 27>>[a + 1]
    BY DEF JulianMoon
  <2> HIDE DEF a
  <2>3. <<15, 4, 23, 12, 1, 20, 9, 28, 17, 6, 25, 14, 3, 22, 11, 0, 19, 8, 27>>[a + 1] =
          CASE a = 0 -> 15 [] a = 1 -> 4 [] a = 2 -> 23 [] a = 3 -> 12 [] a = 4 -> 1
            [] a = 5 -> 20 [] a = 6 -> 9 [] a = 7 -> 28 [] a = 8 -> 17 [] a = 9 -> 6
            [] a = 10 -> 25 [] a = 11 -> 14 [] a = 12 -> 3 [] a = 13 -> 22 [] a = 14 -> 11
            [] a = 15 -> 0 [] a = 16 -> 19 [] a = 17 -> 8 [] a = 18 -> 27
    BY <2>1
  <2>4. QED  BY <2>1, <2>2, <2>3
<1>2. e \in 0..6  OBVIOUS
<1>3. M \in Int /\ M = 21 + ThisMarch(year, "julian") /\ ThisMarch(year, "julian") \in Int
  <2>1. "julian" \in Calendars  BY DEF Calendars
  <2>2. M \in Int /\ M = 21 + ThisMarch(year, "julian")  BY <2>1, TwentyFirst, Zenon
  <2>3. ThisMarch(year, "julian") \in Int  BY <2>1, Spring
  <2>4. QED  BY <2>2, <2>3
<1>4. JulianEaster(year) = M + (d + e + 1)
  <2> DEFINE n == d + e + 114
  <2>1. JulianEaster(year) = ToJDN(year, n \div 31, (n % 31) + 1, "julian")  BY DEF JulianEaster
  <2> HIDE DEF d, e, M
  <2>2. n \in 114..154 /\ n - 92 = 21 + (d + e + 1)  BY <1>1, <1>2
  <2> HIDE DEF n
  <2>3. "julian" \in Calendars  BY DEF Calendars
  <2>4. JulianEaster(year) = n - 92 + ThisMarch(year, "julian")  BY <2>1, <2>2, <2>3, AfterMarch
  <2>5. QED  BY <1>1, <1>2, <1>3, <2>2, <2>4
<1>5. (M + d + e + 2) % 7 = 0
  <2> DEFINE q == year \div 4
             r == year % 4
             s == year \div 7
             t == year % 7
             u == x \div 7
  <2>1. year = 4 * q + r /\ q \in Int /\ r \in 0..3  BY InFours
  <2>2. year = 7 * s + t /\ s \in Int /\ t \in 0..6  OBVIOUS
  <2>3. x \in Int /\ x = 7 * u + e /\ u \in Int
    <3>1. x \in Int  BY <1>1, <2>1, <2>2
    <3> HIDE DEF x
    <3>2. QED  BY <3>1
  <2>4. M = 21 + 365 * (year + 4800) + (q + 1200) - 32083
    <3>1. (year + 4800) \div 4 = q + 1200  OBVIOUS
    <3>2. ThisMarch(year, "julian") = 365 * (year + 4800) + (year + 4800) \div 4 - 32083
      BY DEF ThisMarch, YearsCounted
    <3>3. QED  BY <1>3, <2>1, <3>1, <3>2
  <2>5. x = 2 * r + 4 * t - d + 34  OBVIOUS
  <2> HIDE DEF q, r, s, t, u, x, e, d, M
  <2>6. M + d + e + 2 = 7 * (211 * q + 53 * r - 4 * s - u + 245882)
    <3>1. d \in Int /\ e \in Int  BY <1>1, <1>2
    <3>2. d + e = 2 * r + 4 * t + 34 - 7 * u  BY <2>1, <2>2, <2>3, <2>5, <3>1
    <3>3. t = 4 * q + r - 7 * s  BY <2>1, <2>2
    <3>4. M = 21 + 365 * (4 * q + r + 4800) + (q + 1200) - 32083  BY <2>1, <2>4
    <3>5. QED  BY <2>1, <2>2, <2>3, <3>1, <3>2, <3>3, <3>4
  <2>7. QED  BY <2>1, <2>2, <2>3, <2>6
<1> HIDE DEF a, d, x, e, M
<1>6. JulianEaster(year) + 1 = M + d + e + 2 /\ M + d + e + 2 \in Int  BY <1>1, <1>2, <1>3, <1>4
<1>7. Weekday(JulianEaster(year)) = 0  BY <1>5, <1>6 DEF Weekday
<1>8. /\ JulianMoon(year) \in 0..28
      /\ JulianEaster(year) \in M + JulianMoon(year) + 1 .. M + JulianMoon(year) + 7
  BY <1>1, <1>2, <1>3, <1>4
<1>9. QED  BY <1>7, <1>8 DEF M

\* The two ways of counting what the moon gains in 25 centuries, and what the calendar leaves out.
LEMMA Centuries ==
  ASSUME NEW b \in Int
  PROVE  /\ (8 * (b + 1) + 5) \div 25 = (b - (b + 8) \div 25 + 1) \div 3
         /\ (3 * (b + 1)) \div 4 = b - b \div 4
<1>1. (3 * (b + 1)) \div 4 = b - b \div 4
  <2> DEFINE q == b \div 4
             r == b % 4
  <2>1. b = 4 * q + r /\ q \in Int /\ r \in 0..3  BY InFours
  <2> HIDE DEF r
  <2>2. QED  BY <2>1
<1>2. (8 * (b + 1) + 5) \div 25 = (b - (b + 8) \div 25 + 1) \div 3
  <2> DEFINE u == b \div 25
             v == b % 25
  <2>1. b = 25 * u + v /\ u \in Int /\ v \in 0..24  OBVIOUS
  <2> HIDE DEF u, v
  <2>2. (8 * v + 13) \div 25 = (v - (v + 8) \div 25 + 1) \div 3
    <3>1. CASE v <= 16
      <4>1. (v + 8) \div 25 = 0  BY <2>1, <3>1
      <4>2. (8 * v + 13) \div 25 = (v + 1) \div 3  BY <2>1, <3>1
      <4>3. QED  BY <2>1, <4>1, <4>2
    <3>2. CASE v > 16
      <4>1. (v + 8) \div 25 = 1  BY <2>1, <3>2
      <4>2. (8 * v + 13) \div 25 = v \div 3  BY <2>1, <3>2
      <4>3. QED  BY <2>1, <4>1, <4>2
    <3>3. QED  BY <2>1, <3>1, <3>2
  <2>3. (b + 8) \div 25 = u + (v + 8) \div 25  BY <2>1
  <2> DEFINE w == (v + 8) \div 25
  <2>4. w \in Int  BY <2>1
  <2> HIDE DEF w
  <2>5. (b - (u + w) + 1) \div 3 = 8 * u + (v - w + 1) \div 3  BY <2>1, <2>4
  <2>6. (8 * (b + 1) + 5) \div 25 = 8 * u + (8 * v + 13) \div 25  BY <2>1
  <2>7. QED  BY <2>2, <2>3, <2>5, <2>6 DEF w
<1>3. QED  BY <1>1, <1>2

\* The moon of the epact is that of the code, but for the two epacts that are put off by a day.
LEMMA MoonOfEpact ==
  ASSUME NEW year \in Int
  PROVE  LET a == year % 19
             b == year \div 100
             g == (b - (b + 8) \div 25 + 1) \div 3
             h == (19 * a + b - b \div 4 - g + 15) % 30 IN
         /\ h \in 0..29
         /\ GregorianMoon(year) = IF h = 29 \/ (h = 28 /\ a > 10) THEN h - 1 ELSE h
<1> DEFINE a == year % 19
           b == year \div 100
           g == (b - (b + 8) \div 25 + 1) \div 3
           q == b \div 4
           H == 19 * a + b - q - g + 15
           h == H % 30
           E == 11 * (a + 1) + 20 + g - 5 - (b - q - 12)
           epact == E % 30
<1>1. a \in 0..18 /\ b \in Int  BY SMT
<1>2. g \in Int /\ q \in Int
  <2> HIDE DEF a, b
  <2>1. (b + 8) \div 25 \in Int /\ q \in Int  BY <1>1
  <2> DEFINE w == (b + 8) \div 25
  <2> HIDE DEF w
  <2>2. (b - w + 1) \div 3 \in Int  BY <1>1, <2>1 DEF w
  <2>3. QED  BY <2>1, <2>2 DEF w
<1>3. GregorianMoon(year) =
        LET age == IF (epact = 25 /\ a + 1 > 11) \/ epact = 24 THEN epact + 1 ELSE epact IN
        IF 44 - age < 21 THEN 44 - age + 30 - 21 ELSE 44 - age - 21
  <2>1. /\ (8 * (b + 1) + 5) \div 25 = g
        /\ (3 * (b + 1)) \div 4 = b - q
    BY <1>1, Centuries
  <2>2. QED  BY <2>1 DEF GregorianMoon
<1> HIDE DEF a, b, g, q
<1>4. H = 53 - E + 30 * a /\ E \in Int /\ H \in Int  BY <1>1, <1>2
<1> HIDE DEF E, H
<1>5. /\ epact \in 0..29
      /\ h = IF epact <= 23 THEN 23 - epact ELSE 53 - epact
  <2> DEFINE k == E \div 30
  <2>1. E = 30 * k + epact /\ k \in Int /\ epact \in 0..29  BY <1>4
  <2> HIDE DEF k, epact
  <2>2. H = (53 - epact) + 30 * (a - k)  BY <1>1, <1>4, <2>1
  <2>3. h = (53 - epact) % 30
    <3>1. 53 - epact \in Int /\ a - k \in Int  BY <1>1, <2>1
    <3>2. QED  BY <2>2, <3>1, OfThirty
  <2>4. QED  BY <2>1, <2>3
<1> HIDE DEF h, epact
<1>6. /\ h \in 0..29
      /\ GregorianMoon(year) = IF h = 29 \/ (h = 28 /\ a > 10) THEN h - 1 ELSE h
  BY <1>1, <1>3, <1>5
<1>7. QED  BY <1>6 DEF a, b, g, q, h, H

\* In the Gregorian calendar: the Sunday after the moon of the epact.
LEMMA GregorianIsSunday ==
  ASSUME NEW year \in Int
  PROVE  LET moon == ToJDN(year, 3, 21, "gregorian") + GregorianMoon(year) IN
         /\ GregorianMoon(year) \in 0..28
         /\ GregorianEaster(year) \in moon + 1 .. moon + 7
         /\ Weekday(GregorianEaster(year)) = 0
<1> DEFINE a == year % 19
           b == year \div 100
           c == year % 100
           g == (b - (b + 8) \div 25 + 1) \div 3
           h == (19 * a + b - b \div 4 - g + 15) % 30
           q == b \div 4
           r == b % 4
           i == c \div 4
           k == c % 4
           x == 32 + 2 * r + 2 * i - h - k
           l == x % 7
           m == (a + 11 * h + 22 * l) \div 451
           M == ToJDN(year, 3, 21, "gregorian")
<1>1. /\ h \in 0..29
      /\ GregorianMoon(year) = IF h = 29 \/ (h = 28 /\ a > 10) THEN h - 1 ELSE h
  BY MoonOfEpact
<1>2. GregorianEaster(year) = ToJDN(year, (h + l - 7 * m + 114) \div 31, ((h + l - 7 * m + 114) % 31) + 1, "gregorian")
  BY DEF GregorianEaster
<1>3. a \in 0..18 /\ b \in Int /\ c \in 0..99 /\ year = 100 * b + c  BY SMT
<1>4. /\ (year + 4800) \div 4 = 25 * b + i + 1200
      /\ (year + 4800) \div 100 = b + 48
      /\ (year + 4800) \div 400 = q + 12
  <2> HIDE DEF b, c
  <2>1. (year + 4800) \div 4 = 25 * b + i + 1200  BY <1>3
  <2>2. (year + 4800) \div 100 = b + 48  BY <1>3
  <2>3. (year + 4800) \div 400 = q + 12
    <3>1. b = 4 * q + r /\ q \in Int /\ r \in 0..3  BY <1>3, InFours
    <3> HIDE DEF q, r
    <3>2. year + 4800 = 400 * (q + 12) + (100 * r + c) /\ 100 * r + c \in 0..399  BY <1>3, <3>1
    <3>3. QED  BY <3>1, <3>2
  <2>4. QED  BY <2>1, <2>2, <2>3
<1> HIDE DEF a, b, c, g, h
<1>5. b = 4 * q + r /\ q \in Int /\ r \in 0..3 /\ c = 4 * i + k /\ i \in 0..24 /\ k \in 0..3
  BY <1>3, InFours
<1> HIDE DEF q, r, i, k
<1>6. x \in Int /\ l \in 0..6 /\ x = 7 * (x \div 7) + l /\ x \div 7 \in Int
  <2>1. x \in Int  BY <1>1, <1>5
  <2> HIDE DEF x
  <2>2. QED  BY <2>1
<1>7. M \in Int /\ M = 21 + ThisMarch(year, "gregorian") /\ ThisMarch(year, "gregorian") \in Int
  <2>1. "gregorian" \in Calendars  BY DEF Calendars
  <2>2. M \in Int /\ M = 21 + ThisMarch(year, "gregorian")  BY <2>1, TwentyFirst, Zenon
  <2>3. ThisMarch(year, "gregorian") \in Int  BY <2>1, Spring
  <2>4. QED  BY <2>2, <2>3
<1>8. ThisMarch(year, "gregorian") =
        365 * (year + 4800) + (25 * b + i + 1200) - ((b + 48) - (q + 12) + 32045)
  BY <1>4 DEF ThisMarch, YearsCounted
<1> DEFINE u == x \div 7
<1>9. u \in Int /\ x = 7 * u + l /\ x = 32 + 2 * r + 2 * i - h - k  BY <1>6
<1> HIDE DEF u, x, l, M
<1>10. m = IF l = 6 /\ (h = 29 \/ (h = 28 /\ a > 10)) THEN 1 ELSE 0
  <2>1. CASE l <= 5
    <3>1. a + 11 * h + 22 * l \in 0..450  BY <1>1, <1>3, <1>6, <2>1
    <3>2. QED  BY <2>1, <3>1
  <2>2. CASE l = 6
    <3>1. CASE h = 29 \/ (h = 28 /\ a > 10)
      <4>1. a + 11 * h + 22 * l \in 451..901  BY <1>1, <1>3, <2>2, <3>1
      <4>2. QED  BY <2>2, <3>1, <4>1
    <3>2. CASE ~(h = 29 \/ (h = 28 /\ a > 10))
      <4>1. a + 11 * h + 22 * l \in 0..450  BY <1>1, <1>3, <2>2, <3>2
      <4>2. QED  BY <3>2, <4>1
    <3>3. QED  BY <3>1, <3>2
  <2>3. QED  BY <1>6, <2>1, <2>2
<1> HIDE DEF m
<1>11. GregorianEaster(year) = M + (h + l - 7 * m + 1)
  <2>1. h + l - 7 * m + 114 \in 114..154  BY <1>1, <1>6, <1>10
  <2> DEFINE n == h + l - 7 * m + 114
  <2>2. GregorianEaster(year) = ToJDN(year, n \div 31, (n % 31) + 1, "gregorian")  BY <1>2
  <2> HIDE DEF n
  <2>3. "gregorian" \in Calendars /\ n \in 114..154  BY <2>1 DEF n, Calendars
  <2>4. GregorianEaster(year) = n - 92 + ThisMarch(year, "gregorian")  BY <2>2, <2>3, AfterMarch
  <2>5. n - 92 = 21 + (h + l - 7 * m + 1)  BY <1>1, <1>6, <1>10 DEF n
  <2>6. QED  BY <1>1, <1>6, <1>7, <1>10, <2>3, <2>4, <2>5
<1>12. Weekday(GregorianEaster(year)) = 0
  <2>1. GregorianEaster(year) + 1 = 7 * (20871 * q + 5218 * r + 209 * i + 52 * k - u - m + 245882)
    BY <1>1, <1>3, <1>5, <1>6, <1>7, <1>8, <1>9, <1>10, <1>11
  <2>2. 20871 * q + 5218 * r + 209 * i + 52 * k - u - m + 245882 \in Int  BY <1>5, <1>9, <1>10
  <2>3. QED  BY <2>1, <2>2 DEF Weekday
<1>13. /\ GregorianMoon(year) \in 0..28
       /\ GregorianEaster(year) \in M + GregorianMoon(year) + 1 .. M + GregorianMoon(year) + 7
  BY <1>1, <1>6, <1>7, <1>10, <1>11
<1>14. QED  BY <1>12, <1>13 DEF M

-----------------------------------------------------------------------------
(* The count *)

\* The person's leap years and lengths of months are the code's.
LEMMA LeapYears ==
  ASSUME calendar \in Calendars, NEW year \in MinYear..MaxYear
  PROVE  /\ Leap(year) <=> IsLeapYear(year, calendar)
         /\ DaysIn(year) = 365 + LeapDay(year, calendar)
<1> DEFINE centuries == {100 * c : c \in -48..99}
<1>1. year \in Int /\ year >= -4799 /\ year <= 9999  BY DEF MinYear, MaxYear
<1>2. year \in centuries <=> year % 100 = 0
  <2>1. ASSUME year \in centuries PROVE year % 100 = 0  BY <2>1
  <2>2. ASSUME year % 100 = 0 PROVE year \in centuries
    <3>1. year = 100 * (year \div 100) /\ year \div 100 \in -48..99  BY <1>1, <2>2
    <3>2. QED  BY <3>1
  <2>3. QED  BY <2>1, <2>2
<1>3. year % 100 = 0 => ((year \div 100) % 4 = 0 <=> year % 400 = 0)
  <2> DEFINE q == year \div 100
  <2>1. ASSUME year % 100 = 0 PROVE year = 100 * q /\ q \in Int  BY <1>1, <2>1
  <2> HIDE DEF q
  <2>2. ASSUME year % 100 = 0 PROVE q % 4 = 0 <=> year % 400 = 0  BY <2>1, <2>2
  <2>3. QED  BY <2>2 DEF q
<1>4. Leap(year) <=> year % 4 = 0 /\ (calendar = "gregorian" /\ year \in centuries => (year \div 100) % 4 = 0)
  BY DEF Leap
<1> HIDE DEF centuries
<1>5. Leap(year) <=> IsLeapYear(year, calendar)  BY <1>2, <1>3, <1>4 DEF IsLeapYear, Calendars
<1>6. QED  BY <1>5 DEF DaysIn, LeapDay

\* The days of the person's months are those of the code's table.
LEMMA MonthsAreCounted ==
  ASSUME calendar \in Calendars, NEW d, d.year \in MinYear..MaxYear, d.month \in 1..12
  PROVE  /\ DaysOf(d) = MonthLength(d.year, d.month, calendar)
         /\ DaysOf(d) \in 28..31
         /\ d.month < 12 => DaysOf(d) = Passed[d.month + 1] - Passed[d.month]
                                        + (IF d.month = 2 THEN LeapDay(d.year, calendar) ELSE 0)
         /\ d.month = 12 => DaysOf(d) = 31
<1>1. Leap(d.year) <=> IsLeapYear(d.year, calendar)  BY LeapYears
<1>2. DaysOf(d) = CASE d.month \in {4, 6, 9, 11} -> 30
                    [] d.month = 2 -> 28 + LeapDay(d.year, calendar)
                    [] OTHER -> 31
  BY <1>1 DEF DaysOf, LeapDay
<1>3. MonthLength(d.year, d.month, calendar) =
        CASE d.month \in {4, 6, 9, 11} -> 30
          [] d.month = 2 -> 28 + LeapDay(d.year, calendar)
          [] OTHER -> 31
  <2>1. <<31, 28, 31, 30, 31, 30, 31, 31, 30, 31, 30, 31>>[d.month] =
          CASE d.month = 2 -> 28 [] d.month \in {4, 6, 9, 11} -> 30 [] OTHER -> 31
    OBVIOUS
  <2>2. QED  BY <2>1 DEF MonthLength, LeapDay
<1>4. LeapDay(d.year, calendar) \in {0, 1}  BY DEF LeapDay
<1>5. d.month < 12 => Passed[d.month + 1] - Passed[d.month] =
                        CASE d.month \in {4, 6, 9, 11} -> 30 [] d.month = 2 -> 28 [] OTHER -> 31
  BY DEF Passed
<1>6. DaysOf(d) = MonthLength(d.year, d.month, calendar)  BY <1>2, <1>3
<1>7. DaysOf(d) \in 28..31  BY <1>2, <1>4
<1>8. QED  BY <1>2, <1>4, <1>5, <1>6, <1>7

\* 1 January is a date of every year.
LEMMA NewYearIsDate ==
  ASSUME NEW cal \in Calendars, NEW year \in MinYear..MaxYear
  PROVE  IsDate(year, 1, 1, cal)
BY DEF IsDate, MonthLength

\* What is known from the first is so.
LEMMA InitCounted == Init => Counted
<1> SUFFICES ASSUME NEW k \in Known, calendar = k.calendar, day = k.day, weekday = k.weekday,
                    date = [year |-> k.year, month |-> 1, day |-> 1]
             PROVE  Counted
  BY DEF Init
<1>1. /\ k.calendar \in Calendars /\ k.year \in MinYear..MaxYear
      /\ k.day = ToJDN(k.year, 1, 1, k.calendar) /\ k.weekday = Weekday(k.day)
  BY AlmanacAssumption
<1>2. QED  BY <1>1, NewYearIsDate DEF Counted

\* The years that the code allows, one after the other.
LEMMA YearsAllowed ==
  ASSUME NEW y
  PROVE  /\ y \in MinYear..MaxYear => y \in Int
         /\ y \in MinYear..(MaxYear - 1) => y + 1 \in MinYear..MaxYear
         /\ y \in MinYear..MaxYear /\ y < MaxYear => y + 1 \in MinYear..MaxYear
         /\ y \in MinYear..MaxYear /\ y > MinYear => y - 1 \in MinYear..MaxYear
<1>1. MinYear \in Int /\ MaxYear \in Int  BY DEF MinYear, MaxYear
<1>2. QED  BY <1>1

\* The parts of a date, and the number of its day, are numbers.
LEMMA DateParts ==
  ASSUME Counted
  PROVE  /\ date.year \in MinYear..MaxYear /\ date.month \in 1..12 /\ date.day \in 1..31
         /\ date.year \in Int /\ date.day \in Int
         /\ date = [year |-> date.year, month |-> date.month, day |-> date.day]
         /\ calendar \in Calendars
<1>1. date \in [year : MinYear..MaxYear, month : 1..12, day : 1..31] /\ calendar \in Calendars
  BY DEF Counted
<1>2. date.year \in MinYear..MaxYear /\ date.month \in 1..12 /\ date.day \in 1..31  BY <1>1
<1>3. date.year \in Int /\ date.day \in Int  BY <1>2, YearsAllowed
<1>4. QED  BY <1>1, <1>2, <1>3

\* The person's number and weekday are numbers.
LEMMA DayIsInt ==
  ASSUME Counted
  PROVE  /\ day = ToJDN(date.year, date.month, date.day, calendar) /\ weekday = Weekday(day)
         /\ day \in Int /\ weekday \in 0..6
<1>1. day = ToJDN(date.year, date.month, date.day, calendar) /\ weekday = Weekday(day)  BY DEF Counted
<1>2. PICK cal \in Calendars, y \in Int, m \in 1..12, d \in Int :
        calendar = cal /\ date.year = y /\ date.month = m /\ date.day = d
  BY DateParts
<1>3. ToJDN(y, m, d, cal) \in Int
  <2>1. /\ ToJDN(y, 1, 1, cal) \in Int
        /\ ToJDN(y, m, d, cal) =
             ToJDN(y, 1, 1, cal) + Passed[m] + d - 1 + (IF m > 2 THEN LeapDay(y, cal) ELSE 0)
    BY DaysPassed
  <2>2. Passed[m] \in Int /\ LeapDay(y, cal) \in Int  BY DEF Passed, LeapDay
  <2>3. QED  BY <2>1, <2>2
<1>4. day \in Int  BY <1>1, <1>2, <1>3
<1>5. QED  BY <1>1, <1>4, WeekdaysGoOn

\* A day on is counted.
LEMMA TomorrowCounted ==
  ASSUME Counted, Tomorrow
  PROVE  Counted'
<1>1. /\ calendar \in Calendars /\ date.year \in Int /\ date.month \in 1..12 /\ date.day \in 1..31
      /\ date \in [year : MinYear..MaxYear, month : 1..12, day : 1..31]
      /\ IsDate(date.year, date.month, date.day, calendar)
      /\ day = ToJDN(date.year, date.month, date.day, calendar) /\ weekday = Weekday(day)
      /\ date.year \in MinYear..MaxYear
  BY DateParts DEF Counted
<1> DEFINE y == date.year
<1>2. /\ date' = IF date.day < DaysOf(date) THEN [date EXCEPT !.day = @ + 1]
                 ELSE IF date.month < 12 THEN [date EXCEPT !.day = 1, !.month = @ + 1]
                 ELSE [year |-> date.year + 1, month |-> 1, day |-> 1]
      /\ day' = day + 1 /\ weekday' = (weekday + 1) % 7 /\ calendar' = calendar
  BY DEF Tomorrow
<1>3. day \in Int /\ weekday' = Weekday(day')  BY <1>1, <1>2, DayIsInt, WeekdaysGoOn
<1>4. /\ DaysOf(date) = MonthLength(date.year, date.month, calendar)
      /\ DaysOf(date) \in 28..31
      /\ date.month < 12 => DaysOf(date) = Passed[date.month + 1] - Passed[date.month]
                                           + (IF date.month = 2 THEN LeapDay(date.year, calendar) ELSE 0)
      /\ date.month = 12 => DaysOf(date) = 31
  BY <1>1, MonthsAreCounted
<1> DEFINE J == ToJDN(y, 1, 1, calendar)
           L == LeapDay(y, calendar)
<1>5. J \in Int /\ L \in {0, 1}  BY <1>1, DaysPassed DEF LeapDay
<1>6. \A month \in 1..12, d \in Int :
        ToJDN(y, month, d, calendar) = J + Passed[month] + d - 1 + (IF month > 2 THEN L ELSE 0)
  BY <1>1, DaysPassed
<1>7. Passed[date.month] \in Int /\ (date.month < 12 => Passed[date.month + 1] \in Int)  BY <1>1 DEF Passed
<1>8. date.day \in 1..DaysOf(date)  BY <1>1, <1>4 DEF IsDate
<1>9. SUFFICES /\ date' \in [year : MinYear..MaxYear, month : 1..12, day : 1..31]
               /\ IsDate(date'.year, date'.month, date'.day, calendar)
               /\ day + 1 = ToJDN(date'.year, date'.month, date'.day, calendar)
  BY <1>1, <1>2, <1>3 DEF Counted
<1>10. CASE date.day < DaysOf(date)
  <2>1. /\ date' = [date EXCEPT !.day = @ + 1]
        /\ date'.year = y /\ date'.month = date.month /\ date'.day = date.day + 1
    BY <1>1, <1>2, <1>10
  <2>2. date.day + 1 \in 1..DaysOf(date) /\ date.day + 1 \in 1..31  BY <1>4, <1>8, <1>10
  <2>3. IsDate(y, date.month, date.day + 1, calendar)  BY <1>1, <1>4, <2>2 DEF IsDate
  <2>4. ToJDN(y, date.month, date.day + 1, calendar) = ToJDN(y, date.month, date.day, calendar) + 1
    <3>1. date.day \in Int /\ date.day + 1 \in Int /\ date.month \in 1..12  BY <1>1
    <3> HIDE DEF J, L
    <3>2. QED  BY <1>5, <1>6, <1>7, <3>1
  <2>5. QED  BY <1>1, <2>1, <2>2, <2>3, <2>4
<1>11. CASE ~(date.day < DaysOf(date)) /\ date.month < 12
  <2>1. date' = [year |-> y, month |-> date.month + 1, day |-> 1]
    <3>1. date' = [date EXCEPT !.day = 1, !.month = @ + 1]  BY <1>2, <1>11
    <3>2. date = [year |-> y, month |-> date.month, day |-> date.day]  BY DateParts
    <3>3. QED  BY <3>1, <3>2
  <2>2. date.day = DaysOf(date)  BY <1>4, <1>8, <1>11
  <2>3. date.month + 1 \in 1..12  BY <1>1, <1>11
  <2>4. IsDate(y, date.month + 1, 1, calendar)
    <3>1. <<31, 28, 31, 30, 31, 30, 31, 31, 30, 31, 30, 31>>[date.month + 1] \in 28..31  BY <2>3
    <3>2. MonthLength(y, date.month + 1, calendar) \in 28..31  BY <3>1 DEF MonthLength
    <3>3. QED  BY <1>1, <2>3, <3>2 DEF IsDate
  <2>5. ToJDN(y, date.month + 1, 1, calendar) = ToJDN(y, date.month, date.day, calendar) + 1
    <3> HIDE DEF J, L
    <3>1. ToJDN(y, date.month + 1, 1, calendar) =
            J + Passed[date.month + 1] + 1 - 1 + (IF date.month + 1 > 2 THEN L ELSE 0)
      BY <1>6, <2>3
    <3>2. ToJDN(y, date.month, date.day, calendar) =
            J + Passed[date.month] + date.day - 1 + (IF date.month > 2 THEN L ELSE 0)
      BY <1>1, <1>6
    <3>3. DaysOf(date) = Passed[date.month + 1] - Passed[date.month] + (IF date.month = 2 THEN L ELSE 0)
      BY <1>4, <1>11 DEF L
    <3>4. QED  BY <1>1, <1>5, <1>7, <1>11, <2>2, <3>1, <3>2, <3>3
  <2>6. date' \in [year : MinYear..MaxYear, month : 1..12, day : 1..31]  BY <1>1, <2>1, <2>3
  <2>7. QED  BY <1>1, <2>1, <2>4, <2>5, <2>6
<1>12. CASE ~(date.day < DaysOf(date)) /\ ~(date.month < 12)
  <2>1. /\ date' = [year |-> y + 1, month |-> 1, day |-> 1]
        /\ date'.year = y + 1 /\ date'.month = 1 /\ date'.day = 1
    BY <1>2, <1>12
  <2>2. date.month = 12 /\ date.day = 31  BY <1>1, <1>4, <1>8, <1>12
  <2>3. y + 1 \in MinYear..MaxYear
    <3>1. y \in MinYear..(MaxYear - 1)  BY AlmanacAssumption DEF Tomorrow
    <3>2. QED  BY <3>1, YearsAllowed
  <2>4. ToJDN(y + 1, 1, 1, calendar) = J + 365 + L  BY <1>1, NewYearOn
  <2>5. ToJDN(y, 12, 31, calendar) = J + 334 + 31 - 1 + L
    <3>1. Passed[12] = 334  BY DEF Passed
    <3> HIDE DEF J, L
    <3>2. QED  BY <1>6, <3>1
  <2>6. day + 1 = ToJDN(y + 1, 1, 1, calendar)
    <3> HIDE DEF J, L
    <3>1. QED  BY <1>1, <1>5, <2>2, <2>4, <2>5 DEF y
  <2>7. QED  BY <1>1, <2>1, <2>3, <2>6, NewYearIsDate
<1>13. QED  BY <1>10, <1>11, <1>12

\* By years, on and back.
LEMMA YearsCount ==
  ASSUME Counted, NextYear \/ LastYear
  PROVE  Counted'
<1> DEFINE y == date.year
<1>1. /\ calendar \in Calendars /\ y \in Int /\ y \in MinYear..MaxYear
      /\ date \in [year : MinYear..MaxYear, month : 1..12, day : 1..31]
      /\ day = ToJDN(y, date.month, date.day, calendar) /\ weekday = Weekday(day)
      /\ day \in Int
  BY DateParts, DayIsInt DEF Counted
<1>2. date.month = 1 /\ date.day = 1 /\ calendar' = calendar
  BY DEF NextYear, LastYear, NewYear
<1>3. CASE NextYear
  <2>1. /\ y + 1 \in MinYear..MaxYear
        /\ date' = [date EXCEPT !.year = @ + 1]
        /\ day' = day + DaysIn(y) /\ weekday' = (weekday + DaysIn(y)) % 7
    <3>1. y < MaxYear /\ y \in MinYear..MaxYear  BY <1>1, <1>3 DEF NextYear
    <3>2. y + 1 \in MinYear..MaxYear  BY <3>1, YearsAllowed
    <3>3. QED  BY <1>3, <3>2 DEF NextYear
  <2>2. DaysIn(y) = 365 + LeapDay(y, calendar) /\ DaysIn(y) \in Int  BY <1>1, LeapYears DEF LeapDay
  <2>3. day' = ToJDN(y + 1, 1, 1, calendar)
    <3>1. ToJDN(y + 1, 1, 1, calendar) = ToJDN(y, 1, 1, calendar) + 365 + LeapDay(y, calendar)
      BY <1>1, NewYearOn
    <3>2. LeapDay(y, calendar) \in Int  BY DEF LeapDay
    <3>3. QED  BY <1>1, <1>2, <2>1, <2>2, <3>1, <3>2
  <2>4. weekday' = Weekday(day')  BY <1>1, <2>1, <2>2, WeekdaysGoOn
  <2>5. date' = [year |-> y + 1, month |-> 1, day |-> 1]  BY <1>1, <1>2, <2>1
  <2>6. QED  BY <1>1, <1>2, <2>1, <2>3, <2>4, <2>5, NewYearIsDate DEF Counted
<1>4. CASE LastYear
  <2>1. /\ y - 1 \in MinYear..MaxYear
        /\ date' = [date EXCEPT !.year = @ - 1]
        /\ day' = day - DaysIn(y - 1) /\ weekday' = (weekday - DaysIn(y - 1)) % 7
    <3>1. y > MinYear /\ y \in MinYear..MaxYear  BY <1>1, <1>4 DEF LastYear
    <3>2. y - 1 \in MinYear..MaxYear  BY <3>1, YearsAllowed
    <3>3. QED  BY <1>4, <3>2 DEF LastYear
  <2>2. DaysIn(y - 1) = 365 + LeapDay(y - 1, calendar) /\ DaysIn(y - 1) \in Int
    BY <1>1, <2>1, LeapYears DEF LeapDay
  <2>3. day' = ToJDN(y - 1, 1, 1, calendar)
    <3>1. PICK cal \in Calendars, z \in Int : calendar = cal /\ y - 1 = z  BY <1>1
    <3>2. ToJDN(z + 1, 1, 1, cal) = ToJDN(z, 1, 1, cal) + 365 + LeapDay(z, cal)  BY NewYearOn
    <3>3. ToJDN(z, 1, 1, cal) = 307 + LastMarch(z, cal)  BY NewYearNumber
    <3>4. LastMarch(z, cal) \in Int /\ LeapDay(z, cal) \in {0, 1}  BY AYearOn
    <3>5. z + 1 = y  BY <1>1, <3>1
    <3>6. ToJDN(y, 1, 1, cal) = ToJDN(z, 1, 1, cal) + 365 + LeapDay(z, cal)  BY <3>2, <3>5
    <3>7. day = ToJDN(y, 1, 1, cal) /\ day' = day - (365 + LeapDay(z, cal))
      BY <1>1, <1>2, <2>1, <2>2, <3>1
    <3>8. QED  BY <3>1, <3>3, <3>4, <3>6, <3>7
  <2>4. weekday' = Weekday(day')
    <3>1. -DaysIn(y - 1) \in Int  BY <2>2
    <3>2. Weekday(day + (-DaysIn(y - 1))) = (weekday + (-DaysIn(y - 1))) % 7
      BY <1>1, <3>1, WeekdaysGoOn
    <3>3. weekday \in Int  BY DayIsInt
    <3>4. day + (-DaysIn(y - 1)) = day - DaysIn(y - 1) /\ weekday + (-DaysIn(y - 1)) = weekday - DaysIn(y - 1)
      BY <1>1, <2>2, <3>3
    <3>5. QED  BY <2>1, <3>2, <3>4
  <2>5. date' = [year |-> y - 1, month |-> 1, day |-> 1]  BY <1>1, <1>2, <2>1
  <2>6. QED  BY <1>1, <1>2, <2>1, <2>3, <2>4, <2>5, NewYearIsDate DEF Counted
<1>5. QED  BY <1>3, <1>4

\* Each step is counted.
LEMMA NextCounted == Counted /\ [Next]_vars => Counted'
<1> SUFFICES ASSUME Counted, [Next]_vars PROVE Counted'  OBVIOUS
<1>1. CASE Tomorrow  BY <1>1, TomorrowCounted
<1>2. CASE NextYear \/ LastYear  BY <1>2, YearsCount
<1>3. CASE UNCHANGED vars  BY <1>3 DEF Counted, vars
<1>4. QED  BY <1>1, <1>2, <1>3 DEF Next

\* Of the days after the moon, one is a Sunday.
LEMMA OneSunday ==
  ASSUME NEW n \in Int, NEW s \in n + 1 .. n + 7, Weekday(s) = 0
  PROVE  (CHOOSE d \in n + 1 .. n + 7 : (d + 1) % 7 = 0) = s
<1>1. (s + 1) % 7 = 0  BY DEF Weekday
<1>2. ASSUME NEW d \in n + 1 .. n + 7, (d + 1) % 7 = 0 PROVE d = s  BY <1>1, <1>2
<1>3. QED  BY <1>1, <1>2

\* Easter of the year of any day, and how far from its New Year.
LEMMA EasterOfYear ==
  ASSUME Counted
  PROVE  /\ Easter(date.year, calendar) = EasterSunday /\ Easter(date.year, calendar) \in Int
         /\ Easter(date.year, calendar) - 80 >= ToJDN(date.year, 1, 1, calendar)
         /\ Easter(date.year, calendar) + 250 < ToJDN(date.year, 1, 1, calendar) + DaysIn(date.year)
<1> DEFINE y == date.year
           s == Easter(y, calendar)
           moon == IF calendar = "julian" THEN JulianMoon(y) ELSE GregorianMoon(y)
           n == ToJDN(y, 3, 21, calendar) + moon
           new == ToJDN(y, 1, 1, calendar)
<1>1. /\ calendar \in Calendars /\ y \in MinYear..MaxYear /\ y \in Int
      /\ weekday = Weekday(day) /\ day \in Int /\ weekday \in 0..6
  BY DateParts, DayIsInt
<1>2. moon \in 0..28 /\ s \in n + 1 .. n + 7 /\ Weekday(s) = 0
  <2>1. CASE calendar = "julian"  BY <1>1, <2>1, JulianIsSunday DEF Easter
  <2>2. CASE calendar = "gregorian"  BY <1>1, <2>2, GregorianIsSunday DEF Easter
  <2>3. QED  BY <1>1, <2>1, <2>2 DEF Calendars
<1>3. /\ ToJDN(y, 3, 21, calendar) \in Int /\ new \in Int
      /\ ToJDN(y, 3, 21, calendar) = new + 79 + LeapDay(y, calendar)
  <2>1. PICK cal \in Calendars, u \in Int : cal = calendar /\ u = y  BY <1>1
  <2>2. /\ ToJDN(u, 3, 21, cal) \in Int /\ ToJDN(u, 3, 21, cal) = ToJDN(u, 1, 1, cal) + 79 + LeapDay(u, cal)
        /\ ToJDN(u, 1, 1, cal) \in Int
    BY TwentyFirst, NewYearNumber, AYearOn
  <2>3. QED  BY <2>1, <2>2
<1>4. LeapDay(y, calendar) \in {0, 1} /\ DaysIn(y) = 365 + LeapDay(y, calendar)
  BY <1>1, LeapYears DEF LeapDay
<1>5. EasterSunday = CHOOSE d \in n + 1 .. n + 7 : (weekday + d - day) % 7 = 0
  BY DEF EasterSunday
<1> HIDE DEF moon, s, new
<1>6. n \in Int  BY <1>2, <1>3
<1>7. n = new + 79 + LeapDay(y, calendar) + moon  BY <1>3
<1> HIDE DEF n
<1>8. s \in Int /\ s - 80 >= new /\ s + 250 < new + DaysIn(y)  BY <1>2, <1>3, <1>4, <1>6, <1>7
<1>9. \A d \in n + 1 .. n + 7 : (weekday + d - day) % 7 = (d + 1) % 7
  <2> SUFFICES ASSUME NEW d \in n + 1 .. n + 7 PROVE (weekday + d - day) % 7 = (d + 1) % 7  OBVIOUS
  <2>1. d \in Int /\ d - day \in Int  BY <1>1, <1>6
  <2>2. Weekday(day + (d - day)) = (weekday + (d - day)) % 7  BY <1>1, <2>1, WeekdaysGoOn
  <2>3. day + (d - day) = d /\ weekday + (d - day) = weekday + d - day  BY <1>1, <2>1
  <2>4. QED  BY <2>2, <2>3 DEF Weekday
<1>10. (CHOOSE d \in n + 1 .. n + 7 : (weekday + d - day) % 7 = 0)
         = (CHOOSE d \in n + 1 .. n + 7 : (d + 1) % 7 = 0)
  BY <1>9
<1>11. (CHOOSE d \in n + 1 .. n + 7 : (d + 1) % 7 = 0) = s  BY <1>2, <1>6, OneSunday
<1>12. QED  BY <1>5, <1>8, <1>10, <1>11 DEF s, new

\* Easter, from a New Year that is counted.
LEMMA EasterIsCounted ==
  ASSUME Counted, NewYear
  PROVE  LET easter == Easter(date.year, calendar) IN
         /\ easter = EasterSunday
         /\ easter - 80 >= day /\ easter + 250 < day + DaysIn(date.year)
<1>1. day = ToJDN(date.year, 1, 1, calendar)  BY DayIsInt DEF NewYear
<1>2. QED  BY <1>1, EasterOfYear

\* The code's numbers, names and weekdays of days are those of someone who counts, and its
\* Easter is the Sunday after the full moon, in both calendars, whatever years are counted.
THEOREM CalendarsAgree == Spec => []CalendarsAreCounted
<1>1. Counted => CalendarsAreCounted
  <2> SUFFICES ASSUME Counted PROVE CalendarsAreCounted  OBVIOUS
  <2>1. /\ calendar \in Calendars /\ IsDate(date.year, date.month, date.day, calendar)
        /\ date \in [year : MinYear..MaxYear, month : 1..12, day : 1..31]
        /\ day = ToJDN(date.year, date.month, date.day, calendar) /\ weekday = Weekday(day)
    BY DEF Counted
  <2>2. FromJDN(day, calendar) = [year |-> date.year, month |-> date.month, day |-> date.day]
    BY <2>1, DaysHaveNames
  <2>3. FromJDN(day, calendar) = date  BY <2>1, <2>2
  <2>4. QED  BY <2>1, <2>3, EasterIsCounted DEF CalendarsAreCounted
<1>2. QED  BY <1>1, InitCounted, NextCounted, PTL DEF Spec

-----------------------------------------------------------------------------
(* The order of days *)

\* Years that are counted later have had more days.
LEMMA CountGrows ==
  ASSUME NEW cal \in Calendars, NEW u \in Int, NEW v \in Int, u <= v
  PROVE  YearsCounted(u, cal) \in Int /\ YearsCounted(v, cal) \in Int /\ YearsCounted(u, cal) <= YearsCounted(v, cal)
<1> DEFINE p == u \div 4
           q == u \div 100
           r == u \div 400
           pp == v \div 4
           qq == v \div 100
           rr == v \div 400
<1>1. /\ YearsCounted(u, cal) = 365 * u + p - (IF cal = "julian" THEN 32083 ELSE q - r + 32045)
      /\ YearsCounted(v, cal) = 365 * v + pp - (IF cal = "julian" THEN 32083 ELSE qq - rr + 32045)
  BY DEF YearsCounted
<1>2. /\ p \in Int /\ q \in Int /\ r \in Int /\ pp \in Int /\ qq \in Int /\ rr \in Int
  BY WholeQuotients
<1>3. p <= pp /\ r <= rr  OBVIOUS
<1>4. qq <= q + (v - u)  OBVIOUS
<1> HIDE DEF p, q, r, pp, qq, rr
<1>5. QED  BY <1>1, <1>2, <1>3, <1>4

\* A year is over when a later one begins.
LEMMA YearsFollow ==
  ASSUME NEW cal \in Calendars, NEW y \in Int, NEW z \in Int, y < z
  PROVE  /\ ToJDN(y, 1, 1, cal) \in Int /\ ToJDN(z, 1, 1, cal) \in Int
         /\ ToJDN(y, 1, 1, cal) + 365 + LeapDay(y, cal) <= ToJDN(z, 1, 1, cal)
<1> PICK u \in Int, v \in Int : u = y + 4800 /\ v = z + 4799  OBVIOUS
<1>1. u <= v  OBVIOUS
<1>2. YearsCounted(u, cal) \in Int /\ YearsCounted(v, cal) \in Int /\ YearsCounted(u, cal) <= YearsCounted(v, cal)
  BY <1>1, CountGrows
<1>3. ThisMarch(y, cal) = YearsCounted(u, cal) /\ LastMarch(z, cal) = YearsCounted(v, cal)
  BY DEF ThisMarch, LastMarch
<1>4. /\ LastMarch(y, cal) \in Int /\ LeapDay(y, cal) \in {0, 1}
      /\ ThisMarch(y, cal) = LastMarch(y, cal) + 365 + LeapDay(y, cal)
  BY AYearOn
<1>5. ToJDN(y, 1, 1, cal) = 307 + LastMarch(y, cal) /\ ToJDN(z, 1, 1, cal) = 307 + LastMarch(z, cal)
  BY NewYearNumber
<1>6. QED  BY <1>2, <1>3, <1>4, <1>5

\* The first day of a month, and how many it has.
MonthFirst(year, month, cal) == ToJDN(year, month, 1, cal)
\* They are counted from New Year.
LEMMA MonthOfYear ==
  ASSUME NEW cal \in Calendars, NEW year \in Int, NEW month \in 1..12
  PROVE  /\ MonthFirst(year, month, cal) \in Int /\ MonthLength(year, month, cal) \in 28..31
         /\ ToJDN(year, 1, 1, cal) \in Int
         /\ MonthFirst(year, month, cal) =
              ToJDN(year, 1, 1, cal) + Passed[month] + (IF month > 2 THEN LeapDay(year, cal) ELSE 0)
         /\ MonthLength(year, month, cal) =
              (CASE month \in {4, 6, 9, 11} -> 30 [] month = 2 -> 28 [] OTHER -> 31)
              + (IF month = 2 THEN LeapDay(year, cal) ELSE 0)
<1>1. PICK d \in Int : d = 1  OBVIOUS
<1>2. /\ ToJDN(year, 1, 1, cal) \in Int
      /\ ToJDN(year, month, d, cal) =
           ToJDN(year, 1, 1, cal) + Passed[month] + d - 1 + (IF month > 2 THEN LeapDay(year, cal) ELSE 0)
  BY DaysPassed
<1>3. Passed[month] \in Int /\ LeapDay(year, cal) \in {0, 1}  BY DEF Passed, LeapDay
<1>4. MonthLength(year, month, cal) =
        (CASE month \in {4, 6, 9, 11} -> 30 [] month = 2 -> 28 [] OTHER -> 31)
        + (IF month = 2 THEN LeapDay(year, cal) ELSE 0)
  <2>1. <<31, 28, 31, 30, 31, 30, 31, 31, 30, 31, 30, 31>>[month] =
          CASE month = 2 -> 28 [] month \in {4, 6, 9, 11} -> 30 [] OTHER -> 31
    OBVIOUS
  <2>2. QED  BY <2>1 DEF MonthLength, LeapDay
<1>5. MonthLength(year, month, cal) \in 28..31  BY <1>3, <1>4
<1>6. QED  BY <1>1, <1>2, <1>3, <1>4, <1>5 DEF MonthFirst

\* A month is over when a later one begins, of the same year or another.
LEMMA MonthsFollow ==
  ASSUME NEW cal \in Calendars, NEW y \in Int, NEW m \in 1..12, NEW z \in Int, NEW n \in 1..12,
         12 * y + m < 12 * z + n
  PROVE  MonthFirst(y, m, cal) + MonthLength(y, m, cal) <= MonthFirst(z, n, cal)
<1>1. /\ MonthFirst(y, m, cal) =
           ToJDN(y, 1, 1, cal) + Passed[m] + (IF m > 2 THEN LeapDay(y, cal) ELSE 0)
      /\ MonthLength(y, m, cal) =
           (CASE m \in {4, 6, 9, 11} -> 30 [] m = 2 -> 28 [] OTHER -> 31)
           + (IF m = 2 THEN LeapDay(y, cal) ELSE 0)
      /\ MonthFirst(z, n, cal) =
           ToJDN(z, 1, 1, cal) + Passed[n] + (IF n > 2 THEN LeapDay(z, cal) ELSE 0)
  BY MonthOfYear
<1>2. \A k \in 1..12 :
        Passed[k] = CASE k = 1 -> 0 [] k = 2 -> 31 [] k = 3 -> 59
            [] k = 4 -> 90 [] k = 5 -> 120 [] k = 6 -> 151 [] k = 7 -> 181 [] k = 8 -> 212
            [] k = 9 -> 243 [] k = 10 -> 273 [] k = 11 -> 304 [] k = 12 -> 334
  BY DEF Passed
<1>3. LeapDay(y, cal) \in {0, 1} /\ LeapDay(z, cal) \in {0, 1}  BY DEF LeapDay
<1>4. ToJDN(y, 1, 1, cal) \in Int /\ ToJDN(z, 1, 1, cal) \in Int  BY MonthOfYear
<1>5. /\ Passed[m] \in Int
      /\ Passed[m] + (CASE m \in {4, 6, 9, 11} -> 30 [] m = 2 -> 28 [] OTHER -> 31) <= 365
      /\ Passed[n] \in Nat
      /\ m < n => Passed[m] + (CASE m \in {4, 6, 9, 11} -> 30 [] m = 2 -> 28 [] OTHER -> 31) <= Passed[n]
  BY <1>2
<1>6. y < z \/ (y = z /\ m < n)  OBVIOUS
<1>7. CASE y = z /\ m < n  BY <1>1, <1>3, <1>4, <1>5, <1>7
<1>8. CASE y < z
  <2>1. ToJDN(y, 1, 1, cal) + 365 + LeapDay(y, cal) <= ToJDN(z, 1, 1, cal)  BY <1>8, YearsFollow
  <2>2. QED  BY <1>1, <1>3, <1>4, <1>5, <2>1
<1>9. QED  BY <1>6, <1>7, <1>8

\* A day of a month.
IsInMonth(x, y, m, cal) ==
  /\ x \in Int /\ y \in Int /\ m \in 1..12 /\ cal \in Calendars
  /\ MonthFirst(y, m, cal) <= x /\ x < MonthFirst(y, m, cal) + MonthLength(y, m, cal)

\* So days are in the order of their months.
LEMMA DaysInOrder ==
  ASSUME NEW cal, NEW x, NEW y, NEW m, IsInMonth(x, y, m, cal), NEW z \in Int, NEW n \in 1..12
  PROVE  /\ MonthFirst(z, n, cal) <= x <=> 12 * z + n <= 12 * y + m
         /\ x < MonthFirst(z, n, cal) + MonthLength(z, n, cal) <=> 12 * y + m <= 12 * z + n
<1> /\ x \in Int /\ y \in Int /\ m \in 1..12 /\ cal \in Calendars
    /\ MonthFirst(y, m, cal) <= x /\ x < MonthFirst(y, m, cal) + MonthLength(y, m, cal)
  BY DEF IsInMonth
<1>1. /\ MonthFirst(y, m, cal) \in Int /\ MonthLength(y, m, cal) \in 28..31
      /\ MonthFirst(z, n, cal) \in Int /\ MonthLength(z, n, cal) \in 28..31
  BY MonthOfYear
<1>2. CASE 12 * y + m = 12 * z + n
  <2>1. y = z /\ m = n  BY <1>2
  <2>2. QED  BY <1>1, <2>1
<1>3. CASE 12 * y + m < 12 * z + n
  <2>1. MonthFirst(y, m, cal) + MonthLength(y, m, cal) <= MonthFirst(z, n, cal)  BY <1>3, MonthsFollow
  <2>2. QED  BY <1>1, <1>3, <2>1
<1>4. CASE 12 * z + n < 12 * y + m
  <2>1. MonthFirst(z, n, cal) + MonthLength(z, n, cal) <= MonthFirst(y, m, cal)  BY <1>4, MonthsFollow
  <2>2. QED  BY <1>1, <1>4, <2>1
<1>5. QED  BY <1>2, <1>3, <1>4

\* A date is in its month.
LEMMA DateOfMonth ==
  ASSUME NEW cal \in Calendars, NEW year, NEW month, NEW d, IsDate(year, month, d, cal)
  PROVE  /\ year \in Int /\ year \in MinYear..MaxYear /\ month \in 1..12 /\ d \in 1..31
         /\ d <= MonthLength(year, month, cal) /\ MonthLength(year, month, cal) \in 28..31
         /\ MonthFirst(year, month, cal) \in Int /\ ToJDN(year, month, d, cal) \in Int
         /\ ToJDN(year, month, d, cal) = MonthFirst(year, month, cal) + d - 1
         /\ MonthFirst(year, month, cal) <= ToJDN(year, month, d, cal)
         /\ ToJDN(year, month, d, cal) < MonthFirst(year, month, cal) + MonthLength(year, month, cal)
<1>1. year \in Int /\ month \in 1..12 /\ d \in 1..31  BY DayInMonth
<1>2. year \in MinYear..MaxYear /\ d \in 1..MonthLength(year, month, cal)  BY DEF IsDate
<1>3. /\ MonthFirst(year, month, cal) \in Int /\ MonthLength(year, month, cal) \in 28..31
      /\ ToJDN(year, 1, 1, cal) \in Int
      /\ MonthFirst(year, month, cal) =
           ToJDN(year, 1, 1, cal) + Passed[month] + (IF month > 2 THEN LeapDay(year, cal) ELSE 0)
  BY <1>1, MonthOfYear
<1>4. ToJDN(year, month, d, cal) =
        ToJDN(year, 1, 1, cal) + Passed[month] + d - 1 + (IF month > 2 THEN LeapDay(year, cal) ELSE 0)
  <2> PICK k \in Int : k = d  BY <1>1
  <2>1. ToJDN(year, month, k, cal) =
          ToJDN(year, 1, 1, cal) + Passed[month] + k - 1 + (IF month > 2 THEN LeapDay(year, cal) ELSE 0)
    BY <1>1, DaysPassed
  <2>2. QED  BY <2>1
<1>5. Passed[month] \in Int /\ LeapDay(year, cal) \in {0, 1}  BY <1>1 DEF Passed, LeapDay
<1>6. ToJDN(year, month, d, cal) = MonthFirst(year, month, cal) + d - 1  BY <1>1, <1>3, <1>4, <1>5
<1>7. QED  BY <1>1, <1>2, <1>3, <1>6

\* The first and the last day of a month, and of a year.
LEMMA FirstAndLastDay ==
  ASSUME NEW cal \in Calendars, NEW year \in Int, NEW month \in 1..12
  PROVE  /\ FirstDay(year, month, 0, cal) = MonthFirst(year, month, cal)
         /\ LastDay(year, month, 0, cal) = MonthFirst(year, month, cal) + MonthLength(year, month, cal) - 1
         /\ FirstDay(year, 0, 0, cal) = MonthFirst(year, 1, cal)
         /\ LastDay(year, 0, 0, cal) = MonthFirst(year, 12, cal) + MonthLength(year, 12, cal) - 1
<1>1. \A m \in 1..12 : \A k \in Int : ToJDN(year, m, k, cal) = MonthFirst(year, m, cal) + k - 1
  <2> TAKE m \in 1..12
  <2> TAKE k \in Int
  <2>1. ToJDN(year, m, k, cal) =
          ToJDN(year, 1, 1, cal) + Passed[m] + k - 1 + (IF m > 2 THEN LeapDay(year, cal) ELSE 0)
    BY DaysPassed
  <2>2. /\ ToJDN(year, 1, 1, cal) \in Int /\ MonthFirst(year, m, cal) \in Int
        /\ MonthFirst(year, m, cal) =
             ToJDN(year, 1, 1, cal) + Passed[m] + (IF m > 2 THEN LeapDay(year, cal) ELSE 0)
    BY MonthOfYear
  <2>3. Passed[m] \in Int /\ LeapDay(year, cal) \in {0, 1}  BY DEF Passed, LeapDay
  <2>4. QED  BY <2>1, <2>2, <2>3
<1>2. MonthLength(year, 12, cal) = 31  BY DEF MonthLength
<1>3. MonthLength(year, month, cal) \in Int  BY MonthOfYear
<1>4. month # 0  OBVIOUS
<1>5. LastDay(year, month, 0, cal) = ToJDN(year, month, MonthLength(year, month, cal), cal)
  BY <1>4 DEF LastDay
<1>6. LastDay(year, 0, 0, cal) = ToJDN(year, 12, 31, cal)  BY DEF LastDay
<1>7. FirstDay(year, month, 0, cal) = MonthFirst(year, month, cal) /\ FirstDay(year, 0, 0, cal) = MonthFirst(year, 1, cal)
  BY <1>4 DEF FirstDay, MonthFirst
<1>8. QED  BY <1>1, <1>2, <1>3, <1>5, <1>6, <1>7

-----------------------------------------------------------------------------
(* What is said *)

MonthLast(year, month, cal) == MonthFirst(year, month, cal) + MonthLength(year, month, cal) - 1

\* Months before and after a month, by their count.
IsMonthsOn(s, year, month, k) ==
  s.year \in Int /\ s.month \in 1..12 /\ 12 * s.year + s.month = 12 * year + month + k

\* shift_month counts them, over the years.
LEMMA ShiftedMonth ==
  ASSUME NEW year \in Int, NEW month \in 1..12, NEW k \in Int
  PROVE  IsMonthsOn(ShiftMonth(year, month, k), year, month, k)
<1> DEFINE index == year * 12 + (month - 1) + k
<1>1. index \in Int  OBVIOUS
<1>2. ShiftMonth(year, month, k) = [year |-> index \div 12, month |-> (index % 12) + 1]  BY DEF ShiftMonth
<1>3. index = 12 * year + month - 1 + k  OBVIOUS
<1> HIDE DEF index
<1>4. index = 12 * (index \div 12) + (index % 12) /\ index \div 12 \in Int /\ index % 12 \in 0..11  BY <1>1
<1>5. QED  BY <1>2, <1>3, <1>4 DEF IsMonthsOn

\* The padding is of whole numbers.
LEMMA PaddingIsNat ==
  Padding.year \in Nat /\ Padding.month \in Nat /\ Padding.day \in Nat
BY BoundsAssumption

\* A year, as it is or with doubt.
LEMMA BoundsOfYear ==
  ASSUME NEW cal \in Calendars, NEW said, IsSaid(said, cal), said.kind \in {"exact", "about"}, said.month = 0
  PROVE  LET p == IF said.kind = "about" THEN Padding.year ELSE 0 IN
         /\ said.year \in Int /\ p \in Nat
         /\ WorkedOut(said, cal) = Bounds(MonthFirst(said.year - p, 1, cal), MonthFirst(said.year, 1, cal),
                                          MonthLast(said.year, 12, cal), MonthLast(said.year + p, 12, cal))
<1>1. said.year \in Int /\ said.day = 0  BY DEF IsSaid
<1>2. \A y \in Int : FirstDay(y, 0, 0, cal) = MonthFirst(y, 1, cal) /\ LastDay(y, 0, 0, cal) = MonthLast(y, 12, cal)
  BY FirstAndLastDay DEF MonthLast
<1>3. CASE said.kind = "exact"
  <2>1. WorkedOut(said, cal) = ExactBounds(said, cal)  BY <1>3 DEF WorkedOut
  <2>2. said.year - 0 = said.year /\ said.year + 0 = said.year  BY <1>1
  <2>3. QED  BY <1>1, <1>2, <1>3, <2>1, <2>2 DEF ExactBounds
<1>4. CASE said.kind = "about"
  <2>1. WorkedOut(said, cal) = PaddedBounds(said, cal)  BY <1>4 DEF WorkedOut
  <2>2. said.year - Padding.year \in Int /\ said.year + Padding.year \in Int  BY <1>1, PaddingIsNat
  <2>3. QED  BY <1>1, <1>2, <1>4, <2>1, <2>2, PaddingIsNat DEF PaddedBounds
<1>5. QED  BY <1>3, <1>4

\* A month.
LEMMA BoundsOfMonth ==
  ASSUME NEW cal \in Calendars, NEW said, IsSaid(said, cal), said.kind \in {"exact", "about"},
         said.month # 0, said.day = 0
  PROVE  /\ said.year \in Int /\ said.month \in 1..12
         /\ \E p \in Nat, u \in Int, s \in 1..12, v \in Int, n \in 1..12 :
              /\ p = IF said.kind = "about" THEN Padding.month ELSE 0
              /\ 12 * u + s = 12 * said.year + said.month - p
              /\ 12 * v + n = 12 * said.year + said.month + p
              /\ WorkedOut(said, cal) = Bounds(MonthFirst(u, s, cal), MonthFirst(said.year, said.month, cal),
                                               MonthLast(said.year, said.month, cal), MonthLast(v, n, cal))
<1> DEFINE p == IF said.kind = "about" THEN Padding.month ELSE 0
           before == ShiftMonth(said.year, said.month, -p)
           after == ShiftMonth(said.year, said.month, p)
<1>1. said.year \in Int /\ said.month \in 1..12  BY DEF IsSaid
<1>2. \A y \in Int : \A m \in 1..12 :
        FirstDay(y, m, 0, cal) = MonthFirst(y, m, cal) /\ LastDay(y, m, 0, cal) = MonthLast(y, m, cal)
  BY FirstAndLastDay DEF MonthLast
<1>3. p \in Nat  BY PaddingIsNat
<1>4. /\ before.year \in Int /\ before.month \in 1..12
      /\ 12 * before.year + before.month = 12 * said.year + said.month + (-p)
      /\ after.year \in Int /\ after.month \in 1..12
      /\ 12 * after.year + after.month = 12 * said.year + said.month + p
  <2> HIDE DEF p
  <2> PICK y \in Int, m \in 1..12, k \in Int, l \in Int : said.year = y /\ said.month = m /\ -p = k /\ p = l
    BY <1>1, <1>3
  <2>1. IsMonthsOn(ShiftMonth(y, m, k), y, m, k) /\ IsMonthsOn(ShiftMonth(y, m, l), y, m, l)
    BY ShiftedMonth
  <2>2. before = ShiftMonth(y, m, k) /\ after = ShiftMonth(y, m, l)  OBVIOUS
  <2>3. QED  BY <2>1, <2>2 DEF IsMonthsOn
<1>5. WorkedOut(said, cal) = Bounds(MonthFirst(before.year, before.month, cal), MonthFirst(said.year, said.month, cal),
                                    MonthLast(said.year, said.month, cal), MonthLast(after.year, after.month, cal))
  <2>1. CASE said.kind = "exact"
    <3>1. WorkedOut(said, cal) = ExactBounds(said, cal)  BY <2>1 DEF WorkedOut
    <3>2. p = 0  BY <2>1
    <3>3. /\ before.year = said.year /\ before.month = said.month
          /\ after.year = said.year /\ after.month = said.month
      <4> HIDE DEF p, before, after
      <4> PICK y \in Int, m \in 1..12, u \in Int, s \in 1..12, v \in Int, n \in 1..12 :
            /\ said.year = y /\ said.month = m
            /\ before.year = u /\ before.month = s /\ after.year = v /\ after.month = n
        BY <1>1, <1>4
      <4>1. 12 * u + s = 12 * y + m + (-p) /\ 12 * v + n = 12 * y + m + p  BY <1>4
      <4>2. 12 * u + s = 12 * y + m /\ 12 * v + n = 12 * y + m  BY <3>2, <4>1
      <4>3. QED  BY <4>2
    <3> HIDE DEF p, before, after
    <3>4. QED  BY <1>1, <1>2, <3>1, <3>3 DEF ExactBounds
  <2>2. CASE said.kind = "about"
    <3>1. WorkedOut(said, cal) = PaddedBounds(said, cal)  BY <2>2 DEF WorkedOut
    <3>2. /\ before = ShiftMonth(said.year, said.month, -Padding.month)
          /\ after = ShiftMonth(said.year, said.month, Padding.month)
      BY <2>2
    <3> HIDE DEF p, before, after
    <3>3. PaddedBounds(said, cal) =
            Bounds(FirstDay(before.year, before.month, 0, cal), FirstDay(said.year, said.month, 0, cal),
                   LastDay(said.year, said.month, 0, cal), LastDay(after.year, after.month, 0, cal))
      BY <1>1, <3>2 DEF PaddedBounds
    <3>4. QED  BY <1>1, <1>2, <1>4, <3>1, <3>3
  <2>3. QED  BY <2>1, <2>2
<1> HIDE DEF p, before, after
<1>6. 12 * said.year + said.month + (-p) = 12 * said.year + said.month - p  BY <1>1, <1>3
<1>7. p = IF said.kind = "about" THEN Padding.month ELSE 0  BY DEF p
<1> PICK q \in Nat, u \in Int, s \in 1..12, v \in Int, n \in 1..12 :
      /\ q = p
      /\ before.year = u /\ before.month = s /\ after.year = v /\ after.month = n
  BY <1>3, <1>4
<1>8. \E r \in Nat, uu \in Int, ss \in 1..12, vv \in Int, nn \in 1..12 :
        /\ r = IF said.kind = "about" THEN Padding.month ELSE 0
        /\ 12 * uu + ss = 12 * said.year + said.month - r
        /\ 12 * vv + nn = 12 * said.year + said.month + r
        /\ WorkedOut(said, cal) = Bounds(MonthFirst(uu, ss, cal), MonthFirst(said.year, said.month, cal),
                                         MonthLast(said.year, said.month, cal), MonthLast(vv, nn, cal))
  <2>1. /\ q = IF said.kind = "about" THEN Padding.month ELSE 0
        /\ 12 * u + s = 12 * said.year + said.month - q
        /\ 12 * v + n = 12 * said.year + said.month + q
    BY <1>4, <1>6, <1>7
  <2>2. WorkedOut(said, cal) = Bounds(MonthFirst(u, s, cal), MonthFirst(said.year, said.month, cal),
                                      MonthLast(said.year, said.month, cal), MonthLast(v, n, cal))
    BY <1>5
  <2> WITNESS q \in Nat, u \in Int, s \in 1..12, v \in Int, n \in 1..12
  <2>3. QED  BY <2>1, <2>2
<1>9. QED  BY <1>1, <1>8

\* A day.
LEMMA BoundsOfDay ==
  ASSUME NEW cal \in Calendars, NEW said, IsSaid(said, cal), said.kind \in {"exact", "about"},
         said.month # 0, said.day # 0
  PROVE  LET p == IF said.kind = "about" THEN Padding.day ELSE 0
             x == ToJDN(said.year, said.month, said.day, cal) IN
         /\ p \in Nat /\ x \in Int
         /\ IsDate(said.year, said.month, said.day, cal)
         /\ WorkedOut(said, cal) = Bounds(x - p, x, x, x + p)
<1> DEFINE x == ToJDN(said.year, said.month, said.day, cal)
<1>1. IsDate(said.year, said.month, said.day, cal)  BY DEF IsSaid
<1>2. x \in Int  BY <1>1, DateOfMonth
<1>3. FirstDay(said.year, said.month, said.day, cal) = x /\ LastDay(said.year, said.month, said.day, cal) = x
  BY DEF FirstDay, LastDay
<1> HIDE DEF x
<1>4. CASE said.kind = "exact"
  <2>1. WorkedOut(said, cal) = ExactBounds(said, cal)  BY <1>4 DEF WorkedOut
  <2>2. x - 0 = x /\ x + 0 = x  BY <1>2
  <2>3. QED  BY <1>1, <1>2, <1>3, <1>4, <2>1, <2>2 DEF ExactBounds, x
<1>5. CASE said.kind = "about"
  <2>1. WorkedOut(said, cal) = PaddedBounds(said, cal)  BY <1>5 DEF WorkedOut
  <2>2. QED  BY <1>1, <1>2, <1>3, <1>5, <2>1, PaddingIsNat DEF PaddedBounds, x
<1>6. QED  BY <1>4, <1>5

\* A year without its last digits; what is not over, and what is not known.
LEMMA BoundsOfOthers ==
  ASSUME NEW cal \in Calendars, NEW said, IsSaid(said, cal), said.kind \notin {"exact", "about"}
  PROVE  /\ OpenEndYear \in Int /\ EarliestYear \in Int /\ EarliestYear <= OpenEndYear
         /\ \/ /\ said.kind = "unspecified" /\ said.month = 0 /\ said.day = 0
               /\ said.year \in Int /\ said.unsaid \in Nat /\ said.year + said.unsaid \in Int
               /\ LET first == MonthFirst(said.year, 1, cal)
                      last == MonthLast(said.year + said.unsaid, 12, cal) IN
                  WorkedOut(said, cal) = Bounds(first, first, last, last)
            \/ LET last == MonthLast(OpenEndYear, 12, cal) IN
               said.kind = "ongoing" /\ WorkedOut(said, cal) = Bounds(last, last, last, last)
            \/ LET first == MonthFirst(EarliestYear, 1, cal)
                   last == MonthLast(OpenEndYear, 12, cal) IN
               said.kind = "unknown" /\ WorkedOut(said, cal) = Bounds(first, first, last, last)
<1>1. OpenEndYear \in Int /\ EarliestYear \in Int /\ EarliestYear <= OpenEndYear
  BY BoundsAssumption DEF MinYear, MaxYear
<1>2. \A y \in Int : FirstDay(y, 0, 0, cal) = MonthFirst(y, 1, cal) /\ LastDay(y, 0, 0, cal) = MonthLast(y, 12, cal)
  BY FirstAndLastDay DEF MonthLast
<1>3. /\ OpenEndHorizon(cal) = MonthLast(OpenEndYear, 12, cal)
      /\ EarliestDay(cal) = MonthFirst(EarliestYear, 1, cal)
  <2>1. /\ LastDay(OpenEndYear, 0, 0, cal) = ToJDN(OpenEndYear, 12, 31, cal)
        /\ FirstDay(EarliestYear, 0, 0, cal) = ToJDN(EarliestYear, 1, 1, cal)
    BY DEF FirstDay, LastDay
  <2>2. QED  BY <1>1, <1>2, <2>1 DEF OpenEndHorizon, EarliestDay
<1>4. CASE said.kind = "unspecified"
  <2>1. said.year \in Int /\ said.unsaid \in Nat /\ said.month = 0 /\ said.day = 0  BY <1>4 DEF IsSaid
  <2>2. said.year + said.unsaid \in Int  BY <2>1
  <2>3. WorkedOut(said, cal) = UnspecifiedBounds(said, cal)  BY <1>4 DEF WorkedOut
  <2>4. QED  BY <1>1, <1>2, <1>4, <2>1, <2>2, <2>3 DEF UnspecifiedBounds
<1>5. CASE said.kind = "ongoing"
  <2>1. WorkedOut(said, cal) = OngoingBounds(OpenEndHorizon(cal))  BY <1>5 DEF WorkedOut
  <2>2. QED  BY <1>1, <1>3, <1>5, <2>1 DEF OngoingBounds
<1>6. CASE said.kind = "unknown"
  <2>1. WorkedOut(said, cal) = UnknownBounds(EarliestDay(cal), OpenEndHorizon(cal))  BY <1>6 DEF WorkedOut
  <2>2. QED  BY <1>1, <1>3, <1>6, <2>1 DEF UnknownBounds
<1>7. said.kind \in {"unspecified", "ongoing", "unknown"}  BY DEF IsSaid
<1>8. QED  BY <1>4, <1>5, <1>6, <1>7

\* Months in order begin and end in order.
LEMMA MonthsInOrder ==
  ASSUME NEW cal \in Calendars, NEW y \in Int, NEW m \in 1..12, NEW z \in Int, NEW n \in 1..12,
         12 * y + m <= 12 * z + n
  PROVE  /\ MonthFirst(y, m, cal) \in Int /\ MonthLast(y, m, cal) \in Int
         /\ MonthFirst(z, n, cal) \in Int /\ MonthLast(z, n, cal) \in Int
         /\ MonthFirst(y, m, cal) <= MonthFirst(z, n, cal)
         /\ MonthLast(y, m, cal) <= MonthLast(z, n, cal)
         /\ MonthFirst(y, m, cal) <= MonthLast(z, n, cal)
<1>1. /\ MonthFirst(y, m, cal) \in Int /\ MonthLength(y, m, cal) \in 28..31
      /\ MonthFirst(z, n, cal) \in Int /\ MonthLength(z, n, cal) \in 28..31
  BY MonthOfYear
<1>2. CASE 12 * y + m = 12 * z + n
  <2>1. y = z /\ m = n  BY <1>2
  <2>2. QED  BY <1>1, <2>1 DEF MonthLast
<1>3. CASE 12 * y + m < 12 * z + n
  <2>1. MonthFirst(y, m, cal) + MonthLength(y, m, cal) <= MonthFirst(z, n, cal)  BY <1>3, MonthsFollow
  <2>2. QED  BY <1>1, <2>1 DEF MonthLast
<1>4. QED  BY <1>2, <1>3

\* Four days in order are bounds.
LEMMA FourInOrder ==
  ASSUME NEW a \in Int, NEW b \in Int, NEW c \in Int, NEW d \in Int, a <= b, b <= c, c <= d
  PROVE  Bounds(a, b, c, d) \in AllBounds
BY DEF Bounds, AllBounds, InOrder

\* Bounds never refuses (__post_init__) what has been worked out of a date that may be said:
\* doubt only widens it, whatever the settings are, and over years and months that differ in length.
THEOREM WorkedOutInOrder ==
  ASSUME NEW cal \in Calendars, NEW said, IsSaid(said, cal)
  PROVE  WorkedOut(said, cal) \in AllBounds
<1>1. CASE said.kind \in {"exact", "about"} /\ said.month = 0
  <2> PICK y \in Int, p \in Nat, u \in Int, v \in Int :
        /\ u = y - p /\ v = y + p
        /\ WorkedOut(said, cal) = Bounds(MonthFirst(u, 1, cal), MonthFirst(y, 1, cal),
                                         MonthLast(y, 12, cal), MonthLast(v, 12, cal))
    BY <1>1, BoundsOfYear
  <2>1. 12 * u + 1 <= 12 * y + 1 /\ 12 * y + 1 <= 12 * y + 12 /\ 12 * y + 12 <= 12 * v + 12  OBVIOUS
  <2> PICK m \in 1..12, n \in 1..12 : m = 1 /\ n = 12  OBVIOUS
  <2>2. /\ MonthFirst(u, m, cal) \in Int /\ MonthFirst(y, m, cal) \in Int
        /\ MonthFirst(u, m, cal) <= MonthFirst(y, m, cal)
    BY <2>1, MonthsInOrder
  <2>3. MonthLast(y, n, cal) \in Int /\ MonthFirst(y, m, cal) <= MonthLast(y, n, cal)
    BY <2>1, MonthsInOrder
  <2>4. MonthLast(v, n, cal) \in Int /\ MonthLast(y, n, cal) <= MonthLast(v, n, cal)
    BY <2>1, MonthsInOrder
  <2>5. QED  BY <2>2, <2>3, <2>4, FourInOrder
<1>2. CASE said.kind \in {"exact", "about"} /\ said.month # 0 /\ said.day = 0
  <2>1. /\ said.year \in Int /\ said.month \in 1..12
        /\ \E p \in Nat, u \in Int, s \in 1..12, v \in Int, n \in 1..12 :
             /\ p = IF said.kind = "about" THEN Padding.month ELSE 0
             /\ 12 * u + s = 12 * said.year + said.month - p
             /\ 12 * v + n = 12 * said.year + said.month + p
             /\ WorkedOut(said, cal) = Bounds(MonthFirst(u, s, cal), MonthFirst(said.year, said.month, cal),
                                              MonthLast(said.year, said.month, cal), MonthLast(v, n, cal))
    BY <1>2, BoundsOfMonth
  <2> PICK y \in Int, m \in 1..12 : said.year = y /\ said.month = m  BY <2>1
  <2>2. PICK p \in Nat, u \in Int, s \in 1..12, v \in Int, n \in 1..12 :
          /\ 12 * u + s = 12 * y + m - p /\ 12 * v + n = 12 * y + m + p
          /\ WorkedOut(said, cal) = Bounds(MonthFirst(u, s, cal), MonthFirst(y, m, cal),
                                           MonthLast(y, m, cal), MonthLast(v, n, cal))
    BY <2>1
  <2>3. 12 * u + s <= 12 * y + m /\ 12 * y + m <= 12 * y + m /\ 12 * y + m <= 12 * v + n  BY <2>2
  <2>4. /\ MonthFirst(u, s, cal) \in Int /\ MonthFirst(y, m, cal) \in Int
        /\ MonthFirst(u, s, cal) <= MonthFirst(y, m, cal)
    BY <2>3, MonthsInOrder
  <2>5. MonthLast(y, m, cal) \in Int /\ MonthFirst(y, m, cal) <= MonthLast(y, m, cal)
    BY <2>3, MonthsInOrder
  <2>6. MonthLast(v, n, cal) \in Int /\ MonthLast(y, m, cal) <= MonthLast(v, n, cal)
    BY <2>3, MonthsInOrder
  <2>7. QED  BY <2>2, <2>4, <2>5, <2>6, FourInOrder
<1>3. CASE said.kind \in {"exact", "about"} /\ said.month # 0 /\ said.day # 0
  <2> PICK x \in Int, p \in Nat : WorkedOut(said, cal) = Bounds(x - p, x, x, x + p)  BY <1>3, BoundsOfDay
  <2>1. x - p \in Int /\ x + p \in Int /\ x - p <= x /\ x <= x + p  OBVIOUS
  <2>2. QED  BY <2>1, FourInOrder
<1>4. CASE said.kind \notin {"exact", "about"}
  <2> PICK m \in 1..12, n \in 1..12 : m = 1 /\ n = 12  OBVIOUS
  <2>1. PICK y \in Int, z \in Int : y <= z /\
          LET first == MonthFirst(y, m, cal)
              last == MonthLast(z, n, cal) IN
          WorkedOut(said, cal) \in {Bounds(first, first, last, last), Bounds(last, last, last, last)}
    <3>1. OpenEndYear \in Int /\ EarliestYear \in Int /\ EarliestYear <= OpenEndYear  BY <1>4, BoundsOfOthers
    <3>2. CASE said.kind = "unspecified"
      <4>1. /\ said.year \in Int /\ said.unsaid \in Nat /\ said.year + said.unsaid \in Int
            /\ LET first == MonthFirst(said.year, 1, cal)
                   last == MonthLast(said.year + said.unsaid, 12, cal) IN
               WorkedOut(said, cal) = Bounds(first, first, last, last)
        BY <1>4, <3>2, BoundsOfOthers
      <4>2. said.year <= said.year + said.unsaid  BY <4>1
      <4>3. QED  BY <4>1, <4>2
    <3>3. CASE said.kind = "ongoing"
      <4>1. LET last == MonthLast(OpenEndYear, 12, cal) IN WorkedOut(said, cal) = Bounds(last, last, last, last)
        BY <1>4, <3>3, BoundsOfOthers
      <4>2. QED  BY <3>1, <4>1
    <3>4. CASE said.kind = "unknown"
      <4>1. LET first == MonthFirst(EarliestYear, 1, cal)
                last == MonthLast(OpenEndYear, 12, cal) IN
            WorkedOut(said, cal) = Bounds(first, first, last, last)
        BY <1>4, <3>4, BoundsOfOthers
      <4>2. QED  BY <3>1, <4>1
    <3>5. QED  BY <1>4, <3>2, <3>3, <3>4, BoundsOfOthers
  <2>2. 12 * y + m <= 12 * z + n  BY <2>1
  <2>3. /\ MonthFirst(y, m, cal) \in Int /\ MonthLast(z, n, cal) \in Int
        /\ MonthFirst(y, m, cal) <= MonthLast(z, n, cal)
    BY <2>2, MonthsInOrder
  <2>4. QED  BY <2>1, <2>3, FourInOrder
<1>5. QED  BY <1>1, <1>2, <1>3, <1>4

\* The person's day is within months just if the person's month is.
LEMMA DayInMonths ==
  ASSUME Counted
  PROVE  /\ date.year \in Int /\ date.month \in 1..12 /\ day \in Int
         /\ Months(date) = 12 * date.year + date.month
         /\ \A z \in Int, n \in 1..12 :
              /\ MonthFirst(z, n, calendar) <= day <=> 12 * z + n <= 12 * date.year + date.month
              /\ day <= MonthLast(z, n, calendar) <=> 12 * date.year + date.month <= 12 * z + n
<1>1. /\ IsDate(date.year, date.month, date.day, calendar) /\ calendar \in Calendars
      /\ day = ToJDN(date.year, date.month, date.day, calendar)
  BY DEF Counted
<1> PICK y \in Int, m \in 1..12, x \in Int, cal \in Calendars :
      /\ date.year = y /\ date.month = m /\ day = x /\ calendar = cal
      /\ MonthFirst(y, m, cal) <= x /\ x < MonthFirst(y, m, cal) + MonthLength(y, m, cal)
  BY <1>1, DateOfMonth
<1>2. ASSUME NEW z \in Int, NEW n \in 1..12
      PROVE  /\ MonthFirst(z, n, cal) <= x <=> 12 * z + n <= 12 * y + m
             /\ x <= MonthLast(z, n, cal) <=> 12 * y + m <= 12 * z + n
  <2>1. /\ MonthFirst(z, n, cal) <= x <=> 12 * z + n <= 12 * y + m
        /\ x < MonthFirst(z, n, cal) + MonthLength(z, n, cal) <=> 12 * y + m <= 12 * z + n
    <3>1. IsInMonth(x, y, m, cal)  BY DEF IsInMonth
    <3>2. QED  BY <3>1, DaysInOrder
  <2>2. MonthFirst(z, n, cal) \in Int /\ MonthLength(z, n, cal) \in 28..31  BY MonthOfYear
  <2>3. QED  BY <2>1, <2>2 DEF MonthLast
<1>3. Months(date) = 12 * y + m  BY DEF Months
<1>4. QED  BY <1>2, <1>3

\* What the bounds say of the person's day is what was said of it, strictly or in doubt.
LEMMA SaidIsSo ==
  ASSUME Counted, NEW said, IsSaid(said, calendar), NEW strict \in BOOLEAN
  PROVE  /\ said.kind # "ongoing" => (Earliest(WorkedOut(said, calendar), strict) <= day <=> NotBefore(said, strict))
         /\ day <= Latest(WorkedOut(said, calendar), strict) <=> NotAfter(said, strict)
<1> PICK y \in Int, m \in 1..12, x \in Int, cal \in Calendars :
      date.year = y /\ date.month = m /\ day = x /\ calendar = cal
  BY DayInMonths DEF Counted
<1>1. /\ Months(date) = 12 * y + m
      /\ \A z \in Int, n \in 1..12 :
           /\ MonthFirst(z, n, cal) <= x <=> 12 * z + n <= 12 * y + m
           /\ x <= MonthLast(z, n, cal) <=> 12 * y + m <= 12 * z + n
  BY DayInMonths
<1>2. Padding.year \in Nat /\ Padding.month \in Nat /\ Padding.day \in Nat  BY PaddingIsNat
<1>3. \A a, b, c, d : /\ Earliest(Bounds(a, b, c, d), strict) = (IF strict THEN b ELSE a)
                      /\ Latest(Bounds(a, b, c, d), strict) = (IF strict THEN c ELSE d)
  BY DEF Earliest, Latest, Bounds
<1>4. \A z \in Int :
        /\ MonthFirst(z, 1, cal) <= x <=> z <= y
        /\ x <= MonthLast(z, 12, cal) <=> y <= z
  <2> TAKE z \in Int
  <2> PICK i \in 1..12, j \in 1..12 : i = 1 /\ j = 12  OBVIOUS
  <2>1. /\ MonthFirst(z, i, cal) <= x <=> 12 * z + i <= 12 * y + m
        /\ x <= MonthLast(z, j, cal) <=> 12 * y + m <= 12 * z + j
    BY <1>1
  <2>2. QED  BY <2>1
<1>5. CASE said.kind \in {"exact", "about"} /\ said.month = 0
  <2> DEFINE p == IF said.kind = "about" THEN Padding.year ELSE 0
             q == IF said.kind = "about" /\ ~strict THEN Padding.year ELSE 0
  <2>1. /\ said.year \in Int
        /\ WorkedOut(said, cal) = Bounds(MonthFirst(said.year - p, 1, cal), MonthFirst(said.year, 1, cal),
                                         MonthLast(said.year, 12, cal), MonthLast(said.year + p, 12, cal))
    BY <1>5, BoundsOfYear
  <2>2. /\ Earliest(WorkedOut(said, cal), strict) = MonthFirst(said.year - q, 1, cal)
        /\ Latest(WorkedOut(said, cal), strict) = MonthLast(said.year + q, 12, cal)
    <3>1. said.year - 0 = said.year /\ said.year + 0 = said.year  BY <2>1
    <3>2. QED  BY <1>3, <2>1, <3>1
  <2>3. said.year - q \in Int /\ said.year + q \in Int  BY <1>2, <2>1
  <2>4. /\ NotBefore(said, strict) <=> y >= said.year - q
        /\ NotAfter(said, strict) <=> y <= said.year + q
    BY <1>5 DEF NotBefore, NotAfter
  <2> HIDE DEF p, q
  <2>5. QED  BY <1>4, <2>2, <2>3, <2>4
<1>6. CASE said.kind \in {"exact", "about"} /\ said.month # 0 /\ said.day = 0
  <2>1. PICK p \in Nat, u \in Int, s \in 1..12, v \in Int, n \in 1..12 :
          /\ p = IF said.kind = "about" THEN Padding.month ELSE 0
          /\ 12 * u + s = 12 * said.year + said.month - p
          /\ 12 * v + n = 12 * said.year + said.month + p
          /\ WorkedOut(said, cal) = Bounds(MonthFirst(u, s, cal), MonthFirst(said.year, said.month, cal),
                                           MonthLast(said.year, said.month, cal), MonthLast(v, n, cal))
    BY <1>6, BoundsOfMonth
  <2>2. PICK z \in Int, k \in 1..12 : said.year = z /\ said.month = k  BY <1>6, BoundsOfMonth
  <2> DEFINE q == IF said.kind = "about" /\ ~strict THEN Padding.month ELSE 0
  <2>3. /\ NotBefore(said, strict) <=> Months(date) >= Months(said) - q
        /\ NotAfter(said, strict) <=> Months(date) <= Months(said) + q
    BY <1>6 DEF NotBefore, NotAfter
  <2>4. Months(said) = 12 * z + k  BY <2>2 DEF Months
  <2>5. CASE strict
    <3>1. /\ Earliest(WorkedOut(said, cal), strict) = MonthFirst(z, k, cal)
          /\ Latest(WorkedOut(said, cal), strict) = MonthLast(z, k, cal)
      <4>1. WorkedOut(said, cal) = Bounds(MonthFirst(u, s, cal), MonthFirst(z, k, cal),
                                          MonthLast(z, k, cal), MonthLast(v, n, cal))
        BY <2>1, <2>2
      <4>2. strict = TRUE  BY <2>5
      <4>3. \A a, b, c, d : Earliest(Bounds(a, b, c, d), strict) = b /\ Latest(Bounds(a, b, c, d), strict) = c
        BY <4>2 DEF Earliest, Latest, Bounds
      <4>4. QED  BY <4>1, <4>3
    <3>2. q = 0  BY <2>5
    <3> HIDE DEF q
    <3>3. /\ MonthFirst(z, k, cal) <= x <=> 12 * z + k <= 12 * y + m
          /\ x <= MonthLast(z, k, cal) <=> 12 * y + m <= 12 * z + k
      BY <1>1
    <3>4. QED  BY <1>1, <2>3, <2>4, <3>1, <3>2, <3>3
  <2>6. CASE ~strict
    <3>1. /\ Earliest(WorkedOut(said, cal), strict) = MonthFirst(u, s, cal)
          /\ Latest(WorkedOut(said, cal), strict) = MonthLast(v, n, cal)
      BY <1>3, <2>1, <2>6
    <3>2. q = p  BY <2>1, <2>6
    <3> HIDE DEF q
    <3>3. /\ MonthFirst(u, s, cal) <= x <=> 12 * u + s <= 12 * y + m
          /\ x <= MonthLast(v, n, cal) <=> 12 * y + m <= 12 * v + n
      BY <1>1
    <3>4. 12 * u + s = 12 * z + k - p /\ 12 * v + n = 12 * z + k + p  BY <2>1, <2>2
    <3>5. QED  BY <1>1, <2>3, <2>4, <3>1, <3>2, <3>3, <3>4
  <2>7. QED  BY <2>5, <2>6
<1>7. CASE said.kind \in {"exact", "about"} /\ said.month # 0 /\ said.day # 0
  <2> DEFINE p == IF said.kind = "about" THEN Padding.day ELSE 0
             q == IF said.kind = "about" /\ ~strict THEN Padding.day ELSE 0
             a == ToJDN(said.year, said.month, said.day, cal)
  <2>1. p \in Nat /\ a \in Int /\ WorkedOut(said, cal) = Bounds(a - p, a, a, a + p)  BY <1>7, BoundsOfDay
  <2>2. /\ NotBefore(said, strict) <=> x >= a - q
        /\ NotAfter(said, strict) <=> x <= a + q
    BY <1>7 DEF NotBefore, NotAfter
  <2>3. q \in Nat /\ (q = IF strict THEN 0 ELSE p)  BY <1>2
  <2> HIDE DEF p, q, a
  <2>4. QED  BY <1>3, <2>1, <2>2, <2>3
<1>8. CASE said.kind \notin {"exact", "about"}
  <2>1. OpenEndYear \in Int /\ EarliestYear \in Int  BY <1>8, BoundsOfOthers
  <2>2. CASE said.kind = "unspecified"
    <3>1. /\ said.month = 0 /\ said.day = 0 /\ said.year \in Int /\ said.year + said.unsaid \in Int
          /\ LET first == MonthFirst(said.year, 1, cal)
                 last == MonthLast(said.year + said.unsaid, 12, cal) IN
             WorkedOut(said, cal) = Bounds(first, first, last, last)
      BY <1>8, <2>2, BoundsOfOthers
    <3>2. /\ NotBefore(said, strict) <=> y >= said.year
          /\ NotAfter(said, strict) <=> y <= said.year + said.unsaid
      BY <2>2, <3>1 DEF NotBefore, NotAfter
    <3>3. QED  BY <1>3, <1>4, <3>1, <3>2
  <2>3. CASE said.kind = "ongoing"
    <3>1. LET last == MonthLast(OpenEndYear, 12, cal) IN WorkedOut(said, cal) = Bounds(last, last, last, last)
      BY <1>8, <2>3, BoundsOfOthers
    <3>2. NotAfter(said, strict) <=> y <= OpenEndYear  BY <2>3 DEF NotAfter
    <3>3. QED  BY <1>3, <1>4, <2>1, <2>3, <3>1, <3>2
  <2>4. CASE said.kind = "unknown"
    <3>1. LET first == MonthFirst(EarliestYear, 1, cal)
              last == MonthLast(OpenEndYear, 12, cal) IN
          WorkedOut(said, cal) = Bounds(first, first, last, last)
      BY <1>8, <2>4, BoundsOfOthers
    <3>2. /\ NotBefore(said, strict) <=> y >= EarliestYear
          /\ NotAfter(said, strict) <=> y <= OpenEndYear
      BY <2>4 DEF NotBefore, NotAfter
    <3>3. QED  BY <1>3, <1>4, <2>1, <3>1, <3>2
  <2>5. QED  BY <1>8, <2>2, <2>3, <2>4, BoundsOfOthers
<1>9. QED  BY <1>5, <1>6, <1>7, <1>8

\* The bounds that are stored of a date are in order (Bounds does not refuse them), and what they
\* say of the person's day is what was said of the date.
LEMMA HoldsIsLasts ==
  ASSUME Counted, NEW d, IsAccepted(d), d.calendar = calendar, NEW strict \in BOOLEAN
  PROVE  Earliest(BoundsOf(d), strict) <= day /\ day <= Latest(BoundsOf(d), strict) <=> Lasts(d, strict)
<1> DEFINE a == WorkedOut(d.start, calendar)
           b == WorkedOut(d.end, calendar)
<1>1. calendar \in Calendars /\ IsSaid(d.start, calendar) /\ IsSaid(d.end, calendar) /\ d.start.kind # "ongoing"
  BY DEF IsAccepted
<1>2. /\ Earliest(a, strict) <= day <=> NotBefore(d.start, strict)
      /\ day <= Latest(b, strict) <=> NotAfter(d.end, strict)
  BY <1>1, SaidIsSo
<1>3. CASE d.kind = "single"
  <2>1. d.end = d.start /\ BoundsOf(d) = a  BY <1>3 DEF IsAccepted, BoundsOf
  <2>2. QED  BY <1>2, <2>1 DEF Lasts
<1>4. CASE d.kind # "single"
  <2>1. BoundsOf(d) = SpanningBounds(a, b)  BY <1>4 DEF BoundsOf
  <2>2. /\ Earliest(SpanningBounds(a, b), strict) = Earliest(a, strict)
        /\ Latest(SpanningBounds(a, b), strict) = Latest(b, strict)
    BY DEF SpanningBounds, Bounds, Earliest, Latest
  <2>3. QED  BY <1>2, <2>1, <2>2 DEF Lasts
<1>5. QED  BY <1>3, <1>4

\* Bounds never refuses (__post_init__) what is stored of a date that work_out accepts.
THEOREM StoredInOrder ==
  ASSUME NEW d, IsAccepted(d)
  PROVE  BoundsOf(d) \in AllBounds
<1>1. WorkedOut(d.start, d.calendar) \in AllBounds /\ WorkedOut(d.end, d.calendar) \in AllBounds
  BY WorkedOutInOrder DEF IsAccepted
<1>2. CASE d.kind = "single"  BY <1>1, <1>2 DEF BoundsOf
<1>3. CASE d.kind # "single"
  <2>1. MaySpan(WorkedOut(d.start, d.calendar), WorkedOut(d.end, d.calendar))  BY <1>3 DEF IsAccepted
  <2>2. QED  BY <1>1, <1>3, <2>1, SpanInOrder DEF BoundsOf
<1>4. QED  BY <1>2, <1>3

\* There is one quotient, and one remainder.
LEMMA OneQuotient ==
  ASSUME NEW n \in Nat \ {0}, NEW q \in Int, NEW r \in Int, 0 <= r, r < n
  PROVE  (n * q + r) \div n = q /\ (n * q + r) % n = r
<1> DEFINE x == n * q + r
           e == x \div n
           s == x % n
<1>1. x \in Int  OBVIOUS
<1>2. e \in Int /\ s \in Int /\ 0 <= s /\ s < n /\ x = n * e + s  BY <1>1
<1>3. n * q + r = n * e + s  BY <1>2
<1> HIDE DEF x, e, s
<1>4. n * (q - e) = s - r  BY <1>2, <1>3
<1>5. CASE q - e >= 1
  <2>1. n * (q - e) >= n  BY <1>2, <1>5
  <2>2. QED  BY <1>2, <1>4, <2>1
<1>6. CASE q - e <= -1
  <2>1. n * (q - e) <= -n  BY <1>2, <1>6
  <2>2. QED  BY <1>2, <1>4, <2>1
<1>7. CASE q = e
  <2>1. n * (q - e) = 0  BY <1>2, <1>7
  <2>2. QED  BY <1>2, <1>4, <1>7, <2>1 DEF x, e, s
<1>8. QED  BY <1>2, <1>5, <1>6, <1>7

\* Each so many weeks: a quotient of days by seven, which is a multiple, and what remains of so
\* many weeks, which is less than one.
LEMMA EachWeeks ==
  ASSUME NEW x \in Int, NEW k \in Nat \ {0}
  PROVE  (x \div 7) % k = 0 <=> x % (7 * k) < 7
<1> DEFINE q == x \div 7
           s == x % 7
           e == q \div k
           r == q % k
<1>1. q \in Int /\ s \in 0..6 /\ x = 7 * q + s  OBVIOUS
<1>2. e \in Int /\ r \in Int /\ 0 <= r /\ r < k /\ q = k * e + r  BY <1>1
<1> HIDE DEF q, s, e, r
<1>3. PICK n \in Nat \ {0}, t \in Int : n = 7 * k /\ t = 7 * r + s  BY <1>1, <1>2
<1>4. 0 <= t /\ t < n  BY <1>1, <1>2, <1>3
<1>5. x = n * e + t
  <2>1. x = 7 * (k * e + r) + s  BY <1>1, <1>2
  <2>2. n * e = 7 * (k * e)  BY <1>2, <1>3
  <2>3. QED  BY <1>1, <1>2, <1>3, <2>1, <2>2
<1>6. (n * e + t) % n = t  BY <1>2, <1>3, <1>4, OneQuotient
<1>7. x % n = t  BY <1>5, <1>6
<1>8. r = 0 <=> t < 7  BY <1>1, <1>2, <1>3
<1>9. QED  BY <1>3, <1>7, <1>8 DEF r, q

-----------------------------------------------------------------------------
(* Where a rule falls *)

\* The days of a month that have the weekday of a day: up to it, and from it to the end.
UpTo(n) == {d \in 1..n : (n - d) % 7 = 0}
From(n, l) == {d \in n..l : (d - n) % 7 = 0}

\* Up to it there are the day, and one for each week.
LEMMA WeekdaysBefore ==
  ASSUME NEW n \in Nat \ {0}
  PROVE  Cardinality(UpTo(n)) = (n - 1) \div 7 + 1
<1> DEFINE m == (n - 1) \div 7
           S == UpTo(n)
           f == [j \in 0..m |-> n - 7 * j]
<1>1. m \in Nat /\ 7 * m <= n - 1 /\ n - 1 < 7 * m + 7  OBVIOUS
<1>2. \A j \in 0..m : f[j] \in S
  <2> HIDE DEF m
  <2> TAKE j \in 0..m
  <2>1. n - 7 * j \in 1..n /\ (n - (n - 7 * j)) % 7 = 0  BY <1>1
  <2>2. QED  BY <2>1 DEF UpTo
<1>3. \A i, j \in 0..m : f[i] = f[j] => i = j
  <2> HIDE DEF m
  <2> QED  BY <1>1
<1>4. \A d \in S : \E j \in 0..m : f[j] = d
  <2> TAKE d \in S
  <2>1. d \in 1..n /\ (n - d) % 7 = 0  BY DEF UpTo
  <2> PICK j \in Int : n - d = 7 * j  BY <2>1
  <2> HIDE DEF m
  <2>2. j \in 0..m /\ n - 7 * j = d  BY <1>1, <2>1
  <2>3. f[j] = d  BY <2>2
  <2>4. QED  BY <2>2, <2>3
<1>5. f \in Bijection(0..m, S)
  <2> HIDE DEF m, S
  <2>1. f \in [0..m -> S]  BY <1>2
  <2> HIDE DEF f
  <2>2. f \in Injection(0..m, S)  BY <1>3, <2>1 DEF Injection, IsInjective
  <2>3. f \in Surjection(0..m, S)  BY <1>4, <2>1 DEF Surjection
  <2>4. QED  BY <2>2, <2>3 DEF Bijection
<1>6. IsFiniteSet(0..m) /\ Cardinality(0..m) = m + 1
  <2> HIDE DEF m
  <2> PICK z \in Int : z = 0  OBVIOUS
  <2>1. IsFiniteSet(z..m) /\ Cardinality(z..m) = IF z > m THEN 0 ELSE m - z + 1  BY <1>1, FS_Interval
  <2>2. QED  BY <1>1, <2>1
<1> HIDE DEF m, S, f
<1>7. Cardinality(S) = Cardinality(0..m)  BY <1>5, <1>6, FS_Bijection DEF ExistsBijection
<1>8. QED  BY <1>6, <1>7 DEF m, S

\* And from it to the end.
LEMMA WeekdaysAfter ==
  ASSUME NEW n \in Nat \ {0}, NEW l \in Nat, n <= l
  PROVE  Cardinality(From(n, l)) = (l - n) \div 7 + 1
<1> DEFINE m == (l - n) \div 7
           S == From(n, l)
           f == [j \in 0..m |-> n + 7 * j]
<1>1. m \in Nat /\ 7 * m <= l - n /\ l - n < 7 * m + 7  OBVIOUS
<1>2. \A j \in 0..m : f[j] \in S
  <2> HIDE DEF m
  <2> TAKE j \in 0..m
  <2>1. n + 7 * j \in n..l /\ (n + 7 * j - n) % 7 = 0  BY <1>1
  <2>2. QED  BY <2>1 DEF From
<1>3. \A i, j \in 0..m : f[i] = f[j] => i = j
  <2> HIDE DEF m
  <2> QED  BY <1>1
<1>4. \A d \in S : \E j \in 0..m : f[j] = d
  <2> TAKE d \in S
  <2>1. d \in n..l /\ (d - n) % 7 = 0  BY DEF From
  <2> PICK j \in Int : d - n = 7 * j  BY <2>1
  <2> HIDE DEF m
  <2>2. j \in 0..m /\ n + 7 * j = d  BY <1>1, <2>1
  <2>3. f[j] = d  BY <2>2
  <2>4. QED  BY <2>2, <2>3
<1>5. f \in Bijection(0..m, S)
  <2> HIDE DEF m, S
  <2>1. f \in [0..m -> S]  BY <1>2
  <2> HIDE DEF f
  <2>2. f \in Injection(0..m, S)  BY <1>3, <2>1 DEF Injection, IsInjective
  <2>3. f \in Surjection(0..m, S)  BY <1>4, <2>1 DEF Surjection
  <2>4. QED  BY <2>2, <2>3 DEF Bijection
<1>6. IsFiniteSet(0..m) /\ Cardinality(0..m) = m + 1
  <2> HIDE DEF m
  <2> PICK z \in Int : z = 0  OBVIOUS
  <2>1. IsFiniteSet(z..m) /\ Cardinality(z..m) = IF z > m THEN 0 ELSE m - z + 1  BY <1>1, FS_Interval
  <2>2. QED  BY <1>1, <2>1
<1> HIDE DEF m, S, f
<1>7. Cardinality(S) = Cardinality(0..m)  BY <1>5, <1>6, FS_Bijection DEF ExistsBijection
<1>8. QED  BY <1>6, <1>7 DEF m, S

\* The n-th day of a weekday in a month of l days, from its end if n < 0; and which a day of it is.
NthFrom(first, l, w, n) ==
  LET last == first + l - 1 IN
  IF n > 0 THEN first + ((w - Weekday(first)) % 7) + 7 * (n - 1)
  ELSE last - ((Weekday(last) - w) % 7) + 7 * (n + 1)
Nths(d, l) == {(d - 1) \div 7 + 1, -((l - d) \div 7 + 1)}

\* Day d of a month of l days, of which the first has this number.
IsDayOf(x, first, l, d) ==
  first \in Int /\ l \in 28..31 /\ d \in 1..31 /\ d <= l /\ x \in Int /\ x = first + d - 1

\* A day is the n-th that is found just if it has the weekday, and is the n-th to have it.
LEMMA NthOfSeven ==
  ASSUME NEW x, NEW first, NEW l, NEW d, IsDayOf(x, first, l, d), NEW w \in 0..6, NEW n \in (-5..5) \ {0}
  PROVE  x = NthFrom(first, l, w, n) <=> Weekday(x) = w /\ n \in Nths(d, l)
<1> first \in Int /\ l \in 28..31 /\ d \in 1..31 /\ d <= l /\ x \in Int /\ x = first + d - 1  BY DEF IsDayOf
<1> PICK last \in Int : last = first + l - 1  OBVIOUS
<1>2. PICK e \in Int : d - 1 = 7 * e + ((d - 1) % 7) /\ e = (d - 1) \div 7 /\ (d - 1) % 7 \in 0..6  OBVIOUS
<1>3. PICK g \in Int : l - d = 7 * g + ((l - d) % 7) /\ g = (l - d) \div 7 /\ (l - d) % 7 \in 0..6  OBVIOUS
<1>4. Weekday(x) = w <=> (d - 1) % 7 = (w - Weekday(first)) % 7  BY DEF Weekday
<1>5. Weekday(x) = w <=> (l - d) % 7 = (Weekday(last) - w) % 7  BY DEF Weekday
<1>6. (w - Weekday(first)) % 7 \in 0..6 /\ (Weekday(last) - w) % 7 \in 0..6  BY DEF Weekday
<1>7. e + 1 > 0 /\ -(g + 1) < 0  BY <1>2, <1>3
<1>8. CASE n > 0
  <2>1. NthFrom(first, l, w, n) = first + ((w - Weekday(first)) % 7) + 7 * (n - 1)  BY <1>8 DEF NthFrom
  <2>2. x = first + ((w - Weekday(first)) % 7) + 7 * (n - 1)
          <=> 7 * e + ((d - 1) % 7) = ((w - Weekday(first)) % 7) + 7 * (n - 1)
    BY <1>2, <1>6
  <2>3. 7 * e + ((d - 1) % 7) = ((w - Weekday(first)) % 7) + 7 * (n - 1)
          <=> e = n - 1 /\ (d - 1) % 7 = (w - Weekday(first)) % 7
    BY <1>2, <1>6
  <2>4. n \in Nths(d, l) <=> n = e + 1  BY <1>2, <1>3, <1>7, <1>8 DEF Nths
  <2>5. QED  BY <1>2, <1>4, <2>1, <2>2, <2>3, <2>4
<1>9. CASE n < 0
  <2>1. NthFrom(first, l, w, n) = last - ((Weekday(last) - w) % 7) + 7 * (n + 1)  BY <1>9 DEF NthFrom
  <2>2. x = last - ((Weekday(last) - w) % 7) + 7 * (n + 1)
          <=> 7 * g + ((l - d) % 7) = ((Weekday(last) - w) % 7) - 7 * (n + 1)
    BY <1>3, <1>6
  <2>3. 7 * g + ((l - d) % 7) = ((Weekday(last) - w) % 7) - 7 * (n + 1)
          <=> g = -(n + 1) /\ (l - d) % 7 = (Weekday(last) - w) % 7
    BY <1>3, <1>6
  <2>4. n \in Nths(d, l) <=> n = -(g + 1)  BY <1>2, <1>3, <1>7, <1>9 DEF Nths
  <2>5. QED  BY <1>3, <1>5, <2>1, <2>2, <2>3, <2>4
<1>10. QED  BY <1>8, <1>9

\* What nth_weekday finds of a month is the day that has that weekday, and is the n-th to have it,
\* from the beginning or from the end.
LEMMA NthWeekdayOf ==
  ASSUME NEW cal \in Calendars, NEW year \in Int, NEW month \in 1..12, NEW d \in 1..31, IsDate(year, month, d, cal),
         NEW x \in Int, x = ToJDN(year, month, d, cal), NEW w \in 0..6, NEW n \in (-5..5) \ {0}
  PROVE  x \in NthWeekday(year, month, w, n, cal)
           <=> Weekday(x) = w /\ n \in Nths(d, MonthLength(year, month, cal))
<1> PICK first \in Int, l \in 28..31 : first = ToJDN(year, month, 1, cal) /\ l = MonthLength(year, month, cal)
  BY DateOfMonth DEF MonthFirst
<1>1. d <= l /\ x = first + d - 1  BY DateOfMonth DEF MonthFirst
<1>2. x = NthFrom(first, l, w, n) <=> Weekday(x) = w /\ n \in Nths(d, l)
  <2>1. IsDayOf(x, first, l, d)  BY <1>1 DEF IsDayOf
  <2>2. QED  BY <2>1, NthOfSeven
<1>3. x \in first..(first + l - 1)  BY <1>1
<1>4. NthWeekday(year, month, w, n, cal) = {NthFrom(first, l, w, n)} \cap first..(first + l - 1)
  <2> DEFINE last == first + l - 1
             found == IF n > 0 THEN first + ((w - Weekday(first)) % 7) + 7 * (n - 1)
                      ELSE last - ((Weekday(last) - w) % 7) + 7 * (n + 1)
  <2>1. NthFrom(first, l, w, n) = found  BY DEF NthFrom
  <2>2. NthWeekday(year, month, w, n, cal) = {found} \cap first..last  BY DEF NthWeekday
  <2> HIDE DEF found
  <2>3. QED  BY <2>1, <2>2
<1>5. QED  BY <1>2, <1>3, <1>4

\* Which rules are on an n-th weekday, and of which.
LEMMA RuleOfWeekday ==
  ASSUME NEW rule, IsRule(rule), ~Moving(rule), rule.frequency # "weekly", rule.month_day = None
  PROVE  /\ TheWeekday(rule) \in 0..6 /\ rule.weekdays = {TheWeekday(rule)}
         /\ rule.nth \in (-5..5) \ {0}
<1>1. PICK w \in 0..6 : rule.weekdays = {w}  BY DEF IsRule
<1>2. rule.nth # None /\ rule.nth \in (-5..5 \ {0}) \cup {None}  BY DEF IsRule
<1>3. TheWeekday(rule) = w  BY <1>1 DEF TheWeekday
<1>4. QED  BY <1>1, <1>2, <1>3

\* A rule's weekday of the month is found as it is counted.
LEMMA NthIsCounted ==
  ASSUME Counted, NEW rule, IsRule(rule), ~Moving(rule), rule.frequency # "weekly", rule.month_day = None
  PROVE  day \in NthWeekday(date.year, date.month, TheWeekday(rule), rule.nth, calendar) <=> InTheMonth(rule)
<1> PICK w \in 0..6, n \in (-5..5) \ {0} : w = TheWeekday(rule) /\ n = rule.nth  BY RuleOfWeekday
<1> PICK y \in Int, m \in 1..12, d \in 1..31, x \in Int, cal \in Calendars :
      date.year = y /\ date.month = m /\ date.day = d /\ day = x /\ calendar = cal
  BY DateParts, DayIsInt
<1>1. IsDate(y, m, d, cal) /\ x = ToJDN(y, m, d, cal) /\ weekday = Weekday(x)  BY DEF Counted
<1> PICK l \in 28..31 : l = MonthLength(y, m, cal)  BY <1>1, DateOfMonth
<1>2. d <= l  BY <1>1, DateOfMonth
<1>3. x \in NthWeekday(y, m, w, n, cal) <=> Weekday(x) = w /\ n \in Nths(d, l)
  <2>1. x \in NthWeekday(y, m, w, n, cal) <=> Weekday(x) = w /\ n \in Nths(d, MonthLength(y, m, cal))
    BY <1>1, NthWeekdayOf
  <2>2. QED  BY <2>1
<1>4. DaysOf(date) = l
  <2>1. date.year \in MinYear..MaxYear  BY DateParts
  <2>2. DaysOf(date) = MonthLength(date.year, date.month, calendar)  BY <2>1, MonthsAreCounted
  <2>3. QED  BY <2>2
<1>5. Cardinality(UpTo(d)) = (d - 1) \div 7 + 1 /\ Cardinality(From(d, l)) = (l - d) \div 7 + 1
  <2>1. d \in Nat \ {0} /\ l \in Nat  OBVIOUS
  <2>2. QED  BY <1>2, <2>1, WeekdaysBefore, WeekdaysAfter
<1>6. InTheMonth(rule) <=> /\ Weekday(x) = w
                           /\ IF n > 0 THEN n = (d - 1) \div 7 + 1 ELSE -n = (l - d) \div 7 + 1
  <2>1. weekday \in rule.weekdays <=> Weekday(x) = w  BY <1>1, RuleOfWeekday
  <2>2. InTheMonth(rule) <=>
          /\ weekday \in rule.weekdays
          /\ IF n > 0 THEN n = Cardinality(UpTo(d)) ELSE -n = Cardinality(From(d, l))
    BY <1>4 DEF InTheMonth, UpTo, From
  <2>3. QED  BY <1>5, <2>1, <2>2
<1>7. /\ n \in Int /\ n # 0
      /\ n > 0 => n # -((l - d) \div 7 + 1)
      /\ ~(n > 0) => n # (d - 1) \div 7 + 1
      /\ -n = (l - d) \div 7 + 1 <=> n = -((l - d) \div 7 + 1)
  BY <1>2
<1>8. QED
  <2>1. CASE n > 0  BY <1>3, <1>6, <1>7, <2>1 DEF Nths
  <2>2. CASE ~(n > 0)  BY <1>3, <1>6, <1>7, <2>2 DEF Nths
  <2>3. QED  BY <2>1, <2>2

\* A year of which digits are left out is one that the code allows, if the last it may be is.
LEMMA YearsOfNone ==
  ASSUME NEW y \in Int, NEW n \in Nat, y >= 0, y + n <= MaxYear
  PROVE  y \in MinYear..MaxYear
<1>1. MinYear \in Int /\ MaxYear \in Int /\ MinYear <= 0  BY DEF MinYear, MaxYear
<1>2. QED  BY <1>1

\* What each second week, month or year of a rule is counted from (the earliest strict day that is
\* stored) is the first day of its lifetime, by its number and by its name.
LEMMA AnchorIsBeginning ==
  ASSUME NEW d, IsAccepted(d)
  PROVE  LET b == Beginning(d) IN
         /\ IsDate(b.year, b.month, b.day, d.calendar)
         /\ Anchor(d) = ToJDN(b.year, b.month, b.day, d.calendar)
         /\ FromJDN(Anchor(d), d.calendar) = b
<1> DEFINE said == d.start
           b == Beginning(d)
<1>1. d.calendar \in Calendars /\ IsSaid(said, d.calendar) /\ said.kind # "ongoing"  BY DEF IsAccepted
<1> PICK cal \in Calendars : cal = d.calendar  BY <1>1
<1>2. b = [year |-> b.year, month |-> b.month, day |-> b.day]  BY DEF Beginning
<1>3. IsDate(b.year, b.month, b.day, cal) /\ WorkedOut(said, cal).earliest_strict = ToJDN(b.year, b.month, b.day, cal)
  <2>1. CASE said.kind \in {"exact", "about"} /\ said.month = 0
    <3>1. WorkedOut(said, cal).earliest_strict = MonthFirst(said.year, 1, cal)
      BY <1>1, <2>1, BoundsOfYear DEF Bounds
    <3>2. IsDate(said.year, 1, 1, cal)  BY <1>1, <2>1 DEF IsSaid
    <3>3. b.year = said.year /\ b.month = 1 /\ b.day = 1  BY <1>1, <2>1 DEF Beginning, IsSaid
    <3>4. QED  BY <3>1, <3>2, <3>3 DEF MonthFirst
  <2>2. CASE said.kind \in {"exact", "about"} /\ said.month # 0 /\ said.day = 0
    <3>1. WorkedOut(said, cal).earliest_strict = MonthFirst(said.year, said.month, cal)
      BY <1>1, <2>2, BoundsOfMonth DEF Bounds
    <3>2. IsDate(said.year, said.month, 1, cal)  BY <1>1, <2>2 DEF IsSaid
    <3>3. b.year = said.year /\ b.month = said.month /\ b.day = 1  BY <2>2 DEF Beginning
    <3>4. QED  BY <3>1, <3>2, <3>3 DEF MonthFirst
  <2>3. CASE said.kind \in {"exact", "about"} /\ said.month # 0 /\ said.day # 0
    <3>1. /\ WorkedOut(said, cal).earliest_strict = ToJDN(said.year, said.month, said.day, cal)
          /\ IsDate(said.year, said.month, said.day, cal)
      BY <1>1, <2>3, BoundsOfDay DEF Bounds
    <3>2. b.year = said.year /\ b.month = said.month /\ b.day = said.day  BY <2>3 DEF Beginning
    <3>3. QED  BY <3>1, <3>2
  <2>4. CASE said.kind = "unspecified"
    <3>1. WorkedOut(said, cal).earliest_strict = MonthFirst(said.year, 1, cal)
      BY <1>1, <2>4, BoundsOfOthers DEF Bounds
    <3>2. said.month = 0 /\ said.day = 0 /\ said.year \in MinYear..MaxYear
      <4>1. said.month = 0 /\ said.day = 0 /\ said.year >= 0 /\ said.year + said.unsaid <= MaxYear
        BY <1>1, <2>4 DEF IsSaid
      <4>2. said.year \in Int /\ said.unsaid \in Nat  BY <1>1 DEF IsSaid
      <4>3. PICK y \in Int, n \in Nat : y = said.year /\ n = said.unsaid  BY <4>2
      <4>4. y >= 0 /\ y + n <= MaxYear  BY <4>1, <4>3
      <4>5. y \in MinYear..MaxYear  BY <4>4, YearsOfNone
      <4>6. QED  BY <4>1, <4>3, <4>5
    <3>3. b.year = said.year /\ b.month = 1 /\ b.day = 1  BY <2>4, <3>2 DEF Beginning
    <3>4. QED  BY <3>1, <3>2, <3>3, NewYearIsDate DEF MonthFirst
  <2>5. CASE said.kind = "unknown"
    <3>1. WorkedOut(said, cal).earliest_strict = MonthFirst(EarliestYear, 1, cal)
      BY <1>1, <2>5, BoundsOfOthers DEF Bounds
    <3>2. b.year = EarliestYear /\ b.month = 1 /\ b.day = 1  BY <2>5 DEF Beginning
    <3>3. QED  BY <3>1, <3>2, NewYearIsDate, BoundsAssumption DEF MonthFirst
  <2>6. said.kind \in {"exact", "about", "unspecified", "unknown"}  BY <1>1 DEF IsSaid
  <2>7. QED  BY <2>1, <2>2, <2>3, <2>4, <2>5, <2>6
<1>4. Anchor(d) = ToJDN(b.year, b.month, b.day, d.calendar)  BY <1>3 DEF Anchor
<1>5. FromJDN(Anchor(d), cal) = [year |-> b.year, month |-> b.month, day |-> b.day]
  BY <1>3, <1>4, DaysHaveNames
<1>6. QED  BY <1>2, <1>3, <1>4, <1>5

\* The parts of a rule.
LEMMA RuleParts ==
  ASSUME NEW rule, IsRule(rule)
  PROVE  /\ rule.interval \in Nat \ {0} /\ rule.leap_shift \in BOOLEAN /\ None \in Int
         /\ rule.frequency \in {"weekly", "monthly", "yearly"}
         /\ rule.month_day # None => rule.month_day \in 1..31
         /\ rule.easter_offset # None => rule.easter_offset \in -80..250
         /\ rule.leap_shift =>
              rule.frequency = "yearly" /\ rule.month = 2 /\ rule.month_day \in 24..28 /\ ~Moving(rule)
         /\ Moving(rule) => rule.frequency = "yearly" /\ (rule.easter_offset = None \/ rule.feast = None)
<1>1. /\ rule.frequency \in {"weekly", "monthly", "yearly"} /\ rule.interval \in Nat \ {0}
      /\ rule.leap_shift \in BOOLEAN /\ rule.month_day \in 1..31 \cup {None}
      /\ rule.easter_offset \in -80..250 \cup {None}
  BY DEF IsRule
<1>2. None \in Int  BY DEF None
<1>3. QED  BY <1>1, <1>2 DEF IsRule

\* The name of the person's day is what the code works out of its number.
LEMMA DayIsDate == ASSUME Counted PROVE FromJDN(day, calendar) = date
<1>1. /\ calendar \in Calendars /\ IsDate(date.year, date.month, date.day, calendar)
      /\ date \in [year : MinYear..MaxYear, month : 1..12, day : 1..31]
      /\ day = ToJDN(date.year, date.month, date.day, calendar)
  BY DEF Counted
<1>2. FromJDN(day, calendar) = [year |-> date.year, month |-> date.month, day |-> date.day]
  BY <1>1, DaysHaveNames
<1>3. QED  BY <1>1, <1>2

\* A day of the month, with the shift of the feasts at the end of February, is the day that is as
\* far from the end of the month as it is in a common year.
LEMMA DayOfTheMonth ==
  ASSUME Counted, NEW rule, IsRule(rule), rule.month_day # None,
         rule.frequency = "yearly" => date.month = rule.month
  PROVE  date.day = rule.month_day + Shift(rule, date.year, calendar) <=> OfTheMonth(rule)
<1> PICK y \in Int, m \in 1..12, d \in 1..31, cal \in Calendars, k \in 1..31 :
      date.year = y /\ date.month = m /\ date.day = d /\ calendar = cal /\ rule.month_day = k
  BY DateParts, RuleParts
<1>1. CASE rule.leap_shift
  <2>1. m = 2 /\ k \in 24..28  BY <1>1, RuleParts
  <2>2. date.year \in MinYear..MaxYear  BY DateParts
  <2>3. DaysOf(date) = MonthLength(date.year, date.month, calendar)  BY <2>2, MonthsAreCounted
  <2>4. DaysOf(date) = MonthLength(y, 2, cal)  BY <2>1, <2>3
  <2>5. MonthLength(y, 2, cal) = IF IsLeapYear(y, cal) THEN 29 ELSE 28  BY DEF MonthLength
  <2>6. OfTheMonth(rule) <=> DaysOf(date) - d = 28 - k  BY <1>1 DEF OfTheMonth
  <2>7. Shift(rule, y, cal) = IF IsLeapYear(y, cal) THEN 1 ELSE 0  BY <1>1 DEF Shift
  <2>8. CASE IsLeapYear(y, cal)
    <3>1. DaysOf(date) = 29 /\ Shift(rule, y, cal) = 1  BY <2>4, <2>5, <2>7, <2>8
    <3>2. QED  BY <2>6, <3>1
  <2>9. CASE ~IsLeapYear(y, cal)
    <3>1. DaysOf(date) = 28 /\ Shift(rule, y, cal) = 0  BY <2>4, <2>5, <2>7, <2>9
    <3>2. QED  BY <2>6, <3>1
  <2>10. QED  BY <2>8, <2>9
<1>2. CASE ~rule.leap_shift
  <2>1. Shift(rule, y, cal) = 0  BY <1>2 DEF Shift
  <2>2. OfTheMonth(rule) <=> d = k  BY <1>2 DEF OfTheMonth
  <2>3. QED  BY <2>1, <2>2
<1>3. QED  BY <1>1, <1>2

\* Where the rule of a document falls, but on feasts, is where it is counted to fall.
LEMMA OccursIsFalls ==
  ASSUME Counted, NEW d, IsAccepted(d), d.kind = "recurrence", d.calendar = calendar, NEW extraKeys,
         d.rule.feast = None
  PROVE  OccursOn(d.rule, day, calendar, Anchor(d), extraKeys) <=> Falls(d)
<1> DEFINE rule == d.rule
           b == Beginning(d)
           first == ToJDN(b.year, b.month, b.day, calendar)
           Each(n) == n % rule.interval = 0
           InMonth == IF rule.month_day # None THEN OfTheMonth(rule) ELSE InTheMonth(rule)
<1>1. IsRule(rule)  BY DEF IsAccepted
<1>2. FromJDN(day, calendar) = date /\ FromJDN(Anchor(d), calendar) = b /\ Anchor(d) = first
  BY DayIsDate, AnchorIsBeginning
<1>3. IsDate(b.year, b.month, b.day, calendar)  BY AnchorIsBeginning
<1>4. /\ calendar \in Calendars /\ date.year \in Int /\ date.month \in 1..12 /\ date.day \in Int
      /\ day \in Int /\ weekday = Weekday(day)
  BY DateParts, DayIsInt
<1>5. b.year \in Int /\ b.month \in 1..12 /\ first \in Int  BY <1>3, <1>4, DateOfMonth
<1>6. /\ rule.interval \in Nat \ {0} /\ rule.frequency \in {"weekly", "monthly", "yearly"}
      /\ Moving(rule) => rule.frequency = "yearly"
  BY <1>1, RuleParts
<1>7. CASE Moving(rule)
  <2>1. Easter(date.year, calendar) = EasterSunday  BY EasterOfYear
  <2>2. OccursOn(rule, day, calendar, Anchor(d), extraKeys) <=>
          /\ day \notin rule.excluded_days
          /\ day = Easter(date.year, calendar) + rule.easter_offset
          /\ (date.year - b.year) % rule.interval = 0
    BY <1>2, <1>7 DEF OccursOn
  <2>3. Falls(d) <=>
          /\ day \notin rule.excluded_days
          /\ day = EasterSunday + rule.easter_offset
          /\ (date.year - b.year) % rule.interval = 0
    BY <1>7 DEF Falls
  <2>4. QED  BY <2>1, <2>2, <2>3
<1>8. CASE ~Moving(rule) /\ rule.frequency = "weekly"
  <2>1. OccursOn(rule, day, calendar, Anchor(d), extraKeys) <=>
          /\ day \notin rule.excluded_days
          /\ Weekday(day) \in rule.weekdays /\ ((day - first) \div 7) % rule.interval = 0
    BY <1>2, <1>8 DEF OccursOn
  <2>2. Falls(d) <=>
          /\ day \notin rule.excluded_days
          /\ weekday \in rule.weekdays /\ (day - first) % (7 * rule.interval) < 7
    BY <1>8 DEF Falls
  <2>3. ((day - first) \div 7) % rule.interval = 0 <=> (day - first) % (7 * rule.interval) < 7
    <3> PICK x \in Int, k \in Nat \ {0} : x = day - first /\ k = rule.interval  BY <1>4, <1>5, <1>6
    <3>1. (x \div 7) % k = 0 <=> x % (7 * k) < 7  BY EachWeeks
    <3>2. QED  BY <3>1
  <2>4. QED  BY <1>4, <2>1, <2>2, <2>3
<1>9. CASE ~Moving(rule) /\ rule.frequency # "weekly"
  <2> DEFINE Found == IF rule.month_day # None THEN date.day = rule.month_day + Shift(rule, date.year, calendar)
                      ELSE day \in NthWeekday(date.year, date.month, TheWeekday(rule), rule.nth, calendar)
  <2>1. (rule.frequency = "yearly" => date.month = rule.month) => (Found <=> InMonth)
    <3>1. CASE rule.month_day # None
      <4> SUFFICES ASSUME rule.frequency = "yearly" => date.month = rule.month
                   PROVE  Found <=> InMonth
        OBVIOUS
      <4>1. date.day = rule.month_day + Shift(rule, date.year, calendar) <=> OfTheMonth(rule)
        BY <1>1, <3>1, DayOfTheMonth
      <4>2. QED  BY <3>1, <4>1
    <3>2. CASE rule.month_day = None
      <4>1. day \in NthWeekday(date.year, date.month, TheWeekday(rule), rule.nth, calendar) <=> InTheMonth(rule)
        BY <1>1, <1>9, <3>2, NthIsCounted
      <4>2. QED  BY <3>2, <4>1
    <3>3. QED  BY <3>1, <3>2
  <2>2. CASE rule.frequency = "yearly"
    <3>1. OccursOn(rule, day, calendar, Anchor(d), extraKeys) <=>
            /\ day \notin rule.excluded_days
            /\ date.month = rule.month /\ Found
            /\ (date.year - b.year) % rule.interval = 0
      BY <1>2, <1>9, <2>2 DEF OccursOn
    <3>2. Falls(d) <=>
            /\ day \notin rule.excluded_days
            /\ date.month = rule.month /\ InMonth
            /\ (date.year - b.year) % rule.interval = 0
      BY <1>9, <2>2 DEF Falls
    <3> HIDE DEF Found, InMonth
    <3>3. QED  BY <2>1, <2>2, <3>1, <3>2
  <2>3. CASE rule.frequency = "monthly"
    <3>1. OccursOn(rule, day, calendar, Anchor(d), extraKeys) <=>
            /\ day \notin rule.excluded_days /\ Found
            /\ ((date.year - b.year) * 12 + date.month - b.month) % rule.interval = 0
      BY <1>2, <1>9, <2>3 DEF OccursOn
    <3>2. Falls(d) <=>
            /\ day \notin rule.excluded_days /\ InMonth
            /\ (Months(date) - Months(b)) % rule.interval = 0
      BY <1>9, <2>3 DEF Falls
    <3>3. (date.year - b.year) * 12 + date.month - b.month = Months(date) - Months(b)
      BY <1>4, <1>5 DEF Months
    <3> HIDE DEF Found, InMonth
    <3>4. QED  BY <2>1, <2>3, <3>1, <3>2, <3>3
  <2>4. QED  BY <1>6, <1>9, <2>2, <2>3
<1>10. QED  BY <1>7, <1>8, <1>9

-----------------------------------------------------------------------------
(* What finds it: the keys, and the days of a stretch *)

\* Easter is a day, whatever the year.
LEMMA EasterIsInt ==
  ASSUME NEW cal \in Calendars, NEW year \in Int
  PROVE  Easter(year, cal) \in Int
<1>1. ASSUME NEW n \in Int, NEW k \in 0..28, NEW s \in n + k + 1 .. n + k + 7 PROVE s \in Int  OBVIOUS
<1>2. CASE cal = "julian"
  <2>1. ToJDN(year, 3, 21, cal) \in Int  BY TwentyFirst
  <2>2. PICK n \in Int, k \in 0..28 :
          n = ToJDN(year, 3, 21, cal) /\ k = JulianMoon(year) /\ JulianEaster(year) \in n + k + 1 .. n + k + 7
    BY <1>2, <2>1, JulianIsSunday
  <2>3. QED  BY <1>1, <1>2, <2>2 DEF Easter
<1>3. CASE cal = "gregorian"
  <2>1. ToJDN(year, 3, 21, cal) \in Int  BY TwentyFirst
  <2>2. PICK n \in Int, k \in 0..28 :
          n = ToJDN(year, 3, 21, cal) /\ k = GregorianMoon(year) /\ GregorianEaster(year) \in n + k + 1 .. n + k + 7
    BY <1>3, <2>1, GregorianIsSunday
  <2>3. QED  BY <1>1, <1>3, <2>2 DEF Easter
<1>4. QED  BY <1>2, <1>3 DEF Calendars

\* A number of days' keys, by name.
LEMMA KeysOfDay ==
  ASSUME NEW cal \in Calendars, NEW year \in Int, NEW month \in 1..12, NEW d \in 1..31, IsDate(year, month, d, cal),
         NEW x \in Int, x = ToJDN(year, month, d, cal), NEW extraKeys
  PROVE  LET keys == DayKeys(x, cal, extraKeys) IN
         /\ extraKeys \subseteq keys
         /\ <<"weekday", Weekday(x)>> \in keys /\ <<"monthday", d>> \in keys /\ <<"yearday", month, d>> \in keys
         /\ <<"easter", x - Easter(year, cal)>> \in keys
         /\ \A n \in Nths(d, MonthLength(year, month, cal)) :
              <<"nth", n, Weekday(x)>> \in keys /\ <<"yearnth", month, n, Weekday(x)>> \in keys
<1>1. FromJDN(x, cal) = [year |-> year, month |-> month, day |-> d]  BY DaysHaveNames
<1> DEFINE w == Weekday(x)
           nths == Nths(d, MonthLength(year, month, cal))
<1>2. DayKeys(x, cal, extraKeys) =
        {<<"weekday", w>>, <<"monthday", d>>, <<"yearday", month, d>>, <<"easter", x - Easter(year, cal)>>}
        \cup {<<"nth", n, w>> : n \in nths} \cup {<<"yearnth", month, n, w>> : n \in nths} \cup extraKeys
  BY <1>1 DEF DayKeys, Nths
<1> HIDE DEF w, nths
<1>3. QED  BY <1>2 DEF w, nths

\* What a query selects by its keys leaves out no date that a rule then finds on the day: one of
\* the keys of a rule is among those of every day it falls on.
THEOREM KeysMissNoDay ==
  ASSUME NEW cal \in Calendars, NEW year, NEW month, NEW d, IsDate(year, month, d, cal),
         NEW rule, IsRule(rule), NEW anchor, NEW extraKeys,
         OccursOn(rule, ToJDN(year, month, d, cal), cal, anchor, extraKeys)
  PROVE  PatternKeys(rule) \cap DayKeys(ToJDN(year, month, d, cal), cal, extraKeys) # {}
<1>1. year \in Int /\ month \in 1..12 /\ d \in 1..31 /\ ToJDN(year, month, d, cal) \in Int  BY DateOfMonth
<1> PICK x \in Int : x = ToJDN(year, month, d, cal)  BY <1>1
<1> DEFINE keys == DayKeys(x, cal, extraKeys)
<1>2. /\ extraKeys \subseteq keys
      /\ <<"weekday", Weekday(x)>> \in keys /\ <<"monthday", d>> \in keys /\ <<"yearday", month, d>> \in keys
      /\ <<"easter", x - Easter(year, cal)>> \in keys
      /\ \A n \in Nths(d, MonthLength(year, month, cal)) :
           <<"nth", n, Weekday(x)>> \in keys /\ <<"yearnth", month, n, Weekday(x)>> \in keys
  BY <1>1, KeysOfDay
<1> HIDE DEF keys
<1>3. FromJDN(x, cal) = [year |-> year, month |-> month, day |-> d]  BY DaysHaveNames
<1>4. OccursOn(rule, x, cal, anchor, extraKeys)  OBVIOUS
<1>5. /\ rule.frequency \in {"weekly", "monthly", "yearly"} /\ rule.leap_shift \in BOOLEAN
      /\ rule.month_day # None => rule.month_day \in 1..31
      /\ rule.easter_offset # None => rule.easter_offset \in -80..250
      /\ rule.leap_shift => rule.frequency = "yearly" /\ ~Moving(rule)
      /\ Moving(rule) => rule.frequency = "yearly" /\ (rule.easter_offset = None \/ rule.feast = None)
  BY RuleParts
<1>6. CASE Moving(rule) /\ rule.feast # None
  <2>1. <<"feast", rule.feast>> \in extraKeys  BY <1>4, <1>6 DEF OccursOn
  <2>2. rule.easter_offset = None  BY <1>5, <1>6
  <2>3. PatternKeys(rule) = {<<"feast", rule.feast>>}  BY <1>6, <2>2 DEF PatternKeys
  <2>4. QED  BY <1>2, <2>1, <2>3 DEF keys
<1>7. CASE Moving(rule) /\ rule.feast = None
  <2>1. rule.easter_offset # None  BY <1>7 DEF Moving
  <2>2. x = Easter(year, cal) + rule.easter_offset  BY <1>3, <1>4, <1>7 DEF OccursOn
  <2>3. Easter(year, cal) \in Int /\ rule.easter_offset \in Int  BY <1>1, <1>5, <2>1, EasterIsInt
  <2>4. x - Easter(year, cal) = rule.easter_offset  BY <2>2, <2>3
  <2>5. PatternKeys(rule) = {<<"easter", rule.easter_offset>>}  BY <1>7, <2>1 DEF PatternKeys
  <2>6. QED  BY <1>2, <2>4, <2>5 DEF keys
<1>8. CASE ~Moving(rule)
  <2>1. rule.easter_offset = None /\ rule.feast = None  BY <1>8 DEF Moving
  <2>2. CASE rule.frequency = "weekly"
    <3>1. Weekday(x) \in rule.weekdays  BY <1>4, <1>8, <2>2 DEF OccursOn
    <3>2. PatternKeys(rule) = {<<"weekday", w>> : w \in rule.weekdays}  BY <1>8, <2>1, <2>2 DEF PatternKeys
    <3>3. QED  BY <1>2, <3>1, <3>2 DEF keys
  <2>3. CASE rule.frequency # "weekly" /\ rule.month_day # None
    <3>1. d = rule.month_day + Shift(rule, year, cal)  BY <1>3, <1>4, <1>8, <2>3 DEF OccursOn
    <3>2. CASE rule.frequency = "monthly"
      <4>1. Shift(rule, year, cal) = 0  BY <1>5, <3>2 DEF Shift
      <4>2. d = rule.month_day  BY <1>5, <2>3, <3>1, <4>1
      <4>3. PatternKeys(rule) = {<<"monthday", rule.month_day>>}  BY <1>8, <2>1, <2>3, <3>2 DEF PatternKeys
      <4>4. QED  BY <1>2, <4>2, <4>3 DEF keys
    <3>3. CASE rule.frequency = "yearly"
      <4>1. month = rule.month  BY <1>3, <1>4, <1>8, <3>3 DEF OccursOn
      <4>2. Shift(rule, year, cal) \in 0..(IF rule.leap_shift THEN 1 ELSE 0)  BY DEF Shift
      <4>3. PatternKeys(rule) =
              {<<"yearday", rule.month, rule.month_day + n>> : n \in 0..(IF rule.leap_shift THEN 1 ELSE 0)}
        BY <1>8, <2>1, <2>3, <3>3 DEF PatternKeys
      <4>4. <<"yearday", month, d>> \in PatternKeys(rule)  BY <3>1, <4>1, <4>2, <4>3
      <4>5. QED  BY <1>2, <4>4 DEF keys
    <3>4. QED  BY <1>5, <2>3, <3>2, <3>3
  <2>4. CASE rule.frequency # "weekly" /\ rule.month_day = None
    <3>1. PICK w \in 0..6, n \in (-5..5) \ {0} : w = TheWeekday(rule) /\ n = rule.nth
      BY <1>8, <2>4, RuleOfWeekday
    <3>2. x \in NthWeekday(year, month, w, n, cal)  BY <1>3, <1>4, <1>8, <2>4, <3>1 DEF OccursOn
    <3>3. PICK y \in Int, m \in 1..12, e \in 1..31 : y = year /\ m = month /\ e = d  BY <1>1
    <3>4. Weekday(x) = w /\ n \in Nths(d, MonthLength(year, month, cal))
      <4>1. IsDate(y, m, e, cal) /\ x = ToJDN(y, m, e, cal)  BY <3>3
      <4>2. x \in NthWeekday(y, m, w, n, cal) <=> Weekday(x) = w /\ n \in Nths(e, MonthLength(y, m, cal))
        BY <4>1, NthWeekdayOf
      <4>3. QED  BY <3>2, <3>3, <4>2
    <3>5. <<"nth", n, w>> \in keys /\ <<"yearnth", month, n, w>> \in keys  BY <1>2, <3>4
    <3>6. CASE rule.frequency = "monthly"
      <4>1. PatternKeys(rule) = {<<"nth", n, w>>}  BY <1>8, <2>1, <2>4, <3>1, <3>6 DEF PatternKeys
      <4>2. QED  BY <3>5, <4>1 DEF keys
    <3>7. CASE rule.frequency = "yearly"
      <4>1. month = rule.month  BY <1>3, <1>4, <1>8, <3>7 DEF OccursOn
      <4>2. PatternKeys(rule) = {<<"yearnth", month, n, w>>}  BY <1>8, <2>1, <2>4, <3>1, <3>7, <4>1 DEF PatternKeys
      <4>3. QED  BY <3>5, <4>2 DEF keys
    <3>8. QED  BY <1>5, <2>4, <3>6, <3>7
  <2>5. QED  BY <2>2, <2>3, <2>4
<1>9. QED  BY <1>6, <1>7, <1>8

\* The number that from_jdn divides by years: that of the day, and of the Gregorian calendar with the
\* days that its centuries have left out.
Continued(n, cal) ==
  n + 1401 + (IF cal = "gregorian" THEN (((4 * n + 274277) \div 146097) * 3) \div 4 - 38 ELSE 0)

\* Four years, by their days.
LEMMA FourYears ==
  ASSUME NEW z \in Int, NEW u \in Int, 1461 * u <= z, z < 1461 * u + 1461
  PROVE  z \div 1461 = u
OBVIOUS

\* A year that begins in March, by quarters of a day, and the next from its day 306.
InYear(z, y, r) == z \in Int /\ y \in Int /\ r \in 0..1460 /\ z = 1461 * y + r + 237
\* Its quotient is the year, or the next.
LEMMA FromDay306 ==
  ASSUME NEW z, NEW y, NEW r, InYear(z, y, r)
  PROVE  z \div 1461 = y + (IF r >= 1224 THEN 1 ELSE 0)
<1> z \in Int /\ y \in Int /\ r \in 0..1460 /\ z = 1461 * y + r + 237  BY DEF InYear
<1>1. CASE r >= 1224
  <2> PICK u \in Int : u = y + 1  OBVIOUS
  <2>1. 1461 * u <= z /\ z < 1461 * u + 1461  BY <1>1
  <2>2. QED  BY <1>1, <2>1, FourYears
<1>2. CASE r < 1224
  <2>1. 1461 * y <= z /\ z < 1461 * y + 1461  BY <1>2
  <2>2. QED  BY <1>2, <2>1, FourYears
<1>3. QED  BY <1>1, <1>2

\* The year that from_jdn gives any number: as a year that begins in March, and one more from its
\* day 306, which is 1 January.
LEMMA YearOfNumber ==
  ASSUME NEW cal \in Calendars, NEW n \in Int
  PROVE  /\ Continued(n, cal) \in Int
         /\ FromJDN(n, cal).year = (4 * Continued(n, cal) + 240) \div 1461 - 4716
<1>1. Continued(n, cal) \in Int  BY DEF Continued, Calendars
<1> PICK f \in Int : f = Continued(n, cal)  BY <1>1
<1> PICK e \in Int : e = 4 * f + 3  OBVIOUS
<1> DEFINE g == (e % 1461) \div 4
           h == 5 * g + 2
           month == ((h \div 153 + 2) % 12) + 1
<1>2. FromJDN(n, cal).year = e \div 1461 - 4716 + (14 - month) \div 12  BY DEF FromJDN, Continued
<1> PICK y \in Int : y = e \div 1461  OBVIOUS
<1> PICK r \in 0..1460 : r = e % 1461  OBVIOUS
<1>3. e = 1461 * y + r  OBVIOUS
<1>4. g = r \div 4 /\ g \in 0..365
  <2>1. g = r \div 4  OBVIOUS
  <2> HIDE DEF g
  <2>2. g \in 0..365  BY <2>1
  <2>3. QED  BY <2>1, <2>2
<1>5. (14 - month) \div 12 = IF g >= 306 THEN 1 ELSE 0
  <2> HIDE DEF g
  <2>1. CASE g >= 306
    <3>1. h \div 153 \in {10, 11}  BY <1>4, <2>1
    <3> HIDE DEF h
    <3>2. month \in {1, 2}  BY <3>1
    <3> HIDE DEF month
    <3>3. QED  BY <2>1, <3>2
  <2>2. CASE g < 306
    <3>1. h \div 153 \in 0..9  BY <1>4, <2>2
    <3> HIDE DEF h
    <3>2. month \in 3..12  BY <3>1
    <3> HIDE DEF month
    <3>3. (14 - month) \div 12 = 0  BY <3>2
    <3>4. QED  BY <1>4, <2>2, <3>3
  <2>3. QED  BY <1>4, <2>1, <2>2
<1>6. g >= 306 <=> r >= 1224  BY <1>4
<1>7. (4 * f + 240) \div 1461 = y + (IF r >= 1224 THEN 1 ELSE 0)
  <2> PICK z \in Int : z = 4 * f + 240  OBVIOUS
  <2>1. InYear(z, y, r)  BY <1>3 DEF InYear
  <2>2. z \div 1461 = y + (IF r >= 1224 THEN 1 ELSE 0)  BY <2>1, FromDay306
  <2>3. QED  BY <2>2
<1> HIDE DEF g, h, month
<1>8. QED  BY <1>2, <1>3, <1>5, <1>6, <1>7

\* From a later day the code never works out an earlier year.
LEMMA YearsInOrder ==
  ASSUME NEW cal \in Calendars, NEW a \in Int, NEW b \in Int, a <= b
  PROVE  /\ FromJDN(a, cal).year \in Int /\ FromJDN(b, cal).year \in Int
         /\ FromJDN(a, cal).year <= FromJDN(b, cal).year
<1>1. /\ Continued(a, cal) \in Int /\ FromJDN(a, cal).year = (4 * Continued(a, cal) + 240) \div 1461 - 4716
      /\ Continued(b, cal) \in Int /\ FromJDN(b, cal).year = (4 * Continued(b, cal) + 240) \div 1461 - 4716
  BY YearOfNumber
<1>2. Continued(a, cal) <= Continued(b, cal)
  <2>1. CASE cal = "gregorian"
    <3>1. /\ Continued(a, cal) = a + 1401 + ((((4 * a + 274277) \div 146097) * 3) \div 4 - 38)
          /\ Continued(b, cal) = b + 1401 + ((((4 * b + 274277) \div 146097) * 3) \div 4 - 38)
      BY <2>1 DEF Continued
    <3>2. (4 * a + 274277) \div 146097 <= (4 * b + 274277) \div 146097  OBVIOUS
    <3>3. QED  BY <3>1, <3>2
  <2>2. CASE cal # "gregorian"  BY <2>2 DEF Continued
  <2>3. QED  BY <2>1, <2>2
<1>3. \A u, v \in Int : u <= v => (4 * u + 240) \div 1461 <= (4 * v + 240) \div 1461  OBVIOUS
<1>4. \A u \in Int : (4 * u + 240) \div 1461 - 4716 \in Int  OBVIOUS
<1>5. QED
  <2> PICK u \in Int, v \in Int : u = Continued(a, cal) /\ v = Continued(b, cal)  BY <1>1
  <2>1. u <= v  BY <1>2
  <2>2. (4 * u + 240) \div 1461 <= (4 * v + 240) \div 1461  BY <2>1
  <2>3. QED  BY <1>1, <2>2

\* A day on which a yearly rule falls is where the code looks for it in its year.
LEMMA YearlyDayOfRule ==
  ASSUME NEW cal \in Calendars, NEW year, NEW month, NEW d, IsDate(year, month, d, cal),
         NEW rule, IsRule(rule), rule.frequency = "yearly", rule.feast = None, NEW anchor, NEW extraKeys,
         OccursOn(rule, ToJDN(year, month, d, cal), cal, anchor, extraKeys)
  PROVE  ToJDN(year, month, d, cal) \in YearlyDay(rule, year, cal)
<1> PICK x \in Int, y \in Int, m \in 1..12, e \in 1..31 :
      x = ToJDN(year, month, d, cal) /\ year = y /\ month = m /\ d = e
  BY DateOfMonth
<1>1. FromJDN(x, cal) = [year |-> y, month |-> m, day |-> e]  BY DaysHaveNames
<1>2. OccursOn(rule, x, cal, anchor, extraKeys)  OBVIOUS
<1>3. CASE rule.easter_offset # None
  <2>1. Moving(rule)  BY <1>3 DEF Moving
  <2>2. x = Easter(y, cal) + rule.easter_offset  BY <1>1, <1>2, <2>1 DEF OccursOn
  <2>3. YearlyDay(rule, y, cal) = {Easter(y, cal) + rule.easter_offset}  BY <1>3 DEF YearlyDay
  <2>4. QED  BY <2>2, <2>3
<1>4. CASE rule.easter_offset = None
  <2>1. ~Moving(rule)  BY <1>4 DEF Moving
  <2>2. m = rule.month  BY <1>1, <1>2, <2>1 DEF OccursOn
  <2>3. CASE rule.month_day # None
    <3>1. PICK k \in 1..31, s \in {0, 1} : k = rule.month_day /\ s = Shift(rule, y, cal)
      <4>1. rule.month_day \in 1..31  BY <2>3, RuleParts
      <4>2. Shift(rule, y, cal) \in {0, 1}  BY DEF Shift
      <4>3. QED  BY <4>1, <4>2
    <3>2. e = k + s  BY <1>1, <1>2, <2>1, <2>3, <3>1 DEF OccursOn
    <3>3. IsDate(y, m, e, cal)  OBVIOUS
    <3>4. IsDate(y, m, k, cal)
      <4>1. MonthLength(y, m, cal) \in 28..31  BY MonthOfYear
      <4>2. y \in MinYear..MaxYear /\ e \in 1..MonthLength(y, m, cal)  BY <3>3 DEF IsDate
      <4>3. k \in 1..MonthLength(y, m, cal)  BY <3>2, <4>1, <4>2
      <4>4. QED  BY <4>2, <4>3 DEF IsDate
    <3>5. /\ MonthFirst(y, m, cal) \in Int /\ x = MonthFirst(y, m, cal) + e - 1
          /\ ToJDN(y, m, k, cal) = MonthFirst(y, m, cal) + k - 1
      BY <3>3, <3>4, DateOfMonth
    <3>6. x = ToJDN(y, m, k, cal) + s  BY <3>2, <3>5
    <3>7. YearlyDay(rule, y, cal) = {ToJDN(y, m, k, cal) + s}  BY <1>4, <2>2, <2>3, <3>1, <3>4 DEF YearlyDay
    <3>8. QED  BY <3>6, <3>7
  <2>4. CASE rule.month_day = None
    <3>1. x \in NthWeekday(y, m, TheWeekday(rule), rule.nth, cal)  BY <1>1, <1>2, <2>1, <2>4 DEF OccursOn
    <3>2. YearlyDay(rule, y, cal) = NthWeekday(y, m, TheWeekday(rule), rule.nth, cal)
      BY <1>4, <2>2, <2>4 DEF YearlyDay
    <3>3. QED  BY <3>1, <3>2
  <2>5. QED  BY <2>3, <2>4
<1>5. QED  BY <1>3, <1>4

\* Whatever stretch of days they are worked out for, the days of a characterisation are those of the
\* stretch on which it falls: a yearly rule, too, which is only looked for once a year.
THEOREM DaysBetweenMissesNone ==
  ASSUME NEW ch, IsAccepted(ch.date), NEW first \in Int, NEW last \in Int,
         NEW year, NEW month, NEW d, IsDate(year, month, d, ch.date.calendar)
  PROVE  LET c == Character(ch)
             x == ToJDN(year, month, d, ch.date.calendar) IN
         x \in DaysBetween(c, first, last) <=> first <= x /\ x <= last /\ FallsOnDay(c, x)
<1> DEFINE c == Character(ch)
<1>1. ch.date.calendar \in Calendars  BY DEF IsAccepted
<1> PICK cal \in Calendars : cal = ch.date.calendar  BY <1>1
<1> PICK x \in Int, y \in Int : x = ToJDN(year, month, d, cal) /\ y = year  BY DateOfMonth
<1>2. BoundsOf(ch.date) \in AllBounds  BY StoredInOrder
<1>3. c.date = ch.date /\ c.bounds = BoundsOf(ch.date) /\ c.date.calendar = cal  BY DEF Character
<1> PICK es \in Int, ls \in Int : es = c.bounds.earliest_strict /\ ls = c.bounds.latest_strict
  BY <1>2, <1>3 DEF AllBounds
<1> HIDE DEF c
<1>4. Holds(c, x, TRUE) <=> es <= x /\ x <= ls  BY DEF Holds, Earliest, Latest
<1> PICK lo \in Int, hi \in Int : lo = (IF first < es THEN es ELSE first) /\ hi = (IF last > ls THEN ls ELSE last)
  OBVIOUS
<1>5. lo <= x /\ x <= hi <=> first <= x /\ x <= last /\ Holds(c, x, TRUE)
  <2>1. lo <= x <=> first <= x /\ es <= x  OBVIOUS
  <2>2. x <= hi <=> x <= last /\ x <= ls  OBVIOUS
  <2>3. QED  BY <1>4, <2>1, <2>2
<1> DEFINE On(n) == OccursOn(c.date.rule, n, cal, c.anchor, {})
           years == FromJDN(lo, cal).year .. FromJDN(hi, cal).year
<1>6. FallsOnDay(c, x) <=> HasDays(c) /\ Holds(c, x, TRUE) /\ (c.date.kind = "recurrence" => On(x))
  BY <1>3 DEF FallsOnDay
<1> SUFFICES x \in DaysBetween(c, first, last) <=> first <= x /\ x <= last /\ FallsOnDay(c, x)
  BY DEF c
<1>7. CASE ~HasDays(c) \/ lo > hi
  <2>1. DaysBetween(c, first, last) = {}  BY <1>7 DEF DaysBetween
  <2>2. ~(lo <= x /\ x <= hi) \/ ~HasDays(c)  BY <1>7
  <2>3. QED  BY <1>5, <1>6, <2>1, <2>2
<1>8. CASE HasDays(c) /\ lo <= hi /\ c.date.kind # "recurrence"
  <2>1. DaysBetween(c, first, last) = lo..hi  BY <1>8 DEF DaysBetween
  <2>2. x \in DaysBetween(c, first, last) <=> lo <= x /\ x <= hi  BY <2>1
  <2>3. FallsOnDay(c, x) <=> Holds(c, x, TRUE)  BY <1>6, <1>8
  <2>4. QED  BY <1>5, <2>2, <2>3
<1>9. CASE HasDays(c) /\ lo <= hi /\ c.date.kind = "recurrence" /\ c.date.rule.frequency # "yearly"
  <2>1. DaysBetween(c, first, last) = {n \in lo..hi : On(n)}  BY <1>3, <1>9 DEF DaysBetween
  <2>2. x \in DaysBetween(c, first, last) <=> lo <= x /\ x <= hi /\ On(x)  BY <2>1
  <2>3. FallsOnDay(c, x) <=> Holds(c, x, TRUE) /\ On(x)  BY <1>6, <1>9
  <2> HIDE DEF On
  <2>4. QED  BY <1>5, <2>2, <2>3
<1>10. CASE HasDays(c) /\ lo <= hi /\ c.date.kind = "recurrence" /\ c.date.rule.frequency = "yearly"
  <2>1. DaysBetween(c, first, last) =
          {n \in UNION {YearlyDay(c.date.rule, u, cal) : u \in years} : lo <= n /\ n <= hi /\ On(n)}
    BY <1>3, <1>10 DEF DaysBetween
  <2>2. ASSUME lo <= x, x <= hi, On(x) PROVE x \in UNION {YearlyDay(c.date.rule, u, cal) : u \in years}
    <3>1. IsRule(c.date.rule) /\ c.date.rule.feast = None  BY <1>3, <1>10 DEF IsAccepted, HasDays
    <3>2. x \in YearlyDay(c.date.rule, y, cal)  BY <1>10, <2>2, <3>1, YearlyDayOfRule
    <3>3. FromJDN(x, cal).year = y
      <4>1. FromJDN(x, cal) = [year |-> year, month |-> month, day |-> d]  BY DaysHaveNames
      <4>2. QED  BY <4>1
    <3>4. /\ FromJDN(lo, cal).year \in Int /\ FromJDN(hi, cal).year \in Int
          /\ FromJDN(lo, cal).year <= y /\ y <= FromJDN(hi, cal).year
      BY <2>2, <3>3, YearsInOrder
    <3>5. y \in years  BY <3>4
    <3> HIDE DEF years
    <3>6. QED  BY <3>2, <3>5
  <2> HIDE DEF years, On
  <2>3. x \in DaysBetween(c, first, last) <=> lo <= x /\ x <= hi /\ On(x)  BY <2>1, <2>2
  <2>4. QED  BY <1>5, <1>6, <1>10, <2>3
<1>11. QED  BY <1>7, <1>8, <1>9, <1>10

-----------------------------------------------------------------------------
(* What is found on a day *)

\* On a characterisation of the person's calendar, the day is as it is counted.
LEMMA FallsIsOn ==
  ASSUME Counted, NEW ch \in Characterisations, ch.date.calendar = calendar
  PROVE  LET c == Character(ch) IN FallsOnDay(c, day) <=> HasDays(c) /\ IsOn(c.date, TRUE)
<1> DEFINE c == Character(ch)
<1>1. IsAccepted(ch.date)  BY AlmanacAssumption
<1>2. c.date = ch.date /\ c.bounds = BoundsOf(ch.date) /\ c.anchor = Anchor(ch.date)  BY DEF Character
<1> HIDE DEF c
<1>3. Holds(c, day, TRUE) <=> Lasts(c.date, TRUE)  BY <1>1, <1>2, HoldsIsLasts DEF Holds
<1>4. c.date.kind = "recurrence" /\ HasDays(c) =>
        (OccursOn(c.date.rule, day, calendar, c.anchor, {}) <=> Falls(c.date))
  BY <1>1, <1>2, OccursIsFalls DEF HasDays
<1>5. FallsOnDay(c, day) <=>
        /\ HasDays(c) /\ Holds(c, day, TRUE)
        /\ c.date.kind = "recurrence" => OccursOn(c.date.rule, day, calendar, c.anchor, {})
  BY <1>2 DEF FallsOnDay
<1>6. IsOn(c.date, TRUE) <=> Lasts(c.date, TRUE) /\ (c.date.kind = "recurrence" => Falls(c.date))
  BY DEF IsOn
<1>7. QED  BY <1>3, <1>4, <1>5, <1>6 DEF c

\* A day's key for a feast says whether the feast is on the day, if it is one of the person's calendar.
LEMMA FeastsAreCounted ==
  ASSUME Counted, NEW f, \A c \in Characterisations : c.id = f => c.date.calendar = calendar
  PROVE  <<"feast", f>> \in FeastKeys(Characters, day) <=> f \in Feasts
<1>1. \A c \in Characterisations :
        Character(c).id = c.id /\ Character(c).date = c.date /\ (HasDays(Character(c)) <=> HasDays(c))
  BY DEF Character, HasDays
<1>2. \A c \in Characterisations : c.id = f =>
        (FallsOnDay(Character(c), day) <=> HasDays(c) /\ IsOn(c.date, TRUE))
  <2> SUFFICES ASSUME NEW c \in Characterisations, c.id = f
               PROVE  FallsOnDay(Character(c), day) <=> HasDays(c) /\ IsOn(c.date, TRUE)
    OBVIOUS
  <2>1. FallsOnDay(Character(c), day) <=> HasDays(Character(c)) /\ IsOn(Character(c).date, TRUE)  BY FallsIsOn
  <2>2. QED  BY <1>1, <2>1
<1>3. <<"feast", f>> \in FeastKeys(Characters, day) <=>
        \E c \in Characterisations : c.id = f /\ FallsOnDay(Character(c), day)
  <2>1. FeastKeys(Characters, day) = {<<"feast", e.id>> : e \in {e \in Characters : FallsOnDay(e, day)}}
    BY DEF FeastKeys
  <2>2. <<"feast", f>> \in FeastKeys(Characters, day) <=>
          \E e \in Characters : FallsOnDay(e, day) /\ <<"feast", f>> = <<"feast", e.id>>
    BY <2>1
  <2>3. \A e : <<"feast", f>> = <<"feast", e.id>> <=> f = e.id  OBVIOUS
  <2>4. <<"feast", f>> \in FeastKeys(Characters, day) <=> \E e \in Characters : FallsOnDay(e, day) /\ f = e.id
    BY <2>2, <2>3
  <2>5. QED  BY <1>1, <2>4 DEF Characters
<1>4. f \in Feasts <=>
        \E c \in Characterisations : c.id = f /\ c.date.calendar = calendar /\ HasDays(c) /\ IsOn(c.date, TRUE)
  BY DEF Feasts
<1>5. QED  BY <1>2, <1>3, <1>4

\* What a rule says of a day is what is counted: of a rule on a feast, too, by the keys of the day.
LEMMA RuleIsCounted ==
  ASSUME Counted, NEW d \in Documents, d.calendar = calendar, d.kind = "recurrence",
         \A c \in Characterisations : c.id = d.rule.feast => c.date.calendar = calendar,
         NEW strict \in BOOLEAN
  PROVE  Lasts(d, strict) /\ OccursOn(d.rule, day, calendar, Anchor(d), FeastKeys(Characters, day))
           <=> DocumentOn(d, strict)
<1>1. IsAccepted(d)  BY AlmanacAssumption
<1>2. CASE d.rule.feast = None
  <2>1. OccursOn(d.rule, day, calendar, Anchor(d), FeastKeys(Characters, day)) <=> Falls(d)
    BY <1>1, <1>2, OccursIsFalls
  <2>2. QED  BY <1>2, <2>1 DEF DocumentOn, IsOn
<1>3. CASE d.rule.feast # None
  <2>1. <<"feast", d.rule.feast>> \in FeastKeys(Characters, day) <=> d.rule.feast \in Feasts  BY FeastsAreCounted
  <2>2. FromJDN(day, calendar) = date /\ FromJDN(Anchor(d), calendar) = Beginning(d)
    BY <1>1, DayIsDate, AnchorIsBeginning
  <2>3. Moving(d.rule)  BY <1>3 DEF Moving
  <2>4. OccursOn(d.rule, day, calendar, Anchor(d), FeastKeys(Characters, day)) <=>
          /\ day \notin d.rule.excluded_days
          /\ <<"feast", d.rule.feast>> \in FeastKeys(Characters, day)
          /\ (date.year - Beginning(d).year) % d.rule.interval = 0
    BY <1>3, <2>2, <2>3 DEF OccursOn
  <2>5. DocumentOn(d, strict) <=>
          /\ Lasts(d, strict) /\ day \notin d.rule.excluded_days /\ d.rule.feast \in Feasts
          /\ (date.year - Beginning(d).year) % d.rule.interval = 0
    BY <1>3 DEF DocumentOn, OnFeast
  <2>6. QED  BY <2>1, <2>4, <2>5
<1>4. QED  BY <1>2, <1>3

\* What the code reads of a rule without its leap_shift is the rule, but in a leap year.
LEMMA RuleButLeapYears ==
  ASSUME Counted, NEW d, d.kind = "recurrence", IsRule(d.rule), d.calendar = calendar, ~LeapShifted(d),
         NEW anchor, NEW extraKeys
  PROVE  OccursOn(RuleOf(Row(d)), day, calendar, anchor, extraKeys)
           <=> OccursOn(d.rule, day, calendar, anchor, extraKeys)
<1> DEFINE rule == d.rule
           read == RuleOf(Row(d))
<1>1. /\ read.frequency = rule.frequency /\ read.weekdays = rule.weekdays /\ read.nth = rule.nth
      /\ read.month = rule.month /\ read.month_day = rule.month_day /\ read.interval = rule.interval
      /\ read.excluded_days = rule.excluded_days /\ read.easter_offset = rule.easter_offset
      /\ read.feast = rule.feast /\ read.leap_shift = FALSE
  <2>1. read = [rule EXCEPT !.leap_shift = FALSE]  BY DEF RuleOf, Row
  <2>2. rule \in [frequency : {"weekly", "monthly", "yearly"}, weekdays : SUBSET (0..6),
               nth : (-5..5 \ {0}) \cup {None}, month : 1..12 \cup {None}, month_day : 1..31 \cup {None},
               interval : Nat \ {0}, excluded_days : SUBSET Int, easter_offset : -80..250 \cup {None},
               feast : {rule.feast}, leap_shift : BOOLEAN]
    BY DEF IsRule
  <2> HIDE DEF rule, read
  <2>3. QED  BY <2>1, <2>2
<1>2. Shift(read, date.year, calendar) = Shift(rule, date.year, calendar)
  <2>1. date.year \in MinYear..MaxYear /\ calendar \in Calendars  BY DateParts
  <2>2. Leap(date.year) <=> IsLeapYear(date.year, calendar)  BY <2>1, LeapYears
  <2>3. ~rule.leap_shift \/ ~IsLeapYear(date.year, calendar)  BY <2>2 DEF LeapShifted
  <2> HIDE DEF rule, read
  <2>4. QED  BY <1>1, <2>3 DEF Shift
<1>3. FromJDN(day, calendar) = date  BY DayIsDate
<1>4. (Moving(read) <=> Moving(rule)) /\ TheWeekday(read) = TheWeekday(rule)
  <2> HIDE DEF rule, read
  <2>1. QED  BY <1>1 DEF Moving, TheWeekday
<1> DEFINE a == FromJDN(anchor, calendar)
<1> SUFFICES OccursOn(read, day, calendar, anchor, extraKeys) <=> OccursOn(rule, day, calendar, anchor, extraKeys)
  OBVIOUS
<1> HIDE DEF rule, read
<1>5. CASE Moving(rule)  BY <1>1, <1>3, <1>4, <1>5 DEF OccursOn
<1>6. CASE ~Moving(rule) /\ rule.frequency = "weekly"  BY <1>1, <1>3, <1>4, <1>6 DEF OccursOn
<1>7. CASE ~Moving(rule) /\ rule.frequency # "weekly"  BY <1>1, <1>2, <1>3, <1>4, <1>7 DEF OccursOn
<1>8. QED  BY <1>5, <1>6, <1>7

\* The documents of the person's calendar that are found, by the query and by the calendar, are those
\* that are on the day.
LEMMA DocumentsFound ==
  ASSUME Counted, NEW row \in Mine
  PROVE  LET extraKeys == FeastKeys(Characters, day)
             keys == DayKeys(day, calendar, extraKeys)
             bothKeys == BothCalendarsKeys(day, extraKeys) IN
         /\ OnDay(row, day, calendar, TRUE, keys, extraKeys) <=> DocumentOn(row.date, FALSE)
         /\ OnDay(row, day, calendar, FALSE, keys, extraKeys) <=> DocumentOn(row.date, TRUE)
         /\ LeapShifted(row.date) \/ (Hit(row, day, bothKeys, extraKeys) <=> DocumentOn(row.date, FALSE))
<1> DEFINE extraKeys == FeastKeys(Characters, day)
           keys == DayKeys(day, calendar, extraKeys)
           bothKeys == BothCalendarsKeys(day, extraKeys)
<1> PICK d \in Documents : row = Row(d)  BY DEF Mine, Rows
<1>1. /\ row.date = d /\ row.bounds = BoundsOf(d) /\ row.anchor = Anchor(d)
      /\ d.kind = "recurrence" => row.keys = PatternKeys(d.rule)
  BY DEF Row
<1>2. /\ IsAccepted(d) /\ d.calendar = calendar
      /\ d.kind = "recurrence" => \A c \in Characterisations : c.id = d.rule.feast => c.date.calendar = calendar
  BY <1>1, AlmanacAssumption DEF Mine
<1>3. \A strict \in BOOLEAN : Holds(row, day, strict) <=> Lasts(d, strict)
  BY <1>1, <1>2, HoldsIsLasts DEF Holds
<1> DEFINE Occurs == OccursOn(d.rule, day, calendar, Anchor(d), extraKeys)
<1>4. keys \subseteq bothKeys
  <2>1. /\ DayKeys(day, "gregorian", extraKeys) = DayKeys(day, "gregorian", {}) \cup extraKeys
        /\ extraKeys \subseteq DayKeys(day, "julian", extraKeys)
    BY DEF DayKeys
  <2>2. calendar \in {"julian", "gregorian"}  BY DEF Counted, Calendars
  <2> HIDE DEF extraKeys
  <2>3. CASE calendar = "julian"  BY <2>3 DEF BothCalendarsKeys
  <2>4. CASE calendar = "gregorian"  BY <2>1, <2>4 DEF BothCalendarsKeys
  <2>5. QED  BY <2>2, <2>3, <2>4
<1>5. d.kind = "recurrence" /\ Occurs => row.keys \cap keys # {}
  <2> SUFFICES ASSUME d.kind = "recurrence", Occurs PROVE row.keys \cap keys # {}  OBVIOUS
  <2>1. IsRule(d.rule)  BY <1>2 DEF IsAccepted
  <2>2. calendar \in Calendars /\ IsDate(date.year, date.month, date.day, calendar)
        /\ day = ToJDN(date.year, date.month, date.day, calendar)
    BY DEF Counted
  <2> PICK cal \in Calendars, y \in Int, m \in 1..12, e \in Int :
        cal = calendar /\ y = date.year /\ m = date.month /\ e = date.day
    BY DateParts
  <2> HIDE DEF extraKeys
  <2>3. IsDate(y, m, e, cal) /\ OccursOn(d.rule, ToJDN(y, m, e, cal), cal, Anchor(d), extraKeys)  BY <2>2
  <2>4. PatternKeys(d.rule) \cap DayKeys(ToJDN(y, m, e, cal), cal, extraKeys) # {}  BY <2>1, <2>3, KeysMissNoDay
  <2>5. QED  BY <1>1, <2>2, <2>4
<1>6. \A strict \in BOOLEAN :
        Lasts(d, strict) /\ (d.kind = "recurrence" => Occurs) <=> DocumentOn(d, strict)
  <2>1. CASE d.kind = "recurrence"
    <3>1. \A strict \in BOOLEAN : Lasts(d, strict) /\ Occurs <=> DocumentOn(d, strict)
      BY <1>2, <2>1, RuleIsCounted
    <3>2. QED  BY <2>1, <3>1
  <2>2. CASE d.kind # "recurrence"  BY <2>2 DEF DocumentOn, IsOn
  <2>3. QED  BY <2>1, <2>2
<1>7. ~LeapShifted(d) /\ d.kind = "recurrence" =>
        (OccursOn(RuleOf(row), day, calendar, Anchor(d), extraKeys) <=> Occurs)
  BY <1>2, RuleButLeapYears DEF IsAccepted
<1> HIDE DEF extraKeys, keys, bothKeys
<1>8. \A strict \in BOOLEAN :
        OnDay(row, day, calendar, ~strict, keys, extraKeys) <=>
          /\ Holds(row, day, strict)
          /\ d.kind = "recurrence" => row.keys \cap keys # {} /\ Occurs
  <2> SUFFICES ASSUME NEW strict \in BOOLEAN
               PROVE  OnDay(row, day, calendar, ~strict, keys, extraKeys) <=>
                        /\ Holds(row, day, strict)
                        /\ d.kind = "recurrence" => row.keys \cap keys # {} /\ Occurs
    OBVIOUS
  <2>1. ~(~strict) = strict  OBVIOUS
  <2>2. QED  BY <1>1, <2>1 DEF OnDay
<1>9. Hit(row, day, bothKeys, extraKeys) <=>
        /\ Holds(row, day, FALSE)
        /\ d.kind = "recurrence" =>
             row.keys \cap bothKeys # {} /\ OccursOn(RuleOf(row), day, calendar, Anchor(d), extraKeys)
  BY <1>1, <1>2 DEF Hit
<1>10. \A strict \in BOOLEAN : OnDay(row, day, calendar, ~strict, keys, extraKeys) <=> DocumentOn(d, strict)
  BY <1>3, <1>5, <1>6, <1>8
<1>11. LeapShifted(d) \/ (Hit(row, day, bothKeys, extraKeys) <=> DocumentOn(d, FALSE))
  <2>1. row.keys \cap keys # {} => row.keys \cap bothKeys # {}  BY <1>4
  <2> HIDE DEF Occurs
  <2>2. QED  BY <1>3, <1>5, <1>6, <1>7, <1>9, <2>1
<1>12. /\ OnDay(row, day, calendar, TRUE, keys, extraKeys) <=> DocumentOn(d, FALSE)
       /\ OnDay(row, day, calendar, FALSE, keys, extraKeys) <=> DocumentOn(d, TRUE)
  <2>1. ~FALSE = TRUE /\ ~TRUE = FALSE  OBVIOUS
  <2>2. QED  BY <1>10, <2>1
<1>13. QED  BY <1>1, <1>11, <1>12 DEF extraKeys, keys, bothKeys

\* The days that are worked out of a characterisation of the person's calendar have the day just if
\* it is on it.
LEMMA CharacterisationsFound ==
  ASSUME Counted, NEW c \in Characters, c.date.calendar = calendar
  PROVE  LET on == HasDays(c) /\ IsOn(c.date, TRUE) IN
         /\ FallsOnDay(c, day) <=> on
         /\ day \in DaysBetween(c, day, day) <=> on
         /\ day \in DaysBetween(c, day - 40, day + 40) <=> on
<1> PICK ch \in Characterisations : c = Character(ch)  BY DEF Characters
<1>1. ch.date.calendar = calendar  BY DEF Character
<1>2. FallsOnDay(c, day) <=> HasDays(c) /\ IsOn(c.date, TRUE)  BY <1>1, FallsIsOn
<1>3. /\ IsAccepted(ch.date) /\ IsDate(date.year, date.month, date.day, ch.date.calendar) /\ day \in Int
      /\ day = ToJDN(date.year, date.month, date.day, ch.date.calendar)
  BY <1>1, AlmanacAssumption, DayIsInt DEF Counted
<1>4. ASSUME NEW first \in Int, NEW last \in Int
      PROVE  day \in DaysBetween(c, first, last) <=> first <= day /\ day <= last /\ FallsOnDay(c, day)
  <2> PICK y \in Int, m \in 1..12, e \in Int : y = date.year /\ m = date.month /\ e = date.day  BY DateParts
  <2> DEFINE x == ToJDN(y, m, e, ch.date.calendar)
  <2>1. IsDate(y, m, e, ch.date.calendar) /\ x = day  BY <1>3
  <2>2. x \in DaysBetween(Character(ch), first, last) <=> first <= x /\ x <= last /\ FallsOnDay(Character(ch), x)
    BY <1>3, <2>1, DaysBetweenMissesNone
  <2> HIDE DEF x
  <2>3. QED  BY <2>1, <2>2
<1>5. day \in DaysBetween(c, day, day) <=> FallsOnDay(c, day)  BY <1>3, <1>4
<1>6. day \in DaysBetween(c, day - 40, day + 40) <=> FallsOnDay(c, day)
  <2> PICK a \in Int, b \in Int : a = day - 40 /\ b = day + 40  BY <1>3
  <2>1. a <= day /\ day <= b  BY <1>3
  <2>2. day \in DaysBetween(c, a, b) <=> FallsOnDay(c, day)  BY <1>4, <2>1
  <2>3. QED  BY <2>2
<1>7. QED  BY <1>2, <1>5, <1>6

\* Of all the documents and characterisations that there may be, in either calendar and on every day
\* of the years that the code allows, what is found on a day is what is on it.
THEOREM FoundOnItsDays == Spec => []FoundIsWhatIsOn
<1>1. Counted => FoundIsWhatIsOn
  <2> SUFFICES ASSUME Counted PROVE FoundIsWhatIsOn  OBVIOUS
  <2>1. QED  BY DocumentsFound, CharacterisationsFound DEF FoundIsWhatIsOn
<1>2. QED  BY <1>1, InitCounted, NextCounted, PTL DEF Spec
=============================================================================
