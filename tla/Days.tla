-------------------------------- MODULE Days --------------------------------
(***************************************************************************)
(* Days by number, and by name in the Julian and the Gregorian calendar      *)
(* (pangloss_dates.calendar), and the day of Easter (pangloss_dates.easter). *)
(* Division and remainder are those of the code: towards minus infinity.     *)
(***************************************************************************)
EXTENDS Integers

Calendars == {"julian", "gregorian"}
MinYear == -4799
MaxYear == 9999

IsLeapYear(year, calendar) ==
  year % 4 = 0 /\ (calendar = "julian" \/ year % 100 # 0 \/ year % 400 = 0)

MonthLength(year, month, calendar) ==
  IF month = 2 /\ IsLeapYear(year, calendar) THEN 29
  ELSE <<31, 28, 31, 30, 31, 30, 31, 31, 30, 31, 30, 31>>[month]

\* check_date: whether there is such a day.
IsDate(year, month, day, calendar) ==
  /\ year \in MinYear..MaxYear /\ month \in 1..12
  /\ day \in 1..MonthLength(year, month, calendar)

ToJDN(year, month, day, calendar) ==
  LET a == (14 - month) \div 12
      y == year + 4800 - a
      m == month + 12 * a - 3
      jdn == day + (153 * m + 2) \div 5 + 365 * y + y \div 4 IN
  IF calendar = "julian" THEN jdn - 32083
  ELSE jdn - y \div 100 + y \div 400 - 32045

FromJDN(jdn, calendar) ==
  LET f == jdn + 1401
           + (IF calendar = "gregorian"
              THEN (((4 * jdn + 274277) \div 146097) * 3) \div 4 - 38 ELSE 0)
      e == 4 * f + 3
      g == (e % 1461) \div 4
      h == 5 * g + 2
      month == ((h \div 153 + 2) % 12) + 1 IN
  [year |-> e \div 1461 - 4716 + (14 - month) \div 12, month |-> month, day |-> (h % 153) \div 5 + 1]

Weekday(jdn) == (jdn + 1) % 7     \* 0 is Sunday

\* The day of the n-th such weekday of a month (from its end if n < 0), in a set: there may be none.
NthWeekday(year, month, weekday, n, calendar) ==
  LET first == ToJDN(year, month, 1, calendar)
      last == first + MonthLength(year, month, calendar) - 1
      found == IF n > 0 THEN first + ((weekday - Weekday(first)) % 7) + 7 * (n - 1)
               ELSE last - ((Weekday(last) - weekday) % 7) + 7 * (n + 1) IN
  {found} \cap first..last

\* The first and the last day of a year, a month or a day: a part that is not said is 0.
FirstDay(year, month, day, calendar) ==
  ToJDN(year, IF month = 0 THEN 1 ELSE month, IF day = 0 THEN 1 ELSE day, calendar)
LastDay(year, month, day, calendar) ==
  CASE month = 0 -> ToJDN(year, 12, 31, calendar)
    [] month # 0 /\ day = 0 -> ToJDN(year, month, MonthLength(year, month, calendar), calendar)
    [] OTHER -> ToJDN(year, month, day, calendar)

JulianEaster(year) ==
  LET d == (19 * (year % 19) + 15) % 30
      e == (2 * (year % 4) + 4 * (year % 7) - d + 34) % 7
      n == d + e + 114 IN
  ToJDN(year, n \div 31, (n % 31) + 1, "julian")

\* (Mutant: without the years in which it would be a week late.)
GregorianEasterUncorrected(year) ==
  LET a == year % 19
      b == year \div 100
      c == year % 100
      g == (b - (b + 8) \div 25 + 1) \div 3
      h == (19 * a + b - b \div 4 - g + 15) % 30
      l == (32 + 2 * (b % 4) + 2 * (c \div 4) - h - (c % 4)) % 7
      n == h + l + 114 IN
  ToJDN(year, n \div 31, (n % 31) + 1, "gregorian")

GregorianEaster(year) ==
  LET a == year % 19
      b == year \div 100
      c == year % 100
      g == (b - (b + 8) \div 25 + 1) \div 3
      h == (19 * a + b - b \div 4 - g + 15) % 30
      l == (32 + 2 * (b % 4) + 2 * (c \div 4) - h - (c % 4)) % 7
      m == (a + 11 * h + 22 * l) \div 451
      n == h + l - 7 * m + 114 IN
  ToJDN(year, n \div 31, (n % 31) + 1, "gregorian")

Easter(year, calendar) ==
  IF calendar = "julian" THEN JulianEaster(year) ELSE GregorianEaster(year)
=============================================================================
