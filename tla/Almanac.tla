------------------------------ MODULE Almanac -------------------------------
(***************************************************************************)
(* A person who counts days: from a day whose number, name and weekday are   *)
(* known, one day at a time, or by whole years, in one calendar.  What the   *)
(* code works out of a day's number (Days, Recurrences) is compared with     *)
(* what the person knows by counting.                                        *)
(***************************************************************************)
EXTENDS Recurrences, FiniteSets

CONSTANTS
  Known,              \* days that are known: 1 January of a year, its number and weekday
  YearsByDay,         \* the years that are counted by the day
  Documents,          \* dates of documents
  Characterisations   \* dates of characterisations, by their ids

\* What is known is so, the year after a year counted by the day is one the code allows, and
\* the dates are such as it accepts.
ASSUME AlmanacAssumption ==
  /\ \A k \in Known :
       /\ k.calendar \in Calendars /\ k.year \in MinYear..MaxYear
       /\ k.day = ToJDN(k.year, 1, 1, k.calendar) /\ k.weekday = Weekday(k.day)
  /\ YearsByDay \subseteq MinYear..(MaxYear - 1)
  /\ \A d \in Documents : IsAccepted(d)
  /\ \A c \in Characterisations : IsAccepted(c.date)

VARIABLES calendar, date, day, weekday

vars == <<calendar, date, day, weekday>>

Init == \E k \in Known :
  /\ calendar = k.calendar /\ day = k.day /\ weekday = k.weekday
  /\ date = [year |-> k.year, month |-> 1, day |-> 1]

\* A leap year: every fourth, and in the Gregorian calendar of the centuries every fourth.
Leap(year) ==
  LET centuries == {100 * c : c \in -48..99} IN
  year % 4 = 0 /\ (calendar = "gregorian" /\ year \in centuries => (year \div 100) % 4 = 0)
DaysIn(year) == IF Leap(year) THEN 366 ELSE 365
DaysOf(d) ==
  CASE d.month \in {4, 6, 9, 11} -> 30
    [] d.month = 2 -> IF Leap(d.year) THEN 29 ELSE 28
    [] OTHER -> 31

NewYear == date.month = 1 /\ date.day = 1

Tomorrow ==
  /\ date.year \in YearsByDay
  /\ date' = IF date.day < DaysOf(date) THEN [date EXCEPT !.day = @ + 1]
             ELSE IF date.month < 12 THEN [date EXCEPT !.day = 1, !.month = @ + 1]
             ELSE [year |-> date.year + 1, month |-> 1, day |-> 1]
  /\ day' = day + 1
  /\ weekday' = (weekday + 1) % 7
  /\ UNCHANGED calendar

NextYear ==
  /\ NewYear /\ date.year < MaxYear
  /\ date' = [date EXCEPT !.year = @ + 1]
  /\ day' = day + DaysIn(date.year)
  /\ weekday' = (weekday + DaysIn(date.year)) % 7
  /\ UNCHANGED calendar

LastYear ==
  /\ NewYear /\ date.year > MinYear
  /\ date' = [date EXCEPT !.year = @ - 1]
  /\ day' = day - DaysIn(date.year - 1)
  /\ weekday' = (weekday - DaysIn(date.year - 1)) % 7
  /\ UNCHANGED calendar

Next == Tomorrow \/ NextYear \/ LastYear

Spec == Init /\ [][Next]_vars

-----------------------------------------------------------------------------
(* What is on a day, by the words of the code's documents *)

Rows == {Row(d) : d \in Documents}
Characters == {Character(c) : c \in Characterisations}

Months(d) == d.year * 12 + d.month

\* It is not before what is said (with its doubt, unless strictly), and not after it.
NotBefore(said, strict) ==
  LET doubt == IF said.kind = "about" /\ ~strict THEN Padding ELSE [year |-> 0, month |-> 0, day |-> 0] IN
  CASE said.kind = "unknown" -> date.year >= EarliestYear
    [] said.kind # "unknown" /\ said.month = 0 -> date.year >= said.year - doubt.year
    [] said.kind # "unknown" /\ said.month # 0 /\ said.day = 0 -> Months(date) >= Months(said) - doubt.month
    [] OTHER -> day >= ToJDN(said.year, said.month, said.day, calendar) - doubt.day
NotAfter(said, strict) ==
  LET doubt == IF said.kind = "about" /\ ~strict THEN Padding ELSE [year |-> 0, month |-> 0, day |-> 0] IN
  CASE said.kind \in {"unknown", "ongoing"} -> date.year <= OpenEndYear
    [] said.kind = "unspecified" -> date.year <= said.year + said.unsaid
    [] said.kind \in {"exact", "about"} /\ said.month = 0 -> date.year <= said.year + doubt.year
    [] said.kind \in {"exact", "about"} /\ said.month # 0 /\ said.day = 0 ->
         Months(date) <= Months(said) + doubt.month
    [] OTHER -> day <= ToJDN(said.year, said.month, said.day, calendar) + doubt.day

\* The full moon of Easter: in the Julian calendar by the table of the nineteen years, in
\* the Gregorian by the age of the moon (the epact); as days after 21 March.
JulianMoon(year) ==
  <<15, 4, 23, 12, 1, 20, 9, 28, 17, 6, 25, 14, 3, 22, 11, 0, 19, 8, 27>>[(year % 19) + 1]
GregorianMoon(year) ==
  LET golden == (year % 19) + 1
      century == year \div 100 + 1
      epact == (11 * golden + 20 + (8 * century + 5) \div 25 - 5 - ((3 * century) \div 4 - 12)) % 30
      age == IF (epact = 25 /\ golden > 11) \/ epact = 24 THEN epact + 1 ELSE epact IN
  IF 44 - age < 21 THEN 44 - age + 30 - 21 ELSE 44 - age - 21
\* The Sunday after it, of this year, where the day is known.
EasterSunday ==
  LET moon == ToJDN(date.year, 3, 21, calendar)
              + (IF calendar = "julian" THEN JulianMoon(date.year) ELSE GregorianMoon(date.year)) IN
  CHOOSE d \in moon + 1 .. moon + 7 : (weekday + d - day) % 7 = 0

\* The rule falls on the day: which weekday of the month it is, is counted.
InTheMonth(rule) ==
  /\ weekday \in rule.weekdays
  /\ IF rule.nth > 0 THEN rule.nth = Cardinality({d \in 1..date.day : (date.day - d) % 7 = 0})
     ELSE -rule.nth = Cardinality({d \in date.day..DaysOf(date) : (d - date.day) % 7 = 0})
\* The feasts from 24 to 28 February stay as far from its end.
OfTheMonth(rule) ==
  IF rule.leap_shift THEN DaysOf(date) - date.day = 28 - rule.month_day ELSE date.day = rule.month_day

\* The first day of the lifetime: what each second week, month or year is counted from.
Beginning(d) ==
  IF d.start.kind = "unknown" THEN [year |-> EarliestYear, month |-> 1, day |-> 1]
  ELSE [year |-> d.start.year, month |-> IF d.start.month = 0 THEN 1 ELSE d.start.month,
        day |-> IF d.start.day = 0 THEN 1 ELSE d.start.day]

Falls(d) ==
  LET rule == d.rule
      start == Beginning(d)
      first == ToJDN(start.year, start.month, start.day, calendar)
      Each(n) == n % rule.interval = 0 IN
  /\ day \notin rule.excluded_days
  /\ CASE Moving(rule) -> day = EasterSunday + rule.easter_offset /\ Each(date.year - start.year)
       [] ~Moving(rule) /\ rule.frequency = "weekly" ->
            /\ weekday \in rule.weekdays
            /\ (day - first) % (7 * rule.interval) < 7
       [] ~Moving(rule) /\ rule.frequency = "monthly" ->
            /\ IF rule.month_day # None THEN OfTheMonth(rule) ELSE InTheMonth(rule)
            /\ Each(Months(date) - Months(start))
       [] ~Moving(rule) /\ rule.frequency = "yearly" ->
            /\ date.month = rule.month
            /\ IF rule.month_day # None THEN OfTheMonth(rule) ELSE InTheMonth(rule)
            /\ Each(date.year - start.year)

Lasts(d, strict) == NotBefore(d.start, strict) /\ NotAfter(d.end, strict)
IsOn(d, strict) == Lasts(d, strict) /\ (d.kind = "recurrence" => Falls(d))

\* And a rule on a feast, with the characterisation that is the feast.
Feasts == {c.id : c \in {c \in Characterisations :
                     c.date.calendar = calendar /\ HasDays(c) /\ IsOn(c.date, TRUE)}}
OnFeast(d, strict) ==
  /\ Lasts(d, strict) /\ day \notin d.rule.excluded_days /\ d.rule.feast \in Feasts
  /\ (date.year - Beginning(d).year) % d.rule.interval = 0

DocumentOn(d, strict) ==
  IF d.kind = "recurrence" /\ d.rule.feast # None THEN OnFeast(d, strict) ELSE IsOn(d, strict)

-----------------------------------------------------------------------------

\* The person knows a date that the code accepts, and what the code works out of it.
Counted ==
  /\ calendar \in Calendars
  /\ date \in [year : MinYear..MaxYear, month : 1..12, day : 1..31]
  /\ IsDate(date.year, date.month, date.day, calendar)
  /\ day = ToJDN(date.year, date.month, date.day, calendar)
  /\ weekday = Weekday(day)

\* The number of a day, its name in the calendar and its weekday are those of someone who
\* counts, over all the years that the code allows.  Easter is the Sunday after the full
\* moon, in each year and calendar, and a day as far from it as a rule may say (-80 to
\* 250) is still in the year: on this the keys of a day, and a year's days, rest.
CalendarsAreCounted ==
  /\ Counted
  /\ FromJDN(day, calendar) = date
  /\ NewYear =>
       LET easter == Easter(date.year, calendar) IN
       /\ easter = EasterSunday
       /\ easter - 80 >= day /\ easter + 250 < day + DaysIn(date.year)

\* The documents of the person's calendar, but not those on feasts of the other calendar.
Mine ==
  {row \in Rows :
     /\ row.date.calendar = calendar
     /\ row.date.kind = "recurrence" =>
          \A c \in Characterisations : c.id = row.date.rule.feast => c.date.calendar = calendar}

LeapShifted(d) == d.kind = "recurrence" /\ d.rule.leap_shift /\ Leap(date.year)

\* What is found on a day is what is on it: among the documents of a calendar by the query
\* (the bounds, the keys, the rule), and on the day of the calendar, of both calendars,
\* but for rules with a leap_shift in a leap year, which it does not read; and a characterisation is
\* among the days worked out for a stretch just if it falls on the day.
FoundIsWhatIsOn ==
  date.year \in YearsByDay =>
    LET extraKeys == FeastKeys(Characters, day)
        keys == DayKeys(day, calendar, extraKeys)
        bothKeys == BothCalendarsKeys(day, extraKeys) IN
    /\ \A row \in Mine :
         /\ OnDay(row, day, calendar, TRUE, keys, extraKeys) <=> DocumentOn(row.date, FALSE)
         /\ OnDay(row, day, calendar, FALSE, keys, extraKeys) <=> DocumentOn(row.date, TRUE)
         /\ LeapShifted(row.date) \/ (Hit(row, day, bothKeys, extraKeys) <=> DocumentOn(row.date, FALSE))
    /\ \A c \in {c \in Characters : c.date.calendar = calendar} :
         LET on == HasDays(c) /\ IsOn(c.date, TRUE) IN
         /\ FallsOnDay(c, day) <=> on
         /\ day \in DaysBetween(c, day, day) <=> on
         /\ day \in DaysBetween(c, day - 40, day + 40) <=> on

=============================================================================
