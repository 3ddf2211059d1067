---------------------------- MODULE Recurrences -----------------------------
(***************************************************************************)
(* Repeated events (pangloss_dates.recurrence), and what is on a day: as     *)
(* pangloss_dates.query finds it, and as pangloss_calendar does.  The days   *)
(* of a rule are never stored: a rule has keys, of which every day that it   *)
(* falls on has one, and what is found by them is checked.                   *)
(***************************************************************************)
EXTENDS DateBounds

\* What a rule, or a date, does not say.
None == 1000

Moving(rule) == rule.easter_offset # None \/ rule.feast # None
Shift(rule, year, calendar) == IF rule.leap_shift /\ IsLeapYear(year, calendar) THEN 1 ELSE 0
TheWeekday(rule) == CHOOSE w \in rule.weekdays : TRUE

\* Which rules say a day (__post_init__ of RecurrenceRule refuses others): on Easter or a
\* feast alone; on weekdays; or in a month, by its day or by the n-th of one weekday.
IsRule(rule) ==
  /\ rule \in [frequency : {"weekly", "monthly", "yearly"}, weekdays : SUBSET (0..6),
               nth : (-5..5 \ {0}) \cup {None}, month : 1..12 \cup {None}, month_day : 1..31 \cup {None},
               interval : Nat \ {0}, excluded_days : SUBSET Int, easter_offset : -80..250 \cup {None},
               feast : {rule.feast}, leap_shift : BOOLEAN]
  /\ rule.leap_shift =>
       rule.frequency = "yearly" /\ rule.month = 2 /\ rule.month_day \in 24..28 /\ ~Moving(rule)
  /\ Moving(rule) =>
       /\ rule.easter_offset = None \/ rule.feast = None
       /\ rule.frequency = "yearly" /\ rule.weekdays = {}
       /\ rule.nth = None /\ rule.month = None /\ rule.month_day = None
  /\ ~Moving(rule) /\ rule.frequency = "weekly" =>
       rule.weekdays # {} /\ rule.nth = None /\ rule.month = None /\ rule.month_day = None
  /\ ~Moving(rule) /\ rule.frequency # "weekly" =>
       /\ rule.month = None <=> rule.frequency = "monthly"
       /\ \/ rule.month_day # None /\ rule.nth = None /\ rule.weekdays = {}
          \/ rule.month_day = None /\ rule.nth # None /\ \E w \in 0..6 : rule.weekdays = {w}

OccursOn(rule, day, calendar, anchor, extraKeys) ==
  LET d == FromJDN(day, calendar)
      a == FromJDN(anchor, calendar) IN
  /\ day \notin rule.excluded_days
  /\ CASE Moving(rule) ->
            /\ IF rule.feast # None THEN <<"feast", rule.feast>> \in extraKeys
               ELSE day = Easter(d.year, calendar) + rule.easter_offset
            /\ (d.year - a.year) % rule.interval = 0
       [] ~Moving(rule) /\ rule.frequency = "weekly" ->
            Weekday(day) \in rule.weekdays /\ ((day - anchor) \div 7) % rule.interval = 0
       [] OTHER ->
            /\ rule.frequency = "yearly" => d.month = rule.month
            /\ IF rule.month_day # None THEN d.day = rule.month_day + Shift(rule, d.year, calendar)
               ELSE day \in NthWeekday(d.year, d.month, TheWeekday(rule), rule.nth, calendar)
            /\ IF rule.frequency = "yearly" THEN (d.year - a.year) % rule.interval = 0
               ELSE ((d.year - a.year) * 12 + d.month - a.month) % rule.interval = 0

PatternKeys(rule) ==
  CASE rule.easter_offset # None -> {<<"easter", rule.easter_offset>>}
    [] rule.feast # None -> {<<"feast", rule.feast>>}
    [] ~Moving(rule) /\ rule.frequency = "weekly" -> {<<"weekday", w>> : w \in rule.weekdays}
    [] ~Moving(rule) /\ rule.frequency = "monthly" ->
         IF rule.month_day # None THEN {<<"monthday", rule.month_day>>}
         ELSE {<<"nth", rule.nth, TheWeekday(rule)>>}
    [] OTHER ->
         IF rule.month_day # None
         THEN {<<"yearday", rule.month, rule.month_day + n>> : n \in 0..(IF rule.leap_shift THEN 1 ELSE 0)}
         ELSE {<<"yearnth", rule.month, rule.nth, TheWeekday(rule)>>}

DayKeys(day, calendar, extraKeys) ==
  LET d == FromJDN(day, calendar)
      w == Weekday(day)
      nths == {(d.day - 1) \div 7 + 1,
               -((MonthLength(d.year, d.month, calendar) - d.day) \div 7 + 1)} IN
  {<<"weekday", w>>, <<"monthday", d.day>>, <<"yearday", d.month, d.day>>,
   <<"easter", day - Easter(d.year, calendar)>>}
  \cup {<<"nth", n, w>> : n \in nths} \cup {<<"yearnth", d.month, n, w>> : n \in nths}
  \cup extraKeys

-----------------------------------------------------------------------------
(* What is stored of a date (fill_in) *)

BoundsOf(date) ==
  LET start == WorkedOut(date.start, date.calendar) IN
  IF date.kind = "single" THEN start
  ELSE SpanningBounds(start, WorkedOut(date.end, date.calendar))

\* Which dates work_out accepts (a range of two dates is as a period): the ends of one are
\* said, not both unknown, and in order.
IsAccepted(date) ==
  /\ date.kind \in {"single", "period", "recurrence"} /\ date.calendar \in Calendars
  /\ IsSaid(date.start, date.calendar) /\ IsSaid(date.end, date.calendar)
  /\ date.start.kind # "ongoing"
  /\ IF date.kind = "single" THEN date.end = date.start
     ELSE /\ date.start.kind # "unknown" \/ date.end.kind # "unknown"
          /\ MaySpan(WorkedOut(date.start, date.calendar), WorkedOut(date.end, date.calendar))
  /\ date.kind = "recurrence" => IsRule(date.rule)

Anchor(date) == WorkedOut(date.start, date.calendar).earliest_strict

Row(date) ==
  [date |-> date, bounds |-> BoundsOf(date), anchor |-> Anchor(date),
   keys |-> IF date.kind = "recurrence" THEN PatternKeys(date.rule) ELSE {}]

Holds(row, day, strict) ==
  Earliest(row.bounds, strict) <= day /\ day <= Latest(row.bounds, strict)

-----------------------------------------------------------------------------
(* pangloss_dates.query, of dates of one family, all in its calendar: what is found by *)
(* the bounds, or the bounds and the keys, and for a recurrence then by its rule.      *)

OnDay(row, day, calendar, fuzzy, keys, extraKeys) ==
  /\ Holds(row, day, ~fuzzy)
  /\ row.date.kind = "recurrence" =>
       /\ row.keys \cap keys # {}
       /\ OccursOn(row.date.rule, day, calendar, row.anchor, extraKeys)

-----------------------------------------------------------------------------
(* pangloss_calendar: characterisations, whose days are worked out, and a day *)

Character(c) == [id |-> c.id, date |-> c.date, bounds |-> BoundsOf(c.date), anchor |-> Anchor(c.date)]

HasDays(c) == c.date.kind = "recurrence" => c.date.rule.feast = None

FallsOnDay(c, day) ==
  /\ HasDays(c)
  /\ Holds(c, day, TRUE)
  /\ c.date.kind = "recurrence" => OccursOn(c.date.rule, day, c.date.calendar, c.anchor, {})

\* Where a yearly rule may fall in a year.
YearlyDay(rule, year, calendar) ==
  CASE rule.easter_offset # None -> {Easter(year, calendar) + rule.easter_offset}
    [] rule.easter_offset = None /\ rule.month_day # None ->
         IF IsDate(year, rule.month, rule.month_day, calendar)
         THEN {ToJDN(year, rule.month, rule.month_day, calendar) + Shift(rule, year, calendar)}
         ELSE {}
    [] OTHER -> NthWeekday(year, rule.month, TheWeekday(rule), rule.nth, calendar)

\* A yearly rule is worked out for each year, not tried on every day.
DaysBetween(c, first, last) ==
  LET lo == IF first < c.bounds.earliest_strict THEN c.bounds.earliest_strict ELSE first
      hi == IF last > c.bounds.latest_strict THEN c.bounds.latest_strict ELSE last
      On(d) == OccursOn(c.date.rule, d, c.date.calendar, c.anchor, {})
      years == FromJDN(lo, c.date.calendar).year .. FromJDN(hi, c.date.calendar).year IN
  CASE ~HasDays(c) \/ lo > hi -> {}
    [] HasDays(c) /\ lo <= hi /\ c.date.kind # "recurrence" -> lo..hi
    [] HasDays(c) /\ lo <= hi /\ c.date.kind = "recurrence" /\ c.date.rule.frequency # "yearly" ->
         {d \in lo..hi : On(d)}
    [] OTHER ->
         {d \in UNION {YearlyDay(c.date.rule, year, c.date.calendar) : year \in years} :
            lo <= d /\ d <= hi /\ On(d)}

FeastKeys(chars, day) == {<<"feast", c.id>> : c \in {c \in chars : FallsOnDay(c, day)}}

\* (Mutant: the keys of a day in one calendar only.)
JulianKeys(day, extraKeys) == DayKeys(day, "julian", extraKeys)

BothCalendarsKeys(day, extraKeys) ==
  DayKeys(day, "julian", extraKeys) \cup DayKeys(day, "gregorian", {})

\* _rule_of a row that dated_between returns, which has all of the rule but its leap_shift.
RuleOf(row) == [row.date.rule EXCEPT !.leap_shift = FALSE]

\* A document is on a day, by its own calendar.
Hit(row, day, keys, extraKeys) ==
  /\ Holds(row, day, FALSE)
  /\ row.date.kind = "recurrence" =>
       /\ row.keys \cap keys # {}
       /\ OccursOn(RuleOf(row), day, row.date.calendar, row.anchor, extraKeys)

=============================================================================
