------------------------------ MODULE MCAlmanac -----------------------------
(* 1 January 2000 (Gregorian) was a Saturday, number 2451545; the numbers begin at 1    *)
(* January 4713 BC (Julian), a Monday.                                                  *)
EXTENDS Almanac

MCKnown ==
  {[calendar |-> "gregorian", year |-> 2000, day |-> 2451545, weekday |-> 6],
   [calendar |-> "julian", year |-> -4712, day |-> 0, weekday |-> 1]}
MCYearsByDay == {1500, 1501, 1504, 1600}
MCPadding == [year |-> 1, month |-> 1, day |-> 7]

Said(kind, year, month, day_) == [kind |-> kind, year |-> year, month |-> month, day |-> day_, unsaid |-> 9]
Exact == {Said("exact", 1501, 0, 0), Said("exact", 1500, 2, 0), Said("exact", 1504, 2, 29)}
About == {Said("about", 1500, 0, 0), Said("about", 1504, 1, 0), Said("about", 1501, 12, 28)}
Others == {Said("unspecified", 1500, 0, 0)}
NotKnown == Said("unknown", 0, 0, 0)
Ongoing == Said("ongoing", 0, 0, 0)
Lives == {<<Said("exact", 1500, 1, 10), Ongoing>>, <<Said("about", 1501, 3, 0), Said("exact", 1504, 0, 0)>>}

NoRule ==
  [frequency |-> "yearly", weekdays |-> {}, nth |-> None, month |-> None, month_day |-> None, interval |-> 1,
   excluded_days |-> {}, easter_offset |-> None, feast |-> None, leap_shift |-> FALSE]
Weekly == [NoRule EXCEPT !.frequency = "weekly", !.weekdays = {0}]
Monthly == [NoRule EXCEPT !.frequency = "monthly"]
Yearly == [NoRule EXCEPT !.month = 2]
Simple ==
  {Weekly, [Weekly EXCEPT !.weekdays = {3, 6}]}
  \cup {[Monthly EXCEPT !.month_day = d] : d \in {1, 29, 31}}
  \cup {[Monthly EXCEPT !.nth = n, !.weekdays = {w}] : n \in {1, 5, -1, -5}, w \in {0, 6}}
  \cup {[Yearly EXCEPT !.month_day = d] : d \in {24, 29}}
  \cup {[Yearly EXCEPT !.nth = n, !.weekdays = {2}] : n \in {4, 5, -1, -5}}
  \cup {[Yearly EXCEPT !.month_day = d, !.leap_shift = TRUE] : d \in {24, 28}}
  \cup {[NoRule EXCEPT !.easter_offset = n] : n \in {-80, -47, 0, 49, 250}}
Rules ==
  Simple
  \cup {[r EXCEPT !.interval = 2] : r \in {Weekly, [Monthly EXCEPT !.month_day = 5], [NoRule EXCEPT !.easter_offset = 0]}}
  \cup {[r EXCEPT !.interval = 3] : r \in {Weekly, [Monthly EXCEPT !.nth = 2, !.weekdays = {4}], [Yearly EXCEPT !.month_day = 2]}}
  \cup {[Weekly EXCEPT !.excluded_days = {2269000, 2269007}]}

Date(c, kind, start, end, rule) == [calendar |-> c, kind |-> kind, start |-> start, end |-> end, rule |-> rule]
Singles == {Date(c, "single", s, s, NoRule) : c \in Calendars, s \in Exact \cup About \cup Others}
Periods ==
  {Date(c, "period", s, e, NoRule) : c \in Calendars, s \in {Said("exact", 1500, 2, 0), Said("about", 1500, 0, 0), NotKnown},
                                     e \in Exact \cup About}
  \cup {Date(c, "period", Said("about", 1501, 12, 28), e, NoRule) : c \in Calendars, e \in {NotKnown, Ongoing}}
Recurrences_ == {Date(c, "recurrence", l[1], l[2], r) : c \in Calendars, l \in Lives, r \in Rules}

\* Characterisations 1 to 4 are the feasts of documents, in the Julian calendar and the Gregorian.
Feast(c, n) ==
  IF c = "julian" THEN n ELSE n + 2
MCCharacterisations ==
  {[id |-> Feast(c, 1), date |-> Date(c, "recurrence", Said("exact", 1500, 0, 0), Ongoing, [NoRule EXCEPT !.easter_offset = 39])] : c \in Calendars}
  \cup {[id |-> Feast(c, 2), date |-> Date(c, "period", Said("exact", 1501, 3, 0), Said("exact", 1501, 4, 5), NoRule)] : c \in Calendars}
  \cup {[id |-> 5, date |-> d] : d \in
           {Date(c, "recurrence", Said("exact", 1500, 1, 10), Ongoing, r) :
              c \in Calendars, r \in {r \in Rules : r.frequency = "yearly" \/ r = [Weekly EXCEPT !.interval = 3]}}
           \cup {Date(c, "recurrence", Said("exact", 1500, 0, 0), Ongoing, [NoRule EXCEPT !.feast = Feast(c, 1)]) : c \in Calendars}}
MCDocuments ==
  Singles \cup {d \in Periods : MaySpan(WorkedOut(d.start, d.calendar), WorkedOut(d.end, d.calendar))} \cup Recurrences_
  \cup {Date(c, "recurrence", Said("exact", 1500, 1, 10), Ongoing, [NoRule EXCEPT !.feast = Feast(c, n), !.interval = i]) :
          c \in Calendars, n \in {1, 2}, i \in {1, 2}}
  \cup {Date(c, "recurrence", NotKnown, Said("exact", 1501, 0, 0), [r EXCEPT !.interval = 4]) :
          c \in Calendars, r \in {Weekly, [NoRule EXCEPT !.easter_offset = 0], [Monthly EXCEPT !.month_day = 29]}}
=============================================================================
