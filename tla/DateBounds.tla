----------------------------- MODULE DateBounds -----------------------------
(***************************************************************************)
(* A date as its four bounds (pangloss_dates.bounds), which are worked out   *)
(* from what is said of it (pangloss_dates.models), and the constraints that *)
(* compare two dates (pangloss_dates.rules).                                 *)
(***************************************************************************)
EXTENDS Days

CONSTANTS
  Padding,       \* what doubt adds to a year, to a month and to a day (DATES_PADDING_*)
  EarliestYear,  \* DATES_EARLIEST_YEAR
  OpenEndYear    \* DATES_OPEN_END_YEAR

ASSUME BoundsAssumption ==
  /\ Padding \in [year : Nat, month : Nat, day : Nat]
  /\ EarliestYear \in MinYear..MaxYear /\ OpenEndYear \in EarliestYear..MaxYear

Bounds(ef, es, ls, lf) ==
  [earliest_fuzzy |-> ef, earliest_strict |-> es, latest_strict |-> ls, latest_fuzzy |-> lf]

\* __post_init__, which refuses any other.
InOrder(b) ==
  /\ b.earliest_fuzzy <= b.earliest_strict
  /\ b.earliest_strict <= b.latest_strict
  /\ b.latest_strict <= b.latest_fuzzy

Earliest(b, strict) == IF strict THEN b.earliest_strict ELSE b.earliest_fuzzy
Latest(b, strict) == IF strict THEN b.latest_strict ELSE b.latest_fuzzy

SortDay(b, by) ==
  CASE by = "midpoint" -> (b.earliest_strict + b.latest_strict) \div 2
    [] by = "midpoint_fuzzy" -> (b.earliest_fuzzy + b.latest_fuzzy) \div 2
    [] by = "earliest_strict" -> b.earliest_strict
    [] by = "latest_strict" -> b.latest_strict
    [] by = "earliest_fuzzy" -> b.earliest_fuzzy
    [] by = "latest_fuzzy" -> b.latest_fuzzy

-----------------------------------------------------------------------------
(* What is said of a date: a year, a month or a day (of the others 0), taken as it is  *)
(* or with doubt; digits left out of a year (150X); that it is not over, or not known. *)

ExactBounds(said, calendar) ==
  LET first == FirstDay(said.year, said.month, said.day, calendar)
      last == LastDay(said.year, said.month, said.day, calendar) IN
  Bounds(first, first, last, last)

ShiftMonth(year, month, months) ==
  LET index == year * 12 + (month - 1) + months IN
  [year |-> index \div 12, month |-> (index % 12) + 1]

PaddedBounds(said, calendar) ==
  LET first == FirstDay(said.year, said.month, said.day, calendar)
      last == LastDay(said.year, said.month, said.day, calendar)
      before == ShiftMonth(said.year, said.month, -Padding.month)
      after == ShiftMonth(said.year, said.month, Padding.month) IN
  CASE said.month = 0 ->
         Bounds(FirstDay(said.year - Padding.year, 0, 0, calendar), first, last,
                LastDay(said.year + Padding.year, 0, 0, calendar))
    [] said.month # 0 /\ said.day = 0 ->
         Bounds(FirstDay(before.year, before.month, 0, calendar), first, last,
                LastDay(after.year, after.month, 0, calendar))
    [] OTHER -> Bounds(first - Padding.day, first, last, last + Padding.day)

\* _unspecified: a year whose last digit, or digits, are X.
UnspecifiedBounds(said, calendar) ==
  LET first == FirstDay(said.year, 0, 0, calendar)
      last == LastDay(said.year + said.unsaid, 0, 0, calendar) IN
  Bounds(first, first, last, last)

OngoingBounds(horizon) == Bounds(horizon, horizon, horizon, horizon)
UnknownBounds(floor, horizon) == Bounds(floor, floor, horizon, horizon)

OpenEndHorizon(calendar) == ToJDN(OpenEndYear, 12, 31, calendar)
EarliestDay(calendar) == ToJDN(EarliestYear, 1, 1, calendar)

\* work_out, of a date that is not of two others.
WorkedOut(said, calendar) ==
  CASE said.kind = "exact" -> ExactBounds(said, calendar)
    [] said.kind = "about" -> PaddedBounds(said, calendar)
    [] said.kind = "unspecified" -> UnspecifiedBounds(said, calendar)
    [] said.kind = "ongoing" -> OngoingBounds(OpenEndHorizon(calendar))
    [] said.kind = "unknown" -> UnknownBounds(EarliestDay(calendar), OpenEndHorizon(calendar))

\* What may be said: each year, month and day that work_out counts is one that check_date
\* accepts; of digits left out of a year nothing more is said, and none are of years before 0.
IsSaid(said, calendar) ==
  /\ said.year \in Int /\ said.month \in 0..12 /\ said.day \in 0..31 /\ said.unsaid \in Nat
  /\ \/ /\ said.kind \in {"exact", "about"}
        /\ IsDate(said.year, IF said.month = 0 THEN 1 ELSE said.month, IF said.day = 0 THEN 1 ELSE said.day, calendar)
        /\ said.month = 0 => said.day = 0
        /\ said.kind = "about" /\ said.month = 0 =>
             {said.year - Padding.year, said.year + Padding.year} \subseteq MinYear..MaxYear
        /\ said.kind = "about" /\ said.month # 0 /\ said.day = 0 =>
             {ShiftMonth(said.year, said.month, n).year : n \in {-Padding.month, Padding.month}} \subseteq MinYear..MaxYear
     \/ /\ said.kind = "unspecified" /\ said.month = 0 /\ said.day = 0
        /\ said.year >= 0 /\ said.year + said.unsaid <= MaxYear
     \/ said.kind \in {"ongoing", "unknown"}

\* spanning_bounds, and when it refuses: a range, a period, the lifetime of a recurrence.
MaySpan(earliest, latest) == earliest.earliest_strict <= latest.latest_strict
SpanningBounds(earliest, latest) ==
  Bounds(earliest.earliest_fuzzy, earliest.earliest_strict, latest.latest_strict, latest.latest_fuzzy)

-----------------------------------------------------------------------------
(* The constraints of the rules of derived facts, by the strict bounds or the fuzzy ones *)

Overlaps(a, b, strict) ==
  Earliest(a, strict) <= Latest(b, strict) /\ Earliest(b, strict) <= Latest(a, strict)
Before(a, b, strict) == Latest(a, strict) < Earliest(b, strict)
During(a, b, strict) ==
  Earliest(b, strict) <= Earliest(a, strict) /\ Latest(a, strict) <= Latest(b, strict)
Within(a, b, days, strict) ==
  /\ Earliest(a, strict) - Latest(b, strict) <= days
  /\ Earliest(b, strict) - Latest(a, strict) <= days
=============================================================================
