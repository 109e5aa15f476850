----------------------------- MODULE DedupWindow -----------------------------
(***************************************************************************)
(* AlertsService.calculateWindowKey: the time window of a rule turns the   *)
(* datetime of a transaction into the last part of its dedup key. Pure     *)
(* arithmetic on a calendar; time counts in hours, the finest unit a       *)
(* window can have. A text key stands for the fields it prints.            *)
(*                                                                         *)
(* A window is <<n, unit>>. Unit "text" stands for a string of any other   *)
(* form, "other" for a JSON value that is no string, "unset" for none.     *)
(***************************************************************************)
EXTENDS Naturals, FiniteSets

CONSTANTS
    HoursPerDay,
    DaysPerWeek,
    Calendar,       \* the year and the month (from 0) of each day
    NaN             \* what a division by zero makes of every field

Day == DOMAIN Calendar
Instant == 0..(Cardinality(Day) * HoursPerDay - 1)

\* The day after one of month a is of the same month, the next, or the next year.
Follows(b, a) ==
    \/ b = a
    \/ b = [a EXCEPT !.month = @ + 1]
    \/ b = [year |-> a.year + 1, month |-> 0]

ASSUME CalendarAssumption ==
    /\ HoursPerDay \in Nat \ {0}
    /\ DaysPerWeek \in Nat \ {0}
    /\ Day = 0..(Cardinality(Day) - 1)
    /\ IsFiniteSet(Day)
    /\ Calendar \in [Day -> [year : Nat, month : Nat]]
    /\ \A d \in Day \ {0} : Follows(Calendar[d], Calendar[d - 1])
    /\ NaN \notin Nat

HourOf(t) == t % HoursPerDay
DayOf(t) == t \div HoursPerDay
YearOf(t) == Calendar[DayOf(t)].year
MonthOf(t) == Calendar[DayOf(t)].month

\* Whole days since the first day of the year, and whole weeks.
DayOfYear(t) == Cardinality({d \in Day : d < DayOf(t) /\ Calendar[d].year = YearOf(t)})
WeekOfYear(t) == DayOfYear(t) \div DaysPerWeek

\* Math.floor(x / n) * n
Floored(x, n) == IF n = 0 THEN NaN ELSE (x \div n) * n

\* A Date that was moved by NaN prints it in every field.
YearOfBucket(t, n) == IF n = 0 THEN NaN ELSE YearOf(t)

DayKey(t, n) == <<"day", YearOfBucket(t, n), Floored(DayOfYear(t), n)>>

\* toISOString throws on an invalid Date, and a number has no match().
Throws(w) == w[2] = "other" \/ w = <<0, "h">>

\* Fault: a bucket of months does not name its year.
WindowKeyYearless(t, w) ==
    CASE w[2] = "unset" -> <<"hour", DayOf(t), Floored(HourOf(t), HoursPerDay)>>
      [] w[2] = "h" -> <<"hour", DayOf(t), Floored(HourOf(t), w[1])>>
      [] w[2] = "d" -> DayKey(t, w[1])
      [] w[2] = "w" -> <<"week", YearOfBucket(t, w[1]), Floored(WeekOfYear(t), w[1])>>
      [] w[2] = "m" -> <<"month", 0, Floored(MonthOf(t), w[1])>>
      [] OTHER -> DayKey(t, 1)

\* calculateWindowKey, where it does not throw. Buckets begin anew with the day
\* (hours) or the year (days, weeks, months).
WindowKey(t, w) ==
    CASE w[2] = "unset" -> <<"hour", DayOf(t), Floored(HourOf(t), HoursPerDay)>>
      [] w[2] = "h" -> <<"hour", DayOf(t), Floored(HourOf(t), w[1])>>
      [] w[2] = "d" -> DayKey(t, w[1])
      [] w[2] = "w" -> <<"week", YearOfBucket(t, w[1]), Floored(WeekOfYear(t), w[1])>>
      [] w[2] = "m" -> <<"month", YearOf(t), Floored(MonthOf(t), w[1])>>
      [] OTHER -> DayKey(t, 1)

-----------------------------------------------------------------------------
(* Reference: where a window of n > 0 units begins anew *)

FirstOfDay(t) == HourOf(t) = 0
FirstOfYear(t) == FirstOfDay(t) /\ DayOfYear(t) = 0
FirstOfMonth(t) == FirstOfDay(t) /\ (t = 0 \/ MonthOf(t) # MonthOf(t - 1)
                                           \/ YearOf(t) # YearOf(t - 1))

Begins(t, w) ==
    CASE w[2] = "h" -> HourOf(t) % w[1] = 0
      [] w[2] = "d" -> FirstOfDay(t) /\ DayOfYear(t) % w[1] = 0
      [] w[2] = "w" -> FirstOfDay(t) /\ DayOfYear(t) % (DaysPerWeek * w[1]) = 0
      [] w[2] = "m" -> FirstOfMonth(t) /\ MonthOf(t) % w[1] = 0
      [] OTHER -> FirstOfDay(t)

\* The windows of the runs: none to several days, weeks or months, more hours
\* than a day has, and the forms that are no window.
Window == ((0..(HoursPerDay + 1)) \X {"h", "d", "w", "m"})
              \cup ({0} \X {"unset", "text", "other"})

\* Two transactions share a bucket exactly when none begins between them, so a
\* bucket never spans days (hours) or years, is never longer than its window,
\* and is cut short where the window does not divide the day, year or week
\* count. A window of 0 days or weeks is one bucket for ever, of 0 months one a
\* year, and no window, or an unreadable one, is a day.
BucketsAreCut ==
    \A w \in {x \in Window : ~Throws(x)} : \A t, u \in Instant : t <= u =>
        (WindowKey(t, w) = WindowKey(u, w) <=>
             IF w[1] = 0 /\ w[2] \in {"d", "w"} THEN TRUE
             ELSE IF w = <<0, "m">> THEN YearOf(t) = YearOf(u)
             ELSE \A s \in (t + 1)..u : ~Begins(s, w))
=============================================================================
