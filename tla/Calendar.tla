------------------------------ MODULE Calendar ------------------------------
(***************************************************************************)
(* Plain dates.  A day is the number of its local calendar day, a month    *)
(* its number; YYYY-MM-DD strings compare as their days do.  The calendar  *)
(* itself is a parameter: FirstDay[m] is the first day of month m.         *)
(***************************************************************************)
EXTENDS Integers

CONSTANTS FirstDay, LastMonth

Months == 0..LastMonth

DaysInMonth(m) == FirstDay[m + 1] - FirstDay[m]

ASSUME CalendarAssumption ==
  /\ LastMonth \in Nat
  /\ FirstDay \in [0..(LastMonth + 1) -> Int]
  /\ \A m \in Months : DaysInMonth(m) > 0
  /\ \A m, n \in Months : m < n => FirstDay[m + 1] <= FirstDay[n]

MonthOf(d) == CHOOSE m \in Months : FirstDay[m] <= d /\ d < FirstDay[m + 1]

(* The nth day of month m, counted from 0, or its last day.                *)
DayOrLast(m, n) == FirstDay[m] + (IF n < DaysInMonth(m) THEN n ELSE DaysInMonth(m) - 1)

(* Mutant: a day the month does not have runs over into the next one.      *)
AddMonthsOverflowing(d, n) ==
  FirstDay[MonthOf(d) + n] + (d - FirstDay[MonthOf(d)])

(* dayjs.add(n, 'month'): the same day of the month, or the last one.      *)
AddMonths(d, n) == DayOrLast(MonthOf(d) + n, d - FirstDay[MonthOf(d)])
=============================================================================
