------------------------- MODULE InstallmentSchedule -------------------------
(***************************************************************************)
(* The dates of a recurrence and of the instalments of a plan              *)
(* (utils/installmentSchedule.ts, calculate-next-generation-date, and the  *)
(* SQL of installment-position.ts).  Three computations walk the schedule  *)
(* in three ways and have to agree: the job steps from date to date, the   *)
(* end of a plan is one jump from its start, and the number an instalment  *)
(* is shown with is found from its date alone.                             *)
(***************************************************************************)
EXTENDS Calendar

CONSTANTS DaysPerWeek, MonthsPerYear,
          MaxInstallments     (* MAX_INSTALLMENTS                          *)

ASSUME ScheduleAssumption ==
  /\ DaysPerWeek \in Nat \ {0} /\ MonthsPerYear \in Nat \ {0}
  /\ MaxInstallments \in Nat \ {0}
  /\ FirstDay[0] \in Nat     (* so that Never is no day                       *)

Frequencies == {"WEEKLY", "MONTHLY", "YEARLY"}

Never == -1     (* NULL, of a date, and of a number of instalments         *)

(* n occurrences after day d.                                              *)
AddOccurrences(s, d, n) ==
  CASE s.frequency = "WEEKLY"  -> d + s.interval * DaysPerWeek * n
    [] s.frequency = "MONTHLY" -> AddMonths(d, s.interval * n)
    [] s.frequency = "YEARLY"  -> AddMonths(d, s.interval * MonthsPerYear * n)

NextOccurrence(s, d) == AddOccurrences(s, d, 1)

(* calculateInstallmentEndDate.                                            *)
EndDate(s, n) == AddOccurrences(s, s.start, n - 1)

(* inferInstallmentCount: the plan that would end on this day.             *)
InferCount(s, end) ==
  IF \E n \in 1..MaxInstallments : EndDate(s, n) = end
    THEN CHOOSE n \in 1..MaxInstallments : EndDate(s, n) = end
    ELSE Never

(* occurrencePosition, from the date of a row.                             *)
YearOf(d) == MonthOf(d) \div MonthsPerYear

Position(s, d) ==
  1 + CASE s.frequency = "WEEKLY"  -> (d - s.start) \div (DaysPerWeek * s.interval)
        [] s.frequency = "MONTHLY" -> (MonthOf(d) - MonthOf(s.start)) \div s.interval
        [] s.frequency = "YEARLY"  -> (YearOf(d) - YearOf(s.start)) \div s.interval

(* installmentNumberSql, of a row whose rule counts its instalments.       *)
InstallmentNumber(s, d) ==
  IF Position(s, d) \in 1..s.count THEN Position(s, d) ELSE Never
=============================================================================
