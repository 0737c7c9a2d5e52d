--------------------------- MODULE CalendarProofs ---------------------------
(***************************************************************************)
(* Proofs about what is computed from calendars, for every calendar of     *)
(* months: the schedules of InstallmentSchedule, the rows and the forecast *)
(* that MonthProjection draws from them, the invoices of InvoiceCalendar   *)
(* and CardInvoices, and the bills and the usual spending that             *)
(* VariableEstimate draws from the past.                                   *)
(***************************************************************************)
EXTENDS MonthProjection, CardInvoices, VariableEstimate, DataLemmas

-----------------------------------------------------------------------------
(***************************************************************************)
(* The schedule of a rule: a step of the job goes from an instalment to the *)
(* one after it, a jump to the end of a plan lands on its last one, and the *)
(* rules of MonthProjection keep their count and their end together.       *)
(***************************************************************************)

InMonth(d, m) == FirstDay[m] <= d /\ d < FirstDay[m + 1]

InCalendar(d) == d \in Int /\ \E m \in Months : InMonth(d, m)

(* The months a step, or n of them, goes.                                  *)
MonthsAhead(s, n) ==
  CASE s.frequency = "WEEKLY"  -> 0
    [] s.frequency = "MONTHLY" -> s.interval * n
    [] s.frequency = "YEARLY"  -> s.interval * MonthsPerYear * n

IsSchedule(s) == /\ s.frequency \in Frequencies /\ s.interval \in Nat \ {0}
                 /\ InCalendar(s.start)

LEMMA DivSteps ==
  ASSUME NEW a \in Int, NEW b \in Nat \ {0}, NEW n \in Nat
  PROVE  (a + b * n) \div b = (a \div b) + n
BY SMTT(30)

LEMMA MonthBounds ==
  ASSUME NEW m \in Months
  PROVE  /\ m \in Nat /\ FirstDay[m] \in Int /\ FirstDay[m + 1] \in Int
         /\ DaysInMonth(m) \in Int /\ DaysInMonth(m) > 0
         /\ DaysInMonth(m) = FirstDay[m + 1] - FirstDay[m]
<1>1. m \in 0..(LastMonth + 1) /\ m + 1 \in 0..(LastMonth + 1)
  BY CalendarAssumption DEF Months
<1>. QED
  BY <1>1, CalendarAssumption DEF DaysInMonth

(* No day is in two months.                                                *)
LEMMA MonthUnique ==
  ASSUME NEW d \in Int, NEW m \in Months, InMonth(d, m)
  PROVE  MonthOf(d) = m
<1>1. ASSUME NEW n \in Months, InMonth(d, n) PROVE n = m
  <2>1. /\ m \in Nat /\ FirstDay[m] \in Int /\ FirstDay[m + 1] \in Int
        /\ n \in Nat /\ FirstDay[n] \in Int /\ FirstDay[n + 1] \in Int
    BY MonthBounds
  <2>2. CASE n < m
    <3>1. FirstDay[n + 1] <= FirstDay[m]
      BY <2>2, CalendarAssumption
    <3>. QED
      BY <3>1, <2>1, <1>1 DEF InMonth
  <2>3. CASE m < n
    <3>1. FirstDay[m + 1] <= FirstDay[n]
      BY <2>3, CalendarAssumption
    <3>. QED
      BY <3>1, <2>1, <1>1 DEF InMonth
  <2>. QED
    BY <2>1, <2>2, <2>3
<1>2. MonthOf(d) = CHOOSE n \in Months : InMonth(d, n)
  BY DEF MonthOf, InMonth
<1>. QED
  BY <1>1, <1>2

LEMMA MonthFound ==
  ASSUME NEW d, InCalendar(d)
  PROVE  d \in Int /\ MonthOf(d) \in Months /\ InMonth(d, MonthOf(d))
BY MonthUnique DEF InCalendar

(* A day that its month lacks becomes the last one, and stays in it.       *)
LEMMA ClampStays ==
  ASSUME NEW m \in Months, NEW n \in Nat
  PROVE  DayOrLast(m, n) \in Int /\ InMonth(DayOrLast(m, n), m)
BY MonthBounds DEF DayOrLast, InMonth

LEMMA AddMonthsLands ==
  ASSUME NEW d, InCalendar(d), NEW n \in Nat, MonthOf(d) + n \in Months
  PROVE  /\ InCalendar(AddMonths(d, n))
         /\ MonthOf(AddMonths(d, n)) = MonthOf(d) + n
<1>1. d \in Int /\ MonthOf(d) \in Months /\ InMonth(d, MonthOf(d))
  BY MonthFound
<1>2. FirstDay[MonthOf(d)] \in Int
  BY <1>1, MonthBounds
<1>3. d - FirstDay[MonthOf(d)] \in Nat
  BY <1>1, <1>2 DEF InMonth
<1>4. AddMonths(d, n) \in Int /\ InMonth(AddMonths(d, n), MonthOf(d) + n)
  BY <1>3, ClampStays DEF AddMonths
<1>. QED
  BY <1>4, MonthUnique DEF InCalendar

(* n occurrences after a day is n instalments further on, whatever the     *)
(* lengths of the months are and however often the day had to give way to  *)
(* the last one of a shorter month.                                        *)
LEMMA AddOccurrencesAddsPositions ==
  ASSUME NEW s, IsSchedule(s), NEW d, InCalendar(d), NEW n \in Nat,
         MonthOf(d) + MonthsAhead(s, n) \in Months
  PROVE  Position(s, AddOccurrences(s, d, n)) = Position(s, d) + n
<1> DEFINE e == AddOccurrences(s, d, n)
<1>1. /\ s.interval \in Nat \ {0} /\ DaysPerWeek \in Nat \ {0} /\ MonthsPerYear \in Nat \ {0}
  BY ScheduleAssumption DEF IsSchedule
<1>2. /\ d \in Int /\ s.start \in Int
      /\ MonthOf(d) \in Int /\ MonthOf(s.start) \in Int
  BY MonthFound, MonthBounds DEF IsSchedule
<1>3. CASE s.frequency = "WEEKLY"
  <2>1. e = d + s.interval * DaysPerWeek * n
    BY <1>3 DEF AddOccurrences
  <2>2. DaysPerWeek * s.interval \in Nat \ {0}
    BY <1>1, SMTT(30)
  <2>3. e - s.start = (d - s.start) + (DaysPerWeek * s.interval) * n
    BY <1>1, <1>2, <2>1, SMTT(30)
  <2>4. /\ Position(s, e) = 1 + ((e - s.start) \div (DaysPerWeek * s.interval))
        /\ Position(s, d) = 1 + ((d - s.start) \div (DaysPerWeek * s.interval))
    BY <1>3 DEF Position
  <2>5. (d - s.start) \div (DaysPerWeek * s.interval) \in Int
    BY <1>2, <2>2, SMTT(30)
  <2>6. (e - s.start) \div (DaysPerWeek * s.interval)
          = ((d - s.start) \div (DaysPerWeek * s.interval)) + n
    <3>1. d - s.start \in Int
      BY <1>2
    <3>. QED
      BY <3>1, <2>2, <2>3, DivSteps
  <2>. QED
    BY <2>4, <2>5, <2>6
<1>4. CASE s.frequency = "MONTHLY"
  <2>1. e = AddMonths(d, s.interval * n) /\ MonthsAhead(s, n) = s.interval * n
    BY <1>4 DEF AddOccurrences, MonthsAhead
  <2>2. s.interval * n \in Nat
    BY <1>1, SMTT(30)
  <2>3. MonthOf(e) = MonthOf(d) + s.interval * n
    BY <2>1, <2>2, AddMonthsLands
  <2>4. MonthOf(e) - MonthOf(s.start) = (MonthOf(d) - MonthOf(s.start)) + s.interval * n
    BY <1>2, <2>2, <2>3
  <2>5. /\ Position(s, e) = 1 + ((MonthOf(e) - MonthOf(s.start)) \div s.interval)
        /\ Position(s, d) = 1 + ((MonthOf(d) - MonthOf(s.start)) \div s.interval)
    BY <1>4 DEF Position
  <2>6. (MonthOf(d) - MonthOf(s.start)) \div s.interval \in Int
    BY <1>1, <1>2, SMTT(30)
  <2>7. (MonthOf(e) - MonthOf(s.start)) \div s.interval
          = ((MonthOf(d) - MonthOf(s.start)) \div s.interval) + n
    <3>1. MonthOf(d) - MonthOf(s.start) \in Int
      BY <1>2
    <3>. QED
      BY <3>1, <1>1, <2>4, DivSteps, ZenonT(30)
  <2>. QED
    BY <2>5, <2>6, <2>7
<1>5. CASE s.frequency = "YEARLY"
  <2>1. /\ e = AddMonths(d, s.interval * MonthsPerYear * n)
        /\ MonthsAhead(s, n) = s.interval * MonthsPerYear * n
    BY <1>5 DEF AddOccurrences, MonthsAhead
  <2>2. /\ s.interval * n \in Nat
        /\ s.interval * MonthsPerYear * n = MonthsPerYear * (s.interval * n)
        /\ s.interval * MonthsPerYear * n \in Nat
    BY <1>1, SMTT(30)
  <2>3. MonthOf(e) = MonthOf(d) + MonthsPerYear * (s.interval * n)
    BY <2>1, <2>2, AddMonthsLands
  <2>4. YearOf(e) = YearOf(d) + s.interval * n
    <3>1. (MonthOf(d) + MonthsPerYear * (s.interval * n)) \div MonthsPerYear
            = (MonthOf(d) \div MonthsPerYear) + s.interval * n
      BY <1>1, <1>2, <2>2, DivSteps
    <3>. QED
      BY <2>3, <3>1 DEF YearOf
  <2>5. YearOf(d) \in Int /\ YearOf(s.start) \in Int
    BY <1>1, <1>2, SMTT(30) DEF YearOf
  <2>6. YearOf(e) - YearOf(s.start) = (YearOf(d) - YearOf(s.start)) + s.interval * n
    BY <2>2, <2>4, <2>5
  <2>7. /\ Position(s, e) = 1 + ((YearOf(e) - YearOf(s.start)) \div s.interval)
        /\ Position(s, d) = 1 + ((YearOf(d) - YearOf(s.start)) \div s.interval)
    BY <1>5 DEF Position
  <2>8. (YearOf(d) - YearOf(s.start)) \div s.interval \in Int
    BY <1>1, <2>5, SMTT(30)
  <2>9. (YearOf(e) - YearOf(s.start)) \div s.interval
          = ((YearOf(d) - YearOf(s.start)) \div s.interval) + n
    <3>1. YearOf(d) - YearOf(s.start) \in Int
      BY <2>5
    <3>. QED
      BY <3>1, <1>1, <2>6, DivSteps, ZenonT(30)
  <2>. QED
    BY <2>7, <2>8, <2>9
<1>. QED
  BY <1>3, <1>4, <1>5 DEF IsSchedule, Frequencies

LEMMA StartIsFirst ==
  ASSUME NEW s, IsSchedule(s)
  PROVE  Position(s, s.start) = 1
<1>1. /\ s.interval \in Nat \ {0} /\ DaysPerWeek \in Nat \ {0} /\ MonthsPerYear \in Nat \ {0}
      /\ s.start \in Int /\ MonthOf(s.start) \in Int
  BY ScheduleAssumption, MonthFound, MonthBounds DEF IsSchedule
<1>2. YearOf(s.start) \in Int
  BY <1>1, SMTT(30) DEF YearOf
<1>3. /\ s.start - s.start = 0
      /\ MonthOf(s.start) - MonthOf(s.start) = 0
      /\ YearOf(s.start) - YearOf(s.start) = 0
  BY <1>1, <1>2
<1>4. \A b \in Nat \ {0} : 0 \div b = 0
  BY SMTT(30)
<1>5. DaysPerWeek * s.interval \in Nat \ {0}
  BY <1>1, SMTT(30)
<1>. QED
  BY <1>1, <1>3, <1>4, <1>5 DEF Position, IsSchedule, Frequencies

(* calculateNextGenerationDate against installmentNumberSql: the date the  *)
(* job steps to shows the number after that of the date it came from, for  *)
(* every calendar and every interval, so that no number of a plan is left  *)
(* out or shown twice, whatever months lack the day.                       *)
THEOREM StepIsNextInstallment ==
  ASSUME NEW s, IsSchedule(s), NEW d, InCalendar(d),
         MonthOf(d) + MonthsAhead(s, 1) \in Months
  PROVE  Position(s, NextOccurrence(s, d)) = Position(s, d) + 1
BY AddOccurrencesAddsPositions DEF NextOccurrence

(* calculateInstallmentEndDate against installmentNumberSql: the day a     *)
(* plan of n instalments ends is the day whose row shows n of n.           *)
THEOREM EndIsLastInstallment ==
  ASSUME NEW s, IsSchedule(s), NEW n \in Nat \ {0},
         MonthOf(s.start) + MonthsAhead(s, n - 1) \in Months
  PROVE  Position(s, EndDate(s, n)) = n
<1>1. n - 1 \in Nat /\ 1 + (n - 1) = n
  OBVIOUS
<1>2. Position(s, EndDate(s, n)) = Position(s, s.start) + (n - 1)
  BY <1>1, AddOccurrencesAddsPositions DEF EndDate, IsSchedule
<1>. QED
  BY <1>1, <1>2, StartIsFirst

(* inferInstallmentCount finds the count an end was computed from, and no  *)
(* other: no two plans of the same schedule end on the same day.           *)
THEOREM EndNamesItsPlan ==
  ASSUME NEW s, IsSchedule(s), NEW n \in 1..MaxInstallments,
         \A m \in 1..MaxInstallments : MonthOf(s.start) + MonthsAhead(s, m - 1) \in Months
  PROVE  InferCount(s, EndDate(s, n)) = n
<1>1. 1..MaxInstallments \subseteq Nat \ {0}
  BY ScheduleAssumption
<1>2. \A m \in 1..MaxInstallments : Position(s, EndDate(s, m)) = m
  BY <1>1, EndIsLastInstallment
<1>3. \A m \in 1..MaxInstallments : EndDate(s, m) = EndDate(s, n) => m = n
  BY <1>2
<1>. QED
  BY <1>3 DEF InferCount

-----------------------------------------------------------------------------
(* The rule as a record, which every action keeps.                         *)
IsRule(r) ==
  r = [status |-> r.status, frequency |-> r.frequency, interval |-> r.interval,
       amount |-> r.amount, start |-> r.start, end |-> r.end, count |-> r.count,
       last |-> r.last]

CountInv == IsRule(rule) /\ CountNamesEnd

LEMMA InferredNamesEnd ==
  ASSUME NEW s, NEW e, InferCount(s, e) # Never
  PROVE  EndDate(s, InferCount(s, e)) = e
BY DEF InferCount

LEMMA CountInvInit == Init => CountInv
BY DEF Init, NoRule, CountInv, IsRule, CountNamesEnd

LEMMA CountInvNext == CountInv /\ [Next]_vars => CountInv'
<1> SUFFICES ASSUME CountInv, [Next]_vars PROVE CountInv'
  OBVIOUS
<1>. USE DEF CountInv
<1>1. CASE CreateRule
  BY <1>1 DEF CreateRule, NewRule, script, IsRule, CountNamesEnd
<1>2. CASE CreateByTotal
  <2>1. PICK sch \in Schedules, st \in {"active", "paused"}, t \in Totals, n \in Counts,
             d \in Dates :
          rule' = [NewRule(sch, st, t \div n, d, Never, n, Never) EXCEPT
                     !.end = EndDate(NewRule(sch, st, t \div n, d, Never, n, Never), n)]
    BY <1>2 DEF CreateByTotal
  <2> DEFINE s == NewRule(sch, st, t \div n, d, Never, n, Never)
  <2>2. /\ IsRule(rule)' /\ rule'.count = n /\ rule'.end = EndDate(s, n)
        /\ rule'.frequency = s.frequency /\ rule'.interval = s.interval
        /\ rule'.start = s.start
    BY <2>1 DEF NewRule, IsRule
  <2>3. CountNamesEnd'
    BY <2>2 DEF CountNamesEnd, EndDate, AddOccurrences
  <2>. QED
    BY <2>2, <2>3
<1>3. CASE Purchase
  <2>1. PICK t \in Totals, n \in Counts, d \in Dates :
          rule' = [NewRule(Monthly, "active", t \div n, d, Never, n, d) EXCEPT
                     !.end = EndDate(NewRule(Monthly, "active", t \div n, d, Never, n, d), n)]
    BY <1>3 DEF Purchase
  <2> DEFINE s == NewRule(Monthly, "active", t \div n, d, Never, n, d)
  <2>2. /\ IsRule(rule)' /\ rule'.count = n /\ rule'.end = EndDate(s, n)
        /\ rule'.frequency = s.frequency /\ rule'.interval = s.interval
        /\ rule'.start = s.start
    BY <2>1 DEF NewRule, IsRule
  <2>3. CountNamesEnd'
    BY <2>2 DEF CountNamesEnd, EndDate, AddOccurrences
  <2>. QED
    BY <2>2, <2>3
<1>4. CASE Toggle
  <2>1. /\ IsRule(rule)' /\ rule'.count = rule.count /\ rule'.end = rule.end
        /\ rule'.frequency = rule.frequency /\ rule'.interval = rule.interval
        /\ rule'.start = rule.start
    BY <1>4 DEF Toggle, IsRule, script
  <2>. QED
    BY <1>4, <2>1 DEF Toggle, script, CountNamesEnd, EndDate, AddOccurrences
<1>5. CASE Update
  <2>1. PICK sch \in Schedules \cup {[frequency |-> rule.frequency, interval |-> rule.interval]},
             a \in Amounts \cup {rule.amount},
             d \in Dates \cup {rule.start}, e \in Dates \cup {Never, rule.end} :
          LET s == NewRule(sch, rule.status, a, d, e, rule.count,
                           IF d = rule.start THEN rule.last ELSE Never)
          IN  /\ rule' = IF SameDates(s) THEN s ELSE [s EXCEPT !.count = Recounted(s)]
              /\ stale' = (stale /\ SameDates(s))
    BY <1>5, ZenonT(30) DEF Update
  <2> DEFINE s == NewRule(sch, rule.status, a, d, e, rule.count,
                          IF d = rule.start THEN rule.last ELSE Never)
  <2>2. IsRule(s) /\ s.count = rule.count
    BY DEF IsRule, NewRule
  <2>3. CASE SameDates(s)
    <3>1. rule' = s /\ (~stale' => ~stale)
      BY <2>1, <2>3
    <3>2. /\ rule.end = s.end /\ rule.start = s.start
          /\ rule.frequency = s.frequency /\ rule.interval = s.interval
      BY <2>3 DEF SameDates, Timing
    <3>. QED
      BY <2>2, <3>1, <3>2 DEF CountNamesEnd, EndDate, AddOccurrences
  <2>4. CASE ~SameDates(s)
    <3>1. rule' = [s EXCEPT !.count = Recounted(s)]
      BY <2>1, <2>4
    <3>2. /\ IsRule(rule)' /\ rule'.count = Recounted(s) /\ rule'.end = s.end
          /\ rule'.frequency = s.frequency /\ rule'.interval = s.interval
          /\ rule'.start = s.start
      BY <3>1 DEF IsRule, NewRule
    <3>3. Recounted(s) # Never => EndDate(s, Recounted(s)) = s.end
      BY InferredNamesEnd DEF Recounted
    <3>. QED
      BY <3>2, <3>3 DEF CountNamesEnd, EndDate, AddOccurrences
  <2>. QED
    BY <2>3, <2>4
<1>6. CASE DeleteRule
  BY <1>6 DEF DeleteRule, NoRule, IsRule, CountNamesEnd
<1>7. ASSUME NEW d \in Dates, SetStatus(d) \/ DeleteRow(d)
      PROVE  CountInv'
  BY <1>7 DEF SetStatus, DeleteRow, KeepRule, script, IsRule, CountNamesEnd, EndDate, AddOccurrences
<1>8. ASSUME NEW d \in Dates, NEW e \in Dates, MoveRow(d, e)
      PROVE  CountInv'
  BY <1>8 DEF MoveRow, KeepRule, script, IsRule, CountNamesEnd, EndDate, AddOccurrences
<1>9. CASE Job
  <2>1. /\ IsRule(rule)' /\ rule'.count = rule.count /\ rule'.end = rule.end
        /\ rule'.frequency = rule.frequency /\ rule'.interval = rule.interval
        /\ rule'.start = rule.start
    <3>1. PICK l, st : rule' = [rule EXCEPT !.last = l, !.status = st]
      BY <1>9 DEF Job
    <3>. QED
      BY <3>1 DEF IsRule
  <2>. QED
    BY <1>9, <2>1 DEF Job, script, CountNamesEnd, EndDate, AddOccurrences
<1>10. CASE NextDay
  BY <1>10 DEF NextDay, script, IsRule, CountNamesEnd, EndDate, AddOccurrences
<1>11. CASE ReadCandidate
  BY <1>11 DEF ReadCandidate, IsRule, CountNamesEnd, EndDate, AddOccurrences
<1>12. CASE WriteCount
  <2> DEFINE count == InferCount(copy, copy.end)
             writes == count # Never /\ rule.count = Never
  <2>1. /\ rule' = [rule EXCEPT !.count = IF writes THEN count ELSE @]
        /\ stale' = IF writes THEN Timing(rule) # copy ELSE stale
    BY <1>12 DEF WriteCount
  <2>2. /\ IsRule(rule)' /\ rule'.count = (IF writes THEN count ELSE rule.count)
        /\ rule'.end = rule.end /\ rule'.start = rule.start
        /\ rule'.frequency = rule.frequency /\ rule'.interval = rule.interval
    BY <2>1 DEF IsRule
  <2>3. CASE writes
    <3>1. EndDate(copy, count) = copy.end
      BY <2>3, InferredNamesEnd
    <3>2. ~stale' => /\ copy.end = rule.end /\ copy.start = rule.start
                     /\ copy.frequency = rule.frequency /\ copy.interval = rule.interval
      <4>1. ~stale' => Timing(rule) = copy
        BY <2>1, <2>3, Zenon
      <4>. QED
        BY <4>1 DEF Timing
    <3>. QED
      BY <2>2, <2>3, <3>1, <3>2 DEF CountNamesEnd, EndDate, AddOccurrences
  <2>4. CASE ~writes
    BY <2>1, <2>2, <2>4 DEF CountNamesEnd, EndDate, AddOccurrences
  <2>. QED
    BY <2>3, <2>4
<1>13. CASE UNCHANGED vars
  BY <1>13 DEF vars, script, IsRule, CountNamesEnd, EndDate, AddOccurrences
<1>. QED
  BY <1>1, <1>2, <1>3, <1>4, <1>5, <1>6, <1>7, <1>8, <1>9, <1>10, <1>11, <1>12, <1>13
     DEF Next

(* A rule that counts its instalments ends with the last of them, through  *)
(* every edit and every run of the backfill of installment_count:          *)
(* UpdateRecurringTransactionService infers the count again whenever the   *)
(* schedule, the start or the end changes, and the backfill infers it from *)
(* the dates it read.                                                      *)
THEOREM CountAlwaysNamesEnd == Spec => []CountNamesEnd
<1>1. CountInv => CountNamesEnd
  BY DEF CountInv
<1>. QED
  BY CountInvInit, CountInvNext, <1>1, PTL DEF Spec

-----------------------------------------------------------------------------
(* The days of a schedule by their numbers, without walking to them: the   *)
(* day of the month only ever gets smaller on the way.                     *)
Weekly(s) == s.frequency = "WEEKLY"

Stride(s) == CASE s.frequency = "WEEKLY"  -> s.interval * DaysPerWeek
               [] s.frequency = "MONTHLY" -> s.interval
               [] s.frequency = "YEARLY"  -> s.interval * MonthsPerYear

DayOf(d) == d - FirstDay[MonthOf(d)]

OnSchedule(s, i, d) ==
  IF Weekly(s) THEN d = s.start + Stride(s) * (i - 1)
  ELSE /\ InCalendar(d) /\ MonthOf(d) = MonthOf(s.start) + Stride(s) * (i - 1)
       /\ DayOf(d) <= DayOf(s.start)

(* The calendar has the month n strides after that of day d.               *)
Fits(s, d, n) == Weekly(s) \/ MonthOf(d) + Stride(s) * n \in Months

LEMMA Times ==
  ASSUME NEW c \in Nat \ {0}
  PROVE  /\ \A a \in Int : c * a \in Int /\ c * (a + 1) = c * a + c /\ c * (a + 1 - 1) = c * (a - 1) + c
         /\ \A a \in Nat : c * a \in Nat
         /\ \A a, b \in Int : a < b => c * a < c * b
         /\ \A a, b \in Int : a <= b => c * a <= c * b
         /\ c * 0 = 0 /\ c * 1 = c
BY SMTT(30)

LEMMA Products ==
  ASSUME NEW a \in Nat \ {0}, NEW b \in Nat \ {0}, NEW c \in Nat
  PROVE  /\ a * b = b * a /\ b * a \in Nat \ {0}
         /\ (b * a) * c \in Nat /\ a * c \in Nat
         /\ a * b * c = b * (a * c)
<1>1. a * b = b * a /\ b * a \in Nat \ {0}
  BY SMTT(30)
<1>2. a * c \in Nat
  BY SMTT(30)
<1>3. (b * a) * c \in Nat
  BY SMTT(30)
<1>4. a * b * c = b * (a * c)
  BY SMTT(30)
<1> QED
  BY <1>1, <1>2, <1>3, <1>4

LEMMA StrideIs ==
  ASSUME NEW s, IsSchedule(s)
  PROVE  /\ Stride(s) \in Nat \ {0}
         /\ \A d, n : AddOccurrences(s, d, n) = IF Weekly(s) THEN d + Stride(s) * n
                                                ELSE AddMonths(d, Stride(s) * n)
<1>1. /\ s.interval \in Nat \ {0} /\ DaysPerWeek \in Nat \ {0} /\ MonthsPerYear \in Nat \ {0}
      /\ s.frequency \in {"WEEKLY", "MONTHLY", "YEARLY"}
  BY ScheduleAssumption DEF IsSchedule, Frequencies
<1>2. s.interval * DaysPerWeek \in Nat \ {0} /\ s.interval * MonthsPerYear \in Nat \ {0}
  BY <1>1, SMTT(30)
<1>3. Stride(s) \in Nat \ {0}
  BY <1>1, <1>2 DEF Stride
<1> QED
  BY <1>1, <1>3 DEF AddOccurrences, Stride, Weekly

LEMMA DayOfIs ==
  ASSUME NEW d, InCalendar(d)
  PROVE  /\ d \in Int /\ MonthOf(d) \in Months /\ MonthOf(d) \in Nat
         /\ FirstDay[MonthOf(d)] \in Int /\ FirstDay[MonthOf(d) + 1] \in Int
         /\ DayOf(d) \in Nat /\ d = FirstDay[MonthOf(d)] + DayOf(d)
         /\ DayOf(d) < DaysInMonth(MonthOf(d)) /\ DaysInMonth(MonthOf(d)) \in Int
         /\ d < FirstDay[MonthOf(d) + 1]
<1>1. d \in Int /\ MonthOf(d) \in Months /\ InMonth(d, MonthOf(d))
  BY MonthFound
<1> QED
  BY <1>1, MonthBounds DEF InMonth, DayOf

LEMMA MonthsInOrder ==
  ASSUME NEW d, InCalendar(d), NEW e, InCalendar(e), MonthOf(d) < MonthOf(e)
  PROVE  d < e
<1>1. FirstDay[MonthOf(d) + 1] <= FirstDay[MonthOf(e)]
  BY DayOfIs, CalendarAssumption
<1> QED
  BY <1>1, DayOfIs

LEMMA AddMonthsClamps ==
  ASSUME NEW d, InCalendar(d), NEW n \in Nat, MonthOf(d) + n \in Months
  PROVE  /\ InCalendar(AddMonths(d, n)) /\ MonthOf(AddMonths(d, n)) = MonthOf(d) + n
         /\ DayOf(AddMonths(d, n)) <= DayOf(d)
         /\ \A e : InCalendar(e) /\ MonthOf(e) = MonthOf(d) + n /\ DayOf(e) <= DayOf(d)
                     => e <= AddMonths(d, n)
<1> DEFINE m == MonthOf(d) + n
           f == AddMonths(d, n)
<1>1. InCalendar(f) /\ MonthOf(f) = m
  BY AddMonthsLands
<1>2. f = FirstDay[m] + (IF DayOf(d) < DaysInMonth(m) THEN DayOf(d) ELSE DaysInMonth(m) - 1)
  BY DEF AddMonths, DayOrLast, DayOf
<1>3. /\ FirstDay[m] \in Int /\ DaysInMonth(m) \in Int /\ DayOf(d) \in Nat
      /\ f = FirstDay[m] + DayOf(f) /\ DayOf(f) \in Nat
  BY <1>1, DayOfIs
<1>4. DayOf(f) <= DayOf(d)
  BY <1>2, <1>3
<1>5. ASSUME NEW e, InCalendar(e), MonthOf(e) = m, DayOf(e) <= DayOf(d) PROVE e <= f
  <2>1. e = FirstDay[m] + DayOf(e) /\ DayOf(e) \in Nat /\ DayOf(e) < DaysInMonth(m)
    BY <1>5, DayOfIs
  <2> QED
    BY <1>2, <1>3, <1>5, <2>1
<1> QED
  BY <1>1, <1>4, <1>5

LEMMA StartOnSchedule ==
  ASSUME NEW s, IsSchedule(s)
  PROVE  OnSchedule(s, 1, s.start)
<1>1. Stride(s) * (1 - 1) = 0
  BY StrideIs, Times
<1>2. InCalendar(s.start) /\ s.start \in Int /\ MonthOf(s.start) \in Nat /\ DayOf(s.start) \in Nat
  BY DayOfIs DEF IsSchedule
<1> QED
  BY <1>1, <1>2 DEF OnSchedule

LEMMA StepOnSchedule ==
  ASSUME NEW s, IsSchedule(s), NEW i \in Nat \ {0}, NEW d, OnSchedule(s, i, d), Fits(s, d, 1)
  PROVE  /\ OnSchedule(s, i + 1, NextOccurrence(s, d))
         /\ d \in Int /\ NextOccurrence(s, d) \in Int /\ d < NextOccurrence(s, d)
<1> DEFINE c == Stride(s)
           e == NextOccurrence(s, d)
<1>1. c \in Nat \ {0} /\ c * 1 = c /\ c * (i + 1 - 1) = c * (i - 1) + c /\ c * (i - 1) \in Int
  <2>1. c \in Nat \ {0} /\ i \in Int /\ i - 1 \in Int
    BY StrideIs
  <2> QED
    BY <2>1, Times
<1>2. e = IF Weekly(s) THEN d + c ELSE AddMonths(d, c)
  BY <1>1, StrideIs DEF NextOccurrence
<1>3. s.start \in Int /\ MonthOf(s.start) \in Nat /\ DayOf(s.start) \in Nat
  BY DayOfIs DEF IsSchedule
<1>4. CASE Weekly(s)
  <2>1. d = s.start + c * (i - 1) /\ e = d + c
    BY <1>2, <1>4 DEF OnSchedule
  <2> HIDE DEF c, e
  <2>2. d \in Int /\ e \in Int /\ d < e /\ e = s.start + c * (i + 1 - 1)
    BY <1>1, <1>3, <2>1
  <2> QED
    BY <1>4, <2>2 DEF OnSchedule, c, e
<1>5. CASE ~Weekly(s)
  <2>1. /\ InCalendar(d) /\ MonthOf(d) = MonthOf(s.start) + c * (i - 1) /\ DayOf(d) <= DayOf(s.start)
        /\ MonthOf(d) + c \in Months /\ e = AddMonths(d, c) /\ c \in Nat
    BY <1>1, <1>2, <1>5 DEF OnSchedule, Fits
  <2>2. InCalendar(e) /\ MonthOf(e) = MonthOf(d) + c /\ DayOf(e) <= DayOf(d)
    BY <2>1, AddMonthsClamps
  <2>3. MonthOf(d) \in Nat /\ DayOf(d) \in Nat /\ DayOf(e) \in Nat /\ d \in Int /\ e \in Int
    BY <2>1, <2>2, DayOfIs
  <2> HIDE DEF c, e
  <2>4. MonthOf(e) = MonthOf(s.start) + c * (i + 1 - 1) /\ DayOf(e) <= DayOf(s.start) /\ MonthOf(d) < MonthOf(e)
    BY <1>1, <1>3, <2>1, <2>2, <2>3
  <2>5. d < e
    BY <2>1, <2>2, <2>4, MonthsInOrder
  <2> QED
    BY <1>5, <2>2, <2>3, <2>4, <2>5 DEF OnSchedule, c, e
<1> QED
  BY <1>4, <1>5

LEMMA ScheduleInOrder ==
  ASSUME NEW s, IsSchedule(s), NEW i \in Nat \ {0}, NEW j \in Nat \ {0}, i < j,
         NEW d, OnSchedule(s, i, d), NEW e, OnSchedule(s, j, e)
  PROVE  d < e
<1> DEFINE c == Stride(s)
<1>1. c \in Nat \ {0} /\ c * (i - 1) \in Int /\ c * (j - 1) \in Int /\ c * (i - 1) < c * (j - 1)
  <2>1. c \in Nat \ {0} /\ i - 1 \in Int /\ j - 1 \in Int /\ i - 1 < j - 1
    BY StrideIs
  <2> QED
    BY <2>1, Times
<1>2. s.start \in Int /\ MonthOf(s.start) \in Nat
  BY DayOfIs DEF IsSchedule
<1>3. CASE Weekly(s)
  <2>1. d = s.start + c * (i - 1) /\ e = s.start + c * (j - 1)
    BY <1>3 DEF OnSchedule
  <2> HIDE DEF c
  <2> QED
    BY <1>1, <1>2, <2>1
<1>4. CASE ~Weekly(s)
  <2>1. /\ InCalendar(d) /\ MonthOf(d) = MonthOf(s.start) + c * (i - 1)
        /\ InCalendar(e) /\ MonthOf(e) = MonthOf(s.start) + c * (j - 1)
    BY <1>4 DEF OnSchedule
  <2> HIDE DEF c
  <2>2. MonthOf(d) < MonthOf(e)
    BY <1>1, <1>2, <2>1
  <2> QED
    BY <2>1, <2>2, MonthsInOrder
<1> QED
  BY <1>3, <1>4

LEMMA OnScheduleIsInt ==
  ASSUME NEW s, IsSchedule(s), NEW i \in Nat \ {0}, NEW d, OnSchedule(s, i, d)
  PROVE  d \in Int
<1>1. CASE Weekly(s)
  <2>1. Stride(s) \in Nat \ {0} /\ s.start \in Int /\ i - 1 \in Int
    BY StrideIs, DayOfIs DEF IsSchedule
  <2>2. Stride(s) * (i - 1) \in Int
    BY <2>1, Times
  <2> QED
    BY <1>1, <2>1, <2>2 DEF OnSchedule
<1>2. CASE ~Weekly(s)
  BY <1>2 DEF OnSchedule, InCalendar
<1> QED
  BY <1>1, <1>2

LEMMA PositionOnSchedule ==
  ASSUME NEW s, IsSchedule(s), NEW i \in Nat \ {0}, NEW d, OnSchedule(s, i, d)
  PROVE  Position(s, d) = i
<1>1. /\ s.interval \in Nat \ {0} /\ DaysPerWeek \in Nat \ {0} /\ MonthsPerYear \in Nat \ {0}
      /\ s.frequency \in {"WEEKLY", "MONTHLY", "YEARLY"} /\ s.start \in Int /\ MonthOf(s.start) \in Nat
      /\ i - 1 \in Nat
  BY ScheduleAssumption, DayOfIs DEF IsSchedule, Frequencies
<1>2. \A a \in Int, b \in Nat \ {0}, n \in Nat : ((b * n) \div b) = n
  BY SMTT(30)
<1>3. CASE s.frequency = "WEEKLY"
  <2>1. d = s.start + s.interval * DaysPerWeek * (i - 1)
    BY <1>3 DEF OnSchedule, Weekly, Stride
  <2>2. /\ s.interval * DaysPerWeek = DaysPerWeek * s.interval
        /\ DaysPerWeek * s.interval \in Nat \ {0}
        /\ (DaysPerWeek * s.interval) * (i - 1) \in Int
    <3>1. s.interval * DaysPerWeek = DaysPerWeek * s.interval
      BY <1>1, SMTT(30)
    <3>2. DaysPerWeek * s.interval \in Nat \ {0}
      BY <1>1, SMTT(30)
    <3> DEFINE q == DaysPerWeek * s.interval
    <3>3. q \in Int /\ i - 1 \in Int
      BY <1>1, <3>2
    <3> HIDE DEF q
    <3>4. q * (i - 1) \in Int
      BY <3>3
    <3> QED
      BY <3>1, <3>2, <3>4 DEF q
  <2>4. d - s.start = (DaysPerWeek * s.interval) * (i - 1)
    <3> DEFINE q == (DaysPerWeek * s.interval) * (i - 1)
    <3>1. d = s.start + q /\ q \in Int
      BY <2>1, <2>2
    <3> HIDE DEF q
    <3>2. d - s.start = q
      BY <1>1, <3>1
    <3> QED
      BY <3>2 DEF q
  <2>3. (d - s.start) \div (DaysPerWeek * s.interval) = i - 1
    BY <1>1, <1>2, <2>2, <2>4
  <2> QED
    BY <1>3, <2>3 DEF Position
<1>4. CASE s.frequency = "MONTHLY"
  <2>1. MonthOf(d) = MonthOf(s.start) + s.interval * (i - 1)
    BY <1>4 DEF OnSchedule, Weekly, Stride
  <2>2. MonthOf(d) - MonthOf(s.start) = s.interval * (i - 1)
    BY <1>1, <2>1, SMTT(30)
  <2>3. (MonthOf(d) - MonthOf(s.start)) \div s.interval = i - 1
    BY <1>1, <1>2, <2>2
  <2> QED
    BY <1>4, <2>3 DEF Position
<1>5. CASE s.frequency = "YEARLY"
  <2>1. MonthOf(d) = MonthOf(s.start) + s.interval * MonthsPerYear * (i - 1)
    BY <1>5 DEF OnSchedule, Weekly, Stride
  <2>2. /\ MonthOf(d) = MonthOf(s.start) + MonthsPerYear * (s.interval * (i - 1))
        /\ s.interval * (i - 1) \in Nat
    BY <1>1, <2>1, Products
  <2>3. YearOf(d) = YearOf(s.start) + s.interval * (i - 1) /\ YearOf(s.start) \in Int
    <3>1. MonthOf(s.start) \in Int
      BY <1>1
    <3> DEFINE n == s.interval * (i - 1)
    <3>4. n \in Nat /\ MonthOf(d) = MonthOf(s.start) + MonthsPerYear * n
      BY <2>2
    <3> HIDE DEF n
    <3>6. (MonthOf(s.start) + MonthsPerYear * n) \div MonthsPerYear = (MonthOf(s.start) \div MonthsPerYear) + n
      BY <1>1, <3>1, <3>4, DivSteps
    <3>5. MonthOf(d) \div MonthsPerYear = (MonthOf(s.start) \div MonthsPerYear) + n
      BY <3>4, <3>6
    <3>2. MonthOf(d) \div MonthsPerYear = (MonthOf(s.start) \div MonthsPerYear) + s.interval * (i - 1)
      BY <3>5 DEF n
    <3>3. MonthOf(s.start) \div MonthsPerYear \in Int
      BY <1>1, <3>1, SMTT(30)
    <3> QED
      BY <3>2, <3>3 DEF YearOf
  <2>4. YearOf(d) - YearOf(s.start) = s.interval * (i - 1)
    BY <2>2, <2>3
  <2>5. (YearOf(d) - YearOf(s.start)) \div s.interval = i - 1
    BY <1>1, <1>2, <2>4
  <2> QED
    BY <1>5, <2>5 DEF Position
<1> QED
  BY <1>1, <1>3, <1>4, <1>5

(* calculateInstallmentEndDate jumps to the last instalment, and no walk    *)
(* comes to its number on a later day.                                     *)
LEMMA EndOnSchedule ==
  ASSUME NEW s, IsSchedule(s), NEW n \in Nat \ {0}, Fits(s, s.start, n - 1)
  PROVE  /\ OnSchedule(s, n, EndDate(s, n)) /\ EndDate(s, n) \in Int /\ s.start <= EndDate(s, n)
         /\ \A d : OnSchedule(s, n, d) => d <= EndDate(s, n)
<1> DEFINE c == Stride(s)
           e == EndDate(s, n)
<1>1. c \in Nat \ {0} /\ c * (n - 1) \in Nat
  <2>1. c \in Nat \ {0} /\ n - 1 \in Nat
    BY StrideIs
  <2> QED
    BY <2>1, Times
<1>2. e = IF Weekly(s) THEN s.start + c * (n - 1) ELSE AddMonths(s.start, c * (n - 1))
  BY StrideIs DEF EndDate
<1>3. s.start \in Int /\ MonthOf(s.start) \in Nat /\ DayOf(s.start) \in Nat /\ InCalendar(s.start)
  BY DayOfIs DEF IsSchedule
<1>4. CASE Weekly(s)
  <2>1. \A d : OnSchedule(s, n, d) <=> d = s.start + c * (n - 1)
    BY <1>4 DEF OnSchedule
  <2> HIDE DEF c
  <2>2. e = s.start + c * (n - 1)
    BY <1>2, <1>4
  <2>3. e \in Int /\ s.start <= e /\ e <= e
    BY <1>1, <1>3, <2>2
  <2> QED
    BY <2>1, <2>2, <2>3
<1>5. CASE ~Weekly(s)
  <2>1. MonthOf(s.start) + c * (n - 1) \in Months /\ e = AddMonths(s.start, c * (n - 1))
    BY <1>2, <1>5 DEF Fits
  <2>2. /\ InCalendar(e) /\ MonthOf(e) = MonthOf(s.start) + c * (n - 1) /\ DayOf(e) <= DayOf(s.start)
        /\ \A d : InCalendar(d) /\ MonthOf(d) = MonthOf(s.start) + c * (n - 1) /\ DayOf(d) <= DayOf(s.start)
                    => d <= e
    BY <1>1, <1>3, <2>1, AddMonthsClamps
  <2>3. s.start <= e
    <3>1. CASE MonthOf(e) = MonthOf(s.start)
      <4> DEFINE q == c * (n - 1)
      <4>0. q \in Nat /\ MonthOf(s.start) = MonthOf(s.start) + q
        BY <1>1, <2>2, <3>1
      <4> HIDE DEF q
      <4>3. q = 0
        BY <1>3, <4>0
      <4>1. c * (n - 1) = 0
        BY <4>3 DEF q
      <4>2. DayOf(s.start) <= DayOf(s.start) /\ MonthOf(s.start) = MonthOf(s.start) + c * (n - 1)
        BY <1>3, <4>1
      <4> QED
        BY <1>3, <2>2, <4>2
    <3>2. CASE MonthOf(e) # MonthOf(s.start)
      <4>1. MonthOf(s.start) < MonthOf(e)
        BY <1>1, <1>3, <2>2, <3>2
      <4>2. s.start < e /\ e \in Int
        BY <1>3, <2>2, <4>1, MonthsInOrder, DayOfIs
      <4> QED
        BY <1>3, <4>2
    <3> QED
      BY <3>1, <3>2
  <2> QED
    BY <1>5, <2>2, <2>3, DayOfIs DEF OnSchedule
<1> QED
  BY <1>4, <1>5

-----------------------------------------------------------------------------
(* The dates of the model and the schedules of its rules.                  *)
LEMMA DatesAre ==
  /\ LastDate \in Dates /\ FirstDay[0] \in Dates /\ FirstDay[0] \in Nat /\ LastDate \in Int
  /\ IsFiniteSet(Dates) /\ Dates \subseteq Int /\ Never \notin Dates
  /\ \A d \in Int : d \in Dates <=> FirstDay[0] <= d /\ d <= LastDate
  /\ \A d \in Dates : InCalendar(d) /\ MonthOf(d) <= MonthOf(LastDate)
<1>1. /\ LastDate \in Dates /\ FirstDay[0] \in Dates /\ FirstDay[0] \in Nat /\ LastDate \in Int
      /\ Dates \subseteq Int /\ Never \notin Dates
      /\ \A d \in Int : d \in Dates <=> FirstDay[0] <= d /\ d <= LastDate
  BY ProjectionAssumption, ScheduleAssumption DEF Dates, Never
<1>2. IsFiniteSet(Dates)
  BY <1>1, FS_Interval DEF Dates
<1>3. ASSUME NEW d \in Dates PROVE InCalendar(d)
  <2> DEFINE S == {m \in Months : FirstDay[m] <= d}
  <2>1. LastMonth \in Nat /\ LastMonth \in Int /\ 0 \in Int /\ d \in Int /\ FirstDay[0] <= d /\ d < FirstDay[LastMonth + 1]
    <3>1. FirstDay[LastMonth + 1] \in Int /\ LastMonth \in Nat
      BY CalendarAssumption
    <3> QED
      BY <1>1, <3>1, ProjectionAssumption
  <2>2. IsFiniteSet(0..LastMonth)
    BY <2>1, FS_Interval
  <2>3. S \in SUBSET Int /\ IsFiniteSet(S) /\ 0 \in S
    BY <2>1, <2>2, FS_Subset DEF Months
  <2>4. \E m \in S : \A x \in S : x <= m
    <3> HIDE DEF S
    <3> QED
      BY <2>3, Greatest
  <2>5. PICK m \in S : \A x \in S : x <= m
    BY <2>4
  <2>6. m \in Months /\ m \in Nat /\ FirstDay[m] <= d /\ FirstDay[m + 1] \in Int
    BY <2>5, MonthBounds
  <2>7. d < FirstDay[m + 1]
    <3>1. CASE m = LastMonth
      BY <2>1, <3>1
    <3>2. CASE m # LastMonth
      <4>1. m + 1 \in Months /\ ~(m + 1 <= m)
        BY <2>1, <2>6, <3>2 DEF Months
      <4> QED
        BY <2>1, <2>5, <2>6, <4>1
    <3> QED
      BY <3>1, <3>2
  <2> QED
    BY <2>1, <2>6, <2>7 DEF InCalendar, InMonth
<1>4. ASSUME NEW d \in Dates PROVE MonthOf(d) <= MonthOf(LastDate)
  <2>1. InCalendar(d) /\ InCalendar(LastDate) /\ d <= LastDate /\ d \in Int /\ LastDate \in Int
    BY <1>1, <1>3
  <2>2. ~(MonthOf(LastDate) < MonthOf(d))
    BY <2>1, MonthsInOrder
  <2> QED
    BY <2>1, <2>2, DayOfIs
<1> QED
  BY <1>1, <1>2, <1>3, <1>4

Known(s) == /\ [frequency |-> s.frequency, interval |-> s.interval] \in Schedules \cup {Monthly}
            /\ s.start \in Dates

LEMMA KnownFits ==
  ASSUME NEW s, Known(s)
  PROVE  IsSchedule(s) /\ \A d \in Dates, n \in 0..MaxInstallments : Fits(s, d, n)
<1> DEFINE sch == [frequency |-> s.frequency, interval |-> s.interval]
<1>1. sch \in [frequency : Frequencies, interval : Nat \ {0}] /\ sch \in Schedules \cup {Monthly}
  BY ProjectionAssumption DEF Known, Monthly, Frequencies
<1>2. s.frequency \in Frequencies /\ s.interval \in Nat \ {0} /\ sch.interval = s.interval
  BY <1>1
<1>3. IsSchedule(s)
  BY <1>2, DatesAre DEF Known, IsSchedule
<1>4. ASSUME NEW d \in Dates, NEW n \in 0..MaxInstallments, ~Weekly(s)
      PROVE  MonthOf(d) + Stride(s) * n \in Months
  <2> DEFINE most == s.interval * MonthsPerYear
  <2>1. MonthsPerYear \in Nat \ {0} /\ MaxInstallments \in Nat \ {0} /\ n \in Nat /\ n <= MaxInstallments
    BY ScheduleAssumption
  <2>2. most \in Nat \ {0} /\ s.interval <= most
    BY <1>2, <2>1, SMTT(30)
  <2>3. Stride(s) \in Nat \ {0} /\ Stride(s) <= most
    BY <1>2, <1>4, <2>2 DEF Stride, Weekly, Frequencies
  <2>4. MonthOf(LastDate) + most * MaxInstallments <= LastMonth
    BY <1>1, <1>2, ProjectionAssumption
  <2>5. Stride(s) * n <= most * MaxInstallments /\ Stride(s) * n \in Nat /\ most * MaxInstallments \in Nat
    <3> DEFINE c == Stride(s)
    <3>1. c \in Nat \ {0} /\ c <= most
      BY <2>3
    <3> HIDE DEF c, most
    <3>2. c * n <= c * MaxInstallments /\ c * n \in Nat /\ c * MaxInstallments \in Nat
      BY <2>1, <3>1, Times
    <3>3. MaxInstallments * c <= MaxInstallments * most /\ MaxInstallments * most \in Nat
      BY <2>1, <2>2, <3>1, Times
    <3>4. MaxInstallments * c = c * MaxInstallments /\ MaxInstallments * most = most * MaxInstallments
      BY <2>1, <2>2, <3>1, SMTT(30)
    <3> QED
      BY <3>2, <3>3, <3>4 DEF c
  <2>6. MonthOf(d) \in Nat /\ MonthOf(LastDate) \in Nat /\ MonthOf(d) <= MonthOf(LastDate) /\ LastMonth \in Nat
    BY DatesAre, DayOfIs, CalendarAssumption
  <2> HIDE DEF most
  <2> DEFINE a == Stride(s) * n
             b == most * MaxInstallments
  <2>7. a <= b /\ a \in Nat /\ b \in Nat /\ MonthOf(LastDate) + b <= LastMonth
    BY <2>4, <2>5 DEF most
  <2> HIDE DEF a, b
  <2>8. MonthOf(d) + a \in Months
    BY <2>6, <2>7 DEF Months
  <2> QED
    BY <2>8 DEF a
<1> QED
  BY <1>3, <1>4 DEF Fits

-----------------------------------------------------------------------------
(* The walk of a rule: that there is one, and what it comes to.            *)
WalkTo(s, g, k) == IF k = 0 THEN First(s)
                   ELSE IF g[k - 1] > LastDate THEN g[k - 1] ELSE NextOccurrence(s, g[k - 1])

IsWalk(s, g, n) == g = [k \in 0..n |-> WalkTo(s, g, k)]

LEMMA WalkExists ==
  ASSUME NEW s, NEW n \in Nat
  PROVE  \E g : IsWalk(s, g, n)
<1> DEFINE Good == {m \in Nat : \E g : IsWalk(s, g, m)}
<1>1. 0 \in Good
  <2>1. IsWalk(s, [k \in 0..0 |-> First(s)], 0)
    BY DEF IsWalk, WalkTo
  <2> QED
    BY <2>1
<1>2. ASSUME NEW m \in Good PROVE m + 1 \in Good
  <2>1. PICK g : IsWalk(s, g, m)
    OBVIOUS
  <2> DEFINE h == [k \in 0..(m + 1) |-> WalkTo(s, g, k)]
  <2>2. m \in Nat /\ \A k \in 0..m : g[k] = WalkTo(s, g, k) /\ h[k] = WalkTo(s, g, k)
    BY <2>1 DEF IsWalk
  <2>3. ASSUME NEW k \in 0..(m + 1) PROVE WalkTo(s, g, k) = WalkTo(s, h, k)
    <3>1. CASE k = 0
      BY <3>1 DEF WalkTo
    <3>2. CASE k # 0
      <4>1. k - 1 \in 0..m
        BY <2>2, <3>2
      <4>2. g[k - 1] = h[k - 1]
        BY <2>2, <4>1
      <4> QED
        BY <4>2 DEF WalkTo
    <3> QED
      BY <3>1, <3>2
  <2>4. IsWalk(s, h, m + 1)
    BY <2>3 DEF IsWalk
  <2> HIDE DEF h
  <2> QED
    BY <2>2, <2>4
<1> HIDE DEF Good
<1>3. Good \in SUBSET Nat
  BY DEF Good
<1>4. Good = Nat
  BY <1>1, <1>2, <1>3, NaturalsFromZero
<1> QED
  BY <1>4 DEF Good

LEMMA WalkIs ==
  ASSUME NEW s
  PROVE  /\ Walk(s)[0] = First(s)
         /\ \A i \in 0..(MaxSteps - 1) :
              Walk(s)[i + 1] = IF Walk(s)[i] > LastDate THEN Walk(s)[i]
                               ELSE NextOccurrence(s, Walk(s)[i])
<1> DEFINE w == Walk(s)
<1>1. MaxSteps \in Nat
  BY ProjectionAssumption
<1>2. w = CHOOSE g : IsWalk(s, g, MaxSteps)
  BY DEF Walk, IsWalk, WalkTo
<1>3. IsWalk(s, w, MaxSteps)
  BY <1>1, <1>2, WalkExists
<1> HIDE DEF w
<1>4. \A k \in 0..MaxSteps : w[k] = WalkTo(s, w, k)
  BY <1>3 DEF IsWalk
<1>5. w[0] = First(s)
  BY <1>1, <1>4 DEF WalkTo
<1>6. ASSUME NEW i \in 0..(MaxSteps - 1)
      PROVE  w[i + 1] = IF w[i] > LastDate THEN w[i] ELSE NextOccurrence(s, w[i])
  <2>1. i + 1 \in 0..MaxSteps /\ i + 1 # 0 /\ i + 1 - 1 = i
    BY <1>1
  <2> QED
    BY <1>4, <2>1 DEF WalkTo
<1> QED
  BY <1>5, <1>6 DEF w

LEMMA NextIsLater ==
  ASSUME NEW s, Known(s), NEW d \in Dates
  PROVE  NextOccurrence(s, d) \in Int /\ d < NextOccurrence(s, d)
<1> DEFINE c == Stride(s)
           e == NextOccurrence(s, d)
<1>1. IsSchedule(s) /\ Fits(s, d, 1)
  <2>1. 1 \in 0..MaxInstallments
    BY ScheduleAssumption
  <2> QED
    BY <2>1, KnownFits
<1>2. c \in Nat \ {0} /\ c * 1 = c
  <2>1. c \in Nat \ {0}
    BY <1>1, StrideIs
  <2> QED
    BY <2>1, Times
<1>3. e = IF Weekly(s) THEN d + c ELSE AddMonths(d, c)
  BY <1>1, <1>2, StrideIs DEF NextOccurrence
<1>4. d \in Int /\ InCalendar(d) /\ MonthOf(d) \in Nat
  BY DatesAre, DayOfIs
<1>5. CASE Weekly(s)
  <2> HIDE DEF c, e
  <2>1. e \in Int /\ d < e
    BY <1>2, <1>3, <1>4, <1>5
  <2> QED
    BY <2>1 DEF e
<1>6. CASE ~Weekly(s)
  <2>1. MonthOf(d) + c \in Months /\ e = AddMonths(d, c) /\ c \in Nat
    BY <1>1, <1>2, <1>3, <1>6 DEF Fits
  <2>2. InCalendar(e) /\ MonthOf(e) = MonthOf(d) + c
    BY <1>4, <2>1, AddMonthsClamps
  <2> HIDE DEF c, e
  <2>3. MonthOf(d) < MonthOf(e)
    BY <1>2, <1>4, <2>2
  <2>4. e \in Int
    BY <2>2, DayOfIs
  <2>5. d < e
    BY <1>4, <2>2, <2>3, MonthsInOrder
  <2> QED
    BY <2>4, <2>5 DEF e
<1> QED
  BY <1>5, <1>6

LEMMA FirstIs ==
  ASSUME NEW s, Known(s), s.last \in Dates \cup {Never}
  PROVE  /\ First(s) \in Int /\ FirstDay[0] <= First(s)
         /\ s.last # Never => s.last < First(s)
<1>1. Dates \subseteq Int /\ FirstDay[0] \in Int /\ \A d \in Dates : FirstDay[0] <= d
  BY DatesAre
<1>2. CASE s.last = Never
  BY <1>1, <1>2 DEF First, Known
<1>3. CASE s.last # Never
  <2>1. s.last \in Dates /\ First(s) = NextOccurrence(s, s.last)
    BY <1>3 DEF First
  <2>2. First(s) \in Int /\ s.last < First(s)
    BY <2>1, NextIsLater
  <2>3. s.last \in Int /\ FirstDay[0] <= s.last
    BY <1>1, <2>1
  <2> QED
    BY <1>1, <2>2, <2>3
<1> QED
  BY <1>2, <1>3

(* The days of a walk go up until they pass the last date.                 *)
LEMMA WalkRises ==
  ASSUME NEW s, Known(s), First(s) \in Int, FirstDay[0] <= First(s)
  PROVE  /\ \A i \in 0..MaxSteps : Walk(s)[i] \in Int /\ First(s) <= Walk(s)[i]
         /\ \A i, j \in 0..MaxSteps : i < j =>
              /\ Walk(s)[i] <= Walk(s)[j]
              /\ Walk(s)[i] <= LastDate => Walk(s)[i] < Walk(s)[j]
<1> DEFINE w == Walk(s)
           Below(n) == /\ w[n] \in Int /\ First(s) <= w[n]
                       /\ \A i \in 0..(n - 1) : /\ w[i] <= w[n]
                                                /\ w[i] <= LastDate => w[i] < w[n]
           Good == {n \in Nat : n <= MaxSteps => \A m \in 0..n : Below(m)}
<1>1. /\ w[0] = First(s)
      /\ \A i \in 0..(MaxSteps - 1) : w[i + 1] = IF w[i] > LastDate THEN w[i] ELSE NextOccurrence(s, w[i])
  BY WalkIs
<1>2. MaxSteps \in Nat /\ FirstDay[0] \in Int /\ LastDate \in Int
  BY ProjectionAssumption, DatesAre
<1> HIDE DEF w
<1>3. 0 \in Good
  <2>1. Below(0)
    <3>1. \A i \in 0..(0 - 1) : FALSE
      OBVIOUS
    <3> QED
      BY <1>1, <3>1
  <2>2. \A m \in 0..0 : m = 0
    OBVIOUS
  <2> HIDE DEF Below
  <2> QED
    BY <2>1, <2>2
<1>4. ASSUME NEW n \in Good PROVE n + 1 \in Good
  <2> SUFFICES ASSUME n + 1 <= MaxSteps PROVE Below(n + 1)
    <3>1. n \in Nat /\ \A m \in 0..(n + 1) : m \in 0..n \/ m = n + 1
      OBVIOUS
    <3>2. n + 1 <= MaxSteps => \A m \in 0..n : Below(m)
      BY <1>2, <3>1
    <3> HIDE DEF Below
    <3>3. n + 1 \in Nat
      BY <3>1
    <3>4. (n + 1 <= MaxSteps => Below(n + 1)) => (n + 1 <= MaxSteps => \A m \in 0..(n + 1) : Below(m))
      BY <3>1, <3>2
    <3> QED
      BY <3>3, <3>4
  <2>1. n \in Nat /\ n \in 0..(MaxSteps - 1) /\ n \in 0..n
    BY <1>2
  <2>2. Below(n)
    <3> HIDE DEF Below
    <3> QED
      BY <1>2, <2>1
  <2>3. w[n] \in Int /\ First(s) <= w[n]
    BY <2>2
  <2>4. w[n + 1] \in Int /\ w[n] <= w[n + 1] /\ (w[n] <= LastDate => w[n] < w[n + 1])
    <3>1. CASE w[n] > LastDate
      BY <1>1, <1>2, <2>1, <2>3, <3>1
    <3>2. CASE ~(w[n] > LastDate)
      <4>1. w[n] \in Dates /\ w[n + 1] = NextOccurrence(s, w[n])
        BY <1>1, <1>2, <2>1, <2>3, <3>2, DatesAre
      <4> QED
        BY <2>3, <4>1, NextIsLater
    <3> QED
      BY <3>1, <3>2
  <2>5. ASSUME NEW i \in 0..(n + 1 - 1)
        PROVE  w[i] <= w[n + 1] /\ (w[i] <= LastDate => w[i] < w[n + 1])
    <3>1. CASE i = n
      BY <2>4, <3>1
    <3>2. CASE i # n
      <4>1. i \in 0..(n - 1) /\ i \in 0..n /\ i \in Nat
        BY <2>1, <3>2
      <4>2. w[i] <= w[n] /\ (w[i] <= LastDate => w[i] < w[n])
        BY <2>2, <4>1
      <4>3. w[i] \in Int
        <5>1. Below(i)
          <6> HIDE DEF Below
          <6> QED
            BY <1>2, <2>1, <4>1
        <5> QED
          BY <5>1
      <4> QED
        BY <1>2, <2>3, <2>4, <4>2, <4>3
    <3> QED
      BY <3>1, <3>2
  <2> QED
    BY <2>3, <2>4, <2>5
<1>5. Good = Nat
  <2>1. Good \in SUBSET Nat
    OBVIOUS
  <2> HIDE DEF Good
  <2> QED
    BY <1>3, <1>4, <2>1, NaturalsFromZero
<1>6. \A m \in 0..MaxSteps : Below(m)
  <2>1. MaxSteps \in Good /\ MaxSteps <= MaxSteps
    BY <1>2, <1>5
  <2> HIDE DEF Below
  <2> QED
    BY <2>1
<1>7. ASSUME NEW i \in 0..MaxSteps, NEW j \in 0..MaxSteps, i < j
      PROVE  w[i] <= w[j] /\ (w[i] <= LastDate => w[i] < w[j])
  <2>1. i \in 0..(j - 1)
    BY <1>2, <1>7
  <2> QED
    BY <1>6, <2>1
<1>8. \A i \in 0..MaxSteps : w[i] \in Int /\ First(s) <= w[i]
  BY <1>6
<1> QED
  BY <1>7, <1>8 DEF w

(* The days of a walk have the numbers that follow the one it starts at.   *)
LEMMA WalkOnSchedule ==
  ASSUME NEW s, Known(s), First(s) \in Int, FirstDay[0] <= First(s),
         NEW p \in Nat \ {0}, OnSchedule(s, p, First(s))
  PROVE  \A i \in 0..MaxSteps : i = 0 \/ Walk(s)[i - 1] <= LastDate => OnSchedule(s, p + i, Walk(s)[i])
<1> DEFINE w == Walk(s)
           Good == {n \in Nat : n <= MaxSteps /\ (n = 0 \/ w[n - 1] <= LastDate) => OnSchedule(s, p + n, w[n])}
<1>1. /\ w[0] = First(s)
      /\ \A i \in 0..(MaxSteps - 1) : w[i + 1] = IF w[i] > LastDate THEN w[i] ELSE NextOccurrence(s, w[i])
  BY WalkIs
<1>2. /\ \A i \in 0..MaxSteps : w[i] \in Int /\ First(s) <= w[i]
      /\ \A i, j \in 0..MaxSteps : i < j => w[i] <= w[j]
  BY WalkRises
<1>3. MaxSteps \in Nat /\ FirstDay[0] \in Int /\ LastDate \in Int /\ IsSchedule(s)
  BY ProjectionAssumption, DatesAre, KnownFits
<1> HIDE DEF w
<1>4. 0 \in Good
  <2>1. p + 0 = p
    OBVIOUS
  <2> QED
    BY <1>1, <2>1
<1>5. ASSUME NEW n \in Good PROVE n + 1 \in Good
  <2> SUFFICES ASSUME n + 1 <= MaxSteps, w[n + 1 - 1] <= LastDate PROVE OnSchedule(s, p + (n + 1), w[n + 1])
    <3>1. n + 1 \in Nat /\ n + 1 # 0
      OBVIOUS
    <3> QED
      BY <3>1
  <2>1. /\ n \in Nat /\ n \in 0..(MaxSteps - 1) /\ n \in 0..MaxSteps /\ n <= MaxSteps /\ w[n] <= LastDate
        /\ p + n \in Nat \ {0} /\ p + (n + 1) = (p + n) + 1
    <3>1. n \in Nat /\ n + 1 - 1 = n
      OBVIOUS
    <3>2. n \in 0..(MaxSteps - 1) /\ n \in 0..MaxSteps /\ n <= MaxSteps
      BY <1>3, <3>1
    <3>3. w[n] <= LastDate
      BY <3>1
    <3>4. p + n \in Nat \ {0} /\ p + (n + 1) = (p + n) + 1
      BY <3>1
    <3> QED
      BY <3>1, <3>2, <3>3, <3>4
  <2>2. n = 0 \/ w[n - 1] <= LastDate
    <3>1. CASE n # 0
      <4>1. n - 1 \in 0..MaxSteps /\ n - 1 < n
        BY <1>3, <2>1, <3>1
      <4>2. w[n - 1] <= w[n] /\ w[n - 1] \in Int /\ w[n] \in Int
        BY <1>2, <2>1, <4>1
      <4> QED
        BY <1>3, <2>1, <4>2
    <3> QED
      BY <3>1
  <2>3. OnSchedule(s, p + n, w[n])
    BY <2>1, <2>2
  <2>4. w[n] \in Dates /\ w[n + 1] = NextOccurrence(s, w[n])
    BY <1>1, <1>2, <1>3, <2>1, DatesAre
  <2>5. Fits(s, w[n], 1)
    <3>1. 1 \in 0..MaxInstallments
      BY ScheduleAssumption
    <3> QED
      BY <2>4, <3>1, KnownFits
  <2> QED
    BY <1>3, <2>1, <2>3, <2>4, <2>5, StepOnSchedule
<1>6. Good = Nat
  <2>1. Good \in SUBSET Nat
    OBVIOUS
  <2> HIDE DEF Good
  <2> QED
    BY <1>4, <1>5, <2>1, NaturalsFromZero
<1>7. ASSUME NEW i \in 0..MaxSteps, i = 0 \/ w[i - 1] <= LastDate
      PROVE  OnSchedule(s, p + i, w[i])
  <2>1. i \in Nat /\ i <= MaxSteps
    BY <1>3
  <2>2. i \in Good
    <3> HIDE DEF Good
    <3> QED
      BY <1>6, <2>1
  <2> QED
    BY <1>7, <2>1, <2>2
<1> QED
  BY <1>7 DEF w

(* What the job comes to in a run: the dates of the numbers that follow,   *)
(* as far as the threshold and the cap allow and not past the end.         *)
LEMMA DueIs ==
  ASSUME NEW s, Known(s), First(s) \in Int, FirstDay[0] <= First(s), s.end \in Int,
         NEW threshold \in Int, threshold <= LastDate
  PROVE  \E j \in 0..MaxGen :
           /\ Due(s, threshold) = {Walk(s)[i] : i \in 0..(j - 1)}
           /\ \A i \in 0..(j - 1) : /\ Walk(s)[i] \in Dates
                                    /\ Walk(s)[i] <= threshold /\ ~Over(s, Walk(s)[i])
<1> DEFINE w == Walk(s)
           Stops(i) == i >= MaxGen \/ w[i] > threshold \/ Over(s, w[i])
           T == {i \in Nat : Stops(i)}
<1>1. /\ \A i \in 0..MaxSteps : w[i] \in Int /\ First(s) <= w[i]
      /\ \A i, j \in 0..MaxSteps : i < j => w[i] <= w[j]
  BY WalkRises
<1>2. MaxSteps \in Nat /\ MaxGen \in Nat /\ MaxGen <= MaxSteps /\ FirstDay[0] \in Int /\ LastDate \in Int
  BY ProjectionAssumption, DatesAre
<1>3. Due(s, threshold) = {d \in {w[k] : k \in 0..(MaxGen - 1)} : d <= threshold /\ ~Over(s, d)}
  BY DEF Due, Reached
<1> HIDE DEF w
<1>4. PICK j \in T : \A i \in T : j <= i
  <2>1. T \in SUBSET Nat /\ MaxGen \in T
    BY <1>2
  <2> HIDE DEF T
  <2> QED
    BY <2>1, LeastNatural
<1>5. j \in 0..MaxGen
  BY <1>2, <1>4
<1>6. ASSUME NEW i \in 0..(j - 1)
      PROVE  i \in 0..(MaxGen - 1) /\ w[i] \in Dates /\ w[i] <= threshold /\ ~Over(s, w[i])
  <2>1. i \in Nat /\ ~(j <= i) /\ i \in 0..MaxSteps /\ i \in 0..(MaxGen - 1)
    BY <1>2, <1>5
  <2>2. ~Stops(i)
    BY <1>4, <2>1
  <2>3. w[i] \in Int /\ w[i] <= threshold
    BY <1>1, <2>1, <2>2
  <2>4. w[i] \in Dates
    BY <1>1, <1>2, <2>1, <2>3, DatesAre
  <2> QED
    BY <2>1, <2>2, <2>3, <2>4
<1>7. ASSUME NEW i \in 0..(MaxGen - 1), w[i] <= threshold, ~Over(s, w[i])
      PROVE  i \in 0..(j - 1)
  <2> SUFFICES ASSUME j <= i PROVE FALSE
    BY <1>2, <1>5
  <2>1. i \in 0..MaxSteps /\ j \in 0..MaxSteps /\ j \in Nat /\ ~(j >= MaxGen) /\ j \in T
    BY <1>2, <1>4, <1>5
  <2>2. w[j] > threshold \/ Over(s, w[j])
    BY <2>1
  <2>3. w[j] <= w[i] /\ w[j] \in Int /\ w[i] \in Int
    BY <1>1, <2>1
  <2> QED
    BY <1>7, <2>2, <2>3 DEF Over
<1>8. Due(s, threshold) = {w[i] : i \in 0..(j - 1)}
  BY <1>3, <1>6, <1>7
<1> QED
  BY <1>5, <1>6, <1>8 DEF w

-----------------------------------------------------------------------------
(* The types of the projection's state, and of the rule as a record.       *)
RuleTyped(r) ==
  /\ IsRule(r) /\ Known(r)
  /\ r.status \in {"none", "active", "paused"}
  /\ r.status = "none" \/ r.amount \in Nat \ {0}
  /\ r.end \in Int /\ (r.end # Never => r.start <= r.end)
  /\ r.count \in 1..MaxInstallments \cup {Never}
  /\ r.last \in Dates \cup {Never} /\ (r.last # Never => r.start <= r.last)

RowsTyped == rows \in [Dates -> Rows] /\ born \in [Dates -> Nat]

PlanTyped == plan \in [total : Totals, exact : BOOLEAN] \cup {NoPlan} /\ edits \in 0..MaxEdits

CopyTyped == /\ copy = NoCopy \/ (copy.start \in Dates /\ copy.start <= copy.end)
             /\ stale \in BOOLEAN

ProjectionInv == /\ today \in FirstToday..LastToday
                 /\ RuleTyped(rule) /\ RowsTyped /\ PlanTyped /\ CopyTyped

LEMMA ProjectionTyped == ProjectionInv => TypeOK
<1> SUFFICES ASSUME ProjectionInv PROVE TypeOK
  OBVIOUS
<1>1. rule.frequency \in Frequencies /\ rule.interval \in Nat \ {0} /\ rule.start \in Dates
  BY KnownFits DEF ProjectionInv, RuleTyped, Known, IsSchedule
<1> QED
  BY <1>1 DEF ProjectionInv, RuleTyped, RowsTyped, PlanTyped, CopyTyped, TypeOK

IsKnown(sch) == [frequency |-> sch.frequency, interval |-> sch.interval] \in Schedules \cup {Monthly}

LEMMA SchedulesKnown == \A sch \in Schedules \cup {Monthly} : IsKnown(sch)
BY ProjectionAssumption DEF Monthly, IsKnown

LEMMA NewRuleIs ==
  ASSUME NEW sch, NEW st, NEW a, NEW d, NEW e, NEW n, NEW l
  PROVE  /\ IsRule(NewRule(sch, st, a, d, e, n, l))
         /\ NewRule(sch, st, a, d, e, n, l).status = st
         /\ NewRule(sch, st, a, d, e, n, l).frequency = sch.frequency
         /\ NewRule(sch, st, a, d, e, n, l).interval = sch.interval
         /\ NewRule(sch, st, a, d, e, n, l).amount = a
         /\ NewRule(sch, st, a, d, e, n, l).start = d
         /\ NewRule(sch, st, a, d, e, n, l).end = e
         /\ NewRule(sch, st, a, d, e, n, l).count = n
         /\ NewRule(sch, st, a, d, e, n, l).last = l
BY DEF NewRule, IsRule

LEMMA NewRuleTyped ==
  ASSUME NEW sch, IsKnown(sch), NEW st \in {"none", "active", "paused"}, NEW a,
         st = "none" \/ a \in Nat \ {0}, NEW d \in Dates, NEW e \in Int, e # Never => d <= e,
         NEW n \in 1..MaxInstallments \cup {Never}, NEW l \in Dates \cup {Never}, l # Never => d <= l
  PROVE  RuleTyped(NewRule(sch, st, a, d, e, n, l))
<1> DEFINE r == NewRule(sch, st, a, d, e, n, l)
<1>1. /\ IsRule(r) /\ r.status = st /\ r.frequency = sch.frequency /\ r.interval = sch.interval
      /\ r.amount = a /\ r.start = d /\ r.end = e /\ r.count = n /\ r.last = l
  BY NewRuleIs
<1>2. Known(r)
  BY <1>1 DEF Known, IsKnown
<1> HIDE DEF r
<1>3. RuleTyped(r)
  BY <1>1, <1>2 DEF RuleTyped
<1> QED
  BY <1>3 DEF r

(* A plan that is made: its end follows from its count.                    *)
PlanRule(sch, st, a, d, n, l) == [NewRule(sch, st, a, d, Never, n, l) EXCEPT
                                    !.end = EndDate(NewRule(sch, st, a, d, Never, n, l), n)]

LEMMA PlanRuleIs ==
  ASSUME NEW sch, IsKnown(sch), NEW st \in {"active", "paused"}, NEW a \in Nat \ {0},
         NEW d \in Dates, NEW n \in 1..MaxInstallments, NEW l \in Dates \cup {Never}, l # Never => d <= l
  PROVE  /\ RuleTyped(PlanRule(sch, st, a, d, n, l))
         /\ PlanRule(sch, st, a, d, n, l).status = st
         /\ PlanRule(sch, st, a, d, n, l).amount = a
         /\ PlanRule(sch, st, a, d, n, l).start = d
         /\ PlanRule(sch, st, a, d, n, l).count = n
         /\ PlanRule(sch, st, a, d, n, l).last = l
         /\ PlanRule(sch, st, a, d, n, l).end = EndDate(PlanRule(sch, st, a, d, n, l), n)
<1> DEFINE s == NewRule(sch, st, a, d, Never, n, l)
           r == PlanRule(sch, st, a, d, n, l)
<1>1. Never \in Int /\ (Never # Never => d <= Never) /\ n \in 1..MaxInstallments \cup {Never}
  BY DEF Never
<1>2. RuleTyped(s) /\ s.start = d
  <2>1. RuleTyped(s)
    BY <1>1, NewRuleTyped
  <2>2. s.start = d
    BY NewRuleIs
  <2> QED
    BY <2>1, <2>2
<1>3. IsSchedule(s) /\ Fits(s, s.start, n - 1) /\ n \in Nat \ {0}
  <2>1. n - 1 \in 0..MaxInstallments /\ n \in Nat \ {0}
    BY ScheduleAssumption
  <2> QED
    BY <1>2, <2>1, KnownFits DEF RuleTyped
<1>4. EndDate(s, n) \in Int /\ s.start <= EndDate(s, n)
  BY <1>3, EndOnSchedule
<1>5. r = NewRule(sch, st, a, d, EndDate(s, n), n, l)
  BY DEF PlanRule, NewRule
<1>6. /\ RuleTyped(r) /\ r.status = st /\ r.amount = a /\ r.start = d /\ r.count = n /\ r.last = l
      /\ r.end = EndDate(s, n) /\ r.frequency = sch.frequency /\ r.interval = sch.interval
  <2> DEFINE e == EndDate(s, n)
  <2>1. e \in Int /\ (e # Never => d <= e)
    BY <1>2, <1>4
  <2>2. r = NewRule(sch, st, a, d, e, n, l)
    BY <1>5
  <2> HIDE DEF e, r
  <2>3. /\ RuleTyped(r) /\ r.status = st /\ r.amount = a /\ r.start = d /\ r.count = n /\ r.last = l
        /\ r.end = e /\ r.frequency = sch.frequency /\ r.interval = sch.interval
    <3>1. RuleTyped(r)
      BY <1>1, <2>1, <2>2, NewRuleTyped
    <3>2. /\ r.status = st /\ r.amount = a /\ r.start = d /\ r.count = n /\ r.last = l
          /\ r.end = e /\ r.frequency = sch.frequency /\ r.interval = sch.interval
      BY <2>2, NewRuleIs
    <3> QED
      BY <3>1, <3>2
  <2> QED
    BY <2>3 DEF e
<1>7. s.frequency = sch.frequency /\ s.interval = sch.interval
  BY NewRuleIs
<1> HIDE DEF s, r
<1>8. EndDate(r, n) = EndDate(s, n)
  BY <1>2, <1>6, <1>7 DEF EndDate, AddOccurrences
<1> QED
  BY <1>6, <1>8 DEF r

LEMMA RuleWith ==
  ASSUME NEW r, IsRule(r), NEW st, NEW n, NEW l
  PROVE  /\ [r EXCEPT !.status = st] = NewRule(r, st, r.amount, r.start, r.end, r.count, r.last)
         /\ [r EXCEPT !.count = n] = NewRule(r, r.status, r.amount, r.start, r.end, n, r.last)
         /\ [r EXCEPT !.last = l] = NewRule(r, r.status, r.amount, r.start, r.end, r.count, l)
<1>1. PICK a, b, c, d, e, f, g, h : r = [status |-> a, frequency |-> b, interval |-> c, amount |-> d,
                                         start |-> e, end |-> f, count |-> g, last |-> h]
  BY DEF IsRule
<1>2. /\ r.frequency = b /\ r.interval = c /\ r.amount = d /\ r.start = e /\ r.end = f
      /\ r.count = g /\ r.last = h /\ r.status = a
  BY <1>1
<1>3. [r EXCEPT !.status = st] = NewRule(r, st, r.amount, r.start, r.end, r.count, r.last)
  BY <1>1, <1>2 DEF NewRule
<1>4. [r EXCEPT !.count = n] = NewRule(r, r.status, r.amount, r.start, r.end, n, r.last)
  BY <1>1, <1>2 DEF NewRule
<1>5. [r EXCEPT !.last = l] = NewRule(r, r.status, r.amount, r.start, r.end, r.count, l)
  BY <1>1, <1>2 DEF NewRule
<1> QED
  BY <1>3, <1>4, <1>5

(* What stays of a rule when its status, count or last date is another.    *)
LEMMA RuleTypedWith ==
  ASSUME NEW r, RuleTyped(r), NEW st \in {"none", "active", "paused"},
         st = "none" \/ r.amount \in Nat \ {0},
         NEW n \in 1..MaxInstallments \cup {Never}, NEW l \in Dates \cup {Never}, l # Never => r.start <= l
  PROVE  RuleTyped(NewRule(r, st, r.amount, r.start, r.end, n, l))
<1>1. /\ IsKnown(r) /\ r.start \in Dates /\ r.end \in Int /\ (r.end # Never => r.start <= r.end)
  BY DEF RuleTyped, Known, IsKnown
<1> DEFINE a == r.amount
           d == r.start
           e == r.end
<1>2. /\ (st = "none" \/ a \in Nat \ {0}) /\ d \in Dates /\ e \in Int /\ (e # Never => d <= e)
      /\ (l # Never => d <= l)
  BY <1>1
<1> HIDE DEF a, d, e
<1>3. RuleTyped(NewRule(r, st, a, d, e, n, l))
  BY <1>1, <1>2, NewRuleTyped
<1> QED
  BY <1>3 DEF a, d, e

LEMMA ThresholdFits ==
  ASSUME today \in FirstToday..LastToday
  PROVE  today \in Int /\ today + LookAhead \in Int /\ today + LookAhead <= LastDate
<1>1. FirstToday \in Int /\ LastToday \in Int /\ LookAhead \in Int /\ LastDate \in Int /\ LastToday + LookAhead <= LastDate
  BY ProjectionAssumption, DatesAre
<1> QED
  BY <1>1

LEMMA FirstFromStart ==
  ASSUME NEW r, RuleTyped(r)
  PROVE  r.start <= First(r)
<1>1. r.start \in Int /\ First(r) \in Int
  BY DatesAre, FirstIs DEF RuleTyped, Known
<1>2. CASE r.last = Never
  BY <1>1, <1>2 DEF First
<1>3. CASE r.last # Never
  <2>1. r.start <= r.last /\ r.last < First(r) /\ r.last \in Int
    BY <1>3, DatesAre, FirstIs DEF RuleTyped
  <2> QED
    BY <1>1, <2>1
<1> QED
  BY <1>2, <1>3

LEMMA JobDue ==
  ASSUME RuleTyped(rule), today \in FirstToday..LastToday
  PROVE  /\ Due(rule, today + LookAhead) \subseteq Dates
         /\ Due(rule, today + LookAhead) # {} => /\ Max(Due(rule, today + LookAhead)) \in Dates
                                                 /\ rule.start <= Max(Due(rule, today + LookAhead))
<1> DEFINE D == Due(rule, today + LookAhead)
<1>1. First(rule) \in Int /\ FirstDay[0] <= First(rule) /\ rule.end \in Int /\ Known(rule)
  BY FirstIs DEF RuleTyped
<1>2. D \subseteq Dates /\ \A d \in D : rule.start <= d
  <2>1. PICK j \in 0..MaxGen :
          /\ D = {Walk(rule)[i] : i \in 0..(j - 1)}
          /\ \A i \in 0..(j - 1) : Walk(rule)[i] \in Dates
    BY <1>1, DueIs, ThresholdFits
  <2>2. ASSUME NEW i \in 0..(j - 1) PROVE rule.start <= Walk(rule)[i]
    <3>1. i \in 0..MaxSteps
      BY ProjectionAssumption
    <3>2. Walk(rule)[i] \in Int /\ First(rule) <= Walk(rule)[i]
      BY <1>1, <3>1, WalkRises
    <3>3. rule.start <= First(rule)
      BY FirstFromStart
    <3>4. rule.start \in Int
      BY <1>1, DatesAre DEF Known
    <3> QED
      BY <1>1, <3>2, <3>3, <3>4
  <2> QED
    BY <2>1, <2>2
<1> HIDE DEF D
<1>3. ASSUME D # {} PROVE Max(D) \in D
  <2>1. D \in SUBSET Int /\ IsFiniteSet(D)
    BY <1>2, DatesAre, FS_Subset
  <2>2. PICK m \in D : \A x \in D : x <= m
    BY <1>3, <2>1, Greatest
  <2>3. \A x \in D : m >= x
    BY <2>1, <2>2
  <2> QED
    BY <2>3 DEF Max
<1> QED
  BY <1>2, <1>3 DEF D

LEMMA InferCountIs == \A s, e : InferCount(s, e) \in 1..MaxInstallments \cup {Never}
BY DEF InferCount

LEMMA NoRuleTyped == RuleTyped(NoRule)
<1>1. /\ IsRule(NoRule) /\ NoRule.status = "none" /\ NoRule.end = Never /\ NoRule.count = Never
      /\ NoRule.last = Never /\ NoRule.start = FirstDay[0]
      /\ NoRule.frequency = "MONTHLY" /\ NoRule.interval = 1
  BY DEF NoRule, IsRule
<1>2. Known(NoRule)
  BY <1>1, DatesAre DEF Known, Monthly
<1>3. Never \in Int
  BY DEF Never
<1> QED
  BY <1>1, <1>2, <1>3 DEF RuleTyped

LEMMA ProjectionInvInit == Init => ProjectionInv
<1> SUFFICES ASSUME Init PROVE ProjectionInv
  OBVIOUS
<1>1. today \in FirstToday..LastToday
  <2>1. FirstToday \in Int /\ LastToday \in Int /\ FirstToday <= LastToday
    BY ProjectionAssumption, DatesAre
  <2> QED
    BY <2>1 DEF Init
<1>2. RuleTyped(rule)
  BY NoRuleTyped DEF Init
<1>3. RowsTyped
  BY DEF Init, RowsTyped, Rows
<1>4. PlanTyped
  BY ProjectionAssumption DEF Init, PlanTyped
<1>5. CopyTyped
  BY DEF Init, CopyTyped
<1> QED
  BY <1>1, <1>2, <1>3, <1>4, <1>5 DEF ProjectionInv

LEMMA SplitIsPositive ==
  ASSUME NEW t \in Totals, NEW n \in Counts, t \div n > 0
  PROVE  /\ t \div n \in Nat \ {0} /\ FirstAmount(t, n) \in Nat \ {0} /\ n \in 1..MaxInstallments
         /\ t = n * (t \div n) + (t % n) /\ t % n \in Nat
<1>1. t \in Nat \ {0} /\ n \in Nat \ {0} /\ n \in 1..MaxInstallments
  BY ProjectionAssumption, ScheduleAssumption
<1>2. t \div n \in Int /\ t % n \in Nat /\ t = n * (t \div n) + (t % n)
  BY <1>1, SMTT(30)
<1> DEFINE a == t \div n
           b == t % n
<1>3. a \in Nat \ {0} /\ a + b \in Nat \ {0}
  <2>1. a \in Int /\ b \in Nat /\ a > 0
    BY <1>2
  <2> HIDE DEF a, b
  <2> QED
    BY <2>1
<1> QED
  BY <1>1, <1>2, <1>3 DEF FirstAmount

(* The next rule, of the types; the rest of the state is as plain.         *)
LEMMA RuleTypedNext ==
  ASSUME ProjectionInv, [Next]_vars
  PROVE  RuleTyped(rule')
<1> USE DEF ProjectionInv
<1>0. RuleTyped(rule)
  OBVIOUS
<1>1. CASE CreateRule
  <2>1. PICK sch \in Schedules, st \in {"active", "paused"}, a \in Amounts, d \in Dates, e \in Dates \cup {Never} :
          EndsAfter(e, d) /\ rule' = NewRule(sch, st, a, d, e, Never, Never)
    BY <1>1 DEF CreateRule
  <2>2. /\ IsKnown(sch) /\ st \in {"none", "active", "paused"} /\ a \in Nat \ {0} /\ e \in Int
        /\ (e # Never => d <= e) /\ Never \in 1..MaxInstallments \cup {Never} /\ Never \in Dates \cup {Never}
        /\ (Never # Never => d <= Never)
    <3>1. e \in Int
      BY DatesAre DEF Never
    <3> QED
      BY <2>1, <3>1, SchedulesKnown, ProjectionAssumption DEF EndsAfter
  <2>3. RuleTyped(NewRule(sch, st, a, d, e, Never, Never))
    BY <2>2, NewRuleTyped
  <2> QED
    BY <2>1, <2>3
<1>2. CASE CreateByTotal
  <2>1. PICK sch \in Schedules, st \in {"active", "paused"}, t \in Totals, n \in Counts, d \in Dates :
          t \div n > 0 /\ rule' = PlanRule(sch, st, t \div n, d, n, Never)
    BY <1>2 DEF CreateByTotal, PlanRule
  <2>2. /\ IsKnown(sch) /\ t \div n \in Nat \ {0} /\ n \in 1..MaxInstallments /\ Never \in Dates \cup {Never}
        /\ (Never # Never => d <= Never)
    BY <2>1, SchedulesKnown, SplitIsPositive
  <2>3. RuleTyped(PlanRule(sch, st, t \div n, d, n, Never))
    BY <2>2, PlanRuleIs
  <2> QED
    BY <2>1, <2>3
<1>3. CASE Purchase
  <2>1. PICK t \in Totals, n \in Counts, d \in Dates :
          t \div n > 0 /\ rule' = PlanRule(Monthly, "active", t \div n, d, n, d)
    BY <1>3 DEF Purchase, PlanRule
  <2>2. /\ IsKnown(Monthly) /\ t \div n \in Nat \ {0} /\ n \in 1..MaxInstallments
        /\ d \in Dates \cup {Never} /\ "active" \in {"active", "paused"} /\ d <= d
    BY <2>1, SchedulesKnown, SplitIsPositive, DatesAre
  <2>3. RuleTyped(PlanRule(Monthly, "active", t \div n, d, n, d))
    BY <2>2, PlanRuleIs
  <2> QED
    BY <2>1, <2>3
<1>4. CASE Toggle
  <2> DEFINE st == IF rule.status = "active" THEN "paused" ELSE "active"
  <2>1. rule' = [rule EXCEPT !.status = st] /\ rule.status # "none"
    BY <1>4 DEF Toggle
  <2>2. /\ st \in {"none", "active", "paused"} /\ (st = "none" \/ rule.amount \in Nat \ {0}) /\ IsRule(rule)
        /\ rule.count \in 1..MaxInstallments \cup {Never} /\ rule.last \in Dates \cup {Never}
        /\ (rule.last # Never => rule.start <= rule.last)
    BY <2>1, <1>0 DEF RuleTyped
  <2> HIDE DEF st
  <2>3. rule' = NewRule(rule, st, rule.amount, rule.start, rule.end, rule.count, rule.last)
    BY <2>1, <2>2, RuleWith
  <2>4. RuleTyped(NewRule(rule, st, rule.amount, rule.start, rule.end, rule.count, rule.last))
    BY <1>0, <2>2, RuleTypedWith
  <2> QED
    BY <2>3, <2>4
<1>5. CASE Update
  <2>1. PICK sch \in Schedules \cup {[frequency |-> rule.frequency, interval |-> rule.interval]},
             a \in Amounts \cup {rule.amount},
             d \in Dates \cup {rule.start}, e \in Dates \cup {Never, rule.end} :
          LET s == NewRule(sch, rule.status, a, d, e, rule.count,
                           IF d = rule.start THEN rule.last ELSE Never)
          IN  /\ EndsAfter(e, d) /\ rule.status # "none"
              /\ rule' = IF SameDates(s) THEN s ELSE [s EXCEPT !.count = Recounted(s)]
    BY <1>5, ZenonT(30) DEF Update
  <2> DEFINE l == IF d = rule.start THEN rule.last ELSE Never
             s == NewRule(sch, rule.status, a, d, e, rule.count, l)
  <2>2. IsKnown(sch)
    BY <1>0, SchedulesKnown DEF RuleTyped, Known, IsKnown
  <2>3. /\ rule.status \in {"none", "active", "paused"} /\ a \in Nat \ {0} /\ d \in Dates
        /\ e \in Int /\ (e # Never => d <= e) /\ rule.count \in 1..MaxInstallments \cup {Never}
        /\ l \in Dates \cup {Never} /\ (l # Never => d <= l)
    <3>1. a \in Nat \ {0}
      BY <1>0, <2>1, ProjectionAssumption DEF RuleTyped
    <3>2. d \in Dates /\ l \in Dates \cup {Never} /\ (l # Never => d <= l)
      BY <1>0 DEF RuleTyped, Known
    <3>3. e \in Int /\ (e # Never => d <= e)
      BY <1>0, <2>1, DatesAre DEF RuleTyped, EndsAfter, Never
    <3> QED
      BY <1>0, <3>1, <3>2, <3>3 DEF RuleTyped
  <2>4. rule' = IF SameDates(s) THEN s ELSE [s EXCEPT !.count = Recounted(s)]
    BY <2>1
  <2>5. Recounted(s) \in 1..MaxInstallments \cup {Never}
    BY InferCountIs DEF Recounted
  <2> HIDE DEF l
  <2>6. RuleTyped(s) /\ IsRule(s)
    BY <2>2, <2>3, NewRuleTyped, NewRuleIs
  <2>7. \A n \in 1..MaxInstallments \cup {Never} : RuleTyped([s EXCEPT !.count = n])
    <3> TAKE n \in 1..MaxInstallments \cup {Never}
    <3>1. [s EXCEPT !.count = n] = NewRule(sch, rule.status, a, d, e, n, l)
      BY DEF NewRule
    <3>2. RuleTyped(NewRule(sch, rule.status, a, d, e, n, l))
      BY <2>2, <2>3, NewRuleTyped
    <3> QED
      BY <3>1, <3>2
  <2> HIDE DEF s
  <2> QED
    BY <2>4, <2>5, <2>6, <2>7
<1>6. CASE DeleteRule
  BY <1>6, NoRuleTyped DEF DeleteRule
<1>7. CASE WriteCount
  <2>1. PICK n \in 1..MaxInstallments \cup {Never} : rule' = [rule EXCEPT !.count = n]
    <3> DEFINE m == InferCount(copy, copy.end)
               n == IF m # Never /\ rule.count = Never THEN m ELSE rule.count
    <3>1. rule' = [rule EXCEPT !.count = n]
      BY <1>7 DEF WriteCount
    <3>2. n \in 1..MaxInstallments \cup {Never}
      BY <1>0, InferCountIs DEF RuleTyped
    <3> HIDE DEF n
    <3> QED
      BY <3>1, <3>2
  <2>2. /\ rule.status \in {"none", "active", "paused"} /\ (rule.status = "none" \/ rule.amount \in Nat \ {0})
        /\ IsRule(rule) /\ rule.last \in Dates \cup {Never} /\ (rule.last # Never => rule.start <= rule.last)
    BY <1>0 DEF RuleTyped
  <2>3. rule' = NewRule(rule, rule.status, rule.amount, rule.start, rule.end, n, rule.last)
    BY <2>1, <2>2, RuleWith
  <2>4. RuleTyped(NewRule(rule, rule.status, rule.amount, rule.start, rule.end, n, rule.last))
    BY <1>0, <2>2, RuleTypedWith
  <2> QED
    BY <2>3, <2>4
<1>8. CASE Job
  <2> DEFINE due == Due(rule, today + LookAhead)
             l == IF due = {} THEN rule.last ELSE Max(due)
             st == IF Ended(rule, today + LookAhead) THEN "paused" ELSE rule.status
  <2>0. rule.status = "active"
    BY <1>8 DEF Job
  <2>1. rule' = [rule EXCEPT !.last = l, !.status = st]
    BY <1>8 DEF Job
  <2>2. /\ st \in {"none", "active", "paused"} /\ (st = "none" \/ rule.amount \in Nat \ {0}) /\ IsRule(rule)
        /\ rule.count \in 1..MaxInstallments \cup {Never} /\ l \in Dates \cup {Never}
        /\ (l # Never => rule.start <= l)
    <3>1. due # {} => Max(due) \in Dates /\ rule.start <= Max(due)
      BY JobDue
    <3>2. l \in Dates \cup {Never} /\ (l # Never => rule.start <= l)
      <4> HIDE DEF due
      <4> QED
        BY <1>0, <3>1 DEF RuleTyped
    <3>3. st \in {"none", "active", "paused"}
      BY <2>0
    <3> HIDE DEF l, st
    <3> QED
      BY <1>0, <2>0, <3>2, <3>3 DEF RuleTyped
  <2> HIDE DEF st, l
  <2>3. rule' = NewRule(rule, st, rule.amount, rule.start, rule.end, rule.count, l)
    <3> DEFINE q == [rule EXCEPT !.last = l]
    <3>1. rule' = [q EXCEPT !.status = st]
      BY <2>1
    <3>2. q = NewRule(rule, rule.status, rule.amount, rule.start, rule.end, rule.count, l)
      BY <2>2, RuleWith
    <3> HIDE DEF q
    <3>3. /\ IsRule(q) /\ q.frequency = rule.frequency /\ q.interval = rule.interval /\ q.amount = rule.amount
          /\ q.start = rule.start /\ q.end = rule.end /\ q.count = rule.count /\ q.last = l
      BY <3>2, NewRuleIs
    <3>4. rule' = NewRule(q, st, q.amount, q.start, q.end, q.count, q.last)
      BY <3>1, <3>3, RuleWith
    <3> QED
      BY <3>3, <3>4 DEF NewRule
  <2>4. RuleTyped(NewRule(rule, st, rule.amount, rule.start, rule.end, rule.count, l))
    BY <1>0, <2>2, RuleTypedWith
  <2> QED
    BY <2>3, <2>4
<1>9. CASE UNCHANGED rule
  BY <1>0, <1>9
<1> QED
  BY <1>1, <1>2, <1>3, <1>4, <1>5, <1>6, <1>7, <1>8, <1>9
     DEF Next, vars, SetStatus, DeleteRow, MoveRow, KeepRule, ReadCandidate, NextDay

LEMMA RowsTypedNext ==
  ASSUME ProjectionInv, [Next]_vars
  PROVE  RowsTyped'
<1> USE DEF ProjectionInv, RowsTyped
<1>1. CASE Purchase
  <2>1. PICK t \in Totals, n \in Counts, d \in Dates :
          /\ t \div n > 0
          /\ rows' = [rows EXCEPT ![d] = [status |-> IF d > today THEN "PENDING" ELSE "COMPLETED",
                                          amount |-> FirstAmount(t, n)]]
          /\ born' = [born EXCEPT ![d] = FirstAmount(t, n)]
    BY <1>1 DEF Purchase
  <2>2. FirstAmount(t, n) \in Nat \ {0}
    BY <2>1, SplitIsPositive
  <2>3. [status |-> IF d > today THEN "PENDING" ELSE "COMPLETED", amount |-> FirstAmount(t, n)] \in Rows
    BY <2>2 DEF Rows
  <2> QED
    BY <2>1, <2>2, <2>3
<1>2. CASE DeleteRule
  BY <1>2 DEF DeleteRule
<1>3. CASE \E d \in Dates : SetStatus(d)
  <2>1. PICK d \in Dates : SetStatus(d)
    BY <1>3
  <2>2. rows[d] \in [status : {"PENDING", "COMPLETED"}, amount : Nat \ {0}]
    BY <2>1 DEF SetStatus, Rows
  <2>3. [rows[d] EXCEPT !.status = IF rows[d].status = "PENDING" THEN "COMPLETED" ELSE "PENDING"] \in Rows
    BY <2>2 DEF Rows
  <2>4. rows' = [rows EXCEPT ![d] =
                   [rows[d] EXCEPT !.status = IF rows[d].status = "PENDING" THEN "COMPLETED" ELSE "PENDING"]]
    BY <2>1 DEF SetStatus
  <2> QED
    BY <2>1, <2>3, <2>4 DEF SetStatus, KeepRule
<1>4. CASE \E d \in Dates : DeleteRow(d)
  BY <1>4 DEF DeleteRow, KeepRule, Rows
<1>5. CASE \E d, e \in Dates : MoveRow(d, e)
  <2>1. PICK d \in Dates, e \in Dates, st \in {"PENDING", "COMPLETED"} :
          /\ rows[d] # NoRow
          /\ rows' = [rows EXCEPT ![d] = NoRow, ![e] = [rows[d] EXCEPT !.status = st]]
          /\ born' = born
    BY <1>5 DEF MoveRow, KeepRule
  <2>2. rows[d] \in [status : {"PENDING", "COMPLETED"}, amount : Nat \ {0}]
    BY <2>1 DEF Rows
  <2>3. [rows[d] EXCEPT !.status = st] \in Rows
    BY <2>2 DEF Rows
  <2> QED
    BY <2>1, <2>3 DEF Rows
<1>6. CASE Job
  <2>1. rule.amount \in Nat \ {0}
    BY <1>6 DEF Job, RuleTyped
  <2>2. PICK F \in SUBSET Dates :
          /\ rows' = [d \in Dates |-> IF d \in F THEN [status |-> "PENDING", amount |-> rule.amount] ELSE rows[d]]
          /\ born' = [d \in Dates |-> IF d \in F THEN rule.amount ELSE born[d]]
    <3> DEFINE F == {d \in Dates : d \in Due(rule, today + LookAhead) /\ rows[d] = NoRow}
    <3>1. /\ rows' = [d \in Dates |-> IF d \in F THEN [status |-> "PENDING", amount |-> rule.amount] ELSE rows[d]]
          /\ born' = [d \in Dates |-> IF d \in F THEN rule.amount ELSE born[d]]
      BY <1>6 DEF Job
    <3>2. F \in SUBSET Dates
      OBVIOUS
    <3> HIDE DEF F
    <3> QED
      BY <3>1, <3>2
  <2>3. [status |-> "PENDING", amount |-> rule.amount] \in Rows
    BY <2>1 DEF Rows
  <2> QED
    BY <2>1, <2>2, <2>3
<1>7. CASE UNCHANGED <<rows, born>>
  BY <1>7
<1> QED
  BY <1>1, <1>2, <1>3, <1>4, <1>5, <1>6, <1>7
     DEF Next, vars, script, Keep, CreateRule, CreateByTotal, Toggle, Update, ReadCandidate, WriteCount, NextDay

LEMMA TodayNext ==
  ASSUME ProjectionInv, [Next]_vars
  PROVE  today' \in FirstToday..LastToday
<1> USE DEF ProjectionInv
<1>1. CASE NextDay
  <2>1. FirstToday \in Int /\ LastToday \in Int
    BY ProjectionAssumption, DatesAre
  <2> QED
    BY <1>1, <2>1 DEF NextDay
<1>2. CASE UNCHANGED today
  BY <1>2
<1> QED
  BY <1>1, <1>2
     DEF Next, vars, script, Keep, KeepRule, CreateRule, CreateByTotal, Purchase, Toggle, Update, DeleteRule,
         SetStatus, DeleteRow, MoveRow, ReadCandidate, WriteCount, Job

LEMMA PlanTypedNext ==
  ASSUME ProjectionInv, [Next]_vars
  PROVE  PlanTyped'
<1> USE DEF ProjectionInv, PlanTyped
<1>1. CASE Edit
  BY <1>1, ProjectionAssumption DEF Edit
<1>3. CASE CreateByTotal
  BY <1>3 DEF CreateByTotal
<1>4. CASE Purchase
  BY <1>4 DEF Purchase
<1>5. CASE DeleteRule
  BY <1>5 DEF DeleteRule
<1>6. CASE UNCHANGED <<plan, edits>>
  BY <1>6
<1> QED
  BY <1>1, <1>3, <1>4, <1>5, <1>6
     DEF Next, vars, script, Keep, KeepRule, CreateRule, Toggle, Update,
         SetStatus, DeleteRow, MoveRow, ReadCandidate, WriteCount, Job, NextDay

LEMMA CopyTypedNext ==
  ASSUME ProjectionInv, [Next]_vars
  PROVE  CopyTyped'
<1> USE DEF ProjectionInv, CopyTyped
<1>1. CASE ReadCandidate
  <2>1. copy' = Timing(rule) /\ rule.end # Never /\ stale' = stale
    BY <1>1 DEF ReadCandidate
  <2>2. copy'.start = rule.start /\ copy'.end = rule.end
    BY <2>1 DEF Timing
  <2> QED
    BY <2>1, <2>2 DEF RuleTyped, Known
<1>2. CASE WriteCount
  BY <1>2 DEF WriteCount
<1>3. CASE Update
  <2>1. copy' = copy
    BY <1>3 DEF Update
  <2>2. stale' \in BOOLEAN
    BY <1>3 DEF Update
  <2> QED
    BY <2>1, <2>2
<1>4. CASE DeleteRule
  BY <1>4 DEF DeleteRule
<1>5. CASE UNCHANGED script
  BY <1>5 DEF script
<1> QED
  BY <1>1, <1>2, <1>3, <1>4, <1>5
     DEF Next, vars, script, Keep, KeepRule, CreateRule, CreateByTotal, Purchase, Toggle,
         SetStatus, DeleteRow, MoveRow, Job, NextDay

LEMMA ProjectionInvNext == ProjectionInv /\ [Next]_vars => ProjectionInv'
<1> SUFFICES ASSUME ProjectionInv, [Next]_vars PROVE ProjectionInv'
  OBVIOUS
<1>1. RuleTyped(rule')
  BY RuleTypedNext
<1> QED
  BY <1>1, TodayNext, RowsTypedNext, PlanTypedNext, CopyTypedNext DEF ProjectionInv

(* The state of MonthProjection keeps its types: in particular the job     *)
(* never puts a date on a rule that no row could have, and no update or    *)
(* backfill leaves a count that is not one.                                *)
THEOREM ProjectionTypeCorrect == Spec => []TypeOK
<1> QED
  BY ProjectionInvInit, ProjectionInvNext, ProjectionTyped, PTL DEF Spec

-----------------------------------------------------------------------------
(* A plan under way.  Its instalments are numbered from 1 by their dates,  *)
(* the last one generated is the last date of the rule, and what its dates *)
(* were generated with is what the split says.                             *)
Delivered(b) == {d \in Dates : b[d] # 0}

PlanOf(r, p) ==
  /\ r.status # "none" /\ r.count \in Counts /\ r.end = EndDate(r, r.count)
  /\ p \in [total : Totals, exact : BOOLEAN] /\ r.amount = p.total \div r.count

Numbered(r, G, k, f) ==
  /\ f \in [1..k -> Dates] /\ G = {f[i] : i \in 1..k}
  /\ \A i \in 1..k : OnSchedule(r, i, f[i])
  /\ k = 0 <=> r.last = Never
  /\ k > 0 => f[1] = r.start /\ f[k] = r.last

PaidAsSplit(r, p, b) ==
  \A d \in Delivered(b) :
    b[d] = IF p.exact /\ d = r.start THEN FirstAmount(p.total, r.count) ELSE r.amount

UnderWay(r, p, b, w) ==
  /\ PlanOf(r, p)
  /\ \E k \in 0..r.count : \E f : Numbered(r, Delivered(b), k, f)
  /\ PaidAsSplit(r, p, b)
  /\ p.exact => r.last # Never
  /\ \A d \in Dates : w[d] # NoRow => b[d] # 0

PlanInv ==
  /\ rule.status = "none" => /\ plan = NoPlan
                             /\ \A d \in Dates : rows[d] = NoRow /\ born[d] = 0
  /\ plan # NoPlan => UnderWay(rule, plan, born, rows)

LEMMA SameSchedule ==
  ASSUME NEW r, NEW q, q.frequency = r.frequency, q.interval = r.interval, q.start = r.start
  PROVE  /\ \A i, d : OnSchedule(q, i, d) <=> OnSchedule(r, i, d)
         /\ \A n : EndDate(q, n) = EndDate(r, n)
<1>1. Stride(q) = Stride(r) /\ (Weekly(q) <=> Weekly(r))
  BY DEF Stride, Weekly
<1>2. \A i, d : OnSchedule(q, i, d) <=> OnSchedule(r, i, d)
  BY <1>1 DEF OnSchedule
<1>3. \A n : EndDate(q, n) = EndDate(r, n)
  BY DEF EndDate, AddOccurrences
<1> QED
  BY <1>2, <1>3

LEMMA UnderWaySame ==
  ASSUME NEW r, NEW q, q.frequency = r.frequency, q.interval = r.interval, q.start = r.start,
         q.end = r.end, q.count = r.count, q.amount = r.amount, q.last = r.last, q.status # "none",
         NEW p, NEW b, NEW w, NEW v, \A d \in Dates : v[d] # NoRow => w[d] # NoRow,
         UnderWay(r, p, b, w)
  PROVE  UnderWay(q, p, b, v)
<1>1. PlanOf(q, p)
  BY SameSchedule DEF UnderWay, PlanOf
<1>2a. PICK k \in 0..r.count : \E f : Numbered(r, Delivered(b), k, f)
  BY DEF UnderWay
<1>2. PICK f : Numbered(r, Delivered(b), k, f)
  BY <1>2a
<1>3. Numbered(q, Delivered(b), k, f)
  BY <1>2, SameSchedule DEF Numbered
<1>4. PaidAsSplit(q, p, b)
  BY DEF UnderWay, PaidAsSplit
<1> QED
  BY <1>1, <1>2, <1>3, <1>4 DEF UnderWay

LEMMA FirstOnSchedule ==
  ASSUME NEW r, RuleTyped(r), NEW k \in Nat, k = 0 <=> r.last = Never, k > 0 => OnSchedule(r, k, r.last)
  PROVE  OnSchedule(r, k + 1, First(r))
<1>1. IsSchedule(r) /\ Known(r)
  BY KnownFits DEF RuleTyped
<1>2. CASE k = 0
  <2>1. First(r) = r.start /\ k + 1 = 1
    BY <1>2 DEF First
  <2> QED
    BY <1>1, <2>1, StartOnSchedule
<1>3. CASE k # 0
  <2>1. r.last \in Dates /\ First(r) = NextOccurrence(r, r.last) /\ k \in Nat \ {0} /\ OnSchedule(r, k, r.last)
    BY <1>3 DEF First, RuleTyped
  <2>2. 1 \in 0..MaxInstallments
    BY ScheduleAssumption
  <2>3. Fits(r, r.last, 1)
    BY <1>1, <2>1, <2>2, KnownFits
  <2> QED
    BY <1>1, <2>1, <2>3, StepOnSchedule
<1> QED
  BY <1>2, <1>3

(* Which instalments a run of the job generates: the next ones, none past  *)
(* the last of the plan.                                                   *)
LEMMA JobNumbers ==
  ASSUME NEW r, RuleTyped(r), NEW n \in 1..MaxInstallments, r.end = EndDate(r, n), NEW k \in 0..n,
         k = 0 <=> r.last = Never, k > 0 => OnSchedule(r, k, r.last),
         NEW threshold \in Int, threshold <= LastDate
  PROVE  \E j \in 0..(n - k) : \E g \in [1..j -> Dates] :
           /\ Due(r, threshold) = {g[i] : i \in 1..j}
           /\ \A i \in 1..j : OnSchedule(r, k + i, g[i])
           /\ j > 0 => Max(Due(r, threshold)) = g[j]
           /\ j > 0 /\ k = 0 => g[1] = r.start
<1>1. /\ Known(r) /\ IsSchedule(r) /\ First(r) \in Int /\ FirstDay[0] <= First(r) /\ r.end \in Int
      /\ k \in Nat /\ n \in Nat \ {0} /\ Fits(r, r.start, n - 1) /\ r.start \in Dates /\ FirstDay[0] \in Nat
  <2>1. n - 1 \in 0..MaxInstallments /\ k \in Nat /\ n \in Nat \ {0} /\ Known(r) /\ r.start \in Dates
    BY ScheduleAssumption DEF RuleTyped, Known
  <2> QED
    BY <2>1, KnownFits, FirstIs, DatesAre DEF RuleTyped
<1>2. OnSchedule(r, k + 1, First(r))
  BY <1>1, FirstOnSchedule
<1>3. PICK j \in 0..MaxGen :
        /\ Due(r, threshold) = {Walk(r)[i] : i \in 0..(j - 1)}
        /\ \A i \in 0..(j - 1) : /\ Walk(r)[i] \in Dates
                                 /\ Walk(r)[i] <= threshold /\ ~Over(r, Walk(r)[i])
  BY <1>1, DueIs
<1> DEFINE g == [i \in 1..j |-> Walk(r)[i - 1]]
<1>4. j \in Nat /\ j <= MaxSteps /\ MaxSteps \in Nat
  BY <1>3, ProjectionAssumption
<1>5. ASSUME NEW i \in 1..j
      PROVE  g[i] \in Dates /\ OnSchedule(r, k + i, g[i]) /\ ~Over(r, g[i])
  <2>1. i - 1 \in 0..(j - 1) /\ i - 1 \in 0..MaxSteps /\ g[i] = Walk(r)[i - 1] /\ k + i = (k + 1) + (i - 1)
        /\ k + 1 \in Nat \ {0}
    BY <1>1, <1>4
  <2>2. i - 1 = 0 \/ Walk(r)[(i - 1) - 1] <= LastDate
    <3>1. CASE i # 1
      <4>1. (i - 1) - 1 \in 0..(j - 1)
        BY <1>4, <3>1
      <4>2. Walk(r)[(i - 1) - 1] \in Dates
        BY <1>3, <4>1
      <4> QED
        BY <4>2, DatesAre
    <3> QED
      BY <3>1
  <2>3. OnSchedule(r, (k + 1) + (i - 1), Walk(r)[i - 1])
    BY <1>1, <1>2, <2>1, <2>2, WalkOnSchedule
  <2> HIDE DEF g
  <2> QED
    BY <1>3, <2>1, <2>3
<1>6. Due(r, threshold) = {g[i] : i \in 1..j}
  <2>1. \A i \in 1..j : i - 1 \in 0..(j - 1) /\ g[i] = Walk(r)[i - 1]
    BY <1>4
  <2>2. \A i \in 0..(j - 1) : i + 1 \in 1..j /\ g[i + 1] = Walk(r)[i]
    <3> TAKE i \in 0..(j - 1)
    <3>1. i + 1 \in 1..j /\ i + 1 - 1 = i
      BY <1>4
    <3> QED
      BY <3>1
  <2> HIDE DEF g
  <2> QED
    BY <1>3, <2>1, <2>2
<1>7. g \in [1..j -> Dates]
  BY <1>5
<1> HIDE DEF g
<1>8. k + j <= n
  <2> SUFFICES ASSUME k + j > n PROVE FALSE
    BY <1>1, <1>4
  <2>1. j \in 1..j /\ k + j \in Nat \ {0} /\ n < k + j
    BY <1>1, <1>4
  <2>2. OnSchedule(r, k + j, g[j]) /\ ~Over(r, g[j]) /\ g[j] \in Dates
    BY <1>5, <2>1
  <2>3. OnSchedule(r, n, r.end) /\ r.end \in Int /\ r.start <= r.end
    BY <1>1, EndOnSchedule
  <2>4. r.end < g[j]
    BY <1>1, <2>1, <2>2, <2>3, ScheduleInOrder
  <2>5. r.end # Never /\ g[j] \in Int
    <3>1. r.start \in Int /\ g[j] \in Int
      BY <1>1, <2>2, DatesAre
    <3>2. FirstDay[0] <= r.start
      BY <1>1, <3>1, DatesAre
    <3> QED
      BY <1>1, <2>3, <3>1, <3>2 DEF Never
  <2> QED
    BY <2>2, <2>4, <2>5 DEF Over
<1>9. ASSUME j > 0 PROVE Max(Due(r, threshold)) = g[j]
  <2>1. j \in 1..j
    BY <1>4, <1>9
  <2>2. ASSUME NEW i \in 1..j PROVE g[j] >= g[i] /\ (g[i] >= g[j] => g[i] = g[j])
    <3>1. g[i] \in Int /\ g[j] \in Int
      BY <1>5, <2>1, DatesAre
    <3>2. CASE i # j
      <4>1. k + i \in Nat \ {0} /\ k + j \in Nat \ {0} /\ k + i < k + j
        BY <1>1, <1>4, <3>2
      <4>2. OnSchedule(r, k + i, g[i]) /\ OnSchedule(r, k + j, g[j])
        BY <1>5, <2>1
      <4>3. g[i] < g[j]
        BY <1>1, <4>1, <4>2, ScheduleInOrder
      <4> QED
        BY <3>1, <4>3
    <3> QED
      BY <3>1, <3>2
  <2>3. Max(Due(r, threshold)) = CHOOSE x \in {g[i] : i \in 1..j} : \A y \in {g[i] : i \in 1..j} : x >= y
    BY <1>6 DEF Max
  <2>4. g[j] \in {g[i] : i \in 1..j} /\ \A y \in {g[i] : i \in 1..j} : g[j] >= y
    BY <2>1, <2>2
  <2>5. \A x \in {g[i] : i \in 1..j} : (\A y \in {g[i] : i \in 1..j} : x >= y) => x = g[j]
    BY <2>1, <2>2
  <2> QED
    BY <2>3, <2>4, <2>5
<1>10. ASSUME j > 0, k = 0 PROVE g[1] = r.start
  <2>1. 1 \in 1..j /\ r.start \in Dates /\ g[1] \in Dates
    BY <1>1, <1>4, <1>5, <1>10
  <2>2. g[1] = Walk(r)[0]
    BY <1>4, <2>1 DEF g
  <2>3. Walk(r)[0] = First(r) /\ First(r) = r.start
    BY <1>10, WalkIs DEF First
  <2> QED
    BY <2>2, <2>3
<1>11. j \in 0..(n - k)
  BY <1>1, <1>4, <1>8
<1> QED
  BY <1>5, <1>6, <1>7, <1>9, <1>10, <1>11

LEMMA CountsAre == \A n \in Counts : n \in 1..MaxInstallments /\ n \in Nat \ {0}
<1>1. Counts \subseteq 1..MaxInstallments
  BY ProjectionAssumption
<1>2. MaxInstallments \in Nat
  BY ScheduleAssumption
<1> QED
  BY <1>1, <1>2

LEMMA NoneGenerated ==
  ASSUME NEW r, RuleTyped(r), NEW p, PlanOf(r, p), r.last = Never, ~p.exact,
         NEW b, NEW w, \A d \in Dates : b[d] = 0 /\ w[d] = NoRow
  PROVE  UnderWay(r, p, b, w)
<1>1. Delivered(b) = {}
  BY DEF Delivered
<1>2. 0 \in 0..r.count /\ r.count \in Nat
  BY CountsAre DEF PlanOf
<1> DEFINE f == [i \in 1..0 |-> r.start]
<1>3. Numbered(r, {}, 0, f)
  <2>1. \A i \in 1..0 : FALSE
    OBVIOUS
  <2>2. f \in [1..0 -> Dates] /\ {} = {f[i] : i \in 1..0}
    BY <2>1
  <2> QED
    BY <2>1, <2>2 DEF Numbered
<1> HIDE DEF f
<1> QED
  BY <1>1, <1>2, <1>3 DEF UnderWay, PaidAsSplit

LEMMA FirstGenerated ==
  ASSUME NEW r, RuleTyped(r), NEW p, PlanOf(r, p), p.exact, NEW d \in Dates, r.start = d, r.last = d,
         NEW b, NEW w, b[d] = FirstAmount(p.total, r.count), b[d] # 0,
         \A e \in Dates \ {d} : b[e] = 0 /\ w[e] = NoRow
  PROVE  UnderWay(r, p, b, w)
<1>1. Delivered(b) = {d}
  BY DEF Delivered
<1>2. 1 \in 0..r.count
  BY CountsAre DEF PlanOf
<1> DEFINE f == [i \in 1..1 |-> d]
<1>3. Numbered(r, {d}, 1, f)
  <2>1. \A i \in 1..1 : i = 1
    OBVIOUS
  <2>2. OnSchedule(r, 1, d) /\ d # Never
    BY StartOnSchedule, KnownFits, DatesAre DEF RuleTyped
  <2>3. f \in [1..1 -> Dates] /\ f[1] = d /\ {d} = {f[i] : i \in 1..1}
    BY <2>1
  <2> QED
    BY <2>1, <2>2, <2>3 DEF Numbered
<1> HIDE DEF f
<1>4. \E k \in 0..r.count : \E g : Numbered(r, Delivered(b), k, g)
  BY <1>1, <1>2, <1>3
<1>5. PaidAsSplit(r, p, b)
  BY <1>1 DEF PaidAsSplit
<1>6. r.last # Never
  BY DatesAre
<1> QED
  BY <1>4, <1>5, <1>6 DEF UnderWay

(* A run of the job goes on with the numbering where the last one stopped. *)
LEMMA RunGoesOn ==
  ASSUME NEW r, RuleTyped(r), NEW p, NEW b \in [Dates -> Nat], NEW w, UnderWay(r, p, b, w), r.amount # 0,
         NEW threshold \in Int, threshold <= LastDate, NEW D, D = Due(r, threshold),
         NEW q, q.status # "none", q.frequency = r.frequency, q.interval = r.interval, q.start = r.start,
         q.end = r.end, q.count = r.count, q.amount = r.amount,
         q.last = IF D = {} THEN r.last ELSE Max(D),
         NEW c, c = [d \in Dates |-> IF d \in D /\ w[d] = NoRow THEN r.amount ELSE b[d]],
         NEW v, \A d \in Dates : v[d] # NoRow => (d \in D /\ w[d] = NoRow) \/ w[d] # NoRow
  PROVE  UnderWay(q, p, c, v)
<1> DEFINE n == r.count
           G == Delivered(b)
<1>1a. PICK k \in 0..n : \E f : Numbered(r, G, k, f)
  BY DEF UnderWay
<1>1. PICK f : Numbered(r, G, k, f)
  BY <1>1a
<1>2. n \in 1..MaxInstallments /\ r.end = EndDate(r, n) /\ k \in Nat /\ n \in Nat
  BY CountsAre DEF UnderWay, PlanOf
<1>3. (k = 0 <=> r.last = Never) /\ (k > 0 => OnSchedule(r, k, r.last) /\ f[1] = r.start /\ f[k] = r.last)
  <2>1. k > 0 => k \in 1..k
    BY <1>2
  <2> QED
    BY <1>1, <2>1 DEF Numbered
<1>4. PICK j \in 0..(n - k) : \E g \in [1..j -> Dates] :
        /\ D = {g[i] : i \in 1..j}
        /\ \A i \in 1..j : OnSchedule(r, k + i, g[i])
        /\ j > 0 => Max(D) = g[j]
        /\ j > 0 /\ k = 0 => g[1] = r.start
  BY <1>2, <1>3, JobNumbers
<1>4a. PICK g \in [1..j -> Dates] :
        /\ D = {g[i] : i \in 1..j}
        /\ \A i \in 1..j : OnSchedule(r, k + i, g[i])
        /\ j > 0 => Max(D) = g[j]
        /\ j > 0 /\ k = 0 => g[1] = r.start
  BY <1>4
<1>5. j \in Nat /\ IsSchedule(r) /\ D \subseteq Dates
  BY <1>2, <1>4a, KnownFits DEF RuleTyped
<1>6. ASSUME NEW i \in 1..j PROVE g[i] \notin G /\ w[g[i]] = NoRow
  <2>1. ASSUME g[i] \in G PROVE FALSE
    <3>1. PICK m \in 1..k : g[i] = f[m]
      BY <1>1, <2>1 DEF Numbered
    <3>2. m \in Nat \ {0} /\ k + i \in Nat \ {0} /\ m # k + i
      BY <1>2, <1>5
    <3>3. OnSchedule(r, m, f[m])
      BY <1>1 DEF Numbered
    <3>4. OnSchedule(r, k + i, g[i])
      BY <1>4a
    <3>5. Position(r, f[m]) = m /\ Position(r, g[i]) = k + i
      BY <1>5, <3>2, <3>3, <3>4, PositionOnSchedule
    <3> QED
      BY <3>1, <3>2, <3>5
  <2>2. g[i] \in Dates
    BY <1>4a
  <2> QED
    BY <2>1, <2>2 DEF UnderWay, Delivered
<1>7. \A d \in Dates : c[d] = IF d \in D THEN r.amount ELSE b[d]
  BY <1>4a, <1>6
<1>8. Delivered(c) = G \cup D
  BY <1>5, <1>7 DEF Delivered
<1> DEFINE h == [i \in 1..(k + j) |-> IF i <= k THEN f[i] ELSE g[i - k]]
<1>9. ASSUME NEW i \in 1..(k + j)
      PROVE  \/ i \in 1..k /\ h[i] = f[i]
             \/ i - k \in 1..j /\ h[i] = g[i - k] /\ k + (i - k) = i
  BY <1>2, <1>5
<1>10. \A i \in 1..k : i \in 1..(k + j) /\ h[i] = f[i]
  BY <1>2, <1>5
<1>11. \A i \in 1..j : k + i \in 1..(k + j) /\ h[k + i] = g[i]
  <2> TAKE i \in 1..j
  <2>1. k + i \in 1..(k + j) /\ ~(k + i <= k) /\ (k + i) - k = i
    BY <1>2, <1>5
  <2> QED
    BY <2>1
<1>12. h = [i \in 1..(k + j) |-> h[i]]
  OBVIOUS
<1> HIDE DEF h
<1>13. h \in [1..(k + j) -> Dates]
  <2>1. \A i \in 1..(k + j) : h[i] \in Dates
    BY <1>1, <1>4a, <1>9 DEF Numbered
  <2> QED
    BY <1>12, <2>1
<1>14. Delivered(c) = {h[i] : i \in 1..(k + j)}
  <2>1. \A i \in 1..(k + j) : h[i] \in G \cup D
    BY <1>1, <1>4a, <1>9 DEF Numbered
  <2>2. \A d \in G \cup D : \E i \in 1..(k + j) : d = h[i]
    <3> TAKE d \in G \cup D
    <3>1. CASE d \in G
      <4>1. PICK i \in 1..k : d = f[i]
        BY <1>1, <3>1 DEF Numbered
      <4>2. i \in 1..(k + j) /\ h[i] = f[i]
        BY <1>10
      <4> QED
        BY <4>1, <4>2
    <3>2. CASE d \in D
      <4>1. PICK i \in 1..j : d = g[i]
        BY <1>4a, <3>2
      <4>2. k + i \in 1..(k + j) /\ h[k + i] = g[i]
        BY <1>11
      <4> QED
        BY <4>1, <4>2
    <3> QED
      BY <3>1, <3>2
  <2> QED
    BY <1>8, <2>1, <2>2
<1>15. \A i \in 1..(k + j) : OnSchedule(q, i, h[i])
  <2> TAKE i \in 1..(k + j)
  <2>1. OnSchedule(r, i, h[i])
    BY <1>1, <1>4a, <1>9 DEF Numbered
  <2> QED
    BY <2>1, SameSchedule
<1>16. D = {} <=> j = 0
  <2>1. CASE j = 0
    <3>1. \A i \in 1..j : FALSE
      BY <2>1
    <3> QED
      BY <1>4a, <2>1, <3>1
  <2>2. CASE j # 0
    <3>1. 1 \in 1..j
      BY <1>5, <2>2
    <3>2. g[1] \in D
      BY <1>4a, <3>1
    <3> QED
      BY <2>2, <3>2
  <2> QED
    BY <2>1, <2>2
<1>17. k + j = 0 <=> q.last = Never
  <2>1. CASE j = 0
    BY <1>2, <1>3, <1>16, <2>1
  <2>2. CASE j > 0
    <3>1. q.last = g[j] /\ g[j] \in Dates
      <4>1. j \in 1..j
        BY <1>5, <2>2
      <4>2. q.last = g[j]
        <5>1. D # {} /\ Max(D) = g[j]
          BY <1>4a, <1>16, <2>2
        <5> QED
          BY <5>1
      <4> QED
        BY <1>4a, <4>1, <4>2
    <3> QED
      BY <1>2, <2>2, <3>1, DatesAre
  <2> QED
    BY <1>5, <2>1, <2>2
<1>18. k + j > 0 => h[1] = q.start /\ h[k + j] = q.last
  <2>1. CASE j = 0
    <3>1. k > 0 => k \in 1..k /\ 1 \in 1..k
      BY <1>2
    <3>2. k + j = k
      BY <1>2, <2>1
    <3> QED
      BY <1>3, <1>10, <1>16, <2>1, <3>1, <3>2
  <2>2. CASE j > 0
    <3>1. j \in 1..j /\ 1 \in 1..j
      BY <1>5, <2>2
    <3>2. h[k + j] = g[j] /\ q.last = g[j]
      BY <1>4a, <1>11, <1>16, <2>2, <3>1
    <3>3. h[1] = q.start
      <4>1. CASE k = 0
        <5>1. h[k + 1] = g[1] /\ k + 1 = 1
          BY <1>11, <3>1, <4>1
        <5> QED
          BY <1>4a, <2>2, <4>1, <5>1
      <4>2. CASE k > 0
        <5>1. 1 \in 1..k
          BY <1>2, <4>2
        <5> QED
          BY <1>3, <1>10, <4>2, <5>1
      <4> QED
        BY <1>2, <4>1, <4>2
    <3> QED
      BY <3>2, <3>3
  <2> QED
    BY <1>5, <2>1, <2>2
<1>19. Numbered(q, Delivered(c), k + j, h)
  BY <1>13, <1>14, <1>15, <1>17, <1>18 DEF Numbered
<1>20. k + j \in 0..q.count
  BY <1>2, <1>4, <1>4a, <1>5
<1>21. PlanOf(q, p)
  BY SameSchedule DEF UnderWay, PlanOf
<1>22. PaidAsSplit(q, p, c)
  <2> SUFFICES ASSUME NEW d \in Delivered(c)
               PROVE  c[d] = IF p.exact /\ d = q.start THEN FirstAmount(p.total, q.count) ELSE q.amount
    BY DEF PaidAsSplit
  <2>1. CASE d \in D
    <3>1. c[d] = r.amount /\ d \notin G
      <4>1. PICK i \in 1..j : d = g[i]
        BY <1>4a, <2>1
      <4> QED
        BY <1>5, <1>6, <1>7, <2>1, <4>1
    <3>2. ASSUME p.exact, d = q.start PROVE FALSE
      <4>1. r.last # Never
        BY <3>2 DEF UnderWay
      <4>2. 1 \in 1..k /\ f[1] = r.start
        BY <1>2, <1>3, <4>1
      <4> QED
        BY <1>1, <3>1, <3>2, <4>2 DEF Numbered
    <3> QED
      BY <3>1, <3>2
  <2>2. CASE d \notin D
    <3>1. d \in G /\ c[d] = b[d]
      BY <1>7, <1>8, <2>2 DEF Delivered
    <3> QED
      BY <3>1 DEF UnderWay, PaidAsSplit
  <2> QED
    BY <2>1, <2>2
<1>23. p.exact => q.last # Never
  <2>1. p.exact => k # 0
    BY <1>3 DEF UnderWay
  <2> QED
    BY <1>2, <1>5, <1>17, <2>1
<1>24. \A d \in Dates : v[d] # NoRow => c[d] # 0
  BY <1>7 DEF UnderWay
<1> QED
  BY <1>19, <1>20, <1>21, <1>22, <1>23, <1>24 DEF UnderWay

LEMMA PlanInvInit == Init => PlanInv
BY DEF Init, PlanInv, NoRule

(* The rule after an action that leaves its schedule, count and amount.    *)
SameTerms(q, r) ==
  /\ q.frequency = r.frequency /\ q.interval = r.interval /\ q.start = r.start /\ q.end = r.end
  /\ q.count = r.count /\ q.amount = r.amount

LEMMA JobRuleIs ==
  ASSUME RuleTyped(rule), Job
  PROVE  /\ SameTerms(rule', rule) /\ rule'.status # "none"
         /\ rule'.last = IF Due(rule, today + LookAhead) = {} THEN rule.last
                         ELSE Max(Due(rule, today + LookAhead))
         /\ rule'.status = IF Ended(rule, today + LookAhead) THEN "paused" ELSE rule.status
<1> DEFINE l == IF Due(rule, today + LookAhead) = {} THEN rule.last ELSE Max(Due(rule, today + LookAhead))
           st == IF Ended(rule, today + LookAhead) THEN "paused" ELSE rule.status
<1>1. rule.status = "active"
  BY DEF Job
<1>2. rule' = [rule EXCEPT !.last = l, !.status = st]
  BY DEF Job
<1>3. st # "none"
  BY <1>1
<1>4. IsRule(rule)
  BY DEF RuleTyped
<1> HIDE DEF st, l
<1> DEFINE q == [rule EXCEPT !.last = l]
<1>5. rule' = [q EXCEPT !.status = st]
  BY <1>2
<1>6. q = NewRule(rule, rule.status, rule.amount, rule.start, rule.end, rule.count, l)
  BY <1>4, RuleWith
<1> HIDE DEF q
<1>7. /\ IsRule(q) /\ q.frequency = rule.frequency /\ q.interval = rule.interval /\ q.amount = rule.amount
      /\ q.start = rule.start /\ q.end = rule.end /\ q.count = rule.count /\ q.last = l
  BY <1>6, NewRuleIs
<1>8. rule' = NewRule(q, st, q.amount, q.start, q.end, q.count, q.last)
  BY <1>5, <1>7, RuleWith
<1>9. SameTerms(rule', rule) /\ rule'.status = st /\ rule'.last = l
  BY <1>7, <1>8, NewRuleIs DEF SameTerms
<1>10. rule'.last = l /\ SameTerms(rule', rule) /\ rule'.status # "none" /\ rule'.status = st
  BY <1>3, <1>9
<1> QED
  BY <1>10 DEF l, st

LEMMA PlanInvNext ==
  ASSUME ProjectionInv, PlanInv, [Next]_vars
  PROVE  PlanInv'
<1>0. RuleTyped(rule) /\ RuleTyped(rule') /\ born \in [Dates -> Nat] /\ rows \in [Dates -> Rows]
  BY RuleTypedNext DEF ProjectionInv, RowsTyped
<1>1. CASE CreateRule
  <2>1. plan' = NoPlan /\ rule'.status # "none"
    <3>1. PICK sch \in Schedules, st \in {"active", "paused"}, a \in Amounts, d \in Dates, e \in Dates \cup {Never} :
            rule' = NewRule(sch, st, a, d, e, Never, Never)
      BY <1>1 DEF CreateRule
    <3>2. rule'.status = st
      BY <3>1, NewRuleIs
    <3> QED
      BY <1>1, <3>2 DEF CreateRule, PlanInv
  <2> QED
    BY <2>1 DEF PlanInv
<1>2. CASE CreateByTotal
  <2>1. PICK sch \in Schedules, st \in {"active", "paused"}, t \in Totals, n \in Counts, d \in Dates :
          /\ t \div n > 0 /\ rule' = PlanRule(sch, st, t \div n, d, n, Never)
          /\ plan' = [total |-> t, exact |-> FALSE]
    BY <1>2 DEF CreateByTotal, PlanRule
  <2>2. /\ IsKnown(sch) /\ t \div n \in Nat \ {0} /\ n \in 1..MaxInstallments /\ Never \in Dates \cup {Never}
        /\ (Never # Never => d <= Never)
    BY <2>1, SchedulesKnown, SplitIsPositive
  <2>3. /\ rule'.status = st /\ rule'.amount = t \div n /\ rule'.count = n /\ rule'.last = Never
        /\ rule'.end = EndDate(rule', n)
    BY <2>1, <2>2, PlanRuleIs
  <2>4. PlanOf(rule', plan') /\ ~plan'.exact
    BY <2>1, <2>3 DEF PlanOf
  <2>5. rows' = rows /\ born' = born /\ \A d1 \in Dates : born[d1] = 0 /\ rows[d1] = NoRow
    BY <1>2 DEF CreateByTotal, Keep, PlanInv
  <2>6. UnderWay(rule', plan', born', rows')
    BY <1>0, <2>3, <2>4, <2>5, NoneGenerated
  <2> QED
    BY <2>3, <2>6 DEF PlanInv
<1>3. CASE Purchase
  <2>1. PICK t \in Totals, n \in Counts, d \in Dates :
          /\ t \div n > 0 /\ rule' = PlanRule(Monthly, "active", t \div n, d, n, d)
          /\ rows' = [rows EXCEPT ![d] = [status |-> IF d > today THEN "PENDING" ELSE "COMPLETED",
                                          amount |-> FirstAmount(t, n)]]
          /\ born' = [born EXCEPT ![d] = FirstAmount(t, n)]
          /\ plan' = [total |-> t, exact |-> TRUE]
    BY <1>3 DEF Purchase, PlanRule
  <2>2. /\ IsKnown(Monthly) /\ t \div n \in Nat \ {0} /\ n \in 1..MaxInstallments
        /\ d \in Dates \cup {Never} /\ "active" \in {"active", "paused"} /\ FirstAmount(t, n) # 0 /\ d <= d
    BY <2>1, SchedulesKnown, SplitIsPositive, DatesAre
  <2>3. /\ rule'.status = "active" /\ rule'.amount = t \div n /\ rule'.count = n /\ rule'.last = d
        /\ rule'.start = d /\ rule'.end = EndDate(rule', n)
    BY <2>1, <2>2, PlanRuleIs
  <2>4. PlanOf(rule', plan') /\ plan'.exact /\ plan'.total = t
    BY <2>1, <2>3 DEF PlanOf
  <2>5. \A e \in Dates : born[e] = 0 /\ rows[e] = NoRow
    BY <1>3 DEF Purchase, PlanInv
  <2>6. /\ born'[d] = FirstAmount(t, n)
        /\ \A e \in Dates \ {d} : born'[e] = 0 /\ rows'[e] = NoRow
    BY <1>0, <2>1, <2>5
  <2>7. UnderWay(rule', plan', born', rows')
    BY <1>0, <2>2, <2>3, <2>4, <2>6, FirstGenerated
  <2> QED
    BY <2>3, <2>7 DEF PlanInv
<1>4. CASE Toggle
  <2> DEFINE st == IF rule.status = "active" THEN "paused" ELSE "active"
  <2>1. rule' = [rule EXCEPT !.status = st] /\ rule.status # "none" /\ plan' = plan /\ rows' = rows /\ born' = born
    BY <1>4 DEF Toggle, Keep
  <2>2. IsRule(rule) /\ st # "none"
    BY <1>0 DEF RuleTyped
  <2> HIDE DEF st
  <2>3. rule' = NewRule(rule, st, rule.amount, rule.start, rule.end, rule.count, rule.last)
    BY <2>1, <2>2, RuleWith
  <2>4. SameTerms(rule', rule) /\ rule'.last = rule.last /\ rule'.status # "none"
    BY <2>2, <2>3, NewRuleIs DEF SameTerms
  <2>5. plan # NoPlan => UnderWay(rule', plan, born, rows)
    BY <2>4, UnderWaySame DEF PlanInv, SameTerms
  <2> QED
    BY <2>1, <2>4, <2>5 DEF PlanInv
<1>5. CASE Update
  <2>1. plan' = NoPlan /\ rule.status # "none"
    BY <1>5 DEF Update, Edit
  <2>2. rule'.status = rule.status
    <3>1. PICK sch, a, d, e, l :
            LET s == NewRule(sch, rule.status, a, d, e, rule.count, l)
            IN  rule' = IF SameDates(s) THEN s ELSE [s EXCEPT !.count = Recounted(s)]
      BY <1>5 DEF Update
    <3> DEFINE s == NewRule(sch, rule.status, a, d, e, rule.count, l)
    <3>2. \A n : [s EXCEPT !.count = n].status = rule.status
      BY DEF NewRule
    <3>3. s.status = rule.status
      BY NewRuleIs
    <3> HIDE DEF s
    <3> QED
      BY <3>1, <3>2, <3>3 DEF s
  <2> QED
    BY <2>1, <2>2 DEF PlanInv
<1>6. CASE DeleteRule
  BY <1>6 DEF DeleteRule, PlanInv, NoRule
<1>7. CASE \E d \in Dates : SetStatus(d) \/ DeleteRow(d)
  <2>1. PICK d \in Dates : SetStatus(d) \/ DeleteRow(d)
    BY <1>7
  <2>2. /\ rows[d] # NoRow /\ plan' = plan /\ rule' = rule /\ born' = born
        /\ \A e \in Dates \ {d} : rows'[e] = rows[e]
    BY <1>0, <2>1 DEF SetStatus, DeleteRow, KeepRule
  <2>3. rule.status # "none"
    BY <2>2 DEF PlanInv
  <2>4. \A e \in Dates : rows'[e] # NoRow => rows[e] # NoRow
    BY <2>2
  <2>5. plan # NoPlan => UnderWay(rule, plan, born, rows')
    BY <2>3, <2>4, UnderWaySame DEF PlanInv
  <2> QED
    BY <2>2, <2>3, <2>5 DEF PlanInv
<1>8. CASE \E d, e \in Dates : MoveRow(d, e)
  BY <1>8 DEF MoveRow, Edit, KeepRule, PlanInv
<1>9. CASE WriteCount
  <2> DEFINE n == IF InferCount(copy, copy.end) # Never /\ rule.count = Never
                    THEN InferCount(copy, copy.end) ELSE rule.count
  <2>1. rule' = [rule EXCEPT !.count = n] /\ plan' = plan /\ rows' = rows /\ born' = born
    BY <1>9 DEF WriteCount
  <2>2. rule.count # Never => n = rule.count
    OBVIOUS
  <2>3. IsRule(rule)
    BY <1>0 DEF RuleTyped
  <2> HIDE DEF n
  <2>4. rule' = NewRule(rule, rule.status, rule.amount, rule.start, rule.end, n, rule.last)
    BY <2>1, <2>3, RuleWith
  <2>5. rule'.status = rule.status
    BY <2>4, NewRuleIs
  <2>6. ASSUME plan # NoPlan PROVE UnderWay(rule', plan, born, rows)
    <3>1. UnderWay(rule, plan, born, rows) /\ rule.status # "none"
      BY <2>6 DEF PlanInv, UnderWay, PlanOf
    <3>2. rule.count # Never
      BY <3>1, CountsAre DEF UnderWay, PlanOf, Never
    <3>3. SameTerms(rule', rule) /\ rule'.last = rule.last /\ rule'.status # "none"
      BY <2>2, <2>4, <3>1, <3>2, NewRuleIs DEF SameTerms
    <3> QED
      BY <3>1, <3>3, UnderWaySame DEF SameTerms
  <2> QED
    BY <2>1, <2>5, <2>6 DEF PlanInv
<1>10. CASE Job
  <2> DEFINE threshold == today + LookAhead
             D == Due(rule, threshold)
  <2>1. /\ plan' = plan
        /\ rows' = [d \in Dates |-> IF d \in D /\ rows[d] = NoRow
                                    THEN [status |-> "PENDING", amount |-> rule.amount] ELSE rows[d]]
        /\ born' = [d \in Dates |-> IF d \in D /\ rows[d] = NoRow THEN rule.amount ELSE born[d]]
    BY <1>10 DEF Job
  <2>2. /\ SameTerms(rule', rule) /\ rule'.status # "none"
        /\ rule'.last = IF D = {} THEN rule.last ELSE Max(D)
    BY <1>0, <1>10, JobRuleIs
  <2>3. rule.status = "active" /\ rule.amount # 0
    BY <1>0, <1>10 DEF Job, RuleTyped
  <2>4. threshold \in Int /\ threshold <= LastDate
    BY ThresholdFits DEF ProjectionInv
  <2>5. \A d \in Dates : rows'[d] # NoRow => (d \in D /\ rows[d] = NoRow) \/ rows[d] # NoRow
    BY <2>1
  <2>6. plan # NoPlan => UnderWay(rule, plan, born, rows)
    BY DEF PlanInv
  <2>7. ASSUME plan # NoPlan PROVE UnderWay(rule', plan, born', rows')
    BY <1>0, <2>1, <2>2, <2>3, <2>4, <2>5, <2>6, <2>7, RunGoesOn DEF SameTerms
  <2> QED
    BY <2>1, <2>2, <2>7 DEF PlanInv
<1>11. CASE UNCHANGED <<rule, rows, born, plan>>
  BY <1>11 DEF PlanInv
<1> QED
  BY <1>1, <1>2, <1>3, <1>4, <1>5, <1>6, <1>7, <1>8, <1>9, <1>10, <1>11
     DEF Next, vars, ReadCandidate, NextDay

LEMMA GeneratedIs ==
  ASSUME NEW r, RuleTyped(r), NEW G, NEW k \in Nat, NEW f, Numbered(r, G, k, f)
  PROVE  IsFiniteSet(G) /\ Cardinality(G) = k /\ {Position(r, d) : d \in G} = 1..k
<1>1. f \in [1..k -> Dates] /\ G = {f[i] : i \in 1..k} /\ \A i \in 1..k : OnSchedule(r, i, f[i])
  BY DEF Numbered
<1>2. \A i \in 1..k : Position(r, f[i]) = i
  <2> TAKE i \in 1..k
  <2>1. i \in Nat \ {0} /\ IsSchedule(r) /\ OnSchedule(r, i, f[i])
    BY <1>1, KnownFits DEF RuleTyped
  <2> QED
    BY <2>1, PositionOnSchedule
<1>3. {Position(r, d) : d \in G} = 1..k
  BY <1>1, <1>2
<1>4. f \in Bijection(1..k, G)
  <2>1. f \in [1..k -> G] /\ \A d \in G : \E i \in 1..k : f[i] = d
    BY <1>1
  <2>2. \A i, j \in 1..k : f[i] = f[j] => i = j
    BY <1>2
  <2>3. IsInjective(f)
    BY <2>1, <2>2 DEF IsInjective
  <2> QED
    BY <2>1, <2>3 DEF Bijection, Injection, Surjection
<1>5. IsFiniteSet(1..k) /\ Cardinality(1..k) = k
  <2>1. 1 \in Int /\ k \in Int
    OBVIOUS
  <2>2. IsFiniteSet(1..k) /\ Cardinality(1..k) = IF 1 > k THEN 0 ELSE k - 1 + 1
    BY <2>1, FS_Interval
  <2> QED
    BY <2>2
<1>6. ExistsBijection(1..k, G)
  BY <1>4 DEF ExistsBijection
<1>7. IsFiniteSet(G) /\ Cardinality(G) = k
  BY <1>5, <1>6, FS_Bijection
<1> QED
  BY <1>3, <1>7

(* Nothing is left to generate exactly when the last instalment is there.  *)
LEMMA OverWhenAllThere ==
  ASSUME NEW r, RuleTyped(r), NEW n \in 1..MaxInstallments, r.end = EndDate(r, n), NEW k \in 0..n,
         k = 0 <=> r.last = Never, k > 0 => OnSchedule(r, k, r.last)
  PROVE  Over(r, First(r)) <=> k = n
<1>1. /\ Known(r) /\ IsSchedule(r) /\ First(r) \in Int /\ r.end \in Int /\ r.start \in Int
      /\ FirstDay[0] <= r.start /\ FirstDay[0] \in Nat
      /\ k \in Nat /\ n \in Nat \ {0} /\ Fits(r, r.start, n - 1)
  <2>1. n - 1 \in 0..MaxInstallments /\ k \in Nat /\ n \in Nat \ {0} /\ Known(r) /\ r.start \in Dates
    BY ScheduleAssumption DEF RuleTyped, Known
  <2>2. r.start \in Int /\ FirstDay[0] \in Nat
    BY <2>1, DatesAre
  <2>3. FirstDay[0] <= r.start
    BY <2>1, <2>2, DatesAre
  <2> QED
    BY <2>1, <2>2, <2>3, KnownFits, FirstIs DEF RuleTyped
<1>2. OnSchedule(r, k + 1, First(r))
  BY <1>1, FirstOnSchedule
<1>3. OnSchedule(r, n, r.end) /\ r.start <= r.end /\ \A d : OnSchedule(r, n, d) => d <= r.end
  BY <1>1, EndOnSchedule
<1>4. r.end # Never
  BY <1>1, <1>3 DEF Never
<1>5. ASSUME k = n PROVE r.end < First(r)
  <2>1. k + 1 \in Nat \ {0} /\ n < k + 1
    BY <1>1, <1>5
  <2> QED
    BY <1>1, <1>2, <1>3, <2>1, ScheduleInOrder
<1>6. ASSUME k # n PROVE First(r) <= r.end
  <2>1. CASE k + 1 = n
    BY <1>2, <1>3, <2>1
  <2>2. CASE k + 1 # n
    <3>1. k + 1 \in Nat \ {0} /\ k + 1 < n
      BY <1>1, <1>6, <2>2
    <3>2. First(r) < r.end
      BY <1>1, <1>2, <1>3, <3>1, ScheduleInOrder
    <3> QED
      BY <1>1, <3>2
  <2> QED
    BY <2>1, <2>2
<1> QED
  BY <1>1, <1>4, <1>5, <1>6 DEF Over

LEMMA PaidAddsUp ==
  ASSUME NEW t \in Totals, NEW n \in Counts, t \div n > 0, NEW G, IsFiniteSet(G), Cardinality(G) = n,
         NEW b, NEW d \in G, NEW exact \in BOOLEAN,
         \A e \in G : b[e] = IF exact /\ e = d THEN FirstAmount(t, n) ELSE t \div n
  PROVE  SumFunctionOnSet(b, G) = IF exact THEN t ELSE t - (t % n)
<1> DEFINE a == t \div n
           rest == t % n
<1>1. a \in Nat \ {0} /\ rest \in Nat /\ t = n * a + rest /\ n \in Nat \ {0} /\ FirstAmount(t, n) = a + rest
  BY SplitIsPositive, CountsAre DEF FirstAmount
<1>2. \A e \in G : b[e] = IF exact /\ e = d THEN a + rest ELSE a
  BY <1>1
<1> HIDE DEF a, rest
<1>3. SumFunctionOnSet(b, G) = b[d] + SumFunctionOnSet(b, G \ {d})
  BY <1>1, <1>2, SumTypeAndRemove
<1>4. IsFiniteSet(G \ {d}) /\ Cardinality(G \ {d}) = n - 1
  BY FS_RemoveElement
<1>5. SumFunctionOnSet(b, G \ {d}) = a * (n - 1)
  <2>1. a \in Int /\ \A e \in G \ {d} : b[e] = a
    BY <1>1, <1>2
  <2>2. SumFunctionOnSet(b, G \ {d}) = a * Cardinality(G \ {d})
    BY <1>4, <2>1, SumConstant
  <2> QED
    BY <1>4, <2>2
<1>6. a + a * (n - 1) = n * a /\ a * (n - 1) \in Int /\ n * a \in Int
  BY <1>1, SMTT(30)
<1>7. SumFunctionOnSet(b, G) = IF exact THEN t ELSE t - rest
  <2> DEFINE x == a * (n - 1)
             y == n * a
  <2>1. a + x = y /\ x \in Int /\ y \in Int /\ t = y + rest /\ SumFunctionOnSet(b, G) = b[d] + x
    BY <1>1, <1>3, <1>5, <1>6
  <2> HIDE DEF x, y
  <2>2. CASE exact
    <3>1. b[d] = a + rest
      BY <1>2, <2>2
    <3> QED
      BY <1>1, <2>1, <2>2, <3>1
  <2>3. CASE ~exact
    <3>1. b[d] = a
      BY <1>2, <2>3
    <3> QED
      BY <1>1, <2>1, <2>3, <3>1
  <2> QED
    BY <2>2, <2>3
<1> QED
  BY <1>7 DEF rest

LEMMA UnderWayDelivers == ProjectionInv /\ PlanInv => PlanDelivers
<1> SUFFICES ASSUME ProjectionInv, PlanInv, plan # NoPlan
             PROVE  LET k == Cardinality(Generated) IN
                    /\ {InstallmentNumber(rule, d) : d \in Generated} = 1..k
                    /\ Over(rule, First(rule)) <=> k = rule.count
                    /\ k = rule.count =>
                         SumFunctionOnSet(born, Generated)
                           = IF plan.exact THEN plan.total ELSE plan.total - (plan.total % rule.count)
  BY DEF PlanDelivers
<1> DEFINE n == rule.count
<1>1. RuleTyped(rule) /\ UnderWay(rule, plan, born, rows) /\ Generated = Delivered(born)
  BY DEF ProjectionInv, PlanInv, Generated, Delivered
<1>2a. PICK k \in 0..n : \E f : Numbered(rule, Generated, k, f)
  BY <1>1 DEF UnderWay
<1>2. PICK f : Numbered(rule, Generated, k, f)
  BY <1>2a
<1>3. /\ n \in Counts /\ n \in 1..MaxInstallments /\ n \in Nat \ {0} /\ k \in Nat /\ rule.end = EndDate(rule, n)
      /\ plan.total \in Totals /\ plan.exact \in BOOLEAN /\ rule.amount = plan.total \div n
      /\ rule.status # "none"
  BY <1>1, CountsAre DEF UnderWay, PlanOf
<1>4. IsFiniteSet(Generated) /\ Cardinality(Generated) = k /\ {Position(rule, d) : d \in Generated} = 1..k
  BY <1>1, <1>2, <1>3, GeneratedIs
<1>5. (k = 0 <=> rule.last = Never) /\ (k > 0 => OnSchedule(rule, k, rule.last) /\ f[1] = rule.start)
  <2>1. k > 0 => k \in 1..k
    BY <1>3
  <2> QED
    BY <1>2, <2>1 DEF Numbered
<1>6. {InstallmentNumber(rule, d) : d \in Generated} = 1..k
  <2>1. \A d \in Generated : Position(rule, d) \in 1..n
    BY <1>2, <1>3, <1>4
  <2>2. \A d \in Generated : InstallmentNumber(rule, d) = Position(rule, d)
    BY <2>1 DEF InstallmentNumber
  <2> QED
    BY <1>4, <2>2
<1>7. Over(rule, First(rule)) <=> k = n
  BY <1>1, <1>3, <1>5, OverWhenAllThere
<1>8. ASSUME k = n
      PROVE  SumFunctionOnSet(born, Generated)
               = IF plan.exact THEN plan.total ELSE plan.total - (plan.total % n)
  <2>1. rule.start \in Generated
    <3>1. 1 \in 1..k
      BY <1>3, <1>8
    <3> QED
      BY <1>2, <1>3, <1>5, <1>8, <3>1 DEF Numbered
  <2>2. \A e \in Generated : born[e] = IF plan.exact /\ e = rule.start THEN FirstAmount(plan.total, n)
                                       ELSE plan.total \div n
    BY <1>1, <1>3 DEF UnderWay, PaidAsSplit
  <2>3. plan.total \div n > 0
    <3>1. rule.amount \in Nat \ {0}
      BY <1>1, <1>3 DEF RuleTyped
    <3> QED
      BY <1>3, <3>1
  <2> QED
    BY <1>3, <1>4, <1>8, <2>1, <2>2, <2>3, PaidAddsUp
<1> QED
  BY <1>4, <1>6, <1>7, <1>8

(* A plan that nobody edits becomes its instalments and no others, for     *)
(* every calendar, schedule, count and total, however many runs of the job *)
(* it takes, whatever months lack the day and wherever a run stops at its  *)
(* cap: those generated are numbered 1 to k, the job runs out of dates     *)
(* exactly when all are there, and they add up to what was split           *)
(* (splitIntoInstallments, calculateInstallmentEndDate, the job's loop and *)
(* installmentNumberSql together).                                         *)
THEOREM PlanAlwaysDelivers == Spec => []PlanDelivers
<1>1. ProjectionInv /\ PlanInv /\ [Next]_vars => (ProjectionInv /\ PlanInv)'
  BY ProjectionInvNext, PlanInvNext
<1> QED
  BY <1>1, ProjectionInvInit, PlanInvInit, UnderWayDelivers, PTL DEF Spec

-----------------------------------------------------------------------------
(* The projection.  It walks on from where the job will.                   *)
LEMMA WalkShift ==
  ASSUME NEW s, NEW t, t.frequency = s.frequency, t.interval = s.interval,
         NEW j \in 0..MaxSteps, First(t) = Walk(s)[j]
  PROVE  \A i \in 0..(MaxSteps - j) : Walk(t)[i] = Walk(s)[j + i]
<1> DEFINE w == Walk(s)
           v == Walk(t)
           Good == {n \in Nat : n <= MaxSteps - j => v[n] = w[j + n]}
<1>1. /\ v[0] = First(t)
      /\ \A i \in 0..(MaxSteps - 1) : w[i + 1] = IF w[i] > LastDate THEN w[i] ELSE NextOccurrence(s, w[i])
      /\ \A i \in 0..(MaxSteps - 1) : v[i + 1] = IF v[i] > LastDate THEN v[i] ELSE NextOccurrence(t, v[i])
  BY WalkIs
<1>2. MaxSteps \in Nat /\ j \in Nat /\ j <= MaxSteps
  BY ProjectionAssumption
<1>3. \A d : NextOccurrence(t, d) = NextOccurrence(s, d)
  BY DEF NextOccurrence, AddOccurrences
<1> HIDE DEF w, v
<1>4. 0 \in Good
  BY <1>1, <1>2 DEF w
<1>5. ASSUME NEW n \in Good PROVE n + 1 \in Good
  <2> SUFFICES ASSUME n + 1 <= MaxSteps - j PROVE v[n + 1] = w[j + (n + 1)]
    <3>1. n + 1 \in Nat
      OBVIOUS
    <3> QED
      BY <3>1
  <2>1. n \in Nat /\ n <= MaxSteps - j /\ n \in 0..(MaxSteps - 1) /\ j + n \in 0..(MaxSteps - 1)
        /\ j + (n + 1) = (j + n) + 1
    BY <1>2
  <2>2. v[n] = w[j + n]
    BY <2>1
  <2>3. v[n + 1] = w[(j + n) + 1]
    BY <1>1, <1>3, <2>1, <2>2
  <2> QED
    BY <2>1, <2>3
<1>6. Good = Nat
  <2>1. Good \in SUBSET Nat
    OBVIOUS
  <2> HIDE DEF Good
  <2> QED
    BY <1>4, <1>5, <2>1, NaturalsFromZero
<1>7. ASSUME NEW i \in 0..(MaxSteps - j) PROVE v[i] = w[j + i]
  <2>1. i \in Nat /\ i <= MaxSteps - j
    BY <1>2
  <2>2. i \in Good
    <3> HIDE DEF Good
    <3> QED
      BY <1>6, <2>1
  <2> QED
    BY <2>1, <2>2
<1> QED
  BY <1>7 DEF w, v

LEMMA WalkPasses ==
  ASSUME NEW s, RuleTyped(s)
  PROVE  Walk(s)[MaxSteps - 1] > LastDate
<1>1. /\ Known(s) /\ First(s) \in Int /\ FirstDay[0] <= First(s) /\ MaxSteps \in Nat /\ MaxSteps >= 1
      /\ FirstDay[0] \in Int /\ LastDate \in Int
  BY FirstIs, ProjectionAssumption, DatesAre DEF RuleTyped
<1>2. MaxSteps - 1 \in 0..MaxSteps /\ 0 \in 0..MaxSteps
  BY <1>1
<1>3. CASE First(s) > LastDate
  <2>1. Walk(s)[MaxSteps - 1] \in Int /\ First(s) <= Walk(s)[MaxSteps - 1]
    BY <1>1, <1>2, WalkRises
  <2> QED
    BY <1>1, <1>3, <2>1
<1>4. CASE ~(First(s) > LastDate)
  <2>1. First(s) \in Dates
    BY <1>1, <1>4, DatesAre
  <2> DEFINE sch == [frequency |-> s.frequency, interval |-> s.interval]
             t == [frequency |-> sch.frequency, interval |-> sch.interval, start |-> First(s), last |-> Never]
  <2>2. sch \in Schedules \cup {Monthly}
    BY <1>1 DEF Known
  <2>3. Walk(t)[MaxSteps - 1] > LastDate
    BY <2>1, <2>2, StepsAssumption
  <2>4. t.frequency = s.frequency /\ t.interval = s.interval /\ First(t) = Walk(s)[0]
    BY WalkIs DEF First
  <2> HIDE DEF t
  <2>5. \A i \in 0..(MaxSteps - 0) : Walk(t)[i] = Walk(s)[0 + i]
    BY <1>2, <2>4, WalkShift
  <2>6. MaxSteps - 1 \in 0..(MaxSteps - 0) /\ 0 + (MaxSteps - 1) = MaxSteps - 1
    BY <1>1
  <2>7. Walk(t)[MaxSteps - 1] = Walk(s)[MaxSteps - 1]
    BY <2>5, <2>6
  <2> QED
    BY <2>3, <2>7
<1> QED
  BY <1>3, <1>4

(* The dates a walk comes to.                                              *)
Ahead(s) == {Walk(s)[k] : k \in 0..(MaxSteps - 1)}

LEMMA AheadIs ==
  ASSUME NEW s, RuleTyped(s)
  PROVE  \A d \in Ahead(s) : d \in Int /\ s.start <= d
<1>1. /\ Known(s) /\ First(s) \in Int /\ FirstDay[0] <= First(s) /\ s.start <= First(s) /\ s.start \in Int
      /\ MaxSteps \in Nat
  BY FirstIs, FirstFromStart, ProjectionAssumption, DatesAre DEF RuleTyped, Known
<1>2. ASSUME NEW k \in 0..(MaxSteps - 1) PROVE Walk(s)[k] \in Int /\ s.start <= Walk(s)[k]
  <2>1. k \in 0..MaxSteps
    BY <1>1
  <2>2. Walk(s)[k] \in Int /\ First(s) <= Walk(s)[k]
    BY <1>1, <2>1, WalkRises
  <2> QED
    BY <1>1, <2>2
<1> QED
  BY <1>2 DEF Ahead

(* What a run of the job takes from the dates ahead: those it is due, and  *)
(* when it comes to the end there is none left.                            *)
LEMMA RunTakesDue ==
  ASSUME NEW r, RuleTyped(r), NEW q, RuleTyped(q), SameTerms(q, r),
         NEW threshold \in Int, threshold <= LastDate, NEW D, D = Due(r, threshold),
         q.last = IF D = {} THEN r.last ELSE Max(D)
  PROVE  /\ \A d \in Dates : ~Over(r, d) => (d \in Ahead(r) <=> d \in D \/ d \in Ahead(q))
         /\ Ended(r, threshold) => \A d \in Dates : d \in Ahead(q) => Over(r, d)
<1> DEFINE w == Walk(r)
           v == Walk(q)
<1>1. /\ Known(r) /\ First(r) \in Int /\ FirstDay[0] <= First(r) /\ r.end \in Int
      /\ MaxSteps \in Nat /\ MaxGen \in Nat /\ MaxGen <= MaxSteps /\ MaxGen >= 1
      /\ LastDate \in Int /\ Dates \subseteq Int /\ \A d \in Dates : d <= LastDate
  BY FirstIs, ProjectionAssumption, DatesAre DEF RuleTyped
<1>2. PICK j \in 0..MaxGen :
        /\ D = {w[i] : i \in 0..(j - 1)}
        /\ \A i \in 0..(j - 1) : w[i] \in Dates /\ w[i] <= threshold /\ ~Over(r, w[i])
  BY <1>1, DueIs
<1>3. /\ \A i \in 0..MaxSteps : w[i] \in Int
      /\ \A i, k \in 0..MaxSteps : i < k => w[i] <= w[k] /\ (w[i] <= LastDate => w[i] < w[k])
  BY <1>1, WalkRises
<1>4. j \in Nat /\ j <= MaxSteps /\ j \in 0..MaxSteps
  BY <1>1
<1>5. First(q) = w[j]
  <2>1. CASE j = 0
    <3>1. \A i \in 0..(j - 1) : FALSE
      BY <2>1
    <3>2. D = {}
      BY <1>2, <3>1
    <3>3. First(q) = First(r)
      BY <3>2 DEF First, SameTerms, NextOccurrence, AddOccurrences
    <3>4. w[0] = First(r)
      BY WalkIs
    <3> QED
      BY <2>1, <3>3, <3>4
  <2>2. CASE j # 0
    <3>1. j - 1 \in 0..(j - 1) /\ j - 1 \in 0..(MaxSteps - 1) /\ (j - 1) + 1 = j /\ j - 1 \in 0..MaxSteps
      BY <1>1, <1>4, <2>2
    <3>2. w[j - 1] \in D /\ w[j - 1] \in Dates
      BY <1>2, <3>1
    <3>3. \A d \in D : w[j - 1] >= d /\ (d >= w[j - 1] => d = w[j - 1])
      <4> SUFFICES ASSUME NEW i \in 0..(j - 1)
                   PROVE  w[j - 1] >= w[i] /\ (w[i] >= w[j - 1] => w[i] = w[j - 1])
        BY <1>2
      <4>1. i \in 0..MaxSteps /\ (i = j - 1 \/ i < j - 1)
        BY <1>1, <1>4
      <4>2. w[i] \in Int /\ w[j - 1] \in Int /\ (i < j - 1 => w[i] <= w[j - 1])
        BY <1>3, <3>1, <4>1
      <4> QED
        BY <4>1, <4>2
    <3>4. Max(D) = w[j - 1]
      <4> HIDE DEF w
      <4> QED
        BY <3>2, <3>3 DEF Max
    <3>5. q.last = w[j - 1]
      BY <3>2, <3>4
    <3>6. First(q) = NextOccurrence(r, w[j - 1])
      <4>1. w[j - 1] # Never
        BY <3>2, DatesAre
      <4> HIDE DEF w
      <4> QED
        BY <3>5, <4>1 DEF First, SameTerms, NextOccurrence, AddOccurrences
    <3>7. ~(w[j - 1] > LastDate)
      <4> HIDE DEF w
      <4>1. w[j - 1] \in Int /\ w[j - 1] <= LastDate
        BY <1>1, <3>2
      <4> QED
        BY <1>1, <4>1
    <3>8. w[(j - 1) + 1] = NextOccurrence(r, w[j - 1])
      BY <3>1, <3>7, WalkIs
    <3>9. (j - 1) + 1 = j
      BY <3>1
    <3> HIDE DEF w
    <3> QED
      BY <3>6, <3>8, <3>9
  <2> QED
    BY <2>1, <2>2
<1>6. \A i \in 0..(MaxSteps - j) : v[i] = w[j + i]
  BY <1>4, <1>5, WalkShift DEF SameTerms
<1>7. ASSUME NEW k \in 0..(MaxSteps - 1), v[k] \in Dates
      PROVE  j + k \in 0..(MaxSteps - 1) /\ v[k] = w[j + k]
  <2>1. CASE j + k <= MaxSteps - 1
    <3>1. j + k \in 0..(MaxSteps - 1) /\ k \in 0..(MaxSteps - j)
      BY <1>1, <1>4, <2>1
    <3> QED
      BY <1>6, <3>1
  <2>2. CASE ~(j + k <= MaxSteps - 1)
    <3> DEFINE i == IF j <= MaxSteps - 1 THEN (MaxSteps - 1) - j ELSE 0
    <3>1. i \in 0..(MaxSteps - j) /\ i \in 0..MaxSteps /\ k \in 0..MaxSteps /\ (i = k \/ i < k)
      BY <1>1, <1>4, <2>2
    <3>2. v[i] > LastDate
      <4>1. CASE j <= MaxSteps - 1
        <5>1. v[i] = w[MaxSteps - 1]
          <6>1. i = (MaxSteps - 1) - j /\ j + i = MaxSteps - 1
            BY <1>1, <1>4, <4>1
          <6> HIDE DEF i
          <6>2. v[i] = w[j + i]
            BY <1>6, <3>1
          <6> QED
            BY <6>1, <6>2
        <5> QED
          BY <5>1, WalkPasses
      <4>2. CASE ~(j <= MaxSteps - 1)
        <5>1. i = 0 /\ j = MaxSteps /\ MaxSteps - 1 \in 0..MaxSteps /\ MaxSteps \in 0..MaxSteps
              /\ MaxSteps - 1 < MaxSteps
          BY <1>1, <1>4, <4>2
        <5>2. w[MaxSteps - 1] <= w[MaxSteps] /\ w[MaxSteps - 1] \in Int /\ w[MaxSteps] \in Int
          BY <1>3, <5>1
        <5>3. v[0] = w[MaxSteps]
          <6>1. 0 \in 0..(MaxSteps - j) /\ j + 0 = MaxSteps
            BY <1>4, <5>1
          <6> QED
            BY <1>6, <6>1
        <5>4. w[MaxSteps - 1] > LastDate
          BY WalkPasses
        <5> HIDE DEF i, v, w
        <5> QED
          BY <1>1, <5>1, <5>2, <5>3, <5>4
      <4> QED
        BY <4>1, <4>2
    <3> HIDE DEF i
    <3>3. v[i] \in Int /\ v[k] \in Int /\ v[i] <= v[k]
      <4>1. Known(q) /\ First(q) \in Int /\ FirstDay[0] <= First(q)
        BY FirstIs DEF RuleTyped
      <4>2. /\ \A a \in 0..MaxSteps : v[a] \in Int
            /\ \A a, b \in 0..MaxSteps : a < b => v[a] <= v[b]
        BY <4>1, WalkRises
      <4> HIDE DEF v
      <4> QED
        BY <3>1, <4>2
    <3> QED
      BY <1>1, <1>7, <3>2, <3>3
  <2> QED
    BY <2>1, <2>2
<1> HIDE DEF w, v
<1>8. Ahead(r) = {w[k] : k \in 0..(MaxSteps - 1)} /\ Ahead(q) = {v[k] : k \in 0..(MaxSteps - 1)}
  BY DEF Ahead, w, v
<1>9. ASSUME NEW d \in Dates, d \in Ahead(q) PROVE d \in Ahead(r)
  BY <1>7, <1>8, <1>9
<1>10. D \subseteq Ahead(r)
  <2>1. \A i \in 0..(j - 1) : i \in 0..(MaxSteps - 1)
    BY <1>1, <1>4
  <2> QED
    BY <1>2, <1>8, <2>1
<1>11. ASSUME NEW d \in Dates, d \in Ahead(r), d \notin D PROVE d \in Ahead(q)
  <2>1. PICK k \in 0..(MaxSteps - 1) : d = w[k]
    BY <1>8, <1>11
  <2>2. k \notin 0..(j - 1)
    BY <1>2, <1>11, <2>1
  <2>3. k - j \in 0..(MaxSteps - j) /\ k - j \in 0..(MaxSteps - 1) /\ j + (k - j) = k
    BY <1>1, <1>4, <2>2
  <2>4. v[k - j] = w[k]
    BY <1>6, <2>3
  <2> QED
    BY <1>8, <2>1, <2>3, <2>4
<1>12. ASSUME Ended(r, threshold), NEW d \in Dates, d \in Ahead(q) PROVE Over(r, d)
  <2> SUFFICES ASSUME ~Over(r, d) PROVE FALSE
    OBVIOUS
  <2>1. PICK i \in 0..(MaxGen - 1) : w[i] <= threshold /\ Over(r, w[i])
    BY <1>12 DEF Ended, Reached, w
  <2>2. PICK k \in 0..(MaxSteps - 1) : d = v[k]
    BY <1>8, <1>12
  <2>3. j + k \in 0..(MaxSteps - 1) /\ d = w[j + k]
    BY <1>7, <2>2
  <2>4. i \in 0..MaxSteps /\ j + k \in 0..MaxSteps /\ w[i] \in Int /\ d \in Int /\ threshold \in Int
    BY <1>1, <1>3, <2>3
  <2>5. r.end < w[i] /\ d <= r.end
    BY <1>1, <2>1, <2>4 DEF Over
  <2>6. ~(i <= j + k)
    BY <1>1, <1>3, <2>3, <2>4, <2>5
  <2>7. d \in D
    <3>1. j + k \in 0..(MaxGen - 1) /\ d <= threshold
      BY <1>1, <1>4, <2>1, <2>3, <2>4, <2>5, <2>6
    <3> QED
      BY <2>3, <3>1 DEF Due, Reached, w
  <2>8. PICK m \in 0..(j - 1) : d = w[m]
    BY <1>2, <2>7
  <2>9. m \in 0..MaxSteps /\ m < j + k
    BY <1>1, <1>4, <2>2
  <2>10. w[m] < w[j + k]
    BY <1>1, <1>3, <2>3, <2>4, <2>8, <2>9
  <2> QED
    BY <2>3, <2>4, <2>8, <2>10
<1> QED
  BY <1>9, <1>10, <1>11, <1>12

-----------------------------------------------------------------------------
(* What the projection adds up, of the month M.                            *)
Recorded(w, M) == SumFunctionOnSet([d \in Dates |-> w[d].amount], M)

Awaits(r, w, M) == {d \in Ahead(r) : d \in M /\ ~Over(r, d) /\ w[d] = NoRow}

Prediction(r, w, M) ==
  Recorded(w, M) + IF r.status = "active" THEN r.amount * Cardinality(Awaits(r, w, M)) ELSE 0

LEMMA MonthDates ==
  ASSUME today \in FirstToday..LastToday
  PROVE  MonthStart \in Int /\ MonthEnd \in Int /\ MonthStart..MonthEnd \subseteq Dates
<1> DEFINE m == MonthOf(today)
           n == MonthOf(LastToday)
<1>1. today \in Int /\ LastToday \in Dates /\ LastToday \in Int /\ today <= LastToday /\ today \in Dates
      /\ FirstDay[n + 1] <= LastDate + 1
  <2>1. FirstToday \in Dates /\ LastToday \in Dates /\ FirstDay[n + 1] <= LastDate + 1
    BY ProjectionAssumption
  <2>2. FirstToday \in Int /\ LastToday \in Int /\ FirstDay[0] <= FirstToday /\ FirstDay[0] \in Int
        /\ LastToday <= LastDate /\ LastDate \in Int
    BY <2>1, DatesAre
  <2> HIDE DEF n
  <2>3. today \in Int /\ today <= LastToday /\ FirstDay[0] <= today /\ today <= LastDate
    BY <2>2
  <2> QED
    BY <2>1, <2>2, <2>3, DatesAre
<1>2. InCalendar(today) /\ InCalendar(LastToday)
  BY <1>1, DatesAre
<1>3. /\ m \in Months /\ n \in Months /\ m \in Nat /\ n \in Nat
      /\ FirstDay[m] \in Int /\ FirstDay[m + 1] \in Int /\ FirstDay[n] \in Int /\ FirstDay[n + 1] \in Int
      /\ FirstDay[n] < FirstDay[n + 1]
  BY <1>2, DayOfIs, MonthBounds
<1>4. ~(n < m)
  BY <1>1, <1>2, MonthsInOrder
<1>5. FirstDay[m + 1] <= FirstDay[n + 1]
  <2>1. m < n => FirstDay[m + 1] <= FirstDay[n]
    BY <1>3, CalendarAssumption
  <2> HIDE DEF m, n
  <2>2. m = n \/ m < n
    BY <1>3, <1>4
  <2> QED
    BY <1>3, <2>1, <2>2
<1>6. FirstDay[0] <= FirstDay[m]
  <2>1. 0 \in Months /\ FirstDay[0] < FirstDay[0 + 1] /\ FirstDay[0] \in Int /\ FirstDay[0 + 1] \in Int
    <3>1. 0 \in Months
      BY CalendarAssumption DEF Months
    <3> QED
      BY <3>1, MonthBounds
  <2>2. 0 < m => FirstDay[0 + 1] <= FirstDay[m]
    BY <1>3, <2>1, CalendarAssumption
  <2> HIDE DEF m
  <2>3. m = 0 \/ 0 < m
    BY <1>3
  <2> QED
    BY <1>3, <2>1, <2>2, <2>3
<1>7. MonthStart = FirstDay[m] /\ MonthEnd = FirstDay[m + 1] - 1
  BY DEF MonthStart, MonthEnd
<1> HIDE DEF m, n
<1>8. ASSUME NEW d \in MonthStart..MonthEnd PROVE d \in Dates
  <2>1. d \in Int /\ FirstDay[0] <= d /\ d <= LastDate
    BY <1>1, <1>3, <1>5, <1>6, <1>7, DatesAre
  <2> QED
    BY <2>1, DatesAre
<1> QED
  BY <1>3, <1>7, <1>8

LEMMA RecordedIs ==
  ASSUME NEW w \in [Dates -> Rows], NEW M \in SUBSET Dates
  PROVE  /\ Recorded(w, M) \in Int
         /\ SumFunctionOnSet([d \in Dates |-> w[d].amount], {d \in M : w[d].status = "COMPLETED"})
              + SumFunctionOnSet([d \in Dates |-> w[d].amount], {d \in M : w[d].status = "PENDING"})
            = Recorded(w, M)
<1> DEFINE g == [d \in Dates |-> w[d].amount]
           C == {d \in M : w[d].status = "COMPLETED"}
           P == {d \in M : w[d].status = "PENDING"}
<1>1. ASSUME NEW d \in M
      PROVE  g[d] \in Int /\ (w[d].status \notin {"COMPLETED", "PENDING"} => g[d] = 0)
  BY DEF Rows, NoRow
<1>2. IsFiniteSet(M) /\ IsFiniteSet(C) /\ IsFiniteSet(P) /\ C \cup P \in SUBSET M /\ C \cap P = {}
  BY DatesAre, FS_Subset
<1>3. \A d \in M \ (C \cup P) : g[d] = 0
  BY <1>1
<1>4. \A d \in C \cup P : g[d] \in Int
  BY <1>1
<1> HIDE DEF g, C, P
<1>5. SumFunctionOnSet(g, M) = SumFunctionOnSet(g, C \cup P)
  BY <1>2, <1>3, <1>4, SumSupport
<1>6. SumFunctionOnSet(g, C \cup P) = SumFunctionOnSet(g, C) + SumFunctionOnSet(g, P)
  BY <1>2, <1>4, SumParts
<1>7. SumFunctionOnSet(g, M) \in Int
  BY <1>1, <1>2, SumTypeAndRemove
<1> QED
  BY <1>5, <1>6, <1>7 DEF g, C, P, Recorded

AsPredicted == Expected = Prediction(rule, rows, MonthStart..MonthEnd)

LEMMA ExpectedIs == ProjectionInv => AsPredicted
<1> SUFFICES ASSUME ProjectionInv PROVE Expected = Prediction(rule, rows, MonthStart..MonthEnd)
  BY DEF AsPredicted
<1> DEFINE M == MonthStart..MonthEnd
           A == Awaits(rule, rows, M)
<1>1. /\ MonthStart \in Int /\ MonthEnd \in Int /\ M \in SUBSET Dates /\ rows \in [Dates -> Rows]
      /\ RuleTyped(rule)
  BY MonthDates DEF ProjectionInv, RowsTyped
<1>2. Realized + Scheduled = Recorded(rows, M)
  BY <1>1, RecordedIs DEF Realized, Scheduled, SumOf
<1>3. \A d \in Ahead(rule) : d \in Int /\ rule.start <= d
  BY <1>1, AheadIs
<1>4. Awaited = A
  <2>1. Awaited = {d \in Ahead(rule) : MonthStart <= d /\ d <= MonthEnd /\ ~Over(rule, d) /\ rows[d] = NoRow}
    BY DEF Awaited, Ahead
  <2>2. \A d \in Ahead(rule) : d \in M <=> MonthStart <= d /\ d <= MonthEnd
    BY <1>1, <1>3
  <2> HIDE DEF M
  <2> QED
    BY <2>1, <2>2 DEF Awaits
<1>5. ASSUME rule.status = "active",
             ~(rule.start <= MonthEnd /\ (rule.end = Never \/ rule.end >= MonthStart))
      PROVE  A = {}
  <2>1. rule.start \in Int /\ rule.end \in Int
    BY <1>1, DatesAre DEF RuleTyped, Known
  <2> SUFFICES ASSUME NEW d \in A PROVE FALSE
    OBVIOUS
  <2>2. d \in Int /\ rule.start <= d /\ MonthStart <= d /\ d <= MonthEnd /\ ~Over(rule, d)
    BY <1>1, <1>3 DEF Awaits
  <2> QED
    BY <1>1, <1>5, <2>1, <2>2 DEF Over
<1>6. NotYetGenerated = IF rule.status = "active" THEN rule.amount * Cardinality(A) ELSE 0
  <2>1. rule.status = "active" => rule.amount \in Nat
    BY <1>1 DEF RuleTyped
  <2>2. Cardinality({}) = 0
    BY FS_EmptySet
  <2>3. NotYetGenerated = IF /\ rule.status = "active" /\ rule.start <= MonthEnd
                             /\ rule.end = Never \/ rule.end >= MonthStart
                          THEN rule.amount * Cardinality(A) ELSE 0
    BY <1>4 DEF NotYetGenerated
  <2> HIDE DEF A
  <2>4. ASSUME rule.status = "active", A = {} PROVE rule.amount * Cardinality(A) = 0
    BY <2>1, <2>2, <2>4
  <2> QED
    BY <1>5, <2>3, <2>4
<1> QED
  BY <1>2, <1>6 DEF Expected, Prediction

LEMMA ExpectedNextIs == ProjectionInv' => AsPredicted'
BY ExpectedIs, PTL

(* A run of the job turns what is expected of it into rows.                *)
LEMMA JobKeeps ==
  ASSUME ProjectionInv, ProjectionInv', Job, NEW M \in SUBSET Dates
  PROVE  Prediction(rule', rows', M) = Prediction(rule, rows, M)
<1> DEFINE threshold == today + LookAhead
           D == Due(rule, threshold)
           Fresh == {d \in D : rows[d] = NoRow}
           F == Fresh \cap M
           a == rule.amount
           g == [d \in Dates |-> rows[d].amount]
           h == [d \in Dates |-> rows'[d].amount]
           e == [d \in Dates |-> IF d \in Fresh THEN a ELSE 0]
<1>1. /\ RuleTyped(rule) /\ RuleTyped(rule') /\ rows \in [Dates -> Rows] /\ rows' \in [Dates -> Rows]
      /\ today \in FirstToday..LastToday
  BY DEF ProjectionInv, RowsTyped
<1>2. threshold \in Int /\ threshold <= LastDate
  BY <1>1, ThresholdFits
<1>3. D \subseteq Dates
  BY <1>1, JobDue
<1>4. /\ rule.status = "active"
      /\ rows' = [d \in Dates |-> IF d \in Fresh THEN [status |-> "PENDING", amount |-> a] ELSE rows[d]]
  BY DEF Job
<1>5. /\ SameTerms(rule', rule) /\ rule'.last = IF D = {} THEN rule.last ELSE Max(D)
      /\ rule'.status = IF Ended(rule, threshold) THEN "paused" ELSE rule.status
  BY <1>1, JobRuleIs
<1>6. a \in Nat
  BY <1>1, <1>4 DEF RuleTyped
<1>7. /\ \A d \in Dates : ~Over(rule, d) => (d \in Ahead(rule) <=> d \in D \/ d \in Ahead(rule'))
      /\ Ended(rule, threshold) => \A d \in Dates : d \in Ahead(rule') => Over(rule, d)
  BY <1>1, <1>2, <1>5, RunTakesDue
<1>8. IsFiniteSet(M) /\ IsFiniteSet(F) /\ F \in SUBSET M
  BY DatesAre, FS_Subset
<1>9. \A d \in D : ~Over(rule, d)
  BY DEF Due
<1> HIDE DEF threshold, D
<1>10. \A d \in Dates : /\ g[d] \in Int /\ e[d] \in Int /\ h[d] = g[d] + e[d]
  <2> TAKE d \in Dates
  <2>1. g[d] \in Int /\ e[d] = (IF d \in Fresh THEN a ELSE 0) /\ h[d] = rows'[d].amount
    <3>1. rows[d] \in Rows
      BY <1>1
    <3>2. rows[d].amount \in Int
      BY <3>1 DEF Rows, NoRow
    <3> QED
      BY <3>2
  <2>2. CASE d \in Fresh
    <3>1. g[d] = 0 /\ h[d] = a
      BY <1>4, <2>1, <2>2 DEF NoRow
    <3> QED
      BY <1>6, <2>1, <2>2, <3>1
  <2>3. CASE d \notin Fresh
    <3>1. h[d] = g[d]
      BY <1>4, <2>1, <2>3
    <3> HIDE DEF h, g, e
    <3> QED
      BY <1>6, <2>1, <2>3, <3>1
  <2> QED
    BY <2>2, <2>3
<1>11. SumFunctionOnSet(e, M) = a * Cardinality(F)
  <2> DEFINE c == [d \in Dates |-> a]
  <2>1. \A d \in F : c[d] = a /\ c[d] \in Int /\ e[d] = c[d]
    BY <1>6
  <2>2. \A d \in M \ F : e[d] = 0
    OBVIOUS
  <2> HIDE DEF c, e, F
  <2>3. SumFunctionOnSet(e, M) = SumFunctionOnSet(c, F)
    BY <1>8, <2>1, <2>2, SumSupport
  <2>4. SumFunctionOnSet(c, F) = a * Cardinality(F)
    BY <1>6, <1>8, <2>1, SumConstant
  <2> QED
    BY <2>3, <2>4
<1>12. Recorded(rows', M) = Recorded(rows, M) + a * Cardinality(F) /\ Recorded(rows, M) \in Int
  <2>1. \A d \in M : g[d] \in Int /\ e[d] \in Int /\ h[d] = g[d] + e[d]
    BY <1>10
  <2> HIDE DEF g, h, e
  <2>2. SumFunctionOnSet(h, M) = SumFunctionOnSet(g, M) + SumFunctionOnSet(e, M)
    BY <1>8, <2>1, SumPlus
  <2>3. Recorded(rows, M) \in Int
    BY <1>1, RecordedIs
  <2> QED
    BY <1>11, <2>2, <2>3 DEF g, h, Recorded
<1> DEFINE A == Awaits(rule, rows, M)
           B == Awaits(rule', rows', M)
<1>13. A = F \cup B /\ F \cap B = {}
  <2>1. \A d : Over(rule', d) <=> Over(rule, d)
    BY <1>5 DEF SameTerms, Over
  <2>2. \A d \in Dates : rows'[d] = NoRow <=> rows[d] = NoRow /\ d \notin D
    BY <1>4 DEF NoRow
  <2>3. \A d \in M : d \in F <=> ~Over(rule, d) /\ d \in D /\ rows[d] = NoRow
    BY <1>9
  <2>4. \A d \in M : d \in A <=> ~Over(rule, d) /\ d \in Ahead(rule) /\ rows[d] = NoRow
    BY DEF Awaits
  <2>5. \A d \in M : d \in B <=> ~Over(rule, d) /\ d \in Ahead(rule') /\ rows[d] = NoRow /\ d \notin D
    BY <2>1, <2>2 DEF Awaits
  <2>6. F \subseteq M /\ A \subseteq M /\ B \subseteq M
    BY DEF Awaits
  <2> HIDE DEF F, A, B
  <2> QED
    BY <1>7, <2>3, <2>4, <2>5, <2>6
<1>14. Cardinality(A) = Cardinality(F) + Cardinality(B) /\ Cardinality(F) \in Nat /\ Cardinality(B) \in Nat
  <2>1. IsFiniteSet(B)
    BY <1>8, FS_Subset DEF Awaits
  <2> HIDE DEF A, B, F
  <2>2. /\ Cardinality(F \cup B) = Cardinality(F) + Cardinality(B) - Cardinality(F \cap B)
        /\ Cardinality(F) \in Nat /\ Cardinality(B) \in Nat /\ Cardinality({}) = 0
    BY <1>8, <2>1, FS_Union, FS_CardinalityType, FS_EmptySet
  <2>3. Cardinality(A) = Cardinality(F \cup B) /\ Cardinality(F \cap B) = 0
    BY <1>13, <2>2
  <2> QED
    BY <2>2, <2>3
<1>15. ASSUME Ended(rule, threshold) PROVE Cardinality(B) = 0
  <2>1. \A d : Over(rule', d) <=> Over(rule, d)
    BY <1>5 DEF SameTerms, Over
  <2>2. B = {}
    BY <1>7, <1>15, <2>1 DEF Awaits
  <2> QED
    BY <2>2, FS_EmptySet
<1>16. rule'.amount = a /\ (rule'.status = "active" <=> ~Ended(rule, threshold))
  BY <1>4, <1>5 DEF SameTerms
<1>17. /\ Prediction(rule, rows, M) = Recorded(rows, M) + a * Cardinality(A)
       /\ Prediction(rule', rows', M) = Recorded(rows', M) + IF Ended(rule, threshold) THEN 0 ELSE a * Cardinality(B)
  BY <1>4, <1>16 DEF Prediction
<1> HIDE DEF A, B, F, a
<1>18. /\ a * Cardinality(A) = a * Cardinality(F) + a * Cardinality(B)
       /\ a * Cardinality(F) \in Int /\ a * Cardinality(B) \in Int
       /\ Cardinality(B) = 0 => a * Cardinality(B) = 0
  <2>1. \A x, y, z \in Nat : /\ x * (y + z) = x * y + x * z
                             /\ x * y \in Int /\ (y = 0 => x * y = 0)
    OBVIOUS
  <2> QED
    BY <1>6, <1>14, <2>1
<1> QED
  BY <1>12, <1>15, <1>17, <1>18

(* The projection counts on exactly what the job will do, for every        *)
(* calendar, rule and state the rows are in: within a month neither a run  *)
(* of the job, which walks the schedule from where it stopped and stops at *)
(* its own cap and at the end, nor a change of status, nor the passing of  *)
(* days moves the expected total (buildMonthProjection and                 *)
(* GenerateRecurringTransactionsJobService walk the schedule apart).       *)
THEOREM ProjectionAlwaysAnticipates == Spec => ProjectionAnticipates
<1> DEFINE InTheMonth == /\ MonthOf(today') = MonthOf(today)
                         /\ rule.status # "none" /\ edits' = edits
                         /\ \/ NextDay \/ (\E d \in Dates : SetStatus(d)) \/ Job
<1>1. ASSUME ProjectionInv, ProjectionInv', InTheMonth PROVE Expected' = Expected
  <2> DEFINE M == MonthStart..MonthEnd
  <2>1. M \in SUBSET Dates /\ rows \in [Dates -> Rows] /\ RuleTyped(rule)
    BY <1>1, MonthDates DEF ProjectionInv, RowsTyped
  <2>2. MonthStart' = MonthStart /\ MonthEnd' = MonthEnd
    BY <1>1 DEF MonthStart, MonthEnd
  <2>3. Expected = Prediction(rule, rows, M) /\ Expected' = Prediction(rule', rows', M)
    BY <1>1, <2>2, ExpectedIs, ExpectedNextIs DEF AsPredicted
  <2> HIDE DEF M
  <2>4. CASE NextDay
    BY <2>3, <2>4 DEF NextDay
  <2>5. CASE \E d \in Dates : SetStatus(d)
    <3>1. PICK d \in Dates : SetStatus(d)
      BY <2>5
    <3>2. rows' = [rows EXCEPT ![d].status = IF @ = "PENDING" THEN "COMPLETED" ELSE "PENDING"]
          /\ rule' = rule /\ rows[d] # NoRow
      BY <3>1 DEF SetStatus, KeepRule
    <3>3. \A x \in Dates : rows'[x].amount = rows[x].amount /\ (rows'[x] = NoRow <=> rows[x] = NoRow)
      <4> TAKE x \in Dates
      <4>1. CASE x # d
        BY <2>1, <3>2, <4>1
      <4>2. CASE x = d
        <5>1. rows[d] \in [status : {"PENDING", "COMPLETED"}, amount : Nat \ {0}]
          BY <2>1, <3>2 DEF Rows
        <5>2. rows'[d] = [rows[d] EXCEPT !.status = IF @ = "PENDING" THEN "COMPLETED" ELSE "PENDING"]
          BY <2>1, <3>2
        <5>3. rows'[d].amount = rows[d].amount /\ rows'[d].status \in {"PENDING", "COMPLETED"}
          BY <5>1, <5>2
        <5> QED
          BY <3>2, <4>2, <5>3 DEF NoRow
      <4> QED
        BY <4>1, <4>2
    <3>4. [x \in Dates |-> rows'[x].amount] = [x \in Dates |-> rows[x].amount]
      BY <3>3
    <3>5. Recorded(rows', M) = Recorded(rows, M)
      BY <3>4 DEF Recorded
    <3>6. Awaits(rule', rows', M) = Awaits(rule, rows, M)
      BY <2>1, <3>2, <3>3 DEF Awaits
    <3> QED
      BY <2>3, <3>2, <3>5, <3>6 DEF Prediction
  <2>6. CASE Job
    BY <1>1, <2>1, <2>3, <2>6, JobKeeps
  <2> QED
    BY <1>1, <2>4, <2>5, <2>6
<1>2. ProjectionInv /\ ProjectionInv' /\ [Next]_vars => [InTheMonth => Expected' = Expected]_vars
  BY <1>1
<1>3. Spec => []ProjectionInv
  BY ProjectionInvInit, ProjectionInvNext, PTL DEF Spec
<1> HIDE DEF InTheMonth
<1>4. Spec => [][InTheMonth => Expected' = Expected]_vars
  BY <1>2, <1>3, PTL DEF Spec
<1> QED
  BY <1>4 DEF ProjectionAnticipates, InTheMonth

-----------------------------------------------------------------------------
(***************************************************************************)
(* The invoices of a card: each day is in one of them, a payment without a *)
(* target goes to the one that closed last, and what an invoice adds up    *)
(* agrees with the balance that is stored.                                 *)
(***************************************************************************)

(* A due date is a day of its month.                                       *)
LEMMA DueInMonth ==
  ASSUME NEW c \in Cycles, NEW m \in Months
  PROVE  /\ DueOf(c, m) \in Int /\ FirstDay[m] \in Int /\ FirstDay[m + 1] \in Int
         /\ FirstDay[m] <= DueOf(c, m)
         /\ DueOf(c, m) < FirstDay[m + 1]
<1>1. m \in 0..(LastMonth + 1) /\ m + 1 \in 0..(LastMonth + 1)
  BY CalendarAssumption DEF Months
<1>2. FirstDay[m] \in Int /\ FirstDay[m + 1] \in Int
  BY <1>1, CalendarAssumption
<1>3. c.dueDay \in Nat \ {0}
  BY CyclesAssumption
<1>4. DaysInMonth(m) \in Int /\ DaysInMonth(m) > 0
        /\ DaysInMonth(m) = FirstDay[m + 1] - FirstDay[m]
  BY <1>2, CalendarAssumption DEF DaysInMonth
<1>. QED
  BY <1>2, <1>3, <1>4 DEF DueOf

(* Months follow each other, so their due dates do.                        *)
LEMMA DueIncreases ==
  ASSUME NEW c \in Cycles, NEW m \in Months, NEW n \in Months, m < n
  PROVE  /\ FirstDay[m + 1] <= FirstDay[n]
         /\ DueOf(c, m) < DueOf(c, n)
<1>1. FirstDay[m + 1] <= FirstDay[n]
  BY CalendarAssumption
<1>2. /\ DueOf(c, m) \in Int /\ FirstDay[m + 1] \in Int
      /\ DueOf(c, m) < FirstDay[m + 1]
  BY DueInMonth
<1>3. DueOf(c, n) \in Int /\ FirstDay[n] \in Int /\ FirstDay[n] <= DueOf(c, n)
  BY DueInMonth
<1>. QED
  BY <1>1, <1>2, <1>3

(* The month that MonthOf picks holds the day, and has a month before and  *)
(* one after it.                                                           *)
LEMMA MonthHolds ==
  ASSUME NEW c \in Cycles, NEW d \in Days
  PROVE  LET t == d + c.closingDaysBeforeDue
         IN  /\ t \in Int
             /\ MonthOf(t) \in 1..(LastMonth - 1)
             /\ FirstDay[MonthOf(t)] <= t /\ t < FirstDay[MonthOf(t) + 1]
<1> DEFINE t == d + c.closingDaysBeforeDue
           Holds(m) == FirstDay[m] <= t /\ t < FirstDay[m + 1]
<1>1. t \in Int
  BY CyclesAssumption
<1>2. PICK m \in 1..(LastMonth - 1) : Holds(m)
  BY CyclesAssumption
<1>3. m \in Months
  BY CalendarAssumption DEF Months
<1>4. MonthOf(t) \in Months /\ Holds(MonthOf(t))
  BY <1>2, <1>3 DEF MonthOf
<1>5. ASSUME NEW n \in Months, Holds(n) PROVE n = m
  <2>1. m \in Int /\ n \in Int
    BY <1>3, CalendarAssumption DEF Months
  <2>2. /\ FirstDay[m] \in Int /\ FirstDay[m + 1] \in Int
        /\ FirstDay[n] \in Int /\ FirstDay[n + 1] \in Int
    BY DueInMonth, <1>3
  <2>3. CASE n < m
    <3>1. FirstDay[n + 1] <= FirstDay[m]
      BY <2>3, <1>3, CalendarAssumption
    <3>. QED
      BY <3>1, <2>2, <1>1, <1>2, <1>5
  <2>4. CASE m < n
    <3>1. FirstDay[m + 1] <= FirstDay[n]
      BY <2>4, <1>3, CalendarAssumption
    <3>. QED
      BY <3>1, <2>2, <1>1, <1>2, <1>5
  <2>. QED
    BY <2>1, <2>3, <2>4
<1>6. MonthOf(t) = m
  BY <1>4, <1>5
<1>. QED
  BY <1>1, <1>2, <1>6

(* A day is in an invoice when its threshold is past the due date before   *)
(* and not past its own.                                                   *)
LEMMA WithinByDue ==
  ASSUME NEW c \in Cycles, NEW d \in Days, NEW k \in 1..LastMonth
  PROVE  Within(c, k, d) <=> /\ DueOf(c, k - 1) < d + c.closingDaysBeforeDue
                             /\ d + c.closingDaysBeforeDue <= DueOf(c, k)
<1>1. k \in Months /\ k - 1 \in Months
  BY CalendarAssumption DEF Months
<1>2. DueOf(c, k) \in Int /\ DueOf(c, k - 1) \in Int
  BY <1>1, DueInMonth
<1>3. d \in Int /\ c.closingDaysBeforeDue \in Int
  BY CyclesAssumption
<1>. QED
  BY <1>2, <1>3 DEF Within, PeriodStart, PeriodEnd, ClosingOf

(* Each day is in the invoice its key names and in no other.               *)
THEOREM InvoicesPartition == \A c \in Cycles : OneInvoiceADay(c)
<1> SUFFICES ASSUME NEW c \in Cycles, NEW d \in Days, NEW k \in 1..LastMonth
             PROVE  k = InvoiceKeyFor(c, d) <=> Within(c, k, d)
  BY DEF OneInvoiceADay
<1> DEFINE t == d + c.closingDaysBeforeDue
           m == MonthOf(t)
<1>1. t \in Int /\ m \in 1..(LastMonth - 1) /\ FirstDay[m] <= t /\ t < FirstDay[m + 1]
  BY MonthHolds
<1>2. /\ k \in Months /\ k - 1 \in Months /\ m \in Months /\ m + 1 \in Months
      /\ k \in Int /\ m \in Int /\ LastMonth \in Int
  BY <1>1, CalendarAssumption DEF Months
<1>3. Within(c, k, d) <=> DueOf(c, k - 1) < t /\ t <= DueOf(c, k)
  BY WithinByDue
<1>4. /\ DueOf(c, k) \in Int /\ DueOf(c, k - 1) \in Int /\ DueOf(c, m) \in Int
      /\ FirstDay[m] \in Int /\ FirstDay[m + 1] \in Int
  BY <1>2, DueInMonth
<1>5. InvoiceKeyFor(c, d) = IF DueOf(c, m) >= t THEN m ELSE m + 1
  BY DEF InvoiceKeyFor
<1> HIDE DEF t, m
<1>6. CASE k < m
  <2>1. DueOf(c, k) < FirstDay[m]
    <3>1. /\ FirstDay[k + 1] <= FirstDay[m] /\ DueOf(c, k) < FirstDay[k + 1]
          /\ FirstDay[k + 1] \in Int
      BY <1>6, <1>2, DueIncreases, DueInMonth
    <3>. QED
      BY <3>1, <1>4
  <2>. QED
    BY <2>1, <1>1, <1>2, <1>3, <1>4, <1>5, <1>6
<1>7. CASE k = m
  <2>1. DueOf(c, k - 1) < FirstDay[m]
    <3>1. k - 1 < m /\ (k - 1) + 1 = m
      BY <1>7, <1>2
    <3>. QED
      BY <3>1, <1>2, DueInMonth
  <2>. QED
    BY <2>1, <1>1, <1>2, <1>3, <1>4, <1>5, <1>7
<1>8. CASE k = m + 1
  <2>1. FirstDay[m + 1] <= DueOf(c, k) /\ k - 1 = m
    BY <1>8, <1>2, DueInMonth
  <2>. QED
    BY <2>1, <1>1, <1>2, <1>3, <1>4, <1>5, <1>8
<1>9. CASE k > m + 1
  <2>1. FirstDay[m + 1] <= FirstDay[k - 1] /\ FirstDay[k - 1] <= DueOf(c, k - 1)
        /\ FirstDay[k - 1] \in Int
    <3>1. m < k - 1
      BY <1>9, <1>2
    <3>. QED
      BY <3>1, <1>2, DueIncreases, DueInMonth
  <2>. QED
    BY <2>1, <1>1, <1>2, <1>3, <1>4, <1>5, <1>9
<1>. QED
  BY <1>2, <1>6, <1>7, <1>8, <1>9

(* A payment without a target goes to the invoice that closed last.        *)
THEOREM AllocationClosedLast == \A c \in Cycles : AllocatedClosedLast(c)
<1> SUFFICES ASSUME NEW c \in Cycles, NEW d \in Days
             PROVE  LET k == AllocateInvoice(c, d)
                    IN  PeriodEnd(c, k) <= d /\ d < PeriodEnd(c, k + 1)
  BY DEF AllocatedClosedLast
<1> DEFINE t == d + c.closingDaysBeforeDue
           m == MonthOf(t)
           k == InvoiceKeyFor(c, d)
<1>1. t \in Int /\ m \in 1..(LastMonth - 1) /\ FirstDay[m] <= t /\ t < FirstDay[m + 1]
  BY MonthHolds
<1>2. k = IF DueOf(c, m) >= t THEN m ELSE m + 1
  BY DEF InvoiceKeyFor
<1>3. k \in 1..LastMonth /\ k \in Int /\ LastMonth \in Int
  BY <1>1, <1>2, CalendarAssumption
<1>4. Within(c, k, d)
  BY <1>3, InvoicesPartition DEF OneInvoiceADay
<1>5. d \in Int /\ c.closingDaysBeforeDue \in Int
  BY CyclesAssumption
<1>6. k \in Months /\ k - 1 \in Months
  BY <1>3 DEF Months
<1>7. DueOf(c, k) \in Int /\ DueOf(c, k - 1) \in Int
  BY <1>6, DueInMonth
<1>8. PeriodEnd(c, k) \in Int /\ PeriodEnd(c, k) = DueOf(c, k) - c.closingDaysBeforeDue
      /\ PeriodEnd(c, k - 1) \in Int
  BY <1>5, <1>7 DEF PeriodEnd, ClosingOf
<1>9. PeriodEnd(c, k - 1) < d /\ d <= PeriodEnd(c, k)
  BY <1>4, <1>5, <1>8 DEF Within, PeriodStart, PeriodEnd
<1>10. CASE PeriodEnd(c, k) = d
  <2>1. AllocateInvoice(c, d) = k
    BY <1>10 DEF AllocateInvoice
  <2>2. t = DueOf(c, k)
    BY <1>10, <1>5, <1>7, <1>8
  <2>3. k = m /\ k + 1 \in Months
    <3>1. m \in Months /\ m + 1 \in Months
      BY <1>1, <1>3 DEF Months
    <3>2. DueOf(c, m + 1) >= FirstDay[m + 1] /\ FirstDay[m + 1] \in Int /\ DueOf(c, m + 1) \in Int
      BY <3>1, DueInMonth
    <3>. QED
      BY <3>1, <3>2, <2>2, <1>1, <1>2
  <2>4. DueOf(c, k) < DueOf(c, k + 1) /\ DueOf(c, k + 1) \in Int
    BY <2>3, <1>3, <1>6, DueIncreases, DueInMonth
  <2>5. PeriodEnd(c, k + 1) = DueOf(c, k + 1) - c.closingDaysBeforeDue
    BY DEF PeriodEnd, ClosingOf
  <2>6. d < PeriodEnd(c, k + 1)
    BY <2>4, <2>5, <1>5, <1>7, <1>8, <1>10
  <2>. QED
    BY <2>1, <2>6, <1>5, <1>10
<1>11. CASE PeriodEnd(c, k) # d
  <2>1. AllocateInvoice(c, d) = k - 1
    BY <1>11 DEF AllocateInvoice, PreviousKey
  <2>2. (k - 1) + 1 = k
    BY <1>3
  <2>3. PeriodEnd(c, k - 1) <= d /\ d < PeriodEnd(c, k)
    BY <1>5, <1>8, <1>9, <1>11
  <2>. QED
    BY <2>1, <2>2, <2>3
<1>. QED
  BY <1>10, <1>11

(* Whatever cycle the owner gives his card, its days tile into invoices    *)
(* and its payments find the one that closed last.                         *)
THEOREM CycleAlwaysTiles == CardSpec => []CycleTiles
<1>1. CardInit => cycle \in Cycles
  BY DEF CardInit
<1>2. cycle \in Cycles /\ [CardNext]_cardVars => (cycle \in Cycles)'
  <2> SUFFICES ASSUME cycle \in Cycles, [CardNext]_cardVars PROVE cycle' \in Cycles
    OBVIOUS
  <2>1. ASSUME NEW i, NEW x, Write(i, x) PROVE cycle' \in Cycles
    BY <2>1 DEF Write
  <2>2. ASSUME NEW i \in Ids,
               \/ Create(i) \/ PayInvoice(i) \/ EditEntry(i) \/ Delete(i) \/ SetEntryStatus(i)
        PROVE  cycle' \in Cycles
    BY <2>1, <2>2 DEF Create, PayInvoice, EditEntry, Delete, SetEntryStatus
  <2>3. ASSUME NEW i \in Ids, Settle(i) PROVE cycle' \in Cycles
    BY <2>3 DEF Settle
  <2>4. ASSUME NEW S, DropSource(S) PROVE cycle' \in Cycles
    BY <2>4 DEF DropSource
  <2>5. CASE UpdateAccount \/ Tick \/ UNCHANGED cardVars
    BY <2>5 DEF UpdateAccount, Tick, cardVars
  <2>. QED
    BY <2>2, <2>3, <2>4, <2>5 DEF CardNext
<1>3. cycle \in Cycles => CycleTiles
  BY InvoicesPartition, AllocationClosedLast DEF CycleTiles
<1>. QED
  BY <1>1, <1>2, <1>3, PTL DEF CardSpec


-----------------------------------------------------------------------------
(* The balance of the card is what its rows add up to, less what went with *)
(* the accounts that paid.                                                 *)
Booked == SumFunctionOnSet([i \in Ids |-> Effect(entries[i])], Ids)

CardInv == CardTypeOK /\ balance = Booked - dropped

LEMMA NoneIsNoRow ==
  /\ None \notin Row /\ None.kind = "none" /\ None.status = "PENDING" /\ None.amount = 0
  /\ Effect(None) = 0
BY DEF None, Row, Kinds, Effect

LEMMA EntryTypes ==
  ASSUME NEW x \in Row \cup {None}
  PROVE  Effect(x) \in Int /\ x.amount \in Nat /\ (x # None => x.date \in Int)
<1>1. CASE x = None
  BY <1>1, NoneIsNoRow
<1>2. CASE x \in Row
  <2>1. x.amount \in Nat /\ x.date \in Int
    BY <1>2, InvoicesAssumption, CyclesAssumption DEF Row
  <2> QED
    BY <2>1 DEF Effect
<1> QED
  BY <1>1, <1>2

LEMMA CardTypeFacts ==
  ASSUME CardTypeOK
  PROVE  \A i \in Ids : /\ entries[i].amount \in Nat /\ Effect(entries[i]) \in Int
                        /\ entries[i].status = "COMPLETED" => entries[i].date \in Int
BY EntryTypes, NoneIsNoRow DEF CardTypeOK

LEMMA SumType ==
  ASSUME CardTypeOK, NEW S \in SUBSET Ids
  PROVE  Sum(S) \in Nat /\ IsFiniteSet(S)
<1> DEFINE f == [i \in Ids |-> entries[i].amount]
<1>1. \A x \in S : f[x] \in Nat
  BY CardTypeFacts
<1>2. IsFiniteSet(S)
  BY InvoicesAssumption, FS_Subset
<1> HIDE DEF f
<1>3. SumFunctionOnSet(f, S) \in Nat
  BY <1>1, <1>2, SumNat
<1> QED
  BY <1>2, <1>3 DEF Sum, f

LEMMA InitCardInv == CardInit => CardInv
<1> SUFFICES ASSUME CardInit PROVE CardInv
  OBVIOUS
<1> DEFINE e == [i \in Ids |-> Effect(entries[i])]
<1>1. \A i \in Ids : e[i] = 0
  BY NoneIsNoRow DEF CardInit
<1> HIDE DEF e
<1>2. SumFunctionOnSet(e, Ids) = 0
  BY <1>1, InvoicesAssumption, SumZero
<1>3. Booked = 0
  BY <1>2 DEF Booked, e
<1>4. CardTypeOK
  BY InvoicesAssumption, CyclesAssumption, NoneIsNoRow DEF CardInit, CardTypeOK
<1> QED
  BY <1>3, <1>4 DEF CardInv, CardInit

(* Row i becomes x and the balance follows.                                *)
LEMMA EntryChange ==
  ASSUME CardInv, NEW i \in Ids, NEW x \in Row \cup {None},
         x.kind = "payment" => x.date <= day,
         entries' = [entries EXCEPT ![i] = x],
         balance' = balance - Effect(entries[i]) + Effect(x),
         UNCHANGED <<day, cycle, limit, drops, dropped>>
  PROVE  CardInv'
<1>1. CardTypeOK /\ balance = Booked - dropped /\ balance \in Int /\ dropped \in Nat
  BY DEF CardInv, CardTypeOK
<1>2. Effect(entries[i]) \in Int /\ Effect(x) \in Int
  BY <1>1, CardTypeFacts, EntryTypes
<1>3. CardTypeOK'
  BY <1>1, <1>2 DEF CardTypeOK
<1> DEFINE e == [j \in Ids |-> Effect(entries[j])]
           g == [j \in Ids |-> Effect(entries'[j])]
<1>4. /\ \A j \in Ids : e[j] \in Int /\ g[j] \in Int
      /\ \A j \in Ids \ {i} : g[j] = e[j]
      /\ e[i] = Effect(entries[i]) /\ g[i] = Effect(x)
  BY <1>1, <1>2, CardTypeFacts DEF CardTypeOK
<1> HIDE DEF e, g
<1>5. SumFunctionOnSet(g, Ids) = SumFunctionOnSet(e, Ids) + (g[i] - e[i])
  BY <1>4, InvoicesAssumption, SumChange
<1>6. SumFunctionOnSet(e, Ids) \in Int
  BY <1>4, InvoicesAssumption, SumTypeAndRemove
<1>7. Booked = SumFunctionOnSet(e, Ids) /\ Booked' = SumFunctionOnSet(g, Ids)
  BY DEF Booked, e, g
<1>8. balance' = Booked' - dropped'
  BY <1>1, <1>2, <1>4, <1>5, <1>6, <1>7
<1> QED
  BY <1>3, <1>8 DEF CardInv

(* An account that paid is deleted: its rows go and the balance stays.     *)
LEMMA DropKeepsCard ==
  ASSUME CardInv, NEW S \in SUBSET Ids, DropSource(S)
  PROVE  CardInv'
<1>1. CardTypeOK /\ balance = Booked - dropped /\ balance \in Int /\ dropped \in Nat
  BY DEF CardInv, CardTypeOK
<1>2. PaidFrom(S) \in SUBSET Ids /\ Sum(PaidFrom(S)) \in Nat
  <2>1. PaidFrom(S) \in SUBSET Ids
    BY DEF PaidFrom
  <2> QED
    BY <1>1, <2>1, SumType
<1>3. CardTypeOK'
  <2>1. \A j \in Ids : entries'[j] = entries[j] \/ entries'[j] = None
    BY DEF DropSource
  <2>2. entries' \in [Ids -> Row \cup {None}]
    BY <1>1 DEF CardTypeOK, DropSource
  <2>3. drops' \in 0..MaxDrops /\ dropped' \in Nat /\ UNCHANGED <<day, cycle, limit, balance>>
    BY <1>1, <1>2, InvoicesAssumption DEF CardTypeOK, DropSource
  <2> QED
    BY <1>1, <2>1, <2>2, <2>3, NoneIsNoRow DEF CardTypeOK
<1> DEFINE e == [j \in Ids |-> Effect(entries[j])]
           g == [j \in Ids |-> Effect(entries'[j])]
           amounts == [j \in Ids |-> entries[j].amount]
           p == [j \in Ids |-> IF j \in PaidFrom(S) THEN entries[j].amount ELSE 0]
<1>4. ASSUME NEW j \in Ids
      PROVE  e[j] \in Int /\ p[j] \in Int /\ g[j] = e[j] + p[j] /\ amounts[j] \in Int
  <2>1. entries[j].amount \in Nat /\ Effect(entries[j]) \in Int
    BY <1>1, CardTypeFacts
  <2>2. CASE j \notin S
    BY <2>1, <2>2 DEF DropSource, PaidFrom
  <2>3. CASE j \in S
    <3>1. entries'[j] = None /\ entries[j].kind \in {"payment", "stray"}
      BY <2>3 DEF DropSource
    <3>2. Effect(entries'[j]) = 0
      BY <3>1, NoneIsNoRow
    <3>3. entries[j].status \in {"PENDING", "COMPLETED"}
      BY <1>1 DEF CardTypeOK, Row, None
    <3>4. CASE j \in PaidFrom(S)
      BY <2>1, <3>2, <3>4 DEF PaidFrom, Effect
    <3>5. CASE j \notin PaidFrom(S)
      BY <2>1, <2>3, <3>1, <3>2, <3>3, <3>5 DEF PaidFrom, Effect
    <3> QED
      BY <3>4, <3>5
  <2> QED
    BY <2>2, <2>3
<1>5. \A j \in PaidFrom(S) : p[j] = amounts[j]
  BY <1>2
<1>6. \A j \in Ids \ PaidFrom(S) : p[j] = 0
  OBVIOUS
<1>7. Booked = SumFunctionOnSet(e, Ids) /\ Booked' = SumFunctionOnSet(g, Ids)
      /\ Sum(PaidFrom(S)) = SumFunctionOnSet(amounts, PaidFrom(S))
  BY DEF Booked, Sum
<1> HIDE DEF e, g, p, amounts
<1>8. SumFunctionOnSet(g, Ids) = SumFunctionOnSet(e, Ids) + SumFunctionOnSet(p, Ids)
  BY <1>4, InvoicesAssumption, SumPlus
<1>9. SumFunctionOnSet(p, Ids) = SumFunctionOnSet(amounts, PaidFrom(S))
  BY <1>2, <1>4, <1>5, <1>6, InvoicesAssumption, SumSupport
<1>10. SumFunctionOnSet(e, Ids) \in Int
  BY <1>4, InvoicesAssumption, SumTypeAndRemove
<1>11. balance' = Booked' - dropped'
  BY <1>1, <1>2, <1>7, <1>8, <1>9, <1>10 DEF DropSource
<1> QED
  BY <1>3, <1>11 DEF CardInv

LEMMA NextCardInv == CardInv /\ [CardNext]_cardVars => CardInv'
<1> SUFFICES ASSUME CardInv, [CardNext]_cardVars PROVE CardInv'
  OBVIOUS
<1>0. CardTypeOK /\ balance \in Int
  BY DEF CardInv, CardTypeOK
<1>1. ASSUME NEW i \in Ids, NEW x \in Row \cup {None}, x.kind = "payment" => x.date <= day, Write(i, x)
      PROVE  CardInv'
  BY <1>1, EntryChange DEF Write
<1>2. ASSUME NEW i \in Ids, Create(i) \/ EditEntry(i) PROVE CardInv'
  BY <1>1, <1>2 DEF Create, EditEntry
<1>3. ASSUME NEW i \in Ids, PayInvoice(i) PROVE CardInv'
  <2>1. PICK a \in CardAmounts :
          Write(i, [kind |-> "payment", date |-> day, status |-> "COMPLETED", amount |-> a])
    BY <1>3 DEF PayInvoice
  <2> DEFINE x == [kind |-> "payment", date |-> day, status |-> "COMPLETED", amount |-> a]
  <2>2. x \in Row /\ x.date <= day
    BY <1>0, CyclesAssumption DEF CardTypeOK, Row, Kinds
  <2> HIDE DEF x
  <2> QED
    BY <1>1, <2>1, <2>2 DEF x
<1>4. ASSUME NEW i \in Ids, Delete(i) PROVE CardInv'
  BY <1>1, <1>4, NoneIsNoRow DEF Delete
<1>5. ASSUME NEW i \in Ids, NEW s \in {"PENDING", "COMPLETED"}, entries[i] # None
      PROVE  LET x == [entries[i] EXCEPT !.status = s]
             IN  x \in Row /\ x.kind = entries[i].kind /\ (x.kind = "payment" => x.date <= day)
  BY <1>0, <1>5 DEF CardTypeOK, Row
<1>6. ASSUME NEW i \in Ids, SetEntryStatus(i) PROVE CardInv'
  BY <1>1, <1>5, <1>6 DEF SetEntryStatus
<1>7. ASSUME NEW i \in Ids, Settle(i) PROVE CardInv'
  <2> DEFINE x == [entries[i] EXCEPT !.status = "COMPLETED"]
  <2>1. entries[i] # None
    BY <1>7, NoneIsNoRow DEF Settle, Kinds
  <2>2. x \in Row /\ (x.kind = "payment" => x.date <= day)
    BY <1>5, <2>1
  <2>3. Effect(entries[i]) = 0 /\ Effect(x) \in Int
    BY <1>7, <2>2, EntryTypes DEF Settle, Effect
  <2>4. entries' = [entries EXCEPT ![i] = x] /\ balance' = balance + Effect(x)
        /\ UNCHANGED <<day, cycle, limit, drops, dropped>>
    BY <1>7 DEF Settle
  <2> HIDE DEF x
  <2>5. balance' = balance - Effect(entries[i]) + Effect(x)
    BY <1>0, <2>3, <2>4
  <2> QED
    BY <2>2, <2>4, <2>5, EntryChange
<1>8. ASSUME NEW S \in SUBSET Ids, DropSource(S) PROVE CardInv'
  BY <1>8, DropKeepsCard
<1>9. CASE UpdateAccount \/ Tick \/ UNCHANGED cardVars
  <2>1. entries' = entries /\ balance' = balance /\ dropped' = dropped
    BY <1>9 DEF UpdateAccount, Tick, cardVars
  <2>2. Booked' = Booked
    BY <2>1 DEF Booked
  <2>3. day' \in Days /\ day <= day'
    <3>1. CASE Tick
      <4>1. day \in Days /\ StopDay \in Int /\ StartDay \in Int /\ Days \subseteq Int
        BY <1>0, InvoicesAssumption, CyclesAssumption DEF CardTypeOK
      <4>2. StartDay <= day
        BY <1>0 DEF CardTypeOK
      <4> QED
        BY <3>1, <4>1, <4>2, InvoicesAssumption DEF Tick
    <3>2. CASE day' = day
      BY <1>0, <3>2, CyclesAssumption DEF CardTypeOK
    <3> QED
      BY <1>9, <3>1, <3>2 DEF UpdateAccount, cardVars
  <2>4. \A i \in Ids : entries[i].kind = "payment" => entries[i].date \in Int /\ entries[i].date <= day
    BY <1>0, NoneIsNoRow, EntryTypes DEF CardTypeOK
  <2>5. \A i \in Ids : entries'[i].kind = "payment" => entries'[i].date <= day'
    BY <1>0, <2>1, <2>3, <2>4, CyclesAssumption DEF CardTypeOK
  <2>6. cycle' \in Cycles /\ limit' \in Limits \cup {NoLimit} /\ drops' = drops
    BY <1>0, <1>9 DEF UpdateAccount, Tick, cardVars, CardTypeOK
  <2>7. StartDay <= day'
    BY <1>0, <2>3, InvoicesAssumption, CyclesAssumption DEF CardTypeOK
  <2>8. CardTypeOK'
    BY <1>0, <2>1, <2>3, <2>5, <2>6, <2>7 DEF CardTypeOK
  <2> QED
    BY <2>1, <2>2, <2>8 DEF CardInv
<1> QED
  BY <1>2, <1>3, <1>4, <1>6, <1>7, <1>8, <1>9 DEF CardNext


-----------------------------------------------------------------------------
(* What is left of an invoice, over the rows at once: the charges up to    *)
(* its closing less everything that has been paid.                         *)
ChargesUpTo(k) == {i \in Posted : ~IsPayment(i) /\ entries[i].date <= PeriodEnd(cycle, k)}
Credits        == {i \in Posted : IsPayment(i)}

LEMMA PeriodFacts ==
  ASSUME NEW c \in Cycles, NEW k \in 1..LastMonth
  PROVE  /\ PeriodStart(c, k) \in Int /\ PeriodEnd(c, k) \in Int
         /\ PeriodStart(c, k) <= PeriodEnd(c, k)
         /\ k + 1 \in 1..LastMonth => PeriodEnd(c, k) <= PeriodEnd(c, k + 1)
<1>1. k \in Months /\ k - 1 \in Months /\ k - 1 < k /\ (k + 1 \in 1..LastMonth => k + 1 \in Months /\ k < k + 1)
  BY CalendarAssumption DEF Months
<1>2. c.closingDaysBeforeDue \in Int
  BY CyclesAssumption
<1>3. DueOf(c, k) \in Int /\ DueOf(c, k - 1) \in Int /\ DueOf(c, k - 1) < DueOf(c, k)
  BY <1>1, DueInMonth, DueIncreases
<1>4. k + 1 \in 1..LastMonth => DueOf(c, k + 1) \in Int /\ DueOf(c, k) < DueOf(c, k + 1)
  BY <1>1, DueInMonth, DueIncreases
<1> QED
  BY <1>2, <1>3, <1>4 DEF PeriodStart, PeriodEnd, ClosingOf

LEMMA SumOfParts ==
  ASSUME CardTypeOK, NEW A \in SUBSET Ids, NEW B \in SUBSET Ids, A \cap B = {}
  PROVE  Sum(A \cup B) = Sum(A) + Sum(B)
<1> DEFINE f == [i \in Ids |-> entries[i].amount]
<1>1. \A i \in A \cup B : f[i] \in Int
  BY CardTypeFacts
<1>2. IsFiniteSet(A) /\ IsFiniteSet(B)
  BY SumType
<1> HIDE DEF f
<1>3. SumFunctionOnSet(f, A \cup B) = SumFunctionOnSet(f, A) + SumFunctionOnSet(f, B)
  BY <1>1, <1>2, SumParts
<1> QED
  BY <1>3 DEF Sum, f

LEMMA RemainingIs ==
  ASSUME CardTypeOK, NEW k \in 1..LastMonth
  PROVE  /\ Sum(ChargesUpTo(k)) \in Nat /\ Sum(Credits) \in Nat
         /\ Remaining(k) = AtLeastZero(Sum(ChargesUpTo(k)) - Sum(Credits))
<1> DEFINE E == Earlier(k)
           W == WithinPeriod(k)
           A == AfterClosing(k)
           s == PeriodStart(cycle, k)
           e == PeriodEnd(cycle, k)
           ch(S) == {i \in S : ~IsPayment(i)}
           pay(S) == {i \in S : IsPayment(i)}
<1>1. s \in Int /\ e \in Int /\ s <= e
  BY PeriodFacts DEF CardTypeOK
<1>2. Posted \subseteq Ids /\ \A i \in Posted : entries[i].date \in Int
  BY CardTypeFacts DEF Posted
<1>3. /\ E = {i \in Posted : entries[i].date < s}
      /\ W = {i \in Posted : s <= entries[i].date /\ entries[i].date <= e}
      /\ A = {i \in Posted : entries[i].date > e}
  BY DEF Earlier, WithinPeriod, AfterClosing, Within
<1> HIDE DEF E, W, A, s, e
<1>4. E \cap W = {} /\ (E \cup W) \cap A = {} /\ E \cup W \cup A = Posted
      /\ E \cup W = {i \in Posted : entries[i].date <= e}
  BY <1>1, <1>2, <1>3
<1>5. /\ ch(E) \in SUBSET Ids /\ ch(W) \in SUBSET Ids /\ ch(E) \cap ch(W) = {}
      /\ pay(E) \in SUBSET Ids /\ pay(W) \in SUBSET Ids /\ pay(A) \in SUBSET Ids
      /\ pay(E) \cup pay(W) \in SUBSET Ids
      /\ pay(E) \cap pay(W) = {} /\ (pay(E) \cup pay(W)) \cap pay(A) = {}
  BY <1>2, <1>4
<1>6. ChargesUpTo(k) = ch(E) \cup ch(W) /\ Credits = (pay(E) \cup pay(W)) \cup pay(A)
  BY <1>4 DEF ChargesUpTo, Credits, e
<1> HIDE DEF ch, pay
<1>7. /\ Sum(ch(E) \cup ch(W)) = Sum(ch(E)) + Sum(ch(W))
      /\ Sum(pay(E) \cup pay(W)) = Sum(pay(E)) + Sum(pay(W))
      /\ Sum((pay(E) \cup pay(W)) \cup pay(A)) = Sum(pay(E) \cup pay(W)) + Sum(pay(A))
  BY <1>5, SumOfParts
<1>8. /\ Sum(ch(E)) \in Nat /\ Sum(ch(W)) \in Nat
      /\ Sum(pay(E)) \in Nat /\ Sum(pay(W)) \in Nat /\ Sum(pay(A)) \in Nat
  BY <1>5, SumType
<1>9. /\ Charges(E) = Sum(ch(E)) /\ Charges(W) = Sum(ch(W))
      /\ Payments(E) = Sum(pay(E)) /\ Payments(W) = Sum(pay(W)) /\ Payments(A) = Sum(pay(A))
  BY DEF Charges, Payments, ch, pay
<1>10. Total(k) - Payments(AfterClosing(k)) = Sum(ChargesUpTo(k)) - Sum(Credits)
  <2>1. Total(k) = (Charges(E) - Payments(E)) + Charges(W) - Payments(W)
    BY DEF Total, PreviousBalance, E, W
  <2> QED
    BY <1>6, <1>7, <1>8, <1>9, <2>1 DEF A
<1>11. Sum(ChargesUpTo(k)) \in Nat /\ Sum(Credits) \in Nat
  BY <1>6, <1>7, <1>8
<1> QED
  BY <1>10, <1>11 DEF Remaining

LEMMA RemainingType ==
  ASSUME CardTypeOK, NEW k \in 1..LastMonth
  PROVE  Remaining(k) \in Nat
BY RemainingIs DEF AtLeastZero

(* The invoice that is open today has all the charges of the card.         *)
LEMMA CurrentIsOpen ==
  ASSUME CardTypeOK
  PROVE  CurrentKey \in 1..LastMonth /\ day \in Int /\ day <= PeriodEnd(cycle, CurrentKey)
<1>1. cycle \in Cycles /\ day \in Days /\ day \in Int
  BY CyclesAssumption DEF CardTypeOK
<1>2. MonthOf(day + cycle.closingDaysBeforeDue) \in 1..(LastMonth - 1)
  BY <1>1, MonthHolds
<1>3. CurrentKey \in 1..LastMonth
  BY <1>2, CalendarAssumption DEF CurrentKey, InvoiceKeyFor
<1>4. Within(cycle, CurrentKey, day)
  BY <1>1, <1>3, InvoicesPartition DEF OneInvoiceADay, CurrentKey
<1> QED
  BY <1>1, <1>3, <1>4 DEF Within

(* The amounts of rows T, and nothing of the others.                       *)
Part(T) == [i \in Ids |-> IF i \in T THEN entries[i].amount ELSE 0]

LEMMA PartSum ==
  ASSUME CardTypeOK, NEW T \in SUBSET Ids
  PROVE  /\ SumFunctionOnSet(Part(T), Ids) = Sum(T)
         /\ \A i \in Ids : Part(T)[i] \in Int
         /\ \A i \in T : Part(T)[i] = entries[i].amount
         /\ \A i \in Ids \ T : Part(T)[i] = 0
<1> DEFINE f == [i \in Ids |-> entries[i].amount]
           g == Part(T)
<1>1. /\ \A i \in Ids : f[i] \in Int /\ f[i] = entries[i].amount /\ g[i] \in Int
      /\ \A i \in T : g[i] = f[i]
      /\ \A i \in Ids \ T : g[i] = 0
  BY CardTypeFacts DEF Part
<1>2. Sum(T) = SumFunctionOnSet(f, T)
  BY DEF Sum
<1> HIDE DEF f, g
<1>3. SumFunctionOnSet(g, Ids) = SumFunctionOnSet(f, T)
  BY <1>1, InvoicesAssumption, SumSupport
<1> QED
  BY <1>1, <1>2, <1>3 DEF g

(* Two functions that add up, row for row.                                 *)
LEMMA SumBoth ==
  ASSUME NEW f, NEW g, \A i \in Ids : f[i] \in Int /\ g[i] \in Int
  PROVE  LET h == [i \in Ids |-> f[i] + g[i]]
         IN  /\ SumFunctionOnSet(h, Ids) = SumFunctionOnSet(f, Ids) + SumFunctionOnSet(g, Ids)
             /\ \A i \in Ids : h[i] \in Int /\ h[i] = f[i] + g[i]
<1> DEFINE h == [i \in Ids |-> f[i] + g[i]]
<1>1. \A i \in Ids : h[i] \in Int /\ h[i] = f[i] + g[i]
  OBVIOUS
<1> HIDE DEF h
<1>2. SumFunctionOnSet(h, Ids) = SumFunctionOnSet(f, Ids) + SumFunctionOnSet(g, Ids)
  BY <1>1, InvoicesAssumption, SumPlus
<1> QED
  BY <1>1, <1>2 DEF h

LEMMA CardMatches == CardInv => InvoiceMatchesCard
<1> SUFFICES ASSUME CardInv, NoneAhead
             PROVE  /\ Remaining(CurrentKey) = AtLeastZero(balance + dropped - Misread)
                    /\ limit # NoLimit /\ AvailableLimit(CurrentKey) > Misread
                         => Accepts(balance, AvailableLimit(CurrentKey) - Misread)
  BY DEF InvoiceMatchesCard
<1> DEFINE k == CurrentKey
           C == ChargesUpTo(k)
           P == Credits
           S == CompletedOf("stray")
           L == CompletedOf("looped")
<1>1. /\ CardTypeOK /\ balance = Booked - dropped /\ balance \in Int /\ dropped \in Nat
      /\ limit # NoLimit => limit \in Int
  BY InvoicesAssumption DEF CardInv, CardTypeOK
<1>2. k \in 1..LastMonth /\ day \in Int /\ day <= PeriodEnd(cycle, k) /\ PeriodEnd(cycle, k) \in Int
  BY <1>1, CurrentIsOpen, PeriodFacts DEF CardTypeOK
<1>3. C = {i \in Posted : entries[i].kind = "charge"}
  BY <1>1, <1>2, CardTypeFacts DEF ChargesUpTo, Posted, IsPayment
<1>4. /\ C \in SUBSET Ids /\ P \in SUBSET Ids /\ S \in SUBSET Ids /\ L \in SUBSET Ids
      /\ Sum(C) \in Int /\ Sum(P) \in Int /\ Sum(S) \in Nat /\ Sum(L) \in Nat
  <2>1. C \in SUBSET Ids /\ P \in SUBSET Ids /\ S \in SUBSET Ids /\ L \in SUBSET Ids
    BY DEF ChargesUpTo, Credits, Posted, CompletedOf
  <2> HIDE DEF C, P, S, L
  <2> QED
    BY <1>1, <2>1, SumType
<1>5. Booked = Sum(C) - Sum(P) + Sum(S) + 2 * Sum(L)
  <2> DEFINE e == [i \in Ids |-> Effect(entries[i])]
             c == Part(C)
             p == Part(P)
             s == Part(S)
             l == Part(L)
  <2>1. ASSUME NEW i \in Ids PROVE e[i] \in Int /\ e[i] + p[i] = ((c[i] + s[i]) + l[i]) + l[i]
    <3>1. entries[i].amount \in Nat /\ Effect(entries[i]) \in Int
      BY <1>1, CardTypeFacts
    <3>2. i \in Posted <=> entries[i].status = "COMPLETED"
      BY DEF Posted, NoneAhead
    <3>3. /\ entries[i].status \in {"PENDING", "COMPLETED"}
          /\ entries[i].status = "COMPLETED" => entries[i].kind \in Kinds
      BY <1>1 DEF CardTypeOK, Row, None
    <3>4. /\ i \in C <=> entries[i].status = "COMPLETED" /\ entries[i].kind = "charge"
          /\ i \in P <=> entries[i].status = "COMPLETED" /\ entries[i].kind # "charge"
          /\ i \in S <=> entries[i].status = "COMPLETED" /\ entries[i].kind = "stray"
          /\ i \in L <=> entries[i].status = "COMPLETED" /\ entries[i].kind = "looped"
      BY <1>3, <3>2 DEF Credits, IsPayment, CompletedOf
    <3>5. Effect(entries[i]) = IF entries[i].status = "PENDING" THEN 0
                               ELSE IF entries[i].kind \in {"charge", "looped"} THEN entries[i].amount
                               ELSE IF entries[i].kind = "stray" THEN 0 ELSE -entries[i].amount
      BY <3>3 DEF Effect, Kinds
    <3>6. /\ c[i] = IF i \in C THEN entries[i].amount ELSE 0
          /\ p[i] = IF i \in P THEN entries[i].amount ELSE 0
          /\ s[i] = IF i \in S THEN entries[i].amount ELSE 0
          /\ l[i] = IF i \in L THEN entries[i].amount ELSE 0
          /\ e[i] = Effect(entries[i])
      BY DEF Part
    <3> DEFINE a == entries[i].amount
    <3> HIDE DEF a, e, c, p, s, l, C, P, S, L
    <3>7. e[i] + p[i] = ((c[i] + s[i]) + l[i]) + l[i]
      <4>1. CASE entries[i].status = "PENDING"
        BY <3>4, <3>5, <3>6, <4>1
      <4>2. CASE entries[i].status = "COMPLETED" /\ entries[i].kind = "charge"
        BY <3>1, <3>4, <3>5, <3>6, <4>2
      <4>3. CASE entries[i].status = "COMPLETED" /\ entries[i].kind = "stray"
        BY <3>1, <3>4, <3>5, <3>6, <4>3
      <4>4. CASE entries[i].status = "COMPLETED" /\ entries[i].kind = "looped"
        BY <3>1, <3>4, <3>5, <3>6, <4>4
      <4>5. CASE entries[i].status = "COMPLETED" /\ entries[i].kind \in {"refund", "payment"}
        BY <3>1, <3>4, <3>5, <3>6, <4>5
      <4> QED
        BY <3>3, <4>1, <4>2, <4>3, <4>4, <4>5 DEF Kinds
    <3> QED
      BY <3>1, <3>6, <3>7
  <2>2. /\ \A i \in Ids : c[i] \in Int /\ p[i] \in Int /\ s[i] \in Int /\ l[i] \in Int
        /\ SumFunctionOnSet(c, Ids) = Sum(C) /\ SumFunctionOnSet(p, Ids) = Sum(P)
        /\ SumFunctionOnSet(s, Ids) = Sum(S) /\ SumFunctionOnSet(l, Ids) = Sum(L)
    <3> HIDE DEF C, P, S, L
    <3> QED
      BY <1>1, <1>4, PartSum
  <2>3. Booked = SumFunctionOnSet(e, Ids)
    BY DEF Booked
  <2> DEFINE u == [i \in Ids |-> c[i] + s[i]]
             v == [i \in Ids |-> u[i] + l[i]]
  <2> HIDE DEF e, c, p, s, l, C, P, S, L, k
  <2>4. /\ SumFunctionOnSet(u, Ids) = Sum(C) + Sum(S)
        /\ \A i \in Ids : u[i] \in Int /\ u[i] = c[i] + s[i]
    BY <2>2, SumBoth
  <2> HIDE DEF u
  <2>5. /\ SumFunctionOnSet(v, Ids) = Sum(C) + Sum(S) + Sum(L)
        /\ \A i \in Ids : v[i] \in Int /\ v[i] = u[i] + l[i]
    BY <2>2, <2>4, SumBoth
  <2> HIDE DEF v
  <2> DEFINE w == [i \in Ids |-> v[i] + l[i]]
  <2>6. /\ SumFunctionOnSet(w, Ids) = Sum(C) + Sum(S) + Sum(L) + Sum(L)
        /\ \A i \in Ids : w[i] \in Int /\ w[i] = v[i] + l[i]
    BY <2>2, <2>5, SumBoth
  <2> HIDE DEF w
  <2>7. \A i \in Ids : e[i] \in Int /\ p[i] \in Int /\ w[i] = e[i] + p[i]
    BY <2>1, <2>2, <2>4, <2>5, <2>6
  <2>8. SumFunctionOnSet(w, Ids) = SumFunctionOnSet(e, Ids) + SumFunctionOnSet(p, Ids)
    BY <2>7, InvoicesAssumption, SumPlus
  <2>9. SumFunctionOnSet(e, Ids) \in Int
    BY <2>7, InvoicesAssumption, SumTypeAndRemove
  <2> QED
    BY <1>4, <2>2, <2>3, <2>6, <2>8, <2>9
<1> DEFINE m == Misread
<1>6. m = Sum(S) + 2 * Sum(L) /\ m \in Nat
  <2>1. m = Sum(S) + 2 * Sum(L)
    BY DEF Misread
  <2> HIDE DEF m, S, L
  <2> QED
    BY <1>4, <2>1
<1> HIDE DEF k, m, C, P, S, L
<1>7. Remaining(k) = AtLeastZero(balance + dropped - m) /\ Remaining(k) \in Nat
  <2>1. Remaining(k) = AtLeastZero(Sum(C) - Sum(P))
    BY <1>1, <1>2, RemainingIs DEF C, P
  <2>2. Sum(C) - Sum(P) = balance + dropped - m
    BY <1>1, <1>4, <1>5, <1>6
  <2> QED
    BY <1>1, <1>2, <2>1, <2>2, RemainingType
<1>8. PendingAmount(k) \in Nat
  BY <1>1, SumType DEF PendingAmount
<1>9. limit # NoLimit /\ AvailableLimit(k) > m =>
        AvailableLimit(k) - m \in Int /\ AvailableLimit(k) - m > 0 /\ AvailableLimit(k) - m <= limit - balance
  BY <1>1, <1>6, <1>7, <1>8 DEF AvailableLimit, AtLeastZero
<1>10. limit # NoLimit /\ AvailableLimit(k) > m => Accepts(balance, AvailableLimit(k) - m)
  BY <1>9 DEF Accepts
<1> QED
  BY <1>7, <1>10 DEF k, m

LEMMA DebtCarries == CardTypeOK => DebtCarriesOver
<1> SUFFICES ASSUME CardTypeOK, NEW k \in Keys PROVE Remaining(k) <= Remaining(k + 1)
  BY DEF DebtCarriesOver
<1>1. k \in 1..LastMonth /\ k + 1 \in 1..LastMonth
  BY CalendarAssumption DEF Keys
<1>2. ChargesUpTo(k) \subseteq ChargesUpTo(k + 1) /\ ChargesUpTo(k + 1) \in SUBSET Ids
  <2>1. PeriodEnd(cycle, k) <= PeriodEnd(cycle, k + 1) /\ PeriodEnd(cycle, k) \in Int /\ PeriodEnd(cycle, k + 1) \in Int
    BY <1>1, PeriodFacts DEF CardTypeOK
  <2> QED
    BY <2>1, CardTypeFacts DEF ChargesUpTo, Posted
<1>3. Sum(ChargesUpTo(k)) <= Sum(ChargesUpTo(k + 1))
  <2> DEFINE f == [i \in Ids |-> entries[i].amount]
  <2>1. \A i \in ChargesUpTo(k + 1) : f[i] \in Nat
    BY <1>2, CardTypeFacts
  <2>2. IsFiniteSet(ChargesUpTo(k + 1))
    BY <1>2, SumType
  <2> HIDE DEF f
  <2>3. SumFunctionOnSet(f, ChargesUpTo(k)) <= SumFunctionOnSet(f, ChargesUpTo(k + 1))
    BY <1>2, <2>1, <2>2, SumMonotone
  <2> QED
    BY <2>3 DEF Sum, f
<1>4. /\ Sum(ChargesUpTo(k)) \in Nat /\ Sum(ChargesUpTo(k + 1)) \in Nat /\ Sum(Credits) \in Nat
      /\ Remaining(k) = AtLeastZero(Sum(ChargesUpTo(k)) - Sum(Credits))
      /\ Remaining(k + 1) = AtLeastZero(Sum(ChargesUpTo(k + 1)) - Sum(Credits))
  BY <1>1, RemainingIs
<1> QED
  BY <1>3, <1>4 DEF AtLeastZero


(* The same of every invoice and of every row, in the next state.          *)
LEMMA InvoicesTyped ==
  CardTypeOK => \A k \in 1..LastMonth :
    /\ Sum(ChargesUpTo(k)) \in Nat /\ Sum(Credits) \in Nat
    /\ Remaining(k) = AtLeastZero(Sum(ChargesUpTo(k)) - Sum(Credits))
BY RemainingIs

LEMMA InvoicesTypedNext ==
  CardTypeOK' => \A k \in 1..LastMonth :
    /\ Sum(ChargesUpTo(k))' \in Nat /\ Sum(Credits)' \in Nat
    /\ Remaining(k)' = AtLeastZero(Sum(ChargesUpTo(k))' - Sum(Credits)')
<1>1. (CardTypeOK => \A k \in 1..LastMonth :
         /\ Sum(ChargesUpTo(k)) \in Nat /\ Sum(Credits) \in Nat
         /\ Remaining(k) = AtLeastZero(Sum(ChargesUpTo(k)) - Sum(Credits)))'
  BY InvoicesTyped, PTL
<1> QED
  BY <1>1 DEF AtLeastZero

LEMMA EntriesTypedNext ==
  CardTypeOK' => \A i \in Ids :
    /\ entries'[i].amount \in Nat
    /\ entries'[i].status = "COMPLETED" => entries'[i].date \in Int
BY EntryTypes, NoneIsNoRow DEF CardTypeOK

(* No step but a change of the charges or payments that an invoice counts  *)
(* makes it owe more.                                                      *)
StaysPaid(k) ==
  PeriodEnd(cycle, k) < day /\ Paid(k) /\ Remaining(k)' > 0
    => \/ cycle' # cycle
       \/ \E i \in Ids : /\ entries'[i] # entries[i]
                         /\ \/ IsPayment(i) /\ entries[i] # None
                            \/ entries'[i].kind = "charge" /\ entries'[i].date <= PeriodEnd(cycle, k)

LEMMA PaidStays ==
  ASSUME CardTypeOK, CardTypeOK', NEW k \in Keys, day <= day'
  PROVE  StaysPaid(k)
<1> SUFFICES ASSUME Remaining(k) = 0, PeriodEnd(cycle, k) < day, cycle' = cycle,
                    \A i \in Ids : entries'[i] # entries[i] =>
                      /\ entries[i] = None \/ ~IsPayment(i)
                      /\ ~(entries'[i].kind = "charge" /\ entries'[i].date <= PeriodEnd(cycle, k))
             PROVE  Remaining(k)' <= 0
  <2>1. Remaining(k)' \in Int
    <3>1. k \in 1..LastMonth
      BY CalendarAssumption DEF Keys
    <3>2. /\ Sum(ChargesUpTo(k))' \in Nat /\ Sum(Credits)' \in Nat
          /\ Remaining(k)' = AtLeastZero(Sum(ChargesUpTo(k))' - Sum(Credits)')
      BY <3>1, InvoicesTypedNext
    <3> QED
      BY <3>2 DEF AtLeastZero
  <2> QED
    BY <2>1 DEF StaysPaid, Paid
<1>1. k \in 1..LastMonth /\ day \in Int /\ day' \in Int /\ PeriodEnd(cycle, k) \in Int
  BY CalendarAssumption, CyclesAssumption, PeriodFacts, SMTT(30) DEF Keys, CardTypeOK
<1> DEFINE e == PeriodEnd(cycle, k)
           amounts == [i \in Ids |-> entries[i].amount]
           after == [i \in Ids |-> entries'[i].amount]
           C == ChargesUpTo(k)
           D == ChargesUpTo(k)'
           P == Credits
           Q == Credits'
<1>2. \A i \in Ids : /\ entries[i].amount \in Nat /\ entries'[i].amount \in Nat
                     /\ entries[i].status = "COMPLETED" => entries[i].date \in Int
                     /\ entries'[i].status = "COMPLETED" => entries'[i].date \in Int
  <2>1. \A i \in Ids : /\ entries'[i].amount \in Nat
                       /\ entries'[i].status = "COMPLETED" => entries'[i].date \in Int
    BY EntriesTypedNext
  <2>2. \A i \in Ids : /\ entries[i].amount \in Nat
                       /\ entries[i].status = "COMPLETED" => entries[i].date \in Int
    BY CardTypeFacts
  <2> QED
    BY <2>1, <2>2
<1>3. D \subseteq C /\ C \subseteq Ids /\ \A i \in D : entries'[i] = entries[i]
  <2>1. ASSUME NEW i \in D PROVE i \in C /\ entries'[i] = entries[i]
    <3>1. i \in Ids /\ entries'[i].kind = "charge" /\ entries'[i].status = "COMPLETED" /\ entries'[i].date <= e
      BY <2>1 DEF ChargesUpTo, Posted, IsPayment
    <3>2. entries'[i] = entries[i]
      BY <3>1
    <3> QED
      BY <1>1, <1>2, <3>1, <3>2 DEF ChargesUpTo, Posted, IsPayment
  <2>2. C \subseteq Ids
    BY DEF ChargesUpTo, Posted
  <2> QED
    BY <2>1, <2>2
<1>4. P \subseteq Q /\ Q \subseteq Ids /\ \A i \in P : entries'[i] = entries[i]
  <2>1. ASSUME NEW i \in P PROVE i \in Q /\ entries'[i] = entries[i]
    <3>1. i \in Ids /\ IsPayment(i) /\ entries[i].status = "COMPLETED" /\ entries[i].date <= day
      BY <2>1 DEF Credits, Posted
    <3>2. entries[i] # None
      BY <3>1, NoneIsNoRow
    <3>3. entries'[i] = entries[i]
      BY <3>1, <3>2
    <3>4. entries[i].date \in Int /\ entries[i].date <= day'
      BY <1>1, <1>2, <3>1
    <3> QED
      BY <3>1, <3>3, <3>4 DEF Credits, Posted, IsPayment
  <2>2. Q \subseteq Ids
    BY DEF Credits, Posted
  <2> QED
    BY <2>1, <2>2
<1>5. /\ Sum(C) = SumFunctionOnSet(amounts, C) /\ Sum(P) = SumFunctionOnSet(amounts, P)
      /\ Sum(ChargesUpTo(k))' = SumFunctionOnSet(after, D) /\ Sum(Credits)' = SumFunctionOnSet(after, Q)
  BY DEF Sum
<1>6. /\ \A i \in Ids : amounts[i] \in Nat /\ after[i] \in Nat
      /\ \A i \in D \cup P : after[i] = amounts[i]
  BY <1>2, <1>3, <1>4
<1>7. /\ Sum(C) \in Nat /\ Sum(P) \in Nat
      /\ Remaining(k) = AtLeastZero(Sum(C) - Sum(P))
  BY <1>1, RemainingIs
<1>8. /\ Sum(ChargesUpTo(k))' \in Nat /\ Sum(Credits)' \in Nat
      /\ Remaining(k)' = AtLeastZero(Sum(ChargesUpTo(k))' - Sum(Credits)')
  BY <1>1, InvoicesTypedNext
<1> HIDE DEF amounts, after, C, D, P, Q
<1>9. IsFiniteSet(C) /\ IsFiniteSet(D) /\ IsFiniteSet(P) /\ IsFiniteSet(Q)
  BY <1>3, <1>4, InvoicesAssumption, FS_Subset
<1>10. SumFunctionOnSet(after, D) <= SumFunctionOnSet(amounts, C)
  <2>1. SumFunctionOnSet(after, D) = SumFunctionOnSet(amounts, D)
    BY <1>3, <1>6, <1>9, SumSame
  <2>2. SumFunctionOnSet(amounts, D) <= SumFunctionOnSet(amounts, C)
    BY <1>3, <1>6, <1>9, SumMonotone
  <2> QED
    BY <2>1, <2>2
<1>11. SumFunctionOnSet(amounts, P) <= SumFunctionOnSet(after, Q)
  <2>1. SumFunctionOnSet(after, P) = SumFunctionOnSet(amounts, P)
    BY <1>4, <1>6, <1>9, SumSame
  <2>2. SumFunctionOnSet(after, P) <= SumFunctionOnSet(after, Q)
    BY <1>4, <1>6, <1>9, SumMonotone
  <2> QED
    BY <2>1, <2>2
<1> QED
  BY <1>5, <1>7, <1>8, <1>10, <1>11 DEF AtLeastZero

(* The day never goes back.                                                *)
LEMMA DaysPass == ASSUME CardTypeOK, [CardNext]_cardVars PROVE day <= day'
<1>1. day \in Int
  BY CyclesAssumption DEF CardTypeOK
<1>2. CASE Tick
  BY <1>1, <1>2 DEF Tick
<1>3. CASE day' = day
  BY <1>1, <1>3
<1>4. ASSUME NEW i, NEW x, Write(i, x) PROVE day' = day
  BY <1>4 DEF Write
<1>5. ASSUME NEW i \in Ids,
             \/ Create(i) \/ PayInvoice(i) \/ EditEntry(i) \/ Delete(i) \/ SetEntryStatus(i)
      PROVE  day' = day
  BY <1>4, <1>5 DEF Create, PayInvoice, EditEntry, Delete, SetEntryStatus
<1>6. ASSUME NEW i \in Ids, Settle(i) PROVE day' = day
  BY <1>6 DEF Settle
<1>7. ASSUME NEW S, DropSource(S) PROVE day' = day
  BY <1>7 DEF DropSource
<1>8. CASE UpdateAccount \/ UNCHANGED cardVars
  BY <1>3, <1>8 DEF UpdateAccount, cardVars
<1> QED
  BY <1>2, <1>3, <1>5, <1>6, <1>7, <1>8 DEF CardNext

(* The state of a card keeps its type.                                     *)
THEOREM CardTypeCorrect == CardSpec => []CardTypeOK
<1>1. CardInv => CardTypeOK
  BY DEF CardInv
<1> QED
  BY <1>1, InitCardInv, NextCardInv, PTL DEF CardSpec

(* What the open invoice asks for is what the card takes as a payment, but *)
(* for what deleted accounts had paid and rows that name the card as their *)
(* destination unchecked, for any rows, amounts, limits and cycles.        *)
THEOREM InvoiceAndCardAgree == CardSpec => []InvoiceMatchesCard
BY InitCardInv, NextCardInv, CardMatches, PTL DEF CardSpec

(* Debt is carried from invoice to invoice.                                *)
THEOREM DebtIsCarried == CardSpec => []DebtCarriesOver
<1>1. CardInv => CardTypeOK
  BY DEF CardInv
<1> QED
  BY <1>1, InitCardInv, NextCardInv, DebtCarries, PTL DEF CardSpec

(* A closed and paid invoice is reopened only by changes of its own rows,  *)
(* lost payments and other cycles.                                         *)
THEOREM PaidRemainsPaid == CardSpec => PaidStaysPaid
<1>1. CardInv => CardTypeOK
  BY DEF CardInv
<1>2. CardTypeOK /\ CardTypeOK' /\ [CardNext]_cardVars => [\A k \in Keys : StaysPaid(k)]_cardVars
  BY PaidStays, DaysPass
<1>3. CardSpec => [][\A k \in Keys : StaysPaid(k)]_cardVars
  BY <1>1, <1>2, InitCardInv, NextCardInv, PTL DEF CardSpec
<1> QED
  BY <1>3 DEF PaidStaysPaid, StaysPaid

-----------------------------------------------------------------------------
(***************************************************************************)
(* The estimate of the month: each expense of it counts once, whatever the *)
(* past months, the amounts and the order of the bills and of the rows.    *)
(* The closest of the rows like a bill is one row, so adding a row to a    *)
(* pool leaves after each bill the same pool and another row, or one bill  *)
(* more settled; and what is set aside for today shrinks by no more than   *)
(* what is spent today.                                                    *)
(***************************************************************************)

(* Rows are listed one before another, and so is the closest of them one.  *)

AnyExpense ==
  [id : Nat, day : Nat, category : Categories, amount : Nat \ {0}, pending : BOOLEAN]

LEMMA ExpensesAre ==
  ASSUME NEW age \in 0..LookBack
  PROVE  PlainExpense(age) \subseteq AnyExpense
<1>1. Length[age] \in Nat
  BY EstimateAssumption
<1>2. DaysOf(age) \subseteq Nat
  BY <1>1 DEF DaysOf
<1> QED
  BY <1>2 DEF PlainExpense, AnyExpense

LEMMA GapIs ==
  ASSUME NEW x \in AnyExpense, NEW target, target.amount \in Int
  PROVE  /\ Gap(x, target) \in Nat
         /\ Gap(x, target) = IF x.amount >= target.amount THEN x.amount - target.amount
                             ELSE target.amount - x.amount
<1>1. x.amount \in Int
  BY DEF AnyExpense
<1> QED
  BY <1>1, PairBounds DEF Gap

(* Of some rows, those of the least gap, then day, then id: one of them.   *)
LEMMA ClosestExists ==
  ASSUME NEW S \in SUBSET AnyExpense, S # {}, Distinct(S), NEW target, target.amount \in Int
  PROVE  \E c \in S : \A y \in S \ {c} : Closer(c, y, target)
<1> DEFINE gap(x) == Gap(x, target)
           Gaps == {gap(x) : x \in S}
<1>1. \A x \in S : gap(x) \in Nat /\ x.day \in Nat /\ x.id \in Nat
  BY GapIs DEF AnyExpense
<1> HIDE DEF gap
<1>2. PICK g \in Gaps : \A n \in Gaps : g <= n
  <2>1. Gaps \in SUBSET Nat /\ Gaps # {}
    BY <1>1
  <2> QED
    BY <2>1, LeastNatural
<1> DEFINE S1 == {x \in S : gap(x) = g}
           DaysIn == {x.day : x \in S1}
<1>3. PICK d \in DaysIn : \A n \in DaysIn : d <= n
  <2>1. DaysIn \in SUBSET Nat /\ DaysIn # {}
    BY <1>1, <1>2
  <2> QED
    BY <2>1, LeastNatural
<1> DEFINE S2 == {x \in S1 : x.day = d}
           IdsIn == {x.id : x \in S2}
<1>4. PICK i \in IdsIn : \A n \in IdsIn : i <= n
  <2>1. IdsIn \in SUBSET Nat /\ IdsIn # {}
    BY <1>1, <1>3
  <2> QED
    BY <2>1, LeastNatural
<1>5. PICK c \in S2 : c.id = i
  BY <1>4
<1>6. ASSUME NEW y \in S, y # c PROVE Closer(c, y, target)
  <2>1. c \in S /\ gap(c) = g /\ c.day = d
    BY <1>5
  <2>2. y.id # c.id
    BY <1>6, <2>1 DEF Distinct
  <2>3. CASE gap(y) # g
    <3>1. g < gap(y)
      BY <1>1, <1>2, <2>1, <2>3
    <3> QED
      BY <2>1, <3>1 DEF Closer, gap
  <2>4. CASE gap(y) = g /\ y.day # d
    <3>1. d < y.day
      BY <1>1, <1>3, <2>1, <2>4
    <3> QED
      BY <2>1, <2>4, <3>1 DEF Closer, ListedBefore, gap
  <2>5. CASE gap(y) = g /\ y.day = d
    <3>1. c.id < y.id
      BY <1>1, <1>4, <1>5, <2>1, <2>2, <2>5
    <3> QED
      BY <2>1, <2>5, <3>1 DEF Closer, ListedBefore, gap
  <2> QED
    BY <2>3, <2>4, <2>5
<1> QED
  BY <1>5, <1>6

LEMMA CloserIsStrict ==
  ASSUME NEW x \in AnyExpense, NEW y \in AnyExpense, NEW target, target.amount \in Int,
         Closer(x, y, target), Closer(y, x, target)
  PROVE  FALSE
<1>1. /\ Gap(x, target) \in Nat /\ Gap(y, target) \in Nat
      /\ x.day \in Nat /\ y.day \in Nat /\ x.id \in Nat /\ y.id \in Nat
  BY GapIs DEF AnyExpense
<1> QED
  BY <1>1 DEF Closer, ListedBefore

(* takeClosestSimilar takes one of the rows like the target, and which one *)
(* does not depend on how the pool is written.                             *)
LEMMA ClosestIs ==
  ASSUME NEW pool \in SUBSET AnyExpense, Distinct(pool), NEW target, target.amount \in Int,
         SimilarIn(pool, target) # {}
  PROVE  /\ Closest(pool, target) \in SimilarIn(pool, target)
         /\ \A c \in SimilarIn(pool, target) :
              (\A y \in SimilarIn(pool, target) \ {c} : Closer(c, y, target))
                <=> c = Closest(pool, target)
<1> DEFINE S == SimilarIn(pool, target)
           Best(c) == \A y \in S \ {c} : Closer(c, y, target)
<1>1. S \subseteq pool
  BY DEF SimilarIn
<1> HIDE DEF S
<1>2. S \in SUBSET AnyExpense /\ Distinct(S) /\ S # {}
  BY <1>1 DEF Distinct, S
<1>3. \E c \in S : Best(c)
  BY <1>2, ClosestExists
<1>4. Closest(pool, target) = CHOOSE c \in S : Best(c)
  BY DEF Closest, S
<1>5. Closest(pool, target) \in S /\ Best(Closest(pool, target))
  BY <1>3, <1>4
<1>6. \A c, e \in S : Best(c) /\ Best(e) => c = e
  BY <1>2, CloserIsStrict
<1> QED
  BY <1>5, <1>6 DEF S

(* ... and leaves the others.                                              *)
LEMMA TakeIs ==
  ASSUME NEW pool, NEW target
  PROVE  Take(pool, target) \subseteq pool
BY DEF Take

(* The candidate of the greatest amount, and of those the first.           *)
LEMMA LargestIs ==
  ASSUME NEW S \in SUBSET AnyExpense, IsFiniteSet(S), S # {}, Distinct(S)
  PROVE  Largest(S) \in S
<1> DEFINE amount == [x \in S |-> x.amount]
           Sizes == {amount[x] : x \in S}
<1>1. \A x \in S : x.amount \in Nat /\ amount[x] = x.amount /\ x.day \in Nat /\ x.id \in Nat
  BY DEF AnyExpense
<1>2. Sizes \in SUBSET Int /\ Sizes # {}
  BY <1>1
<1>3. IsFiniteSet(Sizes)
  <2> HIDE DEF amount
  <2> QED
    BY ImageIsFinite
<1>4. PICK g \in Sizes : \A n \in Sizes : n <= g
  <2> HIDE DEF Sizes
  <2> QED
    BY <1>2, <1>3, Greatest
<1> DEFINE S1 == {x \in S : x.amount = g}
           DaysIn == {x.day : x \in S1}
<1>5. PICK d \in DaysIn : \A n \in DaysIn : d <= n
  <2>1. DaysIn \in SUBSET Nat /\ DaysIn # {}
    BY <1>1
  <2> QED
    BY <2>1, LeastNatural
<1> DEFINE S2 == {x \in S1 : x.day = d}
           IdsIn == {x.id : x \in S2}
<1>6. PICK i \in IdsIn : \A n \in IdsIn : i <= n
  <2>1. IdsIn \in SUBSET Nat /\ IdsIn # {}
    BY <1>1
  <2> QED
    BY <2>1, LeastNatural
<1>7. PICK c \in S2 : c.id = i
  OBVIOUS
<1>8. \A x \in S : x.amount <= g
  BY <1>1, <1>4
<1>9. ASSUME NEW y \in S \ {c} PROVE Larger(c, y)
  <2>1. c \in S /\ c.amount = g /\ c.day = d
    OBVIOUS
  <2>2. y.id # c.id
    BY <2>1 DEF Distinct
  <2>3. CASE y.amount # g
    <3>1. c.amount > y.amount
      BY <1>1, <1>8, <2>1, <2>3
    <3> QED
      BY <3>1 DEF Larger
  <2>4. CASE y.amount = g /\ y.day # d
    <3>1. d < y.day
      BY <1>1, <1>5, <2>1, <2>4, SMTT(30)
    <3> QED
      BY <2>1, <2>4, <3>1 DEF Larger, ListedBefore
  <2>5. CASE y.amount = g /\ y.day = d
    <3>1. c.id < y.id
      BY <1>1, <1>6, <1>7, <2>1, <2>2, <2>5
    <3> QED
      BY <2>1, <2>5, <3>1 DEF Larger, ListedBefore
  <2> QED
    BY <2>3, <2>4, <2>5
<1>10. \E x \in S : \A y \in S \ {x} : Larger(x, y)
  BY <1>9
<1> QED
  BY <1>10 DEF Largest

-----------------------------------------------------------------------------
(* Medians.  The k-th smallest of some numbers is the least of them that   *)
(* has k of them at or below it.                                           *)

LEMMA RankedIs ==
  ASSUME NEW I, IsFiniteSet(I), NEW values \in [I -> Nat], NEW k \in 1..Cardinality(I)
  PROVE  Ranked(values, k) \in Nat
<1> DEFINE Below(v) == {i \in I : values[i] < v}
           UpTo(v) == {i \in I : values[i] <= v}
           Held == {values[i] : i \in I}
           Enough == {v \in Held : k <= Cardinality(UpTo(v))}
<1>1. /\ Held = Range(values) /\ DOMAIN values = I /\ Held \subseteq Nat
      /\ IsFiniteSet(Held) /\ k \in Nat /\ Cardinality(I) \in Nat
  BY ImageIsFinite, FS_CardinalityType DEF Range
<1>2. \A J \in SUBSET I : IsFiniteSet(J) /\ Cardinality(J) \in Nat
  BY FS_Subset, FS_CardinalityType
<1>3. I # {}
  BY FS_EmptySet
<1>4. Enough # {}
  <2>1. PICK m \in Held : \A v \in Held : v <= m
    <3>1. Held \in SUBSET Int /\ Held # {}
      BY <1>1, <1>3
    <3> HIDE DEF Held
    <3> QED
      BY <1>1, <3>1, Greatest
  <2>2. UpTo(m) = I
    BY <2>1
  <2> QED
    BY <2>2
<1>5. PICK v \in Enough : \A w \in Enough : v <= w
  <2>1. Enough \in SUBSET Nat
    BY <1>1
  <2> HIDE DEF Enough
  <2> QED
    BY <1>4, <2>1, LeastNatural
<1>6. Cardinality(Below(v)) < k
  <2> SUFFICES ASSUME ~(Cardinality(Below(v)) < k) PROVE FALSE
    OBVIOUS
  <2>1. Below(v) \in SUBSET I /\ Cardinality(Below(v)) \in Nat /\ k <= Cardinality(Below(v))
    <3>1. Below(v) \in SUBSET I
      OBVIOUS
    <3> HIDE DEF Below
    <3> QED
      BY <1>1, <1>2, <3>1
  <2>2. Below(v) # {}
    BY <1>1, <2>1, FS_EmptySet
  <2> DEFINE Lower == {w \in Held : w < v}
  <2>3. Lower \in SUBSET Int /\ Lower # {} /\ IsFiniteSet(Lower)
    <3>1. Lower \in SUBSET Held
      OBVIOUS
    <3>2. Lower # {}
      BY <2>2
    <3>3. Held \in SUBSET Int /\ IsFiniteSet(Held)
      BY <1>1
    <3> HIDE DEF Lower, Held
    <3>4. IsFiniteSet(Lower)
      BY <3>1, <3>3, FS_Subset
    <3> QED
      BY <3>1, <3>2, <3>3, <3>4
  <2>4. PICK w \in Lower : \A u \in Lower : u <= w
    <3> HIDE DEF Lower
    <3> QED
      BY <2>3, Greatest
  <2>5. w < v /\ w \in Held /\ v \in Nat /\ w \in Nat
    BY <1>1
  <2>6. UpTo(w) = Below(v)
    <3>1. ASSUME NEW i \in I PROVE values[i] <= w <=> values[i] < v
      <4>1. values[i] \in Nat /\ values[i] \in Held
        OBVIOUS
      <4>2. values[i] < v => values[i] <= w
        BY <2>4, <4>1
      <4> QED
        BY <2>5, <4>1, <4>2
    <3> QED
      BY <3>1
  <2>7. w \in Enough
    BY <2>1, <2>5, <2>6
  <2> QED
    BY <1>5, <2>5, <2>7
<1>7. \E u \in Range(values) :
        Cardinality({i \in DOMAIN values : values[i] < u}) < k
        /\ k <= Cardinality({i \in DOMAIN values : values[i] <= u})
  BY <1>1, <1>5, <1>6
<1>8. Ranked(values, k) \in Range(values)
  BY <1>7 DEF Ranked
<1> QED
  BY <1>1, <1>8

LEMMA MedianIs ==
  ASSUME NEW I, IsFiniteSet(I), I # {}, NEW values \in [I -> Nat]
  PROVE  DoubleMedian(values) \in Nat
<1> DEFINE n == Cardinality(I)
<1>1. n \in Nat /\ n # 0 /\ DOMAIN values = I
  BY FS_CardinalityType, FS_EmptySet
<1> HIDE DEF n
<1>2. CASE n % 2 = 1
  <2>1. (n \div 2) + 1 \in 1..n
    BY <1>1, <1>2, SMTT(30)
  <2>2. Ranked(values, (n \div 2) + 1) \in Nat
    BY <2>1, RankedIs DEF n
  <2> QED
    BY <1>1, <1>2, <2>2 DEF DoubleMedian, n
<1>3. CASE n % 2 # 1
  <2>1. (n \div 2) \in 1..n /\ (n \div 2) + 1 \in 1..n
    BY <1>1, <1>3, SMTT(30)
  <2>2. Ranked(values, (n \div 2) + 1) \in Nat /\ Ranked(values, n \div 2) \in Nat
    BY <2>1, RankedIs DEF n
  <2> QED
    BY <1>1, <1>3, <2>2 DEF DoubleMedian, n
<1> QED
  BY <1>2, <1>3

LEMMA RoundedIs == \A n \in Nat : RoundedHalf(n) \in Nat
BY SMTT(30) DEF RoundedHalf

-----------------------------------------------------------------------------
(* The bills of the past: what is found in the rows so far, row by row.    *)

Bills == [category : Categories, amount : Nat]

FoundTo(base, g, k) == IF k = 0 THEN base ELSE Detect(g[k - 1])

IsFinding(base, g, n) == g = [k \in 0..n |-> FoundTo(base, g, k)]

LEMMA FindingExists ==
  ASSUME NEW base, NEW n \in Nat
  PROVE  \E g : IsFinding(base, g, n)
<1> DEFINE Good == {m \in Nat : \E g : IsFinding(base, g, m)}
<1>1. 0 \in Good
  <2>1. IsFinding(base, [k \in 0..0 |-> base], 0)
    BY DEF IsFinding, FoundTo
  <2> QED
    BY <2>1
<1>2. ASSUME NEW m \in Good PROVE m + 1 \in Good
  <2>1. PICK g : IsFinding(base, g, m)
    OBVIOUS
  <2> DEFINE h == [k \in 0..(m + 1) |-> FoundTo(base, g, k)]
  <2>2. m \in Nat /\ \A k \in 0..m : g[k] = FoundTo(base, g, k) /\ h[k] = FoundTo(base, g, k)
    BY <2>1 DEF IsFinding
  <2>3. ASSUME NEW k \in 0..(m + 1) PROVE FoundTo(base, g, k) = FoundTo(base, h, k)
    <3>1. CASE k = 0
      BY <3>1 DEF FoundTo
    <3>2. CASE k # 0
      <4>1. k - 1 \in 0..m
        BY <2>2, <3>2
      <4>2. g[k - 1] = h[k - 1]
        BY <2>2, <4>1
      <4> QED
        BY <4>2 DEF FoundTo
    <3> QED
      BY <3>1, <3>2
  <2>4. IsFinding(base, h, m + 1)
    BY <2>3 DEF IsFinding
  <2> HIDE DEF h
  <2> QED
    BY <2>2, <2>4
<1> HIDE DEF Good
<1>3. Good \in SUBSET Nat
  BY DEF Good
<1>4. Good = Nat
  BY <1>1, <1>2, <1>3, NaturalsFromZero
<1> QED
  BY <1>4 DEF Good

(* Pools of the older months, and bills found.                             *)
FoundIn(h, ages, f) ==
  /\ DOMAIN f.pools = ages
  /\ \A age \in ages : f.pools[age] \subseteq h[age]
  /\ f.bills \in Seq(Bills)

LEMMA PastIs ==
  ASSUME NEW h \in Histories, NEW age \in Ages
  PROVE  h[age] \in SUBSET AnyExpense /\ IsFiniteSet(h[age]) /\ Distinct(h[age])
<1>1. age \in 0..LookBack
  BY EstimateAssumption DEF Ages
<1> QED
  BY <1>1, ExpensesAre, EstimateAssumption

LEMMA AgesAre == IsFiniteSet(Ages) /\ Ages \subseteq Nat /\ 0 \notin Ages
BY FS_Interval, EstimateAssumption DEF Ages

LEMMA DetectFinds ==
  ASSUME NEW h \in Histories, NEW ages \in SUBSET Ages, NEW f, FoundIn(h, ages, f),
         f.left \in SUBSET AnyExpense, IsFiniteSet(f.left), Distinct(f.left), f.left # {}
  PROVE  /\ FoundIn(h, ages, Detect(f))
         /\ Detect(f).left \subseteq f.left
         /\ Cardinality(Detect(f).left) = Cardinality(f.left) - 1
<1> DEFINE x == Largest(f.left)
           matched == {age \in DOMAIN f.pools : SimilarIn(f.pools[age], x) # {}}
           amount(age) == IF age = 0 THEN x.amount ELSE Closest(f.pools[age], x).amount
           amounts == [age \in {0} \cup matched |-> amount(age)]
           bill == [category |-> x.category, amount |-> RoundedHalf(DoubleMedian(amounts))]
           pools == [age \in DOMAIN f.pools |-> Take(f.pools[age], x)]
           bills == IF matched = {} THEN f.bills ELSE Append(f.bills, bill)
<1>1. x \in f.left /\ x \in AnyExpense /\ x.amount \in Nat /\ x.category \in Categories
  <2>1. x \in f.left
    BY LargestIs
  <2> HIDE DEF x
  <2> QED
    BY <2>1 DEF AnyExpense
<1>2. Detect(f) = [left |-> f.left \ {x}, pools |-> pools, bills |-> bills]
  BY DEF Detect
<1> HIDE DEF x
<1>3. IsFiniteSet({0} \cup matched)
  <2>1. matched \in SUBSET Ages
    BY DEF FoundIn
  <2> HIDE DEF matched
  <2>2. IsFiniteSet(matched)
    BY <2>1, AgesAre, FS_Subset
  <2>3. {0} \cup matched = matched \cup {0}
    OBVIOUS
  <2> QED
    BY <2>2, <2>3, FS_AddElement
<1>4. ASSUME NEW age \in {0} \cup matched PROVE amount(age) \in Nat
  <2>1. CASE age = 0
    BY <1>1, <2>1
  <2>2. CASE age # 0
    <3>1. age \in ages /\ age \in Ages /\ SimilarIn(f.pools[age], x) # {}
      BY <2>2 DEF FoundIn
    <3>2. f.pools[age] \in SUBSET AnyExpense /\ Distinct(f.pools[age])
      BY <3>1, PastIs DEF FoundIn, Distinct
    <3>3. x.amount \in Int
      BY <1>1
    <3>4. Closest(f.pools[age], x) \in SimilarIn(f.pools[age], x)
      BY <3>1, <3>2, <3>3, ClosestIs
    <3>5. Closest(f.pools[age], x) \in AnyExpense
      BY <3>2, <3>4 DEF SimilarIn
    <3>6. Closest(f.pools[age], x).amount \in Nat
      BY <3>5 DEF AnyExpense
    <3> QED
      BY <2>2, <3>6
  <2> QED
    BY <2>1, <2>2
<1>5. amounts \in [{0} \cup matched -> Nat]
  <2> HIDE DEF amount, matched
  <2> QED
    BY <1>4
<1>6. DoubleMedian(amounts) \in Nat
  <2> HIDE DEF amounts, matched
  <2> QED
    BY <1>3, <1>5, MedianIs
<1>7. bill \in Bills
  <2> HIDE DEF amounts
  <2>1. RoundedHalf(DoubleMedian(amounts)) \in Nat
    BY <1>6, RoundedIs
  <2> QED
    BY <1>1, <2>1 DEF Bills
<1>8. bills \in Seq(Bills)
  <2> HIDE DEF bill, matched
  <2> QED
    BY <1>7 DEF FoundIn
<1>9. DOMAIN pools = ages /\ \A age \in ages : pools[age] \subseteq h[age]
  <2>1. ASSUME NEW age \in ages PROVE Take(f.pools[age], x) \subseteq h[age]
    BY TakeIs DEF FoundIn
  <2> QED
    BY <2>1 DEF FoundIn
<1> HIDE DEF pools, bills
<1>10. FoundIn(h, ages, Detect(f))
  BY <1>2, <1>8, <1>9 DEF FoundIn
<1>11. Detect(f).left = f.left \ {x}
  BY <1>2
<1>12. Cardinality(f.left \ {x}) = Cardinality(f.left) - 1
  BY <1>1, FS_RemoveElement
<1> QED
  BY <1>10, <1>11, <1>12

LEMMA NewestAre ==
  ASSUME NEW ages \in SUBSET Ages, ages # {}, NEW n \in Nat \ {0}
  PROVE  /\ NewestOf(ages, n) \subseteq ages
         /\ Min(NewestOf(ages, n)) \in NewestOf(ages, n)
<1> DEFINE S == NewestOf(ages, n)
<1>1. ages \in SUBSET Nat
  BY AgesAre
<1>2. S \subseteq ages
  BY DEF NewestOf
<1>3. PICK m \in ages : \A a \in ages : m <= a
  BY <1>1, LeastNatural
<1>4. {a \in ages : a < m} = {}
  <2>1. \A a \in ages : ~(a < m)
    BY <1>1, <1>3
  <2> QED
    BY <2>1
<1>5. m \in S
  BY <1>4, FS_EmptySet DEF NewestOf
<1> HIDE DEF S
<1>6. S \in SUBSET Nat /\ S # {}
  BY <1>1, <1>2, <1>5
<1>7. \E y \in S : \A z \in S : y <= z
  BY <1>6, LeastNatural
<1>8. Min(S) \in S
  BY <1>7 DEF Min
<1> QED
  BY <1>2, <1>8 DEF S

LEMMA BasisIs ==
  ASSUME NEW h \in Histories
  PROVE  /\ Basis[h] \in SUBSET Ages /\ IsFiniteSet(Basis[h])
         /\ HasHistory(h) => Basis[h] # {}
<1>1. Basis[h] \in SUBSET Ages
  BY DEF Basis, NewestOf
<1>2. IsFiniteSet(Basis[h])
  BY <1>1, AgesAre, FS_Subset
<1>3. MinBasis \in Nat /\ MinBasis # 0
  BY EstimateAssumption
<1>4. HasHistory(h) => Basis[h] # {}
  BY <1>3, FS_EmptySet DEF HasHistory
<1> QED
  BY <1>1, <1>2, <1>4

(* detectFixedBills ends with a bill for each row it took, or none.        *)
LEMMA FixedBillsAre ==
  ASSUME NEW h \in Histories
  PROVE  FixedBills[h] \in Seq(Bills)
<1>1. CASE ~HasHistory(h)
  BY <1>1 DEF FixedBills
<1>2. CASE HasHistory(h)
  <2> DEFINE months == NewestOf(Basis[h], DetectionMonths)
             newest == Min(months)
             candidates == EligibleRows(h[newest])
             n == Cardinality(candidates)
             base == [left |-> candidates,
                      pools |-> [age \in months \ {newest} |-> EligibleRows(h[age])],
                      bills |-> <<>>]
             g == CHOOSE f : IsFinding(base, f, n)
             ages == months \ {newest}
  <2>1. FixedBills[h] = g[n].bills
    BY <1>2 DEF FixedBills, IsFinding, FoundTo
  <2>2. months \subseteq Ages /\ newest \in months
    <3>1. DetectionMonths \in Nat \ {0}
      BY EstimateAssumption
    <3>2. Basis[h] \in SUBSET Ages /\ Basis[h] # {}
      BY <1>2, BasisIs
    <3> QED
      BY <3>1, <3>2, NewestAre
  <2> HIDE DEF months, newest
  <2>3. \A age \in Ages : EligibleRows(h[age]) \subseteq h[age]
    BY DEF EligibleRows
  <2>4. newest \in Ages /\ candidates \in SUBSET h[newest]
    BY <2>2, <2>3
  <2>5. candidates \in SUBSET AnyExpense /\ IsFiniteSet(candidates) /\ Distinct(candidates)
    <3>1. h[newest] \in SUBSET AnyExpense /\ IsFiniteSet(h[newest]) /\ Distinct(h[newest])
      BY <2>4, PastIs
    <3> HIDE DEF candidates
    <3>2. IsFiniteSet(candidates)
      BY <2>4, <3>1, FS_Subset
    <3> QED
      BY <2>4, <3>1, <3>2 DEF Distinct
  <2>6. FoundIn(h, ages, base)
    <3>1. base.bills = <<>> /\ base.pools = [age \in ages |-> EligibleRows(h[age])]
      OBVIOUS
    <3>2. <<>> \in Seq(Bills)
      OBVIOUS
    <3> HIDE DEF base
    <3> QED
      BY <2>2, <2>3, <3>1, <3>2 DEF FoundIn
  <2>7. base.left = candidates
    OBVIOUS
  <2> HIDE DEF base, candidates
  <2>8. n \in Nat
    BY <2>5, FS_CardinalityType
  <2>9. IsFinding(base, g, n)
    <3> HIDE DEF n
    <3> QED
      BY <2>8, FindingExists
  <2> HIDE DEF n, g, ages
  <2>10. \A k \in 0..n : g[k] = FoundTo(base, g, k)
    BY <2>9 DEF IsFinding
  <2> DEFINE Fine(k) == /\ FoundIn(h, ages, g[k])
                        /\ g[k].left \subseteq candidates
                        /\ Cardinality(g[k].left) = n - k
             Good == {k \in Nat : k <= n => Fine(k)}
  <2>11. 0 \in Good
    <3>1. g[0] = base
      BY <2>8, <2>10 DEF FoundTo
    <3> QED
      BY <2>6, <2>7, <2>8, <3>1 DEF n
  <2>12. ASSUME NEW k \in Good PROVE k + 1 \in Good
    <3> SUFFICES ASSUME k + 1 <= n PROVE Fine(k + 1)
      OBVIOUS
    <3>1. k \in Nat /\ k <= n /\ k + 1 \in 0..n /\ (k + 1) - 1 = k /\ k + 1 # 0
      BY <2>8
    <3>2. Fine(k)
      BY <3>1
    <3>3. g[k + 1] = Detect(g[k])
      BY <2>10, <3>1 DEF FoundTo
    <3>4. /\ g[k].left \in SUBSET AnyExpense /\ IsFiniteSet(g[k].left)
          /\ Distinct(g[k].left) /\ g[k].left # {}
      <4>1. g[k].left \subseteq candidates /\ Cardinality(g[k].left) # 0
        BY <2>8, <3>1, <3>2
      <4>2. IsFiniteSet(g[k].left)
        BY <2>5, <4>1, FS_Subset
      <4>3. g[k].left # {}
        BY <4>1, FS_EmptySet
      <4> QED
        BY <2>5, <4>1, <4>2, <4>3 DEF Distinct
    <3>5. ages \in SUBSET Ages
      BY <2>2 DEF ages
    <3>6. /\ FoundIn(h, ages, Detect(g[k])) /\ Detect(g[k]).left \subseteq g[k].left
          /\ Cardinality(Detect(g[k]).left) = Cardinality(g[k].left) - 1
      BY <3>2, <3>4, <3>5, DetectFinds
    <3> QED
      BY <2>8, <3>1, <3>2, <3>3, <3>6
  <2> HIDE DEF Fine
  <2>13. Good = Nat
    <3>1. Good \in SUBSET Nat
      OBVIOUS
    <3> HIDE DEF Good
    <3> QED
      BY <2>11, <2>12, <3>1, NaturalsFromZero
  <2>14. Fine(n)
    BY <2>8, <2>13
  <2> QED
    BY <2>1, <2>14 DEF Fine, FoundIn
<1> QED
  BY <1>1, <1>2

-----------------------------------------------------------------------------
(* The bills due: what is left of the rows and what is due, bill by bill.  *)

LeftTo(S, bills, g, k) ==
  IF k = 0 THEN [pool |-> S, due |-> 0] ELSE SettleBill(g[k - 1], bills[k])

IsLeft(S, bills, g, n) == g = [k \in 0..n |-> LeftTo(S, bills, g, k)]

LEMMA LeftExists ==
  ASSUME NEW S, NEW bills, NEW n \in Nat
  PROVE  \E g : IsLeft(S, bills, g, n)
<1> DEFINE Good == {m \in Nat : \E g : IsLeft(S, bills, g, m)}
<1>1. 0 \in Good
  <2>1. IsLeft(S, bills, [k \in 0..0 |-> [pool |-> S, due |-> 0]], 0)
    BY DEF IsLeft, LeftTo
  <2> QED
    BY <2>1
<1>2. ASSUME NEW m \in Good PROVE m + 1 \in Good
  <2>1. PICK g : IsLeft(S, bills, g, m)
    OBVIOUS
  <2> DEFINE h == [k \in 0..(m + 1) |-> LeftTo(S, bills, g, k)]
  <2>2. /\ m \in Nat
        /\ \A k \in 0..m : g[k] = LeftTo(S, bills, g, k) /\ h[k] = LeftTo(S, bills, g, k)
    BY <2>1 DEF IsLeft
  <2>3. ASSUME NEW k \in 0..(m + 1) PROVE LeftTo(S, bills, g, k) = LeftTo(S, bills, h, k)
    <3>1. CASE k = 0
      BY <3>1 DEF LeftTo
    <3>2. CASE k # 0
      <4>1. k - 1 \in 0..m
        BY <2>2, <3>2
      <4>2. g[k - 1] = h[k - 1]
        BY <2>2, <4>1
      <4> QED
        BY <4>2 DEF LeftTo
    <3> QED
      BY <3>1, <3>2
  <2>4. IsLeft(S, bills, h, m + 1)
    BY <2>3 DEF IsLeft
  <2> HIDE DEF h
  <2> QED
    BY <2>2, <2>4
<1> HIDE DEF Good
<1>3. Good \in SUBSET Nat
  BY DEF Good
<1>4. Good = Nat
  BY <1>1, <1>2, <1>3, NaturalsFromZero
<1> QED
  BY <1>4 DEF Good

(* What is left of S after k of the bills.                                 *)
LeftAfter(S) == CHOOSE g : IsLeft(S, FixedBills[past], g, Len(FixedBills[past]))

LEMMA BillsAre ==
  ASSUME past \in Histories
  PROVE  /\ Len(FixedBills[past]) \in Nat
         /\ \A k \in 1..Len(FixedBills[past]) :
              /\ FixedBills[past][k] \in Range(FixedBills[past])
              /\ FixedBills[past][k].amount \in Nat
         /\ \A b \in Range(FixedBills[past]) : b.amount \in Nat
<1> DEFINE bills == FixedBills[past]
<1>1. bills \in Seq(Bills)
  BY FixedBillsAre
<1> HIDE DEF bills
<1>2. \A k \in 1..Len(bills) : bills[k] \in Bills
  BY <1>1
<1> QED
  BY <1>1, <1>2 DEF bills, Bills, Range

LEMMA LeftIs ==
  ASSUME past \in Histories, NEW S
  PROVE  /\ LeftAfter(S)[0] = [pool |-> S, due |-> 0]
         /\ \A k \in 0..(Len(FixedBills[past]) - 1) :
              LeftAfter(S)[k + 1] = SettleBill(LeftAfter(S)[k], FixedBills[past][k + 1])
         /\ FixedBillsDue(S) = LeftAfter(S)[Len(FixedBills[past])].due
<1> DEFINE bills == FixedBills[past]
           n == Len(bills)
           g == LeftAfter(S)
<1>1. n \in Nat
  BY BillsAre
<1>2. FixedBillsDue(S) = g[n].due
  BY DEF FixedBillsDue, LeftAfter, IsLeft, LeftTo
<1>3. g = CHOOSE f : IsLeft(S, bills, f, n)
  BY DEF LeftAfter
<1> HIDE DEF n, g, bills
<1>4. IsLeft(S, bills, g, n)
  BY <1>1, <1>3, LeftExists
<1>5. \A k \in 0..n : g[k] = LeftTo(S, bills, g, k)
  BY <1>4 DEF IsLeft
<1>6. g[0] = [pool |-> S, due |-> 0]
  BY <1>1, <1>5 DEF LeftTo
<1>7. ASSUME NEW k \in 0..(n - 1) PROVE g[k + 1] = SettleBill(g[k], bills[k + 1])
  <2>1. k + 1 \in 0..n /\ k + 1 # 0 /\ (k + 1) - 1 = k
    BY <1>1
  <2> QED
    BY <1>5, <2>1 DEF LeftTo
<1> QED
  BY <1>2, <1>6, <1>7 DEF g, n, bills

(* The two fields, one by one.                                             *)
LEMMA LeftFields ==
  ASSUME past \in Histories, NEW S
  PROVE  LET g == LeftAfter(S) bills == FixedBills[past]
         IN  /\ g[0].pool = S /\ g[0].due = 0
             /\ \A k \in 0..(Len(bills) - 1) :
                  /\ g[k + 1].pool = Take(g[k].pool, bills[k + 1])
                  /\ g[k + 1].due = g[k].due + (IF SimilarIn(g[k].pool, bills[k + 1]) = {}
                                                THEN bills[k + 1].amount ELSE 0)
<1> DEFINE g == LeftAfter(S)
           bills == FixedBills[past]
           Same(l, k) ==
             /\ l.pool = Take(g[k].pool, bills[k + 1])
             /\ l.due = g[k].due + (IF SimilarIn(g[k].pool, bills[k + 1]) = {}
                                   THEN bills[k + 1].amount ELSE 0)
<1>1. /\ g[0] = [pool |-> S, due |-> 0]
      /\ \A k \in 0..(Len(bills) - 1) : g[k + 1] = SettleBill(g[k], bills[k + 1])
  BY LeftIs
<1> HIDE DEF g, bills
<1>2. \A k \in 0..(Len(bills) - 1) : Same(SettleBill(g[k], bills[k + 1]), k)
  BY DEF SettleBill
<1>3. g[0].pool = S /\ g[0].due = 0
  BY <1>1
<1> HIDE DEF Same
<1>4. \A k \in 0..(Len(bills) - 1) : Same(g[k + 1], k)
  BY <1>1, <1>2
<1> QED
  BY <1>3, <1>4 DEF g, bills, Same

(* Whatever is said of what is left before any bill and kept by each.      *)
LEMMA LeftTyped ==
  ASSUME past \in Histories, NEW S, NEW k \in 0..Len(FixedBills[past])
  PROVE  LeftAfter(S)[k].pool \subseteq S /\ LeftAfter(S)[k].due \in Int
<1> DEFINE g == LeftAfter(S)
           bills == FixedBills[past]
           n == Len(bills)
           Fine(i) == g[i].pool \subseteq S /\ g[i].due \in Int
           Good == {i \in Nat : i <= n => Fine(i)}
<1>1. n \in Nat /\ \A i \in 1..n : bills[i].amount \in Nat
  BY BillsAre
<1>2. /\ g[0].pool = S /\ g[0].due = 0
      /\ \A i \in 0..(n - 1) :
           /\ g[i + 1].pool = Take(g[i].pool, bills[i + 1])
           /\ g[i + 1].due = g[i].due + (IF SimilarIn(g[i].pool, bills[i + 1]) = {}
                                         THEN bills[i + 1].amount ELSE 0)
  BY LeftFields
<1> HIDE DEF g, n, bills
<1>3. 0 \in Good
  BY <1>2
<1>4. ASSUME NEW i \in Good PROVE i + 1 \in Good
  <2> SUFFICES ASSUME i + 1 <= n PROVE Fine(i + 1)
    OBVIOUS
  <2>1. i \in 0..(n - 1) /\ i + 1 \in 1..n /\ i <= n
    BY <1>1
  <2>2. Fine(i)
    BY <2>1
  <2>3. bills[i + 1].amount \in Int
    BY <1>1, <2>1
  <2>4. g[i + 1].due \in Int
    BY <1>2, <2>1, <2>2, <2>3
  <2> QED
    BY <1>2, <2>1, <2>2, <2>4, TakeIs
<1>5. Good = Nat
  <2>1. Good \in SUBSET Nat
    OBVIOUS
  <2> HIDE DEF Good
  <2> QED
    BY <1>3, <1>4, <2>1, NaturalsFromZero
<1>6. k \in Good
  BY <1>5
<1> QED
  BY <1>1, <1>6 DEF g, n, bills

(* The rows of the month.                                                  *)
IsMonth(S) == S \in SUBSET AnyExpense /\ Distinct(S)

(* A row that no bill is like settles none.                                *)
LEMMA TakeSpares ==
  ASSUME NEW pool, IsMonth(pool), NEW b, b.amount \in Int,
         NEW x, x \notin pool, IsMonth(pool \cup {x}), x \notin SimilarIn({x}, b)
  PROVE  /\ SimilarIn(pool \cup {x}, b) = SimilarIn(pool, b)
         /\ Take(pool \cup {x}, b) = Take(pool, b) \cup {x}
         /\ x \notin Take(pool, b)
<1>1. SimilarIn(pool \cup {x}, b) = SimilarIn(pool, b)
  BY DEF SimilarIn
<1>2. Closest(pool \cup {x}, b) = Closest(pool, b)
  BY <1>1 DEF Closest
<1>3. x \notin Take(pool, b)
  BY DEF Take
<1>4. Closest(pool, b) # x \/ SimilarIn(pool, b) = {}
  BY ClosestIs DEF SimilarIn, IsMonth
<1> QED
  BY <1>1, <1>2, <1>3, <1>4 DEF Take

(* Of two pools that differ by a row: a bill takes the same from both, or  *)
(* they differ by another row of its category then, or the row settled it. *)
LEMMA TakeExchanges ==
  ASSUME NEW pool, NEW y, y \notin pool, IsMonth(pool \cup {y}), NEW b, b.amount \in Int
  PROVE  LET more == pool \cup {y} IN
         \/ /\ SimilarIn(more, b) = {} <=> SimilarIn(pool, b) = {}
            /\ \E z : /\ z \notin Take(pool, b) /\ z.category = y.category
                      /\ Take(more, b) = Take(pool, b) \cup {z}
         \/ /\ SimilarIn(more, b) # {} /\ SimilarIn(pool, b) = {}
            /\ Take(more, b) = Take(pool, b) /\ b.category = y.category
<1> DEFINE more == pool \cup {y}
<1>1. IsMonth(pool)
  BY DEF IsMonth, Distinct
<1>2. CASE y \notin SimilarIn({y}, b)
  <2>1. /\ SimilarIn(more, b) = SimilarIn(pool, b)
        /\ Take(more, b) = Take(pool, b) \cup {y} /\ y \notin Take(pool, b)
    BY <1>1, <1>2, TakeSpares
  <2> QED
    BY <2>1
<1>3. CASE y \in SimilarIn({y}, b)
  <2>1. SimilarIn(more, b) = SimilarIn(pool, b) \cup {y} /\ y.category = b.category
    BY <1>3 DEF SimilarIn
  <2>2. /\ Closest(more, b) \in SimilarIn(more, b)
        /\ \A e \in SimilarIn(more, b) \ {Closest(more, b)} : Closer(Closest(more, b), e, b)
    BY <2>1, ClosestIs DEF IsMonth
  <2>3. Take(more, b) = more \ {Closest(more, b)}
    BY <2>1 DEF Take
  <2>4. CASE SimilarIn(pool, b) = {}
    <3>1. Closest(more, b) = y
      BY <2>1, <2>2, <2>4
    <3> QED
      BY <2>1, <2>3, <2>4, <3>1 DEF Take
  <2>5. CASE SimilarIn(pool, b) # {}
    <3> DEFINE c == Closest(pool, b)
    <3>1. /\ c \in SimilarIn(pool, b)
          /\ \A e \in SimilarIn(pool, b) :
               (\A d \in SimilarIn(pool, b) \ {e} : Closer(e, d, b)) <=> e = c
      BY <1>1, <2>5, ClosestIs DEF IsMonth
    <3>2. Take(pool, b) = pool \ {c} /\ c \in pool /\ c.category = b.category
      BY <2>5, <3>1 DEF Take, SimilarIn
    <3>3. CASE Closest(more, b) = y
      <4>1. Take(more, b) = (pool \ {c}) \cup {c}
        BY <2>3, <3>2, <3>3
      <4>2. Take(more, b) = Take(pool, b) \cup {c} /\ c \notin Take(pool, b)
        BY <3>2, <4>1
      <4> QED
        BY <2>1, <2>5, <3>2, <4>2
    <3>4. CASE Closest(more, b) # y
      <4>1. Closest(more, b) \in SimilarIn(pool, b)
        BY <2>1, <2>2, <3>4
      <4>2. Closest(more, b) = c
        BY <2>1, <2>2, <3>1, <4>1
      <4>3. Take(more, b) = Take(pool, b) \cup {y} /\ y \notin Take(pool, b)
        BY <2>3, <3>2, <3>4, <4>2
      <4> QED
        BY <2>1, <2>5, <4>3
    <3> QED
      BY <3>3, <3>4
  <2> QED
    BY <2>4, <2>5
<1> QED
  BY <1>2, <1>3

-----------------------------------------------------------------------------
(* What a row changes of what is due.                                      *)

(* One that no bill is like changes nothing.                               *)
LEMMA OtherRowsDueSame ==
  ASSUME past \in Histories, NEW S, NEW x, x \notin S, IsMonth(S \cup {x}), ~IsFixed(past, x)
  PROVE  FixedBillsDue(S \cup {x}) = FixedBillsDue(S)
<1> DEFINE bills == FixedBills[past]
           n == Len(bills)
           more == LeftAfter(S \cup {x})
           less == LeftAfter(S)
           Fine(i) == /\ x \notin less[i].pool /\ more[i].pool = less[i].pool \cup {x}
                      /\ more[i].due = less[i].due
           Good == {i \in Nat : i <= n => Fine(i)}
<1>1. n \in Nat /\ \A i \in 1..n : bills[i] \in Range(bills) /\ bills[i].amount \in Nat
  BY BillsAre
<1>2. /\ more[0].pool = S \cup {x} /\ more[0].due = 0 /\ less[0].pool = S /\ less[0].due = 0
      /\ \A i \in 0..(n - 1) :
           /\ more[i + 1].pool = Take(more[i].pool, bills[i + 1])
           /\ more[i + 1].due = more[i].due + (IF SimilarIn(more[i].pool, bills[i + 1]) = {}
                                               THEN bills[i + 1].amount ELSE 0)
           /\ less[i + 1].pool = Take(less[i].pool, bills[i + 1])
           /\ less[i + 1].due = less[i].due + (IF SimilarIn(less[i].pool, bills[i + 1]) = {}
                                               THEN bills[i + 1].amount ELSE 0)
  BY LeftFields
<1>3. \A i \in 0..n : more[i].pool \subseteq S \cup {x}
  BY LeftTyped
<1>4. FixedBillsDue(S \cup {x}) = more[n].due /\ FixedBillsDue(S) = less[n].due
  BY LeftIs
<1>5. \A b \in Range(bills) : x \notin SimilarIn({x}, b)
  <2> SUFFICES ASSUME NEW b \in Range(bills), x \in SimilarIn({x}, b) PROVE FALSE
    OBVIOUS
  <2>1. b.category = x.category /\ Similar(x.amount, b.amount)
    BY DEF SimilarIn
  <2>2. Similar(b.amount, x.amount)
    <3>1. {b.amount, x.amount} = {x.amount, b.amount}
      OBVIOUS
    <3> QED
      BY <2>1, <3>1 DEF Similar
  <2> QED
    BY <2>1, <2>2 DEF IsFixed
<1> HIDE DEF more, less, n, bills
<1>6. 0 \in Good
  BY <1>2
<1>7. ASSUME NEW i \in Good PROVE i + 1 \in Good
  <2> SUFFICES ASSUME i + 1 <= n PROVE Fine(i + 1)
    OBVIOUS
  <2>1. i \in 0..(n - 1) /\ i + 1 \in 1..n /\ i <= n /\ i \in 0..n
    BY <1>1
  <2>2. Fine(i)
    BY <2>1
  <2> DEFINE b == bills[i + 1]
             pool == less[i].pool
  <2>3. b \in Range(bills) /\ b.amount \in Int
    BY <1>1, <2>1
  <2>4. IsMonth(pool \cup {x}) /\ IsMonth(pool)
    <3>1. pool \cup {x} \subseteq S \cup {x}
      BY <1>3, <2>1, <2>2
    <3> HIDE DEF pool
    <3> QED
      BY <3>1 DEF IsMonth, Distinct
  <2>5. x \notin SimilarIn({x}, b)
    BY <1>5, <2>3
  <2>6. /\ SimilarIn(pool \cup {x}, b) = SimilarIn(pool, b)
        /\ Take(pool \cup {x}, b) = Take(pool, b) \cup {x} /\ x \notin Take(pool, b)
    <3>1. x \notin pool
      BY <2>2
    <3> HIDE DEF pool, b
    <3> QED
      BY <2>3, <2>4, <2>5, <3>1, TakeSpares
  <2> QED
    BY <1>2, <2>1, <2>2, <2>6, ZenonT(30)
<1>8. Good = Nat
  <2>1. Good \in SUBSET Nat
    OBVIOUS
  <2> HIDE DEF Good
  <2> QED
    BY <1>6, <1>7, <2>1, NaturalsFromZero
<1>9. Fine(n)
  BY <1>1, <1>8
<1> QED
  BY <1>4, <1>9

(* Any row settles one bill of its category at most (takeClosestSimilar in *)
(* sumFixedBillsDue): with it a bill may take another row than without,    *)
(* the row it left goes on to the next bill, and so on until a bill is     *)
(* settled that was not, or none is.                                       *)
THEOREM RowSettlesOneBill ==
  ASSUME past \in Histories, NEW S, NEW x, x \notin S, IsMonth(S \cup {x})
  PROVE  \/ FixedBillsDue(S \cup {x}) = FixedBillsDue(S)
         \/ \E b \in Range(FixedBills[past]) :
              /\ b.category = x.category
              /\ FixedBillsDue(S \cup {x}) = FixedBillsDue(S) - b.amount
<1> DEFINE bills == FixedBills[past]
           n == Len(bills)
           more == LeftAfter(S \cup {x})
           less == LeftAfter(S)
           Passed(i) == /\ more[i].due = less[i].due
                        /\ \E z : /\ z \notin less[i].pool /\ z.category = x.category
                                  /\ more[i].pool = less[i].pool \cup {z}
           Settled(i) == /\ more[i].pool = less[i].pool
                         /\ \E b \in Range(bills) : /\ b.category = x.category
                                                    /\ more[i].due = less[i].due - b.amount
           Good == {i \in Nat : i <= n => Passed(i) \/ Settled(i)}
<1>1. /\ n \in Nat /\ \A i \in 1..n : bills[i] \in Range(bills) /\ bills[i].amount \in Nat
      /\ \A b \in Range(bills) : b.amount \in Nat
  BY BillsAre
<1>2. /\ more[0].pool = S \cup {x} /\ more[0].due = 0 /\ less[0].pool = S /\ less[0].due = 0
      /\ \A i \in 0..(n - 1) :
           /\ more[i + 1].pool = Take(more[i].pool, bills[i + 1])
           /\ more[i + 1].due = more[i].due + (IF SimilarIn(more[i].pool, bills[i + 1]) = {}
                                               THEN bills[i + 1].amount ELSE 0)
           /\ less[i + 1].pool = Take(less[i].pool, bills[i + 1])
           /\ less[i + 1].due = less[i].due + (IF SimilarIn(less[i].pool, bills[i + 1]) = {}
                                               THEN bills[i + 1].amount ELSE 0)
  BY LeftFields
<1>3. \A i \in 0..n : more[i].pool \subseteq S \cup {x} /\ more[i].due \in Int /\ less[i].due \in Int
  BY LeftTyped
<1>4. FixedBillsDue(S \cup {x}) = more[n].due /\ FixedBillsDue(S) = less[n].due
  BY LeftIs
<1> HIDE DEF more, less, n, bills
<1>5. 0 \in Good
  BY <1>2
<1>6. ASSUME NEW i \in Good PROVE i + 1 \in Good
  <2> SUFFICES ASSUME i + 1 <= n PROVE Passed(i + 1) \/ Settled(i + 1)
    OBVIOUS
  <2>1. i \in 0..(n - 1) /\ i + 1 \in 1..n /\ i <= n /\ i \in 0..n
    BY <1>1
  <2> DEFINE b == bills[i + 1]
             pool == less[i].pool
             due == IF SimilarIn(pool, b) = {} THEN b.amount ELSE 0
  <2>2. b \in Range(bills) /\ b.amount \in Int /\ due \in Int
    BY <1>1, <2>1
  <2>3. less[i + 1].pool = Take(pool, b) /\ less[i + 1].due = less[i].due + due
    BY <1>2, <2>1
  <2>4. more[i].due \in Int /\ less[i].due \in Int
    BY <1>3, <2>1
  <2>5. CASE Settled(i)
    <3>1. PICK e \in Range(bills) : e.category = x.category /\ more[i].due = less[i].due - e.amount
      BY <2>5
    <3>2. more[i + 1].pool = Take(pool, b) /\ more[i + 1].due = more[i].due + due
      BY <1>2, <2>1, <2>5
    <3>3. e.amount \in Int
      BY <1>1
    <3> HIDE DEF due, b, pool
    <3>4. more[i + 1].due = less[i + 1].due - e.amount
      BY <2>2, <2>3, <2>4, <3>1, <3>2, <3>3
    <3> QED
      BY <2>3, <3>1, <3>2, <3>4
  <2>6. CASE Passed(i)
    <3>1. PICK y : y \notin pool /\ y.category = x.category /\ more[i].pool = pool \cup {y}
      BY <2>6
    <3>2. IsMonth(pool \cup {y})
      <4>1. pool \cup {y} \subseteq S \cup {x}
        BY <1>3, <2>1, <3>1
      <4> HIDE DEF pool
      <4> QED
        BY <4>1 DEF IsMonth, Distinct
    <3>3. /\ more[i + 1].pool = Take(pool \cup {y}, b)
          /\ more[i + 1].due = more[i].due + (IF SimilarIn(pool \cup {y}, b) = {}
                                              THEN b.amount ELSE 0)
      BY <1>2, <2>1, <3>1
    <3> HIDE DEF pool, b
    <3>4. \/ /\ SimilarIn(pool \cup {y}, b) = {} <=> SimilarIn(pool, b) = {}
             /\ \E z : /\ z \notin Take(pool, b) /\ z.category = y.category
                       /\ Take(pool \cup {y}, b) = Take(pool, b) \cup {z}
          \/ /\ SimilarIn(pool \cup {y}, b) # {} /\ SimilarIn(pool, b) = {}
             /\ Take(pool \cup {y}, b) = Take(pool, b) /\ b.category = y.category
      BY <2>2, <3>1, <3>2, TakeExchanges, ZenonT(30)
    <3>5. CASE /\ SimilarIn(pool \cup {y}, b) = {} <=> SimilarIn(pool, b) = {}
               /\ \E z : /\ z \notin Take(pool, b) /\ z.category = y.category
                         /\ Take(pool \cup {y}, b) = Take(pool, b) \cup {z}
      <4>1. more[i + 1].due = less[i + 1].due
        BY <2>3, <2>6, <3>3, <3>5
      <4> QED
        BY <2>3, <3>1, <3>3, <3>5, <4>1
    <3>6. CASE /\ SimilarIn(pool \cup {y}, b) # {} /\ SimilarIn(pool, b) = {}
               /\ Take(pool \cup {y}, b) = Take(pool, b) /\ b.category = y.category
      <4>1. due = b.amount /\ more[i + 1].due = more[i].due + 0
        BY <3>3, <3>6
      <4>2. more[i + 1].due = less[i + 1].due - b.amount
        BY <2>2, <2>3, <2>4, <2>6, <4>1
      <4> QED
        BY <2>2, <2>3, <3>1, <3>3, <3>6, <4>2
    <3> QED
      BY <3>4, <3>5, <3>6
  <2>7. i \in Nat /\ (Passed(i) \/ Settled(i))
    BY <2>1
  <2> QED
    BY <2>5, <2>6, <2>7
<1>7. Good = Nat
  <2>1. Good \in SUBSET Nat
    OBVIOUS
  <2> HIDE DEF Good
  <2> QED
    BY <1>5, <1>6, <2>1, NaturalsFromZero
<1>8. Passed(n) \/ Settled(n)
  BY <1>1, <1>7
<1> QED
  BY <1>4, <1>8 DEF bills

(* Two forms of a row: its status is not looked at.                        *)
Alike(x, y) == /\ x.id = y.id /\ x.day = y.day
               /\ x.category = y.category /\ x.amount = y.amount

(* Two pools that differ in the form of that row at most.                  *)
Twins(one, two, x, y) ==
  \/ one = two
  \/ \E pool : x \notin pool /\ y \notin pool /\ one = pool \cup {x} /\ two = pool \cup {y}

LEMMA TakeAlike ==
  ASSUME NEW x, NEW y, Alike(x, y), NEW pool, x \notin pool, y \notin pool,
         IsMonth(pool \cup {x}), IsMonth(pool \cup {y}), NEW b, b.amount \in Int
  PROVE  /\ SimilarIn(pool \cup {x}, b) = {} <=> SimilarIn(pool \cup {y}, b) = {}
         /\ Twins(Take(pool \cup {x}, b), Take(pool \cup {y}, b), x, y)
<1>1. IsMonth(pool)
  BY DEF IsMonth, Distinct
<1>2. x \in SimilarIn({x}, b) <=> y \in SimilarIn({y}, b)
  BY DEF SimilarIn, Alike
<1>3. CASE x \notin SimilarIn({x}, b)
  <2>1. /\ SimilarIn(pool \cup {x}, b) = SimilarIn(pool, b)
        /\ Take(pool \cup {x}, b) = Take(pool, b) \cup {x} /\ x \notin Take(pool, b)
    BY <1>1, <1>3, TakeSpares
  <2>2. /\ SimilarIn(pool \cup {y}, b) = SimilarIn(pool, b)
        /\ Take(pool \cup {y}, b) = Take(pool, b) \cup {y} /\ y \notin Take(pool, b)
    BY <1>1, <1>2, <1>3, TakeSpares
  <2> QED
    BY <2>1, <2>2 DEF Twins
<1>4. CASE x \in SimilarIn({x}, b)
  <2> DEFINE S == SimilarIn(pool, b)
             Sx == SimilarIn(pool \cup {x}, b)
             Sy == SimilarIn(pool \cup {y}, b)
             c == Closest(pool \cup {x}, b)
             e == Closest(pool \cup {y}, b)
  <2>1. Sx = S \cup {x} /\ Sy = S \cup {y} /\ S \subseteq pool
    BY <1>2, <1>4 DEF SimilarIn
  <2>2. /\ c \in Sx /\ \A z \in Sx \ {c} : Closer(c, z, b)
    BY <2>1, ClosestIs DEF IsMonth
  <2>3. \A d \in Sy : (\A z \in Sy \ {d} : Closer(d, z, b)) => d = e
    BY <2>1, ClosestIs DEF IsMonth
  <2>4. Take(pool \cup {x}, b) = (pool \cup {x}) \ {c} /\ Take(pool \cup {y}, b) = (pool \cup {y}) \ {e}
    BY <2>1 DEF Take
  <2>5. \A z : /\ Closer(x, z, b) => Closer(y, z, b)
               /\ Closer(z, x, b) => Closer(z, y, b)
    BY DEF Closer, ListedBefore, Gap, Alike
  <2> HIDE DEF S, Sx, Sy, c, e
  <2>6. CASE c = x
    <3>1. \A z \in Sy \ {y} : Closer(y, z, b)
      BY <2>1, <2>2, <2>5, <2>6
    <3>2. e = y
      BY <2>1, <2>3, <3>1
    <3> QED
      BY <2>1, <2>4, <2>6, <3>2 DEF Sx, Sy, Twins
  <2>7. CASE c # x
    <3>1. c \in S /\ c # y
      BY <2>1, <2>2, <2>7
    <3>2. \A z \in Sy \ {c} : Closer(c, z, b)
      BY <2>1, <2>2, <2>5, <2>7
    <3>3. e = c
      BY <2>1, <2>3, <3>1, <3>2
    <3>4. /\ Take(pool \cup {x}, b) = (pool \ {c}) \cup {x}
          /\ Take(pool \cup {y}, b) = (pool \ {c}) \cup {y}
      BY <2>4, <2>7, <3>1, <3>3
    <3> QED
      BY <2>1, <3>4 DEF Sx, Sy, Twins
  <2> QED
    BY <2>6, <2>7
<1> QED
  BY <1>3, <1>4

(* Settling a row settles no bill that it did not settle pending.          *)
LEMMA DueIgnoresStatus ==
  ASSUME past \in Histories, NEW S, NEW x, NEW y, Alike(x, y), x \notin S, y \notin S,
         IsMonth(S \cup {x}), IsMonth(S \cup {y})
  PROVE  FixedBillsDue(S \cup {x}) = FixedBillsDue(S \cup {y})
<1> DEFINE bills == FixedBills[past]
           n == Len(bills)
           one == LeftAfter(S \cup {x})
           two == LeftAfter(S \cup {y})
           Fine(i) == one[i].due = two[i].due /\ Twins(one[i].pool, two[i].pool, x, y)
           Good == {i \in Nat : i <= n => Fine(i)}
<1>1. n \in Nat /\ \A i \in 1..n : bills[i].amount \in Nat
  BY BillsAre
<1>2. /\ one[0].pool = S \cup {x} /\ one[0].due = 0 /\ two[0].pool = S \cup {y} /\ two[0].due = 0
      /\ \A i \in 0..(n - 1) :
           /\ one[i + 1].pool = Take(one[i].pool, bills[i + 1])
           /\ one[i + 1].due = one[i].due + (IF SimilarIn(one[i].pool, bills[i + 1]) = {}
                                             THEN bills[i + 1].amount ELSE 0)
           /\ two[i + 1].pool = Take(two[i].pool, bills[i + 1])
           /\ two[i + 1].due = two[i].due + (IF SimilarIn(two[i].pool, bills[i + 1]) = {}
                                             THEN bills[i + 1].amount ELSE 0)
  BY LeftFields
<1>3. \A i \in 0..n : one[i].pool \subseteq S \cup {x} /\ two[i].pool \subseteq S \cup {y}
  BY LeftTyped
<1>4. FixedBillsDue(S \cup {x}) = one[n].due /\ FixedBillsDue(S \cup {y}) = two[n].due
  BY LeftIs
<1> HIDE DEF one, two, n, bills
<1>5. 0 \in Good
  BY <1>2 DEF Twins
<1>6. ASSUME NEW i \in Good PROVE i + 1 \in Good
  <2> SUFFICES ASSUME i + 1 <= n PROVE Fine(i + 1)
    OBVIOUS
  <2>1. i \in 0..(n - 1) /\ i + 1 \in 1..n /\ i <= n /\ i \in 0..n
    BY <1>1
  <2>2. PICK b : b = bills[i + 1] /\ b.amount \in Int
    BY <1>1, <2>1
  <2>3. one[i].due = two[i].due /\ Twins(one[i].pool, two[i].pool, x, y)
    BY <2>1
  <2>4. /\ one[i + 1].pool = Take(one[i].pool, b)
        /\ one[i + 1].due = one[i].due + (IF SimilarIn(one[i].pool, b) = {} THEN b.amount ELSE 0)
        /\ two[i + 1].pool = Take(two[i].pool, b)
        /\ two[i + 1].due = two[i].due + (IF SimilarIn(two[i].pool, b) = {} THEN b.amount ELSE 0)
    BY <1>2, <2>1, <2>2
  <2>5. CASE one[i].pool = two[i].pool
    BY <2>3, <2>4, <2>5 DEF Twins
  <2>6. CASE one[i].pool # two[i].pool
    <3>1. PICK pool : /\ x \notin pool /\ y \notin pool
                      /\ one[i].pool = pool \cup {x} /\ two[i].pool = pool \cup {y}
      BY <2>3, <2>6 DEF Twins
    <3>2. IsMonth(pool \cup {x}) /\ IsMonth(pool \cup {y})
      <4>1. pool \cup {x} \subseteq S \cup {x} /\ pool \cup {y} \subseteq S \cup {y}
        BY <1>3, <2>1, <3>1
      <4> QED
        BY <4>1 DEF IsMonth, Distinct
    <3>3. /\ SimilarIn(pool \cup {x}, b) = {} <=> SimilarIn(pool \cup {y}, b) = {}
          /\ Twins(Take(pool \cup {x}, b), Take(pool \cup {y}, b), x, y)
      BY <2>2, <3>1, <3>2, TakeAlike, ZenonT(30)
    <3> QED
      BY <2>3, <2>4, <3>1, <3>3
  <2> QED
    BY <2>5, <2>6
<1>7. Good = Nat
  <2>1. Good \in SUBSET Nat
    OBVIOUS
  <2> HIDE DEF Good
  <2> QED
    BY <1>5, <1>6, <2>1, NaturalsFromZero
<1>8. Fine(n)
  BY <1>1, <1>7
<1> QED
  BY <1>4, <1>8

-----------------------------------------------------------------------------
(* Totals, and what is set aside for today.                                *)

IsRows(S) == S \in SUBSET AnyExpense /\ IsFiniteSet(S)

LEMMA TotalIs ==
  ASSUME NEW S, IsRows(S)
  PROVE  TotalOf(S) \in Nat
<1> DEFINE f == [y \in S |-> y.amount]
<1>1. \A y \in S : f[y] \in Nat
  BY DEF IsRows, AnyExpense
<1> HIDE DEF f
<1>2. SumFunctionOnSet(f, S) \in Nat
  BY <1>1, SumNat DEF IsRows
<1> QED
  BY <1>2 DEF TotalOf, f

LEMMA TotalAdd ==
  ASSUME NEW S, NEW x, x \notin S, IsRows(S \cup {x})
  PROVE  IsRows(S) /\ TotalOf(S \cup {x}) = TotalOf(S) + x.amount
<1> DEFINE f == [y \in S \cup {x} |-> y.amount]
           g == [y \in S |-> y.amount]
<1>1. IsFiniteSet(S) /\ IsRows(S)
  <2>1. IsFiniteSet(S)
    BY FS_Subset DEF IsRows
  <2> QED
    BY <2>1 DEF IsRows
<1>2. \A y \in S \cup {x} : f[y] \in Int
  BY DEF IsRows, AnyExpense
<1>3. \A y \in S : f[y] \in Int /\ g[y] = f[y]
  BY <1>2
<1>4. f[x] = x.amount
  OBVIOUS
<1>5. TotalOf(S \cup {x}) = SumFunctionOnSet(f, S \cup {x}) /\ TotalOf(S) = SumFunctionOnSet(g, S)
  BY DEF TotalOf
<1> HIDE DEF f, g
<1>6. SumFunctionOnSet(f, S \cup {x}) = f[x] + SumFunctionOnSet(f, S)
  BY <1>1, <1>2, SumAdd
<1>7. SumFunctionOnSet(g, S) = SumFunctionOnSet(f, S)
  BY <1>1, <1>3, SumSame
<1>8. SumFunctionOnSet(f, S) \in Int /\ f[x] \in Int
  BY <1>1, <1>2, SumTypeAndRemove
<1> QED
  BY <1>1, <1>4, <1>5, <1>6, <1>7, <1>8

LEMMA UsualIs ==
  ASSUME past \in Histories, HasHistory(past), dayOfMonth \in DaysOf(0)
  PROVE  Usual[past][dayOfMonth].slice \in Nat /\ Usual[past][dayOfMonth].after \in Nat
<1>1. ASSUME NEW age \in Ages, NEW first, NEW last
      PROVE  Between(Variable(past, past[age]), first, last) \in Nat
  <2> DEFINE S == {x \in Variable(past, past[age]) : first <= x.day /\ x.day <= last}
  <2>1. S \subseteq past[age]
    BY DEF Variable
  <2>2. past[age] \in SUBSET AnyExpense /\ IsFiniteSet(past[age])
    BY PastIs
  <2> HIDE DEF S
  <2>3. IsRows(S)
    BY <2>1, <2>2, FS_Subset DEF IsRows
  <2> QED
    BY <2>3, TotalIs DEF Between, S
<1> DEFINE sliceDay(age) == Min({dayOfMonth, Length[age]})
           lastDay(age) == Min({Length[age], sliceDay(age) + Length[0] - dayOfMonth})
           slice(age) == Between(Variable(past, past[age]), sliceDay(age), sliceDay(age))
           after(age) == Between(Variable(past, past[age]), sliceDay(age) + 1, lastDay(age))
           slices == [age \in Basis[past] |-> slice(age)]
           afters == [age \in Basis[past] |-> after(age)]
<1>2. Basis[past] \in SUBSET Ages /\ IsFiniteSet(Basis[past]) /\ Basis[past] # {}
  BY BasisIs
<1>3. \A age \in Basis[past] : slice(age) \in Nat /\ after(age) \in Nat
  BY <1>1, <1>2
<1>4. Usual[past][dayOfMonth] = [slice |-> DoubleMedian(slices), after |-> DoubleMedian(afters)]
  BY DEF Usual
<1> HIDE DEF slice, after
<1>5. slices \in [Basis[past] -> Nat] /\ afters \in [Basis[past] -> Nat]
  BY <1>3
<1> HIDE DEF slices, afters
<1>6. DoubleMedian(slices) \in Nat /\ DoubleMedian(afters) \in Nat
  BY <1>2, <1>5, MedianIs
<1> QED
  BY <1>4, <1>6

(* What was spent today besides bills, of rows S.                          *)
SpentToday(S) == Between(Variable(past, {x \in S : ~x.pending}), dayOfMonth, dayOfMonth)

LEMMA SpentAdd ==
  ASSUME NEW S, NEW x, x \notin S, IsRows(S \cup {x}), dayOfMonth \in Nat
  PROVE  /\ SpentToday(S) \in Nat
         /\ SpentToday(S \cup {x}) =
              SpentToday(S) + (IF ~x.pending /\ ~IsFixed(past, x) /\ x.day = dayOfMonth
                               THEN x.amount ELSE 0)
<1> DEFINE T(R) == {y \in R : ~y.pending /\ ~IsFixed(past, y) /\ y.day = dayOfMonth}
<1>1. IsRows(S)
  BY TotalAdd
<1>2. \A y \in S \cup {x} : y.day \in Nat
  BY DEF IsRows, AnyExpense
<1>3. ASSUME NEW R \in SUBSET (S \cup {x}) PROVE SpentToday(R) = TotalOf(T(R))
  <2>1. \A y \in R : (dayOfMonth <= y.day /\ y.day <= dayOfMonth) <=> y.day = dayOfMonth
    BY <1>2
  <2>2. {y \in Variable(past, {z \in R : ~z.pending}) : dayOfMonth <= y.day /\ y.day <= dayOfMonth}
          = T(R)
    BY <2>1 DEF Variable
  <2> QED
    BY <2>2 DEF SpentToday, Between
<1>4. SpentToday(S) = TotalOf(T(S)) /\ SpentToday(S \cup {x}) = TotalOf(T(S \cup {x}))
  BY <1>3
<1>5. T(S) \subseteq S /\ x \notin T(S)
  OBVIOUS
<1>6. CASE ~x.pending /\ ~IsFixed(past, x) /\ x.day = dayOfMonth
  <2>1. T(S \cup {x}) = T(S) \cup {x}
    BY <1>6
  <2> HIDE DEF T
  <2>2. IsRows(T(S) \cup {x})
    <3>1. T(S) \cup {x} \in SUBSET (S \cup {x})
      BY <1>5
    <3>2. IsFiniteSet(T(S) \cup {x})
      BY <3>1, FS_Subset DEF IsRows
    <3> QED
      BY <3>1, <3>2 DEF IsRows
  <2>3. IsRows(T(S)) /\ TotalOf(T(S) \cup {x}) = TotalOf(T(S)) + x.amount
    BY <1>5, <2>2, TotalAdd
  <2> QED
    BY <1>4, <1>6, <2>1, <2>3, TotalIs
<1>7. CASE ~(~x.pending /\ ~IsFixed(past, x) /\ x.day = dayOfMonth)
  <2>1. T(S \cup {x}) = T(S)
    BY <1>7
  <2> HIDE DEF T
  <2>2. IsRows(T(S))
    BY <1>1, <1>5, FS_Subset DEF IsRows
  <2>3. TotalOf(T(S)) \in Nat
    BY <2>2, TotalIs
  <2> QED
    BY <1>4, <1>7, <2>1, <2>3
<1> QED
  BY <1>6, <1>7

(* The window, when s of what is usual today is spent.                     *)
WindowOf(after, slice, s) == RoundedHalf(after + Max({0, slice - 2 * s}))

(* Spending a today takes at most a from what is still expected of today.  *)
LEMMA WindowShrinks ==
  ASSUME NEW after \in Nat, NEW slice \in Nat, NEW s \in Nat, NEW t \in Nat,
         NEW a \in Nat, t = s + a
  PROVE  /\ WindowOf(after, slice, s) \in Nat /\ WindowOf(after, slice, t) \in Nat
         /\ WindowOf(after, slice, t) <= WindowOf(after, slice, s)
         /\ WindowOf(after, slice, s) <= WindowOf(after, slice, t) + a
         /\ a = 0 => WindowOf(after, slice, t) = WindowOf(after, slice, s)
<1>1. \A r \in Nat : Max({0, slice - 2 * r}) = IF 0 >= slice - 2 * r THEN 0 ELSE slice - 2 * r
  BY PairBounds
<1>2. \A m, k \in Nat : m <= k /\ k <= m + 2 * a =>
        RoundedHalf(m) <= RoundedHalf(k) /\ RoundedHalf(k) <= RoundedHalf(m) + a
  BY SMTT(30) DEF RoundedHalf
<1> DEFINE rest(r) == IF 0 >= slice - 2 * r THEN 0 ELSE slice - 2 * r
           m == after + rest(t)
           k == after + rest(s)
<1>3. m \in Nat /\ k \in Nat /\ m <= k /\ k <= m + 2 * a
  OBVIOUS
<1>4. /\ Max({0, slice - 2 * t}) = rest(t)
      /\ Max({0, slice - 2 * s}) = rest(s)
  <2>1. \A r \in Nat : Max({0, slice - 2 * r}) = rest(r)
    BY <1>1
  <2> HIDE DEF rest
  <2> QED
    BY <2>1
<1> HIDE DEF m, k, rest
<1>5. /\ RoundedHalf(m) \in Nat /\ RoundedHalf(k) \in Nat
      /\ RoundedHalf(m) <= RoundedHalf(k) /\ RoundedHalf(k) <= RoundedHalf(m) + a
  BY <1>2, <1>3, RoundedIs
<1>6. a = 0 => WindowOf(after, slice, t) = WindowOf(after, slice, s)
  OBVIOUS
<1> QED
  BY <1>4, <1>5, <1>6 DEF m, k, WindowOf

-----------------------------------------------------------------------------
(* The expected expense of the month.                                      *)

LEMMA BillsDueIs ==
  ASSUME past \in Histories, NEW S
  PROVE  FixedBillsDue(S) \in Int
<1>1. Len(FixedBills[past]) \in 0..Len(FixedBills[past])
  BY BillsAre
<1> QED
  BY <1>1, LeftIs, LeftTyped

(* What a row of a month with a past adds to each part of the estimate.    *)
LEMMA EstimateIs ==
  ASSUME past \in Histories, HasHistory(past), dayOfMonth \in DaysOf(0), NEW S, IsRows(S)
  PROVE  LET usual == Usual[past][dayOfMonth]
         IN  /\ usual.slice \in Nat /\ usual.after \in Nat
             /\ ExpectedExpense(S) =
                  TotalOf(S) + (FixedBillsDue(S) +
                    WindowOf(usual.after, usual.slice, SpentToday(S)))
BY UsualIs DEF ExpectedExpense, Estimate, VariableWindow, SpentToday, WindowOf

LEMMA RowBears ==
  ASSUME past \in Histories, dayOfMonth \in DaysOf(0), NEW S, NEW x, x \notin S,
         IsMonth(S \cup {x}), IsFiniteSet(S)
  PROVE  Bears(x, ExpectedExpense(S \cup {x}) - ExpectedExpense(S))
<1>1. IsRows(S \cup {x}) /\ IsRows(S)
  <2>1. IsFiniteSet(S \cup {x})
    BY FS_AddElement
  <2> QED
    BY <2>1 DEF IsRows, IsMonth
<1>2. x.amount \in Nat
  BY <1>1 DEF IsRows, AnyExpense
<1>3. TotalOf(S) \in Nat /\ TotalOf(S \cup {x}) = TotalOf(S) + x.amount
  BY <1>1, TotalIs, TotalAdd
<1>4. CASE ~HasHistory(past)
  <2>1. ExpectedExpense(S) = TotalOf(S) + 0 /\ ExpectedExpense(S \cup {x}) = TotalOf(S \cup {x}) + 0
    BY <1>4 DEF ExpectedExpense, Estimate
  <2>2. ExpectedExpense(S \cup {x}) - ExpectedExpense(S) = x.amount
    BY <1>2, <1>3, <2>1
  <2> QED
    BY <1>2, <2>2 DEF Bears
<1>5. CASE HasHistory(past)
  <2>1. PICK after \in Nat, slice \in Nat :
          /\ ExpectedExpense(S) = TotalOf(S) + (FixedBillsDue(S) +
               WindowOf(after, slice, SpentToday(S)))
          /\ ExpectedExpense(S \cup {x}) = TotalOf(S \cup {x}) + (FixedBillsDue(S \cup {x}) +
               WindowOf(after, slice, SpentToday(S \cup {x})))
    BY <1>1, <1>5, EstimateIs
  <2> DEFINE a == IF ~x.pending /\ ~IsFixed(past, x) /\ x.day = dayOfMonth THEN x.amount ELSE 0
             w == WindowOf(after, slice, SpentToday(S))
             v == WindowOf(after, slice, SpentToday(S \cup {x}))
             due == FixedBillsDue(S)
             rest == FixedBillsDue(S \cup {x})
             change == ExpectedExpense(S \cup {x}) - ExpectedExpense(S)
  <2>2. a \in Nat /\ a <= x.amount
    BY <1>2
  <2>3. /\ SpentToday(S) \in Nat /\ SpentToday(S \cup {x}) = SpentToday(S) + a
    <3>1. dayOfMonth \in Nat
      BY EstimateAssumption DEF DaysOf
    <3> QED
      BY <1>1, <3>1, SpentAdd
  <2> HIDE DEF a
  <2>4. w \in Nat /\ v \in Nat /\ v <= w /\ w <= v + a /\ (a = 0 => v = w)
    <3>1. PICK s \in Nat, t \in Nat, d \in Nat : s = SpentToday(S) /\ t = SpentToday(S \cup {x}) /\ d = a /\ t = s + d
      BY <2>2, <2>3
    <3>2. w = WindowOf(after, slice, s) /\ v = WindowOf(after, slice, t)
      BY <3>1
    <3>3. /\ WindowOf(after, slice, s) \in Nat /\ WindowOf(after, slice, t) \in Nat
          /\ WindowOf(after, slice, t) <= WindowOf(after, slice, s)
          /\ WindowOf(after, slice, s) <= WindowOf(after, slice, t) + d
          /\ d = 0 => WindowOf(after, slice, t) = WindowOf(after, slice, s)
      <4>1. t = s + d
        BY <3>1
      <4> QED
        BY <4>1, WindowShrinks
    <3> HIDE DEF v, w
    <3> QED
      BY <3>1, <3>2, <3>3
  <2>5. due \in Int /\ rest \in Int
    BY BillsDueIs
  <2> HIDE DEF w, v, due, rest
  <2>6. change = x.amount + (rest - due) + (v - w)
    BY <1>2, <1>3, <2>1, <2>4, <2>5 DEF w, v, due, rest
  <2> HIDE DEF change
  <2>7. CASE IsFixed(past, x)
    <3>1. v = w
      BY <2>4, <2>7 DEF a
    <3>2. CASE rest = due
      <4>1. change = x.amount
        BY <1>2, <2>4, <2>5, <2>6, <3>1, <3>2
      <4> QED
        BY <2>7, <4>1 DEF Bears, change
    <3>3. CASE rest # due
      <4>1. PICK b \in Range(FixedBills[past]) : b.category = x.category /\ rest = due - b.amount
        BY <3>3, RowSettlesOneBill DEF rest, due
      <4>2. b.amount \in Nat
        BY BillsAre
      <4>3. change = x.amount - b.amount
        BY <1>2, <2>4, <2>5, <2>6, <3>1, <4>1, <4>2
      <4> QED
        BY <2>7, <4>1, <4>3 DEF Bears, change
    <3> QED
      BY <3>2, <3>3
  <2>8. CASE ~IsFixed(past, x)
    <3>1. rest = due
      BY <2>8, OtherRowsDueSame DEF rest, due
    <3>2. change = x.amount + (v - w)
      BY <1>2, <2>4, <2>5, <2>6, <3>1
    <3>3. 0 <= change /\ change <= x.amount
      BY <1>2, <2>2, <2>4, <3>2
    <3>4. a = 0 => change = x.amount
      BY <1>2, <2>4, <3>2
    <3>5. x.pending \/ x.day # dayOfMonth => a = 0
      BY DEF a
    <3> QED
      BY <1>5, <2>8, <3>3, <3>4, <3>5 DEF Bears, change
  <2> QED
    BY <2>7, <2>8
<1> QED
  BY <1>4, <1>5

LEMMA RowSettles ==
  ASSUME past \in Histories, dayOfMonth \in DaysOf(0), NEW S, IsFiniteSet(S),
         NEW x, NEW y, Alike(x, y), x.pending = FALSE, y.pending = TRUE,
         x \notin S, y \notin S, IsMonth(S \cup {x}), IsMonth(S \cup {y})
  PROVE  Settles(x, ExpectedExpense(S \cup {x}) - ExpectedExpense(S \cup {y}))
<1>1. IsRows(S \cup {x}) /\ IsRows(S \cup {y}) /\ IsRows(S)
  <2>1. IsFiniteSet(S \cup {x}) /\ IsFiniteSet(S \cup {y})
    BY FS_AddElement
  <2> QED
    BY <2>1 DEF IsRows, IsMonth
<1>2. x.amount \in Nat /\ y.amount = x.amount
  BY <1>1 DEF IsRows, AnyExpense, Alike
<1>3. TotalOf(S \cup {x}) \in Nat /\ TotalOf(S \cup {y}) = TotalOf(S \cup {x})
  BY <1>1, <1>2, TotalIs, TotalAdd
<1>4. CASE ~HasHistory(past)
  <2>1. /\ ExpectedExpense(S \cup {x}) = TotalOf(S \cup {x}) + 0
        /\ ExpectedExpense(S \cup {y}) = TotalOf(S \cup {y}) + 0
    BY <1>4 DEF ExpectedExpense, Estimate
  <2>2. ExpectedExpense(S \cup {x}) - ExpectedExpense(S \cup {y}) = 0
    BY <1>3, <2>1
  <2> QED
    BY <1>2, <2>2 DEF Settles
<1>5. CASE HasHistory(past)
  <2>1. PICK after \in Nat, slice \in Nat :
          /\ ExpectedExpense(S \cup {x}) = TotalOf(S \cup {x}) + (FixedBillsDue(S \cup {x}) +
               WindowOf(after, slice, SpentToday(S \cup {x})))
          /\ ExpectedExpense(S \cup {y}) = TotalOf(S \cup {y}) + (FixedBillsDue(S \cup {y}) +
               WindowOf(after, slice, SpentToday(S \cup {y})))
    BY <1>1, <1>5, EstimateIs
  <2> DEFINE a == IF ~IsFixed(past, x) /\ x.day = dayOfMonth THEN x.amount ELSE 0
             v == WindowOf(after, slice, SpentToday(S \cup {x}))
             w == WindowOf(after, slice, SpentToday(S \cup {y}))
             due == FixedBillsDue(S \cup {x})
             change == ExpectedExpense(S \cup {x}) - ExpectedExpense(S \cup {y})
  <2>2. a \in Nat /\ a <= x.amount
    BY <1>2
  <2>3. /\ SpentToday(S \cup {y}) \in Nat
        /\ SpentToday(S \cup {x}) = SpentToday(S \cup {y}) + a
    <3>1. dayOfMonth \in Nat
      BY EstimateAssumption DEF DaysOf
    <3>2. SpentToday(S) \in Nat /\ SpentToday(S \cup {x}) = SpentToday(S) + a
      BY <1>1, <3>1, SpentAdd
    <3>3. SpentToday(S \cup {y}) = SpentToday(S) + 0
      BY <1>1, <3>1, SpentAdd
    <3> QED
      BY <3>2, <3>3
  <2> HIDE DEF a
  <2>4. w \in Nat /\ v \in Nat /\ v <= w /\ w <= v + a /\ (a = 0 => v = w)
    <3>1. PICK s \in Nat, t \in Nat, d \in Nat : s = SpentToday(S \cup {y}) /\ t = SpentToday(S \cup {x}) /\ d = a /\ t = s + d
      BY <2>2, <2>3
    <3>2. w = WindowOf(after, slice, s) /\ v = WindowOf(after, slice, t)
      BY <3>1
    <3>3. /\ WindowOf(after, slice, s) \in Nat /\ WindowOf(after, slice, t) \in Nat
          /\ WindowOf(after, slice, t) <= WindowOf(after, slice, s)
          /\ WindowOf(after, slice, s) <= WindowOf(after, slice, t) + d
          /\ d = 0 => WindowOf(after, slice, t) = WindowOf(after, slice, s)
      <4>1. t = s + d
        BY <3>1
      <4> QED
        BY <4>1, WindowShrinks
    <3> HIDE DEF v, w
    <3> QED
      BY <3>1, <3>2, <3>3
  <2>5. due \in Int /\ FixedBillsDue(S \cup {y}) = due
    BY BillsDueIs, DueIgnoresStatus
  <2> HIDE DEF v, w, due
  <2>6. change = v - w
    BY <1>3, <2>1, <2>4, <2>5 DEF v, w, due
  <2> HIDE DEF change
  <2>7. -x.amount <= change /\ change <= 0 /\ (a = 0 => change = 0)
    BY <1>2, <2>2, <2>4, <2>6
  <2>8. IsFixed(past, x) \/ x.day # dayOfMonth => a = 0
    BY DEF a
  <2> QED
    BY <1>5, <2>7, <2>8 DEF Settles, change
<1> QED
  BY <1>4, <1>5

-----------------------------------------------------------------------------
(* Every state.                                                            *)

(* Rows that are finitely many, each with an id of its own: what the       *)
(* counting rests on.                                                      *)
EstimateInv == EstimateTypeOK /\ IsFiniteSet(plain) /\ Distinct(plain)

LEMMA EstimateInit_Inv == EstimateInit => EstimateInv
<1> SUFFICES ASSUME EstimateInit PROVE EstimateInv
  OBVIOUS
<1>1. 1 \in DaysOf(0)
  BY EstimateAssumption DEF DaysOf
<1> QED
  BY <1>1, FS_EmptySet DEF EstimateInit, EstimateInv, EstimateTypeOK, Distinct

LEMMA EstimateNext_Inv == EstimateInv /\ [EstimateNext]_estimateVars => EstimateInv'
<1> SUFFICES ASSUME EstimateInv, [EstimateNext]_estimateVars PROVE EstimateInv'
  OBVIOUS
<1> USE DEF EstimateInv, EstimateTypeOK
<1>1. ASSUME CreateExpense PROVE EstimateInv'
  <2>1. PICK id \in 1..MaxRows, d \in DaysOf(0), c \in Categories, a \in Spent, p \in BOOLEAN :
          /\ \A x \in plain : x.id # id
          /\ plain' = plain \cup
               {[id |-> id, day |-> d, category |-> c, amount |-> a, pending |-> p]}
    BY <1>1 DEF CreateExpense
  <2>2. PICK new : /\ new = [id |-> id, day |-> d, category |-> c, amount |-> a, pending |-> p]
                   /\ plain' = plain \cup {new}
    BY <2>1
  <2>3. new \in PlainExpense(0) /\ new.id = id
    BY <2>2, EstimateAssumption DEF PlainExpense
  <2>4. Distinct(plain')
    BY <2>1, <2>2, <2>3 DEF Distinct
  <2>5. IsFiniteSet(plain')
    BY <2>2, FS_AddElement
  <2> QED
    BY <1>1, <2>2, <2>3, <2>4, <2>5 DEF CreateExpense, Distinct
<1>2. ASSUME NEW x \in plain, DeleteExpense(x) PROVE EstimateInv'
  BY <1>2, FS_RemoveElement DEF DeleteExpense, Distinct
<1>3. ASSUME NEW x \in plain, SetExpenseStatus(x) PROVE EstimateInv'
  <2>1. PICK y : y = [x EXCEPT !.pending = ~@] /\ plain' = (plain \ {x}) \cup {y}
    BY <1>3 DEF SetExpenseStatus
  <2>2. y \in PlainExpense(0) /\ y.id = x.id
    BY <2>1 DEF PlainExpense
  <2>3. Distinct(plain')
    <3>1. \A z \in plain \ {x} : z.id # y.id
      BY <2>2 DEF Distinct
    <3> QED
      BY <2>1, <3>1 DEF Distinct
  <2>4. IsFiniteSet(plain')
    BY <2>1, FS_RemoveElement, FS_AddElement
  <2> QED
    BY <1>3, <2>1, <2>2, <2>3, <2>4 DEF SetExpenseStatus, Distinct
<1>4. ASSUME DayPasses PROVE EstimateInv'
  <2>1. Length[0] \in Nat
    BY EstimateAssumption
  <2> QED
    BY <1>4, <2>1 DEF DayPasses, DaysOf, Distinct
<1>5. ASSUME UNCHANGED estimateVars PROVE EstimateInv'
  BY <1>5 DEF estimateVars, Distinct
<1> QED
  BY <1>1, <1>2, <1>3, <1>4, <1>5 DEF EstimateNext

LEMMA EstimateInv_CountsOnce == EstimateInv => ExpenseCountsOnce
<1> SUFFICES ASSUME EstimateInv, NEW x \in plain
             PROVE  LET others == plain \ {x}
                        as(p) == ExpectedExpense(others \cup {[x EXCEPT !.pending = p]})
                    IN  /\ Bears(x, ExpectedExpense(plain) - ExpectedExpense(others))
                        /\ x.day <= dayOfMonth => Settles(x, as(FALSE) - as(TRUE))
  BY DEF ExpenseCountsOnce
<1> DEFINE others == plain \ {x}
           done == [x EXCEPT !.pending = FALSE]
           due == [x EXCEPT !.pending = TRUE]
<1>1. past \in Histories /\ dayOfMonth \in DaysOf(0)
  BY DEF EstimateInv, EstimateTypeOK
<1>2. IsMonth(plain) /\ IsFiniteSet(others)
  <2>1. plain \subseteq AnyExpense
    BY ExpensesAre, EstimateAssumption DEF EstimateInv, EstimateTypeOK
  <2> QED
    BY <2>1, FS_RemoveElement DEF IsMonth, EstimateInv
<1>3. x \notin others /\ plain = others \cup {x}
  OBVIOUS
<1>4. x \in AnyExpense /\ \A y \in others : y.id # x.id
  BY <1>2 DEF IsMonth, Distinct
<1>5. /\ done \in AnyExpense /\ due \in AnyExpense
      /\ done.pending = FALSE /\ due.pending = TRUE
      /\ Alike(done, due) /\ Alike(done, x)
  BY <1>4 DEF AnyExpense, Alike
<1>6. others \in SUBSET AnyExpense /\ Distinct(others)
  BY <1>2 DEF IsMonth, Distinct
<1> HIDE DEF others, done, due
<1>7. done.id = x.id /\ due.id = x.id
  BY <1>5 DEF Alike
<1>8. /\ done \notin others /\ due \notin others
      /\ IsMonth(others \cup {done}) /\ IsMonth(others \cup {due})
  BY <1>4, <1>5, <1>6, <1>7 DEF IsMonth, Distinct
<1>9. Bears(x, ExpectedExpense(plain) - ExpectedExpense(others))
  BY <1>1, <1>2, <1>3, RowBears
<1>10. Settles(done, ExpectedExpense(others \cup {done}) - ExpectedExpense(others \cup {due}))
  BY <1>1, <1>2, <1>5, <1>8, RowSettles
<1>11. Settles(x, ExpectedExpense(others \cup {done}) - ExpectedExpense(others \cup {due}))
  <2>1. IsFixed(past, done) <=> IsFixed(past, x)
    BY <1>5 DEF IsFixed, Alike
  <2> QED
    BY <1>5, <1>10, <2>1 DEF Settles, Alike
<1> QED
  BY <1>9, <1>11 DEF others, done, due

(* The rows of the month keep their types and their past is one of the     *)
(* histories the model is given, whatever comes, goes or is settled.       *)
THEOREM EstimateTypeCorrect == EstimateSpec => []EstimateTypeOK
<1>1. EstimateInv => EstimateTypeOK
  BY DEF EstimateInv
<1> QED
  BY <1>1, EstimateInit_Inv, EstimateNext_Inv, PTL DEF EstimateSpec

(* In every state each expense of the month counts once in what is         *)
(* expected of it: as itself, as the one bill it settles, or out of what   *)
(* was set aside for today; and its status alone moves only that.          *)
THEOREM ExpenseAlwaysCountsOnce == EstimateSpec => []ExpenseCountsOnce
BY EstimateInit_Inv, EstimateNext_Inv, EstimateInv_CountsOnce, PTL DEF EstimateSpec
=============================================================================
