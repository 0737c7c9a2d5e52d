--------------------------- MODULE MonthProjection ---------------------------
(***************************************************************************)
(* A recurrence or a plan of instalments, the rows the job generates for   *)
(* it, and the projection of the current month's total, which is the rows  *)
(* there are plus the ones it expects the job to generate still            *)
(* (report/valueObjects/MonthProjection.ts).  The job and the projection   *)
(* walk the schedule separately.                                           *)
(*                                                                         *)
(* One rule, an income or an expense: totals add up rule by rule.  A run   *)
(* of the job is one step here; module RecurringJob has its interleavings. *)
(* The estimate of the variable expenses is module VariableEstimate: it is *)
(* 0 for a workspace with fewer than MIN_BASIS_MONTHS months of history.   *)
(***************************************************************************)
EXTENDS InstallmentSchedule, FiniteSets, FiniteSetsExt, Functions

CONSTANTS Schedules,   (* [frequency, interval] a client may ask for       *)
          Amounts, Totals, Counts,     (* ... and amounts and instalments  *)
          LookAhead,   (* LOOK_AHEAD_DAYS                                  *)
          MaxGen,      (* the cap of getMaxGenerations                     *)
          MaxSteps,    (* MAX_OCCURRENCE_STEPS                             *)
          FirstToday, LastToday,    (* bounds: the days that pass          *)
          LastDate,    (* bound: no date that is asked for or generated is *)
                       (* later                                            *)
          MaxEdits     (* bound: updates of the rule and moves of rows     *)

Dates == FirstDay[0]..LastDate

(* The schedule of a purchase in instalments.                              *)
Monthly == [frequency |-> "MONTHLY", interval |-> 1]

ASSUME ProjectionAssumption ==
  /\ Schedules \subseteq [frequency : Frequencies, interval : Nat \ {0}]
  /\ Amounts \subseteq Nat \ {0} /\ Totals \subseteq Nat \ {0}
  /\ Counts \subseteq 1..MaxInstallments
  /\ LookAhead \in Nat /\ MaxGen \in 1..MaxSteps /\ MaxSteps \in Nat
  /\ FirstToday \in Dates /\ LastToday \in Dates /\ FirstToday <= LastToday
  /\ LastDate \in Int /\ LastToday + LookAhead <= LastDate
  /\ FirstDay[MonthOf(LastToday) + 1] <= LastDate + 1
  /\ MaxEdits \in Nat
  (* The calendar goes on past the end of any plan.                        *)
  /\ LastDate < FirstDay[LastMonth + 1]
  /\ \A sch \in Schedules \cup {Monthly} :
       MonthOf(LastDate) + sch.interval * MonthsPerYear * MaxInstallments <= LastMonth

VARIABLES today,
          rule,    (* its row of recurring_transactions                    *)
          rows,    (* the transactions that name it, by date: the pair is  *)
                   (* unique (ux_transactions_recurring_date)              *)
          born,    (* history: the amounts generated, by date              *)
          plan,    (* history: the plan asked for, until an edit           *)
          edits,   (* how many there were                                  *)
          copy,    (* what the backfill of installment_count read of rule  *)
          stale    (* history: its count was inferred from a copy that was *)
                   (* not the rule any more                                *)

script == <<copy, stale>>
vars == <<today, rule, rows, born, plan, edits, copy, stale>>

NoRow  == [status |-> "none", amount |-> 0]
NoPlan == [total |-> 0, exact |-> FALSE]
NoRule == [status |-> "none", frequency |-> "MONTHLY", interval |-> 1, amount |-> 0,
           start |-> FirstDay[0], end |-> Never, count |-> Never, last |-> Never]

(* What the dates of a rule are counted by.                                *)
Timing(s) == [frequency |-> s.frequency, interval |-> s.interval, start |-> s.start, end |-> s.end]
NoCopy    == Timing(NoRule)

Rows    == [status : {"PENDING", "COMPLETED"}, amount : Nat \ {0}] \cup {NoRow}

TypeOK ==
  /\ today \in FirstToday..LastToday
  /\ rule.status \in {"none", "active", "paused"}
  /\ rule.frequency \in Frequencies /\ rule.interval \in Nat \ {0}
  /\ rule.status = "none" \/ rule.amount \in Nat \ {0}
  /\ rule.start \in Dates
  /\ rule.end # Never => rule.start <= rule.end
  /\ rule.count \in 1..MaxInstallments \cup {Never}
  /\ rule.last \in Dates \cup {Never}
  /\ rows \in [Dates -> Rows]
  /\ born \in [Dates -> Nat]
  /\ plan \in [total : Totals, exact : BOOLEAN] \cup {NoPlan}
  /\ edits \in 0..MaxEdits
  /\ copy = NoCopy \/ (copy.start \in Dates /\ copy.start <= copy.end)
  /\ stale \in BOOLEAN

Init ==
  /\ today = FirstToday
  /\ rule = NoRule
  /\ rows = [d \in Dates |-> NoRow]
  /\ born = [d \in Dates |-> 0]
  /\ plan = NoPlan
  /\ edits = 0
  /\ copy = NoCopy /\ stale = FALSE

-----------------------------------------------------------------------------
(* Walking the schedule.                                                   *)

(* Mutant: the last date generated comes again.                            *)
FirstAgain(s) == IF s.last = Never THEN s.start ELSE s.last

First(s) == IF s.last = Never THEN s.start ELSE NextOccurrence(s, s.last)

(* The dates that come, as far as any loop looks.                          *)
Walk(s) ==
  LET date[k \in 0..MaxSteps] ==
        IF k = 0 THEN First(s)
        ELSE LET d == date[k - 1] IN IF d > LastDate THEN d ELSE NextOccurrence(s, d)
  IN  date

(* The projection's loop passes any date before it stops at its cap.       *)
ASSUME StepsAssumption ==
  \A sch \in Schedules \cup {Monthly}, d \in Dates :
    Walk([frequency |-> sch.frequency, interval |-> sch.interval, start |-> d, last |-> Never])
      [MaxSteps - 1] > LastDate

Over(s, d) == s.end # Never /\ d > s.end

(* The dates its loop comes to, up to the threshold and the cap.           *)
Reached(s, threshold) ==
  LET date == Walk(s) IN {d \in {date[k] : k \in 0..(MaxGen - 1)} : d <= threshold}

(* Mutant: the end is not looked at.                                       *)
DueUnended(s, threshold) == Reached(s, threshold)

Due(s, threshold) == {d \in Reached(s, threshold) : ~Over(s, d)}

Ended(s, threshold) == \E d \in Reached(s, threshold) : Over(s, d)

-----------------------------------------------------------------------------
(* What clients do with the rule.                                          *)

Keep == UNCHANGED <<today, rows, born>>

Edit == /\ edits < MaxEdits
        /\ edits' = edits + 1
        /\ plan' = NoPlan

NewRule(sch, status, amount, start, end, count, last) ==
  [status |-> status, frequency |-> sch.frequency, interval |-> sch.interval,
   amount |-> amount, start |-> start, end |-> end, count |-> count, last |-> last]

(* InvalidDateRangeError otherwise.                                        *)
EndsAfter(e, d) == e = Never \/ d <= e

(* CreateRecurringTransactionService, amount by amount ...                 *)
CreateRule ==
  /\ rule.status = "none"
  /\ \E sch \in Schedules, st \in {"active", "paused"}, a \in Amounts, d \in Dates,
        e \in Dates \cup {Never} :
       /\ d > today /\ EndsAfter(e, d)
       /\ rule' = NewRule(sch, st, a, d, e, Never, Never)
  /\ UNCHANGED <<plan, edits, script>>
  /\ Keep

(* ... or from a total, which splitIntoInstallments rounds down.           *)
CreateByTotal ==
  /\ rule.status = "none"
  /\ \E sch \in Schedules, st \in {"active", "paused"}, t \in Totals, n \in Counts, d \in Dates :
       LET s == NewRule(sch, st, t \div n, d, Never, n, Never) IN
       /\ d > today /\ t \div n > 0
       /\ rule' = [s EXCEPT !.end = EndDate(s, n)]
       /\ plan' = [total |-> t, exact |-> FALSE]
  /\ UNCHANGED <<edits, script>>
  /\ Keep

(* Mutant: the first instalment is like the others.                        *)
FirstAmountFloored(t, n) == t \div n

FirstAmount(t, n) == (t \div n) + (t % n)

(* CreateInstallmentPurchaseService: the first row comes with the rule.    *)
Purchase ==
  /\ rule.status = "none"
  /\ \E t \in Totals, n \in Counts, d \in Dates :
       LET s == NewRule(Monthly, "active", t \div n, d, Never, n, d)
       IN  /\ n >= 2 /\ t \div n > 0
           /\ rule' = [s EXCEPT !.end = EndDate(s, n)]
           /\ rows' = [rows EXCEPT ![d] =
                         [status |-> IF d > today THEN "PENDING" ELSE "COMPLETED",
                          amount |-> FirstAmount(t, n)]]
           /\ born' = [born EXCEPT ![d] = FirstAmount(t, n)]
           /\ plan' = [total |-> t, exact |-> TRUE]
  /\ UNCHANGED <<today, edits, script>>

(* ToggleActiveRecurringTransactionService.                                *)
Toggle ==
  /\ rule.status # "none"
  /\ rule' = [rule EXCEPT !.status = IF @ = "active" THEN "paused" ELSE "active"]
  /\ UNCHANGED <<plan, edits, script>>
  /\ Keep

(* Mutant: the number of instalments is what it was.                       *)
CountKept(s) == s.count

(* reconcileInstallmentCount.                                              *)
Recounted(s) ==
  IF s.count = Never \/ s.end = Never THEN Never ELSE InferCount(s, s.end)

SameDates(s) == Timing(s) = Timing(rule)

(* UpdateRecurringTransactionService.                                      *)
Update ==
  /\ rule.status # "none"
  /\ \E sch \in Schedules \cup {[frequency |-> rule.frequency, interval |-> rule.interval]},
        a \in Amounts \cup {rule.amount},
        d \in Dates \cup {rule.start}, e \in Dates \cup {Never, rule.end} :
       LET s == NewRule(sch, rule.status, a, d, e, rule.count,
                        IF d = rule.start THEN rule.last ELSE Never)
       IN  /\ d # rule.start => d > today
           /\ EndsAfter(e, d)
           /\ rule' = IF SameDates(s) THEN s ELSE [s EXCEPT !.count = Recounted(s)]
           /\ stale' = (stale /\ SameDates(s))
  /\ Edit /\ UNCHANGED copy
  /\ Keep

(* Rows that name the rule keep it from being deleted.                     *)
DeleteRule ==
  /\ rule.status # "none" /\ \A d \in Dates : rows[d] = NoRow
  /\ rule' = NoRule /\ plan' = NoPlan
  /\ copy' = NoCopy /\ stale' = FALSE
  /\ born' = [d \in Dates |-> 0]
  /\ UNCHANGED <<today, rows, edits>>

-----------------------------------------------------------------------------
(* What they do with its rows.                                             *)

KeepRule == UNCHANGED <<today, rule, born, script>>

SetStatus(d) ==
  /\ rows[d] # NoRow
  /\ rows' = [rows EXCEPT ![d].status = IF @ = "PENDING" THEN "COMPLETED" ELSE "PENDING"]
  /\ UNCHANGED <<plan, edits>> /\ KeepRule

DeleteRow(d) ==
  /\ rows[d] # NoRow
  /\ rows' = [rows EXCEPT ![d] = NoRow]
  /\ UNCHANGED <<plan, edits>> /\ KeepRule

(* UpdateTransactionService moves a row to a day that has none: a row of a *)
(* day to come is pending again.                                           *)
MoveRow(d, e) ==
  /\ rows[d] # NoRow /\ rows[e] = NoRow
  /\ \E st \in {"PENDING", "COMPLETED"} :
       /\ e > today => st = "PENDING"
       /\ rows' = [rows EXCEPT ![d] = NoRow, ![e] = [rows[d] EXCEPT !.status = st]]
  /\ Edit /\ KeepRule

-----------------------------------------------------------------------------
(* GenerateRecurringTransactionsJobService: rows that exist are left alone.*)
Job ==
  LET threshold == today + LookAhead
      due == Due(rule, threshold)
      fresh(d) == d \in due /\ rows[d] = NoRow
  IN  /\ rule.status = "active" /\ rule.start <= threshold
      /\ rule.last = Never \/ rule.last < threshold
      /\ due # {} \/ Ended(rule, threshold)
      /\ rows' = [d \in Dates |->
                    IF fresh(d) THEN [status |-> "PENDING", amount |-> rule.amount] ELSE rows[d]]
      /\ born' = [d \in Dates |-> IF fresh(d) THEN rule.amount ELSE born[d]]
      /\ rule' = [rule EXCEPT !.last = IF due = {} THEN @ ELSE Max(due),
                              !.status = IF Ended(rule, threshold) THEN "paused" ELSE @]
      /\ UNCHANGED <<today, plan, edits, script>>

(* applyInstallmentCountBackfill reads the rules that have an end and no   *)
(* count (a run that failed leaves nothing, and the next one reads again)  *)
ReadCandidate ==
  /\ rule.status # "none" /\ rule.end # Never /\ rule.count = Never
  /\ copy' = Timing(rule)
  /\ UNCHANGED <<today, rule, rows, born, plan, edits, stale>>

(* ... and writes the count it infers from what it read, unless there is   *)
(* one by then: it does not look at the dates again.                       *)
WriteCount ==
  /\ copy # NoCopy
  /\ LET count == InferCount(copy, copy.end)
         writes == count # Never /\ rule.count = Never
     IN  /\ rule' = [rule EXCEPT !.count = IF writes THEN count ELSE @]
         /\ stale' = IF writes THEN Timing(rule) # copy ELSE stale
  /\ copy' = NoCopy
  /\ UNCHANGED <<today, rows, born, plan, edits>>

NextDay ==
  /\ today < LastToday
  /\ today' = today + 1
  /\ UNCHANGED <<rule, rows, born, plan, edits, script>>

Next ==
  \/ CreateRule \/ CreateByTotal \/ Purchase \/ Toggle \/ Update \/ DeleteRule
  \/ \E d \in Dates : SetStatus(d) \/ DeleteRow(d)
  \/ \E d, e \in Dates : MoveRow(d, e)
  \/ ReadCandidate \/ WriteCount \/ Job \/ NextDay

Spec == Init /\ [][Next]_vars

-----------------------------------------------------------------------------
(* The projection.                                                         *)

MonthStart == FirstDay[MonthOf(today)]
MonthEnd   == FirstDay[MonthOf(today) + 1] - 1

SumOf(status) ==
  SumFunctionOnSet([d \in Dates |-> rows[d].amount],
                   {d \in MonthStart..MonthEnd : rows[d].status = status})

(* findMonthSummaryMetrics, and the pending totals of findMonthLedger.     *)
Realized  == SumOf("COMPLETED")
Scheduled == SumOf("PENDING")

(* Mutant: what is there already is expected again.                        *)
AwaitedAgain ==
  LET date == Walk(rule)
  IN  {d \in {date[k] : k \in 0..(MaxSteps - 1)} :
         MonthStart <= d /\ d <= MonthEnd /\ ~Over(rule, d)}

(* sumRuleOccurrences: the dates of its loop that count.                   *)
Awaited ==
  LET date == Walk(rule)
  IN  {d \in {date[k] : k \in 0..(MaxSteps - 1)} :
         MonthStart <= d /\ d <= MonthEnd /\ ~Over(rule, d) /\ rows[d] = NoRow}

(* findActiveRecurringRules, sumNotYetGeneratedOccurrences.                *)
NotYetGenerated ==
  IF /\ rule.status = "active" /\ rule.start <= MonthEnd
     /\ rule.end = Never \/ rule.end >= MonthStart
  THEN rule.amount * Cardinality(Awaited) ELSE 0

Expected == Realized + Scheduled + NotYetGenerated

-----------------------------------------------------------------------------
(* The projection counts on exactly what the job will do: within a month   *)
(* neither a run of the job nor a change of status nor the passing of days *)
(* moves the expected total, whatever edits of the rule and moves of its   *)
(* rows came before.                                                       *)
ProjectionAnticipates ==
  [][(/\ MonthOf(today') = MonthOf(today)
      /\ rule.status # "none" /\ edits' = edits
      /\ \/ NextDay \/ (\E d \in Dates : SetStatus(d)) \/ Job)
     => Expected' = Expected]_vars

(* A rule that counts its instalments ends with the last of them, however  *)
(* it was edited and whether a request or the backfill counted them:       *)
(* inferInstallmentCount undoes calculateInstallmentEndDate.  Only a count *)
(* that the backfill infers while the rule is edited, and only until the   *)
(* next edit of the dates, may be another.                                 *)
CountNamesEnd ==
  rule.count # Never /\ ~stale => EndDate(rule, rule.count) = rule.end

Generated == {d \in Dates : born[d] # 0}

(* A plan that nobody edits becomes its instalments and no others, through *)
(* pauses, months that lack the day and runs that stop at their cap: those *)
(* generated show the numbers 1 to k, the job has no date left exactly     *)
(* when all are there, and they add up: to the total for a purchase, to    *)
(* the total rounded down for a recurrence created from one.               *)
PlanDelivers ==
  plan # NoPlan =>
    LET k == Cardinality(Generated) IN
    /\ {InstallmentNumber(rule, d) : d \in Generated} = 1..k
    /\ Over(rule, First(rule)) <=> k = rule.count
    /\ k = rule.count =>
         SumFunctionOnSet(born, Generated)
           = IF plan.exact THEN plan.total ELSE plan.total - (plan.total % rule.count)
=============================================================================
