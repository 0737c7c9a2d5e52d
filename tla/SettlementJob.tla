---------------------------- MODULE SettlementJob ----------------------------
(***************************************************************************)
(* The job that completes the planned rows of credit cards on their day    *)
(* (modules/transaction/jobs/settle-card-installments) against the users   *)
(* who complete, reopen, edit and delete the same rows.  Runs may overlap: *)
(* nothing but the conditional UPDATE of a row keeps them apart.           *)
(*                                                                         *)
(* A row keeps what the job's filter reads.  Balances are the ledger's     *)
(* (module Ledger); the total that a run counts for its log is left out.   *)
(***************************************************************************)
EXTENDS Integers, Sequences, FiniteSets, FiniteSetsExt

CONSTANTS Ids,         (* rows of `transactions`, in the order of their ids *)
          Owner,       (* the workspace of each row                         *)
          JobRuns,     (* calls of the job in flight at once                *)
          BatchSize,   (* rows that one run lists                           *)
          FinalDay,    (* bound: the last local day                         *)
          MaxEdits,    (* bound: calls of the users                         *)
          MaxFaults    (* bound: statements that time out, runs that die    *)

ASSUME SettlementAssumption ==
  /\ Ids \subseteq Nat /\ IsFiniteSet(Ids)
  /\ BatchSize \in Nat \ {0}
  /\ FinalDay \in Nat /\ MaxEdits \in Nat /\ MaxFaults \in Nat

VARIABLES
  localDay, (* today, in the accounts' zone                                *)
  cardRows, (* the rows                                                    *)
  run,      (* what each run has in memory                                 *)
  claims,   (* how many runs counted a row settled since it was last open  *)
  stale,    (* workspaces with a settled row and no newer report generation*)
  lost,     (* of those, the ones whose run died before the renewal        *)
  edits, faults

jobVars == <<localDay, cardRows, run, claims, stale, lost, edits, faults>>
users == <<edits, faults>>

Workspaces == {Owner[i] : i \in Ids}
JobDays == 0..FinalDay
Links   == {"rule", "group", "none"}    (* recurringId, installmentGroupId *)

(* onCard: an income or an expense of a card, not a transfer.              *)
Row == [fate : {"new", "live", "gone"}, onCard : BOOLEAN, link : Links,
        date : JobDays, status : {"PENDING", "COMPLETED"}]

(* A row that is not in the table, yet or any more.                        *)
Absent(f) == [fate |-> f, onCard |-> FALSE, link |-> "none", date |-> 0, status |-> "PENDING"]

Idle == [pc |-> "idle", todo |-> <<>>, handled |-> {}, failed |-> {}, touched |-> {}]

Open(x) == x.fate = "live" /\ x.status = "PENDING"
DueRow(x)  == Open(x) /\ x.onCard /\ x.link # "none" /\ x.date <= localDay

Before(i, j) == \/ cardRows[i].date < cardRows[j].date
                \/ cardRows[i].date = cardRows[j].date /\ i <= j

DueRows == {i \in Ids : DueRow(cardRows[i])}

(* The k-th of them.                                                       *)
DueInOrder(k) ==
  CHOOSE i \in DueRows : Cardinality({j \in DueRows : Before(j, i)}) = k

DueBatch == [k \in 1..Min({BatchSize, Cardinality(DueRows)}) |-> DueInOrder(k)]

JobTypeOK ==
  /\ localDay \in JobDays
  /\ cardRows \in [Ids -> Row]
  /\ \A r \in JobRuns :
       /\ run[r].pc \in {"idle", "settle", "conflict", "bump"}
       /\ run[r].todo \in Seq(Ids) /\ Len(run[r].todo) <= BatchSize
       /\ run[r].failed \subseteq run[r].handled
       /\ run[r].handled \subseteq Ids
       /\ run[r].touched \subseteq Workspaces
  /\ claims \in [Ids -> Nat]
  /\ stale \subseteq Workspaces /\ lost \subseteq stale
  /\ edits \in 0..MaxEdits /\ faults \in 0..MaxFaults

(* The rows of cards the job may be there for; users bring the others.     *)
JobInit ==
  /\ localDay = 0
  /\ cardRows \in [Ids -> {Absent("new")}
                      \cup {x \in Row : Open(x) /\ x.onCard /\ x.link # "none"}]
  /\ run = [r \in JobRuns |-> Idle]
  /\ claims = [i \in Ids |-> 0]
  /\ stale = {} /\ lost = {} /\ edits = 0 /\ faults = 0

-----------------------------------------------------------------------------
(* The run.                                                                *)

AtWork(r) == run[r].pc = "settle" /\ run[r].todo # <<>>

(* findDueCardTransactions.                                                *)
List(r) ==
  /\ run[r].pc = "idle"
  /\ run' = [run EXCEPT ![r] = [Idle EXCEPT !.pc = "settle", !.todo = DueBatch]]
  /\ UNCHANGED <<localDay, cardRows, claims, stale, lost, users>>

(* The run goes on with the next row, the result of this one in res.       *)
Handled(r, res) ==
  run' = [run EXCEPT ![r] =
            [pc |-> "settle", todo |-> Tail(@.todo),
             handled |-> @.handled \cup {Head(@.todo)},
             failed  |-> @.failed \cup (IF res = "failed" THEN {Head(@.todo)} ELSE {}),
             touched |-> @.touched \cup (IF res = "settled" THEN {Owner[Head(@.todo)]} ELSE {})]]

(* Mutant: the UPDATE does not ask for another status.                     *)
MatchedAnyway(x) == x.fate = "live"

(* What the UPDATE of a settlement finds: the row's id, not its day.       *)
Matched(x) == Open(x)

(* updateStatusWithBalanceEffect commits.                                  *)
Settle(r) ==
  /\ AtWork(r)
  /\ LET i == Head(run[r].todo)
     IN  /\ Matched(cardRows[i])
         /\ cardRows' = [cardRows EXCEPT ![i].status = "COMPLETED"]
         /\ claims' = [claims EXCEPT ![i] = @ + 1]
         /\ stale' = stale \cup {Owner[i]}
         /\ lost' = lost \ {Owner[i]}
  /\ Handled(r, "settled")
  /\ UNCHANGED <<localDay, users>>

(* The UPDATE touches no row ...                                           *)
Miss(r) ==
  /\ AtWork(r) /\ ~ Matched(cardRows[Head(run[r].todo)])
  /\ run' = [run EXCEPT ![r].pc = "conflict"]
  /\ UNCHANGED <<localDay, cardRows, claims, stale, lost, users>>

(* TransactionAlreadyCompletedError or, when it was reopened since, the    *)
(* TransactionStatusChangedConcurrentlyError: not a failure.               *)
AlreadySettled(x) == x.fate = "live"

(* ... and a second statement asks why.                                    *)
Resolve(r) ==
  /\ run[r].pc = "conflict"
  /\ Handled(r, IF AlreadySettled(cardRows[Head(run[r].todo)]) THEN "skipped" ELSE "failed")
  /\ UNCHANGED <<localDay, cardRows, claims, stale, lost, users>>

(* A lock or a statement times out, and the transaction rolls back.        *)
Fault(r) ==
  /\ AtWork(r) /\ faults < MaxFaults
  /\ faults' = faults + 1
  /\ Handled(r, "failed")
  /\ UNCHANGED <<localDay, cardRows, claims, stale, lost, edits>>

Stop(r) == run' = [run EXCEPT ![r].pc = "bump", ![r].todo = <<>>]

(* Mutants: the budget is checked before the first row as well; a run over *)
(* its budget returns at once.                                             *)
OverBudgetAtOnce(r) ==
  /\ AtWork(r) /\ Stop(r)
  /\ UNCHANGED <<localDay, cardRows, claims, stale, lost, users>>
OverBudgetReturns(r) ==
  /\ AtWork(r) /\ run[r].handled # {}
  /\ run' = [run EXCEPT ![r] = Idle]
  /\ UNCHANGED <<localDay, cardRows, claims, stale, lost, users>>

(* isOverBudget: the clock may say so at any row but the first.            *)
OverBudget(r) ==
  /\ AtWork(r) /\ run[r].handled # {}
  /\ Stop(r)
  /\ UNCHANGED <<localDay, cardRows, claims, stale, lost, users>>

EndOfList(r) ==
  /\ run[r].pc = "settle" /\ run[r].todo = <<>>
  /\ Stop(r)
  /\ UNCHANGED <<localDay, cardRows, claims, stale, lost, users>>

(* invalidateReports, one workspace at a time.                             *)
Bump(r) ==
  /\ run[r].pc = "bump"
  /\ \E w \in run[r].touched :
       /\ run' = [run EXCEPT ![r].touched = @ \ {w}]
       /\ stale' = stale \ {w}
       /\ lost' = lost \ {w}
  /\ UNCHANGED <<localDay, cardRows, claims, users>>

Answer(r) ==
  /\ run[r].pc = "bump" /\ run[r].touched = {}
  /\ run' = [run EXCEPT ![r] = Idle]
  /\ UNCHANGED <<localDay, cardRows, claims, stale, lost, users>>

(* The process dies: what is committed stays, the bumps are lost (their    *)
(* reports live until their TTL, module ReportCache).                      *)
Die(r) ==
  /\ run[r].pc # "idle" /\ faults < MaxFaults
  /\ faults' = faults + 1
  /\ run' = [run EXCEPT ![r] = Idle]
  /\ lost' = lost \cup (run[r].touched \cap stale)
  /\ UNCHANGED <<localDay, cardRows, claims, stale, edits>>

-----------------------------------------------------------------------------
(* The users and the calendar.                                             *)

(* A call that leaves row i as x, and bumps the reports of its workspace.  *)
Write(i, x) ==
  /\ edits < MaxEdits
  /\ edits' = edits + 1
  /\ cardRows' = [cardRows EXCEPT ![i] = x]
  /\ claims' = [claims EXCEPT ![i] = IF Open(x) \/ x.fate = "gone" THEN 0 ELSE @]
  /\ stale' = stale \ {Owner[i]} /\ lost' = lost \ {Owner[i]}
  /\ UNCHANGED <<localDay, run, faults>>

StatusOn(d, asked) == IF d > localDay THEN "PENDING" ELSE asked

(* A row is made by hand or by a rule; no code makes rows of a group now.  *)
Create(i) ==
  /\ cardRows[i].fate = "new"
  /\ \E x \in Row : /\ x.fate = "live" /\ x.link # "group"
                    /\ x.status = StatusOn(x.date, x.status)
                    /\ Write(i, x)

(* SetTransactionStatusService.                                            *)
SetStatus(i) ==
  /\ cardRows[i].fate = "live"
  /\ \E s \in {"PENDING", "COMPLETED"} :
       /\ cardRows[i].status # s
       /\ Write(i, [cardRows[i] EXCEPT !.status = s])

(* UpdateTransactionService rebuilds the row from the request: recurringId *)
(* is carried over, installmentGroupId is not.                             *)
Edit(i) ==
  /\ cardRows[i].fate = "live"
  /\ \E x \in Row :
       /\ x.fate = "live"
       /\ x.link = IF cardRows[i].link = "group" THEN "none" ELSE cardRows[i].link
       /\ x.status = StatusOn(x.date, x.status)
       /\ Write(i, x)

Delete(i) ==
  /\ cardRows[i].fate = "live"
  /\ Write(i, Absent("gone"))

Tick ==
  /\ localDay < FinalDay
  /\ localDay' = localDay + 1
  /\ UNCHANGED <<cardRows, run, claims, stale, lost, users>>

-----------------------------------------------------------------------------
RunStep(r) == \/ List(r) \/ Settle(r) \/ Miss(r) \/ Resolve(r)
           \/ EndOfList(r) \/ Bump(r) \/ Answer(r)

User(i) == Create(i) \/ SetStatus(i) \/ Edit(i) \/ Delete(i)

JobNext ==
  \/ \E r \in JobRuns : RunStep(r) \/ OverBudget(r) \/ Fault(r) \/ Die(r)
  \/ \E i \in Ids : User(i)
  \/ Tick

JobSpec == JobInit /\ [][JobNext]_jobVars

(* The cron calls the job again and again, and a call that runs goes on.   *)
FairSpec == JobSpec /\ \A r \in JobRuns : WF_jobVars(RunStep(r))

-----------------------------------------------------------------------------
(* However runs overlap each other and the users, one run at most settles  *)
(* (and counts) a row between two times that it is open.                   *)
OneRunSettles ==
  \A i \in Ids : claims[i] <= 1 /\ (claims[i] = 1 => ~ Open(cardRows[i]))

(* Reports that miss a settlement are about to be renewed: some run that   *)
(* is still alive holds the workspace in its set, whichever way its loop   *)
(* ended.                                                                  *)
RenewalIsOwed ==
  stale \ lost \subseteq UNION {run[r].touched : r \in JobRuns}

(* A due row is settled in the end, or stops being due: neither the time   *)
(* budget nor a bounded number of errors starves it.                       *)
DueSettles == \A i \in Ids : DueRow(cardRows[i]) ~> ~ DueRow(cardRows[i])

(* A due row of an instalment group without a recurrence is completed in   *)
(* the end (or deleted, or moved off the card or to another day).          *)
GroupSettles ==
  \A i \in Ids :
    (cardRows[i].link = "group" /\ DueRow(cardRows[i]))
      ~> ~ (Open(cardRows[i]) /\ cardRows[i].onCard /\ cardRows[i].date <= localDay)
=============================================================================
