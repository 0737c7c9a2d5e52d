---------------------------- MODULE LedgerReports ----------------------------
(***************************************************************************)
(* The reports of a workspace that are computed from its rows: the three   *)
(* series of get-balance-evolution, the cash flow by day and the sums of   *)
(* the month summary, over the states AtomicLedger can reach while days    *)
(* pass.  A series knows nothing of the ledger's rules: it takes today's   *)
(* balances and walks back over rows that it filters and classifies on its *)
(* own.  What each row did to each account is Effect of LedgerRules.       *)
(***************************************************************************)
EXTENDS AtomicLedger, FiniteSetsExt, Functions

CONSTANTS Categories, Category,   (* transactions.category_id              *)
          TopCategories,            (* TOP_CATEGORIES_LIMIT                *)
          PeriodDays,  (* 7 or 30: how far a series goes back              *)
          FirstToday, LastToday,    (* bounds: the days that pass          *)
          LastDate                  (* bound: the dates of rows            *)

Days == 1..LastDate

ASSUME ReportsAssumption ==
  /\ Category \in [Txs -> Categories] /\ IsFiniteSet(Categories) /\ TopCategories \in Nat
  /\ PeriodDays \in Nat /\ FirstToday \in Days /\ LastToday \in Days
  /\ LastDate \in Nat
  /\ IsFiniteSet(Txs) /\ IsFiniteSet(Accounts)

VARIABLES today,
          date        (* transactions.date, a local day                    *)

reportVars == <<dataVars, today, date>>

ReportsInit ==
  /\ Init
  /\ today = FirstToday
  /\ date = [t \in Txs |-> 1]

-----------------------------------------------------------------------------
(* The ledger with its dates.                                              *)

(* resolveDateAndStatus, resolveEdit: what is dated after today is PENDING.*)
Resolved(d, x) == d > today => x.status = "PENDING"

Dated(t, d) == date' = [date EXCEPT ![t] = d]

(* The three services that create rows; an invoice is paid today, and the  *)
(* transaction of an instalment follows its date as others do.             *)
Create(t, x, d) ==
  /\ CreateTx(t, x) /\ Dated(t, d)
  /\ Resolved(d, x)
  /\ InvoicePayment(x) => d = today
  /\ UNCHANGED today

Update(t, x, d) ==
  /\ UpdateTx(t, x) /\ Dated(t, d)
  /\ Resolved(d, x)
  /\ UNCHANGED today

(* A change of status by hand does not look at the date; the settlement    *)
(* job and the one that generates occurrences add no rule of their own.    *)
Undated ==
  /\ \/ \E t \in Txs : DeleteTx(t)
     \/ \E t \in Txs, s \in Statuses : SetStatus(t, s, FALSE)
     \/ \E a \in Accounts, b \in Openings \cup {0} : OpenAccount(a, b, NoLimit)
     \/ \E a \in Accounts : DropAccount(a)
  /\ UNCHANGED <<today, date>>

NextDay ==
  /\ today < LastToday
  /\ today' = today + 1
  /\ UNCHANGED <<dataVars, date>>

ReportsNext ==
  \/ \E t \in Txs, x \in Drafts, d \in Days : Create(t, x, d) \/ Update(t, x, d)
  \/ Undated
  \/ NextDay

ReportsSpec == ReportsInit /\ [][ReportsNext]_reportVars

-----------------------------------------------------------------------------
(* get-balance-evolution.                                                  *)

Series == {"evolution", "investments", "netWorth"}

Bank == {"CHECKING", "CASH"}

(* The type of the joined account; a LEFT JOIN of NULL finds none.         *)
TypeOf(a) == IF a = NoAcc THEN "none" ELSE Kind[a]

TransferTouches(x, kind) ==
  x.type = "TRANSFER" /\ (TypeOf(x.account) = kind \/ TypeOf(x.dest) = kind)

PaysCard(x) == x.type = "TRANSFER" /\ TypeOf(x.dest) = "CREDIT_CARD"

(* generalFilter, investmentFilter, netWorthFilter.                        *)
Filter(series, x) ==
  CASE series = "evolution" ->
         \/ x.type # "TRANSFER" /\ TypeOf(x.account) \in Bank
         \/ PaysCard(x) \/ TransferTouches(x, "INVESTMENT")
    [] series = "investments" ->
         \/ x.type # "TRANSFER" /\ TypeOf(x.account) = "INVESTMENT"
         \/ TransferTouches(x, "INVESTMENT")
    [] series = "netWorth" -> x.type # "TRANSFER"

(* Mutant: the two ends of a transfer are looked at in the other order.    *)
ResolveSourceFirst(series, x) ==
  LET out == series = "evolution" IN
  IF x.type # "TRANSFER" THEN x.type
  ELSE IF TypeOf(x.account) = "INVESTMENT" THEN IF out THEN "EXPENSE" ELSE "INCOME"
  ELSE IF TypeOf(x.dest) = "INVESTMENT" THEN IF out THEN "INCOME" ELSE "EXPENSE"
  ELSE IF out /\ PaysCard(x) THEN "EXPENSE" ELSE x.type

(* resolveGeneralType, resolveInvestmentType, resolveNetWorthType.         *)
Resolve(series, x) ==
  IF x.type # "TRANSFER" \/ series = "netWorth" THEN x.type
  ELSE IF series = "evolution" /\ PaysCard(x) THEN "EXPENSE"
  ELSE IF TypeOf(x.dest) = "INVESTMENT"
       THEN IF series = "evolution" THEN "EXPENSE" ELSE "INCOME"
  ELSE IF TypeOf(x.account) = "INVESTMENT"
       THEN IF series = "evolution" THEN "INCOME" ELSE "EXPENSE"
  ELSE x.type

Signed(type, amount) ==
  CASE type = "INCOME" -> amount [] type = "EXPENSE" -> -amount [] OTHER -> 0

Completed == {t \in Txs : fate[t] = "live" /\ row[t].status = "COMPLETED"}

(* startDate .. endDate.                                                   *)
Window == (today - PeriodDays)..today

(* queryPeriod; a day's bucket of income less expense.                     *)
DayNet(series, d) ==
  SumFunctionOnSet([t \in Txs |-> Signed(Resolve(series, row[t]), row[t].amount)],
                   {t \in Completed : date[t] = d /\ Filter(series, row[t])})

NetBetween(series, first, last) ==
  SumFunction([d \in first..last |-> DayNet(series, d)])

(* The accounts of a series and how they count.                            *)
Members(series) ==
  {a \in Live : CASE series = "evolution" -> Kind[a] \in Bank
                  [] series = "investments" -> Kind[a] = "INVESTMENT"
                  [] series = "netWorth" -> TRUE}

Worth(a, m) == IF IsCard(a) THEN -m ELSE m

(* queryTotalGeneralBalance, queryTotalInvested, queryCurrentNetWorth.     *)
Total(series) ==
  SumFunctionOnSet([a \in Accounts |-> Worth(a, balance[a])], Members(series))

(* Mutant: the balance is that of the first day.                           *)
StartUnwound(series) == Total(series)

(* explicitStartBalance: calculateNetPeriodEffect undone.                  *)
StartBalance(series) == Total(series) - NetBetween(series, today - PeriodDays, today)

(* toDaySummaries.                                                         *)
BalanceOn(series, d) == StartBalance(series) + NetBetween(series, today - PeriodDays, d)

-----------------------------------------------------------------------------
(* cash-flow-evolution: income less expense of a day.                      *)

(* Mutant: the purchases of a card are counted as well as its payment.     *)
FlowFilterAll(x) == x.type # "TRANSFER" \/ PaysCard(x)

FlowFilter(x) ==
  (x.type # "TRANSFER" /\ TypeOf(x.account) # "CREDIT_CARD") \/ PaysCard(x)

CashFlow(d) ==
  SumFunctionOnSet(
    [t \in Txs |-> Signed(IF PaysCard(row[t]) THEN "EXPENSE" ELSE row[t].type, row[t].amount)],
    {t \in Completed : date[t] = d /\ FlowFilter(row[t])})

(* The month summary: income less expense, and the balances that           *)
(* aggregateAccountBalances adds up for the headline.                      *)
SummaryNet(first, last) ==
  SumFunctionOnSet([t \in Txs |-> Signed(row[t].type, row[t].amount)],
                   {t \in Completed : date[t] \in first..last})

BalanceOfKinds(kinds) == SumFunctionOnSet(balance, {a \in Live : Kind[a] \in kinds})

HeadlineNetWorth ==
  BalanceOfKinds(Bank) + BalanceOfKinds({"INVESTMENT"}) - BalanceOfKinds({"CREDIT_CARD"})

(* getTopExpensesByCategory: what was spent on a category, in all, and on  *)
(* those that come first.                                                  *)
AmountOf(S) == SumFunctionOnSet([t \in Txs |-> row[t].amount], S)

Expenses(first, last) ==
  {t \in Completed : row[t].type = "EXPENSE" /\ date[t] \in first..last}

SpentOn(c, first, last) == AmountOf({t \in Expenses(first, last) : Category[t] = c})

TotalExpense(first, last) == AmountOf(Expenses(first, last))

Top(first, last) ==
  LET spent == {Category[t] : t \in Expenses(first, last)}
  IN  CHOOSE C \in SUBSET spent :
        /\ Cardinality(C) = Min({TopCategories, Cardinality(spent)})
        /\ \A c \in C, b \in spent \ C : SpentOn(b, first, last) <= SpentOn(c, first, last)

-----------------------------------------------------------------------------
(* Transfers that a series has no word for: between two investments, paid  *)
(* out of a card, an invoice paid from an investment, or whose destination *)
(* has been deleted.                                                       *)
Untold(series, x) ==
  /\ x.type = "TRANSFER"
  /\ CASE series = "evolution" ->
            \/ x.dest = NoAcc \/ IsCard(x.account)
            \/ Kind[x.account] = "INVESTMENT" /\ Kind[x.dest] \notin Bank
       [] series = "investments" ->
            Kind[x.account] = "INVESTMENT" /\ TypeOf(x.dest) = "INVESTMENT"
       [] series = "netWorth" -> x.dest = NoAcc

Told(series) == \A t \in Completed : date[t] \in Window => ~Untold(series, row[t])

(* The balances of a series as the ledger has them at the end of day d:    *)
(* those of now without what later rows, up to today's, did to them.       *)
BookedAfter(d, a) ==
  SumFunctionOnSet([t \in Txs |-> Effect(row[t], a)],
                   {t \in Completed : date[t] \in (d + 1)..today})

LedgerOn(series, d) ==
  SumFunctionOnSet([a \in Accounts |-> Worth(a, balance[a] - BookedAfter(d, a))],
                   Members(series))

(* Whatever has been booked, edited, completed ahead of its day, deleted   *)
(* or taken away with its account: on every day each series shows what the *)
(* ledger's own rules say the accounts held, although it classifies the    *)
(* rows by types alone.                                                    *)
SeriesReplayLedger ==
  \A series \in Series : Told(series) =>
    \A d \in Window : BalanceOn(series, d) = LedgerOn(series, d)

(* Four reports that filter on their own tell one story: the cash flow of  *)
(* a day is what the accounts in the bank and the investments changed by,  *)
(* transfers between the two apart; the summary of any days is the change  *)
(* of the net worth, and its headline the last point of that series; what  *)
(* the categories add up to is what the net worth lost to expenses, all of *)
(* it when the list has room for them.                                     *)
ReportsAgree ==
  /\ \A d \in Window :
       \/ \E t \in Completed : date[t] = d /\ PaysCard(row[t]) /\ TypeOf(row[t].account) = "INVESTMENT"
       \/ CashFlow(d) = DayNet("evolution", d) + DayNet("investments", d)
  /\ \A d \in Window \ {today - PeriodDays} :
       /\ SummaryNet(d, today) = BalanceOn("netWorth", today) - BalanceOn("netWorth", d - 1)
       /\ LET income == {t \in Completed : row[t].type = "INCOME" /\ date[t] \in d..today}
              shown == Top(d, today)
          IN  /\ SummaryNet(d, today)
                   = AmountOf(income) - TotalExpense(d, today)
              /\ \/ Cardinality(shown) = TopCategories
                 \/ SumFunction([c \in shown |-> SpentOn(c, d, today)]) = TotalExpense(d, today)
  /\ HeadlineNetWorth = BalanceOn("netWorth", today)

(* Completed although their day is still to come.                          *)
Ahead == {t \in Completed : date[t] > today}

(* The rows a step changes, adds or removes.                               *)
Touched == {t \in Txs : <<fate[t], row[t], date[t]>>' # <<fate[t], row[t], date[t]>>}

(* Row t counts on no day up to d: not at all, or on a later one.          *)
CountsAfter(d, t) == t \in Completed => d < date[t]

(* The past stands still: booking, editing, completing or deleting rows    *)
(* moves a series from the first day on which one of them counted before   *)
(* or counts now and no day before, and a new day moves none, unless rows  *)
(* were completed ahead of their days.                                     *)
PastStandsStill ==
  [][\A series \in Series :
       /\ account' = account /\ Ahead = {} /\ Ahead' = {}
       /\ Told(series) /\ Told(series)'
       => \A d \in Window \cap Window' :
            (\A t \in Touched : CountsAfter(d, t) /\ CountsAfter(d, t)')
            => BalanceOn(series, d)' = BalanceOn(series, d)]_reportVars
=============================================================================
