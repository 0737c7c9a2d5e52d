-------------------------- MODULE LedgerViewsProofs --------------------------
(***************************************************************************)
(* Proofs about what is derived from the ledger: LedgerReports, which      *)
(* walks back over its rows, and MovementsBackfill, which adds up its      *)
(* movements.  Both rest on the invariant IInv of AtomicLedgerProofs.      *)
(***************************************************************************)
EXTENDS LedgerReports, MovementsBackfill, AtomicLedgerProofs, DataLemmas

(* A transfer leads to another account.                                    *)
RowsDiffer ==
  \A t \in Txs : fate[t] = "live" /\ row[t].type = "TRANSFER" => row[t].dest # row[t].account

ReportsInv ==
  /\ IInv /\ RowsDiffer
  /\ today \in Days /\ date \in [Txs -> Days]

LEMMA LiveIsFinite ==
  /\ IsFiniteSet(Txs) /\ IsFiniteSet(Accounts)
  /\ Live \subseteq Accounts /\ NoAcc \notin Accounts /\ \A S \in SUBSET Live : IsFiniteSet(S)
  /\ \A S \in SUBSET Txs : IsFiniteSet(S)
BY ReportsAssumption, FS_Subset, AccountsAssumption DEF Live, NoAcc

LEMMA ReportsStepIsLedgerStep == [ReportsNext]_reportVars => [Next]_dataVars
<1> SUFFICES ASSUME [ReportsNext]_reportVars PROVE [Next]_dataVars
  OBVIOUS
<1>1. ASSUME NEW t \in Txs, NEW x \in Drafts, NEW d \in Days, Create(t, x, d) \/ Update(t, x, d)
      PROVE  Next
  BY <1>1 DEF Create, Update, Next
<1>2. CASE Undated
  BY <1>2 DEF Undated, Next
<1>3. CASE NextDay \/ UNCHANGED reportVars
  BY <1>3 DEF NextDay, reportVars
<1> QED
  BY <1>1, <1>2, <1>3 DEF ReportsNext

LEMMA RowsDifferNext ==
  ASSUME IInv, RowsDiffer, [Next]_dataVars
  PROVE  RowsDiffer'
<1> USE DEF RowsDiffer
<1>0. fate \in [Txs -> {"unused", "live", "deleted", "cascaded"}] /\ row \in [Txs -> Row]
  BY DEF IInv, TypeOK
<1>1. ASSUME NEW t \in Txs, NEW x \in Drafts, CreateTx(t, x) PROVE RowsDiffer'
  <2>1. WellFormed(x)
    BY <1>1 DEF CreateTx, Creatable, PlainRow, InvoicePayment, FirstInstallment
  <2> QED
    BY <1>0, <1>1, <2>1 DEF CreateTx, WellFormed
<1>2. ASSUME NEW t \in Txs, NEW x \in Drafts, UpdateTx(t, x) PROVE RowsDiffer'
  <2>1. WellFormed(x) /\ x \in Row
    BY <1>2, InputsAssumption DEF UpdateTx, PlainRow
  <2>2. Edited(row[t], x).type = x.type /\ Edited(row[t], x).account = x.account /\ Edited(row[t], x).dest = x.dest
    BY <2>1 DEF Edited, Row
  <2> QED
    BY <1>0, <1>2, <2>1, <2>2 DEF UpdateTx, WellFormed
<1>3. ASSUME NEW t \in Txs, DeleteTx(t) PROVE RowsDiffer'
  BY <1>0, <1>3 DEF DeleteTx
<1>4. ASSUME NEW t \in Txs, NEW s \in Statuses, NEW scheduled \in BOOLEAN, SetStatus(t, s, scheduled)
      PROVE  RowsDiffer'
  <2>1. WithStatus(row[t], s).type = row[t].type /\ WithStatus(row[t], s).account = row[t].account
        /\ WithStatus(row[t], s).dest = row[t].dest
    BY <1>0 DEF WithStatus, Row
  <2> QED
    BY <1>0, <1>4, <2>1 DEF SetStatus
<1>5. ASSUME NEW t \in Txs, NEW x \in Drafts, Generate(t, x) PROVE RowsDiffer'
  <2>1. WellFormed(x)
    BY <1>5 DEF Generate, Occurrence, PlainRow
  <2> QED
    BY <1>0, <1>5, <2>1 DEF Generate, WellFormed
<1>6. ASSUME UNCHANGED <<fate, row>> PROVE RowsDiffer'
  BY <1>6
<1>7. ASSUME NEW a \in Accounts, DropAccount(a) PROVE RowsDiffer'
  <2> SUFFICES ASSUME NEW t \in Txs, fate'[t] = "live", row'[t].type = "TRANSFER"
               PROVE  row'[t].dest # row'[t].account
    OBVIOUS
  <2>1. fate[t] = "live" /\ row[t].account # a
    BY <1>0, <1>7 DEF DropAccount
  <2>2. row[t].account \in Accounts
    BY <2>1 DEF IInv, RowsNameLiveAccounts, Live
  <2>3. CASE row[t].dest = a
    <3>1. row'[t] = [row[t] EXCEPT !.dest = NoAcc]
      BY <1>0, <1>7, <2>1, <2>3 DEF DropAccount
    <3>2. row[t] \in Row
      BY <1>0
    <3>3. row'[t].dest = NoAcc /\ row'[t].account = row[t].account
      BY <3>1, <3>2 DEF Row
    <3> QED
      BY <2>2, <3>3, LiveIsFinite
  <2>4. CASE row[t].dest # a
    BY <1>0, <1>7, <2>1, <2>4 DEF DropAccount
  <2> QED
    BY <2>3, <2>4
<1>8. ASSUME NEW a \in Accounts, NEW b, NEW l, OpenAccount(a, b, l) PROVE RowsDiffer'
  BY <1>6, <1>8 DEF OpenAccount
<1>9. ASSUME NEW a \in Accounts, NEW l, EditAccount(a, l) PROVE RowsDiffer'
  BY <1>6, <1>9 DEF EditAccount
<1>10. CASE UNCHANGED dataVars
  BY <1>6, <1>10 DEF dataVars
<1> QED
  BY <1>1, <1>2, <1>3, <1>4, <1>5, <1>7, <1>8, <1>9, <1>10 DEF Next

LEMMA InitReportsInv == ReportsInit => ReportsInv
<1> SUFFICES ASSUME ReportsInit PROVE ReportsInv
  OBVIOUS
<1>1. IInv
  BY InitIInv DEF ReportsInit
<1>2. RowsDiffer
  BY DEF ReportsInit, Init, RowsDiffer
<1>3. 1 \in Days
  BY ReportsAssumption DEF Days
<1> QED
  BY <1>1, <1>2, <1>3, ReportsAssumption DEF ReportsInv, ReportsInit

LEMMA NextReportsInv == ReportsInv /\ [ReportsNext]_reportVars => ReportsInv'
<1> SUFFICES ASSUME ReportsInv, [ReportsNext]_reportVars PROVE ReportsInv'
  OBVIOUS
<1>1. IInv' /\ RowsDiffer'
  BY ReportsStepIsLedgerStep, NextIInv, RowsDifferNext DEF ReportsInv
<1>2. today' \in Days /\ date' \in [Txs -> Days]
  <2>1. ASSUME NEW t \in Txs, NEW x \in Drafts, NEW d \in Days, Create(t, x, d) \/ Update(t, x, d)
        PROVE  today' \in Days /\ date' \in [Txs -> Days]
    BY <2>1 DEF Create, Update, Dated, ReportsInv
  <2>2. CASE Undated \/ UNCHANGED reportVars
    BY <2>2 DEF Undated, reportVars, ReportsInv
  <2>3. CASE NextDay
    BY <2>3, ReportsAssumption DEF NextDay, ReportsInv, Days
  <2> QED
    BY <2>1, <2>2, <2>3 DEF ReportsNext
<1> QED
  BY <1>1, <1>2 DEF ReportsInv

-----------------------------------------------------------------------------
(* What one row is to each account and to each series.                     *)

LEMMA RowFacts ==
  ASSUME ReportsInv, NEW t \in Completed
  PROVE  /\ t \in Txs /\ row[t] \in Row /\ row[t].status = "COMPLETED"
         /\ row[t].account \in Live /\ row[t].dest \in Live \cup {NoAcc}
         /\ row[t].type = "TRANSFER" => row[t].dest # row[t].account
<1>1. t \in Txs /\ fate[t] = "live" /\ row[t].status = "COMPLETED"
  BY DEF Completed
<1>2. row[t] \in Row /\ row[t].account \in Live /\ Refs(row[t]) \subseteq Live
  BY <1>1 DEF ReportsInv, IInv, TypeOK, RowsNameLiveAccounts
<1> QED
  BY <1>1, <1>2 DEF ReportsInv, RowsDiffer, Refs

(* The change of the worth of the accounts of a series that a row makes.   *)
Share(series, x) ==
  SumFunctionOnSet([a \in Accounts |-> Worth(a, Effect(x, a))], Members(series))

LEMMA WorthIs ==
  ASSUME NEW a, NEW m \in Int
  PROVE  /\ Worth(a, m) \in Int
         /\ IsCard(a) => Worth(a, m) + m = 0
         /\ ~IsCard(a) => Worth(a, m) = m
BY DEF Worth

LEMMA WorthOfNothing == \A a : Worth(a, 0) = 0
<1> SUFFICES ASSUME NEW a PROVE Worth(a, 0) = 0
  OBVIOUS
<1>1. Worth(a, 0) \in Int
  BY WorthIs
<1>2. CASE IsCard(a)
  BY <1>1, <1>2, WorthIs
<1>3. CASE ~IsCard(a)
  BY <1>3, WorthIs
<1> QED
  BY <1>2, <1>3

LEMMA ShareIs ==
  ASSUME NEW x \in Row, x.status = "COMPLETED", x.account \in Live, x.dest \in Live \cup {NoAcc},
         x.type = "TRANSFER" => x.dest # x.account, NEW series \in Series
  PROVE  Share(series, x) =
           (IF x.account \in Members(series)
            THEN IF x.type = "INCOME" THEN x.amount ELSE -x.amount ELSE 0)
           + (IF x.type = "TRANSFER" /\ x.dest \in Members(series) THEN x.amount ELSE 0)
<1> DEFINE f == [a \in Accounts |-> Worth(a, Effect(x, a))]
           M == Members(series)
           y == IF x.type = "TRANSFER" THEN x.dest ELSE NoAcc
<1>1. M \in SUBSET Live /\ IsFiniteSet(M) /\ M \subseteq Accounts /\ NoAcc \notin M
  <2>1. M \in SUBSET Live
    BY DEF Members
  <2> QED
    BY <2>1, LiveIsFinite
<1>2. \A a \in Accounts : /\ f[a] \in Int
                          /\ a \notin {x.account, y} => f[a] = 0
                          /\ a = x.account => f[a] = IF x.type = "INCOME" THEN x.amount ELSE -x.amount
                          /\ a = y => f[a] = x.amount
  <2> TAKE a \in Accounts
  <2>1. f[a] = Worth(a, Effect(x, a)) /\ a # NoAcc /\ x.amount \in Nat
    BY LiveIsFinite DEF Row
  <2>2. a = x.account => a # y
    BY <2>1
  <2>3. CASE a = x.account
    BY <2>1, <2>2, <2>3 DEF Worth, Effect, Credited, Debited
  <2>4. CASE a # x.account /\ a = y
    <3>1. x.type = "TRANSFER" /\ x.dest = a
      BY <2>1, <2>4
    <3>2. Effect(x, a) = Credited(a, x.amount)
      BY <2>4, <3>1 DEF Effect
    <3>3. Worth(a, Credited(a, x.amount)) = x.amount
      BY <2>1 DEF Worth, Credited
    <3>4. f[a] = x.amount /\ a # x.account /\ a = y
      BY <2>1, <2>4, <3>2, <3>3
    <3> HIDE DEF f, y
    <3> QED
      BY <2>1, <3>4
  <2>5. CASE a \notin {x.account, y}
    <3>1. ~(x.type = "TRANSFER" /\ x.dest = a)
      BY <2>1, <2>5
    <3>2. Effect(x, a) = 0
      BY <2>5, <3>1 DEF Effect
    <3>4. Worth(a, Effect(x, a)) = 0
      BY <3>2, WorthOfNothing
    <3>5. f[a] = 0
      BY <2>1, <3>4
    <3> HIDE DEF f, y
    <3> QED
      BY <2>5, <3>5
  <2> QED
    BY <2>3, <2>4, <2>5
<1>3. x.account # y
  BY LiveIsFinite
<1>4. Share(series, x) = SumFunctionOnSet(f, M)
  BY DEF Share
<1>5. (\A z \in M : f[z] \in Int) /\ \A z \in M \ {x.account, y} : f[z] = 0
  BY <1>1, <1>2
<1>6. x.account \in Accounts /\ (y \in M => y \in Accounts)
  BY <1>1, LiveIsFinite
<1>7. y \in M <=> x.type = "TRANSFER" /\ x.dest \in M
  BY <1>1
<1> HIDE DEF f, M, y
<1>8. SumFunctionOnSet(f, M) = (IF x.account \in M THEN f[x.account] ELSE 0) + (IF y \in M THEN f[y] ELSE 0)
  BY <1>1, <1>3, <1>5, SumPair
<1>9. (x.account \in M => f[x.account] = IF x.type = "INCOME" THEN x.amount ELSE -x.amount)
      /\ (y \in M => f[y] = x.amount)
  BY <1>2, <1>6
<1> QED
  BY <1>4, <1>7, <1>8, <1>9 DEF M

(* What a series makes of a row is its share, if the series has a word for *)
(* the row.                                                                *)
LEMMA SeriesTells ==
  ASSUME NEW x \in Row, x.status = "COMPLETED", x.account \in Live, x.dest \in Live \cup {NoAcc},
         x.type = "TRANSFER" => x.dest # x.account, NEW series \in Series, ~Untold(series, x)
  PROVE  /\ Share(series, x) \in Int
         /\ Share(series, x) = IF Filter(series, x) THEN Signed(Resolve(series, x), x.amount) ELSE 0
<1>1. /\ Share(series, x) =
           (IF x.account \in Members(series)
            THEN IF x.type = "INCOME" THEN x.amount ELSE -x.amount ELSE 0)
           + (IF x.type = "TRANSFER" /\ x.dest \in Members(series) THEN x.amount ELSE 0)
  BY ShareIs
<1>2. /\ x.amount \in Nat /\ x.type \in {"INCOME", "EXPENSE", "TRANSFER"}
      /\ x.account \in Accounts /\ Kind[x.account] \in Kinds /\ x.account # NoAcc
      /\ x.dest # NoAcc => x.dest \in Live /\ x.dest \in Accounts /\ Kind[x.dest] \in Kinds
  BY LiveIsFinite, AccountsAssumption DEF Row, Types
<1>3. TypeOf(x.account) = Kind[x.account] /\ TypeOf(x.dest) = IF x.dest = NoAcc THEN "none" ELSE Kind[x.dest]
  BY <1>2 DEF TypeOf
<1>4. NoAcc \notin Members(series)
  BY LiveIsFinite DEF Members
<1>5. CASE series = "evolution"
  <2>1. (x.account \in Members(series) <=> Kind[x.account] \in Bank)
        /\ (x.dest \in Members(series) <=> x.dest # NoAcc /\ Kind[x.dest] \in Bank)
    BY <1>2, <1>4, <1>5 DEF Members
  <2> QED
    BY <1>1, <1>2, <1>3, <1>5, <2>1
       DEF Untold, Filter, Resolve, Signed, PaysCard, TransferTouches, Bank, IsCard, Kinds
<1>6. CASE series = "investments"
  <2>1. (x.account \in Members(series) <=> Kind[x.account] = "INVESTMENT")
        /\ (x.dest \in Members(series) <=> x.dest # NoAcc /\ Kind[x.dest] = "INVESTMENT")
    BY <1>2, <1>4, <1>6 DEF Members
  <2> QED
    BY <1>1, <1>2, <1>3, <1>6, <2>1
       DEF Untold, Filter, Resolve, Signed, PaysCard, TransferTouches, Bank, IsCard, Kinds
<1>7. CASE series = "netWorth"
  <2>1. x.account \in Members(series) /\ (x.dest \in Members(series) <=> x.dest # NoAcc)
    BY <1>2, <1>4, <1>7 DEF Members
  <2> QED
    BY <1>1, <1>2, <1>3, <1>7, <2>1 DEF Untold, Filter, Resolve, Signed
<1> QED
  BY <1>5, <1>6, <1>7 DEF Series

-----------------------------------------------------------------------------
(* The series, added up row by row.                                        *)

Value(series) == [t \in Txs |-> Signed(Resolve(series, row[t]), row[t].amount)]

Between(series, first, last) ==
  {t \in Completed : date[t] \in first..last /\ Filter(series, row[t])}

After(d) == {t \in Completed : date[t] \in (d + 1)..today}

LEMMA Typed ==
  ASSUME ReportsInv
  PROVE  /\ Completed \subseteq Txs /\ today \in Int /\ PeriodDays \in Nat
         /\ \A t \in Txs : row[t] \in Row /\ row[t].amount \in Nat /\ date[t] \in Int
         /\ \A a \in Accounts : balance[a] \in Int /\ \A t \in Txs : Effect(row[t], a) \in Int
         /\ \A series \in Series, t \in Txs : Value(series)[t] \in Int
<1>1. \A t \in Txs : row[t] \in Row /\ row[t].amount \in Nat /\ date[t] \in Int
  BY DEF ReportsInv, IInv, TypeOK, Row, Days
<1>2. \A a \in Accounts : balance[a] \in Int /\ \A t \in Txs : Effect(row[t], a) \in Int
  BY <1>1, EffectType DEF ReportsInv, IInv, TypeOK
<1>3. \A type, m : m \in Nat => Signed(type, m) \in Int
  BY DEF Signed
<1>4. \A series \in Series, t \in Txs : Value(series)[t] \in Int
  BY <1>1, <1>3 DEF Value
<1> QED
  BY <1>1, <1>2, <1>4, ReportsAssumption DEF Completed, ReportsInv, Days

LEMMA NetIsSum ==
  ASSUME ReportsInv, NEW series \in Series, NEW first \in Int, NEW last \in Int
  PROVE  /\ NetBetween(series, first, last) = SumFunctionOnSet(Value(series), Between(series, first, last))
         /\ NetBetween(series, first, last) \in Int
<1> DEFINE v == Value(series)
           A == Between(series, first, last)
           D == first..last
           groups == [d \in D |-> SumFunctionOnSet(v, {t \in A : date[t] = d})]
           nets == [d \in D |-> DayNet(series, d)]
<1>1. A \in SUBSET Txs /\ IsFiniteSet(A) /\ IsFiniteSet(D)
  <2>1. A \in SUBSET Txs
    BY Typed DEF Between
  <2> QED
    BY <2>1, LiveIsFinite, FS_Interval
<1>2. \A t \in A : v[t] \in Int /\ date[t] \in D
  <2>1. \A t \in A : date[t] \in D
    BY DEF Between
  <2>2. \A t \in Txs : v[t] \in Int
    BY Typed
  <2> QED
    BY <1>1, <2>1, <2>2
<1>3. nets = groups
  <2>1. ASSUME NEW d \in D PROVE DayNet(series, d) = SumFunctionOnSet(v, {t \in A : date[t] = d})
    <3>1. {t \in A : date[t] = d} = {t \in Completed : date[t] = d /\ Filter(series, row[t])}
      BY DEF Between
    <3> QED
      BY <3>1 DEF DayNet, Value
  <2> HIDE DEF v, A, D
  <2> QED
    BY <2>1
<1>4. NetBetween(series, first, last) = SumFunctionOnSet(nets, D)
  BY DEF NetBetween, SumFunction
<1> HIDE DEF v, A, D, nets
<1>5. SumFunctionOnSet(groups, D) = SumFunctionOnSet(v, A)
  BY <1>1, <1>2, SumGroups
<1>6. SumFunctionOnSet(v, A) \in Int
  BY <1>1, <1>2, SumTypeAndRemove
<1> QED
  BY <1>3, <1>4, <1>5, <1>6 DEF v, A

LEMMA TotalType ==
  ASSUME ReportsInv, NEW series \in Series
  PROVE  Total(series) \in Int /\ Members(series) \in SUBSET Accounts /\ IsFiniteSet(Members(series))
<1> DEFINE b == [a \in Accounts |-> Worth(a, balance[a])]
<1>1. Members(series) \in SUBSET Accounts /\ IsFiniteSet(Members(series))
  <2>1. Members(series) \in SUBSET Live
    BY DEF Members
  <2> QED
    BY <2>1, LiveIsFinite
<1>2. \A a \in Members(series) : b[a] \in Int
  BY <1>1, Typed, WorthIs
<1> HIDE DEF b
<1>3. SumFunctionOnSet(b, Members(series)) \in Int
  BY <1>1, <1>2, SumTypeAndRemove
<1> QED
  BY <1>1, <1>3 DEF Total, b

(* A point of a series is today's total without the rows that came after.  *)
LEMMA BalanceOnIs ==
  ASSUME ReportsInv, NEW series \in Series, NEW d \in Int, today - PeriodDays <= d + 1, d <= today
  PROVE  /\ BalanceOn(series, d)
              = Total(series) - SumFunctionOnSet(Value(series), Between(series, d + 1, today))
         /\ SumFunctionOnSet(Value(series), Between(series, d + 1, today)) \in Int
<1> DEFINE v == Value(series)
           first == today - PeriodDays
           A == Between(series, first, d)
           B == Between(series, d + 1, today)
           C == Between(series, first, today)
<1>0. first \in Int /\ today \in Int /\ d + 1 \in Int /\ Total(series) \in Int
  BY Typed, TotalType
<1>1. C = A \cup B /\ A \cap B = {}
  <2>1. \A t \in Completed : date[t] \in Int
    BY Typed
  <2> QED
    BY <1>0, <2>1 DEF Between
<1>2. A \in SUBSET Txs /\ B \in SUBSET Txs /\ IsFiniteSet(A) /\ IsFiniteSet(B)
  <2>1. A \in SUBSET Txs /\ B \in SUBSET Txs
    BY Typed DEF Between
  <2> QED
    BY <2>1, LiveIsFinite
<1>3. \A t \in A \cup B : v[t] \in Int
  BY <1>2, Typed
<1>4. NetBetween(series, first, today) = SumFunctionOnSet(v, C) /\ NetBetween(series, first, d) = SumFunctionOnSet(v, A)
  BY <1>0, NetIsSum
<1>5. BalanceOn(series, d) = (Total(series) - NetBetween(series, first, today)) + NetBetween(series, first, d)
  BY DEF BalanceOn, StartBalance
<1> HIDE DEF v, A, B, C, first
<1>6. SumFunctionOnSet(v, C) = SumFunctionOnSet(v, A) + SumFunctionOnSet(v, B)
  BY <1>1, <1>2, <1>3, SumParts
<1>7. SumFunctionOnSet(v, A) \in Int /\ SumFunctionOnSet(v, B) \in Int
  BY <1>2, <1>3, SumTypeAndRemove
<1> QED
  BY <1>0, <1>4, <1>5, <1>6, <1>7 DEF v, B

(* What the later rows did to the accounts of a series, added up by rows.  *)
LEMMA WorthOfBooked ==
  ASSUME ReportsInv, NEW a \in Accounts, NEW d \in Int
  PROVE  /\ BookedAfter(d, a) \in Int
         /\ Worth(a, BookedAfter(d, a))
              = SumFunctionOnSet([t \in After(d) |-> Worth(a, Effect(row[t], a))], After(d))
<1> DEFINE T == After(d)
           e == [t \in Txs |-> Effect(row[t], a)]
           w == [t \in T |-> Worth(a, Effect(row[t], a))]
<1>1. T \in SUBSET Txs /\ IsFiniteSet(T)
  <2>1. T \in SUBSET Txs
    BY Typed DEF After
  <2> QED
    BY <2>1, LiveIsFinite
<1>2. \A t \in T : e[t] \in Int /\ w[t] = Worth(a, e[t])
  BY <1>1, Typed
<1>3. BookedAfter(d, a) = SumFunctionOnSet(e, T)
  BY DEF BookedAfter, After
<1> HIDE DEF T, e, w
<1>4. SumFunctionOnSet(e, T) \in Int
  BY <1>1, <1>2, SumTypeAndRemove
<1>5. CASE IsCard(a)
  <2>1. \A t \in T : e[t] \in Int /\ w[t] = -e[t]
    BY <1>2, <1>5 DEF Worth
  <2>2. SumFunctionOnSet(w, T) = -SumFunctionOnSet(e, T)
    BY <1>1, <2>1, SumNegative
  <2> QED
    BY <1>3, <1>4, <1>5, <2>2 DEF Worth, w, T
<1>6. CASE ~IsCard(a)
  <2>1. \A t \in T : e[t] \in Int /\ w[t] = e[t]
    BY <1>2, <1>6 DEF Worth
  <2>2. SumFunctionOnSet(w, T) = SumFunctionOnSet(e, T)
    BY <1>1, <2>1, SumSame
  <2> QED
    BY <1>3, <1>4, <1>6, <2>2 DEF Worth, w, T
<1> QED
  BY <1>5, <1>6

LEMMA LedgerOnIs ==
  ASSUME ReportsInv, NEW series \in Series, NEW d \in Int
  PROVE  LET shares == [t \in Txs |-> Share(series, row[t])]
         IN  LedgerOn(series, d) = Total(series) - SumFunctionOnSet(shares, After(d))
<1> DEFINE M == Members(series)
           T == After(d)
           total == [a \in Accounts |-> Worth(a, balance[a])]
           left == [a \in Accounts |-> Worth(a, balance[a] - BookedAfter(d, a))]
           undone == [a \in M |-> Worth(a, BookedAfter(d, a))]
           F == [a \in M |-> [t \in T |-> Worth(a, Effect(row[t], a))]]
           byAccount == [a \in M |-> SumFunctionOnSet(F[a], T)]
           byRow == [t \in T |-> SumFunctionOnSet([a \in M |-> F[a][t]], M)]
           shares == [t \in Txs |-> Share(series, row[t])]
<1>1. /\ M \in SUBSET Accounts /\ IsFiniteSet(M)
      /\ T \in SUBSET Txs /\ IsFiniteSet(T)
  <2>1. T \in SUBSET Txs
    BY Typed DEF After
  <2> QED
    BY <2>1, LiveIsFinite, TotalType
<1>2. \A a \in M : balance[a] \in Int /\ BookedAfter(d, a) \in Int
  BY <1>1, Typed, WorthOfBooked
<1>3. \A a \in M : left[a] \in Int /\ undone[a] \in Int /\ total[a] = left[a] + undone[a]
  <2> TAKE a \in M
  <2>1. a \in Accounts /\ balance[a] \in Int /\ BookedAfter(d, a) \in Int
    BY <1>1, <1>2
  <2> QED
    BY <2>1 DEF Worth
<1>4. \A a \in M, t \in T : F[a][t] \in Int /\ F[a][t] = Worth(a, Effect(row[t], a))
  <2> TAKE a \in M, t \in T
  <2>1. a \in Accounts /\ t \in Txs /\ Effect(row[t], a) \in Int
    BY <1>1, Typed
  <2>2. F[a][t] = Worth(a, Effect(row[t], a))
    OBVIOUS
  <2> QED
    BY <2>1, <2>2, WorthIs
<1>5. \A a \in M : undone[a] = byAccount[a]
  <2> TAKE a \in M
  <2>1. F[a] = [t \in After(d) |-> Worth(a, Effect(row[t], a))]
    OBVIOUS
  <2>2. a \in Accounts /\ byAccount[a] = SumFunctionOnSet(F[a], T) /\ undone[a] = Worth(a, BookedAfter(d, a))
    BY <1>1
  <2> HIDE DEF undone, byAccount, F
  <2> QED
    BY <2>1, <2>2, WorthOfBooked
<1>6. \A t \in T : byRow[t] = SumFunctionOnSet([a \in M |-> F[a][t]], M)
  OBVIOUS
<1>7. \A a \in M : byAccount[a] = undone[a] /\ undone[a] \in Int
  BY <1>3, <1>5
<1>8. SumFunctionOnSet(byAccount, M) = SumFunctionOnSet(byRow, T)
  <2> HIDE DEF F, M, T
  <2> QED
    BY <1>1, <1>4, SumSwap
<1>9. \A t \in T : byRow[t] = shares[t] /\ shares[t] \in Int
  <2> TAKE t \in T
  <2> DEFINE f == [a \in M |-> F[a][t]]
             g == [a \in Accounts |-> Worth(a, Effect(row[t], a))]
  <2>1. \A a \in M : f[a] \in Int /\ g[a] = f[a]
    BY <1>1, <1>4
  <2>2. shares[t] = SumFunctionOnSet(g, M)
    BY <1>1 DEF Share
  <2>3. byRow[t] = SumFunctionOnSet(f, M)
    BY <1>6
  <2> HIDE DEF f, g, shares, byRow, M
  <2>4. SumFunctionOnSet(g, M) = SumFunctionOnSet(f, M) /\ SumFunctionOnSet(f, M) \in Int
    BY <1>1, <2>1, SumSame, SumTypeAndRemove
  <2> QED
    BY <2>2, <2>3, <2>4
<1>10. LedgerOn(series, d) = SumFunctionOnSet(left, M) /\ Total(series) = SumFunctionOnSet(total, M)
  BY DEF LedgerOn, Total
<1> HIDE DEF total, left, undone, byAccount, byRow, shares, M, T, F
<1>11. SumFunctionOnSet(total, M) = SumFunctionOnSet(left, M) + SumFunctionOnSet(undone, M)
  BY <1>1, <1>3, SumPlus
<1>12. SumFunctionOnSet(byAccount, M) = SumFunctionOnSet(undone, M)
  BY <1>1, <1>7, SumSame
<1>13. SumFunctionOnSet(byRow, T) = SumFunctionOnSet(shares, T)
  BY <1>1, <1>9, SumSame
<1>14. SumFunctionOnSet(left, M) \in Int /\ SumFunctionOnSet(undone, M) \in Int
  BY <1>1, <1>3, SumTypeAndRemove
<1>15. LedgerOn(series, d) = Total(series) - SumFunctionOnSet(shares, T)
  <2>1. SumFunctionOnSet(undone, M) = SumFunctionOnSet(shares, T)
    BY <1>8, <1>12, <1>13
  <2>2. \A x, y, z \in Int : z = x + y => x = z - y
    OBVIOUS
  <2>3. SumFunctionOnSet(total, M) \in Int
    BY <1>11, <1>14
  <2>4. SumFunctionOnSet(left, M) = SumFunctionOnSet(total, M) - SumFunctionOnSet(undone, M)
    BY <1>11, <1>14, <2>2, <2>3
  <2> QED
    BY <1>10, <2>1, <2>4
<1> QED
  BY <1>15 DEF shares, T

LEMMA SeriesReplay == ReportsInv => SeriesReplayLedger
<1> SUFFICES ASSUME ReportsInv, NEW series \in Series, Told(series), NEW d \in Window
             PROVE  BalanceOn(series, d) = LedgerOn(series, d)
  BY DEF SeriesReplayLedger
<1> DEFINE shares == [t \in Txs |-> Share(series, row[t])]
           v == Value(series)
           S == After(d)
           T == Between(series, d + 1, today)
<1>1. d \in Int /\ today - PeriodDays <= d + 1 /\ d <= today /\ today \in Int /\ PeriodDays \in Nat
  BY Typed DEF Window
<1>2. S \in SUBSET Txs /\ IsFiniteSet(S) /\ T \in SUBSET S
  <2>1. S \in SUBSET Txs
    BY Typed DEF After
  <2> QED
    BY <2>1, LiveIsFinite DEF After, Between
<1>3. \A t \in S : shares[t] = IF Filter(series, row[t]) THEN v[t] ELSE 0
  <2> TAKE t \in S
  <2>1. t \in Completed /\ date[t] \in Window /\ t \in Txs
    <3>1. t \in Completed /\ date[t] \in (d + 1)..today
      BY DEF After
    <3> QED
      BY <1>1, <1>2, <3>1 DEF Window
  <2>2. ~Untold(series, row[t])
    BY <2>1 DEF Told
  <2>3. Share(series, row[t]) = IF Filter(series, row[t]) THEN Signed(Resolve(series, row[t]), row[t].amount) ELSE 0
    BY <2>1, <2>2, RowFacts, SeriesTells
  <2> QED
    BY <2>1, <2>3 DEF Value
<1>4. (\A t \in T : v[t] \in Int /\ shares[t] = v[t]) /\ (\A t \in S \ T : shares[t] = 0)
  <2>1. \A t \in S : t \in T <=> Filter(series, row[t])
    BY DEF After, Between
  <2>2. \A t \in Txs : v[t] \in Int
    BY Typed
  <2> HIDE DEF shares, v, S, T
  <2> QED
    BY <1>2, <1>3, <2>1, <2>2
<1>5. LedgerOn(series, d) = Total(series) - SumFunctionOnSet(shares, S)
  BY <1>1, LedgerOnIs
<1>6. BalanceOn(series, d) = Total(series) - SumFunctionOnSet(v, T)
  BY <1>1, BalanceOnIs
<1> HIDE DEF shares, v, S, T
<1>7. SumFunctionOnSet(shares, S) = SumFunctionOnSet(v, T)
  BY <1>2, <1>4, SumSupport
<1> QED
  BY <1>5, <1>6, <1>7

-----------------------------------------------------------------------------
(* The reports among each other.                                           *)

LEMMA FlowTells ==
  ASSUME NEW x \in Row, x.account \in Live, x.dest \in Live \cup {NoAcc},
         ~(PaysCard(x) /\ TypeOf(x.account) = "INVESTMENT")
  PROVE  (IF FlowFilter(x) THEN Signed(IF PaysCard(x) THEN "EXPENSE" ELSE x.type, x.amount) ELSE 0)
           = (IF Filter("evolution", x) THEN Signed(Resolve("evolution", x), x.amount) ELSE 0)
             + (IF Filter("investments", x) THEN Signed(Resolve("investments", x), x.amount) ELSE 0)
<1>1. /\ x.amount \in Nat /\ x.type \in {"INCOME", "EXPENSE", "TRANSFER"}
      /\ TypeOf(x.account) \in Kinds /\ TypeOf(x.dest) \in Kinds \cup {"none"}
  BY LiveIsFinite, AccountsAssumption DEF Row, Types, TypeOf
<1>2. CASE x.type # "TRANSFER"
  BY <1>1, <1>2 DEF FlowFilter, Filter, Resolve, Signed, PaysCard, TransferTouches, Bank, Kinds
<1>3. CASE x.type = "TRANSFER" /\ TypeOf(x.dest) = "CREDIT_CARD"
  BY <1>1, <1>3 DEF FlowFilter, Filter, Resolve, Signed, PaysCard, TransferTouches, Bank, Kinds
<1>4. CASE x.type = "TRANSFER" /\ TypeOf(x.dest) # "CREDIT_CARD"
  BY <1>1, <1>4 DEF FlowFilter, Filter, Resolve, Signed, PaysCard, TransferTouches, Bank, Kinds
<1> QED
  BY <1>2, <1>3, <1>4

LEMMA FlowIs ==
  ASSUME ReportsInv, NEW d \in Int,
         ~ \E t \in Completed : date[t] = d /\ PaysCard(row[t]) /\ TypeOf(row[t].account) = "INVESTMENT"
  PROVE  CashFlow(d) = DayNet("evolution", d) + DayNet("investments", d)
<1> DEFINE S == {t \in Completed : date[t] = d}
           flow == [t \in Txs |-> Signed(IF PaysCard(row[t]) THEN "EXPENSE" ELSE row[t].type, row[t].amount)]
           evol == Value("evolution")
           inv == Value("investments")
           F == {t \in S : FlowFilter(row[t])}
           E == {t \in S : Filter("evolution", row[t])}
           I == {t \in S : Filter("investments", row[t])}
           flows == [t \in S |-> IF t \in F THEN flow[t] ELSE 0]
           evols == [t \in S |-> IF t \in E THEN evol[t] ELSE 0]
           invs == [t \in S |-> IF t \in I THEN inv[t] ELSE 0]
<1>1. S \in SUBSET Txs /\ IsFiniteSet(S)
  <2>1. S \in SUBSET Txs
    BY Typed
  <2> QED
    BY <2>1, LiveIsFinite
<1>2. \A t \in S : flow[t] \in Int /\ evol[t] \in Int /\ inv[t] \in Int
  <2>1. \A type, m : m \in Nat => Signed(type, m) \in Int
    BY DEF Signed
  <2>2. \A t \in Txs : flow[t] \in Int
    BY <2>1, Typed
  <2>3. "evolution" \in Series /\ "investments" \in Series
    BY DEF Series
  <2>4. \A t \in Txs : evol[t] \in Int /\ inv[t] \in Int
    BY <2>3, Typed
  <2> QED
    BY <1>1, <2>2, <2>4
<1>3. \A t \in S : evols[t] \in Int /\ invs[t] \in Int /\ flows[t] = evols[t] + invs[t]
  <2> TAKE t \in S
  <2>1. t \in Completed /\ t \in Txs
    BY <1>1
  <2>2. (IF FlowFilter(row[t]) THEN flow[t] ELSE 0)
           = (IF Filter("evolution", row[t]) THEN evol[t] ELSE 0)
             + (IF Filter("investments", row[t]) THEN inv[t] ELSE 0)
    BY <2>1, RowFacts, FlowTells DEF Value
  <2>3. (t \in F <=> FlowFilter(row[t])) /\ (t \in E <=> Filter("evolution", row[t]))
        /\ (t \in I <=> Filter("investments", row[t]))
    OBVIOUS
  <2>4. evol[t] \in Int /\ inv[t] \in Int
    BY <1>2
  <2>5. /\ flows[t] = IF t \in F THEN flow[t] ELSE 0
        /\ evols[t] = IF t \in E THEN evol[t] ELSE 0
        /\ invs[t] = IF t \in I THEN inv[t] ELSE 0
    OBVIOUS
  <2> HIDE DEF flows, evols, invs, F, E, I, flow, evol, inv
  <2> QED
    BY <2>2, <2>3, <2>4, <2>5
<1>4. F \in SUBSET S /\ E \in SUBSET S /\ I \in SUBSET S
  OBVIOUS
<1>5. /\ F = {t \in Completed : date[t] = d /\ FlowFilter(row[t])}
      /\ E = {t \in Completed : date[t] = d /\ Filter("evolution", row[t])}
      /\ I = {t \in Completed : date[t] = d /\ Filter("investments", row[t])}
  OBVIOUS
<1>6. /\ CashFlow(d) = SumFunctionOnSet(flow, F)
      /\ DayNet("evolution", d) = SumFunctionOnSet(evol, E)
      /\ DayNet("investments", d) = SumFunctionOnSet(inv, I)
  BY <1>5 DEF CashFlow, DayNet, Value
<1>7. SumFunctionOnSet(flows, S) = SumFunctionOnSet(evols, S) + SumFunctionOnSet(invs, S)
  <2> HIDE DEF flows, evols, invs, S
  <2>1. \A t \in S : evols[t] \in Int /\ invs[t] \in Int /\ flows[t] = evols[t] + invs[t]
    BY <1>3
  <2> QED
    BY <1>1, <2>1, SumPlus
<1> HIDE DEF S, F, E, I, flow, evol, inv
<1>8. /\ SumFunctionOnSet(flows, S) = SumFunctionOnSet(flow, F)
      /\ SumFunctionOnSet(evols, S) = SumFunctionOnSet(evol, E)
      /\ SumFunctionOnSet(invs, S) = SumFunctionOnSet(inv, I)
  <2>1. (\A t \in F : flow[t] \in Int) /\ (\A t \in E : evol[t] \in Int) /\ (\A t \in I : inv[t] \in Int)
    BY <1>2, <1>4
  <2>2. SumFunctionOnSet(flows, S) = SumFunctionOnSet(flow, F)
    BY <1>1, <1>4, <2>1, SumWhere
  <2>3. SumFunctionOnSet(evols, S) = SumFunctionOnSet(evol, E)
    BY <1>1, <1>4, <2>1, SumWhere
  <2>4. SumFunctionOnSet(invs, S) = SumFunctionOnSet(inv, I)
    BY <1>1, <1>4, <2>1, SumWhere
  <2> QED
    BY <2>2, <2>3, <2>4
<1> HIDE DEF flows, evols, invs
<1> QED
  BY <1>6, <1>7, <1>8

(* The summary of the days from d on is what the net worth gained.         *)
LEMMA SummaryIs ==
  ASSUME ReportsInv, NEW d \in Int, today - PeriodDays < d, d <= today
  PROVE  SummaryNet(d, today) = BalanceOn("netWorth", today) - BalanceOn("netWorth", d - 1)
<1> DEFINE w == [t \in Txs |-> Signed(row[t].type, row[t].amount)]
           v == Value("netWorth")
           S == {t \in Completed : date[t] \in d..today}
           T == Between("netWorth", d, today)
<1>0. "netWorth" \in Series /\ today \in Int /\ PeriodDays \in Nat
  BY Typed DEF Series
<1>1. S \in SUBSET Txs /\ IsFiniteSet(S) /\ T \in SUBSET S
  <2>1. S \in SUBSET Txs
    BY Typed
  <2> QED
    BY <2>1, LiveIsFinite DEF Between
<1>2. (\A t \in T : v[t] \in Int /\ w[t] = v[t]) /\ (\A t \in S \ T : w[t] = 0)
  <2>1. \A t \in S : t \in T <=> row[t].type # "TRANSFER"
    BY DEF Between, Filter
  <2>2. \A t \in Txs : v[t] \in Int
    BY <1>0, Typed
  <2>3. \A t \in Txs : v[t] = w[t]
    BY DEF Value, Resolve
  <2>4. \A t \in Txs : row[t].type = "TRANSFER" => w[t] = 0
    BY DEF Signed
  <2> HIDE DEF v, w, S, T
  <2> QED
    BY <1>1, <2>1, <2>2, <2>3, <2>4
<1>3. SummaryNet(d, today) = SumFunctionOnSet(w, S)
  BY DEF SummaryNet
<1>4. /\ BalanceOn("netWorth", d - 1) = Total("netWorth") - SumFunctionOnSet(v, T)
      /\ SumFunctionOnSet(v, T) \in Int
  <2>1. d - 1 \in Int /\ (d - 1) + 1 = d /\ today - PeriodDays <= (d - 1) + 1 /\ d - 1 <= today
    BY <1>0
  <2> QED
    BY <1>0, <2>1, BalanceOnIs
<1>5. BalanceOn("netWorth", today) = Total("netWorth") /\ Total("netWorth") \in Int
  <2>1. NetBetween("netWorth", today - PeriodDays, today) \in Int /\ Total("netWorth") \in Int
    BY <1>0, NetIsSum, TotalType
  <2> QED
    BY <2>1 DEF BalanceOn, StartBalance
<1> HIDE DEF w, v, S, T
<1>6. SumFunctionOnSet(w, S) = SumFunctionOnSet(v, T)
  BY <1>1, <1>2, SumSupport
<1> QED
  BY <1>3, <1>4, <1>5, <1>6

(* ... and it is what came in without what was spent.                      *)
LEMMA SummarySplits ==
  ASSUME ReportsInv, NEW d \in Int
  PROVE  SummaryNet(d, today)
           = AmountOf({t \in Completed : row[t].type = "INCOME" /\ date[t] \in d..today})
             - TotalExpense(d, today)
<1> DEFINE w == [t \in Txs |-> Signed(row[t].type, row[t].amount)]
           m == [t \in Txs |-> row[t].amount]
           S == {t \in Completed : date[t] \in d..today}
           I == {t \in Completed : row[t].type = "INCOME" /\ date[t] \in d..today}
           E == Expenses(d, today)
           ins == [t \in S |-> IF t \in I THEN m[t] ELSE 0]
           outs == [t \in S |-> IF t \in E THEN m[t] ELSE 0]
<1>1. S \in SUBSET Txs /\ IsFiniteSet(S) /\ I \in SUBSET S /\ E \in SUBSET S
  <2>1. S \in SUBSET Txs
    BY Typed
  <2> QED
    BY <2>1, LiveIsFinite DEF Expenses
<1>2. \A t \in S : /\ m[t] \in Nat
                   /\ w[t] = IF t \in I THEN m[t] ELSE IF t \in E THEN -m[t] ELSE 0
                   /\ ~(t \in I /\ t \in E)
  <2> TAKE t \in S
  <2>1. t \in Txs /\ row[t].amount \in Nat /\ m[t] = row[t].amount
    BY <1>1, Typed
  <2>2. (t \in I <=> row[t].type = "INCOME") /\ (t \in E <=> row[t].type = "EXPENSE")
    BY DEF Expenses
  <2>3. w[t] = Signed(row[t].type, row[t].amount)
    BY <2>1
  <2> HIDE DEF w, m, I, E, S
  <2> QED
    BY <2>1, <2>2, <2>3 DEF Signed
<1>3. /\ SummaryNet(d, today) = SumFunctionOnSet(w, S)
      /\ AmountOf(I) = SumFunctionOnSet(m, I)
      /\ TotalExpense(d, today) = SumFunctionOnSet(m, E)
  BY DEF SummaryNet, AmountOf, TotalExpense
<1>4. \A t \in S : ins[t] = (IF t \in I THEN m[t] ELSE 0) /\ outs[t] = (IF t \in E THEN m[t] ELSE 0)
  OBVIOUS
<1>5. SumFunctionOnSet(ins, S) = SumFunctionOnSet(m, I) /\ SumFunctionOnSet(outs, S) = SumFunctionOnSet(m, E)
  <2> HIDE DEF m, I, E, S
  <2>1. (\A t \in I : m[t] \in Int) /\ (\A t \in E : m[t] \in Int)
    <3>1. \A t \in S : m[t] \in Int
      <4>1. \A t \in S : m[t] \in Nat
        BY <1>2
      <4> QED
        BY <4>1
    <3> QED
      BY <1>1, <3>1
  <2>2. SumFunctionOnSet(ins, S) = SumFunctionOnSet(m, I)
    BY <1>1, <2>1, SumWhere
  <2>3. SumFunctionOnSet(outs, S) = SumFunctionOnSet(m, E)
    BY <1>1, <2>1, SumWhere
  <2> QED
    BY <2>2, <2>3
<1> HIDE DEF w, m, S, I, E, ins, outs
<1>6. \A t \in S : w[t] \in Int /\ outs[t] \in Int /\ ins[t] = w[t] + outs[t]
  BY <1>2, <1>4
<1>7. SumFunctionOnSet(ins, S) = SumFunctionOnSet(w, S) + SumFunctionOnSet(outs, S)
  BY <1>1, <1>6, SumPlus
<1>8. SumFunctionOnSet(w, S) \in Int /\ SumFunctionOnSet(outs, S) \in Int
  BY <1>1, <1>6, SumTypeAndRemove
<1> QED
  BY <1>3, <1>5, <1>7, <1>8 DEF I

(* When the list of categories has room for all, they add up to all.       *)
LEMMA TopAddsUp ==
  ASSUME ReportsInv, NEW first \in Int, NEW last \in Int,
         Cardinality(Top(first, last)) # TopCategories
  PROVE  SumFunction([c \in Top(first, last) |-> SpentOn(c, first, last)]) = TotalExpense(first, last)
<1> DEFINE E == Expenses(first, last)
           m == [t \in Txs |-> row[t].amount]
           spent == {Category[t] : t \in E}
           k == Min({TopCategories, Cardinality(spent)})
           on == [c \in spent |-> SpentOn(c, first, last)]
           IsTop(C) == /\ Cardinality(C) = k
                       /\ \A c \in C, b \in spent \ C : SpentOn(b, first, last) <= SpentOn(c, first, last)
<1>1. E \in SUBSET Txs /\ IsFiniteSet(E) /\ \A t \in E : m[t] \in Int
  <2>1. E \in SUBSET Txs
    BY Typed DEF Expenses
  <2> QED
    BY <2>1, LiveIsFinite, Typed
<1>2. IsFiniteSet(spent) /\ Cardinality(spent) \in Nat
  BY <1>1, ImageIsFinite, FS_CardinalityType
<1>3. k \in {TopCategories, Cardinality(spent)} /\ k <= TopCategories /\ k <= Cardinality(spent)
  <2> DEFINE K == {TopCategories, Cardinality(spent)}
  <2>1. TopCategories \in Nat
    BY ReportsAssumption
  <2>2. \E x \in K : \A y \in K : x <= y
    BY <1>2, <2>1
  <2> HIDE DEF K
  <2>3. Min(K) \in K /\ \A y \in K : Min(K) <= y
    BY <2>2 DEF Min
  <2> QED
    BY <2>3 DEF K
<1>4. \A c \in spent : on[c] \in Int /\ on[c] = SumFunctionOnSet(m, {t \in E : Category[t] = c})
  <2> TAKE c \in spent
  <2> DEFINE G == {t \in E : Category[t] = c}
  <2>1. on[c] = SumFunctionOnSet(m, G)
    <3>1. SpentOn(c, first, last) = SumFunctionOnSet(m, G)
      BY DEF SpentOn, AmountOf
    <3> HIDE DEF m, G
    <3> QED
      BY <3>1
  <2>2. G \in SUBSET Txs /\ (\A t \in G : m[t] \in Int) /\ IsFiniteSet(G)
    BY <1>1, FS_Subset
  <2> HIDE DEF on, m, G
  <2>3. SumFunctionOnSet(m, G) \in Int
    BY <2>2, SumTypeAndRemove
  <2> QED
    BY <2>1, <2>3 DEF G
<1>5. \E C \in SUBSET spent : IsTop(C)
  <2>1. k \in Nat
    BY <1>2, <1>3, ReportsAssumption
  <2> HIDE DEF k
  <2>2. PICK C \in SUBSET spent : Cardinality(C) = k /\ \A c \in C, b \in spent \ C : on[b] <= on[c]
    <3> HIDE DEF spent, on
    <3> QED
      BY <1>2, <1>3, <1>4, <2>1, GreatestFew
  <2>3. IsTop(C)
    BY <2>2
  <2> QED
    BY <2>3
<1>6. Top(first, last) \in SUBSET spent /\ IsTop(Top(first, last))
  <2>1. Top(first, last) = CHOOSE C \in SUBSET spent : IsTop(C)
    BY DEF Top
  <2> HIDE DEF IsTop, spent
  <2> QED
    BY <1>5, <2>1
<1>7. Top(first, last) = spent
  <2>1. Cardinality(Top(first, last)) = Cardinality(spent)
    BY <1>3, <1>6
  <2> HIDE DEF spent, IsTop
  <2> QED
    BY <1>2, <1>6, <2>1, FS_Subset
<1>8. on = [c \in spent |-> SumFunctionOnSet(m, {t \in E : Category[t] = c})]
  BY <1>4
<1>9. \A t \in E : m[t] \in Int /\ Category[t] \in spent
  BY <1>1
<1>10. SumFunction(on) = SumFunctionOnSet(on, spent) /\ TotalExpense(first, last) = SumFunctionOnSet(m, E)
  BY DEF SumFunction, TotalExpense, AmountOf
<1>11. [c \in Top(first, last) |-> SpentOn(c, first, last)] = on
  BY <1>7
<1> HIDE DEF E, m, spent, on, k, IsTop
<1>12. SumFunctionOnSet([c \in spent |-> SumFunctionOnSet(m, {t \in E : Category[t] = c})], spent)
         = SumFunctionOnSet(m, E)
  BY <1>1, <1>2, <1>9, SumGroups
<1> QED
  BY <1>8, <1>10, <1>11, <1>12

(* The headline is the worth of all accounts.                              *)
LEMMA HeadlineIs ==
  ASSUME ReportsInv
  PROVE  HeadlineNetWorth = BalanceOn("netWorth", today)
<1> DEFINE b == [a \in Accounts |-> Worth(a, balance[a])]
           A == {a \in Live : Kind[a] \in Bank}
           I == {a \in Live : Kind[a] \in {"INVESTMENT"}}
           C == {a \in Live : Kind[a] \in {"CREDIT_CARD"}}
<1>1. IsFiniteSet(A) /\ IsFiniteSet(I) /\ IsFiniteSet(C) /\ IsFiniteSet(A \cup I)
      /\ A \subseteq Accounts /\ I \subseteq Accounts /\ C \subseteq Accounts
  <2>1. A \in SUBSET Live /\ I \in SUBSET Live /\ C \in SUBSET Live /\ A \cup I \in SUBSET Live
    OBVIOUS
  <2> QED
    BY <2>1, LiveIsFinite
<1>2. Live = (A \cup I) \cup C /\ A \cap I = {} /\ (A \cup I) \cap C = {}
  BY LiveIsFinite, AccountsAssumption DEF Kinds, Bank
<1>3. \A a \in Accounts : b[a] \in Int /\ balance[a] \in Int
                          /\ b[a] = IF Kind[a] = "CREDIT_CARD" THEN -balance[a] ELSE balance[a]
  <2> TAKE a \in Accounts
  <2>1. balance[a] \in Int
    BY Typed
  <2>2. b[a] = IF Kind[a] = "CREDIT_CARD" THEN -balance[a] ELSE balance[a]
    BY DEF Worth, IsCard
  <2> HIDE DEF b
  <2> QED
    BY <2>1, <2>2
<1>4. Members("netWorth") = Live
  BY DEF Members
<1>5. BalanceOn("netWorth", today) = Total("netWorth")
  <2>1. "netWorth" \in Series /\ today \in Int /\ PeriodDays \in Nat
    BY Typed DEF Series
  <2>2. NetBetween("netWorth", today - PeriodDays, today) \in Int /\ Total("netWorth") \in Int
    BY <2>1, NetIsSum, TotalType
  <2> QED
    BY <2>2 DEF BalanceOn, StartBalance
<1>6. Total("netWorth") = SumFunctionOnSet(b, Live)
  BY <1>4 DEF Total
<1>7. HeadlineNetWorth
        = SumFunctionOnSet(balance, A) + SumFunctionOnSet(balance, I) - SumFunctionOnSet(balance, C)
  BY DEF HeadlineNetWorth, BalanceOfKinds
<1>8. /\ \A a \in A : balance[a] \in Int /\ b[a] = balance[a]
      /\ \A a \in I : balance[a] \in Int /\ b[a] = balance[a]
      /\ \A a \in C : balance[a] \in Int /\ b[a] = -balance[a]
      /\ \A a \in (A \cup I) \cup C : b[a] \in Int
  BY <1>1, <1>3 DEF Bank
<1> HIDE DEF b, A, I, C
<1>9. /\ SumFunctionOnSet(b, A) = SumFunctionOnSet(balance, A)
      /\ SumFunctionOnSet(b, I) = SumFunctionOnSet(balance, I)
      /\ SumFunctionOnSet(b, C) = -SumFunctionOnSet(balance, C)
  <2>1. SumFunctionOnSet(b, A) = SumFunctionOnSet(balance, A)
    BY <1>1, <1>8, SumSame
  <2>2. SumFunctionOnSet(b, I) = SumFunctionOnSet(balance, I)
    BY <1>1, <1>8, SumSame
  <2>3. SumFunctionOnSet(b, C) = -SumFunctionOnSet(balance, C)
    BY <1>1, <1>8, SumNegative
  <2> QED
    BY <2>1, <2>2, <2>3
<1>10. /\ SumFunctionOnSet(b, Live) = SumFunctionOnSet(b, A \cup I) + SumFunctionOnSet(b, C)
       /\ SumFunctionOnSet(b, A \cup I) = SumFunctionOnSet(b, A) + SumFunctionOnSet(b, I)
  <2>1. SumFunctionOnSet(b, A \cup I) = SumFunctionOnSet(b, A) + SumFunctionOnSet(b, I)
    BY <1>1, <1>2, <1>8, SumParts
  <2>2. SumFunctionOnSet(b, (A \cup I) \cup C) = SumFunctionOnSet(b, A \cup I) + SumFunctionOnSet(b, C)
    BY <1>1, <1>2, <1>8, SumParts
  <2> QED
    BY <1>2, <2>1, <2>2
<1>11. SumFunctionOnSet(balance, A) \in Int /\ SumFunctionOnSet(balance, I) \in Int
       /\ SumFunctionOnSet(balance, C) \in Int
  BY <1>1, <1>8, SumTypeAndRemove
<1> QED
  BY <1>5, <1>6, <1>7, <1>9, <1>10, <1>11

LEMMA ReportsDoAgree == ReportsInv => ReportsAgree
<1> SUFFICES ASSUME ReportsInv PROVE ReportsAgree
  OBVIOUS
<1>0. today \in Int /\ PeriodDays \in Nat
  BY Typed
<1>1. ASSUME NEW d \in Window
      PROVE  \/ \E t \in Completed : date[t] = d /\ PaysCard(row[t]) /\ TypeOf(row[t].account) = "INVESTMENT"
             \/ CashFlow(d) = DayNet("evolution", d) + DayNet("investments", d)
  <2>1. d \in Int
    BY <1>0 DEF Window
  <2> QED
    BY <2>1, FlowIs
<1>2. ASSUME NEW d \in Window \ {today - PeriodDays}
      PROVE  /\ SummaryNet(d, today) = BalanceOn("netWorth", today) - BalanceOn("netWorth", d - 1)
             /\ LET income == {t \in Completed : row[t].type = "INCOME" /\ date[t] \in d..today}
                    shown == Top(d, today)
                IN  /\ SummaryNet(d, today) = AmountOf(income) - TotalExpense(d, today)
                    /\ \/ Cardinality(shown) = TopCategories
                       \/ SumFunction([c \in shown |-> SpentOn(c, d, today)]) = TotalExpense(d, today)
  <2>1. d \in Int /\ today - PeriodDays < d /\ d <= today
    BY <1>0 DEF Window
  <2>2. SummaryNet(d, today) = BalanceOn("netWorth", today) - BalanceOn("netWorth", d - 1)
    BY <2>1, SummaryIs
  <2>3. SummaryNet(d, today)
          = AmountOf({t \in Completed : row[t].type = "INCOME" /\ date[t] \in d..today})
            - TotalExpense(d, today)
    BY <2>1, SummarySplits
  <2>4. \/ Cardinality(Top(d, today)) = TopCategories
        \/ SumFunction([c \in Top(d, today) |-> SpentOn(c, d, today)]) = TotalExpense(d, today)
    BY <1>0, <2>1, TopAddsUp
  <2> QED
    BY <2>2, <2>3, <2>4
<1>3. \A d \in Window \ {today - PeriodDays} :
        /\ SummaryNet(d, today) = BalanceOn("netWorth", today) - BalanceOn("netWorth", d - 1)
        /\ LET income == {t \in Completed : row[t].type = "INCOME" /\ date[t] \in d..today}
               shown == Top(d, today)
           IN  /\ SummaryNet(d, today) = AmountOf(income) - TotalExpense(d, today)
               /\ \/ Cardinality(shown) = TopCategories
                  \/ SumFunction([c \in shown |-> SpentOn(c, d, today)]) = TotalExpense(d, today)
  BY <1>2
<1> QED
  BY <1>1, <1>3, HeadlineIs DEF ReportsAgree


-----------------------------------------------------------------------------
(* The past stands still.  With nothing completed ahead of its day, what a *)
(* balance held at the end of a day is the balance less all that rows of   *)
(* later dates have moved; a step that books, edits or deletes a row of a  *)
(* later date adds the same to both.                                       *)
MovedAfter(d, a) == [t \in Txs |-> IF date[t] > d THEN Effect(row[t], a) ELSE 0]

BookedIsMoved ==
  Ahead = {} => \A d \in Int : \A a \in Accounts :
    BookedAfter(d, a) = SumFunctionOnSet(MovedAfter(d, a), Txs)

(* Rows that do not count have moved nothing.                              *)
QuietRows == \A t \in Txs \ Completed : \A a \in Accounts : Effect(row[t], a) = 0

LEMMA RowsAreQuiet == ReportsInv => QuietRows
<1> SUFFICES ASSUME ReportsInv, NEW t \in Txs \ Completed, NEW a \in Accounts
             PROVE  Effect(row[t], a) = 0
  BY DEF QuietRows
<1>1. NoRowWithoutLife /\ TypeOK
  BY DEF ReportsInv, IInv
<1>2. CASE fate[t] # "live"
  BY <1>1, <1>2, NoRowEffect DEF NoRowWithoutLife
<1>3. CASE row[t].status # "COMPLETED"
  BY <1>1, <1>3, PendingEffect DEF TypeOK, Row, Statuses
<1> QED
  BY <1>2, <1>3 DEF Completed

LEMMA BookedIs == ReportsInv => BookedIsMoved
<1> SUFFICES ASSUME ReportsInv, Ahead = {}, NEW d \in Int, NEW a \in Accounts
             PROVE  BookedAfter(d, a) = SumFunctionOnSet(MovedAfter(d, a), Txs)
  BY DEF BookedIsMoved
<1> DEFINE e == [t \in Txs |-> Effect(row[t], a)]
           g == MovedAfter(d, a)
           T == {t \in Completed : date[t] \in (d + 1)..today}
<1>1. T \in SUBSET Txs /\ IsFiniteSet(Txs)
  BY LiveIsFinite DEF Completed
<1>2. \A t \in Txs \ Completed : Effect(row[t], a) = 0
  BY RowsAreQuiet DEF QuietRows
<1>3. \A t \in Txs : e[t] \in Int /\ date[t] \in Int /\ today \in Int
  BY Typed
<1>4. \A t \in Completed : date[t] <= today
  BY <1>3, Typed DEF Ahead
<1>5. \A t \in T : e[t] \in Int /\ g[t] = e[t]
  BY <1>1, <1>3 DEF MovedAfter
<1>6. \A t \in Txs \ T : g[t] = 0
  <2> TAKE t \in Txs \ T
  <2>1. CASE t \in Completed
    <3>1. ~(date[t] > d)
      BY <1>3, <1>4, <2>1
    <3> QED
      BY <3>1 DEF MovedAfter
  <2>2. CASE t \notin Completed
    BY <1>2, <2>2 DEF MovedAfter
  <2> QED
    BY <2>1, <2>2
<1>7. BookedAfter(d, a) = SumFunctionOnSet(e, T)
  BY DEF BookedAfter
<1> HIDE DEF e, g, T
<1>8. SumFunctionOnSet(g, Txs) = SumFunctionOnSet(e, T)
  BY <1>1, <1>5, <1>6, SumSupport
<1> QED
  BY <1>7, <1>8 DEF g

(* A step that leaves the accounts alone replaces one row at most.         *)
Replaces(t) ==
  /\ \A u \in Txs \ {t} : fate'[u] = fate[u] /\ row'[u] = row[u] /\ date'[u] = date[u]
  /\ \A a \in Accounts : balance'[a] = balance[a] + (Effect(row'[t], a) - Effect(row[t], a))

LEMMA OneRowAtMost ==
  ASSUME ReportsInv, [ReportsNext]_reportVars, account' = account
  PROVE  UNCHANGED <<balance, fate, row, date>> \/ \E t \in Txs : Replaces(t)
<1>1. /\ account \in [Accounts -> {"unborn", "live", "gone"}] /\ row \in [Txs -> Row]
      /\ fate \in [Txs -> {"unused", "live", "deleted", "cascaded"}] /\ date \in [Txs -> Days]
      /\ \A t \in Txs : fate[t] = "unused" => row[t] = NoRow
  BY DEF ReportsInv, IInv, TypeOK, NoRowWithoutLife
<1>2. ASSUME NEW t \in Txs, NEW old, NEW new, NEW s, Replace(t, old, new, s)
      PROVE  \A a \in Accounts : balance'[a] = balance[a] + (Effect(new, a) - Effect(old, a))
  BY <1>2 DEF Replace, Delta
<1>3. ASSUME NEW t \in Txs, NEW x \in Drafts, NEW d \in Days, Create(t, x, d) PROVE Replaces(t)
  BY <1>1, <1>2, <1>3, ZenonT(30) DEF Create, CreateTx, Dated, Replaces
<1>4. ASSUME NEW t \in Txs, NEW x \in Drafts, NEW d \in Days, Update(t, x, d) PROVE Replaces(t)
  BY <1>1, <1>2, <1>4, ZenonT(30) DEF Update, UpdateTx, Dated, Replaces
<1>5. ASSUME NEW t \in Txs, DeleteTx(t), date' = date PROVE Replaces(t)
  BY <1>1, <1>2, <1>5, ZenonT(30) DEF DeleteTx, Replaces
<1>6. ASSUME NEW t \in Txs, NEW s \in Statuses, SetStatus(t, s, FALSE), date' = date PROVE Replaces(t)
  BY <1>1, <1>2, <1>6, ZenonT(30) DEF SetStatus, Replaces
<1>7. ASSUME NEW a \in Accounts, NEW b \in Openings \cup {0}, OpenAccount(a, b, NoLimit) PROVE FALSE
  BY <1>1, <1>7 DEF OpenAccount
<1>8. ASSUME NEW a \in Accounts, DropAccount(a) PROVE FALSE
  BY <1>1, <1>8 DEF DropAccount, Live
<1>9. CASE Undated
  BY <1>5, <1>6, <1>7, <1>8, <1>9 DEF Undated
<1>10. CASE NextDay \/ UNCHANGED reportVars
  BY <1>10 DEF NextDay, reportVars, dataVars
<1> QED
  BY <1>3, <1>4, <1>9, <1>10 DEF ReportsNext

LEMMA BookedKeepsUp ==
  ASSUME ReportsInv, ReportsInv', [ReportsNext]_reportVars, account' = account,
         Ahead = {}, Ahead' = {}, NEW d \in Int,
         \A t \in Touched : CountsAfter(d, t) /\ CountsAfter(d, t)', NEW a \in Accounts
  PROVE  balance'[a] - BookedAfter(d, a)' = balance[a] - BookedAfter(d, a)
<1> DEFINE g == MovedAfter(d, a)
           h == MovedAfter(d, a)'
<1>0. \A t \in Txs : date[t] \in Int /\ date'[t] \in Int
  BY DEF ReportsInv, Days
<1>1. BookedAfter(d, a) = SumFunctionOnSet(g, Txs)
  BY BookedIs DEF BookedIsMoved
<1>2. BookedAfter(d, a)' = SumFunctionOnSet(h, Txs)
  <2>1. BookedIsMoved'
    BY BookedIs, PTL
  <2> QED
    BY <2>1 DEF BookedIsMoved
<1>3. \A t \in Txs : Effect(row[t], a) \in Int /\ Effect(row'[t], a) \in Int
  <2>1. TypeOK /\ TypeOK'
    BY DEF ReportsInv, IInv
  <2> QED
    BY <2>1, EffectType DEF TypeOK
<1>4. \A t \in Txs : /\ g[t] = IF date[t] > d THEN Effect(row[t], a) ELSE 0
                     /\ h[t] = IF date'[t] > d THEN Effect(row'[t], a) ELSE 0
  BY DEF MovedAfter
<1>5. \A t \in Txs : g[t] \in Int /\ h[t] \in Int
  BY <1>3, <1>4
<1>6. balance[a] \in Int /\ SumFunctionOnSet(g, Txs) \in Int
  BY <1>5, LiveIsFinite, SumTypeAndRemove, Typed
<1>7. CASE UNCHANGED <<balance, fate, row, date>>
  <2>1. h = g
    BY <1>7 DEF MovedAfter
  <2> QED
    BY <1>1, <1>2, <1>7, <2>1
<1>8. ASSUME NEW t \in Txs, Replaces(t)
      PROVE  balance'[a] - BookedAfter(d, a)' = balance[a] - BookedAfter(d, a)
  <2>1. \A u \in Txs \ {t} : h[u] = g[u]
    BY <1>4, <1>8 DEF Replaces
  <2>2. SumFunctionOnSet(h, Txs) = SumFunctionOnSet(g, Txs) + (h[t] - g[t])
    <3> HIDE DEF g, h
    <3> QED
      BY <1>5, <2>1, LiveIsFinite, SumChange
  <2>3. h[t] - g[t] = Effect(row'[t], a) - Effect(row[t], a)
    <3>1. CASE t \in Touched
      <4>1. QuietRows'
        BY RowsAreQuiet, PTL
      <4>2. t \notin Completed => Effect(row[t], a) = 0
        BY RowsAreQuiet DEF QuietRows
      <4>3. (t \notin Completed)' => Effect(row'[t], a) = 0
        BY <4>1 DEF QuietRows
      <4>4. (t \in Completed => date[t] > d) /\ ((t \in Completed)' => date'[t] > d)
        BY <1>0, <3>1 DEF CountsAfter
      <4>5. g[t] = Effect(row[t], a) /\ h[t] = Effect(row'[t], a)
        BY <1>4, <4>2, <4>3, <4>4
      <4> HIDE DEF g, h
      <4> QED
        BY <4>5
    <3>2. CASE t \notin Touched
      <4>1. row'[t] = row[t] /\ date'[t] = date[t]
        BY <3>2 DEF Touched
      <4>2. h[t] = g[t]
        BY <1>4, <4>1
      <4> HIDE DEF g, h
      <4> QED
        BY <1>3, <1>5, <4>1, <4>2
    <3> QED
      BY <3>1, <3>2
  <2>4. balance'[a] = balance[a] + (Effect(row'[t], a) - Effect(row[t], a))
    BY <1>8 DEF Replaces
  <2> HIDE DEF g, h
  <2> QED
    BY <1>1, <1>2, <1>3, <1>5, <1>6, <2>2, <2>3, <2>4
<1> QED
  BY <1>7, <1>8, OneRowAtMost

LEMMA LedgerStandsStill ==
  ASSUME ReportsInv, ReportsInv', [ReportsNext]_reportVars, account' = account,
         Ahead = {}, Ahead' = {}, NEW d \in Int,
         \A t \in Touched : CountsAfter(d, t) /\ CountsAfter(d, t)', NEW series
  PROVE  LedgerOn(series, d)' = LedgerOn(series, d)
<1>1. Members(series)' = Members(series)
  BY DEF Members, Live
<1>2. [a \in Accounts |-> Worth(a, balance'[a] - BookedAfter(d, a)')]
        = [a \in Accounts |-> Worth(a, balance[a] - BookedAfter(d, a))]
  <2>1. \A a \in Accounts : balance'[a] - BookedAfter(d, a)' = balance[a] - BookedAfter(d, a)
    BY BookedKeepsUp
  <2> QED
    BY <2>1
<1>3. LedgerOn(series, d)'
        = SumFunctionOnSet([a \in Accounts |-> Worth(a, balance'[a] - BookedAfter(d, a)')], Members(series)')
  BY DEF LedgerOn, Worth
<1> QED
  BY <1>1, <1>2, <1>3 DEF LedgerOn

-----------------------------------------------------------------------------
(* Whatever is booked, edited, completed early, deleted or taken away with *)
(* its account, each series of get-balance-evolution shows what the        *)
(* ledger's rules say the accounts held on every day of its window.        *)
THEOREM SeriesReplayTheLedger == ReportsSpec => []SeriesReplayLedger
BY InitReportsInv, NextReportsInv, SeriesReplay, PTL DEF ReportsSpec

(* The cash flow, the summary of a month with its headline and its list of *)
(* categories, and the series of the net worth never contradict each other.*)
THEOREM ReportsAlwaysAgree == ReportsSpec => []ReportsAgree
BY InitReportsInv, NextReportsInv, ReportsDoAgree, PTL DEF ReportsSpec

(* Booking, editing, completing or deleting rows moves no day of a series  *)
(* before the first on which one of them counted or counts now, and a new  *)
(* day moves none.                                                         *)
THEOREM ThePastStandsStill == ReportsSpec => PastStandsStill
<1> DEFINE Still ==
      \A series \in Series :
        /\ account' = account /\ Ahead = {} /\ Ahead' = {}
        /\ Told(series) /\ Told(series)'
        => \A d \in Window \cap Window' :
             (\A t \in Touched : CountsAfter(d, t) /\ CountsAfter(d, t)')
             => BalanceOn(series, d)' = BalanceOn(series, d)
<1>1. ReportsInv /\ [ReportsNext]_reportVars => Still
  <2> SUFFICES ASSUME ReportsInv, [ReportsNext]_reportVars, NEW series \in Series,
                      account' = account, Ahead = {}, Ahead' = {}, Told(series), Told(series)',
                      NEW d \in Window \cap Window',
                      \A t \in Touched : CountsAfter(d, t) /\ CountsAfter(d, t)'
               PROVE  BalanceOn(series, d)' = BalanceOn(series, d)
    OBVIOUS
  <2>1. ReportsInv'
    BY NextReportsInv
  <2>2. SeriesReplayLedger /\ SeriesReplayLedger'
    BY <2>1, SeriesReplay, PTL
  <2>3. d \in Int
    BY Typed DEF Window
  <2>4. BalanceOn(series, d) = LedgerOn(series, d)
    BY <2>2 DEF SeriesReplayLedger
  <2>5. BalanceOn(series, d)' = LedgerOn(series, d)'
    BY <2>2 DEF SeriesReplayLedger
  <2>6. LedgerOn(series, d)' = LedgerOn(series, d)
    BY <2>1, <2>3, LedgerStandsStill
  <2> QED
    BY <2>4, <2>5, <2>6
<1>2. Still => [Still]_reportVars
  OBVIOUS
<1> QED
  BY <1>1, <1>2, InitReportsInv, NextReportsInv, PTL DEF ReportsSpec, PastStandsStill

-----------------------------------------------------------------------------
(* MovementsBackfill.                                                      *)
USE AccountsAssumption, InputsAssumption, BackfillAssumption

Born == {a \in Accounts : account[a] # "unborn"}

(* Accounts to come are untouched, and no row names one.                   *)
DataInv ==
  /\ TypeOK
  /\ \A t \in Txs : Refs(row[t]) \subseteq Born
  /\ \A a \in Accounts \ Born : balance[a] = 0 /\ moved[a] = 0

(* What the ledger's operations do, as far as the script can tell: what    *)
(* movements do not explain of a balance stays as it is.                   *)
DataMoves ==
  /\ Born \subseteq Born' /\ \A a \in Live' : a \in Live \/ a \notin Born
  /\ \A a \in Accounts : Gap(a)' = Gap(a)

LEMMA ReplaceMoves ==
  ASSUME DataInv, NEW t \in Txs, NEW old \in Row, NEW new \in Row, NEW scheduled,
         Refs(old) \subseteq Born, Refs(new) \subseteq Born,
         Replace(t, old, new, scheduled), row' = [row EXCEPT ![t] = new],
         account' = account, limit' = limit,
         fate' \in [Txs -> {"unused", "live", "deleted", "cascaded"}]
  PROVE  DataInv' /\ DataMoves
<1> USE DEF DataInv
<1>1. \A a \in Accounts : Delta(old, new, a) \in Int
  BY EffectType DEF Delta
<1>2. \A a \in Accounts \ Born : Delta(old, new, a) = 0
  BY EffectNamed DEF Delta
<1>3. \A a \in Accounts : /\ balance'[a] = balance[a] + Delta(old, new, a)
                          /\ moved'[a] = moved[a] + Delta(old, new, a)
                          /\ balance[a] \in Int /\ moved[a] \in Int
  BY DEF Replace, TypeOK
<1>4. Born' = Born /\ Live' = Live
  BY DEF Born, Live
<1>5. TypeOK'
  <2> DEFINE part == [a \in Accounts |-> net[t][a] + Delta(old, new, a)]
  <2>1. net[t] \in [Accounts -> Int] /\ part \in [Accounts -> Int]
    BY <1>1 DEF TypeOK
  <2>2. net' = [net EXCEPT ![t] = part]
    BY DEF Replace
  <2> HIDE DEF part
  <2>3. net' \in [Txs -> [Accounts -> Int]]
    BY <2>1, <2>2 DEF TypeOK
  <2>4. balance' \in [Accounts -> Int] /\ moved' \in [Accounts -> Int]
    BY <1>1 DEF TypeOK, Replace
  <2> QED
    BY <2>3, <2>4 DEF TypeOK
<1>6. \A u \in Txs : Refs(row'[u]) \subseteq Born
  BY DEF TypeOK
<1>7. \A a \in Accounts \ Born : balance'[a] = 0 /\ moved'[a] = 0
  BY <1>2, <1>3
<1>8. \A a \in Accounts : Gap(a)' = Gap(a)
  BY <1>1, <1>3 DEF Gap
<1> QED
  BY <1>4, <1>5, <1>6, <1>7, <1>8 DEF DataMoves

LEMMA NoRowNames == Refs(NoRow) = {}
BY DEF Refs, NoRow

LEMMA LiveIsBorn == Live \subseteq Born
BY DEF Live, Born

LEMMA NextMoves == ASSUME DataInv, Next PROVE DataInv' /\ DataMoves
<1> USE DEF DataInv
<1>0. \A t \in Txs : row[t] \in Row
  BY DEF TypeOK
<1>1. ASSUME NEW t \in Txs, NEW x \in Drafts, CreateTx(t, x) PROVE DataInv' /\ DataMoves
  <2>1. Refs(x) \subseteq Born /\ x \in Row
    BY <1>1, LiveIsBorn DEF CreateTx
  <2>2. fate' \in [Txs -> {"unused", "live", "deleted", "cascaded"}]
    BY <1>1 DEF CreateTx, TypeOK
  <2> QED
    BY <1>1, <2>1, <2>2, NoRowType, NoRowNames, ReplaceMoves DEF CreateTx
<1>2. ASSUME NEW t \in Txs, NEW x \in Drafts, UpdateTx(t, x) PROVE DataInv' /\ DataMoves
  <2> DEFINE y == Edited(row[t], x)
  <2>1. y \in Row /\ Refs(y) = Refs(x)
    BY <1>0 DEF Edited, Row, Refs
  <2>2. Refs(y) \subseteq Born
    BY <1>2, <2>1, LiveIsBorn DEF UpdateTx
  <2>3. Replace(t, row[t], y, FALSE) /\ row' = [row EXCEPT ![t] = y] /\ UNCHANGED <<account, limit, fate>>
    BY <1>2 DEF UpdateTx
  <2>4. fate' \in [Txs -> {"unused", "live", "deleted", "cascaded"}]
    BY <2>3 DEF TypeOK
  <2> HIDE DEF y
  <2> QED
    BY <1>0, <2>1, <2>2, <2>3, <2>4, ReplaceMoves
<1>3. ASSUME NEW t \in Txs, DeleteTx(t) PROVE DataInv' /\ DataMoves
  <2>1. fate' \in [Txs -> {"unused", "live", "deleted", "cascaded"}]
    BY <1>3 DEF DeleteTx, TypeOK
  <2> QED
    BY <1>0, <1>3, <2>1, NoRowType, NoRowNames, ReplaceMoves DEF DeleteTx
<1>4. ASSUME NEW t \in Txs, NEW s \in Statuses, NEW scheduled \in BOOLEAN, SetStatus(t, s, scheduled)
      PROVE  DataInv' /\ DataMoves
  <2> DEFINE y == WithStatus(row[t], s)
  <2>1. y \in Row /\ Refs(y) = Refs(row[t])
    BY <1>0 DEF WithStatus, Row, Refs
  <2>2. Replace(t, row[t], y, scheduled) /\ row' = [row EXCEPT ![t] = y] /\ UNCHANGED <<account, limit, fate>>
    BY <1>4 DEF SetStatus
  <2>3. fate' \in [Txs -> {"unused", "live", "deleted", "cascaded"}]
    BY <2>2 DEF TypeOK
  <2> HIDE DEF y
  <2> QED
    BY <1>0, <2>1, <2>2, <2>3, ReplaceMoves
<1>5. ASSUME NEW t \in Txs, NEW x \in Drafts, Generate(t, x) PROVE DataInv' /\ DataMoves
  <2>1. Refs(x) \subseteq Born
    BY <1>5, LiveIsBorn DEF Generate
  <2>2. Live' = Live /\ Born' = Born
    BY <1>5 DEF Generate, Live, Born
  <2>3. TypeOK' /\ \A u \in Txs : Refs(row'[u]) \subseteq Born
    BY <1>5, <2>1 DEF Generate, TypeOK
  <2> QED
    BY <1>5, <2>2, <2>3 DEF Generate, DataMoves, Gap
<1>6. ASSUME NEW a \in Accounts, NEW b \in Openings \cup {0}, NEW l \in LimitChoices \cup {NoLimit}, OpenAccount(a, b, l)
      PROVE  DataInv' /\ DataMoves
  <2>1. b \in Int /\ l \in Limits
    BY DEF Limits
  <2>2. TypeOK'
    BY <1>6, <2>1 DEF OpenAccount, TypeOK
  <2>3. Born' = Born \cup {a} /\ a \notin Born /\ Live' = Live \cup {a}
    BY <1>6 DEF OpenAccount, Born, Live, TypeOK
  <2>4. \A c \in Accounts : c # a => balance'[c] = balance[c] /\ moved'[c] = moved[c]
    BY <1>6 DEF OpenAccount, TypeOK
  <2>5. balance'[a] = b /\ moved'[a] = moved[a] + b /\ moved[a] = 0 /\ balance[a] = 0
    BY <1>6, <2>3 DEF OpenAccount, TypeOK
  <2>6. \A c \in Accounts : Gap(c)' = Gap(c)
    BY <2>1, <2>4, <2>5 DEF Gap
  <2>7. \A u \in Txs : Refs(row'[u]) \subseteq Born'
    BY <1>6, <2>3 DEF OpenAccount
  <2> QED
    BY <2>2, <2>3, <2>4, <2>6, <2>7 DEF DataMoves
<1>7. ASSUME NEW a \in Accounts, NEW l \in LimitChoices \cup {NoLimit}, EditAccount(a, l)
      PROVE  DataInv' /\ DataMoves
  <2>1. l \in Limits
    BY DEF Limits
  <2>2. TypeOK'
    BY <1>7, <2>1 DEF EditAccount, TypeOK
  <2> QED
    BY <1>7, <2>2 DEF EditAccount, DataMoves, Gap, Live, Born
<1>8. ASSUME NEW a \in Accounts, DropAccount(a) PROVE DataInv' /\ DataMoves
  <2>1. Live' = Live \ {a} /\ Born' = Born
    BY <1>8 DEF DropAccount, Live, Born, TypeOK
  <2>2. \A t \in Txs : row'[t] \in Row /\ Refs(row'[t]) \subseteq Refs(row[t])
    <3> SUFFICES ASSUME NEW t \in Txs PROVE row'[t] \in Row /\ Refs(row'[t]) \subseteq Refs(row[t])
      OBVIOUS
    <3>1. row'[t] = row[t] \/ row'[t] = NoRow \/ row'[t] = [row[t] EXCEPT !.dest = NoAcc]
      BY <1>8 DEF DropAccount
    <3> QED
      BY <1>0, <3>1, NoRowType, NoRowNames DEF Row, Refs
  <2>3. TypeOK'
    BY <1>8, <2>2 DEF DropAccount, TypeOK
  <2> QED
    BY <1>8, <2>1, <2>2, <2>3 DEF DropAccount, DataMoves, Gap
<1> QED
  BY <1>1, <1>2, <1>3, <1>4, <1>5, <1>6, <1>7, <1>8 DEF Next


-----------------------------------------------------------------------------
(* Between its insert and its commit a run alone has an opening of the     *)
(* account, which is not covered; and once its check has passed, what the  *)
(* opening leaves unexplained is what escaped since.                       *)
AtWork(p) == pc[p] \in {"read", "insert", "check", "commit"}
Holds(p)  == pc[p] \in {"check", "commit"}

HoldsOpening(p) ==
  /\ Holds(p) => /\ current[p] \notin covered
                 /\ \A q \in Runs : Holds(q) /\ current[q] = current[p] => q = p
  /\ pc[p] = "commit" => Gap(current[p]) - opening[p] = late[current[p]]

(* A run loses no account of its list: it is covered, counted as failed,   *)
(* at work or still in the queue.                                          *)
Accounted(p) ==
  pc[p] # "idle" => listed[p] \cap Live \subseteq covered \cup queue[p] \cup {current[p]} \cup failed[p]

RunOK(p) ==
  /\ IF AtWork(p) THEN current[p] \in Accounts ELSE current[p] = NoAcc
  /\ pc[p] = "done" => queue[p] = {}
  /\ listed[p] \subseteq Born /\ queue[p] \subseteq Born /\ {current[p]} \ {NoAcc} \subseteq Born
  /\ Accounted(p)

LateInv ==
  /\ covered \subseteq Born
  /\ \A a \in Accounts \ Born : late[a] = 0
  /\ escapes = 0 => \A a \in Accounts : late[a] = 0
  /\ \A a \in covered : Gap(a) = late[a]

BackfillInv ==
  /\ DataInv /\ BackfillTypeOK /\ LateInv
  /\ \A p \in Runs : RunOK(p) /\ HoldsOpening(p)

LEMMA InitBackfillInv == BackfillInit => BackfillInv
<1> SUFFICES ASSUME BackfillInit PROVE BackfillInv
  OBVIOUS
<1> USE DEF BackfillInit
<1>1. TypeOK
  <2>1. row \in [Txs -> Row]
    BY NoRowType
  <2>2. limit \in [Accounts -> Limits]
    BY DEF Limits
  <2>3. balance \in [Accounts -> Int]
    <3>1. Openings \cup {0} \subseteq Int
      OBVIOUS
    <3>2. balance \in [Accounts -> Openings \cup {0}]
      OBVIOUS
    <3> HIDE DEF BackfillInit
    <3> QED
      BY <3>1, <3>2
  <2> QED
    BY <2>1, <2>2, <2>3 DEF TypeOK
<1>2. Born = Legacy
  BY DEF Born
<1>3. DataInv
  BY <1>1, <1>2, NoRowNames DEF DataInv
<1>4. BackfillTypeOK /\ LateInv
  BY <1>1 DEF BackfillTypeOK, LateInv
<1>5. \A p \in Runs : RunOK(p) /\ HoldsOpening(p)
  BY DEF RunOK, HoldsOpening, Accounted, AtWork, Holds
<1> QED
  BY <1>3, <1>4, <1>5 DEF BackfillInv

(* A step of run p alone.                                                  *)
Alone(p) ==
  \A q \in Runs \ {p} :
    /\ pc'[q] = pc[q] /\ listed'[q] = listed[q] /\ queue'[q] = queue[q]
    /\ current'[q] = current[q] /\ opening'[q] = opening[q] /\ failed'[q] = failed[q]

LEMMA OthersKeep ==
  ASSUME BackfillInv, NEW p \in Runs, Alone(p), account' = account, covered \subseteq covered',
         \A q \in Runs \ {p} : Holds(q) =>
           /\ current[q] \notin covered'
           /\ \A a \in Accounts : a = current[q] => Gap(a)' = Gap(a) /\ late'[a] = late[a]
           /\ ~(Holds(p)' /\ current'[p] = current[q])
  PROVE  \A q \in Runs \ {p} : RunOK(q)' /\ HoldsOpening(q)'
<1> SUFFICES ASSUME NEW q \in Runs \ {p} PROVE RunOK(q)' /\ HoldsOpening(q)'
  OBVIOUS
<1>1. Live' = Live /\ Born' = Born
  BY DEF Live, Born
<1>2. RunOK(q) /\ HoldsOpening(q)
  BY DEF BackfillInv
<1>3. RunOK(q)'
  BY <1>1, <1>2 DEF RunOK, AtWork, Accounted, Alone
<1>4. Holds(q)' => /\ current'[q] \notin covered'
                   /\ \A r \in Runs : Holds(r)' /\ current'[r] = current'[q] => r = q
  BY <1>2 DEF HoldsOpening, Holds, Alone
<1>5. (pc[q] = "commit" => Gap(current[q]) - opening[q] = late[current[q]])'
  <2> SUFFICES ASSUME pc'[q] = "commit" PROVE (Gap(current[q]) - opening[q] = late[current[q]])'
    OBVIOUS
  <2>1. pc[q] = "commit" /\ current'[q] = current[q] /\ opening'[q] = opening[q] /\ Holds(q)
    BY DEF Alone, Holds
  <2>2. PICK a \in Accounts : a = current[q]
    BY <1>2, <2>1 DEF RunOK, AtWork
  <2>3. Gap(a) - opening[q] = late[a]
    BY <1>2, <2>1, <2>2 DEF HoldsOpening
  <2>4. Gap(a)' = Gap(a) /\ late'[a] = late[a]
    BY <2>1, <2>2
  <2> QED
    BY <2>1, <2>2, <2>3, <2>4 DEF Gap
<1> QED
  BY <1>3, <1>4, <1>5 DEF HoldsOpening

(* Run p has no account at work any more, and nothing is written.          *)
LEMMA ReleaseKeeps ==
  ASSUME BackfillInv, NEW p \in Runs, Alone(p), UNCHANGED <<dataVars, covered, late, escapes>>,
         BackfillTypeOK',
         pc'[p] \in {"idle", "next", "done"}, current'[p] = NoAcc,
         pc'[p] = "done" => queue'[p] = {},
         listed'[p] \subseteq Born, queue'[p] \subseteq Born,
         pc'[p] # "idle" => listed'[p] \cap Live \subseteq covered \cup queue'[p] \cup failed'[p]
  PROVE  BackfillInv'
<1>1. Live' = Live /\ Born' = Born /\ \A a : Gap(a)' = Gap(a)
  BY DEF Live, Born, Gap, dataVars
<1>2. DataInv' /\ LateInv'
  BY <1>1 DEF BackfillInv, DataInv, LateInv, TypeOK, dataVars
<1>3. RunOK(p)' /\ HoldsOpening(p)' /\ ~Holds(p)'
  BY <1>1 DEF RunOK, AtWork, Accounted, HoldsOpening, Holds
<1>4. \A q \in Runs \ {p} : Holds(q) => current[q] \notin covered'
  BY DEF BackfillInv, HoldsOpening
<1>5. \A q \in Runs \ {p} : RunOK(q)' /\ HoldsOpening(q)'
  BY <1>1, <1>3, <1>4, OthersKeep DEF dataVars
<1> QED
  BY <1>2, <1>3, <1>5 DEF BackfillInv

LEMMA LeaveKeeps ==
  ASSUME BackfillInv, NEW p \in Runs, NEW outcome, Leave(p, outcome), UNCHANGED late, AtWork(p),
         outcome = "failed" \/ current[p] \notin Live \/ current[p] \in covered
  PROVE  BackfillInv'
<1>1. BackfillTypeOK /\ RunOK(p)
  BY DEF BackfillInv
<1>2. current[p] \in Accounts /\ pc[p] # "idle"
  BY <1>1 DEF RunOK, AtWork
<1>3. \/ failed' = failed /\ (current[p] \notin Live \/ current[p] \in covered)
      \/ failed' = [failed EXCEPT ![p] = @ \cup {current[p]}]
  BY DEF Leave
<1>4. failed' \in [Runs -> SUBSET Accounts] /\ failed[p] \subseteq failed'[p]
  BY <1>1, <1>2, <1>3 DEF BackfillTypeOK
<1>5. current[p] \in covered \/ current[p] \notin Live \/ current[p] \in failed'[p]
  BY <1>1, <1>3 DEF BackfillTypeOK
<1>6. \A q \in Runs \ {p} : failed'[q] = failed[q]
  BY <1>1, <1>3 DEF BackfillTypeOK
<1>7. Alone(p)
  BY <1>1, <1>6 DEF Alone, Leave, Goto, BackfillTypeOK
<1>8. BackfillTypeOK'
  BY <1>1, <1>4 DEF BackfillTypeOK, Leave, Goto, TypeOK, dataVars, bounds
<1>9. pc'[p] = "next" /\ current'[p] = NoAcc /\ listed'[p] = listed[p] /\ queue'[p] = queue[p]
  BY <1>1 DEF BackfillTypeOK, Leave, Goto
<1>10. listed[p] \cap Live \subseteq covered \cup queue[p] \cup failed'[p]
  BY <1>1, <1>2, <1>4, <1>5 DEF RunOK, Accounted
<1>11. UNCHANGED <<dataVars, covered, late, escapes>>
  BY DEF Leave, bounds
<1> QED
  BY <1>1, <1>7, <1>8, <1>9, <1>10, <1>11, ReleaseKeeps DEF RunOK

(* Each action of a run.                                                   *)
LEMMA StartKeeps == ASSUME BackfillInv, NEW p \in Runs, Start(p) PROVE BackfillInv'
<1>1. BackfillTypeOK /\ RunOK(p)
  BY DEF BackfillInv
<1>2. Alone(p)
  BY <1>1 DEF Alone, Start, Goto, BackfillTypeOK
<1>3. BackfillTypeOK'
  BY <1>1 DEF BackfillTypeOK, Start, Goto, TypeOK, dataVars, bounds, Live
<1>4. pc'[p] = "next" /\ current'[p] = NoAcc /\ listed'[p] = Live /\ queue'[p] = Live
  BY <1>1 DEF BackfillTypeOK, Start, Goto, RunOK, AtWork
<1>5. UNCHANGED <<dataVars, covered, late, escapes>>
  BY DEF Start, bounds
<1> QED
  BY <1>2, <1>3, <1>4, <1>5, LiveIsBorn, ReleaseKeeps

LEMMA FinishKeeps == ASSUME BackfillInv, NEW p \in Runs, Finish(p) PROVE BackfillInv'
<1>1. BackfillTypeOK /\ RunOK(p)
  BY DEF BackfillInv
<1>2. Alone(p)
  BY <1>1 DEF Alone, Finish, Goto, BackfillTypeOK
<1>3. BackfillTypeOK'
  BY <1>1 DEF BackfillTypeOK, Finish, Goto, TypeOK, dataVars, bounds
<1>4. /\ pc'[p] = "done" /\ listed'[p] = listed[p] /\ queue'[p] = queue[p] /\ failed'[p] = failed[p]
      /\ queue[p] = {} /\ pc[p] = "next" /\ current'[p] = current[p]
  BY <1>1 DEF BackfillTypeOK, Finish, Goto
<1>5. current[p] = NoAcc /\ NoAcc \notin Accounts /\ Live \subseteq Accounts
  BY <1>1, <1>4 DEF RunOK, AtWork, NoAcc, Live
<1>6. listed[p] \cap Live \subseteq covered \cup queue[p] \cup failed[p]
  BY <1>1, <1>4, <1>5 DEF RunOK, Accounted
<1>7. UNCHANGED <<dataVars, covered, late, escapes>>
  BY DEF Finish, bounds
<1> QED
  BY <1>1, <1>2, <1>3, <1>4, <1>5, <1>6, <1>7, ReleaseKeeps DEF RunOK

LEMMA DieKeeps == ASSUME BackfillInv, NEW p \in Runs, Die(p) PROVE BackfillInv'
<1>1. BackfillTypeOK /\ RunOK(p)
  BY DEF BackfillInv
<1>2. Alone(p)
  BY <1>1 DEF Alone, Die, Goto, BackfillTypeOK
<1>3. BackfillTypeOK'
  BY <1>1 DEF BackfillTypeOK, Die, Goto, TypeOK, dataVars, bounds
<1>4. pc'[p] = "idle" /\ current'[p] = NoAcc /\ listed'[p] = listed[p] /\ queue'[p] = {}
  BY <1>1 DEF BackfillTypeOK, Die, Goto
<1>5. UNCHANGED <<dataVars, covered, late, escapes>>
  BY DEF Die
<1> QED
  BY <1>1, <1>2, <1>3, <1>4, <1>5, ReleaseKeeps DEF RunOK

LEMMA FailsKeeps == ASSUME BackfillInv, NEW p \in Runs, Fails(p) PROVE BackfillInv'
<1>1. BackfillTypeOK /\ RunOK(p)
  BY DEF BackfillInv
<1>2. AtWork(p) /\ current[p] \in Accounts /\ pc[p] # "idle"
  BY <1>1 DEF RunOK, AtWork, Fails
<1>3. Alone(p)
  BY <1>1 DEF Alone, Fails, Goto, BackfillTypeOK
<1>4. BackfillTypeOK'
  BY <1>1, <1>2 DEF BackfillTypeOK, Fails, Goto, TypeOK, dataVars, bounds
<1>5. /\ pc'[p] = "next" /\ current'[p] = NoAcc /\ listed'[p] = listed[p] /\ queue'[p] = queue[p]
      /\ failed'[p] = failed[p] \cup {current[p]}
  BY <1>1 DEF BackfillTypeOK, Fails, Goto
<1>6. UNCHANGED <<dataVars, covered, late, escapes>>
  BY DEF Fails
<1> QED
  BY <1>1, <1>2, <1>3, <1>4, <1>5, <1>6, ReleaseKeeps DEF RunOK, Accounted

(* A run goes on with its account, and writes at most late.                *)
LEMMA GoesOnKeeps ==
  ASSUME BackfillInv, NEW p \in Runs, Alone(p), UNCHANGED <<dataVars, covered, escapes>>,
         BackfillTypeOK', AtWork(p)', current'[p] \in Born,
         listed'[p] = listed[p], queue'[p] \subseteq queue[p], failed'[p] = failed[p], pc[p] # "idle",
         queue[p] \cup {current[p]} \subseteq queue'[p] \cup {current'[p], NoAcc},
         Holds(p)' => /\ current'[p] \notin covered
                      /\ \A q \in Runs \ {p} : Holds(q) => current[q] # current'[p],
         \/ late' = late /\ pc'[p] # "commit"
         \/ /\ late' = [late EXCEPT ![current'[p]] = 0] /\ Holds(p)'
            /\ Gap(current'[p]) = opening'[p]
  PROVE  BackfillInv'
<1>0. BackfillTypeOK /\ RunOK(p) /\ DataInv /\ LateInv /\ BackfillTypeOK'
  BY DEF BackfillInv
<1>1. Live' = Live /\ Born' = Born /\ \A a \in Accounts : Gap(a)' = Gap(a)
  BY DEF Live, Born, Gap, dataVars
<1>2. NoAcc \notin Accounts /\ Born \subseteq Accounts /\ Live \subseteq Accounts
  BY DEF Born, Live, NoAcc
<1>b. PICK b \in Accounts : b = current'[p]
  BY <1>2
<1>3. b \in Born /\ b \in Accounts
  BY <1>b
<1>4. \A a \in Accounts : a # b => late'[a] = late[a]
  BY <1>0, <1>b DEF BackfillTypeOK
<1>5. late'[b] = late[b] \/ (late'[b] = 0 /\ b \notin covered)
  <2>1. late \in [Accounts -> Int]
    BY <1>0 DEF BackfillTypeOK
  <2>2. CASE late' = late
    BY <2>2
  <2>3. CASE late' = [late EXCEPT ![current'[p]] = 0] /\ Holds(p)'
    BY <1>b, <2>1, <2>3
  <2> QED
    BY <2>2, <2>3
<1>6. DataInv' /\ LateInv'
  <2>1. DataInv'
    <3>1. TypeOK'
      BY <1>0 DEF BackfillTypeOK
    <3>2. row' = row /\ balance' = balance /\ moved' = moved
      BY DEF dataVars
    <3> QED
      BY <1>0, <1>1, <3>1, <3>2 DEF DataInv
  <2>2. covered' = covered /\ covered \subseteq Accounts /\ escapes' = escapes
    BY <1>0 DEF BackfillTypeOK
  <2>3. \A a \in Accounts : late'[a] = late[a] \/ (late'[a] = 0 /\ a \notin covered)
    BY <1>4, <1>5
  <2>4. \A a \in covered : Gap(a)' = late'[a]
    BY <1>0, <1>1, <2>2, <2>3 DEF LateInv
  <2>5. \A a \in Accounts \ Born' : late'[a] = 0
    BY <1>0, <1>1, <2>3 DEF LateInv
  <2>6. escapes' = 0 => \A a \in Accounts : late'[a] = 0
    BY <1>0, <2>2, <2>3 DEF LateInv
  <2> QED
    BY <1>0, <1>1, <2>1, <2>2, <2>4, <2>5, <2>6 DEF LateInv
<1>7. RunOK(p)'
  <2>1. pc'[p] # "done" /\ {current'[p]} \ {NoAcc} \subseteq Born
    BY DEF AtWork
  <2>2. listed[p] \cap Live \subseteq covered \cup queue'[p] \cup {current'[p]} \cup failed'[p]
    BY <1>0, <1>2 DEF RunOK, Accounted
  <2> QED
    BY <1>0, <1>1, <1>3, <2>1, <2>2, <1>b DEF RunOK, Accounted
<1>8. HoldsOpening(p)'
  <2>1. Holds(p)' => /\ current'[p] \notin covered'
                     /\ \A q \in Runs : Holds(q)' /\ current'[q] = current'[p] => q = p
    BY DEF Holds, Alone
  <2>2. (pc[p] = "commit" => Gap(current[p]) - opening[p] = late[current[p]])'
    <3> SUFFICES ASSUME pc'[p] = "commit" PROVE (Gap(current[p]) - opening[p] = late[current[p]])'
      OBVIOUS
    <3>1. late'[b] = 0
      BY <1>0, <1>b DEF BackfillTypeOK
    <3>2. Gap(b) = opening'[p] /\ Gap(b)' = Gap(b) /\ opening'[p] \in Int
      BY <1>0, <1>1, <1>b DEF BackfillTypeOK
    <3>3. balance'[b] - moved'[b] = opening'[p]
      BY <3>2 DEF Gap
    <3>4. balance'[b] - moved'[b] - opening'[p] = 0
      BY <3>2, <3>3
    <3> QED
      BY <3>1, <3>4, <1>b DEF Gap
  <2> QED
    BY <2>1, <2>2 DEF HoldsOpening
<1>9. \A q \in Runs \ {p} : Holds(q) =>
        /\ current[q] \notin covered'
        /\ \A a \in Accounts : a = current[q] => Gap(a)' = Gap(a) /\ late'[a] = late[a]
        /\ ~(Holds(p)' /\ current'[p] = current[q])
  <2> SUFFICES ASSUME NEW q \in Runs \ {p}, Holds(q)
               PROVE  /\ current[q] \notin covered'
                      /\ \A a \in Accounts : a = current[q] => Gap(a)' = Gap(a) /\ late'[a] = late[a]
                      /\ ~(Holds(p)' /\ current'[p] = current[q])
    OBVIOUS
  <2>1. current[q] \notin covered
    BY DEF BackfillInv, HoldsOpening
  <2>2. late' = late \/ current[q] # b
    BY <1>b
  <2> QED
    BY <1>1, <1>4, <1>b, <2>1, <2>2
<1>10. \A q \in Runs \ {p} : RunOK(q)' /\ HoldsOpening(q)'
  BY <1>9, OthersKeep DEF dataVars
<1> QED
  BY <1>0, <1>6, <1>7, <1>8, <1>10 DEF BackfillInv


LEMMA TakeKeeps == ASSUME BackfillInv, NEW p \in Runs, Take(p) PROVE BackfillInv'
<1>1. BackfillTypeOK /\ RunOK(p)
  BY DEF BackfillInv
<1>2. PICK a \in queue[p] : /\ queue' = [queue EXCEPT ![p] = @ \ {a}]
                            /\ current' = [current EXCEPT ![p] = a]
  BY DEF Take
<1>3. a \in Born /\ a \in Accounts /\ pc[p] = "next" /\ current[p] = NoAcc
  BY <1>1, <1>2 DEF RunOK, AtWork, Born, Take
<1>4. Alone(p)
  BY <1>1, <1>2 DEF Alone, Take, Goto, BackfillTypeOK
<1>5. BackfillTypeOK'
  BY <1>1, <1>2, <1>3 DEF BackfillTypeOK, Take, Goto, TypeOK, dataVars, bounds
<1>6. /\ pc'[p] = "read" /\ current'[p] = a /\ queue'[p] = queue[p] \ {a}
      /\ listed'[p] = listed[p] /\ failed'[p] = failed[p]
      /\ UNCHANGED <<dataVars, covered, late, escapes>>
  BY <1>1, <1>2 DEF BackfillTypeOK, Take, Goto, bounds
<1>7. AtWork(p)' /\ ~Holds(p)'
  BY <1>6 DEF AtWork, Holds
<1> QED
  BY <1>3, <1>4, <1>5, <1>6, <1>7, GoesOnKeeps

LEMMA ReadKeeps == ASSUME BackfillInv, NEW p \in Runs, Read(p) PROVE BackfillInv'
<1>1. BackfillTypeOK /\ RunOK(p) /\ pc[p] = "read" /\ AtWork(p)
  BY DEF BackfillInv, Read, AtWork
<1>2. CASE \/ current[p] \notin Live /\ Leave(p, "failed")
           \/ HasOpening(current[p]) /\ Leave(p, "already-covered")
  BY <1>1, <1>2, LeaveKeeps DEF Read, HasOpening
<1>3. CASE /\ current[p] \in Live
           /\ opening' = [opening EXCEPT ![p] = Gap(current[p])]
           /\ Goto(p, "insert")
           /\ UNCHANGED <<dataVars, covered, bounds, listed, queue, current, failed>>
  <2>1. current[p] \in Accounts /\ Gap(current[p]) \in Int
    <3>1. current[p] \in Accounts
      BY <1>3 DEF Live
    <3>2. balance[current[p]] \in Int /\ moved[current[p]] \in Int
      BY <1>1, <3>1 DEF BackfillTypeOK, TypeOK
    <3> QED
      BY <3>1, <3>2 DEF Gap
  <2>2. Alone(p)
    BY <1>1, <1>3 DEF Alone, Goto, BackfillTypeOK
  <2>3. BackfillTypeOK'
    <3>1. TypeOK' /\ opening' \in [Runs -> Int]
      BY <1>1, <1>3, <2>1 DEF BackfillTypeOK, TypeOK, dataVars
    <3>2. pc' \in [Runs -> {"idle", "next", "read", "insert", "check", "commit", "done"}]
      BY <1>1, <1>3 DEF BackfillTypeOK, Goto
    <3> QED
      BY <1>1, <1>3, <3>1, <3>2 DEF BackfillTypeOK, Read, bounds
  <2>4. /\ pc'[p] = "insert" /\ current'[p] = current[p] /\ queue'[p] = queue[p]
        /\ listed'[p] = listed[p] /\ failed'[p] = failed[p]
        /\ UNCHANGED <<dataVars, covered, late, escapes>>
    BY <1>1, <1>3 DEF BackfillTypeOK, Read, Goto, bounds
  <2>5. AtWork(p)' /\ ~Holds(p)'
    BY <2>4 DEF AtWork, Holds
  <2>6. current[p] \in Born
    BY <1>3, LiveIsBorn
  <2> QED
    BY <1>1, <2>2, <2>3, <2>4, <2>5, <2>6, GoesOnKeeps
<1> QED
  BY <1>2, <1>3 DEF Read

LEMMA InsertKeeps == ASSUME BackfillInv, NEW p \in Runs, Insert(p) PROVE BackfillInv'
<1>1. BackfillTypeOK /\ RunOK(p) /\ pc[p] = "insert" /\ AtWork(p)
  BY DEF BackfillInv, Insert, AtWork
<1>2. CASE HasOpening(current[p]) /\ Leave(p, "already-covered")
  BY <1>1, <1>2, LeaveKeeps DEF Insert, HasOpening
<1>3. CASE /\ ~HasOpening(current[p])
           /\ Goto(p, "check")
           /\ UNCHANGED <<dataVars, covered, bounds, listed, queue, current, opening, failed>>
  <2>1. current[p] \in Born
    BY <1>1 DEF RunOK, NoAcc
  <2>2. Alone(p)
    BY <1>1, <1>3 DEF Alone, Goto, BackfillTypeOK
  <2>3. BackfillTypeOK'
    BY <1>1, <1>3, <2>1 DEF BackfillTypeOK, Insert, Goto, TypeOK, dataVars, bounds
  <2>4. /\ pc'[p] = "check" /\ current'[p] = current[p] /\ queue'[p] = queue[p]
        /\ listed'[p] = listed[p] /\ failed'[p] = failed[p]
        /\ UNCHANGED <<dataVars, covered, late, escapes>>
    BY <1>1, <1>3 DEF BackfillTypeOK, Insert, Goto, bounds
  <2>5. AtWork(p)'
    BY <2>4 DEF AtWork
  <2>6. \A q \in Runs : Holds(q) => current[q] # current[p]
    BY DEF Insert, Pending, Holds
  <2>7. current[p] \notin covered
    BY <1>3 DEF HasOpening
  <2> QED
    BY <1>1, <2>1, <2>2, <2>3, <2>4, <2>5, <2>6, <2>7, GoesOnKeeps
<1> QED
  BY <1>2, <1>3 DEF Insert

LEMMA CheckKeeps == ASSUME BackfillInv, NEW p \in Runs, Check(p) PROVE BackfillInv'
<1>1. BackfillTypeOK /\ RunOK(p) /\ HoldsOpening(p) /\ pc[p] = "check" /\ AtWork(p) /\ Holds(p)
  BY DEF BackfillInv, Check, AtWork, Holds
<1>2. CASE Leave(p, "failed") /\ UNCHANGED late
  BY <1>1, <1>2, LeaveKeeps
<1>3. CASE /\ Matches(p)
           /\ late' = [late EXCEPT ![current[p]] = 0]
           /\ Goto(p, "commit")
           /\ UNCHANGED <<dataVars, covered, bounds, listed, queue, current, opening, failed>>
  <2>1. current[p] \in Born /\ current[p] \in Accounts
    BY <1>1 DEF RunOK, NoAcc, Born
  <2>2. Alone(p)
    BY <1>1, <1>3 DEF Alone, Goto, BackfillTypeOK
  <2>3. BackfillTypeOK'
    BY <1>1, <1>3, <2>1 DEF BackfillTypeOK, Goto, TypeOK, dataVars, bounds
  <2>4. /\ pc'[p] = "commit" /\ current'[p] = current[p] /\ queue'[p] = queue[p]
        /\ listed'[p] = listed[p] /\ failed'[p] = failed[p] /\ opening'[p] = opening[p]
        /\ late' = [late EXCEPT ![current'[p]] = 0]
        /\ UNCHANGED <<dataVars, covered, escapes>>
    BY <1>1, <1>3 DEF BackfillTypeOK, Goto, bounds
  <2>5. AtWork(p)' /\ Holds(p)'
    BY <2>4 DEF AtWork, Holds
  <2>6. \A q \in Runs \ {p} : Holds(q) => current[q] # current[p]
    BY <1>1 DEF HoldsOpening
  <2>7. current[p] \notin covered
    BY <1>1 DEF HoldsOpening
  <2>8. Gap(current[p]) = opening[p]
    <3>1. balance[current[p]] \in Int /\ moved[current[p]] \in Int /\ opening[p] \in Int
      BY <1>1, <2>1 DEF BackfillTypeOK, TypeOK
    <3> QED
      BY <1>3, <3>1 DEF Matches, Gap
  <2> QED
    BY <1>1, <2>1, <2>2, <2>3, <2>4, <2>5, <2>6, <2>7, <2>8, GoesOnKeeps
<1> QED
  BY <1>2, <1>3 DEF Check

LEMMA CommitKeeps == ASSUME BackfillInv, NEW p \in Runs, Commit(p) PROVE BackfillInv'
<1>1. BackfillTypeOK /\ DataInv /\ LateInv /\ RunOK(p) /\ HoldsOpening(p)
  BY DEF BackfillInv
<1>2. pc[p] = "commit" /\ AtWork(p) /\ Holds(p)
  BY DEF Commit, AtWork, Holds
<1>3. PICK a \in Accounts : a = current[p]
  BY <1>1, <1>2 DEF RunOK
<1>4. a \in Born /\ a \notin covered
  BY <1>1, <1>2, <1>3 DEF RunOK, HoldsOpening, NoAcc
<1>5. Alone(p)
  BY <1>1 DEF Alone, Commit, Goto, BackfillTypeOK
<1>6. moved' = [moved EXCEPT ![a] = @ + opening[p]] /\ covered' = covered \cup {a}
  BY <1>3 DEF Commit
<1>7. opening[p] \in Int /\ balance[a] \in Int /\ moved[a] \in Int /\ late[a] \in Int /\ moved \in [Accounts -> Int]
  BY <1>1 DEF BackfillTypeOK, TypeOK
<1>8. moved' \in [Accounts -> Int] /\ moved'[a] = moved[a] + opening[p]
      /\ \A c \in Accounts \ {a} : moved'[c] = moved[c]
  BY <1>6, <1>7
<1>9. /\ UNCHANGED <<account, balance, limit, fate, row, net, late, escapes, faults>>
      /\ Live' = Live /\ Born' = Born
  BY DEF Commit, bounds, Live, Born
<1>10. BackfillTypeOK'
  <2>1. TypeOK'
    BY <1>1, <1>8, <1>9 DEF BackfillTypeOK, TypeOK
  <2> QED
    <3>1. pc' = [pc EXCEPT ![p] = "next"] /\ current' = [current EXCEPT ![p] = NoAcc]
          /\ opening' = [opening EXCEPT ![p] = 0] /\ UNCHANGED <<listed, queue, failed>>
      BY DEF Commit, Goto
    <3>2. covered' \subseteq Accounts
      BY <1>1, <1>3, <1>6 DEF BackfillTypeOK
    <3> QED
      BY <1>1, <1>9, <2>1, <3>1, <3>2 DEF BackfillTypeOK
<1>11. /\ \A c \in Accounts \ {a} : Gap(c)' = Gap(c)
       /\ Gap(a)' = late[a]
  <2>1. Gap(a) - opening[p] = late[a]
    BY <1>1, <1>2, <1>3 DEF HoldsOpening
  <2>2. Gap(a)' = balance[a] - (moved[a] + opening[p])
    BY <1>8, <1>9 DEF Gap
  <2> QED
    BY <1>7, <1>8, <1>9, <2>1, <2>2 DEF Gap
<1>12. DataInv'
  <2>1. TypeOK'
    BY <1>10 DEF BackfillTypeOK
  <2>2. \A c \in Accounts \ Born' : balance'[c] = 0 /\ moved'[c] = 0
    BY <1>1, <1>4, <1>8, <1>9 DEF DataInv
  <2> QED
    BY <1>1, <1>9, <2>1, <2>2 DEF DataInv
<1>13. LateInv'
  <2>1. covered \subseteq Accounts
    BY <1>1 DEF BackfillTypeOK
  <2>2. \A c \in covered' : Gap(c)' = late'[c]
    BY <1>1, <1>6, <1>9, <1>11, <2>1 DEF LateInv
  <2> QED
    BY <1>1, <1>4, <1>6, <1>9, <2>2 DEF LateInv
<1>14. /\ pc'[p] = "next" /\ current'[p] = NoAcc /\ queue'[p] = queue[p]
       /\ listed'[p] = listed[p] /\ failed'[p] = failed[p]
  BY <1>1 DEF BackfillTypeOK, Commit, Goto
<1>15. RunOK(p)'
  <2>1. listed[p] \cap Live \subseteq covered' \cup queue[p] \cup failed[p]
    BY <1>1, <1>2, <1>3, <1>6 DEF RunOK, Accounted
  <2>2. listed[p] \subseteq Born /\ queue[p] \subseteq Born
    BY <1>1 DEF RunOK
  <2> QED
    BY <1>9, <1>14, <2>1, <2>2 DEF RunOK, Accounted, AtWork
<1>16. HoldsOpening(p)' /\ ~Holds(p)'
  BY <1>14 DEF HoldsOpening, Holds
<1>17. \A q \in Runs \ {p} : Holds(q) =>
         /\ current[q] \notin covered'
         /\ \A c \in Accounts : c = current[q] => Gap(c)' = Gap(c) /\ late'[c] = late[c]
         /\ ~(Holds(p)' /\ current'[p] = current[q])
  <2> SUFFICES ASSUME NEW q \in Runs \ {p}, Holds(q)
               PROVE  /\ current[q] \notin covered'
                      /\ \A c \in Accounts : c = current[q] => Gap(c)' = Gap(c) /\ late'[c] = late[c]
    BY <1>16
  <2>1. current[q] \notin covered
    BY DEF BackfillInv, HoldsOpening
  <2>2. current[q] # a
    BY <1>1, <1>2, <1>3 DEF HoldsOpening
  <2> QED
    BY <1>6, <1>9, <1>11, <2>1, <2>2
<1>18. \A q \in Runs \ {p} : RunOK(q)' /\ HoldsOpening(q)'
  BY <1>5, <1>6, <1>9, <1>17, OthersKeep
<1> QED
  BY <1>10, <1>12, <1>13, <1>15, <1>16, <1>18 DEF BackfillInv


LEMMA EscapeKeeps ==
  ASSUME BackfillInv, NEW a \in Accounts, NEW d \in Escapes, Escape(a, d)
  PROVE  BackfillInv'
<1>1. BackfillTypeOK /\ DataInv /\ LateInv
  BY DEF BackfillInv
<1>2. d \in Int /\ balance[a] \in Int /\ moved[a] \in Int /\ late[a] \in Int
      /\ balance \in [Accounts -> Int] /\ late \in [Accounts -> Int] /\ moved \in [Accounts -> Int]
  BY <1>1 DEF BackfillTypeOK, TypeOK
<1>3. /\ balance' = [balance EXCEPT ![a] = @ + d] /\ late' = [late EXCEPT ![a] = @ + d]
      /\ UNCHANGED <<account, limit, fate, row, moved, net, covered, faults>>
      /\ UNCHANGED <<pc, listed, queue, current, opening, failed>>
      /\ escapes' = escapes + 1 /\ a \in Live
  BY DEF Escape, locals
<1>4. balance' \in [Accounts -> Int] /\ late' \in [Accounts -> Int]
      /\ balance'[a] = balance[a] + d /\ late'[a] = late[a] + d
      /\ \A c \in Accounts \ {a} : balance'[c] = balance[c] /\ late'[c] = late[c]
  BY <1>2, <1>3
<1>5. Live' = Live /\ Born' = Born /\ a \in Born
  BY <1>3, LiveIsBorn DEF Live, Born
<1>6. \A c \in Accounts : /\ Gap(c)' - late'[c] = Gap(c) - late[c]
                          /\ c # a => Gap(c)' = Gap(c)
                          /\ Gap(c) \in Int /\ late[c] \in Int /\ Gap(c)' \in Int /\ late'[c] \in Int
  <2> SUFFICES ASSUME NEW c \in Accounts
               PROVE  /\ Gap(c)' - late'[c] = Gap(c) - late[c]
                      /\ c # a => Gap(c)' = Gap(c)
                      /\ Gap(c) \in Int /\ late[c] \in Int /\ Gap(c)' \in Int /\ late'[c] \in Int
    OBVIOUS
  <2>1. balance[c] \in Int /\ moved[c] \in Int /\ late[c] \in Int /\ balance'[c] \in Int /\ moved'[c] = moved[c]
    BY <1>2, <1>3, <1>4
  <2>2. CASE c = a
    BY <1>2, <1>3, <1>4, <2>1, <2>2 DEF Gap
  <2>3. CASE c # a
    BY <1>4, <2>1, <2>3 DEF Gap
  <2> QED
    BY <2>2, <2>3
<1>7. BackfillTypeOK' /\ TypeOK' /\ escapes' # 0
  <2>1. TypeOK'
    BY <1>1, <1>3, <1>4 DEF BackfillTypeOK, TypeOK
  <2> QED
    BY <1>1, <1>3, <1>4, <2>1 DEF BackfillTypeOK
<1>8. DataInv'
  BY <1>1, <1>3, <1>4, <1>5, <1>7 DEF DataInv
<1>9. LateInv'
  <2>1. \A c \in covered : Gap(c)' = late'[c]
    BY <1>1, <1>6 DEF LateInv, BackfillTypeOK
  <2> QED
    BY <1>1, <1>3, <1>4, <1>5, <1>7, <2>1 DEF LateInv
<1>10. ASSUME NEW p \in Runs PROVE RunOK(p)' /\ HoldsOpening(p)'
  <2>1. RunOK(p) /\ HoldsOpening(p)
    BY DEF BackfillInv
  <2>2. RunOK(p)'
    BY <1>3, <1>5, <2>1 DEF RunOK, AtWork, Accounted
  <2>3. (pc[p] = "commit" => Gap(current[p]) - opening[p] = late[current[p]])'
    <3> SUFFICES ASSUME pc'[p] = "commit" PROVE (Gap(current[p]) - opening[p] = late[current[p]])'
      OBVIOUS
    <3>1. PICK c \in Accounts : c = current[p]
      BY <1>3, <2>1 DEF RunOK, AtWork
    <3>2. opening[p] \in Int /\ Gap(c) - opening[p] = late[c] /\ c = current'[p] /\ opening'[p] = opening[p]
      BY <1>1, <1>3, <2>1, <3>1 DEF HoldsOpening, BackfillTypeOK
    <3>3. Gap(c)' - opening'[p] = late'[c]
      BY <1>6, <3>1, <3>2
    <3> QED
      BY <3>2, <3>3 DEF Gap
  <2>4. Holds(p)' => /\ current'[p] \notin covered'
                     /\ \A q \in Runs : Holds(q)' /\ current'[q] = current'[p] => q = p
    BY <1>3, <2>1 DEF HoldsOpening, Holds
  <2> QED
    BY <2>2, <2>3, <2>4 DEF HoldsOpening
<1> QED
  BY <1>7, <1>8, <1>9, <1>10 DEF BackfillInv

LEMMA TrafficKeeps == ASSUME BackfillInv, Traffic PROVE BackfillInv'
<1>1. BackfillTypeOK /\ DataInv /\ LateInv
  BY DEF BackfillInv
<1>2. DataInv' /\ DataMoves
  BY <1>1, NextMoves DEF Traffic
<1>3. /\ covered' = covered \cup (Live' \ Live)
      /\ UNCHANGED <<late, escapes, faults>> /\ UNCHANGED <<pc, listed, queue, current, opening, failed>>
  BY DEF Traffic, bounds, locals
<1>4. Live \subseteq Accounts /\ Live' \subseteq Accounts /\ Live' \subseteq Born' /\ Born' \subseteq Accounts
  BY DEF Live, Born
<1>5. Born \subseteq Born' /\ Live' \ Live \subseteq Accounts \ Born
  BY <1>2, <1>4 DEF DataMoves
<1>6. BackfillTypeOK'
  BY <1>1, <1>2, <1>3, <1>4 DEF BackfillTypeOK, DataInv
<1>7. LateInv'
  <2>1. \A a \in Accounts \ Born : Gap(a) = 0 /\ late[a] = 0
    <3> SUFFICES ASSUME NEW a \in Accounts \ Born PROVE Gap(a) = 0 /\ late[a] = 0
      OBVIOUS
    <3>1. balance[a] = 0 /\ moved[a] = 0 /\ late[a] = 0
      BY <1>1 DEF DataInv, LateInv
    <3> QED
      BY <3>1 DEF Gap
  <2>2. \A a \in covered' : Gap(a)' = late'[a]
    BY <1>1, <1>2, <1>3, <1>5, <2>1 DEF LateInv, DataMoves, BackfillTypeOK
  <2> QED
    BY <1>1, <1>3, <1>4, <1>5, <2>2 DEF LateInv
<1>8. ASSUME NEW p \in Runs PROVE RunOK(p)' /\ HoldsOpening(p)'
  <2>1. RunOK(p) /\ HoldsOpening(p)
    BY DEF BackfillInv
  <2>2. RunOK(p)'
    <3>1. Accounted(p)'
      BY <1>3, <1>5, <2>1 DEF Accounted, RunOK
    <3> QED
      BY <1>3, <1>5, <2>1, <3>1 DEF RunOK, AtWork
  <2>3. (pc[p] = "commit" => Gap(current[p]) - opening[p] = late[current[p]])'
    <3> SUFFICES ASSUME pc'[p] = "commit" PROVE (Gap(current[p]) - opening[p] = late[current[p]])'
      OBVIOUS
    <3>1. PICK c \in Accounts : c = current[p]
      BY <1>3, <2>1 DEF RunOK, AtWork
    <3>2. Gap(c) - opening[p] = late[c] /\ c = current'[p] /\ opening'[p] = opening[p]
      BY <1>3, <2>1, <3>1 DEF HoldsOpening
    <3>3. Gap(c)' - opening'[p] = late'[c]
      BY <1>2, <1>3, <3>1, <3>2 DEF DataMoves
    <3> QED
      BY <3>2, <3>3 DEF Gap
  <2>4. Holds(p) => current[p] \notin covered' /\ current[p] \in Born
    BY <1>5, <1>3, <2>1 DEF HoldsOpening, RunOK, AtWork, Holds, NoAcc
  <2> QED
    BY <1>3, <2>1, <2>2, <2>3, <2>4 DEF HoldsOpening, Holds
<1> QED
  BY <1>2, <1>6, <1>7, <1>8 DEF BackfillInv

LEMMA NextBackfillInv == BackfillInv /\ [BackfillNext]_allVars => BackfillInv'
<1> SUFFICES ASSUME BackfillInv, [BackfillNext]_allVars PROVE BackfillInv'
  OBVIOUS
<1>1. CASE Traffic
  BY <1>1, TrafficKeeps
<1>2. ASSUME NEW a \in Accounts, NEW d \in Escapes, Escape(a, d) PROVE BackfillInv'
  BY <1>2, EscapeKeeps
<1>3. ASSUME NEW p \in Runs, Start(p) \/ Fails(p) \/ Die(p) PROVE BackfillInv'
  BY <1>3, StartKeeps, FailsKeeps, DieKeeps
<1>4. ASSUME NEW p \in Runs, Step(p) PROVE BackfillInv'
  BY <1>4, TakeKeeps, ReadKeeps, InsertKeeps, CheckKeeps, CommitKeeps, FinishKeeps DEF Step
<1>5. CASE UNCHANGED allVars
  <2>1. UNCHANGED <<account, balance, limit, fate, row, moved, net>>
    BY <1>5 DEF allVars, dataVars
  <2>2. UNCHANGED <<covered, late, escapes, faults, pc, listed, queue, current, opening, failed>>
    BY <1>5 DEF allVars, bounds, locals
  <2>3. DataInv' = DataInv /\ BackfillTypeOK' = BackfillTypeOK
    BY <2>1, <2>2 DEF DataInv, BackfillTypeOK, TypeOK, Born
  <2>4. LateInv' = LateInv
    BY <2>1, <2>2 DEF LateInv, Born, Gap
  <2>5. \A p \in Runs : RunOK(p)' = RunOK(p) /\ HoldsOpening(p)' = HoldsOpening(p)
    BY <2>1, <2>2 DEF RunOK, HoldsOpening, AtWork, Holds, Accounted, Gap, Born, Live
  <2> QED
    BY <2>3, <2>4, <2>5 DEF BackfillInv
<1> QED
  BY <1>1, <1>2, <1>3, <1>4, <1>5 DEF BackfillNext

(* Every variable keeps its type.                                          *)
THEOREM BackfillTypeCorrect == BackfillSpec => []BackfillTypeOK
<1>1. BackfillInv => BackfillTypeOK
  BY DEF BackfillInv
<1> QED
  BY <1>1, InitBackfillInv, NextBackfillInv, PTL DEF BackfillSpec

(* What the reconciliation job finds of an account with an opening is what *)
(* was written around the ledger since the script checked it: for any      *)
(* accounts, runs of the script at once, failures and traffic beside them. *)
THEOREM DriftHasEscaped == BackfillSpec => []DriftIsEscape
<1>1. BackfillInv => DriftIsEscape
  BY DEF BackfillInv, LateInv, DriftIsEscape
<1> QED
  BY <1>1, InitBackfillInv, NextBackfillInv, PTL DEF BackfillSpec

(* A run that ends without a failed account has covered its list.          *)
THEOREM CleanRunHasCovered == BackfillSpec => []CleanRunCovers
<1>1. BackfillInv => CleanRunCovers
  <2> SUFFICES ASSUME BackfillInv, NEW p \in Runs, pc[p] = "done", failed[p] = {}
               PROVE  listed[p] \cap Live \subseteq covered
    BY DEF CleanRunCovers
  <2>1. RunOK(p) /\ Live \subseteq Accounts /\ NoAcc \notin Accounts
    BY DEF BackfillInv, Live, NoAcc
  <2> QED
    BY <2>1 DEF RunOK, Accounted, AtWork
<1> QED
  BY <1>1, InitBackfillInv, NextBackfillInv, PTL DEF BackfillSpec


-----------------------------------------------------------------------------
(* The refinement: AtomicLedger with the missing openings counted in.  Its *)
(* rules are those of the ledger.                                          *)
LEMMA SameNames ==
  /\ AsIfOpened!NoAcc = NoAcc /\ AsIfOpened!NoLimit = NoLimit /\ AsIfOpened!NoRow = NoRow
  /\ AsIfOpened!Statuses = Statuses /\ AsIfOpened!Blocked = Blocked /\ AsIfOpened!Live = Live
BY DEF AsIfOpened!NoAcc, AsIfOpened!NoLimit, AsIfOpened!NoRow, AsIfOpened!Statuses, AsIfOpened!Blocked,
       NoAcc, NoLimit, NoRow, Statuses, Blocked, AsIfOpened!Live, Live

LEMMA SameCard == \A a : AsIfOpened!IsCard(a) <=> IsCard(a)
BY DEF AsIfOpened!IsCard, IsCard

LEMMA SameEffect == \A x, a : AsIfOpened!Effect(x, a) = Effect(x, a)
BY DEF AsIfOpened!Effect, Effect, AsIfOpened!Credited, Credited, AsIfOpened!Debited, Debited,
       AsIfOpened!IsCard, IsCard

LEMMA SameDelta == \A x, y, a : AsIfOpened!Delta(x, y, a) = Delta(x, y, a)
BY SameEffect DEF AsIfOpened!Delta, Delta

LEMMA SameAdmits ==
  ASSUME NEW a, NEW bal, NEW lim, NEW x, NEW y, NEW scheduled, Admits(a, bal, lim, x, y, scheduled)
  PROVE  AsIfOpened!Admits(a, bal, lim, x, y, scheduled)
<1>1. AsIfOpened!Effect(x, a) = Effect(x, a) /\ AsIfOpened!Effect(y, a) = Effect(y, a)
  BY SameEffect
<1>2. \A b, d : Accepts(a, b, lim, d, scheduled) => AsIfOpened!Accepts(a, b, lim, d, scheduled)
  BY SameNames, SameCard DEF Accepts, AsIfOpened!Accepts
<1> QED
  BY <1>1, <1>2 DEF Admits, AsIfOpened!Admits

LEMMA SameRules ==
  ASSUME NEW x
  PROVE  /\ AsIfOpened!Refs(x) = Refs(x)
         /\ Creatable(x) => AsIfOpened!Creatable(x)
         /\ PlainRow(x) => AsIfOpened!PlainRow(x)
         /\ Occurrence(x) => AsIfOpened!Occurrence(x)
<1>1. AsIfOpened!Refs(x) = Refs(x)
  BY SameNames DEF AsIfOpened!Refs, Refs
<1>2. WellFormed(x) => AsIfOpened!WellFormed(x)
  BY SameNames DEF WellFormed, AsIfOpened!WellFormed
<1>3. PlainRow(x) => AsIfOpened!PlainRow(x)
  BY <1>2, SameCard DEF PlainRow, AsIfOpened!PlainRow
<1>4. Occurrence(x) => AsIfOpened!Occurrence(x)
  BY <1>3 DEF Occurrence, AsIfOpened!Occurrence
<1>5. Creatable(x) => AsIfOpened!Creatable(x)
  BY <1>2, <1>3, SameNames, SameCard
     DEF Creatable, AsIfOpened!Creatable, InvoicePayment, AsIfOpened!InvoicePayment,
         FirstInstallment, AsIfOpened!FirstInstallment
<1> QED
  BY <1>1, <1>3, <1>4, <1>5

LEMMA ReplaceExplained ==
  ASSUME BackfillInv, NEW t \in Txs, NEW old \in Row, NEW new \in Row, NEW scheduled,
         Replace(t, old, new, scheduled), covered' = covered
  PROVE  AsIfOpened!Replace(t, old, new, scheduled)
<1>1. Explained' = [a \in Accounts |-> Explained[a] + Delta(old, new, a)]
  <2>1. \A a \in Accounts : /\ balance'[a] = balance[a] + Delta(old, new, a)
                            /\ moved'[a] = moved[a] + Delta(old, new, a)
    BY DEF Replace
  <2> QED
    BY <2>1 DEF Explained
<1>2. \A a \in Accounts : AsIfOpened!Admits(a, balance[a], limit[a], old, new, scheduled)
  BY SameAdmits DEF Replace
<1>3. \A a : AsIfOpened!Delta(old, new, a) = Delta(old, new, a)
  BY SameDelta
<1> QED
  BY <1>1, <1>2, <1>3 DEF Replace, AsIfOpened!Replace

LEMMA TrafficAsIfOpened == ASSUME BackfillInv, Traffic PROVE AsIfOpened!Next
<1>0. DataInv /\ TypeOK /\ LateInv /\ \A t \in Txs : row[t] \in Row
  BY DEF BackfillInv, DataInv, TypeOK
<1>1. covered' = covered \cup (Live' \ Live)
  BY DEF Traffic
<1>2. account' = account => covered' = covered
  BY <1>1 DEF Live
<1>3. \A x : AsIfOpened!Refs(x) = Refs(x)
  BY SameRules
<1>4. ASSUME NEW t \in Txs, NEW x \in Drafts, CreateTx(t, x) PROVE AsIfOpened!Next
  <2>1. AsIfOpened!Replace(t, NoRow, x, FALSE)
    BY <1>2, <1>4, NoRowType, ReplaceExplained DEF CreateTx
  <2>2. AsIfOpened!CreateTx(t, x)
    BY <1>4, <2>1, SameNames, SameRules DEF CreateTx, AsIfOpened!CreateTx
  <2> QED
    BY <2>2 DEF AsIfOpened!Next
<1>5. ASSUME NEW t \in Txs, NEW x \in Drafts, UpdateTx(t, x) PROVE AsIfOpened!Next
  <2> DEFINE y == Edited(row[t], x)
  <2>1. y \in Row /\ AsIfOpened!Edited(row[t], x) = y
    BY <1>0 DEF Edited, Row, AsIfOpened!Edited
  <2>2. AsIfOpened!Replace(t, row[t], y, FALSE)
    BY <1>0, <1>2, <1>5, <2>1, ReplaceExplained DEF UpdateTx
  <2>3. AsIfOpened!UpdateTx(t, x)
    BY <1>5, <2>1, <2>2, SameNames, SameRules DEF UpdateTx, AsIfOpened!UpdateTx
  <2> QED
    BY <2>3 DEF AsIfOpened!Next
<1>6. ASSUME NEW t \in Txs, DeleteTx(t) PROVE AsIfOpened!Next
  <2>1. AsIfOpened!Replace(t, row[t], NoRow, FALSE)
    BY <1>0, <1>2, <1>6, NoRowType, ReplaceExplained DEF DeleteTx
  <2>2. AsIfOpened!DeleteTx(t)
    BY <1>6, <2>1, SameNames DEF DeleteTx, AsIfOpened!DeleteTx
  <2> QED
    BY <2>2 DEF AsIfOpened!Next
<1>7. ASSUME NEW t \in Txs, NEW s \in Statuses, NEW scheduled \in BOOLEAN, SetStatus(t, s, scheduled)
      PROVE  AsIfOpened!Next
  <2> DEFINE y == WithStatus(row[t], s)
  <2>1. y \in Row /\ AsIfOpened!WithStatus(row[t], s) = y
    BY <1>0 DEF WithStatus, Row, AsIfOpened!WithStatus
  <2>2. AsIfOpened!Replace(t, row[t], y, scheduled)
    BY <1>0, <1>2, <1>7, <2>1, ReplaceExplained DEF SetStatus
  <2>3. AsIfOpened!SetStatus(t, s, scheduled)
    BY <1>7, <2>1, <2>2 DEF SetStatus, AsIfOpened!SetStatus
  <2> QED
    BY <2>3, SameNames DEF AsIfOpened!Next
<1>8. ASSUME NEW t \in Txs, NEW x \in Drafts, Generate(t, x) PROVE AsIfOpened!Next
  <2>1. Explained' = Explained
    BY <1>2, <1>8 DEF Generate, Explained
  <2>2. AsIfOpened!Generate(t, x)
    BY <1>8, <2>1, SameNames, SameRules DEF Generate, AsIfOpened!Generate
  <2> QED
    BY <2>2 DEF AsIfOpened!Next
<1>9. ASSUME NEW a \in Accounts, NEW b \in Openings \cup {0}, NEW l \in LimitChoices \cup {NoLimit}, OpenAccount(a, b, l)
      PROVE  AsIfOpened!Next
  <2>1. a \notin Born /\ Live' = Live \cup {a} /\ a \notin Live
    BY <1>0, <1>9 DEF OpenAccount, Born, Live, TypeOK
  <2>2. covered' = covered \cup {a} /\ b \in Int
    BY <1>1, <2>1
  <2>3. balance[a] = 0 /\ moved[a] = 0
    BY <1>0, <2>1 DEF DataInv
  <2>4. Explained' = [Explained EXCEPT ![a] = @ + b]
    <3>1. moved'[a] = b
      BY <1>0, <1>9, <2>2, <2>3 DEF OpenAccount, TypeOK
    <3>2. Explained[a] = 0 /\ Explained[a] + b = b
      BY <2>2, <2>3 DEF Explained
    <3>3. \A c \in Accounts \ {a} : balance'[c] = balance[c] /\ moved'[c] = moved[c]
      BY <1>0, <1>9 DEF OpenAccount, TypeOK
    <3> DEFINE after == [Explained EXCEPT ![a] = @ + b]
    <3>4. after = [c \in Accounts |-> IF c = a THEN b ELSE Explained[c]]
      BY <3>2 DEF Explained
    <3>5. \A c \in Accounts : Explained'[c] = IF c = a THEN b ELSE Explained[c]
      BY <2>2, <3>1, <3>3 DEF Explained
    <3> QED
      BY <3>4, <3>5 DEF Explained
  <2>5. AsIfOpened!OpenAccount(a, b, l)
    BY <1>9, <2>4, SameNames, SameCard DEF OpenAccount, AsIfOpened!OpenAccount
  <2> QED
    BY <2>5, SameNames DEF AsIfOpened!Next
<1>10. ASSUME NEW a \in Accounts, NEW l \in LimitChoices \cup {NoLimit}, EditAccount(a, l)
       PROVE  AsIfOpened!Next
  <2>1. Explained' = Explained
    BY <1>2, <1>10 DEF EditAccount, Explained
  <2>2. AsIfOpened!EditAccount(a, l)
    BY <1>10, <2>1, SameNames, SameCard DEF EditAccount, AsIfOpened!EditAccount
  <2> QED
    BY <2>2, SameNames DEF AsIfOpened!Next
<1>11. ASSUME NEW a \in Accounts, DropAccount(a) PROVE AsIfOpened!Next
  <2>1. Live' \subseteq Live
    BY <1>0, <1>11 DEF DropAccount, Live, TypeOK
  <2>2. Explained' = Explained
    BY <1>1, <1>11, <2>1 DEF DropAccount, Explained
  <2>3. AsIfOpened!DropAccount(a)
    BY <1>11, <2>2, SameNames DEF DropAccount, AsIfOpened!DropAccount
  <2> QED
    BY <2>3 DEF AsIfOpened!Next
<1> QED
  BY <1>4, <1>5, <1>6, <1>7, <1>8, <1>9, <1>10, <1>11 DEF Traffic, Next


LEMMA CommitAsIfOpened ==
  ASSUME BackfillInv, NEW p \in Runs, Commit(p), escapes = 0
  PROVE  Explained' = Explained
<1>1. BackfillTypeOK /\ LateInv /\ RunOK(p) /\ HoldsOpening(p)
  BY DEF BackfillInv
<1>2. pc[p] = "commit" /\ AtWork(p) /\ Holds(p)
  BY DEF Commit, AtWork, Holds
<1>3. PICK a \in Accounts : a = current[p]
  BY <1>1, <1>2 DEF RunOK
<1>4. /\ moved' = [moved EXCEPT ![a] = @ + opening[p]] /\ covered' = covered \cup {a} /\ balance' = balance
      /\ a \notin covered
  BY <1>1, <1>2, <1>3 DEF Commit, HoldsOpening
<1>5. /\ opening[p] \in Int /\ balance[a] \in Int /\ moved[a] \in Int
      /\ moved \in [Accounts -> Int]
  BY <1>1 DEF BackfillTypeOK, TypeOK
<1>6. balance[a] - moved[a] - opening[p] = 0
  BY <1>1, <1>2, <1>3 DEF HoldsOpening, LateInv, Gap
<1>7. moved'[a] = balance[a] /\ \A c \in Accounts \ {a} : moved'[c] = moved[c]
  BY <1>4, <1>5, <1>6
<1> QED
  BY <1>4, <1>7 DEF Explained

LEMMA StepAsIfOpened ==
  BackfillInv /\ [BackfillNext]_allVars
    => [escapes' = 0 => AsIfOpened!Next]_(AsIfOpened!dataVars)
<1> SUFFICES ASSUME BackfillInv, [BackfillNext]_allVars, escapes' = 0, ~AsIfOpened!Next
             PROVE  UNCHANGED AsIfOpened!dataVars
  OBVIOUS
<1>1. CASE Traffic
  BY <1>1, TrafficAsIfOpened
<1>2. ASSUME NEW a \in Accounts, NEW d \in Escapes, Escape(a, d) PROVE FALSE
  BY <1>2 DEF Escape, BackfillInv, BackfillTypeOK
<1>3. CASE UNCHANGED <<dataVars, covered>>
  BY <1>3 DEF dataVars, AsIfOpened!dataVars, Explained
<1>4. ASSUME NEW p \in Runs, Commit(p) PROVE UNCHANGED AsIfOpened!dataVars
  BY <1>4, CommitAsIfOpened DEF Commit, bounds, AsIfOpened!dataVars
<1>5. ASSUME NEW p \in Runs, \/ Start(p) \/ Take(p) \/ Read(p) \/ Insert(p) \/ Check(p)
                             \/ Finish(p) \/ Fails(p) \/ Die(p)
      PROVE  UNCHANGED <<dataVars, covered>>
  BY <1>5 DEF Start, Take, Read, Insert, Check, Finish, Fails, Die, Leave
<1>6. CASE UNCHANGED allVars
  BY <1>3, <1>6 DEF allVars
<1> QED
  BY <1>1, <1>2, <1>3, <1>4, <1>5, <1>6 DEF BackfillNext, Step

(* While nobody writes around the ledger, the traffic and any number of    *)
(* runs of the script, failing and repeated, are steps of a ledger that    *)
(* had every opening from the start.                                       *)
THEOREM BackfillIsInvisible == BackfillSpec => ImplementsOpenedLedger
BY InitBackfillInv, NextBackfillInv, StepAsIfOpened, PTL DEF BackfillSpec, ImplementsOpenedLedger
=============================================================================
