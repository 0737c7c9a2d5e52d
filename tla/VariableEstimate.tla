-------------------------- MODULE VariableEstimate --------------------------
(***************************************************************************)
(* What the projection of the current month expects beyond the rows there  *)
(* are and the recurrences: the fixed bills detected in the past months    *)
(* that no row of this month settles yet (FixedBills.ts), and what is      *)
(* usually spent on the rest of today and on the days after it             *)
(* (estimateVariableWindow of MonthProjection.ts).                         *)
(*                                                                         *)
(* The rows are the plain expenses of findMonthLedger: neither of a        *)
(* recurrence nor of a purchase in instalments nor of a system category.   *)
(* The other rows only add to the totals, which is what module             *)
(* MonthProjection has.  One month: the past ones stay as they are.        *)
(***************************************************************************)
EXTENDS Integers, Sequences, FiniteSets, FiniteSetsExt, Functions

CONSTANTS Categories, Spent,       (* what a client may ask for            *)
          Length,                  (* days of a month, by its age; 0 is    *)
                                   (* the current one                      *)
          Histories,               (* bound: past rows, by age             *)
          LookBack,                (* LOOKBACK_MONTHS                      *)
          MinBasis, MaxBasis,      (* MIN_BASIS_MONTHS, MAX_BASIS_MONTHS   *)
          MinActiveDays,           (* MIN_ACTIVE_DAYS                      *)
          DetectionMonths,         (* BILL_DETECTION_MONTHS                *)
          MaxEntries,              (* MAX_BILL_ENTRIES_PER_CATEGORY_MONTH  *)
          RatioNum, RatioDen,      (* SIMILAR_AMOUNT_RATIO                 *)
          MaxRows                  (* bound: rows of the current month     *)

DaysOf(age) == 1..Length[age]
Ages == 1..LookBack

PlainExpense(age) ==
  [id : Nat, day : DaysOf(age), category : Categories, amount : Nat \ {0}, pending : BOOLEAN]

(* The id is the primary key of transactions.                              *)
Distinct(S) == \A x, y \in S : x.id = y.id => x = y

ASSUME EstimateAssumption ==
  /\ Spent \subseteq Nat \ {0}
  /\ LookBack \in Nat /\ Length \in [0..LookBack -> Nat \ {0}]
  /\ \A h \in Histories, age \in Ages :
       h[age] \subseteq PlainExpense(age) /\ IsFiniteSet(h[age]) /\ Distinct(h[age])
  /\ MinBasis \in 1..MaxBasis /\ MaxBasis \in Nat /\ MinActiveDays \in Nat
  /\ DetectionMonths \in Nat \ {0} /\ MaxEntries \in Nat
  /\ RatioDen \in Nat \ {0} /\ RatioNum >= RatioDen /\ RatioNum \in Nat
  /\ MaxRows \in Nat

VARIABLES dayOfMonth,   (* of the current month                            *)
          plain,        (* its plain expenses                              *)
          past          (* those of the months before, which are completed *)

estimateVars == <<dayOfMonth, plain, past>>

EstimateTypeOK ==
  /\ dayOfMonth \in DaysOf(0)
  /\ plain \subseteq PlainExpense(0)
  /\ past \in Histories

EstimateInit == dayOfMonth = 1 /\ plain = {} /\ past \in Histories

-----------------------------------------------------------------------------
(* Rows that come and go.                                                  *)

(* CreateTransactionService: a day to come is pending.                     *)
CreateExpense ==
  /\ \E id \in 1..MaxRows, d \in DaysOf(0), c \in Categories, a \in Spent, p \in BOOLEAN :
       /\ d > dayOfMonth => p
       /\ \A x \in plain : x.id # id
       /\ plain' = plain \cup
                    {[id |-> id, day |-> d, category |-> c, amount |-> a, pending |-> p]}
  /\ UNCHANGED <<dayOfMonth, past>>

(* deleteWithBalanceEffect.                                                *)
DeleteExpense(x) ==
  /\ plain' = plain \ {x}
  /\ UNCHANGED <<dayOfMonth, past>>

(* SetTransactionStatusService, either way.                                *)
SetExpenseStatus(x) ==
  /\ plain' = (plain \ {x}) \cup {[x EXCEPT !.pending = ~@]}
  /\ UNCHANGED <<dayOfMonth, past>>

DayPasses ==
  /\ dayOfMonth < Length[0]
  /\ dayOfMonth' = dayOfMonth + 1
  /\ UNCHANGED <<plain, past>>

EstimateNext ==
  \/ CreateExpense \/ DayPasses
  \/ \E x \in plain : DeleteExpense(x) \/ SetExpenseStatus(x)

EstimateSpec == EstimateInit /\ [][EstimateNext]_estimateVars

-----------------------------------------------------------------------------
(* Amounts.  A median may end in a half: it is kept doubled.               *)

TotalOf(S) == SumFunctionOnSet([x \in S |-> x.amount], S)

(* The k-th smallest value.                                                *)
Ranked(values, k) ==
  CHOOSE v \in Range(values) :
    /\ Cardinality({i \in DOMAIN values : values[i] < v}) < k
    /\ k <= Cardinality({i \in DOMAIN values : values[i] <= v})

(* median                                                                  *)
DoubleMedian(values) ==
  LET n == Cardinality(DOMAIN values)
      middle == n \div 2
  IN  IF n % 2 = 1 THEN 2 * Ranked(values, middle + 1)
      ELSE Ranked(values, middle) + Ranked(values, middle + 1)

(* Math.round of a number that is not negative.                            *)
RoundedHalf(n) == (n + 1) \div 2

(* isSimilarAmount: at most RatioNum / RatioDen apart.                     *)
Similar(a, b) ==
  LET lo == Min({a, b}) hi == Max({a, b})
  IN  lo > 0 /\ hi * RatioDen <= lo * RatioNum

-----------------------------------------------------------------------------
(* The bills of the past.                                                  *)

(* The n newest of some months.                                            *)
NewestOf(ages, n) == {age \in ages : Cardinality({a \in ages : a < age}) < n}

(* selectBasisMonths: the newest with enough days of spending.             *)
Basis[h \in Histories] ==
  NewestOf({age \in Ages : Cardinality({x.day : x \in h[age]}) >= MinActiveDays}, MaxBasis)

HasHistory(h) == Cardinality(Basis[h]) >= MinBasis

(* eligibleRows: a category with many entries is no bill.                  *)
EligibleRows(S) ==
  {x \in S : Cardinality({y \in S : y.category = x.category}) <= MaxEntries}

SimilarIn(pool, target) ==
  {x \in pool : x.category = target.category /\ Similar(x.amount, target.amount)}

(* The rows come by day, and by id on a day.                               *)
ListedBefore(x, y) == x.day < y.day \/ (x.day = y.day /\ x.id < y.id)

Gap(x, target) == Max({x.amount, target.amount}) - Min({x.amount, target.amount})

Closer(x, y, target) ==
  Gap(x, target) < Gap(y, target) \/ (Gap(x, target) = Gap(y, target) /\ ListedBefore(x, y))

(* takeClosestSimilar: the first of the closest ...                        *)
Closest(pool, target) ==
  CHOOSE x \in SimilarIn(pool, target) :
    \A y \in SimilarIn(pool, target) \ {x} : Closer(x, y, target)

(* Mutant: a row that settles a bill stays for the next one.               *)
TakeNothing(pool, target) == pool

(* ... is no longer there for the next.                                    *)
Take(pool, target) ==
  IF SimilarIn(pool, target) = {} THEN pool ELSE pool \ {Closest(pool, target)}

(* detectFixedBills takes the largest first: an expense of the newest      *)
(* month ...                                                               *)
Larger(x, y) == x.amount > y.amount \/ (x.amount = y.amount /\ ListedBefore(x, y))

Largest(S) == CHOOSE x \in S : \A y \in S \ {x} : Larger(x, y)

(* ... is a bill when an older month has one like it, and its amount is    *)
(* the median of them; 0 stands for the newest month.                      *)
Detect(found) ==
  LET x == Largest(found.left)
      matched == {age \in DOMAIN found.pools : SimilarIn(found.pools[age], x) # {}}
      amounts == [age \in {0} \cup matched |->
                    IF age = 0 THEN x.amount ELSE Closest(found.pools[age], x).amount]
      bill == [category |-> x.category, amount |-> RoundedHalf(DoubleMedian(amounts))]
  IN  [left  |-> found.left \ {x},
       pools |-> [age \in DOMAIN found.pools |-> Take(found.pools[age], x)],
       bills |-> IF matched = {} THEN found.bills ELSE Append(found.bills, bill)]

FixedBills[h \in Histories] ==
  IF ~HasHistory(h) THEN <<>>
  ELSE LET months == NewestOf(Basis[h], DetectionMonths)
           newest == Min(months)
           entries == EligibleRows(h[newest])
           found[k \in 0..Cardinality(entries)] ==
             IF k = 0 THEN [left  |-> entries,
                            pools |-> [age \in months \ {newest} |-> EligibleRows(h[age])],
                            bills |-> <<>>]
             ELSE Detect(found[k - 1])
       IN  found[Cardinality(entries)].bills

(* isSimilarToAnyBill                                                      *)
IsFixed(h, x) ==
  \E b \in Range(FixedBills[h]) : b.category = x.category /\ Similar(b.amount, x.amount)

(* sumFixedBillsDue: each bill is settled by a row of its own, pending     *)
(* ones included, or is still to come.                                     *)
SettleBill(left, b) ==
  [pool |-> Take(left.pool, b),
   due  |-> left.due + (IF SimilarIn(left.pool, b) = {} THEN b.amount ELSE 0)]

FixedBillsDue(S) ==
  LET bills == FixedBills[past]
      left[k \in 0..Len(bills)] ==
        IF k = 0 THEN [pool |-> S, due |-> 0] ELSE SettleBill(left[k - 1], bills[k])
  IN  left[Len(bills)].due

-----------------------------------------------------------------------------
(* The rest of today and the days after it.                                *)

Between(S, first, last) == TotalOf({x \in S : first <= x.day /\ x.day <= last})

Variable(h, S) == {x \in S : ~IsFixed(h, x)}

(* estimateVariableWindow: what was usual on day d and after it; a shorter *)
(* month ends at its last day.                                             *)
Usual[h \in {k \in Histories : HasHistory(k)}] ==
  LET sliceDay(d, age) == Min({d, Length[age]})
      lastDay(d, age) == Min({Length[age], sliceDay(d, age) + Length[0] - d})
      slice(d, age) == Between(Variable(h, h[age]), sliceDay(d, age), sliceDay(d, age))
      after(d, age) == Between(Variable(h, h[age]), sliceDay(d, age) + 1, lastDay(d, age))
  IN  [d \in DaysOf(0) |->
         [slice |-> DoubleMedian([age \in Basis[h] |-> slice(d, age)]),
          after |-> DoubleMedian([age \in Basis[h] |-> after(d, age)])]]

VariableWindow(S) ==
  LET usual == Usual[past][dayOfMonth]
      spent == Between(Variable(past, {x \in S : ~x.pending}), dayOfMonth, dayOfMonth)
  IN  RoundedHalf(usual.after + Max({0, usual.slice - 2 * spent}))

Estimate(S) == IF HasHistory(past) THEN FixedBillsDue(S) + VariableWindow(S) ELSE 0

(* projectMonthEnd, of rows S: realized, scheduled and estimated.          *)
ExpectedExpense(S) == TotalOf(S) + Estimate(S)

-----------------------------------------------------------------------------
(* What an expense may do to the total of the month: one that is like a    *)
(* bill is the bill, or comes on top when they are all settled, and is     *)
(* never taken for two bills nor for a bill and for usual spending.  Any   *)
(* other comes on top, but for what was set aside for today.               *)
Bears(x, change) ==
  IF IsFixed(past, x)
  THEN \/ change = x.amount
       \/ \E b \in Range(FixedBills[past]) :
            b.category = x.category /\ change = x.amount - b.amount
  ELSE /\ 0 <= change /\ change <= x.amount
       /\ ~HasHistory(past) \/ x.pending \/ x.day # dayOfMonth => change = x.amount

(* A change of status only moves what was set aside for today: a bill is   *)
(* settled by a row that is pending already.                               *)
Settles(x, change) ==
  /\ -x.amount <= change /\ change <= 0
  /\ IsFixed(past, x) \/ ~HasHistory(past) \/ x.day # dayOfMonth => change = 0

(* Each row of the month moves the total by what it bears, and settling it *)
(* by what was set aside, whatever the others are and whichever came first.*)
ExpenseCountsOnce ==
  \A x \in plain :
    LET others == plain \ {x}
        as(p) == ExpectedExpense(others \cup {[x EXCEPT !.pending = p]})
    IN  /\ Bears(x, ExpectedExpense(plain) - ExpectedExpense(others))
        /\ x.day <= dayOfMonth => Settles(x, as(FALSE) - as(TRUE))
=============================================================================
