---------------------------- MODULE CardInvoices ----------------------------
(***************************************************************************)
(* The invoices of a credit card against the card's balance.  The balance  *)
(* is stored and moved by every change of a row (module Ledger); an        *)
(* invoice is computed anew from the rows whenever it is looked at         *)
(* (get-credit-card-invoice.handler.ts, InvoiceStatement.ts).  The two     *)
(* tell the same story only as far as every change goes through both.      *)
(*                                                                         *)
(* Each call of a client is one step here: Ledger shows that the           *)
(* repository makes them so.                                               *)
(***************************************************************************)
EXTENDS InvoiceCalendar, FiniteSets, FiniteSetsExt

CONSTANTS Ids,         (* rows of `transactions` that name the card        *)
          CardAmounts,
          Limits,      (* credit limits the owner may set                  *)
          StartDay, StopDay,         (* bounds: the days that pass         *)
          MaxDrops     (* bound: source accounts that are deleted          *)

ASSUME InvoicesAssumption ==
  /\ CardAmounts \subseteq Nat \ {0} /\ Limits \subseteq Nat \ {0}
  /\ StartDay \in Days /\ StopDay \in Int /\ StartDay..StopDay \subseteq Days /\ MaxDrops \in Nat
  /\ IsFiniteSet(Ids)

VARIABLES day, cycle, limit, balance, entries,
          drops, dropped    (* accounts deleted, and what they had paid    *)

cardVars == <<day, cycle, limit, balance, entries, drops, dropped>>

(* charge: an expense of the card or a transfer from it; refund: an income *)
(* of it; payment: a transfer to it.  Only a transfer has its destination  *)
(* checked: stray is an expense or income of another account that names    *)
(* the card as its destination, looped an expense of the card that names   *)
(* the card itself.                                                        *)
Kinds == {"charge", "refund", "payment", "stray", "looped"}

NoLimit == -1   (* credit_limit is NULL                                    *)

Row == [kind : Kinds, date : Days, status : {"PENDING", "COMPLETED"}, amount : CardAmounts]

None == [kind |-> "none", date |-> 0, status |-> "PENDING", amount |-> 0]

CardTypeOK ==
  /\ day \in Days /\ StartDay <= day /\ cycle \in Cycles /\ limit \in Limits \cup {NoLimit}
  /\ balance \in Int
  /\ entries \in [Ids -> Row \cup {None}]
  /\ \A i \in Ids : entries[i].kind = "payment" => entries[i].date <= day
  /\ drops \in 0..MaxDrops /\ dropped \in Nat

CardInit ==
  /\ day = StartDay
  /\ cycle \in Cycles /\ limit \in Limits \cup {NoLimit}
  /\ balance = 0
  /\ entries = [i \in Ids |-> None]
  /\ drops = 0 /\ dropped = 0

-----------------------------------------------------------------------------
(* The stored balance.                                                     *)

Effect(x) == IF x.status = "PENDING" THEN 0
             ELSE CASE x.kind \in {"charge", "looped"} -> x.amount
                    [] x.kind \in {"refund", "payment"} -> -x.amount
                    [] OTHER -> 0

(* registerCharge and payInvoice.                                          *)
Accepts(bal, d) ==
  /\ d > 0 => limit = NoLimit \/ d <= limit - bal
  /\ d < 0 => bal + d >= 0

(* Row i becomes x: the old effect is undone, then the new one applied.    *)
Write(i, x) ==
  /\ Accepts(balance, -Effect(entries[i]))
  /\ Accepts(balance - Effect(entries[i]), Effect(x))
  /\ entries' = [entries EXCEPT ![i] = x]
  /\ balance' = balance - Effect(entries[i]) + Effect(x)
  /\ UNCHANGED <<day, cycle, limit, drops, dropped>>

(* A row of a day to come is created PENDING whatever the client asks.     *)
Dated(x) == x.date > day => x.status = "PENDING"

(* CreateTransactionService: not a transfer into a card.                   *)
Create(i) ==
  /\ entries[i] = None
  /\ \E x \in Row : x.kind # "payment" /\ Dated(x) /\ Write(i, x)

(* PayCreditCardInvoiceService: dated today, whatever invoice it is for.   *)
PayInvoice(i) ==
  /\ entries[i] = None
  /\ \E a \in CardAmounts :
       Write(i, [kind |-> "payment", date |-> day, status |-> "COMPLETED", amount |-> a])

(* UpdateTransactionService: the row may become any that a create can ask  *)
(* for, so that the edit of a payment makes something else of it.          *)
EditEntry(i) ==
  /\ entries[i] # None
  /\ \E x \in Row : x.kind # "payment" /\ Dated(x) /\ Write(i, x)

Delete(i) == entries[i] # None /\ Write(i, None)

(* SetTransactionStatusService does not look at the date.                  *)
SetEntryStatus(i) ==
  /\ entries[i] # None
  /\ \E s \in {"PENDING", "COMPLETED"} :
       s # entries[i].status /\ Write(i, [entries[i] EXCEPT !.status = s])

(* The settlement job, which takes no transfer: neither the limit nor the  *)
(* debt is checked.                                                        *)
Settle(i) ==
  /\ entries[i].kind \in Kinds \ {"payment"}
  /\ entries[i].status = "PENDING" /\ entries[i].date <= day
  /\ LET x == [entries[i] EXCEPT !.status = "COMPLETED"]
     IN  /\ entries' = [entries EXCEPT ![i] = x]
         /\ balance' = balance + Effect(x)
  /\ UNCHANGED <<day, cycle, limit, drops, dropped>>

(* What rows S add up to.                                                 *)
Sum(S) == SumFunctionOnSet([i \in Ids |-> entries[i].amount], S)

PaidFrom(S) == {i \in S : entries[i].kind = "payment" /\ entries[i].status = "COMPLETED"}

(* DeleteAccountService on an account that rows S came from: the foreign   *)
(* key takes the rows along, and the card's balance stays as it is.        *)
DropSource(S) ==
  /\ drops < MaxDrops
  /\ S # {} /\ \A i \in S : entries[i].kind \in {"payment", "stray"}
  /\ entries' = [i \in Ids |-> IF i \in S THEN None ELSE entries[i]]
  /\ drops' = drops + 1
  /\ dropped' = dropped + Sum(PaidFrom(S))
  /\ UNCHANGED <<day, cycle, limit, balance>>

(* UpdateAccountService: another cycle, another limit, but never none for  *)
(* a card that has one.                                                    *)
UpdateAccount ==
  /\ cycle' \in Cycles /\ limit' \in Limits \cup {limit}
  /\ UNCHANGED <<day, balance, entries, drops, dropped>>

Tick ==
  /\ day < StopDay
  /\ day' = day + 1
  /\ UNCHANGED <<cycle, limit, balance, entries, drops, dropped>>

CardNext ==
  \/ \E i \in Ids : \/ Create(i) \/ PayInvoice(i) \/ EditEntry(i)
                    \/ Delete(i) \/ SetEntryStatus(i) \/ Settle(i)
  \/ \E S \in SUBSET Ids : DropSource(S)
  \/ UpdateAccount
  \/ Tick

CardSpec == CardInit /\ [][CardNext]_cardVars

-----------------------------------------------------------------------------
(* The invoice, computed.                                                  *)

(* entryKindOf, over the completed rows up to today.                       *)
Posted  == {i \in Ids : entries[i].status = "COMPLETED" /\ entries[i].date <= day}
IsPayment(i) == entries[i].kind # "charge"
Payments(S)  == Sum({i \in S : IsPayment(i)})
Charges(S)   == Sum({i \in S : ~ IsPayment(i)})

AtLeastZero(n) == IF n > 0 THEN n ELSE 0

(* Mutant: the period has no end.                                          *)
WithinOpenPeriod(k) == {i \in Posted : entries[i].date >= PeriodStart(cycle, k)}

WithinPeriod(k) == {i \in Posted : Within(cycle, k, entries[i].date)}
AfterClosing(k) == {i \in Posted : entries[i].date > PeriodEnd(cycle, k)}
Earlier(k)      == {i \in Posted : entries[i].date < PeriodStart(cycle, k)}

PreviousBalance(k) == Charges(Earlier(k)) - Payments(Earlier(k))

(* Mutant: the payments of the period do not lower the invoice.            *)
TotalUnpaid(k) == PreviousBalance(k) + Charges(WithinPeriod(k))

Total(k) == PreviousBalance(k) + Charges(WithinPeriod(k)) - Payments(WithinPeriod(k))

(* Mutant: a payment after the closing does not settle the invoice.        *)
RemainingAtClosing(k) == AtLeastZero(Total(k))

Remaining(k) == AtLeastZero(Total(k) - Payments(AfterClosing(k)))

CurrentKey == InvoiceKeyFor(cycle, day)

Paid(k) == /\ PreviousBalance(k) > 0 \/ Charges(WithinPeriod(k)) > 0
           /\ Remaining(k) = 0

PendingAmount(k) ==
  Sum({i \in Ids : /\ entries[i].status = "PENDING" /\ entries[i].kind = "charge"
                   /\ Within(cycle, k, entries[i].date)})

(* Of a card that has one.                                                 *)
AvailableLimit(k) == AtLeastZero(limit - Remaining(k) - PendingAmount(k))

Keys == 2..(LastMonth - 1)

-----------------------------------------------------------------------------
(* With its cycle every day of the card is in one invoice, and a payment   *)
(* without a target goes to the one that closed last.                      *)
CycleTiles == OneInvoiceADay(cycle) /\ AllocatedClosedLast(cycle)

NoneAhead == \A i \in Ids : entries[i].status = "COMPLETED" => entries[i].date <= day

(* What the invoice takes for payments and the balance does not: strays    *)
(* leave the balance alone, looped rows even raise it.                     *)
CompletedOf(kind) == {i \in Ids : entries[i].kind = kind /\ entries[i].status = "COMPLETED"}
Misread == Sum(CompletedOf("stray")) + 2 * Sum(CompletedOf("looped"))

(* The current invoice and the card agree: what is asked for is what the   *)
(* card accepts as a payment, and no less, and the limit shown with it can *)
(* be spent.  They differ by what a deleted account had paid, and by rows  *)
(* whose destination no check has looked at, and then by exactly as much;  *)
(* rows of days to come that were completed by hand are left out.          *)
InvoiceMatchesCard ==
  NoneAhead =>
    /\ Remaining(CurrentKey) = AtLeastZero(balance + dropped - Misread)
    /\ limit # NoLimit /\ AvailableLimit(CurrentKey) > Misread
         => Accepts(balance, AvailableLimit(CurrentKey) - Misread)

(* An older invoice never owes more than a younger one: one that shows     *)
(* nothing to pay hides no debt, however charges, payments and changes of  *)
(* the cycle interleave.                                                   *)
DebtCarriesOver ==
  \A k \in Keys : Remaining(k) <= Remaining(k + 1)

(* The passing of days, new charges and a new limit never reopen an        *)
(* invoice that closed and was paid: only a change of its own rows or the  *)
(* loss of a payment does, or another cycle.                               *)
PaidStaysPaid ==
  [][\A k \in Keys :
       (PeriodEnd(cycle, k) < day /\ Paid(k) /\ Remaining(k)' > 0)
         => \/ cycle' # cycle
            \/ \E i \in Ids : /\ entries'[i] # entries[i]
                              /\ \/ IsPayment(i) /\ entries[i] # None
                                 \/ entries'[i].kind = "charge" /\ entries'[i].date <= PeriodEnd(cycle, k)]_cardVars
=============================================================================
