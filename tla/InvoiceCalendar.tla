--------------------------- MODULE InvoiceCalendar ---------------------------
(***************************************************************************)
(* Which invoice of a card a day belongs to                                *)
(* (modules/account/valueObjects/InvoiceCalendar.ts, InvoiceAllocation.ts).*)
(*                                                                         *)
(* An invoice key is the number of the month its due date is in.           *)
(***************************************************************************)
EXTENDS Calendar

CONSTANTS Days,         (* the days that rows may have                     *)
          Cycles        (* the [dueDay, closingDaysBeforeDue] of cards     *)

ASSUME CyclesAssumption ==
  /\ Cycles \subseteq [dueDay : Nat \ {0}, closingDaysBeforeDue : Nat]
  /\ Days \subseteq Int
  /\ \A c \in Cycles, d \in Days : \E m \in 1..(LastMonth - 1) :
       /\ FirstDay[m] <= d + c.closingDaysBeforeDue
       /\ d + c.closingDaysBeforeDue < FirstDay[m + 1]

(* The due day, or the last day of a month that has no such day.           *)
DueOf(c, m) ==
  FirstDay[m] + (IF c.dueDay < DaysInMonth(m) THEN c.dueDay ELSE DaysInMonth(m)) - 1

ClosingOf(c, m) == DueOf(c, m) - c.closingDaysBeforeDue

PeriodStart(c, k) == ClosingOf(c, k - 1) + 1
PeriodEnd(c, k)   == ClosingOf(c, k)

(* Mutant: the closing day opens the next invoice.                         *)
KeyForOpenEnd(c, d) ==
  LET t == d + c.closingDaysBeforeDue
      m == MonthOf(t)
  IN  IF DueOf(c, m) > t THEN m ELSE m + 1

InvoiceKeyFor(c, d) ==
  LET t == d + c.closingDaysBeforeDue
      m == MonthOf(t)
  IN  IF DueOf(c, m) >= t THEN m ELSE m + 1

PreviousKey(k) == k - 1

(* Mutant: on its closing day an invoice still counts as open.             *)
AllocatePrevious(c, d) == PreviousKey(InvoiceKeyFor(c, d))

(* The invoice a payment is for when the client names none.                *)
AllocateInvoice(c, d) ==
  LET k == InvoiceKeyFor(c, d)
  IN  IF PeriodEnd(c, k) = d THEN k ELSE PreviousKey(k)

-----------------------------------------------------------------------------
Within(c, k, d) == PeriodStart(c, k) <= d /\ d <= PeriodEnd(c, k)

(* Every day is in one invoice of a cycle, the one its key names: the      *)
(* periods of consecutive invoices leave no gap and do not overlap,        *)
(* whatever the lengths of the months are.                                 *)
OneInvoiceADay(c) ==
  \A d \in Days : \A k \in 1..LastMonth : k = InvoiceKeyFor(c, d) <=> Within(c, k, d)

(* A payment without a target is for the invoice that closed last, on that *)
(* day at the latest: never an older one, never one that is still open.    *)
AllocatedClosedLast(c) ==
  \A d \in Days : LET k == AllocateInvoice(c, d)
                  IN  PeriodEnd(c, k) <= d /\ d < PeriodEnd(c, k + 1)
=============================================================================
