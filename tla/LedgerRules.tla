----------------------------- MODULE LedgerRules -----------------------------
(***************************************************************************)
(* The money rules of the entities: which accounts a transaction moves, by *)
(* how much, and when an account refuses the movement.  Pure operators, no *)
(* state.  Account ids are positive integers because the repositories lock *)
(* rows in id order; 0 stands for SQL NULL.                                *)
(*                                                                         *)
(* A row of `transactions` keeps the columns that decide balances; dates,  *)
(* titles and categories are left out.  planned is "recurringId is set".   *)
(***************************************************************************)
EXTENDS Integers

CONSTANTS Accounts,   (* ids of the accounts of one workspace              *)
          Kind        (* the type column of each account                   *)

Kinds    == {"CHECKING", "CASH", "INVESTMENT", "CREDIT_CARD"}
Types    == {"INCOME", "EXPENSE", "TRANSFER"}
Statuses == {"PENDING", "COMPLETED"}

ASSUME AccountsAssumption ==
  /\ Accounts \subseteq Nat \ {0}
  /\ Kind \in [Accounts -> Kinds]

NoAcc   == 0            (* destination_account_id is NULL                  *)
NoLimit == -1           (* credit_limit is NULL                            *)

Row == [account : Accounts \cup {NoAcc}, dest : Accounts \cup {NoAcc},
        type : Types, amount : Nat, status : Statuses, planned : BOOLEAN]

(* What stands in for the columns of a row that is not there: it is        *)
(* PENDING, so it moves nothing.                                           *)
NoRow == [account |-> NoAcc, dest |-> NoAcc, type |-> "EXPENSE",
          amount |-> 0, status |-> "PENDING", planned |-> FALSE]

Limits == Nat \cup {NoLimit}

IsCard(a) == Kind[a] = "CREDIT_CARD"
Blocked   == {"CASH", "INVESTMENT"}      (* kinds whose debit is refused   *)

(* A card's balance is its debt: income lowers it, an expense raises it.   *)
Credited(a, m) == IF IsCard(a) THEN -m ELSE m
Debited(a, m)  == IF IsCard(a) THEN m ELSE -m

(* The change a transaction row is responsible for on account a.           *)
Effect(x, a) ==
  IF x.status # "COMPLETED" THEN 0
  ELSE IF x.account = a
       THEN IF x.type = "INCOME" THEN Credited(a, x.amount)
                                 ELSE Debited(a, x.amount)
       ELSE IF x.type = "TRANSFER" /\ x.dest = a THEN Credited(a, x.amount)
                                                 ELSE 0

(* What replacing row x by row y changes on account a.                     *)
Delta(x, y, a) == Effect(y, a) - Effect(x, a)

(* Mutant: a debit is not checked against the balance.                     *)
AcceptsOverdraft(a, bal, lim, d, scheduled) ==
  \/ d = 0
  \/ ~IsCard(a)
  \/ IsCard(a) /\ scheduled
  \/ IsCard(a) /\ d > 0 /\ (lim = NoLimit \/ d <= lim - bal)
  \/ IsCard(a) /\ d < 0 /\ bal + d >= 0

(* Mutant: a charge is compared with the limit, not with what is left.     *)
AcceptsWholeLimit(a, bal, lim, d, scheduled) ==
  \/ d = 0
  \/ Kind[a] = "CHECKING"
  \/ Kind[a] \in Blocked /\ (d > 0 \/ bal + d >= 0)
  \/ IsCard(a) /\ scheduled
  \/ IsCard(a) /\ d > 0 /\ (lim = NoLimit \/ d <= lim)
  \/ IsCard(a) /\ d < 0 /\ bal + d >= 0

(* May a, whose balance is bal and limit is lim, change by d?  A card      *)
(* checks its limit on a charge and its debt on a payment, unless the      *)
(* movement is a scheduled settlement.                                     *)
Accepts(a, bal, lim, d, scheduled) ==
  \/ d = 0
  \/ Kind[a] = "CHECKING"
  \/ Kind[a] \in Blocked /\ (d > 0 \/ bal + d >= 0)
  \/ IsCard(a) /\ scheduled
  \/ IsCard(a) /\ d > 0 /\ (lim = NoLimit \/ d <= lim - bal)
  \/ IsCard(a) /\ d < 0 /\ bal + d >= 0

(* The effects of the old row are undone first, then those of the new one  *)
(* are applied; each is checked against the balance it finds.  A row has   *)
(* at most one effect on an account, so accounts can be looked at alone.   *)
Admits(a, bal, lim, old, new, scheduled) ==
  /\ Accepts(a, bal, lim, -Effect(old, a), scheduled)
  /\ Accepts(a, bal - Effect(old, a), lim, Effect(new, a), scheduled)

(* The accounts a row names, which its foreign keys force to exist.        *)
Refs(x) == {x.account, x.dest} \ {NoAcc}

(* A TRANSFER names a destination other than its source; amounts are       *)
(* positive.                                                               *)
WellFormed(x) ==
  /\ x.amount > 0
  /\ x.account # NoAcc
  /\ x.type = "TRANSFER" => x.dest \notin {NoAcc, x.account}

(* The rows the transaction and recurring services build: a plain          *)
(* transfer never pays a card.                                             *)
PlainRow(x) == WellFormed(x) /\ (x.type = "TRANSFER" => ~IsCard(x.dest))

(* PayCreditCardInvoiceService: a completed transfer into a card.          *)
InvoicePayment(x) ==
  /\ WellFormed(x)
  /\ x.type = "TRANSFER" /\ x.status = "COMPLETED" /\ ~x.planned
  /\ ~IsCard(x.account) /\ IsCard(x.dest)

(* CreateInstallmentPurchaseService: the first instalment of a purchase.   *)
FirstInstallment(x) ==
  /\ WellFormed(x)
  /\ x.type = "EXPENSE" /\ x.dest = NoAcc /\ x.planned
  /\ Kind[x.account] # "INVESTMENT"

(* What the three creating services can ask the repository to insert.      *)
Creatable(x) ==
  \/ PlainRow(x) /\ ~x.planned
  \/ InvoicePayment(x)
  \/ FirstInstallment(x)

(* An occurrence the recurring job inserts.                                *)
Occurrence(x) == PlainRow(x) /\ x.planned /\ x.status = "PENDING"
=============================================================================
