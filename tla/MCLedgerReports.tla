--------------------------- MODULE MCLedgerReports ---------------------------
(* An account in the bank, an investment and a card; two rows.             *)
EXTENDS LedgerReports, TLC

CONSTANTS t1, t2

MCAccounts == 1..3
MCKind     == <<"CHECKING", "INVESTMENT", "CREDIT_CARD">>
MCCategory == t1 :> "food" @@ t2 :> "rent"

Draft(a, d, ty, m, st) ==
  [account |-> a, dest |-> d, type |-> ty, amount |-> m, status |-> st, planned |-> FALSE]

(* Income, a purchase with the card, its payment from either side, and     *)
(* transfers into and out of the investment.                               *)
MCDrafts ==
  {Draft(1, 0, "INCOME", 1, "COMPLETED"), Draft(3, 0, "EXPENSE", 1, "PENDING"),
   Draft(1, 3, "TRANSFER", 1, "COMPLETED"), Draft(2, 3, "TRANSFER", 1, "COMPLETED"),
   Draft(1, 2, "TRANSFER", 1, "COMPLETED"), Draft(2, 1, "TRANSFER", 1, "COMPLETED")}
=============================================================================
