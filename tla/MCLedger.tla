------------------------------ MODULE MCLedger ------------------------------
(***************************************************************************)
(* Ledger with two requests in flight over a wallet and a card.            *)
(***************************************************************************)
EXTENDS Ledger

MCAccounts == 1..2
MCKind     == <<"CASH", "CREDIT_CARD">>

Draft(a, d, ty, m, st, p) ==
  [account |-> a, dest |-> d, type |-> ty, amount |-> m, status |-> st, planned |-> p]

(* A purchase in instalments, and an invoice payment that one of the two   *)
(* opening balances of the wallet can afford.                              *)
MCDrafts ==
  {Draft(1, 2, "TRANSFER", 2, "COMPLETED", FALSE),
   Draft(2, 0, "EXPENSE", 2, "PENDING", TRUE)}
=============================================================================
