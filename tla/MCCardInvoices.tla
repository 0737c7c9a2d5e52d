--------------------------- MODULE MCCardInvoices ---------------------------
(* Months of two and three days, two cycles, three rows.                   *)
EXTENDS CardInvoices, TLC

CONSTANTS t1, t2, t3

Starts == (0 :> 0) @@ (1 :> 3) @@ (2 :> 5) @@ (3 :> 8) @@ (4 :> 11) @@ (5 :> 13)
TwoCycles == {[dueDay |-> 1, closingDaysBeforeDue |-> 2],
              [dueDay |-> 3, closingDaysBeforeDue |-> 2]}
Symmetry == Permutations({t1, t2, t3})
=============================================================================
