--------------------------- MODULE MCSettlementJob ---------------------------
(* Two rows of one workspace and two runs of the job.                      *)
EXTENDS SettlementJob

CONSTANTS w1, r1, r2

OneOwner == [i \in Ids |-> w1]
=============================================================================
