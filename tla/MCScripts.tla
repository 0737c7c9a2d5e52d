------------------------------ MODULE MCScripts ------------------------------
(***************************************************************************)
(* The scripts of the repository that write: the backfill of the movements *)
(* beside traffic, on two accounts older than the movements and with two   *)
(* runs, and the renaming of migrations, on the journal as it was rebuilt  *)
(* once, whose numbers run ahead of its idx, and on one where they agree   *)
(* again.  They share nothing, so that in each behaviour one is at work.   *)
(***************************************************************************)
EXTENDS MovementsBackfill, MigrationNumbering, TLC

CONSTANTS p1, p2

MCAccounts == 1..2
MCKind     == <<"CHECKING", "CASH">>

(* A transfer between the two.                                             *)
MCDrafts ==
  {[account |-> 1, dest |-> 2, type |-> "TRANSFER", amount |-> 1,
    status |-> "COMPLETED", planned |-> FALSE]}

Base(i, n) == [idx |-> i, num |-> n, name |-> "a"]

Rebuilt  == <<Base(0, 0), Base(1, 8), Base(2, 9)>>
Agreeing == <<Base(0, 0), Base(1, 8), Base(9, 9)>>
Journals == {Rebuilt, Agreeing}

VARIABLE script

scriptVars == <<allVars, numberingVars, script>>

MCInit ==
  /\ BackfillInit /\ NumberingInit
  /\ \/ script = "movements" /\ journal = Rebuilt
     \/ script = "migrations" /\ \A t \in Txs : fate[t] = "unused"

MCNext ==
  \/ script = "movements" /\ BackfillNext /\ UNCHANGED <<numberingVars, script>>
  \/ script = "migrations" /\ NumberingNext /\ UNCHANGED <<allVars, script>>

MCSpec == MCInit /\ [][MCNext]_scriptVars
=============================================================================
