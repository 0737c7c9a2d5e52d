-------------------------- MODULE MovementsBackfill --------------------------
(***************************************************************************)
(* scripts/backfill-balance-movements.ts beside live traffic.  Accounts    *)
(* older than the table balance_movements have a balance that movements    *)
(* do not explain; the script gives each an OPENING movement of the        *)
(* difference, in a transaction of its own at READ COMMITTED, while the    *)
(* operations of AtomicLedger go on.  A run fails for some accounts, dies, *)
(* meets another run, and is repeated.  The reconciliation job looks at    *)
(* the same sums.                                                          *)
(***************************************************************************)
EXTENDS AtomicLedger, FiniteSets

CONSTANTS Legacy,       (* accounts opened before there were movements     *)
          Runs,         (* executions of the script with --apply           *)
          Escapes,      (* amounts of writes that record no movement       *)
          MaxEscapes,   (* bound: such writes                              *)
          MaxFaults     (* bound: queries that fail, processes that die    *)

ASSUME BackfillAssumption ==
  /\ Legacy \subseteq Accounts /\ IsFiniteSet(Accounts)
  /\ Escapes \subseteq Int /\ MaxEscapes \in Nat /\ MaxFaults \in Nat

VARIABLES
  covered,    (* accounts with an OPENING movement, which is unique        *)
  late,       (* history: what escaped since the last check of an account  *)
  escapes, faults,
  pc,         (* of each run                                               *)
  listed,     (* the accounts of its list                                  *)
  queue,      (* those still to come                                       *)
  current,    (* the account at work, or NoAcc                             *)
  opening,    (* the delta computed for it                                 *)
  failed      (* failedAccounts                                            *)

locals  == <<pc, listed, queue, current, opening, failed>>
bounds  == <<escapes, faults>>
allVars == <<dataVars, covered, late, bounds, locals>>

BackfillTypeOK ==
  /\ TypeOK
  /\ covered \subseteq Accounts /\ late \in [Accounts -> Int]
  /\ escapes \in Nat /\ faults \in Nat
  /\ pc \in [Runs -> {"idle", "next", "read", "insert", "check", "commit", "done"}]
  /\ listed \in [Runs -> SUBSET Accounts] /\ failed \in [Runs -> SUBSET Accounts]
  /\ queue \in [Runs -> SUBSET Accounts]
  /\ current \in [Runs -> Accounts \cup {NoAcc}]
  /\ opening \in [Runs -> Int]

(* Rows and balances of old; whatever rows say, no movement says it.       *)
BackfillInit ==
  /\ account = [a \in Accounts |-> IF a \in Legacy THEN "live" ELSE "unborn"]
  /\ balance \in [Accounts -> Openings \cup {0}]
  /\ \A a \in Accounts : IF a \in Legacy THEN balance[a] \in Openings ELSE balance[a] = 0
  /\ limit = [a \in Accounts |-> NoLimit]
  /\ fate \in [Txs -> {"unused", "live"}]
  /\ row \in [Txs -> Drafts \cup {NoRow}]
  /\ \A t \in Txs : IF fate[t] = "live" THEN row[t] \in Drafts /\ Refs(row[t]) \subseteq Legacy
                                        ELSE row[t] = NoRow
  /\ moved = [a \in Accounts |-> 0]
  /\ net = [t \in Txs |-> [a \in Accounts |-> 0]]
  /\ covered = {} /\ late = [a \in Accounts |-> 0]
  /\ escapes = 0 /\ faults = 0
  /\ pc      = [p \in Runs |-> "idle"]
  /\ listed  = [p \in Runs |-> {}]
  /\ queue   = [p \in Runs |-> {}]
  /\ current = [p \in Runs |-> NoAcc]
  /\ opening = [p \in Runs |-> 0]
  /\ failed  = [p \in Runs |-> {}]

-----------------------------------------------------------------------------
(* Everybody else.                                                         *)

(* An operation of the ledger.  A new account gets its own opening.        *)
Traffic ==
  /\ Next
  /\ covered' = covered \cup (Live' \ Live)
  /\ UNCHANGED <<late, bounds, locals>>

(* A balance changes and no movement is written: a statement by hand, or a *)
(* process of the release before.                                          *)
Escape(a, d) ==
  /\ a \in Live /\ escapes < MaxEscapes
  /\ balance' = [balance EXCEPT ![a] = @ + d]
  /\ late' = [late EXCEPT ![a] = @ + d]
  /\ escapes' = escapes + 1
  /\ UNCHANGED <<account, limit, fate, row, moved, net, covered, faults, locals>>

-----------------------------------------------------------------------------
(* The script.                                                             *)

(* readAccountSnapshots, for one account: balance, movements and whether   *)
(* there is an opening, in one statement.                                  *)
Gap(a) == balance[a] - moved[a]

Goto(p, step) == pc' = [pc EXCEPT ![p] = step]

(* runApply reads the ids of all the accounts.                             *)
Start(p) ==
  /\ pc[p] \in {"idle", "done"}
  /\ Goto(p, "next")
  /\ listed' = [listed EXCEPT ![p] = Live]
  /\ queue'  = [queue EXCEPT ![p] = Live]
  /\ failed' = [failed EXCEPT ![p] = {}]
  /\ UNCHANGED <<dataVars, covered, late, bounds, current, opening>>

(* The outcome of an account is known and the transaction over.            *)
Leave(p, outcome) ==
  /\ Goto(p, "next")
  /\ current' = [current EXCEPT ![p] = NoAcc]
  /\ opening' = [opening EXCEPT ![p] = 0]
  /\ failed' = IF outcome = "failed" THEN [failed EXCEPT ![p] = @ \cup {current[p]}]
                                     ELSE failed
  /\ UNCHANGED <<dataVars, covered, bounds, listed, queue>>

(* The next account in the order of ids.                                   *)
Take(p) ==
  /\ pc[p] = "next"
  /\ \E a \in queue[p] :
       /\ \A b \in queue[p] : a <= b
       /\ queue' = [queue EXCEPT ![p] = @ \ {a}]
       /\ current' = [current EXCEPT ![p] = a]
  /\ Goto(p, "read")
  /\ UNCHANGED <<dataVars, covered, late, bounds, listed, opening, failed>>

HasOpening(a) == a \in covered

(* applyAccount begins: AccountNotFoundError, "already-covered", or the    *)
(* delta of the opening to insert.                                         *)
Read(p) ==
  LET a == current[p] IN
  /\ pc[p] = "read"
  /\ UNCHANGED late
  /\ \/ a \notin Live /\ Leave(p, "failed")
     \/ a \in Live /\ HasOpening(a) /\ Leave(p, "already-covered")
     \/ /\ a \in Live /\ ~HasOpening(a)
        /\ opening' = [opening EXCEPT ![p] = Gap(a)]
        /\ Goto(p, "insert")
        /\ UNCHANGED <<dataVars, covered, bounds, listed, queue, current, failed>>

(* Runs whose opening of the account is inserted and not yet committed.    *)
Pending(a) == {q \in Runs : current[q] = a /\ pc[q] \in {"check", "commit"}}

(* Mutant: there is no unique index.                                       *)
InsertTwice(p) ==
  /\ pc[p] = "insert"
  /\ Goto(p, "check")
  /\ UNCHANGED <<dataVars, covered, late, bounds, listed, queue, current, opening, failed>>

(* insertOpening: ux_balance_movements_opening makes it wait for another   *)
(* run's, and fail, as already covered, when that one has committed.       *)
Insert(p) ==
  LET a == current[p] IN
  /\ pc[p] = "insert"
  /\ Pending(a) = {}
  /\ UNCHANGED late
  /\ \/ HasOpening(a) /\ Leave(p, "already-covered")
     \/ /\ ~HasOpening(a)
        /\ Goto(p, "check")
        /\ UNCHANGED <<dataVars, covered, bounds, listed, queue, current, opening, failed>>

(* Mutant: the sum is not compared.                                        *)
MatchesAnyway(p) == current[p] \in Live

(* assertLedgerMatchesBalance sees its own insert and what others have     *)
(* committed; an account that is gone has no balance to compare.           *)
Matches(p) ==
  LET a == current[p] IN a \in Live /\ moved[a] + opening[p] = balance[a]

(* Mutant: a mismatch is swallowed.                                        *)
CheckSilently(p) ==
  /\ pc[p] = "check"
  /\ \/ ~Matches(p) /\ Leave(p, "already-covered") /\ UNCHANGED late
     \/ /\ Matches(p)
        /\ late' = [late EXCEPT ![current[p]] = 0]
        /\ Goto(p, "commit")
        /\ UNCHANGED <<dataVars, covered, bounds, listed, queue, current, opening, failed>>

Check(p) ==
  /\ pc[p] = "check"
  /\ \/ ~Matches(p) /\ Leave(p, "failed") /\ UNCHANGED late
     \/ /\ Matches(p)
        /\ late' = [late EXCEPT ![current[p]] = 0]
        /\ Goto(p, "commit")
        /\ UNCHANGED <<dataVars, covered, bounds, listed, queue, current, opening, failed>>

Commit(p) ==
  LET a == current[p] IN
  /\ pc[p] = "commit"
  /\ covered' = covered \cup {a}
  /\ moved' = [moved EXCEPT ![a] = @ + opening[p]]
  /\ Goto(p, "next")
  /\ current' = [current EXCEPT ![p] = NoAcc]
  /\ opening' = [opening EXCEPT ![p] = 0]
  /\ UNCHANGED <<account, balance, limit, fate, row, net, late, bounds, listed, queue, failed>>

(* A statement or the commit fails: the transaction is rolled back and the *)
(* run goes on with the next account.                                      *)
Fails(p) ==
  /\ pc[p] \in {"read", "insert", "check", "commit"} /\ faults < MaxFaults
  /\ faults' = faults + 1
  /\ Goto(p, "next")
  /\ current' = [current EXCEPT ![p] = NoAcc]
  /\ opening' = [opening EXCEPT ![p] = 0]
  /\ failed' = [failed EXCEPT ![p] = @ \cup {current[p]}]
  /\ UNCHANGED <<dataVars, covered, late, escapes, listed, queue>>

Finish(p) ==
  /\ pc[p] = "next" /\ queue[p] = {}
  /\ Goto(p, "done")
  /\ UNCHANGED <<dataVars, covered, late, bounds, listed, queue, current, opening, failed>>

(* The process dies.                                                       *)
Die(p) ==
  /\ pc[p] \notin {"idle", "done"} /\ faults < MaxFaults
  /\ faults' = faults + 1
  /\ Goto(p, "idle")
  /\ current' = [current EXCEPT ![p] = NoAcc]
  /\ opening' = [opening EXCEPT ![p] = 0]
  /\ queue' = [queue EXCEPT ![p] = {}]
  /\ UNCHANGED <<dataVars, covered, late, escapes, listed, failed>>

Step(p) == Take(p) \/ Read(p) \/ Insert(p) \/ Check(p) \/ Commit(p) \/ Finish(p)

BackfillNext ==
  \/ Traffic
  \/ \E a \in Accounts, d \in Escapes : Escape(a, d)
  \/ \E p \in Runs : Start(p) \/ Step(p) \/ Fails(p) \/ Die(p)

BackfillSpec == BackfillInit /\ [][BackfillNext]_allVars

-----------------------------------------------------------------------------
(* ReconcileBalancesJobService: accounts without an opening are counted,   *)
(* the others must agree.                                                  *)
Uncovered   == {a \in Live : a \notin covered}
Divergences == {a \in Live : a \in covered /\ Gap(a) # 0}

(* What the reconciliation reports of an account that the script or its    *)
(* creation has covered is exactly what has been written around the ledger *)
(* since: no opening, however late, hides such a write, and traffic during *)
(* the backfill never looks like one.                                      *)
DriftIsEscape ==
  \A a \in Live : a \in covered => Gap(a) = late[a]

(* The sums, had every opening been there from the start.                  *)
Explained == [a \in Accounts |-> IF a \in covered THEN moved[a] ELSE balance[a]]

AsIfOpened == INSTANCE AtomicLedger WITH moved <- Explained

(* To whoever counts the missing openings in, the script is invisible:     *)
(* while no write escapes, each step of anybody is an operation of the     *)
(* atomic ledger, whose movements explain its balances, or none.           *)
ImplementsOpenedLedger == [][escapes' = 0 => AsIfOpened!Next]_(AsIfOpened!dataVars)

(* A run that reports no failure has left no account of its list without   *)
(* an opening, whatever other runs, deletions and traffic did meanwhile.   *)
CleanRunCovers ==
  \A p \in Runs : pc[p] = "done" /\ failed[p] = {} =>
    listed[p] \cap Live \subseteq covered
=============================================================================
