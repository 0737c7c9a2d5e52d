---------------------------- MODULE AtomicLedger ----------------------------
(***************************************************************************)
(* What the transaction and account repositories promise: every operation  *)
(* takes effect at one instant, on the state it finds there, and updates   *)
(* together the row, the balances of the accounts it moves and their       *)
(* balance_movements.  No locks, no requests in flight.  Module Ledger is  *)
(* the code, and is shown to implement this one.                           *)
(*                                                                         *)
(* balance_movements is kept as two sums: moved[a] is SUM(delta) of the    *)
(* account (what the reconciliation job computes) and net[t][a] the part   *)
(* of it that names transaction t.                                         *)
(***************************************************************************)
EXTENDS LedgerRules

CONSTANTS Txs,          (* ids transactions can get; an id is used once    *)
          Drafts,       (* the rows requests may ask for                   *)
          Openings,     (* opening balances of new accounts                *)
          LimitChoices  (* credit limits of new and edited cards           *)

ASSUME InputsAssumption ==
  /\ Drafts \subseteq Row
  /\ Openings \subseteq Int
  /\ LimitChoices \subseteq Nat \ {0}

VARIABLES
  account,   (* "unborn", "live" or "gone": is there a row in accounts     *)
  balance,   (* accounts.balance                                           *)
  limit,     (* accounts.credit_limit                                      *)
  fate,      (* of each transaction id: unused, live, deleted, cascaded    *)
  row,       (* the columns of a live transaction, NoRow of any other      *)
  moved,     (* SUM(delta) of each account's movements                     *)
  net        (* SUM(delta) by transaction and account                      *)

dataVars == <<account, balance, limit, fate, row, moved, net>>

TypeOK ==
  /\ account \in [Accounts -> {"unborn", "live", "gone"}]
  /\ balance \in [Accounts -> Int]
  /\ limit   \in [Accounts -> Limits]
  /\ fate    \in [Txs -> {"unused", "live", "deleted", "cascaded"}]
  /\ row     \in [Txs -> Row]
  /\ moved   \in [Accounts -> Int]
  /\ net     \in [Txs -> [Accounts -> Int]]

Init ==
  /\ account = [a \in Accounts |-> "unborn"]
  /\ balance = [a \in Accounts |-> 0]
  /\ limit   = [a \in Accounts |-> NoLimit]
  /\ fate    = [t \in Txs |-> "unused"]
  /\ row     = [t \in Txs |-> NoRow]
  /\ moved   = [a \in Accounts |-> 0]
  /\ net     = [t \in Txs |-> [a \in Accounts |-> 0]]

Live == {a \in Accounts : account[a] = "live"}

(* applyBalanceEffects and writeBalanceDeltas: replace row old of t by new *)
(* if every account agrees, move the balances and record the movements.    *)
Replace(t, old, new, scheduled) ==
  /\ \A a \in Accounts : Admits(a, balance[a], limit[a], old, new, scheduled)
  /\ balance' = [a \in Accounts |-> balance[a] + Delta(old, new, a)]
  /\ moved'   = [a \in Accounts |-> moved[a] + Delta(old, new, a)]
  /\ net'     = [net EXCEPT ![t] = [a \in Accounts |-> net[t][a] + Delta(old, new, a)]]

(* createWithBalanceUpdate and the transaction of createInstallmentPlan.   *)
CreateTx(t, x) ==
  /\ fate[t] = "unused"
  /\ Creatable(x) /\ Refs(x) \subseteq Live
  /\ Replace(t, NoRow, x, FALSE)
  /\ fate' = [fate EXCEPT ![t] = "live"]
  /\ row'  = [row EXCEPT ![t] = x]
  /\ UNCHANGED <<account, limit>>

(* An edit keeps the recurring rule of the row and nothing else of it.     *)
Edited(old, x) == [x EXCEPT !.planned = old.planned]

UpdateTx(t, x) ==
  /\ fate[t] = "live"
  /\ PlainRow(x) /\ Refs(x) \subseteq Live
  /\ Replace(t, row[t], Edited(row[t], x), FALSE)
  /\ row' = [row EXCEPT ![t] = Edited(row[t], x)]
  /\ UNCHANGED <<account, limit, fate>>

(* Mutant: a deletion does not undo the effect.                            *)
DeleteWithoutUndo(t) ==
  /\ fate[t] = "live"
  /\ fate' = [fate EXCEPT ![t] = "deleted"]
  /\ row'  = [row EXCEPT ![t] = NoRow]
  /\ UNCHANGED <<account, balance, limit, moved, net>>

(* deleteWithBalanceEffect.                                                *)
DeleteTx(t) ==
  /\ fate[t] = "live"
  /\ Replace(t, row[t], NoRow, FALSE)
  /\ fate' = [fate EXCEPT ![t] = "deleted"]
  /\ row'  = [row EXCEPT ![t] = NoRow]
  /\ UNCHANGED <<account, limit>>

WithStatus(x, s) == [x EXCEPT !.status = s]

SetStatus(t, s, scheduled) ==
  /\ fate[t] = "live" /\ row[t].status # s
  /\ scheduled => s = "COMPLETED" /\ row[t].planned
  /\ Replace(t, row[t], WithStatus(row[t], s), scheduled)
  /\ row' = [row EXCEPT ![t] = WithStatus(row[t], s)]
  /\ UNCHANGED <<account, limit, fate>>

(* createGeneratedTransactions inserts a pending occurrence: no balance.   *)
Generate(t, x) ==
  /\ fate[t] = "unused"
  /\ Occurrence(x) /\ Refs(x) \subseteq Live
  /\ fate' = [fate EXCEPT ![t] = "live"]
  /\ row'  = [row EXCEPT ![t] = x]
  /\ UNCHANGED <<account, balance, limit, moved, net>>

(* Mutant: no opening movement is inserted.                                *)
OpenWithoutMovement(a, b, l) ==
  /\ account[a] = "unborn"
  /\ IF IsCard(a) THEN b = 0 ELSE b \in Openings /\ l = NoLimit
  /\ Kind[a] \in Blocked => b >= 0
  /\ account' = [account EXCEPT ![a] = "live"]
  /\ balance' = [balance EXCEPT ![a] = b]
  /\ limit'   = [limit EXCEPT ![a] = l]
  /\ UNCHANGED <<fate, row, moved, net>>

(* createWithOpeningMovement: a card starts with no debt, no other account *)
(* has a limit, and only a checking account may start below zero.          *)
OpenAccount(a, b, l) ==
  /\ account[a] = "unborn"
  /\ IF IsCard(a) THEN b = 0 ELSE b \in Openings /\ l = NoLimit
  /\ Kind[a] \in Blocked => b >= 0
  /\ account' = [account EXCEPT ![a] = "live"]
  /\ balance' = [balance EXCEPT ![a] = b]
  /\ limit'   = [limit EXCEPT ![a] = l]
  /\ moved'   = [moved EXCEPT ![a] = @ + b]
  /\ UNCHANGED <<fate, row, net>>

(* AccountRepository.update writes the limit, never the balance.           *)
EditAccount(a, l) ==
  /\ a \in Live /\ IsCard(a)
  /\ limit' = [limit EXCEPT ![a] = l]
  /\ UNCHANGED <<account, balance, fate, row, moved, net>>

(* AccountRepository.delete and its foreign keys: the transactions of the  *)
(* account are deleted, those that only named it as destination lose it.   *)
(* Nothing is given back to the other accounts, and movements stay.        *)
DropAccount(a) ==
  /\ a \in Live
  /\ account' = [account EXCEPT ![a] = "gone"]
  /\ fate' = [t \in Txs |-> IF fate[t] = "live" /\ row[t].account = a
                            THEN "cascaded" ELSE fate[t]]
  /\ row'  = [t \in Txs |-> IF row[t].account = a THEN NoRow
                            ELSE IF row[t].dest = a
                                 THEN [row[t] EXCEPT !.dest = NoAcc]
                                 ELSE row[t]]
  /\ UNCHANGED <<balance, limit, moved, net>>

Next ==
  \/ \E t \in Txs, x \in Drafts : CreateTx(t, x)
  \/ \E t \in Txs, x \in Drafts : UpdateTx(t, x)
  \/ \E t \in Txs : DeleteTx(t)
  \/ \E t \in Txs, s \in Statuses, scheduled \in BOOLEAN : SetStatus(t, s, scheduled)
  \/ \E t \in Txs, x \in Drafts : Generate(t, x)
  \/ \E a \in Accounts, b \in Openings \cup {0}, l \in LimitChoices \cup {NoLimit} : OpenAccount(a, b, l)
  \/ \E a \in Accounts, l \in LimitChoices \cup {NoLimit} : EditAccount(a, l)
  \/ \E a \in Accounts : DropAccount(a)

Spec == Init /\ [][Next]_dataVars

-----------------------------------------------------------------------------
(* The reconciliation job never finds a divergence: the movements of every *)
(* existing account add up to its balance.                                 *)
MovementsExplainBalance == \A a \in Live : moved[a] = balance[a]

(* Every transaction has moved every existing account by exactly what its  *)
(* current row says, once, whatever edits, status changes and deletions    *)
(* went before; a deleted one by nothing.  Only a row removed by the       *)
(* cascade of an account deletion leaves what it had done to others.       *)
EffectsAppliedOnce ==
  \A t \in Txs : fate[t] # "cascaded" =>
    \A a \in Live : net[t][a] = Effect(row[t], a)

(* Cash and investment accounts are never overdrawn.                       *)
NoOverdraft == \A a \in Live : Kind[a] \in Blocked => balance[a] >= 0

(* No existing transaction names an account that does not exist, although  *)
(* edits and creations choose their accounts before they lock them.        *)
RowsNameLiveAccounts ==
  \A t \in Txs : fate[t] = "live" => row[t].account \in Live /\ Refs(row[t]) \subseteq Live

(* t is a planned charge or credit of card a that this step completes.     *)
Settles(t, a) ==
  /\ row[t].planned /\ row[t].account = a
  /\ row[t].status = "PENDING" /\ row' = [row EXCEPT ![t].status = "COMPLETED"]

(* A card's debt rises above its limit, or falls below zero, only in the   *)
(* step that settles a planned transaction of that card: only the          *)
(* settlement job switches the checks off.                                 *)
CardBand ==
  [][\A a \in Accounts : IsCard(a) /\ account[a] = "live" =>
       \/ balance'[a] = balance[a]
       \/ balance'[a] > balance[a] /\ (limit[a] = NoLimit \/ balance'[a] <= limit[a])
       \/ balance'[a] < balance[a] /\ balance'[a] >= 0
       \/ \E t \in Txs : Settles(t, a)]_dataVars
=============================================================================
