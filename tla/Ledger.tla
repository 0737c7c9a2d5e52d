------------------------------- MODULE Ledger -------------------------------
(***************************************************************************)
(* The transaction and account repositories as they run on PostgreSQL at   *)
(* READ COMMITTED: requests and jobs interleave statement by statement,    *)
(* rows are locked with SELECT ... FOR UPDATE or by the statement that     *)
(* writes them, and what a database transaction wrote is visible, all at   *)
(* once, when it commits.                                                  *)
(*                                                                         *)
(* A request r validates on rows nobody has locked (Start...), locks the   *)
(* transaction row (LockRow), locks the accounts in id order (LockAccount),*)
(* computes the balance changes from what it read under the locks, and     *)
(* commits, or rolls back.  All of it is per workspace: one is modelled.   *)
(***************************************************************************)
EXTENDS AtomicLedger, FiniteSets

CONSTANTS Reqs,         (* requests and job runs that can be in flight      *)
          NoReq,        (* a lock nobody holds                              *)
          NoTx          (* an operation on no transaction                   *)

ASSUME NamesAssumption == NoReq \notin Reqs /\ NoTx \notin Txs

VARIABLES
  pc,        (* where each request is                                      *)
  op,        (* what it was asked to do                                    *)
  seen,      (* the transaction row as it was under the row lock           *)
  todo,      (* the accounts it has still to lock                          *)
  read,      (* balance and limit of each account it locked, as read then  *)
  rowLock,   (* the request that holds the lock of each transaction row    *)
  accLock    (* the request that holds the lock of each account row        *)

localVars == <<pc, op, seen, todo, read, rowLock, accLock>>
vars == <<dataVars, localVars>>

Operations == {"none", "create", "update", "delete", "status", "edit", "drop"}

(* draft is the row a create or an update asks for; of a status change     *)
(* only draft.status counts.                                               *)
Op == [kind : Operations, tx : Txs \cup {NoTx}, draft : Row,
       scheduled : BOOLEAN, acc : Accounts \cup {NoAcc}, lim : Limits]

NoOp == [kind |-> "none", tx |-> NoTx, draft |-> NoRow,
         scheduled |-> FALSE, acc |-> NoAcc, lim |-> NoLimit]

Unread == [bal |-> 0, lim |-> NoLimit]

LocalTypeOK ==
  /\ pc   \in [Reqs -> {"idle", "row", "accounts", "edit", "drop", "cascade"}]
  /\ op   \in [Reqs -> Op]
  /\ seen \in [Reqs -> Row]
  /\ todo \in [Reqs -> SUBSET Accounts]
  /\ read \in [Reqs -> [Accounts -> [bal : Int, lim : Limits]]]
  /\ rowLock \in [Txs -> Reqs \cup {NoReq}]
  /\ accLock \in [Accounts -> Reqs \cup {NoReq}]

LedgerTypeOK == TypeOK /\ LocalTypeOK

LedgerInit ==
  /\ Init
  /\ pc   = [r \in Reqs |-> "idle"]
  /\ op   = [r \in Reqs |-> NoOp]
  /\ seen = [r \in Reqs |-> NoRow]
  /\ todo = [r \in Reqs |-> {}]
  /\ read = [r \in Reqs |-> [a \in Accounts |-> Unread]]
  /\ rowLock = [t \in Txs |-> NoReq]
  /\ accLock = [a \in Accounts |-> NoReq]

(* The request ends and its database transaction with it: locks released.  *)
Finish(r) ==
  /\ pc'   = [pc EXCEPT ![r] = "idle"]
  /\ op'   = [op EXCEPT ![r] = NoOp]
  /\ seen' = [seen EXCEPT ![r] = NoRow]
  /\ todo' = [todo EXCEPT ![r] = {}]
  /\ read' = [read EXCEPT ![r] = [a \in Accounts |-> Unread]]
  /\ rowLock' = [t \in Txs |-> IF rowLock[t] = r THEN NoReq ELSE rowLock[t]]
  /\ accLock' = [a \in Accounts |-> IF accLock[a] = r THEN NoReq ELSE accLock[a]]

Begin(r, step, o, accs) ==
  /\ pc[r] = "idle"
  /\ pc'   = [pc EXCEPT ![r] = step]
  /\ op'   = [op EXCEPT ![r] = o]
  /\ todo' = [todo EXCEPT ![r] = accs]
  /\ UNCHANGED <<dataVars, seen, read, rowLock, accLock>>

-----------------------------------------------------------------------------
(* The services' checks, on rows as they are before any lock.              *)

(* Bound: ids are not used up while requests that will need one run.       *)
SpareIds == Cardinality({t \in Txs : fate[t] = "unused"})
              > Cardinality({q \in Reqs : op[q].kind = "create"})

(* CreateTransactionService, PayCreditCardInvoiceService and               *)
(* CreateInstallmentPurchaseService look the accounts up first; the        *)
(* destination of a row that is not a transfer is not looked up.           *)
StartCreate(r, x) ==
  /\ SpareIds
  /\ Creatable(x) /\ x.account \in Live
  /\ x.type = "TRANSFER" => x.dest \in Live
  /\ Begin(r, "accounts", [NoOp EXCEPT !.kind = "create", !.draft = x], Refs(x))

(* UpdateTransactionService looks up the row and every account involved.   *)
StartUpdate(r, t, x) ==
  /\ fate[t] = "live" /\ Refs(row[t]) \subseteq Live
  /\ PlainRow(x) /\ x.account \in Live
  /\ x.type = "TRANSFER" => x.dest \in Live
  /\ Begin(r, "row", [NoOp EXCEPT !.kind = "update", !.tx = t, !.draft = x], {})

StartDelete(r, t) ==
  /\ fate[t] = "live"
  /\ Begin(r, "row", [NoOp EXCEPT !.kind = "delete", !.tx = t], {})

(* SetTransactionStatusService passes the request on unread.               *)
StartStatus(r, t, s) ==
  /\ fate[t] # "unused"
  /\ Begin(r, "row", [NoOp EXCEPT !.kind = "status", !.tx = t, !.draft.status = s], {})

(* findDueCardTransactions, whose dates are left out: the settlement job   *)
(* finds a pending planned row of a card and asks for its completion later.*)
StartSettlement(r, t) ==
  /\ fate[t] = "live"
  /\ row[t].status = "PENDING" /\ row[t].planned
  /\ row[t].type \in {"EXPENSE", "INCOME"} /\ IsCard(row[t].account)
  /\ Begin(r, "row", [NoOp EXCEPT !.kind = "status", !.tx = t,
                        !.draft.status = "COMPLETED", !.scheduled = TRUE], {})

(* UpdateAccountService reads the card and writes every column back: a     *)
(* request that brings no limit writes the one it read.                    *)
StartEdit(r, a, l) ==
  /\ a \in Live /\ IsCard(a)
  /\ l \in LimitChoices \cup {limit[a]}
  /\ Begin(r, "edit", [NoOp EXCEPT !.kind = "edit", !.acc = a, !.lim = l], {})

StartDrop(r, a) ==
  /\ a \in Live
  /\ Begin(r, "drop", [NoOp EXCEPT !.kind = "drop", !.acc = a], {})

-----------------------------------------------------------------------------
(* The database transaction of a request.                                  *)

Free(lock) == lock = NoReq
HeldBy(r)  == {a \in Accounts : accLock[a] = r}

(* The row the request means to leave in place of x.                       *)
Target(r, x) ==
  CASE op[r].kind = "create" -> op[r].draft
    [] op[r].kind = "update" -> Edited(x, op[r].draft)
    [] op[r].kind = "status" -> WithStatus(x, op[r].draft.status)
    [] OTHER                 -> NoRow

(* Mutant: the UPDATE of a status is not conditional.                      *)
MissedOnlyIfGone(r) == fate[op[r].tx] # "live"

(* The row is gone, or already has the status: not found, already          *)
(* completed, already pending or changed concurrently, and nothing done.   *)
(* The conditional UPDATE skips a row by the status it last committed,     *)
(* without waiting for who is changing it.                                 *)
Missed(r) ==
  LET t == op[r].tx IN
  \/ fate[t] # "live"
  \/ op[r].kind = "status" /\ row[t].status = op[r].draft.status

(* RETURNING gives the row with its new status, so a status change infers  *)
(* the old one: the other value of the enum.                               *)
StatusBefore(s) == IF s = "COMPLETED" THEN "PENDING" ELSE "COMPLETED"

Before(r, x) == IF op[r].kind = "status"
                THEN WithStatus(x, StatusBefore(op[r].draft.status)) ELSE x

(* lockTransaction, and the conditional UPDATE of a status change: wait    *)
(* for the row, then read what the last holder left.                       *)
LockRow(r) ==
  LET t == op[r].tx IN
  /\ pc[r] = "row"
  /\ ~Missed(r) /\ Free(rowLock[t])
  /\ rowLock' = [rowLock EXCEPT ![t] = r]
  /\ seen' = [seen EXCEPT ![r] = Before(r, row[t])]
  /\ todo' = [todo EXCEPT ![r] = Refs(row[t]) \cup Refs(Target(r, row[t]))]
  /\ pc'   = [pc EXCEPT ![r] = "accounts"]
  /\ UNCHANGED <<dataVars, op, read, accLock>>

RowMissed(r) ==
  /\ pc[r] = "row" /\ Missed(r)
  /\ Finish(r) /\ UNCHANGED dataVars

(* Mutant: the accounts are locked in any order.                           *)
LockAccountAnyOrder(r) ==
  \E a \in todo[r] :
    /\ pc[r] = "accounts"
    /\ todo' = [todo EXCEPT ![r] = @ \ {a}]
    /\ \/ /\ a \in Live /\ Free(accLock[a])
          /\ accLock' = [accLock EXCEPT ![a] = r]
          /\ read' = [read EXCEPT ![r][a] = [bal |-> balance[a], lim |-> limit[a]]]
       \/ /\ a \notin Live
          /\ UNCHANGED <<accLock, read>>
    /\ UNCHANGED <<dataVars, pc, op, seen, rowLock>>

(* SELECT ... ORDER BY id FOR UPDATE: the accounts one by one, smallest id *)
(* first; one that was deleted is not returned.                            *)
LockAccount(r) ==
  \E a \in todo[r] :
    /\ pc[r] = "accounts"
    /\ \A b \in todo[r] : a <= b
    /\ todo' = [todo EXCEPT ![r] = @ \ {a}]
    /\ \/ /\ a \in Live /\ Free(accLock[a])
          /\ accLock' = [accLock EXCEPT ![a] = r]
          /\ read' = [read EXCEPT ![r][a] = [bal |-> balance[a], lim |-> limit[a]]]
       \/ /\ a \notin Live
          /\ UNCHANGED <<accLock, read>>
    /\ UNCHANGED <<dataVars, pc, op, seen, rowLock>>

(* Mutant: an account that was not found is passed over.                   *)
AdmittedUnfound(r) ==
  \A a \in Accounts :
    Admits(a, read[r][a].bal, read[r][a].lim, seen[r], Target(r, seen[r]), op[r].scheduled)

(* The effects pass the rules on the balances and limits that were read.   *)
(* An effect on an account that was not found, and a row that names one    *)
(* (a foreign key), end the request.                                       *)
Admitted(r) ==
  LET old == seen[r]
      new == Target(r, old)
  IN /\ Refs(new) \subseteq HeldBy(r)
     /\ \A a \in Accounts :
          Admits(a, read[r][a].bal, read[r][a].lim, old, new, op[r].scheduled)

(* writeBalanceDeltas: the difference the effects made to the balances     *)
(* read is added to the stored balance and recorded as a movement.         *)
WriteDeltas(r, t) ==
  LET d == [a \in Accounts |-> Delta(seen[r], Target(r, seen[r]), a)]
  IN /\ balance' = [a \in Accounts |-> balance[a] + d[a]]
     /\ moved'   = [a \in Accounts |-> moved[a] + d[a]]
     /\ net'     = [net EXCEPT ![t] = [a \in Accounts |-> net[t][a] + d[a]]]

Ready(r, kind) == pc[r] = "accounts" /\ todo[r] = {} /\ op[r].kind = kind

CommitCreate(r, t) ==
  /\ Ready(r, "create") /\ fate[t] = "unused"
  /\ Admitted(r) /\ WriteDeltas(r, t)
  /\ fate' = [fate EXCEPT ![t] = "live"]
  /\ row'  = [row EXCEPT ![t] = op[r].draft]
  /\ Finish(r) /\ UNCHANGED <<account, limit>>

CommitUpdate(r) ==
  LET t == op[r].tx IN
  /\ Ready(r, "update")
  /\ Admitted(r) /\ WriteDeltas(r, t)
  /\ row' = [row EXCEPT ![t] = Edited(seen[r], op[r].draft)]
  /\ Finish(r) /\ UNCHANGED <<account, limit, fate>>

CommitDelete(r) ==
  LET t == op[r].tx IN
  /\ Ready(r, "delete")
  /\ Admitted(r) /\ WriteDeltas(r, t)
  /\ fate' = [fate EXCEPT ![t] = "deleted"]
  /\ row'  = [row EXCEPT ![t] = NoRow]
  /\ Finish(r) /\ UNCHANGED <<account, limit>>

CommitStatus(r) ==
  LET t == op[r].tx IN
  /\ Ready(r, "status")
  /\ Admitted(r) /\ WriteDeltas(r, t)
  /\ row' = [row EXCEPT ![t] = WithStatus(seen[r], op[r].draft.status)]
  /\ Finish(r) /\ UNCHANGED <<account, limit, fate>>

(* Mutant: the error leaves the database transaction open.                 *)
RejectUnrolled(r) ==
  /\ pc[r] = "accounts" /\ todo[r] = {} /\ ~Admitted(r)
  /\ pc' = [pc EXCEPT ![r] = "idle"]
  /\ op' = [op EXCEPT ![r] = NoOp]
  /\ UNCHANGED <<dataVars, seen, todo, read, rowLock, accLock>>

(* A domain error thrown inside the transaction rolls it back.             *)
Reject(r) ==
  /\ pc[r] = "accounts" /\ todo[r] = {} /\ ~Admitted(r)
  /\ Finish(r) /\ UNCHANGED dataVars

(* A request that waits can be cancelled: lock_timeout, statement_timeout, *)
(* the deadlock detector or a foreign key, and any can lose its connection *)
(* or its process.  PostgreSQL rolls the transaction back.                 *)
Abort(r) ==
  /\ pc[r] # "idle"
  /\ Finish(r) /\ UNCHANGED dataVars

-----------------------------------------------------------------------------
(* Accounts, and the rows the recurring job inserts.                       *)

(* The UPDATE waits for a locked row, and finds none if it was deleted.    *)
WriteEdit(r) ==
  LET a == op[r].acc IN
  /\ pc[r] = "edit" /\ Free(accLock[a])
  /\ limit' = IF a \in Live THEN [limit EXCEPT ![a] = op[r].lim] ELSE limit
  /\ Finish(r) /\ UNCHANGED <<account, balance, fate, row, moved, net>>

(* DELETE FROM accounts locks the account, then its foreign keys reach for *)
(* the transactions that name it, in an order of their own.                *)
LockDropped(r) ==
  LET a == op[r].acc IN
  /\ pc[r] = "drop" /\ a \in Live /\ Free(accLock[a])
  /\ accLock' = [accLock EXCEPT ![a] = r]
  /\ pc' = [pc EXCEPT ![r] = "cascade"]
  /\ UNCHANGED <<dataVars, op, seen, todo, read, rowLock>>

DropMissed(r) ==
  /\ pc[r] = "drop" /\ op[r].acc \notin Live
  /\ Finish(r) /\ UNCHANGED dataVars

Naming(a) == {t \in Txs : fate[t] = "live" /\ a \in Refs(row[t])}

LockCascaded(r, t) ==
  /\ pc[r] = "cascade" /\ t \in Naming(op[r].acc) /\ Free(rowLock[t])
  /\ rowLock' = [rowLock EXCEPT ![t] = r]
  /\ UNCHANGED <<dataVars, pc, op, seen, todo, read, accLock>>

CommitDrop(r) ==
  /\ pc[r] = "cascade" /\ \A t \in Naming(op[r].acc) : rowLock[t] = r
  /\ DropAccount(op[r].acc)
  /\ Finish(r)

(* One statement: a new account is locked by nobody.                       *)
Open(a, b, l) == OpenAccount(a, b, l) /\ UNCHANGED localVars

(* The insert takes a key-share lock on the accounts it names, so it waits *)
(* for whoever holds them FOR UPDATE.                                      *)
InsertOccurrence(t, x) ==
  /\ SpareIds
  /\ Generate(t, x)
  /\ \A a \in Refs(x) : Free(accLock[a])
  /\ UNCHANGED localVars

-----------------------------------------------------------------------------
Start(r) ==
  \/ \E x \in Drafts : StartCreate(r, x)
  \/ \E t \in Txs, x \in Drafts : StartUpdate(r, t, x)
  \/ \E t \in Txs : StartDelete(r, t)
  \/ \E t \in Txs, s \in Statuses : StartStatus(r, t, s)
  \/ \E t \in Txs : StartSettlement(r, t)

StartOnAccount(r) ==
  \/ \E a \in Accounts, l \in LimitChoices \cup {NoLimit} : StartEdit(r, a, l)
  \/ \E a \in Accounts : StartDrop(r, a)

(* The steps that carry a request to its end.                              *)
Step(r) ==
  \/ LockRow(r)
  \/ RowMissed(r)
  \/ LockAccount(r)
  \/ \E t \in Txs : CommitCreate(r, t)
  \/ CommitUpdate(r)
  \/ CommitDelete(r)
  \/ CommitStatus(r)
  \/ Reject(r)
  \/ WriteEdit(r)

DropStep(r) ==
  \/ LockDropped(r)
  \/ DropMissed(r)
  \/ \E t \in Txs : LockCascaded(r, t)
  \/ CommitDrop(r)

Environment ==
  \/ \E a \in Accounts, b \in Openings \cup {0}, l \in LimitChoices \cup {NoLimit} : Open(a, b, l)
  \/ \E t \in Txs, x \in Drafts : InsertOccurrence(t, x)

LedgerNext ==
  \/ \E r \in Reqs : Start(r) \/ StartOnAccount(r) \/ Step(r) \/ DropStep(r) \/ Abort(r)
  \/ Environment

LedgerSpec == LedgerInit /\ [][LedgerNext]_vars

-----------------------------------------------------------------------------
(* Every operation takes effect at one instant on the current state: the   *)
(* locks make the reads of a request as good as reads at its commit.       *)
ImplementsAtomicLedger == Init /\ [][Next]_dataVars

(* Whoever is about to write still sees what it read: nobody has touched   *)
(* the row and the accounts a request has locked since it locked them.     *)
ReadsAreCurrent ==
  \A r \in Reqs : pc[r] = "accounts" =>
    /\ op[r].kind # "create" => seen[r] = row[op[r].tx]
    /\ \A a \in HeldBy(r) : read[r][a] = [bal |-> balance[a], lim |-> limit[a]]

(* r cannot move before q ends.                                            *)
WaitsFor(r, q) ==
  \/ pc[r] = "row" /\ ~Missed(r) /\ rowLock[op[r].tx] = q
  \/ /\ pc[r] = "accounts"
     /\ \E a \in todo[r] : (\A b \in todo[r] : a <= b) /\ accLock[a] = q
  \/ pc[r] \in {"edit", "drop"} /\ accLock[op[r].acc] = q
  \/ pc[r] = "cascade" /\ q # r /\ \E t \in Naming(op[r].acc) : rowLock[t] = q

(* Requests on transactions and cards never wait for each other in a       *)
(* circle: each locks its row before any account, and accounts in id       *)
(* order.  Account deletions, which lock the other way round, are not      *)
(* among them.                                                             *)
NoWaitCycle ==
  \A S \in SUBSET {r \in Reqs : pc[r] \in {"row", "accounts", "edit"}} :
    S = {} \/ \E r \in S : \A q \in S : ~WaitsFor(r, q)

-----------------------------------------------------------------------------
(* PostgreSQL's detector cancels a request of a circle (an account         *)
(* deletion takes part in it).                                             *)
DeadlockVictim ==
  \E S \in SUBSET Reqs :
    /\ S # {} /\ \A r \in S : \E q \in S : WaitsFor(r, q)
    /\ \E r \in S : Abort(r)

(* The locks are granted in the order they were asked for, so one that is  *)
(* released again and again is obtained.                                   *)
FairSpec ==
  /\ LedgerSpec
  /\ \A r \in Reqs : SF_vars(Step(r) \/ DropStep(r))
  /\ WF_vars(DeadlockVictim)

(* That is enough: no request waits for ever, whatever the others do.      *)
EveryRequestEnds == \A r \in Reqs : pc[r] # "idle" ~> pc[r] = "idle"
=============================================================================
