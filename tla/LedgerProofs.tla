---------------------------- MODULE LedgerProofs ----------------------------
(***************************************************************************)
(* Ledger implements AtomicLedger, for any accounts, transactions,         *)
(* requests and drafts, and so keeps what AtomicLedger promises.  LInv     *)
(* says, request by request, what holding a lock entitles it to.           *)
(***************************************************************************)
EXTENDS Ledger, AtomicLedgerProofs, WellFoundedInduction

USE AccountsAssumption, InputsAssumption, NamesAssumption

OnRow == {"update", "delete", "status"}

(* A limit was chosen by a creation or an edit.                            *)
LimitsChosen == limit \in [Accounts -> LimitChoices \cup {NoLimit}]

(* What a request at this step was started with: its service's checks.     *)
AskedAt(step, o) ==
  /\ step = "row" => o.kind \in OnRow
  /\ step = "accounts" => o.kind \in OnRow \cup {"create"}
  /\ step = "edit" => o.acc \in Accounts /\ IsCard(o.acc) /\ o.lim \in LimitChoices \cup {NoLimit}
  /\ step \in {"drop", "cascade"} => o.acc \in Accounts
  /\ o.kind \in OnRow => o.tx \in Txs
  /\ o.kind = "create" => o.draft \in Drafts /\ Creatable(o.draft)
  /\ o.kind = "update" => o.draft \in Drafts /\ PlainRow(o.draft)
  /\ o.scheduled => /\ o.kind = "status" /\ o.draft.status = "COMPLETED"
                    /\ fate[o.tx] # "unused"
                    /\ fate[o.tx] = "live" => row[o.tx].planned

Asked(r) == AskedAt(pc[r], op[r])

(* Nobody deletes, moves or edits an account r holds but r; r holds only   *)
(* the accounts it read or the one it deletes.                             *)
HoldsAccounts(r) ==
  /\ \A a \in HeldBy(r) :
       /\ account[a] = "live"
       /\ \/ pc[r] = "accounts" /\ read[r][a] = [bal |-> balance[a], lim |-> limit[a]]
          \/ pc[r] = "cascade" /\ a = op[r].acc
  /\ pc[r] = "cascade" => op[r].acc \in HeldBy(r)

(* The row r works on is its own, live, as it read it, and every account   *)
(* it names is locked or will be.                                          *)
HoldsRow(r) ==
  /\ \A t \in Txs : rowLock[t] = r =>
       /\ fate[t] = "live"
       /\ \/ pc[r] = "accounts" /\ op[r].kind \in OnRow /\ t = op[r].tx
          \/ pc[r] = "cascade"
  /\ pc[r] = "accounts" /\ op[r].kind \in OnRow =>
       /\ rowLock[op[r].tx] = r /\ fate[op[r].tx] = "live"
       /\ seen[r] = row[op[r].tx]
       /\ Refs(seen[r]) \subseteq HeldBy(r) \cup todo[r]
       /\ op[r].kind = "status" => seen[r].status # op[r].draft.status
  /\ pc[r] = "accounts" /\ op[r].kind = "create" => seen[r] = NoRow
  /\ pc[r] = "idle" => seen[r] = NoRow

LInv ==
  /\ IInv /\ LocalTypeOK /\ LimitsChosen
  /\ \A r \in Reqs : Asked(r) /\ HoldsAccounts(r) /\ HoldsRow(r)

-----------------------------------------------------------------------------
LEMMA InitLInv == LedgerInit => LInv
<1> SUFFICES ASSUME LedgerInit PROVE LInv
  OBVIOUS
<1> USE DEF LedgerInit
<1>1. IInv
  BY InitIInv
<1>2. LocalTypeOK
  BY NoRowType DEF LocalTypeOK, NoOp, Op, Operations, Unread, Limits
<1>3. LimitsChosen
  BY DEF Init, LimitsChosen
<1>4. \A r \in Reqs : Asked(r)
  BY DEF Asked, AskedAt, NoOp, OnRow
<1>5. \A r \in Reqs : HoldsAccounts(r) /\ HoldsRow(r)
  BY DEF HoldsAccounts, HoldsRow, HeldBy
<1> QED
  BY <1>1, <1>2, <1>3, <1>4, <1>5 DEF LInv

-----------------------------------------------------------------------------
(* Refinement: a commit is one step of AtomicLedger, every other step      *)
(* changes no data.                                                        *)

(* Once it has its locks, a request that touches row t works on row[t].    *)
LEMMA ReadyRow ==
  ASSUME LInv, NEW r \in Reqs, pc[r] = "accounts", todo[r] = {}, op[r].kind \in OnRow
  PROVE  /\ op[r].tx \in Txs /\ fate[op[r].tx] = "live"
         /\ seen[r] = row[op[r].tx] /\ seen[r] \in Row
         /\ Refs(seen[r]) \subseteq HeldBy(r)
<1>1. op[r].tx \in Txs
  BY DEF LInv, Asked, AskedAt
<1>2. fate[op[r].tx] = "live" /\ seen[r] = row[op[r].tx] /\ Refs(seen[r]) \subseteq HeldBy(r)
  BY DEF LInv, HoldsRow
<1>3. row[op[r].tx] \in Row
  BY <1>1 DEF LInv, IInv, TypeOK
<1> QED
  BY <1>1, <1>2, <1>3

LEMMA TargetType ==
  ASSUME LInv, NEW r \in Reqs, NEW x \in Row
  PROVE  Target(r, x) \in Row
<1>1. op[r].draft \in Row
  BY DEF LInv, LocalTypeOK, Op
<1>2. Edited(x, op[r].draft) \in Row
  BY <1>1 DEF Edited, Row
<1>3. WithStatus(x, op[r].draft.status) \in Row
  BY <1>1 DEF WithStatus, Row
<1> QED
  BY <1>1, <1>2, <1>3, NoRowType DEF Target

(* What the accounts agreed to on the values read they would agree to now, *)
(* and the deltas are those of AtomicLedger.                               *)
LEMMA CommitReplaces ==
  ASSUME LInv, NEW r \in Reqs, NEW t \in Txs, pc[r] = "accounts",
         seen[r] \in Row, Refs(seen[r]) \subseteq HeldBy(r),
         Admitted(r), WriteDeltas(r, t)
  PROVE  Replace(t, seen[r], Target(r, seen[r]), op[r].scheduled)
<1> DEFINE old == seen[r]
           new == Target(r, seen[r])
           sch == op[r].scheduled
<1>1. new \in Row /\ Refs(new) \subseteq HeldBy(r)
  BY TargetType DEF Admitted
<1>2. ASSUME NEW a \in Accounts
      PROVE  Admits(a, balance[a], limit[a], old, new, sch)
  <2>1. CASE a \in HeldBy(r)
    <3>1. read[r][a] = [bal |-> balance[a], lim |-> limit[a]]
      BY <2>1 DEF LInv, HoldsAccounts
    <3>2. Admits(a, read[r][a].bal, read[r][a].lim, old, new, sch)
      BY DEF Admitted
    <3>3. read[r][a].bal = balance[a] /\ read[r][a].lim = limit[a]
      BY <3>1
    <3> HIDE DEF old, new, sch
    <3> QED
      BY <3>2, <3>3
  <2>2. CASE a \notin HeldBy(r)
    <3>1. a \notin Refs(old) /\ a \notin Refs(new)
      BY <1>1, <2>2
    <3> HIDE DEF new
    <3> HIDE DEF old
    <3>2. Effect(old, a) = 0
      BY <3>1, EffectNamed DEF old
    <3>3. Effect(new, a) = 0
      BY <1>1, <3>1, EffectNamed
    <3>4. -Effect(old, a) = 0 - Effect(old, a)
      <4>1. Effect(old, a) \in Int
        BY EffectType DEF old
      <4>2. \A e \in Int : -e = 0 - e
        OBVIOUS
      <4> QED
        BY <4>1, <4>2
    <3>5. 0 - Effect(old, a) = 0
      BY <3>2
    <3>6. Accepts(a, balance[a], limit[a], -Effect(old, a), sch)
      BY <3>4, <3>5 DEF Accepts
    <3>7. Accepts(a, balance[a] - Effect(old, a), limit[a], Effect(new, a), sch)
      BY <3>3 DEF Accepts
    <3> QED
      BY <3>6, <3>7 DEF Admits
  <2> QED
    BY <2>1, <2>2
<1>3. /\ balance' = [a \in Accounts |-> balance[a] + Delta(old, new, a)]
      /\ moved'   = [a \in Accounts |-> moved[a] + Delta(old, new, a)]
      /\ net'     = [net EXCEPT ![t] = [a \in Accounts |-> net[t][a] + Delta(old, new, a)]]
  BY DEF WriteDeltas
<1> HIDE DEF old, new, sch
<1>4. Replace(t, old, new, sch)
  BY <1>2, <1>3 DEF Replace
<1> QED
  BY <1>4 DEF old, new, sch

LEMMA HeldLive ==
  ASSUME LInv, NEW r \in Reqs
  PROVE  HeldBy(r) \subseteq Live
BY DEF LInv, HoldsAccounts, HeldBy, Live

LEMMA CreateRefines ==
  ASSUME LInv, NEW r \in Reqs, NEW t \in Txs, CommitCreate(r, t)
  PROVE  \E x \in Drafts : CreateTx(t, x)
<1> DEFINE x == op[r].draft
<1> USE DEF CommitCreate, Ready
<1>1. x \in Drafts /\ Creatable(x) /\ op[r].scheduled = FALSE /\ seen[r] = NoRow
  BY DEF LInv, LocalTypeOK, Op, Asked, AskedAt, HoldsRow
<1>2. seen[r] \in Row /\ Refs(seen[r]) \subseteq HeldBy(r)
  BY <1>1, NoRowType DEF Refs, NoRow
<1>3. Target(r, seen[r]) = x
  BY DEF Target
<1>4. Replace(t, NoRow, x, FALSE)
  BY <1>1, <1>2, <1>3, CommitReplaces
<1>5. Refs(x) \subseteq Live
  BY <1>3, HeldLive DEF Admitted
<1>6. CreateTx(t, x)
  BY <1>1, <1>4, <1>5 DEF CreateTx
<1> QED
  BY <1>1, <1>6

LEMMA UpdateRefines ==
  ASSUME LInv, NEW r \in Reqs, CommitUpdate(r)
  PROVE  \E t \in Txs, x \in Drafts : UpdateTx(t, x)
<1> DEFINE x == op[r].draft
           t == op[r].tx
<1> USE DEF CommitUpdate, Ready
<1>1. x \in Drafts /\ PlainRow(x) /\ op[r].scheduled = FALSE
  BY DEF LInv, LocalTypeOK, Op, Asked, AskedAt
<1>2. t \in Txs /\ fate[t] = "live" /\ seen[r] = row[t]
      /\ seen[r] \in Row /\ Refs(seen[r]) \subseteq HeldBy(r)
  BY ReadyRow DEF OnRow
<1>3. Target(r, seen[r]) = Edited(row[t], x)
  BY <1>2 DEF Target
<1>4. Replace(t, row[t], Edited(row[t], x), FALSE)
  BY <1>1, <1>2, <1>3, CommitReplaces
<1>5. Refs(Edited(row[t], x)) \subseteq Live
  BY <1>3, HeldLive DEF Admitted
<1>6. Refs(Edited(row[t], x)) = Refs(x)
  BY <1>1 DEF Refs, Edited, Row
<1>7. UpdateTx(t, x)
  BY <1>1, <1>2, <1>4, <1>5, <1>6 DEF UpdateTx
<1> QED
  BY <1>1, <1>2, <1>7

LEMMA DeleteRefines ==
  ASSUME LInv, NEW r \in Reqs, CommitDelete(r)
  PROVE  \E t \in Txs : DeleteTx(t)
<1> DEFINE t == op[r].tx
<1> USE DEF CommitDelete, Ready
<1>1. op[r].scheduled = FALSE
  BY DEF LInv, LocalTypeOK, Op, Asked, AskedAt
<1>2. t \in Txs /\ fate[t] = "live" /\ seen[r] = row[t]
      /\ seen[r] \in Row /\ Refs(seen[r]) \subseteq HeldBy(r)
  BY ReadyRow DEF OnRow
<1>3. Target(r, seen[r]) = NoRow
  BY DEF Target
<1>4. Replace(t, row[t], NoRow, FALSE)
  BY <1>1, <1>2, <1>3, CommitReplaces
<1> QED
  BY <1>2, <1>4 DEF DeleteTx

LEMMA StatusRefines ==
  ASSUME LInv, NEW r \in Reqs, CommitStatus(r)
  PROVE  \E t \in Txs, s \in Statuses, scheduled \in BOOLEAN : SetStatus(t, s, scheduled)
<1> DEFINE t == op[r].tx
           s == op[r].draft.status
           sch == op[r].scheduled
<1> USE DEF CommitStatus, Ready
<1>1. t \in Txs /\ fate[t] = "live" /\ seen[r] = row[t]
      /\ seen[r] \in Row /\ Refs(seen[r]) \subseteq HeldBy(r)
  BY ReadyRow DEF OnRow
<1>2. row[t].status # s /\ s \in Statuses /\ sch \in BOOLEAN
  BY <1>1 DEF LInv, LocalTypeOK, Op, Row, HoldsRow, OnRow
<1>3. sch => s = "COMPLETED" /\ row[t].planned
  BY <1>1 DEF LInv, Asked, AskedAt
<1>4. Target(r, seen[r]) = WithStatus(row[t], s)
  BY <1>1 DEF Target
<1>5. Replace(t, row[t], WithStatus(row[t], s), sch)
  BY <1>1, <1>4, CommitReplaces
<1>6. row' = [row EXCEPT ![t] = WithStatus(row[t], s)]
  BY <1>1
<1>7. SetStatus(t, s, sch)
  BY <1>1, <1>2, <1>3, <1>5, <1>6 DEF SetStatus
<1> QED
  BY <1>1, <1>2, <1>7

LEMMA EditRefines ==
  ASSUME LInv, NEW r \in Reqs, WriteEdit(r)
  PROVE  [Next]_dataVars
<1> DEFINE a == op[r].acc
           l == op[r].lim
<1> USE DEF WriteEdit
<1>1. a \in Accounts /\ IsCard(a) /\ l \in LimitChoices \cup {NoLimit}
  BY DEF LInv, Asked, AskedAt
<1>2. CASE a \in Live
  <2>1. EditAccount(a, l)
    BY <1>1, <1>2 DEF EditAccount
  <2> QED
    BY <1>1, <2>1 DEF Next
<1>3. CASE a \notin Live
  BY <1>3 DEF dataVars
<1> QED
  BY <1>2, <1>3

(* Every step of the code is a step of AtomicLedger or leaves the data.    *)
LEMMA StepRefines == LInv /\ [LedgerNext]_vars => [Next]_dataVars
<1> SUFFICES ASSUME LInv, LedgerNext PROVE [Next]_dataVars
  BY DEF vars, dataVars
<1>1. ASSUME NEW r \in Reqs, Start(r) \/ StartOnAccount(r) PROVE UNCHANGED dataVars
  BY <1>1 DEF Start, StartOnAccount, StartCreate, StartUpdate, StartDelete, StartStatus,
       StartSettlement, StartEdit, StartDrop, Begin
<1>2. ASSUME NEW r \in Reqs, Step(r) PROVE [Next]_dataVars
  <2>1. CASE LockRow(r) \/ RowMissed(r) \/ LockAccount(r) \/ Reject(r)
    BY <2>1 DEF LockRow, RowMissed, LockAccount, Reject
  <2>2. ASSUME NEW t \in Txs, CommitCreate(r, t) PROVE Next
    BY <2>2, CreateRefines DEF Next
  <2>3. CASE CommitUpdate(r)
    BY <2>3, UpdateRefines DEF Next
  <2>4. CASE CommitDelete(r)
    BY <2>4, DeleteRefines DEF Next
  <2>5. CASE CommitStatus(r)
    BY <2>5, StatusRefines DEF Next
  <2>6. CASE WriteEdit(r)
    BY <2>6, EditRefines
  <2> QED
    BY <1>2, <2>1, <2>2, <2>3, <2>4, <2>5, <2>6 DEF Step
<1>3. ASSUME NEW r \in Reqs, DropStep(r) PROVE [Next]_dataVars
  <2>1. CASE CommitDrop(r)
    BY <2>1 DEF CommitDrop, DropAccount, Live, Next
  <2>2. CASE LockDropped(r) \/ DropMissed(r) \/ \E t \in Txs : LockCascaded(r, t)
    BY <2>2 DEF LockDropped, DropMissed, LockCascaded
  <2> QED
    BY <1>3, <2>1, <2>2 DEF DropStep
<1>4. ASSUME NEW r \in Reqs, Abort(r) PROVE UNCHANGED dataVars
  BY <1>4 DEF Abort
<1>5. ASSUME Environment PROVE Next
  BY <1>5 DEF Environment, Open, InsertOccurrence, Next
<1> QED
  BY <1>1, <1>2, <1>3, <1>4, <1>5 DEF LedgerNext

-----------------------------------------------------------------------------
(* The steps keep the invariant.                                           *)

ReqInv(r) == Asked(r) /\ HoldsAccounts(r) /\ HoldsRow(r)

(* A request keeps its part of it while others leave alone what it holds.  *)
LEMMA Undisturbed ==
  ASSUME LInv, LocalTypeOK', NEW q \in Reqs,
         pc'[q] = pc[q], op'[q] = op[q], seen'[q] = seen[q],
         todo'[q] = todo[q], read'[q] = read[q],
         \A t \in Txs : rowLock'[t] = q <=> rowLock[t] = q,
         \A a \in Accounts : accLock'[a] = q <=> accLock[a] = q,
         \A a \in HeldBy(q) : account'[a] = account[a] /\ balance'[a] = balance[a]
                              /\ limit'[a] = limit[a],
         \A t \in Txs : rowLock[t] = q => row'[t] = row[t] /\ fate'[t] = fate[t],
         \A t \in Txs : fate[t] # "unused" =>
           /\ fate'[t] # "unused"
           /\ fate'[t] = "live" => fate[t] = "live" /\ row'[t].planned = row[t].planned
  PROVE  ReqInv(q)'
<1>1. Asked(q) /\ HoldsAccounts(q) /\ HoldsRow(q)
  BY DEF LInv
<1>2. HeldBy(q)' = HeldBy(q)
  BY DEF HeldBy
<1>3. Asked(q)'
  <2>1. op[q].scheduled => op[q].tx \in Txs
    BY <1>1 DEF Asked, AskedAt, OnRow
  <2> QED
    BY <1>1, <2>1 DEF Asked, AskedAt
<1>4. HoldsAccounts(q)'
  BY <1>1, <1>2 DEF HoldsAccounts
<1>5. HoldsRow(q)'
  <2>1. \A t \in Txs : rowLock'[t] = q =>
          /\ fate'[t] = "live"
          /\ \/ pc[q] = "accounts" /\ op[q].kind \in OnRow /\ t = op[q].tx
             \/ pc[q] = "cascade"
    BY <1>1 DEF HoldsRow
  <2>2. CASE pc[q] = "accounts" /\ op[q].kind \in OnRow
    <3>1. op[q].tx \in Txs
      BY <1>1, <2>2 DEF Asked, AskedAt
    <3> QED
      BY <1>1, <1>2, <2>1, <2>2, <3>1 DEF HoldsRow
  <2>3. CASE ~(pc[q] = "accounts" /\ op[q].kind \in OnRow)
    BY <1>1, <2>1, <2>3 DEF HoldsRow
  <2> QED
    BY <2>2, <2>3
<1> QED
  BY <1>3, <1>4, <1>5 DEF ReqInv

(* A request that ended holds nothing.                                     *)
LEMMA FinishedInv ==
  ASSUME LInv, NEW r \in Reqs, Finish(r)
  PROVE  LocalTypeOK' /\ ReqInv(r)'
<1>1. LocalTypeOK'
  BY NoRowType DEF LInv, LocalTypeOK, Finish, NoOp, Op, Operations, Unread, Limits
<1>2. /\ pc'[r] = "idle" /\ op'[r] = NoOp /\ seen'[r] = NoRow
      /\ HeldBy(r)' = {} /\ \A t \in Txs : rowLock'[t] # r
  BY DEF Finish, HeldBy, LInv, LocalTypeOK
<1>3. Asked(r)'
  BY <1>2 DEF Asked, AskedAt, NoOp, OnRow
<1>4. HoldsAccounts(r)' /\ HoldsRow(r)'
  BY <1>2 DEF HoldsAccounts, HoldsRow
<1> QED
  BY <1>1, <1>3, <1>4 DEF ReqInv

(* The others see only that the locks of r are free again.                 *)
LEMMA FinishOthers ==
  ASSUME LInv, NEW r \in Reqs, NEW q \in Reqs, q # r, Finish(r)
  PROVE  /\ pc'[q] = pc[q] /\ op'[q] = op[q] /\ seen'[q] = seen[q]
         /\ todo'[q] = todo[q] /\ read'[q] = read[q]
         /\ \A t \in Txs : rowLock'[t] = q <=> rowLock[t] = q
         /\ \A a \in Accounts : accLock'[a] = q <=> accLock[a] = q
BY DEF Finish, LInv, LocalTypeOK

(* A request that ends without touching the data.                          *)
LEMMA QuietEnd ==
  ASSUME LInv, NEW r \in Reqs, Finish(r), UNCHANGED dataVars
  PROVE  LocalTypeOK' /\ \A q \in Reqs : ReqInv(q)'
<1>1. LocalTypeOK' /\ ReqInv(r)'
  BY FinishedInv
<1>2. ASSUME NEW q \in Reqs, q # r PROVE ReqInv(q)'
  BY <1>1, <1>2, FinishOthers, Undisturbed DEF dataVars
<1> QED
  BY <1>1, <1>2

(* A request starts: it holds nothing yet.                                 *)
LEMMA Begins ==
  ASSUME LInv, NEW r \in Reqs, NEW step \in {"row", "accounts", "edit", "drop"},
         NEW o \in Op, NEW accs \in SUBSET Accounts, Begin(r, step, o, accs),
         AskedAt(step, o), step = "accounts" => o.kind = "create"
  PROVE  LocalTypeOK' /\ \A q \in Reqs : ReqInv(q)'
<1> USE DEF Begin
<1>1. LocalTypeOK'
  BY DEF LInv, LocalTypeOK
<1>2. pc'[r] = step /\ op'[r] = o /\ seen'[r] = seen[r] /\ pc[r] = "idle"
  BY DEF LInv, LocalTypeOK
<1>3. HeldBy(r)' = {} /\ \A t \in Txs : rowLock'[t] # r
  <2>1. HeldBy(r) = {}
    BY <1>2 DEF LInv, HoldsAccounts
  <2>2. \A t \in Txs : rowLock[t] # r
    BY <1>2 DEF LInv, HoldsRow
  <2> QED
    BY <2>1, <2>2 DEF HeldBy
<1>4. Asked(r)'
  BY <1>2 DEF Asked, AskedAt, dataVars
<1>5. HoldsAccounts(r)'
  BY <1>2, <1>3 DEF HoldsAccounts
<1>6. HoldsRow(r)'
  <2>1. seen[r] = NoRow
    BY <1>2 DEF LInv, HoldsRow
  <2> QED
    BY <1>2, <1>3, <2>1 DEF HoldsRow, OnRow
<1>7. ASSUME NEW q \in Reqs, q # r PROVE ReqInv(q)'
  <2>1. /\ pc'[q] = pc[q] /\ op'[q] = op[q] /\ todo'[q] = todo[q]
    BY <1>7 DEF LInv, LocalTypeOK
  <2> QED
    BY <1>1, <2>1, Undisturbed DEF dataVars
<1> QED
  BY <1>1, <1>4, <1>5, <1>6, <1>7 DEF ReqInv

LEMMA StartKeeps ==
  ASSUME LInv, NEW r \in Reqs, Start(r) \/ StartOnAccount(r)
  PROVE  LocalTypeOK' /\ \A q \in Reqs : ReqInv(q)'
<1> USE DEF AskedAt, OnRow
<1>0. NoOp \in Op /\ NoRow \in Row /\ \A l \in LimitChoices \cup {NoLimit} : l \in Limits
  BY NoRowType DEF NoOp, Op, Operations, Limits
<1>1. ASSUME NEW x \in Drafts, StartCreate(r, x) PROVE LocalTypeOK' /\ \A q \in Reqs : ReqInv(q)'
  <2> DEFINE o == [NoOp EXCEPT !.kind = "create", !.draft = x]
  <2>1. o \in Op /\ o.kind = "create" /\ o.draft = x /\ ~o.scheduled
    BY <1>0 DEF NoOp, Op, Operations
  <2>2. Creatable(x) /\ Begin(r, "accounts", o, Refs(x))
    BY <1>1 DEF StartCreate
  <2>3. Refs(x) \subseteq Accounts
    BY DEF Refs, Row
  <2> HIDE DEF o
  <2> QED
    BY <2>1, <2>2, <2>3, Begins
<1>2. ASSUME NEW t \in Txs, NEW x \in Drafts, StartUpdate(r, t, x)
      PROVE  LocalTypeOK' /\ \A q \in Reqs : ReqInv(q)'
  <2> DEFINE o == [NoOp EXCEPT !.kind = "update", !.tx = t, !.draft = x]
  <2>1. o \in Op /\ o.kind = "update" /\ o.tx = t /\ o.draft = x /\ ~o.scheduled
    BY <1>0 DEF NoOp, Op, Operations
  <2>2. PlainRow(x) /\ Begin(r, "row", o, {})
    BY <1>2 DEF StartUpdate
  <2> HIDE DEF o
  <2> QED
    BY <2>1, <2>2, Begins
<1>3. ASSUME NEW t \in Txs, StartDelete(r, t) PROVE LocalTypeOK' /\ \A q \in Reqs : ReqInv(q)'
  <2> DEFINE o == [NoOp EXCEPT !.kind = "delete", !.tx = t]
  <2>1. o \in Op /\ o.kind = "delete" /\ o.tx = t /\ ~o.scheduled
    BY <1>0 DEF NoOp, Op, Operations
  <2>2. Begin(r, "row", o, {})
    BY <1>3 DEF StartDelete
  <2> HIDE DEF o
  <2> QED
    BY <2>1, <2>2, Begins
<1>4. ASSUME NEW t \in Txs, NEW s \in Statuses, StartStatus(r, t, s)
      PROVE  LocalTypeOK' /\ \A q \in Reqs : ReqInv(q)'
  <2> DEFINE o == [NoOp EXCEPT !.kind = "status", !.tx = t, !.draft.status = s]
  <2>1. o \in Op /\ o.kind = "status" /\ o.tx = t /\ ~o.scheduled
    <3>1. [NoRow EXCEPT !.status = s] \in Row
      BY <1>0 DEF Row
    <3>2. o = [NoOp EXCEPT !.kind = "status", !.tx = t, !.draft = [NoRow EXCEPT !.status = s]]
      BY DEF NoOp
    <3> QED
      BY <1>0, <3>1, <3>2 DEF NoOp, Op, Operations
  <2>2. Begin(r, "row", o, {})
    BY <1>4 DEF StartStatus
  <2> HIDE DEF o
  <2> QED
    BY <2>1, <2>2, Begins
<1>5. ASSUME NEW t \in Txs, StartSettlement(r, t) PROVE LocalTypeOK' /\ \A q \in Reqs : ReqInv(q)'
  <2> DEFINE o == [NoOp EXCEPT !.kind = "status", !.tx = t,
                                !.draft.status = "COMPLETED", !.scheduled = TRUE]
  <2>1. o \in Op /\ o.kind = "status" /\ o.tx = t /\ o.draft.status = "COMPLETED"
    <3>1. [NoRow EXCEPT !.status = "COMPLETED"] \in Row
      BY <1>0 DEF Row, Statuses
    <3>2. o = [NoOp EXCEPT !.kind = "status", !.tx = t, !.scheduled = TRUE,
                 !.draft = [NoRow EXCEPT !.status = "COMPLETED"]]
      BY DEF NoOp
    <3> QED
      BY <1>0, <3>1, <3>2 DEF NoOp, NoRow, Op, Operations
  <2>2. Begin(r, "row", o, {}) /\ fate[t] = "live" /\ row[t].planned
    BY <1>5 DEF StartSettlement
  <2> HIDE DEF o
  <2> QED
    BY <2>1, <2>2, Begins
<1>6. ASSUME NEW a \in Accounts, NEW l \in LimitChoices \cup {NoLimit}, StartEdit(r, a, l)
      PROVE  LocalTypeOK' /\ \A q \in Reqs : ReqInv(q)'
  <2> DEFINE o == [NoOp EXCEPT !.kind = "edit", !.acc = a, !.lim = l]
  <2>1. o \in Op /\ o.kind = "edit" /\ o.acc = a /\ o.lim = l /\ ~o.scheduled
    BY <1>0 DEF NoOp, Op, Operations
  <2>2. Begin(r, "edit", o, {}) /\ IsCard(a)
    BY <1>6 DEF StartEdit
  <2> HIDE DEF o
  <2> QED
    BY <2>1, <2>2, Begins
<1>7. ASSUME NEW a \in Accounts, StartDrop(r, a) PROVE LocalTypeOK' /\ \A q \in Reqs : ReqInv(q)'
  <2> DEFINE o == [NoOp EXCEPT !.kind = "drop", !.acc = a]
  <2>1. o \in Op /\ o.kind = "drop" /\ o.acc = a /\ ~o.scheduled
    BY <1>0 DEF NoOp, Op, Operations
  <2>2. Begin(r, "drop", o, {})
    BY <1>7 DEF StartDrop
  <2> HIDE DEF o
  <2> QED
    BY <2>1, <2>2, Begins
<1> QED
  BY <1>1, <1>2, <1>3, <1>4, <1>5, <1>6, <1>7 DEF Start, StartOnAccount

LEMMA LockRowKeeps ==
  ASSUME LInv, NEW r \in Reqs, LockRow(r)
  PROVE  LocalTypeOK' /\ \A q \in Reqs : ReqInv(q)'
<1> DEFINE t == op[r].tx
           x == row[t]
<1> USE DEF LockRow
<1>1. t \in Txs /\ op[r].kind \in OnRow /\ fate[t] = "live" /\ rowLock[t] = NoReq
  BY DEF LInv, Asked, AskedAt, Missed, Free
<1>2. x \in Row /\ Target(r, x) \in Row
  BY <1>1, TargetType DEF LInv, IInv, TypeOK
<1>3. Refs(x) \subseteq Accounts /\ Refs(Target(r, x)) \subseteq Accounts
  BY <1>2 DEF Refs, Row
<1>3a. Before(r, x) = x
  <2>1. op[r].kind = "status" => x.status # op[r].draft.status
    BY DEF Missed
  <2>2. op[r].draft.status \in Statuses /\ x.status \in Statuses
    BY <1>2 DEF LInv, LocalTypeOK, Op, Row
  <2>3. op[r].kind = "status" => x.status = StatusBefore(op[r].draft.status)
    BY <2>1, <2>2 DEF StatusBefore, Statuses
  <2>4. [x EXCEPT !.status = x.status] = x
    BY <1>2 DEF Row
  <2> QED
    BY <2>3, <2>4 DEF Before, WithStatus
<1>4. LocalTypeOK'
  BY <1>1, <1>2, <1>3, <1>3a DEF LInv, LocalTypeOK
<1>5. /\ pc'[r] = "accounts" /\ op'[r] = op[r] /\ seen'[r] = Before(r, x)
      /\ todo'[r] = Refs(x) \cup Refs(Target(r, x))
      /\ rowLock'[t] = r /\ HeldBy(r)' = HeldBy(r)
  BY <1>1 DEF LInv, LocalTypeOK, HeldBy
<1>6. HeldBy(r) = {} /\ \A u \in Txs : rowLock[u] # r
  <2>1. HoldsAccounts(r) /\ HoldsRow(r)
    BY DEF LInv
  <2> QED
    BY <2>1 DEF HoldsAccounts, HoldsRow
<1>7. Asked(r)'
  BY <1>1, <1>5 DEF LInv, Asked, AskedAt, dataVars
<1>8. HoldsAccounts(r)'
  BY <1>5, <1>6 DEF HoldsAccounts
<1>9. HoldsRow(r)'
  <2>1. \A u \in Txs : rowLock'[u] = r => u = t
    BY <1>6 DEF LInv, LocalTypeOK
  <2>2. op[r].kind = "status" => x.status # op[r].draft.status
    BY DEF Missed
  <2>3. op[r].kind # "create"
    BY <1>1 DEF OnRow
  <2> QED
    BY <1>1, <1>3a, <1>5, <2>1, <2>2, <2>3 DEF HoldsRow, dataVars
<1>10. ASSUME NEW q \in Reqs, q # r PROVE ReqInv(q)'
  <2>1. /\ pc'[q] = pc[q] /\ seen'[q] = seen[q] /\ todo'[q] = todo[q]
        /\ \A u \in Txs : rowLock'[u] = q <=> rowLock[u] = q
    BY <1>1, <1>10 DEF LInv, LocalTypeOK
  <2> QED
    BY <1>4, <2>1, Undisturbed DEF dataVars
<1> QED
  BY <1>4, <1>7, <1>8, <1>9, <1>10 DEF ReqInv

LEMMA LockAccountKeeps ==
  ASSUME LInv, NEW r \in Reqs, LockAccount(r)
  PROVE  LocalTypeOK' /\ \A q \in Reqs : ReqInv(q)'
<1>1. PICK a \in todo[r] :
        /\ pc[r] = "accounts"
        /\ todo' = [todo EXCEPT ![r] = @ \ {a}]
        /\ \/ /\ a \in Live /\ Free(accLock[a])
              /\ accLock' = [accLock EXCEPT ![a] = r]
              /\ read' = [read EXCEPT ![r][a] = [bal |-> balance[a], lim |-> limit[a]]]
           \/ /\ a \notin Live
              /\ UNCHANGED <<accLock, read>>
        /\ UNCHANGED <<dataVars, pc, op, seen, rowLock>>
  BY DEF LockAccount
<1>2. a \in Accounts
  BY DEF LInv, LocalTypeOK
<1>3. balance[a] \in Int /\ limit[a] \in Limits
  BY <1>2 DEF LInv, IInv, TypeOK
<1>4. LocalTypeOK'
  <2> DEFINE now == [bal |-> balance[a], lim |-> limit[a]]
  <2>1. read' \in [Reqs -> [Accounts -> [bal : Int, lim : Limits]]]
    <3>1. now \in [bal : Int, lim : Limits]
      BY <1>3
    <3> HIDE DEF now
    <3>2. [read[r] EXCEPT ![a] = now] \in [Accounts -> [bal : Int, lim : Limits]]
      BY <3>1 DEF LInv, LocalTypeOK
    <3>3. read' = read \/ read' = [read EXCEPT ![r] = [read[r] EXCEPT ![a] = now]]
      BY <1>1 DEF now
    <3> QED
      BY <3>2, <3>3 DEF LInv, LocalTypeOK
  <2>2. todo' \in [Reqs -> SUBSET Accounts]
    BY <1>1 DEF LInv, LocalTypeOK
  <2>3. accLock' \in [Accounts -> Reqs \cup {NoReq}]
    BY <1>1 DEF LInv, LocalTypeOK
  <2> QED
    BY <1>1, <2>1, <2>2, <2>3 DEF LInv, LocalTypeOK
<1>5. Asked(r)'
  BY <1>1 DEF LInv, Asked, AskedAt, dataVars
<1>6. HeldBy(r)' = IF a \in Live THEN HeldBy(r) \cup {a} ELSE HeldBy(r)
  BY <1>1, <1>2 DEF HeldBy, LInv, LocalTypeOK, Free
<1>7. HoldsAccounts(r)'
  <2> SUFFICES ASSUME NEW b \in HeldBy(r)'
               PROVE  account[b] = "live" /\ read'[r][b] = [bal |-> balance[b], lim |-> limit[b]]
    BY <1>1 DEF HoldsAccounts, dataVars
  <2>1. CASE b \in HeldBy(r) /\ (b # a \/ a \notin Live)
    <3>1. read'[r][b] = read[r][b]
      BY <1>1, <2>1 DEF LInv, LocalTypeOK, HeldBy
    <3> QED
      BY <1>1, <2>1, <3>1 DEF LInv, HoldsAccounts
  <2>2. CASE b = a /\ a \in Live
    BY <1>1, <1>2, <2>2 DEF LInv, LocalTypeOK, Live
  <2> QED
    BY <1>6, <2>1, <2>2
<1>8. HoldsRow(r)'
  <2>1. op[r].kind \in OnRow => Refs(seen[r]) \subseteq Live
    BY <1>1 DEF LInv, IInv, HoldsRow, RowsNameLiveAccounts, Asked, AskedAt
  <2>2. op[r].kind \in OnRow => Refs(seen[r]) \subseteq HeldBy(r)' \cup todo'[r]
    BY <1>1, <1>6, <2>1 DEF LInv, HoldsRow, LocalTypeOK
  <2> QED
    BY <1>1, <2>2 DEF LInv, HoldsRow, dataVars
<1>9. ASSUME NEW q \in Reqs, q # r PROVE ReqInv(q)'
  <2>1. /\ todo'[q] = todo[q] /\ read'[q] = read[q]
        /\ \A b \in Accounts : accLock'[b] = q <=> accLock[b] = q
    BY <1>1, <1>2, <1>9 DEF LInv, LocalTypeOK, Free
  <2> QED
    BY <1>1, <1>4, <2>1, Undisturbed DEF dataVars
<1> QED
  BY <1>4, <1>5, <1>7, <1>8, <1>9 DEF ReqInv

(* A commit of r changes no row, and no balance, that another one holds.   *)
LEMMA CommitKeeps ==
  ASSUME LInv, NEW r \in Reqs, NEW t \in Txs, NEW x \in Row,
         pc[r] = "accounts", seen[r] \in Row, Refs(seen[r]) \subseteq HeldBy(r),
         Admitted(r), WriteDeltas(r, t), Finish(r),
         rowLock[t] = r \/ fate[t] = "unused",
         row' = [row EXCEPT ![t] = x],
         x.planned = row[t].planned \/ fate[t] = "unused" \/ fate'[t] # "live",
         fate'[t] # "unused", \A u \in Txs \ {t} : fate'[u] = fate[u],
         fate[t] \in {"live", "unused"},
         UNCHANGED <<account, limit>>
  PROVE  LocalTypeOK' /\ \A q \in Reqs : ReqInv(q)'
<1>1. LocalTypeOK' /\ ReqInv(r)'
  BY FinishedInv
<1>2. Target(r, seen[r]) \in Row /\ Refs(Target(r, seen[r])) \subseteq HeldBy(r)
  BY TargetType DEF Admitted
<1>3. \A a \in Accounts : accLock[a] # r => Delta(seen[r], Target(r, seen[r]), a) = 0
  <2> DEFINE y == Target(r, seen[r])
  <2> SUFFICES ASSUME NEW a \in Accounts, accLock[a] # r
               PROVE  Delta(seen[r], y, a) = 0
    OBVIOUS
  <2>1. a \notin Refs(seen[r]) /\ a \notin Refs(y) /\ y \in Row
    BY <1>2 DEF HeldBy
  <2> HIDE DEF y
  <2>2. Effect(seen[r], a) = 0 /\ Effect(y, a) = 0
    BY <2>1, EffectNamed
  <2> QED
    BY <2>2 DEF Delta
<1>4. \A a \in Accounts : accLock[a] # r => balance'[a] = balance[a]
  BY <1>3 DEF WriteDeltas, LInv, IInv, TypeOK
<1>5. ASSUME NEW q \in Reqs, q # r PROVE ReqInv(q)'
  <2>1. \A a \in HeldBy(q) : balance'[a] = balance[a]
    BY <1>4, <1>5 DEF HeldBy
  <2>2. \A u \in Txs : rowLock[u] = q => u # t
    BY <1>5 DEF LInv, HoldsRow
  <2>3. \A u \in Txs : u # t => row'[u] = row[u] /\ fate'[u] = fate[u]
    BY DEF LInv, IInv, TypeOK
  <2>4. row'[t] = x
    BY DEF LInv, IInv, TypeOK
  <2>5. \A u \in Txs : fate[u] # "unused" =>
          /\ fate'[u] # "unused"
          /\ fate'[u] = "live" => fate[u] = "live" /\ row'[u].planned = row[u].planned
    BY <2>3, <2>4
  <2> QED
    BY <1>1, <1>5, <2>1, <2>2, <2>3, <2>5, FinishOthers, Undisturbed
<1> QED
  BY <1>1, <1>5

LEMMA CommitsKeep ==
  ASSUME LInv, NEW r \in Reqs,
         \/ \E t \in Txs : CommitCreate(r, t)
         \/ CommitUpdate(r) \/ CommitDelete(r) \/ CommitStatus(r)
  PROVE  LocalTypeOK' /\ \A q \in Reqs : ReqInv(q)'
<1> USE DEF Ready
<1>0. TypeOK /\ NoRow \in Row
  BY NoRowType DEF LInv, IInv
<1>1. ASSUME NEW t \in Txs, CommitCreate(r, t) PROVE LocalTypeOK' /\ \A q \in Reqs : ReqInv(q)'
  <2> USE <1>1 DEF CommitCreate
  <2>1. seen[r] = NoRow
    BY DEF LInv, HoldsRow
  <2>1a. Refs(seen[r]) = {}
    BY <2>1 DEF Refs, NoRow
  <2>2. op[r].draft \in Row
    BY DEF LInv, LocalTypeOK, Op
  <2>3. fate'[t] = "live" /\ \A u \in Txs \ {t} : fate'[u] = fate[u]
    BY <1>0 DEF TypeOK
  <2> QED
    BY <1>0, <2>1, <2>1a, <2>2, <2>3, CommitKeeps
<1>2. ASSUME op[r].kind \in OnRow, pc[r] = "accounts", todo[r] = {}
      PROVE  /\ op[r].tx \in Txs /\ rowLock[op[r].tx] = r /\ fate[op[r].tx] = "live"
             /\ seen[r] = row[op[r].tx] /\ seen[r] \in Row /\ Refs(seen[r]) \subseteq HeldBy(r)
  BY <1>2, ReadyRow DEF LInv, HoldsRow
<1>3. CASE CommitUpdate(r)
  <2> USE <1>3 DEF CommitUpdate
  <2>1. Edited(seen[r], op[r].draft) = Target(r, seen[r])
    BY DEF Target
  <2>2. Target(r, seen[r]) \in Row
    BY <1>2, TargetType DEF OnRow
  <2>3. Edited(seen[r], op[r].draft).planned = seen[r].planned
    BY <1>2 DEF Edited, LInv, LocalTypeOK, Op, Row, OnRow
  <2>4. fate' = fate
    OBVIOUS
  <2> QED
    BY <1>2, <2>1, <2>2, <2>3, <2>4, CommitKeeps DEF OnRow
<1>4. CASE CommitDelete(r)
  <2> USE <1>4 DEF CommitDelete
  <2>1. op[r].tx \in Txs
    BY <1>2 DEF OnRow
  <2>2. /\ fate'[op[r].tx] = "deleted"
        /\ \A u \in Txs \ {op[r].tx} : fate'[u] = fate[u]
    BY <1>0, <2>1 DEF TypeOK
  <2> QED
    BY <1>0, <1>2, <2>2, CommitKeeps DEF OnRow
<1>5. CASE CommitStatus(r)
  <2> USE <1>5 DEF CommitStatus
  <2>1. WithStatus(seen[r], op[r].draft.status) = Target(r, seen[r])
    BY DEF Target
  <2>2. Target(r, seen[r]) \in Row
    BY <1>2, TargetType DEF OnRow
  <2>3. WithStatus(seen[r], op[r].draft.status).planned = seen[r].planned
    BY <1>2 DEF WithStatus, Row, OnRow
  <2>4. fate' = fate
    OBVIOUS
  <2> QED
    BY <1>2, <2>1, <2>2, <2>3, <2>4, CommitKeeps DEF OnRow
<1> QED
  BY <1>1, <1>3, <1>4, <1>5

LEMMA WriteEditKeeps ==
  ASSUME LInv, NEW r \in Reqs, WriteEdit(r)
  PROVE  LocalTypeOK' /\ \A q \in Reqs : ReqInv(q)'
<1> USE DEF WriteEdit
<1>1. LocalTypeOK' /\ ReqInv(r)'
  BY FinishedInv
<1>2. op[r].acc \in Accounts /\ accLock[op[r].acc] = NoReq
  BY DEF LInv, Asked, AskedAt, Free
<1>3. \A a \in Accounts : a # op[r].acc => limit'[a] = limit[a]
  BY DEF LInv, IInv, TypeOK
<1>4. ASSUME NEW q \in Reqs, q # r PROVE ReqInv(q)'
  <2>1. \A a \in HeldBy(q) : limit'[a] = limit[a]
    BY <1>2, <1>3 DEF HeldBy
  <2> QED
    BY <1>1, <1>4, <2>1, FinishOthers, Undisturbed
<1> QED
  BY <1>1, <1>4

LEMMA DropStepKeeps ==
  ASSUME LInv, NEW r \in Reqs, DropStep(r)
  PROVE  LocalTypeOK' /\ \A q \in Reqs : ReqInv(q)'
<1>0. LocalTypeOK /\ TypeOK /\ HoldsAccounts(r) /\ HoldsRow(r) /\ Asked(r)
  BY DEF LInv, IInv
<1>1. CASE LockDropped(r)
  <2> DEFINE a == op[r].acc
  <2> USE <1>1 DEF LockDropped
  <2>1. a \in Accounts /\ accLock[a] = NoReq
    BY DEF Live, Free
  <2>2. LocalTypeOK'
    BY <1>0, <2>1 DEF LocalTypeOK
  <2>3. HeldBy(r) = {} /\ \A u \in Txs : rowLock[u] # r
    BY <1>0 DEF HoldsAccounts, HoldsRow
  <2>4. HeldBy(r)' = {a}
    BY <1>0, <2>1, <2>3 DEF HeldBy, LocalTypeOK
  <2>5. pc'[r] = "cascade"
    BY <1>0 DEF LocalTypeOK
  <2>6. HoldsAccounts(r)' /\ HoldsRow(r)'
    BY <2>3, <2>4, <2>5 DEF HoldsAccounts, HoldsRow, Live, dataVars
  <2>7. Asked(r)'
    BY <1>0, <2>1, <2>5 DEF Asked, AskedAt, dataVars
  <2>8. ASSUME NEW q \in Reqs, q # r PROVE ReqInv(q)'
    <3>1. pc'[q] = pc[q] /\ \A b \in Accounts : accLock'[b] = q <=> accLock[b] = q
      BY <1>0, <2>1, <2>8 DEF LocalTypeOK
    <3> QED
      BY <2>2, <3>1, Undisturbed DEF dataVars
  <2> QED
    BY <2>2, <2>6, <2>7, <2>8 DEF ReqInv
<1>2. CASE DropMissed(r)
  BY <1>2, QuietEnd DEF DropMissed
<1>3. ASSUME NEW t \in Txs, LockCascaded(r, t) PROVE LocalTypeOK' /\ \A q \in Reqs : ReqInv(q)'
  <2> USE <1>3 DEF LockCascaded
  <2>1. fate[t] = "live" /\ rowLock[t] = NoReq
    BY DEF Naming, Free
  <2>2. LocalTypeOK'
    BY <1>0 DEF LocalTypeOK
  <2>3. HeldBy(r)' = HeldBy(r)
    BY DEF HeldBy
  <2>4. HoldsAccounts(r)' /\ Asked(r)'
    BY <1>0, <2>3 DEF HoldsAccounts, Asked, AskedAt, dataVars
  <2>5. HoldsRow(r)'
    BY <1>0, <2>1 DEF HoldsRow, LocalTypeOK, dataVars
  <2>6. ASSUME NEW q \in Reqs, q # r PROVE ReqInv(q)'
    <3>1. \A u \in Txs : rowLock'[u] = q <=> rowLock[u] = q
      BY <1>0, <2>1, <2>6 DEF LocalTypeOK
    <3> QED
      BY <2>2, <3>1, Undisturbed DEF dataVars
  <2> QED
    BY <2>2, <2>4, <2>5, <2>6 DEF ReqInv
<1>4. CASE CommitDrop(r)
  <2> DEFINE a == op[r].acc
  <2> USE <1>4 DEF CommitDrop, DropAccount
  <2>1. LocalTypeOK' /\ ReqInv(r)'
    BY FinishedInv
  <2>2. a \in HeldBy(r) /\ a \in Accounts /\ a # NoAcc
    BY <1>0 DEF HoldsAccounts, HeldBy, NoAcc
  <2>3. \A t \in Txs : fate[t] # "live" => row[t] = NoRow
    BY DEF LInv, IInv, NoRowWithoutLife
  <2>4. \A t \in Txs : rowLock[t] # r => row[t].account # a /\ row[t].dest # a
    BY <2>2, <2>3 DEF Naming, Refs, NoRow
  <2>5. \A t \in Txs : rowLock[t] # r => row'[t] = row[t] /\ fate'[t] = fate[t]
    BY <2>4
  <2>6. ASSUME NEW q \in Reqs, q # r PROVE ReqInv(q)'
    <3>1. \A b \in HeldBy(q) : b # a /\ account'[b] = account[b]
      BY <1>0, <2>2, <2>6 DEF HeldBy, TypeOK
    <3>2. \A t \in Txs : fate[t] # "unused" =>
            /\ fate'[t] # "unused"
            /\ fate'[t] = "live" => fate[t] = "live" /\ row'[t].planned = row[t].planned
      BY <1>0, <2>3, <2>2, ZenonT(30) DEF TypeOK, Row, NoRow
    <3>3. \A t \in Txs : rowLock[t] = q => row'[t] = row[t] /\ fate'[t] = fate[t]
      BY <2>5, <2>6
    <3>4. \A b \in HeldBy(q) : balance'[b] = balance[b] /\ limit'[b] = limit[b]
      OBVIOUS
    <3>5. /\ pc'[q] = pc[q] /\ op'[q] = op[q] /\ seen'[q] = seen[q]
          /\ todo'[q] = todo[q] /\ read'[q] = read[q]
          /\ \A t \in Txs : rowLock'[t] = q <=> rowLock[t] = q
          /\ \A b \in Accounts : accLock'[b] = q <=> accLock[b] = q
      BY <2>6, FinishOthers
    <3> HIDE DEF CommitDrop, DropAccount, a
    <3> QED
      BY <2>1, <3>1, <3>2, <3>3, <3>4, <3>5, Undisturbed
  <2> QED
    BY <2>1, <2>6
<1> QED
  BY <1>1, <1>2, <1>3, <1>4 DEF DropStep

LEMMA EnvironmentKeeps ==
  ASSUME LInv, Environment
  PROVE  LocalTypeOK' /\ \A q \in Reqs : ReqInv(q)'
<1>0. TypeOK
  BY DEF LInv, IInv
<1>1. LocalTypeOK' /\ UNCHANGED localVars
  BY DEF Environment, Open, InsertOccurrence, localVars, LInv, LocalTypeOK
<1>2. ASSUME NEW a \in Accounts, NEW b \in Openings \cup {0},
             NEW l \in LimitChoices \cup {NoLimit}, Open(a, b, l), NEW q \in Reqs
      PROVE  ReqInv(q)'
  <2> USE <1>2 DEF Open, OpenAccount
  <2>1. \A c \in HeldBy(q) : c \in Accounts /\ c # a
    BY DEF LInv, HoldsAccounts, HeldBy
  <2>2. \A c \in HeldBy(q) : account'[c] = account[c] /\ balance'[c] = balance[c] /\ limit'[c] = limit[c]
    BY <1>0, <2>1 DEF TypeOK
  <2> QED
    BY <1>1, <2>2, Undisturbed DEF localVars
<1>3. ASSUME NEW t \in Txs, NEW x \in Drafts, InsertOccurrence(t, x), NEW q \in Reqs
      PROVE  ReqInv(q)'
  <2> USE <1>3 DEF InsertOccurrence, Generate
  <2>1. \A u \in Txs : fate[u] # "unused" => u # t
    OBVIOUS
  <2>2. \A u \in Txs : u # t => row'[u] = row[u] /\ fate'[u] = fate[u]
    BY <1>0 DEF TypeOK
  <2>3. \A u \in Txs : rowLock[u] = q => fate[u] = "live"
    BY DEF LInv, HoldsRow
  <2> QED
    BY <1>1, <2>1, <2>2, <2>3, Undisturbed DEF localVars
<1> QED
  BY <1>1, <1>2, <1>3 DEF Environment

LEMMA NextLInv == LInv /\ [LedgerNext]_vars => LInv'
<1> SUFFICES ASSUME LInv, [LedgerNext]_vars PROVE LInv'
  OBVIOUS
<1>1. IInv'
  BY StepRefines, NextIInv DEF LInv
<1>2. LimitsChosen'
  <2>1. CASE UNCHANGED dataVars
    BY <2>1 DEF LInv, LimitsChosen, dataVars
  <2>2. CASE Next
    BY <2>2 DEF LInv, LimitsChosen, Next, CreateTx, UpdateTx, DeleteTx, SetStatus, Generate,
         OpenAccount, EditAccount, DropAccount
  <2> QED
    BY <2>1, <2>2, StepRefines
<1>3. LocalTypeOK' /\ \A q \in Reqs : ReqInv(q)'
  <2>1. ASSUME NEW r \in Reqs, Start(r) \/ StartOnAccount(r)
        PROVE  LocalTypeOK' /\ \A q \in Reqs : ReqInv(q)'
    BY <2>1, StartKeeps
  <2>2. ASSUME NEW r \in Reqs, Step(r) PROVE LocalTypeOK' /\ \A q \in Reqs : ReqInv(q)'
    <3>1. CASE LockRow(r)
      BY <3>1, LockRowKeeps
    <3>2. CASE LockAccount(r)
      BY <3>2, LockAccountKeeps
    <3>3. CASE RowMissed(r) \/ Reject(r)
      BY <3>3, QuietEnd DEF RowMissed, Reject
    <3>4. CASE \/ \E t \in Txs : CommitCreate(r, t)
               \/ CommitUpdate(r) \/ CommitDelete(r) \/ CommitStatus(r)
      BY <3>4, CommitsKeep
    <3>5. CASE WriteEdit(r)
      BY <3>5, WriteEditKeeps
    <3> QED
      BY <2>2, <3>1, <3>2, <3>3, <3>4, <3>5 DEF Step
  <2>3. ASSUME NEW r \in Reqs, DropStep(r) PROVE LocalTypeOK' /\ \A q \in Reqs : ReqInv(q)'
    BY <2>3, DropStepKeeps
  <2>4. ASSUME NEW r \in Reqs, Abort(r) PROVE LocalTypeOK' /\ \A q \in Reqs : ReqInv(q)'
    BY <2>4, QuietEnd DEF Abort
  <2>5. CASE Environment
    BY <2>5, EnvironmentKeeps
  <2>6. CASE UNCHANGED vars
    <3>1. LocalTypeOK'
      BY <2>6 DEF vars, localVars, LInv, LocalTypeOK
    <3> QED
      BY <2>6, <3>1, Undisturbed DEF vars, localVars, dataVars
  <2> QED
    BY <2>1, <2>2, <2>3, <2>4, <2>5, <2>6 DEF LedgerNext
<1> QED
  BY <1>1, <1>2, <1>3 DEF LInv, ReqInv

-----------------------------------------------------------------------------
(* Everything in flight holds values of its types.                         *)
THEOREM LedgerTypeCorrect == LedgerSpec => []LedgerTypeOK
<1>1. LInv => LedgerTypeOK
  BY DEF LInv, IInv, LedgerTypeOK
<1> QED
  BY <1>1, InitLInv, NextLInv, PTL DEF LedgerSpec

(* The interleaved, locking code does what AtomicLedger says: each         *)
(* database transaction of the repositories takes effect at its commit.    *)
THEOREM Implements == LedgerSpec => ImplementsAtomicLedger
<1>1. LedgerInit => Init
  BY DEF LedgerInit
<1> QED
  BY <1>1, InitLInv, NextLInv, StepRefines, PTL DEF LedgerSpec, ImplementsAtomicLedger

(* The locks a request holds keep what it read under them current until it *)
(* writes.                                                                 *)
THEOREM ReadsStayCurrent == LedgerSpec => []ReadsAreCurrent
<1>1. LInv => ReadsAreCurrent
  <2> SUFFICES ASSUME LInv, NEW r \in Reqs, pc[r] = "accounts"
               PROVE  /\ op[r].kind # "create" => seen[r] = row[op[r].tx]
                      /\ \A a \in HeldBy(r) : read[r][a] = [bal |-> balance[a], lim |-> limit[a]]
    BY DEF ReadsAreCurrent
  <2>1. Asked(r) /\ HoldsAccounts(r) /\ HoldsRow(r)
    BY DEF LInv
  <2> QED
    BY <2>1 DEF Asked, AskedAt, HoldsAccounts, HoldsRow
<1> QED
  BY <1>1, InitLInv, NextLInv, PTL DEF LedgerSpec

(* What AtomicLedger promises therefore holds of the code: movements add   *)
(* up to balances, rows are applied once, nothing is overdrawn, nothing    *)
(* names a deleted account, and only settlements leave a card's band.      *)
THEOREM LedgerPromises ==
  LedgerSpec => /\ []MovementsExplainBalance
                /\ []EffectsAppliedOnce
                /\ []NoOverdraft
                /\ []RowsNameLiveAccounts
                /\ CardBand
<1>1. LedgerSpec => Spec
  BY Implements DEF Spec, ImplementsAtomicLedger
<1> QED
  BY <1>1, MovementsExplain, AppliedOnce, NeverOverdrawn, NamesLiveAccounts, BandKept

-----------------------------------------------------------------------------
(* No circle of waiting requests.                                          *)

(* Accounts are locked in id order: what r holds is below what it wants.   *)
LocksInOrder ==
  \A r \in Reqs : pc[r] = "accounts" =>
    \A a \in HeldBy(r), b \in todo[r] : a < b

LEMMA NextOrder == LInv /\ LocksInOrder /\ [LedgerNext]_vars => LocksInOrder'
<1> SUFFICES ASSUME LInv, LocksInOrder, [LedgerNext]_vars, NEW r \in Reqs, pc'[r] = "accounts",
                    NEW a \in HeldBy(r)', NEW b \in todo'[r]
             PROVE  a < b
  BY DEF LocksInOrder
<1>0. LocalTypeOK /\ LocalTypeOK' /\ a \in Accounts /\ HoldsAccounts(r)
  BY NextLInv DEF LInv, HeldBy
<1>1. CASE pc[r] = "accounts" /\ HeldBy(r)' = HeldBy(r) /\ todo'[r] \subseteq todo[r]
  BY <1>1 DEF LocksInOrder
<1>2. CASE HeldBy(r)' = {}
  BY <1>2
<1>3. ASSUME NEW q \in Reqs, Finish(q) PROVE a < b
  <2>1. q # r
    BY <1>3, <1>0 DEF Finish, LocalTypeOK
  <2>2. pc[r] = "accounts" /\ HeldBy(r)' = HeldBy(r) /\ todo'[r] = todo[r]
    BY <1>3, <1>0, <2>1 DEF Finish, LocalTypeOK, HeldBy
  <2> QED
    BY <1>1, <2>2
<1>4. ASSUME NEW q \in Reqs, NEW step \in {"row", "accounts", "edit", "drop"}, NEW o,
             NEW accs, Begin(q, step, o, accs)
      PROVE  a < b
  <2>1. HeldBy(r)' = HeldBy(r)
    BY <1>4 DEF Begin, HeldBy
  <2>2. CASE q = r
    <3>1. HeldBy(r) = {}
      BY <1>0, <1>4, <2>2 DEF Begin, HoldsAccounts
    <3> QED
      BY <2>1, <3>1
  <2>3. CASE q # r
    BY <1>0, <1>1, <1>4, <2>1, <2>3 DEF Begin, LocalTypeOK
  <2> QED
    BY <2>2, <2>3
<1>5. ASSUME NEW q \in Reqs, Start(q) \/ StartOnAccount(q) PROVE a < b
  BY <1>5, <1>4 DEF Start, StartOnAccount, StartCreate, StartUpdate, StartDelete, StartStatus,
       StartSettlement, StartEdit, StartDrop
<1>6. ASSUME NEW q \in Reqs, LockRow(q) PROVE a < b
  <2>1. HeldBy(r)' = HeldBy(r)
    BY <1>6 DEF LockRow, HeldBy
  <2>2. CASE q = r
    <3>1. HeldBy(r) = {}
      BY <1>0, <1>6, <2>2 DEF LockRow, HoldsAccounts
    <3> QED
      BY <2>1, <3>1
  <2>3. CASE q # r
    BY <1>0, <1>1, <1>6, <2>1, <2>3 DEF LockRow, LocalTypeOK
  <2> QED
    BY <2>2, <2>3
<1>7. ASSUME NEW q \in Reqs, LockAccount(q) PROVE a < b
  <2>1. PICK c \in todo[q] :
          /\ pc[q] = "accounts" /\ pc' = pc
          /\ \A d \in todo[q] : c <= d
          /\ todo' = [todo EXCEPT ![q] = @ \ {c}]
          /\ \/ accLock' = [accLock EXCEPT ![c] = q] /\ accLock[c] = NoReq
             \/ accLock' = accLock
    BY <1>7 DEF LockAccount, Free
  <2>2. CASE q = r
    <3>1. b \in todo[r] /\ b # c /\ c \in Accounts /\ b \in Accounts
      BY <1>0, <2>1, <2>2 DEF LocalTypeOK
    <3>2. a = c \/ a \in HeldBy(r)
      BY <1>0, <2>1, <2>2 DEF HeldBy, LocalTypeOK
    <3> QED
      BY <2>1, <2>2, <3>1, <3>2 DEF LocksInOrder
  <2>3. CASE q # r
    <3>1. todo'[r] = todo[r] /\ HeldBy(r)' \subseteq HeldBy(r)
      BY <1>0, <2>1, <2>3, ZenonT(30) DEF LocalTypeOK, HeldBy
    <3> QED
      BY <2>1, <3>1 DEF LocksInOrder
  <2> QED
    BY <2>2, <2>3
<1>8. ASSUME NEW q \in Reqs, Step(q) PROVE a < b
  BY <1>8, <1>3, <1>6, <1>7 DEF Step, RowMissed, CommitCreate, CommitUpdate, CommitDelete,
       CommitStatus, Reject, WriteEdit
<1>9. ASSUME NEW q \in Reqs, DropStep(q) PROVE a < b
  <2>1. CASE LockDropped(q)
    <3>1. q # r
      BY <1>0, <2>1 DEF LockDropped, LocalTypeOK
    <3>2. pc[r] = "accounts" /\ HeldBy(r)' \subseteq HeldBy(r) /\ todo'[r] = todo[r]
      BY <1>0, <2>1, <3>1 DEF LockDropped, LocalTypeOK, HeldBy
    <3> QED
      BY <3>2 DEF LocksInOrder
  <2>2. CASE \E t \in Txs : LockCascaded(q, t)
    BY <1>1, <2>2 DEF LockCascaded, HeldBy
  <2> QED
    BY <1>3, <1>9, <2>1, <2>2 DEF DropStep, DropMissed, CommitDrop
<1>10. ASSUME NEW q \in Reqs, Abort(q) PROVE a < b
  BY <1>10, <1>3 DEF Abort
<1>11. CASE Environment \/ UNCHANGED vars
  <2>1. UNCHANGED localVars
    BY <1>11 DEF Environment, Open, InsertOccurrence, vars
  <2> QED
    BY <1>1, <2>1 DEF localVars, HeldBy
<1> QED
  BY <1>5, <1>8, <1>9, <1>10, <1>11 DEF LedgerNext

LEMMA LeastNatural ==
  ASSUME NEW T \in SUBSET Nat, T # {}
  PROVE  \E x \in T : \A y \in T : x <= y
<1> DEFINE R == OpToRel(<, Nat)
<1>1. IsWellFoundedOn(R, Nat)
  BY NatLessThanWellFounded
<1> HIDE DEF R
<1>2. PICK x \in T : \A y \in T : ~(<<y, x>> \in R)
  BY <1>1, WFMin
<1>3. \A y \in T : ~(y < x)
  BY <1>2 DEF R, OpToRel
<1> QED
  BY <1>3

(* A request that waits for r among transaction and card requests waits    *)
(* for one that is locking accounts.                                       *)
LEMMA HoldersLockAccounts ==
  ASSUME LInv, NEW r \in Reqs, NEW q \in Reqs, WaitsFor(r, q),
         pc[r] \in {"row", "accounts", "edit"}, pc[q] \in {"row", "accounts", "edit"}
  PROVE  pc[q] = "accounts"
<1>1. HoldsAccounts(q) /\ HoldsRow(q) /\ Asked(r) /\ LocalTypeOK
  BY DEF LInv
<1>2. CASE pc[r] = "row"
  BY <1>1, <1>2 DEF WaitsFor, Asked, AskedAt, HoldsRow
<1>3. CASE pc[r] = "accounts"
  <2>1. PICK a \in todo[r] : accLock[a] = q
    BY <1>3 DEF WaitsFor
  <2>2. a \in HeldBy(q)
    BY <1>1, <2>1 DEF LocalTypeOK, HeldBy
  <2> QED
    BY <1>1, <2>2 DEF HoldsAccounts
<1>4. CASE pc[r] = "edit"
  <2>1. op[r].acc \in HeldBy(q)
    BY <1>1, <1>4 DEF WaitsFor, Asked, AskedAt, HeldBy
  <2> QED
    BY <1>1, <2>1 DEF HoldsAccounts
<1> QED
  BY <1>2, <1>3, <1>4

(* In any group of waiting requests the one that wants the largest account *)
(* waits for none of the others.                                           *)
LEMMA OrderBreaksCycles ==
  ASSUME LInv, LocksInOrder, NEW m \in Nat, Accounts \subseteq 1..m
  PROVE  NoWaitCycle
<1> SUFFICES ASSUME NEW S \in SUBSET {r \in Reqs : pc[r] \in {"row", "accounts", "edit"}},
                    S # {}, \A r \in S : \E q \in S : WaitsFor(r, q)
             PROVE  FALSE
  BY DEF NoWaitCycle
<1> DEFINE First(r, a) == a \in todo[r] /\ \A b \in todo[r] : a <= b
           W == {r \in S : pc[r] = "accounts"}
           T == {n \in Nat : \E r \in W : \E a \in Accounts : First(r, a) /\ n = m - a}
<1>0. LocalTypeOK
  BY DEF LInv
<1>1. W # {}
  BY HoldersLockAccounts
<1>2. ASSUME NEW r \in W
      PROVE  \E q \in W : \E a \in Accounts : First(r, a) /\ a \in HeldBy(q)
  <2>1. PICK q \in S : WaitsFor(r, q)
    OBVIOUS
  <2>2. PICK a \in todo[r] : First(r, a) /\ accLock[a] = q
    BY <2>1 DEF WaitsFor
  <2>3. q \in W
    BY <2>1, HoldersLockAccounts
  <2>4. a \in Accounts /\ a \in HeldBy(q)
    BY <1>0, <2>2 DEF LocalTypeOK, HeldBy
  <2> QED
    BY <2>2, <2>3, <2>4
<1> HIDE DEF First
<1>3. T # {}
  <2>1. PICK r \in W : TRUE
    BY <1>1
  <2>2. PICK a \in Accounts : First(r, a)
    BY <1>2
  <2>3. m - a \in Nat
    OBVIOUS
  <2> QED
    BY <2>2, <2>3
<1>4. PICK n \in T : \A k \in T : n <= k
  <2> T \in SUBSET Nat
    OBVIOUS
  <2> HIDE DEF T
  <2> QED
    BY <1>3, LeastNatural
<1>5. PICK r \in W, a \in Accounts : First(r, a) /\ n = m - a
  OBVIOUS
<1>6. PICK q \in W, c \in Accounts : First(r, c) /\ c \in HeldBy(q)
  BY <1>2
<1>7. a = c
  BY <1>5, <1>6 DEF First
<1>8. PICK d \in Accounts : First(q, d)
  BY <1>2
<1>9. c < d
  BY <1>6, <1>8 DEF LocksInOrder, First
<1>10. m - d \in T
  <2>1. m - d \in Nat
    OBVIOUS
  <2> QED
    BY <1>8, <2>1
<1> QED
  BY <1>4, <1>5, <1>7, <1>9, <1>10

(* Requests on transactions and cards never wait in a circle, however many *)
(* there are, as long as the ids of the accounts have an upper bound.      *)
THEOREM NeverInCircle ==
  ASSUME NEW m \in Nat, Accounts \subseteq 1..m
  PROVE  LedgerSpec => []NoWaitCycle
<1>1. LedgerInit => LocksInOrder
  BY DEF LedgerInit, LocksInOrder
<1>2. LInv /\ LocksInOrder => NoWaitCycle
  BY OrderBreaksCycles
<1> QED
  BY <1>1, <1>2, InitLInv, NextLInv, NextOrder, PTL DEF LedgerSpec
=============================================================================
