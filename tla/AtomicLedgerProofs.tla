------------------------- MODULE AtomicLedgerProofs -------------------------
(***************************************************************************)
(* The safety properties of AtomicLedger, for any accounts, kinds,         *)
(* transactions and requests.                                              *)
(***************************************************************************)
EXTENDS AtomicLedger, TLAPS

USE AccountsAssumption, InputsAssumption

(* What the properties need to be inductive: an account that was never     *)
(* opened has been moved by nobody, ids without a row hold NoRow, and no   *)
(* planned transfer pays a card, so a settlement never credits one.        *)
Untouched ==
  \A a \in Accounts : account[a] = "unborn" =>
    moved[a] = 0 /\ \A t \in Txs : net[t][a] = 0

NoRowWithoutLife == \A t \in Txs : fate[t] # "live" => row[t] = NoRow

PlannedPaysNoCard ==
  \A t \in Txs : row[t].planned /\ row[t].type = "TRANSFER" =>
    row[t].dest = NoAcc \/ ~IsCard(row[t].dest)

IInv ==
  /\ TypeOK
  /\ Untouched /\ NoRowWithoutLife /\ PlannedPaysNoCard
  /\ MovementsExplainBalance /\ EffectsAppliedOnce /\ NoOverdraft
  /\ RowsNameLiveAccounts

-----------------------------------------------------------------------------
(* The rules of LedgerRules.                                               *)

LEMMA NoRowType == NoRow \in Row
BY DEF NoRow, Row, NoAcc, Types, Statuses

LEMMA EffectType ==
  ASSUME NEW x \in Row, NEW a \in Accounts
  PROVE  Effect(x, a) \in Int
BY DEF Effect, Credited, Debited, Row

LEMMA EffectNamed ==
  ASSUME NEW x \in Row, NEW a \in Accounts, a \notin Refs(x)
  PROVE  Effect(x, a) = 0
BY DEF Effect, Refs, Row, NoAcc

LEMMA NoRowEffect == \A a \in Accounts : Effect(NoRow, a) = 0
BY DEF Effect, NoRow

LEMMA PendingEffect == \A x : \A a \in Accounts : x.status = "PENDING" => Effect(x, a) = 0
BY DEF Effect

(* A blocked account that agreed to a replacement is not overdrawn by it.  *)
LEMMA AdmitsNoOverdraft ==
  ASSUME NEW a \in Accounts, NEW x \in Row, NEW y \in Row,
         NEW bal \in Int, NEW lim \in Limits, NEW scheduled \in BOOLEAN,
         Kind[a] \in Blocked, bal >= 0, Admits(a, bal, lim, x, y, scheduled)
  PROVE  bal + Delta(x, y, a) >= 0
<1> DEFINE e == Effect(x, a)
           f == Effect(y, a)
<1>1. e \in Int /\ f \in Int
  BY EffectType
<1>2. Accepts(a, bal, lim, -e, scheduled) /\ Accepts(a, bal - e, lim, f, scheduled)
  BY DEF Admits
<1>3. ~IsCard(a) /\ Kind[a] # "CHECKING"
  BY DEF IsCard, Blocked
<1> HIDE DEF e, f
<1>4. bal - e >= 0
  BY <1>1, <1>2, <1>3 DEF Accepts
<1>5. bal - e + f >= 0
  BY <1>1, <1>2, <1>3, <1>4 DEF Accepts
<1> QED
  BY <1>1, <1>5 DEF Delta, e, f

(* A card that agreed to it, checks on, stays within its band.             *)
LEMMA AdmitsBand ==
  ASSUME NEW a \in Accounts, NEW x \in Row, NEW y \in Row,
         NEW bal \in Int, NEW lim \in Limits,
         IsCard(a), Admits(a, bal, lim, x, y, FALSE)
  PROVE  LET b == bal + Delta(x, y, a) IN
         \/ b = bal
         \/ b > bal /\ (lim = NoLimit \/ b <= lim)
         \/ b < bal /\ b >= 0
<1> DEFINE e == Effect(x, a)
           f == Effect(y, a)
<1>1. e \in Int /\ f \in Int
  BY EffectType
<1>2. Accepts(a, bal, lim, -e, FALSE) /\ Accepts(a, bal - e, lim, f, FALSE)
  BY DEF Admits
<1>3. Kind[a] # "CHECKING" /\ Kind[a] \notin Blocked
  BY DEF IsCard, Blocked
<1>4. lim \in Int
  BY DEF Limits, NoLimit
<1> HIDE DEF e, f
<1>5. \/ -e = 0
      \/ -e > 0 /\ (lim = NoLimit \/ -e <= lim - bal)
      \/ -e < 0 /\ bal - e >= 0
  BY <1>1, <1>2, <1>3 DEF Accepts
<1>6. \/ f = 0
      \/ f > 0 /\ (lim = NoLimit \/ f <= lim - (bal - e))
      \/ f < 0 /\ bal - e + f >= 0
  BY <1>1, <1>2, <1>3 DEF Accepts
<1>7. Delta(x, y, a) = f - e
  BY DEF Delta, e, f
<1> QED
  BY <1>1, <1>4, <1>5, <1>6, <1>7

-----------------------------------------------------------------------------
(* A row has no effect on an account that does not exist.                  *)
LEMMA AbsentEffect ==
  ASSUME TypeOK, NoRowWithoutLife, RowsNameLiveAccounts,
         NEW t \in Txs, NEW a \in Accounts, a \notin Live
  PROVE  Effect(row[t], a) = 0
<1>1. CASE fate[t] = "live"
  <2>1. row[t] \in Row /\ a \notin Refs(row[t])
    BY <1>1 DEF TypeOK, RowsNameLiveAccounts
  <2> QED
    BY <2>1, EffectNamed
<1>2. CASE fate[t] # "live"
  BY <1>2, NoRowEffect DEF NoRowWithoutLife
<1> QED
  BY <1>1, <1>2

(* Every action that moves money replaces one row by another: the four of  *)
(* them keep the invariant for the same reason.                            *)
LEMMA ReplaceStep ==
  ASSUME IInv, NEW t \in Txs, NEW new \in Row, NEW scheduled \in BOOLEAN,
         Replace(t, row[t], new, scheduled),
         Refs(new) \subseteq Live,
         new.planned /\ new.type = "TRANSFER" => new.dest = NoAcc \/ ~IsCard(new.dest),
         fate' \in [Txs -> {"unused", "live", "deleted", "cascaded"}],
         \A u \in Txs \ {t} : fate'[u] = fate[u],
         fate[t] # "cascaded",
         fate'[t] = "live" \/ new = NoRow,
         fate'[t] = "live" => new.account \in Live,
         row' = [row EXCEPT ![t] = new],
         account' = account, limit' = limit
  PROVE  IInv'
<1> USE DEF IInv
<1>1. \A a \in Accounts : Effect(row[t], a) \in Int /\ Effect(new, a) \in Int
  BY EffectType DEF TypeOK
<1>2. \A a \in Accounts : Delta(row[t], new, a) \in Int
  BY <1>1 DEF Delta
<1>3. Live' = Live
  BY DEF Live
<1>4. TypeOK'
  BY <1>2 DEF TypeOK, Replace
<1>5. Untouched'
  <2> SUFFICES ASSUME NEW a \in Accounts, account[a] = "unborn"
               PROVE  moved'[a] = 0 /\ \A u \in Txs : net'[u][a] = 0
    BY DEF Untouched
  <2>1. a \notin Live
    BY DEF Live
  <2>2. Effect(row[t], a) = 0
    BY <2>1, AbsentEffect
  <2>3. Effect(new, a) = 0
    BY <2>1, EffectNamed
  <2>4. Delta(row[t], new, a) = 0
    BY <2>2, <2>3 DEF Delta
  <2> QED
    BY <2>4 DEF Untouched, Replace, TypeOK
<1>6. NoRowWithoutLife'
  BY DEF NoRowWithoutLife, TypeOK
<1>7. PlannedPaysNoCard'
  BY DEF PlannedPaysNoCard, TypeOK
<1>8. MovementsExplainBalance'
  BY <1>2, <1>3 DEF MovementsExplainBalance, Replace, Live
<1>9. EffectsAppliedOnce'
  <2> SUFFICES ASSUME NEW u \in Txs, fate'[u] # "cascaded", NEW a \in Live
               PROVE  net'[u][a] = Effect(row'[u], a)
    BY <1>3 DEF EffectsAppliedOnce
  <2>1. a \in Accounts
    BY DEF Live
  <2>2. CASE u # t
    BY <2>1, <2>2 DEF EffectsAppliedOnce, Replace, TypeOK
  <2>3. CASE u = t
    <3>1. net[t][a] = Effect(row[t], a)
      BY DEF EffectsAppliedOnce
    <3>2. net'[t][a] = net[t][a] + Delta(row[t], new, a)
      BY <2>1 DEF Replace, TypeOK
    <3>3. row'[t] = new
      BY DEF TypeOK
    <3>4. Effect(row[t], a) + Delta(row[t], new, a) = Effect(new, a)
      BY <2>1, <1>1 DEF Delta
    <3> QED
      BY <2>3, <3>1, <3>2, <3>3, <3>4
  <2> QED
    BY <2>2, <2>3
<1>10. NoOverdraft'
  <2> SUFFICES ASSUME NEW a \in Live, Kind[a] \in Blocked
               PROVE  balance'[a] >= 0
    BY <1>3 DEF NoOverdraft
  <2>1. a \in Accounts /\ row[t] \in Row /\ balance[a] \in Int /\ limit[a] \in Limits
    BY DEF Live, TypeOK
  <2>2. balance[a] >= 0
    BY DEF NoOverdraft
  <2>3. Admits(a, balance[a], limit[a], row[t], new, scheduled)
    BY <2>1 DEF Replace
  <2>4. balance'[a] = balance[a] + Delta(row[t], new, a)
    BY <2>1 DEF Replace
  <2> HIDE DEF IInv
  <2>5. a \in Accounts
    BY <2>1
  <2>6. balance[a] + Delta(row[t], new, a) >= 0
    BY <2>5, <2>1, <2>2, <2>3, AdmitsNoOverdraft
  <2> QED
    BY <2>4, <2>6
<1>11. RowsNameLiveAccounts'
  BY <1>3 DEF RowsNameLiveAccounts, TypeOK
<1> QED
  BY <1>4, <1>5, <1>6, <1>7, <1>8, <1>9, <1>10, <1>11

LEMMA InitIInv == Init => IInv
<1> SUFFICES ASSUME Init PROVE IInv
  OBVIOUS
<1> USE DEF Init
<1>1. TypeOK
  BY NoRowType DEF TypeOK, Limits
<1>2. Untouched /\ NoRowWithoutLife
  BY DEF Untouched, NoRowWithoutLife
<1>3. PlannedPaysNoCard
  BY DEF PlannedPaysNoCard, NoRow
<1>4. MovementsExplainBalance /\ NoOverdraft
  BY DEF MovementsExplainBalance, NoOverdraft, Live
<1>5. EffectsAppliedOnce
  BY NoRowEffect DEF EffectsAppliedOnce, Live
<1>6. RowsNameLiveAccounts
  BY DEF RowsNameLiveAccounts
<1> QED
  BY <1>1, <1>2, <1>3, <1>4, <1>5, <1>6 DEF IInv

LEMMA CreateKeeps ==
  ASSUME IInv, NEW t \in Txs, NEW x \in Drafts, CreateTx(t, x)
  PROVE  IInv'
<1> USE DEF CreateTx
<1>1. x \in Row /\ x.account \in Live
  BY DEF Creatable, PlainRow, InvoicePayment, FirstInstallment, WellFormed, Refs
<1>2. row[t] = NoRow
  BY DEF IInv, NoRowWithoutLife
<1>3. x.planned /\ x.type = "TRANSFER" => ~IsCard(x.dest)
  BY DEF Creatable, PlainRow, InvoicePayment, FirstInstallment
<1>4. /\ fate' \in [Txs -> {"unused", "live", "deleted", "cascaded"}]
      /\ fate'[t] = "live"
      /\ \A u \in Txs \ {t} : fate'[u] = fate[u]
  BY DEF IInv, TypeOK
<1> QED
  BY <1>1, <1>2, <1>3, <1>4, ReplaceStep, FALSE \in BOOLEAN

LEMMA UpdateKeeps ==
  ASSUME IInv, NEW t \in Txs, NEW x \in Drafts, UpdateTx(t, x)
  PROVE  IInv'
<1> DEFINE y == Edited(row[t], x)
<1> USE DEF UpdateTx
<1>1. x \in Row /\ row[t] \in Row
  BY DEF IInv, TypeOK
<1>2. /\ y \in Row /\ Refs(y) = Refs(x)
      /\ y.account = x.account /\ y.dest = x.dest /\ y.type = x.type
  BY <1>1 DEF Edited, Row, Refs
<1>3. y.account \in Live
  BY <1>1, <1>2 DEF PlainRow, WellFormed, Refs
<1>4. y.planned /\ y.type = "TRANSFER" => ~IsCard(y.dest)
  BY <1>2 DEF PlainRow
<1>5. fate' \in [Txs -> {"unused", "live", "deleted", "cascaded"}] /\ fate'[t] = "live"
  BY DEF IInv, TypeOK
<1> HIDE DEF y
<1>6. Replace(t, row[t], y, FALSE) /\ row' = [row EXCEPT ![t] = y]
  BY DEF y
<1> QED
  BY <1>2, <1>3, <1>4, <1>5, <1>6, ReplaceStep, FALSE \in BOOLEAN

LEMMA DeleteKeeps ==
  ASSUME IInv, NEW t \in Txs, DeleteTx(t)
  PROVE  IInv'
<1> USE DEF DeleteTx
<1>1. /\ fate' \in [Txs -> {"unused", "live", "deleted", "cascaded"}]
      /\ fate'[t] = "deleted"
      /\ \A u \in Txs \ {t} : fate'[u] = fate[u]
  BY DEF IInv, TypeOK
<1>2. Refs(NoRow) = {} /\ ~NoRow.planned
  BY DEF Refs, NoRow
<1> QED
  BY <1>1, <1>2, NoRowType, ReplaceStep, FALSE \in BOOLEAN

LEMMA StatusKeeps ==
  ASSUME IInv, NEW t \in Txs, NEW s \in Statuses, NEW scheduled \in BOOLEAN,
         SetStatus(t, s, scheduled)
  PROVE  IInv'
<1> DEFINE y == WithStatus(row[t], s)
<1> USE DEF SetStatus
<1>1. row[t] \in Row
  BY DEF IInv, TypeOK
<1>2. /\ y \in Row /\ Refs(y) = Refs(row[t]) /\ y.planned = row[t].planned
      /\ y.account = row[t].account /\ y.dest = row[t].dest /\ y.type = row[t].type
  BY <1>1 DEF WithStatus, Row, Refs
<1>3. y.account \in Live /\ Refs(y) \subseteq Live
  BY <1>2 DEF IInv, RowsNameLiveAccounts
<1>4. y.planned /\ y.type = "TRANSFER" => y.dest = NoAcc \/ ~IsCard(y.dest)
  BY <1>2 DEF IInv, PlannedPaysNoCard
<1>5. fate' \in [Txs -> {"unused", "live", "deleted", "cascaded"}] /\ fate'[t] = "live"
  BY DEF IInv, TypeOK
<1> HIDE DEF y
<1>6. Replace(t, row[t], y, scheduled) /\ row' = [row EXCEPT ![t] = y]
  BY DEF y
<1> QED
  BY <1>2, <1>3, <1>4, <1>5, <1>6, ReplaceStep

LEMMA GenerateKeeps ==
  ASSUME IInv, NEW t \in Txs, NEW x \in Drafts, Generate(t, x)
  PROVE  IInv'
<1> USE DEF Generate, IInv
<1>1. x \in Row /\ x.status = "PENDING" /\ x.account \in Live
  BY DEF Occurrence, PlainRow, WellFormed, Refs
<1>2. row[t] = NoRow
  BY DEF NoRowWithoutLife
<1>3. \A a \in Accounts : Effect(x, a) = 0 /\ Effect(NoRow, a) = 0
  BY <1>1, PendingEffect, NoRowEffect
<1>4. Live' = Live
  BY DEF Live
<1>5. TypeOK'
  BY <1>1 DEF TypeOK
<1>6. Untouched' /\ NoRowWithoutLife'
  BY DEF Untouched, NoRowWithoutLife, TypeOK
<1>7. PlannedPaysNoCard'
  BY DEF PlannedPaysNoCard, TypeOK, Occurrence, PlainRow
<1>8. MovementsExplainBalance' /\ NoOverdraft'
  BY <1>4 DEF MovementsExplainBalance, NoOverdraft
<1>9. EffectsAppliedOnce'
  <2> SUFFICES ASSUME NEW u \in Txs, fate'[u] # "cascaded", NEW a \in Live
               PROVE  net[u][a] = Effect(row'[u], a)
    BY <1>4 DEF EffectsAppliedOnce
  <2>1. fate[u] # "cascaded"
    BY DEF TypeOK
  <2>2. net[u][a] = Effect(row[u], a) /\ a \in Accounts
    BY <2>1 DEF EffectsAppliedOnce, Live
  <2>3. CASE u # t
    BY <2>2, <2>3 DEF TypeOK
  <2>4. CASE u = t
    BY <2>2, <2>4, <1>2, <1>3 DEF TypeOK
  <2> QED
    BY <2>3, <2>4
<1>10. RowsNameLiveAccounts'
  BY <1>1, <1>4 DEF RowsNameLiveAccounts, TypeOK
<1> QED
  BY <1>5, <1>6, <1>7, <1>8, <1>9, <1>10

LEMMA OpenKeeps ==
  ASSUME IInv, NEW a \in Accounts, NEW b \in Openings \cup {0},
         NEW l \in LimitChoices \cup {NoLimit}, OpenAccount(a, b, l)
  PROVE  IInv'
<1> USE DEF OpenAccount, IInv
<1>1. b \in Int /\ l \in Limits
  BY DEF Limits
<1>2. Live' = Live \cup {a} /\ a \notin Live
  BY DEF Live, TypeOK
<1>3. TypeOK'
  BY <1>1 DEF TypeOK
<1>4. Untouched'
  BY DEF Untouched, TypeOK
<1>5. NoRowWithoutLife' /\ PlannedPaysNoCard'
  BY DEF NoRowWithoutLife, PlannedPaysNoCard
<1>6. MovementsExplainBalance'
  BY <1>1, <1>2 DEF MovementsExplainBalance, Untouched, TypeOK
<1>7. EffectsAppliedOnce'
  <2> SUFFICES ASSUME NEW u \in Txs, fate[u] # "cascaded", NEW c \in Live \cup {a}
               PROVE  net[u][c] = Effect(row[u], c)
    BY <1>2 DEF EffectsAppliedOnce
  <2>1. CASE c = a
    BY <1>2, <2>1, AbsentEffect DEF Untouched
  <2>2. CASE c # a
    BY <2>2 DEF EffectsAppliedOnce
  <2> QED
    BY <2>1, <2>2
<1>8. NoOverdraft'
  BY <1>1, <1>2 DEF NoOverdraft, TypeOK
<1>9. RowsNameLiveAccounts'
  BY <1>2 DEF RowsNameLiveAccounts
<1> QED
  BY <1>3, <1>4, <1>5, <1>6, <1>7, <1>8, <1>9

LEMMA DropKeeps ==
  ASSUME IInv, NEW a \in Accounts, DropAccount(a)
  PROVE  IInv'
<1> USE DEF DropAccount, IInv
<1>1. Live' = Live \ {a} /\ a # NoAcc
  BY DEF Live, TypeOK, NoAcc
<1>2. \A t \in Txs : row[t].account = a => fate[t] = "live"
  BY <1>1 DEF NoRowWithoutLife, NoRow
<1>3. \A t \in Txs : /\ row'[t] \in Row
                     /\ row'[t] = row[t] \/ row'[t] = NoRow \/ row'[t] = [row[t] EXCEPT !.dest = NoAcc]
  BY NoRowType DEF TypeOK, Row
<1>4. TypeOK'
  BY <1>3 DEF TypeOK
<1>5. Untouched' /\ MovementsExplainBalance' /\ NoOverdraft'
  BY <1>1 DEF Untouched, MovementsExplainBalance, NoOverdraft, TypeOK, Live
<1>6. NoRowWithoutLife'
  <2> SUFFICES ASSUME NEW t \in Txs, fate'[t] # "live"
               PROVE  row'[t] = NoRow
    BY DEF NoRowWithoutLife
  <2>1. CASE row[t].account = a
    BY <2>1
  <2>2. CASE row[t].account # a
    <3>1. row[t] = NoRow
      BY <2>2 DEF NoRowWithoutLife
    <3>2. row[t].dest # a
      BY <3>1, <1>1 DEF NoRow
    <3> QED
      BY <2>2, <3>1, <3>2
  <2> QED
    BY <2>1, <2>2
<1>7. PlannedPaysNoCard'
  BY DEF PlannedPaysNoCard, NoRow, TypeOK, Row
<1>8. EffectsAppliedOnce'
  <2> SUFFICES ASSUME NEW u \in Txs, fate'[u] # "cascaded", NEW c \in Live, c # a
               PROVE  net[u][c] = Effect(row'[u], c)
    BY <1>1 DEF EffectsAppliedOnce
  <2>1. fate[u] # "cascaded" /\ row[u].account # a
    BY <1>2
  <2>2. net[u][c] = Effect(row[u], c)
    BY <2>1 DEF EffectsAppliedOnce
  <2>3. CASE row[u].dest # a
    BY <2>1, <2>2, <2>3
  <2>4. CASE row[u].dest = a
    <3>1. row'[u] = [row[u] EXCEPT !.dest = NoAcc] /\ row[u] \in Row
      BY <2>1, <2>4 DEF TypeOK
    <3>2. c # NoAcc /\ c \in Accounts
      BY DEF Live, NoAcc
    <3> QED
      BY <2>2, <2>4, <3>1, <3>2 DEF Effect, Row
  <2> QED
    BY <2>3, <2>4
<1>9. RowsNameLiveAccounts'
  <2> SUFFICES ASSUME NEW u \in Txs, fate'[u] = "live"
               PROVE  row'[u].account \in Live' /\ Refs(row'[u]) \subseteq Live'
    BY DEF RowsNameLiveAccounts
  <2>1. fate[u] = "live" /\ row[u].account # a /\ row[u] \in Row
    BY <1>2 DEF TypeOK
  <2>2. row'[u].account = row[u].account /\ row'[u].dest \in {row[u].dest, NoAcc} \ {a}
    BY <1>1, <2>1 DEF Row
  <2> QED
    BY <1>1, <2>1, <2>2 DEF RowsNameLiveAccounts, Refs
<1> QED
  BY <1>4, <1>5, <1>6, <1>7, <1>8, <1>9

LEMMA NextIInv == IInv /\ [Next]_dataVars => IInv'
<1> SUFFICES ASSUME IInv, [Next]_dataVars PROVE IInv'
  OBVIOUS
<1>1. ASSUME NEW t \in Txs, NEW x \in Drafts, CreateTx(t, x) PROVE IInv'
  BY <1>1, CreateKeeps
<1>2. ASSUME NEW t \in Txs, NEW x \in Drafts, UpdateTx(t, x) PROVE IInv'
  BY <1>2, UpdateKeeps
<1>3. ASSUME NEW t \in Txs, DeleteTx(t) PROVE IInv'
  BY <1>3, DeleteKeeps
<1>4. ASSUME NEW t \in Txs, NEW s \in Statuses, NEW scheduled \in BOOLEAN,
             SetStatus(t, s, scheduled)
      PROVE  IInv'
  BY <1>4, StatusKeeps
<1>5. ASSUME NEW t \in Txs, NEW x \in Drafts, Generate(t, x) PROVE IInv'
  BY <1>5, GenerateKeeps
<1>6. ASSUME NEW a \in Accounts, NEW b \in Openings \cup {0},
             NEW l \in LimitChoices \cup {NoLimit}, OpenAccount(a, b, l)
      PROVE  IInv'
  BY <1>6, OpenKeeps
<1>7. ASSUME NEW a \in Accounts, NEW l \in LimitChoices \cup {NoLimit}, EditAccount(a, l)
      PROVE  IInv'
  <2> USE <1>7 DEF EditAccount
  <2>1. l \in Limits /\ Live' = Live
    BY DEF Limits, Live
  <2>2. TypeOK'
    BY <2>1 DEF IInv, TypeOK
  <2> QED
    BY <2>1, <2>2 DEF IInv, Untouched, NoRowWithoutLife, PlannedPaysNoCard,
         MovementsExplainBalance, EffectsAppliedOnce, NoOverdraft, RowsNameLiveAccounts
<1>8. ASSUME NEW a \in Accounts, DropAccount(a) PROVE IInv'
  BY <1>8, DropKeeps
<1>9. CASE UNCHANGED dataVars
  BY <1>9 DEF dataVars, IInv, TypeOK, Untouched, NoRowWithoutLife, PlannedPaysNoCard,
       MovementsExplainBalance, EffectsAppliedOnce, NoOverdraft, RowsNameLiveAccounts, Live
<1> QED
  BY <1>1, <1>2, <1>3, <1>4, <1>5, <1>6, <1>7, <1>8, <1>9 DEF Next

-----------------------------------------------------------------------------
(* The columns always hold values of their types; no operation leaves a    *)
(* limit that is neither NULL nor a natural number.                        *)
THEOREM TypeCorrect == Spec => []TypeOK
<1>1. IInv => TypeOK
  BY DEF IInv
<1> QED
  BY <1>1, InitIInv, NextIInv, PTL DEF Spec

(* The stored balance of every existing account is the sum of its          *)
(* movements, after any operations of the repositories.                    *)
THEOREM MovementsExplain == Spec => []MovementsExplainBalance
<1>1. IInv => MovementsExplainBalance
  BY DEF IInv
<1> QED
  BY <1>1, InitIInv, NextIInv, PTL DEF Spec

(* Every transaction moved every existing account by what its row says:    *)
(* never twice, never half of it.                                          *)
THEOREM AppliedOnce == Spec => []EffectsAppliedOnce
<1>1. IInv => EffectsAppliedOnce
  BY DEF IInv
<1> QED
  BY <1>1, InitIInv, NextIInv, PTL DEF Spec

(* No cash or investment account is overdrawn, also not by undoing an      *)
(* income or moving a transaction to another account.                      *)
THEOREM NeverOverdrawn == Spec => []NoOverdraft
<1>1. IInv => NoOverdraft
  BY DEF IInv
<1> QED
  BY <1>1, InitIInv, NextIInv, PTL DEF Spec

(* No transaction names an account that was deleted.                       *)
THEOREM NamesLiveAccounts == Spec => []RowsNameLiveAccounts
<1>1. IInv => RowsNameLiveAccounts
  BY DEF IInv
<1> QED
  BY <1>1, InitIInv, NextIInv, PTL DEF Spec

-----------------------------------------------------------------------------
(* What one step may do to card a: the body of CardBand.                   *)
BandStep(a) ==
  IsCard(a) /\ account[a] = "live" =>
    \/ balance'[a] = balance[a]
    \/ balance'[a] > balance[a] /\ (limit[a] = NoLimit \/ balance'[a] <= limit[a])
    \/ balance'[a] < balance[a] /\ balance'[a] >= 0
    \/ \E t \in Txs : Settles(t, a)

(* A replacement with the checks on keeps every card within its band.      *)
LEMMA ReplaceBand ==
  ASSUME TypeOK, NEW t \in Txs, NEW new \in Row, NEW a \in Accounts,
         Replace(t, row[t], new, FALSE)
  PROVE  BandStep(a)
<1> SUFFICES ASSUME IsCard(a) PROVE BandStep(a)
  BY DEF BandStep
<1>1. row[t] \in Row /\ balance[a] \in Int /\ limit[a] \in Limits
  BY DEF TypeOK
<1>2. Admits(a, balance[a], limit[a], row[t], new, FALSE)
  BY DEF Replace
<1>3. balance'[a] = balance[a] + Delta(row[t], new, a)
  BY DEF Replace
<1> QED
  BY <1>1, <1>2, <1>3, AdmitsBand DEF BandStep

LEMMA StatusBand ==
  ASSUME IInv, NEW t \in Txs, NEW s \in Statuses, NEW scheduled \in BOOLEAN,
         SetStatus(t, s, scheduled), NEW a \in Accounts
  PROVE  BandStep(a)
<1> USE DEF SetStatus
<1>1. TypeOK /\ row[t] \in Row /\ WithStatus(row[t], s) \in Row
  BY DEF IInv, TypeOK, WithStatus, Row
<1>2. CASE ~scheduled
  BY <1>1, <1>2, ReplaceBand
<1>3. CASE scheduled /\ row[t].account = a
  <2>1. row[t].status = "PENDING" /\ s = "COMPLETED" /\ row[t].planned
    BY <1>1, <1>3 DEF Row, Statuses
  <2>2. Settles(t, a)
    BY <1>3, <2>1 DEF Settles, WithStatus
  <2> QED
    BY <2>2 DEF BandStep
<1>4. CASE scheduled /\ row[t].account # a
  <2> SUFFICES ASSUME IsCard(a) PROVE balance'[a] = balance[a]
    BY DEF BandStep
  <2>1. row[t].type = "TRANSFER" => row[t].dest # a
    BY <1>4 DEF IInv, PlannedPaysNoCard, NoAcc
  <2>2. Effect(row[t], a) = 0 /\ Effect(WithStatus(row[t], s), a) = 0
    BY <1>1, <1>4, <2>1 DEF Effect, WithStatus, Row
  <2>3. Delta(row[t], WithStatus(row[t], s), a) = 0
    BY <2>2 DEF Delta
  <2>4. balance'[a] = balance[a] + 0
    BY <2>3 DEF Replace
  <2> QED
    BY <2>4, <1>1 DEF TypeOK
<1> QED
  BY <1>2, <1>3, <1>4

(* Only a settlement of a planned transaction of the card moves its debt   *)
(* above the limit or below zero.                                          *)
THEOREM BandKept == Spec => CardBand
<1>1. IInv /\ [Next]_dataVars => [\A a \in Accounts : BandStep(a)]_dataVars
  <2> SUFFICES ASSUME IInv, Next, NEW a \in Accounts PROVE BandStep(a)
    OBVIOUS
  <2>0. TypeOK
    BY DEF IInv
  <2>1. ASSUME NEW t \in Txs, NEW x \in Drafts, CreateTx(t, x) PROVE BandStep(a)
    <3>1. row[t] = NoRow
      BY <2>1 DEF IInv, NoRowWithoutLife, CreateTx
    <3> QED
      BY <2>0, <2>1, <3>1, ReplaceBand DEF CreateTx
  <2>2. ASSUME NEW t \in Txs, NEW x \in Drafts, UpdateTx(t, x) PROVE BandStep(a)
    <3>1. Edited(row[t], x) \in Row
      BY <2>0 DEF TypeOK, Edited, Row
    <3> QED
      BY <2>0, <2>2, <3>1, ReplaceBand DEF UpdateTx
  <2>3. ASSUME NEW t \in Txs, DeleteTx(t) PROVE BandStep(a)
    BY <2>0, <2>3, NoRowType, ReplaceBand DEF DeleteTx
  <2>4. ASSUME NEW t \in Txs, NEW s \in Statuses, NEW scheduled \in BOOLEAN,
               SetStatus(t, s, scheduled)
        PROVE  BandStep(a)
    BY <2>4, StatusBand
  <2>5. ASSUME NEW t \in Txs, NEW x \in Drafts, Generate(t, x) PROVE BandStep(a)
    BY <2>5 DEF Generate, BandStep
  <2>6. ASSUME NEW c \in Accounts, NEW b \in Openings \cup {0},
               NEW l \in LimitChoices \cup {NoLimit}, OpenAccount(c, b, l)
        PROVE  BandStep(a)
    BY <2>6, <2>0 DEF OpenAccount, BandStep, TypeOK
  <2>7. ASSUME NEW c \in Accounts, NEW l \in LimitChoices \cup {NoLimit}, EditAccount(c, l)
        PROVE  BandStep(a)
    BY <2>7 DEF EditAccount, BandStep
  <2>8. ASSUME NEW c \in Accounts, DropAccount(c) PROVE BandStep(a)
    BY <2>8 DEF DropAccount, BandStep
  <2> QED
    BY <2>1, <2>2, <2>3, <2>4, <2>5, <2>6, <2>7, <2>8 DEF Next
<1>2. [\A a \in Accounts : BandStep(a)]_dataVars
        <=> [\A a \in Accounts : IsCard(a) /\ account[a] = "live" =>
               \/ balance'[a] = balance[a]
               \/ balance'[a] > balance[a] /\ (limit[a] = NoLimit \/ balance'[a] <= limit[a])
               \/ balance'[a] < balance[a] /\ balance'[a] >= 0
               \/ \E t \in Txs : Settles(t, a)]_dataVars
  BY DEF BandStep
<1> QED
  BY <1>1, <1>2, InitIInv, NextIInv, PTL DEF Spec, CardBand
=============================================================================
