----------------------------- MODULE JobProofs ------------------------------
(***************************************************************************)
(* Proofs about the jobs that the cron calls: RecurringJob and             *)
(* SettlementJob.                                                          *)
(***************************************************************************)
EXTENDS RecurringJob, SettlementJob, DataLemmas

-----------------------------------------------------------------------------
(***************************************************************************)
(* The recurring job, for any number of runs, clients and rules, and any   *)
(* intervals, batch size, look-ahead and cap.                              *)
(***************************************************************************)

(* Days and dates are integers.                                            *)
LEMMA DatesAreIntegers ==
  /\ Days \subseteq Int /\ Dates \subseteq Nat /\ Never \in Int /\ Never \notin Dates
  /\ Days \subseteq Dates /\ 0 \in Days /\ LookAhead \in Nat /\ LastDay \in Nat
  /\ MaxGen \in Nat /\ \A n \in Steps : n \in Nat /\ n > 0
BY JobAssumption DEF JobAssumption, Days, Dates, Never

LEMMA DatesAreFinite == IsFiniteSet(Dates)
BY DatesAreIntegers, FS_Interval DEF Dates

LEMMA CastIsTyped ==
  ASSUME cast \in Casts
  PROVE  /\ cast.runs \subseteq Runs /\ cast.clients \subseteq Clients
         /\ cast.rules \subseteq Rules /\ cast.edits \subseteq Edits
         /\ cast.cap \in Nat
BY JobAssumption DEF JobAssumption

LEMMA RowFields ==
  ASSUME NEW s \in RuleRows
  PROVE  /\ s.status \in {"none", "active", "paused", "deleted"}
         /\ s.start \in Dates /\ s.end \in Dates \cup {Never}
         /\ s.every \in Steps /\ s.last \in Dates \cup {Never}
BY DEF RuleRows

LEMMA RowNumbers ==
  ASSUME NEW s \in RuleRows
  PROVE  /\ s.start \in Int /\ s.every \in Nat \ {0}
         /\ s.last = Never \/ s.last \in Int
         /\ s.end = Never \/ s.end \in Int
<1>1. s.start \in Dates /\ s.end \in Dates \cup {Never} /\ s.every \in Steps /\ s.last \in Dates \cup {Never}
  BY RowFields
<1>2. Dates \subseteq Int /\ \A n \in Steps : n \in Nat \ {0}
  BY DatesAreIntegers
<1> QED
  BY <1>1, <1>2

LEMMA NoRuleIsARow == NoRule \in RuleRows /\ NoRule.status = "none" /\ NoRule.last = Never
<1>1. (CHOOSE e \in Steps : TRUE) \in Steps
  BY JobAssumption DEF JobAssumption
<1> QED
  BY <1>1, DatesAreIntegers DEF NoRule, RuleRows, Days

(* The anchor after a run is the last date generated, if there is one.     *)
LEMMA AnchorIsLastDue ==
  ASSUME NEW s \in RuleRows, NEW t
  PROVE  /\ Anchor(s, t) \in Dates \cup {Never}
         /\ Due(s, t) = {} => Anchor(s, t) = s.last
         /\ Due(s, t) # {} => /\ Anchor(s, t) \in Due(s, t)
                              /\ \A e \in Due(s, t) : e <= Anchor(s, t)
<1>1. Due(s, t) \in SUBSET Dates
  BY DEF Due
<1>2. Due(s, t) \in SUBSET Int /\ IsFiniteSet(Due(s, t))
  <2> DEFINE D == Due(s, t)
  <2>1. D \in SUBSET Dates
    BY <1>1
  <2> HIDE DEF D
  <2>2. IsFiniteSet(D)
    BY <2>1, DatesAreFinite, FS_Subset
  <2>3. D \in SUBSET Int
    BY <2>1, DatesAreIntegers
  <2> QED
    BY <2>2, <2>3 DEF D
<1>3. CASE Due(s, t) = {}
  BY <1>3, RowFields DEF Anchor
<1>4. CASE Due(s, t) # {}
  <2>1. \E d \in Due(s, t) : \A e \in Due(s, t) : e <= d
    BY <1>2, <1>4, Greatest
  <2>2. Anchor(s, t) = CHOOSE d \in Due(s, t) : \A e \in Due(s, t) : e <= d
    BY <1>4 DEF Anchor
  <2> QED
    BY <1>1, <1>4, <2>1, <2>2
<1> QED
  BY <1>3, <1>4

(* What a client writes is a row, of a rule that exists, and keeps what    *)
(* the other edits do not touch.                                           *)
LEMMA EditedIsARow ==
  ASSUME NEW s \in RuleRows, NEW edit, NEW t \in Edited(s, edit)
  PROVE  /\ t \in RuleRows
         /\ s.status \in {"active", "paused"} => t.status \in {"active", "paused"}
         /\ edit \notin {"start", "interval"} =>
              t.start = s.start /\ t.every = s.every /\ t.last = s.last
<1> USE RowFields DEF Edited
<1>1. CASE edit = "toggle"
  BY <1>1 DEF RuleRows
<1>2. CASE edit = "start"
  <2>1. PICK d \in Dates : t = [s EXCEPT !.start = d, !.last = Never]
    BY <1>2
  <2> QED
    BY <1>2, <2>1 DEF RuleRows
<1>3. CASE edit = "end"
  <2>1. PICK d \in Dates \cup {Never} : t = [s EXCEPT !.end = d]
    BY <1>3
  <2> QED
    BY <1>3, <2>1 DEF RuleRows
<1>4. CASE edit = "interval"
  <2>1. PICK n \in Steps : t = [s EXCEPT !.every = n]
    BY <1>4
  <2> QED
    BY <1>4, <2>1 DEF RuleRows
<1>5. CASE edit \notin {"toggle", "start", "end", "interval"}
  BY <1>5
<1> QED
  BY <1>1, <1>2, <1>3, <1>4, <1>5

-----------------------------------------------------------------------------
(* The state has its type.                                                 *)

LEMMA InitTypeOK == Init => TypeOK
BY DatesAreIntegers, NoRuleIsARow DEF Init, TypeOK

LEMMA EndTypeOK ==
  ASSUME TypeOK, NEW r \in Runs, End(r)
  PROVE  /\ pc' \in [Runs -> {"idle", "exists", "lock", "list", "generate", "mark", "release"}]
         /\ day' \in [Runs -> Days]
         /\ batch' \in [Runs -> SUBSET (Rules \X RuleRows)]
         /\ after' \in [Runs -> Rules \cup {Never}]
         /\ more' \in SUBSET Runs
BY DatesAreIntegers DEF TypeOK, End, Goto

LEMMA WorldTypeOK == ASSUME TypeOK, World PROVE TypeOK'
<1> USE CastIsTyped DEF TypeOK, tables, redis, locals, clients
<1>1. ASSUME NEW i \in cast.rules, NEW s \in NewRules, CreateRule(i, s) PROVE TypeOK'
  <2>1. s \in RuleRows
    BY DEF NewRules, RuleRows
  <2> QED
    BY <1>1, <2>1 DEF CreateRule
<1>2. ASSUME NEW i \in cast.rules, DeleteRule(i) PROVE TypeOK'
  <2>1. rule' = [rule EXCEPT ![i].status = "deleted"] /\ i \in Rules
    BY <1>2 DEF DeleteRule
  <2>2. rule' \in [Rules -> RuleRows]
    BY <2>1, SMTT(30) DEF RuleRows
  <2> QED
    BY <1>2, <2>2 DEF DeleteRule
<1>3. ASSUME NEW i \in cast.rules, Break(i) PROVE TypeOK'
  BY <1>3 DEF Break
<1>4. ASSUME NEW i \in cast.rules, NEW d \in Dates, DeleteRow(i, d) PROVE TypeOK'
  BY <1>4 DEF DeleteRow
<1>5. ASSUME NEW c \in cast.clients, NEW i \in cast.rules, Load(c, i) PROVE TypeOK'
  BY <1>5 DEF Load
<1>6. ASSUME NEW c \in cast.clients, Save(c) PROVE TypeOK'
  <2>1. draft' = [draft EXCEPT ![c] = NoRule] /\ target' = [target EXCEPT ![c] = Never]
    BY <1>6 DEF Save
  <2>2. rule' \in [Rules -> RuleRows]
    <3>1. CASE UNCHANGED rule
      BY <3>1
    <3>2. ASSUME NEW edit \in cast.edits, NEW t \in Edited(draft[c], edit),
                 rule' = [rule EXCEPT ![target[c]] = t]
          PROVE  rule' \in [Rules -> RuleRows]
      <4>1. draft[c] \in RuleRows
        OBVIOUS
      <4>2. t \in RuleRows
        BY <4>1, EditedIsARow
      <4> QED
        BY <3>2, <4>2
    <3> QED
      BY <1>6, <3>1, <3>2 DEF Save
  <2> QED
    BY <1>6, <2>1, <2>2, NoRuleIsARow DEF Save
<1> QED
  BY <1>1, <1>2, <1>3, <1>4, <1>5, <1>6 DEF World

LEMMA PersistTypeOK ==
  ASSUME TypeOK, NEW i \in Rules, NEW s \in RuleRows, NEW t, Persist(i, s, t)
  PROVE  rule' \in [Rules -> RuleRows] /\ rows' \in SUBSET born' /\ born' \in SUBSET (Rules \X Dates)
<1>1. Due(s, t) \subseteq Dates
  BY DEF Due
<1>2. rows' \in SUBSET born' /\ born' \in SUBSET (Rules \X Dates)
  BY <1>1 DEF Persist, TypeOK
<1>3. rule' \in [Rules -> RuleRows]
  <2>1. Anchor(s, t) \in Dates \cup {Never}
    BY AnchorIsLastDue
  <2>2. \A a \in Dates \cup {Never}, status \in {"paused", "active"} :
          [rule EXCEPT ![i].last = a, ![i].status = status] \in [Rules -> RuleRows]
    BY ZenonT(30) DEF TypeOK, RuleRows
  <2> HIDE DEF RuleRows
  <2> QED
    BY <2>1, <2>2 DEF Persist, TypeOK
<1> QED
  BY <1>2, <1>3

LEMMA StepTypeOK == ASSUME TypeOK, NEW r \in Runs, Step(r) PROVE TypeOK'
<1> USE DEF tables, redis, locals, clients
<1>1. CASE CheckProcessed(r)
  BY <1>1, EndTypeOK DEF CheckProcessed, Goto, TypeOK
<1>2. CASE AcquireLock(r)
  <2>1. lock' \in [Days -> Runs \cup {"free", "lost"}]
    BY <1>2 DEF AcquireLock, TypeOK
  <2> QED
    BY <1>2, <2>1, EndTypeOK DEF AcquireLock, Goto, TypeOK
<1>3. CASE ListBatch(r)
  <2> DEFINE page == {i \in Needing(r) : Cardinality({j \in Needing(r) : j < i}) < Batch}
             last == IF page = {} THEN Never ELSE CHOOSE i \in page : \A j \in page : j <= i
  <2>1. page \in SUBSET Rules
    BY DEF Needing
  <2>2. /\ batch' = [batch EXCEPT ![r] = {<<i, rule[i]>> : i \in page}]
        /\ after' = [after EXCEPT ![r] = last]
    BY <1>3 DEF ListBatch
  <2>3. pc' \in [Runs -> {"idle", "exists", "lock", "list", "generate", "mark", "release"}]
    BY <1>3 DEF ListBatch, Goto, TypeOK
  <2>4. more' \in SUBSET Runs
    BY <1>3 DEF ListBatch, TypeOK
  <2> HIDE DEF page
  <2>5. last \in Rules \cup {Never}
    <3>1. page \in SUBSET Int /\ IsFiniteSet(page)
      <4>1. IsFiniteSet(Rules) /\ Rules \in SUBSET Int
        BY JobAssumption DEF JobAssumption
      <4> QED
        BY <2>1, <4>1, FS_Subset
    <3>2. page # {} => \E i \in page : \A j \in page : j <= i
      BY <3>1, Greatest
    <3> QED
      BY <2>1, <3>2
  <2> HIDE DEF last
  <2>6. after' \in [Runs -> Rules \cup {Never}] /\ batch' \in [Runs -> SUBSET (Rules \X RuleRows)]
    BY <2>1, <2>2, <2>5 DEF TypeOK
  <2> QED
    BY <1>3, <2>3, <2>4, <2>6 DEF ListBatch, TypeOK
<1>4. CASE ListFails(r)
  BY <1>4 DEF ListFails, Goto, TypeOK
<1>5. CASE Generate(r)
  <2>1. PICK p \in batch[r] :
          /\ \/ Persist(p[1], p[2], Threshold(r))
             \/ UNCHANGED <<rule, rows, born>>
          /\ batch' = [batch EXCEPT ![r] = @ \ {p}]
          /\ Goto(r, IF batch[r] # {p} THEN "generate" ELSE IF r \in more THEN "list" ELSE "mark")
    BY <1>5 DEF Generate, FailsFor
  <2>2. p[1] \in Rules /\ p[2] \in RuleRows
    BY DEF TypeOK
  <2>3. rule' \in [Rules -> RuleRows] /\ rows' \in SUBSET born' /\ born' \in SUBSET (Rules \X Dates)
    BY <2>1, <2>2, PersistTypeOK DEF TypeOK
  <2>4. pc' \in [Runs -> {"idle", "exists", "lock", "list", "generate", "mark", "release"}]
    BY <2>1 DEF Goto, TypeOK
  <2>5. batch' \in [Runs -> SUBSET (Rules \X RuleRows)]
    BY <2>1 DEF TypeOK
  <2> QED
    BY <1>5, <2>3, <2>4, <2>5 DEF Generate, TypeOK
<1>6. CASE MarkProcessed(r)
  BY <1>6 DEF MarkProcessed, Goto, TypeOK
<1>7. CASE ReleaseLock(r)
  <2>1. lock' \in [Days -> Runs \cup {"free", "lost"}]
    BY <1>7 DEF ReleaseLock, Abandoned, TypeOK
  <2> QED
    BY <1>7, <2>1, EndTypeOK DEF ReleaseLock, TypeOK
<1> QED
  BY <1>1, <1>2, <1>3, <1>4, <1>5, <1>6, <1>7 DEF Step

LEMMA NextTypeOK == TypeOK /\ [Next]_vars => TypeOK'
<1> SUFFICES ASSUME TypeOK, [Next]_vars PROVE TypeOK'
  OBVIOUS
<1> USE DEF tables, redis, locals, clients
<1>1. CASE NextDay
  <2>1. processed' \in SUBSET Days /\ overdue' \in SUBSET Runs
    BY <1>1 DEF NextDay, TypeOK
  <2>3. today' \in Days
    <3>1. today \in 0..LastDay /\ LastDay \in Nat
      BY DatesAreIntegers DEF TypeOK, Days
    <3> QED
      BY <1>1, <3>1 DEF NextDay, Days
  <2>2. lock' \in [Days -> Runs \cup {"free", "lost"}]
    BY <1>1 DEF NextDay, TypeOK
  <2> QED
    BY <1>1, <2>1, <2>2, <2>3 DEF NextDay, TypeOK
<1>2. CASE World
  BY <1>2, WorldTypeOK
<1>3. ASSUME NEW d \in Days, LockExpires(d) PROVE TypeOK'
  BY <1>3 DEF LockExpires, TypeOK
<1>4. ASSUME NEW r \in cast.runs, Start(r) PROVE TypeOK'
  BY <1>4, CastIsTyped DEF Start, Goto, TypeOK
<1>5. ASSUME NEW r \in cast.runs, Step(r) PROVE TypeOK'
  BY <1>5, CastIsTyped, StepTypeOK DEF TypeOK
<1>6. ASSUME NEW r \in cast.runs, Crash(r) PROVE TypeOK'
  <2>1. r \in Runs
    BY CastIsTyped DEF TypeOK
  <2>2. lock' \in [Days -> Runs \cup {"free", "lost"}]
    BY <1>6 DEF Crash, Abandoned, TypeOK
  <2> QED
    BY <1>6, <2>1, <2>2, EndTypeOK DEF Crash, TypeOK
<1>7. CASE UNCHANGED vars
  BY <1>7 DEF vars, TypeOK
<1> QED
  BY <1>1, <1>2, <1>3, <1>4, <1>5, <1>6, <1>7 DEF Next

(* Every reachable state is a state of the job's tables, of its keys in    *)
(* Redis and of its runs: a page of rules ends at one of its rules, and an *)
(* anchor is a date.                                                       *)
THEOREM TypeCorrect == Spec => []TypeOK
<1>1. Init => TypeOK
  BY InitTypeOK
<1>2. TypeOK /\ [Next]_vars => TypeOK'
  BY NextTypeOK
<1> QED
  BY <1>1, <1>2, PTL DEF Spec

-----------------------------------------------------------------------------
(* One run a day.                                                          *)

Working(r) == pc[r] \in {"list", "generate", "mark", "release"}

(* A run that works holds the lock of its day, or has outlived it.         *)
LockHeld == \A r \in Runs : Working(r) => lock[day[r]] = r \/ r \in overdue

LEMMA LockHeldInit == Init => LockHeld
BY DEF Init, LockHeld, Working

LEMMA LockHeldStep ==
  ASSUME TypeOK, LockHeld, NEW r \in Runs, Start(r) \/ Step(r) \/ Crash(r)
  PROVE  LockHeld'
<1> USE DEF tables, redis, locals, clients, LockHeld, Working
<1>0. "free" \notin Runs
  BY JobAssumption DEF JobAssumption
<1>1. CASE Start(r)
  BY <1>1 DEF Start, Goto, TypeOK
<1>2. CASE CheckProcessed(r)
  BY <1>2 DEF CheckProcessed, End, Goto, TypeOK
<1>3. CASE AcquireLock(r)
  <2>1. CASE /\ lock[day[r]] = "free"
             /\ lock' = [lock EXCEPT ![day[r]] = r]
             /\ pc' = [pc EXCEPT ![r] = "list"] /\ UNCHANGED <<day, overdue>>
    BY <1>0, <2>1 DEF TypeOK
  <2>2. CASE /\ lock' \in {lock, [lock EXCEPT ![day[r]] = IF @ = "free" /\ Faulty THEN "lost" ELSE @]}
             /\ End(r) /\ UNCHANGED overdue
    BY <1>0, <2>2 DEF End, Goto, TypeOK
  <2> QED
    BY <1>3, <2>1, <2>2 DEF AcquireLock, Goto
<1>4. CASE ListBatch(r)
  <2>1. /\ pc[r] = "list" /\ UNCHANGED <<lock, overdue, day>>
        /\ \A q \in Runs \ {r} : pc'[q] = pc[q]
    BY <1>4 DEF ListBatch, Goto, TypeOK
  <2> QED
    BY <2>1
<1>5. CASE ListFails(r)
  BY <1>5 DEF ListFails, Goto, TypeOK
<1>6. CASE Generate(r)
  <2>1. /\ pc[r] = "generate" /\ UNCHANGED <<lock, overdue, day>>
        /\ \A q \in Runs \ {r} : pc'[q] = pc[q]
    BY <1>6 DEF Generate, Goto, TypeOK
  <2> QED
    BY <2>1
<1>7. CASE MarkProcessed(r)
  BY <1>7 DEF MarkProcessed, Goto, TypeOK
<1>8. CASE ReleaseLock(r)
  BY <1>8 DEF ReleaseLock, Abandoned, End, Goto, TypeOK
<1>9. CASE Crash(r)
  BY <1>9 DEF Crash, Abandoned, End, Goto, TypeOK
<1> QED
  BY <1>1, <1>2, <1>3, <1>4, <1>5, <1>6, <1>7, <1>8, <1>9 DEF Step

LEMMA LockHeldNext == TypeOK /\ LockHeld /\ [Next]_vars => LockHeld'
<1> SUFFICES ASSUME TypeOK, LockHeld, [Next]_vars PROVE LockHeld'
  OBVIOUS
<1> USE DEF tables, redis, locals, clients, LockHeld, Working
<1>1. CASE NextDay
  BY <1>1 DEF NextDay, TypeOK
<1>2. CASE World
  <2>1. UNCHANGED <<redis, locals>>
    BY <1>2 DEF World, CreateRule, DeleteRule, Break, DeleteRow, Load, Save
  <2> QED
    BY <2>1
<1>3. ASSUME NEW d \in Days, LockExpires(d) PROVE LockHeld'
  BY <1>3 DEF LockExpires, TypeOK
<1>4. ASSUME NEW r \in cast.runs, Start(r) \/ Step(r) \/ Crash(r) PROVE LockHeld'
  BY <1>4, CastIsTyped, LockHeldStep DEF TypeOK
<1>5. CASE UNCHANGED vars
  BY <1>5 DEF vars
<1> QED
  BY <1>1, <1>2, <1>3, <1>4, <1>5 DEF Next

(* Two runs of the same day work at the same time only when one of them    *)
(* has outlived its lock: SET NX gives the lock to one of them, and no     *)
(* release or expiry takes it from a run that still counts on it.          *)
THEOREM RunsTakeTurns == Spec => []OneRunADay
<1>1. Init => TypeOK /\ LockHeld
  BY InitTypeOK, LockHeldInit
<1>2. TypeOK /\ LockHeld /\ [Next]_vars => TypeOK' /\ LockHeld'
  BY NextTypeOK, LockHeldNext
<1>3. LockHeld => OneRunADay
  BY DEF LockHeld, OneRunADay, Working
<1> QED
  BY <1>1, <1>2, <1>3, PTL DEF Spec

-----------------------------------------------------------------------------
(* What was generated, and what the anchors say of it.                     *)

(* No edit changes the dates of a rule.                                    *)
Frozen == cast.edits \cap {"start", "interval"} = {}

(* The dates of rule i up to l have been generated, and l is one of them.  *)
Reached(i, l) ==
  l # Never => /\ OnGrid(rule[i], rule[i].start, l)
               /\ \A d \in Dates : OnGrid(rule[i], rule[i].start, d) /\ d <= l => <<i, d>> \in born

(* A copy of rule i may be old in its anchor and its status, but its       *)
(* anchor was one of the rule's.                                           *)
GoodCopy(i, s) ==
  /\ rule[i].status # "none" /\ s.status \in {"active", "paused"}
  /\ s.start = rule[i].start /\ s.every = rule[i].every
  /\ Reached(i, s.last)

AnchorsReached == \A i \in Rules : IF rule[i].status = "none" THEN \A d \in Dates : <<i, d>> \notin born
                                   ELSE Reached(i, rule[i].last)

CopiesGood ==
  /\ \A r \in Runs : \A p \in batch[r] : GoodCopy(p[1], p[2])
  /\ \A c \in Clients : target[c] # Never => GoodCopy(target[c], draft[c])

BornPlanned == \A i \in Rules, d \in Dates :
  <<i, d>> \in born => OnGrid(rule[i], rule[i].start, d) /\ d <= today + LookAhead

DaysPast == \A r \in Runs : day[r] <= today

Scheduled == /\ AnchorsReached /\ CopiesGood /\ BornPlanned /\ DaysPast

LEMMA ScheduledInit == Init => Scheduled
BY NoRuleIsARow, DatesAreIntegers
   DEF Init, Scheduled, AnchorsReached, CopiesGood, BornPlanned, DaysPast

(* A date the job generates for a good copy is a date of the rule.         *)
LEMMA DueIsPlanned ==
  ASSUME TypeOK, NEW i \in Rules, NEW s \in RuleRows, GoodCopy(i, s), NEW t, NEW d \in Due(s, t)
  PROVE  OnGrid(rule[i], rule[i].start, d) /\ d <= t
<1>1. /\ d \in Int /\ s.start \in Int /\ s.every \in Nat \ {0} /\ s.every = rule[i].every
      /\ s.start = rule[i].start /\ (s.last = Never \/ s.last \in Int)
  <2>1. d \in Int
    BY DatesAreIntegers DEF Due
  <2> QED
    BY <2>1, RowNumbers DEF GoodCopy
<1>2. d >= First(s) /\ (d - First(s)) % s.every = 0 /\ d <= t
  BY DEF Due, OnGrid
<1>3. CASE s.last = Never
  BY <1>1, <1>2, <1>3 DEF First, OnGrid
<1>4. CASE s.last # Never
  <2>1. s.last >= s.start /\ (s.last - s.start) % s.every = 0
    BY <1>1, <1>4 DEF GoodCopy, Reached, OnGrid
  <2>2. First(s) = s.last + s.every
    BY <1>4 DEF First
  <2> DEFINE a == d - First(s)  b == s.last - s.start  n == s.every
  <2>3. a \in Int /\ b \in Int /\ n \in Nat \ {0} /\ (a % n) = 0 /\ (b % n) = 0 /\ (n % n) = 0
    BY <1>1, <1>2, <1>4, <2>1, <2>2, ModSelf
  <2>4. d - s.start = (a + b) + n
    BY <1>1, <1>4, <2>2
  <2> HIDE DEF a, b, n
  <2>5. ((a + b) + n) % n = 0
    <3>1. (a + b) \in Int /\ n \in Int
      BY <2>3
    <3>2. ((a + b) % n) = 0
      BY <2>3, ModSum, Zenon
    <3> QED
      BY <2>3, <3>1, <3>2, ModSum, Zenon
  <2>6. (d - s.start) % s.every = 0
    BY <2>4, <2>5 DEF n
  <2>7. d >= s.start
    BY <1>1, <1>2, <1>4, <2>1, <2>2
  <2> QED
    BY <1>1, <1>2, <2>6, <2>7 DEF OnGrid
<1> QED
  BY <1>3, <1>4

(* Nothing is skipped: a date of the rule up to the new anchor was         *)
(* generated before, or is now.                                            *)
LEMMA DueSkipsNothing ==
  ASSUME TypeOK, NEW i \in Rules, NEW s \in RuleRows, GoodCopy(i, s), NEW t \in Int, Due(s, t) # {},
         NEW d \in Dates, OnGrid(rule[i], rule[i].start, d), d <= Anchor(s, t)
  PROVE  <<i, d>> \in born \/ d \in Due(s, t)
<1> DEFINE a == Anchor(s, t)
<1>1. /\ d \in Int /\ s.start \in Int /\ s.every \in Nat \ {0} /\ s.every = rule[i].every
      /\ s.start = rule[i].start /\ (s.last = Never \/ s.last \in Int)
      /\ (s.end = Never \/ s.end \in Int)
  BY RowNumbers, DatesAreIntegers DEF GoodCopy
<1>2. a \in Due(s, t)
  BY AnchorIsLastDue
<1>3. cast.cap * s.every \in Int
  BY <1>1, CastIsTyped DEF TypeOK
<1>4. First(s) \in Int
  BY <1>1 DEF First
<1>5. /\ a \in Int /\ a <= t /\ (s.end # Never => a <= s.end)
      /\ a < First(s) + cast.cap * s.every /\ d <= a
  BY <1>2, DatesAreIntegers DEF Due
<1>6. d >= s.start /\ (d - s.start) % s.every = 0
  BY <1>1 DEF OnGrid
<1> HIDE DEF a
<1>7. d <= t /\ (s.end # Never => d <= s.end) /\ d < First(s) + cast.cap * s.every
  BY <1>1, <1>3, <1>4, <1>5
<1>8. CASE s.last = Never
  BY <1>1, <1>6, <1>7, <1>8 DEF Due, OnGrid, First
<1>9. CASE s.last # Never /\ d <= s.last
  BY <1>9 DEF GoodCopy, Reached
<1>10. CASE s.last # Never /\ d > s.last
  <2>1. (s.last - s.start) % s.every = 0
    BY <1>1, <1>10 DEF GoodCopy, Reached, OnGrid
  <2>2. First(s) = s.last + s.every
    BY <1>10 DEF First
  <2> DEFINE b == d - s.start  c == s.last - s.start  n == s.every
  <2>3. b \in Int /\ c \in Int /\ n \in Nat \ {0} /\ (b % n) = 0 /\ (c % n) = 0 /\ (n % n) = 0
    BY <1>1, <1>6, <1>10, <2>1, ModSelf
  <2>4. d - s.last = b - c /\ d - First(s) = (b - c) - n
    BY <1>1, <1>10, <2>2
  <2>5. b - c > 0
    BY <1>1, <1>10
  <2> HIDE DEF b, c, n
  <2>6. ((b - c) % n) = 0 /\ (((b - c) - n) % n) = 0
    <3>1. (b - c) \in Int /\ n \in Int
      BY <2>3
    <3>2. ((b - c) % n) = 0
      BY <2>3, ModSum, Zenon
    <3> QED
      BY <2>3, <3>1, <3>2, ModSum, Zenon
  <2>7. b - c >= n
    BY <2>3, <2>5, <2>6, ModLeast
  <2>8. d >= First(s) /\ (d - First(s)) % s.every = 0
    BY <1>1, <1>4, <2>2, <2>3, <2>4, <2>6, <2>7 DEF n
  <2> QED
    BY <1>7, <2>8 DEF Due, OnGrid
<1> QED
  BY <1>1, <1>8, <1>9, <1>10

(* The dates of the rules stay, and no row is forgotten.                   *)
Kept ==
  /\ \A i \in Rules : rule[i].status # "none" =>
       /\ rule'[i].status # "none"
       /\ rule'[i].start = rule[i].start /\ rule'[i].every = rule[i].every
  /\ born \subseteq born'

LEMMA CopyStaysGood ==
  ASSUME Kept, NEW i \in Rules, NEW s, GoodCopy(i, s)
  PROVE  GoodCopy(i, s)'
BY DEF Kept, GoodCopy, Reached, OnGrid

LEMMA PersistKeepsSchedule ==
  ASSUME TypeOK, Scheduled, NEW i \in Rules, NEW s \in RuleRows, GoodCopy(i, s),
         NEW t \in Int, t <= today + LookAhead, today' = today, Persist(i, s, t)
  PROVE  Kept /\ AnchorsReached' /\ BornPlanned'
<1> DEFINE news == {<<i, d>> : d \in Due(s, t)}
<1>1. born' = born \cup news
  BY DEF Persist
<1>2. \A j \in Rules \ {i} : rule'[j] = rule[j]
  BY DEF Persist, TypeOK
<1>3. /\ rule'[i].start = rule[i].start /\ rule'[i].every = rule[i].every
      /\ rule'[i].status # "none"
      /\ rule'[i].last = IF Exists(i) THEN Anchor(s, t) ELSE rule[i].last
  <2>1. rule[i] \in RuleRows
    BY DEF TypeOK
  <2>2. CASE ~Exists(i)
    BY <2>2 DEF Persist, GoodCopy
  <2>3. CASE Exists(i)
    BY <2>1, <2>3 DEF Persist, TypeOK, RuleRows
  <2> QED
    BY <2>2, <2>3
<1>4. Kept
  BY <1>1, <1>2, <1>3 DEF Kept
<1> DEFINE Reaches(l) ==
             l # Never => /\ OnGrid(rule'[i], rule'[i].start, l)
                          /\ \A d \in Dates : OnGrid(rule'[i], rule'[i].start, d) /\ d <= l => <<i, d>> \in born'
<1>5. \A l : Reached(i, l) => Reaches(l)
  BY <1>1, <1>3 DEF Reached, OnGrid
<1>6. Reaches(rule'[i].last)
  <2>1. CASE ~Exists(i)
    <3>1. Reached(i, rule[i].last)
      BY DEF Scheduled, AnchorsReached, GoodCopy
    <3> HIDE DEF Reaches
    <3> QED
      BY <1>3, <1>5, <2>1, <3>1
  <2>2. CASE Exists(i) /\ Due(s, t) = {}
    <3>1. Reached(i, s.last) /\ Anchor(s, t) = s.last
      BY <2>2, AnchorIsLastDue DEF GoodCopy
    <3> HIDE DEF Reaches
    <3> QED
      BY <1>3, <1>5, <2>2, <3>1
  <2>3. CASE Exists(i) /\ Due(s, t) # {}
    <3>1. Anchor(s, t) \in Due(s, t) /\ rule'[i].last = Anchor(s, t)
      BY <1>3, <2>3, AnchorIsLastDue
    <3>2. OnGrid(rule[i], rule[i].start, Anchor(s, t))
      BY <3>1, DueIsPlanned
    <3>3. \A d \in Dates : OnGrid(rule[i], rule[i].start, d) /\ d <= Anchor(s, t) => <<i, d>> \in born'
      BY <1>1, <2>3, DueSkipsNothing
    <3>4. \A d : OnGrid(rule'[i], rule'[i].start, d) = OnGrid(rule[i], rule[i].start, d)
      BY <1>3 DEF OnGrid
    <3> QED
      BY <3>1, <3>2, <3>3, <3>4
  <2> QED
    BY <2>1, <2>2, <2>3
<1>7. AnchorsReached'
  <2>1. ASSUME NEW j \in Rules \ {i}
        PROVE  IF rule'[j].status = "none" THEN \A d \in Dates : <<j, d>> \notin born'
               ELSE Reached(j, rule[j].last)'
    <3>1. \A d : <<j, d>> \in born' <=> <<j, d>> \in born
      BY <1>1
    <3>2. IF rule[j].status = "none" THEN \A d \in Dates : <<j, d>> \notin born
          ELSE Reached(j, rule[j].last)
      BY DEF Scheduled, AnchorsReached
    <3> QED
      BY <1>2, <3>1, <3>2 DEF Reached, OnGrid
  <2>2. Reached(i, rule[i].last)' <=> Reaches(rule'[i].last)
    BY DEF Reached
  <2> HIDE DEF Reaches
  <2> QED
    BY <1>3, <1>6, <2>1, <2>2 DEF AnchorsReached
<1>8. BornPlanned'
  <2>1. ASSUME NEW j \in Rules, NEW d \in Dates, <<j, d>> \in born
        PROVE  OnGrid(rule[j], rule[j].start, d) /\ rule[j].status # "none" /\ d <= today + LookAhead
    BY <2>1 DEF Scheduled, BornPlanned, AnchorsReached
  <2>2. ASSUME NEW d \in Due(s, t)
        PROVE  OnGrid(rule[i], rule[i].start, d) /\ d <= today + LookAhead
    <3>1. d \in Int /\ today \in Int /\ LookAhead \in Int
      BY DatesAreIntegers DEF TypeOK, Due
    <3> QED
      BY <3>1, DueIsPlanned
  <2> QED
    BY <1>1, <1>2, <1>3, <2>1, <2>2 DEF BornPlanned, OnGrid
<1> QED
  BY <1>4, <1>7, <1>8

LEMMA CopiesStayGood ==
  ASSUME TypeOK, CopiesGood, Kept,
         \A r \in Runs : \A p \in batch'[r] \ batch[r] : GoodCopy(p[1], p[2])',
         \A c \in Clients : target'[c] # Never =>
           \/ target'[c] = target[c] /\ draft'[c] = draft[c]
           \/ GoodCopy(target[c], draft[c])'
  PROVE  CopiesGood'
<1>1. ASSUME NEW r \in Runs, NEW p \in batch'[r] PROVE GoodCopy(p[1], p[2])'
  <2>1. CASE p \in batch[r]
    BY <2>1, CopyStaysGood DEF CopiesGood, TypeOK
  <2> QED
    BY <2>1
<1>2. ASSUME NEW c \in Clients, target'[c] # Never PROVE GoodCopy(target[c], draft[c])'
  <2>1. CASE target'[c] = target[c] /\ draft'[c] = draft[c]
    <3>1. target[c] \in Rules /\ GoodCopy(target[c], draft[c])
      BY <1>2, <2>1 DEF CopiesGood, TypeOK
    <3> QED
      BY <2>1, <3>1 DEF GoodCopy, Kept, Reached, OnGrid
  <2> QED
    BY <1>2, <2>1
<1> QED
  BY <1>1, <1>2 DEF CopiesGood

LEMMA ScheduledWorld == ASSUME TypeOK, Frozen, Scheduled, World PROVE Scheduled'
<1> USE DEF tables, redis, locals, clients
<1>0. /\ AnchorsReached /\ CopiesGood /\ BornPlanned /\ DaysPast
      /\ cast.rules \subseteq Rules /\ cast.clients \subseteq Clients
  BY CastIsTyped DEF Scheduled, TypeOK
<1>1. ASSUME NEW i \in cast.rules, NEW s \in NewRules, CreateRule(i, s) PROVE Scheduled'
  <2>1. /\ rule' = [rule EXCEPT ![i] = s] /\ rule[i].status = "none" /\ s.last = Never /\ s.status # "none"
        /\ UNCHANGED <<today, born, batch, target, draft, day>>
    BY <1>1 DEF CreateRule, NewRules
  <2>2. Kept
    BY <1>0, <2>1 DEF Kept, TypeOK
  <2>3. CopiesGood'
    BY <1>0, <2>1, <2>2, CopiesStayGood
  <2>4. AnchorsReached'
    BY <1>0, <2>1 DEF AnchorsReached, Reached, OnGrid, TypeOK
  <2>5. BornPlanned' /\ DaysPast'
    BY <1>0, <2>1 DEF AnchorsReached, BornPlanned, DaysPast, OnGrid, TypeOK
  <2> QED
    BY <2>3, <2>4, <2>5 DEF Scheduled
<1>2. ASSUME NEW i \in cast.rules, DeleteRule(i) PROVE Scheduled'
  <2>1. /\ rule' = [rule EXCEPT ![i].status = "deleted"] /\ rule[i].status # "none" /\ rule[i] \in RuleRows
        /\ UNCHANGED <<today, born, batch, target, draft, day>>
    BY <1>0, <1>2 DEF DeleteRule, Exists, TypeOK
  <2>2. /\ \A j \in Rules \ {i} : rule'[j] = rule[j]
        /\ rule'[i].status = "deleted" /\ rule'[i].start = rule[i].start
        /\ rule'[i].every = rule[i].every /\ rule'[i].last = rule[i].last
    BY <1>0, <2>1 DEF TypeOK, RuleRows
  <2>3. Kept
    BY <2>1, <2>2 DEF Kept
  <2>4. CopiesGood'
    BY <1>0, <2>1, <2>3, CopiesStayGood
  <2>5. AnchorsReached'
    BY <1>0, <2>1, <2>2 DEF AnchorsReached, Reached, OnGrid
  <2>6. BornPlanned' /\ DaysPast'
    BY <1>0, <2>1, <2>2 DEF BornPlanned, DaysPast, OnGrid
  <2> QED
    BY <2>4, <2>5, <2>6 DEF Scheduled
<1>3. ASSUME UNCHANGED <<today, rule, born, batch, target, draft, day>> PROVE Scheduled'
  BY <1>3 DEF Scheduled, AnchorsReached, CopiesGood, BornPlanned, DaysPast, GoodCopy, Reached, OnGrid
<1>4. ASSUME NEW c \in cast.clients, NEW i \in cast.rules, Load(c, i) PROVE Scheduled'
  <2>1. /\ target' = [target EXCEPT ![c] = i] /\ draft' = [draft EXCEPT ![c] = rule[i]]
        /\ rule[i].status \in {"active", "paused"}
        /\ UNCHANGED <<today, rule, born, batch, day>>
    BY <1>4 DEF Load, Exists
  <2>2. Kept /\ AnchorsReached' /\ BornPlanned' /\ DaysPast'
    BY <1>0, <2>1 DEF Kept, AnchorsReached, BornPlanned, DaysPast, Reached, OnGrid
  <2>3. GoodCopy(target[c], draft[c])'
    BY <1>0, <2>1 DEF AnchorsReached, GoodCopy, Reached, OnGrid, TypeOK
  <2>4. \A d \in Clients \ {c} : target'[d] = target[d] /\ draft'[d] = draft[d]
    BY <2>1 DEF TypeOK
  <2>5. CopiesGood'
    BY <1>0, <2>1, <2>2, <2>3, <2>4, CopiesStayGood
  <2> QED
    BY <2>2, <2>5 DEF Scheduled
<1>5. ASSUME NEW c \in cast.clients, Save(c) PROVE Scheduled'
  <2> DEFINE i == target[c]
  <2>1. /\ target' = [target EXCEPT ![c] = Never] /\ draft' = [draft EXCEPT ![c] = NoRule]
        /\ UNCHANGED <<today, born, batch, day>> /\ i \in Rules
    BY <1>0, <1>5 DEF Save, TypeOK
  <2>2. GoodCopy(i, draft[c]) /\ draft[c] \in RuleRows
    BY <1>0, <1>5 DEF Save, CopiesGood, TypeOK
  <2>3. /\ \A j \in Rules \ {i} : rule'[j] = rule[j]
        /\ rule'[i].status # "none" /\ rule'[i].start = rule[i].start /\ rule'[i].every = rule[i].every
        /\ rule'[i].last \in {rule[i].last, draft[c].last}
    <3>1. CASE UNCHANGED rule
      BY <2>2, <3>1 DEF GoodCopy
    <3>2. ASSUME NEW edit \in cast.edits, NEW t \in Edited(draft[c], edit),
                 rule' = [rule EXCEPT ![i] = t]
          PROVE  <2>3!1 /\ <2>3!2 /\ <2>3!3
      <4>1. /\ t.status # "none" /\ t.start = draft[c].start
            /\ t.every = draft[c].every /\ t.last = draft[c].last
        BY <2>2, EditedIsARow DEF Frozen, GoodCopy
      <4>2. rule'[i] = t /\ \A j \in Rules \ {i} : rule'[j] = rule[j]
        BY <2>1, <3>2 DEF TypeOK
      <4> QED
        BY <2>2, <4>1, <4>2 DEF GoodCopy
    <3> QED
      BY <1>5, <3>1, <3>2 DEF Save
  <2>4. Kept
    BY <2>1, <2>2, <2>3 DEF Kept, GoodCopy
  <2>5. \A d \in Clients \ {c} : target'[d] = target[d] /\ draft'[d] = draft[d]
    BY <2>1 DEF TypeOK
  <2>6. target'[c] = Never
    BY <1>0, <2>1 DEF TypeOK
  <2>7. CopiesGood'
    BY <1>0, <2>1, <2>4, <2>5, <2>6, CopiesStayGood
  <2>8. Reached(i, rule[i].last) /\ Reached(i, draft[c].last) /\ rule[i].status # "none"
    BY <1>0, <2>1, <2>2 DEF AnchorsReached, GoodCopy
  <2> HIDE DEF i
  <2>9. AnchorsReached'
    BY <1>0, <2>1, <2>3, <2>8 DEF AnchorsReached, Reached, OnGrid
  <2>10. BornPlanned' /\ DaysPast'
    BY <1>0, <2>1, <2>3 DEF BornPlanned, DaysPast, OnGrid
  <2> QED
    BY <2>7, <2>9, <2>10 DEF Scheduled
<1> QED
  BY <1>1, <1>2, <1>3, <1>4, <1>5 DEF World, Break, DeleteRow

LEMMA DaysAreIntegers ==
  ASSUME TypeOK
  PROVE  today \in Int /\ \A r \in Runs : day[r] \in Int
<1>1. today \in Days /\ \A r \in Runs : day[r] \in Days
  BY DEF TypeOK
<1> QED
  BY <1>1, DatesAreIntegers

LEMMA LaterStillCovers == \A a, b, c, d \in Int : a <= b /\ d <= a + c => d <= b + c
OBVIOUS

LEMMA ScheduledStep ==
  ASSUME TypeOK, Scheduled, NEW r \in Runs, Start(r) \/ Step(r) \/ Crash(r)
  PROVE  Scheduled'
<1> USE DEF tables, redis, locals, clients
<1>0. AnchorsReached /\ CopiesGood /\ BornPlanned /\ DaysPast
  BY DEF Scheduled
<1>1. ASSUME UNCHANGED <<today, rule, born, target, draft>>,
             batch' = [batch EXCEPT ![r] = {}] \/ UNCHANGED batch,
             \/ UNCHANGED day
             \/ day' = [day EXCEPT ![r] = 0]
             \/ day' = [day EXCEPT ![r] = today]
      PROVE  Scheduled'
  <2>1. Kept /\ AnchorsReached' /\ BornPlanned'
    BY <1>0, <1>1 DEF Kept, AnchorsReached, BornPlanned, Reached, OnGrid
  <2>2. CopiesGood'
    <3>1. \A q \in Runs : batch'[q] \subseteq batch[q]
      BY <1>1 DEF TypeOK
    <3> QED
      BY <1>0, <1>1, <2>1, <3>1, CopiesStayGood
  <2>3. DaysPast'
    <3>1. today \in Int /\ 0 <= today
      BY DatesAreIntegers DEF TypeOK, Days
    <3> QED
      BY <1>0, <1>1, <3>1 DEF DaysPast, TypeOK
  <2> QED
    BY <2>1, <2>2, <2>3 DEF Scheduled
<1>2. CASE Start(r) \/ CheckProcessed(r) \/ AcquireLock(r) \/ ListFails(r) \/ MarkProcessed(r)
           \/ ReleaseLock(r) \/ Crash(r)
  BY <1>1, <1>2 DEF Start, CheckProcessed, AcquireLock, ListFails, MarkProcessed, ReleaseLock, Crash, End
<1>3. CASE ListBatch(r)
  <2>1. PICK page \in SUBSET Needing(r) : batch' = [batch EXCEPT ![r] = {<<i, rule[i]>> : i \in page}]
    BY <1>3 DEF ListBatch
  <2>2. UNCHANGED <<today, rule, born, target, draft, day>>
    BY <1>3 DEF ListBatch
  <2>3. Kept /\ AnchorsReached' /\ BornPlanned' /\ DaysPast'
    BY <1>0, <2>2 DEF Kept, AnchorsReached, BornPlanned, DaysPast, Reached, OnGrid
  <2>4. ASSUME NEW q \in Runs, NEW p \in batch'[q] \ batch[q] PROVE GoodCopy(p[1], p[2])'
    <3>1. PICK i \in page : p = <<i, rule[i]>>
      BY <2>1, <2>4 DEF TypeOK
    <3>2. i \in Rules /\ rule[i].status = "active"
      BY <2>1, <3>1 DEF Needing
    <3>3. GoodCopy(i, rule[i])
      BY <1>0, <3>2 DEF AnchorsReached, GoodCopy
    <3> QED
      BY <2>2, <3>1, <3>3 DEF GoodCopy, Reached, OnGrid
  <2>5. CopiesGood'
    BY <1>0, <2>2, <2>3, <2>4, CopiesStayGood
  <2> QED
    BY <2>3, <2>5 DEF Scheduled
<1>4. CASE Generate(r)
  <2>1. PICK p \in batch[r] :
          /\ \/ Persist(p[1], p[2], Threshold(r))
             \/ UNCHANGED <<rule, rows, born>>
          /\ batch' = [batch EXCEPT ![r] = @ \ {p}]
    BY <1>4 DEF Generate, FailsFor
  <2>2. p[1] \in Rules /\ p[2] \in RuleRows /\ GoodCopy(p[1], p[2])
    BY <1>0 DEF TypeOK, CopiesGood
  <2>3. UNCHANGED <<today, target, draft, day>>
    BY <1>4 DEF Generate
  <2>4. Kept /\ AnchorsReached' /\ BornPlanned'
    <3>1. CASE UNCHANGED <<rule, rows, born>>
      BY <1>0, <2>3, <3>1 DEF Kept, AnchorsReached, BornPlanned, Reached, OnGrid
    <3>2. CASE Persist(p[1], p[2], Threshold(r))
      <4>1. Threshold(r) \in Int /\ Threshold(r) <= today + LookAhead
        <5>1. day[r] \in Int /\ today \in Int /\ LookAhead \in Int /\ day[r] <= today
          BY <1>0, DaysAreIntegers, DatesAreIntegers DEF DaysPast
        <5> QED
          BY <5>1 DEF Threshold
      <4> QED
        BY <2>2, <2>3, <3>2, <4>1, PersistKeepsSchedule
    <3> QED
      BY <2>1, <3>1, <3>2
  <2>5. CopiesGood'
    <3>1. \A q \in Runs : batch'[q] \subseteq batch[q]
      BY <2>1 DEF TypeOK
    <3> QED
      BY <1>0, <2>3, <2>4, <3>1, CopiesStayGood
  <2>6. DaysPast'
    BY <1>0, <2>3 DEF DaysPast
  <2> QED
    BY <2>4, <2>5, <2>6 DEF Scheduled
<1> QED
  BY <1>2, <1>3, <1>4 DEF Step

LEMMA ScheduledNext == TypeOK /\ (Frozen => Scheduled) /\ [Next]_vars => (Frozen => Scheduled)'
<1> SUFFICES ASSUME TypeOK, Frozen => Scheduled, [Next]_vars, Frozen' PROVE Scheduled'
  OBVIOUS
<1> USE DEF tables, redis, locals, clients
<1>0. cast' = cast
  BY DEF Next, vars, NextDay, World, CreateRule, DeleteRule, Break, DeleteRow, Load, Save, LockExpires,
         Start, Step, CheckProcessed, AcquireLock, ListBatch, ListFails, Generate, MarkProcessed,
         ReleaseLock, Crash
<1>1. Frozen /\ Scheduled
  BY <1>0 DEF Frozen
<1>2. ASSUME today' >= today, UNCHANGED <<rule, born, batch, target, draft, day>> PROVE Scheduled'
  <2>1. /\ today \in Int /\ today' \in Int /\ LookAhead \in Int
        /\ \A r \in Runs : day[r] \in Int
    <3>1. TypeOK'
      BY NextTypeOK
    <3>2. today' \in Days
      BY <3>1 DEF TypeOK
    <3>3. today' \in Int
      BY <3>2, DatesAreIntegers
    <3> QED
      BY <3>3, DaysAreIntegers, DatesAreIntegers
  <2>3. \A d \in Dates : d <= today + LookAhead => d <= today' + LookAhead
    <3>1. Dates \subseteq Int
      BY DatesAreIntegers
    <3> QED
      BY <1>2, <2>1, <3>1, LaterStillCovers
  <2>4. AnchorsReached' /\ CopiesGood'
    BY <1>1, <1>2 DEF Scheduled, AnchorsReached, CopiesGood, GoodCopy, Reached, OnGrid
  <2>5. BornPlanned'
    BY <1>1, <1>2, <2>3 DEF Scheduled, BornPlanned, OnGrid
  <2>6. DaysPast'
    BY <1>1, <1>2, <2>1 DEF Scheduled, DaysPast
  <2> QED
    BY <2>4, <2>5, <2>6 DEF Scheduled
<1>3. today \in Int
  BY DatesAreIntegers DEF TypeOK
<1>4. CASE NextDay
  BY <1>2, <1>3, <1>4 DEF NextDay
<1>5. CASE World
  BY <1>1, <1>5, ScheduledWorld
<1>6. ASSUME NEW d \in Days, LockExpires(d) PROVE Scheduled'
  BY <1>2, <1>3, <1>6 DEF LockExpires
<1>7. ASSUME NEW r \in cast.runs, Start(r) \/ Step(r) \/ Crash(r) PROVE Scheduled'
  BY <1>1, <1>7, CastIsTyped, ScheduledStep DEF TypeOK
<1>8. CASE UNCHANGED vars
  BY <1>2, <1>3, <1>8 DEF vars
<1> QED
  BY <1>4, <1>5, <1>6, <1>7, <1>8 DEF Next

LEMMA ScheduledIsEnough == TypeOK /\ (Frozen => Scheduled) => GeneratedOnSchedule
<1> SUFFICES ASSUME TypeOK, Scheduled, NEW i \in Rules, NEW d \in Dates
             PROVE  LET planned == OnGrid(rule[i], rule[i].start, d) IN
                    /\ rule[i].status # "none" /\ planned /\ d <= rule[i].last => <<i, d>> \in born
                    /\ <<i, d>> \in born => planned /\ d <= today + LookAhead
  BY DEF GeneratedOnSchedule, Frozen
<1>1. ASSUME rule[i].status # "none", OnGrid(rule[i], rule[i].start, d), d <= rule[i].last
      PROVE  <<i, d>> \in born
  <2>1. Reached(i, rule[i].last)
    BY <1>1 DEF Scheduled, AnchorsReached
  <2>2. rule[i].last # Never
    BY <1>1, DatesAreIntegers DEF Never
  <2> QED
    BY <1>1, <2>1, <2>2 DEF Reached
<1> QED
  BY <1>1 DEF Scheduled, BornPlanned

(* The anchor never runs ahead and no row is off the schedule: whatever    *)
(* runs overlap, crash, time out or write stale copies back, of a rule     *)
(* whose dates no edit changes every date up to its lastGenerated has been *)
(* generated, and only its dates within the look-ahead.                    *)
THEOREM AnchorNeverAhead == Spec => []GeneratedOnSchedule
<1>1. Init => TypeOK /\ (Frozen => Scheduled)
  BY InitTypeOK, ScheduledInit
<1>2. TypeOK /\ (Frozen => Scheduled) /\ [Next]_vars => TypeOK' /\ (Frozen => Scheduled)'
  BY NextTypeOK, ScheduledNext
<1>3. TypeOK /\ (Frozen => Scheduled) => GeneratedOnSchedule
  BY ScheduledIsEnough
<1> QED
  BY <1>1, <1>2, <1>3, PTL DEF Spec

-----------------------------------------------------------------------------
(***************************************************************************)
(* The settlement job, for any number of rows and runs. What a run holds of *)
(* the rows it has listed may be anything: only the UPDATE looks at the    *)
(* row.                                                                    *)
(***************************************************************************)

RunRecord(x) == x = [pc |-> x.pc, todo |-> x.todo, handled |-> x.handled, failed |-> x.failed,
                     touched |-> x.touched]

Typed ==
  /\ localDay \in JobDays
  /\ cardRows \in [Ids -> Row]
  /\ claims \in [Ids -> Nat]
  /\ run = [r \in JobRuns |-> run[r]] /\ \A r \in JobRuns : RunRecord(run[r])

(* A run that has nothing to do owes nothing.                              *)
IdleHoldsNone == \A r \in JobRuns : run[r].pc = "idle" => run[r].touched = {}

JobInv == Typed /\ OneRunSettles /\ RenewalIsOwed /\ IdleHoldsNone

LEMMA TouchedWritten ==
  ASSUME NEW x, RunRecord(x), NEW t
  PROVE  LET y == [x EXCEPT !.touched = t] IN RunRecord(y) /\ y.pc = x.pc /\ y.touched = t
<1> DEFINE y == [x EXCEPT !.touched = t]
<1>1. x = [pc |-> x.pc, todo |-> x.todo, handled |-> x.handled, failed |-> x.failed, touched |-> x.touched]
  BY DEF RunRecord
<1>2. y = [pc |-> x.pc, todo |-> x.todo, handled |-> x.handled, failed |-> x.failed, touched |-> t]
  BY <1>1
<1> QED
  BY <1>2 DEF RunRecord

LEMMA StatusWritten ==
  ASSUME NEW x \in Row, NEW s \in {"PENDING", "COMPLETED"}
  PROVE  [x EXCEPT !.status = s] \in Row /\ [x EXCEPT !.status = s].status = s
BY DEF Row

LEMMA AbsentIsARow == \A f \in {"new", "live", "gone"} : Absent(f) \in Row /\ Absent(f).fate = f
BY SettlementAssumption DEF SettlementAssumption, Absent, Row, JobDays, Links

LEMMA InitJobInv == JobInit => JobInv
<1> SUFFICES ASSUME JobInit PROVE JobInv
  OBVIOUS
<1>1. Typed
  BY AbsentIsARow, SettlementAssumption DEF JobInit, Typed, JobDays, SettlementAssumption, RunRecord, Idle
<1> QED
  BY <1>1 DEF JobInit, JobInv, OneRunSettles, RenewalIsOwed, IdleHoldsNone, Idle

(* A step that leaves the rows.                                            *)
LEMMA RowsStay ==
  ASSUME Typed, OneRunSettles, cardRows' = cardRows, claims' = claims, localDay' \in JobDays,
         run' = [r \in JobRuns |-> run'[r]], \A r \in JobRuns : RunRecord(run'[r])
  PROVE  Typed' /\ OneRunSettles'
BY DEF Typed, OneRunSettles

(* A workspace that still waits is held by a run that goes on holding it.  *)
LEMMA OwedStays ==
  ASSUME RenewalIsOwed, Typed,
         \A w \in stale' \ lost' : \/ w \in stale \ lost /\ \A r \in JobRuns : w \in run[r].touched => w \in run'[r].touched
                                   \/ \E r \in JobRuns : w \in run'[r].touched
  PROVE  RenewalIsOwed'
BY DEF RenewalIsOwed, Typed

LEMMA HandledHolds ==
  ASSUME Typed, NEW r \in JobRuns, NEW res, Handled(r, res)
  PROVE  /\ run' = [q \in JobRuns |-> run'[q]] /\ RunRecord(run'[r]) /\ run'[r].pc = "settle"
         /\ \A q \in JobRuns \ {r} : run'[q] = run[q]
         /\ run'[r].touched = run[r].touched \cup (IF res = "settled" THEN {Owner[Head(run[r].todo)]} ELSE {})
<1> DEFINE x == [pc |-> "settle", todo |-> Tail(run[r].todo),
                 handled |-> run[r].handled \cup {Head(run[r].todo)},
                 failed  |-> run[r].failed \cup (IF res = "failed" THEN {Head(run[r].todo)} ELSE {}),
                 touched |-> run[r].touched \cup (IF res = "settled" THEN {Owner[Head(run[r].todo)]} ELSE {})]
<1>1. run' = [run EXCEPT ![r] = x]
  BY DEF Handled
<1>2. /\ x.pc = "settle" /\ x.touched = run[r].touched \cup (IF res = "settled" THEN {Owner[Head(run[r].todo)]} ELSE {})
      /\ RunRecord(x)
  BY DEF RunRecord
<1> HIDE DEF x
<1>3. run'[r] = x /\ \A q \in JobRuns \ {r} : run'[q] = run[q]
  BY <1>1 DEF Typed
<1>4. run' = [q \in JobRuns |-> run'[q]]
  BY <1>1 DEF Typed
<1> QED
  BY <1>2, <1>3, <1>4

LEMMA JobSettle == ASSUME JobInv, NEW r \in JobRuns, Settle(r) PROVE JobInv'
<1> DEFINE i == Head(run[r].todo)
<1>1. /\ Matched(cardRows[i]) /\ cardRows' = [cardRows EXCEPT ![i].status = "COMPLETED"]
      /\ claims' = [claims EXCEPT ![i] = @ + 1] /\ localDay' = localDay
      /\ stale' = stale \cup {Owner[i]} /\ lost' = lost \ {Owner[i]} /\ Handled(r, "settled")
  BY DEF Settle
<1>2. /\ run' = [q \in JobRuns |-> run'[q]] /\ \A q \in JobRuns \ {r} : run'[q] = run[q]
      /\ run'[r].touched = run[r].touched \cup {Owner[i]}
      /\ run'[r].pc = "settle" /\ \A q \in JobRuns : RunRecord(run'[q])
  BY <1>1, HandledHolds DEF JobInv, Typed
<1> HIDE DEF i
<1>3. Typed' /\ OneRunSettles'
  <2>1. CASE i \in Ids
    <3>1. cardRows[i] \in Row /\ Open(cardRows[i]) /\ claims[i] \in Nat
      BY <1>1, <2>1 DEF Matched, JobInv, Typed
    <3>2. cardRows'[i] \in Row /\ ~Open(cardRows'[i]) /\ \A j \in Ids \ {i} : cardRows'[j] = cardRows[j]
      <4>1. cardRows'[i] = [cardRows[i] EXCEPT !.status = "COMPLETED"] /\ \A j \in Ids \ {i} : cardRows'[j] = cardRows[j]
        BY <1>1, <2>1 DEF JobInv, Typed
      <4>2. cardRows'[i] \in Row /\ cardRows'[i].status = "COMPLETED"
        BY <3>1, <4>1, StatusWritten
      <4> QED
        BY <4>1, <4>2 DEF Open
    <3>3. claims'[i] = claims[i] + 1 /\ \A j \in Ids \ {i} : claims'[j] = claims[j]
      BY <1>1, <2>1 DEF JobInv, Typed
    <3>4. claims[i] = 0
      BY <2>1, <3>1 DEF JobInv, OneRunSettles
    <3>5. Typed'
      BY <1>1, <1>2, <2>1, <3>1, <3>2, <3>3 DEF JobInv, Typed
    <3> QED
      BY <2>1, <3>2, <3>3, <3>4, <3>5 DEF JobInv, OneRunSettles
  <2>2. CASE i \notin Ids
    <3>1. cardRows' = cardRows /\ claims' = claims
      BY <1>1, <2>2 DEF JobInv, Typed
    <3> QED
      BY <1>1, <1>2, <3>1, RowsStay DEF JobInv, Typed
  <2> QED
    BY <2>1, <2>2
<1>4. \A w \in stale' \ lost' : \/ w \in stale \ lost /\ \A q \in JobRuns : w \in run[q].touched => w \in run'[q].touched
                                \/ \E q \in JobRuns : w \in run'[q].touched
  BY <1>1, <1>2
<1> QED
  BY <1>2, <1>3, <1>4, OwedStays DEF JobInv, IdleHoldsNone

(* A step of r that neither settles a row nor gives up a workspace.        *)
LEMMA JobHolds ==
  ASSUME JobInv, UNCHANGED <<localDay, cardRows, claims, stale, lost>>, NEW r \in JobRuns,
         run' = [q \in JobRuns |-> run'[q]], \A q \in JobRuns \ {r} : run'[q] = run[q], RunRecord(run'[r]),
         run[r].touched \subseteq run'[r].touched, run'[r].pc # "idle"
  PROVE  JobInv'
<1>1. Typed' /\ OneRunSettles'
  BY RowsStay DEF JobInv, Typed
<1>2. RenewalIsOwed'
  BY OwedStays DEF JobInv
<1> QED
  BY <1>1, <1>2 DEF JobInv, IdleHoldsNone

LEMMA JobMiss == ASSUME JobInv, NEW r \in JobRuns, Miss(r) PROVE JobInv'
<1>1. run' = [run EXCEPT ![r].pc = "conflict"] /\ UNCHANGED <<localDay, cardRows, claims, stale, lost>>
  BY DEF Miss
<1>2. /\ run' = [q \in JobRuns |-> run'[q]] /\ \A q \in JobRuns \ {r} : run'[q] = run[q]
      /\ run'[r].touched = run[r].touched /\ RunRecord(run'[r]) /\ run'[r].pc # "idle"
  BY <1>1 DEF JobInv, Typed, RunRecord, Idle
<1> QED
  BY <1>1, <1>2, JobHolds

LEMMA JobStop ==
  ASSUME JobInv, NEW r \in JobRuns, Stop(r), UNCHANGED <<localDay, cardRows, claims, stale, lost>>
  PROVE  JobInv'
<1>1. /\ run' = [q \in JobRuns |-> run'[q]] /\ \A q \in JobRuns \ {r} : run'[q] = run[q]
      /\ run'[r].touched = run[r].touched /\ RunRecord(run'[r]) /\ run'[r].pc # "idle"
  BY DEF Stop, JobInv, Typed, RunRecord
<1> QED
  BY <1>1, JobHolds

LEMMA JobAnswers ==
  ASSUME JobInv, NEW r \in JobRuns, NEW res, Handled(r, res), UNCHANGED <<localDay, cardRows, claims, stale, lost>>
  PROVE  JobInv'
<1>1. /\ run' = [q \in JobRuns |-> run'[q]] /\ \A q \in JobRuns \ {r} : run'[q] = run[q]
      /\ run[r].touched \subseteq run'[r].touched /\ RunRecord(run'[r]) /\ run'[r].pc # "idle"
  BY HandledHolds DEF JobInv
<1> QED
  BY <1>1, JobHolds

(* A run that lists is idle, and an idle run holds no workspace.           *)
LEMMA JobList == ASSUME JobInv, NEW r \in JobRuns, List(r) PROVE JobInv'
<1>1. /\ run' = [run EXCEPT ![r] = [Idle EXCEPT !.pc = "settle", !.todo = DueBatch]]
      /\ UNCHANGED <<localDay, cardRows, claims, stale, lost>> /\ run[r].touched = {}
  BY DEF List, JobInv, IdleHoldsNone
<1>2. /\ run' = [q \in JobRuns |-> run'[q]] /\ \A q \in JobRuns \ {r} : run'[q] = run[q]
      /\ RunRecord(run'[r]) /\ run'[r].pc # "idle"
  BY <1>1 DEF JobInv, Typed, RunRecord, Idle
<1> QED
  BY <1>1, <1>2, JobHolds

LEMMA JobBump == ASSUME JobInv, NEW r \in JobRuns, Bump(r) PROVE JobInv'
<1>1. PICK w \in run[r].touched :
        run' = [run EXCEPT ![r].touched = @ \ {w}] /\ stale' = stale \ {w} /\ lost' = lost \ {w}
  BY DEF Bump
<1>2. UNCHANGED <<localDay, cardRows, claims>> /\ run[r].pc = "bump"
  BY DEF Bump
<1>3. /\ run' = [q \in JobRuns |-> run'[q]] /\ \A q \in JobRuns \ {r} : run'[q] = run[q]
      /\ run'[r].touched = run[r].touched \ {w} /\ RunRecord(run'[r]) /\ run'[r].pc = "bump"
  <2> DEFINE t == run[r].touched \ {w}
             x == [run[r] EXCEPT !.touched = t]
  <2>1. run' = [run EXCEPT ![r] = x]
    BY <1>1
  <2>2. x.touched = t /\ x.pc = "bump" /\ RunRecord(x)
    <3>1. RunRecord(run[r])
      BY DEF JobInv, Typed
    <3> HIDE DEF t
    <3> QED
      BY <1>2, <3>1, TouchedWritten
  <2> HIDE DEF t, x
  <2>3. run' = [q \in JobRuns |-> run'[q]] /\ (\A q \in JobRuns \ {r} : run'[q] = run[q]) /\ run'[r] = x
    BY <2>1 DEF JobInv, Typed
  <2> QED
    BY <2>2, <2>3 DEF t
<1>4. Typed' /\ OneRunSettles'
  BY <1>2, <1>3, RowsStay DEF JobInv, Typed
<1>5. RenewalIsOwed'
  BY <1>1, <1>3 DEF JobInv, RenewalIsOwed
<1> QED
  BY <1>3, <1>4, <1>5 DEF JobInv, IdleHoldsNone

(* A run that is over: what it still held is lost.                         *)
LEMMA JobOver ==
  ASSUME JobInv, NEW r \in JobRuns, run' = [run EXCEPT ![r] = Idle], UNCHANGED <<localDay, cardRows, claims, stale>>,
         lost \subseteq lost', \A w \in run[r].touched \cap stale : w \in lost'
  PROVE  JobInv'
<1>1. /\ run' = [q \in JobRuns |-> run'[q]] /\ \A q \in JobRuns \ {r} : run'[q] = run[q]
      /\ run'[r].touched = {} /\ RunRecord(run'[r])
  BY DEF JobInv, Typed, RunRecord, Idle
<1>2. Typed' /\ OneRunSettles'
  BY <1>1, RowsStay DEF JobInv, Typed
<1>3. RenewalIsOwed'
  BY <1>1 DEF JobInv, RenewalIsOwed
<1> QED
  BY <1>1, <1>2, <1>3 DEF JobInv, IdleHoldsNone

(* A call of a user forgets the settlements of a row it leaves open, and   *)
(* renews the reports itself.                                              *)
LEMMA JobWrite ==
  ASSUME JobInv, NEW i \in Ids, NEW x \in Row, Write(i, x)
  PROVE  JobInv'
<1>1. /\ cardRows' = [cardRows EXCEPT ![i] = x] /\ localDay' = localDay /\ run' = run
      /\ claims' = [claims EXCEPT ![i] = IF Open(x) \/ x.fate = "gone" THEN 0 ELSE @]
      /\ stale' = stale \ {Owner[i]} /\ lost' = lost \ {Owner[i]}
  BY DEF Write
<1>2. Typed'
  BY <1>1 DEF JobInv, Typed
<1>3. OneRunSettles'
  <2> SUFFICES ASSUME NEW j \in Ids PROVE claims'[j] <= 1 /\ (claims'[j] = 1 => ~Open(cardRows'[j]))
    BY DEF OneRunSettles, Open
  <2>1. CASE j = i
    <3>1. cardRows'[j] = x /\ claims'[j] = IF Open(x) \/ x.fate = "gone" THEN 0 ELSE claims[j]
      BY <1>1, <2>1 DEF JobInv, Typed
    <3> QED
      BY <2>1, <3>1 DEF JobInv, OneRunSettles, Open
  <2>2. CASE j # i
    BY <1>1, <2>2 DEF JobInv, Typed, OneRunSettles
  <2> QED
    BY <2>1, <2>2
<1>4. RenewalIsOwed'
  BY <1>1 DEF JobInv, RenewalIsOwed
<1> QED
  BY <1>1, <1>2, <1>3, <1>4 DEF JobInv, IdleHoldsNone

LEMMA JobUser == ASSUME JobInv, NEW i \in Ids, User(i) PROVE JobInv'
<1>1. \E x \in Row : Write(i, x)
  <2>1. cardRows[i] \in Row
    BY DEF JobInv, Typed
  <2>2. CASE SetStatus(i)
    BY <2>1, <2>2, StatusWritten DEF SetStatus
  <2>3. CASE Delete(i)
    BY <2>3, AbsentIsARow DEF Delete
  <2> QED
    BY <2>2, <2>3 DEF User, Create, Edit
<1>2. ASSUME NEW x \in Row, Write(i, x) PROVE JobInv'
  BY <1>2, JobWrite
<1> QED
  BY <1>1, <1>2

LEMMA NextJobInv == JobInv /\ [JobNext]_jobVars => JobInv'
<1> SUFFICES ASSUME JobInv, [JobNext]_jobVars PROVE JobInv'
  OBVIOUS
<1>1. CASE UNCHANGED jobVars
  BY <1>1 DEF jobVars, JobInv, Typed, OneRunSettles, RenewalIsOwed, IdleHoldsNone, JobDays
<1>2. CASE Tick
  <2>1. localDay' \in JobDays /\ UNCHANGED <<cardRows, run, claims, stale, lost>>
    BY <1>2, SettlementAssumption DEF Tick, JobInv, Typed, JobDays, SettlementAssumption
  <2> QED
    BY <2>1, RowsStay DEF JobInv, Typed, RenewalIsOwed, IdleHoldsNone
<1>3. ASSUME NEW r \in JobRuns, RunStep(r) PROVE JobInv'
  <2>1. CASE Resolve(r)
    BY <2>1, JobAnswers DEF Resolve
  <2>2. CASE EndOfList(r)
    BY <2>2, JobStop DEF EndOfList
  <2>3. CASE Answer(r)
    BY <2>3, JobOver DEF Answer
  <2> QED
    BY <1>3, <2>1, <2>2, <2>3, JobList, JobSettle, JobMiss, JobBump DEF RunStep
<1>4. ASSUME NEW r \in JobRuns, OverBudget(r) \/ Fault(r) PROVE JobInv'
  BY <1>4, JobStop, JobAnswers DEF OverBudget, Fault
<1>5. ASSUME NEW r \in JobRuns, Die(r) PROVE JobInv'
  BY <1>5, JobOver DEF Die
<1> QED
  BY <1>1, <1>2, <1>3, <1>4, <1>5, JobUser DEF JobNext

LEMMA JobAlways == JobSpec => []JobInv
BY InitJobInv, NextJobInv, PTL DEF JobSpec

(* However runs overlap each other and the users, one run at most settles  *)
(* (and counts) a row between two times that it is open: the UPDATE takes  *)
(* only a row that is open, whatever the run has listed.                   *)
THEOREM OneRunCounts == JobSpec => []OneRunSettles
<1>1. JobInv => OneRunSettles
  BY DEF JobInv
<1> QED
  BY <1>1, JobAlways, PTL

(* Reports that miss a settlement are held by a run that is still alive,   *)
(* whichever way its loop ended, or that run has died.                     *)
THEOREM RenewalIsHeld == JobSpec => []RenewalIsOwed
<1>1. JobInv => RenewalIsOwed
  BY DEF JobInv
<1> QED
  BY <1>1, JobAlways, PTL

-----------------------------------------------------------------------------
(* What a run has listed are rows, a batch of them at most.                *)

(* The k-th of the due rows is one of them: as many rows come before one   *)
(* as before no other.                                                     *)
LEMMA DueInOrderIs ==
  ASSUME Typed, NEW k \in 1..Cardinality(DueRows)
  PROVE  DueInOrder(k) \in DueRows
<1> DEFINE UpTo(i) == {j \in DueRows : Before(j, i)}
           rank(i) == Cardinality(UpTo(i))
           n == Cardinality(DueRows)
<1>1. DueRows \subseteq Ids /\ IsFiniteSet(DueRows) /\ n \in Nat
  <2>1. DueRows \subseteq Ids
    BY DEF DueRows
  <2> QED
    BY <2>1, FS_Subset, FS_CardinalityType, SettlementAssumption DEF SettlementAssumption
<1>2. \A i, j \in DueRows :
        /\ Before(i, i)
        /\ i # j => (Before(i, j) <=> ~Before(j, i))
        /\ Before(i, j) => UpTo(i) \subseteq UpTo(j)
  <2>1. \A i \in DueRows : i \in Nat /\ cardRows[i].date \in Nat
    BY <1>1, SettlementAssumption DEF SettlementAssumption, Typed, Row, JobDays
  <2> QED
    BY <2>1 DEF Before
<1>3. \A i \in DueRows : rank(i) \in 1..n
  <2> TAKE i \in DueRows
  <2>1. UpTo(i) \subseteq DueRows /\ i \in UpTo(i)
    BY <1>2
  <2> HIDE DEF UpTo
  <2>2. IsFiniteSet(UpTo(i)) /\ rank(i) \in Nat /\ rank(i) <= n
    BY <1>1, <2>1, FS_Subset, FS_CardinalityType
  <2>3. rank(i) # 0
    BY <2>1, <2>2, FS_EmptySet
  <2> QED
    BY <1>1, <2>2, <2>3
<1>4. ASSUME NEW i \in DueRows, NEW j \in DueRows, i # j, Before(i, j) PROVE rank(i) # rank(j)
  <2>1. UpTo(i) \subseteq UpTo(j) /\ j \in UpTo(j) /\ j \notin UpTo(i) /\ UpTo(j) \subseteq DueRows
    BY <1>2, <1>4
  <2> HIDE DEF UpTo
  <2>2. IsFiniteSet(UpTo(j)) /\ UpTo(i) # UpTo(j)
    BY <1>1, <2>1, FS_Subset
  <2> QED
    BY <2>1, <2>2, FS_Subset
<1>5. \A i, j \in DueRows : i # j => rank(i) # rank(j)
  <2> HIDE DEF rank
  <2> QED
    BY <1>2, <1>4
<1>6. \E i \in DueRows : rank(i) = k
  <2> SUFFICES ASSUME \A i \in DueRows : rank(i) # k PROVE FALSE
    OBVIOUS
  <2> DEFINE others == (1..n) \ {k}
             f == [i \in DueRows |-> rank(i)]
  <2>1. f \in [DueRows -> others]
    BY <1>3
  <2>2. IsFiniteSet(others) /\ Cardinality(others) = n - 1
    <3>1. IsFiniteSet(1..n) /\ Cardinality(1..n) = n
      BY <1>1, FS_Interval
    <3> QED
      BY <3>1, FS_RemoveElement, ZenonT(30)
  <2>3. \A i \in DueRows : f[i] = rank(i)
    OBVIOUS
  <2> HIDE DEF f, others, rank
  <2>4. Cardinality(others) < Cardinality(DueRows)
    BY <1>1, <2>2
  <2>5. PICK i, j \in DueRows : i # j /\ f[i] = f[j]
    BY <1>1, <2>1, <2>2, <2>4, FS_PigeonHole
  <2> QED
    BY <1>5, <2>3, <2>5
<1> QED
  BY <1>6 DEF DueInOrder

LEMMA DueBatchIs ==
  ASSUME Typed
  PROVE  DueBatch \in Seq(Ids) /\ Len(DueBatch) <= BatchSize
<1> DEFINE n == Cardinality(DueRows)
           m == IF BatchSize <= n THEN BatchSize ELSE n
<1>1. IsFiniteSet(DueRows) /\ DueRows \subseteq Ids
  <2>1. DueRows \subseteq Ids
    BY DEF DueRows
  <2> QED
    BY <2>1, FS_Subset, SettlementAssumption DEF SettlementAssumption
<1>2. n \in Nat /\ BatchSize \in Nat
  BY <1>1, FS_CardinalityType, SettlementAssumption DEF SettlementAssumption
<1> HIDE DEF n
<1>3. Min({BatchSize, n}) = m
  BY <1>2, PairBounds
<1>4. m \in Nat /\ m <= BatchSize /\ m <= n
  BY <1>2
<1>5. DueBatch = [k \in 1..m |-> DueInOrder(k)]
  BY <1>3 DEF DueBatch, n
<1>6. \A k \in 1..m : DueInOrder(k) \in Ids
  <2>1. \A k \in 1..m : k \in 1..n
    BY <1>2, <1>4
  <2> QED
    BY <1>1, <2>1, DueInOrderIs DEF n
<1> HIDE DEF m
<1> QED
  BY <1>4, <1>5, <1>6

(* A run that asks why its UPDATE missed still has the row at its head.    *)
RunTyped(x) ==
  /\ x.pc \in {"idle", "settle", "conflict", "bump"}
  /\ x.todo \in Seq(Ids) /\ Len(x.todo) <= BatchSize
  /\ x.pc = "conflict" => x.todo # <<>>
  /\ x.handled \subseteq Ids /\ x.failed \subseteq x.handled
  /\ x.touched \subseteq Workspaces

JobTyped == /\ \A r \in JobRuns : RunTyped(run[r])
            /\ stale \subseteq Workspaces /\ lost \subseteq stale
            /\ edits \in 0..MaxEdits /\ faults \in 0..MaxFaults

LEMMA IdleTyped == RunTyped(Idle)
BY SettlementAssumption DEF SettlementAssumption, RunTyped, Idle

LEMMA HandledTyped ==
  ASSUME Typed, NEW r \in JobRuns, RunTyped(run[r]), run[r].todo # <<>>, NEW res, Handled(r, res)
  PROVE  RunTyped(run'[r]) /\ Owner[Head(run[r].todo)] \in Workspaces
<1> DEFINE i == Head(run[r].todo)
           x == [pc |-> "settle", todo |-> Tail(run[r].todo),
                 handled |-> run[r].handled \cup {i},
                 failed  |-> run[r].failed \cup (IF res = "failed" THEN {i} ELSE {}),
                 touched |-> run[r].touched \cup (IF res = "settled" THEN {Owner[i]} ELSE {})]
<1>1. run'[r] = x
  BY DEF Handled, Typed
<1>2. i \in Ids /\ Tail(run[r].todo) \in Seq(Ids) /\ Len(Tail(run[r].todo)) = Len(run[r].todo) - 1
  BY DEF RunTyped
<1>3. Owner[i] \in Workspaces
  BY <1>2 DEF Workspaces
<1>4. Len(Tail(run[r].todo)) <= BatchSize
  <2>1. Len(run[r].todo) \in Nat /\ Len(run[r].todo) <= BatchSize /\ BatchSize \in Nat
    BY SettlementAssumption DEF RunTyped, SettlementAssumption
  <2> QED
    BY <1>2, <2>1
<1> HIDE DEF i
<1>5. /\ x.pc = "settle" /\ x.todo = Tail(run[r].todo) /\ x.handled = run[r].handled \cup {i}
      /\ x.failed = run[r].failed \cup (IF res = "failed" THEN {i} ELSE {})
      /\ x.touched = run[r].touched \cup (IF res = "settled" THEN {Owner[i]} ELSE {})
  OBVIOUS
<1> HIDE DEF x
<1>6. RunTyped(x)
  BY <1>2, <1>3, <1>4, <1>5 DEF RunTyped
<1> QED
  BY <1>1, <1>3, <1>6 DEF i

(* A step of r leaves the others as they are.                              *)
LEMMA RunsStayTyped ==
  ASSUME JobTyped, NEW r \in JobRuns, \A q \in JobRuns \ {r} : run'[q] = run[q], RunTyped(run'[r]),
         stale' \subseteq Workspaces, lost' \subseteq stale',
         edits' = edits, faults' \in 0..MaxFaults
  PROVE  JobTyped'
BY DEF JobTyped, RunTyped, Workspaces

LEMMA RunStepTyped ==
  ASSUME Typed, JobTyped, NEW r \in JobRuns,
         RunStep(r) \/ OverBudget(r) \/ Fault(r) \/ Die(r)
  PROVE  JobTyped'
<1>1. /\ RunTyped(run[r]) /\ RunRecord(run[r]) /\ stale \subseteq Workspaces /\ lost \subseteq stale
      /\ faults \in 0..MaxFaults /\ MaxFaults \in Nat
  BY SettlementAssumption DEF JobTyped, Typed, SettlementAssumption
<1>2. ASSUME NEW x, run' = [run EXCEPT ![r] = x]
      PROVE  run'[r] = x /\ \A q \in JobRuns \ {r} : run'[q] = run[q]
  BY <1>2 DEF Typed
<1>3. CASE List(r)
  <2> DEFINE x == [Idle EXCEPT !.pc = "settle", !.todo = DueBatch]
  <2>1. /\ x.pc = "settle" /\ x.todo = DueBatch /\ x.handled = {} /\ x.failed = {} /\ x.touched = {}
    BY DEF Idle
  <2>2. run' = [run EXCEPT ![r] = x] /\ UNCHANGED <<stale, lost, users>>
    BY <1>3 DEF List
  <2> HIDE DEF x
  <2>3. RunTyped(x)
    BY <2>1, DueBatchIs DEF RunTyped
  <2> QED
    BY <1>1, <1>2, <2>2, <2>3, RunsStayTyped DEF users
<1>4. CASE Settle(r)
  <2> DEFINE w == Owner[Head(run[r].todo)]
  <2>1. /\ run[r].todo # <<>> /\ Handled(r, "settled") /\ UNCHANGED users
        /\ stale' = stale \cup {w} /\ lost' = lost \ {w}
    BY <1>4 DEF Settle, AtWork
  <2>2. RunTyped(run'[r]) /\ w \in Workspaces
    BY <1>1, <2>1, HandledTyped
  <2>3. \A q \in JobRuns \ {r} : run'[q] = run[q]
    BY <2>1, HandledHolds
  <2> HIDE DEF w
  <2> QED
    BY <1>1, <2>1, <2>2, <2>3, RunsStayTyped DEF users
<1>5. CASE Miss(r)
  <2> DEFINE x == [run[r] EXCEPT !.pc = "conflict"]
  <2>1. run' = [run EXCEPT ![r] = x] /\ run[r].todo # <<>> /\ UNCHANGED <<stale, lost, users>>
    BY <1>5 DEF Miss, AtWork
  <2>2. /\ x.pc = "conflict" /\ x.todo = run[r].todo /\ x.handled = run[r].handled
        /\ x.failed = run[r].failed /\ x.touched = run[r].touched
    BY <1>1 DEF RunRecord
  <2> HIDE DEF x
  <2>3. RunTyped(x)
    BY <1>1, <2>1, <2>2 DEF RunTyped
  <2> QED
    BY <1>1, <1>2, <2>1, <2>3, RunsStayTyped DEF users
<1>6. ASSUME NEW res, Handled(r, res), run[r].todo # <<>>, UNCHANGED <<stale, lost, edits>>,
             faults' \in 0..MaxFaults
      PROVE  JobTyped'
  BY <1>1, <1>6, HandledTyped, HandledHolds, RunsStayTyped
<1>7. CASE Resolve(r)
  <2>1. run[r].todo # <<>> /\ UNCHANGED <<stale, lost, users>> /\ \E res : Handled(r, res)
    BY <1>1, <1>7 DEF Resolve, RunTyped
  <2> QED
    BY <1>1, <1>6, <2>1 DEF users
<1>8. CASE Fault(r)
  <2>1. faults' \in 0..MaxFaults
    BY <1>1, <1>8 DEF Fault
  <2> QED
    BY <1>6, <1>8, <2>1 DEF Fault, AtWork
<1>9. ASSUME Stop(r), UNCHANGED <<stale, lost, users>> PROVE JobTyped'
  <2> DEFINE x == [run[r] EXCEPT !.pc = "bump", !.todo = <<>>]
  <2>1. run' = [run EXCEPT ![r] = x]
    BY <1>1, <1>9 DEF Stop, Typed
  <2>2. /\ x.pc = "bump" /\ x.todo = <<>> /\ x.handled = run[r].handled
        /\ x.failed = run[r].failed /\ x.touched = run[r].touched
    BY <1>1 DEF RunRecord
  <2> HIDE DEF x
  <2>3. RunTyped(x)
    BY <1>1, <2>2, SettlementAssumption DEF RunTyped, SettlementAssumption
  <2> QED
    BY <1>1, <1>2, <1>9, <2>1, <2>3, RunsStayTyped DEF users
<1>10. CASE EndOfList(r) \/ OverBudget(r)
  BY <1>9, <1>10 DEF EndOfList, OverBudget
<1>11. CASE Bump(r)
  <2>1. PICK w \in run[r].touched :
          /\ run' = [run EXCEPT ![r].touched = @ \ {w}]
          /\ stale' = stale \ {w} /\ lost' = lost \ {w} /\ UNCHANGED users
    BY <1>11 DEF Bump
  <2> DEFINE t == run[r].touched \ {w}
             x == [run[r] EXCEPT !.touched = t]
  <2>2. run' = [run EXCEPT ![r] = x]
    BY <2>1
  <2>3. t \subseteq run[r].touched
    OBVIOUS
  <2>4. /\ x.pc = run[r].pc /\ x.todo = run[r].todo /\ x.handled = run[r].handled
        /\ x.failed = run[r].failed /\ x.touched = t
    <3> HIDE DEF t
    <3> QED
      BY <1>1 DEF RunRecord
  <2> HIDE DEF x, t
  <2>5. RunTyped(x)
    BY <1>1, <2>3, <2>4 DEF RunTyped
  <2> QED
    BY <1>1, <1>2, <2>1, <2>2, <2>5, RunsStayTyped DEF users
<1>12. CASE Answer(r)
  BY <1>1, <1>2, <1>12, IdleTyped, RunsStayTyped DEF Answer, users
<1>13. CASE Die(r)
  <2>1. faults' \in 0..MaxFaults
    BY <1>1, <1>13 DEF Die
  <2> QED
    BY <1>1, <1>2, <1>13, <2>1, IdleTyped, RunsStayTyped DEF Die
<1> QED
  BY <1>3, <1>4, <1>5, <1>7, <1>8, <1>10, <1>11, <1>12, <1>13 DEF RunStep

LEMMA UserTyped ==
  ASSUME JobTyped, NEW i, NEW x, Write(i, x)
  PROVE  JobTyped'
<1>1. /\ run' = run /\ faults' = faults /\ stale' = stale \ {Owner[i]} /\ lost' = lost \ {Owner[i]}
      /\ edits < MaxEdits /\ edits' = edits + 1
  BY DEF Write
<1>2. edits' \in 0..MaxEdits
  BY <1>1, SettlementAssumption DEF JobTyped, SettlementAssumption
<1> QED
  BY <1>1, <1>2 DEF JobTyped, RunTyped, Workspaces

LEMMA InitJobTyped == JobInit => JobTyped
BY IdleTyped, SettlementAssumption DEF JobInit, JobTyped, SettlementAssumption

LEMMA NextJobTyped == Typed /\ JobTyped /\ [JobNext]_jobVars => JobTyped'
<1> SUFFICES ASSUME Typed, JobTyped, [JobNext]_jobVars PROVE JobTyped'
  OBVIOUS
<1>1. ASSUME NEW i \in Ids, User(i) PROVE JobTyped'
  <2>1. \E x : Write(i, x)
    BY <1>1 DEF User, Create, SetStatus, Edit, Delete
  <2> QED
    BY <2>1, UserTyped
<1>2. ASSUME UNCHANGED <<run, stale, lost, edits, faults>> PROVE JobTyped'
  BY <1>2 DEF JobTyped, RunTyped, Workspaces
<1> QED
  BY <1>1, <1>2, RunStepTyped DEF JobNext, Tick, jobVars, users

(* A run never lists more than a batch of rows, a failed row is one it has *)
(* handled, and every variable of the settlement job keeps its type.       *)
THEOREM JobTypeCorrect == JobSpec => []JobTypeOK
<1>1. JobInv => Typed
  BY DEF JobInv
<1>2. Typed /\ JobTyped => JobTypeOK
  BY DEF Typed, JobTyped, RunTyped, JobTypeOK
<1>3. JobSpec => []Typed
  BY <1>1, JobAlways, PTL
<1>4. JobSpec => []JobTyped
  BY <1>3, InitJobTyped, NextJobTyped, PTL DEF JobSpec
<1> QED
  BY <1>2, <1>3, <1>4, PTL
=============================================================================
