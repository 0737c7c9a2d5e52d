---------------------------- MODULE RecurringJob ----------------------------
(***************************************************************************)
(* The daily job that turns recurrence rules into pending transactions,    *)
(* the lock and the mark in Redis that should make it run once a day, and  *)
(* the requests that edit the rules meanwhile.  A run reads a whole batch  *)
(* of rules before it works on them, and an edit reads a rule before it    *)
(* writes all its columns back: both write what they computed from a copy. *)
(* Dates are days; a rule recurs every so many of them.                    *)
(***************************************************************************)
EXTENDS Integers, FiniteSets

CONSTANTS Runs,       (* calls of the job, on any number of instances      *)
          Clients,    (* requests that edit a rule                         *)
          Rules,      (* ids of rules: numbers, for the keyset is ordered  *)
          Batch,      (* BATCH_SIZE                                        *)
          LookAhead,  (* LOOK_AHEAD_DAYS                                   *)
          MaxGen,     (* the highest cap of getMaxGenerations              *)
          LastDay,    (* bound: the calendar stops, days go on             *)
          Steps,      (* bound: the intervals of rules                     *)
          Casts,      (* bound: which of them there are, what clients do,  *)
                      (* and the cap of the rules, in one behaviour        *)
          Edits,      (* what clients do                                   *)
          LastFault   (* bound: no fault after this day                    *)

ASSUME JobAssumption ==
  /\ Runs \cap {"free", "lost"} = {}
  /\ Rules \subseteq Nat /\ IsFiniteSet(Rules)
  /\ Batch \in Nat \ {0} /\ MaxGen \in Nat \ {0}
  /\ LookAhead \in Nat /\ LastDay \in Nat /\ LastFault \in Int
  /\ Steps \subseteq Nat \ {0} /\ Steps # {}
  /\ Casts \subseteq [runs : SUBSET Runs, clients : SUBSET Clients,
                      rules : SUBSET Rules, edits : SUBSET Edits,
                      cap : 1..MaxGen]
  /\ Edits \subseteq {"toggle", "start", "end", "interval", "delete", "break"}

Never == -1
Days  == 0..LastDay
Dates == 0..(LastDay + LookAhead)

VARIABLES
  cast,       (* who takes part: it stays as it is                         *)
  today,
  rule,       (* the table recurring_transactions                          *)
  broken,     (* transfers whose destination account is gone               *)
  rows,       (* the generated transactions, <<rule, date>>, kept unique   *)
  born,       (* history: every row that was ever there                    *)
  lock,       (* lock:recurring:<day>: the run that holds it, "free" or    *)
              (* "lost" by a run that has ended                            *)
  processed,  (* the days with a mark processed:recurring:<day>            *)
  overdue     (* runs that outlived the TTL of their lock                  *)

VARIABLES pc, day, batch, after, more,   (* of each run                    *)
          draft, target                  (* of each client                 *)

tables  == <<rule, broken, rows, born>>
redis   == <<lock, processed, overdue>>
locals  == <<pc, day, batch, after, more>>
clients == <<draft, target>>
vars    == <<cast, today, tables, redis, locals, clients>>

RuleRows == [status : {"none", "active", "paused", "deleted"},
             start : Dates, end : Dates \cup {Never}, every : Steps,
             last : Dates \cup {Never}]

TypeOK ==
  /\ cast \in Casts
  /\ today \in Days
  /\ rule \in [Rules -> RuleRows]
  /\ broken \in SUBSET Rules
  /\ rows \in SUBSET born
  /\ born \in SUBSET (Rules \X Dates)
  /\ lock \in [Days -> Runs \cup {"free", "lost"}]
  /\ processed \in SUBSET Days
  /\ overdue \in SUBSET Runs
  /\ pc \in [Runs -> {"idle", "exists", "lock", "list", "generate", "mark", "release"}]
  /\ day \in [Runs -> Days]
  /\ batch \in [Runs -> SUBSET (Rules \X RuleRows)]
  /\ after \in [Runs -> Rules \cup {Never}]
  /\ more \in SUBSET Runs
  /\ draft \in [Clients -> RuleRows]
  /\ target \in [Clients -> Rules \cup {Never}]

NoRule == [status |-> "none", start |-> 0, end |-> Never, every |-> CHOOSE e \in Steps : TRUE,
           last |-> Never]

Init ==
  /\ cast \in Casts
  /\ today = 0
  /\ rule = [i \in Rules |-> NoRule]
  /\ broken = {} /\ rows = {} /\ born = {}
  /\ lock = [d \in Days |-> "free"] /\ processed = {} /\ overdue = {}
  /\ pc    = [r \in Runs |-> "idle"]
  /\ day   = [r \in Runs |-> 0]
  /\ batch = [r \in Runs |-> {}]
  /\ after = [r \in Runs |-> Never]
  /\ more  = {}
  /\ draft  = [c \in Clients |-> NoRule]
  /\ target = [c \in Clients |-> Never]

Exists(i) == rule[i].status \in {"active", "paused"}

-----------------------------------------------------------------------------
(* What a rule generates.                                                  *)

(* CalculateNextGenerationDateService, from the anchor lastGenerated.      *)
First(s) == IF s.last = Never THEN s.start ELSE s.last + s.every

OnGrid(s, from, d) == d >= from /\ (d - from) % s.every = 0

(* Mutant: one day past the threshold.                                     *)
DuePastThreshold(s, threshold) ==
  {d \in Dates : /\ OnGrid(s, First(s), d)
                 /\ d <= threshold + 1
                 /\ s.end # Never => d <= s.end
                 /\ d < First(s) + cast.cap * s.every}

(* The dates one run generates for the copy s of a rule: up to the         *)
(* threshold, not past the end, and no more than the cap.                  *)
Due(s, threshold) ==
  {d \in Dates : /\ OnGrid(s, First(s), d)
                 /\ d <= threshold
                 /\ s.end # Never => d <= s.end
                 /\ d < First(s) + cast.cap * s.every}

(* The loop meets a date past the end before the threshold and the cap.    *)
Ended(s, threshold) ==
  /\ s.end # Never
  /\ \E d \in (s.end + 1)..threshold :
        OnGrid(s, First(s), d) /\ d < First(s) + cast.cap * s.every

(* markAsGenerated after each date.                                        *)
Anchor(s, threshold) ==
  IF Due(s, threshold) = {} THEN s.last
  ELSE CHOOSE d \in Due(s, threshold) : \A e \in Due(s, threshold) : e <= d

-----------------------------------------------------------------------------
(* Time, and what clients do to the rules.                                 *)

(* At the bound the next day has the same date, and keys of its own.       *)
NextDay ==
  /\ IF today < LastDay
       THEN /\ today' = today + 1
            /\ UNCHANGED redis
       ELSE /\ processed' = processed \ {LastDay}
            /\ lock' = [lock EXCEPT ![LastDay] = "free"]
            /\ overdue' = overdue \cup {r \in Runs : lock[LastDay] = r}
            /\ UNCHANGED today
  /\ UNCHANGED <<cast, tables, locals, clients>>

EndsAfter(end, start) == end = Never \/ end >= start

NewRules == [status : {"active", "paused"}, start : Dates, end : Dates \cup {Never},
             every : Steps, last : {Never}]

(* CreateRecurringTransactionService: the first date is in the future.     *)
CreateRule(i, s) ==
  /\ rule[i].status = "none"
  /\ s.start > today /\ EndsAfter(s.end, s.start)
  /\ rule' = [rule EXCEPT ![i] = s]
  /\ UNCHANGED <<cast, today, broken, rows, born, redis, locals, clients>>

(* The reads of an edit ...                                                *)
Load(c, i) ==
  /\ target[c] = Never /\ Exists(i)
  /\ target' = [target EXCEPT ![c] = i]
  /\ draft' = [draft EXCEPT ![c] = rule[i]]
  /\ UNCHANGED <<cast, today, tables, redis, locals>>

(* ... the changes it makes to its copy: UpdateRecurringTransactionService *)
(* and ToggleActiveRecurringTransactionService (an edit of other columns   *)
(* is one that keeps the end) ...                                          *)
Edited(s, edit) ==
  CASE edit = "toggle"   -> {[s EXCEPT !.status = IF @ = "active" THEN "paused" ELSE "active"]}
    [] edit = "start"    -> {[s EXCEPT !.start = d, !.last = Never] :
                               d \in {e \in Dates : e > today /\ e # s.start /\ EndsAfter(s.end, e)}}
    [] edit = "end"      -> {[s EXCEPT !.end = d] :
                               d \in {e \in Dates \cup {Never} : EndsAfter(e, s.start)}}
    [] edit = "interval" -> {[s EXCEPT !.every = n] : n \in Steps}
    [] OTHER             -> {}

(* ... and its write, of all the columns, unless the rule is gone by then. *)
Save(c) ==
  /\ target[c] # Never
  /\ \/ /\ Exists(target[c])
        /\ \E edit \in cast.edits : \E t \in Edited(draft[c], edit) :
             rule' = [rule EXCEPT ![target[c]] = t]
     \/ /\ ~Exists(target[c]) /\ UNCHANGED rule
  /\ target' = [target EXCEPT ![c] = Never]
  /\ draft' = [draft EXCEPT ![c] = NoRule]
  /\ UNCHANGED <<cast, today, broken, rows, born, redis, locals>>

(* Rows that name a rule keep it from being deleted.                       *)
DeleteRule(i) ==
  /\ "delete" \in cast.edits
  /\ Exists(i) /\ \A d \in Dates : <<i, d>> \notin rows
  /\ rule' = [rule EXCEPT ![i].status = "deleted"]
  /\ UNCHANGED <<cast, today, broken, rows, born, redis, locals, clients>>

DeleteRow(i, d) ==
  /\ "delete" \in cast.edits
  /\ <<i, d>> \in rows
  /\ rows' = rows \ {<<i, d>>}
  /\ UNCHANGED <<cast, today, rule, broken, born, redis, locals, clients>>

(* The destination account of a transfer is deleted.                       *)
Break(i) ==
  /\ "break" \in cast.edits /\ Exists(i)
  /\ broken' = broken \cup {i}
  /\ UNCHANGED <<cast, today, rule, rows, born, redis, locals, clients>>

-----------------------------------------------------------------------------
(* GenerateRecurringTransactionsJobService.                                *)

Faulty == today <= LastFault

Goto(r, step) == pc' = [pc EXCEPT ![r] = step]

(* A run that ends leaves a lock it still holds to the TTL.                *)
End(r) ==
  /\ Goto(r, "idle")
  /\ day'   = [day EXCEPT ![r] = 0]
  /\ batch' = [batch EXCEPT ![r] = {}]
  /\ after' = [after EXCEPT ![r] = Never]
  /\ more'  = more \ {r}

Abandoned(r) == [d \in Days |-> IF lock[d] = r THEN "lost" ELSE lock[d]]

Start(r) ==
  /\ pc[r] = "idle"
  /\ Goto(r, "exists")
  /\ day' = [day EXCEPT ![r] = today]
  /\ UNCHANGED <<cast, today, tables, redis, batch, after, more, clients>>

(* A Redis that does not answer counts as a day without the mark.          *)
CheckProcessed(r) ==
  /\ pc[r] = "exists"
  /\ \/ day[r] \in processed /\ End(r)
     \/ /\ day[r] \notin processed \/ Faulty
        /\ Goto(r, "lock") /\ UNCHANGED <<day, batch, after, more>>
  /\ UNCHANGED <<cast, today, tables, redis, clients>>

(* SET NX EX.  A command that times out may have taken the lock.           *)
AcquireLock(r) ==
  LET d == day[r] IN
  /\ pc[r] = "lock"
  /\ \/ /\ lock[d] = "free"
        /\ lock' = [lock EXCEPT ![d] = r]
        /\ Goto(r, "list") /\ UNCHANGED <<day, batch, after, more>>
     \/ /\ lock[d] # "free" \/ Faulty
        /\ lock' \in {lock, [lock EXCEPT ![d] = IF @ = "free" /\ Faulty THEN "lost" ELSE @]}
        /\ End(r)
  /\ UNCHANGED <<cast, today, tables, processed, overdue, clients>>

Threshold(r) == day[r] + LookAhead

(* Mutant: a query without the keyset.                                     *)
NeedingFromStart(r) ==
  {i \in Rules : /\ rule[i].status = "active" /\ rule[i].start <= Threshold(r)
                 /\ rule[i].last = Never \/ rule[i].last < Threshold(r)}

(* The rules listNeedingGeneration selects, past the cursor.               *)
Needing(r) ==
  {i \in Rules : /\ rule[i].status = "active" /\ rule[i].start <= Threshold(r)
                 /\ rule[i].last = Never \/ rule[i].last < Threshold(r)
                 /\ i > after[r]}

(* One page of them, in the order of the ids, copied as they are now.      *)
ListBatch(r) ==
  /\ pc[r] = "list"
  /\ LET page == {i \in Needing(r) : Cardinality({j \in Needing(r) : j < i}) < Batch} IN
     /\ batch' = [batch EXCEPT ![r] = {<<i, rule[i]>> : i \in page}]
     /\ after' = [after EXCEPT ![r] =
                    IF page = {} THEN Never ELSE CHOOSE i \in page : \A j \in page : j <= i]
     /\ more' = IF Cardinality(page) = Batch THEN more \cup {r} ELSE more \ {r}
     /\ Goto(r, IF page = {} THEN "mark" ELSE "generate")
  /\ UNCHANGED <<cast, today, tables, redis, day, clients>>

(* The query fails: the run reports it and does not mark the day.          *)
ListFails(r) ==
  /\ pc[r] = "list" /\ Faulty
  /\ Goto(r, "release")
  /\ UNCHANGED <<cast, today, tables, redis, day, batch, after, more, clients>>

(* Mutant: the anchor is written without the rows.                         *)
PersistAnchorOnly(i, s, threshold) ==
  /\ rule[i].status = "deleted" => Due(s, threshold) = {}
  /\ UNCHANGED <<rows, born>>
  /\ rule' = IF ~Exists(i) THEN rule
             ELSE [rule EXCEPT ![i].last = Anchor(s, threshold),
                               ![i].status = IF Ended(s, threshold) THEN "paused" ELSE "active"]

(* createGeneratedTransactions: rows that exist are left alone, and the    *)
(* anchor and the status of the copy overwrite those of the rule.  A rule  *)
(* that is gone violates the foreign key of its rows.                      *)
Persist(i, s, threshold) ==
  /\ rule[i].status = "deleted" => Due(s, threshold) = {}
  /\ rows' = rows \cup {<<i, d>> : d \in Due(s, threshold)}
  /\ born' = born \cup {<<i, d>> : d \in Due(s, threshold)}
  /\ rule' = IF ~Exists(i) THEN rule
             ELSE [rule EXCEPT ![i].last = Anchor(s, threshold),
                               ![i].status = IF Ended(s, threshold) THEN "paused" ELSE "active"]

(* A rule that fails is reported, and the run goes on.                     *)
FailsFor(i, s, threshold) ==
  /\ \/ Faulty
     \/ Due(s, threshold) # {} /\ (i \in broken \/ rule[i].status = "deleted")
  /\ UNCHANGED <<rule, rows, born>>

(* generateForRecurring, for the next rule of the batch.                   *)
Generate(r) ==
  /\ pc[r] = "generate"
  /\ \E p \in batch[r] :
       /\ \A q \in batch[r] : p[1] <= q[1]
       /\ LET i == p[1]  s == p[2]  t == Threshold(r) IN
          \/ /\ Due(s, t) # {} \/ Ended(s, t)
             /\ i \in broken => Due(s, t) = {}
             /\ Persist(i, s, t)
          \/ Due(s, t) = {} /\ ~Ended(s, t) /\ UNCHANGED <<rule, rows, born>>
          \/ FailsFor(i, s, t)
       /\ batch' = [batch EXCEPT ![r] = @ \ {p}]
       /\ Goto(r, IF batch[r] # {p} THEN "generate" ELSE IF r \in more THEN "list" ELSE "mark")
  /\ UNCHANGED <<cast, today, broken, redis, day, after, more, clients>>

MarkProcessed(r) ==
  /\ pc[r] = "mark"
  /\ \/ processed' = processed \cup {day[r]}
     \/ Faulty /\ UNCHANGED processed
  /\ Goto(r, "release")
  /\ UNCHANGED <<cast, today, tables, lock, overdue, day, batch, after, more, clients>>

(* Mutant: the lock is deleted whoever holds it.                           *)
ReleaseAnyLock(r) ==
  /\ pc[r] = "release"
  /\ lock' = [lock EXCEPT ![day[r]] = "free"]
  /\ overdue' = overdue \ {r}
  /\ End(r)
  /\ UNCHANGED <<cast, today, tables, processed, clients>>

(* RELEASE_LOCK_SCRIPT: only the token of this run.                        *)
ReleaseLock(r) ==
  /\ pc[r] = "release"
  /\ lock' \in {[lock EXCEPT ![day[r]] = IF @ = r THEN "free" ELSE @]}
                 \cup (IF Faulty THEN {Abandoned(r)} ELSE {})
  /\ overdue' = overdue \ {r}
  /\ End(r)
  /\ UNCHANGED <<cast, today, tables, processed, clients>>

Crash(r) ==
  /\ pc[r] # "idle" /\ Faulty
  /\ lock' = Abandoned(r) /\ overdue' = overdue \ {r}
  /\ End(r)
  /\ UNCHANGED <<cast, today, tables, processed, clients>>

(* LOCK_TTL_SECONDS go by.                                                 *)
LockExpires(d) ==
  /\ lock[d] # "free"
  /\ lock' = [lock EXCEPT ![d] = "free"]
  /\ overdue' = overdue \cup {r \in Runs : lock[d] = r}
  /\ UNCHANGED <<cast, today, tables, processed, locals, clients>>

-----------------------------------------------------------------------------
Step(r) ==
  \/ CheckProcessed(r) \/ AcquireLock(r) \/ ListBatch(r) \/ ListFails(r)
  \/ Generate(r) \/ MarkProcessed(r) \/ ReleaseLock(r)

World ==
  \/ \E i \in cast.rules : (\E s \in NewRules : CreateRule(i, s)) \/ DeleteRule(i) \/ Break(i)
  \/ \E i \in cast.rules, d \in Dates : DeleteRow(i, d)
  \/ \E c \in cast.clients : (\E i \in cast.rules : Load(c, i)) \/ Save(c)

Next ==
  \/ NextDay \/ World \/ \E d \in Days : LockExpires(d)
  \/ \E r \in cast.runs : Start(r) \/ Step(r) \/ Crash(r)

Spec == Init /\ [][Next]_vars

-----------------------------------------------------------------------------
(* The anchor never runs ahead: whatever runs overlap, crash or work with  *)
(* stale copies, every date of a rule up to its lastGenerated has been     *)
(* generated, and none that is not a date of the rule or is beyond the     *)
(* look-ahead.  Edits of the start or the interval change the dates, so    *)
(* this is about rules without them.                                       *)
GeneratedOnSchedule ==
  cast.edits \cap {"start", "interval"} = {} =>
    \A i \in Rules, d \in Dates :
      LET planned == OnGrid(rule[i], rule[i].start, d) IN
      /\ rule[i].status # "none" /\ planned /\ d <= rule[i].last => <<i, d>> \in born
      /\ <<i, d>> \in born => planned /\ d <= today + LookAhead

(* Two runs of the same day work at the same time only when one of them    *)
(* has outlived its lock.                                                  *)
OneRunADay ==
  \A r, q \in Runs :
    /\ r # q /\ day[r] = day[q]
    /\ pc[r] \in {"list", "generate", "mark", "release"}
    /\ pc[q] \in {"list", "generate", "mark", "release"}
    => r \in overdue \/ q \in overdue

-----------------------------------------------------------------------------
(* The job is called every day, and its steps are taken.                   *)
DailySpec ==
  /\ Spec /\ WF_vars(NextDay)
  /\ \A r \in Runs : /\ WF_vars(r \in cast.runs /\ Start(r))
                     /\ WF_vars(r \in cast.runs /\ Step(r))
  /\ \A d \in Days : WF_vars(LockExpires(d))

(* Every date of an active rule is generated some day, although other      *)
(* rules fail on every day, runs overlap and crash, locks are lost, rows   *)
(* are deleted and a run generates no more than the cap.  An edit that is  *)
(* written from a copy may set the anchor back, so this holds of a date    *)
(* when the rule is not edited for ever.                                   *)
EveryDateComes ==
  \A i \in Rules, d \in Dates :
    /\ rule[i].status = "active" /\ OnGrid(rule[i], rule[i].start, d)
    /\ rule[i].end # Never => d <= rule[i].end
    ~> <<i, d>> \in born \/ i \in broken \/ rule[i].status # "active"
       \/ \E c \in Clients : target[c] = i
=============================================================================
