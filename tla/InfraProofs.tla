---------------------------- MODULE InfraProofs -----------------------------
(***************************************************************************)
(* Proofs about what the program stands on: the report cache (ReportCache) *)
(* and the writes behind the idempotency guard (IdempotentWrites), which   *)
(* rest on Redis, and the migrations' numbers (MigrationNumbering).        *)
(***************************************************************************)
EXTENDS IdempotentWrites, MigrationNumbering, SequenceTheorems, DataLemmas

-----------------------------------------------------------------------------
(***************************************************************************)
(* The reports of one generation are bound together: everyone who read that *)
(* generation read it while the same writes were announced, and whoever    *)
(* stores under it is one of them.                                         *)
(***************************************************************************)

(* A write is announced after its commit.                                  *)
Order == announced <= version /\ \A w \in Writers : mine[w] <= version

(* No generation in use lies ahead of the counter, or of the time a lost   *)
(* counter will start from.                                                *)
InUse(g) == cached[g] # Nothing \/ \E r \in Readers : gen[r] = g

Used ==
  \A g \in Gens : InUse(g) => /\ counter = Null => g < clock
                              /\ counter # Null => g <= counter

(* What a report of the current generation may have missed.                *)
CurrentIsFresh ==
  counter # Null /\ cached[counter] # Nothing => cached[counter].seen >= announced

(* Those who share a generation agree on the writes it must show.          *)
Agree ==
  \A r \in Readers : gen[r] # Null =>
    /\ gen[r] = counter => floor[r] = announced
    /\ cached[gen[r]] # Nothing => cached[gen[r]].seen >= floor[r]
    /\ \A q \in Readers : gen[q] = gen[r] => floor[q] = floor[r]

(* What a reader holds.                                                    *)
Holds ==
  \A r \in Readers :
    /\ floor[r] <= announced
    /\ rpc[r] \in {"lookup", "store"} => gen[r] # Null
    /\ rpc[r] \in {"store", "reply"} => seen[r] >= floor[r]

IInv == TypeOK /\ Order /\ Used /\ CurrentIsFresh /\ Agree /\ Holds

LEMMA EntrySeen ==
  ASSUME NEW e \in Entries, e # Nothing
  PROVE  e.seen \in Versions
BY DEF Entries

LEMMA NothingIsAnEntry == Nothing \in Entries
BY DEF Entries

LEMMA InitIInv == Init => IInv
BY CacheAssumption, NothingIsAnEntry
   DEF Init, IInv, TypeOK, Order, Used, InUse, CurrentIsFresh, Agree, Holds, Null, Gens, Versions

(* A step of Redis, a writer or a reader moves the type invariant on.      *)
LEMMA TypeStep == TypeOK /\ Holds /\ [Next]_vars => TypeOK'
<1> SUFFICES ASSUME TypeOK, Holds, [Next]_vars PROVE TypeOK'
  OBVIOUS
<1> USE CacheAssumption DEF Null, Gens, Versions
<1>0. CASE UNCHANGED vars
  BY <1>0 DEF TypeOK, vars, database, redis, writers, readers
<1>1. CASE Tick
  BY <1>1 DEF TypeOK, Tick, database, redis, writers, readers
<1>2. CASE Evict
  BY <1>2 DEF TypeOK, Evict, database, writers, readers
<1>3. ASSUME NEW g \in Gens, Expire(g) PROVE TypeOK'
  BY <1>3, NothingIsAnEntry DEF TypeOK, Expire, database, writers, readers
<1>4. ASSUME NEW w \in Writers, Commit(w) PROVE TypeOK'
  BY <1>4 DEF TypeOK, Commit, redis, readers
<1>4b. ASSUME NEW w \in Writers, CommitUnanswered(w) PROVE TypeOK'
  BY <1>4b DEF TypeOK, CommitUnanswered, redis, writers, readers
<1>5. ASSUME NEW w \in Writers, Bump(w) PROVE TypeOK'
  BY <1>5 DEF TypeOK, Bump, Generation, readers
<1>6. ASSUME NEW w \in Writers, BumpFails(w) PROVE TypeOK'
  BY <1>6 DEF TypeOK, BumpFails, Generation, database, readers
<1>7. ASSUME NEW r \in Readers, ReadGeneration(r) PROVE TypeOK'
  <2>1. Generation \in Gens
    BY DEF TypeOK, Generation
  <2>2. counter' \in Gens \cup {Null}
    BY <1>7, <2>1 DEF TypeOK, ReadGeneration
  <2>3. gen' \in [Readers -> Gens \cup {Null}]
    BY <1>7, <2>1 DEF TypeOK, ReadGeneration
  <2>4. rpc' \in [Readers -> {"idle", "lookup", "query", "store", "reply"}]
    BY <1>7 DEF TypeOK, ReadGeneration, Goto
  <2>5. floor' \in [Readers -> Versions]
    BY <1>7 DEF TypeOK, ReadGeneration
  <2> QED BY <1>7, <2>2, <2>3, <2>4, <2>5 DEF TypeOK, ReadGeneration, database, writers
<1>8. ASSUME NEW r \in Readers, Lookup(r) PROVE TypeOK'
  <2>1. gen[r] \in Gens
    BY <1>8 DEF TypeOK, Holds, Lookup
  <2>2. cached[gen[r]] # Nothing => cached[gen[r]].seen \in Versions
    BY <2>1, EntrySeen DEF TypeOK
  <2>3. seen' \in [Readers -> Versions]
    BY <1>8, <2>2 DEF TypeOK, Lookup
  <2>4. rpc' \in [Readers -> {"idle", "lookup", "query", "store", "reply"}]
    BY <1>8, ZenonT(30) DEF TypeOK, Lookup, Goto
  <2> QED BY <1>8, <2>3, <2>4 DEF TypeOK, Lookup, database, redis, writers
<1>9. ASSUME NEW r \in Readers, Query(r) PROVE TypeOK'
  BY <1>9 DEF TypeOK, Query, Goto, database, redis, writers
<1>10. ASSUME NEW r \in Readers, Store(r) PROVE TypeOK'
  <2>1. [seen |-> seen[r], ttl |-> TRUE] \in Entries
    BY DEF TypeOK, Entries
  <2>2. cached' \in [Gens -> Entries]
    BY <1>10, <2>1 DEF TypeOK, Store
  <2>3. rpc' \in [Readers -> {"idle", "lookup", "query", "store", "reply"}]
    BY <1>10 DEF TypeOK, Store, Goto
  <2> QED BY <1>10, <2>2, <2>3 DEF TypeOK, Store, database, writers
<1>11. ASSUME NEW r \in Readers, Reply(r) PROVE TypeOK'
  BY <1>11 DEF TypeOK, Reply, Goto, database, redis, writers
<1> QED
  BY <1>0, <1>1, <1>2, <1>3, <1>4, <1>4b, <1>5, <1>6, <1>7, <1>8, <1>9, <1>10, <1>11 DEF Next, Answer

(* The counter as the next request finds it is not behind any generation   *)
(* in use, and nobody uses it yet if it was lost.                          *)
LEMMA GenerationBounds ==
  ASSUME TypeOK, Used
  PROVE  /\ Generation \in Gens
         /\ \A g \in Gens : InUse(g) => g <= Generation
         /\ counter = Null => ~InUse(Generation)
BY CacheAssumption DEF TypeOK, Used, Generation, Gens, Null

LEMMA SafetyStep == IInv /\ [Next]_vars => (Order /\ Used /\ CurrentIsFresh /\ Agree /\ Holds)'
<1> SUFFICES ASSUME IInv, [Next]_vars
             PROVE  Order' /\ Used' /\ CurrentIsFresh' /\ Agree' /\ Holds'
  OBVIOUS
<1> USE CacheAssumption DEF Null, Gens, Versions
<1>t. TypeOK /\ Order /\ Used /\ CurrentIsFresh /\ Agree /\ Holds
  BY DEF IInv
<1>t2. TypeOK'
  BY <1>t, TypeStep
<1>0. CASE UNCHANGED vars
  BY <1>0, <1>t DEF Order, Used, InUse, CurrentIsFresh, Agree, Holds, vars, database, redis, writers, readers
<1>1. CASE Tick
  BY <1>1, <1>t DEF TypeOK, Order, Used, InUse, CurrentIsFresh, Agree, Holds, Tick, database, redis, writers, readers
<1>2. CASE Evict
  BY <1>2, <1>t DEF TypeOK, Order, Used, InUse, CurrentIsFresh, Agree, Holds, Evict, database, writers, readers
<1>3. ASSUME NEW g \in Gens, Expire(g) PROVE Order' /\ Used' /\ CurrentIsFresh' /\ Agree' /\ Holds'
  BY <1>3, <1>t DEF TypeOK, Order, Used, InUse, CurrentIsFresh, Agree, Holds, Expire, database, writers, readers
<1>4. ASSUME NEW w \in Writers, Commit(w) PROVE Order' /\ Used' /\ CurrentIsFresh' /\ Agree' /\ Holds'
  BY <1>4, <1>t DEF TypeOK, Order, Used, InUse, CurrentIsFresh, Agree, Holds, Commit, redis, readers
<1>4b. ASSUME NEW w \in Writers, CommitUnanswered(w) PROVE Order' /\ Used' /\ CurrentIsFresh' /\ Agree' /\ Holds'
  BY <1>4b, <1>t DEF TypeOK, Order, Used, InUse, CurrentIsFresh, Agree, Holds, CommitUnanswered, redis, writers, readers
<1>5. ASSUME NEW w \in Writers, Bump(w) PROVE Order' /\ Used' /\ CurrentIsFresh' /\ Agree' /\ Holds'
  <2>1. Order'
    BY <1>5, <1>t DEF TypeOK, Order, Bump
  <2>2. announced <= announced' /\ counter' = Generation + 1 /\ counter' # Null
    BY <1>5, <1>t, GenerationBounds DEF TypeOK, Bump
  <2>3. \A g \in Gens : InUse(g) => g < counter'
    BY <2>2, <1>t, GenerationBounds
  <2>4. UNCHANGED <<cached, gen, floor, seen, rpc>>
    BY <1>5 DEF Bump, readers
  <2>5. Used'
    BY <2>2, <2>3, <2>4 DEF Used, InUse
  <2>6. counter' \in Gens /\ ~InUse(counter')
    BY <2>2, <2>3, <1>t2 DEF TypeOK
  <2>7. CurrentIsFresh' /\ Agree'
    BY <1>t, <2>4, <2>6 DEF Agree, CurrentIsFresh, InUse
  <2>8. Holds'
    BY <1>t, <1>t2, <2>2, <2>4 DEF TypeOK, Holds
  <2> QED BY <2>1, <2>5, <2>7, <2>8
<1>6. ASSUME NEW w \in Writers, BumpFails(w) PROVE Order' /\ Used' /\ CurrentIsFresh' /\ Agree' /\ Holds'
  <2>1. UNCHANGED <<version, announced, cached, mine, rpc, gen, floor, seen, clock>>
    BY <1>6 DEF BumpFails, database, readers
  <2>2. CASE counter' = counter
    BY <2>1, <2>2, <1>t DEF Order, Used, InUse, CurrentIsFresh, Agree, Holds
  <2>3. CASE counter' = Generation + 1
    <3>1. counter' # Null /\ \A g \in Gens : InUse(g) => g < counter'
      BY <2>3, <1>t, GenerationBounds
    <3>2. Used'
      BY <3>1, <2>1, <2>3, <1>t, <1>t2 DEF TypeOK, Used, InUse
    <3>3. counter' \in Gens /\ ~InUse(counter')
      BY <3>1, <1>t2 DEF TypeOK
    <3>4. CurrentIsFresh' /\ Agree'
      BY <1>t, <2>1, <3>3 DEF Agree, CurrentIsFresh, InUse
    <3>5. Order' /\ Holds'
      BY <2>1, <1>t DEF Order, Holds
    <3> QED BY <3>2, <3>4, <3>5
  <2> QED BY <1>6, <2>2, <2>3 DEF BumpFails
<1>7. ASSUME NEW r \in Readers, ReadGeneration(r) PROVE Order' /\ Used' /\ CurrentIsFresh' /\ Agree' /\ Holds'
  <2>0. UNCHANGED <<version, announced, clock, cached, wpc, mine, seen>>
    BY <1>7 DEF ReadGeneration, database, writers
  <2>1. Order'
    BY <2>0, <1>t DEF Order
  <2>2. counter' \in {counter, Generation} /\ gen' = [gen EXCEPT ![r] = gen'[r]]
        /\ gen'[r] \in {Null, Generation} /\ (gen'[r] = Generation => counter' = Generation)
    BY <1>7, <1>t, GenerationBounds DEF ReadGeneration, TypeOK
  <2>3. counter # Null => counter' = counter /\ counter = Generation
    BY <2>2 DEF Generation
  <2>4. counter = Null => counter' \in {Null, clock} /\ Generation = clock
    BY <2>2 DEF Generation
  <2>5. Used'
    <3> SUFFICES ASSUME NEW g \in Gens, InUse(g)'
                 PROVE  (counter' = Null => g < clock) /\ (counter' # Null => g <= counter')
      BY <2>0 DEF Used
    <3>1. CASE InUse(g)
      BY <3>1, <1>t, <1>t2, <2>3, <2>4 DEF Used, TypeOK
    <3>2. CASE gen'[r] = g
      BY <3>2, <2>2, <1>t, GenerationBounds DEF TypeOK
    <3>3. \A q \in Readers : gen'[q] = g => q = r \/ gen[q] = g
      BY <2>2, <1>t DEF TypeOK
    <3> QED BY <3>1, <3>2, <3>3, <2>0 DEF InUse
  <2>6. CurrentIsFresh'
    BY <1>t, <2>0, <2>2, <2>3, <2>4, GenerationBounds DEF CurrentIsFresh, InUse
  <2>7. floor' = [floor EXCEPT ![r] = announced]
    BY <1>7 DEF ReadGeneration
  <2>8. \A q \in Readers : gen[q] # Null /\ gen[q] = Generation => counter # Null /\ floor[q] = announced
    BY <1>t, GenerationBounds, <2>3 DEF Agree, InUse, TypeOK
  <2>9. Agree'
    <3> SUFFICES ASSUME NEW q \in Readers, gen'[q] # Null
                 PROVE  /\ gen'[q] = counter' => floor'[q] = announced'
                        /\ cached'[gen'[q]] # Nothing => cached'[gen'[q]].seen >= floor'[q]
                        /\ \A p \in Readers : gen'[p] = gen'[q] => floor'[p] = floor'[q]
      BY DEF Agree
    <3>1. CASE q = r
      <4>1. gen'[r] = Generation /\ counter' = Generation /\ floor'[r] = announced
        BY <3>1, <2>2, <2>7, <1>t DEF TypeOK
      <4>2. cached[Generation] # Nothing => cached[Generation].seen >= announced
        BY <1>t, <2>3, GenerationBounds DEF CurrentIsFresh, InUse
      <4>3. \A p \in Readers \ {r} : gen[p] = Generation => floor[p] = announced
        BY <2>8, <4>1, <3>1
      <4> QED BY <3>1, <4>1, <4>2, <4>3, <2>0, <2>2, <2>7, <1>t DEF TypeOK
    <3>2. CASE q # r
      <4>1. gen'[q] = gen[q] /\ floor'[q] = floor[q] /\ gen[q] \in Gens
        BY <3>2, <2>2, <2>7, <1>t DEF TypeOK
      <4>2. gen[q] = counter' => floor[q] = announced
        BY <4>1, <1>t, <2>2, <2>3, <2>8 DEF Agree
      <4>3. gen'[r] = gen[q] => floor'[r] = floor[q]
        BY <4>1, <2>2, <2>7, <2>8, <1>t DEF TypeOK
      <4> QED BY <3>2, <4>1, <4>2, <4>3, <2>0, <2>2, <2>7, <1>t DEF Agree, TypeOK
    <3> QED BY <3>1, <3>2
  <2>10. Holds'
    BY <1>7, <1>t, <1>t2, <2>0, GenerationBounds DEF Holds, TypeOK, ReadGeneration, Goto
  <2> QED BY <2>1, <2>5, <2>6, <2>9, <2>10
<1>8. ASSUME NEW r \in Readers, Lookup(r) PROVE Order' /\ Used' /\ CurrentIsFresh' /\ Agree' /\ Holds'
  <2>1. Order' /\ Used' /\ CurrentIsFresh' /\ Agree'
    BY <1>8, <1>t DEF Order, Used, InUse, CurrentIsFresh, Agree, Lookup, database, redis, writers
  <2>2. gen[r] # Null /\ (cached[gen[r]] # Nothing => cached[gen[r]].seen >= floor[r])
    BY <1>8, <1>t DEF Holds, Agree, Lookup
  <2> QED BY <1>8, <1>t, <2>1, <2>2 DEF Holds, TypeOK, Lookup, Goto, database
<1>9. ASSUME NEW r \in Readers, Query(r) PROVE Order' /\ Used' /\ CurrentIsFresh' /\ Agree' /\ Holds'
  <2>1. Order' /\ Used' /\ CurrentIsFresh' /\ Agree'
    BY <1>9, <1>t DEF Order, Used, InUse, CurrentIsFresh, Agree, Query, database, redis, writers
  <2>2. floor[r] <= version
    BY <1>t DEF Holds, Order, TypeOK
  <2> QED BY <1>9, <1>t, <2>1, <2>2 DEF Holds, TypeOK, Query, Goto, database
<1>10. ASSUME NEW r \in Readers, Store(r) PROVE Order' /\ Used' /\ CurrentIsFresh' /\ Agree' /\ Holds'
  <2>0. UNCHANGED <<version, announced, clock, counter, mine, gen, floor, seen>>
    BY <1>10 DEF Store, database, writers
  <2>1. gen[r] \in Gens /\ gen[r] # Null /\ seen[r] >= floor[r]
    BY <1>10, <1>t DEF Store, Holds, TypeOK
  <2>2. CASE cached' = cached
    BY <1>10, <2>0, <2>2, <1>t DEF Order, Used, InUse, CurrentIsFresh, Agree, Holds, TypeOK, Store, Goto
  <2>3. CASE cached' = [cached EXCEPT ![gen[r]] = [seen |-> seen[r], ttl |-> TRUE]]
    <3>1. cached'[gen[r]].seen = seen[r] /\ \A g \in Gens \ {gen[r]} : cached'[g] = cached[g]
      BY <2>1, <2>3, <1>t DEF TypeOK
    <3>2. Order' /\ Used'
      BY <1>t, <2>0, <2>1, <3>1 DEF Order, Used, InUse
    <3>3. CurrentIsFresh'
      BY <1>t, <2>0, <2>1, <3>1 DEF CurrentIsFresh, Agree, TypeOK
    <3>4. Agree'
      BY <1>t, <2>0, <2>1, <3>1 DEF Agree, TypeOK
    <3>5. Holds'
      BY <1>10, <1>t, <2>0 DEF Holds, TypeOK, Store, Goto
    <3> QED BY <3>2, <3>3, <3>4, <3>5
  <2> QED BY <1>10, <2>2, <2>3 DEF Store
<1>11. ASSUME NEW r \in Readers, Reply(r) PROVE Order' /\ Used' /\ CurrentIsFresh' /\ Agree' /\ Holds'
  <2>1. Order' /\ CurrentIsFresh'
    BY <1>11, <1>t DEF Order, CurrentIsFresh, Reply, database, redis, writers
  <2>2. Used'
    BY <1>11, <1>t DEF Used, InUse, TypeOK, Reply, redis
  <2>3. Agree'
    BY <1>11, <1>t DEF Agree, TypeOK, Reply, database, redis
  <2>4. Holds'
    BY <1>11, <1>t DEF Holds, TypeOK, Reply, Goto, database
  <2> QED BY <2>1, <2>2, <2>3, <2>4
<1> QED
  BY <1>0, <1>1, <1>2, <1>3, <1>4, <1>4b, <1>5, <1>6, <1>7, <1>8, <1>9, <1>10, <1>11 DEF Next, Answer

LEMMA NextIInv == IInv /\ [Next]_vars => IInv'
BY TypeStep, SafetyStep DEF IInv

(* Every variable of the cache keeps its type.                             *)
THEOREM CacheTypeCorrect == Spec => []TypeOK
<1>1. IInv => TypeOK
  BY DEF IInv
<1> QED BY <1>1, InitIInv, NextIInv, PTL DEF Spec

(* However many reports and writes race, whatever Redis loses, a report    *)
(* asked for after a write has answered shows that write.                  *)
THEOREM ReportsAreFresh == Spec => []FreshAfterWrite
<1>1. IInv => FreshAfterWrite
  BY DEF IInv, Holds, FreshAfterWrite
<1> QED BY <1>1, InitIInv, NextIInv, PTL DEF Spec

-----------------------------------------------------------------------------
(***************************************************************************)
(* Writes behind the guard are writes of the report cache, so that their   *)
(* reports are fresh, and what may still commit under the key is counted:  *)
(* the key as long as the next request can get it, and every request inside *)
(* that has not committed.                                                 *)
(***************************************************************************)

(* The requests that can still commit.                                     *)
Pending == {w \in inside : wpc[w] = "idle"}

(* The key is free, or will be without having protected a commit.          *)
Spare == IF holder \in Writers THEN 0 ELSE 1

KeyInv == version + Cardinality(Pending) + Spare <= 1 + lapses

LEMMA PendingIsFinite ==
  ASSUME KeyTypeOK
  PROVE  IsFiniteSet(Pending) /\ Cardinality(Pending) \in Nat
<1>1. Pending \subseteq Writers
  BY DEF Pending, KeyTypeOK
<1> QED BY <1>1, KeyAssumption, FS_Subset, FS_CardinalityType

(* Every step of the composition is a step of the cache, or leaves it be.  *)
LEMMA CacheStep == [IdempotentNext]_idemVars => [Next]_vars
<1> SUFFICES ASSUME [IdempotentNext]_idemVars PROVE [Next]_vars
  OBVIOUS
<1>1. CASE UNCHANGED idemVars
  BY <1>1 DEF idemVars
<1>2. CASE KeyExpires
  BY <1>2 DEF KeyExpires
<1>3. ASSUME NEW w \in Writers,
             \/ Admit(w) \/ AdmitFails(w) \/ Reject(w) \/ DieInside(w)
             \/ CommitInside(w) \/ CommitInDoubt(w) \/ Finish(w)
      PROVE  [Next]_vars
  BY <1>3 DEF Admit, AdmitFails, CommitInside, Reject, CommitInDoubt, DieInside, Finish, Next
<1>4. ASSUME NEW g \in Gens, ExpireReport(g) PROVE [Next]_vars
  BY <1>4 DEF ExpireReport, Next
<1>5. ASSUME NEW r \in Readers, AnswerReport(r) PROVE [Next]_vars
  BY <1>5 DEF AnswerReport, Next
<1>6. CASE Around
  BY <1>6 DEF Around, Next
<1> QED BY <1>1, <1>2, <1>3, <1>4, <1>5, <1>6 DEF IdempotentNext

(* The composition implements the cache: all that holds of the cache holds *)
(* of it, whatever the guard does.                                         *)
THEOREM WritesImplementCache == IdempotentSpec => Spec
<1>1. IdempotentInit => Init
  BY DEF IdempotentInit
<1> QED BY <1>1, CacheStep, PTL DEF IdempotentSpec, Spec

LEMMA InitKey == IdempotentInit => KeyTypeOK /\ KeyInv
<1> SUFFICES ASSUME IdempotentInit PROVE KeyTypeOK /\ KeyInv
  OBVIOUS
<1>1. TypeOK
  BY InitIInv DEF IdempotentInit, IInv
<1>2. Pending = {} /\ Spare = 1 /\ version = 0
  BY KeyAssumption DEF IdempotentInit, Init, Pending, Spare
<1>3. KeyTypeOK
  BY <1>1, KeyAssumption DEF IdempotentInit, KeyTypeOK
<1> QED BY <1>2, <1>3, FS_EmptySet DEF IdempotentInit, KeyInv

(* A request that stops being pending gives its place up.                  *)
LEMMA Gone ==
  ASSUME KeyTypeOK, NEW w \in Pending, Pending' = Pending \ {w}
  PROVE  Cardinality(Pending') = Cardinality(Pending) - 1
BY PendingIsFinite, FS_RemoveElement

LEMMA ReleaseBounds ==
  ASSUME KeyTypeOK, NEW w \in Writers, Release(w)
  PROVE  /\ holder' \in Writers \cup {Free, Nobody}
         /\ Spare' \in 0..(Spare + 1)
BY KeyAssumption DEF KeyTypeOK, Release, Spare

LEMMA KeyStep == KeyTypeOK /\ TypeOK' /\ KeyInv /\ [IdempotentNext]_idemVars => KeyTypeOK' /\ KeyInv'
<1> SUFFICES ASSUME KeyTypeOK, TypeOK', KeyInv, [IdempotentNext]_idemVars
             PROVE  KeyTypeOK' /\ KeyInv'
  OBVIOUS
<1> USE KeyAssumption
<1>t. /\ IsFiniteSet(Pending) /\ Cardinality(Pending) \in Nat
      /\ version \in Nat /\ lapses \in Nat /\ Spare \in {0, 1}
  BY PendingIsFinite, CacheAssumption DEF KeyTypeOK, TypeOK, Versions, Spare
<1>0. CASE UNCHANGED <<version, wpc, keyVars>>
  <2>1. Pending' = Pending /\ Spare' = Spare
    BY <1>0 DEF keyVars, Pending, Spare
  <2> QED BY <1>0, <2>1 DEF keyVars, KeyTypeOK, KeyInv
<1>1. CASE KeyExpires
  <2>1. UNCHANGED <<version, wpc, inside>> /\ holder' = Free
    BY <1>1 DEF KeyExpires, vars, database, writers
  <2>2. Pending' = Pending /\ Spare' = 1
    BY <2>1 DEF Pending, Spare
  <2>3. lapses' \in 0..MaxLapses /\ lapses' = lapses + (1 - Spare)
    BY <1>1, <1>t DEF KeyExpires, KeyTypeOK, Spare
  <2> QED BY <1>t, <2>1, <2>2, <2>3 DEF KeyTypeOK, KeyInv
<1>2. ASSUME NEW w \in Writers, Admit(w) PROVE KeyTypeOK' /\ KeyInv'
  <2>1. UNCHANGED <<version, wpc, lapses>> /\ holder = Free /\ holder' = w /\ inside' = inside \cup {w}
    BY <1>2 DEF Admit, vars, database, writers
  <2>2. Spare = 1 /\ Spare' = 0
    BY <2>1 DEF Spare
  <2>3. Pending' = Pending \/ Pending' = Pending \cup {w}
    BY <2>1 DEF Pending
  <2>a. Cardinality(Pending \cup {w}) = Cardinality(Pending)
        \/ Cardinality(Pending \cup {w}) = Cardinality(Pending) + 1
    BY <1>t, FS_AddElement
  <2>4. Cardinality(Pending') <= Cardinality(Pending) + 1
    <3>1. CASE Pending' = Pending
      BY <1>t, <3>1
    <3>2. CASE Pending' = Pending \cup {w}
      BY <1>t, <2>a, <3>2
    <3> QED BY <2>3, <3>1, <3>2
  <2>5. IsFiniteSet(Pending') /\ Cardinality(Pending') \in Nat
    BY <1>t, <2>3, FS_AddElement, FS_CardinalityType
  <2> QED BY <1>t, <2>1, <2>2, <2>4, <2>5 DEF KeyTypeOK, KeyInv
<1>3. ASSUME NEW w \in Writers, AdmitFails(w) PROVE KeyTypeOK' /\ KeyInv'
  <2>1. UNCHANGED <<version, wpc, lapses, inside>> /\ holder = Free /\ holder' = Nobody
    BY <1>3 DEF AdmitFails, vars, database, writers
  <2>2. Spare' = Spare /\ Pending' = Pending
    BY <2>1 DEF Spare, Pending
  <2> QED BY <2>1, <2>2 DEF KeyTypeOK, KeyInv
<1>4. ASSUME NEW w \in Writers, CommitInside(w) PROVE KeyTypeOK' /\ KeyInv'
  <2>1. UNCHANGED keyVars /\ w \in inside /\ wpc[w] = "idle"
        /\ version' = version + 1 /\ wpc' = [wpc EXCEPT ![w] = "bump"]
    BY <1>4 DEF CommitInside, Running, Commit
  <2>2. w \in Pending /\ Pending' = Pending \ {w}
    BY <2>1 DEF Pending, keyVars, KeyTypeOK, TypeOK
  <2>3. Cardinality(Pending') = Cardinality(Pending) - 1
    BY <2>2, Gone
  <2>4. Spare' = Spare
    BY <2>1 DEF Spare, keyVars
  <2> QED BY <1>t, <2>1, <2>3, <2>4 DEF keyVars, KeyTypeOK, KeyInv
<1>5. ASSUME NEW w \in Writers, Reject(w) \/ DieInside(w) PROVE KeyTypeOK' /\ KeyInv'
  <2>1. UNCHANGED <<version, wpc, lapses>> /\ w \in Pending /\ inside' = inside \ {w}
    BY <1>5 DEF Reject, DieInside, Running, Leave, Pending, vars, database, writers
  <2>2. Pending' = Pending \ {w}
    BY <2>1 DEF Pending
  <2>3. Cardinality(Pending') = Cardinality(Pending) - 1
    BY <2>1, <2>2, Gone
  <2>4. CASE Reject(w)
    BY <1>t, <2>1, <2>3, <2>4, ReleaseBounds DEF Reject, KeyTypeOK, KeyInv
  <2>5. CASE DieInside(w)
    <3>1. holder' \in Writers \cup {Free, Nobody} /\ Spare' \in 0..(Spare + 1)
      BY <2>5 DEF DieInside, Spare, KeyTypeOK
    <3> QED BY <1>t, <2>1, <2>3, <3>1 DEF KeyTypeOK, KeyInv
  <2> QED BY <1>5, <2>4, <2>5
<1>6. ASSUME NEW w \in Writers, CommitInDoubt(w) PROVE KeyTypeOK' /\ KeyInv'
  <2>1. wpc' = wpc /\ version' = version + 1 /\ w \in Pending /\ inside' = inside \ {w}
        /\ lapses' = lapses + 1 /\ lapses < MaxLapses /\ Release(w)
    BY <1>6 DEF CommitInDoubt, CommitUnanswered, Running, Leave, Pending, writers
  <2>2. Pending' = Pending \ {w}
    BY <2>1 DEF Pending
  <2>3. Cardinality(Pending') = Cardinality(Pending) - 1
    BY <2>1, <2>2, Gone
  <2>4. lapses' \in 0..MaxLapses
    BY <2>1 DEF KeyTypeOK
  <2> QED BY <1>t, <2>1, <2>3, <2>4, ReleaseBounds DEF KeyTypeOK, KeyInv
<1>7. ASSUME NEW w \in Writers, Finish(w) PROVE KeyTypeOK' /\ KeyInv'
  <2>1. UNCHANGED <<version, holder, lapses>> /\ inside' = inside \ {w}
        /\ wpc[w] = "bump" /\ wpc' = [wpc EXCEPT ![w] = "idle"]
    BY <1>7 DEF Finish, Leave, Bump, BumpFails, database
  <2>2. Pending' = Pending /\ Spare' = Spare
    BY <2>1 DEF Pending, Spare, KeyTypeOK, TypeOK
  <2> QED BY <2>1, <2>2 DEF KeyTypeOK, KeyInv
<1>8. ASSUME NEW g \in Gens, ExpireReport(g) PROVE UNCHANGED <<version, wpc, keyVars>>
  BY <1>8 DEF ExpireReport, Expire, database, writers
<1>9. ASSUME NEW r \in Readers, AnswerReport(r) PROVE UNCHANGED <<version, wpc, keyVars>>
  BY <1>9 DEF AnswerReport, Answer, Lookup, Query, Store, Reply, database, writers
<1>10. CASE Around
  BY <1>0, <1>10 DEF Around, Tick, Evict, ReadGeneration, database, writers
<1>11. CASE UNCHANGED idemVars
  BY <1>0, <1>11 DEF idemVars, vars, database, writers
<1> QED
  BY <1>0, <1>1, <1>2, <1>3, <1>4, <1>5, <1>6, <1>7, <1>8, <1>9, <1>10, <1>11 DEF IdempotentNext

LEMMA WritesInvariant == IdempotentSpec => [](IInv /\ KeyTypeOK /\ KeyInv)
<1>1. IdempotentInit => IInv /\ KeyTypeOK /\ KeyInv
  BY InitIInv, InitKey DEF IdempotentInit
<1>2. IInv /\ KeyTypeOK /\ KeyInv /\ [IdempotentNext]_idemVars => (IInv /\ KeyTypeOK /\ KeyInv)'
  <2> SUFFICES ASSUME IInv, KeyTypeOK, KeyInv, [IdempotentNext]_idemVars
               PROVE  IInv' /\ KeyTypeOK' /\ KeyInv'
    OBVIOUS
  <2>1. IInv'
    BY CacheStep, NextIInv
  <2> QED BY <2>1, KeyStep DEF IInv
<1> QED BY <1>1, <1>2, PTL DEF IdempotentSpec

(* Every variable of the composition keeps its type.                       *)
THEOREM WritesTypeCorrect == IdempotentSpec => []KeyTypeOK
BY WritesInvariant, PTL

(* For any number of repetitions, overlaps, errors, deaths and losses of   *)
(* Redis: a key commits one write, and one more for each time the          *)
(* protection of a request that ran or had committed was lost.             *)
THEOREM KeyCommitsOnce == IdempotentSpec => []OneCommitAKey
<1>1. KeyTypeOK /\ KeyInv => OneCommitAKey
  BY PendingIsFinite, CacheAssumption DEF KeyTypeOK, TypeOK, Versions, KeyInv, OneCommitAKey, Spare
<1> QED BY <1>1, WritesInvariant, PTL
-----------------------------------------------------------------------------
(* What the next run compares the newest entry with.                       *)
Known == HighestKnown(SubSeq(journal, 1, Newest - 1))

Own(m) == sql[Tag(journal[m])] = m /\ snapshot[journal[m].num] = m

Has(m) == (\E t \in Tags : sql[t] = m) /\ \E n \in 0..MaxNumber : snapshot[n] = m

Unused(n) == snapshot[n] = 0 /\ \A name \in Names : sql[[num |-> n, name |-> name]] = 0

(* No number comes twice, and an entry that is to be renumbered has its    *)
(* number from drizzle-kit.                                                *)
NumbersInv ==
  /\ \A m \in DOMAIN journal : journal[m].idx <= journal[m].num
  /\ \A m, n \in DOMAIN journal : journal[m].num = journal[n].num => m = n
  /\ journal[Newest].num <= Known => journal[Newest].idx = journal[Newest].num

(* The numbers that drizzle-kit will give are no entry's.                  *)
RoomInv ==
  /\ \A m \in DOMAIN journal, k \in 1..(MaxEntries - Newest) :
       journal[m].num # journal[Newest].idx + k
  /\ Known + 1 + (MaxEntries - Newest) <= MaxNumber
  /\ journal[Newest].num + (MaxEntries - Newest) <= MaxNumber

(* ... and no file's, and no file is numbered past the next target, which  *)
(* is out of the reach of drizzle-kit.                                     *)
UnusedInv ==
  /\ \A k \in 1..(MaxEntries - Newest) : Unused(journal[Newest].idx + k)
  /\ \A n \in 0..MaxNumber : Unused(n) \/ n <= Known + 1 \/ n = journal[Newest].num
  /\ journal[Newest].num <= Known => Known + 1 > journal[Newest].idx + (MaxEntries - Newest)

(* A rename that was killed half-way blocks the number it was to have: no  *)
(* later run renames anything, and none reports success.                   *)
FilesInv ==
  /\ \A m \in DOMAIN journal : Has(m)
  /\ stage \in {"idle", "plan"} =>
       \/ \A m \in DOMAIN journal : Own(m)
       \/ journal[Newest].num <= Known /\ snapshot[Known + 1] # 0
  /\ stage \in {"sql", "journal"} =>
       /\ \A m \in DOMAIN journal : m < Newest => Own(m)
       /\ journal[Newest].num <= Known /\ snapshot[Known + 1] = Newest
  /\ stage = "sql" => sql[Tag(journal[Newest])] = Newest
  /\ stage = "journal" => sql[Target] = Newest

OkInv ==
  exit = "ok" /\ stage = "idle" =>
    /\ \A m \in DOMAIN journal : m < Newest => journal[m].num < journal[Newest].num
    /\ \A m \in DOMAIN journal : Own(m)

NumberingInv == NumberingTypeOK /\ NumbersInv /\ RoomInv /\ UnusedInv /\ FilesInv /\ OkInv

LEMMA InvKeepsFiles == NumberingInv => MigrationsKeepFiles
BY DEF NumberingInv, NumbersInv, FilesInv, OkInv, Has, Own, MigrationsKeepFiles

-----------------------------------------------------------------------------
LEMMA HighestIs ==
  ASSUME NEW j, NEW n \in Nat, DOMAIN j = 1..n, \A m \in 1..n : j[m] \in Entry
  PROVE  /\ HighestKnown(j) \in Int /\ HighestKnown(j) >= -1
         /\ \A m \in 1..n : j[m].idx <= HighestKnown(j) /\ j[m].num <= HighestKnown(j)
         /\ HighestKnown(j) = -1 \/ \E m \in 1..n : HighestKnown(j) \in {j[m].idx, j[m].num}
<1> DEFINE S == {-1} \cup Numbers(j)
<1>1. MaxNumber \in Nat
  BY NumberingAssumption
<1>2. \A m \in 1..n : j[m].idx \in 0..MaxNumber /\ j[m].num \in 0..MaxNumber
  BY DEF Entry
<1>3. S \subseteq (-1)..MaxNumber /\ -1 \in S
  BY <1>1, <1>2 DEF Numbers
<1>4. IsFiniteSet(S) /\ S \in SUBSET Int /\ S # {}
  <2>1. IsFiniteSet((-1)..MaxNumber)
    BY <1>1, FS_Interval
  <2> HIDE DEF S
  <2>2. IsFiniteSet(S)
    BY <1>3, <2>1, FS_Subset
  <2> QED
    BY <1>1, <1>3, <2>2
<1>5. \E x \in S : \A y \in S : y <= x
  <2> HIDE DEF S
  <2> QED
    BY <1>4, Greatest
<1>6. HighestKnown(j) \in S /\ \A y \in S : y <= HighestKnown(j)
  <2>1. HighestKnown(j) = Max(S)
    BY DEF HighestKnown
  <2> HIDE DEF S
  <2> QED
    BY <1>5, <2>1 DEF Max
<1>7. \A m \in 1..n : j[m].idx \in S /\ j[m].num \in S
  BY DEF Numbers
<1>8. HighestKnown(j) = -1 \/ \E m \in 1..n : HighestKnown(j) \in {j[m].idx, j[m].num}
  BY <1>6 DEF Numbers
<1>9. HighestKnown(j) \in Int
  BY <1>4, <1>6
<1>10. -1 \in S
  BY <1>3
<1> HIDE DEF S
<1> QED
  BY <1>6, <1>7, <1>8, <1>9, <1>10

(* The journal, and what is known of its entries before the newest.        *)
JournalFacts ==
  /\ Newest \in 1..MaxEntries /\ MaxEntries \in Nat /\ MaxNumber \in Nat
  /\ DOMAIN journal = 1..Newest
  /\ \A m \in 1..Newest : /\ journal[m] \in Entry /\ Tag(journal[m]) \in Tags
                          /\ journal[m].idx \in 0..MaxNumber /\ journal[m].num \in 0..MaxNumber
                          /\ journal[m].name \in Names
  /\ Known \in Int /\ Known >= -1 /\ TargetIndex = Known + 1
  /\ \A m \in 1..(Newest - 1) : journal[m].idx <= Known /\ journal[m].num <= Known
  /\ Known = -1 \/ \E m \in 1..(Newest - 1) : Known \in {journal[m].idx, journal[m].num}

LEMMA JournalIs == NumberingTypeOK => JournalFacts
<1> SUFFICES ASSUME NumberingTypeOK PROVE JournalFacts
  OBVIOUS
<1>1. Newest \in 1..MaxEntries /\ MaxEntries \in Nat /\ MaxNumber \in Nat
  BY NumberingAssumption DEF NumberingTypeOK, Newest
<1>2. DOMAIN journal = 1..Newest /\ \A m \in 1..Newest : journal[m] \in Entry
  BY LenProperties, ElementOfSeq DEF NumberingTypeOK, Newest
<1>3. \A m \in 1..Newest : /\ Tag(journal[m]) \in Tags
                           /\ journal[m].idx \in 0..MaxNumber /\ journal[m].num \in 0..MaxNumber
                           /\ journal[m].name \in Names
  BY <1>2 DEF Entry, Tag, Tags
<1> DEFINE j == SubSeq(journal, 1, Newest - 1)
<1>4. /\ Newest - 1 \in Nat /\ DOMAIN j = 1..(Newest - 1)
      /\ \A m \in 1..(Newest - 1) : j[m] = journal[m]
  <2>1. \A m \in 1..(Newest - 1) : journal[m] \in Entry
    BY <1>1, <1>2
  <2>2. /\ j \in Seq(Entry) /\ Len(j) = IF 1 <= Newest - 1 THEN Newest - 1 - 1 + 1 ELSE 0
        /\ \A m \in 1..(Newest - 1 - 1 + 1) : j[m] = journal[1 + m - 1]
    BY <1>1, <2>1, SubSeqProperties
  <2>3. Len(j) = Newest - 1 /\ DOMAIN j = 1..Len(j)
    BY <1>1, <2>2, LenProperties
  <2> HIDE DEF j
  <2> QED
    BY <1>1, <2>2, <2>3
<1>5. Known = HighestKnown(j) /\ TargetIndex = Known + 1
  BY DEF Known, TargetIndex
<1> HIDE DEF j
<1>6. /\ HighestKnown(j) \in Int /\ HighestKnown(j) >= -1
      /\ \A m \in 1..(Newest - 1) : j[m].idx <= HighestKnown(j) /\ j[m].num <= HighestKnown(j)
      /\ HighestKnown(j) = -1 \/ \E m \in 1..(Newest - 1) : HighestKnown(j) \in {j[m].idx, j[m].num}
  <2>1. \A m \in 1..(Newest - 1) : j[m] \in Entry
    BY <1>1, <1>2, <1>4
  <2> QED
    BY <1>4, <2>1, HighestIs
<1> QED
  BY <1>1, <1>2, <1>3, <1>4, <1>5, <1>6 DEF JournalFacts

-----------------------------------------------------------------------------
LEMMA OneOfIs ==
  ASSUME NEW S
  PROVE  (S = {} => OneOf(S) = 0) /\ (S # {} => OneOf(S) \in S)
BY DEF OneOf

LEMMA NumberingInitInv == NumberingInit => NumberingInv
<1> SUFFICES ASSUME NumberingInit PROVE NumberingInv
  OBVIOUS
<1>1. /\ journal \in Seq(Entry) /\ Len(journal) \in 1..MaxEntries /\ MaxEntries \in Nat /\ MaxNumber \in Nat
      /\ \A m \in DOMAIN journal : journal[m].idx <= journal[m].num /\ journal[m].num + MaxEntries <= MaxNumber
      /\ \A m, n \in DOMAIN journal : m < n => journal[m].idx < journal[n].idx /\ journal[m].num < journal[n].num
      /\ \A m \in DOMAIN journal, k \in 1..(MaxEntries - Newest) : journal[m].num # journal[Newest].idx + k
  BY NumberingAssumption DEF NumberingInit, Newest
<1>2. DOMAIN journal = 1..Len(journal)
  BY <1>1, LenProperties
<1>3. NumberingTypeOK
  <2>1. \A S \in SUBSET (1..Len(journal)) : OneOf(S) \in 0..MaxEntries
    <3> SUFFICES ASSUME NEW S \in SUBSET (1..Len(journal)) PROVE OneOf(S) \in 0..MaxEntries
      OBVIOUS
    <3>1. OneOf(S) = 0 \/ OneOf(S) \in 1..Len(journal)
      BY OneOfIs
    <3> QED
      BY <1>1, <3>1
  <2>2. \A t \in Tags : OneOf({m \in DOMAIN journal : Tag(journal[m]) = t}) \in 0..MaxEntries
    BY <1>2, <2>1
  <2>3. \A n \in 0..MaxNumber : OneOf({m \in DOMAIN journal : journal[m].num = n}) \in 0..MaxEntries
    BY <1>2, <2>1
  <2> QED
    BY <1>1, <2>2, <2>3 DEF NumberingTypeOK, NumberingInit
<1>4. JournalFacts
  BY <1>3, JournalIs
<1> USE DEF JournalFacts
<1>5. \A m, n \in DOMAIN journal : journal[m].num = journal[n].num => m = n
  <2> SUFFICES ASSUME NEW m \in DOMAIN journal, NEW n \in DOMAIN journal, m # n
               PROVE  journal[m].num # journal[n].num
    OBVIOUS
  <2>1. m \in 1..Newest /\ n \in 1..Newest /\ journal[m].num \in 0..MaxNumber /\ journal[n].num \in 0..MaxNumber
    BY <1>4
  <2>2. m < n \/ n < m
    BY <1>4, <2>1
  <2> QED
    BY <1>1, <1>4, <2>1, <2>2
<1>6. Known + 1 <= journal[Newest].num
  <2>1. CASE Known = -1
    BY <1>4, <2>1
  <2>2. ASSUME NEW m \in 1..(Newest - 1), Known \in {journal[m].idx, journal[m].num}
        PROVE  Known + 1 <= journal[Newest].num
    <3>1. m \in DOMAIN journal /\ Newest \in DOMAIN journal /\ m < Newest
      BY <1>4
    <3>2. journal[m].num < journal[Newest].num /\ journal[m].idx <= journal[m].num
      BY <1>1, <3>1
    <3>3. journal[m].num \in Int /\ journal[m].idx \in Int /\ journal[Newest].num \in Int
      BY <1>4, <3>1
    <3> QED
      BY <2>2, <3>2, <3>3
  <2> QED
    BY <1>4, <2>1, <2>2
<1>7. ASSUME NEW n \in 0..MaxNumber, \A m \in DOMAIN journal : journal[m].num # n PROVE Unused(n)
  <2>1. snapshot[n] = 0
    <3>1. {m \in DOMAIN journal : journal[m].num = n} = {}
      BY <1>7
    <3> QED
      BY <3>1, OneOfIs DEF NumberingInit
  <2>2. ASSUME NEW name \in Names PROVE sql[[num |-> n, name |-> name]] = 0
    <3> DEFINE t == [num |-> n, name |-> name]
    <3>1. t \in Tags
      BY DEF Tags
    <3>2. {m \in DOMAIN journal : Tag(journal[m]) = t} = {}
      BY <1>7 DEF Tag
    <3> HIDE DEF t
    <3>3. sql[t] = 0
      BY <3>1, <3>2, OneOfIs DEF NumberingInit
    <3> QED
      BY <3>3 DEF t
  <2> QED
    BY <2>1, <2>2 DEF Unused
<1>8. ASSUME NEW m \in DOMAIN journal PROVE Own(m) /\ Has(m)
  <2>1. journal[m].num \in 0..MaxNumber /\ Tag(journal[m]) \in Tags
    BY <1>4
  <2>2. snapshot[journal[m].num] = m
    <3> DEFINE S == {n \in DOMAIN journal : journal[n].num = journal[m].num}
    <3>1. m \in S /\ \A n \in S : n = m
      BY <1>5
    <3>2. snapshot[journal[m].num] = OneOf(S)
      BY <2>1 DEF NumberingInit
    <3> HIDE DEF S
    <3> QED
      BY <3>1, <3>2, OneOfIs
  <2>3. sql[Tag(journal[m])] = m
    <3> DEFINE S == {n \in DOMAIN journal : Tag(journal[n]) = Tag(journal[m])}
    <3>1. m \in S /\ \A n \in S : n = m
      BY <1>5 DEF Tag
    <3>2. sql[Tag(journal[m])] = OneOf(S)
      BY <2>1 DEF NumberingInit
    <3> HIDE DEF S
    <3> QED
      BY <3>1, <3>2, OneOfIs
  <2> QED
    BY <2>1, <2>2, <2>3 DEF Own, Has
<1>9. NumbersInv
  BY <1>1, <1>4, <1>5, <1>6 DEF NumbersInv
<1>10. RoomInv
  <2>1. journal[Newest].num + MaxEntries <= MaxNumber
    BY <1>1, <1>4
  <2> QED
    BY <1>1, <1>4, <1>6, <2>1 DEF RoomInv
<1>11. UnusedInv
  <2>1. ASSUME NEW k \in 1..(MaxEntries - Newest) PROVE Unused(journal[Newest].idx + k)
    <3>1. Newest \in DOMAIN journal /\ journal[Newest].idx <= journal[Newest].num
          /\ journal[Newest].num + MaxEntries <= MaxNumber
      BY <1>1, <1>4
    <3>2. journal[Newest].idx + k \in 0..MaxNumber
      BY <1>4, <3>1
    <3> QED
      BY <1>1, <1>7, <3>2
  <2>2. ASSUME NEW n \in 0..MaxNumber PROVE Unused(n) \/ n <= Known + 1 \/ n = journal[Newest].num
    <3>1. ASSUME NEW m \in DOMAIN journal, journal[m].num = n PROVE n <= Known + 1 \/ n = journal[Newest].num
      BY <1>4, <3>1
    <3> QED
      BY <1>7, <3>1
  <2> QED
    BY <1>4, <1>6, <2>1, <2>2 DEF UnusedInv
<1>12. FilesInv
  BY <1>8 DEF FilesInv, NumberingInit
<1>13. OkInv
  BY DEF OkInv, NumberingInit
<1> QED
  BY <1>3, <1>9, <1>10, <1>11, <1>12, <1>13 DEF NumberingInv

(* A step that leaves the journal and the files alone.                     *)
LEMMA WaitingKeeps ==
  ASSUME NumberingInv, UNCHANGED <<journal, sql, snapshot>>,
         \/ RunScript \/ Unchanged \/ Refuse \/ Killed \/ UNCHANGED numberingVars
  PROVE  NumberingInv'
<1>1. JournalFacts
  BY JournalIs DEF NumberingInv
<1>2. /\ NumberingTypeOK /\ NumbersInv /\ RoomInv /\ UnusedInv /\ FilesInv /\ OkInv
  BY DEF NumberingInv
<1>3. NumberingTypeOK'
  BY <1>2 DEF NumberingTypeOK, RunScript, Unchanged, Refuse, Killed, numberingVars
<1>4. /\ Newest' = Newest /\ Known' = Known /\ TargetIndex' = TargetIndex /\ Target' = Target
      /\ \A m : (Own(m)' <=> Own(m)) /\ (Has(m)' <=> Has(m))
      /\ \A n : Unused(n)' <=> Unused(n)
  BY DEF Newest, Known, TargetIndex, Target, Own, Has, Unused
<1>5. NumbersInv' /\ RoomInv' /\ UnusedInv'
  BY <1>2, <1>4 DEF NumbersInv, RoomInv, UnusedInv
<1>6. FilesInv'
  <2>1. CASE stage' = stage
    BY <1>2, <1>4, <2>1 DEF FilesInv
  <2>2. CASE (stage = "idle" /\ stage' = "plan") \/ (stage = "plan" /\ stage' = "idle")
    BY <1>2, <1>4, <2>2 DEF FilesInv
  <2>3. CASE stage \in {"sql", "journal"} /\ stage' = "idle"
    <3>1. journal[Newest].num <= Known /\ snapshot[Known + 1] = Newest /\ Newest # 0
      BY <1>1, <1>2, <2>3 DEF FilesInv, JournalFacts
    <3> QED
      BY <1>2, <1>4, <2>3, <3>1 DEF FilesInv
  <2>4. stage \in {"idle", "plan", "sql", "journal"}
    BY <1>2 DEF NumberingTypeOK
  <2>5. CASE RunScript \/ Unchanged \/ Refuse
    <3>1. (stage = "idle" /\ stage' = "plan") \/ (stage = "plan" /\ stage' = "idle")
      <4>1. CASE RunScript
        BY <4>1 DEF RunScript
      <4>2. CASE Unchanged
        BY <4>2 DEF Unchanged
      <4>3. CASE Refuse
        BY <4>3 DEF Refuse
      <4> QED
        BY <2>5, <4>1, <4>2, <4>3
    <3> QED
      BY <2>2, <3>1
  <2>6. CASE Killed
    BY <2>2, <2>3, <2>4, <2>6 DEF Killed
  <2>7. CASE UNCHANGED numberingVars
    BY <2>1, <2>7 DEF numberingVars
  <2> QED
    BY <2>5, <2>6, <2>7
<1>7. OkInv'
  <2>1. CASE Unchanged
    <3>1. journal[Newest].num = Known + 1 /\ stage = "plan"
      BY <1>1, <2>1 DEF Unchanged, JournalFacts
    <3>2. \A m \in DOMAIN journal : Own(m)
      BY <1>1, <1>2, <3>1 DEF FilesInv, JournalFacts
    <3>3. \A m \in DOMAIN journal : m < Newest => journal[m].num < journal[Newest].num
      BY <1>1, <3>1 DEF JournalFacts
    <3> QED
      BY <1>4, <3>2, <3>3 DEF OkInv
  <2>2. CASE ~Unchanged
    BY <1>2, <1>4, <2>2 DEF OkInv, RunScript, Refuse, Killed, numberingVars
  <2> QED
    BY <2>1, <2>2
<1> QED
  BY <1>3, <1>5, <1>6, <1>7 DEF NumberingInv

LEMMA GenerateKeeps ==
  ASSUME NumberingInv, AddMigration
  PROVE  NumberingInv'
<1> DEFINE c == journal[Newest].idx
<1>1. JournalFacts
  BY JournalIs DEF NumberingInv
<1>2. NumberingTypeOK /\ NumbersInv /\ RoomInv /\ UnusedInv /\ FilesInv
  BY DEF NumberingInv
<1>3. PICK name \in Names, next \in {"plan", "idle"} :
        LET entry == [idx |-> c + 1, num |-> c + 1, name |-> name]
        IN  /\ journal' = Append(journal, entry)
            /\ sql' = [sql EXCEPT ![Tag(entry)] = Newest + 1]
            /\ snapshot' = [snapshot EXCEPT ![c + 1] = Newest + 1]
            /\ stage' = next
  BY DEF AddMigration
<1> DEFINE e == [idx |-> c + 1, num |-> c + 1, name |-> name]
           tag == [num |-> c + 1, name |-> name]
<1>4. Newest < MaxEntries /\ stage = "idle" /\ exit' = "none"
  BY DEF AddMigration, Newest
<1>5. /\ c \in Nat /\ journal[Newest].num \in Nat /\ c <= journal[Newest].num
      /\ c + 1 + (MaxEntries - Newest) <= MaxNumber + 1 /\ c + 1 \in 0..MaxNumber
  BY <1>1, <1>2, <1>4, SMTT(30) DEF JournalFacts, NumbersInv, RoomInv
<1>6. e \in Entry /\ Tag(e) = tag /\ tag \in Tags
  BY <1>5 DEF Entry, Tag, Tags
<1>7. /\ sql' = [sql EXCEPT ![tag] = Newest + 1] /\ snapshot' = [snapshot EXCEPT ![c + 1] = Newest + 1]
      /\ journal' = Append(journal, e)
  BY <1>3, <1>6
<1>8. /\ journal' \in Seq(Entry) /\ Newest' = Newest + 1 /\ Newest' \in 1..MaxEntries
      /\ \A m \in 1..Newest : journal'[m] = journal[m]
      /\ journal'[Newest + 1] = e
  <2>1. journal \in Seq(Entry) /\ Newest = Len(journal) /\ Newest' = Len(journal')
    BY <1>2 DEF NumberingTypeOK, Newest
  <2> HIDE DEF e
  <2> QED
    BY <1>1, <1>4, <1>6, <1>7, <2>1 DEF JournalFacts
<1>9. NumberingTypeOK'
  <2>1. Newest + 1 \in 0..MaxEntries
    BY <1>1, <1>4 DEF JournalFacts
  <2> QED
    BY <1>2, <1>3, <1>4, <1>7, <1>8, <2>1 DEF NumberingTypeOK, Newest
<1>10. JournalFacts'
  <2>1. JournalFacts' \/ ~NumberingTypeOK'
    BY JournalIs, PTL
  <2> QED
    BY <1>9, <2>1
<1>11. DOMAIN journal' = 1..(Newest + 1) /\ DOMAIN journal = 1..Newest /\ Newest \in Nat \ {0}
  BY <1>1, <1>8, <1>10 DEF JournalFacts
<1>12. /\ e.idx = c + 1 /\ e.num = c + 1 /\ e.name = name
  OBVIOUS
<1>13. /\ Known' \in Int /\ Known \in Int /\ Known >= -1
       /\ Known' >= Known /\ Known' >= journal[Newest].num
       /\ Known' \in {Known, journal[Newest].num}
  <2>0. /\ Newest' - 1 = Newest
        /\ \A m \in 1..(Newest' - 1) : journal'[m].idx <= Known' /\ journal'[m].num <= Known'
        /\ Known' = -1 \/ \E m \in 1..(Newest' - 1) : Known' \in {journal'[m].idx, journal'[m].num}
    <3>1. /\ \A m \in 1..(Newest' - 1) : journal'[m].idx <= Known' /\ journal'[m].num <= Known'
          /\ Known' = -1 \/ \E m \in 1..(Newest' - 1) : Known' \in {journal'[m].idx, journal'[m].num}
      BY <1>10 DEF JournalFacts
    <3>2. Newest' - 1 = Newest
      BY <1>8, <1>11
    <3> QED
      BY <3>1, <3>2
  <2>1. \A m \in 1..Newest : journal[m].idx <= Known' /\ journal[m].num <= Known'
    BY <1>8, <2>0
  <2>2. Known' = -1 \/ \E m \in 1..Newest : Known' \in {journal[m].idx, journal[m].num}
    BY <1>8, <2>0
  <2>3. Known' >= Known
    BY <1>1, <1>10, <1>11, <2>1 DEF JournalFacts
  <2>4. ASSUME NEW m \in 1..Newest, Known' \in {journal[m].idx, journal[m].num}
        PROVE  Known' <= Known \/ Known' <= journal[Newest].num
    <3>1. CASE m = Newest
      BY <1>5, <1>10, <2>4, <3>1 DEF JournalFacts
    <3>2. CASE m # Newest
      <4>1. m \in 1..(Newest - 1)
        BY <1>11, <3>2
      <4> QED
        BY <1>1, <1>10, <2>4, <4>1 DEF JournalFacts
    <3> QED
      BY <3>1, <3>2
  <2> QED
    BY <1>1, <1>5, <1>10, <1>11, <2>1, <2>2, <2>3, <2>4, SMTT(30) DEF JournalFacts
<1>14. \A m \in 1..Newest, k \in 1..(MaxEntries - Newest) : journal[m].num # c + k
  BY <1>2, <1>11 DEF RoomInv
<1>15. /\ \A m \in 1..Newest : journal[m].idx \in Nat /\ journal[m].num \in Nat
       /\ \A m \in 1..Newest : journal[m].idx <= journal[m].num
       /\ \A m, n \in 1..Newest : journal[m].num = journal[n].num => m = n
  <2>1. \A m \in 1..Newest : journal[m].idx \in 0..MaxNumber /\ journal[m].num \in 0..MaxNumber
    BY <1>1 DEF JournalFacts
  <2>2. /\ \A m \in 1..Newest : journal[m].idx <= journal[m].num
        /\ \A m, n \in 1..Newest : journal[m].num = journal[n].num => m = n
    BY <1>2, <1>11 DEF NumbersInv
  <2> QED
    BY <2>1, <2>2
<1>26. /\ MaxEntries \in Nat /\ MaxNumber \in Nat /\ Newest \in Nat
       /\ Known + 1 + (MaxEntries - Newest) <= MaxNumber
       /\ journal[Newest].num + (MaxEntries - Newest) <= MaxNumber
  BY <1>1, <1>2 DEF JournalFacts, RoomInv
<1> DEFINE last == journal[Newest].num
           known == Known'
<1>27. /\ known \in Int /\ last \in Nat /\ known >= last
       /\ known + 1 + (MaxEntries - (Newest + 1)) <= MaxNumber
  <2>1. last \in Nat /\ Known \in Int /\ known \in Int /\ known >= last /\ (known = Known \/ known = last)
    BY <1>5, <1>13
  <2> HIDE DEF last, known
  <2>2. last + (MaxEntries - Newest) <= MaxNumber
    BY <1>26 DEF last
  <2>3. CASE known = Known
    BY <1>26, <2>1, <2>3
  <2>4. CASE known = last
    BY <1>26, <2>1, <2>2, <2>4
  <2> QED
    BY <2>1, <2>3, <2>4
<1>16. 1 \in 1..(MaxEntries - Newest)
  BY <1>4, <1>11, <1>26
<1> HIDE DEF e, c, tag
<1>17. \A m \in 1..Newest : journal[m].num # c + 1
  BY <1>14, <1>16
<1>18. NumbersInv'
  <2>1. \A m \in 1..(Newest + 1) : journal'[m].idx <= journal'[m].num
    BY <1>5, <1>8, <1>11, <1>12, <1>15
  <2>2. \A m, n \in 1..(Newest + 1) : journal'[m].num = journal'[n].num => m = n
    BY <1>8, <1>11, <1>12, <1>15, <1>17
  <2> QED
    BY <1>8, <1>11, <1>12, <2>1, <2>2 DEF NumbersInv
<1>19. RoomInv'
  <2>1. ASSUME NEW m \in 1..(Newest + 1), NEW k \in 1..(MaxEntries - (Newest + 1))
        PROVE  journal'[m].num # c + 1 + k
    <3>1. k + 1 \in 1..(MaxEntries - Newest) /\ c + 1 + k = c + (k + 1) /\ c + 1 + k # c + 1
      BY <1>5, <1>26
    <3> QED
      BY <1>8, <1>11, <1>12, <1>14, <3>1
  <2>2. Known' + 1 + (MaxEntries - (Newest + 1)) <= MaxNumber
    BY <1>27
  <2>3. c + 1 + (MaxEntries - (Newest + 1)) <= MaxNumber
    BY <1>5, <1>26
  <2> QED
    BY <1>8, <1>11, <1>12, <2>1, <2>2, <2>3 DEF RoomInv
<1>20. /\ Unused(c + 1)
       /\ \A n \in 0..MaxNumber : n # c + 1 /\ Unused(n) => Unused(n)'
  <2>1. Unused(c + 1)
    BY <1>2, <1>16 DEF UnusedInv, c
  <2>2. ASSUME NEW n \in 0..MaxNumber, n # c + 1, Unused(n) PROVE Unused(n)'
    <3>1. \A nm \in Names : [num |-> n, name |-> nm] # tag /\ [num |-> n, name |-> nm] \in Tags
      BY <2>2 DEF tag, Tags
    <3>2. sql \in [Tags -> 0..MaxEntries] /\ snapshot \in [0..MaxNumber -> 0..MaxEntries]
      BY <1>2 DEF NumberingTypeOK
    <3>3. snapshot'[n] = snapshot[n]
      BY <1>7, <2>2, <3>2
    <3>4. \A nm \in Names : sql'[[num |-> n, name |-> nm]] = sql[[num |-> n, name |-> nm]]
      BY <1>7, <3>1, <3>2
    <3> QED
      BY <2>2, <3>3, <3>4 DEF Unused
  <2> QED
    BY <2>1, <2>2
<1>21. UnusedInv'
  <2>1. ASSUME NEW k \in 1..(MaxEntries - (Newest + 1)), NEW n, n = c + 1 + k PROVE Unused(n)'
    <3>1. /\ k + 1 \in 1..(MaxEntries - Newest) /\ c + 1 + k = c + (k + 1) /\ c + 1 + k # c + 1
          /\ c + 1 + k \in 0..MaxNumber
      BY <1>5, <1>26
    <3>2. Unused(c + (k + 1))
      BY <1>2, <3>1 DEF UnusedInv, c
    <3>3. Unused(c + 1 + k)
      BY <3>1, <3>2
    <3> QED
      BY <1>20, <2>1, <3>1, <3>3
  <2>2. ASSUME NEW n \in 0..MaxNumber PROVE Unused(n)' \/ n <= Known' + 1 \/ n = c + 1
    <3>1. Unused(n) \/ n <= Known + 1 \/ n = journal[Newest].num
      BY <1>2 DEF UnusedInv
    <3>2. CASE n <= Known + 1 \/ n = journal[Newest].num
      <4>1. Known <= known /\ known \in Int /\ Known \in Int
        BY <1>13
      <4>2. last <= known /\ last \in Nat
        BY <1>27
      <4>3. n <= Known + 1 \/ n = last
        BY <3>2
      <4> HIDE DEF known, last
      <4>4. n <= known + 1
        BY <4>1, <4>2, <4>3
      <4> QED
        BY <4>4 DEF known
    <3> QED
      BY <1>20, <3>1, <3>2
  <2>3. ASSUME c + 1 <= Known' PROVE Known' + 1 > c + 1 + (MaxEntries - (Newest + 1))
    <3>1. \E m \in 1..Newest : Known' = journal[m].num
      <4>1. \E m \in 1..Newest : Known' \in {journal'[m].idx, journal'[m].num}
        BY <1>5, <1>8, <1>10, <1>11, <2>3 DEF JournalFacts
      <4>2. PICK m \in 1..Newest : Known' \in {journal[m].idx, journal[m].num}
        BY <1>8, <4>1
      <4>3. journal[m].num <= Known'
        BY <1>8, <1>10, <1>11 DEF JournalFacts
      <4> QED
        BY <1>13, <1>15, <4>2, <4>3
    <3>2. \A k \in 1..(MaxEntries - Newest) : Known' # c + k
      BY <1>14, <3>1
    <3>3. known \in Int /\ c \in Nat /\ MaxEntries - Newest \in Int /\ known > c
      BY <1>5, <1>26, <1>27, <2>3
    <3>4. \A k \in 1..(MaxEntries - Newest) : known # c + k
      BY <3>2
    <3> HIDE DEF known
    <3>5. ~(known - c \in 1..(MaxEntries - Newest))
      BY <3>3, <3>4
    <3>6. known - c > MaxEntries - Newest
      BY <3>3, <3>5
    <3>7. known + 1 > c + 1 + (MaxEntries - (Newest + 1))
      BY <1>26, <3>3, <3>6
    <3> QED
      BY <3>7 DEF known
  <2>4. journal'[Newest'].idx = c + 1 /\ journal'[Newest'].num = c + 1 /\ Newest' = Newest + 1
    BY <1>8, <1>12
  <2>5. \A k \in 1..(MaxEntries - Newest') : \A n : n = journal'[Newest'].idx + k => Unused(n)'
    BY <2>1, <2>4
  <2>6. \A k \in 1..(MaxEntries - Newest') : Unused(journal[Newest].idx + k)'
    BY <2>5 DEF Unused
  <2> QED
    BY <2>2, <2>3, <2>4, <2>6 DEF UnusedInv
<1>22. ASSUME NEW m \in 1..Newest
       PROVE  Has(m)' /\ (Own(m) => Own(m)')
  <2>1. sql[tag] = 0 /\ snapshot[c + 1] = 0 /\ m # 0
    BY <1>6, <1>11, <1>20 DEF Unused, tag, Tags
  <2>2. sql \in [Tags -> 0..MaxEntries] /\ snapshot \in [0..MaxNumber -> 0..MaxEntries]
    BY <1>2 DEF NumberingTypeOK
  <2>3. (\A t \in Tags : sql[t] = m => sql'[t] = m) /\ (\A n \in 0..MaxNumber : snapshot[n] = m => snapshot'[n] = m)
    BY <1>7, <2>1, <2>2
  <2>4. Has(m)'
    BY <1>2, <1>11, <2>3 DEF FilesInv, Has
  <2>5. Tag(journal[m]) \in Tags /\ journal[m].num \in 0..MaxNumber /\ journal'[m] = journal[m]
    BY <1>1, <1>8 DEF JournalFacts
  <2> QED
    BY <2>3, <2>4, <2>5 DEF Own
<1>23. ASSUME NEW m, m = Newest + 1
       PROVE  Has(m)' /\ Own(m)'
  <2>1. sql \in [Tags -> 0..MaxEntries] /\ snapshot \in [0..MaxNumber -> 0..MaxEntries]
    BY <1>2 DEF NumberingTypeOK
  <2>2. sql'[tag] = Newest + 1 /\ snapshot'[c + 1] = Newest + 1
    BY <1>5, <1>6, <1>7, <2>1
  <2>3. Tag(journal'[m]) = tag /\ journal'[m].num = c + 1
    BY <1>6, <1>8, <1>12, <1>23
  <2> QED
    BY <1>5, <1>6, <1>23, <2>2, <2>3 DEF Has, Own
<1>24. FilesInv'
  <2>1. \A m \in 1..(Newest + 1) : m \in 1..Newest \/ m = Newest + 1
    BY <1>11
  <2>2. \A m \in 1..(Newest + 1) : Has(m)'
    BY <1>22, <1>23, <2>1
  <2>3. CASE \A m \in 1..Newest : Own(m)
    <3>1. \A m \in 1..(Newest + 1) : Own(m)'
      BY <1>22, <1>23, <2>1, <2>3
    <3> QED
      BY <1>3, <1>11, <2>2, <3>1 DEF FilesInv
  <2>4. CASE ~\A m \in 1..Newest : Own(m)
    <3>1. journal[Newest].num <= Known /\ snapshot[Known + 1] # 0
      BY <1>2, <1>4, <1>11, <2>4 DEF FilesInv
    <3>2. Known' = Known
      BY <1>13, <1>15, <3>1
    <3>3. Known + 1 # c + 1
      BY <1>20, <3>1 DEF Unused
    <3>4. c + 1 <= Known
      BY <1>5, <1>13, <3>1, <3>3
    <3>5. Known + 1 \in 0..MaxNumber /\ snapshot \in [0..MaxNumber -> 0..MaxEntries]
      BY <1>2, <1>4, <1>13, <1>26 DEF NumberingTypeOK
    <3>6. snapshot'[Known' + 1] # 0
      BY <1>7, <3>1, <3>2, <3>3, <3>5
    <3>7. journal'[Newest'].num <= Known'
      BY <1>8, <1>12, <3>2, <3>4
    <3> QED
      BY <1>3, <1>11, <2>2, <3>6, <3>7 DEF FilesInv
  <2> QED
    BY <2>3, <2>4
<1>25. OkInv'
  BY <1>4 DEF OkInv
<1> QED
  BY <1>9, <1>18, <1>19, <1>21, <1>24, <1>25 DEF NumberingInv

(* The entries stay as they are until the journal is written.              *)
LEMMA SameJournal ==
  ASSUME NumberingInv, journal' = journal
  PROVE  NumbersInv' /\ RoomInv' /\ Known' = Known /\ Newest' = Newest /\ TargetIndex' = TargetIndex
<1>1. Newest' = Newest /\ Known' = Known /\ TargetIndex' = TargetIndex
  BY DEF Newest, Known, TargetIndex
<1> QED
  BY <1>1 DEF NumberingInv, NumbersInv, RoomInv

LEMMA RenameSnapshotKeeps ==
  ASSUME NumberingInv, RenameSnapshot
  PROVE  NumberingInv'
<1> DEFINE T == Known + 1
           old == journal[Newest].num
<1>1. JournalFacts
  BY JournalIs DEF NumberingInv
<1>2. NumberingTypeOK /\ NumbersInv /\ RoomInv /\ UnusedInv /\ FilesInv
  BY DEF NumberingInv
<1>3. /\ journal' = journal /\ sql' = sql /\ stage = "plan" /\ stage' = "sql"
      /\ NumbersInv' /\ RoomInv' /\ Known' = Known /\ Newest' = Newest
  BY SameJournal DEF RenameSnapshot
<1>4. /\ T \in 0..MaxNumber /\ old \in 0..MaxNumber /\ old < T /\ snapshot[T] = 0
      /\ Newest \in 1..MaxEntries /\ journal[Newest].idx = old
  BY <1>1, <1>2, SMTT(30) DEF RenameSnapshot, MayRename, JournalFacts, RoomInv, NumbersInv
<1>5. \A m \in 1..Newest : Own(m)
  BY <1>1, <1>2, <1>3, <1>4 DEF FilesInv, JournalFacts
<1>6. /\ sql \in [Tags -> 0..MaxEntries] /\ snapshot \in [0..MaxNumber -> 0..MaxEntries]
      /\ snapshot[old] = Newest
  BY <1>1, <1>2, <1>5 DEF NumberingTypeOK, Own, JournalFacts
<1>7. snapshot' = [snapshot EXCEPT ![old] = 0, ![T] = Newest]
  <2>1. PICK source \in Candidates : snapshot' = [snapshot EXCEPT ![source] = 0, ![TargetIndex] = snapshot[source]]
    BY DEF RenameSnapshot
  <2>2. source = old
    BY <1>4 DEF Candidates
  <2> QED
    BY <1>1, <1>6, <2>1, <2>2 DEF JournalFacts
<1> HIDE DEF T, old
<1>8. /\ snapshot' \in [0..MaxNumber -> 0..MaxEntries] /\ snapshot'[T] = Newest /\ snapshot'[old] = 0
      /\ \A n \in 0..MaxNumber : n # T /\ n # old => snapshot'[n] = snapshot[n]
  BY <1>4, <1>6, <1>7
<1>9. NumberingTypeOK'
  BY <1>2, <1>3, <1>8 DEF NumberingTypeOK, RenameSnapshot
<1>10. \A n \in 0..MaxNumber : n # T /\ Unused(n) => Unused(n)'
  BY <1>3, <1>8 DEF Unused
<1>11. \A m \in 1..(Newest - 1) : Own(m)' /\ journal[m].num \in 0..MaxNumber /\ m \in 1..Newest
  <2> TAKE m \in 1..(Newest - 1)
  <2>1. journal[m].num \in 0..MaxNumber /\ journal[m].num <= Known /\ Known \in Int /\ m \in 1..Newest /\ m # Newest
    BY <1>1 DEF JournalFacts
  <2>2. journal[m].num # old
    BY <1>1, <1>2, <2>1, SMTT(30) DEF NumbersInv, JournalFacts, old
  <2>3. journal[m].num # T
    BY <2>1 DEF T
  <2>4. snapshot'[journal[m].num] = m /\ sql'[Tag(journal[m])] = m
    BY <1>3, <1>5, <1>8, <2>1, <2>2, <2>3 DEF Own
  <2> QED
    BY <1>3, <2>1, <2>4 DEF Own
<1>12. UnusedInv'
  <2>1. ASSUME NEW k \in 1..(MaxEntries - Newest) PROVE \A n : n = journal[Newest].idx + k => Unused(n)'
    <3>1. Unused(journal[Newest].idx + k) /\ Known + 1 > journal[Newest].idx + (MaxEntries - Newest)
      BY <1>1, <1>2, <1>4 DEF UnusedInv, T, old, JournalFacts
    <3>2. journal[Newest].idx + k \in 0..MaxNumber /\ journal[Newest].idx + k # T
      BY <1>1, <1>4, <3>1 DEF T, JournalFacts
    <3> QED
      BY <1>10, <3>1, <3>2
  <2>2. \A k \in 1..(MaxEntries - Newest) : Unused(journal[Newest].idx + k)'
    <3>1. \A k \in 1..(MaxEntries - Newest) : \A n : n = journal[Newest].idx + k => Unused(n)'
      BY <2>1
    <3> QED
      BY <1>3, <3>1 DEF Unused
  <2>3. ASSUME NEW n \in 0..MaxNumber PROVE Unused(n)' \/ n <= Known + 1 \/ n = journal[Newest].num
    BY <1>1, <1>2, <1>10 DEF UnusedInv, T, JournalFacts
  <2> QED
    BY <1>2, <1>3, <2>2, <2>3 DEF UnusedInv
<1>13. FilesInv'
  <2>1. \A m \in 1..Newest : Has(m)'
    <3> TAKE m \in 1..Newest
    <3>1. CASE m = Newest
      BY <1>2, <1>1, <1>3, <1>4, <1>8, <3>1 DEF FilesInv, Has, JournalFacts
    <3>2. CASE m # Newest
      <4>1. m \in 1..(Newest - 1)
        BY <1>4, <3>2
      <4>2. Own(m)' /\ journal[m].num \in 0..MaxNumber /\ Tag(journal[m]) \in Tags
        BY <1>1, <1>11, <4>1 DEF JournalFacts
      <4> QED
        BY <1>3, <4>2 DEF Own, Has
    <3> QED
      BY <3>1, <3>2
  <2>2. \A m \in DOMAIN journal : m < Newest => m \in 1..(Newest - 1)
    BY <1>1 DEF JournalFacts
  <2>3. journal[Newest].num <= Known /\ snapshot'[Known + 1] = Newest
    BY <1>1, <1>4, <1>8 DEF T, old, JournalFacts
  <2>4. sql[Tag(journal[Newest])] = Newest
    BY <1>4, <1>5 DEF Own
  <2>5. DOMAIN journal = 1..Newest
    BY <1>1 DEF JournalFacts
  <2> QED
    BY <1>3, <1>11, <2>1, <2>2, <2>3, <2>4, <2>5 DEF FilesInv
<1>14. OkInv'
  BY <1>3 DEF OkInv
<1> QED
  BY <1>3, <1>9, <1>12, <1>13, <1>14 DEF NumberingInv

LEMMA RenameSqlKeeps ==
  ASSUME NumberingInv, RenameSql
  PROVE  NumberingInv'
<1> DEFINE T == Known + 1
           tag == Tag(journal[Newest])
<1>1. JournalFacts
  BY JournalIs DEF NumberingInv
<1>2. NumberingTypeOK /\ NumbersInv /\ RoomInv /\ UnusedInv /\ FilesInv
  BY DEF NumberingInv
<1>3. /\ journal' = journal /\ snapshot' = snapshot /\ stage = "sql" /\ stage' = "journal"
      /\ NumbersInv' /\ RoomInv' /\ Known' = Known /\ Newest' = Newest /\ TargetIndex' = TargetIndex
  BY SameJournal DEF RenameSql
<1>4. /\ T \in 0..MaxNumber /\ TargetIndex = T /\ journal[Newest].num < T
      /\ Newest \in 1..MaxEntries /\ Newest \in DOMAIN journal
  BY <1>1, <1>2, <1>3 DEF JournalFacts, RoomInv, FilesInv
<1>5. /\ Target \in Tags /\ tag \in Tags /\ Target.num = T /\ tag.num = journal[Newest].num /\ Target # tag
  BY <1>1, <1>4 DEF Target, Tags, Tag, JournalFacts
<1>6. /\ sql' = [sql EXCEPT ![tag] = 0, ![Target] = Newest]
      /\ sql \in [Tags -> 0..MaxEntries]
  BY <1>2, <1>3 DEF RenameSql, FilesInv, NumberingTypeOK
<1>7. Target' = Target
  BY <1>3 DEF Target
<1> HIDE DEF T, tag
<1>8. /\ sql' \in [Tags -> 0..MaxEntries] /\ sql'[Target] = Newest /\ sql'[tag] = 0
      /\ \A t \in Tags : t # Target /\ t # tag => sql'[t] = sql[t]
  <2>1. Newest \in 0..MaxEntries /\ 0 \in 0..MaxEntries
    BY <1>1, <1>4 DEF JournalFacts
  <2>2. DOMAIN sql = Tags /\ \A t \in Tags : sql[t] \in 0..MaxEntries
    BY <1>6
  <2>3. sql' = [t \in Tags |-> IF t = Target THEN Newest ELSE IF t = tag THEN 0 ELSE sql[t]]
    BY <1>5, <1>6, <2>2
  <2> QED
    BY <1>5, <2>1, <2>2, <2>3
<1>9. NumberingTypeOK'
  BY <1>2, <1>3, <1>8 DEF NumberingTypeOK, RenameSql
<1>10. ASSUME NEW n \in 0..MaxNumber, n # T, Unused(n) PROVE Unused(n)'
  <2>1. ASSUME NEW name \in Names PROVE sql'[[num |-> n, name |-> name]] = 0
    <3> DEFINE t == [num |-> n, name |-> name]
    <3>1. t \in Tags /\ t.num = n /\ sql[t] = 0
      BY <1>10 DEF Tags, Unused
    <3>2. t # Target
      BY <1>5, <1>10, <3>1
    <3> HIDE DEF t
    <3>3. sql'[t] = 0
      BY <1>8, <3>1, <3>2
    <3> QED
      BY <3>3 DEF t
  <2> QED
    BY <1>3, <1>10, <2>1 DEF Unused
<1>11. \A m \in 1..(Newest - 1) : Own(m)' /\ journal[m].num \in 0..MaxNumber /\ Tag(journal[m]) \in Tags
  <2> TAKE m \in 1..(Newest - 1)
  <2>1. /\ journal[m].num \in 0..MaxNumber /\ journal[m].num <= Known /\ Known \in Int
        /\ m \in 1..Newest /\ m # Newest /\ m < Newest /\ Tag(journal[m]) \in Tags
    BY <1>1 DEF JournalFacts
  <2>2. journal[m].num # journal[Newest].num
    BY <1>1, <1>2, <1>4, <2>1 DEF NumbersInv, JournalFacts
  <2>3. Tag(journal[m]) # tag /\ Tag(journal[m]) # Target
    <3>1. Tag(journal[m]).num = journal[m].num /\ journal[m].num # T
      BY <2>1 DEF Tag, T
    <3> QED
      BY <1>5, <2>2, <3>1
  <2>4. Own(m)
    BY <1>1, <1>2, <1>3, <2>1 DEF FilesInv, JournalFacts
  <2> QED
    BY <1>3, <1>8, <2>1, <2>3, <2>4 DEF Own
<1>12. UnusedInv'
  <2>1. ASSUME NEW k \in 1..(MaxEntries - Newest) PROVE \A n : n = journal[Newest].idx + k => Unused(n)'
    <3>1. Unused(journal[Newest].idx + k) /\ Known + 1 > journal[Newest].idx + (MaxEntries - Newest)
      BY <1>1, <1>2, <1>3 DEF UnusedInv, FilesInv, JournalFacts
    <3>2. journal[Newest].idx + k \in 0..MaxNumber /\ journal[Newest].idx + k # T
      BY <1>1, <1>4, <3>1, SMTT(30) DEF T, JournalFacts
    <3> QED
      BY <1>10, <3>1, <3>2
  <2>2. \A k \in 1..(MaxEntries - Newest) : Unused(journal[Newest].idx + k)'
    <3>1. \A k \in 1..(MaxEntries - Newest) : \A n : n = journal[Newest].idx + k => Unused(n)'
      BY <2>1
    <3> QED
      BY <1>3, <3>1 DEF Unused
  <2>3. ASSUME NEW n \in 0..MaxNumber PROVE Unused(n)' \/ n <= Known + 1 \/ n = journal[Newest].num
    BY <1>1, <1>2, <1>10 DEF UnusedInv, T, JournalFacts
  <2> QED
    BY <1>2, <1>3, <2>2, <2>3 DEF UnusedInv
<1>13. FilesInv'
  <2>0. snapshot[Known + 1] = Newest /\ journal[Newest].num <= Known
    BY <1>2, <1>3 DEF FilesInv
  <2>1. \A m \in 1..Newest : Has(m)'
    <3> TAKE m \in 1..Newest
    <3>1. CASE m = Newest
      BY <1>3, <1>4, <1>5, <1>8, <2>0, <3>1 DEF Has, T
    <3>2. CASE m # Newest
      <4>1. m \in 1..(Newest - 1)
        BY <1>4, <3>2
      <4>2. Own(m)' /\ journal[m].num \in 0..MaxNumber /\ Tag(journal[m]) \in Tags
        BY <1>11, <4>1
      <4> QED
        BY <1>3, <4>2 DEF Own, Has
    <3> QED
      BY <3>1, <3>2
  <2>2. \A m \in DOMAIN journal : m < Newest => m \in 1..(Newest - 1)
    BY <1>1 DEF JournalFacts
  <2>3. DOMAIN journal = 1..Newest
    BY <1>1 DEF JournalFacts
  <2> QED
    BY <1>3, <1>7, <1>8, <1>11, <2>0, <2>1, <2>2, <2>3 DEF FilesInv
<1>14. OkInv'
  BY <1>3 DEF OkInv
<1> QED
  BY <1>3, <1>9, <1>12, <1>13, <1>14 DEF NumberingInv
LEMMA WriteJournalKeeps ==
  ASSUME NumberingInv, WriteJournal
  PROVE  NumberingInv'
<1> DEFINE T == Known + 1
           e == [idx |-> T, num |-> T, name |-> journal[Newest].name]
<1>1. JournalFacts
  BY JournalIs DEF NumberingInv
<1>2. NumberingTypeOK /\ NumbersInv /\ RoomInv /\ UnusedInv /\ FilesInv
  BY DEF NumberingInv
<1>3. stage = "journal" /\ stage' = "idle" /\ sql' = sql /\ snapshot' = snapshot
  BY DEF WriteJournal
<1>4. /\ TargetIndex = T /\ T \in 0..MaxNumber /\ journal[Newest].num < T
      /\ Newest \in 1..MaxEntries /\ journal \in Seq(Entry) /\ Newest = Len(journal)
  <2>1. Newest \in 1..MaxEntries /\ journal \in Seq(Entry) /\ Newest = Len(journal)
    BY <1>1, <1>2 DEF JournalFacts, NumberingTypeOK, Newest
  <2>2. journal[Newest].num <= Known /\ journal[Newest].num \in Int
    BY <1>1, <1>2, <1>3, <2>1 DEF JournalFacts, FilesInv
  <2> QED
    BY <1>1, <1>2, <2>1, <2>2 DEF JournalFacts, RoomInv
<1>5. journal' = [journal EXCEPT ![Newest] = e] /\ e \in Entry
  <2>1. journal[Newest] \in Entry /\ journal[Newest].name \in Names
    BY <1>1 DEF JournalFacts
  <2> QED
    BY <1>4, <2>1 DEF WriteJournal, Entry
<1>6. e.idx = T /\ e.num = T /\ Tag(e) = Target
  BY <1>4 DEF Tag, Target
<1> HIDE DEF e
<1>7. /\ journal' \in Seq(Entry) /\ Newest' = Newest /\ journal'[Newest] = e
      /\ \A m \in 1..(Newest - 1) : journal'[m] = journal[m] /\ m \in 1..Newest /\ m # Newest
  BY <1>4, <1>5, ExceptSeq DEF Newest
<1>8. NumberingTypeOK'
  BY <1>2, <1>3, <1>4, <1>7 DEF NumberingTypeOK, WriteJournal, Newest
<1>9. JournalFacts'
  <2>1. JournalFacts' \/ ~NumberingTypeOK'
    BY JournalIs, PTL
  <2> QED
    BY <1>8, <2>1
<1>10. Known' = Known /\ Known \in Int
  <2>1. /\ Known' \in Int /\ Known' >= -1
        /\ \A m \in 1..(Newest - 1) : journal[m].idx <= Known' /\ journal[m].num <= Known'
        /\ Known' = -1 \/ \E m \in 1..(Newest - 1) : Known' \in {journal[m].idx, journal[m].num}
    BY <1>7, <1>9 DEF JournalFacts
  <2>2. /\ Known \in Int /\ Known >= -1
        /\ \A m \in 1..(Newest - 1) : journal[m].idx <= Known /\ journal[m].num <= Known
        /\ Known = -1 \/ \E m \in 1..(Newest - 1) : Known \in {journal[m].idx, journal[m].num}
    BY <1>1 DEF JournalFacts
  <2> DEFINE known == Known'
  <2>3. known <= Known /\ Known <= known
    BY <2>1, <2>2
  <2>4. known \in Int
    BY <2>1
  <2> HIDE DEF known
  <2>5. known = Known
    BY <2>2, <2>3, <2>4
  <2> QED
    BY <2>2, <2>5 DEF known
<1>11. DOMAIN journal = 1..Newest /\ DOMAIN journal' = 1..Newest /\ Newest \in Nat \ {0} /\ MaxEntries \in Nat /\ MaxNumber \in Nat
  BY <1>1, <1>7, <1>9 DEF JournalFacts
<1>12. /\ \A m \in 1..Newest : m \in 1..(Newest - 1) \/ m = Newest
       /\ \A m \in 1..(Newest - 1) : /\ journal[m].num \in 0..MaxNumber /\ journal[m].idx \in 0..MaxNumber
                                      /\ journal[m].num <= Known /\ journal[m].num < T
  <2>1. \A m \in 1..(Newest - 1) : m \in 1..Newest
    BY <1>7
  <2> QED
    BY <1>1, <1>10, <1>11, <2>1 DEF JournalFacts
<1>13. Newest \in 1..Newest /\ T > Known /\ T \in Int
  BY <1>10, <1>11
<1>14. /\ \A k \in 1..(MaxEntries - Newest) : Unused(journal[Newest].idx + k) /\ T + k # T
       /\ T > journal[Newest].idx + (MaxEntries - Newest)
       /\ \A n \in 0..MaxNumber : Unused(n) \/ n <= T \/ n = journal[Newest].num
       /\ T + (MaxEntries - Newest) <= MaxNumber
       /\ snapshot[T] = Newest /\ sql[Target] = Newest
       /\ \A m \in 1..(Newest - 1) : Own(m)
       /\ \A m \in 1..Newest : Has(m)
  <2>1. journal[Newest].num <= Known /\ snapshot[T] = Newest /\ sql[Target] = Newest
    BY <1>2, <1>3 DEF FilesInv
  <2>2. \A m \in 1..(Newest - 1) : Own(m)
    <3>1. \A m \in 1..(Newest - 1) : m \in DOMAIN journal /\ m < Newest
      BY <1>11
    <3> QED
      BY <1>2, <1>3, <3>1 DEF FilesInv
  <2>3. \A m \in 1..Newest : Has(m)
    BY <1>2, <1>11 DEF FilesInv
  <2>4. T > journal[Newest].idx + (MaxEntries - Newest)
    BY <1>2, <2>1 DEF UnusedInv
  <2>5. \A k \in 1..(MaxEntries - Newest) : Unused(journal[Newest].idx + k)
    BY <1>2 DEF UnusedInv
  <2>6. \A n \in 0..MaxNumber : Unused(n) \/ n <= T \/ n = journal[Newest].num
    BY <1>2 DEF UnusedInv
  <2>7. T + (MaxEntries - Newest) <= MaxNumber
    BY <1>2 DEF RoomInv
  <2>8. \A k \in 1..(MaxEntries - Newest) : T + k # T
    BY <1>11, <1>13
  <2> QED
    BY <2>1, <2>2, <2>3, <2>4, <2>5, <2>6, <2>7, <2>8
<1> HIDE DEF T
<1>15. NumbersInv'
  <2>1. \A m \in 1..Newest : journal'[m].idx <= journal'[m].num
    <3> TAKE m \in 1..Newest
    <3>1. CASE m = Newest
      BY <1>6, <1>7, <1>13, <3>1
    <3>2. CASE m # Newest
      BY <1>2, <1>7, <1>11, <1>12, <3>2 DEF NumbersInv
    <3> QED
      BY <3>1, <3>2
  <2>2. ASSUME NEW m \in 1..Newest, NEW n \in 1..Newest, journal'[m].num = journal'[n].num PROVE m = n
    <3>1. CASE m = Newest /\ n # Newest
      BY <1>6, <1>7, <1>12, <1>13, <2>2, <3>1
    <3>2. CASE m # Newest /\ n = Newest
      BY <1>6, <1>7, <1>12, <1>13, <2>2, <3>2
    <3>3. CASE m # Newest /\ n # Newest
      BY <1>2, <1>7, <1>11, <1>12, <2>2, <3>3 DEF NumbersInv
    <3> QED
      BY <3>1, <3>2, <3>3
  <2>3. ~(journal'[Newest].num <= Known)
    BY <1>6, <1>7, <1>10, <1>13
  <2> QED
    BY <1>7, <1>10, <1>11, <2>1, <2>2, <2>3 DEF NumbersInv
<1>16. RoomInv'
  <2>1. ASSUME NEW m \in 1..Newest, NEW k \in 1..(MaxEntries - Newest)
        PROVE  journal'[m].num # T + k
    <3>1. k \in Nat \ {0}
      BY <1>11
    <3>2. CASE m = Newest
      BY <1>6, <1>7, <1>14, <3>2
    <3>3. CASE m # Newest
      BY <1>7, <1>12, <1>13, <3>1, <3>3
    <3> QED
      BY <3>2, <3>3
  <2>2. journal'[Newest].num + (MaxEntries - Newest) <= MaxNumber
    BY <1>6, <1>7, <1>14
  <2>3. Known + 1 + (MaxEntries - Newest) <= MaxNumber
    BY <1>2 DEF RoomInv
  <2>4. journal'[Newest].idx = T
    BY <1>6, <1>7
  <2> QED
    BY <1>7, <1>10, <1>11, <2>1, <2>2, <2>3, <2>4 DEF RoomInv
<1>17. \A n : Unused(n)' <=> Unused(n)
  BY <1>3 DEF Unused
<1>18. UnusedInv'
  <2>1. ASSUME NEW k \in 1..(MaxEntries - Newest) PROVE Unused(T + k)
    <3>1. k \in Nat \ {0} /\ T + k \in 0..MaxNumber
      BY <1>4, <1>11, <1>14
    <3>2. T + k # journal[Newest].num /\ ~(T + k <= T)
      <4>1. journal[Newest].num \in Int
        BY <1>1, <1>13 DEF JournalFacts
      <4> QED
        BY <1>4, <1>13, <3>1, <4>1
    <3> QED
      BY <1>14, <3>1, <3>2
  <2>2. ASSUME NEW n \in 0..MaxNumber PROVE Unused(n) \/ n <= Known + 1 \/ n = T
    <3>1. journal[Newest].num \in Int /\ journal[Newest].num < T
      BY <1>1, <1>4, <1>13 DEF JournalFacts
    <3>2. T = Known + 1
      BY DEF T
    <3> QED
      BY <1>13, <1>14, <3>1, <3>2
  <2>3. ~(journal'[Newest].num <= Known)
    BY <1>6, <1>7, <1>10, <1>13
  <2>4. journal'[Newest].idx = T /\ journal'[Newest].num = T
    BY <1>6, <1>7
  <2>5. \A k \in 1..(MaxEntries - Newest) : \A n : n = T + k => Unused(n)'
    BY <1>17, <2>1
  <2>6. \A k \in 1..(MaxEntries - Newest') : Unused(journal[Newest].idx + k)'
    BY <1>7, <2>4, <2>5 DEF Unused
  <2>7. \A n \in 0..MaxNumber : Unused(n)' \/ n <= Known + 1 \/ n = T
    BY <1>17, <2>2
  <2> QED
    BY <1>7, <1>10, <2>3, <2>4, <2>6, <2>7 DEF UnusedInv
<1>19. \A m \in 1..Newest : Own(m)' /\ Has(m)'
  <2> TAKE m \in 1..Newest
  <2>1. Has(m)'
    BY <1>3, <1>14 DEF Has
  <2>2. CASE m = Newest
    <3>1. sql'[Tag(journal'[m])] = m /\ snapshot'[journal'[m].num] = m
      BY <1>3, <1>6, <1>7, <1>14, <2>2
    <3> QED
      BY <2>1, <3>1 DEF Own
  <2>3. CASE m # Newest
    <3>1. journal'[m] = journal[m] /\ Own(m)
      BY <1>7, <1>12, <1>14, <2>3
    <3> QED
      BY <1>3, <2>1, <3>1 DEF Own
  <2> QED
    BY <2>2, <2>3
<1>20. FilesInv'
  BY <1>3, <1>7, <1>11, <1>19 DEF FilesInv
<1>21. OkInv'
  <2>1. \A m \in 1..Newest : m < Newest => journal'[m].num < journal'[Newest].num
    BY <1>6, <1>7, <1>11, <1>12
  <2> QED
    BY <1>7, <1>11, <1>19, <2>1 DEF OkInv
<1> QED
  BY <1>8, <1>15, <1>16, <1>18, <1>20, <1>21 DEF NumberingInv

LEMMA NumberingNextInv == NumberingInv /\ [NumberingNext]_numberingVars => NumberingInv'
<1> SUFFICES ASSUME NumberingInv, [NumberingNext]_numberingVars PROVE NumberingInv'
  OBVIOUS
<1>1. CASE AddMigration
  BY <1>1, GenerateKeeps
<1>2. CASE RunScript
  <2>1. UNCHANGED <<journal, sql, snapshot>>
    BY <1>2 DEF RunScript
  <2> QED
    BY <1>2, <2>1, WaitingKeeps
<1>3. CASE Unchanged
  <2>1. UNCHANGED <<journal, sql, snapshot>>
    BY <1>3 DEF Unchanged
  <2> QED
    BY <1>3, <2>1, WaitingKeeps
<1>4. CASE Refuse
  <2>1. UNCHANGED <<journal, sql, snapshot>>
    BY <1>4 DEF Refuse
  <2> QED
    BY <1>4, <2>1, WaitingKeeps
<1>5. CASE RenameSnapshot
  BY <1>5, RenameSnapshotKeeps
<1>6. CASE RenameSql
  BY <1>6, RenameSqlKeeps
<1>7. CASE WriteJournal
  BY <1>7, WriteJournalKeeps
<1>8. CASE Killed
  <2>1. UNCHANGED <<journal, sql, snapshot>>
    BY <1>8 DEF Killed
  <2> QED
    BY <1>8, <2>1, WaitingKeeps
<1>9. CASE UNCHANGED numberingVars
  <2>1. UNCHANGED <<journal, sql, snapshot>>
    BY <1>9 DEF numberingVars
  <2> QED
    BY <1>9, <2>1, WaitingKeeps
<1> QED
  BY <1>1, <1>2, <1>3, <1>4, <1>5, <1>6, <1>7, <1>8, <1>9 DEF NumberingNext

(* The types of the journal, of the directory and of the script's own      *)
(* state hold whatever is run, killed or left out.                         *)
THEOREM NumberingTypeCorrect == NumberingSpec => []NumberingTypeOK
<1>1. NumberingInv => NumberingTypeOK
  BY DEF NumberingInv
<1> QED
  BY <1>1, NumberingInitInv, NumberingNextInv, PTL DEF NumberingSpec

(* scripts/rename-drizzle-migration.ts: however many runs were killed      *)
(* between two of their writes, repeated or left out, every migration of   *)
(* the journal has an SQL file and a snapshot of its own, and a run that   *)
(* reports success leaves the newest number above all others and each      *)
(* entry with the files of its own number.                                 *)
THEOREM MigrationFilesKept == NumberingSpec => []MigrationsKeepFiles
BY InvKeepsFiles, NumberingInitInv, NumberingNextInv, PTL DEF NumberingSpec
=============================================================================
