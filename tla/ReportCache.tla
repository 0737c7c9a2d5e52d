----------------------------- MODULE ReportCache -----------------------------
(***************************************************************************)
(* The cache of the reports of one workspace.  Every report is stored in   *)
(* Redis under a key that holds the generation the request read first, and *)
(* every write bumps the generation after its commit.  Redis may lose the  *)
(* counter, drop any key or not answer: then nothing fails, a report is    *)
(* just not cached or a bump is lost.                                      *)
(***************************************************************************)
EXTENDS Integers

CONSTANTS Writers, Readers,
          MaxVersion,  (* bound: commits                                   *)
          MaxClock,    (* bound: milliseconds                              *)
          MaxGen,      (* bound: the last generation                       *)
          Faults       (* Redis may fail to answer                         *)

ASSUME CacheAssumption ==
  /\ MaxVersion \in Nat /\ MaxClock \in Nat \ {0}
  /\ MaxGen \in Nat /\ MaxGen >= MaxClock
  /\ Faults \in BOOLEAN

Null == 0
Gens == 1..MaxGen
Versions == 0..MaxVersion
Nothing == [seen |-> -1, ttl |-> FALSE]
Entries == [seen : Versions, ttl : BOOLEAN] \cup {Nothing}

VARIABLES
  version,    (* commits so far: the state of the database                 *)
  announced,  (* history: the latest commit whose bump has succeeded       *)
  clock,      (* Date.now()                                                *)
  counter,    (* cache-gen:report:<workspace>, or Null                     *)
  cached      (* by generation: the oldest state a query of the report saw *)

VARIABLES
  wpc, mine,             (* of each writer                                 *)
  rpc, gen, floor, seen  (* of each reader                                 *)

database == <<version, announced>>
redis    == <<counter, cached>>
writers  == <<wpc, mine>>
readers  == <<rpc, gen, floor, seen>>
vars     == <<database, clock, redis, writers, readers>>

TypeOK ==
  /\ version \in Versions /\ announced \in Versions
  /\ clock \in 1..MaxClock
  /\ counter \in Gens \cup {Null}
  /\ cached \in [Gens -> Entries]
  /\ wpc \in [Writers -> {"idle", "bump"}]
  /\ mine \in [Writers -> Versions]
  /\ rpc \in [Readers -> {"idle", "lookup", "query", "store", "reply"}]
  /\ gen \in [Readers -> Gens \cup {Null}]
  /\ floor \in [Readers -> Versions]
  /\ seen \in [Readers -> Versions]

Init ==
  /\ version = 0 /\ announced = 0
  /\ clock = 1
  /\ counter = Null
  /\ cached = [g \in Gens |-> Nothing]
  /\ wpc   = [w \in Writers |-> "idle"]
  /\ mine  = [w \in Writers |-> 0]
  /\ rpc   = [r \in Readers |-> "idle"]
  /\ gen   = [r \in Readers |-> Null]
  /\ floor = [r \in Readers |-> 0]
  /\ seen  = [r \in Readers |-> 0]

-----------------------------------------------------------------------------
(* The world.                                                              *)

Tick ==
  /\ clock < MaxClock /\ clock' = clock + 1
  /\ UNCHANGED <<database, redis, writers, readers>>

(* The counter is evicted.  It grows by one a write and started as a time: *)
(* unless a workspace is written every millisecond, the clock is past it.  *)
Evict ==
  /\ counter # Null /\ counter < clock
  /\ counter' = Null
  /\ UNCHANGED <<database, clock, cached, writers, readers>>

(* A report is evicted, or its TTL has run out.                            *)
Expire(g) ==
  /\ cached[g].ttl
  /\ cached' = [cached EXCEPT ![g] = Nothing]
  /\ UNCHANGED <<database, clock, counter, writers, readers>>

-----------------------------------------------------------------------------
(* Mutant: a lost counter starts anew from one.                            *)
GenerationFromOne == IF counter = Null THEN 1 ELSE counter

(* SET NX of the current time, in one transaction with the GET or the INCR.*)
Generation == IF counter = Null THEN clock ELSE counter

(* A write: its transaction commits ...                                    *)
Commit(w) ==
  /\ wpc[w] = "idle" /\ version < MaxVersion
  /\ version' = version + 1
  /\ mine' = [mine EXCEPT ![w] = version + 1]
  /\ wpc' = [wpc EXCEPT ![w] = "bump"]
  /\ UNCHANGED <<announced, clock, redis, readers>>

(* The transaction commits, but its answer is lost: the handler ends with  *)
(* an error and bumps nothing.                                             *)
CommitUnanswered(w) ==
  /\ wpc[w] = "idle" /\ version < MaxVersion
  /\ version' = version + 1
  /\ UNCHANGED <<announced, clock, redis, writers, readers>>

(* ... and bumpReportGeneration.                                           *)
Bump(w) ==
  /\ wpc[w] = "bump" /\ Generation < MaxGen
  /\ counter' = Generation + 1
  /\ announced' = IF mine[w] > announced THEN mine[w] ELSE announced
  /\ wpc' = [wpc EXCEPT ![w] = "idle"]
  /\ UNCHANGED <<version, clock, cached, mine, readers>>

(* A bump that fails, or a process that dies before it: the write stands.  *)
BumpFails(w) ==
  /\ wpc[w] = "bump" /\ Generation < MaxGen /\ Faults
  /\ counter' \in {counter, Generation + 1}
  /\ wpc' = [wpc EXCEPT ![w] = "idle"]
  /\ UNCHANGED <<database, clock, cached, mine, readers>>

-----------------------------------------------------------------------------
(* A report.                                                               *)

Goto(r, step) == rpc' = [rpc EXCEPT ![r] = step]

(* readReportGeneration comes first.                                       *)
ReadGeneration(r) ==
  /\ rpc[r] = "idle"
  /\ \/ /\ counter' = Generation
        /\ gen' = [gen EXCEPT ![r] = Generation]
        /\ Goto(r, "lookup")
     \/ /\ Faults
        /\ counter' \in {counter, Generation}
        /\ gen' = [gen EXCEPT ![r] = Null]
        /\ Goto(r, "query")
  /\ floor' = [floor EXCEPT ![r] = announced]
  /\ UNCHANGED <<database, clock, cached, writers, seen>>

Lookup(r) ==
  /\ rpc[r] = "lookup"
  /\ \/ /\ cached[gen[r]] # Nothing
        /\ seen' = [seen EXCEPT ![r] = cached[gen[r]].seen]
        /\ Goto(r, "reply")
     \/ /\ cached[gen[r]] = Nothing \/ Faults
        /\ Goto(r, "query") /\ UNCHANGED seen
  /\ UNCHANGED <<database, clock, redis, writers, gen, floor>>

(* The queries of the report are not one snapshot: what counts is the      *)
(* first, for the others see the same state or a later one.                *)
Query(r) ==
  /\ rpc[r] = "query"
  /\ seen' = [seen EXCEPT ![r] = version]
  /\ Goto(r, IF gen[r] = Null THEN "reply" ELSE "store")
  /\ UNCHANGED <<database, clock, redis, writers, gen, floor>>

(* Mutant: the key is built when the report is ready.                      *)
StoreAsCurrent(r) ==
  /\ rpc[r] = "store"
  /\ cached' = [cached EXCEPT ![Generation] = [seen |-> seen[r], ttl |-> TRUE]]
  /\ Goto(r, "reply")
  /\ UNCHANGED <<database, clock, counter, writers, gen, floor, seen>>

(* Mutant: SET without a TTL.                                              *)
StoreForEver(r) ==
  /\ rpc[r] = "store"
  /\ cached' = [cached EXCEPT ![gen[r]] = [seen |-> seen[r], ttl |-> FALSE]]
  /\ Goto(r, "reply")
  /\ UNCHANGED <<database, clock, counter, writers, gen, floor, seen>>

(* SETEX of the report; one that fails is only logged.                     *)
Store(r) ==
  /\ rpc[r] = "store"
  /\ \/ cached' = [cached EXCEPT ![gen[r]] = [seen |-> seen[r], ttl |-> TRUE]]
     \/ Faults /\ UNCHANGED cached
  /\ Goto(r, "reply")
  /\ UNCHANGED <<database, clock, counter, writers, gen, floor, seen>>

Reply(r) ==
  /\ rpc[r] = "reply"
  /\ Goto(r, "idle")
  /\ gen'   = [gen EXCEPT ![r] = Null]
  /\ floor' = [floor EXCEPT ![r] = 0]
  /\ seen'  = [seen EXCEPT ![r] = 0]
  /\ UNCHANGED <<database, clock, redis, writers>>

-----------------------------------------------------------------------------
Answer(r) == Lookup(r) \/ Query(r) \/ Store(r) \/ Reply(r)

Next ==
  \/ Tick \/ Evict
  \/ \E g \in Gens : Expire(g)
  \/ \E w \in Writers : Commit(w) \/ CommitUnanswered(w) \/ Bump(w) \/ BumpFails(w)
  \/ \E r \in Readers : ReadGeneration(r) \/ Answer(r)

Spec == Init /\ [][Next]_vars

(* Requests are finished and TTLs run out.                                 *)
LiveSpec ==
  /\ Spec
  /\ \A g \in Gens : WF_vars(Expire(g))
  /\ \A r \in Readers : WF_vars(Answer(r))

-----------------------------------------------------------------------------
(* A request for a report that begins after a write has answered shows it: *)
(* no report, cached by whomever, is older than the writes announced when  *)
(* the generation was read.  A report stored late, by a request that was   *)
(* overtaken by a write, is never served for the new generation.           *)
FreshAfterWrite ==
  \A r \in Readers : rpc[r] = "reply" => seen[r] >= floor[r]

(* A write whose bump was lost is hidden by old reports for a while only:  *)
(* the TTL removes them, and they are not stored again.                    *)
StaleFades ==
  \A v \in Versions :
    version >= v ~> [](\A g \in Gens : cached[g] = Nothing \/ cached[g].seen >= v)
=============================================================================
