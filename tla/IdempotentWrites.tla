-------------------------- MODULE IdempotentWrites --------------------------
(***************************************************************************)
(* One write of a client, sent again and again under one idempotency key,  *)
(* in front of the report cache its commit has to refresh.  The guard lets *)
(* a request in that creates the key in Redis; the interceptor gives the   *)
(* key back when the handler ends in an error, and only then.  The writers *)
(* of ReportCache are the requests that are under way.                     *)
(***************************************************************************)
EXTENDS ReportCache, FiniteSets

CONSTANTS Free,       (* the key is not there                              *)
          Nobody,     (* the key holds a token that no request will present*)
          MaxLapses   (* bound: losses of the protection                   *)

ASSUME KeyAssumption ==
  /\ IsFiniteSet(Writers)
  /\ Free # Nobody /\ {Free, Nobody} \cap Writers = {}
  /\ MaxLapses \in Nat

VARIABLES
  holder,   (* idempotency:<user>:<key>: whose token it holds              *)
  inside,   (* the requests that passed the guard and did not end          *)
  lapses    (* history: how often the key let the next request in although *)
            (* an earlier one was running or had committed                 *)

keyVars == <<holder, inside, lapses>>
idemVars == <<vars, keyVars>>

IdempotentInit == Init /\ holder = Free /\ inside = {} /\ lapses = 0

Leave(w) == inside' = inside \ {w}

-----------------------------------------------------------------------------
(* The guard: SET NX EX, with a token of the request's own.  With the key  *)
(* there the client gets a 409 and nothing changes.                        *)
Admit(w) ==
  /\ w \notin inside /\ holder = Free
  /\ holder' = w
  /\ inside' = inside \cup {w}
  /\ UNCHANGED <<vars, lapses>>

(* Redis does not answer: a 503, though the key may have been set.         *)
AdmitFails(w) ==
  /\ Faults /\ w \notin inside /\ holder = Free
  /\ holder' = Nobody
  /\ UNCHANGED <<vars, inside, lapses>>

(* The TTL of the key runs out, or Redis loses it.                         *)
KeyExpires ==
  /\ holder # Free
  /\ IF holder \in Writers
       THEN lapses < MaxLapses /\ lapses' = lapses + 1
       ELSE UNCHANGED lapses
  /\ holder' = Free
  /\ UNCHANGED <<vars, inside>>

(* The release script deletes the key only if it holds the request's token;*)
(* one that fails leaves a key nobody can give back any more.              *)
Release(w) ==
  IF holder = w THEN holder' = Free \/ (Faults /\ holder' = Nobody)
                ELSE UNCHANGED holder

-----------------------------------------------------------------------------
Running(w) == w \in inside /\ wpc[w] = "idle"

(* The transaction of the handler commits.                                 *)
CommitInside(w) == Running(w) /\ Commit(w) /\ UNCHANGED keyVars

(* The handler answers with an error, and nothing was written.             *)
Reject(w) ==
  /\ Running(w)
  /\ Release(w) /\ Leave(w)
  /\ UNCHANGED <<vars, lapses>>

(* The COMMIT arrives but its answer does not: an error like any other, so *)
(* the key is given back and no report is refreshed.                       *)
CommitInDoubt(w) ==
  /\ Running(w) /\ CommitUnanswered(w)
  /\ lapses < MaxLapses /\ lapses' = lapses + 1
  /\ Release(w) /\ Leave(w)

(* The process dies before it commits, and its key stays.                  *)
DieInside(w) ==
  /\ Running(w)
  /\ holder' = IF holder = w THEN Nobody ELSE holder
  /\ Leave(w)
  /\ UNCHANGED <<vars, lapses>>

(* Mutant: the key is given back however the request ends.                 *)
FinishAndRelease(w) ==
  /\ Bump(w) \/ BumpFails(w)
  /\ Release(w) /\ Leave(w)
  /\ UNCHANGED lapses

(* The request is answered, or dies after its commit: the key stays until  *)
(* its TTL, so that a repetition gets a 409.                               *)
Finish(w) ==
  /\ Bump(w) \/ BumpFails(w)
  /\ Leave(w)
  /\ UNCHANGED <<holder, lapses>>

-----------------------------------------------------------------------------
ExpireReport(g) == Expire(g) /\ UNCHANGED keyVars
AnswerReport(r) == Answer(r) /\ UNCHANGED keyVars
Around ==
  /\ Tick \/ Evict \/ \E r \in Readers : ReadGeneration(r)
  /\ UNCHANGED keyVars

IdempotentNext ==
  \/ KeyExpires
  \/ \E w \in Writers :
       \/ Admit(w) \/ AdmitFails(w)
       \/ CommitInside(w) \/ Reject(w) \/ CommitInDoubt(w) \/ DieInside(w)
       \/ Finish(w)
  \/ \E g \in Gens : ExpireReport(g)
  \/ \E r \in Readers : AnswerReport(r)
  \/ Around

IdempotentSpec == IdempotentInit /\ [][IdempotentNext]_idemVars

(* Requests are finished and TTLs run out.                                 *)
IdempotentLiveSpec ==
  /\ IdempotentSpec
  /\ \A g \in Gens : WF_idemVars(ExpireReport(g))
  /\ \A r \in Readers : WF_idemVars(AnswerReport(r))

-----------------------------------------------------------------------------
KeyTypeOK ==
  /\ TypeOK
  /\ holder \in Writers \cup {Free, Nobody}
  /\ inside \subseteq Writers
  /\ lapses \in 0..MaxLapses

(* However often the client repeats a write under one key, and however its *)
(* requests overlap, fail, die or lose Redis, it is committed once: every  *)
(* further commit needs a key that ran out under a request or after its    *)
(* commit, or a commit whose answer was lost.                              *)
OneCommitAKey == version <= 1 + lapses
=============================================================================
