---------------------------- MODULE RefreshTokens ----------------------------
(***************************************************************************)
(* One login session and the chain of refresh tokens it is renewed with.   *)
(* Rotation is deterministic: the successor of a raw token is an HMAC of   *)
(* it, so token n is the n-th of the chain, n + 1 its only possible        *)
(* successor, and a request that lost a race can compute what the winner   *)
(* handed out.  Requests interleave statement by statement; browsers       *)
(* present any token they were ever given, from several tabs, again after  *)
(* a lost answer, and long after.                                          *)
(***************************************************************************)
EXTENDS Integers

CONSTANTS Reqs,      (* refresh requests that can be in flight             *)
          Mortal,    (* those whose process may die, or answer be lost     *)
          Hops,      (* MAX_REFRESH_TOKEN_SUCCESSOR_HOPS                   *)
          MaxTok     (* bound: the last token of the chain                 *)

ASSUME ChainAssumption ==
  MaxTok \in Nat /\ Hops \in Nat \ {0} /\ Mortal \subseteq Reqs

Tokens == 0..MaxTok

VARIABLES
  session,    (* "none" before the login, then "live" or "revoked"         *)
  expiry,     (* expires_at of the session: that of token number expiry    *)
  token,      (* the status of each token, "NONE" while it is not stored   *)
  known,      (* the tokens answers have brought to browsers               *)
  graceEnd,   (* the tokens up to it were rotated over 60 seconds ago      *)
  elapsed,    (* the expires_at of the tokens up to it have passed         *)
  logout      (* has the user ever logged out?                             *)

VARIABLES     (* of each request                                           *)
  pc,         (* the query it is about to make                             *)
  shown,      (* the token presented                                       *)
  seen,       (* the status of that token as loaded                        *)
  loaded,     (* the session as loaded                                     *)
  cand,       (* the successor under inspection, then the token to answer  *)
  late,       (* the requests that came when the session was already revoked  *)
  todo,       (* the halves of a family revocation still to run            *)
  upTo        (* the last token stored when the revocation began           *)

chain    == <<session, expiry, token, known, graceEnd, elapsed, logout>>
locals   == <<pc, shown, seen, loaded, cand, late, todo, upTo>>
vars     == <<chain, locals>>

Status == {"NONE", "ACTIVE", "ROTATED", "REVOKED"}
Stored(n) == token[n] # "NONE"

NotLoaded == [status |-> "none", expiry |-> 0]

ChainTypeOK ==
  /\ session  \in {"none", "live", "revoked"}
  /\ expiry   \in Tokens
  /\ token    \in [Tokens -> Status]
  /\ known    \in SUBSET Tokens
  /\ graceEnd \in -1..MaxTok
  /\ elapsed  \in -1..MaxTok
  /\ logout   \in {"never", "done"}

LocalTypeOK ==
  /\ pc     \in [Reqs -> {"idle", "token", "session", "context", "rotate", "renew",
                          "recover", "find", "headContext", "answer", "revoke"}]
  /\ shown  \in [Reqs -> Tokens]
  /\ seen   \in [Reqs -> Status]
  /\ loaded \in [Reqs -> [status : {"none", "live", "revoked"}, expiry : Tokens]]
  /\ cand   \in [Reqs -> Tokens]
  /\ late   \in SUBSET Reqs
  /\ todo   \in [Reqs -> SUBSET {"tokens", "session"}]
  /\ upTo   \in [Reqs -> Tokens]

TypeOK == ChainTypeOK /\ LocalTypeOK

Init ==
  /\ session = "none" /\ expiry = 0
  /\ token = [n \in Tokens |-> "NONE"]
  /\ known = {} /\ graceEnd = -1 /\ elapsed = -1 /\ logout = "never"
  /\ pc     = [r \in Reqs |-> "idle"]
  /\ shown  = [r \in Reqs |-> 0]
  /\ seen   = [r \in Reqs |-> "NONE"]
  /\ loaded = [r \in Reqs |-> NotLoaded]
  /\ cand   = [r \in Reqs |-> 0]
  /\ late   = {}
  /\ todo   = [r \in Reqs |-> {}]
  /\ upTo   = [r \in Reqs |-> 0]

-----------------------------------------------------------------------------
(* Login, logout, time.                                                    *)

(* IssueAuthSessionService: the session, then its first token.             *)
CreateSession ==
  /\ session = "none"
  /\ session' = "live"
  /\ UNCHANGED <<expiry, token, known, graceEnd, elapsed, logout, locals>>

CreateToken ==
  /\ session = "live" /\ token[0] = "NONE"
  /\ token' = [token EXCEPT ![0] = "ACTIVE"]
  /\ known' = {0}
  /\ UNCHANGED <<session, expiry, graceEnd, elapsed, logout, locals>>

(* LogoutUserService revokes the session of the token it is shown, and     *)
(* leaves the tokens alone.                                                *)
Logout ==
  /\ known # {}
  /\ session' = "revoked" /\ logout' = "done"
  /\ UNCHANGED <<expiry, token, known, graceEnd, elapsed, locals>>

(* Tokens are rotated in order, so their grace ends in order.              *)
GraceEnds ==
  /\ graceEnd < MaxTok
  /\ token[graceEnd + 1] \in {"ROTATED", "REVOKED"}
  /\ graceEnd' = graceEnd + 1
  /\ UNCHANGED <<session, expiry, token, known, elapsed, logout, locals>>

(* A token expires days after it was stored: its predecessor's grace of a  *)
(* minute is over by then.                                                 *)
Expires ==
  /\ elapsed < MaxTok /\ Stored(elapsed + 1)
  /\ elapsed <= graceEnd
  /\ elapsed' = elapsed + 1
  /\ UNCHANGED <<session, expiry, token, known, graceEnd, logout, locals>>

-----------------------------------------------------------------------------
(* RefreshTokenService.                                                    *)

Goto(r, step) == pc' = [pc EXCEPT ![r] = step]

(* What was loaded is not looked at again.                                 *)
Unload(r) ==
  /\ seen'   = [seen EXCEPT ![r] = "NONE"]
  /\ loaded' = [loaded EXCEPT ![r] = NotLoaded]

Done(r) ==
  /\ Goto(r, "idle") /\ Unload(r)
  /\ shown'  = [shown EXCEPT ![r] = 0]
  /\ cand'   = [cand EXCEPT ![r] = 0]
  /\ late'   = late \ {r}
  /\ todo'   = [todo EXCEPT ![r] = {}]
  /\ upTo'   = [upTo EXCEPT ![r] = 0]

Present(r, n) ==
  /\ pc[r] = "idle" /\ n \in known
  /\ Goto(r, "token")
  /\ shown' = [shown EXCEPT ![r] = n]
  /\ late' = IF session = "revoked" THEN late \cup {r} ELSE late
  /\ UNCHANGED <<chain, seen, loaded, cand, todo, upTo>>

LoadToken(r) ==
  /\ pc[r] = "token"
  /\ seen' = [seen EXCEPT ![r] = token[shown[r]]]
  /\ Goto(r, "session")
  /\ UNCHANGED <<chain, shown, loaded, cand, late, todo, upTo>>

LoadSession(r) ==
  /\ pc[r] = "session"
  /\ loaded' = [loaded EXCEPT ![r] = [status |-> session, expiry |-> expiry]]
  /\ Goto(r, IF seen[r] = "ACTIVE" THEN "context" ELSE "recover")
  /\ UNCHANGED <<chain, shown, seen, cand, late, todo, upTo>>

(* Mutant: only the expiry of the session is looked at.                    *)
SessionUnexpired(r) == loaded[r].expiry > elapsed

(* AuthSession.isValid, of the session as it was loaded.                   *)
SessionValid(r) == loaded[r].status # "revoked" /\ loaded[r].expiry > elapsed

(* resolveContext for the presented token; it ends the request when it     *)
(* fails, and also when the user or a default workspace is missing.        *)
CheckContext(r) ==
  /\ pc[r] = "context"
  /\ \/ /\ shown[r] > elapsed /\ SessionValid(r)
        /\ Goto(r, "rotate") /\ Unload(r)
        /\ UNCHANGED <<shown, cand, late, todo, upTo>>
     \/ Done(r)
  /\ UNCHANGED chain

(* Mutant: the UPDATE of rotate does not ask for an ACTIVE token.          *)
RotateAgain(r) ==
  LET n == shown[r] IN
  /\ pc[r] = "rotate" /\ n < MaxTok
  /\ token' = [token EXCEPT ![n] = "ROTATED", ![n + 1] = "ACTIVE"]
  /\ cand' = [cand EXCEPT ![r] = n + 1]
  /\ Goto(r, "renew")
  /\ UNCHANGED <<session, expiry, known, graceEnd, elapsed, logout,
                 shown, seen, loaded, late, todo, upTo>>

(* RefreshTokensRepository.rotate: one database transaction, which only    *)
(* the first of several rotations of a token gets to do.                   *)
Rotate(r) ==
  LET n == shown[r] IN
  /\ pc[r] = "rotate" /\ n < MaxTok
  /\ token[n] = "ACTIVE"
  /\ token' = [token EXCEPT ![n] = "ROTATED", ![n + 1] = "ACTIVE"]
  /\ cand' = [cand EXCEPT ![r] = n + 1]
  /\ Goto(r, "renew")
  /\ UNCHANGED <<session, expiry, known, graceEnd, elapsed, logout,
                 shown, seen, loaded, late, todo, upTo>>

(* recoverAfterLostRace: load again.  The token will not be ACTIVE, for it *)
(* never is again, and LoadSession leads to "recover".                     *)
LoseRace(r) ==
  /\ pc[r] = "rotate" /\ token[shown[r]] # "ACTIVE"
  /\ Goto(r, "token")
  /\ UNCHANGED <<chain, shown, seen, loaded, cand, late, todo, upTo>>

(* AuthSessionsRepository.renew spares a session that was revoked.         *)
Renew(r) ==
  /\ pc[r] = "renew"
  /\ expiry' = IF session = "revoked" THEN expiry ELSE cand[r]
  /\ Goto(r, "answer")
  /\ UNCHANGED <<session, token, known, graceEnd, elapsed, logout,
                 shown, seen, loaded, cand, late, todo, upTo>>

(* revokeFamily begins.                                                    *)
Revoke(r) ==
  /\ Goto(r, "revoke")
  /\ todo' = [todo EXCEPT ![r] = {"tokens", "session"}]
  /\ \E n \in Tokens : /\ Stored(n) /\ \A m \in Tokens : m > n => ~Stored(m)
                       /\ upTo' = [upTo EXCEPT ![r] = n]
  /\ Unload(r)
  /\ cand' = [cand EXCEPT ![r] = 0]
  /\ UNCHANGED <<chain, shown, late>>

(* Mutant: the time since the rotation is not looked at.                   *)
ForgivenForEver(r) == seen[r] = "ROTATED" /\ SessionValid(r)

(* recoverReusedToken: a token that is no longer active is forgiven within *)
(* the grace of its rotation.                                              *)
Forgiven(r) == seen[r] = "ROTATED" /\ shown[r] > graceEnd /\ SessionValid(r)

Recover(r) ==
  /\ pc[r] = "recover"
  /\ \/ ~Forgiven(r) /\ Revoke(r)
     \/ /\ Forgiven(r) /\ shown[r] < MaxTok
        /\ cand' = [cand EXCEPT ![r] = shown[r] + 1]
        /\ Goto(r, "find")
        /\ UNCHANGED <<chain, shown, seen, loaded, late, todo, upTo>>

(* Mutant: the presented token is counted as the first hop.              *)
FindHeadShort(r) ==
  LET n == cand[r] IN
  /\ pc[r] = "find"
  /\ \/ /\ token[n] = "ACTIVE" /\ Goto(r, "headContext")
        /\ UNCHANGED <<chain, shown, seen, loaded, cand, late, todo, upTo>>
     \/ /\ token[n] = "ROTATED" /\ n + 1 < shown[r] + Hops /\ n < MaxTok
        /\ cand' = [cand EXCEPT ![r] = n + 1]
        /\ UNCHANGED <<chain, pc, shown, seen, loaded, late, todo, upTo>>
     \/ /\ token[n] = "ROTATED" => n + 1 >= shown[r] + Hops
        /\ token[n] # "ACTIVE"
        /\ Revoke(r)

(* One round of findHead.                                                  *)
FindHead(r) ==
  LET n == cand[r] IN
  /\ pc[r] = "find"
  /\ \/ /\ token[n] = "ACTIVE" /\ Goto(r, "headContext")
        /\ UNCHANGED <<chain, shown, seen, loaded, cand, late, todo, upTo>>
     \/ /\ token[n] = "ROTATED" /\ n < shown[r] + Hops /\ n < MaxTok
        /\ cand' = [cand EXCEPT ![r] = n + 1]
        /\ UNCHANGED <<chain, pc, shown, seen, loaded, late, todo, upTo>>
     \/ /\ token[n] = "ROTATED" => n = shown[r] + Hops
        /\ token[n] # "ACTIVE"
        /\ Revoke(r)

(* resolveContext for the head.                                            *)
CheckHeadContext(r) ==
  /\ pc[r] = "headContext"
  /\ \/ /\ cand[r] > elapsed /\ SessionValid(r)
        /\ Goto(r, "answer") /\ Unload(r)
        /\ UNCHANGED <<shown, cand, late, todo, upTo>>
     \/ Done(r)
  /\ UNCHANGED chain

Answer(r) ==
  /\ pc[r] = "answer"
  /\ known' = known \cup {cand[r]}
  /\ Done(r)
  /\ UNCHANGED <<session, expiry, token, graceEnd, elapsed, logout>>

(* The two updates of revokeFamily run in parallel.  The one on the tokens *)
(* reaches those stored when its statement began, which is at some time    *)
(* between the start of the revocation and now.                            *)
RevokeTokens(r) ==
  /\ pc[r] = "revoke" /\ "tokens" \in todo[r]
  /\ \E k \in upTo[r]..MaxTok :
       token' = [n \in Tokens |-> IF n <= k /\ Stored(n) THEN "REVOKED" ELSE token[n]]
  /\ todo' = [todo EXCEPT ![r] = @ \ {"tokens"}]
  /\ UNCHANGED <<session, expiry, known, graceEnd, elapsed, logout,
                 pc, shown, seen, loaded, cand, late, upTo>>

(* AuthSessionsRepository.revoke.                                          *)
RevokeSession(r) ==
  /\ pc[r] = "revoke" /\ "session" \in todo[r]
  /\ session' = "revoked"
  /\ todo' = [todo EXCEPT ![r] = @ \ {"session"}]
  /\ UNCHANGED <<expiry, token, known, graceEnd, elapsed, logout,
                 pc, shown, seen, loaded, cand, late, upTo>>

Refuse(r) ==
  /\ pc[r] = "revoke" /\ todo[r] = {}
  /\ Done(r) /\ UNCHANGED chain

(* The request dies, or its answer is lost, after any of its statements.   *)
Lose(r) ==
  /\ r \in Mortal /\ pc[r] # "idle"
  /\ Done(r) /\ UNCHANGED chain

-----------------------------------------------------------------------------
Step(r) ==
  \/ LoadToken(r) \/ LoadSession(r) \/ CheckContext(r)
  \/ Rotate(r) \/ LoseRace(r) \/ Renew(r)
  \/ Recover(r) \/ FindHead(r) \/ CheckHeadContext(r) \/ Answer(r)
  \/ RevokeTokens(r) \/ RevokeSession(r) \/ Refuse(r)

World == CreateSession \/ CreateToken \/ Logout \/ GraceEnds \/ Expires

Next ==
  \/ World
  \/ \E r \in Reqs : (\E n \in Tokens : Present(r, n)) \/ Step(r) \/ Lose(r)

Spec == Init /\ [][Next]_vars

-----------------------------------------------------------------------------
(* The chain never forks and never has a hole: the tokens stored are the   *)
(* first ones, and only the last of them can be active.                    *)
ChainIsLinear ==
  \A m, n \in Tokens : m < n /\ Stored(n) => token[m] \in {"ROTATED", "REVOKED"}

(* Tabs that refresh at the same time, lost answers and retries never sign *)
(* a user out: while no grace and no expiry has run out, nobody logged out *)
(* and the chain is no longer than the hops of findHead, no family is revoked.    *)
Quiet ==
  /\ graceEnd = -1 /\ elapsed = -1 /\ logout = "never"
  /\ \A n \in Tokens : n > Hops => ~Stored(n)

NoFalseAlarm ==
  Quiet => /\ session # "revoked"
           /\ \A n \in Tokens : token[n] # "REVOKED"
           /\ \A r \in Reqs : pc[r] # "revoke"

(* A request that came after the session was revoked, by a logout or by    *)
(* the reuse of an old token, is never answered with tokens, although its  *)
(* own token may have escaped the revocation.                              *)
RevokedStaysOut == \A r \in Reqs : pc[r] \in {"rotate", "renew", "answer"} => r \notin late

-----------------------------------------------------------------------------
(* Every query is answered: a request moves on.                            *)
FairSpec == Spec /\ \A r \in Reqs : WF_vars(Step(r))

(* A token presented after the grace of its rotation ends the session for  *)
(* whoever holds any token of it, whatever other requests do, those that   *)
(* die halfway included, if the request that brought it lives.             *)
ReuseEndsSession ==
  \A r \in Reqs \ Mortal : pc[r] = "token" /\ shown[r] <= graceEnd ~> session = "revoked"
=============================================================================
