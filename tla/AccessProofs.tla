---------------------------- MODULE AccessProofs ----------------------------
(***************************************************************************)
(* Proofs about who is let in: the sessions of RefreshTokens and the       *)
(* memberships, invites and plans of Workspaces.                           *)
(***************************************************************************)
EXTENDS RefreshTokens, Workspaces, DataLemmas

-----------------------------------------------------------------------------
(***************************************************************************)
(* Sessions, for any number of requests, any length of the chain and any   *)
(* number of hops.                                                         *)
(***************************************************************************)

USE ChainAssumption

(* A rotation stores the successor, and nothing is ever unstored.          *)
NextIsStored ==
  \A n \in Tokens : token[n] = "ROTATED" => n + 1 \in Tokens /\ Stored(n + 1)

KnownAreStored == \A n \in known : Stored(n)

Spent(n) == token[n] \in {"ROTATED", "REVOKED"}

(* What a request saw of its token is still so, or has become worse.       *)
SeenHolds(r) ==
  pc[r] \in {"session", "recover"} =>
    /\ seen[r] # "NONE"
    /\ pc[r] = "recover" => seen[r] # "ACTIVE"
    /\ seen[r] = "ROTATED" => Spent(shown[r])
    /\ seen[r] = "REVOKED" => token[shown[r]] = "REVOKED"

LoadedHolds(r) ==
  /\ loaded[r].status = "revoked" => session = "revoked"
  /\ r \in late => session = "revoked"
  /\ r \in late /\ pc[r] \in {"context", "recover", "find", "headContext"} =>
       loaded[r].status = "revoked"

CandHolds(r) ==
  /\ pc[r] \in {"renew", "headContext", "answer"} => Stored(cand[r])
  /\ pc[r] = "find" =>
       /\ shown[r] < cand[r] /\ cand[r] <= shown[r] + Hops
       /\ Spent(cand[r] - 1)

LocalInv(r) ==
  /\ pc[r] # "idle" => Stored(shown[r])
  /\ SeenHolds(r) /\ LoadedHolds(r) /\ CandHolds(r)
  /\ pc[r] \in {"rotate", "renew", "answer"} => r \notin late

ChainInv == ChainIsLinear /\ NextIsStored /\ KnownAreStored

IInv == TypeOK /\ ChainInv /\ NoFalseAlarm /\ \A r \in Reqs : LocalInv(r)

-----------------------------------------------------------------------------
LEMMA InitIInv == Init => IInv
<1> SUFFICES ASSUME Init PROVE IInv
  OBVIOUS
<1>1. TypeOK
  BY DEF Init, TypeOK, ChainTypeOK, LocalTypeOK, Tokens, Status, NotLoaded
<1>2. ChainInv
  BY DEF Init, ChainInv, ChainIsLinear, NextIsStored, KnownAreStored, Stored
<1>3. NoFalseAlarm
  BY DEF Init, NoFalseAlarm
<1>4. ASSUME NEW r \in Reqs PROVE LocalInv(r)
  <2>1. pc[r] = "idle" /\ loaded[r].status = "none" /\ r \notin late
    BY DEF Init, NotLoaded
  <2> QED
    BY <2>1 DEF LocalInv, SeenHolds, LoadedHolds, CandHolds
<1> QED
  BY <1>1, <1>2, <1>3, <1>4 DEF IInv

LEMMA ChainTypeStep == TypeOK /\ [Next]_vars => ChainTypeOK'
<1> SUFFICES ASSUME TypeOK, [Next]_vars PROVE ChainTypeOK'
  OBVIOUS
<1>0. shown \in [Reqs -> Tokens] /\ cand \in [Reqs -> Tokens]
  BY DEF TypeOK, LocalTypeOK
<1>4. ChainTypeOK
  BY DEF TypeOK
<1> USE <1>0, <1>4 DEF ChainTypeOK, Status, Tokens
<1>1. CASE World
  <2>1. CASE CreateSession
    BY <2>1 DEF CreateSession
  <2>2. CASE CreateToken
    BY <2>2 DEF CreateToken
  <2>3. CASE Logout
    BY <2>3 DEF Logout
  <2>4. CASE GraceEnds
    BY <2>4 DEF GraceEnds
  <2>5. CASE Expires
    BY <2>5 DEF Expires
  <2> QED
    BY <1>1, <2>1, <2>2, <2>3, <2>4, <2>5 DEF World
<1>2. CASE \E r \in Reqs : (\E n \in Tokens : Present(r, n)) \/ Step(r) \/ Lose(r)
  <2> SUFFICES ASSUME NEW r \in Reqs,
                      (\E n \in Tokens : Present(r, n)) \/ Step(r) \/ Lose(r)
               PROVE  ChainTypeOK'
    BY <1>2
  <2> USE DEF Goto, Done, Unload, NotLoaded, chain
  <2>1. CASE \E n \in Tokens : Present(r, n)
    BY <2>1 DEF Present
  <2>2. CASE LoadToken(r) \/ LoadSession(r)
    BY <2>2 DEF LoadToken, LoadSession
  <2>3. CASE CheckContext(r) \/ CheckHeadContext(r)
    BY <2>3 DEF CheckContext, CheckHeadContext
  <2>4. CASE Rotate(r) \/ LoseRace(r) \/ Renew(r)
    BY <2>4 DEF Rotate, LoseRace, Renew
  <2>5. CASE Recover(r)
    BY <2>5 DEF Recover, Revoke
  <2>6. CASE FindHead(r)
    BY <2>6 DEF FindHead, Revoke
  <2>7. CASE Answer(r) \/ Refuse(r) \/ Lose(r)
    BY <2>7, ZenonT(30) DEF Answer, Refuse, Lose
  <2>8. CASE RevokeTokens(r) \/ RevokeSession(r)
    BY <2>8 DEF RevokeTokens, RevokeSession
  <2> QED
    BY <2>1, <2>2, <2>3, <2>4, <2>5, <2>6, <2>7, <2>8 DEF Step
<1>3. CASE UNCHANGED vars
  BY <1>3 DEF vars, chain, locals
<1> QED
  BY <1>1, <1>2, <1>3 DEF Next

LEMMA UnloadType ==
  ASSUME LocalTypeOK, NEW r \in Reqs, Unload(r)
  PROVE  /\ seen' \in [Reqs -> Status]
         /\ loaded' \in [Reqs -> [status : {"none", "live", "revoked"}, expiry : Tokens]]
<1>1. seen' \in [Reqs -> Status]
  BY DEF LocalTypeOK, Unload, Status
<1>2. NotLoaded \in [status : {"none", "live", "revoked"}, expiry : Tokens]
  BY DEF NotLoaded, Tokens
<1>3. loaded' \in [Reqs -> [status : {"none", "live", "revoked"}, expiry : Tokens]]
  BY <1>2 DEF LocalTypeOK, Unload
<1> QED
  BY <1>1, <1>3

LEMMA DoneType == ASSUME LocalTypeOK, NEW r \in Reqs, Done(r) PROVE LocalTypeOK'
<1> USE DEF LocalTypeOK
<1>1. /\ seen' \in [Reqs -> Status]
      /\ loaded' \in [Reqs -> [status : {"none", "live", "revoked"}, expiry : Tokens]]
  BY UnloadType DEF Done
<1>2. pc' \in [Reqs -> {"idle", "token", "session", "context", "rotate", "renew",
                       "recover", "find", "headContext", "answer", "revoke"}]
  BY DEF Done, Goto
<1>3. shown' \in [Reqs -> Tokens] /\ cand' \in [Reqs -> Tokens] /\ upTo' \in [Reqs -> Tokens]
  BY DEF Done, Tokens
<1>4. late' \in SUBSET Reqs /\ todo' \in [Reqs -> SUBSET {"tokens", "session"}]
  BY DEF Done
<1> QED
  BY <1>1, <1>2, <1>3, <1>4

LEMMA RevokeType == ASSUME LocalTypeOK, NEW r \in Reqs, Revoke(r) PROVE LocalTypeOK'
<1> USE DEF LocalTypeOK
<1>1. /\ seen' \in [Reqs -> Status]
      /\ loaded' \in [Reqs -> [status : {"none", "live", "revoked"}, expiry : Tokens]]
  BY UnloadType DEF Revoke
<1>2. pc' \in [Reqs -> {"idle", "token", "session", "context", "rotate", "renew",
                       "recover", "find", "headContext", "answer", "revoke"}]
  BY DEF Revoke, Goto
<1>3. shown' \in [Reqs -> Tokens] /\ cand' \in [Reqs -> Tokens] /\ upTo' \in [Reqs -> Tokens]
  BY DEF Revoke, Tokens
<1>4. late' \in SUBSET Reqs /\ todo' \in [Reqs -> SUBSET {"tokens", "session"}]
  BY DEF Revoke
<1> QED
  BY <1>1, <1>2, <1>3, <1>4

LEMMA LocalTypeStep == TypeOK /\ [Next]_vars => LocalTypeOK'
<1> SUFFICES ASSUME TypeOK, [Next]_vars PROVE LocalTypeOK'
  OBVIOUS
<1>0. ChainTypeOK /\ LocalTypeOK
  BY DEF TypeOK
<1>1. CASE UNCHANGED locals
  BY <1>0, <1>1 DEF LocalTypeOK, locals
<1>2. CASE World
  BY <1>1, <1>2 DEF World, CreateSession, CreateToken, Logout, GraceEnds, Expires
<1>3. CASE \E r \in Reqs : (\E n \in Tokens : Present(r, n)) \/ Step(r) \/ Lose(r)
  <2> SUFFICES ASSUME NEW r \in Reqs,
                      (\E n \in Tokens : Present(r, n)) \/ Step(r) \/ Lose(r)
               PROVE  LocalTypeOK'
    BY <1>3
  <2> USE <1>0
  <2>1. CASE Done(r)
    BY <2>1, DoneType
  <2>2. CASE Revoke(r)
    BY <2>2, RevokeType
  <2>3. CASE \E n \in Tokens : Present(r, n)
    BY <2>3 DEF Present, Goto, LocalTypeOK
  <2>4. CASE LoadToken(r)
    BY <2>4 DEF LoadToken, Goto, LocalTypeOK, ChainTypeOK
  <2>5. CASE LoadSession(r)
    BY <2>5 DEF LoadSession, Goto, LocalTypeOK, ChainTypeOK
  <2>6. CASE /\ \E step \in {"rotate", "answer"} : Goto(r, step)
             /\ Unload(r) /\ UNCHANGED <<shown, cand, late, todo, upTo>>
    BY <2>6, UnloadType DEF Goto, LocalTypeOK
  <2>7. CASE CheckContext(r) \/ CheckHeadContext(r)
    BY <2>7, <2>1, <2>6 DEF CheckContext, CheckHeadContext
  <2>8. CASE Rotate(r)
    BY <2>8 DEF Rotate, Goto, LocalTypeOK, Tokens
  <2>9. CASE LoseRace(r) \/ Renew(r)
    BY <2>9 DEF LoseRace, Renew, Goto, LocalTypeOK
  <2>10. CASE Recover(r)
    BY <2>10, <2>2 DEF Recover, Goto, LocalTypeOK, Tokens
  <2>11. CASE FindHead(r)
    BY <2>11, <2>2 DEF FindHead, Goto, LocalTypeOK, Tokens
  <2>12. CASE Answer(r) \/ Refuse(r) \/ Lose(r)
    BY <2>12, <2>1 DEF Answer, Refuse, Lose
  <2>13. CASE RevokeTokens(r) \/ RevokeSession(r)
    BY <2>13, SMTT(30) DEF RevokeTokens, RevokeSession, LocalTypeOK
  <2> QED
    BY <2>3, <2>4, <2>5, <2>7, <2>8, <2>9, <2>10, <2>11, <2>12, <2>13 DEF Step
<1>4. CASE UNCHANGED vars
  BY <1>1, <1>4 DEF vars
<1> QED
  BY <1>2, <1>3, <1>4 DEF Next

(* The chain: only CreateToken, Rotate and RevokeTokens change a token.    *)
LEMMA ChainStep == IInv /\ [Next]_vars => ChainInv'
<1> SUFFICES ASSUME IInv, [Next]_vars PROVE ChainInv'
  OBVIOUS
<1>0. ChainTypeOK /\ LocalTypeOK /\ ChainInv /\ \A r \in Reqs : LocalInv(r)
  BY DEF IInv, TypeOK
<1> USE <1>0 DEF ChainInv, ChainIsLinear, NextIsStored, KnownAreStored, Stored
<1>1. CASE UNCHANGED token /\ UNCHANGED known
  BY <1>1
<1>2. CASE CreateToken
  <2>1. \A n \in Tokens : token[n] = "NONE"
    BY <1>2 DEF CreateToken, Tokens
  <2> QED
    BY <1>2, <2>1 DEF CreateToken, ChainTypeOK, Tokens
<1>3. ASSUME NEW r \in Reqs, Rotate(r) PROVE ChainInv'
  <2> DEFINE n == shown[r]
  <2>1. n \in Tokens /\ n + 1 \in Tokens /\ token[n] = "ACTIVE"
    BY <1>3 DEF Rotate, LocalTypeOK, Tokens
  <2>2. token' = [token EXCEPT ![n] = "ROTATED", ![n + 1] = "ACTIVE"] /\ known' = known
    BY <1>3 DEF Rotate
  <2>3. \A m \in Tokens : m > n => token[m] = "NONE"
    BY <2>1 DEF Tokens
  <2> QED
    BY <2>1, <2>2, <2>3 DEF ChainTypeOK, Tokens
<1>4. ASSUME NEW r \in Reqs, Answer(r) PROVE ChainInv'
  BY <1>4 DEF Answer, ChainTypeOK, LocalTypeOK, LocalInv, CandHolds
<1>5. ASSUME NEW r \in Reqs, RevokeTokens(r) PROVE ChainInv'
  <2>1. PICK k : token' = [n \in Tokens |-> IF n <= k /\ Stored(n) THEN "REVOKED" ELSE token[n]]
    BY <1>5 DEF RevokeTokens
  <2>2. known' = known
    BY <1>5 DEF RevokeTokens
  <2> QED
    BY <2>1, <2>2 DEF ChainTypeOK, Tokens
<1>6. CASE World
  BY <1>6, <1>1, <1>2 DEF World, CreateSession, Logout, GraceEnds, Expires
<1>7. ASSUME NEW r \in Reqs, (\E n \in Tokens : Present(r, n)) \/ Step(r) \/ Lose(r)
      PROVE  ChainInv'
  <2> USE DEF chain
  <2>1. CASE \E n \in Tokens : Present(r, n)
    BY <2>1, <1>1 DEF Present
  <2>2. CASE LoadToken(r) \/ LoadSession(r) \/ CheckContext(r) \/ CheckHeadContext(r)
    BY <2>2, <1>1 DEF LoadToken, LoadSession, CheckContext, CheckHeadContext
  <2>3. CASE LoseRace(r) \/ Renew(r) \/ RevokeSession(r) \/ Refuse(r) \/ Lose(r)
    BY <2>3, <1>1 DEF LoseRace, Renew, RevokeSession, Refuse, Lose
  <2>4. CASE Recover(r) \/ FindHead(r)
    BY <2>4, <1>1 DEF Recover, FindHead, Revoke
  <2> QED
    BY <1>3, <1>4, <1>5, <1>7, <2>1, <2>2, <2>3, <2>4 DEF Step
<1>8. CASE UNCHANGED vars
  BY <1>8, <1>1 DEF vars, chain
<1> QED
  BY <1>6, <1>7, <1>8 DEF Next

-----------------------------------------------------------------------------
(* The facts about requests.  What the chain does to them: tokens stay     *)
(* stored, spent or revoked, and a revoked session stays so.               *)
ChainGrows ==
  /\ \A n \in Tokens : /\ Stored(n) => Stored(n)'
                       /\ Spent(n) => Spent(n)'
                       /\ token[n] = "REVOKED" => token'[n] = "REVOKED"
  /\ session = "revoked" => session' = "revoked"

LEMMA ChainOnlyGrows == IInv /\ [Next]_vars => ChainGrows
<1> SUFFICES ASSUME IInv, [Next]_vars PROVE ChainGrows
  OBVIOUS
<1>0. ChainTypeOK /\ LocalTypeOK /\ ChainIsLinear
  BY DEF IInv, ChainInv, TypeOK
<1> USE <1>0 DEF ChainGrows, Stored, Spent
<1>1. CASE UNCHANGED token /\ (session = "revoked" => session' = "revoked")
  BY <1>1
<1>2. CASE CreateToken
  BY <1>2 DEF CreateToken, ChainTypeOK
<1>3. ASSUME NEW r \in Reqs, Rotate(r) PROVE ChainGrows
  <2> DEFINE n == shown[r]
  <2>1. n \in Tokens /\ n + 1 \in Tokens /\ token[n] = "ACTIVE"
    BY <1>3 DEF Rotate, LocalTypeOK, Tokens
  <2>2. token[n + 1] = "NONE"
    BY <2>1 DEF ChainIsLinear, Tokens
  <2>3. token' = [token EXCEPT ![n] = "ROTATED", ![n + 1] = "ACTIVE"] /\ session' = session
    BY <1>3 DEF Rotate
  <2> QED
    BY <2>1, <2>2, <2>3 DEF ChainTypeOK
<1>4. ASSUME NEW r \in Reqs, RevokeTokens(r) PROVE ChainGrows
  <2>1. PICK k : token' = [n \in Tokens |-> IF n <= k /\ Stored(n) THEN "REVOKED" ELSE token[n]]
    BY <1>4 DEF RevokeTokens
  <2> QED
    BY <1>4, <2>1 DEF RevokeTokens, ChainTypeOK
<1>5. CASE World
  BY <1>5, <1>1, <1>2 DEF World, CreateSession, Logout, GraceEnds, Expires
<1>6. ASSUME NEW r \in Reqs, (\E n \in Tokens : Present(r, n)) \/ Step(r) \/ Lose(r)
      PROVE  ChainGrows
  <2> USE DEF chain
  <2>1. CASE \E n \in Tokens : Present(r, n)
    BY <2>1, <1>1 DEF Present
  <2>2. CASE LoadToken(r) \/ LoadSession(r) \/ CheckContext(r) \/ CheckHeadContext(r)
    BY <2>2, <1>1 DEF LoadToken, LoadSession, CheckContext, CheckHeadContext
  <2>3. CASE LoseRace(r) \/ Renew(r) \/ RevokeSession(r) \/ Refuse(r) \/ Lose(r) \/ Answer(r)
    BY <2>3, <1>1 DEF LoseRace, Renew, RevokeSession, Refuse, Lose, Answer
  <2>4. CASE Recover(r) \/ FindHead(r)
    BY <2>4, <1>1 DEF Recover, FindHead, Revoke
  <2> QED
    BY <1>3, <1>4, <1>6, <2>1, <2>2, <2>3, <2>4 DEF Step
<1>7. CASE UNCHANGED vars
  BY <1>7, <1>1 DEF vars, chain
<1> QED
  BY <1>5, <1>6, <1>7 DEF Next

(* A request is not disturbed by a step in which it keeps its state.       *)
LEMMA OthersKeep ==
  ASSUME IInv, [Next]_vars, NEW q \in Reqs,
         pc'[q] = pc[q], shown'[q] = shown[q], seen'[q] = seen[q],
         loaded'[q] = loaded[q], cand'[q] = cand[q], q \in late' <=> q \in late
  PROVE  LocalInv(q)'
<1>1. ChainGrows
  BY ChainOnlyGrows
<1>2. LocalInv(q) /\ ChainTypeOK /\ LocalTypeOK /\ ChainTypeOK'
  BY ChainTypeStep DEF IInv, TypeOK
<1>3. shown[q] \in Tokens /\ cand[q] \in Tokens
  BY <1>2 DEF LocalTypeOK
<1>4. (pc[q] # "idle" => Stored(shown[q]))'
  BY <1>1, <1>2, <1>3 DEF ChainGrows, LocalInv, Stored
<1>5. SeenHolds(q)'
  BY <1>1, <1>2, <1>3 DEF ChainGrows, LocalInv, SeenHolds, Spent
<1>6. LoadedHolds(q)'
  BY <1>1, <1>2 DEF ChainGrows, LocalInv, LoadedHolds
<1>7. CandHolds(q)'
  <2>1. CASE pc[q] = "find"
    <3>1. shown[q] < cand[q] /\ cand[q] <= shown[q] + Hops /\ Spent(cand[q] - 1)
      BY <2>1, <1>2 DEF LocalInv, CandHolds
    <3>2. cand[q] - 1 \in Tokens
      BY <1>3, <3>1 DEF Tokens
    <3>3. Spent(cand[q] - 1)'
      BY <3>1, <3>2, <1>1 DEF ChainGrows, Spent
    <3> QED
      BY <3>1, <3>3, <2>1 DEF CandHolds
  <2>2. CASE pc[q] # "find"
    BY <2>2, <1>1, <1>2, <1>3 DEF ChainGrows, LocalInv, CandHolds, Stored
  <2> QED
    BY <2>1, <2>2
<1> QED
  BY <1>2, <1>4, <1>5, <1>6, <1>7 DEF LocalInv

(* Nor is one that has ended.                                              *)
LEMMA DoneKeeps ==
  ASSUME IInv, NEW r \in Reqs, Done(r) PROVE LocalInv(r)'
<1>1. LocalTypeOK
  BY DEF IInv, TypeOK
<1>2. pc'[r] = "idle" /\ r \notin late' /\ loaded'[r] = NotLoaded
  BY <1>1 DEF Done, Goto, Unload, LocalTypeOK
<1> QED
  BY <1>2 DEF LocalInv, SeenHolds, LoadedHolds, CandHolds, NotLoaded

LEMMA RevokeKeeps ==
  ASSUME IInv, [Next]_vars, NEW r \in Reqs, pc[r] # "idle", Revoke(r) PROVE LocalInv(r)'
<1>1. LocalTypeOK /\ LocalInv(r)
  BY DEF IInv, TypeOK
<1>2. pc'[r] = "revoke" /\ loaded'[r] = NotLoaded
  BY <1>1 DEF Revoke, Goto, Unload, LocalTypeOK
<1>3. shown' = shown /\ late' = late /\ token' = token /\ session' = session
  BY DEF Revoke, chain
<1> QED
  BY <1>1, <1>2, <1>3 DEF LocalInv, SeenHolds, LoadedHolds, CandHolds, NotLoaded, Stored

(* The steps of a request and the facts about it.                          *)
LEMMA OwnStep ==
  ASSUME IInv, [Next]_vars, NEW r \in Reqs,
         (\E n \in Tokens : Present(r, n)) \/ Step(r) \/ Lose(r)
  PROVE  LocalInv(r)'
<1>0. ChainTypeOK /\ LocalTypeOK /\ LocalInv(r) /\ KnownAreStored
  BY DEF IInv, TypeOK, ChainInv
<1>1. shown[r] \in Tokens /\ cand[r] \in Tokens
  BY <1>0 DEF LocalTypeOK
<1> USE <1>0, <1>1
<1>2. CASE Done(r)
  BY <1>2, DoneKeeps
<1>3. CASE \E n \in Tokens : Present(r, n)
  BY <1>3 DEF Present, Goto, chain, LocalTypeOK, KnownAreStored,
              LocalInv, SeenHolds, LoadedHolds, CandHolds, Stored
<1>4. CASE LoadToken(r)
  BY <1>4 DEF LoadToken, Goto, chain, LocalTypeOK,
              LocalInv, SeenHolds, LoadedHolds, CandHolds, Stored, Spent
<1>5. CASE LoadSession(r)
  BY <1>5 DEF LoadSession, Goto, chain, LocalTypeOK,
              LocalInv, SeenHolds, LoadedHolds, CandHolds, Stored, Spent
<1>6. CASE CheckContext(r) \/ CheckHeadContext(r)
  <2> SUFFICES ASSUME ~Done(r) PROVE LocalInv(r)'
    BY <1>2
  <2>1. pc[r] \in {"context", "headContext"} /\ SessionValid(r) /\ Unload(r)
    BY <1>6 DEF CheckContext, CheckHeadContext
  <2>2. r \notin late
    BY <2>1 DEF SessionValid, LocalInv, LoadedHolds
  <2>3. UNCHANGED <<chain, shown, cand, late>>
    BY <1>6 DEF CheckContext, CheckHeadContext
  <2>4. /\ pc'[r] \in {"rotate", "answer"}
        /\ pc'[r] = "answer" => pc[r] = "headContext"
    BY <1>6 DEF CheckContext, CheckHeadContext, Goto, LocalTypeOK
  <2>5. loaded'[r] = NotLoaded
    BY <2>1 DEF Unload, LocalTypeOK
  <2> QED
    BY <2>1, <2>2, <2>3, <2>4, <2>5
    DEF chain, NotLoaded, LocalInv, SeenHolds, LoadedHolds, CandHolds, Stored
<1>7. CASE Rotate(r)
  <2>1. token[shown[r]] = "ACTIVE" /\ pc[r] = "rotate"
    BY <1>7 DEF Rotate
  <2>2. /\ token' = [token EXCEPT ![shown[r]] = "ROTATED", ![shown[r] + 1] = "ACTIVE"]
        /\ shown[r] + 1 \in Tokens
    BY <1>7 DEF Rotate, Tokens
  <2>3. cand'[r] = shown[r] + 1 /\ pc'[r] = "renew"
    BY <1>7 DEF Rotate, Goto, LocalTypeOK
  <2>4. Stored(shown[r])' /\ Stored(cand[r])'
    <3>1. UNCHANGED shown
      BY <1>7 DEF Rotate
    <3> QED
      BY <3>1, <2>2, <2>3 DEF ChainTypeOK, Stored, Tokens
  <2>5. UNCHANGED <<session, shown, loaded, late>>
    BY <1>7 DEF Rotate
  <2> QED
    BY <2>1, <2>3, <2>4, <2>5 DEF LocalInv, SeenHolds, LoadedHolds, CandHolds
<1>8. CASE LoseRace(r) \/ Renew(r)
  BY <1>8 DEF LoseRace, Renew, Goto, chain, LocalTypeOK,
              LocalInv, SeenHolds, LoadedHolds, CandHolds, Stored
<1>9. CASE Recover(r)
  <2>1. CASE Revoke(r)
    BY <1>9, <2>1, RevokeKeeps DEF Recover
  <2>2. CASE ~Revoke(r)
    <3>1. /\ pc[r] = "recover" /\ seen[r] = "ROTATED" /\ shown[r] < MaxTok
          /\ cand' = [cand EXCEPT ![r] = shown[r] + 1] /\ Goto(r, "find")
          /\ UNCHANGED <<chain, shown, seen, loaded, late>>
      BY <1>9, <2>2 DEF Recover, Forgiven
    <3>2. cand'[r] = shown[r] + 1 /\ pc'[r] = "find"
      BY <3>1 DEF LocalTypeOK, Goto
    <3>3. Spent(shown[r])
      BY <3>1 DEF LocalInv, SeenHolds
    <3>4. shown[r] + 1 <= shown[r] + Hops /\ (shown[r] + 1) - 1 = shown[r]
      BY DEF Tokens
    <3>5. CandHolds(r)'
      BY <3>1, <3>2, <3>3, <3>4 DEF CandHolds, Spent, chain, Tokens
    <3> QED
      BY <3>1, <3>2, <3>5 DEF chain, LocalInv, SeenHolds, LoadedHolds, Stored
  <2> QED
    BY <2>1, <2>2
<1>10. CASE FindHead(r)
  <2>1. CASE Revoke(r)
    BY <1>10, <2>1, RevokeKeeps DEF FindHead
  <2>2. CASE token[cand[r]] = "ACTIVE" /\ ~Revoke(r)
    BY <1>10, <2>2 DEF FindHead, Goto, chain, LocalTypeOK,
                       LocalInv, SeenHolds, LoadedHolds, CandHolds, Stored
  <2>3. CASE token[cand[r]] # "ACTIVE" /\ ~Revoke(r)
    <3>1. /\ pc[r] = "find" /\ token[cand[r]] = "ROTATED" /\ cand[r] < shown[r] + Hops
          /\ cand' = [cand EXCEPT ![r] = cand[r] + 1]
          /\ UNCHANGED <<chain, pc, shown, seen, loaded, late>>
      BY <1>10, <2>3 DEF FindHead
    <3>2. cand'[r] = cand[r] + 1
      BY <3>1 DEF LocalTypeOK
    <3>3. /\ shown[r] < cand[r] + 1 /\ cand[r] + 1 <= shown[r] + Hops
          /\ (cand[r] + 1) - 1 = cand[r]
      BY <3>1 DEF Tokens, LocalInv, CandHolds
    <3>4. CandHolds(r)'
      BY <3>1, <3>2, <3>3 DEF CandHolds, Spent, chain
    <3> QED
      BY <3>1, <3>4 DEF chain, LocalInv, SeenHolds, LoadedHolds, Stored
  <2> QED
    BY <2>1, <2>2, <2>3
<1>11. CASE Answer(r) \/ Refuse(r) \/ Lose(r)
  BY <1>11, <1>2 DEF Answer, Refuse, Lose
<1>12. CASE RevokeTokens(r) \/ RevokeSession(r)
  BY <1>12, OthersKeep DEF RevokeTokens, RevokeSession
<1> QED
  BY <1>3, <1>4, <1>5, <1>6, <1>7, <1>8, <1>9, <1>10, <1>11, <1>12 DEF Step

(* A step of one request changes nothing of another.                       *)
LEMMA OthersSame ==
  ASSUME LocalTypeOK, NEW r \in Reqs, NEW q \in Reqs, q # r,
         (\E n \in Tokens : Present(r, n)) \/ Step(r) \/ Lose(r)
  PROVE  /\ pc'[q] = pc[q] /\ shown'[q] = shown[q] /\ seen'[q] = seen[q]
         /\ loaded'[q] = loaded[q] /\ cand'[q] = cand[q]
         /\ q \in late' <=> q \in late
<1> USE DEF LocalTypeOK, Goto, Unload, Done
<1>1. CASE \E n \in Tokens : Present(r, n)
  BY <1>1 DEF Present
<1>2. CASE LoadToken(r) \/ LoadSession(r) \/ CheckContext(r) \/ CheckHeadContext(r)
  BY <1>2 DEF LoadToken, LoadSession, CheckContext, CheckHeadContext
<1>3. CASE Rotate(r) \/ LoseRace(r) \/ Renew(r) \/ RevokeTokens(r) \/ RevokeSession(r)
  BY <1>3 DEF Rotate, LoseRace, Renew, RevokeTokens, RevokeSession
<1>4. CASE Recover(r) \/ FindHead(r)
  BY <1>4 DEF Recover, FindHead, Revoke
<1>5. CASE Answer(r) \/ Refuse(r) \/ Lose(r)
  BY <1>5 DEF Answer, Refuse, Lose
<1> QED
  BY <1>1, <1>2, <1>3, <1>4, <1>5 DEF Step

LEMMA LocalStep == IInv /\ [Next]_vars => \A q \in Reqs : LocalInv(q)'
<1> SUFFICES ASSUME IInv, [Next]_vars, NEW q \in Reqs PROVE LocalInv(q)'
  OBVIOUS
<1>1. LocalTypeOK
  BY DEF IInv, TypeOK
<1>2. CASE UNCHANGED locals
  BY <1>2, OthersKeep DEF locals
<1>3. CASE World
  BY <1>2, <1>3 DEF World, CreateSession, CreateToken, Logout, GraceEnds, Expires
<1>4. ASSUME NEW r \in Reqs, (\E n \in Tokens : Present(r, n)) \/ Step(r) \/ Lose(r)
      PROVE  LocalInv(q)'
  <2>1. CASE q = r
    BY <1>4, <2>1, OwnStep
  <2>2. CASE q # r
    BY <1>1, <1>4, <2>2, OthersKeep, OthersSame
  <2> QED
    BY <2>1, <2>2
<1>5. CASE UNCHANGED vars
  BY <1>2, <1>5 DEF vars
<1> QED
  BY <1>3, <1>4, <1>5 DEF Next

-----------------------------------------------------------------------------
(* No false alarm.                                                         *)
LEMMA QuietBefore == IInv /\ [Next]_vars /\ Quiet' => Quiet
<1> SUFFICES ASSUME IInv, [Next]_vars, Quiet' PROVE Quiet
  OBVIOUS
<1>1. ChainTypeOK /\ ChainGrows
  BY ChainOnlyGrows DEF IInv, TypeOK
<1>2. \A n \in Tokens : n > Hops => ~Stored(n)
  BY <1>1 DEF Quiet, ChainGrows
<1>3. graceEnd' \in {graceEnd, graceEnd + 1} /\ elapsed' \in {elapsed, elapsed + 1}
      /\ (logout = "done" => logout' = "done")
  <2>1. CASE World
    BY <2>1 DEF World, CreateSession, CreateToken, Logout, GraceEnds, Expires
  <2>2. CASE UNCHANGED <<graceEnd, elapsed, logout>>
    BY <2>2
  <2>3. ASSUME NEW r \in Reqs, (\E n \in Tokens : Present(r, n)) \/ Step(r) \/ Lose(r)
        PROVE  UNCHANGED <<graceEnd, elapsed, logout>>
    BY <2>3 DEF Step, Present, LoadToken, LoadSession, CheckContext, Rotate, LoseRace,
                Renew, Recover, FindHead, Revoke, CheckHeadContext, Answer, RevokeTokens,
                RevokeSession, Refuse, Lose, chain
  <2>4. CASE UNCHANGED vars
    BY <2>2, <2>4 DEF vars, chain
  <2> QED
    BY <2>1, <2>2, <2>3, <2>4 DEF Next
<1> QED
  BY <1>1, <1>2, <1>3 DEF Quiet, ChainTypeOK

(* In quiet times neither a recovery nor the search for the head ends in   *)
(* the revocation of the family.                                           *)
LEMMA QuietForgives ==
  ASSUME IInv, Quiet, NEW r \in Reqs, Recover(r) \/ FindHead(r) PROVE ~Revoke(r)
<1> SUFFICES ASSUME Revoke(r) PROVE FALSE
  OBVIOUS
<1>1. /\ ChainTypeOK /\ LocalTypeOK /\ NextIsStored /\ LocalInv(r)
      /\ session # "revoked" /\ \A n \in Tokens : token[n] # "REVOKED"
      /\ pc[r] # "revoke"
  BY DEF IInv, TypeOK, ChainInv, NoFalseAlarm
<1>2. pc'[r] = "revoke" /\ cand'[r] = 0
  BY <1>1 DEF Revoke, Goto, LocalTypeOK
<1>3. shown[r] \in Tokens /\ cand[r] \in Tokens
  BY <1>1 DEF LocalTypeOK
<1>4. CASE Recover(r)
  <2>1. pc[r] = "recover" /\ ~Forgiven(r)
    BY <1>1, <1>2, <1>4 DEF Recover, Goto, LocalTypeOK
  <2>2. seen[r] = "ROTATED"
    BY <1>1, <1>3, <2>1 DEF LocalInv, SeenHolds, LocalTypeOK, Status
  <2>3. loaded[r].status # "revoked" /\ loaded[r].expiry > elapsed
    BY <1>1 DEF LocalInv, LoadedHolds, LocalTypeOK, Quiet, Tokens
  <2>4. shown[r] > graceEnd
    BY <1>3 DEF Quiet, Tokens
  <2> QED
    BY <2>1, <2>2, <2>3, <2>4 DEF Forgiven, SessionValid
<1>5. CASE FindHead(r)
  <2>1. /\ pc[r] = "find" /\ token[cand[r]] # "ACTIVE"
        /\ token[cand[r]] = "ROTATED" => cand[r] = shown[r] + Hops
    BY <1>1, <1>2, <1>5 DEF FindHead, Goto, LocalTypeOK
  <2>2. /\ shown[r] < cand[r] /\ Spent(cand[r] - 1)
    BY <1>1, <2>1 DEF LocalInv, CandHolds
  <2>3. cand[r] - 1 \in Tokens
    BY <1>3, <2>2 DEF Tokens
  <2>4. Stored(cand[r])
    BY <1>1, <1>3, <2>2, <2>3 DEF Spent, NextIsStored, Tokens
  <2>5. token[cand[r]] = "ROTATED"
    BY <1>1, <1>3, <2>1, <2>4 DEF ChainTypeOK, Status, Stored
  <2>6. cand[r] + 1 \in Tokens /\ Stored(cand[r] + 1)
    BY <1>1, <1>3, <2>5 DEF NextIsStored
  <2>7. cand[r] + 1 > Hops
    BY <1>3, <2>1, <2>5 DEF Tokens
  <2> QED
    BY <2>6, <2>7 DEF Quiet
<1> QED
  BY <1>4, <1>5

LEMMA AlarmStep == IInv /\ [Next]_vars => NoFalseAlarm'
<1> SUFFICES ASSUME IInv, [Next]_vars, Quiet'
             PROVE  /\ session' # "revoked"
                    /\ \A n \in Tokens : token'[n] # "REVOKED"
                    /\ \A q \in Reqs : pc'[q] # "revoke"
  BY DEF NoFalseAlarm
<1>1. Quiet
  BY QuietBefore
<1>2. /\ ChainTypeOK /\ LocalTypeOK
      /\ session # "revoked" /\ \A n \in Tokens : token[n] # "REVOKED"
      /\ \A q \in Reqs : pc[q] # "revoke"
  BY <1>1 DEF IInv, TypeOK, NoFalseAlarm
<1> USE <1>2
<1>3. CASE UNCHANGED <<session, token, pc>>
  BY <1>3
<1>4. CASE World
  BY <1>3, <1>4 DEF World, CreateSession, CreateToken, Logout, GraceEnds, Expires,
                    locals, Quiet, ChainTypeOK
<1>5. ASSUME NEW r \in Reqs, (\E n \in Tokens : Present(r, n)) \/ Step(r) \/ Lose(r)
      PROVE  /\ session' = session
             /\ token' = token \/ Rotate(r)
             /\ \E step : step # "revoke" /\ pc' = [pc EXCEPT ![r] = step]
  <2> USE DEF Goto, Done, chain
  <2>1. CASE \E n \in Tokens : Present(r, n)
    BY <2>1 DEF Present
  <2>2. CASE LoadToken(r) \/ LoadSession(r) \/ CheckContext(r) \/ CheckHeadContext(r)
    BY <2>2 DEF LoadToken, LoadSession, CheckContext, CheckHeadContext
  <2>3. CASE Rotate(r) \/ LoseRace(r) \/ Renew(r)
    BY <2>3 DEF Rotate, LoseRace, Renew
  <2>4. CASE Recover(r)
    BY <1>1, <2>4, QuietForgives DEF Recover
  <2>5. CASE FindHead(r)
    <3>1. FindHead(r) /\ ~Revoke(r)
      BY <1>1, <2>5, QuietForgives
    <3>2. UNCHANGED <<session, token>>
      BY <3>1 DEF FindHead
    <3>3. CASE Goto(r, "headContext")
      BY <3>2, <3>3
    <3>4. CASE pc' = pc /\ pc[r] = "find"
      BY <3>2, <3>4 DEF LocalTypeOK
    <3> QED
      BY <3>1, <3>3, <3>4 DEF FindHead
  <2>6. CASE Answer(r) \/ Refuse(r) \/ Lose(r)
    BY <2>6 DEF Answer, Refuse, Lose
  <2>7. ~RevokeTokens(r) /\ ~RevokeSession(r)
    BY DEF RevokeTokens, RevokeSession
  <2> QED
    BY <1>5, <2>1, <2>2, <2>3, <2>4, <2>5, <2>6, <2>7 DEF Step
<1>6. ASSUME NEW r \in Reqs, Rotate(r) PROVE \A n \in Tokens : token'[n] # "REVOKED"
  BY <1>6 DEF Rotate, ChainTypeOK
<1>7. ASSUME NEW r \in Reqs, NEW step, step # "revoke", pc' = [pc EXCEPT ![r] = step]
      PROVE  \A q \in Reqs : pc'[q] # "revoke"
  BY <1>7 DEF LocalTypeOK
<1>8. CASE UNCHANGED vars
  BY <1>3, <1>8 DEF vars, chain, locals
<1> QED
  BY <1>4, <1>5, <1>6, <1>7, <1>8 DEF Next

-----------------------------------------------------------------------------
LEMMA NextIInv == IInv /\ [Next]_vars => IInv'
<1>1. IInv => TypeOK
  BY DEF IInv
<1>2. IInv /\ [Next]_vars => ChainTypeOK' /\ LocalTypeOK'
  BY <1>1, ChainTypeStep, LocalTypeStep
<1> QED
  BY <1>2, ChainStep, AlarmStep, LocalStep DEF IInv, TypeOK

LEMMA AlwaysIInv == Spec => []IInv
BY InitIInv, NextIInv, PTL DEF Spec

(* The variables keep their types: statuses never leave the enums, and the *)
(* chain is never rotated past the tokens there are.                       *)
THEOREM ChainTypeCorrect == Spec => []TypeOK
BY AlwaysIInv, PTL DEF IInv

(* Whatever requests race, the chain of a session stays a line: the token  *)
(* rotated last is the only one that can be active, and none is skipped.   *)
THEOREM ChainStaysLinear == Spec => []ChainIsLinear
<1>1. IInv => ChainIsLinear
  BY DEF IInv, ChainInv
<1> QED
  BY AlwaysIInv, <1>1, PTL

(* Any number of tabs that refresh at once, lose answers and retry within  *)
(* the grace never get a family revoked, for every number of hops, as long *)
(* as the chain has not outgrown them.                                     *)
THEOREM RacingTabsAreForgiven == Spec => []NoFalseAlarm
<1>1. IInv => NoFalseAlarm
  BY DEF IInv
<1> QED
  BY AlwaysIInv, <1>1, PTL

(* A request that comes after the revocation never gets to the rotation or *)
(* to an answer, whichever token it shows.                                 *)
THEOREM RevocationIsFinal == Spec => []RevokedStaysOut
<1>1. IInv => RevokedStaysOut
  BY DEF IInv, LocalInv, RevokedStaysOut
<1> QED
  BY AlwaysIInv, <1>1, PTL

-----------------------------------------------------------------------------
(***************************************************************************)
(* Workspaces, for any number of users, workspaces, codes and requests.    *)
(***************************************************************************)

HIDE ChainAssumption

(* Workspaces: what is true of every request, whoever sends it.            *)

RowsSound ==
  /\ \A r \in rows : r.id < nextId /\ r.user \in users /\ r.ws \in workspaces
  /\ \A r, s \in rows : r.id = s.id => r = s
  /\ \A r, s \in rows : r.user = s.user /\ r.ws = s.ws => r = s

(* A code leads to a workspace that is there, and has admitted the user it *)
(* names; what it has admitted is not forgotten with the workspace.        *)
CodeSound(i) ==
  /\ invites[i] = NotYet => admitted[i] = {}
  /\ invites[i] \in Codes => /\ invites[i].ws \in workspaces
                             /\ admitted[i] = {invites[i].usedBy} \ {NoOne}
  /\ \A u, v \in admitted[i] : u = v

(* What a request has read and may still count on.                         *)
CallSound(p) ==
  /\ req[p].op # "idle" => req[p].user \in users
  /\ req[p].op = "accept" =>
       /\ invites[req[p].invite] # NotYet
       /\ invites[req[p].invite] \in Codes => invites[req[p].invite].ws = req[p].ws
  /\ req[p].op = "add" => req[p].target \in users
  /\ req[p].op = "remove" => req[p].row.id < req[p].before
  /\ req[p].op \in {"create", "set"} => \A id \in req[p].scan : id < nextId
  /\ req[p].op = "role" => req[p].row.id < nextId /\ req[p].row.role # "OWNER"

WorkspaceInv ==
  /\ WorkspaceTypeOK /\ RowsSound
  /\ \A i \in Invites : CodeSound(i)
  /\ \A p \in Requests : CallSound(p)

LEMMA CallFields ==
  ASSUME NEW c \in Calls
  PROVE  /\ c.op \in {"idle", "clear", "invite", "delete", "set", "found", "create", "accept", "add",
                      "find", "remove", "role"}
         /\ c.op = "idle" => c = Idle
         /\ c.op # "idle" => c.user \in Users
         /\ c.op \in {"clear", "invite", "delete", "set", "accept", "add", "find"} => c.ws \in Ids
         /\ c.op \in {"create", "set"} => c.scan \in SUBSET RowIds
         /\ c.op \in {"found", "create"} => c.default \in BOOLEAN
         /\ c.op = "accept" => c.invite \in Invites
         /\ c.op \in {"add", "find"} => c.target \in Users
         /\ c.op \in {"remove", "role"} => c.row \in Rows
         /\ c.op = "remove" => c.before \in 1..MaxRow + 1
<1>1. CASE c = Idle
  BY <1>1 DEF Idle
<1>2. CASE c \in [op : {"clear", "invite", "delete"}, user : Users, ws : Ids]
  BY <1>2
<1>3. CASE c \in [op : {"set"}, user : Users, ws : Ids, scan : SUBSET RowIds]
  BY <1>3
<1>4. CASE c \in [op : {"create"}, user : Users, default : BOOLEAN, scan : SUBSET RowIds]
  BY <1>4
<1>5. CASE c \in [op : {"accept"}, user : Users, invite : Invites, ws : Ids]
  BY <1>5
<1>9. CASE c \in [op : {"found"}, user : Users, default : BOOLEAN]
  BY <1>9
<1>6. CASE c \in [op : {"add", "find"}, user : Users, target : Users, ws : Ids]
  BY <1>6
<1>7. CASE c \in [op : {"remove"}, user : Users, row : Rows, before : 1..MaxRow + 1]
  BY <1>7
<1>8. CASE c \in [op : {"role"}, user : Users, row : Rows]
  BY <1>8
<1> QED
  BY <1>1, <1>2, <1>3, <1>4, <1>5, <1>6, <1>7, <1>8, <1>9 DEF Calls

LEMMA CallsMade ==
  /\ Idle \in Calls
  /\ \A op \in {"clear", "invite", "delete"}, u \in Users, w \in Ids : [op |-> op, user |-> u, ws |-> w] \in Calls
  /\ \A u \in Users, w \in Ids, s \in SUBSET RowIds : [op |-> "set", user |-> u, ws |-> w, scan |-> s] \in Calls
  /\ \A u \in Users, d \in BOOLEAN : [op |-> "found", user |-> u, default |-> d] \in Calls
  /\ \A u \in Users, d \in BOOLEAN, s \in SUBSET RowIds :
       [op |-> "create", user |-> u, default |-> d, scan |-> s] \in Calls
  /\ \A u \in Users, i \in Invites, w \in Ids : [op |-> "accept", user |-> u, invite |-> i, ws |-> w] \in Calls
  /\ \A op \in {"add", "find"}, u \in Users, t \in Users, w \in Ids :
       [op |-> op, user |-> u, target |-> t, ws |-> w] \in Calls
  /\ \A u \in Users, r \in Rows, n \in 1..MaxRow + 1 : [op |-> "remove", user |-> u, row |-> r, before |-> n] \in Calls
  /\ \A u \in Users, r \in Rows : [op |-> "role", user |-> u, row |-> r] \in Calls
BY DEF Calls, Idle

LEMMA InviteFields ==
  ASSUME NEW c \in InviteStates
  PROVE  /\ \/ c = NotYet /\ c # Gone /\ c \notin Codes
            \/ c = Gone /\ c # NotYet /\ c \notin Codes
            \/ c \in Codes /\ c # NotYet /\ c # Gone
         /\ c \in Codes => /\ c.ws \in Ids /\ c.role \in {"ADMIN", "USER"}
                           /\ c.usedBy \in Users \cup {NoOne}
<1>1. NotYet.state = "none" /\ Gone.state = "gone" /\ \A d \in Codes : d.state = "code"
  BY DEF NotYet, Gone, Codes
<1>2. c \in Codes => c.ws \in Ids /\ c.role \in {"ADMIN", "USER"} /\ c.usedBy \in Users \cup {NoOne}
  BY DEF Codes
<1> QED
  BY <1>1, <1>2 DEF InviteStates

LEMMA RowOfRows ==
  ASSUME NEW r \in Rows
  PROVE  /\ r.id \in RowIds /\ r.user \in Users /\ r.ws \in Ids /\ r.role \in Roles
         /\ r.isDefault \in BOOLEAN /\ r.founder \in BOOLEAN
BY DEF Rows

(* Writing the columns of a row leaves the others.                         *)
LEMMA RowWritten ==
  ASSUME NEW r \in Rows, NEW b \in BOOLEAN
  PROVE  LET s == [r EXCEPT !.isDefault = b] IN
         /\ s \in Rows /\ s.id = r.id /\ s.user = r.user /\ s.ws = r.ws /\ s.role = r.role
         /\ s.founder = r.founder /\ s.isDefault = b
         /\ r.isDefault = b => s = r
BY DEF Rows

LEMMA RoleWritten ==
  ASSUME NEW r \in Rows, NEW read \in Rows
  PROVE  LET s == [r EXCEPT !.role = read.role, !.isDefault = read.isDefault] IN
         /\ s \in Rows /\ s.id = r.id /\ s.user = r.user /\ s.ws = r.ws /\ s.role = read.role
         /\ s.founder = r.founder /\ s.isDefault = read.isDefault
BY DEF Rows

(* S holds rows of the table, some of their columns written anew.          *)
From(S) ==
  /\ S \subseteq Rows
  /\ \A s \in S : \E r \in rows :
       s.id = r.id /\ s.user = r.user /\ s.ws = r.ws /\ s.founder = r.founder
  /\ \A s, t \in S : s.id = t.id => s = t

LEMMA FromRows == ASSUME WorkspaceTypeOK, RowsSound, NEW S \in SUBSET rows PROVE From(S)
BY DEF From, WorkspaceTypeOK, RowsSound

(* The defaults that a transaction has seen are cleared, no other column   *)
(* is.                                                                     *)
ClearedFrom(s, r, ids) ==
  /\ s \in Rows /\ s.id = r.id /\ s.user = r.user /\ s.ws = r.ws /\ s.role = r.role
  /\ s.founder = r.founder /\ (s.isDefault <=> r.isDefault /\ r.id \notin ids)
  /\ r.id \notin ids => s = r

LEMMA ClearedRow ==
  ASSUME NEW r \in Rows, NEW ids
  PROVE  ClearedFrom([r EXCEPT !.isDefault = @ /\ r.id \notin ids], r, ids)
<1> DEFINE b == r.isDefault /\ r.id \notin ids
           s == [r EXCEPT !.isDefault = b]
<1>1. s = [r EXCEPT !.isDefault = @ /\ r.id \notin ids]
  OBVIOUS
<1>2. b \in BOOLEAN /\ (b <=> r.isDefault /\ r.id \notin ids)
  OBVIOUS
<1>3. r.id \notin ids => r.isDefault = b
  BY RowOfRows
<1> HIDE DEF b
<1>4. /\ s \in Rows /\ s.id = r.id /\ s.user = r.user /\ s.ws = r.ws /\ s.role = r.role
      /\ s.founder = r.founder /\ s.isDefault = b /\ (r.isDefault = b => s = r)
  BY <1>2, RowWritten
<1> HIDE DEF s
<1>5. ClearedFrom(s, r, ids)
  BY <1>2, <1>3, <1>4 DEF ClearedFrom
<1> QED
  BY <1>1, <1>5

LEMMA ClearedRows ==
  ASSUME WorkspaceTypeOK, NEW ids, NEW s \in Cleared(ids)
  PROVE  \E r \in rows : ClearedFrom(s, r, ids) /\ s = [r EXCEPT !.isDefault = @ /\ r.id \notin ids]
BY ClearedRow DEF Cleared, WorkspaceTypeOK

LEMMA FromCleared == ASSUME WorkspaceTypeOK, RowsSound, NEW ids PROVE From(Cleared(ids))
<1>1. \A s \in Cleared(ids) : \E r \in rows :
        s.id = r.id /\ s.user = r.user /\ s.ws = r.ws /\ s.founder = r.founder /\ s \in Rows
  BY ClearedRows DEF ClearedFrom
<1>2. ASSUME NEW s \in Cleared(ids), NEW t \in Cleared(ids), s.id = t.id PROVE s = t
  <2>1. PICK r \in rows : s.id = r.id /\ s = [r EXCEPT !.isDefault = @ /\ r.id \notin ids]
    BY ClearedRows DEF ClearedFrom
  <2>2. PICK q \in rows : t.id = q.id /\ t = [q EXCEPT !.isDefault = @ /\ q.id \notin ids]
    BY ClearedRows DEF ClearedFrom
  <2>3. r = q
    BY <1>2, <2>1, <2>2 DEF RowsSound
  <2> QED
    BY <2>1, <2>2, <2>3
<1> QED
  BY <1>1, <1>2 DEF From

(* What the transaction that moves a default leaves.                       *)
Moved(ids, new) == {[r EXCEPT !.isDefault = @ \/ r.id \in new] : r \in Cleared(ids)}

MovedFrom(s, r, ids, new) ==
  /\ s \in Rows /\ s.id = r.id /\ s.user = r.user /\ s.ws = r.ws /\ s.role = r.role
  /\ s.founder = r.founder
  /\ (s.isDefault <=> (r.isDefault /\ r.id \notin ids) \/ r.id \in new)
  /\ r.id \notin ids /\ r.id \notin new => s = r

LEMMA MovedRows ==
  ASSUME WorkspaceTypeOK, NEW ids, NEW new, NEW s \in Moved(ids, new)
  PROVE  \E r \in rows : MovedFrom(s, r, ids, new)
<1>1. PICK c \in Cleared(ids) : s = [c EXCEPT !.isDefault = @ \/ c.id \in new]
  BY DEF Moved
<1>2. PICK r \in rows : ClearedFrom(c, r, ids)
  BY ClearedRows
<1> DEFINE b == c.isDefault \/ c.id \in new
<1>3. s = [c EXCEPT !.isDefault = b]
  BY <1>1
<1>4. b \in BOOLEAN /\ (b <=> c.isDefault \/ c.id \in new)
  OBVIOUS
<1>5. c.id \notin new => c.isDefault = b
  BY <1>2, RowOfRows DEF ClearedFrom
<1> HIDE DEF b
<1>6. /\ s \in Rows /\ s.id = c.id /\ s.user = c.user /\ s.ws = c.ws /\ s.role = c.role
      /\ s.founder = c.founder /\ s.isDefault = b /\ (c.isDefault = b => s = c)
  BY <1>2, <1>3, <1>4, RowWritten DEF ClearedFrom
<1> QED
  BY <1>2, <1>4, <1>5, <1>6 DEF ClearedFrom, MovedFrom

LEMMA FromMoved == ASSUME WorkspaceTypeOK, RowsSound, NEW ids, NEW new PROVE From(Moved(ids, new))
<1>1. \A s \in Moved(ids, new) : \E r \in rows :
        s.id = r.id /\ s.user = r.user /\ s.ws = r.ws /\ s.founder = r.founder /\ s \in Rows
  BY MovedRows DEF MovedFrom
<1>2. ASSUME NEW s \in Moved(ids, new), NEW t \in Moved(ids, new), s.id = t.id PROVE s = t
  <2>1. PICK c \in Cleared(ids) : s = [c EXCEPT !.isDefault = @ \/ c.id \in new]
    BY DEF Moved
  <2>2. PICK d \in Cleared(ids) : t = [d EXCEPT !.isDefault = @ \/ d.id \in new]
    BY DEF Moved
  <2>3. From(Cleared(ids))
    BY FromCleared
  <2>4. c \in Rows /\ d \in Rows
    BY <2>3 DEF From
  <2>5. s.id = c.id /\ t.id = d.id
    BY <2>1, <2>2, <2>4 DEF Rows
  <2>6. c = d
    BY <1>2, <2>3, <2>5 DEF From
  <2> QED
    BY <2>1, <2>2, <2>6
<1> QED
  BY <1>1, <1>2 DEF From

(* What writing a role back leaves.                                        *)
Rewritten(read) ==
  {IF r.id = read.id THEN [r EXCEPT !.role = read.role, !.isDefault = read.isDefault] ELSE r : r \in rows}

RewrittenFrom(s, r, read) ==
  /\ s \in Rows /\ s.id = r.id /\ s.user = r.user /\ s.ws = r.ws /\ s.founder = r.founder
  /\ r.id # read.id => s = r
  /\ r.id = read.id => s.role = read.role /\ s.isDefault = read.isDefault

LEMMA RewrittenRows ==
  ASSUME WorkspaceTypeOK, NEW read \in Rows, NEW s \in Rewritten(read)
  PROVE  \E r \in rows : RewrittenFrom(s, r, read)
<1>1. PICK r \in rows :
        s = IF r.id = read.id THEN [r EXCEPT !.role = read.role, !.isDefault = read.isDefault] ELSE r
  BY DEF Rewritten
<1>2. r \in Rows /\ read.role \in Roles /\ read.isDefault \in BOOLEAN
  BY RowOfRows DEF WorkspaceTypeOK
<1>3. CASE r.id = read.id
  <2> DEFINE t == [r EXCEPT !.role = read.role, !.isDefault = read.isDefault]
  <2>1. s = t
    BY <1>1, <1>3
  <2>2. /\ t \in Rows /\ t.id = r.id /\ t.user = r.user /\ t.ws = r.ws /\ t.role = read.role
        /\ t.founder = r.founder /\ t.isDefault = read.isDefault
    BY <1>2, RoleWritten
  <2> HIDE DEF t
  <2>3. RewrittenFrom(s, r, read)
    BY <1>3, <2>1, <2>2 DEF RewrittenFrom
  <2> QED
    BY <2>3
<1>4. CASE r.id # read.id
  BY <1>1, <1>2, <1>4 DEF RewrittenFrom
<1> QED
  BY <1>3, <1>4

LEMMA FromRewritten == ASSUME WorkspaceTypeOK, RowsSound, NEW read \in Rows PROVE From(Rewritten(read))
<1>1. \A s \in Rewritten(read) : \E r \in rows :
        s.id = r.id /\ s.user = r.user /\ s.ws = r.ws /\ s.founder = r.founder /\ s \in Rows
  BY RewrittenRows DEF RewrittenFrom
<1>2. ASSUME NEW s \in Rewritten(read), NEW t \in Rewritten(read), s.id = t.id PROVE s = t
  <2> DEFINE F(r) == IF r.id = read.id THEN [r EXCEPT !.role = read.role, !.isDefault = read.isDefault] ELSE r
  <2>1. \A r \in rows : F(r).id = r.id
    BY DEF WorkspaceTypeOK, Rows
  <2>2. PICK r \in rows : s = F(r)
    BY DEF Rewritten
  <2>3. PICK q \in rows : t = F(q)
    BY DEF Rewritten
  <2> HIDE DEF F
  <2>4. r = q
    BY <1>2, <2>1, <2>2, <2>3 DEF RowsSound
  <2> QED
    BY <2>2, <2>3, <2>4
<1> QED
  BY <1>1, <1>2 DEF From

-----------------------------------------------------------------------------
LEMMA SoundRewrite ==
  ASSUME WorkspaceTypeOK, RowsSound, From(rows'), nextId' = nextId, users' = users,
         \A r \in rows' : r.ws \in workspaces'
  PROVE  RowsSound'
BY DEF RowsSound, From

LEMMA SoundInsert ==
  ASSUME WorkspaceTypeOK, RowsSound, NEW into, From(into), NEW row, Insert(row, into),
         row.id = nextId, row.user \in users', row.ws \in workspaces',
         users \subseteq users', workspaces \subseteq workspaces',
         \A r \in rows : ~(r.user = row.user /\ r.ws = row.ws)
  PROVE  RowsSound'
<1>1. rows' = into \cup {row} /\ nextId' = nextId + 1 /\ nextId \in Int
  BY DEF Insert, WorkspaceTypeOK
<1>2. \A s \in into : /\ s.id < nextId /\ s.id \in Int /\ s.user \in users /\ s.ws \in workspaces
                       /\ ~(s.user = row.user /\ s.ws = row.ws)
  <2> SUFFICES ASSUME NEW s \in into PROVE <1>2!(s)
    OBVIOUS
  <2>1. PICK r \in rows : s.id = r.id /\ s.user = r.user /\ s.ws = r.ws
    BY DEF From
  <2>2. r \in Rows /\ r.id \in Int
    BY DEF WorkspaceTypeOK, Rows, RowIds
  <2> QED
    BY <2>1, <2>2 DEF RowsSound
<1>3. \A s, t \in into : s.user = t.user /\ s.ws = t.ws => s = t
  BY DEF From, RowsSound
<1>4. \A s \in rows' : s.id < nextId' /\ s.user \in users' /\ s.ws \in workspaces'
  BY <1>1, <1>2
<1>5. \A s, t \in rows' : s.id = t.id => s = t
  BY <1>1, <1>2 DEF From
<1>6. \A s, t \in rows' : s.user = t.user /\ s.ws = t.ws => s = t
  BY <1>1, <1>2, <1>3
<1> QED
  BY <1>4, <1>5, <1>6 DEF RowsSound

(* The other requests go on counting on what they have read.               *)
Grows ==
  /\ users \subseteq users' /\ nextId <= nextId'
  /\ \A i \in Invites : invites[i] # NotYet =>
       /\ invites'[i] # NotYet
       /\ invites'[i] \in Codes => invites[i] \in Codes /\ invites'[i].ws = invites[i].ws

LEMMA CallStaysSound ==
  ASSUME WorkspaceTypeOK, WorkspaceTypeOK', Grows, NEW p \in Requests, CallSound(p), req'[p] = req[p]
  PROVE  CallSound(p)'
<1>1. req[p] \in Calls
  BY DEF WorkspaceTypeOK
<1>2. nextId \in Int /\ nextId' \in Int /\ nextId <= nextId'
  BY DEF WorkspaceTypeOK, Grows
<1>3. \A n \in RowIds : n < nextId => n < nextId'
  BY <1>2 DEF RowIds
<1>4. req[p].op \in {"create", "set"} => \A id \in req[p].scan : id < nextId'
  BY <1>1, <1>3, CallFields DEF CallSound
<1>5. req[p].op = "role" => req[p].row.id < nextId'
  <2> SUFFICES ASSUME req[p].op = "role" PROVE req[p].row.id < nextId'
    OBVIOUS
  <2>1. req[p].row.id \in RowIds
    BY <1>1, CallFields, RowOfRows
  <2> QED
    BY <1>3, <2>1 DEF CallSound
<1>6. req[p].op = "accept" =>
        /\ invites'[req[p].invite] # NotYet
        /\ invites'[req[p].invite] \in Codes => invites'[req[p].invite].ws = req[p].ws
  BY <1>1, CallFields DEF CallSound, Grows
<1>7. /\ req[p].op = "add" => req[p].target \in users'
      /\ req[p].op # "idle" => req[p].user \in users'
  BY DEF CallSound, Grows
<1> QED
  BY <1>4, <1>5, <1>6, <1>7 DEF CallSound

LEMMA CodeStaysSound ==
  ASSUME NEW i \in Invites, CodeSound(i), invites'[i] = invites[i], admitted'[i] = admitted[i],
         invites[i] \in Codes => invites[i].ws \in workspaces'
  PROVE  CodeSound(i)'
BY DEF CodeSound

(* A step of p that keeps the rest sound.                                  *)
LEMMA InvAfter ==
  ASSUME WorkspaceInv, WorkspaceTypeOK', RowsSound', Grows, NEW p \in Requests, CallSound(p)',
         \A q \in Requests \ {p} : req'[q] = req[q],
         \A i \in Invites : CodeSound(i)'
  PROVE  WorkspaceInv'
<1>1. \A q \in Requests \ {p} : CallSound(q)'
  BY CallStaysSound DEF WorkspaceInv
<1> QED
  BY <1>1 DEF WorkspaceInv

(* A request goes on, and the histories take note.                         *)
LEMMA Proceeds ==
  ASSUME WorkspaceTypeOK, NEW p \in Requests, NEW c \in Calls, Proceed(p, c)
  PROVE  /\ req' \in [Requests -> Calls] /\ req'[p] = c /\ \A q \in Requests \ {p} : req'[q] = req[q]
         /\ crossed' \subseteq Users /\ beside' \in [Users -> Nat]
         /\ crossed \subseteq crossed' /\ Crossing' \subseteq crossed'
         /\ \A u \in Users : Cardinality(Founding(u)') <= beside'[u] /\ beside[u] <= beside'[u]
<1>1. /\ req' \in [Requests -> Calls] /\ req'[p] = c /\ \A q \in Requests \ {p} : req'[q] = req[q]
  BY DEF Proceed, WorkspaceTypeOK
<1>2. crossed' = crossed \cup Crossing' /\ Crossing' \subseteq Users
  BY DEF Proceed, Crossing
<1>3. ASSUME NEW u \in Users
      PROVE  /\ beside'[u] \in Nat /\ Cardinality(Founding(u)') <= beside'[u] /\ beside[u] <= beside'[u]
  <2> DEFINE n == Cardinality(Founding(u)')
  <2>1. Founding(u)' \in SUBSET Requests
    BY DEF Founding
  <2>2. n \in Nat
    BY <2>1, FS_Subset, FS_CardinalityType, WorkspaceAssumption DEF WorkspaceAssumption
  <2>3. beside'[u] = IF n > beside[u] THEN n ELSE beside[u]
    BY DEF Proceed
  <2>4. beside[u] \in Nat
    BY DEF WorkspaceTypeOK
  <2> HIDE DEF n
  <2>5. beside'[u] \in Nat /\ n <= beside'[u] /\ beside[u] <= beside'[u]
    BY <2>2, <2>3, <2>4
  <2> QED
    BY <2>5 DEF n
<1>4. beside' \in [Users -> Nat]
  <2>1. \E f : beside' = [u \in Users |-> f[u]]
    <3>1. beside' = [u \in Users |-> beside'[u]]
      BY DEF Proceed
    <3> QED
      BY <3>1
  <2> QED
    BY <1>3, <2>1
<1> QED
  BY <1>1, <1>2, <1>3, <1>4 DEF WorkspaceTypeOK

LEMMA Replies ==
  ASSUME WorkspaceTypeOK, NEW p \in Requests, Reply(p)
  PROVE  /\ req' \in [Requests -> Calls] /\ req'[p] = Idle /\ \A q \in Requests \ {p} : req'[q] = req[q]
         /\ crossed' \subseteq Users /\ beside' \in [Users -> Nat]
         /\ crossed \subseteq crossed' /\ Crossing' \subseteq crossed'
         /\ \A u \in Users : Cardinality(Founding(u)') <= beside'[u] /\ beside[u] <= beside'[u]
BY Proceeds, CallsMade DEF Reply

LEMMA IdleIsSound ==
  ASSUME NEW p \in Requests, req'[p] = Idle
  PROVE  CallSound(p)'
BY DEF CallSound, Idle

(* A request that starts, or goes on, changes only what it has read.       *)
LEMMA InvCall ==
  ASSUME WorkspaceInv, OnlyCall, NEW p \in Requests, NEW c \in Calls, Proceed(p, c), CallSound(p)'
  PROVE  WorkspaceInv'
<1>1. WorkspaceTypeOK'
  BY Proceeds DEF WorkspaceInv, WorkspaceTypeOK, OnlyCall
<1>2. RowsSound' /\ Grows /\ \A i \in Invites : CodeSound(i)'
  BY DEF WorkspaceInv, WorkspaceTypeOK, RowsSound, Grows, CodeSound, OnlyCall
<1>3. \A q \in Requests \ {p} : req'[q] = req[q]
  BY Proceeds DEF WorkspaceInv
<1> QED
  BY <1>1, <1>2, <1>3, InvAfter

LEMMA InvRefused == ASSUME WorkspaceInv, NEW p \in Requests, Refused(p) PROVE WorkspaceInv'
<1>1. CallSound(p)'
  BY IdleIsSound, Replies DEF Refused, WorkspaceInv
<1> QED
  BY <1>1, InvCall, CallsMade DEF Refused, Reply, OnlyCall

(* A request that ends, and has changed only rows.                         *)
LEMMA InvRows ==
  ASSUME WorkspaceInv, OnlyRows, nextId' = nextId, NEW p \in Requests, Reply(p), From(rows')
  PROVE  WorkspaceInv'
<1>1. WorkspaceTypeOK'
  BY Replies DEF WorkspaceInv, WorkspaceTypeOK, OnlyRows, From
<1>2. RowsSound'
  <2>1. \A r \in rows' : r.ws \in workspaces'
    BY DEF WorkspaceInv, RowsSound, From, OnlyRows
  <2> QED
    BY <2>1, SoundRewrite DEF WorkspaceInv, OnlyRows
<1>3. Grows /\ \A i \in Invites : CodeSound(i)'
  BY DEF WorkspaceInv, WorkspaceTypeOK, Grows, CodeSound, OnlyRows
<1>4. CallSound(p)' /\ \A q \in Requests \ {p} : req'[q] = req[q]
  BY IdleIsSound, Replies DEF WorkspaceInv
<1> QED
  BY <1>1, <1>2, <1>3, <1>4, InvAfter

LEMMA InsertTyped ==
  ASSUME WorkspaceTypeOK, NEW into, into \subseteq Rows, NEW row \in Rows, Insert(row, into)
  PROVE  rows' \subseteq Rows /\ nextId' \in 1..MaxRow + 1 /\ nextId <= nextId'
BY WorkspaceAssumption DEF WorkspaceAssumption, WorkspaceTypeOK, Insert

LEMMA NextIdIsRowId == WorkspaceTypeOK /\ nextId <= MaxRow => nextId \in RowIds
BY WorkspaceAssumption DEF WorkspaceAssumption, WorkspaceTypeOK, RowIds

LEMMA InvInit == WorkspaceInit => WorkspaceInv
<1> SUFFICES ASSUME WorkspaceInit PROVE WorkspaceInv
  OBVIOUS
<1>1. WorkspaceTypeOK
  BY WorkspaceAssumption, CallsMade
     DEF WorkspaceAssumption, WorkspaceInit, WorkspaceTypeOK, InviteStates
<1>2. RowsSound
  BY DEF WorkspaceInit, RowsSound
<1>3. \A i \in Invites : CodeSound(i)
  BY InviteFields DEF WorkspaceInit, CodeSound, InviteStates
<1>4. \A p \in Requests : CallSound(p)
  BY DEF WorkspaceInit, CallSound, Idle
<1> QED
  BY <1>1, <1>2, <1>3, <1>4 DEF WorkspaceInv

LEMMA InvSignUp ==
  ASSUME WorkspaceInv, NEW u \in Users, NEW w \in Ids, SignUp(u, w)
  PROVE  WorkspaceInv'
<1> DEFINE row == NewRow(u, w, "OWNER", TRUE)
<1> USE DEF WorkspaceInv
<1>1. /\ row \in Rows /\ row.id = nextId /\ row.user = u /\ row.ws = w
  BY NextIdIsRowId DEF SignUp, Insert, NewRow, Rows, Roles
<1>2. /\ Insert(row, rows) /\ users' = users \cup {u} /\ workspaces' = workspaces \cup {w}
      /\ spent' = spent \cup {w} /\ w \notin spent
      /\ UNCHANGED <<invites, admitted, req, crossed, beside>>
  BY DEF SignUp
<1> HIDE DEF row
<1>3. From(rows) /\ rows \subseteq Rows
  BY FromRows DEF WorkspaceTypeOK
<1>4. rows' \subseteq Rows /\ nextId' \in 1..MaxRow + 1 /\ nextId <= nextId'
  BY <1>1, <1>2, <1>3, InsertTyped
<1>5. WorkspaceTypeOK'
  BY <1>2, <1>4 DEF WorkspaceTypeOK
<1>6. RowsSound'
  <2>1. \A r \in rows : ~(r.user = row.user /\ r.ws = row.ws)
    BY <1>1, <1>2 DEF RowsSound, WorkspaceTypeOK
  <2> QED
    BY <1>1, <1>2, <1>3, <2>1, SoundInsert
<1>7. Grows
  BY <1>2, <1>4 DEF Grows
<1>8. \A i \in Invites : CodeSound(i)'
  BY <1>2, CodeStaysSound DEF CodeSound
<1>9. \A p \in Requests : CallSound(p)'
  BY <1>2, <1>5, <1>7, CallStaysSound
<1> QED
  BY <1>5, <1>6, <1>8, <1>9

LEMMA InvCreate ==
  ASSUME WorkspaceInv, NEW p \in Requests, NEW w \in Ids, FinishCreate(p, w)
  PROVE  WorkspaceInv'
<1> DEFINE row == NewRow(req[p].user, w, "OWNER", req[p].default)
           into == Cleared(req[p].scan)
<1> USE DEF WorkspaceInv
<1>0. req[p].op = "create" /\ req[p].user \in Users /\ req[p].default \in BOOLEAN
  BY CallFields DEF FinishCreate, WorkspaceTypeOK
<1>1. /\ row \in Rows /\ row.id = nextId /\ row.user = req[p].user /\ row.ws = w
  BY <1>0, NextIdIsRowId DEF FinishCreate, Insert, NewRow, Rows, Roles
<1>2. /\ Insert(row, into) /\ users' = users /\ workspaces' = workspaces \cup {w}
      /\ spent' = spent \cup {w} /\ w \notin spent
      /\ UNCHANGED <<invites, admitted>> /\ Reply(p)
  BY DEF FinishCreate
<1>3. From(into)
  BY FromCleared
<1> HIDE DEF row, into
<1>4. rows' \subseteq Rows /\ nextId' \in 1..MaxRow + 1 /\ nextId <= nextId'
  BY <1>1, <1>2, <1>3, InsertTyped DEF From
<1>5. WorkspaceTypeOK'
  BY <1>2, <1>4, Replies DEF WorkspaceTypeOK
<1>6. RowsSound'
  <2>1. \A r \in rows : ~(r.user = row.user /\ r.ws = row.ws)
    BY <1>1, <1>2 DEF RowsSound, WorkspaceTypeOK
  <2>2. row.user \in users'
    BY <1>0, <1>1, <1>2 DEF CallSound
  <2> QED
    BY <1>1, <1>2, <1>3, <2>1, <2>2, SoundInsert
<1>7. Grows
  BY <1>2, <1>4 DEF Grows
<1>8. \A i \in Invites : CodeSound(i)'
  BY <1>2, CodeStaysSound DEF CodeSound
<1>9. CallSound(p)' /\ \A q \in Requests \ {p} : req'[q] = req[q]
  BY <1>2, Replies, IdleIsSound
<1> QED
  BY <1>5, <1>6, <1>7, <1>8, <1>9, InvAfter

LEMMA InvInvite ==
  ASSUME WorkspaceInv, NEW p \in Requests, NEW i \in Invites, NEW role \in Given \ {"OWNER"},
         FinishInvite(p, i, role)
  PROVE  WorkspaceInv'
<1> DEFINE code == [state |-> "code", ws |-> req[p].ws, role |-> role, usedBy |-> NoOne]
<1> USE DEF WorkspaceInv
<1>1. /\ req[p].op = "invite" /\ invites[i] = NotYet /\ req[p].ws \in workspaces
      /\ invites' = [invites EXCEPT ![i] = code]
      /\ Reply(p) /\ UNCHANGED <<users, workspaces, spent, rows, nextId, admitted>>
  BY DEF FinishInvite
<1>2. role \in {"ADMIN", "USER"} /\ req[p].ws \in Ids
  BY <1>1, CallFields, WorkspaceAssumption DEF WorkspaceAssumption, WorkspaceTypeOK
<1>3. code \in Codes /\ code.ws = req[p].ws /\ code.usedBy = NoOne
  BY <1>2 DEF Codes
<1> HIDE DEF code
<1>4. code \in InviteStates /\ code # NotYet /\ code # Gone
  BY <1>3, InviteFields DEF InviteStates
<1>5. WorkspaceTypeOK'
  BY <1>1, <1>4, Replies DEF WorkspaceTypeOK
<1>6. RowsSound'
  BY <1>1 DEF RowsSound
<1>7. Grows
  BY <1>1 DEF Grows, WorkspaceTypeOK
<1>8. ASSUME NEW j \in Invites PROVE CodeSound(j)'
  <2>1. CASE j = i
    <3>1. invites'[j] = code /\ admitted'[j] = {}
      BY <1>1, <2>1 DEF WorkspaceTypeOK, CodeSound
    <3> QED
      BY <1>1, <1>3, <1>4, <3>1 DEF CodeSound
  <2>2. CASE j # i
    BY <1>1, <2>2, CodeStaysSound DEF WorkspaceTypeOK, CodeSound
  <2> QED
    BY <2>1, <2>2
<1>9. CallSound(p)' /\ \A q \in Requests \ {p} : req'[q] = req[q]
  BY <1>1, Replies, IdleIsSound
<1> QED
  BY <1>5, <1>6, <1>7, <1>8, <1>9, InvAfter

LEMMA InvAccept ==
  ASSUME WorkspaceInv, NEW p \in Requests, FinishAccept(p)
  PROVE  WorkspaceInv'
<1> DEFINE u == req[p].user
           i == req[p].invite
           w == req[p].ws
           row == NewRow(u, w, invites[i].role, FALSE)
<1> USE DEF WorkspaceInv
<1>0. req[p].op = "accept" /\ u \in Users /\ i \in Invites /\ w \in Ids /\ req[p] \in Calls
  BY CallFields DEF FinishAccept, WorkspaceTypeOK
<1>1. CASE Refused(p)
  BY <1>1, InvRefused
<1>2. CASE Claimable(p) /\ Member(u, w) = {}
  <2>1. /\ invites' = [invites EXCEPT ![i].usedBy = u]
        /\ admitted' = [admitted EXCEPT ![i] = @ \cup {u}]
        /\ Insert(row, rows) /\ Reply(p) /\ UNCHANGED <<users, workspaces, spent>>
    BY <1>2 DEF FinishAccept
  <2>2. /\ invites[i] \in Codes /\ invites[i].usedBy = NoOne /\ invites[i].ws = w
        /\ invites[i].role \in Roles /\ w \in workspaces /\ u \in users /\ admitted[i] = {}
    <3>1. invites[i] \in InviteStates
      BY <1>0 DEF WorkspaceTypeOK
    <3>2. invites[i] \in Codes /\ invites[i].usedBy = NoOne
      BY <1>0, <1>2, <3>1, InviteFields DEF Claimable, CallSound
    <3> QED
      BY <1>0, <3>1, <3>2, InviteFields DEF CallSound, CodeSound, Roles
  <2>3. /\ row \in Rows /\ row.id = nextId /\ row.user = u /\ row.ws = w
    BY <1>0, <2>1, <2>2, NextIdIsRowId DEF Insert, NewRow, Rows
  <2>4. /\ invites'[i] \in Codes /\ invites'[i].ws = w /\ invites'[i].usedBy = u
        /\ \A j \in Invites \ {i} : invites'[j] = invites[j] /\ admitted'[j] = admitted[j]
        /\ admitted'[i] = {u}
    BY <1>0, <2>1, <2>2 DEF WorkspaceTypeOK, Codes
  <2> HIDE DEF row, u, i, w
  <2>5. From(rows) /\ rows \subseteq Rows
    BY FromRows DEF WorkspaceTypeOK
  <2>6. rows' \subseteq Rows /\ nextId' \in 1..MaxRow + 1 /\ nextId <= nextId'
    BY <2>1, <2>3, <2>5, InsertTyped
  <2>7. WorkspaceTypeOK'
    <3>1. \A j \in Invites : invites'[j] \in InviteStates /\ admitted'[j] \in SUBSET Users
      BY <1>0, <2>4 DEF WorkspaceTypeOK, InviteStates
    <3>2. invites' \in [Invites -> InviteStates] /\ admitted' \in [Invites -> SUBSET Users]
      BY <1>0, <2>1, <3>1 DEF WorkspaceTypeOK
    <3> QED
      BY <2>1, <2>6, <3>2, Replies DEF WorkspaceTypeOK
  <2>8. RowsSound'
    <3>1. \A r \in rows : ~(r.user = row.user /\ r.ws = row.ws)
      BY <1>2, <2>3 DEF Member, u, w
    <3> QED
      BY <2>1, <2>2, <2>3, <2>5, <3>1, SoundInsert
  <2>9. Grows
    <3>1. invites'[i] # NotYet
      BY <1>0, <2>4, <2>7, InviteFields DEF WorkspaceTypeOK
    <3> QED
      BY <1>0, <2>1, <2>2, <2>4, <2>6, <3>1 DEF Grows
  <2>10. ASSUME NEW j \in Invites PROVE CodeSound(j)'
    <3>1. CASE j = i
      <4>1. invites'[i] # NotYet /\ u # NoOne
        BY <1>0, <2>4, <2>7, InviteFields, WorkspaceAssumption DEF WorkspaceTypeOK, WorkspaceAssumption
      <4> QED
        BY <2>1, <2>2, <2>4, <3>1, <4>1 DEF CodeSound
    <3>2. CASE j # i
      BY <2>1, <2>4, <3>2, CodeStaysSound DEF CodeSound
    <3> QED
      BY <3>1, <3>2
  <2>11. CallSound(p)' /\ \A q \in Requests \ {p} : req'[q] = req[q]
    BY <2>1, Replies, IdleIsSound
  <2> QED
    BY <2>7, <2>8, <2>9, <2>10, <2>11, InvAfter
<1> QED
  BY <1>1, <1>2 DEF FinishAccept

LEMMA InvAdd ==
  ASSUME WorkspaceInv, NEW p \in Requests, NEW role \in Given, FinishAdd(p, role)
  PROVE  WorkspaceInv'
<1> DEFINE t == req[p].target
           w == req[p].ws
           row == NewRow(t, w, role, FALSE)
<1> USE DEF WorkspaceInv
<1>0. req[p].op = "add" /\ t \in Users /\ w \in Ids /\ role \in Roles /\ t \in users
  BY CallFields, WorkspaceAssumption DEF FinishAdd, WorkspaceTypeOK, WorkspaceAssumption, Roles, CallSound
<1>1. CASE Refused(p)
  BY <1>1, InvRefused
<1>2. CASE w \in workspaces /\ Member(t, w) = {}
  <2>1. /\ Insert(row, rows) /\ Reply(p) /\ OnlyRows
    BY <1>2 DEF FinishAdd
  <2>2. /\ row \in Rows /\ row.id = nextId /\ row.user = t /\ row.ws = w
    BY <1>0, <2>1, NextIdIsRowId DEF Insert, NewRow, Rows
  <2>3. \A r \in rows : ~(r.user = row.user /\ r.ws = row.ws)
    BY <1>2, <2>2 DEF Member
  <2> HIDE DEF row, t, w
  <2>4. From(rows) /\ rows \subseteq Rows
    BY FromRows DEF WorkspaceTypeOK
  <2>5. rows' \subseteq Rows /\ nextId' \in 1..MaxRow + 1 /\ nextId <= nextId'
    BY <2>1, <2>2, <2>4, InsertTyped
  <2>6. WorkspaceTypeOK'
    BY <2>1, <2>5, Replies DEF WorkspaceTypeOK, OnlyRows
  <2>7. RowsSound'
    BY <1>0, <1>2, <2>1, <2>2, <2>3, <2>4, SoundInsert DEF OnlyRows
  <2>8. Grows /\ \A i \in Invites : CodeSound(i)'
    BY <2>1, <2>5 DEF Grows, OnlyRows, CodeSound
  <2>9. CallSound(p)' /\ \A q \in Requests \ {p} : req'[q] = req[q]
    BY <2>1, Replies, IdleIsSound
  <2> QED
    BY <2>6, <2>7, <2>8, <2>9, InvAfter
<1> QED
  BY <1>1, <1>2 DEF FinishAdd

LEMMA InvDelete ==
  ASSUME WorkspaceInv, NEW p \in Requests, FinishDelete(p)
  PROVE  WorkspaceInv'
<1> DEFINE w == req[p].ws
<1> USE DEF WorkspaceInv
<1>1. /\ workspaces' = workspaces \ {w} /\ rows' = {r \in rows : r.ws # w}
      /\ \A i \in Invites : invites'[i] = IF invites[i] \in Codes /\ invites[i].ws = w THEN Gone ELSE invites[i]
      /\ invites' = [i \in Invites |-> invites'[i]]
      /\ Reply(p) /\ UNCHANGED <<users, spent, nextId, admitted>>
  BY DEF FinishDelete
<1> HIDE DEF w
<1>2. WorkspaceTypeOK'
  <2>1. \A i \in Invites : invites'[i] \in InviteStates
    BY <1>1 DEF InviteStates, WorkspaceTypeOK
  <2>2. invites' \in [Invites -> InviteStates]
    BY <1>1, <2>1
  <2>3. rows' \subseteq Rows
    BY <1>1 DEF WorkspaceTypeOK
  <2>4. req' \in [Requests -> Calls] /\ crossed' \subseteq Users /\ beside' \in [Users -> Nat]
    BY <1>1, Replies
  <2> QED
    BY <1>1, <2>2, <2>3, <2>4 DEF WorkspaceTypeOK
<1>3. RowsSound'
  BY <1>1 DEF RowsSound
<1>4. \A i \in Invites : invites[i] \in InviteStates
  BY DEF WorkspaceTypeOK
<1>5. Gone # NotYet /\ Gone \notin Codes
  BY InviteFields DEF InviteStates, Gone, NotYet
<1>6. Grows
  <2>1. nextId <= nextId'
    BY <1>1 DEF WorkspaceTypeOK
  <2> QED
    BY <1>1, <1>5, <2>1 DEF Grows
<1>7. ASSUME NEW i \in Invites PROVE CodeSound(i)'
  <2>1. CASE invites[i] \in Codes /\ invites[i].ws = w
    BY <1>1, <1>5, <2>1 DEF CodeSound
  <2>2. CASE ~(invites[i] \in Codes /\ invites[i].ws = w)
    BY <1>1, <2>2 DEF CodeSound
  <2> QED
    BY <2>1, <2>2
<1>8. CallSound(p)' /\ \A q \in Requests \ {p} : req'[q] = req[q]
  BY <1>1, Replies, IdleIsSound
<1> QED
  BY <1>2, <1>3, <1>6, <1>7, <1>8, InvAfter

LEMMA DefaultsAreRowIds ==
  ASSUME WorkspaceTypeOK, RowsSound, NEW u
  PROVE  /\ Defaults(u) \in SUBSET RowIds
         /\ \A id \in Defaults(u) : id < nextId
         /\ \A r \in rows : r.id \in Defaults(u) <=> r.user = u /\ r.isDefault
BY DEF Defaults, WorkspaceTypeOK, Rows, RowsSound

LEMMA InvStart == ASSUME WorkspaceInv, NEW p \in Requests, Start(p) PROVE WorkspaceInv'
<1> USE DEF WorkspaceInv
<1>1. PICK u \in Users :
    \/ \E d \in BOOLEAN : StartCreate(p, u, d)
    \/ \E i \in Invites : StartAccept(p, u, i)
    \/ \E w \in Ids :
         \/ StartDefault(p, u, w)
         \/ StartInvite(p, u, w)
         \/ StartDelete(p, u, w)
         \/ \E t \in Users : StartAdd(p, u, t, w) \/ StartRemove(p, u, t, w)
         \/ \E role \in Given : StartRole(p, u, w, role)
  BY DEF Start
<1>u. u \in users
  BY <1>1 DEF StartCreate, StartAccept, StartDefault, StartInvite, StartDelete, StartAdd, StartRemove,
              StartRole, Free
<1>2. ASSUME NEW d \in BOOLEAN, StartCreate(p, u, d) PROVE WorkspaceInv'
  <2> DEFINE c == [op |-> "found", user |-> u, default |-> d]
  <2>1. Proceed(p, c) /\ OnlyCall /\ c \in Calls /\ c.op = "found" /\ c.user = u
    BY <1>2, CallsMade DEF StartCreate
  <2> HIDE DEF c
  <2>2. CallSound(p)'
    BY <1>u, <2>1, Proceeds DEF CallSound, OnlyCall
  <2> QED
    BY <2>1, <2>2, InvCall
<1>3. ASSUME NEW i \in Invites, StartAccept(p, u, i) PROVE WorkspaceInv'
  <2> DEFINE c == [op |-> "accept", user |-> u, invite |-> i, ws |-> invites[i].ws]
  <2>1. Proceed(p, c) /\ OnlyCall /\ invites[i] \in Codes
    BY <1>3 DEF StartAccept
  <2>2. invites[i].ws \in Ids /\ invites[i] # NotYet
    BY <2>1, InviteFields DEF WorkspaceTypeOK
  <2>3. c \in Calls /\ c.op = "accept" /\ c.user = u /\ c.invite = i /\ c.ws = invites[i].ws
    BY <2>2, CallsMade
  <2> HIDE DEF c
  <2>4. CallSound(p)'
    BY <1>u, <2>1, <2>2, <2>3, Proceeds DEF CallSound, OnlyCall
  <2> QED
    BY <2>1, <2>3, <2>4, InvCall
<1>4. ASSUME NEW c \in Calls, c.op \in {"clear", "invite", "delete", "find"}, c.user = u, Proceed(p, c), OnlyCall
      PROVE WorkspaceInv'
  <2>1. CallSound(p)'
    BY <1>u, <1>4, Proceeds DEF CallSound, OnlyCall
  <2> QED
    BY <1>4, <2>1, InvCall
<1>5. ASSUME NEW op \in {"clear", "invite", "delete"}, NEW w \in Ids,
             Proceed(p, [op |-> op, user |-> u, ws |-> w]), OnlyCall
      PROVE  WorkspaceInv'
  <2> DEFINE c == [op |-> op, user |-> u, ws |-> w]
  <2>1. c \in Calls /\ c.op = op /\ c.user = u
    BY CallsMade
  <2> HIDE DEF c
  <2> QED
    BY <1>4, <1>5, <2>1 DEF c
<1>6. ASSUME NEW w \in Ids, NEW t \in Users, StartRemove(p, u, t, w) PROVE WorkspaceInv'
  <2> DEFINE c == [op |-> "find", user |-> u, target |-> t, ws |-> w]
  <2>1. c \in Calls /\ c.op = "find" /\ c.user = u /\ Proceed(p, c) /\ OnlyCall
    BY <1>6, CallsMade DEF StartRemove
  <2> HIDE DEF c
  <2> QED
    BY <1>4, <2>1
<1>7. ASSUME NEW w \in Ids, NEW t \in Users, StartAdd(p, u, t, w) PROVE WorkspaceInv'
  <2> DEFINE c == [op |-> "add", user |-> u, target |-> t, ws |-> w]
  <2>1. /\ c \in Calls /\ c.op = "add" /\ c.user = u /\ c.target = t /\ Proceed(p, c) /\ OnlyCall
        /\ t \in users
    BY <1>7, CallsMade DEF StartAdd
  <2> HIDE DEF c
  <2>2. CallSound(p)'
    BY <1>u, <2>1, Proceeds DEF CallSound, OnlyCall
  <2> QED
    BY <2>1, <2>2, InvCall
<1>8. ASSUME NEW w \in Ids, NEW role \in Given, StartRole(p, u, w, role) PROVE WorkspaceInv'
  <2>1. PICK row \in Member(u, w) :
          /\ Proceed(p, [op |-> "role", user |-> u, row |-> [row EXCEPT !.role = role]])
          /\ role # "OWNER" /\ OnlyCall
    BY <1>8 DEF StartRole
  <2> DEFINE read == [row EXCEPT !.role = role]
             c == [op |-> "role", user |-> u, row |-> read]
  <2>2. row \in rows /\ row \in Rows /\ role \in Roles
    BY WorkspaceAssumption DEF WorkspaceTypeOK, Member, WorkspaceAssumption, Roles
  <2>3. read \in Rows /\ read.id = row.id /\ read.role = role
    BY <2>2 DEF Rows
  <2>4. row.id < nextId
    BY <2>2 DEF RowsSound
  <2> HIDE DEF read
  <2>5. c \in Calls /\ c.op = "role" /\ c.user = u /\ c.row = read
    BY <2>3, CallsMade
  <2>6. Proceed(p, c) /\ OnlyCall
    BY <2>1 DEF read
  <2> HIDE DEF c
  <2>7. CallSound(p)'
    BY <1>u, <2>1, <2>3, <2>4, <2>5, <2>6, Proceeds DEF CallSound, OnlyCall
  <2> QED
    BY <2>5, <2>6, <2>7, InvCall
<1> QED
  BY <1>1, <1>2, <1>3, <1>5, <1>6, <1>7, <1>8 DEF StartDefault, StartInvite, StartDelete

LEMMA InvFinish == ASSUME WorkspaceInv, NEW p \in Requests, Finish(p) PROVE WorkspaceInv'
<1> USE DEF WorkspaceInv
<1>0. req[p] \in Calls
  BY DEF WorkspaceTypeOK
<1>1. CASE ClearDefault(p)
  <2> DEFINE s == Defaults(req[p].user)
             c == [op |-> "set", user |-> req[p].user, ws |-> req[p].ws, scan |-> s]
  <2>1. req[p].user \in Users /\ req[p].ws \in Ids /\ req[p].user \in users
    BY <1>0, <1>1, CallFields DEF ClearDefault, CallSound
  <2>2. s \in SUBSET RowIds /\ \A id \in s : id < nextId
    BY DefaultsAreRowIds
  <2>3. Proceed(p, c) /\ OnlyCall
    BY <1>1 DEF ClearDefault
  <2>4. c \in Calls /\ c.op = "set" /\ c.user = req[p].user /\ c.scan = s
    BY <2>1, <2>2, CallsMade
  <2> HIDE DEF s, c
  <2>5. CallSound(p)'
    BY <2>1, <2>2, <2>3, <2>4, Proceeds DEF CallSound, OnlyCall
  <2> QED
    BY <2>3, <2>4, <2>5, InvCall
<1>6. CASE ReplaceDefault(p)
  <2> DEFINE s == IF req[p].default THEN Defaults(req[p].user) ELSE {}
             c == [op |-> "create", user |-> req[p].user, default |-> req[p].default, scan |-> s]
  <2>1. req[p].user \in Users /\ req[p].default \in BOOLEAN /\ req[p].user \in users
    BY <1>0, <1>6, CallFields DEF ReplaceDefault, CallSound
  <2>2. s \in SUBSET RowIds /\ \A id \in s : id < nextId
    BY DefaultsAreRowIds
  <2>3. Proceed(p, c) /\ OnlyCall
    BY <1>6 DEF ReplaceDefault
  <2>4. c \in Calls /\ c.op = "create" /\ c.user = req[p].user /\ c.scan = s
    BY <2>1, <2>2, CallsMade
  <2> HIDE DEF s, c
  <2>5. CallSound(p)'
    BY <2>1, <2>2, <2>3, <2>4, Proceeds DEF CallSound, OnlyCall
  <2> QED
    BY <2>3, <2>4, <2>5, InvCall
<1>2. CASE SetDefault(p)
  <2>1. \E new : rows' = Moved(req[p].scan, new)
    BY <1>2 DEF SetDefault, Moved
  <2>2. From(rows')
    BY <2>1, FromMoved
  <2> QED
    BY <1>2, <2>2, InvRows DEF SetDefault
<1>3. CASE FindTarget(p)
  <2>1. CASE Refused(p)
    BY <2>1, InvRefused
  <2>2. ASSUME NEW row \in Member(req[p].target, req[p].ws), OnlyCall,
               Proceed(p, [op |-> "remove", user |-> req[p].user, row |-> row, before |-> nextId])
        PROVE  WorkspaceInv'
    <3> DEFINE c == [op |-> "remove", user |-> req[p].user, row |-> row, before |-> nextId]
    <3>1. req[p].user \in Users /\ req[p].user \in users /\ row \in rows /\ row \in Rows
      BY <1>0, <1>3, CallFields DEF FindTarget, CallSound, Member, WorkspaceTypeOK
    <3>2. row.id < nextId /\ nextId \in 1..MaxRow + 1
      BY <3>1 DEF RowsSound, WorkspaceTypeOK
    <3>3. c \in Calls /\ c.op = "remove" /\ c.user = req[p].user /\ c.row = row /\ c.before = nextId
      BY <3>1, <3>2, CallsMade
    <3>4. Proceed(p, c)
      BY <2>2
    <3> HIDE DEF c
    <3>5. CallSound(p)'
      BY <2>2, <3>1, <3>2, <3>3, <3>4, Proceeds DEF CallSound, OnlyCall
    <3> QED
      BY <2>2, <3>3, <3>4, <3>5, InvCall
  <2> QED
    BY <1>3, <2>1, <2>2 DEF FindTarget
<1>4. CASE FinishRemove(p)
  BY <1>4, FromRows, InvRows DEF FinishRemove
<1>5. CASE FinishRole(p)
  <2>1. rows' = Rewritten(req[p].row) /\ req[p].row \in Rows
    BY <1>0, <1>5, CallFields DEF FinishRole, Rewritten
  <2> QED
    BY <1>5, <2>1, FromRewritten, InvRows DEF FinishRole
<1> QED
  BY <1>1, <1>2, <1>3, <1>4, <1>5, <1>6, InvCreate, InvInvite, InvAccept, InvAdd, InvDelete DEF Finish

LEMMA InvNext == WorkspaceInv /\ [WorkspaceNext]_workspaceVars => WorkspaceInv'
<1> SUFFICES ASSUME WorkspaceInv, [WorkspaceNext]_workspaceVars PROVE WorkspaceInv'
  OBVIOUS
<1>1. CASE UNCHANGED workspaceVars
  BY <1>1 DEF workspaceVars, WorkspaceInv, WorkspaceTypeOK, RowsSound, CodeSound, CallSound
<1> QED
  BY <1>1, InvSignUp, InvStart, InvFinish, InvRefused DEF WorkspaceNext, Abandon

LEMMA AlwaysSound == WorkspaceSpec => []WorkspaceInv
BY InvInit, InvNext, PTL DEF WorkspaceSpec

(* The tables and what requests hold of them have their types.             *)
THEOREM WorkspaceTypeCorrect == WorkspaceSpec => []WorkspaceTypeOK
<1>1. WorkspaceInv => WorkspaceTypeOK
  BY DEF WorkspaceInv
<1> QED
  BY <1>1, AlwaysSound, PTL

(* However many accepts of one code race, it admits the one user it names, *)
(* and is spent exactly when it has: the claim takes only an unused code   *)
(* and is rolled back with the membership.                                 *)
THEOREM OneUserForACode == WorkspaceSpec => []InviteAdmitsOne
<1>1. WorkspaceInv => InviteAdmitsOne
  <2> SUFFICES ASSUME WorkspaceInv, NEW i \in Invites
               PROVE  /\ Cardinality(admitted[i]) <= 1
                      /\ invites[i] \in Codes => admitted[i] = {invites[i].usedBy} \ {NoOne}
    BY DEF InviteAdmitsOne
  <2>1. CodeSound(i)
    BY DEF WorkspaceInv
  <2>2. CASE admitted[i] = {}
    BY <2>1, <2>2, FS_EmptySet DEF CodeSound
  <2>3. ASSUME NEW u \in admitted[i] PROVE Cardinality(admitted[i]) <= 1
    <3>1. admitted[i] = {u}
      BY <2>1 DEF CodeSound
    <3> QED
      BY <3>1, FS_Singleton
  <2> QED
    BY <2>1, <2>2, <2>3 DEF CodeSound
<1> QED
  BY <1>1, AlwaysSound, PTL

-----------------------------------------------------------------------------
(* A late removal.                                                         *)

IdsStay == \A r \in rows : \E s \in rows' : s.id = r.id

LEMMA RewritesKeepIds ==
  ASSUME WorkspaceTypeOK, NEW r \in rows, NEW ids, NEW new, NEW read \in Rows
  PROVE  /\ \E s \in Cleared(ids) : s.id = r.id
         /\ \E s \in Moved(ids, new) : s.id = r.id
         /\ \E s \in Rewritten(read) : s.id = r.id
<1>0. r \in Rows
  BY DEF WorkspaceTypeOK
<1> DEFINE c == [r EXCEPT !.isDefault = @ /\ r.id \notin ids]
           m == [c EXCEPT !.isDefault = @ \/ c.id \in new]
           w == IF r.id = read.id THEN [r EXCEPT !.role = read.role, !.isDefault = read.isDefault] ELSE r
<1>1. c \in Cleared(ids) /\ c.id = r.id /\ c \in Rows
  BY <1>0 DEF Cleared, Rows
<1>2. m \in Moved(ids, new) /\ m.id = c.id
  <2> HIDE DEF c
  <2> QED
    BY <1>1 DEF Moved, Rows
<1>3. w \in Rewritten(read) /\ w.id = r.id
  BY <1>0 DEF Rewritten, Rows
<1> QED
  BY <1>1, <1>2, <1>3

LEMMA MostKeepIds ==
  ASSUME WorkspaceInv, WorkspaceNext,
         \A p \in Requests : ~FinishRemove(p) /\ ~FinishDelete(p)
  PROVE  IdsStay
<1> USE DEF WorkspaceInv, IdsStay
<1>1. ASSUME rows' = rows PROVE IdsStay
  BY <1>1
<1>2. ASSUME NEW row, Insert(row, rows) PROVE IdsStay
  BY <1>2 DEF Insert
<1>3. ASSUME NEW u \in Users, NEW w \in Ids, SignUp(u, w) PROVE IdsStay
  BY <1>2, <1>3 DEF SignUp
<1>4. ASSUME NEW p \in Requests, Start(p) \/ Abandon(p) PROVE IdsStay
  BY <1>1, <1>4 DEF Start, Abandon, Refused, OnlyCall, StartCreate, StartAccept, StartDefault, StartInvite,
                    StartDelete, StartAdd, StartRemove, StartRole
<1>5. ASSUME NEW p \in Requests, Finish(p) PROVE IdsStay
  <2>1. CASE ClearDefault(p) \/ ReplaceDefault(p) \/ FindTarget(p)
             \/ \E i \in Invites, role \in Given \ {"OWNER"} : FinishInvite(p, i, role)
    BY <1>1, <2>1 DEF ClearDefault, ReplaceDefault, FindTarget, FinishInvite, OnlyCall, Refused
  <2>2. CASE FinishAccept(p) \/ \E role \in Given : FinishAdd(p, role)
    BY <1>1, <1>2, <2>2 DEF FinishAccept, FinishAdd, Refused
  <2>3. CASE \E w \in Ids : FinishCreate(p, w)
    <3>1. Cleared(req[p].scan) \subseteq rows'
      BY <2>3 DEF FinishCreate, Insert
    <3>2. \A r \in rows : \E s \in Cleared(req[p].scan) : s.id = r.id
      <4> SUFFICES ASSUME NEW r \in rows PROVE \E s \in Cleared(req[p].scan) : s.id = r.id
        OBVIOUS
      <4>1. r \in Rows
        BY DEF WorkspaceTypeOK
      <4> QED
        BY <4>1, RewritesKeepIds
    <3> QED
      BY <3>1, <3>2
  <2>4. CASE SetDefault(p)
    <3>1. PICK new : rows' = Moved(req[p].scan, new)
      BY <2>4 DEF SetDefault, Moved
    <3> SUFFICES ASSUME NEW r \in rows PROVE \E s \in rows' : s.id = r.id
      OBVIOUS
    <3>2. r \in Rows
      BY DEF WorkspaceTypeOK
    <3> QED
      BY <3>1, <3>2, RewritesKeepIds
  <2>5. CASE FinishRole(p)
    <3>1. rows' = Rewritten(req[p].row) /\ req[p].row \in Rows
      BY <2>5, CallFields DEF FinishRole, Rewritten, WorkspaceTypeOK
    <3> QED
      BY <3>1, RewritesKeepIds
  <2> QED
    BY <1>5, <2>1, <2>2, <2>3, <2>4, <2>5 DEF Finish
<1> QED
  BY <1>3, <1>4, <1>5 DEF WorkspaceNext

(* A removal that is late does not remove a member who was removed by      *)
(* another and admitted again after it had found him: it deletes the row   *)
(* it found, whose id no later row has.                                    *)
THEOREM LateRemovalSpares == WorkspaceSpec => RemovalSparesTheReadmitted
<1> DEFINE Spares == \A r \in rows : (r.ws \in workspaces' /\ \A s \in rows' : s.id # r.id) =>
                       \E p \in Requests : req[p].op = "remove" /\ req'[p] = Idle /\ r.id < req[p].before
<1>1. WorkspaceInv /\ [WorkspaceNext]_workspaceVars => [Spares]_workspaceVars
  <2> SUFFICES ASSUME WorkspaceInv, WorkspaceNext,
                      NEW r \in rows, r.ws \in workspaces', \A s \in rows' : s.id # r.id
               PROVE  \E p \in Requests : req[p].op = "remove" /\ req'[p] = Idle /\ r.id < req[p].before
    OBVIOUS
  <2>1. PICK p \in Requests : FinishRemove(p) \/ FinishDelete(p)
    BY MostKeepIds DEF IdsStay
  <2>2. ~FinishDelete(p)
    BY DEF FinishDelete
  <2>3. /\ req[p].op = "remove" /\ rows' = {s \in rows : s.id # req[p].row.id} /\ Reply(p)
    BY <2>1, <2>2 DEF FinishRemove
  <2>4. r.id = req[p].row.id
    BY <2>3
  <2>5. req'[p] = Idle /\ CallSound(p)
    BY <2>3, Replies DEF WorkspaceInv
  <2> QED
    BY <2>3, <2>4, <2>5 DEF CallSound
<1>2. WorkspaceSpec => [][Spares]_workspaceVars
  BY <1>1, AlwaysSound, PTL DEF WorkspaceSpec
<1> QED
  BY <1>2 DEF RemovalSparesTheReadmitted
-----------------------------------------------------------------------------
(* The default of a user, and the workspaces he founds.                    *)

(* The rows of u stay as they are or go; he gets plain ones.               *)
Spared(u) == \A s \in rows' : s.user = u => s \in rows \/ (s.id = nextId /\ ~s.isDefault)

(* Ids are not reused.                                                     *)
IdsKept == \A s \in rows' : s.id = nextId \/ \E r \in rows : r.id = s.id /\ r.user = s.user

OwnDefaults(u) == \A r, s \in rows : r.user = u /\ s.user = u /\ r.isDefault /\ s.isDefault => r.id = s.id

(* A call touches the rows of its own user only.                           *)
HoldsOwn(p) ==
  /\ req[p].op \in {"create", "set"} => \A r \in rows : r.id \in req[p].scan => r.user = req[p].user
  /\ req[p].op = "create" /\ ~req[p].default => req[p].scan = {}
  /\ req[p].op = "role" => \A r \in rows : r.id = req[p].row.id => r.user = req[p].user

(* What a call that moves a default has read of it is still so.            *)
Current(p) ==
  /\ req[p].op \in {"create", "set"} =>
       \A r \in rows : r.user = req[p].user /\ r.isDefault => r.id \in req[p].scan
  /\ req[p].op = "role" => \A r \in rows : r.id = req[p].row.id => r.isDefault = req[p].row.isDefault

DefaultsInv ==
  /\ Crossing \subseteq crossed
  /\ \A p \in Requests : HoldsOwn(p)
  /\ \A u \in Users \ crossed : OwnDefaults(u)
  /\ \A u \in Users \ crossed, p \in Requests : Moves(req[p], u) => Current(p)

FounderIds(u) == {r.id : r \in {m \in rows : m.user = u /\ m.role = "OWNER" /\ m.founder}}

(* The workspaces under way count: each has passed the guard.              *)
PlanHolds(u) ==
  /\ 1 <= beside[u]
  /\ MaxWorkspaces # -1 =>
       Cardinality(FounderIds(u)) + Cardinality(Founding(u)) <= MaxWorkspaces + beside[u] - 1

PlanInv == \A u \in Users : PlanHolds(u)

OwnInv == DefaultsInv /\ PlanInv

LEMMA HoldsOwnStays ==
  ASSUME WorkspaceInv, NEW q \in Requests, HoldsOwn(q), req'[q] = req[q], IdsKept
  PROVE  HoldsOwn(q)'
<1>0. req[q] \in Calls /\ CallSound(q) /\ nextId \in Int
  BY DEF WorkspaceInv, WorkspaceTypeOK
<1>1. ASSUME req[q].op \in {"create", "set"}, NEW r \in rows', r.id \in req[q].scan PROVE r.user = req[q].user
  <2>1. r.id # nextId
    BY <1>0, <1>1, CallFields DEF CallSound, RowIds
  <2> QED
    BY <1>1, <2>1 DEF HoldsOwn, IdsKept
<1>2. ASSUME req[q].op = "role", NEW r \in rows', r.id = req[q].row.id PROVE r.user = req[q].user
  <2>1. req[q].row.id \in RowIds
    BY <1>0, <1>2, CallFields, RowOfRows
  <2>2. r.id # nextId
    BY <1>0, <1>2, <2>1 DEF CallSound, RowIds
  <2> QED
    BY <1>2, <2>2 DEF HoldsOwn, IdsKept
<1> QED
  BY <1>1, <1>2 DEF HoldsOwn

LEMMA CurrentStays ==
  ASSUME WorkspaceInv, NEW q \in Requests, HoldsOwn(q)', Current(q), req'[q] = req[q],
         NEW u \in Users, Moves(req[q], u), Spared(u)
  PROVE  Current(q)'
<1>0. req[q] \in Calls /\ CallSound(q) /\ nextId \in Int /\ req[q].user = u
  BY DEF WorkspaceInv, WorkspaceTypeOK, Moves
<1>1. ASSUME req[q].op \in {"create", "set"}, NEW r \in rows', r.user = u, r.isDefault
      PROVE  r.id \in req[q].scan
  BY <1>0, <1>1 DEF Current, Spared
<1>2. ASSUME req[q].op = "role", NEW r \in rows', r.id = req[q].row.id
      PROVE  r.isDefault = req[q].row.isDefault
  <2>1. req[q].row.id \in RowIds
    BY <1>0, <1>2, CallFields, RowOfRows
  <2>2. r.id # nextId
    BY <1>0, <1>2, <2>1 DEF CallSound, RowIds
  <2>3. r.user = u
    BY <1>0, <1>2 DEF HoldsOwn
  <2> QED
    BY <1>2, <2>2, <2>3 DEF Current, Spared
<1> QED
  BY <1>0, <1>1, <1>2 DEF Current

(* A step of p: it spares the rows of everybody but of him whose default it *)
(* moves.                                                                  *)
LEMMA DefaultsAfter ==
  ASSUME WorkspaceInv, DefaultsInv, IdsKept, NEW p \in Requests,
         \A q \in Requests \ {p} : req'[q] = req[q],
         crossed \subseteq crossed', Crossing' \subseteq crossed', HoldsOwn(p)',
         \A u \in Users : Spared(u) \/ (Moves(req[p], u) /\ (u \notin crossed => OwnDefaults(u)')),
         \A u \in Users \ crossed' : Moves(req[p], u)' => Current(p)'
  PROVE  DefaultsInv'
<1>1. ASSUME NEW q \in Requests PROVE HoldsOwn(q)'
  BY HoldsOwnStays DEF DefaultsInv
<1>2. ASSUME NEW u \in Users \ crossed' PROVE OwnDefaults(u)'
  <2>1. CASE Spared(u)
    BY <2>1 DEF DefaultsInv, OwnDefaults, Spared
  <2> QED
    BY <2>1
<1>3. ASSUME NEW u \in Users \ crossed', NEW q \in Requests, Moves(req[q], u)' PROVE Current(q)'
  <2>1. CASE q = p
    BY <1>3, <2>1
  <2>2. CASE q # p
    <3>1. Moves(req[q], u) /\ req'[q] = req[q]
      BY <1>3, <2>2 DEF Moves
    <3>2. Current(q) /\ u \notin crossed
      BY <3>1 DEF DefaultsInv
    <3>3. ~Moves(req[p], u)
      BY <2>2, <3>1, <3>2 DEF DefaultsInv, Crossing
    <3> QED
      BY <1>1, <3>1, <3>2, <3>3, CurrentStays
  <2> QED
    BY <2>1, <2>2
<1> QED
  BY <1>1, <1>2, <1>3 DEF DefaultsInv

-----------------------------------------------------------------------------
LEMMA FoundersFinite ==
  ASSUME WorkspaceTypeOK, NEW u
  PROVE  /\ FounderIds(u) \in SUBSET RowIds /\ IsFiniteSet(FounderIds(u))
         /\ Cardinality(FounderIds(u)) \in Nat
<1>1. FounderIds(u) \in SUBSET RowIds
  BY DEF FounderIds, WorkspaceTypeOK, Rows
<1>2. IsFiniteSet(RowIds)
  BY WorkspaceAssumption, FS_Interval DEF WorkspaceAssumption, RowIds
<1> QED
  BY <1>1, <1>2, FS_Subset, FS_CardinalityType

LEMMA FoundingFinite == ASSUME NEW u PROVE IsFiniteSet(Founding(u)) /\ Cardinality(Founding(u)) \in Nat
<1>1. Founding(u) \in SUBSET Requests
  BY DEF Founding
<1> QED
  BY <1>1, FS_Subset, FS_CardinalityType, WorkspaceAssumption DEF WorkspaceAssumption

LEMMA PlanIsANumber == MaxWorkspaces # -1 => MaxWorkspaces \in Nat /\ 1 <= MaxWorkspaces
BY WorkspaceAssumption DEF WorkspaceAssumption

(* Fewer founded, fewer under way.                                         *)
LEMMA PlanFewer ==
  ASSUME WorkspaceInv, WorkspaceTypeOK', NEW u \in Users, PlanHolds(u), beside[u] <= beside'[u],
         FounderIds(u)' \subseteq FounderIds(u), Founding(u)' \subseteq Founding(u)
  PROVE  PlanHolds(u)'
<1> DEFINE A == FounderIds(u)
           B == FounderIds(u)'
           C == Founding(u)
           D == Founding(u)'
<1>1. IsFiniteSet(A) /\ Cardinality(A) \in Nat /\ B \in SUBSET A
  BY FoundersFinite DEF WorkspaceInv
<1>2. IsFiniteSet(C) /\ Cardinality(C) \in Nat /\ D \in SUBSET C
  BY FoundingFinite
<1>3. beside[u] \in Nat /\ beside'[u] \in Nat
  BY DEF WorkspaceInv, WorkspaceTypeOK
<1>4. /\ 1 <= beside[u]
      /\ MaxWorkspaces # -1 => Cardinality(A) + Cardinality(C) <= MaxWorkspaces + beside[u] - 1
  BY DEF PlanHolds
<1> HIDE DEF A, B, C, D
<1>5. /\ Cardinality(B) <= Cardinality(A) /\ Cardinality(B) \in Nat
      /\ Cardinality(D) <= Cardinality(C) /\ Cardinality(D) \in Nat
  BY <1>1, <1>2, FS_Subset, FS_CardinalityType
<1>6. /\ 1 <= beside'[u]
      /\ MaxWorkspaces # -1 => Cardinality(B) + Cardinality(D) <= MaxWorkspaces + beside'[u] - 1
  BY <1>1, <1>2, <1>3, <1>4, <1>5, PlanIsANumber
<1> QED
  BY <1>6 DEF PlanHolds, B, D

(* A step of p that founds nothing.                                        *)
LEMMA PlanAfter ==
  ASSUME WorkspaceInv, WorkspaceTypeOK', PlanInv, NEW p \in Requests, NEW c \in Calls, Proceed(p, c),
         c.op \in {"found", "create"} => req[p].op = "found" /\ c.user = req[p].user,
         \A u \in Users : FounderIds(u)' \subseteq FounderIds(u)
  PROVE  PlanInv'
<1>1. req'[p] = c /\ (\A q \in Requests \ {p} : req'[q] = req[q]) /\ \A u \in Users : beside[u] <= beside'[u]
  BY Proceeds DEF WorkspaceInv
<1>2. \A u \in Users : Founding(u)' \subseteq Founding(u)
  BY <1>1 DEF Founding
<1> QED
  BY <1>1, <1>2, PlanFewer DEF PlanInv

LEMMA CallIsTyped ==
  ASSUME WorkspaceTypeOK, WorkspaceTypeOK', NEW p \in Requests, NEW c, Proceed(p, c)
  PROVE  c \in Calls
BY DEF WorkspaceTypeOK, Proceed

(* A request that starts or goes on, and one that has moved nothing.       *)
LEMMA OwnCall ==
  ASSUME WorkspaceInv, WorkspaceTypeOK', OwnInv, OnlyCall, NEW p \in Requests, NEW c, Proceed(p, c),
         c.op \in {"found", "create"} => req[p].op = "found" /\ c.user = req[p].user,
         HoldsOwn(p)', \A u \in Users \ crossed' : Moves(c, u) => Current(p)'
  PROVE  OwnInv'
<1>1. c \in Calls
  BY CallIsTyped DEF WorkspaceInv
<1>2. /\ req'[p] = c /\ \A q \in Requests \ {p} : req'[q] = req[q]
      /\ crossed \subseteq crossed' /\ Crossing' \subseteq crossed'
  BY <1>1, Proceeds DEF WorkspaceInv
<1>3. IdsKept /\ \A u \in Users : Spared(u) /\ FounderIds(u)' \subseteq FounderIds(u)
  BY DEF OnlyCall, IdsKept, Spared, FounderIds
<1>4. \A u \in Users \ crossed' : Moves(req[p], u)' => Current(p)'
  BY <1>2 DEF Moves
<1> QED
  BY <1>1, <1>2, <1>3, <1>4, DefaultsAfter, PlanAfter DEF OwnInv

(* A request that moves nothing.                                           *)
LEMMA OwnPlain ==
  ASSUME WorkspaceInv, WorkspaceTypeOK', OwnInv, OnlyCall, NEW p \in Requests, NEW c, Proceed(p, c),
         c.op \in {"idle", "clear", "invite", "delete", "accept", "add", "find", "remove"}
  PROVE  OwnInv'
<1>1. req'[p] = c
  BY CallIsTyped, Proceeds DEF WorkspaceInv
<1>2. HoldsOwn(p)' /\ \A u \in Users : ~Moves(c, u)
  BY <1>1 DEF HoldsOwn, Moves
<1> QED
  BY <1>2, OwnCall

LEMMA OwnRefused ==
  ASSUME WorkspaceInv, WorkspaceTypeOK', OwnInv, NEW p \in Requests, Refused(p)
  PROVE  OwnInv'
BY OwnPlain DEF Refused, Reply, OnlyCall, Idle

(* An answer that leaves the defaults alone.                               *)
LEMMA OwnReply ==
  ASSUME WorkspaceInv, WorkspaceTypeOK', OwnInv, NEW p \in Requests, Reply(p), IdsKept,
         \A u \in Users : Spared(u) \/ (Moves(req[p], u) /\ (u \notin crossed => OwnDefaults(u)')),
         \A u \in Users : FounderIds(u)' \subseteq FounderIds(u)
  PROVE  OwnInv'
<1>1. /\ req'[p] = Idle /\ \A q \in Requests \ {p} : req'[q] = req[q]
      /\ crossed \subseteq crossed' /\ Crossing' \subseteq crossed'
  BY Replies DEF WorkspaceInv
<1>2. HoldsOwn(p)' /\ \A u \in Users : ~Moves(req[p], u)'
  BY <1>1 DEF HoldsOwn, Moves, Idle
<1>3. Idle \in Calls /\ Idle.op = "idle" /\ Proceed(p, Idle)
  BY CallsMade DEF Idle, Reply
<1>4. DefaultsInv'
  BY <1>1, <1>2, DefaultsAfter DEF OwnInv
<1>5. PlanInv'
  BY <1>3, PlanAfter DEF OwnInv
<1> QED
  BY <1>4, <1>5 DEF OwnInv

LEMMA OwnFewerRows ==
  ASSUME WorkspaceInv, WorkspaceTypeOK', OwnInv, NEW p \in Requests, Reply(p), rows' \subseteq rows
  PROVE  OwnInv'
<1>1. IdsKept /\ \A u \in Users : Spared(u) /\ FounderIds(u)' \subseteq FounderIds(u)
  BY DEF IdsKept, Spared, FounderIds
<1> QED
  BY <1>1, OwnReply

LEMMA OwnPlainRow ==
  ASSUME WorkspaceInv, WorkspaceTypeOK', OwnInv, NEW p \in Requests, Reply(p),
         NEW row, Insert(row, rows), row.id = nextId, ~row.isDefault, ~row.founder
  PROVE  OwnInv'
<1>1. IdsKept /\ \A u \in Users : Spared(u) /\ FounderIds(u)' \subseteq FounderIds(u)
  BY DEF IdsKept, Spared, Insert, FounderIds
<1> QED
  BY <1>1, OwnReply

LEMMA RowsAndIds ==
  ASSUME WorkspaceTypeOK, RowsSound, NEW T \in SUBSET rows
  PROVE  IsFiniteSet(T) /\ Cardinality({r.id : r \in T}) = Cardinality(T) /\ Cardinality(T) \in Nat
<1> DEFINE ids == {r.id : r \in T}
           f == [r \in T |-> r.id]
<1>1. ids \in SUBSET RowIds /\ IsFiniteSet(RowIds)
  BY WorkspaceAssumption, FS_Interval DEF WorkspaceAssumption, WorkspaceTypeOK, Rows, RowIds
<1>2. IsFiniteSet(ids)
  BY <1>1, FS_Subset
<1>3. f \in Injection(T, ids) /\ f \in Surjection(T, ids)
  BY DEF RowsSound, Injection, Surjection, IsInjective
<1> HIDE DEF ids, f
<1>4. IsFiniteSet(T) /\ Cardinality(T) = Cardinality(ids)
  BY <1>2, <1>3, FS_Injection
<1> QED
  BY <1>4, FS_CardinalityType DEF ids

LEMMA FoundersCounted ==
  ASSUME WorkspaceTypeOK, RowsSound, NEW u
  PROVE  /\ Cardinality({r \in Owned(u) : r.founder}) = Cardinality(FounderIds(u))
         /\ Cardinality(FounderIds(u)) <= Cardinality(Owned(u))
         /\ Cardinality(FounderIds(u)) \in Nat /\ Cardinality(Owned(u)) \in Nat
<1> DEFINE F == {r \in Owned(u) : r.founder}
<1>1. F \in SUBSET Owned(u) /\ Owned(u) \in SUBSET rows /\ F \in SUBSET rows
  BY DEF Owned
<1>2. FounderIds(u) = {r.id : r \in F}
  BY DEF FounderIds, Owned
<1> HIDE DEF F
<1>3. Cardinality(FounderIds(u)) = Cardinality(F) /\ Cardinality(F) \in Nat
  BY <1>1, <1>2, RowsAndIds
<1>4. IsFiniteSet(Owned(u)) /\ Cardinality(Owned(u)) \in Nat
  BY <1>1, RowsAndIds
<1>5. Cardinality(F) <= Cardinality(Owned(u))
  BY <1>1, <1>4, FS_Subset
<1> QED
  BY <1>3, <1>4, <1>5 DEF F

-----------------------------------------------------------------------------
(* A workspace under way more: the guard has counted those that are founded. *)
LEMMA OwnStartCreate ==
  ASSUME WorkspaceInv, WorkspaceTypeOK', OwnInv, NEW p \in Requests, NEW u \in Users, NEW d \in BOOLEAN,
         StartCreate(p, u, d)
  PROVE  OwnInv'
<1> DEFINE c == [op |-> "found", user |-> u, default |-> d]
<1>1. Proceed(p, c) /\ OnlyCall /\ MayFound(u) /\ c \in Calls /\ c.op = "found" /\ c.user = u
  BY CallsMade DEF StartCreate
<1> HIDE DEF c
<1>2. /\ req'[p] = c /\ (\A q \in Requests \ {p} : req'[q] = req[q])
      /\ crossed \subseteq crossed' /\ Crossing' \subseteq crossed'
      /\ \A v \in Users : Cardinality(Founding(v)') <= beside'[v] /\ beside[v] <= beside'[v]
  BY <1>1, Proceeds DEF WorkspaceInv
<1>3. IdsKept /\ \A v \in Users : Spared(v) /\ FounderIds(v)' = FounderIds(v)
  BY <1>1 DEF OnlyCall, IdsKept, Spared, FounderIds
<1>4. HoldsOwn(p)' /\ \A v \in Users : ~Moves(req[p], v)'
  BY <1>1, <1>2 DEF HoldsOwn, Moves
<1>5. DefaultsInv'
  BY <1>2, <1>3, <1>4, DefaultsAfter DEF OwnInv
<1>6. ASSUME NEW v \in Users, v # u PROVE PlanHolds(v)'
  <2>1. Founding(v)' \subseteq Founding(v)
    BY <1>1, <1>2, <1>6 DEF Founding
  <2> QED
    BY <1>2, <1>3, <2>1, PlanFewer DEF OwnInv, PlanInv
<1>7. PlanHolds(u)'
  <2> DEFINE a == Cardinality(FounderIds(u))
             n == Cardinality(Founding(u)')
             b == beside'[u]
  <2>1. a \in Nat /\ a <= Cardinality(Owned(u)) /\ Cardinality(Owned(u)) \in Nat
    BY FoundersCounted DEF WorkspaceInv
  <2>2. MaxWorkspaces # -1 => Cardinality(Owned(u)) < MaxWorkspaces
    BY <1>1 DEF MayFound, Within
  <2>3. /\ n \in Nat /\ b \in Nat /\ n <= b
        /\ beside[u] \in Nat /\ beside[u] <= b /\ 1 <= beside[u]
    <3>1. Founding(u)' \in SUBSET Requests
      BY DEF Founding
    <3>2. n \in Nat
      BY <3>1, FS_Subset, FS_CardinalityType, WorkspaceAssumption DEF WorkspaceAssumption
    <3>3. n <= b /\ beside[u] <= b
      BY <1>2
    <3>4. b \in Nat /\ beside[u] \in Nat
      BY DEF WorkspaceInv, WorkspaceTypeOK
    <3>5. 1 <= beside[u]
      BY DEF OwnInv, PlanInv, PlanHolds
    <3> QED
      BY <3>2, <3>3, <3>4, <3>5
  <2>4. Cardinality(FounderIds(u)') = a
    BY <1>3
  <2> HIDE DEF a, n, b
  <2>5. 1 <= b /\ (MaxWorkspaces # -1 => a + n <= MaxWorkspaces + b - 1)
    BY <2>1, <2>2, <2>3, PlanIsANumber
  <2> QED
    BY <2>4, <2>5 DEF PlanHolds, a, n, b
<1> QED
  BY <1>5, <1>6, <1>7 DEF OwnInv, PlanInv

LEMMA OwnStart ==
  ASSUME WorkspaceInv, WorkspaceTypeOK', OwnInv, NEW p \in Requests, Start(p)
  PROVE  OwnInv'
<1>1. PICK u \in Users :
    \/ \E d \in BOOLEAN : StartCreate(p, u, d)
    \/ \E i \in Invites : StartAccept(p, u, i)
    \/ \E w \in Ids :
         \/ StartDefault(p, u, w)
         \/ StartInvite(p, u, w)
         \/ StartDelete(p, u, w)
         \/ \E t \in Users : StartAdd(p, u, t, w) \/ StartRemove(p, u, t, w)
         \/ \E role \in Given : StartRole(p, u, w, role)
  BY DEF Start
<1>2. ASSUME NEW i \in Invites, StartAccept(p, u, i) PROVE OwnInv'
  <2> DEFINE c == [op |-> "accept", user |-> u, invite |-> i, ws |-> invites[i].ws]
  <2>1. Proceed(p, c) /\ OnlyCall /\ c.op = "accept"
    BY <1>2 DEF StartAccept
  <2> HIDE DEF c
  <2> QED
    BY <2>1, OwnPlain
<1>3. ASSUME NEW w \in Ids, NEW op \in {"clear", "invite", "delete"}, OnlyCall,
             Proceed(p, [op |-> op, user |-> u, ws |-> w])
      PROVE  OwnInv'
  <2> DEFINE c == [op |-> op, user |-> u, ws |-> w]
  <2>1. Proceed(p, c) /\ c.op = op
    BY <1>3
  <2> HIDE DEF c
  <2> QED
    BY <1>3, <2>1, OwnPlain
<1>4. ASSUME NEW w \in Ids, NEW t \in Users, NEW op \in {"add", "find"}, OnlyCall,
             Proceed(p, [op |-> op, user |-> u, target |-> t, ws |-> w])
      PROVE  OwnInv'
  <2> DEFINE c == [op |-> op, user |-> u, target |-> t, ws |-> w]
  <2>1. Proceed(p, c) /\ c.op = op
    BY <1>4
  <2> HIDE DEF c
  <2> QED
    BY <1>4, <2>1, OwnPlain
<1>5. ASSUME NEW w \in Ids, NEW role \in Given, StartRole(p, u, w, role) PROVE OwnInv'
  <2>1. PICK row \in Member(u, w) :
          /\ Proceed(p, [op |-> "role", user |-> u, row |-> [row EXCEPT !.role = role]]) /\ OnlyCall
    BY <1>5 DEF StartRole
  <2> DEFINE read == [row EXCEPT !.role = role]
             c == [op |-> "role", user |-> u, row |-> read]
  <2>2. row \in rows /\ row.user = u /\ row \in Rows
    BY DEF Member, WorkspaceInv, WorkspaceTypeOK
  <2>3. read.id = row.id /\ read.isDefault = row.isDefault
    BY <2>2 DEF Rows
  <2>4. Proceed(p, c) /\ c.op = "role" /\ c.user = u /\ c.row = read
    BY <2>1
  <2> HIDE DEF read, c
  <2>5. req'[p] = c /\ rows' = rows
    BY <2>1, <2>4, CallIsTyped, Proceeds DEF OnlyCall, WorkspaceInv
  <2>6. \A r \in rows : r.id = read.id => r.user = u /\ r.isDefault = read.isDefault
    BY <2>2, <2>3 DEF WorkspaceInv, RowsSound
  <2>7. HoldsOwn(p)' /\ Current(p)'
    BY <2>4, <2>5, <2>6 DEF HoldsOwn, Current
  <2> QED
    BY <2>1, <2>4, <2>7, OwnCall
<1>6. CASE \E w \in Ids : StartDefault(p, u, w) \/ StartInvite(p, u, w) \/ StartDelete(p, u, w)
  BY <1>3, <1>6 DEF StartDefault, StartInvite, StartDelete
<1>7. CASE \E w \in Ids, t \in Users : StartAdd(p, u, t, w) \/ StartRemove(p, u, t, w)
  BY <1>4, <1>7 DEF StartAdd, StartRemove
<1> QED
  BY <1>1, <1>2, <1>5, <1>6, <1>7, OwnStartCreate

LEMMA OwnScan ==
  ASSUME WorkspaceInv, WorkspaceTypeOK', OwnInv, OnlyCall, NEW p \in Requests, NEW c, Proceed(p, c),
         c.op = "set" \/ (c.op = "create" /\ req[p].op = "found" /\ c.user = req[p].user),
         \/ c.scan = Defaults(c.user)
         \/ c.op = "create" /\ ~c.default /\ c.scan = {},
         c.op = "create" /\ ~c.default => c.scan = {}
  PROVE  OwnInv'
<1>1. req'[p] = c /\ rows' = rows
  BY CallIsTyped, Proceeds DEF OnlyCall, WorkspaceInv
<1>2. \A r \in rows : r.id \in Defaults(c.user) <=> r.user = c.user /\ r.isDefault
  BY DefaultsAreRowIds DEF WorkspaceInv
<1>3. HoldsOwn(p)'
  BY <1>1, <1>2 DEF HoldsOwn
<1>4. ASSUME NEW u \in Users, Moves(c, u) PROVE Current(p)'
  BY <1>1, <1>2, <1>4 DEF Moves, Current
<1> QED
  BY <1>3, <1>4, OwnCall

-----------------------------------------------------------------------------
LEMMA OwnCreate ==
  ASSUME WorkspaceInv, WorkspaceTypeOK', OwnInv, NEW p \in Requests, NEW w \in Ids, FinishCreate(p, w)
  PROVE  OwnInv'
<1>0. PICK u \in Users : req[p].user = u
  BY CallFields DEF FinishCreate, WorkspaceInv, WorkspaceTypeOK
<1> DEFINE row == NewRow(u, w, "OWNER", req[p].default)
           scan == req[p].scan
<1>1. /\ HoldsOwn(p) /\ req[p].op = "create" /\ req[p].default \in BOOLEAN
      /\ nextId \in Int
  BY CallFields DEF FinishCreate, OwnInv, DefaultsInv, WorkspaceInv, WorkspaceTypeOK
<1>2. rows' = Cleared(scan) \cup {row} /\ Reply(p)
  BY <1>0 DEF FinishCreate, Insert
<1>3. row.id = nextId /\ row.user = u /\ (row.isDefault <=> req[p].default)
  BY <1>1 DEF NewRow
<1>4. /\ \A r \in rows : r.id \in scan => r.user = u
      /\ ~req[p].default => scan = {}
  BY <1>0, <1>1 DEF HoldsOwn
<1>5. \A s \in Cleared(scan) : \E r \in rows : ClearedFrom(s, r, scan)
  BY ClearedRows DEF WorkspaceInv
<1>6. /\ req'[p] = Idle /\ (\A q \in Requests \ {p} : req'[q] = req[q])
      /\ crossed \subseteq crossed' /\ Crossing' \subseteq crossed'
      /\ \A v \in Users : beside[v] <= beside'[v]
  BY <1>2, Replies DEF WorkspaceInv
<1>7. Moves(req[p], u) <=> req[p].default
  BY <1>0, <1>1 DEF Moves
<1>8. u \notin crossed /\ req[p].default => \A r \in rows : r.user = u /\ r.isDefault => r.id \in scan
  BY <1>0, <1>1, <1>7 DEF OwnInv, DefaultsInv, Current
<1>9. p \in Founding(u) /\ \A v \in Users : Founding(v)' = Founding(v) \ {p}
  BY <1>0, <1>1, <1>6 DEF Founding, Idle
<1> HIDE DEF row, scan
<1>10. IdsKept
  BY <1>2, <1>3, <1>5 DEF IdsKept, ClearedFrom
<1>11. ASSUME NEW v \in Users, v # u PROVE Spared(v)
  BY <1>2, <1>3, <1>4, <1>5, <1>11 DEF Spared, ClearedFrom
<1>12. ASSUME req[p].default, u \notin crossed PROVE OwnDefaults(u)'
  <2>1. ASSUME NEW s \in rows', NEW t \in rows', s.user = u, t.user = u, s.isDefault, t.isDefault
        PROVE  s.id = t.id
    <3>1. \A c \in Cleared(scan) : c.user = u => ~c.isDefault
      BY <1>5, <1>8, <1>12, <2>1 DEF ClearedFrom
    <3> QED
      BY <1>2, <2>1, <3>1
  <2> QED
    BY <2>1 DEF OwnDefaults
<1>13. ASSUME ~req[p].default PROVE Spared(u)
  BY <1>2, <1>3, <1>4, <1>5, <1>13 DEF Spared, ClearedFrom
<1>14. \A v \in Users : Spared(v) \/ (Moves(req[p], v) /\ (v \notin crossed => OwnDefaults(v)'))
  BY <1>1, <1>7, <1>11, <1>12, <1>13
<1>15. HoldsOwn(p)' /\ \A v \in Users : ~Moves(req[p], v)'
  BY <1>6 DEF HoldsOwn, Moves, Idle
<1>16. DefaultsInv'
  BY <1>6, <1>10, <1>14, <1>15, DefaultsAfter DEF OwnInv
<1>17. ASSUME NEW v \in Users, v # u PROVE PlanHolds(v)'
  <2>1. FounderIds(v)' \subseteq FounderIds(v)
    BY <1>2, <1>3, <1>5, <1>17 DEF FounderIds, ClearedFrom
  <2> QED
    BY <1>6, <1>9, <2>1, PlanFewer DEF OwnInv, PlanInv
<1>18. PlanHolds(u)'
  <2> DEFINE A == FounderIds(u)
             B == FounderIds(u)'
             C == Founding(u)
             D == Founding(u)'
  <2>1. B \subseteq A \cup {nextId}
    BY <1>2, <1>3, <1>5 DEF FounderIds, ClearedFrom
  <2>2. IsFiniteSet(A) /\ Cardinality(A) \in Nat
    BY FoundersFinite DEF WorkspaceInv
  <2>3. IsFiniteSet(C) /\ Cardinality(C) \in Nat /\ p \in C /\ D = C \ {p}
    BY <1>1, <1>9, FoundingFinite
  <2>4. /\ 1 <= beside[u] /\ beside[u] \in Nat /\ beside'[u] \in Nat /\ beside[u] <= beside'[u]
        /\ MaxWorkspaces # -1 => Cardinality(A) + Cardinality(C) <= MaxWorkspaces + beside[u] - 1
    BY <1>1, <1>6 DEF OwnInv, PlanInv, PlanHolds, WorkspaceInv, WorkspaceTypeOK
  <2> HIDE DEF A, B, C, D
  <2>5. IsFiniteSet(A \cup {nextId}) /\ Cardinality(A \cup {nextId}) <= Cardinality(A) + 1
        /\ Cardinality(A \cup {nextId}) \in Nat
    <3>1. /\ IsFiniteSet(A \cup {nextId})
          /\ Cardinality(A \cup {nextId}) = IF nextId \in A THEN Cardinality(A) ELSE Cardinality(A) + 1
      BY <2>2, FS_AddElement
    <3> QED
      BY <2>2, <3>1
  <2>6. Cardinality(B) <= Cardinality(A \cup {nextId}) /\ Cardinality(B) \in Nat
    BY <2>1, <2>5, FS_Subset, FS_CardinalityType
  <2>7. Cardinality(D) = Cardinality(C) - 1
    BY <2>3, FS_RemoveElement
  <2>8. /\ 1 <= beside'[u]
        /\ MaxWorkspaces # -1 => Cardinality(B) + Cardinality(D) <= MaxWorkspaces + beside'[u] - 1
    BY <2>2, <2>3, <2>4, <2>5, <2>6, <2>7, PlanIsANumber
  <2> QED
    BY <2>8 DEF PlanHolds, B, D
<1> QED
  BY <1>16, <1>17, <1>18 DEF OwnInv, PlanInv

LEMMA OwnSetDefault ==
  ASSUME WorkspaceInv, WorkspaceTypeOK', OwnInv, NEW p \in Requests, SetDefault(p)
  PROVE  OwnInv'
<1>0. PICK u \in Users : req[p].user = u
  BY CallFields DEF SetDefault, WorkspaceInv, WorkspaceTypeOK
<1> DEFINE new == {r.id : r \in Member(u, req[p].ws)}
           scan == req[p].scan
<1>1. HoldsOwn(p) /\ req[p].op = "set" /\ Moves(req[p], u)
  BY <1>0 DEF SetDefault, Moves, OwnInv, DefaultsInv
<1>2. rows' = Moved(scan, new) /\ Reply(p)
  BY <1>0 DEF SetDefault, Moved
<1>3. /\ \A r \in rows : r.id \in scan => r.user = u
      /\ u \notin crossed => \A r \in rows : r.user = u /\ r.isDefault => r.id \in scan
  BY <1>0, <1>1 DEF HoldsOwn, Current, OwnInv, DefaultsInv
<1>4. /\ \A r \in rows : r.id \in new => r.user = u
      /\ \A m, n \in new : m = n
  BY DEF Member, WorkspaceInv, RowsSound
<1> HIDE DEF new, scan
<1>5. \A s \in rows' : \E r \in rows : MovedFrom(s, r, scan, new)
  BY <1>2, MovedRows DEF WorkspaceInv
<1>6. IdsKept /\ \A v \in Users : FounderIds(v)' \subseteq FounderIds(v)
  BY <1>5 DEF IdsKept, MovedFrom, FounderIds
<1>7. \A v \in Users \ {u} : Spared(v)
  BY <1>3, <1>4, <1>5 DEF Spared, MovedFrom
<1>8. u \notin crossed => OwnDefaults(u)'
  <2>1. u \notin crossed => \A s \in rows' : s.user = u /\ s.isDefault => s.id \in new
    BY <1>3, <1>5 DEF MovedFrom
  <2> QED
    BY <1>4, <2>1 DEF OwnDefaults
<1> QED
  BY <1>1, <1>2, <1>6, <1>7, <1>8, OwnReply

LEMMA OwnRole ==
  ASSUME WorkspaceInv, WorkspaceTypeOK', OwnInv, NEW p \in Requests, FinishRole(p)
  PROVE  OwnInv'
<1>0. PICK u \in Users : req[p].user = u
  BY CallFields DEF FinishRole, WorkspaceInv, WorkspaceTypeOK
<1> DEFINE read == req[p].row
<1>1. /\ HoldsOwn(p) /\ req[p].op = "role" /\ Moves(req[p], u)
      /\ read \in Rows /\ read.role # "OWNER"
  BY <1>0, CallFields DEF FinishRole, Moves, CallSound, OwnInv, DefaultsInv, WorkspaceInv, WorkspaceTypeOK
<1>2. rows' = Rewritten(read) /\ Reply(p)
  BY DEF FinishRole, Rewritten
<1>3. /\ \A r \in rows : r.id = read.id => r.user = u
      /\ u \notin crossed => \A r \in rows : r.id = read.id => r.isDefault = read.isDefault
  BY <1>0, <1>1 DEF HoldsOwn, Current, OwnInv, DefaultsInv
<1> HIDE DEF read
<1>4. \A s \in rows' : \E r \in rows : RewrittenFrom(s, r, read)
  BY <1>1, <1>2, RewrittenRows DEF WorkspaceInv
<1>5. IdsKept
  BY <1>4 DEF IdsKept, RewrittenFrom
<1>6. \A v \in Users \ {u} : Spared(v)
  BY <1>3, <1>4 DEF Spared, RewrittenFrom
<1>7. u \notin crossed => OwnDefaults(u)'
  <2>1. u \notin crossed => \A s \in rows' : \E r \in rows : s.id = r.id /\ s.user = r.user /\ (s.isDefault => r.isDefault)
    BY <1>3, <1>4 DEF RewrittenFrom
  <2> QED
    BY <2>1 DEF OwnDefaults, OwnInv, DefaultsInv
<1>8. \A v \in Users : FounderIds(v)' \subseteq FounderIds(v)
  BY <1>1, <1>4 DEF FounderIds, RewrittenFrom
<1> QED
  BY <1>1, <1>2, <1>5, <1>6, <1>7, <1>8, OwnReply

LEMMA OwnSignUp ==
  ASSUME WorkspaceInv, WorkspaceTypeOK', OwnInv, NEW u \in Users, NEW w \in Ids, SignUp(u, w)
  PROVE  OwnInv'
<1> DEFINE row == NewRow(u, w, "OWNER", TRUE)
<1>1. row.id = nextId /\ row.user = u
  BY DEF NewRow
<1>2. rows' = rows \cup {row} /\ u \notin users /\ UNCHANGED <<req, crossed, beside>>
  BY DEF SignUp, Insert
<1> HIDE DEF row
<1>3. (\A r \in rows : r.user # u) /\ \A q \in Requests : req[q].op # "idle" => req[q].user # u
  BY <1>2 DEF WorkspaceInv, RowsSound, CallSound
<1>4. IdsKept
  BY <1>1, <1>2 DEF IdsKept
<1>5. \A q \in Requests : HoldsOwn(q)'
  BY <1>2, <1>4, HoldsOwnStays DEF OwnInv, DefaultsInv
<1>6. \A v \in Users \ {u} : Spared(v) /\ FounderIds(v)' \subseteq FounderIds(v)
  BY <1>1, <1>2 DEF Spared, FounderIds
<1>7. \A v \in Users : Founding(v)' = Founding(v) /\ \A q \in Requests : Moves(req[q], v)' = Moves(req[q], v)
  BY <1>2 DEF Founding, Moves
<1>8. ~\E q \in Requests : Moves(req[q], u) \/ q \in Founding(u)
  BY <1>3 DEF Moves, Founding
<1>9. ASSUME NEW v \in Users \ crossed PROVE OwnDefaults(v)'
  <2>1. CASE v = u
    BY <1>2, <1>3, <2>1 DEF OwnDefaults
  <2>2. CASE v # u
    BY <1>6, <2>2 DEF OwnInv, DefaultsInv, OwnDefaults, Spared
  <2> QED
    BY <2>1, <2>2
<1>10. ASSUME NEW v \in Users \ crossed, NEW q \in Requests, Moves(req[q], v) PROVE Current(q)'
  <2>1. v # u /\ Current(q) /\ req'[q] = req[q]
    BY <1>2, <1>8, <1>10 DEF OwnInv, DefaultsInv
  <2> QED
    BY <1>5, <1>6, <1>10, <2>1, CurrentStays
<1>11. Crossing' = Crossing
  BY <1>2 DEF Crossing, Moves
<1>12. DefaultsInv'
  BY <1>2, <1>5, <1>7, <1>9, <1>10, <1>11 DEF OwnInv, DefaultsInv
<1>13. ASSUME NEW v \in Users, v # u PROVE PlanHolds(v)'
  <2>1. beside[v] <= beside'[v]
    BY <1>2 DEF WorkspaceInv, WorkspaceTypeOK
  <2> QED
    BY <1>6, <1>7, <1>13, <2>1, PlanFewer DEF OwnInv, PlanInv
<1>14. PlanHolds(u)'
  <2> DEFINE B == FounderIds(u)'
             D == Founding(u)'
  <2>1. B \subseteq {nextId}
    BY <1>1, <1>2, <1>3 DEF FounderIds
  <2>2. D = {}
    BY <1>7, <1>8 DEF Founding
  <2>3. 1 <= beside'[u] /\ beside'[u] \in Nat
    BY <1>2 DEF OwnInv, PlanInv, PlanHolds, WorkspaceInv, WorkspaceTypeOK
  <2> HIDE DEF B, D
  <2>4. Cardinality({nextId}) = 1 /\ IsFiniteSet({nextId}) /\ Cardinality(D) = 0
    BY <2>2, FS_Singleton, FS_EmptySet
  <2>5. Cardinality(B) <= 1 /\ Cardinality(B) \in Nat
    BY <2>1, <2>4, FS_Subset, FS_CardinalityType
  <2>6. MaxWorkspaces # -1 => Cardinality(B) + Cardinality(D) <= MaxWorkspaces + beside'[u] - 1
    BY <2>3, <2>4, <2>5, PlanIsANumber
  <2> QED
    BY <2>3, <2>6 DEF PlanHolds, B, D
<1> QED
  BY <1>12, <1>13, <1>14 DEF OwnInv, PlanInv

LEMMA OwnFinish ==
  ASSUME WorkspaceInv, WorkspaceTypeOK', OwnInv, NEW p \in Requests, Finish(p)
  PROVE  OwnInv'
<1>1. CallSound(p) /\ req[p] \in Calls
  BY DEF WorkspaceInv, WorkspaceTypeOK
<1>2. CASE ClearDefault(p)
  <2> DEFINE s == Defaults(req[p].user)
             c == [op |-> "set", user |-> req[p].user, ws |-> req[p].ws, scan |-> s]
  <2>1. Proceed(p, c) /\ OnlyCall /\ c.op = "set" /\ c.user = req[p].user /\ c.scan = s
    BY <1>2 DEF ClearDefault
  <2> HIDE DEF c
  <2> QED
    BY <2>1, OwnScan
<1>3. CASE ReplaceDefault(p)
  <2> DEFINE s == IF req[p].default THEN Defaults(req[p].user) ELSE {}
             c == [op |-> "create", user |-> req[p].user, default |-> req[p].default, scan |-> s]
  <2>1. /\ Proceed(p, c) /\ OnlyCall /\ c.op = "create" /\ c.user = req[p].user /\ c.scan = s
        /\ c.default = req[p].default /\ req[p].op = "found"
    BY <1>3 DEF ReplaceDefault
  <2>2. /\ c.scan = Defaults(c.user) \/ (~c.default /\ c.scan = {})
        /\ ~c.default => c.scan = {}
    BY <2>1
  <2> HIDE DEF c
  <2> QED
    BY <2>1, <2>2, OwnScan
<1>4. CASE FindTarget(p)
  <2>1. CASE Refused(p)
    BY <2>1, OwnRefused
  <2>2. ASSUME NEW row \in Member(req[p].target, req[p].ws), OnlyCall,
               Proceed(p, [op |-> "remove", user |-> req[p].user, row |-> row, before |-> nextId])
        PROVE  OwnInv'
    <3> DEFINE c == [op |-> "remove", user |-> req[p].user, row |-> row, before |-> nextId]
    <3>1. Proceed(p, c) /\ c.op = "remove"
      BY <2>2
    <3> HIDE DEF c
    <3> QED
      BY <2>2, <3>1, OwnPlain
  <2> QED
    BY <1>4, <2>1, <2>2 DEF FindTarget
<1>5. CASE \E i \in Invites, role \in Given \ {"OWNER"} : FinishInvite(p, i, role)
  <2>1. Reply(p) /\ rows' \subseteq rows
    BY <1>5 DEF FinishInvite
  <2> QED
    BY <2>1, OwnFewerRows
<1>6. CASE FinishRemove(p) \/ FinishDelete(p)
  <2>1. Reply(p) /\ rows' \subseteq rows
    BY <1>6 DEF FinishRemove, FinishDelete, OnlyRows
  <2> QED
    BY <2>1, OwnFewerRows
<1>7. CASE FinishAccept(p)
  <2> DEFINE i == req[p].invite
             row == NewRow(req[p].user, req[p].ws, invites[i].role, FALSE)
  <2>1. CASE Refused(p)
    BY <2>1, OwnRefused
  <2>2. CASE Claimable(p) /\ ~Refused(p)
    <3>1. Insert(row, rows) /\ Reply(p) /\ req[p].op = "accept"
      BY <1>7, <2>2 DEF FinishAccept
    <3>2. i \in Invites /\ invites[i] \in InviteStates
      BY <1>1, <3>1, CallFields DEF WorkspaceInv, WorkspaceTypeOK
    <3>3. invites[i] \in Codes
      BY <1>1, <2>2, <3>1, <3>2, InviteFields DEF Claimable, CallSound
    <3>4. req[p].ws \in workspaces
      BY <1>1, <3>1, <3>2, <3>3 DEF WorkspaceInv, CodeSound, CallSound
    <3>5. row.id = nextId /\ ~row.isDefault /\ ~row.founder
      BY <3>4 DEF NewRow
    <3> HIDE DEF row
    <3> QED
      BY <3>1, <3>5, OwnPlainRow
  <2> QED
    BY <1>7, <2>1, <2>2 DEF FinishAccept
<1>8. ASSUME NEW role \in Given, FinishAdd(p, role) PROVE OwnInv'
  <2> DEFINE row == NewRow(req[p].target, req[p].ws, role, FALSE)
  <2>1. CASE Refused(p)
    BY <2>1, OwnRefused
  <2>2. CASE req[p].ws \in workspaces /\ ~Refused(p)
    <3>1. Insert(row, rows) /\ Reply(p)
      BY <1>8, <2>2 DEF FinishAdd, OnlyRows
    <3>2. row.id = nextId /\ ~row.isDefault /\ ~row.founder
      BY <2>2 DEF NewRow
    <3> HIDE DEF row
    <3> QED
      BY <3>1, <3>2, OwnPlainRow
  <2> QED
    BY <1>8, <2>1, <2>2 DEF FinishAdd
<1> QED
  BY <1>2, <1>3, <1>4, <1>5, <1>6, <1>7, <1>8, OwnCreate, OwnSetDefault, OwnRole DEF Finish

LEMMA OwnInit == WorkspaceInit => OwnInv
<1> SUFFICES ASSUME WorkspaceInit PROVE OwnInv
  OBVIOUS
<1>1. \A p \in Requests : req[p].op = "idle"
  BY DEF WorkspaceInit, Idle
<1>2. DefaultsInv
  BY <1>1 DEF WorkspaceInit, DefaultsInv, Crossing, HoldsOwn, OwnDefaults, Moves
<1>3. ASSUME NEW u \in Users PROVE PlanHolds(u)
  <2>1. FounderIds(u) = {} /\ Founding(u) = {} /\ beside[u] = 1
    BY <1>1 DEF WorkspaceInit, FounderIds, Founding
  <2> QED
    BY <2>1, FS_EmptySet, PlanIsANumber DEF PlanHolds
<1> QED
  BY <1>2, <1>3 DEF OwnInv, PlanInv

LEMMA OwnNext == WorkspaceInv /\ OwnInv /\ [WorkspaceNext]_workspaceVars => OwnInv'
<1> SUFFICES ASSUME WorkspaceInv, OwnInv, [WorkspaceNext]_workspaceVars PROVE OwnInv'
  OBVIOUS
<1>1. WorkspaceTypeOK'
  BY InvNext DEF WorkspaceInv
<1>2. CASE UNCHANGED workspaceVars
  BY <1>2 DEF workspaceVars, OwnInv, DefaultsInv, PlanInv, PlanHolds, Crossing, HoldsOwn, Current,
              OwnDefaults, Moves, FounderIds, Founding
<1> QED
  BY <1>1, <1>2, OwnSignUp, OwnStart, OwnFinish, OwnRefused DEF WorkspaceNext, Abandon

LEMMA AlwaysOwn == WorkspaceSpec => [](WorkspaceInv /\ OwnInv)
<1>1. WorkspaceInv /\ OwnInv /\ [WorkspaceNext]_workspaceVars => (WorkspaceInv /\ OwnInv)'
  BY InvNext, OwnNext
<1>2. WorkspaceInit => WorkspaceInv /\ OwnInv
  BY InvInit, OwnInit
<1> QED
  BY <1>1, <1>2, PTL DEF WorkspaceSpec

(* A user has one default workspace at most until two of his own calls that *)
(* move it have run side by side: what such a call has seen of his rows     *)
(* then stays so until it writes, whatever the others do, for nobody else   *)
(* makes a workspace his default.                                          *)
THEOREM OneDefaultEach == WorkspaceSpec => []OneDefault
<1>1. WorkspaceInv /\ OwnInv => OneDefault
  <2> SUFFICES ASSUME WorkspaceInv, OwnInv, NEW u \in Users \ crossed PROVE Cardinality(Defaults(u)) <= 1
    BY DEF OneDefault
  <2>1. CASE Defaults(u) = {}
    BY <2>1, FS_EmptySet
  <2>2. ASSUME NEW id \in Defaults(u) PROVE Cardinality(Defaults(u)) <= 1
    <3>1. Defaults(u) = {id}
      BY DEF OwnInv, DefaultsInv, OwnDefaults, Defaults
    <3>2. Cardinality({id}) = 1
      BY FS_Singleton
    <3> QED
      BY <3>1, <3>2
  <2> QED
    BY <2>1, <2>2
<1> QED
  BY <1>1, AlwaysOwn, PTL

(* The workspaces a user founds exceed his plan by no more than were under  *)
(* way at once beside the first: each of them has found room when the guard *)
(* counted, and so the founded and those under way together stay within    *)
(* that.                                                                   *)
THEOREM PlanIsKept == WorkspaceSpec => []FoundedWithinPlan
<1>1. WorkspaceInv /\ OwnInv => FoundedWithinPlan
  <2> SUFFICES ASSUME WorkspaceInv, OwnInv, MaxWorkspaces # -1, NEW u \in Users
               PROVE  Cardinality({r \in Owned(u) : r.founder}) <= MaxWorkspaces + beside[u] - 1
    BY DEF FoundedWithinPlan
  <2> DEFINE a == Cardinality(FounderIds(u))
             n == Cardinality(Founding(u))
  <2>1. a + n <= MaxWorkspaces + beside[u] - 1
    BY DEF OwnInv, PlanInv, PlanHolds
  <2>2. a \in Nat /\ n \in Nat /\ MaxWorkspaces \in Nat /\ beside[u] \in Nat
    BY FoundersCounted, FoundingFinite, PlanIsANumber DEF WorkspaceInv, WorkspaceTypeOK
  <2>3. Cardinality({r \in Owned(u) : r.founder}) = a
    BY FoundersCounted DEF WorkspaceInv
  <2> HIDE DEF a, n
  <2>4. a <= MaxWorkspaces + beside[u] - 1
    BY <2>1, <2>2
  <2> QED
    BY <2>3, <2>4
<1> QED
  BY <1>1, AlwaysOwn, PTL
=============================================================================
