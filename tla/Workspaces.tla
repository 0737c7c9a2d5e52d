----------------------------- MODULE Workspaces -----------------------------
(***************************************************************************)
(* Workspaces, their members and their invites.  A handler reads with one  *)
(* statement and writes with another; PostgreSQL runs the statements of    *)
(* different requests in any order (READ COMMITTED).  The transactions     *)
(* that move the default of a user see the old default in one statement    *)
(* and take effect together at their commit.  Nothing makes a user wait    *)
(* for one answer before his next call: his own calls interleave too.      *)
(***************************************************************************)
EXTENDS Integers, FiniteSets

CONSTANTS Users, Ids, Invites, Requests, NoOne,
          MaxRow,   (* bound: memberships ever inserted                    *)
          Given,    (* bound: the roles that members are given             *)
          MaxWorkspaces, MaxMembers   (* limits of the plan; -1 is none    *)

ASSUME WorkspaceAssumption ==
  /\ NoOne \notin Users /\ MaxRow \in Nat \ {0} /\ IsFiniteSet(Requests)
  /\ Given \subseteq {"OWNER", "ADMIN", "USER"}
  /\ MaxWorkspaces \in (Nat \ {0}) \cup {-1} /\ MaxMembers \in (Nat \ {0}) \cup {-1}

Roles == {"OWNER", "ADMIN", "USER"}
RowIds == 1..MaxRow
Rows == [id : RowIds, user : Users, ws : Ids, role : Roles, isDefault : BOOLEAN,
         founder : BOOLEAN]   (* history: inserted with the workspace itself *)
Idle == [op |-> "idle"]

Calls ==
  {Idle}
    \cup [op : {"clear", "invite", "delete"}, user : Users, ws : Ids]
    \cup [op : {"set"}, user : Users, ws : Ids, scan : SUBSET RowIds]
    \cup [op : {"found"}, user : Users, default : BOOLEAN]
    \cup [op : {"create"}, user : Users, default : BOOLEAN, scan : SUBSET RowIds]
    \cup [op : {"accept"}, user : Users, invite : Invites, ws : Ids]
    \cup [op : {"add", "find"}, user : Users, target : Users, ws : Ids]
    \cup [op : {"remove"}, user : Users, row : Rows,
          before : 1..MaxRow + 1]   (* history: nextId when the row was found *)
    \cup [op : {"role"}, user : Users, row : Rows]

VARIABLES
  users,       (* those who have signed up                                 *)
  workspaces, spent,   (* the workspaces there are, and ever were          *)
  rows,        (* workspace_users                                          *)
  nextId,      (* the id of the next membership                            *)
  invites,     (* not yet there, [ws, usedBy], or gone with its workspace  *)
  admitted,    (* history: whom each invite has made a member              *)
  req,         (* what each request in flight has read                     *)
  crossed,     (* history: whose moves of a default have run side by side  *)
  beside       (* history: the most workspaces a user has ever been        *)
               (* founding at once                                         *)

workspaceVars == <<users, workspaces, spent, rows, nextId, invites, admitted, req, crossed, beside>>

NotYet == [state |-> "none"]
Gone   == [state |-> "gone"]
Codes  == [state : {"code"}, ws : Ids, role : {"ADMIN", "USER"}, usedBy : Users \cup {NoOne}]
InviteStates == {NotYet, Gone} \cup Codes

WorkspaceTypeOK ==
  /\ users \subseteq Users
  /\ workspaces \subseteq spent /\ spent \subseteq Ids
  /\ rows \subseteq Rows
  /\ nextId \in 1..MaxRow + 1
  /\ invites \in [Invites -> InviteStates]
  /\ admitted \in [Invites -> SUBSET Users]
  /\ req \in [Requests -> Calls]
  /\ crossed \subseteq Users
  /\ beside \in [Users -> Nat]

WorkspaceInit ==
  /\ users = {} /\ workspaces = {} /\ spent = {}
  /\ rows = {} /\ nextId = 1
  /\ invites = [i \in Invites |-> NotYet]
  /\ admitted = [i \in Invites |-> {}]
  /\ req = [p \in Requests |-> Idle]
  /\ crossed = {} /\ beside = [u \in Users |-> 1]

-----------------------------------------------------------------------------
Member(u, w) == {r \in rows : r.user = u /\ r.ws = w}
Manages(u, w) == \E r \in Member(u, w) : r.role \in {"OWNER", "ADMIN"}
Defaults(u) == {r.id : r \in {m \in rows : m.user = u /\ m.isDefault}}

NewRow(u, w, role, d) ==
  [id |-> nextId, user |-> u, ws |-> w, role |-> role, isDefault |-> d,
   founder |-> w \notin workspaces]

Insert(row, into) ==
  /\ nextId <= MaxRow
  /\ rows' = into \cup {row}
  /\ nextId' = nextId + 1

Cleared(ids) == {[r EXCEPT !.isDefault = @ /\ r.id \notin ids] : r \in rows}

Free(p, u) == req[p] = Idle /\ u \in users

(* A call that has read which workspace is the default of u and will write *)
(* it: a new default, a new workspace that is to be it, a change of role.  *)
Moves(call, u) ==
  /\ call.op \in {"set", "role"} \/ (call.op = "create" /\ call.default)
  /\ call.user = u

Crossing == {u \in Users : \E p, q \in Requests : p # q /\ Moves(req[p], u) /\ Moves(req[q], u)}

(* The workspaces that u is founding.                                      *)
Founding(u) == {p \in Requests : req[p].op \in {"found", "create"} /\ req[p].user = u}

(* A request goes on to the next call; the histories look at what is in    *)
(* flight then.                                                            *)
Proceed(p, call) ==
  /\ req' = [req EXCEPT ![p] = call]
  /\ crossed' = crossed \cup Crossing'
  /\ beside' = [u \in Users |-> IF Cardinality(Founding(u)') > beside[u]
                                THEN Cardinality(Founding(u)') ELSE beside[u]]

Reply(p) == Proceed(p, Idle)

(* A failed check, a lost race that is answered with an error.             *)
Refused(p) == Reply(p) /\ UNCHANGED <<users, workspaces, spent, rows, nextId, invites, admitted>>
OnlyRows == UNCHANGED <<users, workspaces, spent, invites, admitted>>
OnlyCall == UNCHANGED <<users, workspaces, spent, rows, nextId, invites, admitted>>

-----------------------------------------------------------------------------
(* The user, his first workspace and his membership are one transaction.   *)
SignUp(u, w) ==
  /\ u \notin users /\ w \notin spent
  /\ users' = users \cup {u}
  /\ workspaces' = workspaces \cup {w} /\ spent' = spent \cup {w}
  /\ Insert(NewRow(u, w, "OWNER", TRUE), rows)
  /\ UNCHANGED <<invites, admitted, req, crossed, beside>>

Owned(u) == {r \in rows : r.user = u /\ r.role = "OWNER"}
MembersOf(w) == {r \in rows : r.ws = w}

(* Mutant: the limit itself still passes.                                  *)
WithinUpTo(limit, taken) == limit = -1 \/ Cardinality(taken) <= limit

(* The guard counts before the handler runs, in a statement of its own.    *)
Within(limit, taken) == limit = -1 \/ Cardinality(taken) < limit

(* SubscriptionLimitsGuard, before the handler runs.                       *)
MayFound(u) == Within(MaxWorkspaces, Owned(u))

StartCreate(p, u, d) ==
  /\ Free(p, u) /\ MayFound(u)
  /\ Proceed(p, [op |-> "found", user |-> u, default |-> d])
  /\ OnlyCall

(* Mutant: the old default stays.                                          *)
ReplaceNone(p) ==
  /\ req[p].op = "found"
  /\ Proceed(p, [op |-> "create", user |-> req[p].user, default |-> req[p].default, scan |-> {}])
  /\ OnlyCall

(* A new workspace may take the place of the default.                      *)
ReplaceDefault(p) ==
  /\ req[p].op = "found"
  /\ Proceed(p, [op |-> "create", user |-> req[p].user, default |-> req[p].default,
                 scan |-> IF req[p].default THEN Defaults(req[p].user) ELSE {}])
  /\ OnlyCall

FinishCreate(p, w) ==
  /\ req[p].op = "create" /\ w \notin spent
  /\ workspaces' = workspaces \cup {w} /\ spent' = spent \cup {w}
  /\ Insert(NewRow(req[p].user, w, "OWNER", req[p].default), Cleared(req[p].scan))
  /\ Reply(p) /\ UNCHANGED <<users, invites, admitted>>

(* Choosing another default: the membership is read, the transaction clears*)
(* the defaults its first statement sees and sets the new one.             *)
StartDefault(p, u, w) ==
  /\ Free(p, u) /\ Member(u, w) # {}
  /\ Proceed(p, [op |-> "clear", user |-> u, ws |-> w])
  /\ OnlyCall

ClearDefault(p) ==
  /\ req[p].op = "clear"
  /\ Proceed(p, [op |-> "set", user |-> req[p].user, ws |-> req[p].ws,
                 scan |-> Defaults(req[p].user)])
  /\ OnlyCall

SetDefault(p) ==
  /\ req[p].op = "set"
  /\ LET new == {r.id : r \in Member(req[p].user, req[p].ws)}
     IN rows' = {[r EXCEPT !.isDefault = @ \/ r.id \in new] : r \in Cleared(req[p].scan)}
  /\ Reply(p) /\ OnlyRows /\ UNCHANGED nextId

-----------------------------------------------------------------------------
(* A member makes a code, if the plan of the owner has room for another    *)
(* member now; whether it still has when the code is used is not asked.    *)
StartInvite(p, u, w) ==
  /\ Free(p, u) /\ Member(u, w) # {}
  /\ \E r \in MembersOf(w) : r.role = "OWNER"
  /\ Within(MaxMembers, MembersOf(w))
  /\ Proceed(p, [op |-> "invite", user |-> u, ws |-> w])
  /\ OnlyCall

FinishInvite(p, i, role) ==
  /\ req[p].op = "invite" /\ invites[i] = NotYet
  /\ req[p].ws \in workspaces
  /\ invites' = [invites EXCEPT ![i] = [state |-> "code", ws |-> req[p].ws, role |-> role,
                                        usedBy |-> NoOne]]
  /\ Reply(p) /\ UNCHANGED <<users, workspaces, spent, rows, nextId, admitted>>

(* The reads of an accept: known, unused, not a member (nor expired, which *)
(* would only end the request).                                            *)
StartAccept(p, u, i) ==
  /\ Free(p, u)
  /\ invites[i] \in Codes /\ invites[i].usedBy = NoOne
  /\ Member(u, invites[i].ws) = {}
  /\ Proceed(p, [op |-> "accept", user |-> u, invite |-> i, ws |-> invites[i].ws])
  /\ OnlyCall

(* Mutant: the claim trusts the read.                                      *)
ClaimableAsRead(p) == invites[req[p].invite] # Gone

Claimable(p) ==
  /\ invites[req[p].invite] # Gone
  /\ invites[req[p].invite].usedBy = NoOne

(* The claim and the new member are one transaction: it takes an unused    *)
(* invite, and a user who is a member by now rolls the claim back.         *)
FinishAccept(p) ==
  /\ req[p].op = "accept"
  /\ LET u == req[p].user
         i == req[p].invite
     IN IF Claimable(p) /\ Member(u, req[p].ws) = {}
        THEN /\ invites' = [invites EXCEPT ![i].usedBy = u]
             /\ admitted' = [admitted EXCEPT ![i] = @ \cup {u}]
             /\ Insert(NewRow(u, req[p].ws, invites[i].role, FALSE), rows)
             /\ Reply(p) /\ UNCHANGED <<users, workspaces, spent>>
        ELSE Refused(p)

-----------------------------------------------------------------------------
(* A manager adds a member by hand; the unique index has the last word.    *)
StartAdd(p, u, t, w) ==
  /\ Free(p, u) /\ Manages(u, w)
  /\ t \in users /\ Member(t, w) = {}
  /\ Proceed(p, [op |-> "add", user |-> u, target |-> t, ws |-> w])
  /\ OnlyCall

FinishAdd(p, role) ==
  /\ req[p].op = "add"
  /\ IF req[p].ws \in workspaces /\ Member(req[p].target, req[p].ws) = {}
     THEN /\ Insert(NewRow(req[p].target, req[p].ws, role, FALSE), rows)
          /\ Reply(p) /\ OnlyRows
     ELSE Refused(p)

(* A manager removes a member: his own role is read, then the row of the   *)
(* member, and that row is deleted.                                        *)
StartRemove(p, u, t, w) ==
  /\ Free(p, u) /\ Manages(u, w)
  /\ Proceed(p, [op |-> "find", user |-> u, target |-> t, ws |-> w])
  /\ OnlyCall

FindTarget(p) ==
  /\ req[p].op = "find"
  /\ LET found == Member(req[p].target, req[p].ws)
     IN \/ /\ found = {} /\ Refused(p)
        \/ \E row \in found :
             /\ Proceed(p, [op |-> "remove", user |-> req[p].user, row |-> row,
                            before |-> nextId])
             /\ OnlyCall

(* Mutant: the member is deleted by name.                                  *)
RemoveByName(p) ==
  /\ req[p].op = "remove"
  /\ rows' = rows \ Member(req[p].row.user, req[p].row.ws)
  /\ Reply(p) /\ OnlyRows /\ UNCHANGED nextId

FinishRemove(p) ==
  /\ req[p].op = "remove"
  /\ rows' = {r \in rows : r.id # req[p].row.id}
  /\ Reply(p) /\ OnlyRows /\ UNCHANGED nextId

(* A member who is not the owner changes his role: the row is read, and    *)
(* its role and its isDefault are written back.                            *)
StartRole(p, u, w, role) ==
  /\ Free(p, u) /\ role # "OWNER"
  /\ \E row \in Member(u, w) :
       /\ row.role # "OWNER"
       /\ Proceed(p, [op |-> "role", user |-> u, row |-> [row EXCEPT !.role = role]])
  /\ OnlyCall

FinishRole(p) ==
  /\ req[p].op = "role"
  /\ LET read == req[p].row
     IN rows' = {IF r.id = read.id
                 THEN [r EXCEPT !.role = read.role, !.isDefault = read.isDefault]
                 ELSE r : r \in rows}
  /\ Reply(p) /\ OnlyRows /\ UNCHANGED nextId

-----------------------------------------------------------------------------
MayDelete(row) == row.role = "OWNER" /\ ~row.isDefault

(* An owner deletes a workspace, but not the one he starts in.             *)
StartDelete(p, u, w) ==
  /\ Free(p, u)
  /\ \E row \in Member(u, w) : MayDelete(row)
  /\ Proceed(p, [op |-> "delete", user |-> u, ws |-> w])
  /\ OnlyCall

(* Its members and its invites go with it.                                 *)
FinishDelete(p) ==
  /\ req[p].op = "delete"
  /\ workspaces' = workspaces \ {req[p].ws}
  /\ rows' = {r \in rows : r.ws # req[p].ws}
  /\ invites' = [i \in Invites |->
                  IF invites[i] \in Codes /\ invites[i].ws = req[p].ws
                  THEN Gone ELSE invites[i]]
  /\ Reply(p) /\ UNCHANGED <<users, spent, nextId, admitted>>

-----------------------------------------------------------------------------
Start(p) ==
  \E u \in Users :
    \/ \E d \in BOOLEAN : StartCreate(p, u, d)
    \/ \E i \in Invites : StartAccept(p, u, i)
    \/ \E w \in Ids :
         \/ StartDefault(p, u, w)
         \/ StartInvite(p, u, w)
         \/ StartDelete(p, u, w)
         \/ \E t \in Users : StartAdd(p, u, t, w) \/ StartRemove(p, u, t, w)
         \/ \E role \in Given : StartRole(p, u, w, role)

Finish(p) ==
  \/ ReplaceDefault(p)
  \/ \E w \in Ids : FinishCreate(p, w)
  \/ ClearDefault(p) \/ SetDefault(p)
  \/ \E i \in Invites, role \in Given \ {"OWNER"} : FinishInvite(p, i, role)
  \/ FinishAccept(p)
  \/ \E role \in Given : FinishAdd(p, role)
  \/ FindTarget(p) \/ FinishRemove(p)
  \/ FinishRole(p) \/ FinishDelete(p)

(* A process that stops between its read and its write.                    *)
Abandon(p) == req[p] # Idle /\ Refused(p)

WorkspaceNext ==
  \/ \E u \in Users, w \in Ids : SignUp(u, w)
  \/ \E p \in Requests : Start(p) \/ Finish(p) \/ Abandon(p)

WorkspaceSpec == WorkspaceInit /\ [][WorkspaceNext]_workspaceVars

-----------------------------------------------------------------------------
(* However many accepts of one code race, an invite makes one user a       *)
(* member, the one it names; and it is spent exactly if it has done so.    *)
InviteAdmitsOne ==
  \A i \in Invites :
    /\ Cardinality(admitted[i]) <= 1
    /\ invites[i] \in Codes =>
         admitted[i] = {invites[i].usedBy} \ {NoOne}

(* A user has one default workspace at most, whatever other members do to  *)
(* his memberships and whatever else he calls meanwhile, unless two of his *)
(* own calls that move the default have run side by side: then the second  *)
(* need not see what the first has set.                                    *)
OneDefault == \A u \in Users \ crossed : Cardinality(Defaults(u)) <= 1

(* Workspaces that are asked for side by side pass the count of the plan   *)
(* together; they are the only way past it, and the workspaces a user has  *)
(* founded exceed his plan by no more than were under way at once beside   *)
(* the first.  He may own more only because others made him an owner of    *)
(* theirs.                                                                 *)
FoundedWithinPlan ==
  MaxWorkspaces # -1 =>
    \A u \in Users :
      Cardinality({r \in Owned(u) : r.founder}) <= MaxWorkspaces + beside[u] - 1

(* "Não é possível excluir o workspace padrão" (errors/index.ts): nobody   *)
(* deletes the workspace he starts in.  The code breaks this: what the     *)
(* owner's membership says is read before the workspace is deleted.        *)
DefaultNeverDeleted ==
  [][\A w \in workspaces \ workspaces' : \E p \in Requests :
       /\ req[p].op = "delete" /\ req[p].ws = w
       /\ \A r \in Member(req[p].user, w) : ~r.isDefault]_workspaceVars

(* A removal that is late does not remove a member who was removed by      *)
(* another and admitted again after it had found him.                      *)
RemovalSparesTheReadmitted ==
  [][\A r \in rows : (r.ws \in workspaces' /\ \A s \in rows' : s.id # r.id) =>
       \E p \in Requests : req[p].op = "remove" /\ req'[p] = Idle /\ r.id < req[p].before]_workspaceVars
=============================================================================
