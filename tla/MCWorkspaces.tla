---------------------------- MODULE MCWorkspaces ----------------------------
(***************************************************************************)
(* A few users, workspaces and an invite, two requests of whomever.  Two   *)
(* casts, so that one run can ask for both: members come and go by codes   *)
(* and by hand in workspaces that are there, or workspaces are founded and *)
(* owners and admins are made in them.                                     *)
(***************************************************************************)
EXTENDS Workspaces, TLC

CONSTANTS u1, u2, w1, w2, w3, i1, p1, p2

VARIABLE cast

Played ==
  CASE cast = "members" ->
         /\ Cardinality(spent) <= 2
         /\ \A r \in rows : r.founder \/ r.role = "USER"
         /\ \A p \in Requests : /\ req[p].op # "found"
                                /\ req[p].op = "role" => req[p].row.role = "USER"
         /\ \A i \in Invites : invites[i] \in Codes => invites[i].role = "USER"
    [] cast = "founders" ->
         /\ nextId <= 4
         /\ \A r \in rows : r.role # "USER"
         /\ \A p \in Requests : /\ req[p].op # "invite"
                                /\ req[p].op = "role" => req[p].row.role # "USER"

MCInit == WorkspaceInit /\ cast \in {"members", "founders"}

MCNext == WorkspaceNext /\ cast' = cast /\ Played'

MCSpec == MCInit /\ [][MCNext]_<<workspaceVars, cast>>

Symmetry ==
  Permutations(Users) \cup Permutations({w1, w2, w3}) \cup Permutations({p1, p2})
=============================================================================
