CONSTANTS
  u1 = u1  u2 = u2  w1 = w1  w2 = w2  w3 = w3  i1 = i1  p1 = p1  p2 = p2
  Users = {u1, u2}
  Ids = {w1, w2, w3}
  Invites = {i1}
  Requests = {p1, p2}
  NoOne = NoOne
  MaxRow = 4
  Given = {"OWNER", "ADMIN", "USER"}
  MaxWorkspaces = 2
  MaxMembers = 2
SPECIFICATION MCSpec
INVARIANTS InviteAdmitsOne OneDefault FoundedWithinPlan
PROPERTIES RemovalSparesTheReadmitted
SYMMETRY Symmetry
CHECK_DEADLOCK FALSE
