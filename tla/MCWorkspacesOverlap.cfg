SPECIFICATION MCSpec
CONSTANTS
  Users = {u1, u2}
  WorkspaceIDs = {w1}
  InvitationIDs = {i1}
  Requests = {r1, r2}
  OverlappingTransfers = TRUE
  None = None
  Pair = {u1, u2}
  One = {w1}
  Scenarios = {"transfers"}
SYMMETRY symmetry
PROPERTY NeverOwnerless
CHECK_DEADLOCK FALSE
