SPECIFICATION MCSpec
CONSTANTS
  Users = {u1, u2, u3}
  WorkspaceIDs = {w1, w2}
  InvitationIDs = {i1}
  Requests = {r1, r2}
  OverlappingTransfers = FALSE
  None = None
  Pair = {u1, u2}
  One = {w1}
  Scenarios = {"sequential", "ownership", "personal"}
SYMMETRY symmetry
INVARIANTS AgreementAlone RecordedOwnerAlone PersonalIsPrivate OnePersonalPerUser
PROPERTIES NeverOwnerless SettledOnceAlone
CHECK_DEADLOCK FALSE
