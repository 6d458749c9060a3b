SPECIFICATION MCSpec
CONSTANTS
  Users = {a, b}
  GroupIDs = {a}
  Requests = {r1, r2}
  OverlappingChanges = FALSE
  None = None
  Menu = {"CreateGroup", "DeleteGroup", "AddGroupMember", "RemoveGroupMember", "SetEnrollmentState"}
  States = {"waitlisted", "active"}
  Subjects = {a}
INVARIANTS RosterMatchesAccess NothingOutlivesGroup
