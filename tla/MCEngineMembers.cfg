SPECIFICATION MCSpec
CONSTANTS
  Scenarios = {"block"}
  None = None
INVARIANTS MembersSatisfy
