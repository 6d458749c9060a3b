SPECIFICATION MCSpec
CONSTANTS
  Scenarios = {"nest", "block", "deep", "both", "builtin", "diamond", "spelled"}
  None = None
INVARIANTS NeverOverGrants ExactAnswers SetsIntersect ListsEveryObject ReadsAreBounded
