SPECIFICATION MCSpec
CONSTANTS
  Scenarios = {"nest"}
  None = None
INVARIANTS SetsMeetConditions
