SPECIFICATION MCSpec
CONSTANTS
  pkWidenings <- widened
  Procs = {a, b, op}
  Fleet = {a, b}
  MaxPolls = 1
  None = None
  Few = {a, op}
  Scenarios = {"fleet", "heal"}
INVARIANTS MigratedCanWrite
PROPERTIES AlwaysUnique Heals
