SPECIFICATION MCSpec
CONSTANTS
  Users = {u1}
  Limits = {1}
  Unlimited = Unlimited
  Txs = {t1, t2}
  Kinds = {"assign", "revoke"}
  Few = {u1}
  Scenarios = {"waits"}
INVARIANTS CountMatchesAccess
