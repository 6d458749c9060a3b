SPECIFICATION MCSpec
CONSTANTS
  Users = {u1, u2, u3}
  Limits = {0, 1, 2}
  Unlimited = Unlimited
  Txs = {t1, t2}
  Kinds = {"assign", "revoke", "deprovision"}
  Few = {u1, u2}
  Scenarios = {"race", "waits", "alone"}
PROPERTIES WithinCap CallsEnd AloneAsMemory
