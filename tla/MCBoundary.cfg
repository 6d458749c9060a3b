SPECIFICATION Spec
CONSTANTS
  Parts = {"tuples", "shards", "buckets", "locks", "shapes", "pairs", "project", "conditions", "models", "config", "gateway", "admin", "load", "crowd"}
  Caller = {k1}
  Three = {c1, c2, c3}
  Crowd = {k2, k3}
  Two = {d1, d2}
  MaxSpent = 1
  MaxFields = 2
  MaxEdited = 2
  None = None
  Bad = Bad
  Err = Err
  Unset = Unset
  Malformed = Malformed
INVARIANTS KeysApart StoredAsSent EveryGrantIsEarned LoadsAsWritten StartsUsable ChargedWhereServed RateBounded
