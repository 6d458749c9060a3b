SPECIFICATION MCSpec
CONSTANTS
  Tenants = {t1, t2}
  Users = {u}
  IDs = {x, y}
  Tuples <- allTuples
  MaxSeq = 4
  None = None
  Clients = {c1, c2}
  Calls <- allCalls
  Few = {x}
  Home = {t1}
  Scenarios = {"cascade"}
PROPERTY CascadeCommitted
