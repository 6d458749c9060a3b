SPECIFICATION MCSpec
CONSTANTS
  Tenants = {"t", "s"}
  Users = {"u", "v"}
  Nodes = {"doc", "g1", "g2", "g3"}
  Groups = {"g1", "g2", "g3"}
  Tuples <- written
  Batches <- questions
  Requests = {r1, r2}
  MaxWrites = 2
  MaxReads = 5
  MaxDepth = 2
  Durable = FALSE
  None = None
  Home = {"t"}
  Scenarios = {"lost"}
SYMMETRY symmetry
INVARIANTS TokensAreHonoured
