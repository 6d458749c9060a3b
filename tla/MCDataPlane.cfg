SPECIFICATION MCSpec
CONSTANTS
  Tenants = {"t", "s"}
  Users = {"u", "v"}
  Nodes = {"doc", "g1", "g2", "g3"}
  Groups = {"g1", "g2", "g3"}
  Tuples <- written
  Batches <- questions
  Requests = {r1, r2}
  MaxWrites = 2
  MaxReads = 5
  MaxDepth = 2
  Durable = TRUE
  None = None
  Home = {"t"}
  Scenarios = {"walk", "deep", "list", "tokens", "export"}
SYMMETRY symmetry
INVARIANTS AnswersHold TokensHold ExportComplete
