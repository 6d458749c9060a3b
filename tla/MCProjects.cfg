SPECIFICATION MCSpec
CONSTANTS
  ProjectIDs = {p1, p2}
  DefaultProject = p1
  Instances = {i1, i2}
  RegionOf <- pinned
  Requests = {r1, r2}
  Models = {m}
  Regions = {east, west}
  Budgets = {3}
  MinMaxCheckReads = 2
  TTL = 1
  MaxEntries = 1
  MaxLoad = 1
  None = None
  Home = i1
  One = {p1}
  Scenarios = {"serve", "region", "evict", "patch"}
INVARIANTS CacheBounded
PROPERTIES BoundedStaleness RefusalHolds PatchKeepsRestApart Converges
