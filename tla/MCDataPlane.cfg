SPECIFICATION FairSpec
CONSTANTS
  Handlers = {h1}
  Solvers = {s1}
  Touched = {"sites", "apps"}
  MaxVersion = 2
  MaxRecords = 2
  MaxBoots = 2
  ReadsFail = TRUE
CHECK_DEADLOCK FALSE
INVARIANTS
  AppsResolve
  PromisesKept
PROPERTIES
  TableMovesOn
  ChangesLand
  FollowsStore
