SPECIFICATION ServingSpec
CONSTANTS
  Callers = {c1, c2}
  Configs <- MCConfigs
  Paths <- MCPaths
  Variants = {v1, v2}
  TTL = 1
  MaxEntries = 1
  MaxTime = 2
  MaxCalls = 3
  MaxReloads = 2
  Files <- MCFiles
  Bare <- MCBare
SYMMETRY ServingSymmetry
CHECK_DEADLOCK FALSE
INVARIANTS
  
  HitsAreFit
  StaticAnswers
