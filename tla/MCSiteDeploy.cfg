SPECIFICATION Spec
CONSTANTS
  p1 = p1
  p2 = p2
  none = none
  one = one
  both = both
  Workers = {w1, w2}
  Paths <- MCPaths
  Index = p1
  Repos = {r1}
  Own = Own
  Archives <- MCArchives
  Holds <- MCHolds
  MaxCalls = 2
  MaxPushes = 1
  MaxReboots = 1
  NoFile = NoFile
  NoRepo = NoRepo
  NoDir = NoDir
  NoGit = NoGit
  NoArchive = NoArchive
SYMMETRY DeploySymmetry
CHECK_DEADLOCK FALSE
INVARIANTS
  
  RowTellsTree
  
  
