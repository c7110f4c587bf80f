SPECIFICATION FairSpec
CONSTANTS
  Names = {a}
  MaxProcs = 2
  Callers = {c1}
  MaxRestarts = 1
  UseCgroups = TRUE
  MayFail = TRUE
  Prompt = FALSE
  Swaps = FALSE
  NoProc = NoProc
  NoName = NoName
CHECK_DEADLOCK FALSE
PROPERTIES
  StopTakesEffect
  
  ImplementsPolicy
