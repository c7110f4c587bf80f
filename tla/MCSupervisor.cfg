SPECIFICATION Spec
CONSTANTS
  Names = {a, b}
  MaxProcs = 2
  Callers = {c1}
  MaxRestarts = 1
  UseCgroups = TRUE
  MayFail = FALSE
  Prompt = FALSE
  Swaps = TRUE
  NoProc = NoProc
  NoName = NoName
CHECK_DEADLOCK FALSE
INVARIANTS
  MapConsistent
  
  Budget
PROPERTIES
  StopIrrevocable
