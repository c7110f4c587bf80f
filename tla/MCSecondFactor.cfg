SPECIFICATION Spec
CONSTANTS
  Callers = {c1, c2}
  Slots = {r1, r2}
  MaxTime = 4
  MaxRequests = 6
  MaxReboots = 1
SYMMETRY SecondFactorSymmetry
CHECK_DEADLOCK FALSE
INVARIANTS
  EnabledIsProven
  StepOnce
  RecoveryOnce
