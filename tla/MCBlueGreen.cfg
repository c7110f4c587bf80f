SPECIFICATION Spec
CONSTANTS
  Units = {1, 2, 3}
  MaxRestarts = 1
  Callers = {c1, c2}
  MaxRequests = 2
  MaxReboots = 1
CHECK_DEADLOCK FALSE
INVARIANTS
  OneBuild
  Agreement
PROPERTIES
  RollbackRestores
  DeletedStaysGone
