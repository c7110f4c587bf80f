SPECIFICATION MCSpec
CONSTANTS
  u1 = u1
  u2 = u2
  TeamIds = {t1}
  Users = {u1, u2, s}
  Superadmins = {s}
  Tokens = {k1}
  Addressees = {s, None}
  Callers = {c1, c2}
  MaxTeams = 1
  MaxRequests = 3
  MaxReboots = 1
  None = None
CHECK_DEADLOCK FALSE
SYMMETRY TeamsSymmetry

  
PROPERTIES
  LeavesAnOwner
  OwnersDecide
