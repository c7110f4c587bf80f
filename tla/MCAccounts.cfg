SPECIFICATION AccountsSpec
CONSTANTS
  Users = {u1, u2, u3}
  Handlers = {c1, c2}
  Tokens = {t1}
  MaxAsked = 3
  MaxRestarts = 1
  NoUser = NoUser
  NoToken = NoToken
SYMMETRY AccountsSymmetry
CHECK_DEADLOCK FALSE
INVARIANTS
  SessionsEnd
  
  KeepsSuperadmin
