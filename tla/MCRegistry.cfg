SPECIFICATION Spec
CONSTANTS
  Domains = {d1, d2, d3}
  Users = {u1, u2}
  Admins = {u2}
  Callers = {c1, c2}
  MaxSites = 1
  MaxApps = 1
  MaxRequests = 4
  MaxReboots = 1
  NoDomain = NoDomain
  NoUser = NoUser
SYMMETRY RegistrySymmetry
CHECK_DEADLOCK FALSE
INVARIANTS
  DomainLeadsOnce
  AliasHasSite
  WholeApps
  QuotaBound
