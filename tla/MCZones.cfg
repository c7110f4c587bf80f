SPECIFICATION Spec
CONSTANTS
  Domains <- MCDomains
  Hosts <- MCHosts
  Forms <- MCForms
  Challenges <- MCChallenges
  Addresses <- MCAddresses
  Settings <- MCSettings
  Star <- MCStar
  Queries <- MCQueries
  Callers = {c1, c2}
  Plane = Plane
  MaxRequests = 3
SYMMETRY ZonesSymmetry
CHECK_DEADLOCK FALSE
INVARIANTS
  SerialTellsContent
  AnswersAsStored
PROPERTIES
  KeepsNameServer
