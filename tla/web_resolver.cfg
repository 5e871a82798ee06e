SPECIFICATION Spec
CONSTANTS
  m1 = m1 m2 = m2
  Clients = {c1, c2}
  Mappings = {m1, m2}
  Invalid = Invalid Garbled = Garbled NoBody = NoBody NoClient = NoClient
  Requests <- MCRequests
\* The process has ended.
CHECK_DEADLOCK FALSE
INVARIANTS
  TypeOK
  ToldMeansSaved
  ErrorsHaveACause
PROPERTIES
  ImplementsSession
  SessionEnds
