SPECIFICATION Spec
CONSTANTS
  s1 = s1
  s2 = s2
  s3 = s3
  test = test
  other = other
  Session <- ThreeSessions
  NoSession = NoSession
  Code <- Codes
  SessionId = test
SYMMETRY Symmetry
INVARIANTS
  TypeOK
  OneReader
  AuthenticatedOnly
  BridgesDisjoint
  ToldInOrder
PROPERTIES
  ImplementsRendezvous
  StreamerClosedForCause
CHECK_DEADLOCK FALSE
