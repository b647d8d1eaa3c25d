SPECIFICATION FairSpec
CONSTANTS
  t1 = t1
  t2 = t2
  s1 = s1
  s2 = s2
  test = test
  other = other
  Caller <- TwoCallers
  Session <- TwoSessions
  NoSession = NoSession
  Code <- OneCode
  SessionId = test
  ClientTimeout = 1
  MaxInits = 2
  MaxShift = 1
INVARIANTS
  TypeOK
  MutualExclusion
  RegistryIsOffers
PROPERTIES
  StaleReaped
  CallsReturn
  OneFate
  SweptForAge
CHECK_DEADLOCK FALSE
