SPECIFICATION FairSpec
CONSTANTS
  t1 = t1
  t2 = t2
  s1 = s1
  s2 = s2
  test = test
  other = other
  Caller <- OneCaller
  Session <- TwoSessions
  NoSession = NoSession
  Code <- Codes
  SessionId = test
  ClientTimeout = 1
  MaxInits = 2
  MaxShift = 0
PROPERTIES
  ResetReturns
CHECK_DEADLOCK FALSE
