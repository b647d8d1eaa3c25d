SPECIFICATION CSpec
CONSTANTS
  Session = {s1, s2}
  NoSession = NoSession
  Code = {test, other}
  SessionId = test
INVARIANTS
  AnswersMatch
PROPERTIES
  WaitsEnd
  ClaimSettles
  ConnectionsServed
CHECK_DEADLOCK FALSE
