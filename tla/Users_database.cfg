SPECIFICATION Spec
CONSTANTS
  Email = {e1, e2}
  Password = {p1, p2}
  NoPassword = NoPassword
  Thread = {proxy_server, sessions_server}
  Adder = {a1, a2}
INVARIANTS
  KnownOnly
PROPERTIES
  FirstStays
  RefusedForCause
CHECK_DEADLOCK FALSE
