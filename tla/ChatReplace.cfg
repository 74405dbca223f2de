CONSTANTS
  u1 = u1
  u2 = u2
  u3 = u3
  Users <- MCUsers
  Socks <- MCSocks
  Scenarios <- MCReplace
  TimeRequests = 2
  MaxConns = 3
SPECIFICATION Spec
INVARIANTS
  SignalsReachAddressee
CHECK_DEADLOCK FALSE
