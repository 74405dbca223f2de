CONSTANTS
  u1 = u1
  u2 = u2
  u3 = u3
  Users <- MCUsers
  Socks <- MCSocks
  Scenarios <- MCScenarios
  TimeRequests = 2
  MaxConns = 3
SPECIFICATION FairSpec
INVARIANTS
  TypeOK
  EntryPerClient
  IdsAreOwn
  RepliesInOrder
PROPERTIES
  RequestsAnswered
  LeaversAreForgotten
CHECK_DEADLOCK FALSE
