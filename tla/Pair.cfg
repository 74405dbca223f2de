SPECIFICATION Spec
CONSTANTS
  Mod32 = 16
  Mod64 = 64
  MAX_PAYLOAD_SIZE = 1
  InitialRto = 1
  MaxWin = 8
  ISN <- MCISN
  MAX_RETX_ATTEMPTS = 1
  LingerTime = 1
  Scenarios <- PairScenarios
INVARIANTS
  AcknoIsTrue
  NoLingerLeavesPeerSettled
PROPERTIES
  KeepsPromise
  NeverGoesBack
CHECK_DEADLOCK FALSE
