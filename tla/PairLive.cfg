SPECIFICATION FairSpec
CONSTANTS
  Mod32 = 16
  Mod64 = 64
  MAX_PAYLOAD_SIZE = 1
  InitialRto = 1
  MaxWin = 8
  ISN <- MCISN
  MAX_RETX_ATTEMPTS = 2
  LingerTime = 10
  Scenarios <- LiveScenarios
INVARIANTS
  NobodyFails
PROPERTIES
  BothCloseCleanly
CHECK_DEADLOCK FALSE
