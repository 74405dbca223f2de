SPECIFICATION FairSpec
CONSTANTS
  Mod32 = 16
  Mod64 = 64
  MAX_PAYLOAD_SIZE = 1
  InitialRto = 1
  MaxWin = 8
  MAX_RETX_ATTEMPTS = 1
  LingerTime = 2
  PipeCapacity = 1
  CopyBuffer = 3
  ISN <- MCISN
  Scenarios <- MCScenarios
INVARIANTS
  BytesInOrder
  EndsComeLast
  NobodyCrashes
  ThreadEndsLast
PROPERTIES
  BothThreadsEnd
CHECK_DEADLOCK FALSE
