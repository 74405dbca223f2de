SPECIFICATION MCSpec
CONSTANTS
  Mod32 = 16
  Mod64 = 64
  MAX_PAYLOAD_SIZE = 2
  InitialRto = 2
  ISN = 14
  SendCapacity = 3
  StreamLength = 3
  MaxWindow = 3
  MaxAcks = 2
  MaxRetx = 1
  MaxDrift = 15
INVARIANTS
  UnwrapClosest
  RoundTrip
  TimerIffOutstanding
  UnackedIsOutstanding
  SeqnoAccounting
  SegmentsCarryTheStream
  WithinAdvertisedWindow
PROPERTIES
  BackoffResetsOnProgress
  TimeoutSendsOldest
CHECK_DEADLOCK FALSE
