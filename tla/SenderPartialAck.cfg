SPECIFICATION Spec
CONSTANTS
  Mod32 = 16
  Mod64 = 64
  MAX_PAYLOAD_SIZE = 2
  InitialRto = 2
  ISN = 14
  SendCapacity = 3
  StreamLength = 3
  MaxWindow = 4
  MaxAcks = 2
  MaxRetx = 1
PROPERTIES
  NewDataResetsBackoff
