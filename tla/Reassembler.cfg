SPECIFICATION FairSpec
CONSTANTS
  Capacity = 4
  StreamLength = 8
  MaxPush = 4
  MaxCounted = 8
INVARIANTS
  ChunksDisjoint
  OutputIsStream
  EndsExactly
  ExcessIsOneSubstring
  CounterCoversStored
  AgreesWithLoops
PROPERTIES
  DiscardsOnlyPastWindow
  EventuallyAllRead
