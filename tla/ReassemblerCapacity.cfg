SPECIFICATION Spec
CONSTANTS
  Capacity = 2
  StreamLength = 4
  MaxPush = 3
  MaxCounted = 4
INVARIANTS
  WithinCapacity
