SPECIFICATION Spec
CONSTANTS
  Keys <- MCKeys
  Values = {v1, v2}
  Hash <- MCHash
  HT_MINIMUM_CAPACITY = 2
  InitialCapacity = 3
  ReserveSizes = {10, 16, 21}
  MaxFailures = 2
INVARIANTS ChainsSound CountersSound
PROPERTY ImplementsMap
CHECK_DEADLOCK FALSE
