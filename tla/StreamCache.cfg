SPECIFICATION FairSpec
CONSTANTS
  r1 = r1
  r2 = r2
  r3 = r3
  k1 = k1
  k2 = k2
  None = none
  Requests <- ThreeRequests
  Keys <- TwoKeys
  Size <- Sizes
  MaxEntries = 2
  MaxBytes = 2
  MaxCalls = 3
  MaxLate = 1
INVARIANTS
  NoForeignCancellation
  LoadedOnce
  CacheBounded
PROPERTIES
  CallsReturn
CHECK_DEADLOCK FALSE
