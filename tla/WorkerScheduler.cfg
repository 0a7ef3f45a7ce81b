SPECIFICATION FairSpec
CONSTANTS
  c1 = c1
  c2 = c2
  s1 = s1
  s2 = s2
  shared = shared
  Callers <- TwoCallers
  Storages <- TwoStorages
  Workers <- OneWorker
  Serves <- ServesAll
  RateLimit = 3
  BatchSize = 2
  Window = 2
INVARIANTS
  WaitingIsExact
  BufferBounded
  OvershootBounded
PROPERTIES
  CallsReturn
