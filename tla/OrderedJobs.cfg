SPECIFICATION FairJobsSpec
CONSTANTS
  w1 = w1
  w2 = w2
  N = 4
  Workers <- TwoWorkers
INVARIANTS
  NoneLeftBehind
PROPERTIES
  KeepsOrder
  CallReturns
