SPECIFICATION FairSpec
CONSTANTS
  r1 = r1
  r2 = r2
  k1 = k1
  s1 = s1
  s2 = s2
  u1 = u1
  f1 = f1
  None = None
  InitName = InitName
  Requests <- TwoRequests
  Keys <- OneKey
  UserOf <- Users
  FileOf <- Files
  Ids <- TwoIds
  Segments = 2
  MaxWaitAhead = 1
  MaxInfos = 1
  MaxRestarts = 1
CHECK_DEADLOCK FALSE
INVARIANTS
  ProcessesAreWatched
  SegmentsAreComing
  ProducedIsServed
PROPERTIES
  NothingIsLeft
  WaitersLearn
