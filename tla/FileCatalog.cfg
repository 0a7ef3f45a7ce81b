SPECIFICATION FairSpec
CONSTANTS
  f1 = f1
  f2 = f2
  d1 = d1
  k1 = k1
  NoPath = NoPath
  Files <- TwoFiles
  Chunks = {k1}
  Dirs = {d1}
  MaxNumber = 1
  Deleters = {x1}
  Renames <- SomeRenames
CHECK_DEADLOCK FALSE
INVARIANTS
  StoredFilesReadable
PROPERTIES
  GoneForGood
  UploadsEnd
