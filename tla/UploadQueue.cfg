SPECIFICATION FairSpec
CONSTANTS
  b1 = b1
  l1 = l1
  l2 = l2
  i1 = i1
  i2 = i2
  None = None
  Browser = {b1}
  Queue <- TwoItems
  IdOf <- SomeIds
  Blocks <- Lengths
CHECK_DEADLOCK FALSE
INVARIANTS
  StoredIsWhole
  AliveIsTracked
PROPERTIES
  UploadsDrain
