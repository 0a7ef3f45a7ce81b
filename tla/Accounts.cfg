SPECIFICATION Spec
CONSTANTS
  r1 = r1
  r2 = r2
  root = root
  anna = anna
  s1 = s1
  None = None
  Users = {root, anna}
  Root = root
  Storages = {s1}
  ChatOf <- SomeChats
  Workers = {w1}
  Videos = {v1}
  HomeOf <- Homes
  Durations <- Lengths
  ResumeMin = 30
  Seconds = {50, 95}
  Granted = {"r", "a"}
  Requests = {r1, r2}
SYMMETRY Symmetry
PROPERTIES
  RightsAreKept
  LastAdminStays
  RefusedByRace
  WatchedStays
