SPECIFICATION FairDownloadSpec
CONSTANTS
  i1 = i1
  t1 = t1
  NoDownload = NoDownload
  MaxRequests = 2
  DownloadIdOf <- OneId
  Streams = {t1}
  WatchedId <- Watched
CHECK_DEADLOCK FALSE
INVARIANTS
  ServedIsTracked
  DroppedIsResumable
  LastWordIsTrue
PROPERTIES
  NothingLingers
