SPECIFICATION FairSpec
CONSTANTS
  b1 = b1
  b2 = b2
  b3 = b3
  Lost = Lost
  None = None
  Chunks = {1, 2, 3}
  Bots = {b1, b2, b3}
  MaxRetries = 1
  MaxAttempts = 2
  UploadChunkSize = 3
  UploadChunkSafetyMargin = 2
  Files <- SomeFiles
  Requests <- SomeRequests
CHECK_DEADLOCK FALSE
INVARIANTS
  ReadableIsRead
  StraysAreFaults
  BytesAreTheRange
PROPERTIES
  RequestEnds
