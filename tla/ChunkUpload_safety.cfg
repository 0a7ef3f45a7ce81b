SPECIFICATION Spec
CONSTANTS
  c1 = c1
  c2 = c2
  c3 = c3
  Chunks <- ThreeChunks
  Parallelism = 2
  VerifyParallelism = 2
  MaxAttempts = 2
  FailureThreshold = 2
  MaxRetryRounds = 2
  CommitReplyLost = TRUE
SYMMETRY Symmetry
INVARIANTS
  NoSubmitAfterClose
  StoredFileIsVerified
  NothingRecordedIsForgotten
  NoGoroutineLeft
