SPECIFICATION FairSpec
CONSTANTS
  c1 = c1
  c2 = c2
  c3 = c3
  Chunks <- ThreeChunks
  Parallelism = 1
  VerifyParallelism = 1
  MaxAttempts = 1
  FailureThreshold = 1
  MaxRetryRounds = 2
  CommitReplyLost = FALSE
PROPERTIES
  KeepsPromise
  UploadEnds
