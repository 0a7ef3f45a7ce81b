------------------------- MODULE ChunkUploadProofs -------------------------
(***************************************************************************)
(* The safety of ChunkUpload for every number of chunks and every limit.   *)
(*                                                                         *)
(* The delicate part is the consumer that returns early when the verifier  *)
(* context dies during a cooldown of the breaker: the results it had       *)
(* accepted are never verified and group.Wait reports no error.  They are  *)
(* not persisted only because a tripped breaker implies a non-empty retry  *)
(* queue, whose first cooldown then sees the dead context (Abandoned).     *)
(***************************************************************************)
EXTENDS ChunkUpload, TLAPS

Uploading  == {"begin", "loop", "read", "spawn", "wait", "second"}
Rechecking == {"cooldown", "reverify", "persist"}

\* Where the Upload goroutine is, what has already stopped.
Quiet ==
  /\ phase = "begin" => \A c \in Chunks : up[c] = "unread"
  /\ phase \in Uploading => ~inClosed
  /\ phase \notin Uploading => InFlight = {}
  /\ phase \in Rechecking \cup {"done"} => VerifierStopped
  /\ phase = "second" => \A c, d \in InFlight : c = d

\* What a stage of a chunk says about the rest.
StagesOK ==
  /\ \A c \in Chunks :
       /\ up[c] = "buffered" => phase = "spawn"
       /\ up[c] = "unread" /\ phase \notin {"begin", "loop", "read", "spawn"} =>
            UploadsFailed \/ result = "error"
       /\ up[c] \in {"dropped", "unsubmitted"} => groupErr \/ phase \in {"abort", "done"}
       /\ up[c] = "submitted" <=> ver[c] # "none"
       /\ c \in results /\ phase # "done" => tg[c] = "present"
  /\ \A c, d \in Chunks : up[c] = "buffered" /\ up[d] = "buffered" => c = d

\* Past uploadChunks nothing has gone wrong and, after the second round,
\* every chunk is in the verifier's hands.
AllSent ==
  /\ phase \in {"second", "stop"} \cup Rechecking =>
       /\ ~sourceErr /\ ~groupErr
       /\ \A c \in Chunks : up[c] \in {"failed", "sending", "submitting", "submitted"}
  /\ phase \in {"stop"} \cup Rechecking => \A c \in Chunks : up[c] = "submitted"

\* A consumer that is done has seen everything, or its context is dead and
\* the breaker's failures wait in the retry queue.
Abandoned ==
  phase \in Uploading \cup {"stop"} =>
    /\ tripped => retryQueue # {}
    /\ consumer = "cooldown" => retryQueue # {}
    /\ consumer = "done" =>
         \/ inClosed /\ \A c \in Chunks : ver[c] \notin {"queued", "held"}
         \/ VerifyCtxDead /\ retryQueue # {}
    /\ \A c \in Chunks :
         /\ ver[c] # "again"
         /\ ver[c] \in {"aborted", "mismatch"} => verifyErr

Held ==
  /\ consumer = "recv" => \A c \in Chunks : ver[c] # "held"
  /\ \A c, d \in Chunks : ver[c] = "held" /\ ver[d] = "held" => c = d

\* The verdicts of the re-verification phases.
Rechecked ==
  /\ phase \in Rechecking => ~verifyErr
  /\ phase = "cooldown" => \A c \in Chunks :
       \/ ver[c] \in {"retry", "ok", "mismatch"}
       \/ ver[c] \in {"queued", "held"} /\ ~ctxAlive
  /\ phase = "reverify" =>
       \A c \in Chunks : ver[c] \in {"retry", "ok", "mismatch", "again"}
  /\ phase = "persist" => \A c \in Chunks : ver[c] = "ok"

\* What the caller was told, and the cleanup.
Outcome ==
  /\ result = "none" <=> phase # "done"
  /\ result = "ok" => committed
  /\ committed => phase = "done" /\ (result = "ok" \/ CommitReplyLost)
  /\ cleanup # "none" \/ toDelete # {} => result = "error"

IInv ==
  /\ TypeOK /\ Quiet /\ StagesOK /\ AllSent /\ Abandoned /\ Held /\ Rechecked
  /\ Outcome /\ StoredFileIsVerified /\ NothingRecordedIsForgotten
----------------------------------------------------------------------------

\* The invariant holds initially.
LEMMA InitIInv == Init => IInv
<1>. SUFFICES ASSUME Init PROVE IInv
  OBVIOUS
<1>1. TypeOK
  <2>1. attempt \in [Chunks -> 0..MaxAttempts] /\ round \in 0..MaxRetryRounds
    BY LimitsAssumption DEF Init
  <2>2. up \in [Chunks -> Stages] /\ ver \in [Chunks -> Verdicts] /\ phase \in Phases
    BY DEF Init, Stages, Verdicts, Phases
  <2>3. tg \in [Chunks -> {"none", "present", "deleted"}] 
    BY DEF Init
  <2>4. QED BY <2>1, <2>2, <2>3 DEF Init, TypeOK
<1>2. Quiet /\ StagesOK /\ AllSent
  BY DEF Init, Quiet, StagesOK, AllSent, Uploading, Rechecking, results
<1>3. Abandoned /\ Held /\ Rechecked
  BY DEF Init, Abandoned, Held, Rechecked, Rechecking
<1>4. Outcome /\ StoredFileIsVerified /\ NothingRecordedIsForgotten
  BY DEF Init, Outcome, StoredFileIsVerified, NothingRecordedIsForgotten
<1>. QED BY <1>1, <1>2, <1>3, <1>4 DEF IInv

\* The reading loop, its cancellation and the hand-over to the second round.
LEMMA ReadingStep ==
  ASSUME IInv, NEW c \in Chunks,
         Cancel \/ StorageFound \/ StorageMissing \/ LoopTop \/ ReadEOF
         \/ SourceBreaks \/ WaitUploads \/ SecondRoundDone \/ ReadChunk(c) \/ Spawn(c) \/ RetryFailed(c)
  PROVE  IInv'
<1> USE LimitsAssumption DEF IInv, TypeOK, Quiet, StagesOK, AllSent, Abandoned, Held, Rechecked,
      Outcome, StoredFileIsVerified, NothingRecordedIsForgotten, Uploading,
      Rechecking, Phases, Stages, Verdicts, Unread, InFlight, failedChunks,
      results, Queued, Verifying, retryQueue, stillFailed, failedPos,
      UploadCtxDead, UploadsFailed, VerifyCtxDead, VerifierStopped, readVars,
      uploadVars, breakerVars, verifierVars, othersVars, outcomeVars
<1>1. CASE Cancel
  <2>. USE <1>1 DEF Cancel
  <2>1. TypeOK' OBVIOUS
  <2>2. Quiet' OBVIOUS
  <2>3. StagesOK' OBVIOUS
  <2>4. AllSent' OBVIOUS
  <2>5. Abandoned' OBVIOUS
  <2>6. Held' OBVIOUS
  <2>7. Rechecked' OBVIOUS
  <2>8. Outcome' OBVIOUS
  <2>9. StoredFileIsVerified' OBVIOUS
  <2>10. NothingRecordedIsForgotten' OBVIOUS
  <2>. QED BY <2>1, <2>2, <2>3, <2>4, <2>5, <2>6, <2>7, <2>8, <2>9, <2>10
<1>2. CASE LoopTop
  BY <1>2 DEF LoopTop
<1>3. CASE ReadEOF
  BY <1>3 DEF ReadEOF
<1>4. CASE SourceBreaks
  BY <1>4 DEF SourceBreaks
<1>5. CASE WaitUploads
  <2>. USE <1>5 DEF WaitUploads, UploadsReturned
  <2>1. TypeOK' OBVIOUS
  <2>2. Quiet' OBVIOUS
  <2>3. StagesOK' OBVIOUS
  <2>4. AllSent' OBVIOUS
  <2>5. Abandoned' OBVIOUS
  <2>6. Held' OBVIOUS
  <2>7. Rechecked' OBVIOUS
  <2>8. Outcome' OBVIOUS
  <2>9. StoredFileIsVerified' OBVIOUS
  <2>10. NothingRecordedIsForgotten' OBVIOUS
  <2>. QED BY <2>1, <2>2, <2>3, <2>4, <2>5, <2>6, <2>7, <2>8, <2>9, <2>10
<1>6. CASE SecondRoundDone
  BY <1>6 DEF SecondRoundDone
<1>7. CASE ReadChunk(c)
  BY <1>7 DEF ReadChunk
<1>8. CASE Spawn(c)
  BY <1>8 DEF Spawn
<1>9. CASE RetryFailed(c)
  BY <1>9 DEF RetryFailed
<1>10. CASE StorageFound
  BY <1>10 DEF StorageFound
<1>11. CASE StorageMissing
  <2>. USE <1>11 DEF StorageMissing
  <2>1. TypeOK' OBVIOUS
  <2>2. Quiet' OBVIOUS
  <2>3. StagesOK' OBVIOUS
  <2>4. AllSent' OBVIOUS
  <2>5. Abandoned' OBVIOUS
  <2>6. Held' OBVIOUS
  <2>7. Rechecked' OBVIOUS
  <2>8. Outcome' OBVIOUS
  <2>9. StoredFileIsVerified' OBVIOUS
  <2>10. NothingRecordedIsForgotten' OBVIOUS
  <2>. QED BY <2>1, <2>2, <2>3, <2>4, <2>5, <2>6, <2>7, <2>8, <2>9, <2>10
<1>12. QED BY <1>1, <1>2, <1>3, <1>4, <1>5, <1>6, <1>7, <1>8, <1>9, <1>10, <1>11

\* A chunk goroutine, or the second round sending one chunk.
LEMMA SendingStep ==
  ASSUME IInv, NEW c \in Chunks,
         Delivered(c) \/ AttemptFails(c) \/ NoAttempt(c) \/ Submit(c)
         \/ SubmitGivesUp(c)
  PROVE  IInv'
<1> USE LimitsAssumption DEF IInv, TypeOK, Quiet, StagesOK, AllSent, Abandoned, Held, Rechecked,
      Outcome, StoredFileIsVerified, NothingRecordedIsForgotten, Uploading,
      Rechecking, Phases, Stages, Verdicts, Unread, InFlight, failedChunks,
      results, Queued, Verifying, retryQueue, stillFailed, failedPos,
      UploadCtxDead, UploadsFailed, VerifyCtxDead, VerifierStopped, readVars,
      uploadVars, breakerVars, verifierVars, othersVars, outcomeVars
<1>1. CASE Delivered(c)
  BY <1>1 DEF Delivered
<1>2. CASE AttemptFails(c)
  <2>. USE <1>2 DEF AttemptFails, LastAttempt, GiveUp
  <2>1. TypeOK'
    <3>1. (attempt \in [Chunks -> 0..MaxAttempts])' OBVIOUS
    <3>2. (up \in [Chunks -> Stages])' OBVIOUS
    <3>3. (ver \in [Chunks -> Verdicts])' OBVIOUS
    <3>4. (stray \subseteq Chunks)' OBVIOUS
    <3>5. (groupErr \in BOOLEAN /\ phase \in Phases)' OBVIOUS
    <3>6. (failures \in Nat /\ tripped \in BOOLEAN /\ round \in 0..MaxRetryRounds)' OBVIOUS
    <3>. QED BY <3>1, <3>2, <3>3, <3>4, <3>5, <3>6
  <2>2. Quiet' OBVIOUS
  <2>3. StagesOK' OBVIOUS
  <2>4. AllSent' OBVIOUS
  <2>5. Abandoned' OBVIOUS
  <2>6. Held' OBVIOUS
  <2>7. Rechecked' OBVIOUS
  <2>8. Outcome' OBVIOUS
  <2>9. StoredFileIsVerified' OBVIOUS
  <2>10. NothingRecordedIsForgotten' OBVIOUS
  <2>. QED BY <2>1, <2>2, <2>3, <2>4, <2>5, <2>6, <2>7, <2>8, <2>9, <2>10
<1>3. CASE NoAttempt(c)
  <2>. USE <1>3 DEF NoAttempt, GiveUp
  <2>1. TypeOK'
    <3>1. (attempt \in [Chunks -> 0..MaxAttempts])' OBVIOUS
    <3>2. (up \in [Chunks -> Stages])' OBVIOUS
    <3>3. (ver \in [Chunks -> Verdicts])' OBVIOUS
    <3>4. (stray \subseteq Chunks)' OBVIOUS
    <3>5. (groupErr \in BOOLEAN /\ phase \in Phases)' OBVIOUS
    <3>6. (failures \in Nat /\ tripped \in BOOLEAN /\ round \in 0..MaxRetryRounds)' OBVIOUS
    <3>. QED BY <3>1, <3>2, <3>3, <3>4, <3>5, <3>6
  <2>2. Quiet' OBVIOUS
  <2>3. StagesOK' OBVIOUS
  <2>4. AllSent' OBVIOUS
  <2>5. Abandoned' OBVIOUS
  <2>6. Held' OBVIOUS
  <2>7. Rechecked' OBVIOUS
  <2>8. Outcome' OBVIOUS
  <2>9. StoredFileIsVerified' OBVIOUS
  <2>10. NothingRecordedIsForgotten' OBVIOUS
  <2>. QED BY <2>1, <2>2, <2>3, <2>4, <2>5, <2>6, <2>7, <2>8, <2>9, <2>10
<1>4. CASE Submit(c)
  BY <1>4 DEF Submit
<1>5. CASE SubmitGivesUp(c)
  <2>. USE <1>5 DEF SubmitGivesUp
  <2>1. TypeOK'
    <3>1. (attempt \in [Chunks -> 0..MaxAttempts])' OBVIOUS
    <3>2. (up \in [Chunks -> Stages])' OBVIOUS
    <3>3. (ver \in [Chunks -> Verdicts])' OBVIOUS
    <3>4. (stray \subseteq Chunks)' OBVIOUS
    <3>5. (groupErr \in BOOLEAN /\ phase \in Phases)' OBVIOUS
    <3>6. (failures \in Nat /\ tripped \in BOOLEAN /\ round \in 0..MaxRetryRounds)' OBVIOUS
    <3>. QED BY <3>1, <3>2, <3>3, <3>4, <3>5, <3>6
  <2>2. Quiet' OBVIOUS
  <2>3. StagesOK' OBVIOUS
  <2>4. AllSent' OBVIOUS
  <2>5. Abandoned' OBVIOUS
  <2>6. Held' OBVIOUS
  <2>7. Rechecked' OBVIOUS
  <2>8. Outcome' OBVIOUS
  <2>9. StoredFileIsVerified' OBVIOUS
  <2>10. NothingRecordedIsForgotten' OBVIOUS
  <2>. QED BY <2>1, <2>2, <2>3, <2>4, <2>5, <2>6, <2>7, <2>8, <2>9, <2>10
<1>6. QED BY <1>1, <1>2, <1>3, <1>4, <1>5

\* The verifier's consumer.
LEMMA ConsumeStep ==
  ASSUME IInv, NEW c \in Chunks,
         IntakeDrained \/ WaitIfTripped \/ BreakerTimer \/ BreakerAborted
         \/ Receive(c) \/ Dispatch(c)
  PROVE  IInv'
<1> USE LimitsAssumption DEF IInv, TypeOK, Quiet, StagesOK, AllSent, Abandoned, Held, Rechecked,
      Outcome, StoredFileIsVerified, NothingRecordedIsForgotten, Uploading,
      Rechecking, Phases, Stages, Verdicts, Unread, InFlight, failedChunks,
      results, Queued, Verifying, retryQueue, stillFailed, failedPos,
      UploadCtxDead, UploadsFailed, VerifyCtxDead, VerifierStopped, readVars,
      uploadVars, breakerVars, verifierVars, othersVars, outcomeVars
<1>1. CASE IntakeDrained
  BY <1>1 DEF IntakeDrained
<1>2. CASE WaitIfTripped
  BY <1>2 DEF WaitIfTripped
<1>3. CASE BreakerTimer
  BY <1>3 DEF BreakerTimer
<1>4. CASE BreakerAborted
  BY <1>4 DEF BreakerAborted
<1>5. CASE Receive(c)
  BY <1>5 DEF Receive
<1>6. CASE Dispatch(c)
  BY <1>6 DEF Dispatch
<1>7. QED BY <1>1, <1>2, <1>3, <1>4, <1>5, <1>6

\* A verification of the pipeline.
LEMMA VerifyStep ==
  ASSUME IInv, NEW c \in Chunks,
         VerifyOK(c) \/ VerifyAborted(c) \/ VerifyMismatch(c)
         \/ VerifyTransient(c)
  PROVE  IInv'
<1> USE LimitsAssumption DEF IInv, TypeOK, Quiet, StagesOK, AllSent, Abandoned, Held, Rechecked,
      Outcome, StoredFileIsVerified, NothingRecordedIsForgotten, Uploading,
      Rechecking, Phases, Stages, Verdicts, Unread, InFlight, failedChunks,
      results, Queued, Verifying, retryQueue, stillFailed, failedPos,
      UploadCtxDead, UploadsFailed, VerifyCtxDead, VerifierStopped, readVars,
      uploadVars, breakerVars, verifierVars, othersVars, outcomeVars
<1>1. CASE VerifyOK(c)
  <2>. USE <1>1 DEF VerifyOK
  <2>1. TypeOK'
    <3>1. (attempt \in [Chunks -> 0..MaxAttempts])' OBVIOUS
    <3>2. (up \in [Chunks -> Stages])' OBVIOUS
    <3>3. (ver \in [Chunks -> Verdicts])' OBVIOUS
    <3>4. (stray \subseteq Chunks)' OBVIOUS
    <3>5. (groupErr \in BOOLEAN /\ phase \in Phases)' OBVIOUS
    <3>6. (failures \in Nat /\ tripped \in BOOLEAN /\ round \in 0..MaxRetryRounds)' OBVIOUS
    <3>. QED BY <3>1, <3>2, <3>3, <3>4, <3>5, <3>6
  <2>2. Quiet' OBVIOUS
  <2>3. StagesOK' OBVIOUS
  <2>4. AllSent' OBVIOUS
  <2>5. Abandoned' OBVIOUS
  <2>6. Held' OBVIOUS
  <2>7. Rechecked' OBVIOUS
  <2>8. Outcome' OBVIOUS
  <2>9. StoredFileIsVerified' OBVIOUS
  <2>10. NothingRecordedIsForgotten' OBVIOUS
  <2>. QED BY <2>1, <2>2, <2>3, <2>4, <2>5, <2>6, <2>7, <2>8, <2>9, <2>10
<1>2. CASE VerifyAborted(c)
  BY <1>2 DEF VerifyAborted
<1>3. CASE VerifyMismatch(c)
  BY <1>3 DEF VerifyMismatch
<1>4. CASE VerifyTransient(c)
  BY <1>4 DEF VerifyTransient
<1>5. QED BY <1>1, <1>2, <1>3, <1>4

\* stop, the re-verification rounds, persist and abort.
LEMMA FinishingStep ==
  ASSUME IInv, NEW c \in Chunks,
         CloseIntake \/ StopReturns \/ CooldownOver \/ RoundEnds \/ Persist
         \/ PersistFails \/ AbortReturns \/ Reverify(c)
  PROVE  IInv'
<1> USE LimitsAssumption DEF IInv, TypeOK, Quiet, StagesOK, AllSent, Abandoned, Held, Rechecked,
      Outcome, StoredFileIsVerified, NothingRecordedIsForgotten, Uploading,
      Rechecking, Phases, Stages, Verdicts, Unread, InFlight, failedChunks,
      results, Queued, Verifying, retryQueue, stillFailed, failedPos,
      UploadCtxDead, UploadsFailed, VerifyCtxDead, VerifierStopped, readVars,
      uploadVars, breakerVars, verifierVars, othersVars, outcomeVars
<1>1. CASE CloseIntake
  BY <1>1 DEF CloseIntake
<1>2. CASE StopReturns
  <2>. USE <1>2 DEF StopReturns, Conclude
  <2>1. TypeOK' OBVIOUS
  <2>2. Quiet' OBVIOUS
  <2>3. StagesOK' OBVIOUS
  <2>4. AllSent' OBVIOUS
  <2>5. Abandoned' OBVIOUS
  <2>6. Held' OBVIOUS
  <2>7. Rechecked' OBVIOUS
  <2>8. Outcome' OBVIOUS
  <2>9. StoredFileIsVerified' OBVIOUS
  <2>10. NothingRecordedIsForgotten' OBVIOUS
  <2>. QED BY <2>1, <2>2, <2>3, <2>4, <2>5, <2>6, <2>7, <2>8, <2>9, <2>10
<1>3. CASE CooldownOver
  BY <1>3 DEF CooldownOver
<1>4. CASE RoundEnds
  <2>. USE <1>4 DEF RoundEnds, Conclude
  <2>1. TypeOK' OBVIOUS
  <2>2. Quiet' OBVIOUS
  <2>3. StagesOK' OBVIOUS
  <2>4. AllSent' OBVIOUS
  <2>5. Abandoned' OBVIOUS
  <2>6. Held' OBVIOUS
  <2>7. Rechecked' OBVIOUS
  <2>8. Outcome' OBVIOUS
  <2>9. StoredFileIsVerified' OBVIOUS
  <2>10. NothingRecordedIsForgotten' OBVIOUS
  <2>. QED BY <2>1, <2>2, <2>3, <2>4, <2>5, <2>6, <2>7, <2>8, <2>9, <2>10
<1>5. CASE Persist
  BY <1>5 DEF Persist
<1>6. CASE PersistFails
  <2>. USE <1>6 DEF PersistFails, cleanupAll
  <2>1. TypeOK' OBVIOUS
  <2>2. Quiet' OBVIOUS
  <2>3. StagesOK' OBVIOUS
  <2>4. AllSent' OBVIOUS
  <2>5. Abandoned' OBVIOUS
  <2>6. Held' OBVIOUS
  <2>7. Rechecked' OBVIOUS
  <2>8. Outcome' OBVIOUS
  <2>9. StoredFileIsVerified' OBVIOUS
  <2>10. NothingRecordedIsForgotten' OBVIOUS
  <2>. QED BY <2>1, <2>2, <2>3, <2>4, <2>5, <2>6, <2>7, <2>8, <2>9, <2>10
<1>7. CASE AbortReturns
  <2>. USE <1>7 DEF AbortReturns, cleanupAll
  <2>1. TypeOK' OBVIOUS
  <2>2. Quiet' OBVIOUS
  <2>3. StagesOK' OBVIOUS
  <2>4. AllSent' OBVIOUS
  <2>5. Abandoned' OBVIOUS
  <2>6. Held' OBVIOUS
  <2>7. Rechecked' OBVIOUS
  <2>8. Outcome' OBVIOUS
  <2>9. StoredFileIsVerified' OBVIOUS
  <2>10. NothingRecordedIsForgotten' OBVIOUS
  <2>. QED BY <2>1, <2>2, <2>3, <2>4, <2>5, <2>6, <2>7, <2>8, <2>9, <2>10
<1>8. CASE Reverify(c)
  BY <1>8 DEF Reverify
<1>9. QED BY <1>1, <1>2, <1>3, <1>4, <1>5, <1>6, <1>7, <1>8

\* The background cleanup.
LEMMA CleanupStep ==
  ASSUME IInv, NEW c \in Chunks,
         DeleteFails \/ CleanupEnds \/ DeleteMessage(c)
  PROVE  IInv'
<1> USE LimitsAssumption DEF IInv, TypeOK, Quiet, StagesOK, AllSent, Abandoned, Held, Rechecked,
      Outcome, StoredFileIsVerified, NothingRecordedIsForgotten, Uploading,
      Rechecking, Phases, Stages, Verdicts, Unread, InFlight, failedChunks,
      results, Queued, Verifying, retryQueue, stillFailed, failedPos,
      UploadCtxDead, UploadsFailed, VerifyCtxDead, VerifierStopped, readVars,
      uploadVars, breakerVars, verifierVars, othersVars, outcomeVars
<1>1. CASE DeleteFails
  BY <1>1 DEF DeleteFails
<1>2. CASE CleanupEnds
  BY <1>2 DEF CleanupEnds
<1>3. CASE DeleteMessage(c)
  BY <1>3 DEF DeleteMessage
<1>4. QED BY <1>1, <1>2, <1>3

\* Every step of the upload keeps the invariant.
LEMMA NextIInv == IInv /\ [Next]_vars => IInv'
<1>. SUFFICES ASSUME IInv, [Next]_vars PROVE IInv'
  OBVIOUS
<1>1. PICK d \in Chunks : TRUE
  BY ChunksAssumption
<1>2. CASE UNCHANGED vars
  BY <1>2 DEF vars, IInv, TypeOK, Quiet, StagesOK, AllSent, Abandoned, Held,
     Rechecked, Outcome, StoredFileIsVerified, NothingRecordedIsForgotten,
     InFlight, results, Verifying, retryQueue, UploadsFailed,
     VerifyCtxDead, VerifierStopped, readVars, uploadVars, verifierVars,
     outcomeVars
<1>3. CASE Cancel \/ Read
  BY <1>1, <1>3, ReadingStep DEF Read
<1>4. CASE Main
  BY <1>1, <1>4, ReadingStep, FinishingStep DEF Main
<1>5. CASE Consume
  BY <1>1, <1>5, ConsumeStep DEF Consume
<1>6. CASE Cleanup
  BY <1>1, <1>6, CleanupStep DEF Cleanup
<1>7. CASE Finished
  BY <1>2, <1>7 DEF Finished
<1>8. CASE \E c \in Chunks : UploadChunk(c) \/ Verify(c)
  BY <1>8, SendingStep, VerifyStep DEF UploadChunk, Verify
<1>. QED BY <1>2, <1>3, <1>4, <1>5, <1>6, <1>7, <1>8 DEF Next

\* The inductive invariant holds in every reachable state.
THEOREM Invariance == Spec => []IInv
<1>. QED BY InitIInv, NextIInv, PTL DEF Spec

----------------------------------------------------------------------------
\* Every variable keeps its type.
THEOREM TypeCorrect == Spec => []TypeOK
<1>1. IInv => TypeOK
  BY DEF IInv
<1>. QED BY <1>1, Invariance, PTL

\* No chunk goroutine ever submits to a closed channel: uploadChunks and the
\* second round return only with nothing in flight, stop closes after them.
THEOREM NeverSendsOnClosedIntake == Spec => []NoSubmitAfterClose
<1>1. IInv => NoSubmitAfterClose
  BY DEF IInv, TypeOK, Quiet, NoSubmitAfterClose, InFlight
<1>. QED BY <1>1, Invariance, PTL

\* A file is stored only when it was read to its end and every chunk verified.
THEOREM StoredIsVerified == Spec => []StoredFileIsVerified
<1>1. IInv => StoredFileIsVerified
  BY DEF IInv
<1>. QED BY <1>1, Invariance, PTL

\* A failed upload hands every recorded message to its cleanup.
THEOREM CleanupIsComplete == Spec => []NothingRecordedIsForgotten
<1>1. IInv => NothingRecordedIsForgotten
  BY DEF IInv
<1>. QED BY <1>1, Invariance, PTL

\* Upload leaves no goroutine behind.
THEOREM ReturnsAlone == Spec => []NoGoroutineLeft
<1>1. IInv => NoGoroutineLeft
  BY DEF IInv, Quiet, NoGoroutineLeft, VerifierStopped, Uploading
<1>. QED BY <1>1, Invariance, PTL

----------------------------------------------------------------------------
(* Upload implements UploadPromise when COMMIT's reply is reliable.        *)

\* The upload starts as its promise does.
LEMMA PromiseInit == Init => Promise!Init
BY DEF Init, Promise!Init, Fate, Intact

\* Every step keeps the promise or leaves it as it is.
LEMMA PromiseStep ==
  ASSUME ~CommitReplyLost, IInv, [Next]_vars
  PROVE  [Promise!Next]_(Promise!vars)
<1>. USE DEF Fate, Intact, readVars, uploadVars, breakerVars, verifierVars, othersVars, outcomeVars
<1>. DEFINE Stutter == Fate' = Fate /\ Intact' = Intact
<1>0. Stutter => UNCHANGED Promise!vars
  BY DEF Promise!vars
<1>1. CASE \/ Cancel \/ StorageFound \/ LoopTop \/ WaitUploads \/ SecondRoundDone \/ CloseIntake
           \/ StopReturns \/ CooldownOver \/ ReadEOF \/ SourceBreaks
           \/ IntakeDrained \/ WaitIfTripped \/ BreakerTimer \/ BreakerAborted
           \/ DeleteFails \/ CleanupEnds
  <2>. Stutter
    BY <1>1 DEF Cancel, StorageFound, LoopTop, WaitUploads, SecondRoundDone, CloseIntake,
       StopReturns, CooldownOver, ReadEOF, SourceBreaks, IntakeDrained,
       WaitIfTripped, BreakerTimer, BreakerAborted, DeleteFails, CleanupEnds
  <2>. QED BY <1>0
<1>2. ASSUME NEW c \in Chunks,
             \/ ReadChunk(c) \/ Spawn(c) \/ RetryFailed(c) \/ AttemptFails(c)
             \/ NoAttempt(c) \/ SubmitGivesUp(c)
      PROVE  UNCHANGED Promise!vars
  <2>. Stutter
    BY <1>2 DEF ReadChunk, Spawn, RetryFailed, AttemptFails, NoAttempt, GiveUp,
       SubmitGivesUp
  <2>. QED BY <1>0
\* A chunk has a verdict only once it has been recorded and submitted.
<1>3. ASSUME NEW c \in Chunks, Delivered(c) \/ Submit(c)
      PROVE  UNCHANGED Promise!vars
  <2>1. ver[c] = "none"
    BY <1>3 DEF IInv, StagesOK, Delivered, Submit
  <2>. Stutter
    BY <1>3, <2>1 DEF Delivered, Submit, IInv, TypeOK
  <2>. QED BY <1>0
<1>4. ASSUME NEW c \in Chunks,
             \/ Receive(c) \/ Dispatch(c) \/ VerifyAborted(c)
             \/ VerifyMismatch(c) \/ VerifyTransient(c)
      PROVE  UNCHANGED Promise!vars
  <2>. Stutter
    BY <1>4 DEF Receive, Dispatch, VerifyAborted, VerifyMismatch,
       VerifyTransient, Queued, Verifying, IInv, TypeOK
  <2>. QED BY <1>0
<1>5. ASSUME NEW c \in Chunks, VerifyOK(c)
      PROVE  Promise!Keep(c)
  <2>1. phase # "done" /\ tg[c] = "present"
    BY <1>5 DEF VerifyOK, Verifying, IInv, Quiet, StagesOK, VerifierStopped, results
  <2>2. Intact' = Intact \cup {c}
    BY <1>5, <2>1 DEF VerifyOK, Verifying, IInv, TypeOK
  <2>3. Fate = "running" /\ Fate' = Fate
    BY <1>5, <2>1 DEF VerifyOK, IInv, Outcome
  <2>. QED BY <2>2, <2>3 DEF Promise!Keep
<1>6. ASSUME NEW c \in Chunks, Reverify(c)
      PROVE  Promise!Keep(c) \/ UNCHANGED Promise!vars
  <2>1. tg[c] = "present" /\ ver[c] = "retry"
    BY <1>6 DEF Reverify, retryQueue, IInv, StagesOK, results
  <2>2. Fate = "running" /\ Fate' = Fate
    BY <1>6 DEF Reverify, IInv, Outcome
  <2>3. Intact' = Intact \cup {c} \/ Intact' = Intact
    BY <1>6, <2>1 DEF Reverify, IInv, TypeOK
  <2>. QED BY <1>0, <2>2, <2>3 DEF Promise!Keep
<1>7. CASE RoundEnds
  <2>. Stutter
    BY <1>7 DEF RoundEnds, stillFailed, IInv, TypeOK
  <2>. QED BY <1>0
<1>8. CASE Persist
  <2>1. Intact = Chunks /\ Intact' = Intact
    BY <1>8 DEF Persist, IInv, StagesOK, AllSent, Rechecked, Rechecking, results
  <2>2. Fate = "running" /\ Fate' = "stored"
    BY <1>8 DEF Persist, IInv, Outcome
  <2>. QED BY <2>1, <2>2 DEF Promise!Store, Promise!Next
<1>9. CASE PersistFails \/ AbortReturns
  <2>1. Intact' = Intact
    BY <1>9 DEF PersistFails, AbortReturns
  <2>2. committed = FALSE /\ phase # "done"
    BY <1>9 DEF PersistFails, AbortReturns, IInv, TypeOK, Outcome
  <2>3. committed' = FALSE /\ result' = "error"
    BY <1>9, <2>2 DEF PersistFails, AbortReturns
  <2>4. Fate = "running" /\ Fate' = "failed"
    BY <2>2, <2>3 DEF IInv, Outcome
  <2>. QED BY <2>1, <2>4 DEF Promise!Fail, Promise!Next
<1>10. ASSUME NEW c \in Chunks, DeleteMessage(c)
       PROVE  Promise!Discard(c)
  <2>1. Fate = "failed" /\ Fate' = Fate
    BY <1>10 DEF DeleteMessage, IInv, Outcome
  <2>2. Intact' = Intact \ {c}
    BY <1>10 DEF DeleteMessage, IInv, TypeOK
  <2>. QED BY <2>1, <2>2 DEF Promise!Discard
<1>11. CASE Finished \/ UNCHANGED vars
  <2>. Stutter
    BY <1>11 DEF Finished, vars
  <2>. QED BY <1>0
\* The promise is broken before anything was sent.
<1>12. CASE StorageMissing
  <2>1. Intact' = Intact
    BY <1>12 DEF StorageMissing
  <2>2. committed = FALSE /\ result = "none"
    BY <1>12 DEF StorageMissing, IInv, TypeOK, Outcome
  <2>3. Fate = "running" /\ Fate' = "failed"
    BY <1>12, <2>2 DEF StorageMissing
  <2>. QED BY <2>1, <2>3 DEF Promise!Fail, Promise!Next
<1>. QED
  BY <1>1, <1>2, <1>3, <1>4, <1>5, <1>6, <1>7, <1>8, <1>9, <1>10, <1>11, <1>12
  DEF Next, Read, Main, Consume, Cleanup, UploadChunk, Verify, Promise!Next

\* Upload implements its promise, for a COMMIT whose reply is never lost: a
\* stored file has all its chunks intact and loses none to the cleanup.
THEOREM ImplementsPromise ==
  ASSUME ~CommitReplyLost
  PROVE  Spec => KeepsPromise
<1>1. IInv /\ [Next]_vars => [Promise!Next]_(Promise!vars)
  BY PromiseStep
<1>. QED
  BY <1>1, PromiseInit, Invariance, PTL DEF Spec, KeepsPromise, Promise!Spec
============================================================================
