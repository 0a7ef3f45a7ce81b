---------------------------- MODULE ChunkUpload ----------------------------
(***************************************************************************)
(* One call of ChunkUploader.Upload (service/chunk_uploader.go): the       *)
(* reading loop and its errgroup of chunk uploads, the sequential second   *)
(* round, the verification pipeline behind a buffered channel and its      *)
(* circuit breaker, the re-verification rounds, the commit, and the        *)
(* background cleanup of a failed upload.                                  *)
(*                                                                         *)
(* Chunks are interchangeable, so a chunk stands for its position, its     *)
(* data and its result; the order in which the failed chunks, the channel  *)
(* and the retry queue are traversed is left free.  Time is abstract: a    *)
(* cooldown ends whenever it likes.                                        *)
(***************************************************************************)
EXTENDS Naturals, FiniteSets

CONSTANTS
  Chunks,             \* the chunks of the file
  Parallelism,        \* errgroup limit of the uploads and channel capacity
  VerifyParallelism,  \* PipelineVerifyParallelism
  MaxAttempts,        \* UploadChunkMaxAttempts
  FailureThreshold,   \* VerifyCBFailureThreshold
  MaxRetryRounds,     \* VerifyCBMaxRetryRounds
  CommitReplyLost     \* may COMMIT take effect and still return an error?

ASSUME ChunksAssumption == IsFiniteSet(Chunks) /\ Chunks # {}
ASSUME LimitsAssumption ==
  /\ Parallelism \in Nat \ {0} /\ VerifyParallelism \in Nat \ {0}
  /\ MaxAttempts \in Nat \ {0} /\ FailureThreshold \in Nat \ {0}
  /\ MaxRetryRounds \in Nat \ {0}
  /\ CommitReplyLost \in BOOLEAN

VARIABLES
  \* the goroutine that runs Upload
  phase,      \* where it is
  ctxAlive,   \* the request context has not been cancelled
  sourceErr,  \* the reader failed before its end
  \* the chunk uploads
  up,         \* stage of each chunk
  attempt,    \* current attempt of a chunk being sent, 0 otherwise
  groupErr,   \* a chunk goroutine returned an error: gctx is cancelled
  tg,         \* the recorded Telegram message of each chunk
  stray,      \* chunks of which Telegram holds a message nobody recorded
  \* the verifier
  inClosed,   \* the intake channel is closed
  consumer,   \* where chunkVerifier.consume is
  ver,        \* verification stage of each chunk
  failures,   \* consecutiveFailures of the breaker
  tripped,    \* the breaker is tripped
  verifyErr,  \* a verification returned an error: the verifier's ctx is dead
  round,      \* round of retryFailedVerifications
  \* the outcome
  committed,  \* the chunk rows are in the database, the file is marked uploaded
  result,     \* what Upload returned
  cleanup,    \* the background cleanup
  toDelete    \* chunks it has still to delete

readVars     == <<ctxAlive, sourceErr>>
uploadVars   == <<up, attempt, groupErr, tg, stray>>
breakerVars  == <<failures, tripped>>
verifierVars == <<inClosed, consumer, ver, failures, tripped, verifyErr>>
outcomeVars  == <<committed, result, cleanup, toDelete>>
\* What the consumer and the verifications leave alone.
othersVars == <<phase, readVars, uploadVars, inClosed, round, outcomeVars>>
vars == <<phase, readVars, uploadVars, verifierVars, round, outcomeVars>>

Phases  == {"begin", "loop", "read", "spawn", "wait", "second", "stop",
            "cooldown", "reverify", "persist", "abort", "done"}
Stages  == {"unread", "buffered", "sending", "failed", "dropped",
            "submitting", "submitted", "unsubmitted"}
Verdicts == {"none", "queued", "held", "running", "aborted", "retry",
             "again", "mismatch", "ok"}

TypeOK ==
  /\ phase \in Phases
  /\ ctxAlive \in BOOLEAN /\ sourceErr \in BOOLEAN
  /\ up \in [Chunks -> Stages]
  /\ attempt \in [Chunks -> 0..MaxAttempts]
  /\ groupErr \in BOOLEAN
  /\ tg \in [Chunks -> {"none", "present", "deleted"}]
  /\ stray \subseteq Chunks
  /\ inClosed \in BOOLEAN
  /\ consumer \in {"recv", "check", "cooldown", "dispatch", "done"}
  /\ ver \in [Chunks -> Verdicts]
  /\ failures \in Nat /\ tripped \in BOOLEAN
  /\ verifyErr \in BOOLEAN
  /\ round \in 0..MaxRetryRounds
  /\ committed \in BOOLEAN
  /\ result \in {"none", "ok", "error"}
  /\ cleanup \in {"none", "running", "failed", "done"}
  /\ toDelete \subseteq Chunks

----------------------------------------------------------------------------
Unread       == {c \in Chunks : up[c] = "unread"}
InFlight     == {c \in Chunks : up[c] \in {"sending", "submitting"}}
failedChunks == {c \in Chunks : up[c] = "failed"}
results      == {c \in Chunks :
                   up[c] \in {"submitting", "submitted", "unsubmitted"}}
Queued       == {c \in Chunks : ver[c] = "queued"}
Verifying    == {c \in Chunks : ver[c] = "running"}
retryQueue   == {c \in Chunks : ver[c] = "retry"}
stillFailed  == {c \in Chunks : ver[c] = "again"}
failedPos    == {c \in Chunks : ver[c] = "mismatch"}

\* contextAborted on the context of the chunk uploads: gctx in the parallel
\* phase; in the second round, where neither error flag can be set, r.ctx.
UploadCtxDead == ~ctxAlive \/ sourceErr \/ groupErr

\* contextAborted on the verifier's context.
VerifyCtxDead == ~ctxAlive \/ verifyErr

Init ==
  /\ phase = "begin" /\ ctxAlive = TRUE /\ sourceErr = FALSE
  /\ up = [c \in Chunks |-> "unread"]
  /\ attempt = [c \in Chunks |-> 0]
  /\ groupErr = FALSE
  /\ tg = [c \in Chunks |-> "none"]
  /\ stray = {}
  /\ inClosed = FALSE /\ consumer = "recv"
  /\ ver = [c \in Chunks |-> "none"]
  /\ failures = 0 /\ tripped = FALSE /\ verifyErr = FALSE /\ round = 0
  /\ committed = FALSE /\ result = "none"
  /\ cleanup = "none" /\ toDelete = {}

\* CancelUpload cancels the request context.
Cancel ==
  /\ ctxAlive /\ phase # "done"
  /\ ctxAlive' = FALSE
  /\ UNCHANGED <<phase, sourceErr, uploadVars, verifierVars, round, outcomeVars>>

\* storagesRepo.GetByID answers: the verifier starts, and the reading loop.
StorageFound ==
  /\ phase = "begin"
  /\ phase' = "loop"
  /\ UNCHANGED <<readVars, uploadVars, verifierVars, round, outcomeVars>>

\* It fails, and Upload returns before there is a verifier: one that never
\* started counts as one that has stopped.
StorageMissing ==
  /\ phase = "begin"
  /\ phase' = "done" /\ result' = "error"
  /\ inClosed' = TRUE /\ consumer' = "done"
  /\ UNCHANGED <<readVars, uploadVars, ver, breakerVars, verifyErr, round,
                 committed, cleanup, toDelete>>

----------------------------------------------------------------------------
(* The reading loop of uploadChunks.                                       *)

LoopTop ==
  /\ phase = "loop"
  /\ phase' = IF ctxAlive THEN "read" ELSE "wait"
  /\ UNCHANGED <<readVars, uploadVars, verifierVars, round, outcomeVars>>

ReadChunk(c) ==
  /\ phase = "read" /\ c \in Unread
  /\ phase' = "spawn"
  /\ up' = [up EXCEPT ![c] = "buffered"]
  /\ UNCHANGED <<readVars, attempt, groupErr, tg, stray, verifierVars, round,
                 outcomeVars>>

ReadEOF ==
  /\ phase = "read" /\ Unread = {}
  /\ phase' = "wait"
  /\ UNCHANGED <<readVars, uploadVars, verifierVars, round, outcomeVars>>

\* Any other read error, the reader closed by closeOnCancel included.
SourceBreaks ==
  /\ phase = "read"
  /\ sourceErr' = TRUE
  /\ phase' = "wait"
  /\ UNCHANGED <<ctxAlive, uploadVars, verifierVars, round, outcomeVars>>

\* g.Go, which blocks while Parallelism uploads are in flight.  A short last
\* chunk ends the loop at once, a full one needs another read to see the end.
Spawn(c) ==
  /\ phase = "spawn" /\ up[c] = "buffered"
  /\ Cardinality(InFlight) < Parallelism
  /\ up' = [up EXCEPT ![c] = "sending"]
  /\ attempt' = [attempt EXCEPT ![c] = 1]
  /\ phase' \in IF Unread = {} THEN {"loop", "wait"} ELSE {"loop"}
  /\ UNCHANGED <<readVars, groupErr, tg, stray, verifierVars, round, outcomeVars>>

\* Fault: a broken source returns without waiting for the uploads in flight.
UploadsReturnedEarly == sourceErr \/ InFlight = {}

\* g.Wait.
UploadsReturned == InFlight = {}

\* Fault: a source cut short is taken for the end of the file.
UploadsFailedIgnoringSource == groupErr \/ ~ctxAlive

\* The first of the source error, the group's error and ctx.Err().
UploadsFailed == sourceErr \/ groupErr \/ ~ctxAlive

WaitUploads ==
  /\ phase = "wait" /\ UploadsReturned
  /\ phase' = IF UploadsFailed THEN "abort" ELSE "second"
  /\ UNCHANGED <<readVars, uploadVars, verifierVars, round, outcomeVars>>

----------------------------------------------------------------------------
(* The sequential second round, run by the Upload goroutine itself.        *)

RetryFailed(c) ==
  /\ phase = "second" /\ InFlight = {} /\ c \in failedChunks
  /\ IF ctxAlive
       THEN /\ up' = [up EXCEPT ![c] = "sending"]
            /\ attempt' = [attempt EXCEPT ![c] = 1]
            /\ UNCHANGED phase
       ELSE /\ phase' = "abort"
            /\ UNCHANGED <<up, attempt>>
  /\ UNCHANGED <<readVars, groupErr, tg, stray, verifierVars, round, outcomeVars>>

SecondRoundDone ==
  /\ phase = "second" /\ InFlight = {} /\ failedChunks = {}
  /\ phase' = "stop"
  /\ UNCHANGED <<readVars, uploadVars, verifierVars, round, outcomeVars>>

----------------------------------------------------------------------------
(* uploadChunk and uploadChunkWithRetry for one chunk.                     *)

\* uploadChunkWithRetry returns an error: the second round fails as a whole,
\* the parallel phase keeps the chunk for later unless its context is dead.
GiveUp(c) ==
  /\ attempt' = [attempt EXCEPT ![c] = 0]
  /\ \/ /\ phase = "second"
        /\ up' = [up EXCEPT ![c] = "dropped"] /\ phase' = "abort"
        /\ UNCHANGED groupErr
     \/ /\ phase # "second" /\ UploadCtxDead
        /\ up' = [up EXCEPT ![c] = "dropped"] /\ groupErr' = TRUE
        /\ UNCHANGED phase
     \/ /\ phase # "second" /\ ~UploadCtxDead
        /\ up' = [up EXCEPT ![c] = "failed"]
        /\ UNCHANGED <<phase, groupErr>>

\* Telegram accepted the chunk and its answer arrived: recordResult.
Delivered(c) ==
  /\ up[c] = "sending"
  /\ up' = [up EXCEPT ![c] = "submitting"]
  /\ attempt' = [attempt EXCEPT ![c] = 0]
  /\ tg' = [tg EXCEPT ![c] = "present"]
  /\ UNCHANGED <<phase, readVars, groupErr, stray, verifierVars, round, outcomeVars>>

LastAttempt(c) == attempt[c] = MaxAttempts

\* The attempt fails; Telegram may have stored the message all the same.
AttemptFails(c) ==
  /\ up[c] = "sending"
  /\ stray' \in {stray, stray \cup {c}}
  /\ IF UploadCtxDead \/ LastAttempt(c)
       THEN GiveUp(c)
       ELSE /\ attempt' = [attempt EXCEPT ![c] = @ + 1]
            /\ UNCHANGED <<phase, up, groupErr>>
  /\ UNCHANGED <<readVars, tg, verifierVars, round, outcomeVars>>

\* Encryption, GetToken or the backoff fails: no further attempt.
NoAttempt(c) ==
  /\ up[c] = "sending"
  /\ GiveUp(c)
  /\ UNCHANGED <<readVars, tg, stray, verifierVars, round, outcomeVars>>

\* submit: the channel takes the result ...
Submit(c) ==
  /\ up[c] = "submitting"
  /\ Cardinality(Queued) < Parallelism
  /\ up' = [up EXCEPT ![c] = "submitted"]
  /\ ver' = [ver EXCEPT ![c] = "queued"]
  /\ UNCHANGED <<phase, readVars, attempt, groupErr, tg, stray, inClosed,
                 consumer, breakerVars, verifyErr, round, outcomeVars>>

\* ... or one of the two contexts ends the wait with an error.
SubmitGivesUp(c) ==
  /\ up[c] = "submitting"
  /\ UploadCtxDead \/ VerifyCtxDead
  /\ up' = [up EXCEPT ![c] = "unsubmitted"]
  /\ IF phase = "second"
       THEN phase' = "abort" /\ UNCHANGED groupErr
       ELSE groupErr' = TRUE /\ UNCHANGED phase
  /\ UNCHANGED <<readVars, attempt, tg, stray, verifierVars, round, outcomeVars>>

UploadChunk(c) ==
  \/ Delivered(c) \/ AttemptFails(c) \/ NoAttempt(c)
  \/ Submit(c) \/ SubmitGivesUp(c)

----------------------------------------------------------------------------
(* chunkVerifier.consume, with verifyCircuitBreaker.WaitIfTripped.         *)

Receive(c) ==
  /\ consumer = "recv" /\ c \in Queued
  /\ consumer' = "check"
  /\ ver' = [ver EXCEPT ![c] = "held"]
  /\ UNCHANGED <<othersVars, breakerVars, verifyErr>>

IntakeDrained ==
  /\ consumer = "recv" /\ inClosed /\ Queued = {}
  /\ consumer' = "done"
  /\ UNCHANGED <<othersVars, ver, breakerVars, verifyErr>>

\* A tripped breaker whose cooldown has elapsed stays tripped but lets through.
WaitIfTripped ==
  /\ consumer = "check"
  /\ consumer' \in IF tripped THEN {"dispatch", "cooldown"} ELSE {"dispatch"}
  /\ UNCHANGED <<othersVars, ver, breakerVars, verifyErr>>

BreakerTimer ==
  /\ consumer = "cooldown"
  /\ consumer' = "dispatch"
  /\ UNCHANGED <<othersVars, ver, breakerVars, verifyErr>>

\* consume returns: the result in its hands and the channel are abandoned.
BreakerAborted ==
  /\ consumer = "cooldown" /\ VerifyCtxDead
  /\ consumer' = "done"
  /\ UNCHANGED <<othersVars, ver, breakerVars, verifyErr>>

Dispatch(c) ==
  /\ consumer = "dispatch" /\ ver[c] = "held"
  /\ Cardinality(Verifying) < VerifyParallelism
  /\ consumer' = "recv"
  /\ ver' = [ver EXCEPT ![c] = "running"]
  /\ UNCHANGED <<othersVars, breakerVars, verifyErr>>

Consume ==
  \/ \E c \in Chunks : Receive(c) \/ Dispatch(c)
  \/ IntakeDrained \/ WaitIfTripped \/ BreakerTimer \/ BreakerAborted

----------------------------------------------------------------------------
(* chunkVerifier.verify for one chunk.                                     *)

VerifyOK(c) ==
  /\ c \in Verifying
  /\ ver' = [ver EXCEPT ![c] = "ok"]
  /\ failures' = 0 /\ tripped' = FALSE
  /\ UNCHANGED <<othersVars, consumer, verifyErr>>

VerifyAborted(c) ==
  /\ c \in Verifying /\ VerifyCtxDead
  /\ ver' = [ver EXCEPT ![c] = "aborted"]
  /\ verifyErr' = TRUE
  /\ UNCHANGED <<othersVars, consumer, breakerVars>>

VerifyMismatch(c) ==
  /\ c \in Verifying /\ ~VerifyCtxDead
  /\ ver' = [ver EXCEPT ![c] = "mismatch"]
  /\ verifyErr' = TRUE
  /\ UNCHANGED <<othersVars, consumer, breakerVars>>

VerifyTransient(c) ==
  /\ c \in Verifying /\ ~VerifyCtxDead
  /\ ver' = [ver EXCEPT ![c] = "retry"]
  /\ failures' = failures + 1
  /\ tripped' = (tripped \/ failures + 1 >= FailureThreshold)
  /\ UNCHANGED <<othersVars, consumer, verifyErr>>

Verify(c) == VerifyOK(c) \/ VerifyAborted(c) \/ VerifyMismatch(c) \/ VerifyTransient(c)

----------------------------------------------------------------------------
(* stop, retryFailedVerifications, persist and abort.                      *)

\* stop: close(in).
CloseIntake ==
  /\ phase \in {"stop", "abort"} /\ ~inClosed
  /\ inClosed' = TRUE
  /\ UNCHANGED <<phase, readVars, uploadVars, consumer, ver, breakerVars,
                 verifyErr, round, outcomeVars>>

\* Fault: stop waits for the consumer only.
VerifierStoppedTooSoon == inClosed /\ consumer = "done"

\* stop: <-done, then group.Wait.
VerifierStopped == inClosed /\ consumer = "done" /\ Verifying = {}

\* Fault: chunks that exhausted their rounds are persisted all the same.
ConcludeOnMismatch == IF failedPos # {} THEN "abort" ELSE "persist"

\* The verdict once no chunk is left to verify again.
Conclude == IF failedPos \cup stillFailed # {} THEN "abort" ELSE "persist"

StopReturns ==
  /\ phase = "stop" /\ VerifierStopped
  /\ phase' = IF verifyErr THEN "abort"
              ELSE IF retryQueue # {} THEN "cooldown" ELSE Conclude
  /\ round' = 1
  /\ UNCHANGED <<readVars, uploadVars, verifierVars, outcomeVars>>

CooldownOver ==
  /\ phase = "cooldown"
  /\ phase' = IF ctxAlive THEN "reverify" ELSE "abort"
  /\ UNCHANGED <<readVars, uploadVars, verifierVars, round, outcomeVars>>

Reverify(c) ==
  /\ phase = "reverify" /\ c \in retryQueue
  /\ IF ctxAlive
       THEN /\ \E v \in {"ok", "mismatch", "again"} : ver' = [ver EXCEPT ![c] = v]
            /\ UNCHANGED phase
       ELSE phase' = "abort" /\ UNCHANGED ver
  /\ UNCHANGED <<readVars, uploadVars, inClosed, consumer, breakerVars,
                 verifyErr, round, outcomeVars>>

RoundEnds ==
  /\ phase = "reverify" /\ retryQueue = {}
  /\ IF stillFailed # {} /\ round < MaxRetryRounds
       THEN /\ phase' = "cooldown"
            /\ round' = round + 1
            /\ ver' = [c \in Chunks |-> IF c \in stillFailed THEN "retry" ELSE ver[c]]
       ELSE phase' = Conclude /\ UNCHANGED <<round, ver>>
  /\ UNCHANGED <<readVars, uploadVars, inClosed, consumer, breakerVars,
                 verifyErr, outcomeVars>>

\* cleanupAll: a snapshot of the results is deleted in the background.
cleanupAll ==
  /\ toDelete' = results
  /\ cleanup' = IF results = {} THEN "none" ELSE "running"

\* CreateChunksAndMarkUploaded commits and says so.
Persist ==
  /\ phase = "persist" /\ ctxAlive
  /\ committed' = TRUE /\ result' = "ok" /\ phase' = "done"
  /\ UNCHANGED <<readVars, uploadVars, verifierVars, round, cleanup, toDelete>>

\* It returns an error: the transaction rolled back or, when the reply to
\* COMMIT is lost (connection cut, context cancelled meanwhile), took effect.
PersistFails ==
  /\ phase = "persist"
  /\ committed' \in IF CommitReplyLost THEN {FALSE, TRUE} ELSE {FALSE}
  /\ result' = "error" /\ phase' = "done"
  /\ cleanupAll
  /\ UNCHANGED <<readVars, uploadVars, verifierVars, round>>

AbortReturns ==
  /\ phase = "abort" /\ VerifierStopped
  /\ result' = "error" /\ phase' = "done"
  /\ cleanupAll
  /\ UNCHANGED <<readVars, uploadVars, verifierVars, round, committed>>

----------------------------------------------------------------------------
(* The background DeleteFromTelegram of cleanupAll: its errgroup stops at  *)
(* the first message no worker can delete; those in flight may still go.   *)

DeleteMessage(c) ==
  /\ cleanup \in {"running", "failed"} /\ c \in toDelete
  /\ tg' = [tg EXCEPT ![c] = "deleted"]
  /\ toDelete' = toDelete \ {c}
  /\ UNCHANGED <<phase, readVars, up, attempt, groupErr, stray, verifierVars,
                 round, committed, result, cleanup>>

DeleteFails ==
  /\ cleanup = "running" /\ toDelete # {}
  /\ cleanup' = "failed"
  /\ UNCHANGED <<phase, readVars, uploadVars, verifierVars, round, committed,
                 result, toDelete>>

CleanupEnds ==
  /\ cleanup = "running" /\ toDelete = {}
  /\ cleanup' = "done"
  /\ UNCHANGED <<phase, readVars, uploadVars, verifierVars, round, committed,
                 result, toDelete>>

\* Upload has returned and the cleanup, if any, is over.
Finished ==
  /\ phase = "done" /\ cleanup # "running"
  /\ UNCHANGED vars

----------------------------------------------------------------------------
\* The steps of the Upload goroutine that nothing outside it can hold back.
Main ==
  \/ StorageFound \/ StorageMissing
  \/ LoopTop \/ WaitUploads \/ SecondRoundDone \/ CloseIntake \/ StopReturns
  \/ CooldownOver \/ RoundEnds \/ Persist \/ PersistFails \/ AbortReturns
  \/ \E c \in Chunks : Spawn(c) \/ RetryFailed(c) \/ Reverify(c)

Read == ReadEOF \/ SourceBreaks \/ \E c \in Chunks : ReadChunk(c)

Cleanup == DeleteFails \/ CleanupEnds \/ \E c \in Chunks : DeleteMessage(c)

Next ==
  \/ Cancel \/ Read \/ Main \/ Consume \/ Cleanup \/ Finished
  \/ \E c \in Chunks : UploadChunk(c) \/ Verify(c)

Spec == Init /\ [][Next]_vars

\* Fault: closeOnCancel is missing, a stalled source blocks for ever.
ReaderStalls == FALSE

\* Once the context is cancelled, closeOnCancel closes the reader and the
\* pending read returns.
ReaderClosed == ~ctxAlive /\ Read

\* The goroutines run and every Telegram and database call returns.  The
\* source owes nothing while the context lives: a browser may stall.
Fairness ==
  /\ WF_vars(Main) /\ WF_vars(ReaderClosed) /\ WF_vars(Consume)
  /\ \A c \in Chunks : WF_vars(UploadChunk(c)) /\ WF_vars(Verify(c))

FairSpec == Spec /\ Fairness

----------------------------------------------------------------------------
(* Properties.                                                             *)

\* The pipeline is closed only when no chunk goroutine can still submit to
\* it: a send on the closed channel would panic (uploadChunks always waits
\* for its in-flight uploads before abort closes the verifier).
NoSubmitAfterClose == inClosed => \A c \in Chunks : up[c] # "submitting"

\* A file is marked uploaded only if the source was read to its clean end and
\* every chunk was recorded and read back intact -- also when the consumer
\* quit early and abandoned results it had accepted.
StoredFileIsVerified ==
  committed => /\ ~sourceErr
               /\ results = Chunks
               /\ \A c \in Chunks : ver[c] = "ok"

\* When Upload returns an error, every chunk it recorded is deleted or in the
\* hands of the cleanup: nothing is recorded after cleanupAll's snapshot.
NothingRecordedIsForgotten ==
  result = "error" => \A c \in results : c \in toDelete \/ tg[c] = "deleted"

\* When Upload returns, none of its goroutines is still running.
NoGoroutineLeft ==
  phase = "done" => InFlight = {} /\ Verifying = {} /\ consumer = "done"

\* What the state means to the caller.
Fate == IF committed THEN "stored"
        ELSE IF result = "error" THEN "failed" ELSE "running"

Intact == {c \in Chunks : tg[c] = "present" /\ ver[c] = "ok"}

Promise == INSTANCE UploadPromise WITH fate <- Fate, intact <- Intact

\* Upload implements its promise (UploadPromise): stored only when every
\* chunk is intact, and a stored file keeps its chunks.
KeepsPromise == Promise!Spec

CancelEnds    == ~ctxAlive ~> phase = "done"
ReadToEndEnds == phase = "wait" ~> phase = "done"

\* A cancelled upload returns, whatever the source does (closeOnCancel unblocks
\* the read and every wait in the pipeline watches a context), and so does one
\* whose source has been read, without any help.
UploadEnds == CancelEnds /\ ReadToEndEnds
============================================================================
