---------------------------- MODULE UploadQueue ----------------------------
(***************************************************************************)
(* The upload handler around the upload service (handler/upload_handler.go,*)
(* handler/local_fs.go): trackers by id, the goroutine that copies a       *)
(* source into the pipe the service reads, browser uploads whose response  *)
(* waits for the copy, and a queue of files of the local mount uploaded    *)
(* one at a time.                                                          *)
(*                                                                         *)
(* A source is a number of blocks.  The service reads the pipe to its end, *)
(* skips the upload before it reads, or fails; FileCatalog and ChunkUpload *)
(* say how.  The copy holds one block; the chunk it buffers ahead of the   *)
(* service only makes it less eager.  Timers fire at any time.             *)
(***************************************************************************)
EXTENDS Naturals, Sequences, SequencesExt

CONSTANTS
  Browser,  \* uploads of browsers
  Queue,    \* uploads of one request for local files, in order
  IdOf,     \* the id of each upload
  Blocks,   \* the length of each source
  None      \* no tracker

Local   == ToSet(Queue)
Uploads == Browser \cup Local
Ids     == {IdOf[u] : u \in Uploads}

ASSUME QueueAssumption ==
  /\ IsInjective(Queue) /\ None \notin Uploads
  /\ Browser \cap Local = {}
  /\ \A u, v \in Local : IdOf[u] = IdOf[v] => u = v
  /\ Blocks \in [Uploads -> Nat]

VARIABLES
  trackers,  \* the registered tracker of each id
  pc,        \* where each upload is
  dead,      \* its context is cancelled
  outcome,   \* what its tracker says
  copy,      \* the copy goroutine of each upload
  left,      \* blocks its source has still to give
  got        \* blocks the service has read

opVars   == <<trackers, pc, dead, outcome>>
pipeVars == <<copy, left, got>>
vars == <<opVars, pipeVars>>

Active == {"queued", "running"}
Over   == {"over", "expired"}  \* the cleanup timer is set, or has fired

TypeOK ==
  /\ trackers \in [Ids -> Uploads \cup {None}]
  /\ pc \in [Uploads -> Active \cup Over \cup {"idle"}]
  /\ dead \in [Uploads -> BOOLEAN]
  /\ outcome \in [Uploads -> {"none", "ok", "skipped", "error"}]
  /\ copy \in [Uploads -> {"none", "reading", "writing", "eof", "failed"}]
  /\ \A u \in Uploads : left[u] \in 0..Blocks[u] /\ got[u] \in 0..Blocks[u]
  /\ DOMAIN left = Uploads /\ DOMAIN got = Uploads

Init ==
  /\ trackers = [i \in Ids |-> None]
  /\ pc = [u \in Uploads |-> "idle"]
  /\ dead = [u \in Uploads |-> FALSE]
  /\ outcome = [u \in Uploads |-> "none"]
  /\ copy = [u \in Uploads |-> "none"]
  /\ left = Blocks
  /\ got = [u \in Uploads |-> 0]

Registered(u) == trackers[IdOf[u]] = u
Goto(u, place) == pc' = [pc EXCEPT ![u] = place]

\* The copy has closed its source; the handler of a browser upload (bodyConsumed)
\* answers then.
Closed(u) == copy[u] \in {"eof", "failed"}

----------------------------------------------------------------------------
(* Requests.                                                               *)

\* Upload of a browser: registerUpload, then runTrackedUpload.
UploadBegins(u) ==
  /\ pc[u] = "idle"
  /\ trackers' = [trackers EXCEPT ![IdOf[u]] = u]
  /\ Goto(u, "running")
  /\ copy' = [copy EXCEPT ![u] = "reading"]
  /\ UNCHANGED <<dead, outcome, left, got>>

\* queueLocalUploads: all trackers before the first upload.
QueueLocalUploads ==
  /\ Local # {} /\ \A u \in Local : pc[u] = "idle"
  /\ trackers' = [i \in Ids |-> IF \E u \in Local : IdOf[u] = i
                                 THEN CHOOSE u \in Local : IdOf[u] = i ELSE trackers[i]]
  /\ pc' = [u \in Uploads |-> IF u \in Local THEN "queued" ELSE pc[u]]
  /\ UNCHANGED <<dead, outcome, pipeVars>>

\* Fault: a cancelled item ends the queue behind it.
TurnAfterSuccess(u) ==
  \A n \in DOMAIN Queue :
    Queue[n] = u => \A m \in 1..(n - 1) : pc[Queue[m]] \in Over /\ ~dead[Queue[m]]

\* The items run one at a time.
Turn(u) ==
  \A n \in DOMAIN Queue : Queue[n] = u => \A m \in 1..(n - 1) : pc[Queue[m]] \in Over

\* The upload has an outcome and scheduleUploadTrackerCleanup sets its timer.
Finished(u, how) ==
  /\ outcome' = [outcome EXCEPT ![u] = how]
  /\ Goto(u, "over")

\* The next item, unless it was cancelled in the queue; its file is opened.
NextItem(u) ==
  /\ pc[u] = "queued" /\ Turn(u)
  /\ \/ /\ ~dead[u]
        /\ Goto(u, "running")
        /\ copy' = [copy EXCEPT ![u] = "reading"]
        /\ UNCHANGED outcome
     \/ Finished(u, "error") /\ UNCHANGED copy
  /\ UNCHANGED <<trackers, dead, left, got>>

\* CancelUpload cancels the context, which matters until the upload has ended;
\* FileCatalog has its clean-up.
CancelUpload(u) ==
  /\ Registered(u) /\ ~dead[u] /\ pc[u] \in Active
  /\ dead' = [dead EXCEPT ![u] = TRUE]
  /\ UNCHANGED <<trackers, pc, outcome, pipeVars>>

----------------------------------------------------------------------------
(* The copy goroutine and the service at the two ends of the pipe.         *)

CopyReads(u) ==
  /\ copy[u] = "reading" /\ left[u] > 0
  /\ left' = [left EXCEPT ![u] = @ - 1]
  /\ copy' = [copy EXCEPT ![u] = "writing"]
  /\ UNCHANGED <<opVars, got>>

CopyEnds(u) ==
  /\ copy[u] = "reading" /\ left[u] = 0
  /\ copy' = [copy EXCEPT ![u] = "eof"]
  /\ UNCHANGED <<opVars, left, got>>

\* The browser is gone or its body is cut short, or the file cannot be read.
SourceFails(u) ==
  /\ copy[u] = "reading"
  /\ copy' = [copy EXCEPT ![u] = "failed"]
  /\ UNCHANGED <<opVars, left, got>>

PipeClosed(u) == pc[u] \in Over

\* A write into the pipe fails once its reader has been closed.
WriteFails(u) ==
  /\ copy[u] = "writing" /\ PipeClosed(u)
  /\ copy' = [copy EXCEPT ![u] = "failed"]
  /\ UNCHANGED <<opVars, left, got>>

Consume(u) ==
  /\ pc[u] = "running" /\ copy[u] = "writing"
  /\ got' = [got EXCEPT ![u] = @ + 1]
  /\ copy' = [copy EXCEPT ![u] = "reading"]
  /\ UNCHANGED <<opVars, left>>

\* Fault: io.ErrUnexpectedEOF reaches the uploader as it is.
EndAsItIs(u) == "eof"

\* A failed source ends the pipe with ErrUploadInterrupted.
EndOf(u) == IF copy[u] = "eof" THEN "eof" ELSE "interrupted"

\* The service returns; finishUpload; the pipe's reader is closed.
Finish(u, how) ==
  /\ pc[u] = "running"
  /\ how = "ok" => Closed(u) /\ EndOf(u) = "eof"
  /\ how = "skipped" => got[u] = 0
  /\ Finished(u, how)
  /\ UNCHANGED <<trackers, dead, pipeVars>>

\* Fault: the timer runs from the start of the upload.
TrackerExpiresEarly(u) ==
  /\ pc[u] \in {"running", "over"}
  /\ trackers' = [trackers EXCEPT ![IdOf[u]] = None]
  /\ pc' = [pc EXCEPT ![u] = IF @ = "over" THEN "expired" ELSE @]
  /\ UNCHANGED <<dead, outcome, pipeVars>>

\* The timer removes whatever tracker has the id.
TrackerExpires(u) ==
  /\ pc[u] = "over"
  /\ trackers' = [trackers EXCEPT ![IdOf[u]] = None]
  /\ Goto(u, "expired")
  /\ UNCHANGED <<dead, outcome, pipeVars>>

----------------------------------------------------------------------------
\* What the service owes: to go on reading, and to return when it has read
\* the end or its context is dead.
Service(u) ==
  \/ Consume(u) \/ Finish(u, "ok")
  \/ (dead[u] \/ copy[u] = "failed") /\ Finish(u, "error")

Copy(u) == CopyReads(u) \/ CopyEnds(u)

Next ==
  \/ QueueLocalUploads
  \/ \E u \in Browser : UploadBegins(u)
  \/ \E u \in Local : NextItem(u)
  \/ \E u \in Uploads :
       \/ Copy(u) \/ SourceFails(u) \/ WriteFails(u) \/ CancelUpload(u) \/ Service(u)
       \/ TrackerExpires(u)
       \/ \E how \in {"skipped", "error"} : Finish(u, how)

Spec == Init /\ [][Next]_vars

\* Goroutines and timers run, local files can be read, the service returns
\* what it owes.  A browser may stall.
FairSpec ==
  /\ Spec
  /\ \A u \in Local : WF_vars(NextItem(u)) /\ WF_vars(Copy(u))
  /\ \A u \in Uploads :
       WF_vars(WriteFails(u)) /\ WF_vars(Service(u)) /\ WF_vars(TrackerExpires(u))

----------------------------------------------------------------------------
(* Properties.                                                             *)

\* A stored upload has read its whole source: a browser that goes away in the
\* middle never passes for the end of the file.
StoredIsWhole == \A u \in Uploads : outcome[u] = "ok" => got[u] = Blocks[u]

\* An upload can be followed and cancelled from its registration to its
\* end, also while it waits in the queue, unless its id was used twice.
AliveIsTracked ==
  \A u \in Uploads :
    pc[u] \in Active =>
      Registered(u) \/ \E v \in Uploads \ {u} : IdOf[v] = IdOf[u] /\ pc[v] # "idle"

QueueEnds == \A u \in Local : pc[u] = "queued" ~> pc[u] = "expired"

CopiesEnd ==
  \A u \in Uploads :
    pc[u] \in Over /\ copy[u] = "writing" ~> copy[u] # "writing"

\* Every queued item ends, whatever happened to the ones before it, and a copy
\* does not outlive its upload: it may wait for its source, but never for a
\* reader that is gone, so the handler of a browser that has sent its body
\* answers.
UploadsDrain == QueueEnds /\ CopiesEnd
============================================================================
