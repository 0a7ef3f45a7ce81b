-------------------------- MODULE DownloadTrackers --------------------------
(***************************************************************************)
(* The registry of tracked downloads (handler/download_handler.go): a      *)
(* browser downloads under an id of its own, may drop the connection and   *)
(* ask again under the same id, and watches an event stream about the id   *)
(* (pollSSE, handler/progress_tracker.go).  Timers remove the trackers.    *)
(*                                                                         *)
(* A tracker is named after its request.  Timers fire at any time after    *)
(* they were set: the delay of the cleanup and the grace period order      *)
(* nothing.  Requests without an id have no tracker and are left out.      *)
(***************************************************************************)
EXTENDS Naturals

CONSTANTS
  MaxRequests,  \* bound on the downloads, numbered as they arrive
  DownloadIdOf, \* the id each comes with
  Streams,      \* event streams, each about an id
  WatchedId,
  NoDownload    \* no tracker

Requests == 1..MaxRequests
DownloadIds == {DownloadIdOf[r] : r \in Requests}

ASSUME TrackersAssumption ==
  /\ MaxRequests \in Nat /\ NoDownload \notin Requests
  /\ \A s \in Streams : WatchedId[s] \in DownloadIds

VARIABLES
  downloads,    \* the registered tracker of each id
  canceled,     \* of each tracker: by whom
  interrupted, done, err,
  stage,        \* where each request is
  ending,       \* how the service returned to it (history)
  cleanups,     \* its cleanup timers that have still to fire
  grace,        \* its grace timer is set
  told,         \* what each stream reported last, and of whom
  impatient     \* it has waited DownloadProgressWaitTime

trackerVars == <<downloads, canceled, interrupted, done, err>>
timerVars   == <<cleanups, grace>>
streamVars  == <<told, impatient>>
downloadVars == <<trackerVars, stage, ending, timerVars, streamVars>>

Open == {"placeholder", "downloading", "interrupted"}
Final == {"done", "cancelled", "error", "notstarted"}
Serving == {"running", "dropping", "failing"}

DownloadTypeOK ==
  /\ downloads \in [DownloadIds -> Requests \cup {NoDownload}]
  /\ canceled \in [Requests -> {"no", "user", "newer"}]
  /\ interrupted \in [Requests -> BOOLEAN] /\ done \in [Requests -> BOOLEAN]
  /\ err \in [Requests -> {"none", "failed", "disconnected"}]
  /\ stage \in [Requests -> Serving \cup {"idle", "ended", "over"}]
  /\ ending \in [Requests -> {"none", "complete", "dropped", "failed"}]
  /\ cleanups \in [Requests -> 0..2] /\ grace \in [Requests -> BOOLEAN]
  /\ told \in [Streams -> [status : Open \cup Final, of : Requests \cup {NoDownload}]]
  /\ impatient \in [Streams -> BOOLEAN]

DownloadInit ==
  /\ downloads = [i \in DownloadIds |-> NoDownload]
  /\ canceled = [r \in Requests |-> "no"]
  /\ interrupted = [r \in Requests |-> FALSE]
  /\ done = [r \in Requests |-> FALSE]
  /\ err = [r \in Requests |-> "none"]
  /\ stage = [r \in Requests |-> "idle"]
  /\ ending = [r \in Requests |-> "none"]
  /\ cleanups = [r \in Requests |-> 0]
  /\ grace = [r \in Requests |-> FALSE]
  /\ told = [s \in Streams |-> [status |-> "placeholder", of |-> NoDownload]]
  /\ impatient = [s \in Streams |-> FALSE]

----------------------------------------------------------------------------
(* Requests.                                                               *)

InTurn(r)     == \A q \in Requests : q < r => stage[q] # "idle"
RegisteredDownload(r) == downloads[DownloadIdOf[r]] = r

\* markCancelledLocked; who asked first is remembered.
MarkCancelled(r, who) ==
  IF r = NoDownload THEN UNCHANGED <<canceled, done>>
  ELSE /\ canceled' = [canceled EXCEPT ![r] = IF @ = "no" THEN who ELSE @]
       /\ done' = [done EXCEPT ![r] = TRUE]

\* Fault: an id that is in use keeps its tracker.
SetupKeepingFirst(r) ==
  /\ stage[r] = "idle" /\ InTurn(r)
  /\ MarkCancelled(downloads[DownloadIdOf[r]], "newer")
  /\ downloads' = [downloads EXCEPT ![DownloadIdOf[r]] = IF @ = NoDownload THEN r ELSE @]
  /\ stage' = [stage EXCEPT ![r] = "running"]
  /\ UNCHANGED <<interrupted, err, ending, timerVars, streamVars>>

\* setupDownloadTracker: the request before it under this id is cancelled and
\* replaced under one lock.
Setup(r) ==
  /\ stage[r] = "idle" /\ InTurn(r)
  /\ MarkCancelled(downloads[DownloadIdOf[r]], "newer")
  /\ downloads' = [downloads EXCEPT ![DownloadIdOf[r]] = r]
  /\ stage' = [stage EXCEPT ![r] = "running"]
  /\ UNCHANGED <<interrupted, err, ending, timerVars, streamVars>>

Complete(r) ==
  /\ stage[r] = "running"
  /\ ending' = [ending EXCEPT ![r] = "complete"]
  /\ done' = [done EXCEPT ![r] = TRUE]
  /\ stage' = [stage EXCEPT ![r] = "ended"]
  /\ UNCHANGED <<downloads, canceled, interrupted, err, timerVars, streamVars>>

\* failTracker, up to the flag it reads: the service returned because the
\* browser dropped the connection, or for another reason (a cancellation too).
Fail(r, why) ==
  /\ stage[r] = "running"
  /\ ending' = [ending EXCEPT ![r] = why]
  /\ stage' = [stage EXCEPT ![r] = IF canceled[r] = "no" /\ why = "dropped"
                             THEN "dropping" ELSE "failing"]
  /\ UNCHANGED <<trackerVars, timerVars, streamVars>>

\* finishTracker.
FinishFailed(r) ==
  /\ stage[r] = "failing"
  /\ done' = [done EXCEPT ![r] = TRUE]
  /\ err' = [err EXCEPT ![r] = "failed"]
  /\ stage' = [stage EXCEPT ![r] = "ended"]
  /\ UNCHANGED <<downloads, canceled, interrupted, ending, timerVars, streamVars>>

\* interruptTracker.
Interrupt(r) ==
  /\ stage[r] = "dropping"
  /\ interrupted' = [interrupted EXCEPT ![r] = TRUE]
  /\ grace' = [grace EXCEPT ![r] = TRUE]
  /\ stage' = [stage EXCEPT ![r] = "ended"]
  /\ UNCHANGED <<downloads, canceled, done, err, ending, cleanups, streamVars>>

\* The deferred cleanup of the handler.
Return(r) ==
  /\ stage[r] = "ended"
  /\ cleanups' = [cleanups EXCEPT ![r] = @ + 1]
  /\ stage' = [stage EXCEPT ![r] = "over"]
  /\ UNCHANGED <<trackerVars, ending, grace, streamVars>>

CancelDownload(i) ==
  /\ downloads[i] # NoDownload
  /\ MarkCancelled(downloads[i], "user")
  /\ UNCHANGED <<downloads, interrupted, err, stage, ending, timerVars, streamVars>>

----------------------------------------------------------------------------
(* Timers.                                                                 *)

\* What the timers leave to the grace period.
Parked(r) == interrupted[r] /\ ~done[r]

\* Fault: whatever tracker has the id goes.
RemovesById(r) == downloads[DownloadIdOf[r]] # NoDownload /\ ~Parked(r)

\* Fault: an interrupted tracker goes with its request.
RemovesParked(r) == RegisteredDownload(r)

Removes(r) == RegisteredDownload(r) /\ ~Parked(r)

\* cleanupDownloadTracker.
Cleanup(r) ==
  /\ cleanups[r] > 0
  /\ cleanups' = [cleanups EXCEPT ![r] = @ - 1]
  /\ downloads' = IF Removes(r) THEN [downloads EXCEPT ![DownloadIdOf[r]] = NoDownload]
                   ELSE downloads
  /\ UNCHANGED <<canceled, interrupted, done, err, stage, ending, grace, streamVars>>

\* Fault: the expiry of the grace period leaves the removal to somebody else.
CleanupAfterGraceForgotten(r) == 0

CleanupAfterGrace(r) == IF RegisteredDownload(r) THEN 1 ELSE 0

GraceSpent(r) == FALSE

\* The timer of interruptTracker: nobody resumed the download.
GraceOver(r) ==
  /\ grace[r]
  /\ grace' = [grace EXCEPT ![r] = GraceSpent(r)]
  /\ IF RegisteredDownload(r) /\ ~done[r]
       THEN /\ done' = [done EXCEPT ![r] = TRUE]
            /\ err' = [err EXCEPT ![r] = "disconnected"]
       ELSE UNCHANGED <<done, err>>
  /\ cleanups' = [cleanups EXCEPT ![r] = @ + CleanupAfterGrace(r)]
  /\ UNCHANGED <<downloads, canceled, interrupted, stage, ending, streamVars>>

----------------------------------------------------------------------------
(* The event stream.                                                       *)

\* statusLocked.
Status(r) ==
  CASE done[r] /\ canceled[r] # "no" -> "cancelled"
    [] done[r] /\ canceled[r] = "no" /\ err[r] # "none" -> "error"
    [] done[r] /\ canceled[r] = "no" /\ err[r] = "none" -> "done"
    [] ~done[r] /\ interrupted[r] -> "interrupted"
    [] OTHER -> "downloading"

Missing(s) == IF impatient[s] THEN "notstarted" ELSE "placeholder"

\* One tick of pollSSE; the stream ends with a final status.
Poll(s) ==
  LET r == downloads[WatchedId[s]] IN
  /\ told[s].status \in Open
  /\ told' = [told EXCEPT ![s] =
       [status |-> IF r = NoDownload THEN Missing(s) ELSE Status(r), of |-> r]]
  /\ UNCHANGED <<trackerVars, stage, ending, timerVars, impatient>>

Waited(s) ==
  /\ told[s].status \in Open /\ ~impatient[s]
  /\ impatient' = [impatient EXCEPT ![s] = TRUE]
  /\ UNCHANGED <<trackerVars, stage, ending, timerVars, told>>

----------------------------------------------------------------------------
Settle(r) == FinishFailed(r) \/ Interrupt(r) \/ Return(r)

DownloadNext ==
  \/ \E r \in Requests :
       \/ Setup(r) \/ Complete(r) \/ Settle(r) \/ Cleanup(r) \/ GraceOver(r)
       \/ \E why \in {"dropped", "failed"} : Fail(r, why)
  \/ \E i \in DownloadIds : CancelDownload(i)
  \/ \E s \in Streams : Poll(s) \/ Waited(s)

DownloadSpec == DownloadInit /\ [][DownloadNext]_downloadVars

\* A handler whose service returned runs to its end, timers fire, streams
\* poll; nobody has to start, complete, drop or cancel a download.
FairDownloadSpec ==
  /\ DownloadSpec
  /\ \A r \in Requests : /\ WF_downloadVars(Settle(r)) /\ WF_downloadVars(Cleanup(r))
                         /\ WF_downloadVars(GraceOver(r))
  /\ \A s \in Streams : WF_downloadVars(Poll(s)) /\ WF_downloadVars(Waited(s))

----------------------------------------------------------------------------
(* Properties.                                                             *)

\* While a download is served, its tracker is registered and open unless the
\* user cancelled it or a newer request took its id: no timer of an earlier
\* request with the same id removes or fails it.
ServedIsTracked ==
  \A r \in Requests :
    stage[r] \in Serving /\ canceled[r] = "no" => RegisteredDownload(r) /\ ~done[r]

\* A download the browser dropped stays registered until it is resumed,
\* cancelled or its grace period ends, and something will end that wait.
DroppedIsResumable ==
  \A r \in Requests :
    Parked(r) => RegisteredDownload(r) /\ grace[r]

\* The last word of a stream is true of the request it speaks of: "done" of a
\* complete download, "cancelled" of one the user cancelled and never of one
\* that was resumed under the same id, "error" of a failed or abandoned one.
LastWordIsTrue ==
  \A s \in Streams : LET r == told[s].of IN
    CASE told[s].status = "done" -> ending[r] = "complete"
      [] told[s].status = "cancelled" -> canceled[r] = "user"
      [] told[s].status = "error" -> ending[r] \in {"dropped", "failed"}
      [] OTHER -> TRUE

TrackersExpire == \A r \in Requests : stage[r] = "over" ~> ~RegisteredDownload(r)

StreamsEnd ==
  \A s \in Streams :
    told[s].status \in Open ~>
      told[s].status \in Final \/ \E r \in Requests : stage[r] \in Serving

\* No tracker stays for ever, neither an interrupted nor a cancelled one, and a
\* stream goes on only while a request is being served.
NothingLingers == TrackersExpire /\ StreamsEnd
=============================================================================
