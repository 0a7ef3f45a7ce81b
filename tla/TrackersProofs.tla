--------------------------- MODULE TrackersProofs ---------------------------
(***************************************************************************)
(* The uploads and the downloads that a page can follow and cancel by      *)
(* their ids, for any number of either, any ids, streams and sources.      *)
(*                                                                         *)
(* Uploads.  What the source has still to give, what the service has read  *)
(* and the block in the pipe make up the source (Conserved), and a copy    *)
(* that ends without failing has emptied it; so a service that reads the   *)
(* end of the pipe has read everything.                                    *)
(*                                                                         *)
(* Downloads.  A timer is only ever set for a request the service has      *)
(* returned to (Phases), so no tracker that is served is removed or failed *)
(* by one; a tracker replaced under its id was cancelled in the same       *)
(* step, hence a registered one is never cancelled by a newer request      *)
(* (Places); and whatever ends a tracker leaves a trace in its flags that  *)
(* tells how the service ended (Flags), which is what a stream reports.    *)
(***************************************************************************)
EXTENDS UploadQueue, DownloadTrackers, TLAPS

----------------------------------------------------------------------------
(* Uploads.                                                                *)

\* The block a copy holds.
InPipe(u) == IF copy[u] = "writing" THEN 1 ELSE 0

\* No block is lost or read twice, unless the copy has failed.
Conserved ==
  \A u \in Uploads :
    /\ got[u] + left[u] + InPipe(u) <= Blocks[u]
    /\ copy[u] # "failed" => got[u] + left[u] + InPipe(u) = Blocks[u]
    /\ copy[u] = "eof" => left[u] = 0

\* An upload copies once it runs, and has an outcome when it is over.
Stages ==
  \A u \in Uploads :
    /\ pc[u] \in {"idle", "queued"} => copy[u] = "none"
    /\ outcome[u] # "none" => pc[u] \in Over

IInv == TypeOK /\ Conserved /\ Stages /\ StoredIsWhole /\ AliveIsTracked

\* What every step needs of the constants.
LEMMA Constants ==
  /\ None \notin Uploads /\ Blocks \in [Uploads -> Nat]
  /\ Local \subseteq Uploads /\ Browser \subseteq Uploads
  /\ \A u \in Uploads : IdOf[u] \in Ids
  /\ \A u, v \in Local : IdOf[u] = IdOf[v] => u = v
BY QueueAssumption DEF Uploads, Ids

\* At first nothing is read.
LEMMA InitIInv == Init => IInv
<1> SUFFICES ASSUME Init PROVE IInv
  OBVIOUS
<1>1. TypeOK
  BY Constants DEF Init, TypeOK, Active, Over
<1>2. Conserved
  BY Constants DEF Init, Conserved, InPipe
<1> QED
  BY <1>1, <1>2 DEF Init, IInv, Stages, StoredIsWhole, AliveIsTracked, Active

\* An upload is registered when it begins; it takes the tracker of no upload
\* but one with its id, which has begun as well.
LEMMA RegisterStep ==
  ASSUME IInv, QueueLocalUploads \/ \E u \in Browser : UploadBegins(u)
  PROVE  IInv'
<1> USE Constants DEF IInv
<1>1. ASSUME NEW u \in Browser, UploadBegins(u)
      PROVE  IInv'
  <2>0. u \in Uploads /\ copy[u] = "none"
    BY <1>1 DEF UploadBegins, Stages
  <2>1. TypeOK'
    BY <1>1, <2>0 DEF UploadBegins, Goto, TypeOK, Active, Over
  <2>2. Conserved'
    BY <1>1, <2>0 DEF UploadBegins, Conserved, InPipe, TypeOK
  <2>3. Stages' /\ StoredIsWhole'
    BY <1>1, <2>0 DEF UploadBegins, Goto, Stages, StoredIsWhole, TypeOK, Over
  <2>4. AliveIsTracked'
    BY <1>1, <2>0 DEF UploadBegins, Goto, AliveIsTracked, Registered, Active, TypeOK
  <2> QED
    BY <2>1, <2>2, <2>3, <2>4
<1>2. CASE QueueLocalUploads
  <2>1. \A u \in Local : pc[u] = "idle"
    BY <1>2 DEF QueueLocalUploads
  <2>2. \A u \in Uploads : pc'[u] = IF u \in Local THEN "queued" ELSE pc[u]
    BY <1>2 DEF QueueLocalUploads
  <2>3. \A u \in Uploads :
          trackers'[IdOf[u]] = IF \E v \in Local : IdOf[v] = IdOf[u]
                               THEN CHOOSE v \in Local : IdOf[v] = IdOf[u] ELSE trackers[IdOf[u]]
    BY <1>2 DEF QueueLocalUploads
  <2>4. TypeOK'
    <3>1. trackers' \in [Ids -> Uploads \cup {None}]
      <4> SUFFICES ASSUME NEW i \in Ids
                   PROVE  trackers'[i] \in Uploads \cup {None}
        BY <1>2 DEF QueueLocalUploads
      <4>1. CASE \E v \in Local : IdOf[v] = i
        BY <1>2, <4>1 DEF QueueLocalUploads
      <4>2. CASE ~\E v \in Local : IdOf[v] = i
        BY <1>2, <4>2 DEF QueueLocalUploads, TypeOK
      <4> QED
        BY <4>1, <4>2
    <3>2. pc' \in [Uploads -> Active \cup Over \cup {"idle"}]
      BY <1>2 DEF QueueLocalUploads, TypeOK, Active
    <3> QED
      BY <1>2, <3>1, <3>2 DEF QueueLocalUploads, pipeVars, TypeOK
  <2>5. Conserved' /\ StoredIsWhole'
    BY <1>2 DEF QueueLocalUploads, pipeVars, Conserved, InPipe, StoredIsWhole
  <2>6. Stages'
    BY <1>2, <2>1, <2>2 DEF QueueLocalUploads, pipeVars, Stages, Over
  <2>7. AliveIsTracked'
    <3> SUFFICES ASSUME NEW u \in Uploads, pc'[u] \in Active
                 PROVE  \/ trackers'[IdOf[u]] = u
                        \/ \E v \in Uploads \ {u} : IdOf[v] = IdOf[u] /\ pc'[v] # "idle"
      BY DEF AliveIsTracked, Registered
    <3>1. CASE u \in Local
      BY <2>3, <3>1
    <3>2. CASE u \notin Local /\ \E v \in Local : IdOf[v] = IdOf[u]
      BY <2>2, <3>2
    <3>3. CASE u \notin Local /\ ~\E v \in Local : IdOf[v] = IdOf[u]
      <4>1. pc[u] \in Active /\ trackers'[IdOf[u]] = trackers[IdOf[u]]
        BY <2>2, <2>3, <3>3
      <4> QED
        BY <2>2, <4>1 DEF AliveIsTracked, Registered
    <3> QED
      BY <3>1, <3>2, <3>3
  <2> QED
    BY <2>4, <2>5, <2>6, <2>7
<1> QED
  BY <1>1, <1>2

\* An item of the queue starts or ends, an upload is cancelled or finished.
LEMMA TurnStep ==
  ASSUME IInv, NEW u \in Uploads,
         \/ u \in Local /\ NextItem(u)
         \/ CancelUpload(u)
         \/ \E how \in {"ok", "skipped", "error"} : Finish(u, how)
  PROVE  IInv'
<1> USE Constants DEF IInv
<1>1. CASE CancelUpload(u)
  BY <1>1 DEF CancelUpload, pipeVars, TypeOK, Conserved, InPipe, Stages, StoredIsWhole,
     AliveIsTracked, Registered
<1>2. ASSUME NEW how \in {"ok", "skipped", "error"}, Finished(u, how), pc[u] \in Active,
             how = "ok" => got[u] = Blocks[u],
             UNCHANGED <<trackers, dead, copy, left, got>>
      PROVE  IInv'
  <2>1. TypeOK'
    BY <1>2 DEF Finished, Goto, TypeOK, Over
  <2>2. Conserved'
    BY <1>2 DEF Conserved, InPipe
  <2>3. Stages' /\ StoredIsWhole'
    BY <1>2 DEF Finished, Goto, Stages, StoredIsWhole, Over, TypeOK
  <2>4. AliveIsTracked'
    BY <1>2 DEF Finished, Goto, AliveIsTracked, Registered, Active, TypeOK
  <2> QED
    BY <2>1, <2>2, <2>3, <2>4
<1>3. CASE NextItem(u)
  <2>0. pc[u] = "queued" /\ copy[u] = "none"
    BY <1>3 DEF NextItem, Stages
  <2>1. CASE Finished(u, "error") /\ UNCHANGED copy
    BY <1>2, <1>3, <2>0, <2>1 DEF NextItem, Active
  <2>2. CASE Goto(u, "running") /\ copy' = [copy EXCEPT ![u] = "reading"] /\ UNCHANGED outcome
    <3>0. UNCHANGED <<trackers, dead, left, got>>
      BY <1>3 DEF NextItem
    <3>1. TypeOK'
      BY <2>2, <3>0 DEF Goto, TypeOK, Active
    <3>2. Conserved'
      BY <2>0, <2>2, <3>0 DEF Conserved, InPipe, TypeOK
    <3>3. Stages' /\ StoredIsWhole'
      BY <2>0, <2>2, <3>0 DEF Goto, Stages, StoredIsWhole, Over, TypeOK
    <3>4. AliveIsTracked'
      BY <2>0, <2>2, <3>0 DEF Goto, AliveIsTracked, Registered, Active, TypeOK
    <3> QED
      BY <3>1, <3>2, <3>3, <3>4
  <2> QED
    BY <1>3, <2>1, <2>2 DEF NextItem
<1>4. ASSUME NEW how \in {"ok", "skipped", "error"}, Finish(u, how)
      PROVE  IInv'
  <2>1. how = "ok" => got[u] = Blocks[u]
    <3> SUFFICES ASSUME how = "ok" PROVE got[u] = Blocks[u]
      OBVIOUS
    <3>1. copy[u] = "eof"
      BY <1>4 DEF Finish, EndOf
    <3> QED
      BY <3>1 DEF Conserved, InPipe, TypeOK
  <2> QED
    BY <1>2, <1>4, <2>1 DEF Finish, pipeVars, Active
<1> QED
  BY <1>1, <1>3, <1>4

\* The timer of an upload that is over takes no tracker of another id.
LEMMA ExpiryStep ==
  ASSUME IInv, NEW u \in Uploads, TrackerExpires(u)
  PROVE  IInv'
<1> USE Constants DEF IInv, TrackerExpires, pipeVars
<1>1. TypeOK'
  BY DEF Goto, TypeOK, Over
<1>2. Conserved' /\ StoredIsWhole'
  BY DEF Conserved, InPipe, StoredIsWhole
<1>3. Stages'
  BY DEF Goto, Stages, Over, TypeOK
<1>4. AliveIsTracked'
  BY DEF Goto, AliveIsTracked, Registered, Active, TypeOK
<1> QED
  BY <1>1, <1>2, <1>3, <1>4

\* A block goes from the source into the pipe and from there to the service.
LEMMA PipeStep ==
  ASSUME IInv, NEW u \in Uploads,
         CopyReads(u) \/ CopyEnds(u) \/ SourceFails(u) \/ WriteFails(u) \/ Consume(u)
  PROVE  IInv'
<1> USE Constants DEF IInv
<1>0. /\ left[u] \in 0..Blocks[u] /\ got[u] \in 0..Blocks[u] /\ Blocks[u] \in Nat
      /\ pc[u] \notin {"idle", "queued"}
  BY DEF TypeOK, Stages, CopyReads, CopyEnds, SourceFails, WriteFails, Consume
<1>1. /\ UNCHANGED opVars
      /\ \A v \in Uploads \ {u} : copy'[v] = copy[v] /\ left'[v] = left[v] /\ got'[v] = got[v]
  BY DEF CopyReads, CopyEnds, SourceFails, WriteFails, Consume, opVars, TypeOK
<1>2. /\ copy' \in [Uploads -> {"none", "reading", "writing", "eof", "failed"}]
      /\ DOMAIN left' = Uploads /\ DOMAIN got' = Uploads
  BY DEF CopyReads, CopyEnds, SourceFails, WriteFails, Consume, TypeOK
<1>3. /\ left'[u] \in 0..Blocks[u] /\ got'[u] \in 0..Blocks[u]
      /\ got'[u] + left'[u] + InPipe(u)' <= Blocks[u]
      /\ copy'[u] # "failed" => got'[u] + left'[u] + InPipe(u)' = Blocks[u]
      /\ copy'[u] = "eof" => left'[u] = 0
  <2>1. CASE CopyReads(u)
    BY <1>0, <2>1 DEF CopyReads, Conserved, InPipe, TypeOK
  <2>2. CASE CopyEnds(u)
    BY <1>0, <2>2 DEF CopyEnds, Conserved, InPipe, TypeOK
  <2>3. CASE SourceFails(u) \/ WriteFails(u)
    BY <1>0, <2>3 DEF SourceFails, WriteFails, Conserved, InPipe, TypeOK
  <2>4. CASE Consume(u)
    BY <1>0, <2>4 DEF Consume, Conserved, InPipe, TypeOK
  <2> QED
    BY <2>1, <2>2, <2>3, <2>4
<1>4. TypeOK'
  BY <1>1, <1>2, <1>3 DEF TypeOK, opVars
<1>5. Conserved'
  BY <1>1, <1>3 DEF Conserved, InPipe
<1>6. Stages' /\ AliveIsTracked'
  BY <1>0, <1>1 DEF Stages, AliveIsTracked, Registered, opVars
<1>7. StoredIsWhole'
  <2>1. outcome[u] = "ok" => UNCHANGED got
    BY DEF CopyReads, CopyEnds, SourceFails, WriteFails, Consume, Stages, Over
  <2> QED
    BY <1>1, <2>1 DEF StoredIsWhole, opVars
<1> QED
  BY <1>4, <1>5, <1>6, <1>7

\* A step that changes nothing.
LEMMA Stutter == IInv /\ UNCHANGED vars => IInv'
BY DEF IInv, vars, opVars, pipeVars, TypeOK, Conserved, InPipe, Stages, StoredIsWhole,
   AliveIsTracked, Registered

\* The invariant holds in every state.
THEOREM Invariance == Spec => []IInv
<1>1. IInv /\ [Next]_vars => IInv'
  BY RegisterStep, TurnStep, ExpiryStep, PipeStep, Stutter, Constants
     DEF Next, Service, Copy
<1> QED
  BY InitIInv, <1>1, PTL DEF Spec

\* Trackers, uploads and copies keep their shape, and no count of blocks
\* exceeds the source.
THEOREM TypeCorrect == Spec => []TypeOK
BY Invariance, PTL DEF IInv

\* A stored upload has read its whole source (ErrUploadInterrupted).
THEOREM StoredWhole == Spec => []StoredIsWhole
BY Invariance, PTL DEF IInv

\* An upload that has not ended can be followed and cancelled
\* (registerUpload, queueLocalUploads).
THEOREM AliveTracked == Spec => []AliveIsTracked
BY Invariance, PTL DEF IInv

----------------------------------------------------------------------------
(* Downloads.                                                              *)

\* A request passes its places in order; each timer is set once, after the
\* service has returned.
Phases ==
  \A r \in Requests :
    /\ stage[r] \in {"idle", "running"} => ending[r] = "none"
    /\ stage[r] = "dropping" => ending[r] = "dropped"
    /\ stage[r] = "failing" => ending[r] \in {"dropped", "failed"}
    /\ interrupted[r] => stage[r] \in {"ended", "over"} /\ ending[r] = "dropped"
    /\ grace[r] => interrupted[r]
    /\ cleanups[r] <= (IF stage[r] = "over" THEN 1 ELSE 0)
                        + (IF interrupted[r] /\ ~grace[r] THEN 1 ELSE 0)

\* What the flags of a tracker say of how it ended.
Flags ==
  \A r \in Requests :
    /\ stage[r] = "idle" => canceled[r] = "no" /\ ~done[r]
    /\ canceled[r] # "no" => done[r]
    /\ done[r] /\ canceled[r] = "no" /\ err[r] = "none" => ending[r] = "complete"
    /\ err[r] # "none" => ending[r] \in {"dropped", "failed"}

\* A registered tracker has begun, under this id, and nobody took its id.
Places ==
  \A i \in DownloadIds :
    LET r == downloads[i] IN
    r # NoDownload => DownloadIdOf[r] = i /\ stage[r] # "idle" /\ canceled[r] # "newer"

\* A stream that has had a final word speaks of a request.
Spoken ==
  \A s \in Streams :
    told[s].status \in {"done", "cancelled", "error"} => told[s].of \in Requests

DownloadIInv == DownloadTypeOK /\ Phases /\ Flags /\ Places /\ ServedIsTracked /\ DroppedIsResumable
          /\ Spoken /\ LastWordIsTrue

\* At first nobody has asked for anything.
LEMMA DownloadInitIInv == DownloadInit => DownloadIInv
BY TrackersAssumption
   DEF DownloadInit, DownloadIInv, DownloadTypeOK, Phases, Flags, Places, ServedIsTracked,
      DroppedIsResumable,
       Spoken, LastWordIsTrue, Serving, Parked, Open, Final, DownloadIds

\* A new request takes the id and cancels the one before it.
LEMMA SetupStep ==
  ASSUME DownloadIInv, NEW r \in Requests, Setup(r)
  PROVE  DownloadIInv'
<1> DEFINE old == downloads[DownloadIdOf[r]]
<1> USE TrackersAssumption DEF DownloadIInv, Setup, timerVars, streamVars
<1>1. DownloadIdOf[r] \in DownloadIds /\ old \in Requests \cup {NoDownload} /\ r # NoDownload
  BY DEF DownloadIds, DownloadTypeOK
<1>2. old # r
  BY <1>1 DEF Places
<1>3. \A q \in Requests :
        /\ canceled'[q] = IF q = old /\ canceled[q] = "no" THEN "newer" ELSE canceled[q]
        /\ done'[q] <=> q = old \/ done[q]
        /\ stage'[q] = IF q = r THEN "running" ELSE stage[q]
  BY <1>1 DEF MarkCancelled, DownloadTypeOK
<1>4. DownloadTypeOK'
  <2>1. canceled' \in [Requests -> {"no", "user", "newer"}] /\ done' \in [Requests -> BOOLEAN]
    <3>1. CASE old = NoDownload
      BY <3>1 DEF DownloadTypeOK, MarkCancelled
    <3>2. CASE old # NoDownload
      <4>1. canceled' = [canceled EXCEPT ![old] = IF @ = "no" THEN "newer" ELSE @]
        BY <3>2 DEF MarkCancelled
      <4>2. done' = [done EXCEPT ![old] = TRUE]
        BY <3>2 DEF MarkCancelled
      <4> QED
        BY <1>1, <4>1, <4>2 DEF DownloadTypeOK
    <3> QED
      BY <3>1, <3>2
  <2>2. downloads' \in [DownloadIds -> Requests \cup {NoDownload}]
    BY <1>1 DEF DownloadTypeOK
  <2>3. stage' \in [Requests -> Serving \cup {"idle", "ended", "over"}]
    BY DEF DownloadTypeOK, Serving
  <2> QED
    BY <2>1, <2>2, <2>3 DEF DownloadTypeOK
<1>5. Phases' /\ Flags'
  <2>1. Phases'
    BY <1>3 DEF Phases, DownloadTypeOK
  <2>2. Flags'
    BY <1>1, <1>2, <1>3 DEF Flags, Phases, Places, DownloadTypeOK
  <2> QED
    BY <2>1, <2>2
<1>6. \A i \in DownloadIds : downloads'[i] = IF i = DownloadIdOf[r] THEN r ELSE downloads[i]
  BY <1>1 DEF DownloadTypeOK
<1>7. Places'
  BY <1>1, <1>2, <1>3, <1>6 DEF Places, Flags, DownloadTypeOK
<1>8. ServedIsTracked'
  BY <1>1, <1>2, <1>3, <1>6 DEF ServedIsTracked, RegisteredDownload, Flags, Serving,
     DownloadIds, DownloadTypeOK
<1>9. DroppedIsResumable'
  BY <1>1, <1>2, <1>3, <1>6 DEF DroppedIsResumable, Parked, RegisteredDownload, Phases,
     DownloadIds, DownloadTypeOK
<1>10. Spoken' /\ LastWordIsTrue'
  BY <1>3 DEF Spoken, LastWordIsTrue, DownloadTypeOK
<1> QED
  BY <1>4, <1>5, <1>7, <1>8, <1>9, <1>10

\* The service returns, and the handler runs to its end.
LEMMA HandlerStep ==
  ASSUME DownloadIInv, NEW r \in Requests,
         Complete(r) \/ Settle(r) \/ \E why \in {"dropped", "failed"} : Fail(r, why)
  PROVE  DownloadIInv'
<1> USE TrackersAssumption DEF DownloadIInv, trackerVars, timerVars, streamVars
<1>1. CASE Complete(r)
  <2>1. DownloadTypeOK' /\ Phases' /\ Flags'
    BY <1>1 DEF Complete, DownloadTypeOK, Phases, Flags, Serving
  <2>2. Places' /\ ServedIsTracked' /\ DroppedIsResumable'
    BY <1>1 DEF Complete, DownloadTypeOK, Phases, Places, ServedIsTracked,
       DroppedIsResumable,
       RegisteredDownload, Parked, Serving, DownloadIds
  <2>3. Spoken' /\ LastWordIsTrue'
    BY <1>1 DEF Complete, DownloadTypeOK, Phases, Flags, Spoken, LastWordIsTrue
  <2> QED
    BY <2>1, <2>2, <2>3
<1>2. ASSUME NEW why \in {"dropped", "failed"}, Fail(r, why)
      PROVE  DownloadIInv'
  <2>1. DownloadTypeOK' /\ Phases' /\ Flags'
    BY <1>2 DEF Fail, DownloadTypeOK, Phases, Flags, Serving
  <2>2. Places' /\ ServedIsTracked' /\ DroppedIsResumable'
    BY <1>2 DEF Fail, DownloadTypeOK, Phases, Places, ServedIsTracked, DroppedIsResumable,
       RegisteredDownload, Parked, Serving, DownloadIds
  <2>3. Spoken' /\ LastWordIsTrue'
    BY <1>2 DEF Fail, DownloadTypeOK, Phases, Flags, Spoken, LastWordIsTrue
  <2> QED
    BY <2>1, <2>2, <2>3
<1>3. CASE FinishFailed(r)
  <2>1. DownloadTypeOK' /\ Phases' /\ Flags'
    BY <1>3 DEF FinishFailed, DownloadTypeOK, Phases, Flags, Serving
  <2>2. Places' /\ ServedIsTracked' /\ DroppedIsResumable'
    BY <1>3 DEF FinishFailed, DownloadTypeOK, Phases, Places, ServedIsTracked,
       DroppedIsResumable, RegisteredDownload, Parked, Serving, DownloadIds
  <2>3. Spoken' /\ LastWordIsTrue'
    BY <1>3 DEF FinishFailed, DownloadTypeOK, Spoken, LastWordIsTrue
  <2> QED
    BY <2>1, <2>2, <2>3
<1>4. CASE Interrupt(r)
  <2>1. DownloadTypeOK' /\ Phases' /\ Flags'
    BY <1>4 DEF Interrupt, DownloadTypeOK, Phases, Flags, Serving
  <2>2. Places' /\ ServedIsTracked'
    BY <1>4 DEF Interrupt, DownloadTypeOK, Places, ServedIsTracked, RegisteredDownload,
       Serving, DownloadIds
  <2>3. DroppedIsResumable'
    BY <1>4 DEF Interrupt, DownloadTypeOK, Flags, ServedIsTracked, DroppedIsResumable,
       RegisteredDownload, Parked, Serving
  <2>4. Spoken' /\ LastWordIsTrue'
    BY <1>4 DEF Interrupt, DownloadTypeOK, Spoken, LastWordIsTrue
  <2> QED
    BY <2>1, <2>2, <2>3, <2>4
<1>5. CASE Return(r)
  <2>1. cleanups[r] \in 0..1
    BY <1>5 DEF Return, DownloadTypeOK, Phases
  <2>2. DownloadTypeOK' /\ Phases' /\ Flags'
    BY <1>5, <2>1 DEF Return, DownloadTypeOK, Phases, Flags, Serving
  <2>3. Places' /\ ServedIsTracked' /\ DroppedIsResumable'
    BY <1>5 DEF Return, DownloadTypeOK, Places, ServedIsTracked, DroppedIsResumable,
       RegisteredDownload, Parked, Serving, DownloadIds
  <2>4. Spoken' /\ LastWordIsTrue'
    BY <1>5 DEF Return, DownloadTypeOK, Spoken, LastWordIsTrue
  <2> QED
    BY <2>2, <2>3, <2>4
<1> QED
  BY <1>1, <1>2, <1>3, <1>4, <1>5 DEF Settle

\* A cancellation ends the registered tracker.
LEMMA CancelStep ==
  ASSUME DownloadIInv, NEW i \in DownloadIds, CancelDownload(i)
  PROVE  DownloadIInv'
<1> DEFINE old == downloads[i]
<1> USE TrackersAssumption DEF DownloadIInv, CancelDownload, timerVars, streamVars
<1>1. old \in Requests /\ old # NoDownload
  BY DEF DownloadTypeOK
<1>2. \A q \in Requests :
        /\ canceled'[q] = IF q = old /\ canceled[q] = "no" THEN "user" ELSE canceled[q]
        /\ done'[q] <=> q = old \/ done[q]
  BY <1>1 DEF MarkCancelled, DownloadTypeOK
<1>3. DownloadTypeOK'
  BY <1>1 DEF DownloadTypeOK, MarkCancelled
<1>4. Phases' /\ Flags'
  BY <1>1, <1>2 DEF Phases, Flags, Places, DownloadTypeOK
<1>5. Places' /\ ServedIsTracked' /\ DroppedIsResumable'
  BY <1>2 DEF Places, ServedIsTracked, DroppedIsResumable, RegisteredDownload, Parked,
     Serving,
     DownloadIds, DownloadTypeOK
<1>6. Spoken' /\ LastWordIsTrue'
  BY <1>2 DEF Spoken, LastWordIsTrue, DownloadTypeOK
<1> QED
  BY <1>3, <1>4, <1>5, <1>6

\* A timer touches its own request's tracker, and only when the service has
\* returned.
LEMMA TimerStep ==
  ASSUME DownloadIInv, NEW r \in Requests, Cleanup(r) \/ GraceOver(r)
  PROVE  DownloadIInv'
<1> USE TrackersAssumption DEF DownloadIInv, streamVars
<1>1. CASE Cleanup(r)
  <2>1. stage[r] \in {"ended", "over"}
    BY <1>1 DEF Cleanup, Phases, DownloadTypeOK
  <2>a. DownloadTypeOK'
    <3>1. cleanups' \in [Requests -> 0..2]
      BY <1>1 DEF Cleanup, DownloadTypeOK
    <3>2. downloads' \in [DownloadIds -> Requests \cup {NoDownload}]
      BY <1>1 DEF Cleanup, DownloadTypeOK
    <3> QED
      BY <1>1, <3>1, <3>2 DEF Cleanup, DownloadTypeOK
  <2>2. Phases' /\ Flags'
    BY <1>1 DEF Cleanup, DownloadTypeOK, Phases, Flags
  <2>3. \A i \in DownloadIds :
          downloads'[i] = IF Removes(r) /\ i = DownloadIdOf[r] THEN NoDownload ELSE downloads[i]
    BY <1>1 DEF Cleanup, DownloadTypeOK
  <2>4. Places'
    BY <1>1, <2>3 DEF Cleanup, Places, DownloadTypeOK
  <2>5. ServedIsTracked' /\ DroppedIsResumable'
    BY <1>1, <2>1, <2>3 DEF Cleanup, ServedIsTracked, DroppedIsResumable, Removes,
       RegisteredDownload, Parked, Serving, DownloadIds, DownloadTypeOK
  <2>6. Spoken' /\ LastWordIsTrue'
    BY <1>1 DEF Cleanup, Spoken, LastWordIsTrue
  <2> QED
    BY <2>a, <2>2, <2>4, <2>5, <2>6
<1>2. CASE GraceOver(r)
  <2>1. interrupted[r] /\ cleanups[r] \in 0..1
    BY <1>2 DEF GraceOver, Phases, DownloadTypeOK
  <2>2. DownloadTypeOK'
    <3>1. cleanups' \in [Requests -> 0..2]
      BY <1>2, <2>1 DEF GraceOver, CleanupAfterGrace, DownloadTypeOK
    <3>2. grace' \in [Requests -> BOOLEAN]
      BY <1>2 DEF GraceOver, GraceSpent, DownloadTypeOK
    <3>3. /\ done' \in [Requests -> BOOLEAN]
          /\ err' \in [Requests -> {"none", "failed", "disconnected"}]
      <4>1. CASE RegisteredDownload(r) /\ ~done[r]
        <5>1. done' = [done EXCEPT ![r] = TRUE] /\ err' = [err EXCEPT ![r] = "disconnected"]
          BY <1>2, <4>1 DEF GraceOver
        <5> QED
          BY <5>1 DEF DownloadTypeOK
      <4>2. CASE ~(RegisteredDownload(r) /\ ~done[r])
        <5>1. done' = done /\ err' = err
          BY <1>2, <4>2 DEF GraceOver
        <5> QED
          BY <5>1 DEF DownloadTypeOK
      <4> QED
        BY <4>1, <4>2
    <3> QED
      BY <1>2, <3>1, <3>2, <3>3 DEF GraceOver, DownloadTypeOK
  <2>3. Phases'
    BY <1>2, <2>1 DEF GraceOver, GraceSpent, CleanupAfterGrace, DownloadTypeOK, Phases
  <2>4. Flags' /\ Places'
    BY <1>2, <2>1 DEF GraceOver, DownloadTypeOK, Phases, Flags, Places
  <2>a. \A q \in Requests :
          /\ q # r => (done'[q] <=> done[q]) /\ (grace'[q] <=> grace[q])
          /\ done[q] => done'[q]
          /\ RegisteredDownload(r) => done'[r]
    <3>1. \A q \in Requests : q # r => (grace'[q] <=> grace[q])
      BY <1>2 DEF GraceOver, DownloadTypeOK
    <3>2. CASE RegisteredDownload(r) /\ ~done[r]
      <4>1. done' = [done EXCEPT ![r] = TRUE]
        BY <1>2, <3>2 DEF GraceOver
      <4> QED
        BY <3>1, <4>1 DEF DownloadTypeOK
    <3>3. CASE ~(RegisteredDownload(r) /\ ~done[r])
      <4>1. done' = done
        BY <1>2, <3>3 DEF GraceOver
      <4> QED
        BY <3>1, <3>3, <4>1
    <3> QED
      BY <3>2, <3>3
  <2>5. ServedIsTracked' /\ DroppedIsResumable'
    <3>1. ServedIsTracked'
      BY <1>2, <2>1, <2>a DEF GraceOver, ServedIsTracked, RegisteredDownload, Serving,
         Phases
    <3>2. DroppedIsResumable'
      BY <1>2, <2>a DEF GraceOver, DroppedIsResumable, RegisteredDownload, Parked
    <3> QED
      BY <3>1, <3>2
  <2>6. Spoken' /\ LastWordIsTrue'
    BY <1>2 DEF GraceOver, Spoken, LastWordIsTrue
  <2> QED
    BY <2>2, <2>3, <2>4, <2>5, <2>6
<1> QED
  BY <1>1, <1>2

\* A stream repeats what the flags of a registered tracker say.
LEMMA StreamStep ==
  ASSUME DownloadIInv, NEW s \in Streams, Poll(s) \/ Waited(s)
  PROVE  DownloadIInv'
<1> USE TrackersAssumption DEF DownloadIInv, trackerVars, timerVars
<1>1. CASE Poll(s)
  <2> DEFINE r == downloads[WatchedId[s]]
             word == IF r = NoDownload THEN Missing(s) ELSE Status(r)
  <2>1. r \in Requests \cup {NoDownload}
    BY DEF DownloadTypeOK
  <2>2. word \in Open \cup Final
    BY <2>1 DEF Missing, Status, Open, Final, DownloadTypeOK
  <2>3. word \in {"done", "cancelled", "error"} => r \in Requests
    BY <2>1 DEF Missing
  <2>4. /\ word = "done" => ending[r] = "complete"
        /\ word = "cancelled" => canceled[r] = "user"
        /\ word = "error" => ending[r] \in {"dropped", "failed"}
    BY <2>1 DEF Missing, Status, Flags, Places, DownloadTypeOK
  <2>5. told' = [told EXCEPT ![s] = [status |-> word, of |-> r]]
    BY <1>1 DEF Poll
  <2> HIDE DEF r, word
  <2>6. DownloadTypeOK'
    BY <1>1, <2>1, <2>2, <2>5 DEF Poll, DownloadTypeOK
  <2>7. Spoken' /\ LastWordIsTrue'
    BY <1>1, <2>3, <2>4, <2>5 DEF Poll, Spoken, LastWordIsTrue, DownloadTypeOK
  <2> QED
    BY <1>1, <2>6, <2>7 DEF Poll, Phases, Flags, Places, ServedIsTracked,
       DroppedIsResumable, RegisteredDownload, Parked
<1>2. CASE Waited(s)
  BY <1>2 DEF Waited, DownloadTypeOK, Phases, Flags, Places, ServedIsTracked,
     DroppedIsResumable, RegisteredDownload, Parked, Spoken, LastWordIsTrue
<1> QED
  BY <1>1, <1>2

\* A step that changes nothing.
LEMMA DownloadStutter == DownloadIInv /\ UNCHANGED downloadVars => DownloadIInv'
BY DEF DownloadIInv, downloadVars, trackerVars, timerVars, streamVars, DownloadTypeOK,
   Phases, Flags, Places,
   ServedIsTracked, DroppedIsResumable, RegisteredDownload, Parked, Spoken, LastWordIsTrue

\* The invariant holds in every state.
THEOREM DownloadInvariance == DownloadSpec => []DownloadIInv
<1>1. DownloadIInv /\ [DownloadNext]_downloadVars => DownloadIInv'
  BY SetupStep, HandlerStep, CancelStep, TimerStep, StreamStep, DownloadStutter
     DEF DownloadNext
<1> QED
  BY DownloadInitIInv, <1>1, PTL DEF DownloadSpec

\* Every tracker keeps the shape the handlers give it; two clean-ups at most
\* are ever pending for one (setupDownloadTracker, interruptTracker).
THEOREM DownloadTypeCorrect == DownloadSpec => []DownloadTypeOK
BY DownloadInvariance, PTL DEF DownloadIInv

\* A download that is served keeps its tracker (cleanupDownloadTracker).
THEOREM ServedTracked == DownloadSpec => []ServedIsTracked
BY DownloadInvariance, PTL DEF DownloadIInv

\* A dropped download can be resumed while its grace period lasts.
THEOREM DroppedResumable == DownloadSpec => []DroppedIsResumable
BY DownloadInvariance, PTL DEF DownloadIInv

\* The final status of a stream is true of the request (statusLocked).
THEOREM LastWordTrue == DownloadSpec => []LastWordIsTrue
BY DownloadInvariance, PTL DEF DownloadIInv
=============================================================================
