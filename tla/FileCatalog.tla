---------------------------- MODULE FileCatalog ----------------------------
(***************************************************************************)
(* The files table, its chunk rows and the Telegram channel, as the file   *)
(* operations of several requests change them: upload, cancel, delete and  *)
(* move (service/files.go, repository/files.go, handler/upload_handler.go).*)
(*                                                                         *)
(* PostgreSQL runs every statement at READ COMMITTED: a statement sees     *)
(* what is committed when it starts, and waits for the rows it changes     *)
(* while another transaction holds them.  An INSERT .. SELECT therefore    *)
(* takes two steps (its snapshot, its commit), and the transaction of      *)
(* CreateChunksAndMarkUploaded three.  A DELETE or UPDATE that found its   *)
(* rows free, and a Telegram call, are single steps.                       *)
(*                                                                         *)
(* An upload is the abstraction of ChunkUpload: it sends its chunks, then  *)
(* persists or fails and cleans up.  The error it fails with may be that   *)
(* of a COMMIT which took effect and whose answer never came.  A file has  *)
(* at least one chunk.  A path is <<directory, number>>: number 0 is the   *)
(* plain name, n the name "stem (n).ext".                                  *)
(***************************************************************************)
EXTENDS Integers, FiniteSets

CONSTANTS
  Files,      \* one upload request each, and the row it inserts
  Chunks,     \* the chunks of a file
  Dirs,       \* directories
  MaxNumber,  \* bound on the "(n)" suffix
  Deleters,   \* delete requests that may run at a time
  Renames,    \* pairs <<from, to>> of the move requests
  NoPath

Paths   == Dirs \X (0..MaxNumber)
Targets == Paths \cup Dirs

ASSUME CatalogAssumption ==
  /\ MaxNumber \in Nat /\ Chunks # {}
  /\ IsFiniteSet(Files) /\ Cardinality(Files) <= MaxNumber + 1
  /\ NoPath \notin Paths /\ Dirs \cap Paths = {}
  /\ Renames \subseteq (Paths \X Paths) \cup (Dirs \X Dirs)

VARIABLES
  rowState,  \* of each file: not inserted, pending, uploaded, or deleted
  rowPath,   \* the path of its row
  msgs,      \* the messages <<file, chunk>> in the Telegram channel
  up,        \* where each upload request is; the last three are what its
             \* tracker has recorded ("stored": committed, not yet recorded)
  sent,      \* the chunks an upload has recorded
  stale,     \* rows deleted by its uncommitted transaction
  cleanup,   \* messages its background cleanup has still to delete
  cancel,    \* its CancelUpload: not called, waiting to settle, or over
             \* (settled, or refused from now on because the tracker is gone)
  del,       \* where each delete request is
  listed,    \* files some unforced delete has listed (history)
  unanswered \* files whose COMMIT took effect without an answer (history)

uploadVars == <<up, sent, stale, cleanup>>
history == <<listed, unanswered>>
vars == <<rowState, rowPath, msgs, uploadVars, cancel, del, history>>

Idle == [pc |-> "idle", target |-> NoPath, list |-> {}, force |-> FALSE]

TypeOK ==
  /\ rowState \in [Files -> {"none", "pending", "uploaded", "gone"}]
  /\ rowPath \in [Files -> Paths \cup {NoPath}]
  /\ msgs \subseteq Files \X Chunks
  /\ up \in [Files -> {"idle", "inserting", "sending", "locked", "ready",
                       "stored", "ok", "error", "skipped"}]
  /\ sent \in [Files -> SUBSET Chunks]
  /\ stale \in [Files -> SUBSET Files]
  /\ cleanup \in [Files -> SUBSET Chunks]
  /\ cancel \in [Files -> {"no", "settling", "over"}]
  /\ del \in [Deleters -> [pc : {"idle", "telegram", "db"},
                           target : Targets \cup {NoPath},
                           list : SUBSET (Files \X Chunks), force : BOOLEAN]]
  /\ listed \subseteq Files /\ unanswered \subseteq Files

----------------------------------------------------------------------------
Present(f)  == rowState[f] \in {"pending", "uploaded"}
RowsAt(p)   == {f \in Files : Present(f) /\ rowPath[f] = p}
UploadedAt(p) == {f \in RowsAt(p) : rowState[f] = "uploaded"}

\* Rows a transaction has changed and not yet committed.
Locked(f) == up[f] \in {"locked", "ready"} \/ \E g \in Files : f \in stale[g]

\* path = t OR path LIKE t || '/%', for a t without the characters of a pattern.
Matches(t) == IF t \in Dirs THEN {t} \X (0..MaxNumber) ELSE {t}
RowsMatching(t) == {f \in Files : Present(f) /\ rowPath[f] \in Matches(t)}

\* The rows DELETEd as leftovers when f is marked uploaded.
Leftovers(f) == {g \in Files \ {f} : rowState[g] = "pending" /\ rowPath[g] = rowPath[f]}

Finished(f) == up[f] \in {"ok", "error", "skipped"}

Init ==
  /\ rowState = [f \in Files |-> "none"]
  /\ rowPath = [f \in Files |-> NoPath]
  /\ msgs = {}
  /\ up = [f \in Files |-> "idle"]
  /\ sent = [f \in Files |-> {}]
  /\ stale = [f \in Files |-> {}]
  /\ cleanup = [f \in Files |-> {}]
  /\ cancel = [f \in Files |-> "no"]
  /\ del = [x \in Deleters |-> Idle]
  /\ listed = {} /\ unanswered = {}

----------------------------------------------------------------------------
(* Upload.                                                                 *)

\* CreateFileAnyway: the plain name if free, else the smallest free number.
FreePath(d) ==
  IF RowsAt(<<d, 0>>) = {} THEN <<d, 0>>
  ELSE <<d, CHOOSE n \in 1..MaxNumber :
              /\ RowsAt(<<d, n>>) = {}
              /\ \A m \in 1..(n - 1) : RowsAt(<<d, m>>) # {}>>

\* registerUpload, then the snapshot of the INSERT of either conflict policy.
BeginUpload(f, d, policy) ==
  /\ up[f] = "idle"
  /\ IF policy = "skip" /\ UploadedAt(<<d, 0>>) # {}
       THEN /\ up' = [up EXCEPT ![f] = "skipped"]
            /\ UNCHANGED rowPath
       ELSE /\ up' = [up EXCEPT ![f] = "inserting"]
            /\ rowPath' = [rowPath EXCEPT ![f] =
                 IF policy = "skip" THEN <<d, 0>> ELSE FreePath(d)]
  /\ UNCHANGED <<rowState, msgs, sent, stale, cleanup, cancel, del, history>>

Insert(f) ==
  /\ up[f] = "inserting"
  /\ \/ /\ up' = [up EXCEPT ![f] = "sending"]
        /\ rowState' = [rowState EXCEPT ![f] = "pending"]
     \/ /\ up' = [up EXCEPT ![f] = "error"]
        /\ UNCHANGED rowState
  /\ UNCHANGED <<rowPath, msgs, sent, stale, cleanup, cancel, del, history>>

SendChunk(f, c) ==
  /\ up[f] = "sending" /\ c \notin sent[f] /\ cancel[f] = "no"
  /\ sent' = [sent EXCEPT ![f] = @ \cup {c}]
  /\ msgs' = msgs \cup {<<f, c>>}
  /\ UNCHANGED <<rowState, rowPath, up, stale, cleanup, cancel, del, history>>

\* Fault: Rollback is not deferred, so the rows of the transaction stay locked.
ReturnErrorOnly(f) ==
  /\ up' = [up EXCEPT ![f] = "error"]
  /\ stale' = stale
  /\ cleanup' = [cleanup EXCEPT ![f] = sent[f]]

\* Upload returns an error: its transaction is rolled back and the messages
\* are deleted in the background.
ReturnError(f) ==
  /\ up' = [up EXCEPT ![f] = "error"]
  /\ stale' = [stale EXCEPT ![f] = {}]
  /\ cleanup' = [cleanup EXCEPT ![f] = sent[f]]

UploadFails(f) ==
  /\ up[f] \in {"sending", "locked", "ready"}
  /\ ReturnError(f)
  /\ UNCHANGED <<rowState, rowPath, msgs, sent, cancel, del, history>>

\* Fault: the row is not checked when its chunks are inserted.
RowIsThereUnchecked(f) == TRUE

\* file_chunks references files: the insert fails when the row is gone.
RowIsThere(f) == rowState[f] = "pending"

\* Fault: the statements run without a transaction, the mark shows at once.
TxMarkAutocommitted(f) ==
  /\ up[f] = "sending" /\ sent[f] = Chunks /\ cancel[f] = "no" /\ RowIsThere(f)
  /\ up' = [up EXCEPT ![f] = "locked"]
  /\ rowState' = [rowState EXCEPT ![f] = "uploaded"]
  /\ UNCHANGED <<rowPath, msgs, sent, stale, cleanup, cancel, del, history>>

\* CreateChunksAndMarkUploaded: insert the chunks and update the row, which
\* locks it; a row another transaction holds is waited for.
TxMark(f) ==
  /\ up[f] = "sending" /\ sent[f] = Chunks /\ cancel[f] = "no"
  /\ ~Locked(f)
  /\ IF RowIsThere(f)
       THEN up' = [up EXCEPT ![f] = "locked"] /\ UNCHANGED <<stale, cleanup>>
       ELSE ReturnError(f)
  /\ UNCHANGED <<rowState, rowPath, msgs, sent, cancel, del, history>>

TxDeleteLeftovers(f) ==
  /\ up[f] = "locked" /\ cancel[f] = "no"
  /\ \A g \in Leftovers(f) : ~Locked(g)
  /\ stale' = [stale EXCEPT ![f] = Leftovers(f)]
  /\ up' = [up EXCEPT ![f] = "ready"]
  /\ UNCHANGED <<rowState, rowPath, msgs, sent, cleanup, cancel, del, history>>

\* The rows once the transaction of f has committed.
Committed(f) == [g \in Files |-> IF g = f THEN "uploaded"
                                 ELSE IF g \in stale[f] THEN "gone" ELSE rowState[g]]

TxCommit(f) ==
  /\ up[f] = "ready" /\ cancel[f] = "no"
  /\ rowState' = Committed(f)
  /\ stale' = [stale EXCEPT ![f] = {}]
  /\ up' = [up EXCEPT ![f] = "stored"]
  /\ UNCHANGED <<rowPath, msgs, sent, cleanup, cancel, del, history>>

\* The COMMIT takes effect, but its answer is lost with the connection or to a
\* cancellation while it was under way: Upload takes it for a failure.
CommitReplyLost(f) ==
  /\ up[f] = "ready"
  /\ rowState' = Committed(f)
  /\ ReturnError(f)
  /\ unanswered' = unanswered \cup {f}
  /\ UNCHANGED <<rowPath, msgs, sent, cancel, del, listed>>

\* finishUpload: from now on the tracker knows the id of the stored file.
FinishUpload(f) ==
  /\ up[f] = "stored"
  /\ up' = [up EXCEPT ![f] = "ok"]
  /\ UNCHANGED <<rowState, rowPath, msgs, sent, stale, cleanup, cancel, del, history>>

\* Two transactions wait for each other's row: the server aborts either.
Deadlocked(f) ==
  /\ up[f] = "locked"
  /\ \E g \in Leftovers(f) : up[g] = "locked" /\ f \in Leftovers(g)

\* DeleteFromTelegram on the results of a failed upload; it gives up at the
\* first message it cannot delete.
CleanUp(f) ==
  /\ \/ \E c \in cleanup[f] :
          /\ msgs' = msgs \ {<<f, c>>}
          /\ cleanup' = [cleanup EXCEPT ![f] = @ \ {c}]
     \/ /\ cleanup[f] # {}
        /\ cleanup' = [cleanup EXCEPT ![f] = {}]
        /\ UNCHANGED msgs
  /\ UNCHANGED <<rowState, rowPath, up, sent, stale, cancel, del, history>>

----------------------------------------------------------------------------
(* CancelUpload and the tracker.                                           *)

CancelUpload(f) ==
  /\ up[f] # "idle" /\ cancel[f] = "no"
  /\ cancel' = [cancel EXCEPT ![f] = "settling"]
  /\ UNCHANGED <<rowState, rowPath, msgs, uploadVars, del, history>>

\* After the settle delay: the tracker knows the file id only if the upload
\* succeeded and finishUpload has run; then CleanupCancelledUpload deletes
\* the row, or fails and leaves it.
CancelSettles(f) ==
  /\ cancel[f] = "settling"
  /\ cancel' = [cancel EXCEPT ![f] = "over"]
  /\ \/ /\ up[f] = "ok" /\ Present(f)
        /\ rowState' = [rowState EXCEPT ![f] = "gone"]
     \/ UNCHANGED rowState
  /\ UNCHANGED <<rowPath, msgs, uploadVars, del, history>>

TrackerExpires(f) ==
  /\ Finished(f) /\ cancel[f] = "no"
  /\ cancel' = [cancel EXCEPT ![f] = "over"]
  /\ UNCHANGED <<rowState, rowPath, msgs, uploadVars, del, history>>

----------------------------------------------------------------------------
(* Delete and Move.                                                        *)

\* The chunk rows below a target; a pending row has none yet.
ChunksListed(t) == {f \in RowsMatching(t) : rowState[f] = "uploaded"} \X Chunks

DeleteBegin(x, t, force) ==
  /\ del[x].pc = "idle"
  /\ LET list == ChunksListed(t)
         direct == force \/ list = {}
     IN /\ del' = [del EXCEPT ![x] =
             [pc |-> IF direct THEN "db" ELSE "telegram", target |-> t,
              list |-> IF direct THEN {} ELSE list, force |-> force]]
        /\ listed' = IF direct THEN listed ELSE listed \cup {m[1] : m \in list}
  /\ UNCHANGED <<rowState, rowPath, msgs, uploadVars, cancel, unanswered>>

DeleteMessage(x, m) ==
  /\ del[x].pc = "telegram" /\ m \in del[x].list \cap msgs
  /\ msgs' = msgs \ {m}
  /\ LET left == del[x].list \ {m}
     IN del' = [del EXCEPT ![x] =
          [pc |-> IF left = {} THEN "db" ELSE "telegram", target |-> del[x].target,
           list |-> left, force |-> del[x].force]]
  /\ UNCHANGED <<rowState, rowPath, uploadVars, cancel, history>>

\* Some message cannot be deleted (it may already be gone): Delete returns.
DeleteGivesUp(x) ==
  /\ del[x].pc = "telegram"
  /\ del' = [del EXCEPT ![x] = Idle]
  /\ UNCHANGED <<rowState, rowPath, msgs, uploadVars, cancel, history>>

\* DELETE FROM files, the chunk rows cascade; matches rows as they are now.
DeleteRows(x) ==
  /\ del[x].pc = "db"
  /\ \A f \in RowsMatching(del[x].target) : ~Locked(f)
  /\ rowState' = [f \in Files |-> IF f \in RowsMatching(del[x].target)
                                  THEN "gone" ELSE rowState[f]]
  /\ del' = [del EXCEPT ![x] = Idle]
  /\ UNCHANGED <<rowPath, msgs, uploadVars, cancel, history>>

\* A path that is no file moves as a folder, everything LIKE it included.
Moved(p, from, to) == IF from \in Dirs THEN <<to, p[2]>> ELSE to

Move(from, to) ==
  /\ RowsMatching(from) # {}
  /\ \A f \in RowsMatching(from) : ~Locked(f)
  /\ rowPath' = [f \in Files |-> IF f \in RowsMatching(from)
                                 THEN Moved(rowPath[f], from, to) ELSE rowPath[f]]
  /\ UNCHANGED <<rowState, msgs, uploadVars, cancel, del, history>>

----------------------------------------------------------------------------
\* What an upload does of its own accord once its source has been read: its
\* failures and the chunks of a live source are not owed.
Proceed(f) ==
  \/ Insert(f) \/ TxMark(f) \/ TxDeleteLeftovers(f) \/ TxCommit(f) \/ FinishUpload(f)
  \/ (Deadlocked(f) \/ cancel[f] # "no") /\ UploadFails(f)

Delete(x) ==
  \/ DeleteGivesUp(x) \/ DeleteRows(x)
  \/ \E m \in Files \X Chunks : DeleteMessage(x, m)

Next ==
  \/ \E f \in Files :
       \/ \E d \in Dirs, policy \in {"skip", "keep_both"} : BeginUpload(f, d, policy)
       \/ \E c \in Chunks : SendChunk(f, c)
       \/ Proceed(f) \/ UploadFails(f) \/ CommitReplyLost(f) \/ CleanUp(f)
       \/ CancelUpload(f) \/ CancelSettles(f) \/ TrackerExpires(f)
  \/ \E x \in Deleters :
       \/ \E t \in Targets, force \in BOOLEAN : DeleteBegin(x, t, force)
       \/ Delete(x)
  \/ \E r \in Renames : Move(r[1], r[2])

Spec == Init /\ [][Next]_vars

\* The database answers, and breaks deadlocks.  Nothing obliges a browser to send
\* the rest of its file, nor anyone to delete, to move or to cancel.
FairSpec == Spec /\ \A f \in Files : WF_vars(Proceed(f))

----------------------------------------------------------------------------
(* Properties.                                                             *)

\* Every chunk of a stored file is in the channel, unless a delete that had
\* to remove it has been tried, or the COMMIT that stored it took effect
\* without an answer, so that its own upload cleaned up after itself.  No
\* other failure, and no superseded or cancelled upload, costs a file that
\* the catalog shows a message.
StoredFilesReadable ==
  /\ TypeOK
  /\ \A f \in Files :
       rowState[f] = "uploaded" /\ f \notin listed \cup unanswered
         => {f} \X Chunks \subseteq msgs

\* A row deleted under a running upload never comes back, and that upload
\* does not succeed; a file that is stored never becomes pending again.
GoneForGood ==
  [][\A f \in Files :
       /\ rowState[f] = "gone" =>
            /\ rowState'[f] = "gone"
            /\ up'[f] = "stored" => up[f] = "stored"
       /\ rowState[f] = "uploaded" => rowState'[f] \in {"uploaded", "gone"}]_vars

\* The row locks of CreateChunksAndMarkUploaded hold no upload up for ever: one
\* whose source has been read ends, whatever else runs, and so does a cancelled one.
UploadsEnd ==
  \A f \in Files :
    (up[f] = "sending" /\ sent[f] = Chunks) \/ cancel[f] # "no" ~> Finished(f)
============================================================================
