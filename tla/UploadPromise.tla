--------------------------- MODULE UploadPromise ---------------------------
(***************************************************************************)
(* What ChunkUploader.Upload promises to its caller: while the call runs,  *)
(* chunks become intact in Telegram (sent and read back with the expected  *)
(* hash); the file is stored only when every chunk is intact, a stored     *)
(* file never loses a chunk to its own upload, and only a failed upload    *)
(* discards what it sent.                                                  *)
(***************************************************************************)

CONSTANT Chunks     \* the chunks of the file being uploaded

VARIABLES fate,     \* "running", "stored" or "failed"
          intact    \* the chunks known to be readable from Telegram

vars == <<fate, intact>>

Init ==
  /\ fate = "running"
  /\ intact = {}

\* One more chunk has been sent and verified.
Keep(c) ==
  /\ fate = "running"
  /\ intact' = intact \cup {c}
  /\ UNCHANGED fate

\* The file becomes visible: only with all of its chunks.
Store ==
  /\ fate = "running"
  /\ intact = Chunks
  /\ fate' = "stored"
  /\ UNCHANGED intact

Fail ==
  /\ fate = "running"
  /\ fate' = "failed"
  /\ UNCHANGED intact

\* Cleaning up after a failure.
Discard(c) ==
  /\ fate = "failed"
  /\ intact' = intact \ {c}
  /\ UNCHANGED fate

Next ==
  \/ \E c \in Chunks : Keep(c) \/ Discard(c)
  \/ Store
  \/ Fail

Spec == Init /\ [][Next]_vars
============================================================================
