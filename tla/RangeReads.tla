----------------------------- MODULE RangeReads -----------------------------
(***************************************************************************)
(* A byte range of a file (serveInline of handler/download_handler.go,     *)
(* DownloadRangeToWriter of service/chunk_downloader.go): the chunks the   *)
(* range needs are inferred from the current chunk size, fetched, checked  *)
(* against that layout and clipped.  A file found to have an older layout  *)
(* is replayed from its first chunk.  ChunkFetch fetches.                  *)
(*                                                                         *)
(* The content of a byte is its position in the file.  Chunks come one     *)
(* after the other, which OrderedJobs shows of the parallel loads, and a   *)
(* fetched chunk stays in the cache of StreamCache.                        *)
(***************************************************************************)
EXTENDS ChunkFetch, Integers, Sequences

CONSTANTS
  UploadChunkSize,
  UploadChunkSafetyMargin,
  None,     \* a missing end of a range
  Files,    \* the files: sizes of the chunks, and size, the stored one, or 0
  Requests  \* a file, the two ends of the Range header, a chat and a fault budget

\* Where each chunk of a file starts, and where its last one ends.
Starts(f) ==
  LET s[c \in 1..(Len(f.sizes) + 1)] == IF c = 1 THEN 0 ELSE s[c - 1] + f.sizes[c - 1]
  IN  s
Base(f, c) == Starts(f)[c]
Real(f)    == Base(f, Len(f.sizes) + 1)
Current(f) == \A c \in 1..(Len(f.sizes) - 1) : f.sizes[c] = UploadChunkSize
Legacy(f)  == \A c \in 1..(Len(f.sizes) - 1) :
                f.sizes[c] = UploadChunkSize + UploadChunkSafetyMargin

ASSUME ChunkSizeAssumption ==
  UploadChunkSize \in Nat \ {0} /\ UploadChunkSafetyMargin \in Nat

\* A stored size overshoots by less than the margin (comment of checkChunkLayout);
\* files of either layout may lack one (comment of exactFileSize).
ASSUME FilesAssumption ==
  \A f \in Files :
    /\ f.sizes \in Seq(1..(UploadChunkSize + UploadChunkSafetyMargin)) /\ f.size \in Nat
    /\ f.sizes # <<>> /\ DOMAIN f.sizes \subseteq Chunks
    /\ Current(f) \/ Legacy(f)
    /\ f.size = 0 \/ f.size - Real(f) \in 0..(UploadChunkSafetyMargin - 1)

\* An end of a range is left out at most; the bots in the channel are workers of
\* the storage.
ASSUME RequestsAssumption ==
  /\ None \notin Nat
  /\ \A r \in Requests :
       /\ r.file \in Files /\ r.budget \in Nat /\ r.chat.members \subseteq Bots
       /\ r.first \in Nat \cup {None} /\ r.last \in Nat \cup {None}
       /\ r.first # None \/ r.last # None

VARIABLES
  request,
  step,        \* where the request is
  total,       \* totalSize, once known
  start, end,  \* the range
  at, last,    \* the next chunk of the window and its last
  offset,      \* where the next chunk starts, for all the reader knows
  checkLayout,
  cached,      \* the chunks in the cache
  out          \* what the client has received

rangeVars == <<total, start, end, at, last, offset, checkLayout, out>>
vars == <<fetchVars, request, step, rangeVars, cached>>

file   == request.file
Count  == Len(file.sizes)
Lesser(a, b)  == IF a < b THEN a ELSE b
Greater(a, b) == IF a > b THEN a ELSE b

Init ==
  /\ request \in Requests
  /\ FetchInit(request.chat) /\ budget = request.budget
  /\ step = "idle"
  /\ total = 0 /\ start = 0 /\ end = 0
  /\ at = 1 /\ last = 1 /\ offset = 0
  /\ checkLayout = FALSE
  /\ cached = {}
  /\ out = <<>>

----------------------------------------------------------------------------
(* The range.                                                              *)

\* parseSingleByteRange of a header that parses; None stands for an end left out.
Suffix        == request.first = None
Satisfiable(size) ==
  IF Suffix THEN request.last > 0
  ELSE request.first < size /\ (request.last # None => request.first <= request.last)
RangeStart(size) == IF Suffix THEN size - Lesser(request.last, size) ELSE request.first
RangeEnd(size) ==
  IF Suffix \/ request.last = None THEN size - 1 ELSE Lesser(request.last, size - 1)

\* inferRangeChunkWindow, its chunks numbered from 1.
Inferred(size) == Count > 1 /\ size >= (Count - 1) * UploadChunkSize
ChunkOf(byte)  == Lesser(byte \div UploadChunkSize, Count - 1) + 1

\* exactFileSize: the stored size, or that of the last chunk is asked for.
Begin ==
  /\ step = "idle"
  /\ IF file.size > 0
     THEN step' = "sized" /\ total' = file.size
     ELSE step' = "sizing" /\ UNCHANGED total
  /\ UNCHANGED <<fetchVars, request, start, end, at, last, offset, checkLayout, out, cached>>

\* ExactFileSize of the downloader, which counts the chunks at the current size
\* whatever theirs is.
Sized ==
  /\ step = "sizing" /\ Count \in cached
  /\ step' = "sized"
  /\ total' = (Count - 1) * UploadChunkSize + file.sizes[Count]
  /\ UNCHANGED <<fetchVars, request, start, end, at, last, offset, checkLayout, out, cached>>

NotSatisfiable ==
  /\ step = "sized" /\ ~Satisfiable(total)
  /\ step' = "refused"
  /\ UNCHANGED <<fetchVars, request, rangeVars, cached>>

\* DownloadRangeToWriter begins.
ReadBegins ==
  /\ step = "sized" /\ Satisfiable(total)
  /\ step' = "reading"
  /\ start' = RangeStart(total) /\ end' = RangeEnd(total)
  /\ at'   = IF Inferred(total) THEN ChunkOf(RangeStart(total)) ELSE 1
  /\ last' = IF Inferred(total) THEN ChunkOf(RangeEnd(total)) ELSE Count
  /\ offset' = (at' - 1) * UploadChunkSize
  /\ checkLayout' = (at' > 1)
  /\ UNCHANGED <<fetchVars, request, total, out, cached>>

----------------------------------------------------------------------------
(* Chunks.                                                                 *)

Wanted == IF step = "sizing" THEN Count ELSE at
Busy   == step \in {"sizing", "reading"}

Ask ==
  /\ Busy /\ Wanted \notin cached
  /\ result = "none" /\ Fetch(Wanted)
  /\ UNCHANGED <<request, step, rangeVars, cached>>

FetchGoesOn == FetchStep /\ UNCHANGED <<request, step, rangeVars, cached>>

CancelRequest == Busy /\ Cancelled /\ UNCHANGED <<request, step, rangeVars, cached>>

\* cache.set after the load.
ChunkArrives ==
  /\ pc = "idle" /\ result = "data"
  /\ cached' = cached \cup {chunk}
  /\ result' = "none"
  /\ UNCHANGED <<fileId, chatVars, chunk, pc, botVars, loopVars, tries, live, copyVars, faultVars,
                 request, step, rangeVars>>

LoadFails ==
  /\ Busy /\ pc = "idle" /\ result \in {"error", "cancelled"}
  /\ step' = "failed"
  /\ UNCHANGED <<fetchVars, request, rangeVars, cached>>

\* Fault: only chunks before the last are checked.
LastIsTrusted(size) == at # Count => size = UploadChunkSize

\* checkChunkLayout.
LayoutMatches(size) ==
  IF at # Count
  THEN size = UploadChunkSize
  ELSE offset + size <= total /\ total - (offset + size) < UploadChunkSafetyMargin

\* The part of the chunk inside the range.
Left        == Greater(start - offset, 0)
Right(size) == Lesser(end + 1 - offset, size)

\* The handler of writeRangeWindow takes the next chunk.
Ready == step = "reading" /\ at \in cached

ChunkWritten ==
  LET size == file.sizes[at] IN
  /\ Ready
  /\ checkLayout => LayoutMatches(size)
  /\ out' = out \o [k \in 1..Greater(Right(size) - Left, 0) |-> Base(file, at) + Left + k - 1]
  /\ offset' = offset + size
  /\ at' = at + 1
  /\ step' = IF at = last THEN "done" ELSE "reading"
  /\ UNCHANGED <<fetchVars, request, total, start, end, last, checkLayout, cached>>

\* errChunkLayoutMismatch: if nothing has reached the client, the file is read
\* again from its first chunk.
LayoutDiffers ==
  /\ Ready /\ checkLayout /\ ~LayoutMatches(file.sizes[at])
  /\ IF out = <<>>
     THEN /\ at' = 1 /\ last' = Count
          /\ offset' = 0
          /\ checkLayout' = FALSE
          /\ UNCHANGED step
     ELSE /\ step' = "failed"
          /\ UNCHANGED <<at, last, offset, checkLayout>>
  /\ UNCHANGED <<fetchVars, request, total, start, end, out, cached>>

\* The client has gone when its bytes are written.
WriteFails ==
  /\ Ready /\ step' = "failed"
  /\ UNCHANGED <<fetchVars, request, rangeVars, cached>>

ReadStep ==
  \/ Begin \/ Sized \/ NotSatisfiable \/ ReadBegins
  \/ Ask \/ FetchGoesOn \/ ChunkArrives \/ LoadFails \/ ChunkWritten \/ LayoutDiffers

Next == ReadStep \/ CancelRequest \/ WriteFails

Spec == Init /\ [][Next]_vars

\* The handler's goroutine runs and every call returns, if with an error.
FairSpec == Spec /\ WF_vars(ReadStep)

----------------------------------------------------------------------------
(* Properties.                                                             *)

\* The one case the layout check does not see: a file of the older layout whose
\* size was computed for the current one, read from its last chunk on.  The wrong
\* size and the wrong offset of that chunk agree.
Misread == file.size = 0 /\ ~Current(file) /\ start >= (Count - 1) * UploadChunkSize

\* Misread ranges apart, what has reached the client is a beginning of the range
\* it asked for, and when the read ends without error, all of it the file has:
\* whatever layout the file was uploaded with, and although a stored size may be
\* more than it holds (DownloadRangeToWriter, writeRangeWindow, checkChunkLayout).
BytesAreTheRange ==
  ~Misread =>
    /\ \A k \in DOMAIN out : out[k] = start + k - 1
    /\ step = "done" => Len(out) = Greater(Lesser(end + 1, Real(file)) - start, 0)

\* What the comment of writeRangeWindow says of files with 20 MiB chunks: rather
\* than hand out bytes from the wrong position, such a chunk fails with a mismatch.
NoWrongPosition == \A k \in DOMAIN out : out[k] = start + k - 1

\* Every request ends, whatever fails in Telegram.
RequestEnds == Busy ~> ~Busy
=============================================================================
