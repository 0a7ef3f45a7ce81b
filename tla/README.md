# Pentaract in TLA+

Pentaract stores files in Telegram channels: a file is cut into encrypted
chunks, each chunk is one message, and PostgreSQL keeps the catalog (`files`,
`file_chunks`) that says which messages make a file. A Go server moves the
bytes; a React application drives it. Nothing but the order in which the code
does things keeps the catalog and the channels consistent: Telegram has no
transactions, a message whose answer is lost cannot be found again, and every
request runs concurrently with every other. These modules state what that
order achieves, check it with TLC and prove the core of it with TLAPS.

## Inventory

Sources are relative to `src/internal/` unless they start with `src/`.

| component | state it keeps | operations | works with | what is hard |
|---|---|---|---|---|
| **Chunk upload pipeline** `service/chunk_uploader.go`, `verify_circuit_breaker.go` | per call: results, failed chunks, intake channel, retry queue, failed positions, breaker, error contexts | `Upload`: read, send in parallel, second round, verify, re-verify, persist, abort | scheduler, Telegram, downloader, file repository, deleter | goroutines, two contexts, a bounded channel, a consumer that may quit, cleanup of what was sent |
| **Chunk deletion** `service/chunk_deleter.go` | none | `DeleteFromTelegram` | scheduler, Telegram | partial failure, cannot be repeated |
| **File catalog** `repository/files.go`, `service/files.go` | `files`, `file_chunks` | insert (two conflict policies), commit chunks, delete by id, delete by path, move, create folder, list, search | every request | READ COMMITTED snapshots, row locks, list-then-delete, `LIKE` patterns |
| **Upload handler** `handler/upload_handler.go`, `progress_tracker.go` | upload trackers by id | start, cancel, progress stream, expiry | file service | settle delay, id reuse, cancellation racing completion |
| **Ordered jobs** `service/ordered_jobs.go` | per call: job and result channels, parked results | `runOrderedJobs` | downloader | fan-out/fan-in with cancellation |
| **Chunk download** `service/chunk_downloader.go`, `stream_chunk_cache.go` | LRU cache, shared loads | download, stream, range, exact size | scheduler, Telegram, cipher | shared loads under one request's context, fallback workers, range arithmetic |
| **Worker scheduler** `service/worker_scheduler.go`, `repository/storage_workers.go` | buffered tokens, waiting counts, usage rows | `GetToken`, `GetTokenBatch`, `NextAvailableIn` | all Telegram calls | concurrent batches, stale tokens, waiting |
| **Download and delete trackers** `handler/download_handler.go`, `delete_progress_registry.go` | trackers by id with timers | start, interrupt, resume, cancel, expire | downloader, SSE | timers racing a resumed request |
| **HLS sessions** `service/hls.go`, `handler/media_handler.go` | ffmpeg sessions, source tokens, leases | playlist, segment, stop, reap | downloader over a loopback URL | reaper and waits, restarts |
| **Local uploads** `handler/local_fs.go` | a queue of uploads | queue, run one by one, cancel queued | upload handler | cancellation of queued items |
| **Storages, access, users** `service/{storages,access,users}.go`, their repositories | `storages`, `access`, `users` | create, delete, grant, revoke | all services | check-then-act on rights, non-atomic creation |
| **Watch progress** `service/watch_progress.go`, `repository/watch_progress.go` | `watch_progress` | update, list, clear | players | late updates |
| **Telegram client** `telegram/client.go` | none | upload, download, delete with retry | Telegram | retry after an ambiguous failure |
| **Cipher, media parsing, jwt, password, config, startup, server** | none or constant | pure functions and wiring | | shutdown drops background work |
| **Web interface** `src/ui` and **deployment** `src/nginx`, `src/scripts` | browser state, shell | | HTTP interface | not part of the server's guarantees |

What makes the parts correct, in a line each:

- *Upload*: stored implies complete and verified; failed implies cleaned up as
  far as the process can know; the call ends and leaves nothing running.
- *Catalog*: a stored file is readable until a delete was asked for, unless its
  own COMMIT took effect without an answer; a deleted row stays deleted; uploads to one path do not wait for each other for ever.
- *Ordered jobs*: the output is a prefix of the input order; success means all.
- *Download*: a range delivers exactly its bytes; a dropped request never fails
  another one.
- *Scheduler*: what exceeds a worker's rate is bounded; waiting is reported
  exactly; waiting requests do not block each other.
- *Trackers*: a timer never removes somebody else's tracker; every stream ends.
- *HLS*: what a request waits for is coming or it is told; no process or
  directory is lost track of.
- *Local uploads*: what is stored is whole; every item of the queue ends.
- *Access*: rights go only by a revocation, with the storage or the account; one
  administrator cannot leave a storage without any.
- *Watch marks*: what was watched stays so until its user says otherwise.

## Modules

| module | role | proofs |
|---|---|---|
| `ChunkUpload` | one call of `ChunkUploader.Upload`, step by step | `ChunkUploadProofs` |
| `UploadPromise` | what that call promises; `ChunkUpload` implements it | |
| `UploadQueue` | the handlers around it: trackers, the copy into the pipe, local files one by one | `TrackersProofs` |
| `FileCatalog` | catalog rows, messages and the requests that change them; an upload is reduced to what `ChunkUpload` shows of it | `FileCatalogProofs` |
| `OrderedJobs` | one call of `runOrderedJobs` | `ChunkLoadProofs` |
| `InOrder` | what that call promises; `OrderedJobs` implements it | |
| `ChunkFetch` | one chunk read from Telegram, bot by bot, call by call | `RangeReadsProofs` |
| `RangeReads` | a byte range of a file, on top of `ChunkFetch` | `RangeReadsProofs` |
| `StreamCache` | the cache of decrypted chunks and the loads that range requests share | `ChunkLoadProofs` |
| `WorkerScheduler` | `GetToken` calls over the usage rows: batches, buffers, waiting | `WorkerSchedulerProofs` |
| `DownloadTrackers` | tracked downloads, their timers and event streams | `TrackersProofs` |
| `HlsSessions` | ffmpeg sessions of the player and the requests that wait for segments | `HlsSessionsProofs` |
| `Accounts` | users, storages, rights, workers and watch marks | `AccountsProofs` |
| `MC*` | instances for TLC: model values, symmetry | |

Two components may share a module of proofs; one of them then has names of its
own for what every module has (`JobsInit`, `JobsSpec`, `DownloadInit`,
`DownloadSpec`, ...), so that both can be extended.

'Fault' operators stand beside some definitions: each is the definition as a
plausible slip would have it, and `PROJECT.json` (`mutants`) says which property
each of them breaks. No specification uses them.

### ChunkUpload

`phase` is the position of the goroutine that runs `Upload`; `up[c]`,
`attempt[c]` and `tg[c]` are the goroutine, the attempt and the recorded
message of a chunk; `ver[c]` its verification, `consumer` the goroutine that
feeds the verifications. `UploadCtxDead` and `VerifyCtxDead` are the two
derived contexts: an error of one chunk ends `gctx`, an error of one
verification ends `v.ctx`, the request context ends both.

A chunk is its own data, position and result. The traversal order of the failed
chunks, the intake and the retry queue is free, which only adds behaviours.
Timers are abstract. An attempt may fail after Telegram stored the message
(`stray`), and a commit may take effect although an error is reported
(`CommitReplyLost`). The storage may be gone when the call begins
(`StorageMissing`). A file without chunks is left out: it has nothing to send,
to verify or to clean up. Hashing, encryption and progress counters are left
out; a verification is one step with the outcomes of `verifySingleChunk`.

### FileCatalog

`rowState` and `rowPath` are the `files` table, `msgs` the channel, `up` and
`sent` each upload, `del` each running delete, `cancel` the cancellation of an
upload and whether its tracker is still there. Statements run at READ COMMITTED: the `INSERT ... SELECT` of an upload
takes its snapshot in `BeginUpload` and commits in `Insert`;
`CreateChunksAndMarkUploaded` is `TxMark`, `TxDeleteLeftovers` and `TxCommit`
with the row locks (`Locked`) they hold in between; PostgreSQL aborts either of
two transactions that wait for each other (`Deadlocked`). A COMMIT may take
effect and report an error (`CommitReplyLost`): the upload then fails and deletes
the messages of a file that is stored. `FinishUpload` is a step of its own,
because a cancellation that settles between it and the COMMIT does not know the
file. `listed` and `unanswered` are histories that exist for
`StoredFilesReadable`: what a delete has listed, and what was stored without an
answer, are all that may lose messages. A path is a
directory and the number of the name; a name that is a `LIKE` pattern is left
out. A cancelled context lets no further statement start.

### OrderedJobs

`worker` and `job` are the worker goroutines, `fed`/`feeding` the feeder,
`buffered`/`closed` the result channel, `pending`/`next`/`draining`/`handleErr`
the caller's loop. `Stopped` is `gctx.Done()`. `last` is the job handled last;
it exists to map the state to `InOrder`.

### ChunkFetch and RangeReads

A Telegram file id belongs to the bot that was given it, so an id *is* a bot.
`pc` is the call under way, `todo` the workers not yet tried, `attempt` and
`tries` the two retry loops (`downloadChunkWithRetry`, `doWithRetry`). A bot
without a usable id forwards the message, asks for the copy's id and deletes the
copy; `copy` is that copy, `strays` the copies nobody will delete. A call may
fail after Telegram did what it asks, as often as `budget` allows.

`RangeReads` is the request above it: `total` the exact size, `start` and `end`
the parsed header, `at`/`last` the window of chunks, `offset` the position the
reader believes it is at. The content of a byte is its position, so
`BytesAreTheRange` compares what the client received with what it asked for.
The layout is a guess from the current chunk size that `checkChunkLayout` tests
on the chunks that arrive; a file of the old layout is replayed from its start.
Files of either layout may lack a stored size. `Misread` is the case the test does
not see, where size and offset are wrong together; it is the exception of
`BytesAreTheRange`, and the run `reads_layout` shows it.

### StreamCache

`order` and `totalBytes` are the cache, `lead` and `joined` the calls in
singleflight's group, `pc`, `key`, `live`, `outcome` and `shared` the requests.
singleflight is external: the first request of a key runs the load under its own
context, later ones wait whatever happens to theirs, and the result tells
everyone whether it was shared. The data of a chunk is its key, and the map and
the list of the cache are one sequence. A load is one step with the outcomes of
`downloadAndDecryptChunk`; `ChunkFetch` has its retries and fallback workers.
`late` is the error of the Telegram client's two minute timeout, which looks like a cancellation although nobody was cancelled. Chunks
are not empty; an empty one is never cached and would be loaded by every
request.

### WorkerScheduler

`pc`, `storage`, `live`, `batch` and `flag` are the calls of `GetToken`;
`buffer` and `waiting` the two maps of the scheduler; `used` the usage rows of
the last minute by age. `Select` is the statement of `GetTokenBatch`, which
counts committed rows only, `Commit` makes its rows visible, at the age they have
by then (`age`; `created_at` is the start of the transaction), `Deliver` buffers
the extra tokens: other calls run in between. Which slots a batch takes is free,
since SQL fixes no order for it, and so is the time a call sleeps. Rows that
left the window take part in no count and are not kept, so the background
cleanup of old rows has nothing to do here. The assignment of workers to
storages is constant here; `Accounts` changes it. Each call starts with a fresh
context.

### UploadQueue

`trackers` is the map of the upload handler, `pc` each upload from its
registration to the timer that removes its tracker, `copy` the goroutine between
the source and the pipe, `left` and `got` the blocks at its two ends. The
service behind the pipe is reduced to what it may do: read on, skip the upload
before it read anything, fail, or succeed after the end of the pipe. The queue
of local files registers all trackers at once and runs the items in turn; a
cancelled item fails when its turn comes. A source that breaks closes the pipe
with `ErrUploadInterrupted`, never with an end of file: that is what
`StoredIsWhole` is about.

### DownloadTrackers

A tracker is its request; `downloads` says which one has an id. `cleanups` and
`grace` are the timers that are set, and they fire at any time, which covers
every length of the delays. `ending` remembers how the service returned; it
exists for the properties. `canceled` remembers who asked first, because a
stream that follows an id must not report the cancellation that a resumed
download inflicts on the one before it.

### HlsSessions

`sessions` is the map by user, file and variant, `session` what is known of
each ffmpeg, `dirs` the directories on disk, `sources` the tokens ffmpeg reads
its input with. A request passes `lookup` (find, join or restart), the loop of
`waitFor` (`stat`, `select`, `restat`), and `found`, after which another request
may still remove the directory. ffmpeg is external: it writes segments in order
and may end at any time. `RestartServer` is the end of `run`, which does not
close the service, and the next start, which removes the directories, or fails
to where an ffmpeg is still writing. What such an ffmpeg does between the two is
what it may do before, so they are one step; the sessions of earlier lives are
`orphans`.

### Accounts

One variable per table. A request is a check and later writes, each SQL
statement a step; `cut` holds the rows the open transaction of `DeleteManaged`
has deleted, which others still see and whose writers wait. A caller may have
been deleted since its token was issued. Files and their chunks are
`FileCatalog`'s; here a file is the row that watch marks refer to.

## Runs

All runs but `reads_layout` pass: TLC finds every listed property true in the
whole state space. `reads_layout` is expected to fail, since it checks what a
comment of the code says and the code does not do.

| run | instance | shows |
|---|---|---|
| `upload_safety` | 3 chunks, 2 uploads in flight, 2 verifications, 2 attempts, breaker trips at 2, 2 rounds, lost commit replies | no send on the closed intake; stored implies verified; nothing recorded is forgotten; nothing left running |
| `upload_promise` | 3 chunks, 1 upload in flight, 1 attempt, truthful commits, with fairness | implements `UploadPromise`; cancelled or fully read uploads return (`UploadEnds`) |
| `upload_queue` | 1 browser upload that uses the id of a local one, 2 local files, one of them empty, with fairness | what is stored is whole; what is alive is tracked; the queue and the copies end (`UploadsDrain`) |
| `catalog` | 2 uploads, 1 directory, 1 chunk, 1 deleter, 1 move, lost commit replies, with fairness | stored files readable; deleted rows stay deleted; uploads to one path end |
| `jobs` | 4 jobs, 2 workers, with fairness | implements `InOrder`; nobody left behind; the call returns |
| `reads` | 7 files (1 to 3 chunks, both layouts, sizes exact, too big or missing), every range header; 3 bots, every set of members and ids, up to 3 failed calls; with fairness | a client receives the bytes of its range, those of `Misread` apart; a chunk some bot can read is read; copies stay only behind a fault; requests end |
| `reads_layout` | the same instance | **violated**: a range of an old file without a stored size is answered with other bytes (`NoWrongPosition`) |
| `stream_cache` | 3 requests, 2 chunks of 1 and 2 bytes, room for 2 bytes, 3 calls, 1 timeout, with fairness | one load per chunk; no failure by another's cancellation; cache within its limits; calls return |
| `scheduler` | 2 callers, 2 storages, 1 shared worker, limit 3, batches of 2, window of 2 ticks, with fairness | exact waiting counts; bounded buffers; bounded excess over the limit; callers do not all wait |
| `downloads` | a download, the one that resumes it, a stream that follows their id, with fairness | no timer touches a newer request; a dropped download can be resumed; the stream's last word is true; nothing lingers |
| `hls` | 2 requests, 1 key, 2 sessions, 2 segments, 1 restart of the server, with fairness | every ffmpeg is registered; what a request waits for is coming and is served; stopped sessions disappear and release their waiters |
| `accounts` | the superuser and a user, 1 storage, 1 worker, 1 video, 2 requests under way | rights, the last administrator, watched marks; account deletions refused only by a race |

**Why the bounds are enough.** Three chunks let one be in flight, one wait in
the intake and one be in the consumer's hands, the smallest situation in which a
tripped breaker makes the consumer abandon both kinds of accepted results. A
threshold of 1 trips the breaker on the first failure, one of 2 lets a success
reset it first; two rounds and two attempts are the least that have a first, a
last, and a step between. Two
uploads, one deleter, one rename and one chunk per file are the actors of every
race the catalog statements can have pairwise; moves of whole folders differ from
the rename only in the rows they match, and are left to the proofs. Four jobs and two workers let two results be parked while the
buffer is full. Two callers are what a stale count needs, two storages what a
mixed-up key needs; one worker is the worst case for its own limit, and a limit
that is no multiple of the batch makes partial batches happen. Three
requests are a leader, one that joined it and a latecomer after both; the two
chunks fit one at a time, so each load may evict the other chunk while a request
still waits for it. `MaxCalls` counts the calls of all requests: three are
enough for all to take part in one load or in two. Two sessions of one key are what a seek and a
stop need, and one restart separates two lives of the server; two segments with
one of them ahead make `covers` say both yes and no. Chunks of 3 bytes and a
margin of 2 give every position of a range relative to a chunk boundary, and a
chunk of the old layout (5 bytes) that is no multiple of the current one; three
bots are one that holds the id, one that can forward and one that can do
neither. Two requests are what every check-then-write race of `Accounts` needs,
and they include two administrators who revoke each other. What the proofs below
cover holds for all values.

**Symmetry.** Chunks in `upload_safety`, requests in `accounts`: no module tells these members apart. Runs with fairness use none.

**Deadlock.** `ChunkUpload` and `OrderedJobs` have an explicit stuttering step
for the finished call and are checked for deadlock, like `WorkerScheduler` and
`Accounts`, which never stop. The other runs rest when all requests are over.

**Fairness.** `ChunkUpload`: every goroutine that can run does, Telegram and
database calls return (the HTTP client and pgx have timeouts). The source owes
nothing while the context lives, since a browser may stall; a cancelled context
closes the reader (`closeOnCancel`), so only then does reading have to go on.
`FileCatalog`: the database answers and breaks deadlocks, and a cancelled upload
fails; nobody has to send a chunk, and deletes, moves and settling cancellations
owe nothing. `OrderedJobs`:
goroutines run, loads and the handler return. `WorkerScheduler`: goroutines,
statements, timers and the clock; nobody has to call again, so a single caller
may starve (a woken call competes with every new one) while another is served.
`StreamCache`: goroutines run and loads end. Calls and timeouts are bounded
there: new requests that take the lead and are dropped, or a timeout after every
load, can keep one request retrying for ever.
`UploadQueue`: goroutines and timers run, local files can be read; a browser may
stall, so a copy that waits for its source owes nothing. `RangeReads`: the
handler runs and calls return, with an error if need be; nobody has to cancel.
`DownloadTrackers`: a handler whose service returned runs on, timers fire,
streams poll; nobody has to start, finish, drop or cancel a download.
`HlsSessions`: requests poll, goroutines and header loads end, a waiter whose
process is done takes that case of its `select` at last (strong fairness: Go
picks a ready case at random, and the ticker may win any number of times), a
killed ffmpeg exits and so does one whose source is refused; one that may read its source owes
nothing, nor does the timer of a wait. `Accounts` states safety only.

## Proofs

Checked by TLAPS for every value of the constants: sets of chunks, requests,
workers, users, sessions, limits and numbers of jobs. The only assumptions are
the named ones of the modules (finite non-empty sets, positive limits, a "none"
that is not a member). Each module proves an inductive invariant
(`IInv`) first, and its theorems follow from it.

`ChunkUploadProofs`: `TypeCorrect`, `NeverSendsOnClosedIntake`,
`StoredIsVerified`, `CleanupIsComplete`, `ReturnsAlone`, and
`ImplementsPromise` (for `~CommitReplyLost`; with a lost reply the stored file
does lose its chunks, which is a listed hazard).

- `StoredFileIsVerified` is not inductive: `stop` returns no error when the
  consumer quit early, so results may be neither verified nor queued. The
  strengthening is `Abandoned`: the consumer quits only in a cooldown, a cooldown
  needs a tripped breaker, a tripped breaker implies a chunk in the retry queue
  (a success closes the breaker, only a failure opens it and it queues its
  chunk), and a dead verifier context without a verification error means a
  cancelled request. So when results are abandoned, either the verifier reports
  an error or `retryFailedVerifications` waits for a cooldown and sees the
  cancellation there.
- `Quiet` says what has stopped in each phase, `StagesOK` ties stages of a chunk
  to its record and its verification, `AllSent` and `Rechecked` say what holds
  after reading and after verification, `Held` that the consumer has a chunk
  exactly when it should, `Outcome` what the result implies.
- One lemma per part of the program (`ReadingStep`, `SendingStep`, `ConsumeStep`,
  `VerifyStep`, `FinishingStep`, `CleanupStep`), each with a step per action.

`ChunkLoadProofs`, jobs: `JobsTypeCorrect`, `NobodyOutlives`,
`ImplementsInOrder`. While the group has no error every fed job is at a worker,
buffered, parked or behind `nextIndex` (`Complete`); at the return the
first three are empty but for parked results beyond `nextIndex`, and `NothingDue`
excludes a gap.

`WorkerSchedulerProofs`: `TypeCorrect`, `WaitingCountsAreExact`,
`BuffersAreBounded`, `OvershootsAreBounded`. The buffer's bound is not inductive, since a call already in
the loop does not look at the buffer again; `BufferRoom` reserves a batch less
one for every call in the loop, which entered it when the buffer was empty.
`OvershootBounded` is not inductive either: a statement counts committed rows and
its batch is recorded much later, so two callers can each find room for the same
tokens. `RoomFor` keeps room for the largest batch of everybody whose tokens are
selected and not recorded; or for all of them but one, whose own selection has
seen all the rows there are. The last one to select is always that one, and when
its insert ends, the room of the others is what the bound allows. That recording
a batch adds its tokens to the rows of a worker and that a tick only takes rows
away is proved by induction over the ages (`RowsRecorded`, `RowsAged`).

`ChunkLoadProofs`, cache: `TypeCorrect`, `ChunksAreLoadedOnce`,
`DroppedRequestsFailAlone`, `CacheStaysBounded`. `Leaders` ties each key in singleflight's group to
the one request that runs its load, `Waiters` those who joined to the key they
wait for, so a chunk cannot enter the cache while another request loads it
(`NotCached`). `Blame` follows a cancellation from the request that caused it:
whoever else holds it was told that the load was shared, and the retry asks for
exactly that. The list of the cache is treated by lemmas of its own
(`ToFrontKeepsList`, `TrimKeepsList`). `CacheBounded` is inductive beside these:
moving a chunk to the front keeps the bytes of the list or adds its own
(`BytesToFront`), trimming keeps those of its first entries (`BytesOfFirst`).

`TrackersProofs`, downloads: `DownloadTypeCorrect`, `ServedTracked`,
`DroppedResumable`, `LastWordTrue`. None is inductive alone. `Phases` says that a timer is set only
after the service has returned, so what it removes is never a tracker that is
served; `Places` that a registered tracker was not cancelled by a newer request;
`Flags` that the flags of a tracker tell how its service ended.

`TrackersProofs`, uploads: `TypeCorrect`, `StoredWhole`, `AliveTracked`.
`Conserved` counts blocks: unless the copy failed, what is left, what is in the pipe and what
was read make up the source, so a service that met the end has read it all.

`HlsSessionsProofs`: `ProcessesWatched` (with types), `SegmentsComing`,
`ProducedServed`. `Tracked` ties the map to the sessions: a session leaves the
map only in the step that cancels it, and only a cancelled one loses its
directory. `Asked` says what a waiting request knows of its session: that it was
started, and, past a look at the process, that it has ended; a request for which
the file vanished knows that somebody stopped it. `Kept` collects what every step
leaves of a session (its start index, what was written, a cancellation), which
is all that `RequestKeeps` needs to carry a request's knowledge over the step.

`AccountsProofs`: `Refers`, and the action properties `RightsKept`,
`LastAdminKept`, `RefusedOnlyByRace`, `WatchedKept`. `RowsRefer` are the foreign
keys; `Asked` says that a request that changes the access of somebody is about
another user than its caller, so a caller that is an administrator stays one;
`Passed` that a deletion has cut every row of the tables behind it that was
there when it began, so the row that stops it is younger.

`FileCatalogProofs`: `StoredStaysReadable`, `RowsGoForGood`. `Stage` says what the
step of an upload implies for its row, its messages and its cleanup: only a
failed upload cleans up, and only a successful one, or one whose COMMIT was not
answered, has a stored row. `Kept` follows the messages of an answered upload from
the first send: they stay until the upload fails or a delete that listed the file
takes them, and a delete asks only for what it has
listed (`DeletesListed`). `Held` are the row locks: the leftovers a transaction
holds are pending rows whose uploads hold no lock, and nobody else holds them, so
the row that `TxCommit` marks is still there. `RowsGoForGood` follows step by step
(`RowStep`).

`RangeReadsProofs`: `RangeIsServed`, `FallbackReaches`, `CopiesAreCleared`, for
every file of either layout, range, chunk size and margin, and any number of
bots. Two invariants are kept side by side, `FetchInv` of a fetch and `RangeInv`
of the read above it.

- `Attempts` charges every attempt at a readable chunk with a failed call, because
  of `Turns`: until a call fails, a worker that can read the chunk is still to be
  tried, or it is the one at work. So the fallback is exhausted only by failures.
  `Copies` counts a copy as a fault from the call that loses it.
- `Trusted` says what the reader knows of its position. Either `offset` is where
  the next chunk starts, and what was written is the range up to it; or the window
  was guessed from the current chunk size for a file of the old layout, and then
  nothing was written and the check is still to come. `MistakeIsNoticed` is the
  arithmetic of `checkChunkLayout`: in the second case the first chunk that arrives
  never fits the guess, whatever the chunk size, the margin and the overshoot of
  the stored size, unless it is the last chunk of a file whose size was computed
  (`Misread`). `StartsAdd` and `UniformStarts` are inductions over the chunks.

Assumptions beyond sets and limits: `FilesAssumption` (the chunks of a file have
one of the two layouts; a stored size, if there is one, exceeds the real one by
less than the margin) and
`RequestsAssumption` of `RangeReads` (bots in the channel are workers of the
storage), and `CatalogAssumption` of `FileCatalog` (finitely many uploads; a
directory is no path of a file).

Sums are recursive functions over chunks, ages or entries of a list. That they
are defined and add up is proved from the least number at which they would not
(`LeastMember`, `UpTo`), since the library's induction theorems take an operator
as a parameter.

Every invariant and every action property of the passing runs is a theorem. Model-checked
only: the liveness properties (`UploadEnds`, `UploadsEnd`, `UploadsDrain`,
`CallReturns`, `CallsReturn`, `RequestEnds`, `NothingLingers`, `NothingIsLeft`,
`WaitersLearn`), because fairness and ENABLED are beyond the prover.

## What disagrees with expectations

The models reach these situations, and the properties are stated so that they
say what the code does keep:

- An upload attempt that times out after Telegram stored the message is retried;
  the first copy stays in the channel and nobody knows it (`ChunkUpload`,
  `stray`). Likewise a forwarded copy whose deletion fails (`ChunkFetch`).
- A reply to COMMIT that is lost makes `Upload` report a failure and delete the
  messages of a file that is stored (`CommitReplyLost` of `ChunkUpload` and
  `FileCatalog`).
- A cancellation that arrives late removes a file that has just been stored; the
  settle delay is no synchronisation (`FileCatalog`).
- An unforced delete lists, deletes messages and then deletes rows by path, so
  a file that was committed or moved there in between loses its row but keeps
  its messages; one that fails midway leaves a row without some of them.
- Two uploads can store two files under one path: the schema has no unique index
  on `(storage_id, path)`, and `GetByPath` returns any of them. The paths of
  folder operations are `LIKE` patterns without escaping (not modelled).
- A file without a stored size gets one from the *current* chunk size
  (`ExactFileSize`, `service/chunk_downloader.go:261`), also when it was uploaded
  with the old layout. The size is then too small: the end of the file is out of
  reach, and a suffix range counts from the wrong end. And a range that starts at
  the last chunk, where the current size would have it, passes `checkChunkLayout`
  and delivers bytes from another place, although the comment at `:326` says such
  chunks fail with a mismatch. `reads_layout` finds it with chunks of 5, 5 and 1
  bytes, a current size of 3 and byte 6, which is answered with byte 10.
- A server that starts again removes the directories of the sessions before it,
  but not for certain those an ffmpeg that outlived it goes on filling
  (`removeStaleSessionDirs` ignores the errors): they stay until the next start.
- A storage whose creator's grant fails has no administrator, and its channel is
  taken; an account that was deleted can still create one with its token.
- Two administrators can revoke each other, and deleting an account takes the
  last administrator of a storage with it (the two exceptions in
  `LastAdminStays`).
- Deleting a storage turns its dedicated workers into workers of every storage.

## Not modelled

- Cipher, media parsing (`media/`), tokens and passwords, configuration: pure
  functions of their input, with ordinary tests.
- Playlist text and the arguments of ffmpeg (`hls.go`), `delete_progress_registry.go`
  (counters for display), listing, search, folders and archive downloads of the
  file service: they read, or format, and change nothing others rely on.
- `HLSService.Close`, which only tests call.
- The fallback order of workers when chunks are deleted: it decides only whether
  a deletion succeeds, which is free in the models.
- The web interface and the deployment files.

## Plan

1. `WorkerScheduler` composed with the worker rows of `Accounts`: tokens of
   workers that were deleted or moved.
2. The composition of `HlsSessions` and `RangeReads` over the loopback URL.
3. Listing and archive downloads over a changing catalog; server shutdown with
   background uploads.
4. Proofs of what liveness rests on and the prover can reach: that no reachable
   state of an upload, a read or a call is stuck, as invariants about the guards.
