----------------------------- MODULE ChunkFetch -----------------------------
(***************************************************************************)
(* One chunk read from Telegram: the attempts and the fallback bots of     *)
(* service/chunk_downloader.go and the calls of telegram/client.go under   *)
(* them, each retried by doWithRetry.                                      *)
(*                                                                         *)
(* A Telegram file id belongs to the bot that was given it, so an id is a  *)
(* bot, or Lost when that bot is no longer one of the storage.  A bot      *)
(* without a usable id forwards the message inside the channel, takes the  *)
(* id of the copy and deletes the copy.  A call can fail although Telegram *)
(* has done what it asks.  WorkerScheduler says which bot GetToken gives   *)
(* and when, OrderedJobs how several chunks are fetched at once.           *)
(***************************************************************************)
EXTENDS Naturals, FiniteSets

CONSTANTS
  Chunks,       \* the chunks of a file
  Bots,         \* the workers ListTokensByStorage returns
  Lost,         \* the id of a bot that is gone
  MaxRetries,   \* retries of one call
  MaxAttempts   \* attempts at one chunk

ASSUME FetchAssumption ==
  /\ Lost \notin Bots /\ Bots # {}
  /\ MaxRetries \in Nat /\ MaxAttempts \in Nat \ {0}

VARIABLES
  fileId,    \* telegram_file_id of each chunk
  recorded,  \* the chunks with a message id, which old rows lack
  members,   \* the bots that can see the channel
  chunk,     \* the chunk being fetched, or fetched last
  pc,        \* where the fetch is
  bot, id,   \* the worker in use and the file id it asks for
  resolved,  \* that id comes from a copy
  falling,   \* the fetch is among the fallback workers
  todo,      \* the workers it has not fallen back to
  attempt, tries,
  result,    \* what the last fetch returned
  live,      \* the context of the request is not cancelled
  copy,      \* the copy to delete is in the channel
  strays,    \* copies nobody will delete
  hurt,      \* the calls that failed in this fetch
  faults,    \* the calls that failed in all
  budget     \* bound on the calls that fail

chatVars  == <<recorded, members>>
botVars   == <<bot, id, resolved>>
loopVars  == <<falling, todo, attempt>>
copyVars  == <<copy, strays>>
faultVars == <<hurt, faults, budget>>
fetchVars == <<fileId, chatVars, chunk, pc, botVars, loopVars, tries, result, live, copyVars,
               faultVars>>

Calls  == {"getFile", "file", "forward", "unforward"}
Places == Calls \cup {"idle", "token", "list", "save", "backoff"}

\* A chat is what is stored of the chunks and what the bots may do.
FetchInit(chat) ==
  /\ fileId = chat.ids /\ recorded = chat.recorded /\ members = chat.members
  /\ chunk = CHOOSE c \in Chunks : TRUE
  /\ pc = "idle" /\ result = "none"
  /\ bot = Lost /\ id = Lost
  /\ todo = {}
  /\ attempt = 0 /\ tries = 0
  /\ live = TRUE
  /\ resolved = FALSE /\ falling = FALSE /\ copy = FALSE
  /\ strays = 0 /\ hurt = 0 /\ faults = 0

----------------------------------------------------------------------------
(* The ends of a fetch and of a worker's turn.                             *)

Returns(r) == pc' = "idle" /\ result' = r /\ UNCHANGED <<botVars, loopVars, tries>>

\* downloadChunkWithRetry after an error.
AttemptFails ==
  IF attempt = MaxAttempts
  THEN Returns("error")
  ELSE pc' = "backoff" /\ UNCHANGED <<botVars, loopVars, tries, result>>

\* downloadChunkWithWorker begins with the stored id.
Tries(b) ==
  /\ bot' = b /\ id' = fileId[chunk]
  /\ resolved' = FALSE
  /\ tries' = 0
  /\ pc' = "getFile"
  /\ UNCHANGED result

\* The next of the other workers, or the attempt ends with the last error.
FallsBack(rest) ==
  IF rest = {}
  THEN AttemptFails
  ELSE \E b \in rest :
         /\ Tries(b)
         /\ todo' = rest \ {b}
         /\ falling' = TRUE
         /\ UNCHANGED attempt

\* Fault: the loop over the other workers ends at the first that fails.
FirstFallbackDecides(getFileFailure) ==
  IF ~falling /\ getFileFailure
  THEN pc' = "list" /\ UNCHANGED <<botVars, loopVars, tries, result>>
  ELSE AttemptFails

\* downloadChunk after a worker's error: only one about the file id makes it
\* fall back, and then every worker has its turn.
WorkerFails(getFileFailure) ==
  CASE falling                    -> FallsBack(todo)
    [] ~falling /\ getFileFailure -> pc' = "list" /\ UNCHANGED <<botVars, loopVars, tries, result>>
    [] OTHER                      -> AttemptFails

\* One more call has failed.
Fails ==
  /\ faults < budget
  /\ faults' = faults + 1
  /\ hurt' = hurt + 1
  /\ UNCHANGED budget

----------------------------------------------------------------------------
(* The steps of a fetch.                                                   *)

Fetch(c) ==
  /\ pc = "idle"
  /\ chunk' = c
  /\ pc' = "token"
  /\ attempt' = 1
  /\ result' = "none"
  /\ hurt' = 0
  /\ falling' = FALSE /\ todo' = {}
  /\ UNCHANGED <<fileId, chatVars, botVars, tries, live, copyVars, faults, budget>>

TokenGiven ==
  /\ pc = "token" /\ live
  /\ \E b \in Bots : Tries(b) /\ todo' = Bots \ {b}
  /\ falling' = FALSE
  /\ UNCHANGED <<fileId, chatVars, chunk, attempt, live, copyVars, faultVars>>

\* The queries of GetToken and ListTokensByStorage.
QueryFails ==
  /\ pc \in {"token", "list"} /\ live
  /\ Fails /\ AttemptFails
  /\ UNCHANGED <<fileId, chatVars, chunk, live, copyVars>>

WorkersListed ==
  /\ pc = "list" /\ live
  /\ FallsBack(todo)
  /\ UNCHANGED <<fileId, chatVars, chunk, live, copyVars, faultVars>>

\* Fault: the attempts are not counted.
AttemptsForEver ==
  /\ pc = "backoff" /\ live
  /\ UNCHANGED attempt
  /\ pc' = "token"
  /\ UNCHANGED <<fileId, chatVars, chunk, botVars, falling, todo, tries, result, live, copyVars,
                 faultVars>>

BackedOff ==
  /\ pc = "backoff" /\ live
  /\ attempt' = attempt + 1
  /\ pc' = "token"
  /\ UNCHANGED <<fileId, chatVars, chunk, botVars, falling, todo, tries, result, live, copyVars,
                 faultVars>>

\* The next call of a worker's turn.
Calling(place) == pc' = place /\ tries' = 0 /\ UNCHANGED <<loopVars, result>>

GetFileAnswered ==
  /\ pc = "getFile" /\ live
  /\ \/ id = bot /\ Calling("file") /\ UNCHANGED botVars
     \/ id # bot /\ ~resolved /\ chunk \in recorded /\ Calling("forward") /\ UNCHANGED botVars
     \/ id # bot /\ (resolved \/ chunk \notin recorded) /\ WorkerFails(TRUE)
  /\ UNCHANGED <<fileId, chatVars, chunk, live, copyVars, faultVars>>

\* Fault: the copy stays in the channel.
CopyIsForgotten ==
  /\ pc = "forward" /\ live
  /\ \/ /\ bot \in members
        /\ id' = bot /\ resolved' = TRUE
        /\ Calling("getFile") /\ strays' = strays + 1
        /\ UNCHANGED bot
     \/ bot \notin members /\ WorkerFails(TRUE) /\ UNCHANGED strays
  /\ UNCHANGED <<fileId, chatVars, chunk, live, copy, faultVars>>

\* forwardMessage: a copy and its id, or a refusal, which counts as a failure
\* of the file id.
ForwardAnswered ==
  /\ pc = "forward" /\ live
  /\ \/ bot \in members /\ id' = bot /\ copy' = TRUE /\ Calling("unforward")
        /\ UNCHANGED <<bot, resolved>>
     \/ bot \notin members /\ WorkerFails(TRUE) /\ UNCHANGED copy
  /\ UNCHANGED <<fileId, chatVars, chunk, live, strays, faultVars>>

\* deleteMessage: done, or there was nothing left to delete.
UnforwardAnswered ==
  /\ pc = "unforward" /\ live
  /\ copy' = FALSE
  /\ resolved' = TRUE
  /\ Calling("getFile")
  /\ UNCHANGED <<fileId, chatVars, chunk, bot, id, live, strays, faultVars>>

FileAnswered ==
  /\ pc = "file" /\ live
  /\ IF resolved /\ id # fileId[chunk]
     THEN Calling("save") /\ UNCHANGED botVars
     ELSE Returns("data")
  /\ UNCHANGED <<fileId, chatVars, chunk, live, copyVars, faultVars>>

\* UpdateChunkTelegramFileID; its failure, by a cancellation too, is only logged.
Saved ==
  /\ pc = "save"
  /\ \/ live /\ fileId' = [fileId EXCEPT ![chunk] = id] /\ UNCHANGED faultVars
     \/ live /\ Fails /\ UNCHANGED fileId
     \/ ~live /\ UNCHANGED <<fileId, faultVars>>
  /\ Returns("data")
  /\ UNCHANGED <<chatVars, chunk, live, copyVars>>

----------------------------------------------------------------------------
(* Calls that fail.                                                        *)

\* What Telegram may have done in a call whose answer is lost.
PerhapsDone ==
  \/ UNCHANGED copyVars
  \/ pc = "forward" /\ bot \in members /\ strays' = strays + 1 /\ UNCHANGED copy
  \/ pc = "unforward" /\ copy /\ copy' = FALSE /\ UNCHANGED strays

\* doWithRetry: a transport error, a truncated body or a 429.
CallRetried ==
  /\ pc \in Calls /\ live
  /\ tries < MaxRetries
  /\ Fails /\ PerhapsDone
  /\ tries' = tries + 1
  /\ UNCHANGED <<fileId, chatVars, chunk, pc, botVars, loopVars, result, live>>

\* The last try, an error doWithRetry does not retry, or a status that is not OK
\* of the file itself.  An error of forwardMessage is wrapped as one of the file
\* id; one of deleteMessage is only logged.
CallGivesUp ==
  /\ pc \in Calls /\ live /\ Fails
  /\ \/ pc = "forward" /\ PerhapsDone /\ WorkerFails(TRUE)
     \/ pc \in {"getFile", "file"} /\ UNCHANGED copyVars /\ WorkerFails(FALSE)
     \/ /\ pc = "unforward"
        /\ copy' = FALSE
        /\ strays' \in {strays, strays + (IF copy THEN 1 ELSE 0)}
        /\ resolved' = TRUE
        /\ Calling("getFile")
        /\ UNCHANGED <<bot, id>>
  /\ UNCHANGED <<fileId, chatVars, chunk, live>>

\* The request is gone: a player that seeks, or closes.
Cancelled ==
  /\ live /\ live' = FALSE
  /\ UNCHANGED <<fileId, chatVars, chunk, pc, botVars, loopVars, tries, result, copyVars,
                 faultVars>>

\* Every call, query and wait returns the error of the context; the call under
\* way may have been served, and the copy is not deleted any more.
Aborted ==
  /\ pc \in Places \ {"idle", "save"} /\ ~live
  /\ \/ pc = "unforward" /\ copy' = FALSE
        /\ strays' \in {strays, strays + (IF copy THEN 1 ELSE 0)}
     \/ pc = "forward" /\ PerhapsDone
     \/ pc \notin {"forward", "unforward"} /\ UNCHANGED copyVars
  /\ Returns("cancelled")
  /\ UNCHANGED <<fileId, chatVars, chunk, live, faultVars>>

FetchStep ==
  \/ TokenGiven \/ QueryFails \/ WorkersListed \/ BackedOff
  \/ GetFileAnswered \/ ForwardAnswered \/ UnforwardAnswered \/ FileAnswered \/ Saved
  \/ CallRetried \/ CallGivesUp \/ Aborted

----------------------------------------------------------------------------
(* Properties.                                                             *)

\* Some worker of the storage holds the stored id, or can make one of its own.
Readable(c) == fileId[c] \in Bots \/ (c \in recorded /\ members # {})

\* A chunk that some worker can read is given up only after a failed call in
\* each of the attempts (downloadChunk, downloadChunkWithRetry): whichever
\* workers the scheduler gives, the fallback reaches the one that can.
ReadableIsRead == result = "error" /\ Readable(chunk) => hurt >= MaxAttempts

\* A copy stays in the channel only by a failed call or by the cancellation
\* (ResolveFileIDByMessage), and none is on its way when the fetch is over.
StraysAreFaults ==
  /\ strays <= faults + (IF live THEN 0 ELSE 1)
  /\ copy => pc = "unforward"
=============================================================================
