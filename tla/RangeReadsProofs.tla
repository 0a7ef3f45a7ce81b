-------------------------- MODULE RangeReadsProofs --------------------------
(***************************************************************************)
(* The client receives the bytes of its range and no others, for every     *)
(* file of either layout, every range, chunk size and margin, except where *)
(* the size was computed for the wrong layout and the range begins in the  *)
(* last chunk (Misread); and a chunk is given up, or a copy left in the    *)
(* channel, only through failed calls.                                     *)
(*                                                                         *)
(* The reader believes that its next chunk starts at offset.  What holds   *)
(* it together is Trusted: either offset is where the chunk does start,    *)
(* and what was written is the range up to it; or the layout is still to   *)
(* be checked, is not the current one, and nothing was written.  In the    *)
(* second case the first chunk always fails the check, because it is not   *)
(* the last one or its size is a stored one.                               *)
(***************************************************************************)
EXTENDS RangeReads, SequenceTheorems, WellFoundedInduction, TLAPS

----------------------------------------------------------------------------
(* The inductive invariant of a fetch.                                     *)

\* Worker b can read the chunk without a call that fails.
MayRead(b) == fileId[chunk] = b \/ (chunk \in recorded /\ b \in members)

InAttempt == Calls \cup {"token", "list", "backoff"}

FetchTypes ==
  /\ pc \in Places
  /\ strays \in Nat /\ faults \in Nat /\ hurt \in Nat /\ attempt \in Nat
  /\ live \in BOOLEAN /\ falling \in BOOLEAN /\ resolved \in BOOLEAN /\ copy \in BOOLEAN
  /\ members \subseteq Bots

\* A readable chunk costs every attempt a failed call.
Attempts ==
  /\ pc \in InAttempt => attempt \in 1..MaxAttempts
  /\ pc \in InAttempt /\ Readable(chunk) => hurt >= attempt - 1
  /\ pc = "backoff" => attempt < MaxAttempts
  /\ pc = "backoff" /\ Readable(chunk) => hurt >= attempt
  /\ result = "error" => pc = "idle"
  /\ ReadableIsRead

\* Until a call fails in this attempt, the workers that may read the chunk are
\* those it has not turned to, and the one at work.
Turns ==
  /\ resolved /\ pc \in Calls => id = bot
  /\ pc = "unforward" => id = bot
  /\ pc = "forward" => id # bot
  /\ ~resolved /\ pc \in {"getFile", "file", "forward"} => id = fileId[chunk]
  /\ pc \in Calls \cup {"list"} /\ hurt < attempt =>
       \A b \in Bots : MayRead(b) => b \in todo \/ (b = bot /\ pc \in Calls)

Copies ==
  /\ StraysAreFaults
  /\ pc \in Calls => strays <= faults

FetchInv == FetchTypes /\ Attempts /\ Turns /\ Copies

----------------------------------------------------------------------------
(* The inductive invariant of a read.                                      *)

\* The range up to some byte, less start, is as long as this.
Covered(byte) == Greater(Lesser(end + 1, byte) - start, 0)

RangeTypes ==
  /\ request \in Requests
  /\ step \in {"idle", "sizing", "sized", "refused", "reading", "done", "failed"}
  /\ total \in Nat /\ start \in Nat /\ end \in Nat
  /\ at \in Nat \ {0} /\ last \in Nat \ {0} /\ offset \in Nat
  /\ checkLayout \in BOOLEAN
  /\ out \in Seq(Nat)

\* The size of the file is computed from chunks that do not have the current size.
Guessed == file.size = 0 /\ ~Current(file)

\* A guessed size apart, the size never falls short, and overshoots by less than
\* the margin unless it is that of the chunks.
SizeKnown ==
  /\ step = "sizing" => file.size = 0
  /\ step \in {"sized", "reading"} =>
       /\ total > 0
       /\ \/ Guessed
          \/ total = Real(file) \/ total - Real(file) \in 0..(UploadChunkSafetyMargin - 1)

Window ==
  step = "reading" =>
    /\ at <= last /\ last <= Count
    /\ last = Count \/ end < last * UploadChunkSize

Trusted ==
  step = "reading" /\ ~Misread =>
    \/ /\ offset = Base(file, at)
       /\ Len(out) = Covered(offset)
    \/ /\ checkLayout /\ ~Current(file)
       /\ at > 1 /\ offset = (at - 1) * UploadChunkSize
       /\ file.size = 0 => at # Count
       /\ out = <<>>

Prefix == ~Misread => \A k \in DOMAIN out : out[k] = start + k - 1

RangeInv ==
  /\ RangeTypes /\ SizeKnown /\ Window /\ Trusted /\ Prefix
  /\ step \in {"idle", "sizing", "sized"} => out = <<>>
  /\ step = "done" /\ ~Misread => Len(out) = Covered(Real(file))

IInv == FetchInv /\ RangeInv

----------------------------------------------------------------------------
(* Fetches.                                                                *)

\* What a step leaves alone that does not change what is stored.
Kept == UNCHANGED <<fileId, recorded, members, chunk, live>>

\* What the end of an attempt or of a worker's turn establishes.
Settled == FetchTypes' /\ Attempts' /\ Turns' /\ pc' \in {"idle", "backoff", "list", "getFile"}

\* A readable chunk is one that some worker may read.
LEMMA ReadableByWorker ==
  ASSUME FetchTypes, Readable(chunk)
  PROVE  \E b \in Bots : MayRead(b)
BY DEF FetchTypes, Readable, MayRead

\* An attempt at a readable chunk ends after a failed call.
LEMMA AttemptEnds ==
  ASSUME FetchInv, Kept, pc \in InAttempt, AttemptFails,
         UNCHANGED falling, resolved' \in BOOLEAN, copy' \in BOOLEAN,
         strays' \in Nat, faults' \in Nat, hurt' \in Nat,
         Readable(chunk) => hurt' >= attempt
  PROVE  Settled
<1>1. Readable(chunk)' = Readable(chunk)
  BY DEF Readable, Kept
<1>2. attempt' = attempt /\ attempt \in 1..MaxAttempts /\ resolved' = resolved
  BY DEF AttemptFails, Returns, loopVars, botVars, FetchInv, Attempts
<1>3. CASE attempt = MaxAttempts
  <2>1. pc' = "idle" /\ result' = "error"
    BY <1>3 DEF AttemptFails, Returns
  <2>2. Readable(chunk)' => hurt' >= MaxAttempts
    BY <1>1, <1>3
  <2> QED BY <1>2, <2>1, <2>2 DEF Settled, FetchTypes, Attempts, Turns, FetchInv, Kept,
             InAttempt, Calls, Places, ReadableIsRead
<1>4. CASE attempt # MaxAttempts
  <2>1. pc' = "backoff" /\ result' = result /\ result # "error"
    BY <1>4 DEF AttemptFails, FetchInv, Attempts, InAttempt, Calls
  <2>2. attempt < MaxAttempts
    BY <1>2, <1>4, FetchAssumption
  <2> QED BY <1>1, <1>2, <2>1, <2>2 DEF Settled, FetchTypes, Attempts, Turns, FetchInv,
             Kept,
             InAttempt, Calls, Places, ReadableIsRead
<1> QED BY <1>3, <1>4

\* A worker's turn begins with the stored id.
LEMMA TurnBegins ==
  ASSUME FetchInv, Kept, NEW b, Tries(b), pc \in InAttempt, UNCHANGED attempt,
         falling' \in BOOLEAN, copy' \in BOOLEAN, strays' \in Nat, faults' \in Nat,
         hurt' \in Nat, Readable(chunk) => hurt' >= attempt - 1,
         hurt' < attempt => \A w \in Bots : MayRead(w) => w \in todo' \/ w = b
  PROVE  Settled
<1>1. Readable(chunk)' = Readable(chunk) /\ \A w \in Bots : MayRead(w)' = MayRead(w)
  BY DEF Readable, MayRead, Kept
<1>2. attempt \in 1..MaxAttempts /\ attempt' = attempt /\ result' # "error"
  BY DEF FetchInv, Attempts, Tries, InAttempt, Calls
<1>3. FetchTypes'
  BY <1>2 DEF FetchInv, FetchTypes, Kept, Tries, Places, Calls
<1>4. Attempts'
  BY <1>1, <1>2 DEF Attempts, Tries, ReadableIsRead
<1>5. Turns'
  BY <1>1, <1>2 DEF Turns, Tries, Kept, Calls
<1> QED BY <1>3, <1>4, <1>5 DEF Settled, Tries

\* The next of the other workers has its turn, or the attempt ends: with no
\* failed call only if none of them may read the chunk.
LEMMA FallsBackSettles ==
  ASSUME FetchInv, Kept, pc \in InAttempt, NEW rest, FallsBack(rest),
         resolved' \in BOOLEAN, copy' \in BOOLEAN,
         strays' \in Nat, faults' \in Nat, hurt' \in Nat, hurt' >= hurt,
         hurt' < attempt => \A b \in Bots : MayRead(b) => b \in rest
  PROVE  Settled
<1>1. attempt \in 1..MaxAttempts /\ hurt \in Nat
      /\ (Readable(chunk) => hurt >= attempt - 1)
  BY DEF FetchInv, FetchTypes, Attempts
<1>2. CASE rest = {}
  <2>1. Readable(chunk) => hurt' >= attempt
    BY <1>1, <1>2, ReadableByWorker DEF FetchInv
  <2>2. AttemptFails /\ UNCHANGED falling
    BY <1>2 DEF FallsBack, AttemptFails, Returns, loopVars
  <2> QED BY <2>1, <2>2, AttemptEnds
<1>3. CASE rest # {}
  <2>1. PICK b \in rest : Tries(b) /\ todo' = rest \ {b} /\ falling' = TRUE /\ UNCHANGED attempt
    BY <1>3 DEF FallsBack
  <2>2. hurt' < attempt => \A w \in Bots : MayRead(w) => w \in todo' \/ w = b
    BY <2>1
  <2>3. Readable(chunk) => hurt' >= attempt - 1
    BY <1>1
  <2> QED BY <2>1, <2>2, <2>3, TurnBegins
<1> QED BY <1>2, <1>3

\* A worker gives up after a failed call, or because it cannot read the chunk,
\* and then the others have their turns.
LEMMA WorkerFailsSettles ==
  ASSUME FetchInv, Kept, pc \in Calls, NEW idFailure \in BOOLEAN, WorkerFails(idFailure),
         copy' \in BOOLEAN, strays' \in Nat, faults' \in Nat, hurt' \in Nat, hurt' >= hurt,
         (Readable(chunk) => hurt' >= attempt) \/ (idFailure /\ ~MayRead(bot))
  PROVE  Settled
<1>1. pc \in InAttempt
  BY DEF InAttempt
<1>2. attempt \in 1..MaxAttempts /\ hurt \in Nat
      /\ (Readable(chunk) => hurt >= attempt - 1) /\ result # "error"
  BY <1>1 DEF FetchInv, FetchTypes, Attempts, Calls
<1>3. ASSUME hurt' < attempt, NEW b \in Bots, MayRead(b)
      PROVE  b \in todo
  <2>1. Readable(chunk)
    BY <1>3 DEF Readable, MayRead
  <2> QED BY <1>2, <1>3, <2>1 DEF FetchInv, Turns
<1>4. falling \in BOOLEAN /\ resolved \in BOOLEAN
  BY DEF FetchInv, FetchTypes
<1>5. CASE falling
  <2>1. FallsBack(todo)
    BY <1>5 DEF WorkerFails
  <2>2. resolved' \in BOOLEAN
    BY <1>4, <2>1 DEF FallsBack, AttemptFails, Returns, Tries, botVars
  <2> QED BY <1>1, <1>3, <2>1, <2>2, FallsBackSettles
<1>6. CASE ~falling /\ idFailure
  <2>1. pc' = "list" /\ UNCHANGED <<botVars, loopVars, tries, result>>
    BY <1>6 DEF WorkerFails
  <2>2. Readable(chunk)' = Readable(chunk) /\ \A w \in Bots : MayRead(w)' = MayRead(w)
    BY DEF Readable, MayRead, Kept
  <2>3. FetchTypes'
    BY <2>1 DEF FetchInv, FetchTypes, Kept, Places, botVars, loopVars
  <2>4. Attempts'
    BY <1>2, <2>1, <2>2 DEF Attempts, ReadableIsRead, loopVars
  <2>5. Turns'
    BY <1>3, <2>1, <2>2 DEF Turns, Calls, loopVars
  <2> QED BY <2>1, <2>3, <2>4, <2>5 DEF Settled
<1>7. CASE ~falling /\ ~idFailure
  <2>1. AttemptFails
    BY <1>7 DEF WorkerFails
  <2>2. UNCHANGED falling /\ resolved' \in BOOLEAN
    BY <1>4, <2>1 DEF AttemptFails, Returns, loopVars, botVars
  <2> QED BY <1>1, <1>7, <2>1, <2>2, AttemptEnds
<1> QED BY <1>4, <1>5, <1>6, <1>7

\* A refusal of the file id, or of the forwarding, ends the worker's turn.
LEMMA RefusalSettles ==
  ASSUME FetchInv, Kept, pc \in Calls, WorkerFails(TRUE),
         copy' \in BOOLEAN, strays' \in Nat, faults' \in Nat, hurt' \in Nat, hurt' >= hurt,
         (Readable(chunk) => hurt' >= attempt) \/ ~MayRead(bot)
  PROVE  Settled
<1>1. (Readable(chunk) => hurt' >= attempt) \/ (TRUE /\ ~MayRead(bot))
  OBVIOUS
<1>2. TRUE \in BOOLEAN
  OBVIOUS
<1> QED BY <1>1, <1>2, WorkerFailsSettles, Zenon

\* A call that fails ends the worker's turn.
LEMMA FailureSettles ==
  ASSUME FetchInv, Kept, pc \in Calls, WorkerFails(FALSE),
         copy' \in BOOLEAN, strays' \in Nat, faults' \in Nat, hurt' \in Nat, hurt' >= hurt,
         Readable(chunk) => hurt' >= attempt
  PROVE  Settled
<1>1. FALSE \in BOOLEAN
  OBVIOUS
<1> QED BY <1>1, WorkerFailsSettles, Zenon

\* A settled step that takes no copy with it keeps the invariant.
LEMMA SettledKeeps ==
  ASSUME FetchInv, Settled, live' = live, copy' = FALSE, strays' <= faults'
  PROVE  FetchInv'
<1>1. FetchTypes' /\ Attempts' /\ Turns' /\ (copy' => pc' = "unforward")
  BY DEF Settled
<1>2. strays' <= faults' + (IF live' THEN 0 ELSE 1)
  <2>1. strays' \in Nat /\ faults' \in Nat
    BY <1>1 DEF FetchTypes
  <2>2. (IF live' THEN 0 ELSE 1) \in {0, 1}
    BY Zenon
  <2>3. \A s, f \in Nat : \A allowed \in {0, 1} : s <= f => s <= f + allowed
    OBVIOUS
  <2> QED BY <2>1, <2>2, <2>3, Zenon
<1> QED BY <1>1, <1>2 DEF FetchInv, Copies, StraysAreFaults

\* There is a copy to delete only while it is being deleted.
LEMMA CopyOnlyUnforward ==
  ASSUME FetchInv, pc # "unforward"
  PROVE  copy = FALSE
BY DEF FetchInv, FetchTypes, Copies, StraysAreFaults

\* The scheduler's worker has the first turn of an attempt.
LEMMA TokenGivenKeeps == FetchInv /\ TokenGiven => FetchInv'
<1> SUFFICES ASSUME FetchInv, TokenGiven PROVE FetchInv'
  OBVIOUS
<1>1. PICK b \in Bots : Tries(b) /\ todo' = Bots \ {b}
  BY DEF TokenGiven
<1>2. /\ Kept /\ pc = "token" /\ pc \in InAttempt /\ live /\ live' = live
      /\ attempt' = attempt /\ copy' = copy /\ strays' = strays /\ faults' = faults
      /\ hurt' = hurt /\ falling' = FALSE
  BY DEF TokenGiven, Kept, InAttempt, chatVars, copyVars, faultVars
<1>3. /\ Readable(chunk) => hurt' >= attempt - 1
      /\ copy' = FALSE /\ strays \in Nat /\ faults \in Nat /\ strays' <= faults'
      /\ hurt' \in Nat
  BY <1>2, CopyOnlyUnforward DEF FetchInv, FetchTypes, Attempts, Copies, StraysAreFaults
<1>4. Settled
  BY <1>1, <1>2, <1>3, TurnBegins
<1> QED BY <1>2, <1>3, <1>4, SettledKeeps

\* A query that fails costs the attempt a failed call.
LEMMA QueryFailsKeeps == FetchInv /\ QueryFails => FetchInv'
<1> SUFFICES ASSUME FetchInv, QueryFails PROVE FetchInv'
  OBVIOUS
<1>1. /\ Kept /\ pc \in {"token", "list"} /\ live /\ live' = live
      /\ copy' = copy /\ strays' = strays
      /\ faults' = faults + 1 /\ hurt' = hurt + 1 /\ AttemptFails
  BY DEF QueryFails, Fails, Kept, chatVars, copyVars
<1>2. /\ hurt \in Nat /\ faults \in Nat /\ strays \in Nat /\ attempt \in Nat
      /\ (Readable(chunk) => hurt >= attempt - 1) /\ copy = FALSE /\ strays <= faults
  BY <1>1, CopyOnlyUnforward
     DEF FetchInv, FetchTypes, Attempts, InAttempt, Copies, StraysAreFaults
<1>3. /\ UNCHANGED falling /\ resolved' \in BOOLEAN /\ copy' \in BOOLEAN
      /\ strays' \in Nat /\ faults' \in Nat /\ hurt' \in Nat
      /\ (Readable(chunk) => hurt' >= attempt) /\ strays' <= faults' /\ copy' = FALSE
  BY <1>1, <1>2 DEF AttemptFails, Returns, loopVars, botVars, FetchInv, FetchTypes
<1>4. Settled
  BY <1>1, <1>3, AttemptEnds DEF InAttempt
<1> QED BY <1>1, <1>3, <1>4, SettledKeeps

\* The fallback begins with the workers that had no turn.
LEMMA WorkersListedKeeps == FetchInv /\ WorkersListed => FetchInv'
<1> SUFFICES ASSUME FetchInv, WorkersListed PROVE FetchInv'
  OBVIOUS
<1>1. /\ Kept /\ pc = "list" /\ live /\ FallsBack(todo)
      /\ live' = live /\ copy' = copy
      /\ strays' = strays /\ faults' = faults /\ hurt' = hurt
  BY DEF WorkersListed, Kept, chatVars, copyVars, faultVars
<1>2. /\ hurt \in Nat /\ faults \in Nat /\ strays \in Nat
      /\ copy = FALSE /\ strays <= faults
      /\ (hurt < attempt => \A b \in Bots : MayRead(b) => b \in todo)
  BY <1>1, CopyOnlyUnforward
     DEF FetchInv, FetchTypes, Copies, StraysAreFaults, Turns, Calls
<1>3. /\ resolved' \in BOOLEAN /\ copy' \in BOOLEAN
      /\ strays' \in Nat /\ faults' \in Nat /\ hurt' \in Nat /\ hurt' >= hurt
      /\ strays' <= faults' /\ copy' = FALSE
  <2>1. resolved' = resolved \/ resolved' = FALSE
    BY <1>1 DEF FallsBack, AttemptFails, Returns, Tries, botVars
  <2>2. resolved \in BOOLEAN
    BY DEF FetchInv, FetchTypes
  <2>3. copy' = FALSE
    BY <1>1, <1>2
  <2>4. resolved' \in BOOLEAN /\ copy' \in BOOLEAN
    BY <2>1, <2>2, <2>3
  <2> QED BY <1>1, <1>2, <2>3, <2>4
<1>4. Settled
  BY <1>1, <1>2, <1>3, FallsBackSettles DEF InAttempt
<1> QED BY <1>1, <1>3, <1>4, SettledKeeps

\* The next attempt begins after the failed call of the last one.
LEMMA BackedOffKeeps == FetchInv /\ BackedOff => FetchInv'
<1> SUFFICES ASSUME FetchInv, BackedOff PROVE FetchInv'
  OBVIOUS
<1>1. FetchTypes'
  BY DEF BackedOff, FetchInv, FetchTypes, Places, chatVars, botVars, copyVars, faultVars
<1>2. Attempts'
  BY FetchAssumption DEF BackedOff, FetchInv, FetchTypes, Attempts, InAttempt, Calls,
     Readable,
     ReadableIsRead, chatVars, faultVars
<1>3. Turns' /\ Copies'
  BY DEF BackedOff, FetchInv, FetchTypes, Turns, Copies, StraysAreFaults, Calls, botVars,
     copyVars, faultVars
<1> QED BY <1>1, <1>2, <1>3 DEF FetchInv

\* getFile knows the id, or the worker needs one of its own, or its turn is over.
LEMMA GetFileAnsweredKeeps == FetchInv /\ GetFileAnswered => FetchInv'
<1> SUFFICES ASSUME FetchInv, GetFileAnswered PROVE FetchInv'
  OBVIOUS
<1>1. /\ Kept /\ pc = "getFile" /\ live /\ live' = live /\ copy' = copy
      /\ strays' = strays /\ faults' = faults /\ hurt' = hurt
  BY DEF GetFileAnswered, Kept, chatVars, copyVars, faultVars
<1>2. /\ hurt \in Nat /\ faults \in Nat /\ strays \in Nat
      /\ copy = FALSE /\ strays <= faults
  BY <1>1, CopyOnlyUnforward DEF FetchInv, FetchTypes, Copies, StraysAreFaults
<1>3. CASE pc' \in {"file", "forward"} /\ Calling(pc') /\ UNCHANGED botVars
           /\ (pc' = "forward" => id # bot)
  <2>1. Readable(chunk)' = Readable(chunk) /\ \A w \in Bots : MayRead(w)' = MayRead(w)
    BY <1>1 DEF Readable, MayRead, Kept
  <2>2. FetchTypes'
    BY <1>1, <1>3 DEF FetchInv, FetchTypes, Kept, Calling, Places, Calls, botVars, loopVars
  <2>3. Attempts'
    BY <1>1, <1>3, <2>1 DEF FetchInv, Attempts, ReadableIsRead, Calling, InAttempt, Calls,
       loopVars
  <2>4. Turns'
    BY <1>1, <1>3, <2>1 DEF FetchInv, Turns, Calling, Calls, Kept, botVars, loopVars
  <2>5. Copies'
    BY <1>1, <1>2 DEF Copies, StraysAreFaults
  <2> QED BY <2>2, <2>3, <2>4, <2>5 DEF FetchInv
<1>4. CASE id # bot /\ (resolved \/ chunk \notin recorded) /\ WorkerFails(TRUE)
  <2>1. ~MayRead(bot)
    BY <1>1, <1>4 DEF FetchInv, FetchTypes, Turns, MayRead, Calls
  <2>2. copy' = FALSE /\ copy' \in BOOLEAN /\ pc \in Calls
    BY <1>1, <1>2 DEF Calls
  <2>3. /\ strays' \in Nat /\ faults' \in Nat /\ hurt' \in Nat
        /\ hurt' >= hurt /\ strays' <= faults'
    BY <1>1, <1>2
  <2>4. Settled
    BY <1>1, <1>4, <2>1, <2>2, <2>3, RefusalSettles
  <2> QED BY <1>1, <2>2, <2>3, <2>4, SettledKeeps
<1> QED BY <1>3, <1>4 DEF GetFileAnswered, Calling

\* Forwarding gives a member of the channel an id and a copy to delete.
LEMMA ForwardAnsweredKeeps == FetchInv /\ ForwardAnswered => FetchInv'
<1> SUFFICES ASSUME FetchInv, ForwardAnswered PROVE FetchInv'
  OBVIOUS
<1>1. /\ Kept /\ pc = "forward" /\ live /\ live' = live
      /\ strays' = strays /\ faults' = faults /\ hurt' = hurt
  BY DEF ForwardAnswered, Kept, chatVars, copyVars, faultVars
<1>2. /\ hurt \in Nat /\ faults \in Nat /\ strays \in Nat
      /\ copy = FALSE /\ strays <= faults
  BY <1>1, CopyOnlyUnforward DEF FetchInv, FetchTypes, Copies, StraysAreFaults
<1>3. CASE id' = bot /\ copy' = TRUE /\ Calling("unforward") /\ UNCHANGED <<bot, resolved>>
  <2>1. Readable(chunk)' = Readable(chunk) /\ \A w \in Bots : MayRead(w)' = MayRead(w)
    BY <1>1 DEF Readable, MayRead, Kept
  <2>2. FetchTypes'
    BY <1>1, <1>3 DEF FetchInv, FetchTypes, Kept, Calling, Places, Calls, loopVars
  <2>3. Attempts'
    BY <1>1, <1>3, <2>1 DEF FetchInv, Attempts, ReadableIsRead, Calling, InAttempt, Calls,
       loopVars
  <2>4. Turns'
    BY <1>1, <1>3, <2>1 DEF FetchInv, Turns, Calling, Calls, Kept, loopVars
  <2>5. Copies'
    BY <1>1, <1>2, <1>3 DEF Copies, StraysAreFaults, Calling
  <2> QED BY <2>2, <2>3, <2>4, <2>5 DEF FetchInv
<1>4. CASE bot \notin members /\ WorkerFails(TRUE) /\ UNCHANGED copy
  <2>1. ~MayRead(bot)
    BY <1>1, <1>4, FetchAssumption DEF FetchInv, FetchTypes, Turns, MayRead, Calls
  <2>2. copy' = FALSE /\ copy' \in BOOLEAN /\ pc \in Calls
    BY <1>1, <1>2, <1>4 DEF Calls
  <2>3. /\ strays' \in Nat /\ faults' \in Nat /\ hurt' \in Nat
        /\ hurt' >= hurt /\ strays' <= faults'
    BY <1>1, <1>2
  <2>4. Settled
    BY <1>1, <1>4, <2>1, <2>2, <2>3, RefusalSettles
  <2> QED BY <1>1, <2>2, <2>3, <2>4, SettledKeeps
<1> QED BY <1>3, <1>4 DEF ForwardAnswered

\* The stored ids and who may read the chunk, when nothing is written to them.
LEMMA KeptReaders ==
  ASSUME Kept
  PROVE  Readable(chunk)' = Readable(chunk) /\ \A w \in Bots : MayRead(w)' = MayRead(w)
BY DEF Readable, MayRead, Kept

\* The copy is out of the channel, or in it for good, and its id is asked for.
LEMMA CopySettled ==
  ASSUME FetchInv, Kept, pc = "unforward", Calling("getFile"), resolved' = TRUE,
         UNCHANGED <<bot, id>>, copy' = FALSE,
         strays' \in Nat, faults' \in Nat, strays' <= faults', hurt' \in Nat, hurt' >= hurt
  PROVE  FetchInv'
<1>1. FetchTypes'
  BY DEF FetchInv, FetchTypes, Kept, Calling, Places, Calls, loopVars
<1>2. hurt \in Nat /\ attempt' = attempt /\ attempt \in Nat /\ pc \in Calls
  BY DEF FetchInv, FetchTypes, Calling, loopVars, Calls
<1>3. Attempts'
  BY <1>2, KeptReaders DEF FetchInv, FetchTypes, Attempts, ReadableIsRead, Calling,
     InAttempt,
     Calls, loopVars
<1>4. Turns'
  <2>1. \A b \in Bots : MayRead(b)' /\ hurt' < attempt => b \in todo' \/ b = bot'
    BY <1>2, KeptReaders DEF FetchInv, Turns, Calling, loopVars
  <2>2. id' = bot' /\ resolved' /\ pc' = "getFile"
    BY DEF FetchInv, Turns, Calling
  <2> QED BY <1>2, <2>1, <2>2 DEF Turns, Calls
<1>5. Settled /\ live' = live
  BY <1>1, <1>3, <1>4 DEF Settled, Calling, Kept
<1> QED BY <1>5, SettledKeeps

\* The copy is deleted once its id is known.
LEMMA UnforwardAnsweredKeeps == FetchInv /\ UnforwardAnswered => FetchInv'
<1> SUFFICES ASSUME FetchInv, UnforwardAnswered PROVE FetchInv'
  OBVIOUS
<1>1. /\ Kept /\ pc = "unforward" /\ Calling("getFile") /\ resolved' = TRUE
      /\ UNCHANGED <<bot, id>> /\ copy' = FALSE
      /\ strays' = strays /\ faults' = faults /\ hurt' = hurt
  BY DEF UnforwardAnswered, Kept, chatVars, faultVars
<1>2. /\ strays \in Nat /\ faults \in Nat /\ hurt \in Nat /\ strays <= faults
  BY <1>1 DEF FetchInv, FetchTypes, Copies, Calls
<1>3. strays' \in Nat /\ faults' \in Nat /\ strays' <= faults' /\ hurt' \in Nat /\ hurt' >= hurt
  BY <1>1, <1>2
<1> QED BY <1>1, <1>3, CopySettled

\* The fetch is over, and not with the error of its attempts.
LEMMA Over ==
  ASSUME FetchInv, UNCHANGED <<recorded, members, chunk, live>>, pc \in Places, NEW r,
         r \in {"data", "cancelled"}, Returns(r), copy' = FALSE,
         strays' \in Nat, faults' \in Nat, hurt' \in Nat,
         strays' <= faults' + (IF live THEN 0 ELSE 1)
  PROVE  FetchInv'
<1>1. FetchTypes'
  BY DEF FetchInv, FetchTypes, Returns, Places, Calls, loopVars, botVars
<1>2. Attempts'
  BY DEF FetchInv, Attempts, ReadableIsRead, Returns, InAttempt, Calls
<1>3. Turns' /\ Copies'
  BY DEF Turns, Copies, StraysAreFaults, Returns, Calls
<1> QED BY <1>1, <1>2, <1>3 DEF FetchInv

\* The bytes of the chunk end the fetch, unless a new id has to be saved first.
LEMMA FileAnsweredKeeps == FetchInv /\ FileAnswered => FetchInv'
<1> SUFFICES ASSUME FetchInv, FileAnswered PROVE FetchInv'
  OBVIOUS
<1>1. /\ Kept /\ pc = "file" /\ live /\ live' = live /\ copy' = copy
      /\ strays' = strays /\ faults' = faults /\ hurt' = hurt
  BY DEF FileAnswered, Kept, chatVars, copyVars, faultVars
<1>2. /\ hurt \in Nat /\ faults \in Nat /\ strays \in Nat
      /\ copy = FALSE /\ strays <= faults
  BY <1>1, CopyOnlyUnforward DEF FetchInv, FetchTypes, Copies, StraysAreFaults, Calls
<1>3. CASE Calling("save") /\ UNCHANGED botVars
  <2>1. FetchTypes'
    BY <1>1, <1>3 DEF FetchInv, FetchTypes, Kept, Calling, Places, Calls, botVars, loopVars
  <2>2. Attempts'
    BY <1>1, <1>3 DEF FetchInv, Attempts, ReadableIsRead, Calling, InAttempt, Calls
  <2>3. Turns' /\ Copies'
    BY <1>1, <1>2, <1>3 DEF Turns, Copies, StraysAreFaults, Calling, Calls
  <2> QED BY <2>1, <2>2, <2>3 DEF FetchInv
<1>4. CASE Returns("data")
  <2>1. strays' <= faults' + (IF live THEN 0 ELSE 1) /\ pc \in Places
    BY <1>1, <1>2 DEF Places, Calls
  <2>2. UNCHANGED <<recorded, members, chunk, live>> /\ copy' = FALSE
        /\ strays' \in Nat /\ faults' \in Nat /\ hurt' \in Nat
    BY <1>1, <1>2 DEF Kept
  <2> QED BY <1>4, <2>1, <2>2, Over
<1> QED BY <1>3, <1>4 DEF FileAnswered

\* Saving the id, or failing to, ends the fetch.
LEMMA SavedKeeps == FetchInv /\ Saved => FetchInv'
<1> SUFFICES ASSUME FetchInv, Saved PROVE FetchInv'
  OBVIOUS
<1>1. /\ UNCHANGED <<recorded, members, chunk, live>> /\ pc = "save" /\ Returns("data")
      /\ copy' = copy /\ strays' = strays /\ hurt' \in {hurt, hurt + 1}
      /\ faults' \in {faults, faults + 1}
  BY DEF Saved, Fails, chatVars, copyVars, faultVars
<1>2. /\ hurt \in Nat /\ faults \in Nat /\ strays \in Nat /\ copy = FALSE
      /\ strays <= faults + (IF live THEN 0 ELSE 1)
  BY <1>1, CopyOnlyUnforward DEF FetchInv, FetchTypes, Copies, StraysAreFaults
<1>3. strays' <= faults' + (IF live THEN 0 ELSE 1)
  <2>1. (IF live THEN 0 ELSE 1) \in {0, 1}
    BY Zenon
  <2>2. \A s, f \in Nat : \A g \in {f, f + 1} : \A n \in {0, 1} : s <= f + n => s <= g + n
    OBVIOUS
  <2> QED BY <1>1, <1>2, <2>1, <2>2, Zenon
<1>4. strays' \in Nat /\ faults' \in Nat /\ hurt' \in Nat /\ copy' = FALSE /\ pc \in Places
  BY <1>1, <1>2 DEF Places
<1> QED BY <1>1, <1>3, <1>4, Over

\* A cancelled fetch leaves a copy behind at most once, and is no error.
LEMMA AbortedKeeps == FetchInv /\ Aborted => FetchInv'
<1> SUFFICES ASSUME FetchInv, Aborted PROVE FetchInv'
  OBVIOUS
<1>1. /\ UNCHANGED <<recorded, members, chunk, live>> /\ ~live /\ Returns("cancelled")
      /\ hurt' = hurt /\ faults' = faults /\ pc \in Places
  BY DEF Aborted, chatVars, faultVars
<1>2. /\ hurt \in Nat /\ faults \in Nat /\ strays \in Nat
      /\ (pc \in Calls => strays <= faults) /\ strays <= faults + 1
  BY <1>1 DEF FetchInv, FetchTypes, Copies, StraysAreFaults
<1>3. copy' = FALSE
  <2>1. CASE pc = "unforward"
    BY <2>1 DEF Aborted
  <2>2. CASE pc # "unforward"
    BY <2>2, CopyOnlyUnforward DEF Aborted, PerhapsDone, copyVars
  <2> QED BY <2>1, <2>2
<1>4. strays' = strays \/ (pc \in Calls /\ strays' = strays + 1)
  <2>1. (IF copy THEN 1 ELSE 0) \in {0, 1}
    BY Zenon
  <2>2. strays' = strays \/ (pc \in Calls /\ strays' = strays + 1)
          \/ (pc \in Calls /\ strays' = strays + (IF copy THEN 1 ELSE 0))
    BY DEF Aborted, PerhapsDone, copyVars, Calls
  <2>3. \A n \in {0, 1} : strays + n = strays \/ strays + n = strays + 1
    BY <1>2
  <2> QED BY <2>1, <2>2, <2>3, Zenon
<1>5. strays' \in Nat /\ strays' <= faults' + 1
  BY <1>1, <1>2, <1>4
<1>6. strays' <= faults' + (IF live THEN 0 ELSE 1)
  BY <1>1, <1>5
<1> QED BY <1>1, <1>2, <1>3, <1>5, <1>6, Over

\* A call that fails and is retried may have been served, and counts as failed.
LEMMA CallRetriedKeeps == FetchInv /\ CallRetried => FetchInv'
<1> SUFFICES ASSUME FetchInv, CallRetried PROVE FetchInv'
  OBVIOUS
<1>1. /\ Kept /\ pc \in Calls /\ pc' = pc /\ live /\ live' = live
      /\ UNCHANGED <<botVars, loopVars, result>>
      /\ faults' = faults + 1 /\ hurt' = hurt + 1
  BY DEF CallRetried, Fails, Kept, chatVars
<1>2. /\ hurt \in Nat /\ faults \in Nat /\ strays \in Nat /\ strays <= faults
  BY <1>1 DEF FetchInv, FetchTypes, Copies
<1>3. strays' \in {strays, strays + 1} /\ (copy' = copy \/ copy' = FALSE)
  BY DEF CallRetried, PerhapsDone, copyVars
<1>4. strays' \in Nat /\ faults' \in Nat /\ hurt' \in Nat /\ strays' <= faults'
  BY <1>1, <1>2, <1>3
<1>5. copy' \in BOOLEAN /\ (copy' => pc' = "unforward")
  <2>1. copy \in BOOLEAN /\ (copy => pc = "unforward") /\ pc' = pc
    BY <1>1 DEF FetchInv, FetchTypes, Copies, StraysAreFaults
  <2>2. CASE copy' = copy
    BY <2>1, <2>2
  <2>3. CASE copy' = FALSE
    BY <2>3
  <2> QED BY <1>3, <2>2, <2>3
<1>6. FetchTypes'
  BY <1>1, <1>4, <1>5 DEF FetchInv, FetchTypes, Kept, Places, botVars, loopVars
<1>7. Attempts'
  BY <1>1, <1>2, KeptReaders
     DEF FetchInv, FetchTypes, Attempts, ReadableIsRead, InAttempt, Calls, loopVars
<1>8. Turns'
  BY <1>1, <1>2, KeptReaders
     DEF FetchInv, FetchTypes, Turns, Kept, Calls, botVars, loopVars
<1>9. Copies'
  BY <1>1, <1>4, <1>5 DEF Copies, StraysAreFaults
<1> QED BY <1>6, <1>7, <1>8, <1>9 DEF FetchInv

\* A call that is not retried ends the worker's turn, except that of deleteMessage.
LEMMA CallGivesUpKeeps == FetchInv /\ CallGivesUp => FetchInv'
<1> SUFFICES ASSUME FetchInv, CallGivesUp PROVE FetchInv'
  OBVIOUS
<1>1. /\ Kept /\ pc \in Calls /\ live /\ live' = live
      /\ faults' = faults + 1 /\ hurt' = hurt + 1
  BY DEF CallGivesUp, Fails, Kept, chatVars
<1>2. /\ hurt \in Nat /\ faults \in Nat /\ strays \in Nat /\ strays <= faults
      /\ attempt \in Nat /\ falling \in BOOLEAN
  BY <1>1 DEF FetchInv, FetchTypes, Copies
<1>3. faults' \in Nat /\ hurt' \in Nat /\ hurt' >= hurt
  BY <1>1, <1>2
<1>4. strays' \in {strays, strays + 1}
  <2>1. (IF copy THEN 1 ELSE 0) \in {0, 1}
    BY Zenon
  <2>2. \/ strays' = strays \/ strays' = strays + 1
        \/ strays' = strays + (IF copy THEN 1 ELSE 0)
    BY DEF CallGivesUp, PerhapsDone, copyVars
  <2>3. \A n \in {0, 1} : strays + n = strays \/ strays + n = strays + 1
    BY <1>2
  <2> QED BY <2>1, <2>2, <2>3, Zenon
<1>5. strays' \in Nat /\ strays' <= faults'
  BY <1>1, <1>2, <1>4
<1>6. CASE pc = "unforward"
  <2>1. copy' = FALSE /\ resolved' = TRUE /\ Calling("getFile") /\ UNCHANGED <<bot, id>>
    BY <1>6 DEF CallGivesUp
  <2> QED BY <1>1, <1>3, <1>5, <1>6, <2>1, CopySettled
<1>7. CASE pc # "unforward"
  <2>1. copy' = FALSE /\ copy' \in BOOLEAN
    BY <1>7, CopyOnlyUnforward DEF CallGivesUp, PerhapsDone, copyVars
  <2>2. Readable(chunk) => hurt' >= attempt
    BY <1>1, <1>2 DEF FetchInv, Attempts, InAttempt
  <2>3. CASE pc = "forward"
    <3>1. WorkerFails(TRUE)
      BY <2>3 DEF CallGivesUp
    <3>2. Settled
      BY <1>1, <1>3, <1>5, <2>1, <2>2, <3>1, RefusalSettles
    <3> QED BY <1>1, <1>5, <2>1, <3>2, SettledKeeps
  <2>4. CASE pc # "forward"
    <3>1. WorkerFails(FALSE)
      BY <1>7, <2>4 DEF CallGivesUp
    <3>2. Settled
      BY <1>1, <1>3, <1>5, <2>1, <2>2, <3>1, FailureSettles
    <3> QED BY <1>1, <1>5, <2>1, <3>2, SettledKeeps
  <2> QED BY <2>3, <2>4
<1> QED BY <1>6, <1>7

\* Every step of a fetch.
LEMMA FetchStepKeeps == FetchInv /\ FetchStep => FetchInv'
BY TokenGivenKeeps, QueryFailsKeeps, WorkersListedKeeps, BackedOffKeeps,
   GetFileAnsweredKeeps,
   ForwardAnsweredKeeps, UnforwardAnsweredKeeps, FileAnsweredKeeps, SavedKeeps,
   CallRetriedKeeps, CallGivesUpKeeps, AbortedKeeps
   DEF FetchStep

\* A fetch begins.
LEMMA FetchKeeps ==
  ASSUME FetchInv, NEW c, Fetch(c)
  PROVE  FetchInv'
<1>1. /\ pc = "idle" /\ pc' = "token" /\ attempt' = 1 /\ result' = "none" /\ hurt' = 0
      /\ falling' = FALSE /\ members' = members /\ resolved' = resolved
      /\ live' = live /\ copy' = copy /\ strays' = strays /\ faults' = faults
  BY DEF Fetch, chatVars, botVars, copyVars
<1>2. copy = FALSE
  BY <1>1, CopyOnlyUnforward
<1>3. FetchTypes'
  BY <1>1 DEF FetchInv, FetchTypes, Places
<1>4. Attempts'
  BY <1>1, FetchAssumption DEF Attempts, ReadableIsRead
<1>5. Turns' /\ Copies'
  BY <1>1, <1>2 DEF FetchInv, Turns, Copies, StraysAreFaults, Calls
<1> QED BY <1>3, <1>4, <1>5 DEF FetchInv

\* The caller goes away, or has taken the chunk.
LEMMA CancelledKeeps == FetchInv /\ Cancelled => FetchInv'
<1> SUFFICES ASSUME FetchInv, Cancelled PROVE FetchInv'
  OBVIOUS
<1>1. FetchTypes'
  BY DEF FetchInv, FetchTypes, Cancelled, chatVars, botVars, loopVars, copyVars, faultVars
<1>2. Attempts' /\ Turns'
  BY DEF FetchInv, Attempts, Turns, ReadableIsRead, Readable, MayRead, Cancelled, chatVars,
     botVars, loopVars, faultVars
<1>3. Copies'
  <2>1. live /\ ~live' /\ strays' = strays /\ faults' = faults /\ copy' = copy /\ pc' = pc
    BY DEF Cancelled, copyVars, faultVars
  <2>2. strays \in Nat /\ faults \in Nat /\ strays <= faults
        /\ (copy => pc = "unforward")
    BY <2>1 DEF FetchInv, FetchTypes, Copies, StraysAreFaults
  <2> QED BY <2>1, <2>2 DEF Copies, StraysAreFaults
<1> QED BY <1>1, <1>2, <1>3 DEF FetchInv

\* The caller takes the chunk that was fetched.
LEMMA ArrivesKeeps == FetchInv /\ ChunkArrives => FetchInv'
BY DEF FetchInv, FetchTypes, Attempts, Turns, Copies, StraysAreFaults, ReadableIsRead,
   Readable, MayRead, ChunkArrives, chatVars, botVars, loopVars, copyVars, faultVars

----------------------------------------------------------------------------
(* Where the chunks of a file start.                                       *)

\* A set of naturals that is not empty has a least member.
LEMMA LeastMember ==
  ASSUME NEW T \in SUBSET Nat, T # {}
  PROVE  \E m \in T : \A k \in T : m <= k
<1>1. PICK m \in T : \A k \in T : ~ (<<k, m>> \in OpToRel(<, Nat))
  BY WFMin, NatLessThanWellFounded
<1>2. ASSUME NEW k \in T, k < m PROVE FALSE
  <2>1. <<k, m>> \in OpToRel(<, Nat)
    BY <1>2 DEF OpToRel
  <2> QED BY <2>1, <1>1
<1> QED BY <1>2

\* Every file has chunks, each of some size.
LEMMA SizesAreNat ==
  ASSUME NEW f \in Files
  PROVE  /\ Len(f.sizes) \in Nat \ {0} /\ f.size \in Nat
         /\ \A c \in 1..Len(f.sizes) : f.sizes[c] \in Nat \ {0}
<1> DEFINE S == 1..(UploadChunkSize + UploadChunkSafetyMargin)
<1>1. f.sizes \in Seq(S) /\ f.sizes # <<>> /\ f.size \in Nat
  BY FilesAssumption
<1>2. S \subseteq Nat \ {0}
  BY ChunkSizeAssumption
<1> HIDE DEF S
<1>3. \A c \in 1..Len(f.sizes) : f.sizes[c] \in S
  BY <1>1
<1>4. Len(f.sizes) \in Nat /\ Len(f.sizes) # 0
  BY <1>1, EmptySeq
<1> QED BY <1>1, <1>2, <1>3, <1>4

\* The starts of the first n chunks add up, as far as they are computed.
Adds(s, f, n) ==
  /\ s \in [1..n -> Nat] /\ s[1] = 0
  /\ \A c \in 2..n : s[c] = s[c - 1] + f.sizes[c - 1]

\* There are such starts for every prefix of a file: a shortest one without
\* would be one chunk longer than one with.
LEMMA StartsExist ==
  ASSUME NEW f \in Files, NEW n \in 1..(Len(f.sizes) + 1)
  PROVE  \E s : Adds(s, f, n)
<1> DEFINE Bad == {k \in 1..(Len(f.sizes) + 1) : ~ \E s : Adds(s, f, k)}
<1>1. SUFFICES ASSUME Bad # {} PROVE FALSE
  OBVIOUS
<1>2. Bad \in SUBSET Nat
  BY SizesAreNat
<1>3. PICK m \in Bad : \A k \in Bad : m <= k
  <2> HIDE DEF Bad
  <2> QED BY <1>1, <1>2, LeastMember
<1>4. m \in 1..(Len(f.sizes) + 1) /\ ~ \E s : Adds(s, f, m)
  OBVIOUS
<1>5. CASE m = 1
  <2>1. Adds([c \in 1..1 |-> 0], f, 1)
    BY DEF Adds
  <2> QED BY <1>4, <1>5, <2>1
<1>6. CASE m # 1
  <2>1. m - 1 \in 1..(Len(f.sizes) + 1) /\ m - 1 \in 1..Len(f.sizes) /\ m \in Nat
    BY <1>4, <1>6, SizesAreNat
  <2>2. m - 1 \notin Bad
    BY <1>3, <2>1
  <2>3. PICK s : Adds(s, f, m - 1)
    BY <2>1, <2>2
  <2> DEFINE longer == [c \in 1..m |-> IF c = m THEN s[m - 1] + f.sizes[m - 1] ELSE s[c]]
  <2>4. f.sizes[m - 1] \in Nat /\ s[m - 1] \in Nat
    BY <2>1, <2>3, SizesAreNat DEF Adds
  <2>5. longer \in [1..m -> Nat]
    BY <2>1, <2>3, <2>4 DEF Adds
  <2>6. longer[1] = 0
    BY <1>6, <2>1, <2>3 DEF Adds
  <2>7. ASSUME NEW c \in 2..m PROVE longer[c] = longer[c - 1] + f.sizes[c - 1]
    <3>1. CASE c = m
      BY <2>1, <3>1
    <3>2. CASE c # m
      BY <2>1, <2>3, <3>2 DEF Adds
    <3> QED BY <3>1, <3>2
  <2>8. Adds(longer, f, m)
    <3> HIDE DEF longer
    <3> QED BY <2>5, <2>6, <2>7 DEF Adds
  <2> QED BY <1>4, <2>8
<1> QED BY <1>5, <1>6

\* Each chunk starts where the one before it ends.
LEMMA StartsAdd ==
  ASSUME NEW f \in Files
  PROVE  Adds(Starts(f), f, Len(f.sizes) + 1)
<1> DEFINE L == Len(f.sizes) + 1
           Eq(s) == s = [c \in 1..L |-> IF c = 1 THEN 0 ELSE s[c - 1] + f.sizes[c - 1]]
<1>1. L \in Nat /\ L \in 1..L /\ L >= 2
  BY SizesAreNat
<1>2. PICK s : Adds(s, f, L)
  BY <1>1, StartsExist
<1>3. Eq(s)
  <2>1. \A c \in 1..L : s[c] = IF c = 1 THEN 0 ELSE s[c - 1] + f.sizes[c - 1]
    BY <1>1, <1>2 DEF Adds
  <2> QED BY <1>2, <2>1 DEF Adds
<1>4. Eq(Starts(f))
  BY <1>3 DEF Starts
<1>5. \A c \in 1..L : Starts(f)[c] = IF c = 1 THEN 0 ELSE Starts(f)[c - 1] + f.sizes[c - 1]
  <2> HIDE DEF L
  <2> QED BY <1>4
<1>6. Starts(f) = s
  <2> DEFINE Bad == {c \in 1..L : Starts(f)[c] # s[c]}
  <2>1. SUFFICES ASSUME Bad # {} PROVE FALSE
    <3>1. DOMAIN Starts(f) = 1..L /\ Starts(f) = [c \in 1..L |-> Starts(f)[c]]
      BY <1>4
    <3>2. s = [c \in 1..L |-> s[c]]
      BY <1>2 DEF Adds
    <3> QED BY <3>1, <3>2
  <2>2. Bad \in SUBSET Nat
    BY <1>1
  <2>3. PICK m \in Bad : \A k \in Bad : m <= k
    <3> HIDE DEF Bad
    <3> QED BY <2>1, <2>2, LeastMember
  <2>4. m \in 1..L /\ m \in Nat /\ m # 1
    BY <1>1, <1>2, <1>5 DEF Adds
  <2>5. m - 1 \in 1..L /\ m - 1 \notin Bad
    BY <1>1, <2>3, <2>4
  <2>6. Starts(f)[m - 1] = s[m - 1]
    BY <2>5
  <2>7. Starts(f)[m] = s[m]
    <3>1. Starts(f)[m] = Starts(f)[m - 1] + f.sizes[m - 1]
      BY <1>5, <2>4
    <3>2. s[m] = s[m - 1] + f.sizes[m - 1]
      BY <1>1, <1>2, <2>4 DEF Adds
    <3> QED BY <2>6, <3>1, <3>2
  <2> QED BY <2>7
<1> QED BY <1>2, <1>6

\* The starts, as a read meets them.
LEMMA BaseAdds ==
  ASSUME NEW f \in Files
  PROVE  /\ Base(f, 1) = 0 /\ Real(f) \in Nat
         /\ \A c \in 1..(Len(f.sizes) + 1) : Base(f, c) \in Nat
         /\ \A c \in 1..Len(f.sizes) : Base(f, c + 1) = Base(f, c) + f.sizes[c]
<1>1. Adds(Starts(f), f, Len(f.sizes) + 1) /\ Len(f.sizes) \in Nat
  BY StartsAdd, SizesAreNat
<1>2. \A c \in 1..(Len(f.sizes) + 1) : Base(f, c) \in Nat
  BY <1>1 DEF Base, Adds
<1>3. ASSUME NEW c \in 1..Len(f.sizes)
      PROVE  Base(f, c + 1) = Base(f, c) + f.sizes[c]
  <2>1. c + 1 \in 2..(Len(f.sizes) + 1) /\ (c + 1) - 1 = c
    BY <1>1
  <2> QED BY <1>1, <2>1 DEF Base, Adds
<1> QED BY <1>1, <1>2, <1>3 DEF Base, Adds, Real

\* Chunks of one size, the last excepted, start at its multiples.
LEMMA UniformStarts ==
  ASSUME NEW f \in Files, NEW u \in Nat,
         \A c \in 1..(Len(f.sizes) - 1) : f.sizes[c] = u
  PROVE  \A c \in 1..Len(f.sizes) : Base(f, c) = (c - 1) * u
<1> DEFINE Bad == {c \in 1..Len(f.sizes) : Base(f, c) # (c - 1) * u}
<1>1. SUFFICES ASSUME Bad # {} PROVE FALSE
  OBVIOUS
<1>2. Bad \in SUBSET Nat
  BY SizesAreNat
<1>3. PICK m \in Bad : \A k \in Bad : m <= k
  <2> HIDE DEF Bad
  <2> QED BY <1>1, <1>2, LeastMember
<1>4. m \in 1..Len(f.sizes) /\ m \in Nat /\ Len(f.sizes) \in Nat
  BY SizesAreNat
<1>5. m # 1
  <2>1. (1 - 1) * u = 0
    OBVIOUS
  <2> QED BY <2>1, BaseAdds
<1>6. m - 1 \in 1..(Len(f.sizes) - 1) /\ m - 1 \in 1..Len(f.sizes) /\ m - 1 \notin Bad
  BY <1>3, <1>4, <1>5
<1>7. Base(f, m - 1) = ((m - 1) - 1) * u
  BY <1>6
<1>8. Base(f, (m - 1) + 1) = Base(f, m - 1) + u
  BY <1>6, BaseAdds
<1>9. ((m - 1) - 1) * u + u = (m - 1) * u /\ (m - 1) + 1 = m
  BY <1>4, <1>5
<1> QED BY <1>3, <1>7, <1>8, <1>9

\* In the current layout the chunk size says where a chunk starts, and in no
\* layout does a chunk start earlier.
LEMMA LayoutStarts ==
  ASSUME NEW f \in Files
  PROVE  /\ Current(f) => \A c \in 1..Len(f.sizes) : Base(f, c) = (c - 1) * UploadChunkSize
         /\ ~Current(f) => /\ \A c \in 1..(Len(f.sizes) - 1) :
                                f.sizes[c] = UploadChunkSize + UploadChunkSafetyMargin
                           /\ \A c \in 1..Len(f.sizes) :
                                Base(f, c) = (c - 1) * UploadChunkSize
                                               + (c - 1) * UploadChunkSafetyMargin
<1>1. UploadChunkSize \in Nat /\ UploadChunkSafetyMargin \in Nat
      /\ UploadChunkSize + UploadChunkSafetyMargin \in Nat
  BY ChunkSizeAssumption
<1>2. Current(f) => \A c \in 1..Len(f.sizes) : Base(f, c) = (c - 1) * UploadChunkSize
  BY <1>1, UniformStarts DEF Current
<1>3. ASSUME ~Current(f) PROVE Legacy(f)
  BY <1>3, FilesAssumption
<1>4. ASSUME Legacy(f), NEW c \in 1..Len(f.sizes)
      PROVE  Base(f, c) = (c - 1) * UploadChunkSize + (c - 1) * UploadChunkSafetyMargin
  <2>1. Base(f, c) = (c - 1) * (UploadChunkSize + UploadChunkSafetyMargin)
    BY <1>1, <1>4, UniformStarts DEF Legacy
  <2>2. c - 1 \in Nat
    BY SizesAreNat
  <2> QED BY <1>1, <2>1, <2>2
<1> QED BY <1>2, <1>3, <1>4 DEF Legacy

\* Multiplication by a number is monotone.
LEMMA TimesMonotone ==
  ASSUME NEW m \in Nat, NEW n \in Nat, NEW k \in Nat, m <= n
  PROVE  m * k \in Nat /\ n * k \in Nat /\ m * k <= n * k
<1>1. PICK d \in Nat : n = m + d
  <2>1. n - m \in Nat /\ n = m + (n - m)
    OBVIOUS
  <2> QED BY <2>1
<1>2. (m + d) * k = m * k + d * k
  OBVIOUS
<1>3. m * k \in Nat /\ d * k \in Nat
  OBVIOUS
<1> QED BY <1>1, <1>2, <1>3

\* In no layout does a chunk start before the current one says.
LEMMA NoEarlierStart ==
  ASSUME NEW f \in Files
  PROVE  /\ \A c \in 1..Len(f.sizes) : (c - 1) * UploadChunkSize <= Base(f, c)
         /\ Real(f) = Base(f, Len(f.sizes)) + f.sizes[Len(f.sizes)]
         /\ (Len(f.sizes) - 1) * UploadChunkSize < Real(f)
<1>1. UploadChunkSize \in Nat /\ UploadChunkSafetyMargin \in Nat
      /\ Len(f.sizes) \in Nat \ {0} /\ Len(f.sizes) \in 1..Len(f.sizes)
      /\ \A c \in 1..Len(f.sizes) : f.sizes[c] \in Nat \ {0} /\ Base(f, c) \in Nat
  BY ChunkSizeAssumption, SizesAreNat, BaseAdds
<1>2. ASSUME NEW c \in 1..Len(f.sizes)
      PROVE  (c - 1) * UploadChunkSize <= Base(f, c) /\ (c - 1) * UploadChunkSize \in Nat
  <2>1. c - 1 \in Nat /\ (c - 1) * UploadChunkSize \in Nat
        /\ (c - 1) * UploadChunkSafetyMargin \in Nat
    BY <1>1
  <2>2. CASE Current(f)
    BY <2>1, <2>2, LayoutStarts
  <2>3. CASE ~Current(f)
    BY <2>1, <2>3, LayoutStarts
  <2> QED BY <2>2, <2>3
<1>3. Real(f) = Base(f, Len(f.sizes)) + f.sizes[Len(f.sizes)]
  BY <1>1, BaseAdds DEF Real
<1> QED BY <1>1, <1>2, <1>3

\* The requested file.
LEMMA TheFile ==
  ASSUME request \in Requests
  PROVE  /\ file \in Files /\ Count \in Nat \ {0} /\ Count = Len(file.sizes)
         /\ UploadChunkSize \in Nat \ {0} /\ UploadChunkSafetyMargin \in Nat
BY RequestsAssumption, SizesAreNat, ChunkSizeAssumption DEF file, Count

\* A range that can be served is not empty and lies inside the size.
LEMMA RangeInside ==
  ASSUME request \in Requests, NEW size \in Nat \ {0}, Satisfiable(size)
  PROVE  /\ RangeStart(size) \in Nat /\ RangeEnd(size) \in Nat
         /\ RangeStart(size) <= RangeEnd(size) /\ RangeEnd(size) < size
<1>1. /\ None \notin Nat /\ request.first \in Nat \cup {None}
      /\ request.last \in Nat \cup {None} /\ (request.first # None \/ request.last # None)
  BY RequestsAssumption
<1>2. CASE Suffix
  <2>1. request.last \in Nat /\ request.last > 0
    BY <1>1, <1>2 DEF Suffix, Satisfiable
  <2>2. RangeStart(size) = size - Lesser(request.last, size) /\ RangeEnd(size) = size - 1
    BY <1>2 DEF RangeStart, RangeEnd
  <2> QED BY <2>1, <2>2 DEF Lesser
<1>3. CASE ~Suffix
  <2>1. request.first \in Nat /\ request.first < size /\ RangeStart(size) = request.first
        /\ (request.last # None => request.first <= request.last)
    BY <1>1, <1>3 DEF Suffix, Satisfiable, RangeStart
  <2>2. RangeEnd(size) = IF request.last = None THEN size - 1 ELSE Lesser(request.last, size - 1)
    BY <1>3 DEF RangeEnd
  <2> QED BY <1>1, <2>1, <2>2 DEF Lesser
<1> QED BY <1>2, <1>3

\* The inferred chunk of a byte does not start after it, and if another one
\* follows, ends behind it.
LEMMA ChunkOfByte ==
  ASSUME request \in Requests, NEW byte \in Nat
  PROVE  /\ ChunkOf(byte) \in 1..Count
         /\ (ChunkOf(byte) - 1) * UploadChunkSize <= byte
         /\ ChunkOf(byte) = Count \/ byte < ChunkOf(byte) * UploadChunkSize
         /\ \A later \in Nat : byte <= later => ChunkOf(byte) <= ChunkOf(later)
<1> DEFINE quotient(b) == b \div UploadChunkSize
<1>1. Count \in Nat \ {0} /\ UploadChunkSize \in Nat \ {0}
  BY TheFile
<1>2. \A b \in Nat : /\ quotient(b) \in Nat /\ quotient(b) * UploadChunkSize <= b
                     /\ b < quotient(b) * UploadChunkSize + UploadChunkSize
  BY <1>1
<1>3. \A b, c \in Nat : b <= c => quotient(b) <= quotient(c)
  BY <1>1
<1> HIDE DEF quotient
<1>4. \A b \in Nat : ChunkOf(b) = Lesser(quotient(b), Count - 1) + 1
  BY DEF ChunkOf, quotient
<1>5. CASE quotient(byte) < Count - 1
  <2>1. ChunkOf(byte) = quotient(byte) + 1 /\ quotient(byte) \in Nat
    BY <1>1, <1>2, <1>4, <1>5 DEF Lesser
  <2>2. (quotient(byte) + 1) * UploadChunkSize = quotient(byte) * UploadChunkSize + UploadChunkSize
        /\ (quotient(byte) + 1) - 1 = quotient(byte)
    BY <1>1, <2>1
  <2>3. ChunkOf(byte) \in 1..Count
    BY <1>1, <1>5, <2>1
  <2>4. \A later \in Nat : byte <= later => ChunkOf(byte) <= ChunkOf(later)
    <3> SUFFICES ASSUME NEW later \in Nat, byte <= later
                 PROVE  ChunkOf(byte) <= ChunkOf(later)
      OBVIOUS
    <3>1. quotient(byte) <= quotient(later) /\ quotient(later) \in Nat
      BY <1>2, <1>3
    <3>2. ChunkOf(later) = Lesser(quotient(later), Count - 1) + 1
      BY <1>4
    <3> QED BY <1>1, <1>5, <2>1, <3>1, <3>2 DEF Lesser
  <2> QED BY <1>2, <2>1, <2>2, <2>3, <2>4
<1>6. CASE ~(quotient(byte) < Count - 1)
  <2>1. ChunkOf(byte) = Count /\ quotient(byte) \in Nat
    BY <1>1, <1>2, <1>4, <1>6 DEF Lesser
  <2>2. (Count - 1) * UploadChunkSize <= quotient(byte) * UploadChunkSize
        /\ (Count - 1) * UploadChunkSize \in Nat /\ quotient(byte) * UploadChunkSize \in Nat
    BY <1>1, <1>6, <2>1, TimesMonotone
  <2>3. (ChunkOf(byte) - 1) * UploadChunkSize <= byte
    BY <1>2, <2>1, <2>2
  <2>4. \A later \in Nat : byte <= later => ChunkOf(byte) <= ChunkOf(later)
    <3> SUFFICES ASSUME NEW later \in Nat, byte <= later
                 PROVE  ChunkOf(byte) <= ChunkOf(later)
      OBVIOUS
    <3>1. quotient(byte) <= quotient(later) /\ quotient(later) \in Nat
      BY <1>2, <1>3
    <3>2. ChunkOf(later) = Lesser(quotient(later), Count - 1) + 1
      BY <1>4
    <3> QED BY <1>1, <1>6, <2>1, <3>1, <3>2 DEF Lesser
  <2> QED BY <1>1, <2>1, <2>3, <2>4
<1> QED BY <1>5, <1>6

----------------------------------------------------------------------------
(* Reads.                                                                  *)

\* A file is not empty.
LEMMA NotEmpty ==
  ASSUME request \in Requests
  PROVE  Real(file) \in Nat /\ Real(file) > 0
<1>1. file \in Files
  BY TheFile
<1>2. Real(file) = Base(file, Len(file.sizes)) + file.sizes[Len(file.sizes)]
      /\ Len(file.sizes) \in 1..Len(file.sizes)
  BY <1>1, NoEarlierStart, SizesAreNat
<1> QED BY <1>1, <1>2, BaseAdds, SizesAreNat

\* The size that is known is at least that of the chunks, unless it is a guess.
LEMMA SizeCovers ==
  ASSUME request \in Requests, total \in Nat, step \in {"sized", "reading"}, SizeKnown
  PROVE  /\ total \in Nat \ {0} /\ Real(file) \in Nat
         /\ ~Guessed => Real(file) <= total
<1>1. UploadChunkSafetyMargin \in Nat /\ Real(file) \in Nat
  BY TheFile, NotEmpty
<1>2. total > 0
  BY DEF SizeKnown
<1>3. ~Guessed => total = Real(file) \/ total - Real(file) \in 0..(UploadChunkSafetyMargin - 1)
  BY DEF SizeKnown
<1>4. \A r, m \in Nat : total - r \in 0..(m - 1) => r <= total
  OBVIOUS
<1>5. ~Guessed => Real(file) <= total
  <2>1. Real(file) <= Real(file)
    BY <1>1
  <2> QED BY <1>1, <1>3, <1>4, <2>1, Zenon
<1>6. total \in Nat \ {0}
  BY <1>2
<1> QED BY <1>1, <1>5, <1>6, Zenon

\* The size is the stored one, or computed from the last chunk: rightly if the file
\* has the current layout.
LEMMA SizedKeeps == RangeInv /\ (Begin \/ Sized) => RangeInv'
<1> SUFFICES ASSUME RangeInv, Begin \/ Sized PROVE RangeInv'
  OBVIOUS
<1>1. /\ request \in Requests /\ request' = request /\ step \in {"idle", "sizing"}
      /\ step' \in {"sizing", "sized"} /\ out' = out /\ out = <<>>
      /\ UNCHANGED <<start, end, at, last, offset, checkLayout>>
  BY DEF RangeInv, RangeTypes, Begin, Sized
<1>2. file' = file /\ file \in Files /\ UploadChunkSize \in Nat
      /\ UploadChunkSafetyMargin \in Nat /\ Real(file) \in Nat /\ Real(file) > 0
  BY <1>1, TheFile, NotEmpty DEF file
<1> DEFINE Known(t) == t = Real(file) \/ t - Real(file) \in 0..(UploadChunkSafetyMargin - 1)
<1>3. /\ total' \in Nat /\ (step' = "sizing" => file.size = 0)
      /\ (step' = "sized" => total' > 0 /\ (Guessed \/ Known(total')))
  <2>1. CASE Begin /\ file.size > 0
    <3>1. step' = "sized" /\ total' = file.size
      BY <2>1 DEF Begin
    <3>2. file.size \in Nat /\ file.size - Real(file) \in 0..(UploadChunkSafetyMargin - 1)
      BY <1>2, <2>1, FilesAssumption
    <3>3. Known(total') /\ total' \in Nat /\ total' > 0
      BY <2>1, <3>1, <3>2
    <3> HIDE DEF Known
    <3> QED BY <3>1, <3>3
  <2>2. CASE Begin /\ ~(file.size > 0)
    <3>1. step' = "sizing" /\ total' = total
      BY <2>2 DEF Begin
    <3>2. file.size \in Nat
      BY <1>2, SizesAreNat
    <3> QED BY <2>2, <3>1, <3>2 DEF RangeInv, RangeTypes
  <2>3. CASE Sized
    <3>1. file.size = 0 /\ step' = "sized"
          /\ total' = (Count - 1) * UploadChunkSize + file.sizes[Count]
      BY <2>3 DEF Sized, RangeInv, SizeKnown
    <3>2. Count = Len(file.sizes) /\ Count \in 1..Len(file.sizes)
          /\ file.sizes[Count] \in Nat \ {0}
      BY <1>1, <1>2, TheFile, SizesAreNat
    <3>3. (Count - 1) * UploadChunkSize \in Nat
      BY <1>2, <3>2
    <3>4. total' \in Nat /\ total' > 0
      BY <3>1, <3>2, <3>3
    <3>5. Current(file) => Known(total')
      <4>1. Current(file) => total' = Real(file)
        BY <1>2, <3>1, <3>2, LayoutStarts, NoEarlierStart
      <4> QED BY <4>1, Zenon
    <3> HIDE DEF Known
    <3>6. Guessed \/ Known(total')
      BY <3>1, <3>5, Zenon DEF Guessed
    <3> QED BY <3>1, <3>4, <3>6, Zenon
  <2> QED BY <2>1, <2>2, <2>3
<1>4. RangeTypes'
  <2> HIDE DEF Known
  <2> QED BY <1>1, <1>3 DEF RangeInv, RangeTypes
<1>5. SizeKnown'
  BY <1>1, <1>2, <1>3 DEF SizeKnown, Real, Base, Guessed, Current
<1>6. Window' /\ Trusted' /\ Prefix'
  BY <1>1 DEF Window, Trusted, Prefix
<1> QED BY <1>1, <1>4, <1>5, <1>6 DEF RangeInv

\* A read begins before its range, at a chunk that starts where the reader
\* believes it does, or that it will check.
LEMMA ReadBeginsKeeps == RangeInv /\ ReadBegins => RangeInv'
<1> SUFFICES ASSUME RangeInv, ReadBegins PROVE RangeInv'
  OBVIOUS
<1>1. /\ request \in Requests /\ request' = request /\ step = "sized" /\ step' = "reading"
      /\ total \in Nat /\ total' = total /\ out = <<>> /\ out' = <<>> /\ Satisfiable(total)
      /\ start' = RangeStart(total) /\ end' = RangeEnd(total)
      /\ offset' = (at' - 1) * UploadChunkSize
  BY DEF RangeInv, RangeTypes, ReadBegins
<1>c. checkLayout' = (at' > 1)
  BY DEF ReadBegins
<1>2. /\ file' = file /\ Count' = Count /\ file \in Files /\ Count \in Nat \ {0}
      /\ Count = Len(file.sizes) /\ UploadChunkSize \in Nat \ {0}
  BY <1>1, TheFile DEF file, Count
<1>3. total \in Nat \ {0}
  BY <1>1, SizeCovers DEF RangeInv
<1>4. start' \in Nat /\ end' \in Nat /\ start' <= end'
  BY <1>1, <1>3, RangeInside
<1>5. /\ at' \in Nat \ {0} /\ last' \in Nat \ {0} /\ at' <= last' /\ last' <= Count
      /\ last' = Count \/ end' < last' * UploadChunkSize
      /\ at' # 1 => (at' - 1) * UploadChunkSize <= start'
  <2>1. CASE Inferred(total)
    <3>1. at' = ChunkOf(start') /\ last' = ChunkOf(end')
      BY <1>1, <2>1 DEF ReadBegins
    <3>2. /\ ChunkOf(start') \in 1..Count /\ (ChunkOf(start') - 1) * UploadChunkSize <= start'
          /\ ChunkOf(start') <= ChunkOf(end')
      BY <1>1, <1>4, ChunkOfByte
    <3>3. ChunkOf(end') \in 1..Count
          /\ (ChunkOf(end') = Count \/ end' < ChunkOf(end') * UploadChunkSize)
      BY <1>1, <1>4, ChunkOfByte
    <3> QED BY <1>2, <3>1, <3>2, <3>3
  <2>2. CASE ~Inferred(total)
    <3>1. at' = 1 /\ last' = Count
      BY <2>2 DEF ReadBegins
    <3> QED BY <1>2, <3>1
  <2> QED BY <2>1, <2>2
<1>6. offset' \in Nat
  <2>1. \A n \in Nat \ {0} : (n - 1) * UploadChunkSize \in Nat
    BY <1>2
  <2> QED BY <1>1, <1>5, <2>1, Zenon
<1>7. RangeTypes'
  <2>1. (at' > 1) \in BOOLEAN
    OBVIOUS
  <2>2. checkLayout' \in BOOLEAN
    BY <1>c, <2>1 DEF ReadBegins
  <2>3. out' \in Seq(Nat)
    BY <1>1
  <2> QED BY <1>1, <1>4, <1>5, <1>6, <2>2, <2>3 DEF RangeTypes
<1>8. SizeKnown' /\ Window' /\ Prefix'
  <2>1. SizeKnown'
    BY <1>1, <1>2 DEF RangeInv, SizeKnown, Real, Base, Guessed, Current
  <2>2. Window'
    BY <1>2, <1>5 DEF Window
  <2>3. Prefix'
    BY <1>1 DEF Prefix
  <2> QED BY <2>1, <2>2, <2>3
<1>9. Trusted'
  <2>1. Len(out') = 0
    BY <1>1
  <2>2. offset' <= start' => Covered(offset)' = 0
    <3>1. Covered(offset)' = Greater(Lesser(end' + 1, offset') - start', 0)
      BY DEF Covered
    <3>2. \A s, e, o \in Nat : o <= s => Greater(Lesser(e + 1, o) - s, 0) = 0
      BY DEF Greater, Lesser
    <3> QED BY <1>4, <1>6, <3>1, <3>2, Zenon
  <2>3. CASE at' = 1
    <3>1. offset' = 0
      BY <1>1, <1>2, <2>3
    <3>2. Base(file, at)' = 0
      BY <1>2, <2>3, BaseAdds DEF Base
    <3> QED BY <1>4, <2>1, <2>2, <3>1, <3>2 DEF Trusted
  <2>4. CASE at' # 1 /\ Current(file)
    <3>1. at' \in 1..Len(file.sizes) /\ at' > 1
      BY <1>2, <1>5, <2>4
    <3>2. Base(file, at') = (at' - 1) * UploadChunkSize
      BY <1>2, <2>4, <3>1, LayoutStarts
    <3>3. Base(file, at)' = offset'
      BY <1>1, <1>2, <3>2 DEF Base
    <3> QED BY <1>1, <1>5, <2>1, <2>2, <3>1, <3>3 DEF Trusted
  <2>5. CASE at' # 1 /\ ~Current(file)
    <3>1. at' > 1
      BY <1>5, <2>5
    <3>2. checkLayout'
      BY <1>c, <3>1, Zenon
    <3>3. ~Current(file)'
      BY <1>2, <2>5 DEF Current
    <3>4. offset' = (at' - 1) * UploadChunkSize
      BY <1>1
    <3>5. file'.size = 0 /\ at' = Count' => Misread'
      BY <1>2, <1>5, <2>5, <3>3 DEF Misread
    <3> QED BY <1>1, <3>1, <3>2, <3>3, <3>4, <3>5 DEF Trusted
  <2> QED BY <2>3, <2>4, <2>5
<1> QED BY <1>1, <1>7, <1>8, <1>9 DEF RangeInv

\* Where the reader is mistaken about the layout, the check says so.
LEMMA MistakeIsNoticed ==
  ASSUME RangeInv, step = "reading", ~Current(file), at > 1,
         offset = (at - 1) * UploadChunkSize, file.size = 0 => at # Count
  PROVE  ~LayoutMatches(file.sizes[at])
<1>1. /\ request \in Requests /\ total \in Nat /\ at \in Nat \ {0} /\ SizeKnown /\ offset \in Nat
      /\ at <= last /\ last \in Nat \ {0} /\ last <= Count
  BY DEF RangeInv, RangeTypes, Window
<1>2. /\ file \in Files /\ Count = Len(file.sizes) /\ Count \in Nat \ {0}
      /\ UploadChunkSize \in Nat \ {0} /\ UploadChunkSafetyMargin \in Nat
  BY <1>1, TheFile
<1>3. at \in 1..Len(file.sizes)
  BY <1>1, <1>2
<1>4. file.sizes[at] \in Nat
  BY <1>2, <1>3, SizesAreNat
<1>5. CASE at # Count
  <2>1. \A c \in 1..(Len(file.sizes) - 1) :
          file.sizes[c] = UploadChunkSize + UploadChunkSafetyMargin
    BY <1>2, LayoutStarts
  <2>2. UploadChunkSafetyMargin # 0
    <3> SUFFICES ASSUME UploadChunkSafetyMargin = 0 PROVE Current(file)
      OBVIOUS
    <3>1. UploadChunkSize + UploadChunkSafetyMargin = UploadChunkSize
      BY <1>2
    <3> QED BY <2>1, <3>1 DEF Current
  <2>3. file.sizes[at] = UploadChunkSize + UploadChunkSafetyMargin
    BY <1>2, <1>3, <1>5, <2>1
  <2>4. file.sizes[at] # UploadChunkSize
    BY <1>2, <2>2, <2>3
  <2> QED BY <1>5, <2>4 DEF LayoutMatches
<1>6. CASE at = Count
  <2>1. Base(file, at) = (at - 1) * UploadChunkSize + (at - 1) * UploadChunkSafetyMargin
    BY <1>2, <1>3, LayoutStarts
  <2>2. Real(file) = Base(file, at) + file.sizes[at] /\ Real(file) <= total
        /\ Real(file) \in Nat
    BY <1>1, <1>2, <1>6, NoEarlierStart, SizeCovers DEF Guessed
  <2>3. 1 * UploadChunkSafetyMargin <= (at - 1) * UploadChunkSafetyMargin
        /\ (at - 1) * UploadChunkSafetyMargin \in Nat /\ (at - 1) * UploadChunkSize \in Nat
    <3> DEFINE n == at - 1
    <3>1. n \in Nat /\ 1 <= n
      BY <1>1
    <3> HIDE DEF n
    <3>2. 1 * UploadChunkSafetyMargin <= n * UploadChunkSafetyMargin
          /\ n * UploadChunkSafetyMargin \in Nat
      BY <1>2, <3>1, TimesMonotone
    <3>3. n * UploadChunkSize \in Nat
      BY <1>2, <3>1
    <3> QED BY <3>2, <3>3 DEF n
  <2>4. total - (offset + file.sizes[at]) >= UploadChunkSafetyMargin
    <3> DEFINE believed == (at - 1) * UploadChunkSize
               shift == (at - 1) * UploadChunkSafetyMargin
               z == file.sizes[at]
    <3>1. /\ believed \in Nat /\ shift \in Nat /\ z \in Nat
          /\ UploadChunkSafetyMargin \in Nat /\ UploadChunkSafetyMargin <= shift
      BY <1>2, <1>4, <2>3
    <3>2. Base(file, at) = believed + shift /\ offset = believed
      BY <2>1
    <3>3. total \in Nat
      BY <1>1
    <3>4. Base(file, at) + z <= total
      BY <2>2
    <3> HIDE DEF believed, shift, z
    <3>5. total - (believed + z) >= UploadChunkSafetyMargin
      BY <3>1, <3>2, <3>3, <3>4
    <3>6. total - (offset + z) >= UploadChunkSafetyMargin
      BY <3>2, <3>5
    <3> QED BY <3>6 DEF z
  <2>5. ~(total - (offset + file.sizes[at]) < UploadChunkSafetyMargin)
    <3> DEFINE z == file.sizes[at]
    <3>1. total \in Nat /\ offset \in Nat /\ z \in Nat /\ UploadChunkSafetyMargin \in Nat
      BY <1>1, <1>2, <1>4
    <3>2. total - (offset + z) >= UploadChunkSafetyMargin
      BY <2>4
    <3> HIDE DEF z
    <3>3. ~(total - (offset + z) < UploadChunkSafetyMargin)
      BY <3>1, <3>2
    <3> QED BY <3>3 DEF z
  <2> QED BY <1>6, <2>5 DEF LayoutMatches
<1> QED BY <1>5, <1>6

\* A chunk adds to the range what the formulas of writeRangeWindow cut out of it.
LEMMA ClipAdds ==
  ASSUME NEW s \in Nat, NEW e \in Nat, NEW o \in Nat, NEW size \in Nat
  PROVE  /\ Greater(Lesser(e + 1, o) - s, 0) \in Nat
         /\ Greater(Lesser(e + 1 - o, size) - Greater(s - o, 0), 0) \in Nat
         /\ o + Greater(s - o, 0) \in Nat
         /\ Greater(Lesser(e + 1, o) - s, 0)
              + Greater(Lesser(e + 1 - o, size) - Greater(s - o, 0), 0)
            = Greater(Lesser(e + 1, o + size) - s, 0)
         /\ Greater(Lesser(e + 1 - o, size) - Greater(s - o, 0), 0) > 0 =>
              o + Greater(s - o, 0) = s + Greater(Lesser(e + 1, o) - s, 0)
BY DEF Greater, Lesser

\* A sequence of n bytes appended to another one.
LEMMA Appended ==
  ASSUME NEW q \in Seq(Nat), NEW run \in Seq(Nat), NEW n \in Nat, Len(run) = n
  PROVE  /\ q \o run \in Seq(Nat) /\ Len(q \o run) = Len(q) + n
         /\ \A k \in 1..(Len(q) + n) :
              (q \o run)[k] = IF k <= Len(q) THEN q[k] ELSE run[k - Len(q)]
OBVIOUS

\* A window that ends before the last chunk ends behind the range, and inside
\* the file: its last chunk ends no earlier than the chunk size says.
LEMMA WindowCovers ==
  ASSUME RangeInv, step = "reading", at = last
  PROVE  Covered(Base(file, last + 1)) = Covered(Real(file))
<1>1. /\ request \in Requests /\ last \in Nat \ {0} /\ last <= Count
      /\ start \in Nat /\ end \in Nat /\ (last = Count \/ end < last * UploadChunkSize)
  BY DEF RangeInv, RangeTypes, Window
<1>2. /\ file \in Files /\ Count = Len(file.sizes) /\ Count \in Nat \ {0}
      /\ UploadChunkSize \in Nat \ {0}
  BY <1>1, TheFile
<1>3. CASE last = Count
  BY <1>2, <1>3 DEF Real
<1>4. CASE last # Count
  <2> DEFINE next == last + 1
  <2>1. next \in 1..Len(file.sizes) /\ next - 1 = last /\ next \in 1..(Len(file.sizes) + 1)
    BY <1>1, <1>2, <1>4
  <2>2. last * UploadChunkSize <= Base(file, next)
    BY <1>2, <2>1, NoEarlierStart
  <2>3. last * UploadChunkSize <= (Count - 1) * UploadChunkSize
        /\ (Count - 1) * UploadChunkSize < Real(file)
        /\ last * UploadChunkSize \in Nat /\ (Count - 1) * UploadChunkSize \in Nat
    <3> DEFINE before == Count - 1
    <3>1. before \in Nat /\ last \in Nat /\ last <= before /\ UploadChunkSize \in Nat
      BY <1>1, <1>2, <1>4
    <3> HIDE DEF before
    <3>2. last * UploadChunkSize <= before * UploadChunkSize
          /\ last * UploadChunkSize \in Nat /\ before * UploadChunkSize \in Nat
      BY <3>1, TimesMonotone
    <3> QED BY <1>2, <3>2, NoEarlierStart DEF before
  <2>4. Real(file) \in Nat /\ Base(file, next) \in Nat
    BY <1>2, <2>1, BaseAdds
  <2> DEFINE bytes == last * UploadChunkSize
             most  == (Count - 1) * UploadChunkSize
  <2>5. /\ bytes \in Nat /\ most \in Nat /\ end < bytes /\ bytes <= Base(file, next)
        /\ bytes <= most /\ most < Real(file)
    BY <1>1, <1>4, <2>2, <2>3
  <2> HIDE DEF bytes, most, next
  <2>6. Lesser(end + 1, Base(file, next)) = end + 1 /\ Lesser(end + 1, Real(file)) = end + 1
    BY <1>1, <2>4, <2>5 DEF Lesser
  <2> QED BY <2>6 DEF Covered, next
<1> QED BY <1>3, <1>4

\* Every chunk that is written starts where the reader believes, and extends the
\* range by its part of it.
LEMMA ChunkWrittenKeeps == RangeInv /\ ChunkWritten => RangeInv'
<1> SUFFICES ASSUME RangeInv, ChunkWritten PROVE RangeInv'
  OBVIOUS
<1> DEFINE size == file.sizes[at]
           n    == Greater(Right(size) - Left, 0)
           b    == Base(file, at) + Left
<1>1. /\ request \in Requests /\ request' = request /\ step = "reading"
      /\ start' = start /\ end' = end /\ total' = total /\ last' = last
      /\ checkLayout' = checkLayout /\ at' = at + 1 /\ offset' = offset + size
      /\ out' = out \o [k \in 1..n |-> b + k - 1]
      /\ step' = IF at = last THEN "done" ELSE "reading"
  BY DEF RangeInv, RangeTypes, ChunkWritten, Ready
<1>2. /\ start \in Nat /\ end \in Nat /\ total \in Nat /\ at \in Nat \ {0} /\ last \in Nat \ {0}
      /\ offset \in Nat /\ out \in Seq(Nat) /\ at <= last /\ last <= Count
      /\ (last = Count \/ end < last * UploadChunkSize)
  BY <1>1 DEF RangeInv, RangeTypes, Window
<1>3. /\ file' = file /\ Count' = Count /\ file \in Files /\ Count \in Nat \ {0}
      /\ Count = Len(file.sizes)
  BY <1>1, TheFile DEF file, Count
<1>4. at \in 1..Len(file.sizes) /\ at + 1 \in 1..(Len(file.sizes) + 1)
  BY <1>2, <1>3
<1>5. size \in Nat
  BY <1>3, <1>4, SizesAreNat
<1>6. n \in Nat /\ b \in Nat /\ Greater(start - offset, 0) \in Nat
  <2>1. n = Greater(Lesser(end + 1 - offset, size) - Greater(start - offset, 0), 0)
        /\ b = Base(file, at) + Greater(start - offset, 0)
    BY DEF Right, Left
  <2> HIDE DEF size, n, b
  <2>2. Greater(start - offset, 0) \in Nat
    BY <1>2 DEF Greater
  <2>3. n \in Nat
    BY <1>2, <1>5, <2>1, ClipAdds, Zenon
  <2>4. Base(file, at) \in Nat
    BY <1>3, <1>4, BaseAdds
  <2> QED BY <2>1, <2>2, <2>3, <2>4
<1> HIDE DEF n, b
<1> DEFINE run == [k \in 1..n |-> b + k - 1]
<1>7. /\ run \in Seq(Nat) /\ Len(run) = n /\ (\A k \in 1..n : run[k] = b + k - 1)
      /\ out' = out \o run /\ out' \in Seq(Nat)
  <2>1. \A k \in 1..n : b + k - 1 \in Nat
    BY <1>6
  <2>2. run \in [1..n -> Nat]
    BY <2>1
  <2>3. run \in Seq(Nat) /\ Len(run) = n /\ (\A k \in 1..n : run[k] = b + k - 1)
    BY <1>6, <2>2
  <2>4. out' = out \o run
    BY <1>1
  <2> HIDE DEF run
  <2> QED BY <1>2, <1>6, <2>3, <2>4, Appended
<1> HIDE DEF size, run
<1>8. ASSUME ~Misread
      PROVE  /\ offset + size = Base(file, at + 1) /\ Len(out') = Covered(offset + size)
             /\ \A k \in DOMAIN out' : out'[k] = start + k - 1
  <2>1. offset = Base(file, at) /\ Len(out) = Covered(offset)
    <3>1. checkLayout => LayoutMatches(size)
      BY DEF ChunkWritten, size
    <3>2. ~(/\ checkLayout /\ ~Current(file)
            /\ at > 1 /\ offset = (at - 1) * UploadChunkSize
            /\ file.size = 0 => at # Count
            /\ out = <<>>)
      BY <1>1, <3>1, MistakeIsNoticed DEF size
    <3> QED BY <1>1, <1>8, <3>2, Zenon DEF RangeInv, Trusted
  <2>2. offset + size = Base(file, at + 1)
    BY <1>3, <1>4, <2>1, BaseAdds DEF size
  <2>3. Len(out) + n = Covered(offset + size) /\ (n > 0 => b = start + Len(out))
    <3>1. n = Greater(Lesser(end + 1 - offset, size) - Greater(start - offset, 0), 0)
          /\ b = offset + Greater(start - offset, 0)
          /\ Len(out) = Greater(Lesser(end + 1, offset) - start, 0)
          /\ Covered(offset + size) = Greater(Lesser(end + 1, offset + size) - start, 0)
      BY <2>1 DEF n, b, Right, Left, Covered
    <3>2. start \in Nat /\ end \in Nat /\ offset \in Nat
      BY <1>2
    <3>3. /\ Greater(Lesser(end + 1, offset) - start, 0) \in Nat
          /\ Greater(Lesser(end + 1 - offset, size) - Greater(start - offset, 0), 0) \in Nat
          /\ offset + Greater(start - offset, 0) \in Nat
          /\ Greater(Lesser(end + 1, offset) - start, 0)
               + Greater(Lesser(end + 1 - offset, size) - Greater(start - offset, 0), 0)
             = Greater(Lesser(end + 1, offset + size) - start, 0)
          /\ Greater(Lesser(end + 1 - offset, size) - Greater(start - offset, 0), 0) > 0 =>
               offset + Greater(start - offset, 0)
                 = start + Greater(Lesser(end + 1, offset) - start, 0)
      BY <1>5, <3>2, ClipAdds, Zenon
    <3> QED BY <3>1, <3>3, Zenon
  <2>4. out \in Seq(Nat) /\ start \in Nat /\ b \in Nat /\ n \in Nat
    BY <1>2, <1>6
  <2>5. \A k \in 1..Len(out) : out[k] = start + k - 1
    <3>1. DOMAIN out = 1..Len(out)
      BY <2>4
    <3> QED BY <1>8, <3>1, Zenon DEF RangeInv, Prefix
  <2>6. /\ Len(out \o run) = Len(out) + n
        /\ \A k \in 1..(Len(out) + n) :
             (out \o run)[k] = IF k <= Len(out) THEN out[k] ELSE run[k - Len(out)]
    BY <1>7, <2>4, Appended
  <2>7. ASSUME NEW k \in 1..(Len(out) + n)
        PROVE  (out \o run)[k] = start + k - 1
    <3>1. Len(out) \in Nat
      BY <2>4
    <3>2. (out \o run)[k] = IF k <= Len(out) THEN out[k] ELSE run[k - Len(out)]
      BY <2>6
    <3>3. CASE k <= Len(out)
      <4>1. out[k] = start + k - 1
        BY <2>5, <3>1, <3>3
      <4> QED BY <3>2, <3>3, <4>1
    <3>4. CASE ~(k <= Len(out))
      <4>1. k - Len(out) \in 1..n /\ n > 0
        BY <2>4, <3>1, <3>4
      <4>2. run[k - Len(out)] = b + (k - Len(out)) - 1
        BY <1>7, <4>1
      <4>3. b + (k - Len(out)) - 1 = start + k - 1
        BY <2>3, <2>4, <3>1, <4>1
      <4> QED BY <3>2, <3>4, <4>2, <4>3
    <3> QED BY <3>3, <3>4
  <2>8. DOMAIN (out \o run) = 1..(Len(out) + n)
    BY <1>2, <1>7, <2>6
  <2> QED BY <1>7, <2>2, <2>3, <2>6, <2>7, <2>8, Zenon
<1>9. Misread' = Misread
  BY <1>1, <1>3 DEF Misread, Current
<1>10. RangeTypes'
  <2>1. at + 1 \in Nat \ {0} /\ offset + size \in Nat
    BY <1>2, <1>5
  <2>2. at' \in Nat \ {0} /\ offset' \in Nat
    BY <1>1, <2>1, Zenon
  <2>3. checkLayout' \in BOOLEAN
    BY <1>1 DEF RangeInv, RangeTypes
  <2>4. step' \in {"done", "reading"}
    BY <1>1
  <2> QED BY <1>1, <1>2, <1>7, <2>2, <2>3, <2>4 DEF RangeTypes
<1>11. SizeKnown'
  BY <1>1, <1>3 DEF RangeInv, SizeKnown, Real, Base, Guessed, Current
<1>12. Window'
  <2>1. at # last => at + 1 <= last
    BY <1>2
  <2>2. step' = "reading" => at # last
    BY <1>1
  <2> QED BY <1>1, <1>2, <1>3, <2>1, <2>2 DEF Window
<1>13. Trusted'
  <2>1. Base(file, at)' = Base(file, at + 1)
    BY <1>1, <1>3 DEF Base
  <2>2. Covered(offset)' = Covered(offset + size)
    BY <1>1 DEF Covered
  <2>3. ~Misread' => offset' = Base(file, at)' /\ Len(out') = Covered(offset)'
    BY <1>1, <1>8, <1>9, <2>1, <2>2, Zenon
  <2> QED BY <2>3, Zenon DEF Trusted
<1>14. Prefix'
  BY <1>1, <1>8, <1>9, Zenon DEF Prefix
<1>15. step' = "done" /\ ~Misread' => Len(out') = Covered(Real(file))'
  <2>1. step' = "done" => at = last
    BY <1>1
  <2>2. at = last => Covered(Base(file, at + 1)) = Covered(Real(file))
    BY <1>1, WindowCovers
  <2>3. Covered(Real(file))' = Covered(Real(file))
    BY <1>1, <1>3 DEF Covered, Real, Base
  <2> QED BY <1>8, <1>9, <2>1, <2>2, <2>3, Zenon
<1>16. step' \notin {"idle", "sizing", "sized"}
  BY <1>1
<1> QED BY <1>10, <1>11, <1>12, <1>13, <1>14, <1>15, <1>16 DEF RangeInv

\* The replay begins at the first byte of the file, of which nothing is written.
LEMMA ReplayKeeps == RangeInv /\ LayoutDiffers /\ out = <<>> => RangeInv'
<1> SUFFICES ASSUME RangeInv, LayoutDiffers, out = <<>> PROVE RangeInv'
  OBVIOUS
<1>1. /\ request \in Requests /\ request' = request /\ step = "reading" /\ step' = step
      /\ start' = start /\ end' = end /\ total' = total /\ last' = Count
      /\ at' = 1 /\ offset' = 0 /\ out = <<>> /\ out' = out
      /\ start \in Nat /\ end \in Nat /\ total \in Nat
  BY DEF RangeInv, RangeTypes, LayoutDiffers, Ready
<1>2. /\ file' = file /\ Count' = Count /\ file \in Files /\ Count \in Nat \ {0}
  BY <1>1, TheFile DEF file, Count
<1>3. RangeTypes'
  <2>1. checkLayout' \in BOOLEAN
    BY DEF LayoutDiffers
  <2> QED BY <1>1, <1>2, <2>1 DEF RangeTypes
<1>4. SizeKnown'
  BY <1>1, <1>2 DEF RangeInv, SizeKnown, Real, Base, Guessed, Current
<1>5. Window'
  BY <1>1, <1>2 DEF Window
<1>6. Trusted'
  <2>1. Base(file, at)' = 0
    BY <1>1, <1>2, BaseAdds DEF Base
  <2>2. Covered(offset)' = Greater(Lesser(end' + 1, offset') - start', 0)
    BY DEF Covered
  <2>3. \A s, e \in Nat : Greater(Lesser(e + 1, 0) - s, 0) = 0
    BY DEF Greater, Lesser
  <2>4. Len(out') = 0
    BY <1>1
  <2>5. Covered(offset)' = 0
    BY <1>1, <2>2, <2>3, Zenon
  <2> QED BY <1>1, <2>1, <2>4, <2>5, Zenon DEF Trusted
<1>7. Prefix' /\ step' \notin {"idle", "sizing", "sized", "done"}
  BY <1>1 DEF Prefix
<1> QED BY <1>3, <1>4, <1>5, <1>6, <1>7 DEF RangeInv

\* What fails, and what happens to the fetch, leaves the range alone.
LEMMA RangeStays ==
  ASSUME RangeInv, request' = request, rangeVars' = rangeVars,
         step' = step \/ step' \in {"refused", "failed"}
  PROVE  RangeInv'
<1>1. /\ total' = total /\ start' = start /\ end' = end /\ at' = at /\ last' = last
      /\ offset' = offset /\ checkLayout' = checkLayout /\ out' = out
  BY DEF rangeVars
<1>2. CASE step' = step
  BY <1>1, <1>2 DEF RangeInv, RangeTypes, SizeKnown, Window, Trusted, Prefix, Covered, file,
     Count, Real, Base, Guessed, Current, Misread
<1>3. CASE step' \in {"refused", "failed"}
  <2>1. RangeTypes' /\ Prefix'
    BY <1>1, <1>3 DEF RangeInv, RangeTypes, Prefix, Misread, file, Count, Current
  <2>2. step' \notin {"idle", "sizing", "sized", "reading", "done"}
    BY <1>3
  <2> QED BY <2>1, <2>2 DEF RangeInv, SizeKnown, Window, Trusted
<1> QED BY <1>2, <1>3

\* Where the fetch is not concerned.
LEMMA FetchStays == FetchInv /\ UNCHANGED fetchVars => FetchInv'
BY DEF FetchInv, FetchTypes, Attempts, Turns, Copies, MayRead, Readable, ReadableIsRead,
   StraysAreFaults, fetchVars, chatVars, botVars, loopVars, copyVars, faultVars

\* The initial states satisfy the invariant.
LEMMA InitIInv == Init => IInv
<1> SUFFICES ASSUME Init PROVE IInv
  OBVIOUS
<1>1. /\ request \in Requests /\ step = "idle" /\ total = 0 /\ start = 0 /\ end = 0
      /\ at = 1 /\ last = 1 /\ offset = 0 /\ out = <<>>
  BY DEF Init
<1>2. checkLayout \in BOOLEAN
  BY DEF Init
<1>3. RangeInv
  <2>1. RangeTypes
    BY <1>1, <1>2 DEF RangeTypes
  <2> QED BY <1>1, <2>1 DEF RangeInv, SizeKnown, Window, Trusted, Prefix
<1>4. request.chat.members \subseteq Bots
  BY <1>1, RequestsAssumption
<1>5. /\ members \subseteq Bots /\ pc = "idle" /\ result = "none" /\ attempt = 0
      /\ strays = 0 /\ hurt = 0 /\ faults = 0
  BY <1>4 DEF Init, FetchInit
<1>6. live \in BOOLEAN /\ resolved = FALSE /\ falling = FALSE /\ copy = FALSE
  BY DEF Init, FetchInit
<1>7. FetchInv
  <2>1. FetchTypes
    BY <1>5, <1>6 DEF FetchTypes, Places
  <2>2. Attempts
    BY <1>5 DEF Attempts, InAttempt, Calls, ReadableIsRead
  <2>3. Turns
    BY <1>5 DEF Turns, Calls
  <2>4. (IF live THEN 0 ELSE 1) \in {0, 1}
    BY <1>6, Zenon
  <2>5. StraysAreFaults
    BY <1>5, <1>6, <2>4 DEF StraysAreFaults
  <2> QED BY <1>5, <2>1, <2>2, <2>3, <2>5 DEF FetchInv, Copies, Calls
<1> QED BY <1>3, <1>7 DEF IInv

\* Every step keeps the invariant.
LEMMA NextIInv == IInv /\ [Next]_vars => IInv'
<1> SUFFICES ASSUME IInv, [Next]_vars PROVE FetchInv' /\ RangeInv'
  BY DEF IInv
<1>1. FetchInv /\ RangeInv
  BY DEF IInv
<1>2. CASE Begin \/ Sized
  <2>1. UNCHANGED fetchVars
    BY <1>2 DEF Begin, Sized
  <2> QED BY <1>1, <1>2, <2>1, FetchStays, SizedKeeps
<1>3. CASE NotSatisfiable
  <2>1. UNCHANGED fetchVars /\ request' = request /\ rangeVars' = rangeVars /\ step' = "refused"
    BY <1>3 DEF NotSatisfiable
  <2> QED BY <1>1, <2>1, FetchStays, RangeStays
<1>4. CASE ReadBegins
  <2>1. UNCHANGED fetchVars
    BY <1>4 DEF ReadBegins
  <2> QED BY <1>1, <1>4, <2>1, FetchStays, ReadBeginsKeeps
<1>5. CASE Ask
  <2>1. Fetch(Wanted) /\ request' = request /\ rangeVars' = rangeVars /\ step' = step
    BY <1>5 DEF Ask
  <2> QED BY <1>1, <2>1, FetchKeeps, RangeStays
<1>6. CASE FetchGoesOn
  <2>1. FetchStep /\ request' = request /\ rangeVars' = rangeVars /\ step' = step
    BY <1>6 DEF FetchGoesOn
  <2> QED BY <1>1, <2>1, FetchStepKeeps, RangeStays
<1>7. CASE ChunkArrives
  <2>1. request' = request /\ rangeVars' = rangeVars /\ step' = step
    BY <1>7 DEF ChunkArrives
  <2> QED BY <1>1, <1>7, <2>1, ArrivesKeeps, RangeStays
<1>8. CASE LoadFails \/ WriteFails
  <2>1. UNCHANGED fetchVars /\ request' = request /\ rangeVars' = rangeVars /\ step' = "failed"
    BY <1>8 DEF LoadFails, WriteFails
  <2> QED BY <1>1, <2>1, FetchStays, RangeStays
<1>9. CASE ChunkWritten
  <2>1. UNCHANGED fetchVars
    BY <1>9 DEF ChunkWritten
  <2> QED BY <1>1, <1>9, <2>1, FetchStays, ChunkWrittenKeeps
<1>10. CASE LayoutDiffers
  <2>1. UNCHANGED fetchVars
    BY <1>10 DEF LayoutDiffers
  <2>2. CASE out = <<>>
    BY <1>1, <1>10, <2>1, <2>2, FetchStays, ReplayKeeps
  <2>3. CASE out # <<>>
    <3>1. request' = request /\ rangeVars' = rangeVars /\ step' = "failed"
      BY <1>10, <2>3 DEF LayoutDiffers, rangeVars
    <3> QED BY <1>1, <2>1, <3>1, FetchStays, RangeStays
  <2> QED BY <2>2, <2>3
<1>11. CASE CancelRequest
  <2>1. Cancelled /\ request' = request /\ rangeVars' = rangeVars /\ step' = step
    BY <1>11 DEF CancelRequest
  <2> QED BY <1>1, <2>1, CancelledKeeps, RangeStays
<1>12. CASE UNCHANGED vars
  <2>1. UNCHANGED fetchVars /\ request' = request /\ rangeVars' = rangeVars /\ step' = step
    BY <1>12 DEF vars
  <2> QED BY <1>1, <2>1, FetchStays, RangeStays
<1> QED BY <1>2, <1>3, <1>4, <1>5, <1>6, <1>7, <1>8, <1>9, <1>10, <1>11, <1>12
       DEF Next, ReadStep

\* The invariant holds of every state of a read.
LEMMA ReadInvariant == Spec => []IInv
BY InitIInv, NextIInv, PTL DEF Spec

\* The client receives the bytes of its range in their order, and when the read
\* ends without an error all of them that the file has: for every chunk size,
\* margin, file of either layout and range, but a range that begins in the last
\* chunk of a file whose size was computed for the wrong layout (ExactFileSize,
\* DownloadRangeToWriter, writeRangeWindow, checkChunkLayout).
THEOREM RangeIsServed == Spec => []BytesAreTheRange
<1>1. IInv => BytesAreTheRange
  BY DEF IInv, RangeInv, Prefix, BytesAreTheRange, Covered
<1> QED BY <1>1, ReadInvariant, PTL

\* A chunk that some worker can read is given up only after a failed call in each
\* of the attempts, whichever workers the scheduler gives (downloadChunk,
\* downloadChunkWithRetry).
THEOREM FallbackReaches == Spec => []ReadableIsRead
<1>1. IInv => ReadableIsRead
  BY DEF IInv, FetchInv, Attempts
<1> QED BY <1>1, ReadInvariant, PTL

\* A copy of a chunk stays in the channel only by a failed call or by the
\* cancellation (ResolveFileIDByMessage).
THEOREM CopiesAreCleared == Spec => []StraysAreFaults
<1>1. IInv => StraysAreFaults
  BY DEF IInv, FetchInv, Copies
<1> QED BY <1>1, ReadInvariant, PTL
=============================================================================
