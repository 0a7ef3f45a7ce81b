-------------------------- MODULE WorkerScheduler --------------------------
(***************************************************************************)
(* The rate limiter in front of every Telegram call: WorkerScheduler       *)
(* (service/worker_scheduler.go) with its buffered tokens and its waiting  *)
(* counts, over the usage rows of repository/storage_workers.go.           *)
(*                                                                         *)
(* A token is the worker it belongs to.  The sliding window of one minute  *)
(* is cut into Window ticks; used[w][a] counts the usage rows of w that    *)
(* are a ticks old.  Older rows take part in no count, so they are not     *)
(* kept, and neither is the background cleanup that deletes them.  A row   *)
(* is as old as the transaction that inserted it, whose BEGIN and          *)
(* statement are one step: created_at is the time of BEGIN.  How long a    *)
(* caller sleeps between two attempts is left free, which covers every     *)
(* answer of NextAvailableIn and the default of two seconds.               *)
(***************************************************************************)
EXTENDS Naturals, Sequences, FiniteSets

CONSTANTS
  Callers,     \* goroutines that ask for tokens, one call at a time each
  Storages,
  Workers,
  Serves,      \* the storages a worker serves: one, or all (storage_id NULL)
  RateLimit,   \* uses of one worker per window
  BatchSize,   \* TokenBatchSize
  Window       \* ticks in storageWorkerUsageWindow

ASSUME SetsAssumption == IsFiniteSet(Callers) /\ Callers # {}
ASSUME ServesAssumption == Serves \in [Workers -> SUBSET Storages]
ASSUME LimitsAssumption ==
  /\ RateLimit \in Nat \ {0} /\ BatchSize \in Nat \ {0}
  /\ Window \in Nat \ {0}

VARIABLES
  used,     \* usage rows of each worker by age
  buffer,   \* tokenBuf of each storage
  waiting,  \* waiting[s], 0 when the key is absent
  pc,       \* where each caller's GetToken is
  storage,  \* the storage it was called for
  live,     \* its context has not been cancelled; TRUE between two calls
  batch,    \* the tokens its statement selected, in the order of the rows
  age,      \* ticks since that statement, up to Window, while uncommitted
  flag      \* the local variable waiting of its call

callVars == <<pc, storage, live, batch, flag>>
vars == <<used, buffer, waiting, age, callVars>>

Ages    == 0..(Window - 1)
Resting == {"idle", "got", "error"}
InLoop  == {"loop", "insert", "fetched", "full", "asleep"}

\* No batch is longer than BatchSize.
Tokens == UNION {[1..n -> Workers] : n \in 1..BatchSize}

TypeOK ==
  /\ used \in [Workers -> [Ages -> Nat]]
  /\ buffer \in [Storages -> Seq(Workers)]
  /\ waiting \in [Storages -> Nat]
  /\ pc \in [Callers -> Resting \cup InLoop]
  /\ storage \in [Callers -> Storages]
  /\ live \in [Callers -> BOOLEAN]
  /\ batch \in [Callers -> Tokens \cup {<<>>}]
  /\ age \in [Callers -> 0..Window]
  /\ flag \in [Callers -> BOOLEAN]

Init ==
  /\ used = [w \in Workers |-> [a \in Ages |-> 0]]
  /\ buffer = [s \in Storages |-> <<>>]
  /\ waiting = [s \in Storages |-> 0]
  /\ pc = [c \in Callers |-> "idle"]
  /\ storage \in [Callers -> Storages]
  /\ live = [c \in Callers |-> TRUE]
  /\ batch = [c \in Callers |-> <<>>]
  /\ age = [c \in Callers |-> 0]
  /\ flag = [c \in Callers |-> FALSE]

----------------------------------------------------------------------------
\* How many rows of u are at most a ticks old.
RowsUpTo(u) ==
  LET n[a \in Ages] == IF a = 0 THEN u[0] ELSE n[a - 1] + u[a]
  IN  n

\* The rows COUNT(swu.id) counts for a worker.
Rows(w) == RowsUpTo(used[w])[Window - 1]

Team(s) == {w \in Workers : s \in Serves[w]}

Times(q, w) == Cardinality({i \in DOMAIN q : q[i] = w})

\* Fault: the limit itself still counts as a free slot.
FreeOneMore(w, n) == Rows(w) + n <= RateLimit + 1

\* Worker w has n free slots: free_slots and HAVING COUNT(swu.id) < $2.
Free(w, n) == Rows(w) + n <= RateLimit

\* What the expanded CTE may return: no more of a worker than its free slots,
\* and fewer than $3 rows only when no slot is left.  SQL fixes no order for it.
Batches(s) ==
  {q \in Tokens :
     /\ \A i \in DOMAIN q : q[i] \in Team(s) /\ Free(q[i], Times(q, q[i]))
     /\ \/ Len(q) = BatchSize
        \/ \A w \in Team(s) : ~Free(w, Times(q, w) + 1)}

\* setWaiting(storageID, 1), once per call.
StartWaiting(c) ==
  /\ flag' = [flag EXCEPT ![c] = TRUE]
  /\ waiting' = IF flag[c] THEN waiting
                ELSE [waiting EXCEPT ![storage[c]] = @ + 1]

\* Fault: the deferred decrement ignores the flag.
StopAnyWaiting(c) ==
  /\ flag' = [flag EXCEPT ![c] = FALSE]
  /\ waiting' = [waiting EXCEPT ![storage[c]] = IF @ > 0 THEN @ - 1 ELSE 0]

\* The deferred setWaiting(storageID, -1).
StopWaiting(c) ==
  /\ flag' = [flag EXCEPT ![c] = FALSE]
  /\ waiting' = IF flag[c] THEN [waiting EXCEPT ![storage[c]] = IF @ > 0 THEN @ - 1 ELSE 0]
                ELSE waiting

----------------------------------------------------------------------------
\* Fault: the last buffered token is never taken.
BufferedAllButOne(s) == Len(buffer[s]) > 1

\* popBufferedToken finds a token.
Buffered(s) == buffer[s] # <<>>

\* GetToken: the buffer first, the loop otherwise.
Call(c, s) ==
  /\ pc[c] \in Resting
  /\ storage' = [storage EXCEPT ![c] = s]
  /\ \/ /\ Buffered(s)
        /\ buffer' = [buffer EXCEPT ![s] = Tail(@)]
        /\ pc' = [pc EXCEPT ![c] = "got"]
     \/ /\ ~Buffered(s)
        /\ pc' = [pc EXCEPT ![c] = "loop"]
        /\ UNCHANGED buffer
  /\ UNCHANGED <<used, waiting, live, batch, age, flag>>

Cancel(c) ==
  /\ pc[c] \in InLoop /\ live[c]
  /\ live' = [live EXCEPT ![c] = FALSE]
  /\ UNCHANGED <<used, buffer, waiting, pc, storage, batch, age, flag>>

\* GetTokenBatch up to its COMMIT: the statement counts the rows committed so
\* far and selects the tokens; its inserts are not visible yet.
Select(c) ==
  /\ pc[c] = "loop" /\ live[c]
  /\ \E q \in Batches(storage[c]) :
       /\ batch' = [batch EXCEPT ![c] = q]
       /\ pc' = [pc EXCEPT ![c] = "insert"]
  /\ UNCHANGED <<used, buffer, waiting, storage, live, age, flag>>

\* Every worker is at its limit: no row is returned and nothing committed.
SelectNone(c) ==
  /\ pc[c] = "loop" /\ live[c]
  /\ \A w \in Team(storage[c]) : ~Free(w, 1)
  /\ pc' = [pc EXCEPT ![c] = "full"]
  /\ UNCHANGED <<used, buffer, waiting, storage, live, batch, age, flag>>

\* One usage row per returned token, none that counts when they are too old.
Record(c) ==
  used' = [w \in Workers |-> [a \in Ages |->
             used[w][a] + (IF a = age[c] THEN Times(batch[c], w) ELSE 0)]]

\* COMMIT.
Commit(c) ==
  /\ pc[c] = "insert"
  /\ Record(c)
  /\ age' = [age EXCEPT ![c] = 0]
  /\ pc' = [pc EXCEPT ![c] = "fetched"]
  /\ UNCHANGED <<buffer, waiting, storage, live, batch, flag>>

Return(c, how) ==
  /\ batch' = [batch EXCEPT ![c] = <<>>]
  /\ age' = [age EXCEPT ![c] = 0]
  /\ pc' = [pc EXCEPT ![c] = how]
  /\ live' = [live EXCEPT ![c] = TRUE]
  /\ StopWaiting(c)
  /\ UNCHANGED storage

\* bufferTokens(tokens[1:]) and return of &tokens[0].
Deliver(c) ==
  /\ pc[c] = "fetched"
  /\ buffer' = [buffer EXCEPT ![storage[c]] = @ \o Tail(batch[c])]
  /\ Return(c, "got")
  /\ UNCHANGED used

\* ctx.Err at the head of the loop, ctx.Done in the select.
GiveUp(c) ==
  /\ pc[c] \in {"loop", "asleep"} /\ ~live[c]
  /\ Return(c, "error")
  /\ UNCHANGED <<used, buffer>>

\* GetTokenBatch fails.  A COMMIT whose answer was lost has recorded its rows
\* all the same.
Fail(c) ==
  /\ \/ pc[c] = "loop" /\ live[c] /\ UNCHANGED used
     \/ pc[c] = "insert" /\ UNCHANGED used
     \/ pc[c] = "insert" /\ Record(c)
  /\ Return(c, "error")
  /\ UNCHANGED buffer

\* NextAvailableIn and the start of the wait.
Sleep(c) ==
  /\ pc[c] = "full"
  /\ pc' = [pc EXCEPT ![c] = "asleep"]
  /\ StartWaiting(c)
  /\ UNCHANGED <<used, buffer, storage, live, batch, age>>

\* time.After fires, after what NextAvailableIn answered or two seconds.
Wake(c) ==
  /\ pc[c] = "asleep"
  /\ pc' = [pc EXCEPT ![c] = "loop"]
  /\ UNCHANGED <<used, buffer, waiting, storage, live, batch, age, flag>>

\* Fault: the oldest rows of the window never leave it.
AgedForEver(w) ==
  [a \in Ages |-> (IF a = 0 THEN 0 ELSE used[w][a - 1])
                  + (IF a = Window - 1 THEN used[w][a] ELSE 0)]

\* created_at >= now() - interval '1 minute', one tick later.
Aged(w) == [a \in Ages |-> IF a = 0 THEN 0 ELSE used[w][a - 1]]

Tick ==
  /\ used' = [w \in Workers |-> Aged(w)]
  /\ age' = [c \in Callers |-> IF pc[c] = "insert" /\ age[c] < Window
                               THEN age[c] + 1 ELSE age[c]]
  /\ UNCHANGED <<buffer, waiting, callVars>>

----------------------------------------------------------------------------
Proceed(c) ==
  \/ Select(c) \/ SelectNone(c) \/ Commit(c) \/ Deliver(c)
  \/ Sleep(c) \/ Wake(c) \/ GiveUp(c)

Next ==
  \/ Tick
  \/ \E c \in Callers :
       Proceed(c) \/ Fail(c) \/ Cancel(c) \/ (\E s \in Storages : Call(c, s))

Spec == Init /\ [][Next]_vars

\* Goroutines run, statements return, timers fire, time goes on.  Nobody has
\* to call or to give up.
FairSpec == Spec /\ WF_vars(Tick) /\ \A c \in Callers : WF_vars(Proceed(c))

----------------------------------------------------------------------------
\* IsWaiting tells the clients that a storage is at its limit: the count is
\* the number of calls in progress that have found it so, whichever way the
\* others of the same storage returned.
WaitingIsExact ==
  \A s \in Storages :
    waiting[s] = Cardinality({c \in Callers : flag[c] /\ storage[c] = s})

\* Tokens of the buffer count as used although nobody has used them.  Only
\* callers that found the buffer empty add to it and each adds one batch less
\* the token it keeps, so it never holds more than that for every caller, no
\* matter how often and in which order they fetch.
BufferBounded ==
  \A s \in Storages : Len(buffer[s]) <= Cardinality(Callers) * (BatchSize - 1)

\* Concurrent batches do not see each other's rows, so a worker can exceed its
\* limit; the excess never accumulates beyond one batch for each of the other
\* callers.
OvershootBounded ==
  \A w \in Workers :
    Rows(w) <= RateLimit + (Cardinality(Callers) - 1)
                             * (IF BatchSize < RateLimit THEN BatchSize ELSE RateLimit)

\* Callers cannot all wait: while one is in the loop for a storage with
\* workers, a call for some storage returns sooner or later.
CallsReturn ==
  (\E c \in Callers : pc[c] \in InLoop /\ Team(storage[c]) # {})
    ~> (\E c \in Callers : pc[c] \in {"got", "error"})
============================================================================
