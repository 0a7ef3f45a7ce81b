---------------------------- MODULE StreamCache ----------------------------
(***************************************************************************)
(* downloadAndDecryptChunkCached (service/chunk_downloader.go): concurrent *)
(* range requests share a cache of decrypted chunks                        *)
(* (service/stream_chunk_cache.go) and, through singleflight, the loads of *)
(* missing ones.  A load runs under the context of the request that        *)
(* started it.                                                             *)
(*                                                                         *)
(* The data of a chunk is its key.  A load is one step with the outcomes   *)
(* of downloadAndDecryptChunk: its retries and fallback workers decide     *)
(* only which outcome it is.  "late" stands for an error that wraps        *)
(* context.DeadlineExceeded although the request lives, which the HTTP     *)
(* client of the Telegram client reports after two minutes.                *)
(***************************************************************************)
EXTENDS Naturals, Sequences, FiniteSets

CONSTANTS
  Requests,    \* loader goroutines of the players' requests
  None,        \* no request
  Keys,        \* chunks: file and position
  Size,        \* plaintext bytes of each
  MaxEntries,
  MaxBytes,
  MaxCalls,    \* bound on the calls of all requests together
  MaxLate      \* bound on the loads that time out

ASSUME KeysAssumption == Keys # {}
ASSUME SizeAssumption == Size \in [Keys -> Nat \ {0}]
ASSUME LimitsAssumption ==
  /\ MaxEntries \in Nat \ {0} /\ MaxBytes \in Nat \ {0}
  /\ MaxCalls \in Nat /\ MaxLate \in Nat

ASSUME NoneAssumption == None \notin Requests

VARIABLES
  order,       \* the cached keys, the most recently used first
  totalBytes,
  lead,        \* the request that runs the load of a key, or None
  joined,      \* the requests that wait for that load
  pc, key,     \* where each request is and the chunk it asks for
  live,        \* its context has not been cancelled
  outcome,     \* what its call, or the load it took part in, returned
  shared,      \* the third result of loads.Do, until it has been looked at
  calls, late  \* how many calls and timeouts there were

cacheVars == <<order, totalBytes>>
loadVars  == <<lead, joined>>
callVars  == <<pc, key, outcome, shared>>
vars == <<cacheVars, loadVars, callVars, live, calls, late>>

Outcomes == {"none", "data", "error", "late", "cancelled"}
Resting  == {"idle", "over"}
Loading  == {"recheck", "fetch", "store", "finish"}
Places   == Resting \cup Loading \cup {"do", "wait", "back"}

\* isContextError.
ContextErrors == {"late", "cancelled"}

Cached == {order[i] : i \in DOMAIN order}

TypeOK ==
  /\ order \in Seq(Keys)
  /\ \A i, j \in DOMAIN order : order[i] = order[j] => i = j
  /\ lead \in [Keys -> Requests \cup {None}]
  /\ joined \in [Keys -> SUBSET Requests]
  /\ pc \in [Requests -> Places] /\ key \in [Requests -> Keys]
  /\ live \in [Requests -> BOOLEAN]
  /\ outcome \in [Requests -> Outcomes] /\ shared \in [Requests -> BOOLEAN]
  /\ calls \in 0..MaxCalls /\ late \in 0..MaxLate

Init ==
  /\ order = <<>> /\ totalBytes = 0
  /\ lead = [k \in Keys |-> None] /\ joined = [k \in Keys |-> {}]
  /\ pc = [r \in Requests |-> "idle"]
  /\ key = [r \in Requests |-> CHOOSE k \in Keys : TRUE]  \* until the first call
  /\ live = [r \in Requests |-> TRUE]
  /\ outcome = [r \in Requests |-> "none"] /\ shared = [r \in Requests |-> FALSE]
  /\ calls = 0 /\ late = 0

----------------------------------------------------------------------------
(* The cache. *)

\* Where k is in the list; behind all others when it is not cached.
Position(k) ==
  IF k \in Cached THEN CHOOSE i \in DOMAIN order : order[i] = k ELSE Len(order) + 1

\* MoveToFront or PushFront: k first, the others in their order.
ToFront(k) ==
  [i \in 1..(IF Position(k) <= Len(order) THEN Len(order) ELSE Len(order) + 1) |->
     IF i = 1 THEN k ELSE IF i <= Position(k) THEN order[i - 1] ELSE order[i]]

\* The bytes of the first entries of o, for every number of them.
Bytes(o) ==
  LET b[n \in 0..Len(o)] == IF n = 0 THEN 0 ELSE b[n - 1] + Size[o[n]]
  IN  b

\* The bytes of the entries of o behind the first n.
BytesBehind(o, n) == Bytes(o)[Len(o)] - Bytes(o)[n]

\* The condition of trimLocked does not hold once n entries are left.
Fits(o, total, n) ==
  /\ n <= MaxEntries
  /\ total - BytesBehind(o, n) <= MaxBytes

\* Fault: the size of an evicted entry stays in the total.
TotalUntouched(o, total, n) == total

TotalAfter(o, total, n) == total - BytesBehind(o, n)

\* trimLocked stops at the longest list that fits, or at the empty one.
Trim(o, total) ==
  \E n \in 0..Len(o) :
    /\ Fits(o, total, n) \/ n = 0
    /\ \A m \in (n + 1)..Len(o) : ~Fits(o, total, m)
    /\ order' = SubSeq(o, 1, n)
    /\ totalBytes' = TotalAfter(o, total, n)

\* streamChunkCache.set: larger chunks than the whole cache are ignored; a
\* chunk that is there is replaced by itself.
Set(k) ==
  IF Size[k] > MaxBytes THEN UNCHANGED cacheVars
  ELSE Trim(ToFront(k), IF k \in Cached THEN totalBytes ELSE totalBytes + Size[k])

----------------------------------------------------------------------------
(* A call. *)

\* The first cache.get of a call.
Ask(r, k) ==
  /\ pc[r] \in Resting /\ calls < MaxCalls
  /\ calls' = calls + 1
  /\ key' = [key EXCEPT ![r] = k]
  /\ live' = [live EXCEPT ![r] = TRUE]
  /\ IF k \in Cached
     THEN /\ order' = ToFront(k)
          /\ pc' = [pc EXCEPT ![r] = "over"]
          /\ outcome' = [outcome EXCEPT ![r] = "data"]
     ELSE /\ pc' = [pc EXCEPT ![r] = "do"]
          /\ outcome' = [outcome EXCEPT ![r] = "none"]
          /\ UNCHANGED order
  /\ UNCHANGED <<totalBytes, loadVars, shared, late>>

Cancel(r) ==
  /\ pc[r] \notin Resting /\ live[r]
  /\ live' = [live EXCEPT ![r] = FALSE]
  /\ UNCHANGED <<cacheVars, loadVars, callVars, calls, late>>

\* loads.Do: one request runs the function, the others wait for it.  Waiting
\* does not look at their own contexts.
Do(r) ==
  /\ pc[r] = "do"
  /\ IF lead[key[r]] = None
     THEN /\ lead' = [lead EXCEPT ![key[r]] = r]
          /\ pc' = [pc EXCEPT ![r] = "recheck"]
          /\ UNCHANGED joined
     ELSE /\ joined' = [joined EXCEPT ![key[r]] = @ \cup {r}]
          /\ pc' = [pc EXCEPT ![r] = "wait"]
          /\ UNCHANGED lead
  /\ UNCHANGED <<cacheVars, key, live, outcome, shared, calls, late>>

LoadReturns(r, what) ==
  /\ pc' = [pc EXCEPT ![r] = "finish"]
  /\ outcome' = [outcome EXCEPT ![r] = what]

\* Fault: the function does not look at the cache again.
NoRecheck(r) ==
  /\ pc[r] = "recheck"
  /\ pc' = [pc EXCEPT ![r] = "fetch"]
  /\ UNCHANGED <<cacheVars, loadVars, key, live, outcome, shared, calls, late>>

\* The cache.get inside the function.
Recheck(r) ==
  /\ pc[r] = "recheck"
  /\ IF key[r] \in Cached
     THEN order' = ToFront(key[r]) /\ LoadReturns(r, "data")
     ELSE pc' = [pc EXCEPT ![r] = "fetch"] /\ UNCHANGED <<order, outcome>>
  /\ UNCHANGED <<totalBytes, loadVars, key, live, shared, calls, late>>

Fetch(r) ==
  /\ pc[r] = "fetch"
  /\ pc' = [pc EXCEPT ![r] = "store"]
  /\ UNCHANGED <<cacheVars, loadVars, key, live, outcome, shared, calls, late>>

\* downloadAndDecryptChunk fails: with the error of the request's context, of
\* the last attempt, or of the cipher.
FetchFails(r) ==
  /\ pc[r] = "fetch"
  /\ \/ LoadReturns(r, "error") /\ UNCHANGED late
     \/ ~live[r] /\ LoadReturns(r, "cancelled") /\ UNCHANGED late
     \/ live[r] /\ late < MaxLate /\ LoadReturns(r, "late") /\ late' = late + 1
  /\ UNCHANGED <<cacheVars, loadVars, key, live, shared, calls>>

\* cache.set.
Store(r) ==
  /\ pc[r] = "store"
  /\ Set(key[r])
  /\ LoadReturns(r, "data")
  /\ UNCHANGED <<loadVars, key, live, shared, calls, late>>

\* singleflight forgets the call and hands its results to all who take part.
Finish(r) ==
  LET k == key[r]
      Part == joined[k] \cup {r}
  IN  /\ pc[r] = "finish"
      /\ lead' = [lead EXCEPT ![k] = None]
      /\ joined' = [joined EXCEPT ![k] = {}]
      /\ pc' = [q \in Requests |-> IF q \in Part THEN "back" ELSE pc[q]]
      /\ outcome' = [q \in Requests |-> IF q \in Part THEN outcome[r] ELSE outcome[q]]
      /\ shared' = [q \in Requests |-> IF q \in Part THEN joined[k] # {} ELSE shared[q]]
      /\ UNCHANGED <<cacheVars, key, live, calls, late>>

\* Fault: whoever shared a cancelled load fails with it.
NeverAgain(r) == FALSE

\* Fault: the request's own context is not consulted.
AgainEvenIfDead(r) == shared[r] /\ outcome[r] \in ContextErrors

\* The condition of the retry.
Again(r) == shared[r] /\ outcome[r] \in ContextErrors /\ live[r]

\* After loads.Do: return, or try again under the own context.
Back(r) ==
  /\ pc[r] = "back"
  /\ IF Again(r)
     THEN /\ pc' = [pc EXCEPT ![r] = "do"]
          /\ outcome' = [outcome EXCEPT ![r] = "none"]
     ELSE /\ pc' = [pc EXCEPT ![r] = "over"]
          /\ UNCHANGED outcome
  /\ shared' = [shared EXCEPT ![r] = FALSE]
  /\ UNCHANGED <<cacheVars, loadVars, key, live, calls, late>>

----------------------------------------------------------------------------
Load(r) == Recheck(r) \/ Fetch(r) \/ FetchFails(r) \/ Store(r) \/ Finish(r)

Proceed(r) == Do(r) \/ Load(r) \/ Back(r)

Next ==
  \E r \in Requests : Proceed(r) \/ Cancel(r) \/ \E k \in Keys : Ask(r, k)

Spec == Init /\ [][Next]_vars

\* Goroutines run and loads end.
FairSpec == Spec /\ \A r \in Requests : WF_vars(Proceed(r))

----------------------------------------------------------------------------
\* A dropped request never fails another one: a call returns a cancellation
\* only if its own request was cancelled.
NoForeignCancellation ==
  \A r \in Requests : pc[r] = "over" /\ outcome[r] = "cancelled" => ~live[r]

\* A chunk is loaded by one request at a time and not while it is cached,
\* although a request looks at the cache before it joins the load and other
\* loads come and go in between.
LoadedOnce ==
  \A r \in Requests : pc[r] \in {"fetch", "store"} =>
    /\ key[r] \notin Cached
    /\ \A q \in Requests \ {r} : pc[q] \in {"fetch", "store"} => key[q] # key[r]

\* The cache keeps within both limits and knows how much it holds.
CacheBounded ==
  /\ Len(order) <= MaxEntries /\ totalBytes <= MaxBytes
  /\ totalBytes = BytesBehind(order, 0)

\* Every call returns: a request that retries after the cancellation or the
\* timeout of others ends up with a load that answers it.  Calls are bounded,
\* so at last all have returned.
CallsReturn == <>[](\A r \in Requests : pc[r] \in Resting)
============================================================================
