-------------------------- MODULE ChunkLoadProofs ---------------------------
(***************************************************************************)
(* How the chunks of a file are loaded: runOrderedJobs for any number of   *)
(* jobs and workers, and the cache of StreamCache, which every job asks, for*)
(* any number of requests and chunks.                                      *)
(*                                                                         *)
(* Jobs.  While the group has no error, every job that was fed is somewhere*)
(* (Complete); when the channel is closed and drained, that can only be    *)
(* below nextIndex or parked; the next one is not parked when the caller   *)
(* receives again (NothingDue); hence nextIndex has passed the last job, and*)
(* without a handler error the handler has seen it (InStep).               *)
(*                                                                         *)
(* Cache.  A chunk is loaded once, and a dropped request fails nobody else.*)
(* Both rest on singleflight's books: a key has a leader exactly while that*)
(* request runs its load, and those who joined it wait for that key.       *)
(*                                                                         *)
(* Bytes.  The cache keeps its limits, and its total is the size of what   *)
(* it holds: the bytes of the first entries are added up by induction over *)
(* the list (BytesToFront, BytesOfFirst).                                  *)
(***************************************************************************)
EXTENDS OrderedJobs, StreamCache, WellFoundedInduction, TLAPS

----------------------------------------------------------------------------
(* Jobs in order.                                                          *)

Busy == {w \in Workers : worker[w] \in {"loading", "sending"}}

Placed(i) == i < next \/ i \in buffered \cup pending \/ \E w \in Busy : job[w] = i

\* No fed job is lost while the group has no error.
Complete == groupErr = "none" => \A i \in 1..fed : Placed(i)

\* A busy worker has a job; the feeder stops early only with an error.
Feeding ==
  /\ \A w \in Busy : job[w] # 0
  /\ ~feeding /\ groupErr = "none" => fed = N

\* The caller receives only when the next result is not parked.
NothingDue == ~draining => next \notin pending

InStep == ~handleErr => last = next - 1

\* What has been established when the call returns.
AtReturn ==
  /\ result # "none" => closed /\ ~draining
  /\ result = "ok" => last = N

JobsIInv ==
  /\ JobsTypeOK /\ NoneLeftBehind /\ Complete /\ Feeding
  /\ NothingDue /\ InStep /\ AtReturn

\* The initial state: nothing is fed, nothing is due.
LEMMA JobsInitIInv == JobsInit => JobsIInv
<1> SUFFICES ASSUME JobsInit PROVE JobsIInv
  OBVIOUS
<1>1. JobsTypeOK
  <2>1. 0 \in 0..N /\ 1 \in 1..(N + 1)
    BY JobsAssumption
  <2>2. job \in [Workers -> 0..N]
    BY <2>1 DEF JobsInit
  <2> QED
    BY <2>1, <2>2 DEF JobsInit, JobsTypeOK
<1> QED
  BY <1>1 DEF JobsInit, JobsIInv, NoneLeftBehind, Complete, Feeding, NothingDue, InStep,
     AtReturn, Busy

\* Feeder and workers: a job is handed on or its loss sets groupErr.
LEMMA GroupStep ==
  ASSUME JobsIInv, NEW w \in Workers, Work(w) \/ FeederStops
  PROVE  JobsIInv'
<1> USE JobsAssumption DEF JobsIInv, Busy, Placed, FirstOf, groupVars, callerVars
<1> SUFFICES ASSUME ~closed
             PROVE  JobsIInv'
  BY DEF NoneLeftBehind, Work, Feed, LoadJob, LoadFails, SendResult, SendGivesUp,
     WorkerReturns, FeederStops
<1>a. result = "none"
  BY DEF AtReturn
<1>1. CASE Feed(w)
  <2>1. JobsTypeOK' BY <1>1 DEF JobsTypeOK, Feed, AllFed
  <2>2. Complete'
    BY <1>1 DEF Complete, JobsTypeOK, Feed
  <2> QED
    BY <1>1, <1>a, <2>1, <2>2 DEF Feed, AllFed, JobsTypeOK, NoneLeftBehind, Feeding,
       NothingDue, InStep, AtReturn
<1>2. CASE FeederStops
  BY <1>2, <1>a DEF FeederStops, AllFed, JobsTypeOK, NoneLeftBehind, Complete,
     Feeding, NothingDue, InStep, AtReturn
<1>3. CASE LoadJob(w)
  BY <1>3, <1>a DEF LoadJob, JobsTypeOK, NoneLeftBehind, Complete, Feeding, NothingDue,
     InStep, AtReturn
<1>4. CASE LoadFails(w)
  BY <1>4, <1>a DEF LoadFails, JobsTypeOK, NoneLeftBehind, Complete, Feeding,
     NothingDue, InStep, AtReturn
<1>5. CASE SendResult(w)
  <2>0. job[w] \in 1..N /\ 0 \in 0..N
    BY <1>5 DEF JobsTypeOK, SendResult, Feeding
  <2>1. JobsTypeOK'
    BY <1>5, <2>0 DEF JobsTypeOK, SendResult
  <2>2. Complete'
    BY <1>5 DEF Complete, JobsTypeOK, SendResult
  <2> QED
    BY <1>5, <1>a, <2>1, <2>2 DEF SendResult, JobsTypeOK, NoneLeftBehind, Feeding,
       NothingDue, InStep, AtReturn
<1>6. CASE SendGivesUp(w)
  BY <1>6, <1>a DEF SendGivesUp, JobsTypeOK, NoneLeftBehind, Complete, Feeding,
     NothingDue, InStep, AtReturn
<1>7. CASE WorkerReturns(w)
  BY <1>7, <1>a DEF WorkerReturns, JobsTypeOK, NoneLeftBehind, Complete, Feeding,
     NothingDue, InStep, AtReturn
<1> QED
  BY <1>1, <1>2, <1>3, <1>4, <1>5, <1>6, <1>7 DEF Work

\* The caller's loop: a result moves from the channel to the parked ones and
\* from there behind nextIndex.
LEMMA CollectStep ==
  ASSUME JobsIInv, Collect
  PROVE  JobsIInv'
<1> USE JobsAssumption DEF JobsIInv, Busy, Placed, groupVars, callerVars
<1>1. CASE Receive
  BY <1>1 DEF Receive, JobsTypeOK, NoneLeftBehind, Complete, Feeding, NothingDue,
     InStep, AtReturn
<1>2. CASE Handle
  <2>1. PICK i \in Turn : Handle!2!(i)
    BY <1>2 DEF Handle
  <2>2. i = next /\ i \in pending /\ next' = next + 1 /\ pending' = pending \ {i}
    BY <2>1 DEF Turn
  <2>a. i \in 0..N /\ next + 1 \in 1..(N + 1)
    BY <2>2 DEF JobsTypeOK
  <2>b. last' \in 0..N /\ handleErr' \in BOOLEAN
    BY <2>1, <2>a DEF JobsTypeOK
  <2>3. JobsTypeOK'
    BY <1>2, <2>2, <2>a, <2>b DEF Handle, JobsTypeOK
  <2>4. Complete'
    BY <1>2, <2>2 DEF Handle, JobsTypeOK, Complete
  <2> QED
    BY <1>2, <2>1, <2>2, <2>3, <2>4 DEF Handle, JobsTypeOK, NoneLeftBehind, Feeding,
       NothingDue, InStep, AtReturn
<1>3. CASE DrainEnds
  BY <1>3 DEF DrainEnds, Turn, JobsTypeOK, NoneLeftBehind, Complete, Feeding,
     NothingDue, InStep, AtReturn
<1>4. CASE Return
  <2>1. result' = "ok" => next = N + 1
    BY <1>4 DEF Return, JobsTypeOK, NoneLeftBehind, Complete, Feeding, NothingDue
  <2> QED
    BY <1>4, <2>1 DEF Return, JobsTypeOK, NoneLeftBehind, Complete, Feeding,
       NothingDue, InStep, AtReturn
<1> QED
  BY <1>1, <1>2, <1>3, <1>4 DEF Collect

\* Every step of the specification keeps the invariant.
LEMMA JobsNextIInv == JobsIInv /\ [JobsNext]_jobsVars => JobsIInv'
<1> SUFFICES ASSUME JobsIInv, [JobsNext]_jobsVars
             PROVE  JobsIInv'
  OBVIOUS
<1> USE DEF JobsIInv, Busy, Placed, JobsTypeOK, NoneLeftBehind, Complete, Feeding,
            NothingDue, InStep, AtReturn
<1>1. CASE CancelJobs
  BY <1>1 DEF CancelJobs, groupVars, callerVars
<1>2. CASE CloseResults
  BY <1>2 DEF CloseResults, GroupDone, groupVars, callerVars
<1>3. CASE UNCHANGED jobsVars
  BY <1>3 DEF jobsVars, groupVars, callerVars
<1> QED
  BY <1>1, <1>2, <1>3, GroupStep, CollectStep, WorkersAssumption DEF JobsNext, Returned

\* The invariant holds in every reachable state.
THEOREM JobsInvariance == JobsSpec => []JobsIInv
<1>1. JobsInit => JobsIInv BY JobsInitIInv
<1>2. JobsIInv /\ [JobsNext]_jobsVars => JobsIInv' BY JobsNextIInv
<1> QED BY <1>1, <1>2, PTL DEF JobsSpec

\* The variables keep their types, whatever the numbers of jobs and workers.
THEOREM JobsTypeCorrect == JobsSpec => []JobsTypeOK
<1>1. JobsIInv => JobsTypeOK BY DEF JobsIInv
<1> QED BY <1>1, JobsInvariance, PTL

\* Feeder and workers are gone when the result channel is closed and when the
\* call returns: none outlives it, none sends on a closed channel.
THEOREM NobodyOutlives == JobsSpec => []NoneLeftBehind
<1>1. JobsIInv => NoneLeftBehind BY DEF JobsIInv
<1> QED BY <1>1, JobsInvariance, PTL

\* runOrderedJobs implements InOrder: results are handled in input order, and
\* success means that every one was.
THEOREM ImplementsInOrder == JobsSpec => KeepsOrder
<1> USE JobsAssumption DEF Promise!Init, Promise!Next, Promise!Handle,
        Promise!Succeed, Promise!Fail, Outcome
<1>1. JobsInit => Promise!Init
  BY DEF JobsInit
<1>2. JobsIInv /\ [JobsNext]_jobsVars => [Promise!Next]_<<last, Outcome>>
  <2> SUFFICES ASSUME JobsIInv, [JobsNext]_jobsVars
               PROVE  [Promise!Next]_<<last, Outcome>>
    OBVIOUS
  <2>1. CASE Handle
    BY <2>1 DEF Handle, Turn, JobsIInv, JobsTypeOK, InStep, AtReturn
  <2>2. CASE Return
    <3>1. JobsIInv'
      BY JobsNextIInv
    <3> QED
      BY <2>2, <3>1 DEF Return, JobsIInv, JobsTypeOK, AtReturn
  <2>3. CASE UNCHANGED <<last, result>>
    BY <2>3
  <2>4. JobsNext => Handle \/ Return \/ UNCHANGED <<last, result>>
    BY DEF JobsNext, CancelJobs, FeederStops, CloseResults, Collect, Receive, DrainEnds,
       Returned, Work, Feed, LoadJob, LoadFails, SendResult, SendGivesUp,
       WorkerReturns, groupVars, callerVars, jobsVars
  <2> QED
    BY <2>1, <2>2, <2>3, <2>4 DEF jobsVars, callerVars
<1> QED
  BY <1>1, <1>2, JobsInvariance, PTL DEF JobsSpec, KeepsOrder, Promise!Spec

----------------------------------------------------------------------------
(* The cache.                                                              *)

Leaders ==
  /\ \A k \in Keys : lead[k] # None => pc[lead[k]] \in Loading /\ key[lead[k]] = k
  /\ \A r \in Requests : pc[r] \in Loading => lead[key[r]] = r

Waiters == \A k \in Keys : \A r \in joined[k] : pc[r] = "wait" /\ key[r] = k

NotCached == \A r \in Requests : pc[r] \in {"fetch", "store"} => key[r] \notin Cached

\* Whoever holds a cancellation caused it or is about to try again.
Blame ==
  \A r \in Requests : outcome[r] = "cancelled" =>
    /\ pc[r] \in {"finish", "over"} => ~live[r]
    /\ pc[r] = "back" => shared[r] \/ ~live[r]

IInv == TypeOK /\ Leaders /\ Waiters /\ NotCached /\ Blame

----------------------------------------------------------------------------
(* The list of the cache. *)

\* What holds of a list of the cached keys, before and after a step.
IsList(o) == o \in Seq(Keys) /\ \A i, j \in DOMAIN o : o[i] = o[j] => i = j

\* Position finds a cached key and points behind the list for another one.
LEMMA PositionFinds ==
  ASSUME NEW k \in Keys, order \in Seq(Keys)
  PROVE  /\ Position(k) \in 1..(Len(order) + 1)
         /\ Position(k) <= Len(order) => order[Position(k)] = k
         /\ Position(k) > Len(order) => k \notin Cached
<1>1. CASE k \in Cached
  <2>1. \E i \in DOMAIN order : order[i] = k
    BY <1>1 DEF Cached
  <2>2. Position(k) \in DOMAIN order /\ order[Position(k)] = k
    BY <1>1, <2>1 DEF Position
  <2> QED BY <2>2
<1>2. CASE k \notin Cached
  BY <1>2 DEF Position
<1> QED BY <1>1, <1>2

\* MoveToFront and PushFront link an element once and lose or add no other.
LEMMA ToFrontKeepsList ==
  ASSUME NEW k \in Keys, IsList(order)
  PROVE  /\ IsList(ToFront(k))
         /\ \A i \in DOMAIN ToFront(k) : ToFront(k)[i] \in Cached \cup {k}
<1> DEFINE p == Position(k)
           n == IF p <= Len(order) THEN Len(order) ELSE Len(order) + 1
<1>1. /\ order \in Seq(Keys) /\ Len(order) \in Nat /\ DOMAIN order = 1..Len(order)
      /\ \A i \in 1..Len(order) : order[i] \in Keys
      /\ \A i, j \in 1..Len(order) : order[i] = order[j] => i = j
  BY DEF IsList
<1>2. /\ p \in 1..(Len(order) + 1)
      /\ p <= Len(order) => order[p] = k
      /\ p > Len(order) => \A i \in 1..Len(order) : order[i] # k
  BY <1>1, PositionFinds DEF Cached
<1> HIDE DEF p
<1>3. n \in Nat
  BY <1>1
<1>4. ToFront(k) = [i \in 1..n |-> IF i = 1 THEN k ELSE IF i <= p THEN order[i - 1] ELSE order[i]]
  BY DEF ToFront, p
<1>5. \A i \in 1..n : /\ i # 1 /\ i <= p => i - 1 \in 1..Len(order)
                      /\ i # 1 /\ ~(i <= p) => i \in 1..Len(order)
  BY <1>1, <1>2
<1>6. \A i \in 1..n : ToFront(k)[i] \in Keys
  BY <1>1, <1>4, <1>5
<1>7. ToFront(k) \in Seq(Keys) /\ DOMAIN ToFront(k) = 1..n
  BY <1>3, <1>4, <1>6
<1>8. \A i, j \in 1..n : ToFront(k)[i] = ToFront(k)[j] => i = j
  <2>1. \A i \in 1..n : i # 1 => ToFront(k)[i] # k
    <3> SUFFICES ASSUME NEW i \in 1..n, i # 1 PROVE ToFront(k)[i] # k
      OBVIOUS
    <3>1. CASE i <= p
      BY <3>1, <1>1, <1>2, <1>3, <1>4, <1>5
    <3>2. CASE ~(i <= p)
      BY <3>2, <1>1, <1>2, <1>3, <1>4, <1>5
    <3> QED BY <3>1, <3>2
  <2>2. \A i, j \in 1..n : i # 1 /\ j # 1 /\ ToFront(k)[i] = ToFront(k)[j] => i = j
    BY <1>1, <1>2, <1>3, <1>4, <1>5
  <2>3. \A i \in 1..n : i = 1 => ToFront(k)[i] = k
    BY <1>4
  <2> QED BY <2>1, <2>2, <2>3
<1>9. \A i \in 1..n : ToFront(k)[i] \in Cached \cup {k}
  BY <1>1, <1>4, <1>5 DEF Cached
<1> HIDE DEF n
<1> QED BY <1>7, <1>8, <1>9 DEF IsList

\* A step that trims a list leaves a list with some of its elements.
LEMMA TrimKeepsList ==
  ASSUME NEW o, IsList(o), NEW total, Trim(o, total)
  PROVE  IsList(order') /\ \A i \in DOMAIN order' : \E j \in DOMAIN o : order'[i] = o[j]
<1>1. PICK n \in 0..Len(o) : order' = SubSeq(o, 1, n)
  BY DEF Trim
<1>2. o \in Seq(Keys) /\ Len(o) \in Nat /\ DOMAIN o = 1..Len(o)
  BY DEF IsList
<1>3. /\ order' \in Seq(Keys) /\ DOMAIN order' = 1..n
      /\ \A i \in 1..n : order'[i] = o[i] /\ i \in 1..Len(o)
  BY <1>1, <1>2
<1> QED BY <1>2, <1>3 DEF IsList

\* What a step may do to the cache when it uses key k.
Uses(k) == IsList(order') /\ Cached' \subseteq Cached \cup {k}

\* A hit moves its chunk to the front and changes nothing else.
LEMMA TouchUses ==
  ASSUME NEW k \in Keys, IsList(order), order' = ToFront(k)
  PROVE  Uses(k)
BY ToFrontKeepsList DEF Uses, Cached

\* A chunk that is set is at the front, unless the trim takes it as well.
LEMMA SetUses ==
  ASSUME NEW k \in Keys, IsList(order), Set(k)
  PROVE  Uses(k)
<1>1. CASE Size[k] > MaxBytes
  BY <1>1 DEF Set, Uses, IsList, Cached, cacheVars
<1>2. CASE ~(Size[k] > MaxBytes)
  <2> DEFINE o == ToFront(k)
  <2>1. IsList(o) /\ \A i \in DOMAIN o : o[i] \in Cached \cup {k}
    BY ToFrontKeepsList
  <2>2. \E total : Trim(o, total)
    BY <1>2 DEF Set
  <2> HIDE DEF o
  <2>3. IsList(order') /\ \A i \in DOMAIN order' : \E j \in DOMAIN o : order'[i] = o[j]
    BY <2>1, <2>2, TrimKeepsList
  <2> QED BY <2>1, <2>3 DEF Uses, Cached
<1> QED BY <1>1, <1>2

----------------------------------------------------------------------------
(* The invariant. *)

\* At first the cache is empty and nobody loads.
LEMMA InitIInv == Init => IInv
<1> SUFFICES ASSUME Init PROVE IInv
  OBVIOUS
<1>1. \A k \in Keys : lead[k] = None /\ joined[k] = {}
  BY DEF Init
<1>2. TypeOK
  <2>1. ASSUME NEW r \in Requests PROVE key[r] \in Keys
    <3>1. Keys # {}
      BY KeysAssumption
    <3> QED BY <3>1 DEF Init
  <2>2. key \in [Requests -> Keys]
    BY <2>1 DEF Init
  <2> QED BY <2>2, LimitsAssumption DEF Init, TypeOK, Places, Resting, Outcomes
<1>3. \A r \in Requests : pc[r] = "idle" /\ outcome[r] = "none"
  BY DEF Init
<1> QED BY <1>1, <1>2, <1>3 DEF IInv, Leaders, Waiters, NotCached, Blame, Loading

\* A new call starts with a context of its own and no result.
LEMMA AskStep ==
  ASSUME IInv, NEW r \in Requests, NEW k \in Keys, Ask(r, k)
  PROVE  IInv'
<1>1. TypeOK /\ Leaders /\ Waiters /\ NotCached /\ Blame /\ IsList(order)
  BY DEF IInv, TypeOK, IsList
<1>2. IsList(order') /\ Cached' \subseteq Cached
  <2>1. CASE k \in Cached
    <3>1. Uses(k)
      BY <2>1, <1>1, TouchUses DEF Ask
    <3> QED BY <3>1, <2>1 DEF Uses
  <2>2. CASE k \notin Cached
    BY <2>2, <1>1 DEF Ask, IsList, Cached
  <2> QED BY <2>1, <2>2
<1>3. /\ pc[r] \in Resting /\ pc'[r] \in {"over", "do"} /\ outcome'[r] \in {"none", "data"}
      /\ pc' = [pc EXCEPT ![r] = pc'[r]] /\ outcome' = [outcome EXCEPT ![r] = outcome'[r]]
      /\ key' = [key EXCEPT ![r] = k] /\ live' = [live EXCEPT ![r] = TRUE]
      /\ calls < MaxCalls /\ calls' = calls + 1
      /\ UNCHANGED <<lead, joined, shared, late>>
  BY <1>1 DEF Ask, TypeOK, loadVars
<1>4. TypeOK'
  <2>1. order' \in Seq(Keys) /\ \A i, j \in DOMAIN order' : order'[i] = order'[j] => i = j
    BY <1>2 DEF IsList
  <2>2. calls' \in 0..MaxCalls
    BY <1>1, <1>3, LimitsAssumption DEF TypeOK
  <2>3. pc'[r] \in Places /\ outcome'[r] \in Outcomes
    BY <1>3 DEF Places, Resting, Outcomes
  <2>4. pc' \in [Requests -> Places] /\ outcome' \in [Requests -> Outcomes]
    BY <1>1, <1>3, <2>3 DEF TypeOK
  <2>5. key' \in [Requests -> Keys] /\ live' \in [Requests -> BOOLEAN]
    BY <1>1, <1>3 DEF TypeOK
  <2> QED BY <1>1, <1>3, <2>1, <2>2, <2>4, <2>5 DEF TypeOK
<1>5. Leaders'
  BY <1>1, <1>3, NoneAssumption DEF TypeOK, Leaders, Loading, Resting
<1>6. Waiters'
  BY <1>1, <1>3 DEF TypeOK, Waiters, Resting
<1>7. NotCached'
  BY <1>1, <1>2, <1>3 DEF TypeOK, NotCached
<1>8. Blame'
  BY <1>1, <1>3 DEF TypeOK, Blame
<1> QED BY <1>4, <1>5, <1>6, <1>7, <1>8 DEF IInv

\* A cancelled request keeps its place, whatever others wait for there.
LEMMA CancelStep ==
  ASSUME IInv, NEW r \in Requests, Cancel(r)
  PROVE  IInv'
<1>1. /\ live' = [live EXCEPT ![r] = FALSE]
      /\ UNCHANGED <<order, totalBytes, lead, joined, pc, key, outcome, shared, calls, late>>
  BY DEF Cancel, cacheVars, loadVars, callVars
<1>2. Cached' = Cached
  BY <1>1 DEF Cached
<1> QED BY <1>1, <1>2 DEF IInv, TypeOK, Leaders, Waiters, NotCached, Blame

\* A request becomes the leader of its key only when there is none.
LEMMA DoStep ==
  ASSUME IInv, NEW r \in Requests, Do(r)
  PROVE  IInv'
<1>1. TypeOK /\ Leaders /\ Waiters /\ NotCached /\ Blame /\ key[r] \in Keys
  BY DEF IInv, TypeOK
<1>2. UNCHANGED <<order, totalBytes, key, live, outcome, shared, calls, late>> /\ Cached' = Cached
  BY DEF Do, cacheVars, Cached
<1>3. CASE lead[key[r]] = None
  <2>1. /\ lead' = [lead EXCEPT ![key[r]] = r] /\ pc' = [pc EXCEPT ![r] = "recheck"]
        /\ joined' = joined /\ pc[r] = "do"
    BY <1>3 DEF Do
  <2>2. TypeOK'
    BY <1>1, <1>2, <2>1 DEF TypeOK, Places, Loading
  <2>3. Leaders'
    BY <1>1, <1>2, <1>3, <2>1, NoneAssumption DEF TypeOK, Leaders, Loading
  <2>4. Waiters' /\ NotCached' /\ Blame'
    BY <1>1, <1>2, <2>1 DEF TypeOK, Waiters, NotCached, Blame
  <2> QED BY <2>2, <2>3, <2>4 DEF IInv
<1>4. CASE lead[key[r]] # None
  <2>1. /\ joined' = [joined EXCEPT ![key[r]] = @ \cup {r}] /\ pc' = [pc EXCEPT ![r] = "wait"]
        /\ lead' = lead /\ pc[r] = "do"
    BY <1>4 DEF Do
  <2>2. TypeOK'
    BY <1>1, <1>2, <2>1 DEF TypeOK, Places
  <2>3. Leaders'
    BY <1>1, <1>2, <2>1, NoneAssumption DEF TypeOK, Leaders, Loading
  <2>4. Waiters' /\ NotCached' /\ Blame'
    BY <1>1, <1>2, <2>1 DEF TypeOK, Waiters, NotCached, Blame
  <2> QED BY <2>2, <2>3, <2>4 DEF IInv
<1> QED BY <1>3, <1>4

\* What every step of a load but the last keeps: its books, and everything
\* of the other requests.
Within(r) ==
  /\ pc[r] \in Loading /\ pc'[r] \in Loading
  /\ pc' = [pc EXCEPT ![r] = pc'[r]]
  /\ outcome'[r] \in Outcomes /\ outcome' = [outcome EXCEPT ![r] = outcome'[r]]
  /\ late' \in 0..MaxLate
  /\ UNCHANGED <<lead, joined, key, live, shared, calls>>

\* A step inside a load keeps the books of singleflight.
LEMMA WithinStep ==
  ASSUME IInv, NEW r \in Requests, Within(r), Uses(key[r]),
         pc'[r] \in {"fetch", "store"} => key[r] \notin Cached',
         pc'[r] = "finish" /\ outcome'[r] = "cancelled" => ~live[r]
  PROVE  IInv'
<1>1. TypeOK /\ Leaders /\ Waiters /\ NotCached /\ Blame /\ key[r] \in Keys
  BY DEF IInv, TypeOK
<1>2. TypeOK'
  BY <1>1 DEF TypeOK, Within, Uses, IsList, Places, Loading
<1>3. Leaders' /\ Waiters'
  BY <1>1, NoneAssumption DEF TypeOK, Within, Leaders, Waiters, Loading
<1>4. NotCached'
  <2> SUFFICES ASSUME NEW q \in Requests, q # r, pc'[q] \in {"fetch", "store"}
               PROVE  key'[q] \notin Cached'
    BY DEF NotCached, Within
  <2>1. pc[q] \in {"fetch", "store"} /\ key'[q] = key[q] /\ key[q] \notin Cached
    BY <1>1 DEF Within, NotCached, TypeOK
  <2>2. key[q] # key[r]
    BY <1>1, <2>1 DEF Within, Leaders, Loading
  <2> QED BY <2>1, <2>2 DEF Uses
<1>5. Blame'
  BY <1>1 DEF TypeOK, Within, Blame, Loading
<1> QED BY <1>2, <1>3, <1>4, <1>5 DEF IInv

\* The second look at the cache, under the leadership that keeps others out.
LEMMA RecheckStep ==
  ASSUME IInv, NEW r \in Requests, Recheck(r)
  PROVE  IInv'
<1>1. TypeOK /\ IsList(order) /\ key[r] \in Keys
  BY DEF IInv, TypeOK, IsList
<1>2. CASE key[r] \in Cached
  <2>1. Uses(key[r])
    BY <1>1, <1>2, TouchUses DEF Recheck
  <2>2. Within(r) /\ pc'[r] = "finish" /\ outcome'[r] = "data"
    BY <1>1, <1>2 DEF Recheck, LoadReturns, Within, Loading, Outcomes, TypeOK, loadVars
  <2> QED BY <2>1, <2>2, WithinStep
<1>3. CASE key[r] \notin Cached
  <2>1. Uses(key[r]) /\ Cached' = Cached
    BY <1>1, <1>3 DEF Recheck, Uses, IsList, Cached
  <2>2. Within(r) /\ pc'[r] = "fetch"
    BY <1>1, <1>3 DEF Recheck, Within, Loading, TypeOK, loadVars
  <2> QED BY <1>3, <2>1, <2>2, WithinStep
<1> QED BY <1>2, <1>3

\* A fetch ends with the chunk, an error or a cancellation of its own request.
LEMMA FetchStep ==
  ASSUME IInv, NEW r \in Requests, Fetch(r) \/ FetchFails(r)
  PROVE  IInv'
<1>1. TypeOK /\ IsList(order) /\ key[r] \in Keys /\ NotCached
  BY DEF IInv, TypeOK, IsList
<1>2. Uses(key[r]) /\ Cached' = Cached
  BY <1>1 DEF Fetch, FetchFails, cacheVars, Uses, IsList, Cached
<1>3. CASE Fetch(r)
  <2>1. Within(r) /\ pc'[r] = "store" /\ key[r] \notin Cached
    BY <1>1, <1>3 DEF Fetch, Within, Loading, TypeOK, loadVars, NotCached
  <2> QED BY <1>2, <2>1, WithinStep
<1>4. CASE FetchFails(r)
  <2>1. PICK what \in {"error", "late", "cancelled"} :
          LoadReturns(r, what) /\ (what = "cancelled" => ~live[r])
    BY <1>4 DEF FetchFails
  <2>2. late' \in 0..MaxLate
    BY <1>1, <1>4, LimitsAssumption DEF FetchFails, TypeOK
  <2>3. Within(r) /\ pc'[r] = "finish" /\ outcome'[r] = what
    BY <1>1, <1>4, <2>1, <2>2
    DEF FetchFails, LoadReturns, Within, Loading, Outcomes, TypeOK, loadVars
  <2> QED BY <1>2, <2>1, <2>3, WithinStep
<1> QED BY <1>3, <1>4

\* A chunk is stored by the leader of its key, who alone had loaded it.
LEMMA StoreStep ==
  ASSUME IInv, NEW r \in Requests, Store(r)
  PROVE  IInv'
<1>1. TypeOK /\ IsList(order) /\ key[r] \in Keys
  BY DEF IInv, TypeOK, IsList
<1>2. Uses(key[r])
  BY <1>1, SetUses DEF Store
<1>3. Within(r) /\ pc'[r] = "finish" /\ outcome'[r] = "data"
  BY <1>1 DEF Store, LoadReturns, Within, Loading, Outcomes, TypeOK, loadVars
<1> QED BY <1>2, <1>3, WithinStep

\* Those who receive a cancellation know that it was shared.
LEMMA FinishStep ==
  ASSUME IInv, NEW r \in Requests, Finish(r)
  PROVE  IInv'
<1> DEFINE k == key[r]
           Part == joined[k] \cup {r}
<1>1. TypeOK /\ Leaders /\ Waiters /\ NotCached /\ Blame /\ k \in Keys
  BY DEF IInv, TypeOK
<1>2. /\ pc[r] = "finish"
      /\ lead' = [lead EXCEPT ![k] = None] /\ joined' = [joined EXCEPT ![k] = {}]
      /\ pc' = [q \in Requests |-> IF q \in Part THEN "back" ELSE pc[q]]
      /\ outcome' = [q \in Requests |-> IF q \in Part THEN outcome[r] ELSE outcome[q]]
      /\ shared' = [q \in Requests |-> IF q \in Part THEN joined[k] # {} ELSE shared[q]]
      /\ UNCHANGED <<order, totalBytes, key, live, calls, late>> /\ Cached' = Cached
  BY DEF Finish, cacheVars, Cached
<1>3. lead[k] = r /\ \A q \in Part : key[q] = k
  BY <1>1, <1>2 DEF Leaders, Waiters, Loading
<1>4. TypeOK'
  <2>1. "back" \in Places
    BY DEF Places
  <2>2. pc' \in [Requests -> Places] /\ outcome' \in [Requests -> Outcomes]
        /\ shared' \in [Requests -> BOOLEAN]
    BY <1>1, <1>2, <2>1 DEF TypeOK
  <2>3. lead' \in [Keys -> Requests \cup {None}] /\ joined' \in [Keys -> SUBSET Requests]
    BY <1>1, <1>2 DEF TypeOK
  <2> QED BY <1>1, <1>2, <2>2, <2>3 DEF TypeOK
<1>5. \A l \in Keys : l # k => lead'[l] = lead[l] /\ joined'[l] = joined[l]
  BY <1>1, <1>2 DEF TypeOK
<1>6. lead'[k] = None /\ joined'[k] = {}
  BY <1>1, <1>2 DEF TypeOK
<1>7. \A q \in Requests : key[q] # k => pc'[q] = pc[q]
  BY <1>2, <1>3
<1>8. Leaders'
  <2>1. ASSUME NEW l \in Keys, lead'[l] # None
        PROVE  pc'[lead'[l]] \in Loading /\ key'[lead'[l]] = l
    <3>1. l # k /\ lead'[l] = lead[l] /\ lead[l] \in Requests
      BY <1>1, <1>5, <1>6, <2>1 DEF TypeOK
    <3>2. pc[lead[l]] \in Loading /\ key[lead[l]] = l
      BY <1>1, <2>1, <3>1 DEF Leaders
    <3> HIDE DEF k
    <3> QED BY <1>2, <1>7, <3>1, <3>2
  <2>2. ASSUME NEW q \in Requests, pc'[q] \in Loading
        PROVE  lead'[key'[q]] = q
    <3>1. q \notin Part /\ pc[q] \in Loading
      BY <1>2, <2>2 DEF Loading
    <3>2. key[q] \in Keys /\ lead[key[q]] = q
      BY <1>1, <3>1 DEF Leaders, TypeOK
    <3>3. key[q] # k
      BY <1>3, <3>1, <3>2
    <3> HIDE DEF k
    <3> QED BY <1>2, <1>5, <3>2, <3>3
  <2> QED BY <2>1, <2>2 DEF Leaders
<1>9. Waiters'
  <2> SUFFICES ASSUME NEW l \in Keys, NEW q \in joined'[l] PROVE pc'[q] = "wait" /\ key'[q] = l
    BY DEF Waiters
  <2>1. l # k /\ q \in joined[l] /\ q \in Requests
    BY <1>1, <1>5, <1>6 DEF TypeOK
  <2>2. pc[q] = "wait" /\ key[q] = l
    BY <1>1, <2>1 DEF Waiters
  <2> HIDE DEF k
  <2> QED BY <1>2, <1>7, <2>1, <2>2
<1>10. NotCached'
  BY <1>1, <1>2 DEF NotCached
<1>11. Blame'
  <2> SUFFICES ASSUME NEW q \in Requests, outcome'[q] = "cancelled"
               PROVE  /\ pc'[q] \in {"finish", "over"} => ~live'[q]
                      /\ pc'[q] = "back" => shared'[q] \/ ~live'[q]
    BY DEF Blame
  <2>1. CASE q = r
    BY <1>1, <1>2, <2>1 DEF Blame
  <2>2. CASE q # r /\ q \in Part
    BY <1>2, <2>2
  <2>3. CASE q \notin Part
    BY <1>1, <1>2, <2>3 DEF Blame
  <2> QED BY <2>1, <2>2, <2>3
<1> QED BY <1>4, <1>8, <1>9, <1>10, <1>11 DEF IInv

\* A cancellation of somebody else is not returned but tried again.
LEMMA BackStep ==
  ASSUME IInv, NEW r \in Requests, Back(r)
  PROVE  IInv'
<1>1. TypeOK /\ Leaders /\ Waiters /\ NotCached /\ Blame
  BY DEF IInv
<1>2. /\ pc[r] = "back" /\ shared' = [shared EXCEPT ![r] = FALSE]
      /\ UNCHANGED <<order, totalBytes, lead, joined, key, live, calls, late>> /\ Cached' = Cached
  BY DEF Back, cacheVars, loadVars, Cached
<1>3. /\ pc' = [pc EXCEPT ![r] = pc'[r]] /\ outcome' = [outcome EXCEPT ![r] = outcome'[r]]
      /\ \/ pc'[r] = "do" /\ outcome'[r] = "none"
         \/ pc'[r] = "over" /\ outcome'[r] = outcome[r] /\ ~Again(r)
  BY <1>1 DEF Back, TypeOK
<1>4. TypeOK'
  <2>1. pc'[r] \in Places /\ outcome'[r] \in Outcomes
    BY <1>1, <1>3 DEF TypeOK, Places, Resting, Outcomes
  <2> QED BY <1>1, <1>2, <1>3, <2>1 DEF TypeOK
<1>5. Leaders' /\ Waiters'
  BY <1>1, <1>2, <1>3, NoneAssumption DEF TypeOK, Leaders, Waiters, Loading
<1>6. NotCached'
  BY <1>1, <1>2, <1>3 DEF TypeOK, NotCached
<1>7. Blame'
  BY <1>1, <1>2, <1>3 DEF TypeOK, Blame, Again, ContextErrors
<1> QED BY <1>4, <1>5, <1>6, <1>7 DEF IInv

\* Every step keeps the invariant.
LEMMA NextIInv == IInv /\ [Next]_vars => IInv'
<1> SUFFICES ASSUME IInv, [Next]_vars PROVE IInv'
  OBVIOUS
<1>1. ASSUME NEW r \in Requests, Proceed(r) PROVE IInv'
  BY <1>1, DoStep, RecheckStep, FetchStep, StoreStep, FinishStep, BackStep DEF Proceed, Load
<1>2. ASSUME NEW r \in Requests, Cancel(r) PROVE IInv'
  BY <1>2, CancelStep
<1>3. ASSUME NEW r \in Requests, NEW k \in Keys, Ask(r, k) PROVE IInv'
  BY <1>3, AskStep
<1>4. CASE UNCHANGED vars
  BY <1>4 DEF vars, cacheVars, loadVars, callVars, IInv, TypeOK, Leaders, Waiters,
     NotCached,
              Blame, Cached
<1> QED BY <1>1, <1>2, <1>3, <1>4 DEF Next

\* The invariant holds in every state.
LEMMA Invariance == Spec => []IInv
BY InitIInv, NextIInv, PTL DEF Spec

----------------------------------------------------------------------------
(* The bytes of the cache. *)

\* Induction over the numbers up to n, for a set.
LEMMA UpTo ==
  ASSUME NEW n \in Nat, NEW S, 0 \in S,
         \A k \in 0..n : k # 0 /\ k - 1 \in S => k \in S
  PROVE  \A k \in 0..n : k \in S
<1> DEFINE Bad == {k \in 0..n : k \notin S}
<1>1. SUFFICES ASSUME Bad # {} PROVE FALSE
  OBVIOUS
<1>2. Bad \in SUBSET Nat
  OBVIOUS
<1>3. PICK m \in Bad : \A k \in Bad : ~ (<<k, m>> \in OpToRel(<, Nat))
  <2> HIDE DEF Bad
  <2> QED BY <1>1, <1>2, WFMin, NatLessThanWellFounded
<1>4. m \in 0..n /\ m \notin S /\ m \in Nat /\ m # 0
  BY <1>2, <1>3
<1>5. m - 1 \in 0..n /\ m - 1 \in Nat /\ m - 1 < m
  BY <1>4
<1>6. m - 1 \notin Bad
  BY <1>3, <1>4, <1>5 DEF OpToRel
<1> QED BY <1>4, <1>5, <1>6

\* b adds up the sizes of the first n entries of o.
Adds(b, o, n) ==
  /\ b \in [0..n -> Nat]
  /\ \A i \in 0..n : b[i] = IF i = 0 THEN 0 ELSE b[i - 1] + Size[o[i]]

\* The sizes of the entries of a list of chunks are numbers.
LEMMA SizesAre ==
  ASSUME NEW o \in Seq(Keys)
  PROVE  Len(o) \in Nat /\ \A i \in 1..Len(o) : o[i] \in Keys /\ Size[o[i]] \in Nat
<1>1. Len(o) \in Nat /\ \A i \in 1..Len(o) : o[i] \in Keys
  OBVIOUS
<1> QED BY <1>1, SizeAssumption

\* The sizes of some first entries can be added up: one more of them as well.
LEMMA AddsExist ==
  ASSUME NEW o \in Seq(Keys)
  PROVE  \E b : Adds(b, o, Len(o))
<1> DEFINE S == {n \in 0..Len(o) : \E b : Adds(b, o, n)}
<1>0. Len(o) \in Nat /\ \A i \in 1..Len(o) : Size[o[i]] \in Nat
  BY SizesAre
<1>1. 0 \in S
  <2>1. Adds([i \in 0..0 |-> 0], o, 0)
    BY DEF Adds
  <2> QED BY <2>1, <1>0
<1>2. ASSUME NEW n \in 0..Len(o), n # 0, n - 1 \in S
      PROVE  n \in S
  <2>1. PICK b : Adds(b, o, n - 1)
    BY <1>2
  <2> DEFINE more == [i \in 0..n |-> IF i = n THEN b[n - 1] + Size[o[n]] ELSE b[i]]
  <2>2. n \in Nat /\ n - 1 \in Nat /\ Size[o[n]] \in Nat /\ b[n - 1] \in Nat
    <3>1. n \in 1..Len(o) /\ n \in Nat /\ n - 1 \in 0..(n - 1) /\ n - 1 \in Nat
      BY <1>0, <1>2
    <3>2. b \in [0..(n - 1) -> Nat]
      BY <2>1 DEF Adds
    <3> QED BY <1>0, <3>1, <3>2
  <2>3. more \in [0..n -> Nat]
    BY <2>1, <2>2 DEF Adds
  <2>4. ASSUME NEW i \in 0..n
        PROVE  more[i] = IF i = 0 THEN 0 ELSE more[i - 1] + Size[o[i]]
    <3>1. CASE i = n
      BY <1>2, <2>2, <3>1
    <3>2. CASE i # n
      BY <2>1, <2>2, <3>2 DEF Adds
    <3> QED BY <3>1, <3>2
  <2>5. Adds(more, o, n)
    <3> HIDE DEF more
    <3> QED BY <2>3, <2>4 DEF Adds
  <2> QED BY <1>2, <2>5
<1>3. \A n \in 0..Len(o) : n \in S
  <2> HIDE DEF S
  <2> QED BY <1>0, <1>1, <1>2, UpTo
<1> QED BY <1>0, <1>3

\* Each entry adds its size to the bytes of those before it.
LEMMA BytesAdd ==
  ASSUME NEW o \in Seq(Keys)
  PROVE  Adds(Bytes(o), o, Len(o))
<1> DEFINE Eq(b) == b = [n \in 0..Len(o) |-> IF n = 0 THEN 0 ELSE b[n - 1] + Size[o[n]]]
<1>0. Len(o) \in Nat /\ \A i \in 1..Len(o) : Size[o[i]] \in Nat
  BY SizesAre
<1>1. PICK b : Adds(b, o, Len(o))
  BY AddsExist
<1>2. Eq(b)
  BY <1>1 DEF Adds
<1>3. Eq(Bytes(o))
  BY <1>2 DEF Bytes
<1> DEFINE r == Bytes(o)
<1>4. /\ DOMAIN r = 0..Len(o) /\ r = [n \in 0..Len(o) |-> r[n]]
      /\ \A n \in 0..Len(o) : r[n] = IF n = 0 THEN 0 ELSE r[n - 1] + Size[o[n]]
  BY <1>3
<1> HIDE DEF r
<1> DEFINE S == {n \in 0..Len(o) : r[n] \in Nat}
<1>5. 0 \in S
  BY <1>0, <1>4
<1>6. ASSUME NEW n \in 0..Len(o), n # 0, n - 1 \in S
      PROVE  n \in S
  <2>1. n \in 1..Len(o) /\ r[n] = r[n - 1] + Size[o[n]] /\ r[n - 1] \in Nat
    BY <1>0, <1>4, <1>6
  <2> QED BY <1>0, <2>1
<1>7. \A n \in 0..Len(o) : n \in S
  <2> HIDE DEF S
  <2> QED BY <1>0, <1>5, <1>6, UpTo
<1>8. r \in [0..Len(o) -> Nat]
  BY <1>4, <1>7
<1>9. Adds(r, o, Len(o))
  BY <1>4, <1>8 DEF Adds
<1> QED BY <1>9 DEF r

\* The bytes of the entries that trimming leaves are those they had before.
LEMMA BytesOfFirst ==
  ASSUME NEW o \in Seq(Keys), NEW n \in 0..Len(o)
  PROVE  /\ SubSeq(o, 1, n) \in Seq(Keys) /\ Len(SubSeq(o, 1, n)) = n
         /\ Bytes(SubSeq(o, 1, n))[n] = Bytes(o)[n]
<1> DEFINE f == SubSeq(o, 1, n)
           p == Bytes(o)
           q == Bytes(f)
           S == {i \in 0..n : q[i] = p[i]}
<1>1. n \in Nat /\ n <= Len(o) /\ Len(o) \in Nat
  BY SizesAre
<1>2. f \in Seq(Keys) /\ Len(f) = n /\ \A i \in 1..n : f[i] = o[i]
  BY <1>1
<1>3. Adds(p, o, Len(o))
  BY BytesAdd
<1>4. Adds(q, f, n)
  <2> HIDE DEF f
  <2> QED BY <1>2, BytesAdd
<1> HIDE DEF f, p, q
<1>5. 0 \in S
  BY <1>1, <1>3, <1>4 DEF Adds
<1>6. ASSUME NEW i \in 0..n, i # 0, i - 1 \in S
      PROVE  i \in S
  <2>1. i \in 1..n /\ i \in 0..Len(o) /\ q[i - 1] = p[i - 1]
    BY <1>1, <1>6
  <2>2. q[i] = q[i - 1] + Size[f[i]] /\ p[i] = p[i - 1] + Size[o[i]]
    BY <1>3, <1>4, <1>6, <2>1 DEF Adds
  <2> QED BY <1>2, <2>1, <2>2
<1>7. \A i \in 0..n : i \in S
  <2> HIDE DEF S
  <2> QED BY <1>1, <1>5, <1>6, UpTo
<1>8. q[n] = p[n]
  BY <1>1, <1>7
<1> QED BY <1>2, <1>8 DEF f, p, q

\* A chunk moved to the front keeps the bytes of the list; a new one adds its own.
LEMMA BytesToFront ==
  ASSUME NEW k \in Keys, IsList(order)
  PROVE  Bytes(ToFront(k))[Len(ToFront(k))]
           = Bytes(order)[Len(order)] + (IF k \in Cached THEN 0 ELSE Size[k])
<1> DEFINE o == ToFront(k)
           h == Position(k)
           l == IF h <= Len(order) THEN Len(order) ELSE Len(order) + 1
           p == Bytes(order)
           q == Bytes(o)
<1>1. order \in Seq(Keys) /\ Len(order) \in Nat /\ Size[k] \in Nat
      /\ \A i \in 1..Len(order) : Size[order[i]] \in Nat
  BY SizesAre, SizeAssumption DEF IsList
<1>2. /\ h \in 1..(Len(order) + 1)
      /\ h <= Len(order) => order[h] = k
      /\ h <= Len(order) <=> k \in Cached
  <2>1. h <= Len(order) => k \in Cached
    BY <1>1, PositionFinds DEF Cached
  <2>2. h \in 1..(Len(order) + 1) /\ (~ (h <= Len(order)) => k \notin Cached)
    <3>1. h \in 1..(Len(order) + 1) /\ (h > Len(order) => k \notin Cached)
      BY <1>1, PositionFinds
    <3> HIDE DEF h
    <3> QED BY <1>1, <3>1
  <2> QED BY <1>1, <2>1, <2>2, PositionFinds
<1>3. o = [i \in 1..l |-> IF i = 1 THEN k ELSE IF i <= h THEN order[i - 1] ELSE order[i]]
  BY DEF ToFront
<1>4. o \in Seq(Keys)
  BY ToFrontKeepsList DEF IsList
<1>5. Adds(p, order, Len(order))
  BY <1>1, BytesAdd
<1>6. Adds(q, o, Len(o))
  <2> HIDE DEF o
  <2> QED BY <1>4, BytesAdd
<1> HIDE DEF h
<1>7. l \in Nat /\ h \in Nat /\ 1 <= h /\ h <= l
  BY <1>1, <1>2
<1>8. Len(o) = l
  <2> HIDE DEF l
  <2>1. DOMAIN o = 1..l
    BY <1>3
  <2> HIDE DEF o
  <2> QED BY <1>4, <1>7, <2>1
<1>9. \A i \in 1..l : /\ i = 1 => o[i] = k
                      /\ i # 1 /\ i <= h => o[i] = order[i - 1]
                      /\ i > h => o[i] = order[i]
  BY <1>3, <1>7
<1> HIDE DEF o, p, q
<1> DEFINE S == {i \in 0..l : /\ i # 0 /\ i <= h => q[i] = Size[k] + p[i - 1]
                              /\ i > h => q[i] = p[i]}
<1>10. 0 \in S
  BY <1>7
<1>11. ASSUME NEW i \in 0..l, i # 0, i - 1 \in S
       PROVE  i \in S
  <2>0. i \in 1..l /\ i \in Nat /\ i - 1 \in Nat /\ (i > h => h <= Len(order) /\ i <= Len(order))
    BY <1>1, <1>7, <1>11
  <2>1. q[i] = q[i - 1] + Size[o[i]]
    BY <1>6, <1>8, <1>11, <2>0 DEF Adds
  <2>2. CASE i = 1
    <3>1. q[0] = 0 /\ p[0] = 0
      BY <1>1, <1>5, <1>6, <1>7, <1>8 DEF Adds
    <3> QED BY <1>1, <1>7, <1>9, <2>0, <2>1, <2>2, <3>1
  <2>3. CASE i # 1 /\ i <= h
    <3>1. i - 1 \in 1..Len(order) /\ i - 1 # 0 /\ i - 1 <= h
      BY <1>1, <1>2, <1>7, <2>0, <2>3
    <3>2. q[i - 1] = Size[k] + p[i - 1 - 1]
      BY <1>11, <3>1
    <3>3. p[i - 1] = p[i - 1 - 1] + Size[order[i - 1]] /\ p[i - 1 - 1] \in Nat
      <4>1. i - 1 \in 0..Len(order) /\ i - 1 - 1 \in 0..Len(order)
        BY <1>1, <3>1
      <4>2. p[i - 1] = IF i - 1 = 0 THEN 0 ELSE p[i - 1 - 1] + Size[order[i - 1]]
        BY <1>5, <4>1 DEF Adds
      <4>3. p[i - 1 - 1] \in Nat
        BY <1>5, <4>1 DEF Adds
      <4> QED BY <3>1, <4>2, <4>3
    <3>4. o[i] = order[i - 1]
      BY <1>9, <2>0, <2>3
    <3>5. q[i] = Size[k] + p[i - 1]
      BY <1>1, <2>1, <3>1, <3>2, <3>3, <3>4
    <3> QED BY <1>7, <2>0, <2>3, <3>5
  <2>4. CASE i > h
    <3>1. i \in 1..Len(order) /\ i \in 0..Len(order) /\ o[i] = order[i]
      BY <1>1, <1>9, <2>0, <2>4
    <3>2. p[i] = p[i - 1] + Size[order[i]]
      BY <1>5, <2>0, <3>1 DEF Adds
    <3>3. q[i - 1] = p[i - 1]
      <4>1. CASE i - 1 = h
        <5>1. q[h] = Size[k] + p[h - 1]
          BY <1>7, <1>11, <4>1
        <5>2. h \in 0..Len(order) /\ h # 0 /\ order[h] = k
          BY <1>1, <1>2, <1>7, <2>0, <2>4
        <5>3. p[h] = p[h - 1] + Size[k] /\ p[h - 1] \in Nat
          BY <1>5, <5>2, <1>1 DEF Adds
        <5> QED BY <1>1, <4>1, <5>1, <5>3
      <4>2. CASE i - 1 # h
        <5>1. i - 1 > h
          BY <1>7, <2>0, <2>4, <4>2
        <5> QED BY <1>11, <5>1
      <4> QED BY <4>1, <4>2
    <3> QED BY <1>7, <2>0, <2>1, <2>4, <3>1, <3>2, <3>3
  <2> QED BY <1>7, <2>0, <2>2, <2>3, <2>4
<1>12. \A i \in 0..l : i \in S
  <2> HIDE DEF S, l
  <2> QED BY <1>7, <1>10, <1>11, UpTo
<1>13. /\ l <= h => q[l] = Size[k] + p[l - 1]
       /\ l > h => q[l] = p[l]
  BY <1>7, <1>12
<1>14. q[l] = p[Len(order)] + (IF k \in Cached THEN 0 ELSE Size[k])
  <2>0. \A i \in 0..Len(order) : p[i] \in Nat
    BY <1>5 DEF Adds
  <2>1. CASE h <= Len(order) /\ h < l
    BY <1>1, <1>2, <1>7, <1>13, <2>0, <2>1
  <2>2. CASE h <= Len(order) /\ h = l
    <3>1. l = Len(order) /\ l \in 0..Len(order) /\ l # 0 /\ order[l] = k /\ l - 1 \in 0..Len(order)
      BY <1>1, <1>2, <1>7, <2>2
    <3>2. p[l] = p[l - 1] + Size[k]
      BY <1>5, <3>1 DEF Adds
    <3>3. q[l] = Size[k] + p[l - 1] /\ k \in Cached
      BY <1>2, <1>7, <1>13, <2>2
    <3> HIDE DEF l
    <3> QED BY <1>1, <2>0, <3>1, <3>2, <3>3
  <2>3. CASE ~ (h <= Len(order))
    <3>1. l = Len(order) + 1 /\ l <= h /\ k \notin Cached
      BY <1>1, <1>2, <1>7, <2>3
    <3>2. q[l] = Size[k] + p[Len(order)] /\ p[Len(order)] \in Nat
      BY <1>1, <1>13, <2>0, <3>1
    <3> QED BY <1>1, <3>1, <3>2
  <2> QED BY <1>1, <1>7, <2>1, <2>2, <2>3
<1> QED BY <1>8, <1>14 DEF o, p, q

\* The total counts nothing but the entries of the list.
LEMMA BehindNothing ==
  ASSUME NEW o \in Seq(Keys)
  PROVE  BytesBehind(o, 0) = Bytes(o)[Len(o)] /\ Bytes(o)[Len(o)] \in Nat
<1>1. Adds(Bytes(o), o, Len(o)) /\ Len(o) \in Nat
  BY BytesAdd
<1>2. Bytes(o)[0] = 0 /\ Bytes(o)[Len(o)] \in Nat
  BY <1>1 DEF Adds
<1>3. \A i \in Nat : i - 0 = i
  OBVIOUS
<1> QED BY <1>2, <1>3, Zenon DEF BytesBehind

\* What trimming leaves is within both limits and counted exactly.
LEMMA TrimBounds ==
  ASSUME NEW o \in Seq(Keys), Trim(o, Bytes(o)[Len(o)])
  PROVE  CacheBounded'
<1> DEFINE all == Bytes(o)[Len(o)]
<1>1. PICK n \in 0..Len(o) : /\ Fits(o, all, n) \/ n = 0
                            /\ order' = SubSeq(o, 1, n)
                            /\ totalBytes' = TotalAfter(o, all, n)
  BY DEF Trim
<1>2. Len(o) \in Nat /\ n \in Nat
  BY SizesAre
<1>3. Adds(Bytes(o), o, Len(o))
  BY BytesAdd
<1>4. Bytes(o)[n] \in Nat /\ all \in Nat /\ Bytes(o)[0] = 0
  BY <1>2, <1>3 DEF Adds
<1>5. all - BytesBehind(o, n) = Bytes(o)[n]
  <2>1. \A i, j \in Nat : i - (i - j) = j
    OBVIOUS
  <2> QED BY <1>4, <2>1, Zenon DEF BytesBehind
<1>6. order' \in Seq(Keys) /\ Len(order') = n /\ Bytes(order')[n] = Bytes(o)[n]
  BY <1>1, BytesOfFirst
<1>7. totalBytes' = Bytes(o)[n]
  BY <1>1, <1>5 DEF TotalAfter
<1>8. n <= MaxEntries /\ Bytes(o)[n] <= MaxBytes
  <2>1. CASE n = 0
    BY <1>4, <2>1, LimitsAssumption
  <2>2. CASE Fits(o, all, n)
    <3>1. n <= MaxEntries /\ all - BytesBehind(o, n) <= MaxBytes
      BY <2>2 DEF Fits
    <3> QED BY <1>5, <3>1
  <2> QED BY <1>1, <2>1, <2>2
<1>9. BytesBehind(order', 0) = totalBytes'
  BY <1>6, <1>7, BehindNothing
<1>10. BytesBehind(order, 0)' = BytesBehind(order', 0)
  BY DEF BytesBehind, Bytes
<1> QED BY <1>6, <1>7, <1>8, <1>9, <1>10 DEF CacheBounded

\* A hit changes the order of the list, not what it holds.
LEMMA HitBounds ==
  ASSUME IsList(order), CacheBounded, NEW k \in Cached, order' = ToFront(k),
         totalBytes' = totalBytes
  PROVE  CacheBounded'
<1>1. k \in Keys /\ order \in Seq(Keys)
  BY DEF Cached, IsList
<1>2. Bytes(order')[Len(order')] = Bytes(order)[Len(order)]
  <2>1. Bytes(order')[Len(order')] = Bytes(order)[Len(order)] + 0
    BY <1>1, BytesToFront
  <2>2. Bytes(order)[Len(order)] \in Nat
    BY <1>1, BehindNothing
  <2>3. \A i \in Nat : i + 0 = i
    OBVIOUS
  <2> QED BY <2>1, <2>2, <2>3, Zenon
<1>3. Len(order') = Len(order) /\ order' \in Seq(Keys)
  <2>1. order' \in Seq(Keys)
    BY <1>1, ToFrontKeepsList DEF IsList
  <2>2. Position(k) \in 1..(Len(order) + 1) /\ Position(k) <= Len(order)
    BY <1>1, PositionFinds
  <2>3. order' = [i \in 1..Len(order) |->
                    IF i = 1 THEN k ELSE IF i <= Position(k) THEN order[i - 1] ELSE order[i]]
    BY <2>2 DEF ToFront
  <2>4. DOMAIN order' = 1..Len(order) /\ Len(order) \in Nat
    BY <1>1, <2>3
  <2> QED BY <2>1, <2>4
<1>4. BytesBehind(order', 0) = BytesBehind(order, 0)
  BY <1>1, <1>2, <1>3, BehindNothing
<1>5. BytesBehind(order, 0)' = BytesBehind(order', 0)
  BY DEF BytesBehind, Bytes
<1> QED BY <1>3, <1>4, <1>5 DEF CacheBounded

\* A chunk that is set replaces itself or adds its size before the trim.
LEMMA SetBounds ==
  ASSUME IsList(order), CacheBounded, NEW k \in Keys, Set(k)
  PROVE  CacheBounded'
<1>1. CASE Size[k] > MaxBytes
  <2>1. order' = order /\ totalBytes' = totalBytes
    BY <1>1 DEF Set, cacheVars
  <2> QED BY <2>1 DEF CacheBounded, BytesBehind, Bytes
<1>2. CASE ~ (Size[k] > MaxBytes)
  <2> DEFINE o == ToFront(k)
             all == IF k \in Cached THEN totalBytes ELSE totalBytes + Size[k]
  <2>1. order \in Seq(Keys) /\ o \in Seq(Keys) /\ Size[k] \in Nat
    BY ToFrontKeepsList, SizeAssumption DEF IsList
  <2>2. totalBytes = Bytes(order)[Len(order)] /\ totalBytes \in Nat
    BY <2>1, BehindNothing DEF CacheBounded
  <2>3. Bytes(o)[Len(o)] = totalBytes + (IF k \in Cached THEN 0 ELSE Size[k])
    BY <2>2, BytesToFront
  <2>4. all = Bytes(o)[Len(o)]
    BY <2>1, <2>2, <2>3
  <2>5. Trim(o, all)
    BY <1>2 DEF Set
  <2>6. Trim(o, Bytes(o)[Len(o)])
    BY <2>4, <2>5
  <2> HIDE DEF o
  <2> QED BY <2>1, <2>6, TrimBounds
<1> QED BY <1>1, <1>2

\* At first nothing is cached.
LEMMA InitBounds == Init => CacheBounded
<1> SUFFICES ASSUME Init PROVE CacheBounded
  OBVIOUS
<1>1. order = <<>> /\ totalBytes = 0 /\ order \in Seq(Keys)
  BY DEF Init
<1>2. Len(order) = 0
  BY <1>1
<1>3. Adds(Bytes(order), order, 0)
  BY <1>1, <1>2, BytesAdd
<1>4. Bytes(order)[0] = 0
  BY <1>3 DEF Adds
<1>5. BytesBehind(order, 0) = 0
  BY <1>1, <1>2, <1>4, BehindNothing
<1> QED BY <1>1, <1>2, <1>5, LimitsAssumption DEF CacheBounded

\* Only hits and stores touch the cache, and both keep its bounds.
LEMMA NextBounds == IInv /\ CacheBounded /\ [Next]_vars => CacheBounded'
<1> SUFFICES ASSUME IInv, CacheBounded, [Next]_vars PROVE CacheBounded'
  OBVIOUS
<1>1. IsList(order) /\ TypeOK
  BY DEF IInv, TypeOK, IsList
<1>2. ASSUME order' = order, totalBytes' = totalBytes PROVE CacheBounded'
  BY <1>2 DEF CacheBounded, BytesBehind, Bytes
<1>3. ASSUME NEW r \in Requests, NEW k \in Keys, Ask(r, k) PROVE CacheBounded'
  <2>1. CASE k \in Cached
    BY <1>1, <1>3, <2>1, HitBounds DEF Ask
  <2>2. CASE k \notin Cached
    BY <1>2, <1>3, <2>2 DEF Ask
  <2> QED BY <2>1, <2>2
<1>4. ASSUME NEW r \in Requests, Recheck(r) PROVE CacheBounded'
  <2>1. CASE key[r] \in Cached
    BY <1>1, <1>4, <2>1, HitBounds DEF Recheck
  <2>2. CASE key[r] \notin Cached
    BY <1>2, <1>4, <2>2 DEF Recheck
  <2> QED BY <2>1, <2>2
<1>5. ASSUME NEW r \in Requests, Store(r) PROVE CacheBounded'
  <2>1. key[r] \in Keys /\ Set(key[r])
    BY <1>1, <1>5 DEF Store, TypeOK
  <2> QED BY <1>1, <2>1, SetBounds
<1>6. ASSUME NEW r \in Requests,
             Cancel(r) \/ Do(r) \/ Fetch(r) \/ FetchFails(r) \/ Finish(r) \/ Back(r)
      PROVE  CacheBounded'
  <2>1. order' = order /\ totalBytes' = totalBytes
    BY <1>6 DEF Cancel, Do, Fetch, FetchFails, Finish, Back, cacheVars
  <2> QED BY <1>2, <2>1
<1>7. CASE UNCHANGED vars
  BY <1>2, <1>7 DEF vars, cacheVars
<1> QED BY <1>3, <1>4, <1>5, <1>6, <1>7 DEF Next, Proceed, Load

----------------------------------------------------------------------------
\* The state has its types and the list of the cache links a chunk once.
THEOREM TypeCorrect == Spec => []TypeOK
<1>1. IInv => TypeOK
  BY DEF IInv
<1> QED BY <1>1, Invariance, PTL

\* A chunk is loaded by one request at a time and not while it is cached.
THEOREM ChunksAreLoadedOnce == Spec => []LoadedOnce
<1>1. IInv => LoadedOnce
  BY DEF IInv, Leaders, NotCached, Loading, LoadedOnce
<1> QED BY <1>1, Invariance, PTL

\* A call that returns a cancellation belongs to a request that was cancelled.
THEOREM DroppedRequestsFailAlone == Spec => []NoForeignCancellation
<1>1. IInv => NoForeignCancellation
  BY DEF IInv, Blame, NoForeignCancellation
<1> QED BY <1>1, Invariance, PTL

\* The cache keeps within its entries and its bytes, and totalBytes is the size
\* of what it holds, whatever is set, found and trimmed (set, trimLocked).
THEOREM CacheStaysBounded == Spec => []CacheBounded
BY InitIInv, NextIInv, InitBounds, NextBounds, PTL DEF Spec
=============================================================================
