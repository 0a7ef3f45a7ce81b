----------------------- MODULE WorkerSchedulerProofs -----------------------
(***************************************************************************)
(* The waiting counts of the scheduler are exact and its buffers bounded,  *)
(* for every set of callers, storages and workers and every limit.         *)
(*                                                                         *)
(* BufferBounded is not inductive: nothing in it forbids a caller in the   *)
(* loop while the buffer is full.  BufferRoom keeps room for what every    *)
(* caller in the loop may still add: a caller enters the loop only when    *)
(* the buffer of its storage is empty, and leaves its room when it adds.   *)
(*                                                                         *)
(* OvershootBounded is not inductive either: a statement that has counted  *)
(* the rows may record its batch much later.  RoomFor keeps room for the   *)
(* largest batch of each caller that owes rows, but for one of them whose  *)
(* own selection has seen all the rows there are.                          *)
(***************************************************************************)
EXTENDS WorkerScheduler, FiniteSetTheorems, SequenceTheorems, WellFoundedInduction, TLAPS

Extra == BatchSize - 1

\* The callers in the loop for storage s, and those counted in waiting[s].
Inside(s)  == {c \in Callers : pc[c] \in InLoop /\ storage[c] = s}
Waiters(s) == {c \in Callers : flag[c] /\ storage[c] = s}

\* A selected batch exists until it is delivered; only a call in progress
\* can have counted itself as waiting.
Stages ==
  \A c \in Callers :
    /\ pc[c] \in {"insert", "fetched"} => batch[c] \in Tokens
    /\ flag[c] => pc[c] \in InLoop

BufferRoom ==
  \A s \in Storages :
    Len(buffer[s]) + Cardinality(Inside(s)) * Extra <= Cardinality(Callers) * Extra

IInv == TypeOK /\ Stages /\ WaitingIsExact /\ BufferRoom

----------------------------------------------------------------------------
\* Parts of the callers are finite and no larger than all of them.
LEMMA Parts ==
  ASSUME NEW S \in SUBSET Callers
  PROVE  /\ IsFiniteSet(S) /\ Cardinality(S) \in Nat
         /\ Cardinality(Callers) \in Nat /\ Cardinality(S) <= Cardinality(Callers)
BY SetsAssumption, FS_Subset, FS_CardinalityType

\* Multiplication by a number is monotone.
LEMMA TimesMonotone ==
  ASSUME NEW m \in Nat, NEW n \in Nat, NEW k \in Nat, m <= n
  PROVE  m * k \in Nat /\ n * k \in Nat /\ m * k <= n * k
<1>1. PICK d \in Nat : n = m + d
  <2>1. n - m \in Nat /\ n = m + (n - m)
    OBVIOUS
  <2> QED BY <2>1
<1>2. (m + d) * k = m * k + d * k
  OBVIOUS
<1>3. m * k \in Nat /\ d * k \in Nat
  OBVIOUS
<1> QED BY <1>1, <1>2, <1>3

\* The number of tokens a batch may leave in the buffer.
LEMMA ExtraNat == Extra \in Nat
BY LimitsAssumption DEF Extra

\* The number of times a worker occurs in a batch is a number.
LEMMA TimesNat ==
  ASSUME NEW q \in Tokens \cup {<<>>}, NEW w
  PROVE  Times(q, w) \in Nat
<1>1. IsFiniteSet(DOMAIN q)
  <2>1. CASE q = <<>>
    BY <2>1, FS_EmptySet
  <2>2. CASE q \in Tokens
    <3>1. PICK n \in 1..BatchSize : DOMAIN q = 1..n
      BY <2>2 DEF Tokens
    <3>2. n \in Int
      BY LimitsAssumption
    <3> QED BY <3>1, <3>2, FS_Interval
  <2> QED BY <2>1, <2>2
<1>2. {i \in DOMAIN q : q[i] = w} \subseteq DOMAIN q
  OBVIOUS
<1> QED BY <1>1, <1>2, FS_Subset, FS_CardinalityType DEF Times

\* A batch is a sequence of workers, without its first one at most Extra long.
LEMMA BatchTail ==
  ASSUME NEW q \in Tokens
  PROVE  Tail(q) \in Seq(Workers) /\ Len(Tail(q)) \in Nat /\ Len(Tail(q)) <= Extra
<1>1. PICK n \in 1..BatchSize : q \in [1..n -> Workers]
  BY DEF Tokens
<1>2. n \in Nat /\ n <= BatchSize /\ 1 <= n
  BY LimitsAssumption
<1>3. q \in Seq(Workers) /\ Len(q) = n
  BY <1>1, <1>2
<1>4. q # <<>>
  BY <1>2, <1>3
<1>5. Tail(q) \in Seq(Workers) /\ Len(Tail(q)) = n - 1
  BY <1>3, <1>4
<1> QED BY <1>2, <1>5, LimitsAssumption DEF Extra

----------------------------------------------------------------------------
\* The initial state: nothing is buffered and nobody waits.
LEMMA InitIInv == Init => IInv
<1> SUFFICES ASSUME Init PROVE IInv
  OBVIOUS
<1>1. TypeOK
  BY LimitsAssumption DEF Init, TypeOK, Resting
<1>2. Stages
  BY DEF Init, Stages
<1>3. WaitingIsExact
  <2> SUFFICES ASSUME NEW s \in Storages
               PROVE  waiting[s] = Cardinality({c \in Callers : flag[c] /\ storage[c] = s})
    BY DEF WaitingIsExact
  <2>1. {c \in Callers : flag[c] /\ storage[c] = s} = {}
    BY DEF Init
  <2> QED BY <2>1, FS_EmptySet DEF Init
<1>4. BufferRoom
  <2> SUFFICES ASSUME NEW s \in Storages
               PROVE  Len(buffer[s]) + Cardinality(Inside(s)) * Extra
                        <= Cardinality(Callers) * Extra
    BY DEF BufferRoom
  <2>1. Inside(s) \subseteq Callers
    BY DEF Inside
  <2>2. Cardinality(Inside(s)) * Extra \in Nat /\ Cardinality(Callers) * Extra \in Nat
        /\ Cardinality(Inside(s)) * Extra <= Cardinality(Callers) * Extra
    BY <2>1, Parts, ExtraNat, TimesMonotone
  <2>3. Len(buffer[s]) = 0
    BY DEF Init
  <2> QED BY <2>2, <2>3
<1> QED BY <1>1, <1>2, <1>3, <1>4 DEF IInv

----------------------------------------------------------------------------
\* A caller that starts to wait adds itself to the count of its storage once.
LEMMA StartStep ==
  ASSUME TypeOK, WaitingIsExact, NEW c \in Callers, StartWaiting(c),
         UNCHANGED storage
  PROVE  WaitingIsExact'
<1> SUFFICES ASSUME NEW s \in Storages
             PROVE  waiting'[s] = Cardinality(Waiters(s)')
  BY DEF WaitingIsExact, Waiters
<1>0. Waiters(s) \subseteq Callers /\ waiting[s] = Cardinality(Waiters(s))
  BY DEF WaitingIsExact, Waiters
<1>1. CASE flag[c] \/ storage[c] # s
  <2>1. Waiters(s)' = Waiters(s)
    BY <1>1 DEF StartWaiting, Waiters, TypeOK
  <2>2. waiting'[s] = waiting[s]
    BY <1>1 DEF StartWaiting, TypeOK
  <2> QED BY <1>0, <2>1, <2>2
<1>2. CASE ~flag[c] /\ storage[c] = s
  <2>1. Waiters(s)' = Waiters(s) \cup {c} /\ c \notin Waiters(s)
    BY <1>2 DEF StartWaiting, Waiters, TypeOK
  <2>2. waiting'[s] = waiting[s] + 1
    BY <1>2 DEF StartWaiting, TypeOK
  <2> QED BY <1>0, <2>1, <2>2, Parts, FS_AddElement
<1> QED BY <1>1, <1>2

\* A caller that returns takes itself off the count if and only if it is on it.
LEMMA StopStep ==
  ASSUME TypeOK, WaitingIsExact, NEW c \in Callers, StopWaiting(c),
         UNCHANGED storage
  PROVE  WaitingIsExact'
<1> SUFFICES ASSUME NEW s \in Storages
             PROVE  waiting'[s] = Cardinality(Waiters(s)')
  BY DEF WaitingIsExact, Waiters
<1>0. Waiters(s) \subseteq Callers /\ waiting[s] = Cardinality(Waiters(s))
  BY DEF WaitingIsExact, Waiters
<1>1. CASE ~flag[c] \/ storage[c] # s
  <2>1. Waiters(s)' = Waiters(s)
    BY <1>1 DEF StopWaiting, Waiters, TypeOK
  <2>2. waiting'[s] = waiting[s]
    BY <1>1 DEF StopWaiting, TypeOK
  <2> QED BY <1>0, <2>1, <2>2
<1>2. CASE flag[c] /\ storage[c] = s
  <2>1. Waiters(s)' = Waiters(s) \ {c} /\ c \in Waiters(s)
    BY <1>2 DEF StopWaiting, Waiters, TypeOK
  <2>2. Cardinality(Waiters(s)') = waiting[s] - 1 /\ Cardinality(Waiters(s)') \in Nat
    BY <1>0, <2>1, Parts, FS_RemoveElement, FS_CardinalityType
  <2>3. waiting[s] \in Nat
    BY DEF TypeOK
  <2>4. waiting[s] > 0
    BY <2>2, <2>3
  <2>5. waiting'[s] = waiting[s] - 1
    BY <1>2, <2>4 DEF StopWaiting, TypeOK
  <2> QED BY <2>2, <2>5
<1> QED BY <1>1, <1>2

\* Nothing is added to a buffer and nobody enters the loop.
LEMMA RoomKept ==
  ASSUME TypeOK, BufferRoom,
         \A s \in Storages : /\ Len(buffer'[s]) \in Nat
                             /\ Len(buffer'[s]) <= Len(buffer[s])
                             /\ Inside(s)' \subseteq Inside(s)
  PROVE  BufferRoom'
<1> SUFFICES ASSUME NEW s \in Storages
             PROVE  Len(buffer'[s]) + Cardinality(Inside(s)') * Extra
                      <= Cardinality(Callers) * Extra
  BY DEF BufferRoom, Extra
<1>1. Inside(s) \subseteq Callers /\ Inside(s)' \subseteq Inside(s)
  BY DEF Inside
<1>2. Cardinality(Inside(s)') \in Nat /\ Cardinality(Inside(s)) \in Nat
      /\ Cardinality(Callers) \in Nat
      /\ Cardinality(Inside(s)') <= Cardinality(Inside(s))
  <2>1. IsFiniteSet(Inside(s))
    BY <1>1, Parts
  <2>2. Inside(s)' \subseteq Callers
    BY <1>1
  <2> QED BY <1>1, <2>1, <2>2, Parts, FS_Subset
<1>3. Cardinality(Inside(s)') * Extra <= Cardinality(Inside(s)) * Extra
      /\ Cardinality(Inside(s)') * Extra \in Nat
      /\ Cardinality(Inside(s)) * Extra \in Nat
  BY <1>2, ExtraNat, TimesMonotone
<1>4. Cardinality(Callers) * Extra \in Nat
  BY <1>2, ExtraNat, TimesMonotone
<1>5. Len(buffer[s]) + Cardinality(Inside(s)) * Extra <= Cardinality(Callers) * Extra
  BY DEF BufferRoom
<1>6. Len(buffer[s]) \in Nat
  BY DEF TypeOK
<1> QED BY <1>3, <1>4, <1>5, <1>6

\* A caller that enters the loop found the buffer of its storage empty.
LEMMA RoomOnEntry ==
  ASSUME TypeOK, BufferRoom, NEW c \in Callers, NEW s \in Storages,
         Call(c, s), ~Buffered(s)
  PROVE  BufferRoom'
<1> SUFFICES ASSUME NEW t \in Storages
             PROVE  Len(buffer'[t]) + Cardinality(Inside(t)') * Extra
                      <= Cardinality(Callers) * Extra
  BY DEF BufferRoom, Extra
<1>1. buffer' = buffer
  BY DEF Call
<1>2. CASE t = s
  <2>1. Len(buffer'[t]) = 0
    BY <1>1, <1>2 DEF Buffered
  <2>2. Inside(t)' \subseteq Callers
    BY DEF Inside
  <2>3. Cardinality(Inside(t)') * Extra \in Nat
        /\ Cardinality(Inside(t)') * Extra <= Cardinality(Callers) * Extra
    BY <2>2, Parts, ExtraNat, TimesMonotone
  <2> QED BY <2>1, <2>3
<1>3. CASE t # s
  <2>1. Inside(t)' = Inside(t)
    BY <1>3 DEF Call, Inside, Resting, InLoop, TypeOK
  <2> QED BY <1>1, <2>1 DEF BufferRoom
<1> QED BY <1>2, <1>3

\* A caller that adds to the buffer leaves the loop and its room.
LEMMA RoomOnDelivery ==
  ASSUME TypeOK, Stages, BufferRoom, NEW c \in Callers, Deliver(c)
  PROVE  BufferRoom'
<1> SUFFICES ASSUME NEW t \in Storages
             PROVE  Len(buffer'[t]) + Cardinality(Inside(t)') * Extra
                      <= Cardinality(Callers) * Extra
  BY DEF BufferRoom, Extra
<1> DEFINE n == Cardinality(Inside(t))
<1>1. Inside(t) \subseteq Callers
  BY DEF Inside
<1>2. n \in Nat /\ IsFiniteSet(Inside(t))
  BY <1>1, Parts
<1>3. Len(buffer[t]) + n * Extra <= Cardinality(Callers) * Extra
  BY DEF BufferRoom
<1>4. CASE storage[c] # t
  <2>1. Inside(t)' = Inside(t)
    BY <1>4 DEF Deliver, Return, Inside, TypeOK
  <2>2. buffer'[t] = buffer[t]
    BY <1>4 DEF Deliver, TypeOK
  <2> QED BY <1>3, <2>1, <2>2
<1>5. CASE storage[c] = t
  <2>1. Inside(t)' = Inside(t) \ {c} /\ c \in Inside(t)
    BY <1>5 DEF Deliver, Return, Inside, InLoop, TypeOK
  <2>2. Cardinality(Inside(t)') = n - 1
    BY <1>2, <2>1, FS_RemoveElement
  <2>3. batch[c] \in Tokens
    BY DEF Deliver, Stages
  <2>4. buffer'[t] = buffer[t] \o Tail(batch[c])
    BY <1>5 DEF Deliver, TypeOK
  <2>5. /\ Len(buffer'[t]) \in Nat /\ Len(buffer[t]) \in Nat
        /\ Len(buffer'[t]) <= Len(buffer[t]) + Extra
    <3>1. buffer[t] \in Seq(Workers)
      BY DEF TypeOK
    <3>2. Tail(batch[c]) \in Seq(Workers) /\ Len(Tail(batch[c])) \in Nat
          /\ Len(Tail(batch[c])) <= Extra
      BY <2>3, BatchTail
    <3>3. Len(buffer'[t]) = Len(buffer[t]) + Len(Tail(batch[c]))
      BY <2>4, <3>1, <3>2, ConcatProperties
    <3>4. Len(buffer[t]) \in Nat
      BY <3>1
    <3>5. \A a, d, e \in Nat : d <= e => a + d \in Nat /\ a + d <= a + e
      OBVIOUS
    <3> QED BY <3>2, <3>3, <3>4, <3>5, ExtraNat
  <2>6. (n - 1) * Extra = n * Extra - Extra
    <3>1. \A i, k \in Nat : (i - 1) * k = i * k - k
      OBVIOUS
    <3> QED BY <1>2, <3>1, ExtraNat
  <2>7. n * Extra \in Nat /\ Cardinality(Callers) * Extra \in Nat
    BY <1>2, ExtraNat, Parts, TimesMonotone
  <2> HIDE DEF n
  <2> QED BY <1>3, <2>2, <2>5, <2>6, <2>7, ExtraNat
<1> QED BY <1>4, <1>5

----------------------------------------------------------------------------
\* The usage rows stay counted by numbers.
LEMMA RecordType ==
  ASSUME TypeOK, NEW c \in Callers, Record(c)
  PROVE  used' \in [Workers -> [Ages -> Nat]]
<1>1. batch[c] \in Tokens \cup {<<>>}
  BY DEF TypeOK
<1>2. \A w \in Workers : Times(batch[c], w) \in Nat
  BY <1>1, TimesNat
<1>3. \A w \in Workers, a \in Ages :
        used[w][a] + (IF a = age[c] THEN Times(batch[c], w) ELSE 0) \in Nat
  BY <1>2 DEF TypeOK
<1> QED BY <1>3 DEF Record

\* The count of a storage stays a number.
LEMMA CountType ==
  ASSUME TypeOK, NEW c \in Callers, StopWaiting(c) \/ StartWaiting(c)
  PROVE  waiting' \in [Storages -> Nat] /\ flag' \in [Callers -> BOOLEAN]
<1>1. waiting \in [Storages -> Nat] /\ flag \in [Callers -> BOOLEAN]
      /\ storage[c] \in Storages
  BY DEF TypeOK
<1>2. waiting[storage[c]] \in Nat
      /\ (waiting[storage[c]] > 0 => waiting[storage[c]] - 1 \in Nat)
      /\ waiting[storage[c]] + 1 \in Nat
  BY <1>1
<1>3. flag' \in [Callers -> BOOLEAN]
  BY <1>1 DEF StopWaiting, StartWaiting
<1>4. waiting' = waiting
      \/ \E n \in Nat : waiting' = [waiting EXCEPT ![storage[c]] = n]
  <2>1. CASE StartWaiting(c)
    BY <1>2, <2>1 DEF StartWaiting
  <2>2. CASE StopWaiting(c)
    BY <1>2, <2>2 DEF StopWaiting
  <2> QED BY <2>1, <2>2
<1> QED BY <1>1, <1>3, <1>4

\* A call that returns, by whichever way, keeps all but the buffer's room.
LEMMA ReturnStep ==
  ASSUME IInv, NEW c \in Callers, NEW how \in {"got", "error"}, Return(c, how),
         pc[c] \in InLoop
  PROVE  /\ waiting' \in [Storages -> Nat] /\ flag' \in [Callers -> BOOLEAN]
         /\ pc' \in [Callers -> Resting \cup InLoop]
         /\ storage' \in [Callers -> Storages]
         /\ live' \in [Callers -> BOOLEAN]
         /\ age' \in [Callers -> 0..Window]
         /\ batch' \in [Callers -> Tokens \cup {<<>>}]
         /\ Stages' /\ WaitingIsExact'
         /\ \A s \in Storages : Inside(s)' \subseteq Inside(s)
<1> USE DEF IInv
<1>1. waiting' \in [Storages -> Nat] /\ flag' \in [Callers -> BOOLEAN]
  BY CountType DEF Return
<1>2. /\ pc' \in [Callers -> Resting \cup InLoop]
      /\ storage' \in [Callers -> Storages]
      /\ live' \in [Callers -> BOOLEAN]
      /\ batch' \in [Callers -> Tokens \cup {<<>>}]
      /\ age' \in [Callers -> 0..Window]
  BY LimitsAssumption DEF Return, TypeOK, Resting
<1>3. Stages'
  BY DEF Return, StopWaiting, Stages, TypeOK, InLoop
<1>4. WaitingIsExact'
  BY StopStep DEF Return
<1>5. \A s \in Storages : Inside(s)' \subseteq Inside(s)
  BY DEF Return, Inside, TypeOK, InLoop
<1> QED BY <1>1, <1>2, <1>3, <1>4, <1>5

\* A call goes to the buffer or enters the loop.
LEMMA CallStep ==
  ASSUME IInv, NEW c \in Callers, NEW s \in Storages, Call(c, s)
  PROVE  IInv'
<1> USE DEF IInv
<1>1. ~flag[c]
  BY DEF Call, Stages, Resting, InLoop
<1>2. TypeOK'
  <2>1. buffer' \in [Storages -> Seq(Workers)]
    <3>1. CASE Buffered(s)
      <4>1. buffer[s] \in Seq(Workers) /\ buffer[s] # <<>>
        BY <3>1 DEF TypeOK, Buffered
      <4>2. Tail(buffer[s]) \in Seq(Workers)
        BY <4>1, HeadTailProperties
      <4> QED BY <3>1, <4>2 DEF Call, TypeOK
    <3>2. CASE ~Buffered(s)
      BY <3>2 DEF Call, TypeOK
    <3> QED BY <3>1, <3>2
  <2>2. pc' \in [Callers -> Resting \cup InLoop]
    BY DEF Call, TypeOK, Resting, InLoop
  <2> QED BY <2>1, <2>2 DEF Call, TypeOK
<1>3. Stages'
  BY DEF Call, Stages, TypeOK, Resting, InLoop
<1>4. WaitingIsExact'
  <2> SUFFICES ASSUME NEW t \in Storages
               PROVE  waiting'[t] = Cardinality(Waiters(t)')
    BY DEF WaitingIsExact, Waiters
  <2>1. Waiters(t)' = Waiters(t)
    BY <1>1 DEF Call, Waiters, TypeOK
  <2> QED BY <2>1 DEF Call, WaitingIsExact, Waiters
<1>5. BufferRoom'
  <2>1. CASE Buffered(s)
    <3> SUFFICES ASSUME NEW t \in Storages
                 PROVE  /\ Len(buffer'[t]) \in Nat
                        /\ Len(buffer'[t]) <= Len(buffer[t])
                        /\ Inside(t)' \subseteq Inside(t)
      BY RoomKept
    <3>1. Inside(t)' \subseteq Inside(t)
      BY <2>1 DEF Call, Inside, TypeOK, InLoop
    <3>2. buffer[t] \in Seq(Workers)
      BY DEF TypeOK
    <3>3. CASE t = s
      <4>1. buffer'[t] = Tail(buffer[t]) /\ buffer[t] # <<>>
        BY <2>1, <3>3 DEF Call, Buffered, TypeOK
      <4>2. Len(Tail(buffer[t])) = Len(buffer[t]) - 1 /\ Len(buffer[t]) \in Nat \ {0}
        BY <3>2, <4>1
      <4> QED BY <3>1, <4>1, <4>2
    <3>4. CASE t # s
      BY <2>1, <3>1, <3>2, <3>4 DEF Call, TypeOK
    <3> QED BY <3>3, <3>4
  <2>2. CASE ~Buffered(s)
    BY <2>2, RoomOnEntry
  <2> QED BY <2>1, <2>2
<1> QED BY <1>2, <1>3, <1>4, <1>5

\* The steps of a call between its entry and its return.
LEMMA InsideStep ==
  ASSUME IInv, NEW c \in Callers,
         Cancel(c) \/ Select(c) \/ SelectNone(c) \/ Commit(c) \/ Sleep(c) \/ Wake(c)
  PROVE  IInv'
<1> USE DEF IInv
<1>1. TypeOK'
  <2>1. used' \in [Workers -> [Ages -> Nat]]
    BY RecordType DEF Cancel, Select, SelectNone, Commit, Sleep, Wake, TypeOK
  <2>2. waiting' \in [Storages -> Nat] /\ flag' \in [Callers -> BOOLEAN]
    BY CountType DEF Cancel, Select, SelectNone, Commit, Sleep, Wake, TypeOK
  <2>3. batch' \in [Callers -> Tokens \cup {<<>>}]
    BY DEF Cancel, Select, SelectNone, Commit, Sleep, Wake, TypeOK, Batches
  <2>4. pc' \in [Callers -> Resting \cup InLoop]
    BY DEF Cancel, Select, SelectNone, Commit, Sleep, Wake, TypeOK, InLoop
  <2>5. live' \in [Callers -> BOOLEAN] /\ storage' = storage /\ buffer' = buffer
    BY DEF Cancel, Select, SelectNone, Commit, Sleep, Wake, TypeOK
  <2>6. age' \in [Callers -> 0..Window]
    <3>1. 0 \in 0..Window /\ age \in [Callers -> 0..Window]
      BY LimitsAssumption DEF TypeOK
    <3>2. age' = age \/ age' = [age EXCEPT ![c] = 0]
      BY DEF Cancel, Select, SelectNone, Commit, Sleep, Wake
    <3> QED BY <3>1, <3>2
  <2> QED BY <2>1, <2>2, <2>3, <2>4, <2>5, <2>6 DEF TypeOK
<1>2. Stages'
  BY DEF Stages, Cancel, Select, SelectNone, Commit, Sleep, Wake, TypeOK, InLoop,
     Batches, StartWaiting
<1>3. WaitingIsExact'
  <2>1. CASE Sleep(c)
    BY <2>1, StartStep DEF Sleep
  <2>2. CASE UNCHANGED <<waiting, flag, storage>>
    BY <2>2 DEF WaitingIsExact
  <2> QED BY <2>1, <2>2 DEF Cancel, Select, SelectNone, Commit, Wake
<1>4. BufferRoom'
  <2> SUFFICES ASSUME NEW t \in Storages
               PROVE  /\ Len(buffer'[t]) \in Nat
                      /\ Len(buffer'[t]) <= Len(buffer[t])
                      /\ Inside(t)' \subseteq Inside(t)
    BY RoomKept
  <2>1. buffer' = buffer
    BY DEF Cancel, Select, SelectNone, Commit, Sleep, Wake
  <2>2. Inside(t)' \subseteq Inside(t)
    BY DEF Cancel, Select, SelectNone, Commit, Sleep, Wake, Inside, TypeOK, InLoop
  <2>3. Len(buffer[t]) \in Nat
    BY DEF TypeOK
  <2> QED BY <2>1, <2>2, <2>3
<1> QED BY <1>1, <1>2, <1>3, <1>4

\* The three ways to return.
LEMMA LeaveStep ==
  ASSUME IInv, NEW c \in Callers, Deliver(c) \/ GiveUp(c) \/ Fail(c)
  PROVE  IInv'
<1> USE DEF IInv
<1>0. PICK how \in {"got", "error"} : Return(c, how)
  BY DEF Deliver, GiveUp, Fail
<1>1. pc[c] \in InLoop
  BY DEF Deliver, GiveUp, Fail, InLoop
<1>2. used' \in [Workers -> [Ages -> Nat]]
  BY RecordType DEF Deliver, GiveUp, Fail, TypeOK
<1>3. buffer' \in [Storages -> Seq(Workers)]
  <2>1. CASE Deliver(c)
    <3>1. Tail(batch[c]) \in Seq(Workers)
      BY <2>1, BatchTail DEF Deliver, Stages
    <3>2. buffer[storage[c]] \o Tail(batch[c]) \in Seq(Workers)
      BY <3>1, ConcatProperties DEF TypeOK
    <3> QED BY <2>1, <3>2 DEF Deliver, TypeOK
  <2>2. CASE GiveUp(c) \/ Fail(c)
    BY <2>2 DEF GiveUp, Fail, TypeOK
  <2> QED BY <2>1, <2>2
<1>4. TypeOK'
  BY <1>0, <1>1, <1>2, <1>3, ReturnStep DEF TypeOK
<1>5. Stages' /\ WaitingIsExact'
  BY <1>0, <1>1, ReturnStep
<1>6. BufferRoom'
  <2>1. CASE Deliver(c)
    BY <2>1, RoomOnDelivery
  <2>2. CASE GiveUp(c) \/ Fail(c)
    <3> SUFFICES ASSUME NEW t \in Storages
                 PROVE  /\ Len(buffer'[t]) \in Nat
                        /\ Len(buffer'[t]) <= Len(buffer[t])
                        /\ Inside(t)' \subseteq Inside(t)
      BY RoomKept
    <3>1. buffer' = buffer
      BY <2>2 DEF GiveUp, Fail
    <3>2. Len(buffer[t]) \in Nat
      BY DEF TypeOK
    <3>3. Inside(t)' \subseteq Inside(t)
      BY <1>0, <1>1, ReturnStep
    <3> QED BY <3>1, <3>2, <3>3
  <2> QED BY <2>1, <2>2
<1> QED BY <1>4, <1>5, <1>6

\* Time passes: only the ages of the rows change.
LEMMA TickStep ==
  ASSUME IInv, Tick
  PROVE  IInv'
<1> USE DEF IInv
<1>1. used' \in [Workers -> [Ages -> Nat]]
  <2>1. \A a \in Ages : a = 0 \/ a - 1 \in Ages
    BY LimitsAssumption DEF Ages
  <2>2. \A w \in Workers : Aged(w) \in [Ages -> Nat]
    BY <2>1 DEF Aged, TypeOK
  <2> QED BY <2>2 DEF Tick
<1>2. UNCHANGED <<buffer, waiting, pc, storage, live, batch, flag>>
  BY DEF Tick, callVars
<1>3. TypeOK'
  <2>1. \A c \in Callers : age[c] < Window => age[c] + 1 \in 0..Window
    BY LimitsAssumption DEF TypeOK
  <2>2. age' \in [Callers -> 0..Window]
    BY <2>1 DEF Tick, TypeOK
  <2> QED BY <1>1, <1>2, <2>2 DEF TypeOK
<1>4. Stages' /\ WaitingIsExact' /\ BufferRoom'
  BY <1>2 DEF Stages, WaitingIsExact, BufferRoom, Inside
<1> QED BY <1>3, <1>4

\* Every step keeps the invariant.
LEMMA NextIInv == IInv /\ [Next]_vars => IInv'
<1> SUFFICES ASSUME IInv, [Next]_vars PROVE IInv'
  OBVIOUS
<1>1. CASE Tick
  BY <1>1, TickStep
<1>2. ASSUME NEW c \in Callers,
             Proceed(c) \/ Fail(c) \/ Cancel(c) \/ \E s \in Storages : Call(c, s)
      PROVE  IInv'
  BY <1>2, CallStep, InsideStep, LeaveStep DEF Proceed
<1>3. CASE UNCHANGED vars
  BY <1>3 DEF vars, callVars, IInv, TypeOK, Stages, WaitingIsExact, BufferRoom, Inside
<1> QED BY <1>1, <1>2, <1>3 DEF Next

\* The room of the callers in the loop is not negative.
LEMMA RoomBounds == IInv => BufferBounded
<1> SUFFICES ASSUME IInv, NEW s \in Storages
             PROVE  Len(buffer[s]) <= Cardinality(Callers) * (BatchSize - 1)
  BY DEF BufferBounded
<1>1. Inside(s) \subseteq Callers
  BY DEF Inside
<1>2. Cardinality(Inside(s)) * Extra \in Nat /\ Cardinality(Callers) * Extra \in Nat
  BY <1>1, Parts, ExtraNat, TimesMonotone
<1>3. Len(buffer[s]) + Cardinality(Inside(s)) * Extra <= Cardinality(Callers) * Extra
  BY DEF IInv, BufferRoom
<1>4. Len(buffer[s]) \in Nat
  BY DEF IInv, TypeOK
<1>5. Len(buffer[s]) <= Cardinality(Callers) * Extra
  BY <1>2, <1>3, <1>4
<1> QED BY <1>5 DEF Extra

----------------------------------------------------------------------------
(* The rows of a window, added up age by age. *)

\* Induction over the numbers up to n, for a set.
LEMMA UpTo ==
  ASSUME NEW n \in Nat, NEW S, 0 \in S,
         \A k \in 0..n : k # 0 /\ k - 1 \in S => k \in S
  PROVE  \A k \in 0..n : k \in S
<1> DEFINE Bad == {k \in 0..n : k \notin S}
<1>1. SUFFICES ASSUME Bad # {} PROVE FALSE
  OBVIOUS
<1>2. Bad \in SUBSET Nat
  OBVIOUS
<1>3. PICK m \in Bad : \A k \in Bad : ~ (<<k, m>> \in OpToRel(<, Nat))
  <2> HIDE DEF Bad
  <2> QED BY <1>1, <1>2, WFMin, NatLessThanWellFounded
<1>4. m \in 0..n /\ m \notin S /\ m \in Nat /\ m # 0
  BY <1>2, <1>3
<1>5. m - 1 \in 0..n /\ m - 1 \in Nat /\ m - 1 < m
  BY <1>4
<1>6. m - 1 \notin Bad
  BY <1>3, <1>4, <1>5 DEF OpToRel
<1> QED BY <1>4, <1>5, <1>6

\* n adds up the rows of u as far as age k.
Adds(n, u, k) ==
  /\ n \in [0..k -> Nat]
  /\ \A a \in 0..k : n[a] = IF a = 0 THEN u[0] ELSE n[a - 1] + u[a]

\* The ages are the numbers below Window.
LEMMA AgesAre == /\ Window - 1 \in Nat /\ Ages = 0..(Window - 1)
                 /\ 0 \in Ages /\ Window - 1 \in Ages
                 /\ \A a \in Ages : a \in Nat /\ (a # 0 => a - 1 \in Ages)
BY LimitsAssumption DEF Ages

\* The rows up to some age can be added up: those up to the next one as well.
LEMMA AddsExist ==
  ASSUME NEW u \in [Ages -> Nat]
  PROVE  \E n : Adds(n, u, Window - 1)
<1> DEFINE S == {k \in Ages : \E n : Adds(n, u, k)}
<1>1. 0 \in S
  <2>1. Adds([a \in 0..0 |-> u[0]], u, 0)
    BY AgesAre DEF Adds
  <2> QED BY <2>1, AgesAre
<1>2. ASSUME NEW k \in 0..(Window - 1), k # 0, k - 1 \in S
      PROVE  k \in S
  <2>1. PICK n : Adds(n, u, k - 1)
    BY <1>2
  <2> DEFINE more == [a \in 0..k |-> IF a = k THEN n[k - 1] + u[k] ELSE n[a]]
  <2>2. k \in Ages /\ k \in Nat /\ k - 1 \in Nat /\ u[k] \in Nat /\ n[k - 1] \in Nat
    <3>1. k \in Ages /\ k \in Nat /\ k - 1 \in 0..(k - 1) /\ k - 1 \in Nat
      BY <1>2, AgesAre
    <3>2. n \in [0..(k - 1) -> Nat]
      BY <2>1 DEF Adds
    <3> QED BY <3>1, <3>2
  <2>3. more \in [0..k -> Nat]
    BY <2>1, <2>2 DEF Adds
  <2>4. ASSUME NEW a \in 0..k
        PROVE  more[a] = IF a = 0 THEN u[0] ELSE more[a - 1] + u[a]
    <3>1. CASE a = k
      BY <1>2, <2>2, <3>1
    <3>2. CASE a # k
      BY <2>1, <2>2, <3>2 DEF Adds
    <3> QED BY <3>1, <3>2
  <2>5. Adds(more, u, k)
    <3> HIDE DEF more
    <3> QED BY <2>3, <2>4 DEF Adds
  <2> QED BY <2>2, <2>5
<1>3. \A k \in 0..(Window - 1) : k \in S
  <2> HIDE DEF S
  <2> QED BY <1>1, <1>2, AgesAre, UpTo
<1> QED BY <1>3, AgesAre

\* Each age adds its rows to those that are younger.
LEMMA RowsAdd ==
  ASSUME NEW u \in [Ages -> Nat]
  PROVE  Adds(RowsUpTo(u), u, Window - 1)
<1> DEFINE Eq(n) == n = [a \in Ages |-> IF a = 0 THEN u[0] ELSE n[a - 1] + u[a]]
<1>1. PICK n : Adds(n, u, Window - 1)
  BY AddsExist
<1>2. Eq(n)
  BY <1>1, AgesAre DEF Adds
<1>3. Eq(RowsUpTo(u))
  BY <1>2 DEF RowsUpTo
<1> DEFINE r == RowsUpTo(u)
<1>4. /\ DOMAIN r = Ages /\ r = [a \in Ages |-> r[a]]
      /\ \A a \in Ages : r[a] = IF a = 0 THEN u[0] ELSE r[a - 1] + u[a]
  BY <1>3
<1> HIDE DEF r
<1> DEFINE S == {a \in Ages : r[a] \in Nat}
<1>5. 0 \in S
  BY <1>4, AgesAre
<1>6. ASSUME NEW k \in 0..(Window - 1), k # 0, k - 1 \in S
      PROVE  k \in S
  <2>1. k \in Ages /\ r[k] = r[k - 1] + u[k] /\ r[k - 1] \in Nat /\ u[k] \in Nat
    BY <1>4, <1>6, AgesAre
  <2> QED BY <2>1
<1>7. \A k \in 0..(Window - 1) : k \in S
  <2> HIDE DEF S
  <2> QED BY <1>5, <1>6, AgesAre, UpTo
<1>8. r \in [0..(Window - 1) -> Nat]
  BY <1>4, <1>7, AgesAre
<1>9. Adds(r, u, Window - 1)
  BY <1>4, <1>8, AgesAre DEF Adds
<1> QED BY <1>9 DEF r

\* A worker's rows u with t more of age b.
With(u, b, t) == [a \in Ages |-> u[a] + (IF a = b THEN t ELSE 0)]

\* Rows that are recorded count from their age on: with all the rows of the
\* window, unless they have left it already.
LEMMA RowsRecorded ==
  ASSUME NEW u \in [Ages -> Nat], NEW b \in 0..Window, NEW t \in Nat
  PROVE  RowsUpTo(With(u, b, t))[Window - 1]
           = RowsUpTo(u)[Window - 1] + (IF b <= Window - 1 THEN t ELSE 0)
<1> DEFINE v == With(u, b, t)
           p == RowsUpTo(u)
           q == RowsUpTo(v)
           S == {a \in Ages : q[a] = p[a] + (IF b <= a THEN t ELSE 0)}
<1>0. b \in Nat
  BY LimitsAssumption
<1>1. v \in [Ages -> Nat] /\ \A a \in Ages : v[a] = u[a] + (IF a = b THEN t ELSE 0)
  BY DEF With
<1>2. Adds(p, u, Window - 1)
  BY RowsAdd
<1>3. Adds(q, v, Window - 1)
  <2> HIDE DEF v
  <2> QED BY <1>1, RowsAdd
<1> HIDE DEF p, q, v
<1>4. 0 \in S
  <2>1. q[0] = u[0] + (IF 0 = b THEN t ELSE 0) /\ p[0] = u[0] /\ u[0] \in Nat
    BY <1>1, <1>2, <1>3, AgesAre DEF Adds
  <2> QED BY <1>0, <2>1, AgesAre
<1>5. ASSUME NEW k \in 0..(Window - 1), k # 0, k - 1 \in S
      PROVE  k \in S
  <2>1. k \in Ages /\ k - 1 \in Ages /\ k \in Nat
        /\ q[k - 1] = p[k - 1] + (IF b <= k - 1 THEN t ELSE 0)
    BY <1>5, AgesAre
  <2>2. p[k] = p[k - 1] + u[k] /\ p[k - 1] \in Nat /\ u[k] \in Nat
    BY <1>2, <1>5, <2>1, AgesAre DEF Adds
  <2>3. q[k] = q[k - 1] + (u[k] + (IF k = b THEN t ELSE 0))
    BY <1>1, <1>3, <1>5, <2>1, AgesAre DEF Adds
  <2> QED BY <1>0, <2>1, <2>2, <2>3
<1>6. \A k \in 0..(Window - 1) : k \in S
  <2> HIDE DEF S
  <2> QED BY <1>4, <1>5, AgesAre, UpTo
<1>7. q[Window - 1] = p[Window - 1] + (IF b <= Window - 1 THEN t ELSE 0)
  BY <1>6, AgesAre
<1> QED BY <1>7 DEF p, q, v

\* What worker w's rows become when time passes, from its rows u.
Older(u) == [a \in Ages |-> IF a = 0 THEN 0 ELSE u[a - 1]]

\* When time passes, rows leave the window and none enter it.
LEMMA RowsAged ==
  ASSUME NEW u \in [Ages -> Nat]
  PROVE  /\ RowsUpTo(Older(u))[Window - 1] \in Nat
         /\ RowsUpTo(Older(u))[Window - 1] <= RowsUpTo(u)[Window - 1]
<1> DEFINE v == Older(u)
           p == RowsUpTo(u)
           q == RowsUpTo(v)
           S == {a \in Ages : q[a] = IF a = 0 THEN 0 ELSE p[a - 1]}
<1>1. v \in [Ages -> Nat] /\ v[0] = 0 /\ \A a \in Ages : a # 0 => v[a] = u[a - 1]
  BY AgesAre DEF Older
<1>2. Adds(p, u, Window - 1)
  BY RowsAdd
<1>3. Adds(q, v, Window - 1)
  <2> HIDE DEF v
  <2> QED BY <1>1, RowsAdd
<1> HIDE DEF p, q, v
<1>4. 0 \in S
  BY <1>1, <1>3, AgesAre DEF Adds
<1>5. ASSUME NEW k \in 0..(Window - 1), k # 0, k - 1 \in S
      PROVE  k \in S
  <2>1. k \in Ages /\ k - 1 \in Ages /\ q[k - 1] = IF k - 1 = 0 THEN 0 ELSE p[k - 1 - 1]
    BY <1>5, AgesAre
  <2>2. q[k] = q[k - 1] + u[k - 1] /\ u[k - 1] \in Nat
    BY <1>1, <1>3, <1>5, <2>1, AgesAre DEF Adds
  <2>3. p[k - 1] = IF k - 1 = 0 THEN u[0] ELSE p[k - 1 - 1] + u[k - 1]
    BY <1>2, <1>5, <2>1, AgesAre DEF Adds
  <2>4. q[k] = p[k - 1]
    BY <2>1, <2>2, <2>3
  <2> QED BY <1>5, <2>1, <2>4
<1>6. \A k \in 0..(Window - 1) : k \in S
  <2> HIDE DEF S
  <2> QED BY <1>4, <1>5, AgesAre, UpTo
<1>7. q[Window - 1] = IF Window - 1 = 0 THEN 0 ELSE p[Window - 1 - 1]
  BY <1>6, AgesAre
<1>8. q[Window - 1] \in Nat /\ q[Window - 1] <= p[Window - 1]
  <2>1. CASE Window - 1 = 0
    BY <1>2, <1>7, <2>1, AgesAre DEF Adds
  <2>2. CASE Window - 1 # 0
    <3>1. /\ p[Window - 1] = p[Window - 1 - 1] + u[Window - 1] /\ u[Window - 1] \in Nat
          /\ p[Window - 1 - 1] \in Nat
      BY <1>2, <2>2, AgesAre DEF Adds
    <3> QED BY <1>7, <2>2, <3>1
  <2> QED BY <2>1, <2>2
<1> QED BY <1>8 DEF p, q, v

----------------------------------------------------------------------------
(* The limit of a worker. *)

\* The most tokens of one worker in a batch, and the most rows of a worker.
Most == IF BatchSize < RateLimit THEN BatchSize ELSE RateLimit
Top  == RateLimit + (Cardinality(Callers) - 1) * Most

\* The callers whose tokens of w are selected and not recorded.
Owing(w) == {c \in Callers : pc[c] = "insert" /\ Times(batch[c], w) > 0}

\* What is selected fits into the window of its worker by itself.
Fitting ==
  \A c \in Callers : pc[c] = "insert" => \A w \in Workers : Times(batch[c], w) <= Most

\* There is room for the largest batch of everybody who owes rows; or else
\* the selection of one of them has seen all the rows that are there.
RoomFor(w) ==
  \/ Rows(w) + Cardinality(Owing(w)) * Most <= Top
  \/ \E c \in Owing(w) :
       Rows(w) + Times(batch[c], w) + (Cardinality(Owing(w)) - 1) * Most <= Top

LimitInv == Fitting /\ \A w \in Workers : RoomFor(w)

\* All these are numbers.
LEMMA LimitTypes ==
  ASSUME TypeOK, NEW w \in Workers
  PROVE  /\ Most \in Nat \ {0} /\ Top \in Nat /\ Cardinality(Callers) \in Nat \ {0}
         /\ Most <= BatchSize /\ Most <= RateLimit
         /\ \A n \in Nat : n <= BatchSize /\ n <= RateLimit => n <= Most
         /\ Rows(w) \in Nat
         /\ IsFiniteSet(Owing(w)) /\ Cardinality(Owing(w)) \in Nat
         /\ Cardinality(Owing(w)) <= Cardinality(Callers)
         /\ \A c \in Callers : Times(batch[c], w) \in Nat
<1>1. Most \in Nat \ {0} /\ Most <= BatchSize /\ Most <= RateLimit
      /\ \A n \in Nat : n <= BatchSize /\ n <= RateLimit => n <= Most
  BY LimitsAssumption DEF Most
<1>2. Cardinality(Callers) \in Nat \ {0}
  BY SetsAssumption, FS_CardinalityType, FS_EmptySet
<1>3. Top \in Nat
  <2>1. Cardinality(Callers) - 1 \in Nat
    BY <1>2
  <2>2. (Cardinality(Callers) - 1) * Most \in Nat
    BY <1>1, <2>1, TimesMonotone
  <2> QED BY <2>2, LimitsAssumption DEF Top
<1>4. Rows(w) \in Nat
  <2>1. used[w] \in [Ages -> Nat]
    BY DEF TypeOK
  <2>2. RowsUpTo(used[w]) \in [0..(Window - 1) -> Nat]
    BY <2>1, RowsAdd DEF Adds
  <2> QED BY <2>2, AgesAre DEF Rows
<1>5. IsFiniteSet(Owing(w)) /\ Cardinality(Owing(w)) \in Nat
      /\ Cardinality(Owing(w)) <= Cardinality(Callers)
  <2>1. Owing(w) \subseteq Callers
    BY DEF Owing
  <2> QED BY <2>1, Parts
<1>6. \A c \in Callers : Times(batch[c], w) \in Nat
  BY TimesNat DEF TypeOK
<1> QED BY <1>1, <1>2, <1>3, <1>4, <1>5, <1>6

\* One less of a number is one Most less.
LEMMA OneLess ==
  ASSUME NEW n \in Nat, NEW m \in Nat
  PROVE  n * m \in Nat /\ (n - 1) * m = n * m - m /\ ((n - 1) - 1) * m = n * m - m - m
<1>1. \A i, k \in Int : i * k \in Int /\ (i - 1) * k = i * k - k
  OBVIOUS
<1>2. n - 1 \in Int /\ (n - 1) * m = n * m - m
  BY <1>1
<1>3. ((n - 1) - 1) * m = (n - 1) * m - m
  BY <1>1, <1>2
<1>4. n * m \in Nat
  BY TimesMonotone
<1> QED BY <1>2, <1>3, <1>4

\* Nobody selects or records tokens of w, but rows may leave the window.
LEMMA RoomStays ==
  ASSUME TypeOK, NEW w \in Workers, RoomFor(w),
         Owing(w)' = Owing(w), \A c \in Owing(w) : batch'[c] = batch[c],
         Rows(w)' \in Nat, Rows(w)' <= Rows(w)
  PROVE  RoomFor(w)'
<1> DEFINE k == Cardinality(Owing(w))
<1>1. /\ k * Most \in Int /\ (k - 1) * Most \in Int /\ Top \in Nat /\ Rows(w) \in Nat
      /\ \A c \in Owing(w) : Times(batch[c], w) \in Nat
  BY LimitTypes, OneLess DEF Owing
<1>2. Cardinality(Owing(w)') = k
  OBVIOUS
<1>3. CASE Rows(w) + k * Most <= Top
  <2>1. Rows(w)' + k * Most <= Top
    BY <1>1, <1>3
  <2> QED BY <1>2, <2>1 DEF RoomFor, Top, Most
<1>4. ASSUME NEW c \in Owing(w), Rows(w) + Times(batch[c], w) + (k - 1) * Most <= Top
      PROVE  RoomFor(w)'
  <2>1. Rows(w)' + Times(batch[c], w) + (k - 1) * Most <= Top
    BY <1>1, <1>4
  <2>2. c \in Owing(w)' /\ batch'[c] = batch[c]
    OBVIOUS
  <2> QED BY <1>2, <2>1, <2>2 DEF RoomFor, Top, Most
<1> QED BY <1>3, <1>4 DEF RoomFor

\* What RoomPaid adds up: r and s are the rows before and after the step, t the
\* tokens recorded, e those of another caller, x the room kept for all callers.
LEMMA PaidSums ==
  ASSUME NEW r \in Int, NEW s \in Int, NEW t \in Int, NEW e \in Int, NEW x \in Int,
         NEW m \in Int, NEW top \in Int, s <= r + t, t <= m
  PROVE  /\ r + x <= top => s + (x - m) <= top
         /\ r + t + (x - m) <= top => s + (x - m) <= top
         /\ r + e + (x - m) <= top => s + e + (x - m - m) <= top
OBVIOUS

\* The insert of caller c is over: its rows are there, or it has failed.
LEMMA RoomPaid ==
  ASSUME TypeOK, Fitting, NEW w \in Workers, RoomFor(w), NEW c \in Owing(w),
         Owing(w)' = Owing(w) \ {c}, \A d \in Owing(w) \ {c} : batch'[d] = batch[d],
         Rows(w)' \in Nat, Rows(w)' <= Rows(w) + Times(batch[c], w)
  PROVE  RoomFor(w)'
<1> DEFINE k == Cardinality(Owing(w))
           r == Rows(w)
           s == Rows(w)'
           t == Times(batch[c], w)
           x == k * Most
<1>1. k \in Nat /\ Most \in Nat /\ Top \in Nat /\ r \in Nat /\ s \in Nat /\ t \in Nat
      /\ IsFiniteSet(Owing(w))
  BY LimitTypes DEF Owing
<1>2. s <= r + t /\ t <= Most
  BY DEF Fitting, Owing
<1>3. x \in Nat /\ (k - 1) * Most = x - Most /\ (k - 1 - 1) * Most = x - Most - Most
  <2> HIDE DEF k
  <2> QED BY <1>1, OneLess, Zenon
<1>4. Cardinality(Owing(w)') = k - 1
  BY <1>1, FS_RemoveElement
<1>5. /\ r \in Int /\ s \in Int /\ t \in Int /\ x \in Int /\ Most \in Int /\ Top \in Int
  <2> HIDE DEF r, s, t, x
  <2> QED BY <1>1, <1>3
<1>6. s + (x - Most) <= Top => RoomFor(w)'
  BY <1>3, <1>4, Zenon DEF RoomFor, Top, Most
<1>7. CASE r + x <= Top
  <2> HIDE DEF r, s, t, x
  <2>1. s + (x - Most) <= Top
    BY <1>2, <1>5, <1>7, PaidSums, Zenon
  <2> QED BY <2>1, <1>6
<1>8. ASSUME NEW d \in Owing(w), r + Times(batch[d], w) + (k - 1) * Most <= Top
      PROVE  RoomFor(w)'
  <2> DEFINE e == Times(batch[d], w)
  <2>0. e \in Int
    <3>1. e \in Nat
      BY LimitTypes DEF Owing
    <3> QED BY <3>1
  <2>1. r + e + (x - Most) <= Top
    BY <1>3, <1>8, Zenon
  <2>2. CASE d = c
    <3>1. e = t
      BY <2>2
    <3> HIDE DEF r, s, t, x, e
    <3>2. s + (x - Most) <= Top
      BY <1>2, <1>5, <2>1, <3>1, PaidSums, Zenon
    <3> QED BY <3>2, <1>6
  <2>3. CASE d # c
    <3>1. s + e + (x - Most - Most) <= Top
      <4> HIDE DEF r, s, t, x, e
      <4> QED BY <1>2, <1>5, <2>0, <2>1, PaidSums, Zenon
    <3>2. d \in Owing(w)' /\ batch'[d] = batch[d]
      BY <2>3
    <3>3. Rows(w)' + Times(batch'[d], w) + (Cardinality(Owing(w)') - 1) * Most <= Top
      BY <1>3, <1>4, <3>1, <3>2, Zenon
    <3> QED BY <3>2, <3>3, Zenon DEF RoomFor, Top, Most
  <2> QED BY <2>2, <2>3
<1> QED BY <1>7, <1>8, Zenon DEF RoomFor

\* Caller c has selected tokens of w that are free besides all rows there are.
LEMMA RoomTaken ==
  ASSUME TypeOK, NEW w \in Workers, NEW c \in Callers, c \notin Owing(w),
         Owing(w)' = Owing(w) \cup {c}, Rows(w)' = Rows(w),
         batch'[c] \in Tokens \cup {<<>>},
         Rows(w) + Times(batch'[c], w) <= RateLimit
  PROVE  RoomFor(w)'
<1> DEFINE k == Cardinality(Owing(w))
           n == Cardinality(Callers) - 1
           t == Times(batch'[c], w)
<1>1. /\ k \in Nat /\ n \in Nat /\ Most \in Nat /\ IsFiniteSet(Owing(w))
  BY LimitTypes
<1>2. Cardinality(Owing(w)') = k + 1
  BY <1>1, FS_AddElement
<1>3. k + 1 <= Cardinality(Callers)
  <2>1. Owing(w)' \subseteq Callers
    BY DEF Owing
  <2> QED BY <1>2, <2>1, Parts
<1>4. k <= n
  BY <1>1, <1>3, LimitTypes
<1>5. k * Most \in Nat /\ n * Most \in Nat /\ k * Most <= n * Most
  <2> HIDE DEF k, n
  <2> QED BY <1>1, <1>4, TimesMonotone
<1>6. (Cardinality(Owing(w)') - 1) * Most = k * Most
  <2>1. Cardinality(Owing(w)') - 1 = k
    <3> HIDE DEF k
    <3> QED BY <1>1, <1>2
  <2> QED BY <2>1
<1>7. Rows(w)' + t + k * Most <= Top
  <2>1. Rows(w)' + t <= RateLimit /\ Top = RateLimit + n * Most
    BY DEF Top
  <2>2. Rows(w)' \in Nat /\ RateLimit \in Nat
    BY LimitTypes, LimitsAssumption
  <2>0. t \in Nat
    BY TimesNat
  <2> DEFINE a == k * Most
             b == n * Most
  <2>3. a \in Nat /\ b \in Nat /\ a <= b /\ Top = RateLimit + b
    BY <1>5, <2>1
  <2> HIDE DEF a, b, t
  <2>4. Rows(w)' + t + a <= Top
    <3>1. \A r, i \in Int, l, g, h \in Nat : r + i <= l /\ g <= h => r + i + g <= l + h
      OBVIOUS
    <3>2. Rows(w)' \in Int /\ t \in Int
      BY <2>2, <2>0
    <3> QED BY <2>1, <2>2, <2>3, <3>1, <3>2, Zenon
  <2> QED BY <2>4 DEF a
<1>8. c \in Owing(w)'
  OBVIOUS
<1> QED BY <1>6, <1>7, <1>8 DEF RoomFor, Top, Most

\* What a statement selects fits beside the rows it has counted.
LEMMA SelectedFits ==
  ASSUME TypeOK, NEW s, NEW q \in Batches(s), NEW w \in Workers
  PROVE  /\ Times(q, w) \in Nat /\ Times(q, w) <= Most
         /\ Times(q, w) > 0 => Rows(w) + Times(q, w) <= RateLimit
<1> DEFINE I == {i \in DOMAIN q : q[i] = w}
<1>1. q \in Tokens /\ \A i \in DOMAIN q : Free(q[i], Times(q, q[i]))
  BY DEF Batches
<1>2. PICK n \in 1..BatchSize : q \in [1..n -> Workers]
  BY <1>1 DEF Tokens
<1>3. n \in Nat /\ n <= BatchSize /\ 1 \in Int
  BY LimitsAssumption
<1>4. IsFiniteSet(1..n) /\ Cardinality(1..n) = n
  BY <1>3, FS_Interval
<1>5. I \subseteq 1..n
  BY <1>2
<1>6. Cardinality(I) <= n /\ Cardinality(I) \in Nat /\ IsFiniteSet(I)
  BY <1>4, <1>5, FS_Subset, FS_CardinalityType
<1>7. Times(q, w) = Cardinality(I)
  BY DEF Times
<1>8. CASE I = {}
  <2>1. Times(q, w) = 0
    BY <1>7, <1>8, FS_EmptySet
  <2> QED BY <2>1, LimitTypes
<1>9. CASE I # {}
  <2>1. PICK i \in DOMAIN q : q[i] = w
    BY <1>9
  <2>2. Free(w, Times(q, w))
    BY <1>1, <2>1
  <2>3. Rows(w) + Times(q, w) <= RateLimit
    BY <2>2 DEF Free
  <2>4. Rows(w) \in Nat /\ RateLimit \in Nat /\ BatchSize \in Nat
    BY LimitTypes, LimitsAssumption
  <2> HIDE DEF I
  <2>5. Times(q, w) \in Nat /\ Times(q, w) <= BatchSize
    BY <1>3, <1>6, <1>7, <2>4
  <2>6. Times(q, w) <= RateLimit
    BY <2>3, <2>4, <2>5
  <2> QED BY <2>3, <2>5, <2>6, LimitTypes
<1> QED BY <1>8, <1>9

\* Recording a batch adds its tokens to the rows of every worker, or is too late
\* to add any.
LEMMA RecordRows ==
  ASSUME TypeOK, NEW c \in Callers, Record(c), NEW w \in Workers
  PROVE  Rows(w)' = Rows(w) \/ Rows(w)' = Rows(w) + Times(batch[c], w)
<1>1. used[w] \in [Ages -> Nat] /\ Times(batch[c], w) \in Nat /\ age[c] \in 0..Window
  BY LimitTypes DEF TypeOK
<1>2. used'[w] = With(used[w], age[c], Times(batch[c], w))
  BY DEF Record, With
<1>3. Rows(w)' = Rows(w) + (IF age[c] <= Window - 1 THEN Times(batch[c], w) ELSE 0)
  <2> DEFINE u == used[w]
             b == age[c]
             t == Times(batch[c], w)
  <2> HIDE DEF u, b, t
  <2>1. RowsUpTo(With(u, b, t))[Window - 1]
          = RowsUpTo(u)[Window - 1] + (IF b <= Window - 1 THEN t ELSE 0)
    BY <1>1, RowsRecorded, Zenon DEF u, b, t
  <2> QED BY <1>2, <2>1, Zenon DEF Rows, u, b, t
<1>4. Rows(w) \in Nat
  BY LimitTypes
<1> QED BY <1>3, <1>4

\* At first nobody has selected anything.
LEMMA InitLimit == Init => LimitInv
<1> SUFFICES ASSUME Init PROVE LimitInv
  OBVIOUS
<1>1. Fitting
  BY DEF Init, Fitting
<1>2. ASSUME NEW w \in Workers PROVE RoomFor(w)
  <2>1. TypeOK
    BY InitIInv DEF IInv
  <2>2. Owing(w) = {}
    BY DEF Init, Owing
  <2>3. Cardinality(Owing(w)) * Most = 0
    BY <2>1, <2>2, FS_EmptySet, LimitTypes
  <2>4. Rows(w) = 0
    <3> DEFINE u == [a \in Ages |-> 0]
               r == RowsUpTo(u)
               S == {a \in Ages : r[a] = 0}
    <3>1. used[w] = u /\ u \in [Ages -> Nat]
      BY DEF Init
    <3>2. Adds(r, u, Window - 1)
      <4> HIDE DEF u
      <4> QED BY <3>1, RowsAdd
    <3>3. \A a \in Ages : u[a] = 0
      OBVIOUS
    <3> HIDE DEF r, u
    <3>4. \A a \in Ages : r[a] = IF a = 0 THEN 0 ELSE r[a - 1] + 0
      BY <3>2, <3>3, AgesAre DEF Adds
    <3>5. 0 \in S
      BY <3>4, AgesAre
    <3>6. ASSUME NEW k \in 0..(Window - 1), k # 0, k - 1 \in S PROVE k \in S
      BY <3>4, <3>6, AgesAre
    <3>7. \A k \in 0..(Window - 1) : k \in S
      <4> HIDE DEF S
      <4> QED BY <3>5, <3>6, AgesAre, UpTo
    <3>8. r[Window - 1] = 0
      BY <3>7, AgesAre
    <3> QED BY <3>1, <3>8 DEF Rows, r
  <2>5. Rows(w) + Cardinality(Owing(w)) * Most <= Top
    BY <2>1, <2>3, <2>4, LimitTypes
  <2> QED BY <2>5 DEF RoomFor
<1> QED BY <1>1, <1>2 DEF LimitInv

\* A statement that selects.
LEMMA SelectLimit ==
  ASSUME TypeOK, LimitInv, NEW c \in Callers, Select(c)
  PROVE  LimitInv'
<1>1. PICK q \in Batches(storage[c]) : batch' = [batch EXCEPT ![c] = q]
  BY DEF Select
<1>2. /\ pc[c] = "loop" /\ pc' = [pc EXCEPT ![c] = "insert"] /\ used' = used
      /\ q \in Tokens /\ batch'[c] = q /\ \A d \in Callers \ {c} : batch'[d] = batch[d]
  BY <1>1 DEF Select, Batches, TypeOK
<1>3. Fitting'
  <2> SUFFICES ASSUME NEW d \in Callers, pc'[d] = "insert", NEW w \in Workers
               PROVE  Times(batch'[d], w) <= Most
    BY DEF Fitting, Most
  <2>1. CASE d = c
    BY <1>2, <2>1, SelectedFits
  <2>2. CASE d # c
    BY <1>2, <2>2 DEF LimitInv, Fitting, TypeOK
  <2> QED BY <2>1, <2>2
<1>4. ASSUME NEW w \in Workers PROVE RoomFor(w)'
  <2>1. RoomFor(w) /\ Rows(w)' = Rows(w) /\ Rows(w) \in Nat
    BY <1>2, LimitTypes DEF LimitInv, Rows
  <2>2. c \notin Owing(w) /\ \A d \in Owing(w) : batch'[d] = batch[d]
    BY <1>2 DEF Owing
  <2>3. Times(q, w) \in Nat
    BY SelectedFits
  <2>4. CASE Times(q, w) = 0
    <3>1. Owing(w)' = Owing(w)
      <4>1. ~ (Times(q, w) > 0)
        BY <2>4
      <4> QED BY <1>2, <4>1 DEF Owing, TypeOK
    <3>2. Rows(w)' \in Nat /\ Rows(w)' <= Rows(w)
      BY <2>1
    <3> QED BY <2>1, <2>2, <3>1, <3>2, RoomStays
  <2>5. CASE Times(q, w) > 0
    <3>1. Owing(w)' = Owing(w) \cup {c}
      BY <1>2, <2>5 DEF Owing, TypeOK
    <3>2. Rows(w) + Times(batch'[c], w) <= RateLimit
      BY <1>2, <2>5, SelectedFits
    <3> QED BY <1>2, <2>1, <2>2, <3>1, <3>2, RoomTaken
  <2> QED BY <2>3, <2>4, <2>5
<1> QED BY <1>3, <1>4 DEF LimitInv

\* An insert that ends, with its rows or without them.
LEMMA InsertLimit ==
  ASSUME TypeOK, LimitInv, NEW c \in Callers, Commit(c) \/ Fail(c), pc[c] = "insert"
  PROVE  LimitInv'
<1>1. /\ pc'[c] # "insert"
      /\ \A d \in Callers \ {c} : pc'[d] = pc[d] /\ batch'[d] = batch[d]
      /\ used' = used \/ Record(c)
  BY DEF Commit, Fail, Return, TypeOK
<1>2. Fitting'
  <2>1. \A d \in Callers : pc'[d] = "insert" => pc[d] = "insert" /\ batch'[d] = batch[d]
    BY <1>1
  <2> QED BY <2>1, Zenon DEF LimitInv, Fitting, Most
<1>3. ASSUME NEW w \in Workers PROVE RoomFor(w)'
  <2>1. RoomFor(w) /\ Rows(w) \in Nat /\ Times(batch[c], w) \in Nat /\ Fitting
    BY LimitTypes DEF LimitInv
  <2>2. Rows(w)' = Rows(w) \/ Rows(w)' = Rows(w) + Times(batch[c], w)
    <3>1. used' = used => Rows(w)' = Rows(w)
      BY DEF Rows
    <3> QED BY <1>1, <3>1, RecordRows
  <2>3. Rows(w)' \in Nat /\ Rows(w)' <= Rows(w) + Times(batch[c], w)
        /\ (Times(batch[c], w) = 0 => Rows(w)' <= Rows(w))
    <3>1. \A i, j, k \in Nat : j = i \/ j = i + k => j <= i + k /\ (k = 0 => j <= i)
      OBVIOUS
    <3>2. \A i, k \in Nat : i + k \in Nat
      OBVIOUS
    <3> QED BY <2>1, <2>2, <3>1, <3>2, Zenon
  <2>4. CASE Times(batch[c], w) = 0
    <3>0. ~ (Times(batch[c], w) > 0)
      BY <2>4
    <3>1. Owing(w)' = Owing(w) /\ \A d \in Owing(w) : batch'[d] = batch[d]
      <4>1. c \notin Owing(w)
        BY <3>0 DEF Owing
      <4>2. c \notin Owing(w)'
        BY <1>1 DEF Owing
      <4>3. \A d \in Callers \ {c} : d \in Owing(w)' <=> d \in Owing(w)
        BY <1>1 DEF Owing
      <4>4. Owing(w) \subseteq Callers /\ Owing(w)' \subseteq Callers
        BY DEF Owing
      <4> QED BY <1>1, <4>1, <4>2, <4>3, <4>4
    <3> QED BY <2>1, <2>3, <2>4, <3>1, RoomStays
  <2>5. CASE Times(batch[c], w) > 0
    <3>1. c \in Owing(w)
      BY <2>5 DEF Owing
    <3>2. Owing(w)' = Owing(w) \ {c} /\ \A d \in Owing(w) \ {c} : batch'[d] = batch[d]
      <4>2. c \notin Owing(w)'
        BY <1>1 DEF Owing
      <4>3. \A d \in Callers \ {c} : d \in Owing(w)' <=> d \in Owing(w)
        BY <1>1 DEF Owing
      <4>4. Owing(w) \subseteq Callers /\ Owing(w)' \subseteq Callers
        BY DEF Owing
      <4> QED BY <1>1, <4>2, <4>3, <4>4
    <3> QED BY <2>1, <2>3, <3>1, <3>2, RoomPaid
  <2> QED BY <2>1, <2>4, <2>5
<1> QED BY <1>2, <1>3 DEF LimitInv

\* Time passes: no worker has more rows than before.
LEMMA TickLimit ==
  ASSUME TypeOK, LimitInv, Tick
  PROVE  LimitInv'
<1>1. pc' = pc /\ batch' = batch
  BY DEF Tick, callVars
<1>2. Fitting'
  BY <1>1 DEF LimitInv, Fitting, Most
<1>3. ASSUME NEW w \in Workers PROVE RoomFor(w)'
  <2>1. used[w] \in [Ages -> Nat] /\ used'[w] = Older(used[w])
    BY DEF TypeOK, Tick, Aged, Older
  <2>2. Rows(w)' \in Nat /\ Rows(w)' <= Rows(w)
    BY <2>1, RowsAged, Zenon DEF Rows
  <2>3. Owing(w)' = Owing(w) /\ RoomFor(w)
    BY <1>1 DEF Owing, LimitInv
  <2> QED BY <1>1, <2>2, <2>3, RoomStays
<1> QED BY <1>2, <1>3 DEF LimitInv

\* All other steps neither select nor insert.
LEMMA OtherLimit ==
  ASSUME TypeOK, LimitInv, used' = used,
         \A c \in Callers : \/ pc'[c] # "insert" /\ pc[c] # "insert"
                            \/ pc'[c] = pc[c] /\ batch'[c] = batch[c]
  PROVE  LimitInv'
<1>1. Fitting'
  <2>1. \A d \in Callers : pc'[d] = "insert" => pc[d] = "insert" /\ batch'[d] = batch[d]
    OBVIOUS
  <2> QED BY <2>1, Zenon DEF LimitInv, Fitting, Most
<1>2. ASSUME NEW w \in Workers PROVE RoomFor(w)'
  <2>1. Rows(w)' = Rows(w) /\ Rows(w) \in Nat /\ RoomFor(w)
    BY LimitTypes DEF Rows, LimitInv
  <2>2. Owing(w)' = Owing(w) /\ \A c \in Owing(w) : batch'[c] = batch[c]
    BY DEF Owing
  <2>3. Rows(w)' \in Nat /\ Rows(w)' <= Rows(w)
    BY <2>1
  <2> QED BY <2>1, <2>2, <2>3, RoomStays
<1> QED BY <1>1, <1>2 DEF LimitInv

\* Every step keeps the room.
LEMMA NextLimit == IInv /\ LimitInv /\ [Next]_vars => LimitInv'
<1> SUFFICES ASSUME IInv, LimitInv, [Next]_vars PROVE LimitInv'
  OBVIOUS
<1>1. TypeOK
  BY DEF IInv
<1>2. CASE Tick
  BY <1>1, <1>2, TickLimit
<1>3. ASSUME NEW c \in Callers,
             SelectNone(c) \/ Deliver(c) \/ Sleep(c) \/ Wake(c) \/ GiveUp(c) \/ Cancel(c)
               \/ (Fail(c) /\ pc[c] # "insert") \/ \E s \in Storages : Call(c, s)
      PROVE  LimitInv'
  <2>1. used' = used
    BY <1>3 DEF SelectNone, Deliver, Sleep, Wake, GiveUp, Cancel, Fail, Call
  <2>2. \A d \in Callers : \/ pc'[d] # "insert" /\ pc[d] # "insert"
                           \/ pc'[d] = pc[d] /\ batch'[d] = batch[d]
    BY <1>1, <1>3 DEF SelectNone, Deliver, Sleep, Wake, GiveUp, Cancel, Fail, Call,
       Return, TypeOK, Resting
  <2> QED BY <1>1, <2>1, <2>2, OtherLimit
<1>4. ASSUME NEW c \in Callers, Select(c) PROVE LimitInv'
  BY <1>1, <1>4, SelectLimit
<1>5. ASSUME NEW c \in Callers, Commit(c) \/ (Fail(c) /\ pc[c] = "insert") PROVE LimitInv'
  BY <1>1, <1>5, InsertLimit DEF Commit
<1>6. CASE UNCHANGED vars
  <2>1. used' = used /\ pc' = pc /\ batch' = batch
    BY <1>6 DEF vars, callVars
  <2> QED BY <1>1, <2>1, OtherLimit
<1> QED BY <1>2, <1>3, <1>4, <1>5, <1>6 DEF Next, Proceed

\* With room for those who owe rows the limit is exceeded by no more.
LEMMA LimitBounds == IInv /\ LimitInv => OvershootBounded
<1> SUFFICES ASSUME IInv, LimitInv, NEW w \in Workers PROVE Rows(w) <= Top
  BY DEF OvershootBounded, Top, Most
<1> DEFINE k == Cardinality(Owing(w))
<1>1. /\ k \in Nat /\ Most \in Nat /\ Rows(w) \in Nat /\ Top \in Nat /\ IsFiniteSet(Owing(w))
      /\ \A c \in Owing(w) : Times(batch[c], w) \in Nat
  BY LimitTypes DEF IInv, Owing
<1>2. CASE Rows(w) + k * Most <= Top
  <2>1. k * Most \in Nat
    BY <1>1, TimesMonotone
  <2> DEFINE x == k * Most
  <2>2. x \in Nat /\ Rows(w) + x <= Top
    BY <1>2, <2>1
  <2> HIDE DEF x
  <2> QED BY <1>1, <2>2
<1>3. ASSUME NEW c \in Owing(w), Rows(w) + Times(batch[c], w) + (k - 1) * Most <= Top
      PROVE  Rows(w) <= Top
  <2>1. k # 0
    BY <1>1, FS_EmptySet
  <2>2. k - 1 \in Nat
    <3> HIDE DEF k
    <3> QED BY <1>1, <2>1
  <2> DEFINE x == (k - 1) * Most
             t == Times(batch[c], w)
  <2>3. x \in Nat /\ t \in Nat /\ Rows(w) + t + x <= Top
    <3>1. x \in Nat
      <4> HIDE DEF k
      <4> QED BY <1>1, <2>2, TimesMonotone
    <3> QED BY <1>1, <1>3, <3>1
  <2> HIDE DEF x, t
  <2> QED BY <1>1, <2>3
<1> QED BY <1>2, <1>3 DEF LimitInv, RoomFor

----------------------------------------------------------------------------
\* Every variable of the scheduler keeps its type: no count goes below zero
\* and a batch that is delivered exists.
THEOREM TypeCorrect == Spec => []TypeOK
<1>1. IInv => TypeOK
  BY DEF IInv
<1> QED BY <1>1, InitIInv, NextIInv, PTL DEF Spec

\* A storage reports that it waits exactly while calls wait for it, for any
\* number of callers that return by any way (setWaiting).
THEOREM WaitingCountsAreExact == Spec => []WaitingIsExact
<1>1. IInv => WaitingIsExact
  BY DEF IInv
<1> QED BY <1>1, InitIInv, NextIInv, PTL DEF Spec

\* The tokens set aside for later calls never exceed a batch less one for
\* every caller (popBufferedToken, bufferTokens).
THEOREM BuffersAreBounded == Spec => []BufferBounded
BY RoomBounds, InitIInv, NextIInv, PTL DEF Spec

\* Concurrent batches of any size exceed the limit of a worker by at most one
\* batch for each of the other callers, however long they go on (the CTE of
\* GetTokenBatch counts committed rows only).
THEOREM OvershootsAreBounded == Spec => []OvershootBounded
BY InitIInv, NextIInv, InitLimit, NextLimit, LimitBounds, PTL DEF Spec
============================================================================
