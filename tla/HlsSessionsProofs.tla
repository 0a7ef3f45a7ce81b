------------------------- MODULE HlsSessionsProofs -------------------------
(***************************************************************************)
(* The sessions of the player, for any users, files, requests and number   *)
(* of segments.                                                            *)
(*                                                                         *)
(* The argument: a key names one session, that session knows its key, and  *)
(* it is neither cancelled nor without its directory (Tracked); whatever   *)
(* takes a session out of the table cancels it in the same step, and only  *)
(* a cancelled one loses its directory.  A request that waits knows a      *)
(* session that was started (Asked); the start index never changes and the *)
(* segments only grow, so what covers decided stays true; and a process    *)
(* that has ended writes nothing more, so a second look is the last.       *)
(***************************************************************************)
EXTENDS HlsSessions, TLAPS

\* The table of sessions and the sessions agree.
Tracked ==
  /\ \A k \in Keys :
       sessions[k] # None =>
         /\ session[sessions[k]].key = k /\ ~session[sessions[k]].cancelled
         /\ Started(sessions[k]) /\ sessions[k] \in dirs
  /\ \A s \in Ids :
       /\ Started(s) => session[s].key \in Keys
       /\ Orphan(s) => Started(s)
       /\ Started(s) /\ ~session[s].cancelled /\ ~Orphan(s) =>
            sessions[session[s].key] = s /\ s \in sources

\* What is known of a session.
Session ==
  [key : Keys \cup {None}, start : 0..(Segments - 1), made : 0..Segments,
   proc : {"none", "running", "exited"}, cancelled : BOOLEAN, idle : BOOLEAN]

Served == {"found", "served", "vanished"}

\* What a request knows where it is.
AskedOf(r) ==
  /\ pc[r] # "idle" => key[r] \in Keys
  /\ pc[r] \in Waiting \cup Served \cup {"ended"} => mine[r] \in Ids /\ Started(mine[r])
  /\ pc[r] \in {"restat", "ended"} => ~Running(mine[r])
  /\ pc[r] = "vanished" => session[mine[r]].cancelled

Asked == \A r \in Requests : AskedOf(r)

IInv == TypeOK /\ Tracked /\ Asked /\ SegmentsAreComing /\ ProducedIsServed

\* At first there are no sessions.
LEMMA InitIInv == Init => IInv
<1> SUFFICES ASSUME Init PROVE IInv
  OBVIOUS
<1>1. TypeOK
  BY HlsAssumption DEF Init, TypeOK, Unused, Names, Waiting, Over
<1>2. Tracked /\ Asked
  BY DEF Init, Tracked, Orphan, Asked, AskedOf, Started, Unused, Waiting, Served
<1>3. SegmentsAreComing /\ ProducedIsServed
  BY DEF Init, SegmentsAreComing, ProducedIsServed, ProducedIsFound, FoundIsThere, Waiting
<1> QED
  BY <1>1, <1>2, <1>3 DEF IInv

\* A request asks for a segment, and learns the header it needs.
LEMMA AskStep ==
  ASSUME IInv,
         \/ \E r \in Requests, k \in Keys, n \in Names : Ask(r, k, n)
         \/ \E f \in {FileOf[k] : k \in Keys}, ok \in BOOLEAN : LoadInfo(f, ok)
  PROVE  IInv'
<1> USE DEF IInv
<1>1. ASSUME NEW r \in Requests, NEW k \in Keys, NEW n \in Names, Ask(r, k, n)
      PROVE  IInv'
  <2>1. TypeOK'
    BY <1>1 DEF Ask, Goto, hlsVars, TypeOK
  <2>2. Tracked' /\ Asked'
    BY <1>1 DEF Ask, Goto, hlsVars, Tracked, Orphan, Asked, AskedOf, Started, Running, TypeOK, Waiting, Served
  <2>3. \A q \in Requests : q # r => pc'[q] = pc[q] /\ name'[q] = name[q]
    BY <1>1 DEF Ask, Goto, TypeOK
  <2>4. pc'[r] \in {"lookup", "info"}
    BY <1>1 DEF Ask, Goto, TypeOK
  <2>5. SegmentsAreComing'
    BY <1>1, <2>3, <2>4 DEF Ask, hlsVars, SegmentsAreComing, Awaited, Running, Frontier, Waiting
  <2>6. ProducedIsServed'
    BY <1>1, <2>3, <2>4 DEF Ask, hlsVars, ProducedIsServed, ProducedIsFound, FoundIsThere,
       Exists, Frontier, Awaited
  <2> QED
    BY <2>1, <2>2, <2>5, <2>6
<1>2. ASSUME NEW f \in {FileOf[k] : k \in Keys}, NEW ok \in BOOLEAN, LoadInfo(f, ok)
      PROVE  IInv'
  <2>1. \A r \in Requests : pc'[r] # pc[r] => pc[r] = "info" /\ pc'[r] \in {"lookup", "failed"}
    BY <1>2 DEF LoadInfo, AwaitInfo
  <2>2. TypeOK'
    <3>1. infos' \subseteq {FileOf[k] : k \in Keys}
      BY <1>2 DEF LoadInfo, TypeOK
    <3>2. pc' \in [Requests -> {"idle", "info", "lookup", "found"} \cup Waiting \cup Over]
      BY <1>2, <2>1 DEF LoadInfo, TypeOK, Over
    <3> QED
      BY <1>2, <3>1, <3>2 DEF LoadInfo, hlsVars, TypeOK
  <2>3. Tracked' /\ Asked'
    BY <1>2, <2>1 DEF LoadInfo, hlsVars, Tracked, Orphan, Asked, AskedOf, Started, Running, Waiting, Served
  <2>4. SegmentsAreComing'
    BY <1>2, <2>1 DEF LoadInfo, hlsVars, SegmentsAreComing, Awaited, Running, Frontier, Waiting
  <2>5. ProducedIsServed'
    BY <1>2, <2>1 DEF LoadInfo, hlsVars, ProducedIsServed, ProducedIsFound, FoundIsThere,
       Exists, Frontier, Awaited
  <2> QED
    BY <2>2, <2>3, <2>4, <2>5
<1> QED
  BY <1>1, <1>2

\* Waiting, looking again and giving up change no session.
LEMMA WaitStep ==
  ASSUME IInv, NEW r \in Requests, Wait(r) \/ GiveUp(r) \/ OutOfRange(r) \/ Open(r)
  PROVE  IInv'
<1> USE DEF IInv
<1>1. UNCHANGED <<hlsVars, infos, key, name, mine, orphans, restarts>>
  BY DEF Wait, GiveUp, OutOfRange, Open, Stat, ProcessDone, Restat, PollAgain
<1>2. PICK place \in {"found", "select", "restat", "ended", "stat", "failed", "served", "vanished"} :
        Goto(r, place)
  BY DEF Wait, GiveUp, OutOfRange, Open, Stat, ProcessDone, Restat, PollAgain
<1>3. /\ \A q \in Requests : q # r => pc'[q] = pc[q]
      /\ pc'[r] = place
  BY <1>2 DEF Goto, TypeOK
<1>4. /\ place \in Waiting => pc[r] \in Waiting
      /\ place = "restat" => ~Running(mine[r])
      /\ place = "ended" => pc[r] = "restat" /\ ~Exists(mine[r], Awaited(r))
      /\ place = "found" => pc[r] \in Waiting /\ Exists(mine[r], Awaited(r))
      /\ place \in {"served", "vanished"} => pc[r] = "found"
      /\ place = "vanished" => mine[r] \notin dirs
      /\ place = "failed" => pc[r] \in {"lookup", "select"}
  BY <1>3 DEF Wait, GiveUp, OutOfRange, Open, Stat, ProcessDone, Restat, PollAgain, Goto, Waiting, TypeOK
<1>5. TypeOK'
  BY <1>1, <1>2 DEF Goto, hlsVars, TypeOK, Waiting, Over
<1>6. Tracked'
  BY <1>1 DEF hlsVars, Tracked, Orphan, Started
<1>7. Asked'
  BY <1>1, <1>3, <1>4
     DEF hlsVars, Asked, AskedOf, Started, Running, Waiting, Served, ProducedIsServed, FoundIsThere
<1>8. SegmentsAreComing'
  BY <1>1, <1>3, <1>4 DEF hlsVars, SegmentsAreComing, Awaited, Running, Frontier
<1>9. ProducedIsServed'
  <2>1. \A q \in Requests : ProducedIsFound(q)'
    BY <1>1, <1>3, <1>4 DEF hlsVars, ProducedIsServed, ProducedIsFound, Exists, Frontier, Awaited
  <2>2. \A q \in Requests : FoundIsThere(q)'
    BY <1>1, <1>3, <1>4 DEF hlsVars, ProducedIsServed, FoundIsThere, Exists
  <2> QED
    BY <2>1, <2>2 DEF ProducedIsServed
<1> QED
  BY <1>5, <1>6, <1>7, <1>8, <1>9

\* The sessions have their type.
LEMMA SessionType ==
  /\ TypeOK => session \in [Ids -> Session]
  /\ TypeOK' => session' \in [Ids -> Session]
  /\ \A t \in Session : t.start \in Nat /\ t.made \in Nat
BY HlsAssumption DEF TypeOK, Session

\* What a step leaves of the sessions there are, so that what requests know of
\* them stays true.
Kept ==
  \A s \in Ids : Started(s) =>
    /\ session'[s].start = session[s].start /\ session'[s].key = session[s].key
    /\ session[s].made <= session'[s].made
    /\ ~Running(s) => session'[s].made = session[s].made /\ ~Running(s)'
    /\ session[s].cancelled => session'[s].cancelled
    /\ Started(s)'
    /\ s \in dirs' => s \in dirs
    /\ s \in dirs /\ s \notin dirs' => session'[s].cancelled

\* SegmentsAreComing, of one request.
ComingFor(r) ==
  pc[r] \in Waiting /\ Running(mine[r]) =>
    /\ session[mine[r]].start <= Awaited(r)
    /\ Awaited(r) < Frontier(mine[r]) + MaxWaitAhead

\* A request that the step leaves where it is knows what it knew.
LEMMA RequestKeeps ==
  ASSUME IInv, Kept, TypeOK', NEW r \in Requests,
         pc'[r] = pc[r], key'[r] = key[r], name'[r] = name[r], mine'[r] = mine[r]
  PROVE  AskedOf(r)' /\ ComingFor(r)' /\ ProducedIsFound(r)' /\ FoundIsThere(r)'
<1> USE DEF IInv
<1>0. \A s \in Ids : /\ session[s].start \in Nat /\ session[s].made \in Nat
                     /\ session'[s].start \in Nat /\ session'[s].made \in Nat
  BY SessionType
<1>1. AskedOf(r)
  BY DEF Asked
<1>2. AskedOf(r)'
  <2>1. CASE pc[r] \in Waiting \cup Served \cup {"ended"}
    <3>1. mine[r] \in Ids /\ Started(mine[r])
      BY <1>1, <2>1 DEF AskedOf
    <3>2. /\ session'[mine[r]].proc # "none"
          /\ session[mine[r]].proc # "running" => session'[mine[r]].proc # "running"
          /\ session[mine[r]].cancelled => session'[mine[r]].cancelled
      BY <3>1 DEF Kept, Started, Running
    <3> QED
      BY <1>1, <2>1, <3>1, <3>2 DEF AskedOf, Started, Running
  <2>2. CASE pc[r] \notin Waiting \cup Served \cup {"ended"}
    BY <1>1, <2>2 DEF AskedOf, Waiting, Served
  <2> QED
    BY <2>1, <2>2
<1>3. ComingFor(r)'
  <2> SUFFICES ASSUME pc[r] \in Waiting, Running(mine[r])'
               PROVE  /\ session'[mine[r]].start <= Awaited(r)'
                      /\ Awaited(r)' < Frontier(mine[r])' + MaxWaitAhead
    BY DEF ComingFor, Running, Frontier
  <2>1. mine[r] \in Ids /\ Started(mine[r]) /\ Running(mine[r])
    BY <1>1 DEF AskedOf, Kept, Running
  <2>2. /\ Awaited(r)' = Awaited(r) /\ session'[mine[r]].start = session[mine[r]].start
        /\ session[mine[r]].made <= session'[mine[r]].made
    BY <2>1 DEF Awaited, Kept
  <2>3. session[mine[r]].start <= Awaited(r) /\ Awaited(r) < Frontier(mine[r]) + MaxWaitAhead
    BY <2>1 DEF SegmentsAreComing
  <2>4. Awaited(r) \in Nat
    BY <1>0, <2>1, <2>3, HlsAssumption DEF Awaited, TypeOK, Names
  <2> QED
    BY <1>0, <2>1, <2>2, <2>3, <2>4, HlsAssumption DEF Frontier
<1>4. ProducedIsFound(r)'
  <2> SUFFICES ASSUME pc[r] = "ended"
               PROVE  ~Exists(mine[r], Awaited(r))' \/ session'[mine[r]].cancelled
    BY DEF ProducedIsFound, Exists
  <2>1. mine[r] \in Ids /\ Started(mine[r]) /\ ~Running(mine[r])
    BY <1>1 DEF AskedOf
  <2>2. Awaited(r)' = Awaited(r)
    BY <2>1 DEF Awaited, Kept
  <2>3. ~Exists(mine[r], Awaited(r)) \/ session[mine[r]].cancelled
    BY DEF ProducedIsServed, ProducedIsFound
  <2> QED
    BY <2>1, <2>2, <2>3 DEF Kept, Exists, Frontier
<1>5. FoundIsThere(r)'
  <2>1. pc[r] \in {"found", "vanished"} => mine[r] \in Ids /\ Started(mine[r])
    BY <1>1 DEF AskedOf, Served
  <2> QED
    BY <2>1 DEF ProducedIsServed, FoundIsThere, Kept
<1> QED
  BY <1>2, <1>3, <1>4, <1>5

\* The requests learn nothing new from such a step.
LEMMA RequestsKeep ==
  ASSUME IInv, Kept, TypeOK', UNCHANGED <<pc, key, name, mine>>
  PROVE  Asked' /\ SegmentsAreComing' /\ ProducedIsServed'
<1>1. \A r \in Requests : AskedOf(r)' /\ ComingFor(r)' /\ ProducedIsFound(r)' /\ FoundIsThere(r)'
  BY RequestKeeps
<1> QED
  BY <1>1 DEF Asked, SegmentsAreComing, ComingFor, ProducedIsServed

\* Sessions that are stopped are cancelled, and no other.
LEMMA Stopped ==
  ASSUME IInv, NEW S \in SUBSET Ids, StopAll(S), UNCHANGED <<dirs, infos, orphans, restarts>>
  PROVE  /\ Kept /\ Tracked' /\ sources' \subseteq Ids
         /\ sessions' \in [Keys -> Ids \cup {None}]
         /\ session' \in [Ids -> Session]
<1> USE DEF IInv
<1>1. \A s \in Ids :
        session'[s] = IF s \in S THEN [session[s] EXCEPT !.cancelled = TRUE, !.idle = FALSE]
                      ELSE session[s]
  BY DEF StopAll, Cancelled
<1>2. session' \in [Ids -> Session]
  <2>1. \A s \in Ids : session'[s] \in Session
    BY <1>1, SessionType DEF Session
  <2> QED
    BY <2>1 DEF StopAll, Cancelled
<1>3. \A s \in Ids : /\ session'[s].key = session[s].key /\ session'[s].start = session[s].start
                     /\ session'[s].made = session[s].made /\ session'[s].proc = session[s].proc
                     /\ session'[s].cancelled <=> s \in S \/ session[s].cancelled
  BY <1>1, SessionType DEF Session
<1>4. Kept
  BY <1>3, HlsAssumption DEF Kept, Started, Running, TypeOK
<1>5. \A k \in Keys : sessions'[k] = IF sessions[k] \in S THEN None ELSE sessions[k]
  BY DEF StopAll, Unregistered
<1>6. sessions' \in [Keys -> Ids \cup {None}]
  BY DEF StopAll, Unregistered, TypeOK
<1>7. Tracked'
  <2>1. \A k \in Keys : sessions'[k] # None =>
          /\ session'[sessions'[k]].key = k /\ ~session'[sessions'[k]].cancelled
          /\ session'[sessions'[k]].proc # "none" /\ sessions'[k] \in dirs'
    <3> SUFFICES ASSUME NEW k \in Keys, sessions'[k] # None
                 PROVE  /\ session'[sessions'[k]].key = k /\ ~session'[sessions'[k]].cancelled
                        /\ session'[sessions'[k]].proc # "none" /\ sessions'[k] \in dirs'
      OBVIOUS
    <3>1. sessions'[k] = sessions[k] /\ sessions[k] \notin S /\ sessions[k] \in Ids
      BY <1>5 DEF TypeOK
    <3> QED
      BY <1>3, <3>1 DEF Tracked, Started
  <2>2. \A s \in Ids :
          /\ Started(s)' => session'[s].key \in Keys
          /\ Orphan(s)' => Started(s)'
          /\ Started(s)' /\ ~session'[s].cancelled /\ ~Orphan(s)' =>
               sessions'[session'[s].key] = s /\ s \in sources'
    <3>0. \A s \in Ids : Orphan(s)' => Started(s)'
      BY <1>3 DEF Tracked, Orphan, Started
    <3> SUFFICES ASSUME NEW s \in Ids, Started(s)'
                 PROVE  /\ session'[s].key \in Keys
                        /\ ~session'[s].cancelled /\ ~Orphan(s)' =>
                             sessions'[session'[s].key] = s /\ s \in sources'
      BY <3>0
    <3>1. Started(s) /\ session'[s].key = session[s].key /\ session[s].key \in Keys
      BY <1>3 DEF Tracked, Started
    <3>2. ~session'[s].cancelled => s \notin S /\ ~session[s].cancelled
      BY <1>3
    <3>3. CASE session'[s].cancelled \/ Orphan(s)'
      BY <3>1, <3>3
    <3>4. CASE ~session'[s].cancelled /\ ~Orphan(s)'
      <4>1. sessions[session[s].key] = s /\ s \in sources
        BY <3>1, <3>2, <3>4 DEF Tracked, Orphan
      <4> QED
        BY <1>5, <3>1, <3>2, <3>4, <4>1 DEF StopAll
    <3> QED
      BY <3>3, <3>4
  <2> QED
    BY <2>1, <2>2 DEF Tracked, Orphan, Started
<1> QED
  BY <1>2, <1>4, <1>6, <1>7 DEF StopAll, TypeOK

\* The player, the reaper and time.
LEMMA StopStep ==
  ASSUME IInv, \/ Reap \/ \E k \in Keys : Stop(UserOf[k], FileOf[k])
               \/ \E s \in Ids : GrowIdle(s)
  PROVE  IInv'
<1> USE DEF IInv
<1>1. ASSUME NEW S \in SUBSET Ids, StopAll(S), UNCHANGED <<dirs, infos, callVars, orphans, restarts>>
      PROVE  IInv'
  <2>1. Kept /\ Tracked' /\ TypeOK'
    BY <1>1, Stopped DEF TypeOK, callVars, Session
  <2> QED
    BY <1>1, <2>1, RequestsKeep DEF callVars
<1>2. CASE Reap
  BY <1>1, <1>2 DEF Reap
<1>3. ASSUME NEW k \in Keys, Stop(UserOf[k], FileOf[k])
      PROVE  IInv'
  BY <1>1, <1>3 DEF Stop
<1>4. ASSUME NEW s \in Ids, GrowIdle(s)
      PROVE  IInv'
  <2>1. /\ session' \in [Ids -> Session]
        /\ \A t \in Ids : /\ session'[t].key = session[t].key /\ session'[t].start = session[t].start
                          /\ session'[t].made = session[t].made /\ session'[t].proc = session[t].proc
                          /\ session'[t].cancelled <=> session[t].cancelled
    <3>1. session' = [session EXCEPT ![s] = [session[s] EXCEPT !.idle = TRUE]]
      BY <1>4 DEF GrowIdle
    <3> QED
      BY <3>1, SessionType DEF Session
  <2>2. TypeOK'
    BY <1>4, <2>1 DEF GrowIdle, callVars, TypeOK, Session
  <2>3. Kept
    BY <1>4, <2>1, HlsAssumption DEF GrowIdle, Kept, Started, Running, TypeOK
  <2>4. Tracked'
    BY <1>4, <2>1 DEF GrowIdle, Tracked, Orphan, Started, TypeOK
  <2> QED
    BY <1>4, <2>2, <2>3, <2>4, RequestsKeep DEF GrowIdle, callVars
<1> QED
  BY <1>2, <1>3, <1>4

\* ffmpeg writes and ends, and what it leaves is removed.
LEMMA ProcessStep ==
  ASSUME IInv, NEW s \in Ids, RemoveDir(s) \/ Produce(s) \/ Exit(s)
  PROVE  IInv'
<1> USE DEF IInv
<1>1. CASE RemoveDir(s)
  <2>1. TypeOK'
    BY <1>1 DEF RemoveDir, callVars, TypeOK
  <2>2. Kept
    BY <1>1, HlsAssumption DEF RemoveDir, Kept, Started, Running, TypeOK
  <2>3. Tracked'
    BY <1>1 DEF RemoveDir, Tracked, Orphan, Started
  <2> QED
    BY <1>1, <2>1, <2>2, <2>3, RequestsKeep DEF RemoveDir, callVars
<1>2. CASE Produce(s) \/ Exit(s)
  <2>1. /\ session' \in [Ids -> Session]
        /\ \A t \in Ids : /\ session'[t].key = session[t].key /\ session'[t].start = session[t].start
                          /\ session'[t].cancelled <=> session[t].cancelled
                          /\ session'[t].made \in {session[t].made, session[t].made + 1}
                          /\ ~Running(t) => session'[t].made = session[t].made
                          /\ session'[t].proc # session[t].proc =>
                               session[t].proc = "running" /\ session'[t].proc = "exited"
    <3>1. CASE Produce(s)
      <4>1. session[s].made + 1 \in 0..Segments
        BY <3>1, SessionType, HlsAssumption DEF Produce, Frontier, Session
      <4>2. session' = [session EXCEPT ![s] = [session[s] EXCEPT !.made = @ + 1]]
        BY <3>1 DEF Produce
      <4> QED
        BY <3>1, <4>1, <4>2, SessionType DEF Produce, Running, Session
    <3>2. CASE Exit(s)
      <4>1. session' = [session EXCEPT ![s] = [session[s] EXCEPT !.proc = "exited"]]
        BY <3>2 DEF Exit
      <4> QED
        BY <3>2, <4>1, SessionType DEF Exit, Running, Session
    <3> QED
      BY <1>2, <3>1, <3>2
  <2>2. UNCHANGED <<sessions, sources, dirs, infos, pc, key, name, mine, orphans, restarts>>
    BY <1>2 DEF Produce, Exit, callVars
  <2>3. TypeOK'
    BY <2>1, <2>2 DEF TypeOK, Session
  <2>4. Kept
    BY <2>1, <2>2, HlsAssumption DEF Kept, Started, Running, TypeOK
  <2>5. Tracked'
    BY <2>1, <2>2 DEF Tracked, Orphan, Started, TypeOK
  <2> QED
    BY <2>2, <2>3, <2>4, <2>5, RequestsKeep
<1> QED
  BY <1>1, <1>2
\* What the other requests and the one that moves know make up the invariant.
LEMMA OneMoves ==
  ASSUME IInv, Kept, TypeOK', Tracked', NEW r \in Requests,
         AskedOf(r)', ComingFor(r)', pc'[r] \in {"stat", "failed"},
         UNCHANGED <<key, name>>,
         \A q \in Requests : q # r => pc'[q] = pc[q] /\ mine'[q] = mine[q]
  PROVE  IInv'
<1>1. \A q \in Requests : AskedOf(q)' /\ ComingFor(q)' /\ ProducedIsFound(q)' /\ FoundIsThere(q)'
  <2> SUFFICES ASSUME NEW q \in Requests
               PROVE  AskedOf(q)' /\ ComingFor(q)' /\ ProducedIsFound(q)' /\ FoundIsThere(q)'
    OBVIOUS
  <2>1. CASE q = r
    BY <2>1 DEF ProducedIsFound, FoundIsThere
  <2>2. CASE q # r
    BY <2>2, RequestKeeps
  <2> QED
    BY <2>1, <2>2
<1> QED
  BY <1>1 DEF IInv, Asked, SegmentsAreComing, ComingFor, ProducedIsServed

\* covers: the segment a request asks for is coming.
LEMMA Covered ==
  ASSUME TypeOK, NEW s \in Ids, Started(s), NEW i \in Nat, Covers(s, i)
  PROVE  session[s].start <= i /\ i < Frontier(s) + MaxWaitAhead
<1>1. session[s].start \in Nat /\ session[s].made \in Nat
  BY SessionType
<1> QED
  BY <1>1, HlsAssumption DEF Covers, Exists, Frontier

\* A request joins the session of its key.
LEMMA JoinStep ==
  ASSUME IInv, NEW r \in Requests, Join(r)
  PROVE  IInv'
<1> DEFINE s == Current(r)
<1> USE DEF IInv
<1>1. /\ s \in Ids /\ key[r] \in Keys /\ Started(s) /\ Covers(s, IndexOf(r))
      /\ session' = [session EXCEPT ![s] = [session[s] EXCEPT !.idle = FALSE]]
      /\ mine' = [mine EXCEPT ![r] = s] /\ pc' = [pc EXCEPT ![r] = "stat"]
      /\ UNCHANGED <<sessions, sources, dirs, infos, key, name, orphans, restarts>>
  <2>1. key[r] \in Keys
    BY DEF Join, Asked, AskedOf
  <2> QED
    BY <2>1 DEF Join, Goto, Current, Tracked, TypeOK
<1> HIDE DEF s
<1>2. /\ session' \in [Ids -> Session]
      /\ \A t \in Ids : /\ session'[t].key = session[t].key /\ session'[t].start = session[t].start
                        /\ session'[t].made = session[t].made /\ session'[t].proc = session[t].proc
                        /\ session'[t].cancelled <=> session[t].cancelled
  BY <1>1, SessionType DEF Session
<1>3. TypeOK'
  BY <1>1, <1>2 DEF TypeOK, Session, Waiting
<1>4. Kept
  BY <1>1, <1>2, HlsAssumption DEF Kept, Started, Running, TypeOK
<1>5. Tracked'
  BY <1>1, <1>2 DEF Tracked, Orphan, Started, TypeOK
<1>6. /\ pc'[r] = "stat" /\ mine'[r] = s
      /\ \A q \in Requests : q # r => pc'[q] = pc[q] /\ mine'[q] = mine[q]
  BY <1>1 DEF TypeOK
<1>7. AskedOf(r)'
  BY <1>1, <1>2, <1>6 DEF AskedOf, Started, Waiting
<1>8. ComingFor(r)'
  <2>1. IndexOf(r) \in Nat /\ Awaited(r)' = IndexOf(r)
    <3>1. name[r] \in Nat \/ name[r] = InitName
      BY HlsAssumption DEF TypeOK, Names
    <3>2. s = Current(r) /\ s # None /\ session[s].start \in Nat
      BY <1>1, HlsAssumption, SessionType DEF s
    <3> QED
      BY <1>1, <1>2, <1>6, <3>1, <3>2 DEF IndexOf, Awaited
  <2>2. session[s].start <= IndexOf(r) /\ IndexOf(r) < Frontier(s) + MaxWaitAhead
    BY <1>1, <2>1, Covered
  <2>3. session'[s].start = session[s].start /\ session'[s].made = session[s].made
    BY <1>1, <1>2
  <2> QED
    BY <1>6, <2>1, <2>2, <2>3 DEF ComingFor, Frontier
<1> QED
  BY <1>1, <1>3, <1>4, <1>5, <1>6, <1>7, <1>8, OneMoves

\* A session that is started in the place of those that are stopped.
LEMMA StartKeeps ==
  ASSUME IInv, NEW s \in Ids, NEW k \in Keys, NEW i \in 0..(Segments - 1),
         NEW S \in SUBSET Ids, S = {sessions[k]} \ {None}, Start(s, k, i, S),
         UNCHANGED orphans
  PROVE  /\ Kept /\ Tracked' /\ sources' \subseteq Ids /\ dirs' \subseteq Ids
         /\ sessions' \in [Keys -> Ids \cup {None}]
         /\ session' \in [Ids -> Session]
         /\ session'[s] = [key |-> k, start |-> i, made |-> 0, proc |-> "running",
                            cancelled |-> FALSE, idle |-> FALSE]
<1> USE DEF IInv
<1>1. ~Started(s) /\ dirs' = dirs \cup {s} /\ sources' = (sources \ S) \cup {s}
  BY DEF Start
<1>2. s \notin S /\ \A j \in Keys : sessions[j] # s
  BY <1>1, HlsAssumption DEF Tracked, TypeOK
<1>3. session'[s] = [key |-> k, start |-> i, made |-> 0, proc |-> "running",
                     cancelled |-> FALSE, idle |-> FALSE]
  BY DEF Start, Cancelled, Unused
<1>4. \A t \in Ids : t # s =>
        session'[t] = IF t \in S THEN [session[t] EXCEPT !.cancelled = TRUE, !.idle = FALSE]
                      ELSE session[t]
  BY DEF Start, Cancelled
<1>5. session' \in [Ids -> Session]
  <2>1. session'[s] \in Session
    BY <1>3, HlsAssumption DEF Session
  <2>2. \A t \in Ids : t # s => session'[t] \in Session
    BY <1>4, SessionType DEF Session
  <2> QED
    BY <2>1, <2>2 DEF Start, Cancelled
<1>6. \A t \in Ids : t # s =>
        /\ session'[t].key = session[t].key /\ session'[t].start = session[t].start
        /\ session'[t].made = session[t].made /\ session'[t].proc = session[t].proc
        /\ session'[t].cancelled <=> t \in S \/ session[t].cancelled
  BY <1>4, SessionType DEF Session
<1>7. Kept
  BY <1>1, <1>6, SessionType DEF Kept, Started, Running, Session
<1>8. /\ sessions' \in [Keys -> Ids \cup {None}]
      /\ sessions'[k] = s
      /\ \A j \in Keys : j # k => sessions'[j] = IF sessions[j] \in S THEN None ELSE sessions[j]
  BY DEF Start, Unregistered, TypeOK
<1>9. Tracked'
  <2>1. \A j \in Keys : sessions'[j] # None =>
          /\ session'[sessions'[j]].key = j /\ ~session'[sessions'[j]].cancelled
          /\ session'[sessions'[j]].proc # "none" /\ sessions'[j] \in dirs'
    <3> SUFFICES ASSUME NEW j \in Keys, sessions'[j] # None
                 PROVE  /\ session'[sessions'[j]].key = j /\ ~session'[sessions'[j]].cancelled
                        /\ session'[sessions'[j]].proc # "none" /\ sessions'[j] \in dirs'
      OBVIOUS
    <3>1. CASE j = k
      BY <1>1, <1>3, <1>8, <3>1
    <3>2. CASE j # k
      <4>1. /\ sessions'[j] = sessions[j] /\ sessions[j] \notin S /\ sessions[j] \in Ids
            /\ sessions[j] # s
        BY <1>2, <1>8, <3>2 DEF TypeOK
      <4> QED
        BY <1>1, <1>6, <4>1 DEF Tracked, Started
    <3> QED
      BY <3>1, <3>2
  <2>2. \A t \in Ids :
          /\ Started(t)' => session'[t].key \in Keys
          /\ Orphan(t)' => Started(t)'
          /\ Started(t)' /\ ~session'[t].cancelled /\ ~Orphan(t)' =>
               sessions'[session'[t].key] = t /\ t \in sources'
    <3>0. \A t \in Ids : Orphan(t)' => Started(t)'
      BY <1>3, <1>6 DEF Tracked, Orphan, Started
    <3> SUFFICES ASSUME NEW t \in Ids, Started(t)'
                 PROVE  /\ session'[t].key \in Keys
                        /\ ~session'[t].cancelled /\ ~Orphan(t)' =>
                             sessions'[session'[t].key] = t /\ t \in sources'
      BY <3>0
    <3>1. CASE t = s
      BY <1>1, <1>3, <1>8, <3>1
    <3>2. CASE t # s
      <4>1. Started(t) /\ session'[t].key = session[t].key /\ session[t].key \in Keys
        BY <1>6, <3>2 DEF Tracked, Started
      <4>2. ASSUME ~session'[t].cancelled, ~Orphan(t)'
            PROVE  sessions'[session'[t].key] = t /\ t \in sources'
        <5>1. t \notin S /\ ~session[t].cancelled /\ ~Orphan(t)
          BY <1>1, <1>6, <3>2, <4>2 DEF Orphan
        <5>2. sessions[session[t].key] = t /\ t \in sources
          BY <4>1, <5>1 DEF Tracked, Orphan
        <5>3. session[t].key # k
          BY <5>1, <5>2, HlsAssumption
        <5> QED
          BY <1>1, <1>8, <4>1, <5>1, <5>2, <5>3
      <4> QED
        BY <4>1, <4>2
    <3> QED
      BY <3>1, <3>2
  <2> QED
    BY <2>1, <2>2 DEF Tracked, Orphan, Started
<1>10. sources' \subseteq Ids /\ dirs' \subseteq Ids
  BY <1>1 DEF TypeOK
<1> QED
  BY <1>3, <1>5, <1>7, <1>8, <1>9, <1>10

\* A first request or a seek starts a session, or stops the one there was.
LEMMA RestartStep ==
  ASSUME IInv, NEW r \in Requests, Restart(r)
  PROVE  IInv'
<1> DEFINE old == {Current(r)} \ {None}
<1> USE DEF IInv
<1>1. key[r] \in Keys /\ pc[r] = "lookup" /\ IndexOf(r) < Segments /\ old \in SUBSET Ids
  BY DEF Restart, InRange, Asked, AskedOf, Current, TypeOK
<1>2. IndexOf(r) \in 0..(Segments - 1)
  <2>1. IndexOf(r) \in Nat
    <3>1. name[r] \in Nat \/ name[r] = InitName
      BY HlsAssumption DEF TypeOK, Names
    <3>2. Current(r) # None => session[Current(r)].start \in Nat
      BY <1>1, SessionType DEF Current, TypeOK
    <3> QED
      BY <3>1, <3>2 DEF IndexOf
  <2> QED
    BY <1>1, <2>1, HlsAssumption
<1>3. CASE /\ \E s \in Ids :
                /\ Start(s, key[r], IndexOf(r), old)
                /\ mine' = [mine EXCEPT ![r] = s]
                /\ Goto(r, "stat")
           /\ UNCHANGED <<infos, key, name, orphans, restarts>>
  <2>1. PICK s \in Ids : /\ Start(s, key[r], IndexOf(r), old)
                         /\ mine' = [mine EXCEPT ![r] = s]
                         /\ Goto(r, "stat")
    BY <1>3
  <2>2. /\ Kept /\ Tracked' /\ sources' \subseteq Ids /\ dirs' \subseteq Ids
        /\ sessions' \in [Keys -> Ids \cup {None}]
        /\ session' \in [Ids -> Session]
        /\ session'[s] = [key |-> key[r], start |-> IndexOf(r), made |-> 0,
                           proc |-> "running", cancelled |-> FALSE, idle |-> FALSE]
    <3>1. old = {sessions[key[r]]} \ {None}
      BY DEF Current
    <3>2. UNCHANGED orphans
      BY <1>3
    <3> HIDE DEF old
    <3> QED
      BY <1>1, <1>2, <2>1, <3>1, <3>2, StartKeeps
  <2>3. TypeOK'
    BY <1>3, <2>1, <2>2 DEF TypeOK, Session, Goto, Waiting
  <2>4. /\ pc'[r] = "stat" /\ mine'[r] = s
        /\ \A q \in Requests : q # r => pc'[q] = pc[q] /\ mine'[q] = mine[q]
    BY <2>1 DEF TypeOK, Goto
  <2>5. session'[s].proc = "running" /\ session'[s].start = IndexOf(r) /\ session'[s].made = 0
    BY <2>2
  <2>6. AskedOf(r)'
    BY <1>1, <1>3, <2>4, <2>5 DEF AskedOf, Started, Waiting
  <2>7. ComingFor(r)'
    <3>1. Awaited(r)' = IndexOf(r)
      BY <1>3, <2>4, <2>5 DEF Awaited, IndexOf
    <3>2. Frontier(s)' = IndexOf(r)
      BY <1>2, <2>5 DEF Frontier
    <3> QED
      BY <1>2, <2>4, <2>5, <3>1, <3>2, HlsAssumption DEF ComingFor, Frontier
  <2> QED
    BY <1>3, <2>2, <2>3, <2>4, <2>6, <2>7, OneMoves
<1>4. CASE /\ StopAll(old) /\ Goto(r, "failed") /\ UNCHANGED <<dirs, mine>>
           /\ UNCHANGED <<infos, key, name, orphans, restarts>>
  <2>1. /\ Kept /\ Tracked' /\ sources' \subseteq Ids
        /\ sessions' \in [Keys -> Ids \cup {None}]
        /\ session' \in [Ids -> Session]
    BY <1>1, <1>4, Stopped
  <2>2. TypeOK'
    BY <1>4, <2>1 DEF TypeOK, Session, Goto, Over
  <2>3. /\ pc'[r] = "failed"
        /\ \A q \in Requests : q # r => pc'[q] = pc[q] /\ mine'[q] = mine[q]
    BY <1>4 DEF TypeOK, Goto
  <2>4. AskedOf(r)' /\ ComingFor(r)'
    BY <1>1, <1>4, <2>3 DEF AskedOf, ComingFor, Waiting, Served
  <2> QED
    BY <1>4, <2>1, <2>2, <2>3, <2>4, OneMoves
<1> QED
  BY <1>3, <1>4 DEF Restart

\* The server ends and starts again.
LEMMA ServerStep ==
  ASSUME IInv, RestartServer
  PROVE  IInv'
<1> USE DEF IInv
<1>1. /\ \A k \in Keys : sessions'[k] = None
      /\ sources' = {} /\ infos' = {}
      /\ dirs' \subseteq {s \in dirs : Running(s)} /\ orphans' = {s \in Ids : Started(s)}
      /\ \A s \in Ids : session'[s] = [session[s] EXCEPT !.idle = FALSE]
      /\ UNCHANGED <<key, name, mine>>
  BY DEF RestartServer, MaySurvive
<1>2. /\ session' \in [Ids -> Session]
      /\ \A t \in Ids : /\ session'[t].key = session[t].key /\ session'[t].start = session[t].start
                        /\ session'[t].made = session[t].made /\ session'[t].proc = session[t].proc
                        /\ session'[t].cancelled <=> session[t].cancelled
  <2>1. \A t \in Ids : session'[t] \in Session
    BY <1>1, SessionType DEF Session
  <2>2. session' \in [Ids -> Session]
    BY <2>1 DEF RestartServer
  <2> QED
    BY <1>1, <2>2, SessionType DEF Session
<1>3. \A r \in Requests :
        \/ pc'[r] = pc[r] /\ pc[r] \in Over \cup {"idle"}
        \/ pc'[r] = "failed" /\ pc[r] \notin Over \cup {"idle"}
  BY DEF RestartServer
<1>4. TypeOK'
  <2>1. pc' \in [Requests -> {"idle", "info", "lookup", "found"} \cup Waiting \cup Over]
    BY <1>3 DEF RestartServer, Over
  <2>2. restarts' \in 0..MaxRestarts
    BY HlsAssumption DEF RestartServer, TypeOK
  <2>3. sessions' \in [Keys -> Ids \cup {None}]
    BY DEF RestartServer
  <2> QED
    BY <1>1, <1>2, <2>1, <2>2, <2>3 DEF TypeOK, Session
<1>5. Tracked'
  BY <1>1, <1>2 DEF Tracked, Started, Orphan
<1>6. \A r \in Requests : AskedOf(r)'
  BY <1>1, <1>2, <1>3 DEF Asked, AskedOf, Started, Running, Waiting, Served, Over
<1>7. SegmentsAreComing'
  BY <1>3 DEF SegmentsAreComing, Waiting, Over
<1>8. \A r \in Requests : ProducedIsFound(r)' /\ FoundIsThere(r)'
  <2> SUFFICES ASSUME NEW r \in Requests
               PROVE  ProducedIsFound(r)' /\ FoundIsThere(r)'
    OBVIOUS
  <2>1. ProducedIsFound(r)'
    <3> SUFFICES ASSUME pc'[r] = "ended" PROVE mine[r] \notin dirs'
      BY <1>1 DEF ProducedIsFound, Exists
    <3>1. ~Running(mine[r])
      BY <1>3 DEF Asked, AskedOf
    <3> QED
      BY <1>1, <3>1
  <2>2. FoundIsThere(r)'
    BY <1>3, <1>6 DEF FoundIsThere, AskedOf, Over
  <2> QED
    BY <2>1, <2>2
<1> QED
  BY <1>4, <1>5, <1>6, <1>7, <1>8 DEF Asked, ProducedIsServed

\* A stuttering step.
LEMMA StutterStep == IInv /\ UNCHANGED vars => IInv'
<1> SUFFICES ASSUME IInv, UNCHANGED vars
             PROVE  IInv'
  OBVIOUS
<1> USE DEF IInv
<1>1. TypeOK' /\ Tracked'
  BY DEF vars, hlsVars, callVars, TypeOK, Tracked, Started, Orphan
<1>2. Kept
  BY SessionType DEF vars, hlsVars, Kept, Started, Running, Session
<1> QED
  BY <1>1, <1>2, RequestsKeep DEF vars, callVars

\* Every step keeps the invariant.
LEMMA NextIInv == IInv /\ [Next]_vars => IInv'
<1> SUFFICES ASSUME IInv, [Next]_vars
             PROVE  IInv'
  OBVIOUS
<1>1. ASSUME NEW r \in Requests,
             (\E k \in Keys, n \in Names : Ask(r, k, n)) \/ Serve(r) \/ Wait(r) \/ GiveUp(r)
      PROVE  IInv'
  BY <1>1, AskStep, WaitStep, JoinStep, RestartStep DEF Serve
<1>2. CASE \E f \in {FileOf[k] : k \in Keys}, ok \in BOOLEAN : LoadInfo(f, ok)
  BY <1>2, AskStep
<1>3. CASE (\E k \in Keys : Stop(UserOf[k], FileOf[k])) \/ Reap
  BY <1>3, StopStep
<1>4. ASSUME NEW s \in Ids, GrowIdle(s) \/ RemoveDir(s) \/ Produce(s) \/ Exit(s)
      PROVE  IInv'
  BY <1>4, StopStep, ProcessStep
<1>5. CASE RestartServer
  BY <1>5, ServerStep
<1>6. CASE UNCHANGED vars
  BY <1>6, StutterStep
<1> QED
  BY <1>1, <1>2, <1>3, <1>4, <1>5, <1>6 DEF Next

\* The inductive invariant holds in every reachable state.
THEOREM Invariance == Spec => []IInv
<1>1. Init => IInv
  BY InitIInv
<1>2. IInv /\ [Next]_vars => IInv'
  BY NextIInv
<1> QED
  BY <1>1, <1>2, PTL DEF Spec

\* ProcessesAreWatched: an ffmpeg that nobody cancelled is the registered one of
\* its key and may read its file, whatever requests, stops, the reaper and
\* restarts of the server do (startSessionLocked, stopSessionLocked).
THEOREM ProcessesWatched == Spec => []ProcessesAreWatched
<1>1. IInv => ProcessesAreWatched
  BY DEF IInv, ProcessesAreWatched, Tracked, Orphan
<1> QED
  BY <1>1, Invariance, PTL

\* SegmentsAreComing: what covers decided at the lookup stays true while the
\* request waits.
THEOREM SegmentsComing == Spec => []SegmentsAreComing
<1>1. IInv => SegmentsAreComing
  BY DEF IInv
<1> QED
  BY <1>1, Invariance, PTL

\* ProducedIsServed: waitFor gives up on a process that ended only for a segment
\* it did not write, and a segment that was found can be opened.
THEOREM ProducedServed == Spec => []ProducedIsServed
<1>1. IInv => ProducedIsServed
  BY DEF IInv
<1> QED
  BY <1>1, Invariance, PTL

=============================================================================
