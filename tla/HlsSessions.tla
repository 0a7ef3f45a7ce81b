---------------------------- MODULE HlsSessions ----------------------------
(***************************************************************************)
(* HLSService (service/hls.go): ffmpeg processes that write the segments   *)
(* of a file into a directory each, the segment requests that find, await  *)
(* or restart them, and what stops them: a seek, the player's stop, the    *)
(* reaper, and the end of the server (run never calls HLSService.Close).   *)
(*                                                                         *)
(* A key is (user, file, variant), of the variants the file has a plan     *)
(* for.  A session is its token and its directory.  ffmpeg is external: it *)
(* numbers its segments from the start index, writes each whole            *)
(* (temp_file), fills init.mp4 before the first, and may end at any time.  *)
(* Time is abstract: a session is idle once nobody has asked for           *)
(* IdleTimeout; a wait may time out, and its request may be cancelled.     *)
(* The checks of covers are one step; ffmpeg may write between them, which *)
(* can only restart a session needlessly.                                  *)
(***************************************************************************)
EXTENDS Naturals, FiniteSets

CONSTANTS
  Requests,     \* requests of the players, one each
  Keys,
  UserOf, FileOf,
  Ids,          \* bound on the sessions ever started
  None,         \* no session
  InitName,     \* init.mp4
  Segments,     \* hlsSegmentCount of every file
  MaxWaitAhead, \* hlsMaxWaitAhead
  MaxInfos,     \* headers kept before the map is emptied
  MaxRestarts   \* bound on the restarts of the server

ASSUME HlsAssumption ==
  /\ None \notin Ids /\ InitName \notin Nat
  /\ Segments \in Nat \ {0} /\ MaxWaitAhead \in Nat \ {0} /\ MaxInfos \in Nat \ {0}
  /\ MaxRestarts \in Nat

VARIABLES
  sessions,  \* the registered session of each key
  sources,   \* tokens ffmpeg may read its file with
  infos,     \* files whose header is cached
  session,   \* of each id: key, start index, segments written, process,
             \* cancelled, idle
  dirs,      \* session directories on disk
  pc,        \* where each request is; the last four are how it ended
  key, name, \* what it asks for: a segment index, or InitName
  mine,      \* the session it waits for
  orphans,   \* sessions of earlier lives of the server
  restarts

callVars == <<pc, key, name, mine>>
hlsVars  == <<sessions, sources, session, dirs>>
vars == <<hlsVars, infos, callVars, orphans, restarts>>

Over == {"served", "vanished", "ended", "failed"}
Waiting == {"stat", "select", "restat"}
Names == 0..Segments \cup {InitName}
Unused == [key |-> None, start |-> 0, made |-> 0, proc |-> "none",
           cancelled |-> FALSE, idle |-> FALSE]

TypeOK ==
  /\ sessions \in [Keys -> Ids \cup {None}]
  /\ sources \subseteq Ids /\ dirs \subseteq Ids
  /\ infos \subseteq {FileOf[k] : k \in Keys}
  /\ session \in [Ids -> [key : Keys \cup {None}, start : 0..(Segments - 1), made : 0..Segments,
                          proc : {"none", "running", "exited"}, cancelled : BOOLEAN,
                          idle : BOOLEAN]]
  /\ pc \in [Requests -> {"idle", "info", "lookup", "found"} \cup Waiting \cup Over]
  /\ key \in [Requests -> Keys \cup {None}]
  /\ name \in [Requests -> Names]
  /\ mine \in [Requests -> Ids \cup {None}]
  /\ orphans \subseteq Ids /\ restarts \in 0..MaxRestarts

Registered(s) == \E k \in Keys : sessions[k] = s
Started(s)    == session[s].proc # "none"
Running(s)    == session[s].proc = "running"
Frontier(s)   == session[s].start + session[s].made  \* first segment not written

\* A session of a server that has ended.
Orphan(s) == s \in orphans

\* exists: os.Stat of a segment.
Exists(s, i) == s \in dirs /\ session[s].start <= i /\ i < Frontier(s)

\* Fault: whatever the running process has yet to write is waited for.
CoversAnyLater(s, i) ==
  /\ session[s].start <= i
  /\ Exists(s, i) \/ Running(s)

\* covers.
Covers(s, i) ==
  /\ session[s].start <= i
  /\ Exists(s, i) \/ (Running(s) /\ i + 1 <= Frontier(s) + MaxWaitAhead)

\* The segment a request waits for; init.mp4 is complete with the first one.
Awaited(r) == IF name[r] = InitName THEN session[mine[r]].start ELSE name[r]

Init ==
  /\ sessions = [k \in Keys |-> None]
  /\ sources = {} /\ dirs = {} /\ infos = {}
  /\ session = [s \in Ids |-> Unused]
  /\ pc = [r \in Requests |-> "idle"]
  /\ key = [r \in Requests |-> None]
  /\ name = [r \in Requests |-> InitName]
  /\ mine = [r \in Requests |-> None]
  /\ orphans = {} /\ restarts = 0

Goto(r, place) == pc' = [pc EXCEPT ![r] = place]

----------------------------------------------------------------------------
(* MediaInfo.                                                              *)

\* Resource, up to the header it needs: cached, or a load it shares.
Ask(r, k, n) ==
  /\ pc[r] = "idle"
  /\ key' = [key EXCEPT ![r] = k]
  /\ name' = [name EXCEPT ![r] = n]
  /\ Goto(r, IF FileOf[k] \in infos THEN "lookup" ELSE "info")
  /\ UNCHANGED <<hlsVars, infos, mine, orphans, restarts>>

AwaitInfo(f) == {r \in Requests : pc[r] = "info" /\ FileOf[key[r]] = f}

\* The load ends on its own clock for everyone who shares it.
LoadInfo(f, ok) ==
  /\ AwaitInfo(f) # {}
  /\ pc' = [r \in Requests |-> IF r \notin AwaitInfo(f) THEN pc[r]
                               ELSE IF ok THEN "lookup" ELSE "failed"]
  /\ infos' = IF ~ok THEN infos
              ELSE IF Cardinality(infos) >= MaxInfos THEN {f} ELSE infos \cup {f}
  /\ UNCHANGED <<hlsVars, key, name, mine, orphans, restarts>>

----------------------------------------------------------------------------
(* Sessions.                                                               *)

\* stopSessionLocked, for the sessions in S: unregister, revoke the token and
\* cancel; RemoveDir is the goroutine it leaves behind.
Unregistered(S) == [k \in Keys |-> IF sessions[k] \in S THEN None ELSE sessions[k]]
Cancelled(S) ==
  [s \in Ids |-> IF s \in S THEN [session[s] EXCEPT !.cancelled = TRUE, !.idle = FALSE]
                 ELSE session[s]]

StopAll(S) ==
  /\ sessions' = Unregistered(S)
  /\ sources' = sources \ S
  /\ session' = Cancelled(S)

\* Tokens are random: any that was not used yet.
Fresh == CHOOSE s \in Ids : ~Started(s)

\* Fault: the new session takes the key and nobody stops the old one.
StartBeside(s, k, i, stopped) ==
  /\ ~Started(s) /\ s = Fresh
  /\ sessions' = [sessions EXCEPT ![k] = s]
  /\ sources' = sources \cup {s}
  /\ session' = [session EXCEPT ![s] =
       [Unused EXCEPT !.key = k, !.start = i, !.proc = "running"]]
  /\ dirs' = dirs \cup {s}

\* startSessionLocked, once the session the key had is stopped.
Start(s, k, i, stopped) ==
  /\ ~Started(s) /\ s = Fresh
  /\ sessions' = [Unregistered(stopped) EXCEPT ![k] = s]
  /\ sources' = (sources \ stopped) \cup {s}
  /\ session' = [Cancelled(stopped) EXCEPT ![s] =
       [Unused EXCEPT !.key = k, !.start = i, !.proc = "running"]]
  /\ dirs' = dirs \cup {s}

\* The session registered for the request's key, and the index it stands for.
Current(r) == sessions[key[r]]
IndexOf(r) ==
  IF name[r] # InitName THEN name[r]
  ELSE IF Current(r) = None THEN 0 ELSE session[Current(r)].start

InRange(r) == IndexOf(r) < Segments

OutOfRange(r) ==
  /\ pc[r] = "lookup" /\ ~InRange(r)
  /\ Goto(r, "failed")
  /\ UNCHANGED <<hlsVars, infos, key, name, mine, orphans, restarts>>

Join(r) ==
  /\ pc[r] = "lookup" /\ InRange(r)
  /\ Current(r) # None /\ Covers(Current(r), IndexOf(r))
  /\ session' = [session EXCEPT ![Current(r)].idle = FALSE]
  /\ mine' = [mine EXCEPT ![r] = Current(r)]
  /\ Goto(r, "stat")
  /\ UNCHANGED <<sessions, sources, dirs, infos, key, name, orphans, restarts>>

\* A seek, or the first request: the old session goes even if the new one
\* cannot be started.
Restart(r) ==
  LET old == {Current(r)} \ {None} IN
  /\ pc[r] = "lookup" /\ InRange(r)
  /\ \A s \in old : ~Covers(s, IndexOf(r))
  /\ \/ \E s \in Ids :
          /\ Start(s, key[r], IndexOf(r), old)
          /\ mine' = [mine EXCEPT ![r] = s]
          /\ Goto(r, "stat")
     \/ /\ StopAll(old)
        /\ Goto(r, "failed")
        /\ UNCHANGED <<dirs, mine>>
  /\ UNCHANGED <<infos, key, name, orphans, restarts>>

\* Stop, when the player closes.
Stop(u, f) ==
  /\ StopAll({s \in Ids : \E k \in Keys : sessions[k] = s /\ UserOf[k] = u /\ FileOf[k] = f})
  /\ UNCHANGED <<dirs, infos, callVars, orphans, restarts>>

GrowIdle(s) ==
  /\ Registered(s)
  /\ session' = [session EXCEPT ![s].idle = TRUE]
  /\ UNCHANGED <<sessions, sources, dirs, infos, callVars, orphans, restarts>>

\* reapIdle.
Reap ==
  /\ StopAll({s \in Ids : Registered(s) /\ session[s].idle})
  /\ UNCHANGED <<dirs, infos, callVars, orphans, restarts>>

\* Fault: the directory of a process that was killed stays.
RemoveDirOfCompleted(s) ==
  /\ session[s].cancelled /\ session[s].proc = "exited" /\ s \in dirs
  /\ ~Orphan(s) /\ Frontier(s) = Segments
  /\ dirs' = dirs \ {s}
  /\ UNCHANGED <<sessions, sources, session, infos, callVars, orphans, restarts>>

\* The goroutine of stopSessionLocked removes the directory of a process
\* that has ended, unless the server ended before.
RemoveDir(s) ==
  /\ session[s].cancelled /\ session[s].proc = "exited" /\ s \in dirs
  /\ ~Orphan(s)
  /\ dirs' = dirs \ {s}
  /\ UNCHANGED <<sessions, sources, session, infos, callVars, orphans, restarts>>

\* removeStaleSessionDirs ignores the errors of RemoveAll: a directory that an
\* ffmpeg goes on filling may survive it.
MaySurvive == {s \in dirs : Running(s)}

\* The server ends without HLSService.Close and starts again; ffmpeg outlives
\* it.  What ffmpeg does between the two it may as well have done before.
RestartServer ==
  /\ restarts < MaxRestarts
  /\ restarts' = restarts + 1
  /\ orphans' = {s \in Ids : Started(s)}
  /\ sessions' = [k \in Keys |-> None]
  /\ sources' = {} /\ infos' = {}
  /\ dirs' \in SUBSET MaySurvive
  /\ session' = [s \in Ids |-> [session[s] EXCEPT !.idle = FALSE]]
  /\ pc' = [r \in Requests |-> IF pc[r] \in Over \cup {"idle"} THEN pc[r] ELSE "failed"]
  /\ UNCHANGED <<key, name, mine>>

----------------------------------------------------------------------------
(* ffmpeg.                                                                 *)

Produce(s) ==
  /\ Running(s) /\ s \in dirs /\ Frontier(s) < Segments
  /\ session' = [session EXCEPT ![s].made = @ + 1]
  /\ UNCHANGED <<sessions, sources, dirs, infos, callVars, orphans, restarts>>

Exit(s) ==
  /\ Running(s)
  /\ session' = [session EXCEPT ![s].proc = "exited"]
  /\ UNCHANGED <<sessions, sources, dirs, infos, callVars, orphans, restarts>>

----------------------------------------------------------------------------
(* waitFor, and the handler.                                               *)

Stat(r) ==
  /\ pc[r] = "stat"
  /\ Goto(r, IF Exists(mine[r], Awaited(r)) THEN "found" ELSE "select")
  /\ UNCHANGED <<hlsVars, infos, key, name, mine, orphans, restarts>>

\* Fault: the end of the process is an error at once.
ProcessDoneFinal(r) ==
  /\ pc[r] = "select" /\ ~Running(mine[r])
  /\ Goto(r, "ended")
  /\ UNCHANGED <<hlsVars, infos, key, name, mine, orphans, restarts>>

\* Fault: the end of the process is not noticed.
ProcessDoneMissed(r) == FALSE /\ UNCHANGED vars

\* The process has ended: look once more.
ProcessDone(r) ==
  /\ pc[r] = "select" /\ ~Running(mine[r])
  /\ Goto(r, "restat")
  /\ UNCHANGED <<hlsVars, infos, key, name, mine, orphans, restarts>>

Restat(r) ==
  /\ pc[r] = "restat"
  /\ Goto(r, IF Exists(mine[r], Awaited(r)) THEN "found" ELSE "ended")
  /\ UNCHANGED <<hlsVars, infos, key, name, mine, orphans, restarts>>

\* The ticker, which may also win when the process has ended.
PollAgain(r) ==
  /\ pc[r] = "select"
  /\ Goto(r, "stat")
  /\ UNCHANGED <<hlsVars, infos, key, name, mine, orphans, restarts>>

\* The request's context ends or its wait times out.
GiveUp(r) ==
  /\ pc[r] = "select"
  /\ Goto(r, "failed")
  /\ UNCHANGED <<hlsVars, infos, key, name, mine, orphans, restarts>>

Open(r) ==
  /\ pc[r] = "found"
  /\ Goto(r, IF mine[r] \in dirs THEN "served" ELSE "vanished")
  /\ UNCHANGED <<hlsVars, infos, key, name, mine, orphans, restarts>>

----------------------------------------------------------------------------
Serve(r) == OutOfRange(r) \/ Join(r) \/ Restart(r) \/ Open(r)

Wait(r) == Stat(r) \/ ProcessDone(r) \/ Restat(r) \/ PollAgain(r)

Next ==
  \/ \E r \in Requests :
       \/ \E k \in Keys, n \in Names : Ask(r, k, n)
       \/ Serve(r) \/ Wait(r) \/ GiveUp(r)
  \/ \E f \in {FileOf[k] : k \in Keys}, ok \in BOOLEAN : LoadInfo(f, ok)
  \/ \E k \in Keys : Stop(UserOf[k], FileOf[k])
  \/ \E s \in Ids : GrowIdle(s) \/ RemoveDir(s) \/ Produce(s) \/ Exit(s)
  \/ Reap \/ RestartServer

Spec == Init /\ [][Next]_vars

\* Requests poll, goroutines run, header loads end, and a select picks among
\* what is ready at random: it cannot miss the end of ffmpeg for ever (which a
\* request meets once, so one condition serves them all).  A killed process
\* exits, and so does one whose source URL is refused; one that may read owes
\* nothing, and neither does the timer of a wait.
FairSpec ==
  /\ Spec
  /\ \A r \in Requests : WF_vars(Wait(r)) /\ WF_vars(Serve(r))
  /\ SF_vars(\E r \in Requests : ProcessDone(r))
  /\ \A f \in {FileOf[k] : k \in Keys} : WF_vars(\E ok \in BOOLEAN : LoadInfo(f, ok))
  /\ \A s \in Ids : WF_vars(RemoveDir(s)) /\ WF_vars((session[s].cancelled \/ s \notin sources) /\ Exit(s))

----------------------------------------------------------------------------
(* Properties.                                                             *)

\* The process of every session that was not cancelled, in this life of the
\* server, is the one registered under its key and can read its source: no
\* restart, stop or reaping loses track of an ffmpeg that nobody would stop.
ProcessesAreWatched ==
  /\ TypeOK
  /\ \A s \in Ids :
       Started(s) /\ ~session[s].cancelled /\ ~Orphan(s) =>
         sessions[session[s].key] = s /\ s \in sources

\* A request waits for a segment that is not before the start of its session
\* and, while the process runs, not further ahead of it than hlsMaxWaitAhead:
\* what was decided at the lookup stays true while others seek and stop.
SegmentsAreComing ==
  \A r \in Requests :
    pc[r] \in Waiting /\ Running(mine[r]) =>
      /\ session[mine[r]].start <= Awaited(r)
      /\ Awaited(r) < Frontier(mine[r]) + MaxWaitAhead

ProducedIsFound(r) ==
  pc[r] = "ended" => ~Exists(mine[r], Awaited(r)) \/ session[mine[r]].cancelled

FoundIsThere(r) ==
  pc[r] \in {"found", "vanished"} /\ ~session[mine[r]].cancelled => mine[r] \in dirs

\* "ffmpeg ended before producing" is said only of segments it did not write,
\* however the write, the exit and the polling interleave, and a segment that
\* was found can be opened, although ffmpeg ends; unless somebody stopped the
\* session in between.
ProducedIsServed == \A r \in Requests : ProducedIsFound(r) /\ FoundIsThere(r)

Gone(s) == session[s].proc = "exited" /\ (s \notin dirs \/ Orphan(s))

\* A session that is no longer registered loses its process, whether a seek, a
\* stop, the reaper or a restart of the server took it, and its directory; that
\* of an ffmpeg that wrote while the server restarted may stay until the next
\* restart.
NothingIsLeft ==
  \A s \in Ids : Started(s) /\ ~Registered(s) ~> Gone(s)

\* A request that waits for a session somebody stopped ends without its timer.
WaitersLearn ==
  \A r \in Requests :
    pc[r] \in Waiting /\ ~Registered(mine[r]) ~> pc[r] \in Over
============================================================================
