---------------------------- MODULE OrderedJobs ----------------------------
(***************************************************************************)
(* One call of runOrderedJobs (service/ordered_jobs.go), which downloads   *)
(* the chunks of a file in parallel and writes them in order: a feeder and *)
(* a pool of workers in one errgroup, a goroutine that closes the result   *)
(* channel after the group, and the caller, which parks results until      *)
(* their turn.  Jobs are numbered from 1; an empty list of jobs returns at *)
(* once and is left out.  Any buffered result may be received next.        *)
(***************************************************************************)
EXTENDS Naturals, FiniteSets

CONSTANTS
  N,       \* number of jobs
  Workers  \* the worker goroutines, max(min(parallelism, N), 1) of them

ASSUME JobsAssumption == N \in Nat \ {0}
ASSUME WorkersAssumption == IsFiniteSet(Workers) /\ Workers # {}

VARIABLES
  ctxAlive,   \* the caller's context is not cancelled
  fed,        \* jobs sent on jobCh
  feeding,    \* the feeder runs; when it returns jobCh is closed
  worker,     \* where each worker is
  job,        \* the job it has, 0 if none
  buffered,   \* results in resultCh
  closed,     \* resultCh is closed
  groupErr,   \* the errgroup's first error
  pending,    \* results parked by the caller
  next,       \* nextIndex
  draining,   \* the caller is in its inner loop, else it receives
  handleErr,  \* the handler failed, workCtx is cancelled
  last,       \* job handled last (history)
  result      \* what the call returned

groupVars  == <<fed, feeding, worker, job, groupErr>>
callerVars == <<pending, next, draining, handleErr, last, result>>
jobsVars == <<ctxAlive, groupVars, buffered, closed, callerVars>>

JobsTypeOK ==
  /\ ctxAlive \in BOOLEAN /\ feeding \in BOOLEAN /\ closed \in BOOLEAN
  /\ draining \in BOOLEAN /\ handleErr \in BOOLEAN
  /\ fed \in 0..N /\ last \in 0..N /\ next \in 1..(N + 1)
  /\ worker \in [Workers -> {"idle", "loading", "sending", "gone"}]
  /\ job \in [Workers -> 0..N]
  /\ buffered \subseteq 1..N /\ pending \subseteq 1..N
  /\ groupErr \in {"none", "load", "ctx"}
  /\ result \in {"none", "ok", "handle", "load", "ctx"}

\* gctx is done.
Stopped == ~ctxAlive \/ handleErr \/ groupErr # "none"

FirstOf(old, new) == IF old = "none" THEN new ELSE old

JobsInit ==
  /\ ctxAlive = TRUE /\ fed = 0 /\ feeding = TRUE
  /\ worker = [w \in Workers |-> "idle"] /\ job = [w \in Workers |-> 0]
  /\ buffered = {} /\ closed = FALSE /\ groupErr = "none"
  /\ pending = {} /\ next = 1 /\ draining = FALSE /\ handleErr = FALSE
  /\ last = 0 /\ result = "none"

\* The client of the download goes away.
CancelJobs ==
  /\ ctxAlive /\ result = "none"
  /\ ctxAlive' = FALSE
  /\ UNCHANGED <<groupVars, buffered, closed, callerVars>>

----------------------------------------------------------------------------
AllFed == fed = N

\* jobCh is not buffered: feeder and worker meet.
Feed(w) ==
  /\ feeding /\ ~AllFed /\ worker[w] = "idle"
  /\ fed' = fed + 1
  /\ worker' = [worker EXCEPT ![w] = "loading"]
  /\ job' = [job EXCEPT ![w] = fed + 1]
  /\ UNCHANGED <<ctxAlive, feeding, buffered, closed, groupErr, callerVars>>

\* Fault: the feeder does not watch the context.
FeederStopsOnlyAtEnd ==
  /\ feeding /\ AllFed
  /\ feeding' = FALSE
  /\ UNCHANGED <<ctxAlive, fed, worker, job, groupErr, buffered, closed, callerVars>>

FeederStops ==
  /\ feeding
  /\ \/ AllFed /\ UNCHANGED groupErr
     \/ ~AllFed /\ Stopped /\ groupErr' = FirstOf(groupErr, "ctx")
  /\ feeding' = FALSE
  /\ UNCHANGED <<ctxAlive, fed, worker, job, buffered, closed, callerVars>>

LoadJob(w) ==
  /\ worker[w] = "loading"
  /\ worker' = [worker EXCEPT ![w] = "sending"]
  /\ UNCHANGED <<ctxAlive, fed, feeding, job, groupErr, buffered, closed, callerVars>>

\* The worker returns an error of its own.
LoadFails(w) ==
  /\ worker[w] = "loading"
  /\ worker' = [worker EXCEPT ![w] = "gone"]
  /\ groupErr' = FirstOf(groupErr, "load")
  /\ UNCHANGED <<ctxAlive, fed, feeding, job, buffered, closed, callerVars>>

SendResult(w) ==
  /\ worker[w] = "sending" /\ Cardinality(buffered) < Cardinality(Workers)
  /\ worker' = [worker EXCEPT ![w] = "idle"]
  /\ job' = [job EXCEPT ![w] = 0]
  /\ buffered' = buffered \cup {job[w]}
  /\ UNCHANGED <<ctxAlive, fed, feeding, groupErr, closed, callerVars>>

SendGivesUp(w) ==
  /\ worker[w] = "sending" /\ Stopped
  /\ worker' = [worker EXCEPT ![w] = "gone"]
  /\ groupErr' = FirstOf(groupErr, "ctx")
  /\ UNCHANGED <<ctxAlive, fed, feeding, job, buffered, closed, callerVars>>

\* jobCh is closed.
WorkerReturns(w) ==
  /\ worker[w] = "idle" /\ ~feeding
  /\ worker' = [worker EXCEPT ![w] = "gone"]
  /\ UNCHANGED <<ctxAlive, fed, feeding, job, groupErr, buffered, closed, callerVars>>

\* Fault: the channel is closed as soon as every job has been handed out.
GroupDoneWhenFed == ~feeding

\* g.Wait.
GroupDone == ~feeding /\ \A w \in Workers : worker[w] = "gone"

CloseResults ==
  /\ ~closed /\ GroupDone
  /\ closed' = TRUE
  /\ UNCHANGED <<ctxAlive, groupVars, buffered, callerVars>>

----------------------------------------------------------------------------
Receive ==
  /\ ~draining /\ result = "none"
  /\ \E i \in buffered :
       /\ buffered' = buffered \ {i}
       /\ pending' = pending \cup {i}
  /\ draining' = TRUE
  /\ UNCHANGED <<ctxAlive, groupVars, closed, next, handleErr, last, result>>

\* Fault: results are handled as they come.
TurnOfAny == pending

\* The parked results whose turn it is.
Turn == pending \cap {next}

\* One round of the inner loop; once the handler has failed, later results
\* are only discarded.
Handle ==
  /\ draining
  /\ \E i \in Turn :
       /\ pending' = pending \ {i} /\ next' = next + 1
       /\ IF handleErr THEN UNCHANGED <<handleErr, last>>
          ELSE \/ last' = i /\ UNCHANGED handleErr
               \/ handleErr' = TRUE /\ UNCHANGED last
  /\ UNCHANGED <<ctxAlive, groupVars, buffered, closed, draining, result>>

DrainEnds ==
  /\ draining /\ Turn = {}
  /\ draining' = FALSE
  /\ UNCHANGED <<ctxAlive, groupVars, buffered, closed, pending, next, handleErr,
                 last, result>>

Return ==
  /\ ~draining /\ result = "none" /\ closed /\ buffered = {}
  /\ result' = IF handleErr THEN "handle"
               ELSE IF groupErr # "none" THEN groupErr
               ELSE IF ctxAlive THEN "ok" ELSE "ctx"
  /\ UNCHANGED <<ctxAlive, groupVars, buffered, closed, pending, next, draining,
                 handleErr, last>>

----------------------------------------------------------------------------
Work(w) ==
  \/ Feed(w) \/ LoadJob(w) \/ LoadFails(w) \/ SendResult(w) \/ SendGivesUp(w)
  \/ WorkerReturns(w)

Collect == Receive \/ Handle \/ DrainEnds \/ Return

Returned == result # "none" /\ UNCHANGED jobsVars

JobsNext ==
  \/ CancelJobs \/ FeederStops \/ CloseResults \/ Collect \/ Returned
  \/ \E w \in Workers : Work(w)

JobsSpec == JobsInit /\ [][JobsNext]_jobsVars

\* The goroutines run, every load and every call of the handler returns.
FairJobsSpec ==
  /\ JobsSpec
  /\ WF_jobsVars(FeederStops) /\ WF_jobsVars(CloseResults) /\ WF_jobsVars(Collect)
  /\ \A w \in Workers : WF_jobsVars(Work(w))

----------------------------------------------------------------------------
\* No goroutine of the call outlives it, and none can send on the closed
\* result channel, which would panic.
NoneLeftBehind ==
  closed \/ result # "none" => ~feeding /\ \A w \in Workers : worker[w] = "gone"

Outcome == IF result \in {"none", "ok"} THEN result ELSE "error"

Promise == INSTANCE InOrder WITH outcome <- Outcome

\* However loads finish and whoever fails, results are handled in input
\* order, none is skipped, and success means that all were (InOrder).
KeepsOrder == Promise!Spec

\* The call returns: no worker waits for a caller that waits for it, and an
\* error reaches the feeder and every worker.
CallReturns == <>(result # "none")
============================================================================
