------------------------------- MODULE Worker -------------------------------
(***************************************************************************)
(* The worker of worker.go: one goroutine in Start, one in fetchLoop, one  *)
(* in heartbeatLoop and one per dispatched job, sharing the atomics state  *)
(* and activeCount, the map activeJobs, the channel sem and the channel    *)
(* stopped.  Every access to one of these is a step of its own.            *)
(*                                                                         *)
(* A delivery is one job received in one fetch response; it is also the    *)
(* identity of the goroutine that processes it.  The OJS server is not     *)
(* part of the repository: srv, late and lateFetch model it from the       *)
(* requests the worker sends (POST fetch, ack, nack, heartbeat).           *)
(***************************************************************************)
EXTENDS Integers, FiniteSets

CONSTANTS
    Jobs, NoJob,        \* job IDs known to the server; no job
    Deliveries,         \* deliveries, in a bounded number
    Types, TypeOf,      \* job types, and the type of each job
    Concurrency,        \* config.concurrency
    AckNackMaxRetries,  \* ackNackMaxRetries
    Loop,               \* the heartbeat loop, as a sender of heartbeats
    Faulty,             \* the network may leave a request unanswered
    LeaseExpires,       \* the server may time a lease out (visibility timeout)
    Directives,         \* states the server's heartbeat answers may ask for
    Beaters             \* who sends heartbeats: Loop, and the deliveries whose
                        \* handler calls JobContext.Heartbeat

ASSUME WorkerAssumption ==
    /\ IsFiniteSet(Deliveries)
    /\ NoJob \notin Jobs
    /\ TypeOf \in [Jobs -> Types]
    /\ Concurrency \in Nat \ {0}
    /\ AckNackMaxRetries \in Nat \ {0}
    /\ Loop \notin Deliveries
    /\ Directives \subseteq {"running", "quiet", "terminate"}
    /\ Beaters \subseteq Deliveries \cup {Loop}
    /\ {Faulty, LeaseExpires} \subseteq BOOLEAN

VARIABLES
    start,        \* where Start is
    ctxDone,      \* the caller's context is cancelled
    stopped,      \* Worker.stopped is closed (and heartbeatCtx cancelled)
    state,        \* Worker.state
    handlers,     \* job types with a handler (Worker.handlers)
    fetcher,      \* where fetchLoop is
    count,        \* number of jobs fetchLoop asks for
    sem,          \* tokens in the channel sem
    activeJobs,   \* Worker.activeJobs
    activeCount,  \* Worker.activeCount
    task,         \* where each delivery is
    job,          \* the job of each delivery
    outcome,      \* what became of the delivery in processJob
    left,         \* report attempts left
    beater,       \* heartbeatLoop: "off", "on" or "exited"
    beat,         \* heartbeat in progress, for each sender
    nackIds,      \* IDs nackActiveJobs has still to nack
    srv,          \* server: status of each job
    late,         \* server: reports under way that nobody waits for any more
    lateFetch     \* server: size of a fetch under way that nobody waits for

startVars  == <<start, ctxDone, stopped, nackIds>>
fetchVars  == <<fetcher, count>>
slotVars   == <<sem, activeJobs, activeCount>>
taskVars   == <<task, job, outcome, left>>
beatVars   == <<beater, beat>>
serverVars == <<srv, late, lateFetch>>
\* Left alone by fetchLoop, by the goroutines of jobs and by the server...
control == <<startVars, state, handlers, beatVars>>
\* ... and by everything else.
work == <<fetchVars, slotVars, taskVars, serverVars>>
vars == <<control, work>>

WorkerState == {"running", "quiet", "terminate"}
Reports     == {"ack", "nackRetry", "nackFinal"}
\* What the handler of a job returned: nil, an error (a panic becomes one), an error
\* wrapped by NonRetryable; or there was no handler.
Returns     == {"nil", "error", "nonRetryable"}
Outcomes    == Returns \cup {"none", "unhandled"}
Senders     == Deliveries \cup {Loop}

\* A report on the wire: the job, what is said of it, who sent it, at which try.
Messages == [job: Jobs, kind: Reports, from: Senders, try: 0..AckNackMaxRetries]

\* Delivered to the worker, not yet handed to a goroutine.
Queued    == {"fetched", "admitted", "stored"}
\* The goroutine runs, its deferred function has not started.
Working   == {"lookup", "handler", "report", "posting", "backoff"}
\* The deferred function runs.
Releasing == {"release", "delete", "decrement"}
TaskState == {"unused", "done"} \cup Queued \cup Working \cup Releasing

InState(S) == {d \in Deliveries : task[d] \in S}

TypeOK ==
    /\ start \in {"idle", "refused", "serving", "draining", "drained", "nacking",
                  "expired", "joining", "returned"}
    /\ ctxDone \in BOOLEAN
    /\ stopped \in BOOLEAN
    /\ state \in WorkerState
    /\ handlers \subseteq Types
    /\ fetcher \in {"off", "top", "state", "capacity", "count", "fetching",
                    "pause", "dispatch", "exited"}
    /\ count \in 0..Concurrency
    /\ sem \in 0..Concurrency
    /\ activeJobs \subseteq Jobs
    /\ activeCount \in 0..Concurrency
    /\ task \in [Deliveries -> TaskState]
    /\ job \in [Deliveries -> Jobs \cup {NoJob}]
    /\ outcome \in [Deliveries -> Outcomes]
    /\ left \in [Deliveries -> 0..AckNackMaxRetries]
    /\ beater \in {"off", "on", "exited"}
    /\ beat \in [Senders -> {"idle", "sent"} \cup WorkerState]
    /\ nackIds \subseteq Jobs
    /\ srv \in [Jobs -> {"available", "active", "completed", "discarded"}]
    /\ late \subseteq Messages
    /\ lateFetch \in 0..Concurrency

Init ==
    /\ start = "idle"
    /\ ctxDone = FALSE
    /\ stopped = FALSE
    /\ state = "running"
    /\ handlers = {}
    /\ fetcher = "off"
    /\ count = 0
    /\ sem = 0
    /\ activeJobs = {}
    /\ activeCount = 0
    /\ task = [d \in Deliveries |-> "unused"]
    /\ job = [d \in Deliveries |-> NoJob]
    /\ outcome = [d \in Deliveries |-> "none"]
    /\ left = [d \in Deliveries |-> 0]
    /\ beater = "off"
    /\ beat = [s \in Senders |-> "idle"]
    /\ nackIds = {}
    /\ srv = [j \in Jobs |-> "available"]
    /\ late = {}
    /\ lateFetch = 0

-----------------------------------------------------------------------------
(* The server, modelled from the worker's requests.  A fetch leases           *)
(* available jobs; a report about a job that is not leased is refused.  A     *)
(* report names the job only, so it settles whatever lease the job is under.  *)

Settled(kind) ==
    CASE kind = "ack"       -> "completed"
      [] kind = "nackRetry" -> "available"
      [] kind = "nackFinal" -> "discarded"

\* srv after a report of this kind about j has been handled.
Apply(j, kind) ==
    IF srv[j] = "active" THEN [srv EXCEPT ![j] = Settled(kind)] ELSE srv

\* The jobs a fetch that asks for n may lease.
Leasable(n) == {S \in SUBSET {j \in Jobs : srv[j] = "available"} :
                    IsFiniteSet(S) /\ Cardinality(S) <= n}

Lease(S) == [j \in Jobs |-> IF j \in S THEN "active" ELSE srv[j]]

\* A report reaches the server after its sender stopped waiting for the answer.
LateReport(m) ==
    /\ m \in late
    /\ late' = late \ {m}
    /\ srv' = Apply(m.job, m.kind)
    /\ UNCHANGED <<control, fetchVars, slotVars, taskVars, lateFetch>>

\* So does a fetch: the jobs it leases are never seen by the worker.
LateFetch(S) ==
    /\ lateFetch > 0
    /\ S \in Leasable(lateFetch)
    /\ lateFetch' = 0
    /\ srv' = Lease(S)
    /\ UNCHANGED <<control, fetchVars, slotVars, taskVars, late>>

\* The visibility timeout of a leased job passes.
LeaseTimeout(j) ==
    /\ LeaseExpires
    /\ srv[j] = "active"
    /\ srv' = [srv EXCEPT ![j] = "available"]
    /\ UNCHANGED <<control, fetchVars, slotVars, taskVars, late, lateFetch>>

-----------------------------------------------------------------------------
(* Register and Start.                                                      *)

Register(t) ==
    /\ t \notin handlers
    /\ handlers' = handlers \cup {t}
    /\ UNCHANGED <<startVars, state, beatVars, work>>

\* Start refuses to run without a handler, and else launches the two loops.
Start ==
    /\ start = "idle"
    /\ IF handlers = {}
          THEN start' = "refused" /\ UNCHANGED <<fetcher, beater>>
          ELSE start' = "serving" /\ fetcher' = "top" /\ beater' = "on"
    /\ UNCHANGED <<ctxDone, stopped, nackIds, state, handlers, count, slotVars,
                   taskVars, beat, serverVars>>

\* The caller cancels the context given to Start.
CancelCtx ==
    /\ ~ctxDone
    /\ ctxDone' = TRUE
    /\ UNCHANGED <<start, stopped, nackIds, state, handlers, beatVars, work>>

BeginShutdown ==
    /\ start = "serving"
    /\ ctxDone
    /\ start' = "draining"
    /\ state' = "terminate"
    /\ UNCHANGED <<ctxDone, stopped, nackIds, handlers, beatVars, work>>

\* waitForActiveJobs reads 0 and Start's select takes graceDone.
WaitForActiveJobs ==
    /\ start = "draining"
    /\ activeCount = 0
    /\ start' = "drained"
    /\ UNCHANGED <<ctxDone, stopped, nackIds, state, handlers, beatVars, work>>

\* The grace period is over first: nackActiveJobs takes the IDs to nack.
GraceExpired ==
    /\ start = "draining"
    /\ start' = "nacking"
    /\ nackIds' = activeJobs
    /\ UNCHANGED <<ctxDone, stopped, state, handlers, beatVars, work>>

\* nackActiveJobs nacks one ID, once, with heartbeatCtx; an error is only logged.
NackActiveJob(j) ==
    /\ start = "nacking"
    /\ j \in nackIds
    /\ nackIds' = nackIds \ {j}
    /\ \/ srv' = Apply(j, "nackRetry") /\ late' = late
       \/ /\ Faulty
          /\ late' = late \cup {[job |-> j, kind |-> "nackRetry", from |-> Loop,
                                 try |-> 0]}
          /\ srv' = srv
    /\ UNCHANGED <<start, ctxDone, stopped, state, handlers, fetchVars, slotVars,
                   taskVars, beatVars, lateFetch>>

NackActiveJobsDone ==
    /\ start = "nacking"
    /\ nackIds = {}
    /\ start' = "expired"
    /\ UNCHANGED <<ctxDone, stopped, nackIds, state, handlers, beatVars, work>>

\* heartbeatCancel() and close(w.stopped).
Stop ==
    /\ start \in {"drained", "expired"}
    /\ start' = "joining"
    /\ stopped' = TRUE
    /\ UNCHANGED <<ctxDone, nackIds, state, handlers, beatVars, work>>

\* wg.Wait() returns, and Start with it.
Join ==
    /\ start = "joining"
    /\ fetcher = "exited"
    /\ beater = "exited"
    /\ start' = "returned"
    /\ UNCHANGED <<ctxDone, stopped, nackIds, state, handlers, beatVars, work>>

\* What the goroutine of Start does once the context is cancelled.
ShutdownStep ==
    \/ BeginShutdown \/ WaitForActiveJobs \/ GraceExpired
    \/ \E j \in Jobs : NackActiveJob(j)
    \/ NackActiveJobsDone \/ Stop \/ Join

-----------------------------------------------------------------------------
(* fetchLoop.                                                               *)

GoTo(pc) ==
    /\ fetcher' = pc
    /\ UNCHANGED <<control, count, slotVars, taskVars, serverVars>>

\* The select at the top of the loop.
FetchTopForever ==  \* mutant: the loop ends with the poll wait only
    /\ fetcher = "top"
    /\ GoTo("state")

FetchTop ==
    /\ fetcher = "top"
    /\ GoTo(IF ctxDone \/ stopped THEN "exited" ELSE "state")

\* Only a running worker fetches.
FetchState ==
    /\ fetcher = "state"
    /\ GoTo(IF state = "running" THEN "capacity" ELSE "pause")

FetchCapacityOffByOne ==  \* mutant: > for >=
    /\ fetcher = "capacity"
    /\ GoTo(IF activeCount > Concurrency THEN "pause" ELSE "count")

FetchCapacity ==
    /\ fetcher = "capacity"
    /\ GoTo(IF activeCount >= Concurrency THEN "pause" ELSE "count")

\* The wait of every branch that does not dispatch: the poll interval or the
\* backoff passes, or the context is done.
FetchPause ==
    /\ fetcher = "pause"
    /\ \/ GoTo("top")
       \/ (ctxDone \/ stopped) /\ GoTo("exited")

\* count := concurrency - activeCount, at least 1.
WantedOffByOne == Concurrency - activeCount + 1  \* mutant

Wanted == IF Concurrency - activeCount <= 0 THEN 1 ELSE Concurrency - activeCount

\* The request leaves, unless the context is done: then fetchJobs fails.
FetchRequest ==
    /\ fetcher = "count"
    /\ count' = Wanted
    /\ fetcher' = IF ctxDone THEN "pause" ELSE "fetching"
    /\ UNCHANGED <<control, slotVars, taskVars, serverVars>>

\* The server leases the jobs S and the response arrives; ds gives each job the
\* delivery that stands for it.
FetchResponse(S, ds) ==
    /\ fetcher = "fetching"
    /\ S \in Leasable(count)
    /\ ds \in [S -> InState({"unused"})]
    /\ \A i, j \in S : i # j => ds[i] # ds[j]
    /\ srv' = Lease(S)
    /\ task' = [d \in Deliveries |-> IF \E j \in S : ds[j] = d THEN "fetched" ELSE task[d]]
    /\ job' = [d \in Deliveries |->
                  IF \E j \in S : ds[j] = d THEN CHOOSE j \in S : ds[j] = d ELSE job[d]]
    /\ fetcher' = IF S = {} THEN "pause" ELSE "dispatch"
    /\ UNCHANGED <<control, count, slotVars, outcome, left, late, lateFetch>>

\* The server refuses the fetch.
FetchRefused ==
    /\ fetcher = "fetching"
    /\ GoTo("pause")

\* The call ends without a response; the request may still reach the server.
FetchUnanswered ==
    /\ fetcher = "fetching"
    /\ Faulty \/ ctxDone
    /\ fetcher' = "pause"
    /\ lateFetch' = count
    /\ UNCHANGED <<control, count, slotVars, taskVars, srv, late>>

\* Dispatch of one job, first the send on sem: it blocks while sem is full.
DispatchAcquire(d) ==
    /\ fetcher = "dispatch"
    /\ InState({"admitted", "stored"}) = {}
    /\ task[d] = "fetched"
    /\ sem < Concurrency
    /\ sem' = sem + 1
    /\ task' = [task EXCEPT ![d] = "admitted"]
    /\ UNCHANGED <<control, fetchVars, activeJobs, activeCount, job, outcome, left,
                   serverVars>>

DispatchStore(d) ==
    /\ fetcher = "dispatch"
    /\ task[d] = "admitted"
    /\ activeJobs' = activeJobs \cup {job[d]}
    /\ task' = [task EXCEPT ![d] = "stored"]
    /\ UNCHANGED <<control, fetchVars, sem, activeCount, job, outcome, left,
                   serverVars>>

\* The count goes up, then the goroutine is launched.
DispatchLaunch(d) ==
    /\ fetcher = "dispatch"
    /\ task[d] = "stored"
    /\ activeCount' = activeCount + 1
    /\ task' = [task EXCEPT ![d] = "lookup"]
    /\ UNCHANGED <<control, fetchVars, sem, activeJobs, job, outcome, left,
                   serverVars>>

DispatchDone ==
    /\ fetcher = "dispatch"
    /\ InState(Queued) = {}
    /\ GoTo("top")

FetchLoop ==
    \/ FetchTop \/ FetchState \/ FetchCapacity \/ FetchPause \/ FetchRequest
    \/ \E S \in SUBSET Jobs : \E ds \in [S -> Deliveries] : FetchResponse(S, ds)
    \/ FetchRefused \/ FetchUnanswered
    \/ \E d \in Deliveries :
          DispatchAcquire(d) \/ DispatchStore(d) \/ DispatchLaunch(d)
    \/ DispatchDone

-----------------------------------------------------------------------------
(* The goroutine of a job: processJob and the deferred release.             *)

Step(d, pc) == task' = [task EXCEPT ![d] = pc]

\* What processJob reports: an error is retryable unless NonRetryable wraps it.
ReportOfNoRetry(o) ==  \* mutant: every error is final
    CASE o = "nil" -> "ack"
      [] o \in {"error", "nonRetryable", "unhandled"} -> "nackFinal"

ReportOf(o) ==
    CASE o = "nil"                           -> "ack"
      [] o = "error"                         -> "nackRetry"
      [] o \in {"nonRetryable", "unhandled"} -> "nackFinal"

\* A job without a handler is nacked as not retryable, with a single try.
Lookup(d) ==
    /\ task[d] = "lookup"
    /\ IF TypeOf[job[d]] \in handlers
          THEN Step(d, "handler") /\ UNCHANGED <<outcome, left>>
          ELSE /\ Step(d, "report")
               /\ outcome' = [outcome EXCEPT ![d] = "unhandled"]
               /\ left' = [left EXCEPT ![d] = 1]
    /\ UNCHANGED <<control, fetchVars, slotVars, job, serverVars>>

\* The handler returns.
HandlerReturnsSilently(d, result) ==  \* mutant: an error is dropped, not reported
    /\ task[d] = "handler"
    /\ beat[d] = "idle"
    /\ Step(d, IF result = "error" THEN "release" ELSE "report")
    /\ outcome' = [outcome EXCEPT ![d] = result]
    /\ left' = [left EXCEPT ![d] = AckNackMaxRetries]
    /\ UNCHANGED <<control, fetchVars, slotVars, job, serverVars>>

HandlerReturns(d, result) ==
    /\ task[d] = "handler"
    /\ beat[d] = "idle"
    /\ Step(d, "report")
    /\ outcome' = [outcome EXCEPT ![d] = result]
    /\ left' = [left EXCEPT ![d] = AckNackMaxRetries]
    /\ UNCHANGED <<control, fetchVars, slotVars, job, serverVars>>

\* One try of ackJob or nackJob: with a cancelled context the request is not sent.
SendReportUncounted(d) ==  \* mutant: tries are not counted
    /\ task[d] = "report"
    /\ Step(d, IF ctxDone THEN "backoff" ELSE "posting")
    /\ UNCHANGED <<control, fetchVars, slotVars, job, outcome, left, serverVars>>

SendReport(d) ==
    /\ task[d] = "report"
    /\ Step(d, IF ctxDone THEN "backoff" ELSE "posting")
    /\ left' = [left EXCEPT ![d] = @ - 1]
    /\ UNCHANGED <<control, fetchVars, slotVars, job, outcome, serverVars>>

\* The server answers: success ends the loop, a refusal is an error like any other.
ReportAnswered(d) ==
    /\ task[d] = "posting"
    /\ srv' = Apply(job[d], ReportOf(outcome[d]))
    /\ Step(d, IF srv[job[d]] = "active" THEN "release" ELSE "backoff")
    /\ UNCHANGED <<control, fetchVars, slotVars, job, outcome, left, late, lateFetch>>

\* The try ends without an answer; the request may still reach the server.
ReportUnanswered(d) ==
    /\ task[d] = "posting"
    /\ Faulty \/ ctxDone
    /\ late' = late \cup {[job |-> job[d], kind |-> ReportOf(outcome[d]),
                            from |-> d, try |-> left[d]]}
    /\ Step(d, "backoff")
    /\ UNCHANGED <<control, fetchVars, slotVars, job, outcome, left, srv, lateFetch>>

\* The select after a failed try: the pause passes, or the context is done.
ReportBackoff(d) ==
    /\ task[d] = "backoff"
    /\ \/ left[d] > 0 /\ Step(d, "report")
       \/ (left[d] = 0 \/ ctxDone) /\ Step(d, "release")
    /\ UNCHANGED <<control, fetchVars, slotVars, job, outcome, left, serverVars>>

\* The deferred function: <-sem, activeJobs.Delete, activeCount.Add(-1).
ReleaseSem(d) ==
    /\ task[d] = "release"
    /\ sem' = sem - 1
    /\ Step(d, "delete")
    /\ UNCHANGED <<control, fetchVars, activeJobs, activeCount, job, outcome, left,
                   serverVars>>

DeleteActiveMissing(d) ==  \* mutant: activeJobs.Delete is left out
    /\ task[d] = "delete"
    /\ Step(d, "decrement")
    /\ UNCHANGED <<control, fetchVars, slotVars, job, outcome, left, serverVars>>

DeleteActive(d) ==
    /\ task[d] = "delete"
    /\ activeJobs' = activeJobs \ {job[d]}
    /\ Step(d, "decrement")
    /\ UNCHANGED <<control, fetchVars, sem, activeCount, job, outcome, left,
                   serverVars>>

DecrementCountMissing(d) ==  \* mutant: activeCount.Add(-1) is left out
    /\ task[d] = "decrement"
    /\ Step(d, "done")
    /\ UNCHANGED <<control, fetchVars, slotVars, job, outcome, left, serverVars>>

DecrementCount(d) ==
    /\ task[d] = "decrement"
    /\ activeCount' = activeCount - 1
    /\ Step(d, "done")
    /\ UNCHANGED <<control, fetchVars, sem, activeJobs, job, outcome, left,
                   serverVars>>

\* Everything a job's goroutine does but running the handler.
GoroutineStep(d) ==
    \/ Lookup(d) \/ SendReport(d) \/ ReportAnswered(d) \/ ReportUnanswered(d)
    \/ ReportBackoff(d) \/ ReleaseSem(d) \/ DeleteActive(d) \/ DecrementCount(d)

-----------------------------------------------------------------------------
(* Heartbeats, from heartbeatLoop and from handlers (JobContext.Heartbeat).  *)

MayBeat(s) == IF s = Loop THEN beater = "on" /\ ~stopped
                          ELSE task[s] = "handler" /\ ~ctxDone

\* sendHeartbeat posts the state and the IDs in activeJobs.
SendHeartbeat(s) ==
    /\ beat[s] = "idle"
    /\ MayBeat(s)
    /\ beat' = [beat EXCEPT ![s] = "sent"]
    /\ UNCHANGED <<startVars, state, handlers, beater, work>>

\* The switch of handleServerState.
Transition(current, desired) ==
    \/ current = "running" /\ desired \in {"quiet", "terminate"}
    \/ current = "quiet" /\ desired \in {"terminate", "running"}

\* The answer asks for a state, and handleServerState loads the current one:
\* beat[s] is then the state it is about to store, if any.
HeartbeatAnswered(s, desired) ==
    /\ beat[s] = "sent"
    /\ beat' = [beat EXCEPT ![s] = IF Transition(state, desired) THEN desired ELSE "idle"]
    /\ UNCHANGED <<startVars, state, handlers, beater, work>>

\* The heartbeat fails, or its answer asks for no state.
HeartbeatNoChange(s) ==
    /\ beat[s] = "sent"
    /\ beat' = [beat EXCEPT ![s] = "idle"]
    /\ UNCHANGED <<startVars, state, handlers, beater, work>>

\* The store of handleServerState.
HandleServerState(s) ==
    /\ beat[s] \in WorkerState
    /\ state' = beat[s]
    /\ beat' = [beat EXCEPT ![s] = "idle"]
    /\ UNCHANGED <<startVars, handlers, beater, work>>

\* heartbeatLoop returns: its context is cancelled or stopped is closed.
HeartbeatLoopExits ==
    /\ beater = "on"
    /\ stopped
    /\ beat[Loop] = "idle"
    /\ beater' = "exited"
    /\ UNCHANGED <<startVars, state, handlers, beat, work>>

\* A heartbeat call under way comes to its end.
HeartbeatStep(s) ==
    \/ \E desired \in Directives : HeartbeatAnswered(s, desired)
    \/ HeartbeatNoChange(s) \/ HandleServerState(s)

-----------------------------------------------------------------------------
ServerStep ==
    \/ \E m \in late : LateReport(m)
    \/ \E S \in SUBSET Jobs : LateFetch(S)
    \/ \E j \in Jobs : LeaseTimeout(j)

HandlerStep(d) == \E result \in Returns : HandlerReturns(d, result)

Next ==
    \/ \E t \in Types : Register(t)
    \/ Start
    \/ CancelCtx
    \/ ShutdownStep
    \/ FetchLoop
    \/ \E d \in Deliveries : GoroutineStep(d) \/ HandlerStep(d)
    \/ \E s \in Beaters : SendHeartbeat(s) \/ HeartbeatStep(s)
    \/ HeartbeatLoopExits
    \/ ServerStep

Spec == Init /\ [][Next]_vars

\* Goroutines that can run do, timers fire, and a call on the network ends (with
\* an answer or with the transport's timeout).  Nothing is assumed of the caller,
\* of the server's directives, nor of handlers: they may never return.
Fairness ==
    /\ WF_vars(ShutdownStep)
    /\ WF_vars(FetchLoop)
    /\ WF_vars(HeartbeatLoopExits)
    /\ \A s \in Beaters : WF_vars(HeartbeatStep(s))
    /\ \A d \in Deliveries : WF_vars(GoroutineStep(d))

FairSpec == Spec /\ Fairness

-----------------------------------------------------------------------------
(* Properties.                                                              *)

\* The dispatch loop of fetchLoop sends on sem without watching the context
\* (worker.go:321).  It never blocks there: as long as a fetched job waits for its
\* token, sem has room, whatever jobs finish while the fetch is under way.  It rests
\* on the order of the deferred release: the token goes back before the count that
\* the next fetch is sized by goes down.
DispatchNeverBlocks ==
    InState({"fetched"}) # {} => sem < Concurrency

\* An ID in activeJobs, which heartbeats report and nackActiveJobs nacks, belongs
\* to a job that fetchLoop has handed out and whose goroutine has not deleted it
\* yet, also when two deliveries of the same job overlap: no entry is left behind.
ActiveJobsHaveOwner ==
    \A j \in activeJobs : \E d \in Deliveries :
        job[d] = j /\ task[d] \in {"stored", "release", "delete"} \cup Working

\* Whatever is lost, late, retried or nacked by the shutdown, the server has a job
\* completed only if a handler returned nil for it, and discarded only if a handler
\* refused it for good or it had none.
OutcomeHasCause ==
    \A j \in Jobs :
        /\ srv[j] = "completed" =>
              \E d \in Deliveries : job[d] = j /\ outcome[d] = "nil"
        /\ srv[j] = "discarded" =>
              \E d \in Deliveries :
                  job[d] = j /\ outcome[d] \in {"nonRetryable", "unhandled"}

\* The count that waitForActiveJobs and fetchLoop read is exact at every instant:
\* goroutines launched and not yet past their last deferred statement.
ActiveCountExact == activeCount = Cardinality(InState(Working \cup Releasing))

\* A worker that is not shutting down and whose network loses nothing loses no job:
\* a leased job always has a goroutine or a place in the dispatch loop.
LeasedJobIsInHand ==
    ~Faulty /\ ~ctxDone =>
        \A j \in Jobs : srv[j] = "active" =>
            \E d \in Deliveries : job[d] = j /\ task[d] \in Queued \cup Working

\* Once the context is cancelled Start returns, even if no handler ever returns and
\* no report is ever answered.
ShutdownCompletes == (ctxDone /\ start = "serving") ~> (start = "returned")

\* A goroutine whose handler has returned, or that has none to run, comes to its end and
\* gives its slot back, however many of its reports are lost or refused.
SlotIsReleased == \A d \in Deliveries : task[d] = "report" ~> task[d] = "done"
=============================================================================
