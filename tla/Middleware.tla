----------------------------- MODULE Middleware -----------------------------
(***************************************************************************)
(* Executions of jobs through a worker's middleware chain (middleware.go): *)
(* Recovery and the observers (Logging, Metrics) of middleware/, the       *)
(* checkpoints of middleware/durable, and a Recorder (recorder/) around    *)
(* the handler.  Executions run concurrently and share the registry, the   *)
(* checkpoint store and the recorder; several may be deliveries of one     *)
(* job.                                                                    *)
(*                                                                         *)
(* The handler is the one of durable.go's package comment: restore, then   *)
(* process and save step by step, then clear.  Logging, Metrics and the    *)
(* Metrics of otel/ do the same around next, so one kind of middleware,    *)
(* the observer, stands for them.  A checkpoint is its StepIndex.          *)
(***************************************************************************)
EXTENDS Naturals, SequencesExt

CONSTANTS
    Executions, Jobs,   \* deliveries of jobs to a handler, and the jobs
    LastStep,           \* the handler's steps are 0..LastStep
    None                \* no job, no checkpoint

Steps == 0..LastStep
Kinds == {"recovery", "observer", "durable"}

ASSUME MiddlewareAssumption ==
    /\ LastStep \in Nat
    /\ None \notin Steps \cup Executions \cup Jobs

VARIABLES
    chain,      \* middlewareChain.middleware
    serving,    \* the worker has started: the chain does not change any more
    job,        \* the job each execution is a delivery of
    ip,         \* where each execution is in the wrapped handler, 0 before it
    pc,         \* where it is in the handler
    result,     \* what is being returned
    registry,   \* durable.registry: jobs with an entry
    dc,         \* what FromContext gave: the store or the no-op store
    step,       \* the step of the handler's loop
    ckpt,       \* MemoryStore.data: StepIndex of each job's checkpoint
    jobStarted, jobEnded,  \* calls of JobStarted, and of JobCompleted or JobFailed
    entries,    \* Recorder.entries
    cleared,    \* history: executions whose entry Reset has taken away
    met,        \* history: executions that ran at the same time
    processed   \* history: steps of jobs that were processed

setupVars   == <<chain, serving>>
handlerVars == <<pc, dc, step>>
sharedVars  == <<registry, ckpt, jobStarted, jobEnded, entries, cleared>>
vars == <<setupVars, job, ip, result, handlerVars, sharedVars, met, processed>>

-----------------------------------------------------------------------------
(* The chain.                                                               *)

Position(k) == CHOOSE i \in 1..Len(chain) : chain[i] = k

\* Add (Use, UseNamed), Prepend, InsertBefore, InsertAfter and Remove, each middleware
\* once.  An insertion next to one that is not there appends.
Edits(k) ==
    IF k \in Range(chain) THEN {RemoveAt(chain, Position(k))}
    ELSE {Append(chain, k), <<k>> \o chain}
            \cup {InsertAt(chain, Position(x), k) : x \in Range(chain)}
            \cup {InsertAt(chain, Position(x) + 1, k) : x \in Range(chain)}

Enters(k) == [op |-> "enter", mw |-> k]
Leaves(k) == [op |-> "leave", mw |-> k]
Handler   == [op |-> "handler", mw |-> "none"]

\* then: what the wrapped handler does.  Built from inside out, the last middleware next
\* to the handler, it enters the chain in its order and leaves it in the reverse order.
Then(c) ==
    LET n == Len(c) IN
    [i \in 1..(2 * n + 1) |->
        CASE i <= n -> Enters(c[i])
          [] i = n + 1 -> Handler
          [] OTHER -> Leaves(c[2 * n + 2 - i])]

ProgramReversed == Then(Reverse(chain))  \* mutant: built from the first middleware on

Program == Then(chain)

-----------------------------------------------------------------------------
Running(e) == ip[e] \in 1..Len(Program)
At(e)      == Program[ip[e]]
\* Execution e is inside middleware k.
Inside(e, k) == /\ \E i \in 1..(ip[e] - 1) : Program[i] = Enters(k)
                /\ \A i \in 1..(ip[e] - 1) : Program[i] # Leaves(k)

HandlerPC == {"find", "restore", "process", "save", "clear", "record"}

TypeOK ==
    /\ chain \in Seq(Kinds)
    /\ serving \in BOOLEAN
    /\ job \in [Executions -> Jobs \cup {None}]
    /\ ip \in [Executions -> Nat]
    /\ pc \in [Executions -> HandlerPC]
    /\ result \in [Executions -> {"none", "nil", "error", "panic"}]
    /\ registry \subseteq Jobs
    /\ dc \in [Executions -> {"store", "noop"}]
    /\ step \in [Executions -> Steps]
    /\ ckpt \in [Jobs -> Steps \cup {None}]
    /\ jobStarted \in Nat /\ jobEnded \in Nat
    /\ entries \in Seq([of : Executions, error : BOOLEAN])
    /\ cleared \subseteq Executions
    /\ met \in [Executions -> SUBSET Executions]
    /\ processed \subseteq Jobs \X Steps

Init ==
    /\ chain = <<>>
    /\ serving = FALSE
    /\ job = [e \in Executions |-> None]
    /\ ip = [e \in Executions |-> 0]
    /\ pc = [e \in Executions |-> "find"]
    /\ result = [e \in Executions |-> "none"]
    /\ registry = {}
    /\ dc = [e \in Executions |-> "noop"]
    /\ step = [e \in Executions |-> 0]
    /\ ckpt = [j \in Jobs |-> None]
    /\ jobStarted = 0 /\ jobEnded = 0
    /\ entries = <<>> /\ cleared = {}
    /\ met = [e \in Executions |-> {}]
    /\ processed = {}

Use(k) ==
    /\ ~serving
    /\ chain' \in Edits(k)
    /\ UNCHANGED <<serving, job, ip, result, handlerVars, sharedVars, met, processed>>

Serve ==
    /\ ~serving
    /\ serving' = TRUE
    /\ UNCHANGED <<chain, job, ip, result, handlerVars, sharedVars, met, processed>>

\* processJob calls the wrapped handler.
Begin(e, j) ==
    LET others == {f \in Executions \ {e} : Running(f)} IN
    /\ serving
    /\ ip[e] = 0
    /\ job' = [job EXCEPT ![e] = j]
    /\ ip' = [ip EXCEPT ![e] = 1]
    /\ met' = [f \in Executions |-> CASE f = e        -> others
                                      [] f \in others -> met[f] \cup {e}
                                      [] OTHER        -> met[f]]
    /\ UNCHANGED <<setupVars, result, handlerVars, sharedVars, processed>>

\* An observer counts or logs the start, and the end when there is a result: it has
\* deferred nothing that a panic would run.
Starts(k)     == k = "observer"
Reports(k, r) == k = "observer" /\ r # "panic"

\* Recovery turns a panic into an error.
Recovered(k, r) == IF k = "recovery" /\ r = "panic" THEN "error" ELSE r

Advance(e) == ip' = [ip EXCEPT ![e] = @ + 1]

\* A middleware up to its call of next.
Enter(e) ==
    /\ Running(e) /\ At(e).op = "enter"
    /\ registry' = IF At(e).mw = "durable" THEN registry \cup {job[e]} ELSE registry
    /\ jobStarted' = IF Starts(At(e).mw) THEN jobStarted + 1 ELSE jobStarted
    /\ Advance(e)
    /\ UNCHANGED <<setupVars, job, result, handlerVars, ckpt, jobEnded, entries, cleared, met, processed>>

LeaveKeepsOnPanic(e) ==  \* mutant: registry.Delete is not deferred
    /\ Running(e) /\ At(e).op = "leave"
    /\ registry' = IF At(e).mw = "durable" /\ result[e] # "panic" THEN registry \ {job[e]} ELSE registry
    /\ jobEnded' = IF Reports(At(e).mw, result[e]) THEN jobEnded + 1 ELSE jobEnded
    /\ result' = [result EXCEPT ![e] = Recovered(At(e).mw, @)]
    /\ Advance(e)
    /\ UNCHANGED <<setupVars, job, handlerVars, ckpt, jobStarted, entries, cleared, met, processed>>

\* What a middleware does after next, with a result or with a panic under way: durable
\* has deferred its Delete.
Leave(e) ==
    /\ Running(e) /\ At(e).op = "leave"
    /\ registry' = IF At(e).mw = "durable" THEN registry \ {job[e]} ELSE registry
    /\ jobEnded' = IF Reports(At(e).mw, result[e]) THEN jobEnded + 1 ELSE jobEnded
    /\ result' = [result EXCEPT ![e] = Recovered(At(e).mw, @)]
    /\ Advance(e)
    /\ UNCHANGED <<setupVars, job, handlerVars, ckpt, jobStarted, entries, cleared, met, processed>>

-----------------------------------------------------------------------------
(* The handler.                                                             *)

In(e, l) == Running(e) /\ At(e) = Handler /\ pc[e] = l
Go(e, l) == pc' = [pc EXCEPT ![e] = l]

FromContext(e) ==
    /\ In(e, "find")
    /\ dc' = [dc EXCEPT ![e] = IF job[e] \in registry THEN "store" ELSE "noop"]
    /\ Go(e, "restore")
    /\ UNCHANGED <<setupVars, job, ip, result, step, sharedVars, met, processed>>

RestoreAny(e) ==  \* mutant: the checkpoint is not looked up by the job's ID
    /\ In(e, "restore")
    /\ \E j \in Jobs :
          step' = [step EXCEPT ![e] = IF dc[e] = "store" /\ ckpt[j] # None THEN ckpt[j] ELSE 0]
    /\ Go(e, "process")
    /\ UNCHANGED <<setupVars, job, ip, result, dc, sharedVars, met, processed>>

\* Restore: the step of the last checkpoint; 0 without one, and with one that does not
\* decode.
Restore(e) ==
    /\ In(e, "restore")
    /\ \E from \in {0, IF dc[e] = "store" /\ ckpt[job[e]] # None THEN ckpt[job[e]] ELSE 0} :
          step' = [step EXCEPT ![e] = from]
    /\ Go(e, "process")
    /\ UNCHANGED <<setupVars, job, ip, result, dc, sharedVars, met, processed>>

Process(e) ==
    /\ In(e, "process")
    /\ processed' = processed \cup {<<job[e], step[e]>>}
    /\ Go(e, "save")
    /\ UNCHANGED <<setupVars, job, ip, result, dc, step, sharedVars, met>>

SaveOneTooMany(e) ==  \* mutant: the loop ends one step late
    /\ In(e, "save")
    /\ ckpt' \in {ckpt, IF dc[e] = "store" THEN [ckpt EXCEPT ![job[e]] = step[e]] ELSE ckpt}
    /\ step' = [step EXCEPT ![e] = @ + 1]
    /\ Go(e, IF step[e] <= LastStep THEN "process" ELSE "clear")
    /\ UNCHANGED <<setupVars, job, ip, result, dc, registry, jobStarted, jobEnded, entries, cleared, met, processed>>

\* Save overwrites what another execution saved; a checkpoint that does not encode or is
\* too large is not stored, and the handler goes on all the same.
Save(e) ==
    /\ In(e, "save")
    /\ ckpt' \in {ckpt, IF dc[e] = "store" THEN [ckpt EXCEPT ![job[e]] = step[e]] ELSE ckpt}
    /\ step' = [step EXCEPT ![e] = IF @ < LastStep THEN @ + 1 ELSE @]
    /\ Go(e, IF step[e] < LastStep THEN "process" ELSE "clear")
    /\ UNCHANGED <<setupVars, job, ip, result, dc, registry, jobStarted, jobEnded, entries, cleared, met, processed>>

\* The handler returns r to recordExecution.
Returns(e, r) ==
    /\ result' = [result EXCEPT ![e] = r]
    /\ Go(e, "record")

\* The handler clears the checkpoint and returns nil.
Clear(e) ==
    /\ In(e, "clear")
    /\ ckpt' = IF dc[e] = "store" THEN [ckpt EXCEPT ![job[e]] = None] ELSE ckpt
    /\ Returns(e, "nil")
    /\ UNCHANGED <<setupVars, job, ip, dc, step, registry, jobStarted, jobEnded, entries, cleared, met, processed>>

Fails(e) ==
    /\ In(e, "process")
    /\ Returns(e, "error")
    /\ UNCHANGED <<setupVars, job, ip, dc, step, sharedVars, met, processed>>

PanicsRecorded(e) ==  \* mutant: recording is deferred, and a panic leaves err nil
    /\ In(e, "process")
    /\ result' = [result EXCEPT ![e] = "panic"]
    /\ entries' = Append(entries, [of |-> e, error |-> FALSE])
    /\ Advance(e)
    /\ UNCHANGED <<setupVars, job, handlerVars, registry, ckpt, jobStarted, jobEnded, cleared, met, processed>>

\* A panic passes the recorder, which has deferred nothing.
Panics(e) ==
    /\ In(e, "process")
    /\ result' = [result EXCEPT ![e] = "panic"]
    /\ Advance(e)
    /\ UNCHANGED <<setupVars, job, handlerVars, sharedVars, met, processed>>

\* recordExecution: RecordCall or RecordError.
RecordCall(e) ==
    /\ In(e, "record")
    /\ entries' = Append(entries, [of |-> e, error |-> result[e] = "error"])
    /\ Advance(e)
    /\ UNCHANGED <<setupVars, job, result, handlerVars, registry, ckpt, jobStarted, jobEnded, cleared, met, processed>>

HandlerStep(e) ==
    \/ FromContext(e) \/ Restore(e) \/ Process(e) \/ Save(e) \/ Clear(e)
    \/ Fails(e) \/ Panics(e) \/ RecordCall(e)

-----------------------------------------------------------------------------
\* The time to live of a checkpoint ends: Get does not find it.
Expire(j) ==
    /\ ckpt[j] # None
    /\ ckpt' = [ckpt EXCEPT ![j] = None]
    /\ UNCHANGED <<setupVars, job, ip, result, handlerVars, registry, jobStarted, jobEnded, entries, cleared, met, processed>>

\* The executions in the trace.
Traced == {entries[i].of : i \in 1..Len(entries)}

\* Somebody has read the trace and resets the recorder.
Reset ==
    /\ entries # <<>>
    /\ entries' = <<>>
    /\ cleared' = cleared \cup Traced
    /\ UNCHANGED <<setupVars, job, ip, result, handlerVars, registry, ckpt, jobStarted, jobEnded, met, processed>>

Next ==
    \/ Serve \/ Reset
    \/ \E k \in Kinds : Use(k)
    \/ \E j \in Jobs : Expire(j)
    \/ \E e \in Executions : (\E j \in Jobs : Begin(e, j)) \/ Enter(e) \/ HandlerStep(e) \/ Leave(e)

Spec == Init /\ [][Next]_vars

-----------------------------------------------------------------------------
(* Properties.                                                              *)

\* No two deliveries of job j have run at the same time.
Alone(j) == \A e, f \in Executions : job[e] = j /\ job[f] = j => f \notin met[e]

\* The registry knows a job exactly while its execution is inside the durable middleware,
\* whatever errors and panics end it: handlers find their store, and no entry is left.
\* Two deliveries at a time (durable.go:138) are the exception: the first to end takes
\* the entry from the other.
RegistryFollowsExecution ==
    \A j \in Jobs : Alone(j) =>
        (j \in registry <=> \E e \in Executions : job[e] = j /\ Inside(e, "durable"))

\* A handler that returned nil leaves no step of its job undone, whether it began with a
\* checkpoint of its own, of an earlier delivery, of one that runs beside it, or with none.
NoStepIsSkipped ==
    \A e \in Executions : result[e] = "nil" =>
        \A k \in Steps : <<job[e], k>> \in processed

\* Inside every observer there is a Recovery.
ObserverIsShielded ==
    \A i \in 1..Len(chain) : chain[i] = "observer" => \E k \in (i + 1)..Len(chain) : chain[k] = "recovery"

\* logging.go:11, "Each job execution produces two log entries: one at start ... and one at
\* completion", and likewise metrics.go:23: every start is followed by its end, panics
\* included, as long as Recovery is added to the chain after the observer.
EveryStartIsReported ==
    ObserverIsShielded =>
        jobStarted = jobEnded + Cardinality({e \in Executions : Inside(e, "observer")})

\* recorder/middleware.go:9, "automatically records execution traces for every invocation":
\* until Reset, what a handler returned is in the trace, once, and as a call or an error
\* according to what the chain returns to the worker in the end.  A panic is not recorded,
\* and never passes for a call.
TraceTellsResults ==
    /\ \A i \in 1..Len(entries) :
          result[entries[i].of] = IF entries[i].error THEN "error" ELSE "nil"
    /\ \A i, m \in 1..Len(entries) : entries[i].of = entries[m].of => i = m
    /\ \A e \in Executions :
          result[e] = "nil" /\ ip[e] > Len(chain) + 1 => e \in Traced \cup cleared
=============================================================================
