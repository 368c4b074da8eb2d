# A TLA+ verification of ojs-go-sdk

The repository is the Go client SDK of Open Job Spec: a client that enqueues jobs
over HTTP, a worker that fetches, runs and reports them, and helpers around both.
The OJS server is not part of it. This project models the parts of the SDK in which
goroutines, retries, crashes, shared registries and a lossy network meet, checks them
with TLC on small instances and proves the main safety properties with TLAPS for all
values of the constants.

`PROJECT.json` lists components, runs, mutants, the map from definitions to source
lines, hazards and theorems.

## Inventory

| component | state it keeps | operations | what is hard |
|---|---|---|---|
| worker (`worker.go`, part of `errors.go`) | atomics `state`, `activeCount`; map `activeJobs`; channels `sem`, `stopped`; handlers | `Register`, `Start` (fetch loop, heartbeat loop, shutdown), `processJob`, ack and nack with retries, `JobContext.Heartbeat` | five kinds of goroutines on shared atomics; shutdown against dispatch; lost and repeated reports; duplicate delivery |
| transport (`transport.go`, `rate_limiter.go`) | attempt number, pause | `do`, `get`, `post`, `delete` | repeated requests that are not idempotent, cancellation in the pause, clamping |
| durable execution (`durable.go`) | log of entries, cursor, replay flag; a checkpoint at the server | `Now`, `Random`, `SideEffect`, `Checkpoint`, `Complete` | crashes between any two steps; replay position; late checkpoints |
| event subscription (`subscribe.go`) | backoff, last event ID, the event that is read | `Subscribe`, `SubscribeWithReconnect`, `Cancel` | connections that break between two lines; Cancel at any point |
| federated client (`federation/client.go`) | per region `healthy`, `failures`, `lastFailure`, `cbState`, four atomics | health-check rounds, `EnqueueWithRegion`, `EnqueueToRegion`, `Stop` | unlocked multi-word updates by callers and checkers |
| routing strategies (`federation/router.go`, the callers of `Select` in `federation/client.go`) | a round-robin counter | `Select` of seven strategies; how `Enqueue`, `EnqueueToRegion`, `FetchFromAnyRegion` and `GetJob` find a region | the health is loaded region by region while it changes; ties, weights, empty sets |
| durable middleware (`middleware/durable`) | registry of contexts by job ID, checkpoint store | middleware, `FromContext`, `Restore`, `Save`, `Clear` | two deliveries of one job on one registry key; panics; checkpoints of another delivery |
| testing fake (`ojstesting`) | the active store; in a store jobs, handlers, performed jobs under a mutex | `Fake` and its cleanup, `FakeClient`, enqueue, `Drain`, `ClearAll`, assertions | overlapping tests on one package variable; handlers called with the mutex held |
| serverless adapters (`serverless`) | handlers | SQS batches, HTTP push (Lambda, Cloudflare, Vercel), direct calls (not modelled) | partial batch failure, second deliveries, panics |
| client (`client.go`, `queue.go`, `schema.go`) | none | enqueue, batch, workflows, queues, schemas | a batch is validated as a whole |
| workflows (`workflow.go`) | none | `Validate`, the wire steps of chain, group and batch | that the dependencies sent mean what the definition says |
| middleware chain (`middleware.go`) | ordered list | add, prepend, insert, remove, `then` | order of wrapping, insertion beside a missing name |
| recorder (`recorder`) | list of trace entries under a mutex | `RecordCall`, `RecordError`, `Reset`; `AttachSourceMap` (called by no code of the repository, not modelled) | executions that record and a reader that resets, at the same time; panics |
| logging, metrics, recovery (`middleware/...`, `otel`) | counters of the embedding program | start and end of an execution | panics that pass by |
| agent, ml, attest, grpc, encryption | little or none | | single calls, encodings and cryptography |

How they interact. The client, the worker, a `DurableContext` and a subscription call
the server through the transport; the worker calls handlers, which may send
heartbeats, ask a `DurableContext`, or call `Cancel` on a subscription they serve; a
durable handler runs inside `processJob`, and its error becomes the worker's nack. The
worker wraps its handlers in the middleware chain, whose members share a registry, a
checkpoint store and a recorder between executions. A federated client holds one client
per region, and its calls choose a region from what the health monitor and other calls
have stored. A workflow is created by the client, and its steps come back as deliveries
to workers or serverless handlers. The fake serves a real client from a store in the
process. The worker's goroutines share the atomics listed above and nothing else.

What makes each part correct:

- worker: the slot accounting is exact and never blocks; a delivered job is reported
  or still in hand; the server's verdict on a job comes from its handler; shutdown ends;
- transport: bounded repetition, clamped pauses, every call returns;
- durable execution: replay returns what was recorded and executes nothing twice;
- subscription: no event skipped, none with an ID handled twice, Cancel returns;
- federation: a region is not left open and healthy, and comes back if it answers;
- routing: no call is refused, and no better region passed over, for want of a region
  that was healthy all the time; turns and weights are kept;
- middleware: the registry follows the executions, no step of a job is skipped, every
  start has its end, the trace tells what the handlers returned;
- testing fake: the two lists of a store agree, assertions are stable, the latest fake is
  active, what was posted is recorded;
- workflows and serverless handlers: a step begins when its definition allows it, a
  completed step was handled, a batch report names exactly the failed records.

## Modules

| module | models | used by |
|---|---|---|
| `Worker` | `worker.go`, `isHandlerRetryable` | `MCWorker`, `WorkerProofs` |
| `Federation` | `federation/client.go`: health checks, circuit breaker, enqueue | `MCFederation`, `ClientProofs` |
| `Routing` | `federation/router.go` and how calls of `federation/client.go` find a region | `MCRouting`, `RoutingProofs` |
| `Durable` | `durable.go` | `MCDurable`, `DurableProofs` |
| `Transport` | `transport.go`, `rate_limiter.go` | `MCTransport`, `ClientProofs` |
| `Subscribe` | `subscribe.go` | run directly, `SubscribeProofs` |
| `Middleware` | `middleware.go`, `middleware/` (recovery, logging, metrics, durable), `otel` metrics, `recorder/` | `MCMiddleware`, `MiddlewareProofs` |
| `FakeStore` | `ojstesting/`, `Enqueue` and `EnqueueBatch` of `client.go` | `MCFakeStore`, `FakeStoreProofs` |
| `WorkflowSpec` | what the comments of `workflow.go` promise (abstract) | `Push` |
| `Workflow` | `Validate` and the wire steps of `workflow.go` | `Push` |
| `Serverless` | `serverless/` | `Push` |
| `Push` | composition: a workflow from its definition to its handlers | `MCPush`, `PushProofs` |

The `MC` modules name model values, programs and symmetry sets for the `.cfg` files. Two
of them also compare a closed form that the proofs use with the loop it stands for:
`ThenIsWrapping` in `MCMiddleware`, for every chain of up to four middleware, and
`TotalIsSum` in `MCRouting`, for every set of regions. An operator marked "mutant" is a plausible wrong version of the definition
that follows it; no specification uses it.

### Worker

`start`, `fetcher`, `beater`, `task[d]` and `beat[s]` are the program counters of
`Start`, `fetchLoop`, `heartbeatLoop`, of each job's goroutine and of each heartbeat
call. `sem`, `activeJobs`, `activeCount`, `state`, `handlers` and `stopped` are the
fields of the same names. Every access to one of them is a step of its own, so the
steps of the dispatch loop (send on `sem`, `activeJobs.Store`, `activeCount.Add`, `go`)
and of the deferred release (`<-sem`, `Delete`, `Add(-1)`) interleave with everything
else. `handleServerState`'s load is in `HeartbeatAnswered`, its store in
`HandleServerState`.

A delivery is one job of one fetch response, and also the identity of its goroutine:
a job whose lease timed out may have two. `srv`, `late` and `lateFetch` are the
server and the network. A request whose caller gave up stays in `late` (or
`lateFetch`) and may be performed at any later time or never; a lost answer is a
request performed late. A report about a job that is not leased is refused, which the
worker treats as any error. A report names the job only, so a late one settles the
job's current lease.

A request sent with a cancelled context fails before it leaves; one under way when
the context is cancelled may end unanswered (`ReportUnanswered`, `FetchUnanswered`).
Durations are left out: a pause is a state it can be left at any time. A panic of
a handler is the result `error`: `processJob` recovers it and nacks it as any error. A
heartbeat's contents are data.

### Federation

Each caller and each region's checker has a program counter over the single atomic
operations of `recordFailure` (`lastFailure`, `failures`, `cbState`, `healthy`) and of
the end of `checkRegion` (`healthy`, `failures`, `cbState`). Which healthy region a
strategy picks is left open here (`Routing` has it). `cooled` says that the cooldown has
passed since `lastFailure`. A check round starts only when the previous round is over, as
`checkAllRegions` waits for its goroutines. `up` is the region's server.

### Durable

`Program` is the handler's sequence of operations, the same in every attempt;
`Survives` the positions of side effects whose error the handler does not return.
`entries`, `cursor` and `replaying` are the fields of `DurableContext`. A checkpoint
may be taken between any two operations, and the process may crash there. `late` holds
PUTs and DELETEs whose caller gave up, and `Begin` may fail to load the checkpoint.
`agreed`, `survived` and `lost` are history variables: the results the stored checkpoint
covers, whether the handler has ever gone on after a failed side effect, and whether a
request for the checkpoint has failed. One specification has all of these faults, and
each property says in its premise which of them it excludes. The values of clocks,
random sources and side effects survive their JSON form; the type and key tests on replay
are modelled.

### Transport

One call of `transport.do`, at `phase` of its loop; the initial predicate, the next-state
relation and the specification carry its name (`DoInit`, `DoNext`, `DoSpec`), because
`ClientProofs` extends this module and `Federation` together. `wire` and `applied` are what is under way and how often
the server has performed the request: a gateway error (502, 503, 504) may come for a
request that was performed or was not. The jitter factor in [0.5, 1.0) is a choice of
the whole numbers from half the pause on.

### Subscribe

The server's stream is a sequence of events, each an optional id line, a data line and
the empty line that dispatches it. `readId`, `eventId` and `line` are the locals of
`readSSEStream`, `lastId` and `backoff` those of the reconnect loop. `loop` tells
`SubscribeWithReconnect` from `Subscribe`. A connection may end before any line.
`Cancel` is called by the application or by the handler itself. `times` counts calls of
the handler and saturates at 2.

### Routing

A caller's program counter goes through `healthyRegions` (one step per region: each loads
an atomic), the choice of a strategy, the loads of `lowestLatencyRegion`, the health call
of `FetchFromAnyRegion` and the loop of `GetJob`. `Preferred` lists the regions a call
tries by name, `Fallback` what it does when none of them was found; the seven strategies
are combinations of these. Region IDs are numbers, which is their order as strings, with 0
for the empty string; the order of Go's map ranges and the number drawn by the overflow
router are choices. `totalWeight` is the number of tickets in a draw in which every region
holds as many as it weighs. `SetHealth` and `SetLatency` stand for everything `Federation` does to
a region. The history variables `steady`, `ever`, `moved` and `erred` say what happened to
the regions since the call began; `turns` counts what round-robin has given out.

### Middleware

`Use` edits the chain, `Then` makes of it the sequence of entries and exits around the
handler, and an execution walks along it, on its way out with a result or a panic. The
handler is the one of the package comment of `middleware/durable`: restore, then process
and save step by step, then clear. `registry`, `ckpt` and `entries` are shared. `Save`
may store nothing (too large, does not encode) and `Restore` may find nothing usable.
After the handler the recorder appends an entry, unless the handler panicked. `met`
remembers which executions overlapped, `processed` what was done, `cleared` whose entries
`Reset` has taken away.

### FakeStore

A store carries the name of the test whose `Fake` made it, so `activeStore` is a name.
`holder` is the mutex: `RecordEnqueue`, `ClearAll` and `Drain` wait for it, and `Drain`
keeps it while handlers run. A batch is validated as a whole by the client and recorded
job by job by the fake server. `requests` are the calls that have reached a fake server:
each is served by a goroutine of its own, and goes on when its caller has given up after
the client's 30 s (`PostReturns`). So a handler that enqueues from inside `Drain` into
the same store gets an error and goes on, and its job is recorded after `Drain`. A handler
may also return, fail or panic (the test recovers). The assertions are predicates of a
store, `MatchCount` included; that they read whichever store is active is `mustStore`,
which `LatestFakeIsActive` is about.

### Workflow, Serverless, Push, WorkflowSpec

`Workflow` has `Validate` and the steps with `depends_on` that `CreateWorkflow` sends;
`Serverless` the invocations: records one by one, handlers by type, the report. `Push`
composes both with a server that is modelled from what the code sends and answers
(external): it releases steps when their dependencies have ended, delivers them singly or
in batches, again when a report says so, is missing, or is late. An invocation the server
has given up on runs on beside its successor.

`WorkflowSpec` is the abstract specification: jobs of a definition are pending, active or
ended, and may begin when the comments on `Chain`, `Group` and `BatchCallbacks` say so.
`Push` implements it under the refinement mapping `Abs` (`INSTANCE WorkflowSpec WITH
status <- ...`): a job is active from the first call of its handler until the server has
it ended. The run `push` checks `ImplementsWorkflow == Abs!Spec` as a property, and
`PushImplementsWorkflow` proves it for every set of definitions.

## Runs

Each passing run lists what it checks in `PROJECT.json`; no run checks for deadlock,
because in each system everything may rightly come to a stop (Start has returned, all
deliveries are used, the call has returned, the subscription has ended). That
nothing stops too early is what the liveness properties say.

| run | checks |
|---|---|
| `worker_slots` | 2 jobs, 3 deliveries, 2 slots: types, `DispatchNeverBlocks`, `ActiveCountExact`, `LeasedJobIsInHand` |
| `worker_faults` | 1 job delivered twice, lost and late messages, lease timeouts: `ActiveJobsHaveOwner`, `OutcomeHasCause` |
| `worker_liveness` | 1 delivery, a report tried up to 3 times as in the code, any of its requests lost or late: `ShutdownCompletes`, `SlotIsReleased` under `FairSpec` |
| `federation` | 1 region, 2 callers and the checker: `OpenIsNeverHealthyAtRest`, `UpRegionRecovers` |
| `durable` | 4 operations, the first of which may fail and be survived, 3 attempts, lost, late and unloadable checkpoints: types, `ReplayIsFaithful`, `LogIsWhatHandlerSaw`, `MismatchHasCause`, `NothingIsRedone`, `CheckpointOnlyGrows` |
| `durable_mismatch` | the same instance; finds `MismatchMeansNewCode` violated, see Findings |
| `transport` | 3 retries: `PauseIsClamped`, `PerformedAtMost`, `CallReturns` |
| `subscribe` | 3 events, the second without ID: types, `NoEventIsSkipped`, `IdsAreHandledOnce`, `EachEventIsHandled`, `CancelEnds` |
| `routing` | 3 regions, the seven strategies, two callers where they meet: `RefusedOnlyInNeed`, `NoBetterRegionIsPassedOver`, `RoundRobinTakesTurns`, `OverflowFollowsWeights` |
| `middleware` | every chain of three kinds of middleware, 2 executions of 1 or 2 jobs: types, `RegistryFollowsExecution`, `NoStepIsSkipped`, `EveryStartIsReported`, `TraceTellsResults` |
| `fake_store` | 2 overlapping tests, 2 goroutines: `PerformedIsWhatFinished`, `LatestFakeIsActive`, `AssertionsAreStable`, `PostedIsRecorded` under `FairSpec` |
| `push` | chains, groups and batches, 2 invocations at a time: `CompletedWasHandled`, `BatchReportIsExact`, and the refinement `ImplementsWorkflow` |

### Findings

`durable.go:153` says of the error of `SideEffect` for another key: "A mismatch means the
code changed between the checkpoint save and replay". The run `durable_mismatch` has a
handler that never changes and meets the error: its first side effect fails, which leaves
no entry (durable.go:168-170), it goes on with the second and saves a checkpoint, and the
process dies. On replay the first side effect finds the entry of the second. What holds
instead is `MismatchHasCause`, checked by `durable` and proved: without a changed handler
the error needs one that went on after a failed side effect; lost, late and unloaded
checkpoints do not suffice.

### Observations that no run is about

Met while translating the code, described here for its maintainers. Those about
the worker:

- `handleServerState` loads and stores in two steps (worker.go:533, 544): a heartbeat
  answered before the cancellation and stored after it takes the worker from terminate
  back to quiet;
- jobs of a fetch are counted one by one in the dispatch loop (worker.go:291), so shutdown
  can read 0 between the response and the first count and report a completed drain
  (worker.go:225) while jobs are launched;
- acks use the context whose cancellation began the shutdown (worker.go:416), so a job
  that succeeds within the grace period is not acked;
- a terminate directive of the server stops fetching, but Start waits for its context
  only (worker.go:210);
- with two deliveries of one job, the first goroutine's `activeJobs.Delete` removes the
  entry of the second (worker.go:328); `ActiveJobsHaveOwner` says the converse, that no
  entry is left behind;
- `fetchBackoff` shifts the poll interval by up to 10 and caps the product (worker.go:348):
  with an interval of months the product overflows before it is capped.

Durable execution:

- a failed side effect leaves no entry (durable.go:166); if the handler goes on, a retry
  meets later entries at the wrong position, drops out of replay and gets new values for
  operations a checkpoint recorded;
- a checkpoint that cannot be loaded is treated as none (durable.go:64), so work is
  done again, and a PUT that arrives late (durable.go:218) may replace a longer log by a
  shorter one; hence `NothingIsRedone`, `ReplayIsFaithful` and `CheckpointOnlyGrows` have
  the premise that no request has failed (`~lost`);
- `NothingIsRedone` counts what succeeded: a side effect that is executed again and fails
  leaves no entry and is not counted;
- that the call after the survivable one is told apart by its key is a choice of the
  program in `MCDurable`: a clock read there would be given the wrong entry or a new value;
- a side effect that asks its own context waits for itself (durable.go:168);
- the handler of the durable middleware's package comment restores the index of the last
  step saved and begins with it, so that step is executed again.

Transport and subscription:

- jitter makes the first pause shorter than `MinBackoff` (rate_limiter.go:60), and a
  Retry-After header is lost when the error body is not JSON (transport.go:208);
- a client given without a timeout (transport.go:60) may wait for an answer for ever,
  which is outside the fairness assumed below, here and for the fake;
- a handler that calls `Cancel` on its own subscription waits for itself (subscribe.go:104),
  and `CancelEnds` exempts it;
- the reconnect loop resets its backoff after every accepted connection, also one that
  brought no event (subscribe.go:161 says otherwise).

Federation and routing:

- `healthyRegions` tests `healthy`, not the breaker its comment names; the two may
  differ (region unhealthy, breaker closed) until the next probe;
- a failed probe reopens the breaker only if the counter is still at the threshold, and a
  success of Enqueue never resets the counter, so the failures that open it need not be
  consecutive (federation/client.go:109, 248, 335);
- the strategy named "geo-pin" has no region unless the router is given directly, and
  refuses every call;
- a region that was never probed has latency 0 and is preferred to all others;
- `FetchFromAnyRegion` may return to the local region whose health call just failed;
- no code reads `RoutingPolicy.FallbackBehavior`, of which federation/types.go:105-108 says
  that "error" returns an error at once, nor the failover order `Priority` of types.go:79:
  every policy falls back as "next-healthy" does. `RefusedOnlyInNeed` is stated for
  that value, which is the documented default; it says nothing of policies with "error".

Client, workflows, fake, middleware:

- the jobs of a group or batch lose their options on the wire, those of a chain step are
  kept only with a queue other than the default or a timeout; the types of a batch's jobs
  are not validated (workflow.go);
- nothing on the wire states when a batch's callbacks are due but the names of their steps
  (workflow.go:243-266); that the server reads them is an assumption of `Push`;
- an abandoned invocation may call the handler of a step after the next step began, which
  `WorkflowSpec` does not see: "one after another" is about the first call of each;
- a panic inside `HandleSQS` ends the invocation without a report, so the whole batch comes
  again, while serverless/README.md:193 says "not the entire batch";
- the fake records a batch job by job, so another goroutine may see a part of it;
- `Fake` "restores state after the test" (testing.go:86-87), but the cleanup of a nested
  `Fake` leaves no store active: the outer test's store does not come back;
- a handler that enqueues inside `Drain` into the store being drained (testing.go:303) waits
  out the client's timeout, is told that the call failed, and the job is recorded all the
  same; one that calls the store directly waits for itself for good (not modelled);
- with the order of the example, logging, recovery, metrics, a panic skips the end report
  of metrics; `EveryStartIsReported` states the order that avoids it;
- a panic leaves no trace entry, although recorder/middleware.go:9-11 speaks of every
  invocation;
- `AttachSourceMap` takes the last entry, whoever made it (recorder/recorder.go:110); no
  code of the repository calls it, so no module has it;
- the encryption middleware reads the current key's ID twice (encryption.go:211, 230), and
  passes the ciphertext on when the plaintext does not decode (encryption.go:146).

## Bounds, and why they are enough

- `Deliveries` (3, or 2): slots are taken, released and taken again with two slots, and
  a job can be delivered twice. A fetch that would return more deliveries than are left
  returns fewer, which the server may do anyway.
- `AckNackMaxRetries`: 3, the code's value, in `worker_liveness`, so that the loop of
  retries is entered, repeated and left by its bound. There is one delivery and one slot:
  a goroutine's report does not read what the others do, and a slot is only seen taken or
  free. In the other runs 1, because of their size; what they check is proved for every
  value.
- `Concurrency` 1 or 2: 2 is the smallest with a partly full semaphore.
- `Threshold` 2, `MaxFailures` 4 (a bound in the guard of the failing call): the counter
  goes through, and past, the threshold, and two callers may both pass it.
- `MaxAttempts` 3, `MaxLate` 1: a checkpoint of one attempt, extended by a second,
  replayed by a third, and one late request at a time. Two values are enough to tell a
  replayed result from a new one.
- `MaxRetries` 3 with pauses 2, 4, 6: the second doubling is clamped; Retry-After values
  below, between and above the clamps.
- `LastEvent` 3, `HasId` {1, 3}: an ID, an event without one behind it, and an ID after
  that; backoff 1, 2, 3 passes its cap.
- `Routing`: 3 regions are the fewest in which a region is neither the local or favourite
  one nor the only other; `MaxChanges` 2 lets a region go down and another one come up, or
  a latency change, in the middle of a scan; weights 2, default and 3; `MaxCalls` 5 is a
  full cycle of three and a change of the healthy set. Callers share nothing but the
  counter, so two of them are run where it is used, and calls that do not depend on the
  strategy are made under one of them.
- `Middleware`: 2 executions are enough for one delivery to meet another; each kind of
  middleware occurs at most once in a chain, in every order (the code allows repetitions,
  the operations of the model do not make them); two steps (`LastStep` 1) have
  a checkpoint between them.
- `FakeStore`: two tests in every overlap, two goroutines, `MaxJobs` 2 with single
  enqueues, a batch of two, and one that is refused; counts 1 and 2 for `MatchCount`.
- `Push`: chains of three, a group, batches with each pair of callbacks that differ,
  undecodable and untyped jobs; `MaxBatch` 2, `MaxTries` 2: a step fails, is delivered
  again, and an abandoned invocation overlaps with its successor.
- Symmetry is used for deliveries, invocations, executions and jobs, in runs without
  liveness properties.

## Fairness, and why the code justifies it

- Worker: goroutines that can run do, the poll, grace and backoff timers fire, and each
  network call ends because the HTTP client has a timeout. Handlers are not assumed to
  return, nor is the caller to cancel: `ShutdownCompletes` holds although handlers
  hang, and `SlotIsReleased` begins when the handler has returned.
- Federation: actors continue, the health-check ticker fires, the cooldown passes, a
  probe ends. `UpRegionRecovers` assumes that the region stays up and checks go on.
- Transport: a request ends by its answer or the client's timeout, the timer fires.
- Subscribe: the timer fires, a call on a cancelled context ends, handlers return
  (unless they wait for themselves). Strong fairness of connecting and of each line: a
  network that is tried again and again lets them through some time. Without it no
  delivery can be promised by any client.
- FakeStore: goroutines that can run do, handlers end, and a call of the client is answered
  or times out (weak fairness of `PostReturns`). Strong fairness of `RecordEnqueue`, which
  takes the mutex, because `sync.Mutex` in its starvation mode hands itself to the longest
  waiter.

## Proofs

Each theorem holds for every value of the constants allowed by the module's named
assumption. All are proved by an inductive invariant: the property alone says too little
about intermediate states. Each module also proves its type invariant (`TypeCorrectness`,
`FederationTypes`, `DurableTypes`, `CallTypes`, `SubscriptionTypes`, `RoutingTypes`,
`PushTypes`, `FakeStoreTypes`, `MiddlewareTypes`), whose useful part is bounds: slots,
counters, pauses, positions in a batch, indices into the sorted regions, steps of a handler.

- `WorkerProofs`. `IInv` conjoins `TypeOK`, `StartInv`, `SlotInv`, `TaskInv`, `LateInv`
  and the properties. `DispatchNeverBlocks` needs `SlotInv`: `sem` is the number of
  deliveries between acquire and release, `activeCount` that between launch and
  decrement, and the jobs of a fetch fit into what was free when it was sized, because
  only the fetch loop raises either. `OutcomeHasCause` needs `LateInv`: each report
  under way was caused by an outcome. `LeasedJobIsInHand` needs `HandInv`, which follows
  each lease: while there are no faults and nobody has cancelled, no fetch is answered
  late, and a leased job is in the batch that was fetched or has a goroutine that has not
  settled it; a goroutine waits to repeat a report only for a lease that is no longer its
  own, and one that leaves its job has settled it. Results: `TypeCorrectness`,
  `CountIsExact`, `DispatchIsWaitFree`, `ActiveJobsOwned`, `OutcomesCaused`,
  `LeasedJobsAreInHand`.
- `ClientProofs`, about `Federation`. `OpenIsNeverHealthyAtRest` speaks of resting actors, so the
  invariant says who still has a store to make if a region is open and healthy.
  Result: `OpenRegionsAreLeftAlone`, for any number of callers and regions.
- `DurableProofs`. `Fits` and `Aligned` say that the log and each stored or late
  checkpoint agree with the program position by position. This holds until the handler
  first goes on after a failed side effect (`LogInv`), whatever happens to checkpoints, and
  gives `LogIsTold` and `MismatchIsCaused` without a hypothesis. `CoverInv` adds, while
  every request has been answered, that the log extends what the checkpoint covers; it
  needs handlers that return the errors of side effects, so `Survives = {}` is an explicit
  hypothesis of `FaithfulReplay`, `WorkIsNotRepeated` and the action property
  `CheckpointGrows` (the run `durable` goes further: a survived failure followed by a side
  effect with another key is told apart by the key test).
- `ClientProofs`, about `Transport`. The requests performed or under way are bounded by the attempt
  (`CountInv`, and `OnceInv` without gateway retries). Results: `BoundedRepetition`,
  `PausesAreClamped`.
- `SubscribeProofs`. `CurrentInv`: the ID to resume from is that of the last event handled
  with one. `StreamInv`: from that event to the stream's position everything was
  handled. `LineInv`: the ID read belongs to the event read. Results:
  `SubscriptionTypes`, `NothingIsSkipped`, `IdsOnce`.

- `RoutingProofs`. `IInv` ties what a call has loaded to what was true while it ran:
  `FoundInv` for a scan (each region loaded as healthy was so at some moment of the call,
  each one passed over was not so all the time), `SearchInv` for the loop of `GetJob`,
  `LoadInv` for the latencies, `TurnInv` for the turns given out per set of regions. An
  entry of the sorted regions is the region with that many smaller ones; that there is one
  for every index below the length (`SortedExists`) is shown for the
  least index that might have none. The weighted choice needs no induction either: one region
  more adds its weight to the total (`OneMore`) and fewer regions weigh no more
  (`FewerWeighLess`), so the numbers for which the loop returns a region are an interval as
  long as its weight (`ShareIsWeight`). Results: `NobodyIsRefusedWithoutNeed`,
  `NothingBetterIsPassedOver`, `RegionsTakeTurns`, `OverflowIsProportional`, for any number
  of regions and callers.
- `PushProofs`. `InvocationInv`: up to the record an invocation is at, its failures are
  exactly the records whose handler did not succeed, and those that succeeded were handled.
  `StepInv`: a leased step belongs to an invocation that has it among its records, a
  released one has its dependencies behind it, a completed one was handled. Results:
  `CompletedStepsWereHandled`, `BatchReportsAreExact`.
  `PushImplementsWorkflow` is the refinement. `StepOf` maps the jobs of a definition to the
  steps on the wire one to one (`StepOfIsBijection`), and a step the server releases stands
  for a job that may begin (`ReadyMayBegin`: the heart of it, that `depends_on` says what
  the definition means). Then the first call of a handler is `Begin`, a settled delivery
  is `End` of the jobs it ended, cancelling is `Cancel`, and everything else, second
  deliveries and calls of handlers of an ended job included, is a stutter.

- `FakeStoreProofs`. `CallInv`: a goroutine between the beginning and the end of `Drain`
  holds the mutex of the store it drains, also while the handler it called enqueues, and is
  at a job of that store while the handler runs. So nobody else moves the jobs under it
  (`FakeStoreInvariant`), and what is copied to `performed` is a job. `TestInv` is about
  `activeStore`: the tests under way have called `Fake`, and the last one's store is active. `RequestInv`: a
  request under way has a client that is bound to a store. `StoreInv` relates the
  two lists of a store: both are in the order of IDs, the performed jobs are the finished
  ones of the queue, and nothing was performed that came after a job still to be drained.
  It is inductive only together with `PassedInv`: `Drain` leaves no available job behind its
  index, also when its own handlers enqueue. The assertions are stable because every step but
  `ClearAll` keeps jobs in their places and performed jobs as they are (`Kept`). Results:
  `LatestFakeStaysActive`, `DrainPerformsOnce` and the action property `AssertionsStayTrue`.
- `MiddlewareProofs`. The operations on the chain never put a kind into it twice
  (`EditsKeep`), so an execution is inside a middleware exactly between two places of the
  program (`InsideIsBetween`), and a step takes it into or out of one only (`InsideMoves`).
  On top of `PlaceInv` (nothing runs before the worker serves) each property has its own
  strengthening. `WorkInv`: a checkpoint covers processed steps only, and a handler's loop
  is never ahead of them. `MetInv`: who runs at the same time has met; with it the registry
  entry that a leaving execution deletes is not another's. `TraceInv`: who is in the trace
  has left its handler, so no result changes behind its entry. `PanicInv`: a panic has not got
  past Recovery, so an observer outside it reports an end (`ReportInv`). Results:
  `NothingIsLeftUndone`, `TraceIsTrue`, `RegistryIsExact`, `StartsAreReported`, for every
  chain that can be built and any number of executions, jobs and steps.

Every safety invariant and action property that a run checks is a theorem. Only
model-checked are the liveness properties (`ShutdownCompletes`, `SlotIsReleased`,
`UpRegionRecovers`, `CallReturns`, `EachEventIsHandled`, `CancelEnds`, `PostedIsRecorded`),
which rest on fairness and are out of the prover's reach, and the two comparisons of closed
forms with loops (`ThenIsWrapping`, `TotalIsSum`), which would take an induction over the
chain and over the regions.

## Not modelled

- `agent`, `ml`, `ml.go`: each operation is one request with an encoded body; the
  transport below it is modelled, and there is no state besides it.
- `attest`, `middleware/encryption`: what matters in them is cryptography and encoding.
- `transport/grpc`: a wrapper of generated code, one call per operation.
- tracing middleware: spans and attributes of another library.
- options, job types, errors: data and their encodings, apart from
  `isHandlerRetryable`, which `Worker` has, and the validation that `FakeStore` has.
- encodings, header contents and the wording of logs everywhere; the examples.

## Plan

Done: `Worker`, `Federation`, `Durable`, `Transport`, `Subscribe`, `Routing`,
`Middleware`, `FakeStore`, `Workflow`, `Serverless` and their composition `Push`, the
abstract `WorkflowSpec` and its refinement, and the proofs above.

Left, in this order:

1. an abstract job lifecycle (available, leased, settled by a cause) that `Worker`
   implements;
2. `Worker` with `Transport` below it, for reports repeated at both levels;
3. the rotation of keys in the encryption middleware.
