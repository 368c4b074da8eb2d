---------------------------- MODULE WorkerProofs ----------------------------
(***************************************************************************)
(* Proofs about Worker, for every number of jobs, deliveries, slots and    *)
(* retries, with any faults of the network and any directives.             *)
(***************************************************************************)
EXTENDS Worker, FiniteSetTheorems, TLAPS

\* A goroutine, or the dispatch loop on its behalf, holds a token of sem.
Holding == {"admitted", "stored", "release"} \cup Working

\* Deliveries that take part of the concurrency: queued, or counted.
Claimed == Queued \cup Working \cup Releasing

\* How the tokens, the count and the size of a fetch fit together.
SlotInv ==
    /\ ActiveCountExact
    /\ sem = Cardinality(InState(Holding))
    /\ Cardinality(InState(Claimed)) <= Concurrency
    /\ fetcher # "dispatch" => InState(Queued) = {}
    /\ fetcher = "count" => activeCount < Concurrency
    /\ fetcher = "fetching" => count + activeCount <= Concurrency

\* What a delivery's place says of its job, its outcome and its tries.
TaskInv ==
    \A d \in Deliveries :
        /\ task[d] # "unused" => job[d] \in Jobs
        /\ task[d] \in {"unused", "lookup", "handler"} \cup Queued => outcome[d] = "none"
        /\ task[d] \in {"report", "posting", "backoff"} => outcome[d] # "none"
        /\ task[d] = "report" => left[d] > 0

\* A goroutine that processed j ended with one of the outcomes O.
Cause(j, O) == \E d \in Deliveries : job[d] = j /\ outcome[d] \in O

\* A report under way has a cause, as the one it would give the job's outcome.
LateInv ==
    \A m \in late :
        /\ m.kind = "ack" => Cause(m.job, {"nil"})
        /\ m.kind = "nackFinal" => Cause(m.job, {"nonRetryable", "unhandled"})

\* The fetch loop is launched by Start.
StartInv == start = "idle" => fetcher = "off"

IInv == TypeOK /\ StartInv /\ SlotInv /\ TaskInv /\ LateInv /\ OutcomeHasCause
        /\ ActiveJobsHaveOwner

-----------------------------------------------------------------------------
(* What a change of task does to the sets of deliveries.                     *)

\* Every set of deliveries is finite, so its cardinality is a number.
LEMMA InStateFinite ==
    ASSUME NEW S
    PROVE  /\ IsFiniteSet(InState(S)) /\ Cardinality(InState(S)) \in Nat
           /\ IsFiniteSet(InState(S)') /\ Cardinality(InState(S)') \in Nat
<1>1. InState(S) \in SUBSET Deliveries /\ InState(S)' \in SUBSET Deliveries
  BY DEF InState
<1> QED
  BY <1>1, FS_Subset, FS_CardinalityType, WorkerAssumption

\* A delivery that moves from one place to another enters and leaves the sets that
\* tell the two places apart, and no other.
LEMMA Move ==
    ASSUME NEW d \in Deliveries, NEW pc,
           task \in [Deliveries -> TaskState],
           task' = [task EXCEPT ![d] = pc],
           NEW S
    PROVE  /\ (task[d] \in S <=> pc \in S) => InState(S)' = InState(S)
           /\ task[d] \notin S /\ pc \in S =>
                 Cardinality(InState(S)') = Cardinality(InState(S)) + 1
           /\ task[d] \in S /\ pc \notin S =>
                 Cardinality(InState(S)') = Cardinality(InState(S)) - 1
<1>1. ASSUME task[d] \in S <=> pc \in S
      PROVE  InState(S)' = InState(S)
  BY <1>1 DEF InState
<1>2. ASSUME task[d] \notin S, pc \in S
      PROVE  Cardinality(InState(S)') = Cardinality(InState(S)) + 1
  <2>1. InState(S)' = InState(S) \cup {d} /\ d \notin InState(S)
    BY <1>2 DEF InState
  <2> QED
    BY <2>1, InStateFinite, FS_AddElement
<1>3. ASSUME task[d] \in S, pc \notin S
      PROVE  Cardinality(InState(S)') = Cardinality(InState(S)) - 1
  <2>1. InState(S)' = InState(S) \ {d} /\ d \in InState(S)
    BY <1>3 DEF InState
  <2> QED
    BY <2>1, InStateFinite, FS_RemoveElement
<1> QED
  BY <1>1, <1>2, <1>3

\* A larger set of places holds at least as many deliveries.
LEMMA InStateMonotone ==
    ASSUME NEW S, NEW T, S \subseteq T
    PROVE  /\ Cardinality(InState(S)) <= Cardinality(InState(T))
           /\ Cardinality(InState(S)') <= Cardinality(InState(T)')
<1>1. InState(S) \in SUBSET InState(T) /\ InState(S)' \in SUBSET InState(T)'
  BY DEF InState
<1> QED
  BY <1>1, InStateFinite, FS_Subset

\* The counters stay in their range because nobody claims more than Concurrency.
LEMMA SlotBounds ==
    /\ SlotInv => sem \in 0..Concurrency /\ activeCount \in 0..Concurrency
    /\ SlotInv' => sem' \in 0..Concurrency /\ activeCount' \in 0..Concurrency
<1>1. Holding \subseteq Claimed /\ Working \cup Releasing \subseteq Claimed
  BY DEF Holding, Claimed, Working, Releasing, Queued
<1>2. Cardinality(InState(Holding)) <= Cardinality(InState(Claimed))
      /\ Cardinality(InState(Holding)') <= Cardinality(InState(Claimed)')
  BY <1>1, InStateMonotone
<1>3. Cardinality(InState(Working \cup Releasing)) <= Cardinality(InState(Claimed))
      /\ Cardinality(InState(Working \cup Releasing)') <= Cardinality(InState(Claimed)')
  BY <1>1, InStateMonotone
<1>4. /\ Cardinality(InState(Holding)) \in Nat /\ Cardinality(InState(Holding)') \in Nat
      /\ Cardinality(InState(Claimed)) \in Nat /\ Cardinality(InState(Claimed)') \in Nat
      /\ Cardinality(InState(Working \cup Releasing)) \in Nat
      /\ Cardinality(InState(Working \cup Releasing)') \in Nat
  BY InStateFinite
<1>5. Concurrency \in Nat
  BY WorkerAssumption
<1>6. SlotInv => sem \in 0..Concurrency /\ activeCount \in 0..Concurrency
  BY <1>2, <1>3, <1>4, <1>5 DEF SlotInv, ActiveCountExact
<1>7. SlotInv' => sem' \in 0..Concurrency /\ activeCount' \in 0..Concurrency
  BY <1>2, <1>3, <1>4, <1>5 DEF SlotInv, ActiveCountExact
<1> QED
  BY <1>6, <1>7

-----------------------------------------------------------------------------
(* SlotInv, action by action.                                               *)

\* A new worker holds no token and counts no goroutine (worker.go:121-130, 251).
LEMMA SlotInvInit == Init => SlotInv
<1> SUFFICES ASSUME Init PROVE SlotInv
  OBVIOUS
<1>1. ASSUME NEW S, "unused" \notin S PROVE InState(S) = {}
  BY <1>1 DEF Init, InState
<1>2. InState(Queued) = {} /\ InState(Holding) = {} /\ InState(Claimed) = {}
      /\ InState(Working \cup Releasing) = {}
  BY <1>1 DEF Queued, Holding, Claimed, Working, Releasing
<1>3. Cardinality({}) = 0
  BY FS_EmptySet
<1>4. sem = 0 /\ activeCount = 0 /\ fetcher = "off"
  BY DEF Init
<1> QED
  BY <1>2, <1>3, <1>4, WorkerAssumption DEF SlotInv, ActiveCountExact

\* Steps that leave the deliveries, the counters and the fetch loop alone.
LEMMA SlotInvFrame ==
    SlotInv /\ UNCHANGED <<task, sem, activeCount, fetcher, count>> => SlotInv'
BY DEF SlotInv, ActiveCountExact, InState

\* Steps of the fetch loop that only move it.
LEMMA SlotInvGoTo ==
    ASSUME IInv, NEW pc, GoTo(pc),
           pc \in {"top", "state", "capacity", "pause", "exited"} \/
              (pc = "count" /\ activeCount < Concurrency),
           InState(Queued) = {}
    PROVE  SlotInv'
BY DEF IInv, SlotInv, ActiveCountExact, InState, GoTo, control, slotVars, taskVars

\* Steps that move one delivery within the places that hold a token and are counted.
LEMMA SlotInvWorking ==
    ASSUME IInv, NEW d \in Deliveries, NEW pc \in Working \cup {"release"},
           task[d] \in Working \cup {"release"}, task' = [task EXCEPT ![d] = pc],
           UNCHANGED <<sem, activeCount, fetcher, count>>
    PROVE  SlotInv'
<1>1. task \in [Deliveries -> TaskState]
  BY DEF IInv, TypeOK
<1>2. /\ task[d] \in Working \cup Releasing <=> pc \in Working \cup Releasing
      /\ task[d] \in Holding <=> pc \in Holding
      /\ task[d] \in Claimed <=> pc \in Claimed
      /\ task[d] \in Queued <=> pc \in Queued
  BY DEF Working, Releasing, Holding, Claimed, Queued
<1>3. InState(Working \cup Releasing)' = InState(Working \cup Releasing)
  BY <1>1, <1>2, Move
<1>4. InState(Holding)' = InState(Holding)
  BY <1>1, <1>2, Move
<1>5. InState(Claimed)' = InState(Claimed)
  BY <1>1, <1>2, Move
<1>6. InState(Queued)' = InState(Queued)
  BY <1>1, <1>2, Move
<1> QED
  BY <1>3, <1>4, <1>5, <1>6 DEF IInv, SlotInv, ActiveCountExact

\* A fetch leases as many jobs as there is room for, so the queue fits.
LEMMA SlotInvFetchResponse ==
    ASSUME IInv, NEW S \in SUBSET Jobs, NEW ds \in [S -> Deliveries], FetchResponse(S, ds)
    PROVE  SlotInv'
<1> DEFINE New == {ds[j] : j \in S}
<1>1. /\ task \in [Deliveries -> TaskState] /\ count \in Nat /\ activeCount \in Nat
      /\ fetcher = "fetching" /\ InState(Queued) = {}
      /\ count + activeCount <= Concurrency
  BY WorkerAssumption DEF IInv, TypeOK, SlotInv, FetchResponse
<1>2. IsFiniteSet(S) /\ Cardinality(S) <= count
  BY DEF FetchResponse, Leasable
<1>3. New \subseteq InState({"unused"})
  BY DEF FetchResponse
<1>4. task' = [d \in Deliveries |-> IF d \in New THEN "fetched" ELSE task[d]]
  BY DEF FetchResponse
<1>5. IsFiniteSet(New) /\ Cardinality(New) <= Cardinality(S) /\ Cardinality(New) \in Nat
      /\ Cardinality(S) \in Nat
  <2>1. ds \in Surjection(S, New)
    BY DEF Surjection
  <2> QED
    BY <2>1, <1>2, FS_Surjection, FS_CardinalityType
<1>6. InState(Working \cup Releasing)' = InState(Working \cup Releasing)
  BY <1>1, <1>3, <1>4 DEF InState, Working, Releasing
<1>7. InState(Holding)' = InState(Holding)
  BY <1>1, <1>3, <1>4 DEF InState, Holding, Working
<1>8. InState(Claimed) = InState(Working \cup Releasing)
  BY <1>1 DEF InState, Claimed
<1>9. InState(Claimed)' = InState(Claimed) \cup New
  BY <1>1, <1>3, <1>4 DEF InState, Claimed, Queued, Working, Releasing
<1>10. Cardinality(InState(Claimed)') <= Concurrency
  <2>1. InState(Claimed) \cap New = {}
    BY <1>3 DEF InState, Claimed, Queued, Working, Releasing
  <2>2. Cardinality({}) = 0
    BY FS_EmptySet
  <2>3. Cardinality(InState(Claimed) \cup New) =
           Cardinality(InState(Claimed)) + Cardinality(New)
    BY <2>1, <2>2, <1>5, InStateFinite, FS_Union
  <2>4. activeCount = Cardinality(InState(Claimed))
    BY <1>8 DEF IInv, SlotInv, ActiveCountExact
  <2> QED
    BY <1>1, <1>2, <1>5, <1>9, <2>3, <2>4, WorkerAssumption
<1>11. /\ fetcher' = IF S = {} THEN "pause" ELSE "dispatch"
       /\ UNCHANGED <<sem, activeCount>>
  BY DEF FetchResponse, slotVars
<1>12. S = {} => InState(Queued)' = {}
  BY <1>1, <1>4 DEF InState
<1> QED
  BY <1>6, <1>7, <1>10, <1>11, <1>12 DEF IInv, SlotInv, ActiveCountExact

\* Taking a token and storing the ID move a delivery inside the queue; the launch
\* moves it from the queue to the counted goroutines.
LEMMA SlotInvDispatch ==
    ASSUME IInv, NEW d \in Deliveries,
           DispatchAcquire(d) \/ DispatchStore(d) \/ DispatchLaunch(d)
    PROVE  SlotInv'
<1>1. task \in [Deliveries -> TaskState] /\ fetcher = "dispatch" /\ fetcher' = "dispatch"
  BY DEF IInv, TypeOK, DispatchAcquire, DispatchStore, DispatchLaunch, fetchVars, control
<1> DEFINE Same(S) == InState(S)' = InState(S)
           Grows(S) == Cardinality(InState(S)') = Cardinality(InState(S)) + 1
<1> USE <1>1
<1>2. CASE DispatchAcquire(d)
  <2>1. task[d] = "fetched" /\ task' = [task EXCEPT ![d] = "admitted"]
        /\ sem' = sem + 1 /\ activeCount' = activeCount
    BY <1>2 DEF DispatchAcquire
  <2>2. /\ {"fetched", "admitted"} \cap (Working \cup Releasing) = {}
        /\ "fetched" \notin Holding /\ "admitted" \in Holding
        /\ {"fetched", "admitted"} \subseteq Claimed
    BY DEF Working, Releasing, Holding, Claimed, Queued
  <2>3. Same(Working \cup Releasing)
    BY <2>1, <2>2, Move
  <2>4. Grows(Holding)
    BY <2>1, <2>2, Move
  <2>5. Same(Claimed)
    BY <2>1, <2>2, Move
  <2> QED
    BY <2>1, <2>3, <2>4, <2>5 DEF IInv, SlotInv, ActiveCountExact
<1>3. CASE DispatchStore(d)
  <2>1. task[d] = "admitted" /\ task' = [task EXCEPT ![d] = "stored"]
        /\ sem' = sem /\ activeCount' = activeCount
    BY <1>3 DEF DispatchStore
  <2>2. /\ {"admitted", "stored"} \cap (Working \cup Releasing) = {}
        /\ {"admitted", "stored"} \subseteq Holding
        /\ {"admitted", "stored"} \subseteq Claimed
    BY DEF Working, Releasing, Holding, Claimed, Queued
  <2>3. Same(Working \cup Releasing)
    BY <2>1, <2>2, Move
  <2>4. Same(Holding)
    BY <2>1, <2>2, Move
  <2>5. Same(Claimed)
    BY <2>1, <2>2, Move
  <2> QED
    BY <2>1, <2>3, <2>4, <2>5 DEF IInv, SlotInv, ActiveCountExact
<1>4. CASE DispatchLaunch(d)
  <2>1. task[d] = "stored" /\ task' = [task EXCEPT ![d] = "lookup"]
        /\ sem' = sem /\ activeCount' = activeCount + 1
    BY <1>4 DEF DispatchLaunch
  <2>2. /\ "stored" \notin Working \cup Releasing /\ "lookup" \in Working \cup Releasing
        /\ {"stored", "lookup"} \subseteq Holding
        /\ {"stored", "lookup"} \subseteq Claimed
    BY DEF Working, Releasing, Holding, Claimed, Queued
  <2>3. Grows(Working \cup Releasing)
    BY <2>1, <2>2, Move
  <2>4. Same(Holding)
    BY <2>1, <2>2, Move
  <2>5. Same(Claimed)
    BY <2>1, <2>2, Move
  <2> QED
    BY <2>1, <2>3, <2>4, <2>5 DEF IInv, SlotInv, ActiveCountExact
<1> QED
  BY <1>2, <1>3, <1>4

\* The deferred function gives the token back before the count goes down.
LEMMA SlotInvRelease ==
    ASSUME IInv, NEW d \in Deliveries,
           ReleaseSem(d) \/ DeleteActive(d) \/ DecrementCount(d)
    PROVE  SlotInv'
<1>1. task \in [Deliveries -> TaskState] /\ fetcher' = fetcher /\ count' = count
      /\ count \in Nat /\ Concurrency \in Nat
  BY WorkerAssumption DEF IInv, TypeOK, ReleaseSem, DeleteActive, DecrementCount, fetchVars, control
<1> DEFINE Same(S) == InState(S)' = InState(S)
           Shrinks(S) == Cardinality(InState(S)') = Cardinality(InState(S)) - 1
<1> USE <1>1
<1>2. CASE ReleaseSem(d)
  <2>1. task[d] = "release" /\ task' = [task EXCEPT ![d] = "delete"]
        /\ sem' = sem - 1 /\ activeCount' = activeCount
    BY <1>2 DEF ReleaseSem, Step
  <2>2. /\ {"release", "delete"} \subseteq Working \cup Releasing
        /\ "release" \in Holding /\ "delete" \notin Holding
        /\ {"release", "delete"} \subseteq Claimed
        /\ {"release", "delete"} \cap Queued = {}
    BY DEF Working, Releasing, Holding, Claimed, Queued
  <2>3. Same(Working \cup Releasing)
    BY <2>1, <2>2, Move
  <2>4. Shrinks(Holding)
    BY <2>1, <2>2, Move
  <2>5. Same(Claimed)
    BY <2>1, <2>2, Move
  <2>6. Same(Queued)
    BY <2>1, <2>2, Move
  <2> QED
    BY <2>1, <2>3, <2>4, <2>5, <2>6 DEF IInv, SlotInv, ActiveCountExact
<1>3. CASE DeleteActive(d)
  <2>1. task[d] = "delete" /\ task' = [task EXCEPT ![d] = "decrement"]
        /\ sem' = sem /\ activeCount' = activeCount
    BY <1>3 DEF DeleteActive, Step
  <2>2. /\ {"delete", "decrement"} \subseteq Working \cup Releasing
        /\ {"delete", "decrement"} \cap Holding = {}
        /\ {"delete", "decrement"} \subseteq Claimed
        /\ {"delete", "decrement"} \cap Queued = {}
    BY DEF Working, Releasing, Holding, Claimed, Queued
  <2>3. Same(Working \cup Releasing)
    BY <2>1, <2>2, Move
  <2>4. Same(Holding)
    BY <2>1, <2>2, Move
  <2>5. Same(Claimed)
    BY <2>1, <2>2, Move
  <2>6. Same(Queued)
    BY <2>1, <2>2, Move
  <2> QED
    BY <2>1, <2>3, <2>4, <2>5, <2>6 DEF IInv, SlotInv, ActiveCountExact
<1>4. CASE DecrementCount(d)
  <2>1. task[d] = "decrement" /\ task' = [task EXCEPT ![d] = "done"]
        /\ sem' = sem /\ activeCount' = activeCount - 1
    BY <1>4 DEF DecrementCount, Step
  <2>2. /\ "decrement" \in Working \cup Releasing /\ "done" \notin Working \cup Releasing
        /\ {"decrement", "done"} \cap Holding = {}
        /\ "decrement" \in Claimed /\ "done" \notin Claimed
        /\ {"decrement", "done"} \cap Queued = {}
    BY DEF Working, Releasing, Holding, Claimed, Queued
  <2>3. Shrinks(Working \cup Releasing)
    BY <2>1, <2>2, Move
  <2>4. Same(Holding)
    BY <2>1, <2>2, Move
  <2>5. Shrinks(Claimed)
    BY <2>1, <2>2, Move
  <2>6. Same(Queued)
    BY <2>1, <2>2, Move
  <2>7. Cardinality(InState(Claimed)) \in Nat /\ activeCount \in Nat
    BY InStateFinite, WorkerAssumption DEF IInv, TypeOK
  <2> QED
    BY <2>1, <2>3, <2>4, <2>5, <2>6, <2>7 DEF IInv, SlotInv, ActiveCountExact
<1> QED
  BY <1>2, <1>3, <1>4

\* A step preserves SlotInv.
LEMMA SlotInvNext == IInv /\ [Next]_vars => SlotInv'
<1> SUFFICES ASSUME IInv, [Next]_vars PROVE SlotInv'
  OBVIOUS
<1> USE DEF startVars, fetchVars, slotVars, taskVars, beatVars, serverVars, control, work
<1>1. ASSUME NEW t \in Types, Register(t) PROVE SlotInv'
  BY <1>1, SlotInvFrame DEF IInv, Register
<1>2. CASE Start
  BY <1>2 DEF Start, IInv, StartInv, SlotInv, ActiveCountExact, InState
<1>3. CASE CancelCtx
  BY <1>3, SlotInvFrame DEF IInv, CancelCtx
<1>4. CASE ShutdownStep
  BY <1>4, SlotInvFrame DEF IInv, ShutdownStep, BeginShutdown, WaitForActiveJobs,
     GraceExpired, NackActiveJob, NackActiveJobsDone, Stop, Join
<1>5. CASE FetchLoop
  <2>1. CASE FetchTop \/ FetchState \/ FetchCapacity \/ FetchPause \/ FetchRefused
             \/ DispatchDone
    <3>1. InState(Queued) = {}
      BY <2>1 DEF IInv, SlotInv, FetchTop, FetchState, FetchCapacity, FetchPause,
         FetchRefused, DispatchDone
    <3>2. \E pc \in {"top", "state", "capacity", "pause", "exited", "count"} :
             GoTo(pc) /\ (pc = "count" => activeCount < Concurrency)
      <4>1. CASE FetchTop
        BY <4>1 DEF FetchTop
      <4>2. CASE FetchState
        BY <4>2 DEF FetchState
      <4>3. CASE FetchCapacity
        <5>1. activeCount \in Int /\ Concurrency \in Int
          BY WorkerAssumption DEF IInv, TypeOK
        <5> QED
          BY <4>3, <5>1 DEF FetchCapacity
      <4>4. CASE FetchPause
        BY <4>4 DEF FetchPause
      <4>5. CASE FetchRefused \/ DispatchDone
        BY <4>5 DEF FetchRefused, DispatchDone
      <4> QED
        BY <2>1, <4>1, <4>2, <4>3, <4>4, <4>5
    <3> QED
      BY <3>1, <3>2, SlotInvGoTo
  <2>2. CASE FetchRequest
    <3>1. Wanted = Concurrency - activeCount /\ activeCount \in Int /\ Concurrency \in Int
      BY <2>2, WorkerAssumption DEF FetchRequest, Wanted, IInv, TypeOK, SlotInv
    <3> QED
      BY <2>2, <3>1 DEF FetchRequest, IInv, SlotInv, ActiveCountExact, InState
  <2>3. ASSUME NEW S \in SUBSET Jobs, NEW ds \in [S -> Deliveries], FetchResponse(S, ds)
        PROVE  SlotInv'
    BY <2>3, SlotInvFetchResponse
  <2>4. CASE FetchUnanswered
    BY <2>4 DEF FetchUnanswered, IInv, SlotInv, ActiveCountExact, InState
  <2>5. ASSUME NEW d \in Deliveries,
               DispatchAcquire(d) \/ DispatchStore(d) \/ DispatchLaunch(d)
        PROVE  SlotInv'
    BY <2>5, SlotInvDispatch
  <2> QED
    BY <1>5, <2>1, <2>2, <2>3, <2>4, <2>5 DEF FetchLoop
<1>6. ASSUME NEW d \in Deliveries, GoroutineStep(d) \/ HandlerStep(d) PROVE SlotInv'
  <2>1. CASE ReleaseSem(d) \/ DeleteActive(d) \/ DecrementCount(d)
    BY <2>1, SlotInvRelease
  <2>2. CASE Lookup(d) \/ SendReport(d) \/ ReportAnswered(d) \/ ReportUnanswered(d)
             \/ ReportBackoff(d) \/ HandlerStep(d)
    <3>1. task[d] \in Working \cup {"release"}
      BY <2>2 DEF Lookup, SendReport, ReportAnswered, ReportUnanswered, ReportBackoff,
         HandlerStep, HandlerReturns, Working
    <3>2. UNCHANGED <<sem, activeCount, fetcher, count>>
      BY <2>2 DEF Lookup, SendReport, ReportAnswered, ReportUnanswered, ReportBackoff,
         HandlerStep, HandlerReturns
    <3>3. \E pc \in Working \cup {"release"} : task' = [task EXCEPT ![d] = pc]
      BY <2>2 DEF Lookup, SendReport, ReportAnswered, ReportUnanswered, ReportBackoff,
         HandlerStep, HandlerReturns, Working, Step
    <3> QED
      BY <3>1, <3>2, <3>3, SlotInvWorking
  <2> QED
    BY <1>6, <2>1, <2>2 DEF GoroutineStep
<1>7. ASSUME NEW s \in Beaters, SendHeartbeat(s) \/ HeartbeatStep(s) PROVE SlotInv'
  BY <1>7, SlotInvFrame DEF IInv, SendHeartbeat, HeartbeatStep, HeartbeatAnswered,
     HeartbeatNoChange, HandleServerState
<1>8. CASE HeartbeatLoopExits
  BY <1>8, SlotInvFrame DEF IInv, HeartbeatLoopExits
<1>9. CASE ServerStep
  BY <1>9, SlotInvFrame DEF IInv, ServerStep, LateReport, LateFetch, LeaseTimeout
<1>10. CASE UNCHANGED vars
  BY <1>10, SlotInvFrame DEF IInv, vars
<1> QED
  BY <1>1, <1>2, <1>3, <1>4, <1>5, <1>6, <1>7, <1>8, <1>9, <1>10 DEF Next

-----------------------------------------------------------------------------
(* The other parts.                                                         *)

\* What a report says has the outcome of its sender as its cause.
LEMMA ReportCause ==
    /\ \A o \in Outcomes \ {"none"} : ReportOf(o) \in Reports
    /\ \A o \in Outcomes \ {"none"} : ReportOf(o) = "ack" => o = "nil"
    /\ \A o \in Outcomes \ {"none"} :
          ReportOf(o) = "nackFinal" => o \in {"nonRetryable", "unhandled"}
BY DEF ReportOf, Outcomes, Returns, Reports

\* The deliveries a fetch response fills are unused, and get jobs.
LEMMA FetchedJobs ==
    ASSUME IInv, NEW S \in SUBSET Jobs, NEW ds \in [S -> Deliveries], FetchResponse(S, ds),
           NEW d \in Deliveries
    PROVE  /\ task[d] # "unused" => task'[d] = task[d] /\ job'[d] = job[d]
           /\ task'[d] # task[d] => task'[d] = "fetched" /\ job'[d] \in Jobs
           /\ task'[d] \in TaskState /\ job'[d] \in Jobs \cup {NoJob}
<1>1. /\ task \in [Deliveries -> TaskState] /\ job \in [Deliveries -> Jobs \cup {NoJob}]
      /\ ds \in [S -> InState({"unused"})]
  BY DEF IInv, TypeOK, FetchResponse
<1>2. CASE \E j \in S : ds[j] = d
  <2>1. task[d] = "unused"
    BY <1>1, <1>2 DEF InState
  <2>2. (CHOOSE j \in S : ds[j] = d) \in S
    BY <1>2
  <2>3. task'[d] = "fetched" /\ job'[d] \in S
    BY <1>2, <2>2 DEF FetchResponse
  <2> QED
    BY <2>1, <2>3 DEF TaskState, Queued
<1>3. CASE ~ \E j \in S : ds[j] = d
  BY <1>1, <1>3 DEF FetchResponse
<1> QED
  BY <1>2, <1>3

\* The types hold in a new worker (worker.go:121-130).
LEMMA TypeOKInit == Init => TypeOK
<1> SUFFICES ASSUME Init PROVE TypeOK
  OBVIOUS
<1>1. 0 \in 0..Concurrency /\ 0 \in 0..AckNackMaxRetries
  BY WorkerAssumption
<1>2. /\ task \in [Deliveries -> TaskState]
      /\ job \in [Deliveries -> Jobs \cup {NoJob}]
      /\ outcome \in [Deliveries -> Outcomes]
      /\ left \in [Deliveries -> 0..AckNackMaxRetries]
      /\ beat \in [Senders -> {"idle", "sent"} \cup WorkerState]
      /\ srv \in [Jobs -> {"available", "active", "completed", "discarded"}]
  BY <1>1 DEF Init, TaskState, Outcomes
<1> QED
  BY <1>1, <1>2 DEF Init, TypeOK, WorkerState

\* A step preserves the types; the bounds of the counters come from SlotInv.
LEMMA TypeOKNext == IInv /\ [Next]_vars => TypeOK'
<1> SUFFICES ASSUME IInv, [Next]_vars PROVE TypeOK'
  OBVIOUS
<1>0. sem' \in 0..Concurrency /\ activeCount' \in 0..Concurrency
  BY SlotInvNext, SlotBounds
<1>a. TypeOK /\ Concurrency \in Nat /\ AckNackMaxRetries \in Nat \ {0}
  BY WorkerAssumption DEF IInv
<1> USE <1>0, <1>a DEF startVars, fetchVars, slotVars, taskVars, beatVars, serverVars, control, work
<1>1. ASSUME NEW t \in Types, Register(t) PROVE TypeOK'
  BY <1>1 DEF Register, TypeOK
<1>2. CASE Start
  BY <1>2 DEF Start, TypeOK
<1>3. CASE CancelCtx
  BY <1>3 DEF CancelCtx, TypeOK
<1>4. CASE ShutdownStep
  <2>1. CASE BeginShutdown
    BY <2>1 DEF BeginShutdown, TypeOK, WorkerState
  <2>2. CASE WaitForActiveJobs \/ GraceExpired \/ NackActiveJobsDone \/ Stop \/ Join
    BY <2>2 DEF WaitForActiveJobs, GraceExpired, NackActiveJobsDone, Stop, Join, TypeOK
  <2>3. ASSUME NEW j \in Jobs, NackActiveJob(j) PROVE TypeOK'
    <3>1. Apply(j, "nackRetry") \in [Jobs -> {"available", "active", "completed", "discarded"}]
      BY DEF Apply, Settled, TypeOK
    <3>2. [job |-> j, kind |-> "nackRetry", from |-> Loop, try |-> 0] \in Messages
      BY DEF Messages, Reports, Senders
    <3> QED
      BY <2>3, <3>1, <3>2 DEF NackActiveJob, TypeOK
  <2> QED
    BY <1>4, <2>1, <2>2, <2>3 DEF ShutdownStep
<1>5. CASE FetchLoop
  <2>1. CASE FetchTop \/ FetchState \/ FetchCapacity \/ FetchPause \/ FetchRefused
             \/ DispatchDone
    BY <2>1 DEF FetchTop, FetchState, FetchCapacity, FetchPause, FetchRefused,
       DispatchDone, GoTo, TypeOK
  <2>2. CASE FetchRequest
    <3>1. Wanted \in 0..Concurrency
      BY <2>2 DEF FetchRequest, Wanted, TypeOK, IInv, SlotInv
    <3> QED
      BY <2>2, <3>1 DEF FetchRequest, TypeOK
  <2>3. ASSUME NEW S \in SUBSET Jobs, NEW ds \in [S -> Deliveries], FetchResponse(S, ds)
        PROVE  TypeOK'
    <3>1. \A d \in Deliveries : task'[d] \in TaskState /\ job'[d] \in Jobs \cup {NoJob}
      BY <2>3, FetchedJobs
    <3>2. task' \in [Deliveries -> TaskState] /\ job' \in [Deliveries -> Jobs \cup {NoJob}]
      BY <2>3, <3>1 DEF FetchResponse
    <3>3. srv' \in [Jobs -> {"available", "active", "completed", "discarded"}]
      BY <2>3 DEF FetchResponse, Lease, TypeOK
    <3> QED
      BY <2>3, <3>2, <3>3 DEF FetchResponse, TypeOK
  <2>4. CASE FetchUnanswered
    BY <2>4 DEF FetchUnanswered, TypeOK
  <2>5. ASSUME NEW d \in Deliveries,
               DispatchAcquire(d) \/ DispatchStore(d) \/ DispatchLaunch(d)
        PROVE  TypeOK'
    <3>1. task' \in [Deliveries -> TaskState] /\ activeJobs' \subseteq Jobs
      BY <2>5 DEF DispatchAcquire, DispatchStore, DispatchLaunch, TypeOK, IInv, TaskInv,
         TaskState, Queued, Working
    <3> QED
      BY <2>5, <3>1 DEF DispatchAcquire, DispatchStore, DispatchLaunch, TypeOK
  <2> QED
    BY <1>5, <2>1, <2>2, <2>3, <2>4, <2>5 DEF FetchLoop
<1>6. ASSUME NEW d \in Deliveries, GoroutineStep(d) \/ HandlerStep(d) PROVE TypeOK'
  <2>1. task' \in [Deliveries -> TaskState]
    BY <1>6 DEF GoroutineStep, HandlerStep, HandlerReturns, Lookup, SendReport,
       ReportAnswered, ReportUnanswered, ReportBackoff, ReleaseSem, DeleteActive,
       DecrementCount, Step, TypeOK, TaskState, Working, Releasing
  <2>2. CASE Lookup(d) \/ HandlerStep(d)
    BY <2>1, <2>2 DEF Lookup, HandlerStep, HandlerReturns, TypeOK, Outcomes
  <2>3. CASE SendReport(d)
    <3>1. left[d] - 1 \in 0..AckNackMaxRetries
      BY <2>3 DEF SendReport, TypeOK, IInv, TaskInv
    <3> QED
      BY <2>1, <2>3, <3>1 DEF SendReport, TypeOK
  <2>4. CASE ReportAnswered(d)
    <3>1. job[d] \in Jobs /\ ReportOf(outcome[d]) \in Reports
      BY <2>4, ReportCause DEF ReportAnswered, IInv, TaskInv, TypeOK
    <3>2. Apply(job[d], ReportOf(outcome[d])) \in
             [Jobs -> {"available", "active", "completed", "discarded"}]
      BY <3>1 DEF Apply, Settled, Reports, TypeOK
    <3> QED
      BY <2>1, <2>4, <3>2 DEF ReportAnswered, TypeOK
  <2>5. CASE ReportUnanswered(d)
    <3>1. job[d] \in Jobs /\ ReportOf(outcome[d]) \in Reports /\ left[d] \in 0..AckNackMaxRetries
      BY <2>5, ReportCause DEF ReportUnanswered, IInv, TaskInv, TypeOK
    <3>2. [job |-> job[d], kind |-> ReportOf(outcome[d]), from |-> d, try |-> left[d]]
             \in Messages
      BY <3>1 DEF Messages, Senders
    <3> QED
      BY <2>1, <2>5, <3>2 DEF ReportUnanswered, TypeOK
  <2>6. CASE ReportBackoff(d) \/ ReleaseSem(d) \/ DeleteActive(d) \/ DecrementCount(d)
    BY <2>1, <2>6 DEF ReportBackoff, ReleaseSem, DeleteActive, DecrementCount, TypeOK
  <2> QED
    BY <1>6, <2>2, <2>3, <2>4, <2>5, <2>6 DEF GoroutineStep
<1>7. ASSUME NEW s \in Beaters, SendHeartbeat(s) \/ HeartbeatStep(s) PROVE TypeOK'
  <2>1. s \in Senders /\ Directives \subseteq WorkerState
    BY WorkerAssumption DEF Senders, WorkerState
  <2>2. beat' \in [Senders -> {"idle", "sent"} \cup WorkerState] /\ state' \in WorkerState
    BY <1>7, <2>1 DEF SendHeartbeat, HeartbeatStep, HeartbeatAnswered,
       HeartbeatNoChange, HandleServerState, TypeOK
  <2> QED
    BY <1>7, <2>2 DEF SendHeartbeat, HeartbeatStep, HeartbeatAnswered,
       HeartbeatNoChange, HandleServerState, TypeOK
<1>8. CASE HeartbeatLoopExits
  BY <1>8 DEF HeartbeatLoopExits, TypeOK
<1>9. CASE ServerStep
  <2>1. ASSUME NEW m \in late, LateReport(m) PROVE TypeOK'
    <3>1. m.job \in Jobs /\ m.kind \in Reports
      BY DEF TypeOK, Messages
    <3>2. Apply(m.job, m.kind) \in [Jobs -> {"available", "active", "completed", "discarded"}]
      BY <3>1 DEF Apply, Settled, Reports, TypeOK
    <3> QED
      BY <2>1, <3>2 DEF LateReport, TypeOK
  <2>2. ASSUME NEW S \in SUBSET Jobs, LateFetch(S) PROVE TypeOK'
    BY <2>2 DEF LateFetch, Lease, TypeOK
  <2>3. ASSUME NEW j \in Jobs, LeaseTimeout(j) PROVE TypeOK'
    BY <2>3 DEF LeaseTimeout, TypeOK
  <2> QED
    BY <1>9, <2>1, <2>2, <2>3 DEF ServerStep
<1>10. CASE UNCHANGED vars
  BY <1>10 DEF vars, TypeOK
<1> QED
  BY <1>1, <1>2, <1>3, <1>4, <1>5, <1>6, <1>7, <1>8, <1>9, <1>10 DEF Next

-----------------------------------------------------------------------------
\* The steps that touch deliveries or activeJobs.
LEMMA StepKinds ==
    [Next]_vars =>
        \/ UNCHANGED <<task, job, outcome, left, activeJobs>>
        \/ \E S \in SUBSET Jobs : \E ds \in [S -> Deliveries] : FetchResponse(S, ds)
        \/ \E d \in Deliveries : \/ DispatchAcquire(d) \/ DispatchStore(d) \/ DispatchLaunch(d)
                                 \/ GoroutineStep(d) \/ HandlerStep(d)
BY DEF Next, vars, startVars, fetchVars, slotVars, taskVars, beatVars, serverVars, control, work, Register,
   Start, CancelCtx, ShutdownStep, BeginShutdown, WaitForActiveJobs, GraceExpired,
   NackActiveJob, NackActiveJobsDone, Stop, Join, FetchLoop, FetchTop, FetchState,
   FetchCapacity, FetchPause, FetchRequest, FetchRefused, FetchUnanswered, DispatchDone,
   GoTo, SendHeartbeat, HeartbeatStep, HeartbeatAnswered, HeartbeatNoChange,
   HandleServerState, HeartbeatLoopExits, ServerStep, LateReport, LateFetch, LeaseTimeout

\* A step preserves what places say of jobs, outcomes and tries.
LEMMA TaskInvNext == IInv /\ [Next]_vars => TaskInv'
<1> SUFFICES ASSUME IInv, [Next]_vars PROVE TaskInv'
  OBVIOUS
<1>a. TypeOK /\ TaskInv /\ AckNackMaxRetries \in Nat \ {0}
  BY WorkerAssumption DEF IInv
<1> USE <1>a
<1>1. CASE UNCHANGED <<task, job, outcome, left, activeJobs>>
  BY <1>1 DEF TaskInv
<1>2. ASSUME NEW S \in SUBSET Jobs, NEW ds \in [S -> Deliveries], FetchResponse(S, ds)
      PROVE  TaskInv'
  <2>1. UNCHANGED <<outcome, left>>
    BY <1>2 DEF FetchResponse
  <2>2. ASSUME NEW d \in Deliveries
        PROVE  /\ task[d] # "unused" => task'[d] = task[d] /\ job'[d] = job[d]
               /\ task'[d] # task[d] => task'[d] = "fetched" /\ job'[d] \in Jobs
    BY <1>2, FetchedJobs
  <2> QED
    BY <2>1, <2>2 DEF TaskInv, Queued
<1>3. ASSUME NEW d \in Deliveries,
             DispatchAcquire(d) \/ DispatchStore(d) \/ DispatchLaunch(d)
      PROVE  TaskInv'
  BY <1>3 DEF DispatchAcquire, DispatchStore, DispatchLaunch, TaskInv, TypeOK, Queued
<1>4. ASSUME NEW d \in Deliveries, Lookup(d) \/ HandlerStep(d) PROVE TaskInv'
  BY <1>4 DEF Lookup, HandlerStep, HandlerReturns, Step, TaskInv, TypeOK, Queued, Returns
<1>5. ASSUME NEW d \in Deliveries,
             SendReport(d) \/ ReportAnswered(d) \/ ReportUnanswered(d) \/ ReportBackoff(d)
      PROVE TaskInv'
  BY <1>5 DEF SendReport, ReportAnswered, ReportUnanswered, ReportBackoff, Step, TaskInv,
     TypeOK, Queued
<1>6. ASSUME NEW d \in Deliveries, ReleaseSem(d) \/ DeleteActive(d) \/ DecrementCount(d)
      PROVE TaskInv'
  BY <1>6 DEF ReleaseSem, DeleteActive, DecrementCount, Step, TaskInv, TypeOK, Queued
<1> QED
  BY <1>1, <1>2, <1>3, <1>4, <1>5, <1>6, StepKinds DEF GoroutineStep

\* Start comes before the fetch loop.
LEMMA StartInvNext == IInv /\ [Next]_vars => StartInv'
BY DEF IInv, StartInv, Next, vars, startVars, fetchVars, slotVars, taskVars, beatVars,
   serverVars, control, work, Register, Start, CancelCtx, ShutdownStep, BeginShutdown, WaitForActiveJobs,
   GraceExpired, NackActiveJob, NackActiveJobsDone, Stop, Join, FetchLoop, FetchTop,
   FetchState, FetchCapacity, FetchPause, FetchRequest, FetchResponse, FetchRefused,
   FetchUnanswered, DispatchAcquire, DispatchStore, DispatchLaunch, DispatchDone, GoTo,
   GoroutineStep, HandlerStep, HandlerReturns, Lookup, SendReport, ReportAnswered,
   ReportUnanswered, ReportBackoff, ReleaseSem, DeleteActive, DecrementCount,
   SendHeartbeat, HeartbeatStep, HeartbeatAnswered, HeartbeatNoChange, HandleServerState,
   HeartbeatLoopExits, ServerStep, LateReport, LateFetch, LeaseTimeout

\* A step leaves no entry behind in activeJobs: the goroutine that deletes one is not the
\* owner of any other.
LEMMA OwnerNext == IInv /\ [Next]_vars => ActiveJobsHaveOwner'
<1> SUFFICES ASSUME IInv, [Next]_vars PROVE ActiveJobsHaveOwner'
  OBVIOUS
<1>a. TypeOK /\ TaskInv /\ ActiveJobsHaveOwner
  BY DEF IInv
<1> DEFINE Owns(d) == task[d] \in {"stored", "release", "delete"} \cup Working
<1> USE <1>a
<1>1. CASE UNCHANGED <<task, job, outcome, left, activeJobs>>
  BY <1>1 DEF ActiveJobsHaveOwner
<1>2. ASSUME NEW S \in SUBSET Jobs, NEW ds \in [S -> Deliveries], FetchResponse(S, ds)
      PROVE  ActiveJobsHaveOwner'
  <2>1. activeJobs' = activeJobs
    BY <1>2 DEF FetchResponse, slotVars
  <2>2. ASSUME NEW d \in Deliveries
        PROVE  task[d] # "unused" => task'[d] = task[d] /\ job'[d] = job[d]
    BY <1>2, FetchedJobs
  <2> QED
    BY <2>1, <2>2 DEF ActiveJobsHaveOwner, Working
<1>3. ASSUME NEW d \in Deliveries,
             DispatchAcquire(d) \/ DispatchStore(d) \/ DispatchLaunch(d)
      PROVE  ActiveJobsHaveOwner'
  BY <1>3 DEF DispatchAcquire, DispatchStore, DispatchLaunch, ActiveJobsHaveOwner, TypeOK,
     Working
<1>4. ASSUME NEW d \in Deliveries, GoroutineStep(d) \/ HandlerStep(d), ~DeleteActive(d)
      PROVE  ActiveJobsHaveOwner'
  <2>1. activeJobs' = activeJobs /\ job' = job
    BY <1>4 DEF GoroutineStep, HandlerStep, HandlerReturns, Lookup, SendReport,
       ReportAnswered, ReportUnanswered, ReportBackoff, ReleaseSem, DecrementCount, slotVars
  <2>2. \A e \in Deliveries : Owns(e) => Owns(e)'
    BY <1>4 DEF GoroutineStep, HandlerStep, HandlerReturns, Lookup, SendReport,
       ReportAnswered, ReportUnanswered, ReportBackoff, ReleaseSem, DecrementCount, Step,
       TypeOK, Working
  <2> QED
    BY <2>1, <2>2 DEF ActiveJobsHaveOwner
<1>5. ASSUME NEW d \in Deliveries, DeleteActive(d) PROVE ActiveJobsHaveOwner'
  BY <1>5 DEF DeleteActive, Step, ActiveJobsHaveOwner, TypeOK, Working
<1> QED
  BY <1>1, <1>2, <1>3, <1>4, <1>5, StepKinds

-----------------------------------------------------------------------------
\* A goroutine that has its outcome keeps it, and its job.
LEMMA CauseStable ==
    ASSUME IInv, [Next]_vars, NEW j, NEW O, "none" \notin O, Cause(j, O)
    PROVE  Cause(j, O)'
<1>1. PICK d \in Deliveries : job[d] = j /\ outcome[d] \in O
  BY DEF Cause
<1>2. task[d] \notin {"unused", "lookup", "handler"} \cup Queued
  BY <1>1 DEF IInv, TaskInv
<1>3. job'[d] = job[d] /\ outcome'[d] = outcome[d]
  <2>1. CASE UNCHANGED <<task, job, outcome, left, activeJobs>>
    BY <2>1
  <2>2. ASSUME NEW S \in SUBSET Jobs, NEW ds \in [S -> Deliveries], FetchResponse(S, ds)
        PROVE  job'[d] = job[d] /\ outcome'[d] = outcome[d]
    BY <1>2, <2>2, FetchedJobs DEF FetchResponse
  <2>3. ASSUME NEW e \in Deliveries,
               \/ DispatchAcquire(e) \/ DispatchStore(e) \/ DispatchLaunch(e)
               \/ GoroutineStep(e) \/ HandlerStep(e)
        PROVE  job'[d] = job[d] /\ outcome'[d] = outcome[d]
    BY <1>2, <2>3 DEF DispatchAcquire, DispatchStore, DispatchLaunch, GoroutineStep,
       HandlerStep, HandlerReturns, Lookup, SendReport, ReportAnswered, ReportUnanswered,
       ReportBackoff, ReleaseSem, DeleteActive, DecrementCount, IInv, TypeOK
  <2> QED
    BY <2>1, <2>2, <2>3, StepKinds
<1> QED
  BY <1>1, <1>3 DEF Cause

\* The server settles a job as the report says, and only the job the report names.
LEMMA ApplySettles ==
    ASSUME TypeOK, NEW j \in Jobs, NEW kind \in Reports, NEW k \in Jobs
    PROVE  /\ Apply(j, kind)[k] = "completed" => srv[k] = "completed" \/ (k = j /\ kind = "ack")
           /\ Apply(j, kind)[k] = "discarded" =>
                 srv[k] = "discarded" \/ (k = j /\ kind = "nackFinal")
BY DEF Apply, Settled, Reports, TypeOK

\* A step sends no report without a cause.
LEMMA LateNext == IInv /\ [Next]_vars => LateInv'
<1> SUFFICES ASSUME IInv, [Next]_vars, NEW m \in late'
             PROVE  /\ m.kind = "ack" => Cause(m.job, {"nil"})'
                    /\ m.kind = "nackFinal" => Cause(m.job, {"nonRetryable", "unhandled"})'
  BY DEF LateInv, Cause
<1>1. CASE m \in late
  <2>1. /\ m.kind = "ack" => Cause(m.job, {"nil"})
        /\ m.kind = "nackFinal" => Cause(m.job, {"nonRetryable", "unhandled"})
    BY <1>1 DEF IInv, LateInv
  <2>2. m.kind = "ack" => Cause(m.job, {"nil"})'
    BY <2>1, CauseStable
  <2>3. m.kind = "nackFinal" => Cause(m.job, {"nonRetryable", "unhandled"})'
    BY <2>1, CauseStable
  <2> QED
    BY <2>2, <2>3
<1>2. CASE m \notin late
  <2>1. \/ \E j \in Jobs : m.kind = "nackRetry"
        \/ \E d \in Deliveries : ReportUnanswered(d) /\ m.job = job[d]
                                 /\ m.kind = ReportOf(outcome[d])
    BY <1>2 DEF Next, vars, startVars, fetchVars, slotVars, taskVars, beatVars, serverVars, control, work,
       Register, Start, CancelCtx, ShutdownStep, BeginShutdown, WaitForActiveJobs,
       GraceExpired, NackActiveJob, NackActiveJobsDone, Stop, Join, FetchLoop, FetchTop,
       FetchState, FetchCapacity, FetchPause, FetchRequest, FetchResponse, FetchRefused,
       FetchUnanswered, DispatchAcquire, DispatchStore, DispatchLaunch, DispatchDone, GoTo,
       GoroutineStep, HandlerStep, HandlerReturns, Lookup, SendReport, ReportAnswered,
       ReportUnanswered, ReportBackoff, ReleaseSem, DeleteActive, DecrementCount,
       SendHeartbeat, HeartbeatStep, HeartbeatAnswered, HeartbeatNoChange,
       HandleServerState, HeartbeatLoopExits, ServerStep, LateReport, LateFetch, LeaseTimeout
  <2>2. ASSUME NEW d \in Deliveries, ReportUnanswered(d), m.job = job[d],
               m.kind = ReportOf(outcome[d])
        PROVE  /\ m.kind = "ack" => Cause(m.job, {"nil"})'
               /\ m.kind = "nackFinal" => Cause(m.job, {"nonRetryable", "unhandled"})'
    <3>1. outcome[d] \in Outcomes \ {"none"} /\ job' = job /\ outcome' = outcome
      BY <2>2 DEF ReportUnanswered, IInv, TypeOK, TaskInv
    <3>2. /\ m.kind = "ack" => outcome[d] = "nil"
          /\ m.kind = "nackFinal" => outcome[d] \in {"nonRetryable", "unhandled"}
      BY <2>2, <3>1, ReportCause
    <3> QED
      BY <2>2, <3>1, <3>2 DEF Cause
  <2> QED
    BY <2>1, <2>2
<1> QED
  BY <1>1, <1>2

\* A step settles no job without a cause.
LEMMA OutcomeNext == IInv /\ [Next]_vars => OutcomeHasCause'
<1> SUFFICES ASSUME IInv, [Next]_vars, NEW j \in Jobs
             PROVE  /\ srv'[j] = "completed" => Cause(j, {"nil"})'
                    /\ srv'[j] = "discarded" => Cause(j, {"nonRetryable", "unhandled"})'
  BY DEF OutcomeHasCause, Cause
<1>1. srv[j] = "completed" => Cause(j, {"nil"})'
  <2>1. srv[j] = "completed" => Cause(j, {"nil"})
    BY DEF IInv, OutcomeHasCause, Cause
  <2> QED
    BY <2>1, CauseStable
<1>2. srv[j] = "discarded" => Cause(j, {"nonRetryable", "unhandled"})'
  <2>1. srv[j] = "discarded" => Cause(j, {"nonRetryable", "unhandled"})
    BY DEF IInv, OutcomeHasCause, Cause
  <2> QED
    BY <2>1, CauseStable
<1>3. \/ srv' = srv
      \/ \E k \in Jobs : srv' = Apply(k, "nackRetry")
      \/ \E S \in SUBSET Jobs : srv' = Lease(S)
      \/ \E k \in Jobs : srv' = [srv EXCEPT ![k] = "available"]
      \/ \E m \in late : srv' = Apply(m.job, m.kind)
      \/ \E d \in Deliveries : ReportAnswered(d)
  BY DEF Next, vars, startVars, fetchVars, slotVars, taskVars, beatVars, serverVars, control, work,
     Register, Start, CancelCtx, ShutdownStep, BeginShutdown, WaitForActiveJobs,
     GraceExpired, NackActiveJob, NackActiveJobsDone, Stop, Join, FetchLoop, FetchTop,
     FetchState, FetchCapacity, FetchPause, FetchRequest, FetchResponse, FetchRefused,
     FetchUnanswered, DispatchAcquire, DispatchStore, DispatchLaunch, DispatchDone, GoTo,
     GoroutineStep, HandlerStep, HandlerReturns, Lookup, SendReport,
     ReportUnanswered, ReportBackoff, ReleaseSem, DeleteActive, DecrementCount,
     SendHeartbeat, HeartbeatStep, HeartbeatAnswered, HeartbeatNoChange,
     HandleServerState, HeartbeatLoopExits, ServerStep, LateReport, LateFetch, LeaseTimeout
<1>4. CASE srv' = srv
  BY <1>1, <1>2, <1>4
<1>5. ASSUME NEW k \in Jobs, srv' = Apply(k, "nackRetry")
      PROVE  srv'[j] \in {"completed", "discarded"} => srv'[j] = srv[j]
  BY <1>5, ApplySettles DEF IInv, Reports
<1>6. ASSUME NEW S \in SUBSET Jobs, srv' = Lease(S)
      PROVE  srv'[j] \in {"completed", "discarded"} => srv'[j] = srv[j]
  BY <1>6 DEF Lease
<1>7. ASSUME NEW k \in Jobs, srv' = [srv EXCEPT ![k] = "available"]
      PROVE  srv'[j] \in {"completed", "discarded"} => srv'[j] = srv[j]
  BY <1>7 DEF IInv, TypeOK
<1>8. ASSUME NEW m \in late, srv' = Apply(m.job, m.kind)
      PROVE  /\ srv'[j] = "completed" => Cause(j, {"nil"})'
             /\ srv'[j] = "discarded" => Cause(j, {"nonRetryable", "unhandled"})'
  <2>1. m.job \in Jobs /\ m.kind \in Reports
    BY DEF IInv, TypeOK, Messages
  <2>2. /\ m.kind = "ack" => Cause(m.job, {"nil"})
        /\ m.kind = "nackFinal" => Cause(m.job, {"nonRetryable", "unhandled"})
    BY DEF IInv, LateInv
  <2>3. m.kind = "ack" => Cause(m.job, {"nil"})'
    BY <2>2, CauseStable
  <2>4. m.kind = "nackFinal" => Cause(m.job, {"nonRetryable", "unhandled"})'
    BY <2>2, CauseStable
  <2>5. /\ srv'[j] = "completed" => srv[j] = "completed" \/ (j = m.job /\ m.kind = "ack")
        /\ srv'[j] = "discarded" => srv[j] = "discarded" \/ (j = m.job /\ m.kind = "nackFinal")
    BY <1>8, <2>1, ApplySettles DEF IInv
  <2> QED
    BY <1>1, <1>2, <2>3, <2>4, <2>5
<1>9. ASSUME NEW d \in Deliveries, ReportAnswered(d)
      PROVE  /\ srv'[j] = "completed" => Cause(j, {"nil"})'
             /\ srv'[j] = "discarded" => Cause(j, {"nonRetryable", "unhandled"})'
  <2>1. /\ outcome[d] \in Outcomes \ {"none"} /\ job[d] \in Jobs
        /\ job' = job /\ outcome' = outcome /\ srv' = Apply(job[d], ReportOf(outcome[d]))
    BY <1>9 DEF ReportAnswered, IInv, TypeOK, TaskInv
  <2>2. /\ ReportOf(outcome[d]) \in Reports
        /\ ReportOf(outcome[d]) = "ack" => outcome[d] = "nil"
        /\ ReportOf(outcome[d]) = "nackFinal" => outcome[d] \in {"nonRetryable", "unhandled"}
    BY <2>1, ReportCause
  <2>3. /\ srv'[j] = "completed" =>
              srv[j] = "completed" \/ (j = job[d] /\ ReportOf(outcome[d]) = "ack")
        /\ srv'[j] = "discarded" =>
              srv[j] = "discarded" \/ (j = job[d] /\ ReportOf(outcome[d]) = "nackFinal")
    BY <2>1, <2>2, ApplySettles DEF IInv
  <2> QED
    BY <1>1, <1>2, <2>1, <2>2, <2>3 DEF Cause
<1> QED
  BY <1>1, <1>2, <1>3, <1>4, <1>5, <1>6, <1>7, <1>8, <1>9

-----------------------------------------------------------------------------
(* The theorems.                                                            *)

\* The invariant holds in a new worker (worker.go:121-130).
LEMMA IInvInit == Init => IInv
<1> SUFFICES ASSUME Init PROVE IInv
  OBVIOUS
<1>1. TaskInv /\ StartInv
  BY DEF Init, TaskInv, StartInv
<1>2. LateInv /\ OutcomeHasCause /\ ActiveJobsHaveOwner
  BY DEF Init, LateInv, OutcomeHasCause, ActiveJobsHaveOwner
<1> QED
  BY <1>1, <1>2, TypeOKInit, SlotInvInit DEF IInv

\* The inductive invariant holds in every reachable state of the worker.
THEOREM InductiveInvariant == Spec => []IInv
<1>1. IInv /\ [Next]_vars => IInv'
  BY TypeOKNext, StartInvNext, SlotInvNext, TaskInvNext, LateNext, OutcomeNext, OwnerNext
     DEF IInv
<1> QED
  BY <1>1, IInvInit, PTL DEF Spec

\* Every variable of the worker keeps its type; sem never holds more than Concurrency
\* tokens and activeCount never leaves 0..Concurrency.
THEOREM TypeCorrectness == Spec => []TypeOK
<1>1. IInv => TypeOK
  BY DEF IInv
<1> QED
  BY <1>1, InductiveInvariant, PTL

\* The count read by fetchLoop and waitForActiveJobs is the number of goroutines.
THEOREM CountIsExact == Spec => []ActiveCountExact
<1>1. IInv => ActiveCountExact
  BY DEF IInv, SlotInv
<1> QED
  BY <1>1, InductiveInvariant, PTL

\* The send on sem in the dispatch loop of fetchLoop never blocks: a job that waits for
\* its token claims one of the Concurrency places and holds none.
THEOREM DispatchIsWaitFree == Spec => []DispatchNeverBlocks
<1>1. ASSUME IInv, NEW d \in InState({"fetched"}) PROVE sem < Concurrency
  <2>1. InState(Holding) \subseteq InState(Claimed) \ {d} /\ d \in InState(Claimed)
    BY <1>1 DEF InState, Holding, Claimed, Queued, Working, Releasing
  <2>2. IsFiniteSet(InState(Claimed) \ {d})
        /\ Cardinality(InState(Claimed) \ {d}) = Cardinality(InState(Claimed)) - 1
    BY <2>1, InStateFinite, FS_RemoveElement
  <2>3. Cardinality(InState(Holding)) <= Cardinality(InState(Claimed)) - 1
    BY <2>1, <2>2, FS_Subset
  <2>4. Cardinality(InState(Holding)) \in Nat /\ Cardinality(InState(Claimed)) \in Nat
        /\ Concurrency \in Nat
    BY InStateFinite, WorkerAssumption
  <2> QED
    BY <1>1, <2>3, <2>4 DEF IInv, SlotInv
<1>2. IInv => DispatchNeverBlocks
  BY <1>1 DEF DispatchNeverBlocks
<1> QED
  BY <1>2, InductiveInvariant, PTL

\* No entry of activeJobs outlives the goroutines of its job.
THEOREM ActiveJobsOwned == Spec => []ActiveJobsHaveOwner
<1>1. IInv => ActiveJobsHaveOwner
  BY DEF IInv
<1> QED
  BY <1>1, InductiveInvariant, PTL

\* No job is completed or discarded at the server but by what a goroutine of the worker
\* made of it.
THEOREM OutcomesCaused == Spec => []OutcomeHasCause
<1>1. IInv => OutcomeHasCause
  BY DEF IInv
<1> QED
  BY <1>1, InductiveInvariant, PTL

-----------------------------------------------------------------------------
(* Leased jobs.                                                             *)

\* The delivery is queued, or its goroutine has still to get its first answer.
InHand(j) ==
    \E d \in Deliveries : job[d] = j /\ task[d] \in Queued \cup (Working \ {"backoff"})

\* Without faults a goroutine waits in a backoff only for a lease that is not its own any
\* more, and no fetch that nobody waits for leases a job.
HandInv ==
    ~Faulty /\ ~ctxDone =>
        /\ lateFetch = 0
        /\ \A j \in Jobs : srv[j] = "active" => InHand(j)

\* A report never leases a job.
LEMMA ApplyNeverLeases ==
    ASSUME TypeOK, NEW j, NEW kind \in Reports, NEW k \in Jobs, Apply(j, kind)[k] = "active"
    PROVE  srv[k] = "active" /\ k # j
BY DEF Apply, Settled, Reports, TypeOK

\* The steps that touch leases, deliveries or the wire.
LEMMA LeaseKinds ==
    [Next]_vars =>
        \/ UNCHANGED <<task, job, srv, lateFetch>>
        \/ \E S \in SUBSET Jobs : \E ds \in [S -> Deliveries] : FetchResponse(S, ds)
        \/ FetchUnanswered
        \/ \E d \in Deliveries : \/ DispatchAcquire(d) \/ DispatchStore(d) \/ DispatchLaunch(d)
                                 \/ GoroutineStep(d) \/ HandlerStep(d)
        \/ \E j \in Jobs : NackActiveJob(j)
        \/ ServerStep
BY DEF Next, vars, startVars, fetchVars, slotVars, taskVars, beatVars, serverVars, control, work, Register,
   Start, CancelCtx, ShutdownStep, BeginShutdown, WaitForActiveJobs, GraceExpired,
   NackActiveJobsDone, Stop, Join, FetchLoop, FetchTop, FetchState,
   FetchCapacity, FetchPause, FetchRequest, FetchRefused, DispatchDone,
   GoTo, SendHeartbeat, HeartbeatStep, HeartbeatAnswered, HeartbeatNoChange,
   HandleServerState, HeartbeatLoopExits

\* The context stays cancelled.
LEMMA CtxStays == TypeOK /\ [Next]_vars => (ctxDone => ctxDone')
BY DEF TypeOK, Next, vars, startVars, fetchVars, slotVars, taskVars, beatVars,
   serverVars, control, work, Register, Start, CancelCtx, ShutdownStep, BeginShutdown, WaitForActiveJobs,
   GraceExpired, NackActiveJob, NackActiveJobsDone, Stop, Join, FetchLoop, FetchTop,
   FetchState, FetchCapacity, FetchPause, FetchRequest, FetchResponse, FetchRefused,
   FetchUnanswered, DispatchAcquire, DispatchStore, DispatchLaunch, DispatchDone, GoTo,
   GoroutineStep, HandlerStep, HandlerReturns, Lookup, SendReport, ReportAnswered,
   ReportUnanswered, ReportBackoff, ReleaseSem, DeleteActive, DecrementCount,
   SendHeartbeat, HeartbeatStep, HeartbeatAnswered, HeartbeatNoChange, HandleServerState,
   HeartbeatLoopExits, ServerStep, LateReport, LateFetch, LeaseTimeout

\* A step keeps leased jobs in hand: a goroutine that leaves its job has settled it.
LEMMA HandInvNext == IInv /\ HandInv /\ [Next]_vars => HandInv'
<1> SUFFICES ASSUME IInv, HandInv, [Next]_vars, ~Faulty, ~ctxDone'
             PROVE  /\ lateFetch' = 0
                    /\ \A j \in Jobs : srv'[j] = "active" => InHand(j)'
  BY DEF HandInv
<1>a. TypeOK /\ TaskInv /\ ~ctxDone
  BY CtxStays DEF IInv
<1>b. lateFetch = 0 /\ \A j \in Jobs : srv[j] = "active" => InHand(j)
  BY <1>a DEF HandInv
<1> USE <1>a
<1> DEFINE Has(d) == task[d] \in Queued \cup (Working \ {"backoff"})
           Goal == /\ lateFetch' = 0
                   /\ \A j \in Jobs : srv'[j] = "active" => InHand(j)'
\* It is enough that no job is newly leased and whoever has one keeps it.
<1>c. ASSUME lateFetch' = lateFetch, job' = job,
             \A j \in Jobs : srv'[j] = "active" => srv[j] = "active",
             \A d \in Deliveries : Has(d) => Has(d)'
      PROVE  Goal
  BY <1>b, <1>c DEF InHand
<1>1. CASE UNCHANGED <<task, job, srv, lateFetch>>
  BY <1>1, <1>c
<1>2. ASSUME NEW S \in SUBSET Jobs, NEW ds \in [S -> Deliveries], FetchResponse(S, ds)
      PROVE  Goal
  <2>1. lateFetch' = 0 /\ srv' = Lease(S)
    BY <1>2, <1>b DEF FetchResponse
  <2>2. ASSUME NEW j \in S PROVE InHand(j)'
    <3>1. /\ ds[j] \in Deliveries
          /\ \A k \in S : ds[k] = ds[j] => k = j
      BY <1>2 DEF FetchResponse
    <3>2. (CHOOSE k \in S : ds[k] = ds[j]) = j
      BY <3>1
    <3>3. task'[ds[j]] = "fetched" /\ job'[ds[j]] = j
      BY <1>2, <3>1, <3>2 DEF FetchResponse
    <3> QED
      BY <3>1, <3>3 DEF InHand, Queued
  <2>3. ASSUME NEW j \in Jobs \ S, srv'[j] = "active" PROVE InHand(j)'
    <3>1. srv[j] = "active"
      BY <2>1, <2>3 DEF Lease
    <3>2. PICK d \in Deliveries : job[d] = j /\ Has(d)
      BY <1>b, <3>1 DEF InHand
    <3>3. task[d] # "unused"
      BY <3>2 DEF Queued, Working
    <3>4. task'[d] = task[d] /\ job'[d] = job[d]
      BY <1>2, <3>3, FetchedJobs
    <3> QED
      BY <3>2, <3>4 DEF InHand
  <2> QED
    BY <2>1, <2>2, <2>3
<1>3. CASE FetchUnanswered
  BY <1>3 DEF FetchUnanswered
<1>4. ASSUME NEW d \in Deliveries,
             DispatchAcquire(d) \/ DispatchStore(d) \/ DispatchLaunch(d)
      PROVE  Goal
  <2>1. job' = job /\ srv' = srv /\ lateFetch' = lateFetch
    BY <1>4 DEF DispatchAcquire, DispatchStore, DispatchLaunch, serverVars
  <2>2. \A e \in Deliveries : Has(e) => Has(e)'
    BY <1>4 DEF DispatchAcquire, DispatchStore, DispatchLaunch, TypeOK, Queued, Working
  <2> QED
    BY <2>1, <2>2, <1>c
<1>5. ASSUME NEW d \in Deliveries, GoroutineStep(d) \/ HandlerStep(d), ~ReportAnswered(d)
      PROVE  Goal
  <2>1. job' = job /\ srv' = srv /\ lateFetch' = lateFetch
    BY <1>5 DEF GoroutineStep, HandlerStep, HandlerReturns, Lookup, SendReport,
       ReportUnanswered, ReportBackoff, ReleaseSem, DeleteActive, DecrementCount, serverVars
  <2>2. \A e \in Deliveries : Has(e) => Has(e)'
    BY <1>5 DEF GoroutineStep, HandlerStep, HandlerReturns, Lookup, SendReport,
       ReportUnanswered, ReportBackoff, ReleaseSem, DeleteActive, DecrementCount, Step,
       TypeOK, Queued, Working
  <2> QED
    BY <2>1, <2>2, <1>c
<1>6. ASSUME NEW d \in Deliveries, ReportAnswered(d) PROVE Goal
  <2>1. /\ job' = job /\ lateFetch' = lateFetch /\ srv' = Apply(job[d], ReportOf(outcome[d]))
        /\ \A e \in Deliveries \ {d} : task'[e] = task[e]
    BY <1>6 DEF ReportAnswered, Step, TypeOK
  <2>2. ReportOf(outcome[d]) \in Reports
    BY <1>6, ReportCause DEF ReportAnswered, TaskInv, TypeOK
  <2>3. ASSUME NEW j \in Jobs, srv'[j] = "active" PROVE InHand(j)'
    <3>1. srv[j] = "active" /\ j # job[d]
      BY <2>1, <2>2, <2>3, ApplyNeverLeases
    <3>2. PICK e \in Deliveries : job[e] = j /\ Has(e)
      BY <1>b, <3>1 DEF InHand
    <3> QED
      BY <2>1, <3>1, <3>2 DEF InHand
  <2> QED
    BY <1>b, <2>1, <2>3
<1>7. ASSUME NEW k \in Jobs, NackActiveJob(k) PROVE Goal
  <2>1. job' = job /\ task' = task /\ lateFetch' = lateFetch /\ srv' = Apply(k, "nackRetry")
    BY <1>7 DEF NackActiveJob, taskVars
  <2>2. \A j \in Jobs : srv'[j] = "active" => srv[j] = "active"
    BY <2>1, ApplyNeverLeases DEF Reports
  <2> QED
    BY <2>1, <2>2, <1>c
<1>8. CASE ServerStep
  <2>1. job' = job /\ task' = task /\ lateFetch' = lateFetch
    BY <1>8, <1>b DEF ServerStep, LateReport, LateFetch, LeaseTimeout, taskVars
  <2>2. \A j \in Jobs : srv'[j] = "active" => srv[j] = "active"
    <3>1. ASSUME NEW m \in late, LateReport(m) PROVE \A j \in Jobs : srv'[j] = "active" => srv[j] = "active"
      <4>1. m.kind \in Reports /\ srv' = Apply(m.job, m.kind)
        BY <3>1 DEF LateReport, TypeOK, Messages
      <4> QED
        BY <4>1, ApplyNeverLeases
    <3>2. ASSUME NEW k \in Jobs, LeaseTimeout(k) PROVE \A j \in Jobs : srv'[j] = "active" => srv[j] = "active"
      BY <3>2 DEF LeaseTimeout, TypeOK
    <3>3. ~ \E S \in SUBSET Jobs : LateFetch(S)
      BY <1>b DEF LateFetch
    <3> QED
      BY <1>8, <3>1, <3>2, <3>3 DEF ServerStep
  <2> QED
    BY <2>1, <2>2, <1>c
<1> QED
  BY <1>1, <1>2, <1>3, <1>4, <1>5, <1>6, <1>7, <1>8, LeaseKinds DEF GoroutineStep

\* A worker that is not shutting down and whose network loses nothing loses no job,
\* whatever leases time out and are delivered again meanwhile (worker.go, processJob).
THEOREM LeasedJobsAreInHand == Spec => []LeasedJobIsInHand
<1>1. Init => HandInv
  BY DEF Init, HandInv
<1>2. HandInv => LeasedJobIsInHand
  BY DEF HandInv, InHand, LeasedJobIsInHand
<1> QED
  BY <1>1, <1>2, HandInvNext, InductiveInvariant, PTL DEF Spec
=============================================================================
