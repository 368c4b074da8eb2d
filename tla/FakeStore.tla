----------------------------- MODULE FakeStore ------------------------------
(***************************************************************************)
(* The test double of ojstesting/: Fake puts a store in the package        *)
(* variable activeStore, FakeClient binds a real client to it, Drain runs  *)
(* handlers with the store's mutex held, and assertions read the store.    *)
(* Tests of one process may overlap, as parent and subtest or in parallel. *)
(*                                                                         *)
(* A store is named after the test whose call of Fake made it.  Every      *)
(* acquisition of a store's mutex is a step; what runs under it without    *)
(* calling a handler is one.  The fake HTTP server serves every request in *)
(* a goroutine of its own, which goes on when the caller's HTTP timeout    *)
(* (transport.go:37) has passed.  Handlers enqueue through the client: a   *)
(* handler that calls the store itself waits for its own Drain for good.   *)
(***************************************************************************)
EXTENDS Naturals, Sequences, FiniteSetsExt

CONSTANTS
    Tests,       \* tests that call Fake
    Goroutines,  \* goroutines of the tests and of the code under test
    Types,       \* valid job types
    Invalid,     \* a job type or queue that validation refuses
    Counts,      \* counts that tests assert with MatchCount
    Batches,     \* what callers enqueue: sequences over Types and Invalid
    MaxJobs,     \* bound on the jobs posted, to all stores together
    None         \* no store, no goroutine

ASSUME FakeStoreAssumption ==
    /\ Invalid \notin Types
    /\ None \notin Tests \cup Goroutines
    /\ Batches \subseteq Seq(Types \cup {Invalid}) \ {<<>>}
    /\ Counts \subseteq Nat \ {0}
    /\ MaxJobs \in Nat

VARIABLES
    activeStore,  \* the package variable
    called,       \* tests that have called Fake, in order
    running,      \* those whose cleanup has not run
    clients,      \* the store each test's FakeClient is bound to
    enqueued, performed, handlers, nextID,  \* the fields of each store
    holder,       \* who holds a store's mutex
    pc,           \* what each goroutine does
    at,           \* the store it drains or clears
    pos,          \* the index Drain has reached
    requests      \* every request to a fake server: the test whose client sent it,
                  \* and the types still to be recorded

testVars  == <<activeStore, called, running, clients>>
storeVars == <<enqueued, performed, handlers, nextID, holder>>
callVars  == <<at, pos>>
vars == <<testVars, storeVars, pc, callVars, requests>>

States == {"available", "active", "completed", "discarded"}
FakeJob == [ID : Nat, Type : Types, State : States, Attempt : Nat]
Request == [via : Tests \cup {None}, todo : Seq(Types)]
Answered == [via |-> None, todo |-> <<>>]

TypeOK ==
    /\ activeStore \in Tests \cup {None}
    /\ called \in Seq(Tests)
    /\ running \subseteq Tests
    /\ clients \in [Tests -> Tests \cup {None}]
    /\ enqueued \in [Tests -> Seq(FakeJob)]
    /\ performed \in [Tests -> Seq(FakeJob)]
    /\ handlers \in [Tests -> SUBSET Types]
    /\ nextID \in [Tests -> Nat]
    /\ holder \in [Tests -> Goroutines \cup {None}]
    /\ pc \in [Goroutines -> {"idle", "post", "clear", "lock", "drain", "handler"}]
    /\ at \in [Goroutines -> Tests \cup {None}]
    /\ pos \in [Goroutines -> Nat]
    /\ requests \in Seq(Request)

Init ==
    /\ activeStore = None
    /\ called = <<>>
    /\ running = {}
    /\ clients = [t \in Tests |-> None]
    /\ enqueued = [t \in Tests |-> <<>>]
    /\ performed = [t \in Tests |-> <<>>]
    /\ handlers = [t \in Tests |-> {}]
    /\ nextID = [t \in Tests |-> 0]
    /\ holder = [t \in Tests |-> None]
    /\ pc = [g \in Goroutines |-> "idle"]
    /\ at = [g \in Goroutines |-> None]
    /\ pos = [g \in Goroutines |-> 0]
    /\ requests = <<>>

Go(g, l) == pc' = [pc EXCEPT ![g] = l]

\* Goroutine g returns from ClearAll or Drain.
Leave(g) ==
    /\ Go(g, "idle")
    /\ at' = [at EXCEPT ![g] = None]
    /\ pos' = [pos EXCEPT ![g] = 0]

\* Goroutine g is inside Drain, with the mutex of the store it drains.
Drains(g) == at[g] # None /\ holder[at[g]] = g

\* The fake server has not recorded all of request r yet.
UnderWay(r) == r <= Len(requests) /\ requests[r].todo # <<>>

-----------------------------------------------------------------------------
(* A test's life.                                                           *)

WasCalled(t) == \E i \in 1..Len(called) : called[i] = t

Fake(t) ==
    /\ ~WasCalled(t)
    /\ activeStore' = t
    /\ called' = Append(called, t)
    /\ running' = running \cup {t}
    /\ UNCHANGED <<clients, storeVars, pc, callVars, requests>>

\* mustStore: the client serves the store that is active now.
FakeClient(t) ==
    /\ t \in running
    /\ clients[t] = None
    /\ activeStore # None
    /\ clients' = [clients EXCEPT ![t] = activeStore]
    /\ UNCHANGED <<activeStore, called, running, storeVars, pc, callVars, requests>>

CleanupAlways(t) ==  \* mutant: the store is not compared with the active one
    /\ t \in running
    /\ activeStore' = None
    /\ running' = running \ {t}
    /\ clients' = [clients EXCEPT ![t] = None]
    /\ UNCHANGED <<called, storeVars, pc, callVars, requests>>

\* The cleanups of a test, last registered first: the fake server closes once no
\* request is under way, then the store is deactivated if it is still the active one.
Cleanup(t) ==
    /\ t \in running
    /\ \A r \in 1..Len(requests) : requests[r].via = t => ~UnderWay(r)
    /\ activeStore' = IF activeStore = t THEN None ELSE activeStore
    /\ running' = running \ {t}
    /\ clients' = [clients EXCEPT ![t] = None]
    /\ UNCHANGED <<called, storeVars, pc, callVars, requests>>

RegisterHandler(s, type) ==
    /\ WasCalled(s)
    /\ holder[s] = None
    /\ handlers' = [handlers EXCEPT ![s] = @ \cup {type}]
    /\ UNCHANGED <<testVars, enqueued, performed, nextID, holder, pc, callVars, requests>>

-----------------------------------------------------------------------------
(* Enqueue and EnqueueBatch on a fake client.                               *)

\* validateEnqueueParams and validateQueue, for every request before any is sent.
Valid(reqs) == \A i \in 1..Len(reqs) : reqs[i] # Invalid

\* Jobs recorded and about to be.
Total == MapThenSumSet(LAMBDA t : nextID[t], Tests)
           + MapThenSumSet(LAMBDA r : Len(requests[r].todo), 1..Len(requests))

\* The client of test t posts the requests; an invalid one ends the call instead.
Post(g, t, reqs) ==
    /\ clients[t] # None
    /\ Total + Len(reqs) <= MaxJobs
    /\ Valid(reqs)
    /\ Go(g, "post")
    /\ requests' = Append(requests, [via |-> t, todo |-> reqs])
    /\ UNCHANGED <<testVars, storeVars, callVars>>

Enqueue(g, t, reqs) == pc[g] = "idle" /\ Post(g, t, reqs)

\* The call returns, with the server's answer, or with an error when the client's timeout
\* passes first: the request is not taken back, nor repeated.  Inside Drain the handler
\* goes on.
PostReturns(g) ==
    /\ pc[g] = "post"
    /\ Go(g, IF Drains(g) THEN "handler" ELSE "idle")
    /\ UNCHANGED <<testVars, storeVars, callVars, requests>>

\* What RecordEnqueue appends.
NewJob(id, type) == [ID |-> id, Type |-> type, State |-> "available", Attempt |-> 0]

\* What is left of a request once one job of it is recorded.
Rest(req) ==
    IF Len(req.todo) > 1 THEN [via |-> req.via, todo |-> Tail(req.todo)] ELSE Answered

\* handleEnqueue or handleBatchEnqueue records one job of request r in the store that its
\* client is bound to: one acquisition of the mutex.
RecordEnqueue(r) ==
    LET s == clients[requests[r].via] IN
    /\ UnderWay(r)
    /\ holder[s] = None
    /\ nextID' = [nextID EXCEPT ![s] = @ + 1]
    /\ enqueued' = [enqueued EXCEPT ![s] =
          Append(@, NewJob(nextID'[s], Head(requests[r].todo)))]
    /\ requests' = [requests EXCEPT ![r] = Rest(requests[r])]
    /\ UNCHANGED <<testVars, performed, handlers, holder, pc, callVars>>

-----------------------------------------------------------------------------
(* ClearAll and Drain: mustStore, then the store's mutex.                   *)

Call(g, l) ==
    /\ pc[g] = "idle"
    /\ activeStore # None
    /\ at' = [at EXCEPT ![g] = activeStore]
    /\ Go(g, l)
    /\ UNCHANGED <<testVars, storeVars, pos, requests>>

ClearAllQueue(g) ==  \* mutant: performed is forgotten
    /\ pc[g] = "clear"
    /\ holder[at[g]] = None
    /\ enqueued' = [enqueued EXCEPT ![at[g]] = <<>>]
    /\ Leave(g)
    /\ UNCHANGED <<testVars, performed, handlers, nextID, holder, requests>>

\* Jobs go, handlers and the ID counter stay.
ClearAll(g) ==
    /\ pc[g] = "clear"
    /\ holder[at[g]] = None
    /\ enqueued' = [enqueued EXCEPT ![at[g]] = <<>>]
    /\ performed' = [performed EXCEPT ![at[g]] = <<>>]
    /\ Leave(g)
    /\ UNCHANGED <<testVars, handlers, nextID, holder, requests>>

Drain(g) ==
    /\ pc[g] = "lock"
    /\ holder[at[g]] = None
    /\ holder' = [holder EXCEPT ![at[g]] = g]
    /\ pos' = [pos EXCEPT ![g] = 1]
    /\ Go(g, "drain")
    /\ UNCHANGED <<testVars, enqueued, performed, handlers, nextID, at, requests>>

\* The job Drain has reached, when there is one.
Job(g) == enqueued[at[g]][pos[g]]
Reached(g) == pos[g] <= Len(enqueued[at[g]])

\* The job leaves Drain in state st, and a copy of it is kept in performed.
Perform(g, st, attempt) ==
    LET done == [Job(g) EXCEPT !.State = st, !.Attempt = attempt] IN
    /\ enqueued' = [enqueued EXCEPT ![at[g]][pos[g]] = done]
    /\ performed' = [performed EXCEPT ![at[g]] = Append(@, done)]
    /\ pos' = [pos EXCEPT ![g] = @ + 1]
    /\ Go(g, "drain")
    /\ UNCHANGED <<testVars, handlers, nextID, holder, at, requests>>

DrainSkips(g) ==
    /\ pc[g] = "drain"
    /\ Reached(g)
    /\ Job(g).State # "available"
    /\ pos' = [pos EXCEPT ![g] = @ + 1]
    /\ UNCHANGED <<testVars, storeVars, pc, at, requests>>

\* A job without a handler is completed.
DrainUnhandled(g) ==
    /\ pc[g] = "drain"
    /\ Reached(g)
    /\ Job(g).State = "available"
    /\ Job(g).Type \notin handlers[at[g]]
    /\ Perform(g, "completed", Job(g).Attempt + 1)

DrainCallsHandler(g) ==
    /\ pc[g] = "drain"
    /\ Reached(g)
    /\ Job(g).State = "available"
    /\ Job(g).Type \in handlers[at[g]]
    /\ enqueued' = [enqueued EXCEPT ![at[g]][pos[g]] =
          [Job(g) EXCEPT !.State = "active", !.Attempt = Job(g).Attempt + 1]]
    /\ Go(g, "handler")
    /\ UNCHANGED <<testVars, performed, handlers, nextID, holder, callVars, requests>>

HandlerReturns(g, st) ==
    /\ pc[g] = "handler"
    /\ Perform(g, st, Job(g).Attempt)

HandlerPanicsLocked(g) ==  \* mutant: the unlock is not deferred
    /\ pc[g] = "handler"
    /\ Leave(g)
    /\ UNCHANGED <<testVars, storeVars, requests>>

\* The deferred unlock runs, the job stays active; the test recovers from the panic.
HandlerPanics(g) ==
    /\ pc[g] = "handler"
    /\ holder' = [holder EXCEPT ![at[g]] = None]
    /\ Leave(g)
    /\ UNCHANGED <<testVars, enqueued, performed, handlers, nextID, requests>>

\* The handler enqueues a follow-up job.  Unless it goes to another store, nobody can
\* record it before Drain ends, and the call ends with the timeout.
HandlerEnqueues(g, t, reqs) ==
    /\ pc[g] = "handler"
    /\ Post(g, t, reqs)

DrainEndsEmptied(g) ==  \* mutant: jobs that have been performed leave the store
    /\ pc[g] = "drain"
    /\ ~Reached(g)
    /\ holder' = [holder EXCEPT ![at[g]] = None]
    /\ enqueued' = [enqueued EXCEPT ![at[g]] = <<>>]
    /\ Leave(g)
    /\ UNCHANGED <<testVars, performed, handlers, nextID, requests>>

DrainEnds(g) ==
    /\ pc[g] = "drain"
    /\ ~Reached(g)
    /\ holder' = [holder EXCEPT ![at[g]] = None]
    /\ Leave(g)
    /\ UNCHANGED <<testVars, enqueued, performed, handlers, nextID, requests>>

-----------------------------------------------------------------------------
Locks(g)       == ClearAll(g) \/ Drain(g)
DrainStep(g)   == DrainSkips(g) \/ DrainUnhandled(g) \/ DrainCallsHandler(g) \/ DrainEnds(g)
HandlerEnds(g) == HandlerPanics(g) \/ \E st \in {"completed", "discarded"} : HandlerReturns(g, st)

Next ==
    \/ \E t \in Tests : \/ Fake(t) \/ FakeClient(t) \/ Cleanup(t)
                        \/ \E type \in Types : RegisterHandler(t, type)
    \/ \E g \in Goroutines :
          \/ \E l \in {"clear", "lock"} : Call(g, l)
          \/ \E t \in Tests, reqs \in Batches : Enqueue(g, t, reqs) \/ HandlerEnqueues(g, t, reqs)
          \/ PostReturns(g) \/ Locks(g) \/ DrainStep(g) \/ HandlerEnds(g)
    \/ \E r \in 1..Len(requests) : RecordEnqueue(r)

Spec == Init /\ [][Next]_vars

\* A goroutine that can run does, a call of the client is answered or times out, and a
\* handler ends.  sync.Mutex hands itself to the longest waiter in the end (its
\* starvation mode), hence strong fairness for the server's goroutines.
Fairness ==
    /\ \A g \in Goroutines :
          WF_vars(DrainStep(g)) /\ WF_vars(PostReturns(g)) /\ WF_vars(HandlerEnds(g))
    /\ \A r \in 1..MaxJobs : SF_vars(RecordEnqueue(r))

FairSpec == Spec /\ Fairness

-----------------------------------------------------------------------------
(* Assertions, as predicates of the store they read: the one that is active *)
(* when they are called.  Jobs are matched by type.                         *)

\* The positions of the jobs that match.
filterJobs(jobs, type) == {i \in 1..Len(jobs) : jobs[i].Type = type}
Some(jobs, type, st) == \E i \in filterJobs(jobs, type) : jobs[i].State = st

\* With MatchCount exactly so many jobs are demanded, else (count 0) at least one.
AssertEnqueued(s, type, count) ==
    LET matches == filterJobs(enqueued[s], type) IN
    IF count > 0 THEN Cardinality(matches) = count ELSE matches # {}

RefuteEnqueued(s, type)  == filterJobs(enqueued[s], type) = {}
AssertPerformed(s, type) == filterJobs(performed[s], type) # {}
AssertCompleted(s, type) == Some(performed[s], type, "completed")
AssertFailed(s, type)    == Some(performed[s], type, "discarded")

-----------------------------------------------------------------------------
(* Properties.                                                              *)

InOrder(jobs) == \A i, k \in 1..Len(jobs) : i < k => jobs[i].ID < jobs[k].ID
Finished(jobs) ==
    {jobs[i] : i \in {i \in 1..Len(jobs) : jobs[i].State \in {"completed", "discarded"}}}

\* However drains, panics, clears and enqueues follow one another, performed is the
\* finished jobs of enqueued: in the order of the enqueues, each once, and in the state
\* and with the attempt that the queue shows for it.
PerformedIsWhatFinished ==
    \A s \in Tests :
        /\ InOrder(enqueued[s]) /\ InOrder(performed[s])
        /\ {performed[s][k] : k \in 1..Len(performed[s])} = Finished(enqueued[s])

\* A job is recorded in store s in this step.
Recorded(s) == Len(enqueued'[s]) > Len(enqueued[s])

\* Between two calls of ClearAll, "at least one" assertions stay true, and an exact count
\* or a refutation is taken back by nothing but the recording of another job: drains,
\* handlers that fail, panic or time out, and cleanups of other tests take no job away
\* and make none appear.
AssertionsAreStable ==
    [][\A s \in Tests, type \in Types :
          enqueued'[s] # <<>> \/ performed'[s] # <<>> =>
              /\ AssertEnqueued(s, type, 0) => AssertEnqueued(s, type, 0)'
              /\ \A n \in Counts : AssertEnqueued(s, type, n) =>
                                      AssertEnqueued(s, type, n)' \/ Recorded(s)
              /\ RefuteEnqueued(s, type) => RefuteEnqueued(s, type)' \/ Recorded(s)
              /\ AssertPerformed(s, type) => AssertPerformed(s, type)'
              /\ AssertCompleted(s, type) => AssertCompleted(s, type)'
              /\ AssertFailed(s, type) => AssertFailed(s, type)']_vars

\* The test that has called Fake last stays in fake mode until its own cleanup, however
\* the cleanups of the tests before it fall.
LatestFakeIsActive ==
    called # <<>> =>
        LET last == called[Len(called)] IN
        last \in running => activeStore = last

\* Every job that a fake client has posted is recorded in the end, also the one whose
\* caller was told that the call failed: although Drain runs handlers with the mutex held
\* (testing.go:303), and they panic, or enqueue into the store that is being drained, the
\* store is given back.
PostedIsRecorded == \A r \in 1..MaxJobs : UnderWay(r) ~> ~UnderWay(r)
=============================================================================
