-------------------------- MODULE FakeStoreProofs ---------------------------
(* The mutex of the test double protects what Drain works on, the latest    *)
(* call of Fake stays in force, what was performed is what has finished,    *)
(* and assertions stay true.                                                *)
EXTENDS FakeStore, SequenceTheorems, TLAPS

-----------------------------------------------------------------------------
(* The invariant.                                                           *)

\* A goroutine knows its store; one that drains holds the mutex of it, also while the
\* handler it has called enqueues, and is at a job of the store while the handler runs.
CallInv(g) ==
    /\ pc[g] = "idle" => at[g] = None
    /\ pc[g] \in {"clear", "lock"} => at[g] \in Tests
    /\ pc[g] \in {"drain", "handler"} => Drains(g) /\ pos[g] >= 1
    /\ pc[g] = "post" /\ at[g] # None => Drains(g)
    /\ pc[g] \in {"handler", "post"} /\ at[g] # None => pos[g] \in 1..Len(enqueued[at[g]])

\* The fake server of a request under way is open, so that its store is known.
RequestInv ==
    \A r \in 1..Len(requests) :
        requests[r].todo # <<>> =>
            requests[r].via \in Tests /\ clients[requests[r].via] \in Tests

\* The tests under way have called Fake, and the last one's store is active.
TestInv ==
    /\ \A t \in running : WasCalled(t)
    /\ LatestFakeIsActive
    /\ called = <<>> => activeStore = None

IInv == TypeOK /\ (\A g \in Goroutines : CallInv(g)) /\ TestInv /\ RequestInv

-----------------------------------------------------------------------------
LEMMA IInvInit == Init => IInv
<1> SUFFICES ASSUME Init PROVE IInv
  OBVIOUS
<1>1. TypeOK
  BY DEF Init, TypeOK
<1>2. \A g \in Goroutines : CallInv(g)
  BY DEF Init, CallInv
<1>3. TestInv
  BY DEF Init, TestInv, LatestFakeIsActive
<1>4. RequestInv
  BY DEF Init, RequestInv
<1> QED
  BY <1>1, <1>2, <1>3, <1>4 DEF IInv

\* Where a goroutine is depends on these variables only, and on the length of the store.
LEMMA CallInvStable ==
    ASSUME NEW g \in Goroutines, CallInv(g), TypeOK,
           pc'[g] = pc[g], at'[g] = at[g], pos'[g] = pos[g],
           Drains(g) => holder'[at[g]] = g /\ Len(enqueued'[at[g]]) >= Len(enqueued[at[g]])
    PROVE  CallInv(g)'
<1>1. CASE at[g] = None
  BY <1>1, FakeStoreAssumption DEF CallInv, Drains
<1>2. CASE at[g] # None
  <2>1. at[g] \in Tests /\ pos[g] \in Nat /\ Len(enqueued[at[g]]) \in Nat
    BY <1>2 DEF TypeOK
  <2>2. CASE Drains(g)
    <3>1. Len(enqueued'[at[g]]) >= Len(enqueued[at[g]]) /\ holder'[at[g]] = g
      BY <2>2
    <3>2. pos[g] \in 1..Len(enqueued[at[g]]) /\ Len(enqueued'[at[g]]) \in Int =>
             pos[g] \in 1..Len(enqueued'[at[g]])
      BY <2>1, <3>1
    <3> QED
      BY <1>2, <2>1, <3>1, <3>2 DEF CallInv, Drains
  <2>3. CASE ~Drains(g)
    BY <1>2, <2>3 DEF CallInv, Drains
  <2> QED
    BY <2>2, <2>3
<1> QED
  BY <1>1, <1>2

\* The tests' part depends on these variables only.
LEMMA TestInvStable ==
    ASSUME TestInv, UNCHANGED testVars
    PROVE  TestInv'
BY DEF TestInv, testVars, LatestFakeIsActive, WasCalled

\* So do the requests'.
LEMMA RequestInvStable ==
    ASSUME RequestInv, UNCHANGED <<clients, requests>>
    PROVE  RequestInv'
BY DEF RequestInv

-----------------------------------------------------------------------------
(* The tests.                                                               *)

LEMMA FakeInv ==
    ASSUME IInv, NEW t \in Tests, Fake(t)
    PROVE  IInv'
<1>1. TypeOK'
  BY DEF IInv, TypeOK, Fake, storeVars, callVars
<1>2. \A g \in Goroutines : CallInv(g)'
  BY DEF IInv, Fake, storeVars, callVars, CallInv, Drains
<1>3. TestInv'
  <2>1. called \in Seq(Tests) /\ called' = Append(called, t) /\ Len(called) \in Nat
    BY DEF IInv, TypeOK, Fake
  <2>2. /\ Len(called') = Len(called) + 1 /\ called'[Len(called')] = t
        /\ \A i \in 1..Len(called) : called'[i] = called[i]
        /\ 1..Len(called) \subseteq 1..Len(called') /\ Len(called') \in 1..Len(called')
    BY <2>1
  <2>3. \A x \in running' : \E i \in 1..Len(called') : called'[i] = x
    BY <2>2 DEF IInv, TestInv, Fake, WasCalled
  <2> QED
    BY <2>1, <2>2, <2>3 DEF TestInv, LatestFakeIsActive, WasCalled, Fake
<1>4. RequestInv'
  BY RequestInvStable DEF IInv, Fake
<1> QED
  BY <1>1, <1>2, <1>3, <1>4 DEF IInv

\* The cleanup of a test that is not the last one finds another store active, or none.
LEMMA CleanupInv ==
    ASSUME IInv, NEW t \in Tests, Cleanup(t)
    PROVE  IInv'
<1>1. TypeOK'
  BY DEF IInv, TypeOK, Cleanup, storeVars, callVars
<1>2. \A g \in Goroutines : CallInv(g)'
  BY DEF IInv, Cleanup, storeVars, callVars, CallInv, Drains
<1>3. TestInv'
  BY FakeStoreAssumption DEF IInv, TypeOK, TestInv, LatestFakeIsActive, WasCalled, Cleanup
<1>4. RequestInv'
  <2>1. requests' = requests /\ \A x \in Tests \ {t} : clients'[x] = clients[x]
    BY DEF IInv, TypeOK, Cleanup
  <2>2. \A r \in 1..Len(requests) : requests[r].via = t => requests[r].todo = <<>>
    BY DEF IInv, TypeOK, Cleanup, UnderWay
  <2> QED
    BY <2>1, <2>2 DEF IInv, RequestInv
<1> QED
  BY <1>1, <1>2, <1>3, <1>4 DEF IInv

LEMMA ClientInv ==
    ASSUME IInv, NEW t \in Tests,
           FakeClient(t) \/ \E type \in Types : RegisterHandler(t, type)
    PROVE  IInv'
<1>1. TypeOK'
  <2>1. CASE FakeClient(t)
    BY <2>1 DEF IInv, TypeOK, FakeClient, storeVars, callVars
  <2>2. CASE \E type \in Types : RegisterHandler(t, type)
    <3>1. /\ handlers' \in [Tests -> SUBSET Types]
          /\ UNCHANGED <<testVars, enqueued, performed, nextID, holder, pc, callVars, requests>>
      BY <2>2 DEF IInv, TypeOK, RegisterHandler
    <3> QED
      BY <3>1 DEF IInv, TypeOK, testVars, callVars
  <2> QED
    BY <2>1, <2>2
<1>2. \A g \in Goroutines : CallInv(g)'
  BY DEF IInv, FakeClient, RegisterHandler, storeVars, callVars, CallInv, Drains
<1>3. TestInv'
  BY DEF IInv, FakeClient, RegisterHandler, testVars, TestInv, LatestFakeIsActive, WasCalled
<1>4. RequestInv'
  <2>1. requests' = requests /\ \A x \in Tests : clients[x] \in Tests => clients'[x] = clients[x]
    BY FakeStoreAssumption DEF IInv, TypeOK, FakeClient, RegisterHandler, testVars
  <2> QED
    BY <2>1 DEF IInv, RequestInv
<1> QED
  BY <1>1, <1>2, <1>3, <1>4 DEF IInv

-----------------------------------------------------------------------------
(* The goroutines.  Each lemma shows the types, the goroutine's own part,   *)
(* and that it leaves alone what another one drains.                        *)

LEMMA Others ==
    ASSUME IInv, NEW g \in Goroutines, TypeOK', CallInv(g)', UNCHANGED testVars, RequestInv',
           \A h \in Goroutines \ {g} :
              /\ pc'[h] = pc[h] /\ at'[h] = at[h] /\ pos'[h] = pos[h]
              /\ Drains(h) => /\ holder'[at[h]] = h
                              /\ Len(enqueued'[at[h]]) >= Len(enqueued[at[h]])
    PROVE  IInv'
<1>1. TestInv'
  BY TestInvStable DEF IInv
<1>2. \A h \in Goroutines \ {g} : CallInv(h)'
  BY CallInvStable DEF IInv
<1> QED
  BY <1>1, <1>2 DEF IInv

\* ... and that posts nothing.
LEMMA QuietOthers ==
    ASSUME IInv, NEW g \in Goroutines, TypeOK', CallInv(g)', UNCHANGED <<testVars, requests>>,
           \A h \in Goroutines \ {g} :
              /\ pc'[h] = pc[h] /\ at'[h] = at[h] /\ pos'[h] = pos[h]
              /\ Drains(h) => /\ holder'[at[h]] = h
                              /\ Len(enqueued'[at[h]]) >= Len(enqueued[at[h]])
    PROVE  IInv'
<1>1. RequestInv'
  BY RequestInvStable DEF IInv, testVars
<1> QED
  BY <1>1, Others

LEMMA CallLemma ==
    ASSUME IInv, NEW g \in Goroutines, NEW l \in {"clear", "lock"}, Call(g, l)
    PROVE  IInv'
<1>1. TypeOK'
  BY DEF IInv, TypeOK, Call, Go, storeVars, testVars
<1>2. CallInv(g)'
  BY DEF IInv, TypeOK, Call, Go, CallInv
<1>3. \A h \in Goroutines : Len(enqueued[at[h]]) \in Nat \/ ~Drains(h)
  BY DEF IInv, TypeOK, Drains
<1>4. ASSUME NEW h \in Goroutines \ {g}
      PROVE  /\ pc'[h] = pc[h] /\ at'[h] = at[h] /\ pos'[h] = pos[h]
             /\ Drains(h) => /\ holder'[at[h]] = h
                             /\ Len(enqueued'[at[h]]) >= Len(enqueued[at[h]])
  BY <1>3 DEF IInv, TypeOK, Call, Go, storeVars, Drains
<1> QED
  BY <1>1, <1>2, <1>4, QuietOthers DEF Call

LEMMA PostInv ==
    ASSUME IInv, NEW g \in Goroutines, NEW t \in Tests, NEW reqs \in Batches,
           pc[g] \in {"idle", "handler"}, Post(g, t, reqs)
    PROVE  IInv'
<1>1. reqs \in Seq(Types) /\ reqs # <<>>
  <2>1. reqs \in Seq(Types \cup {Invalid}) /\ reqs # <<>>
    BY FakeStoreAssumption
  <2>2. \A i \in 1..Len(reqs) : reqs[i] \in Types
    BY <2>1 DEF Post, Valid
  <2> QED
    BY <2>1, <2>2
<1>2. PICK req : req = [via |-> t, todo |-> reqs]
  OBVIOUS
<1>3. /\ req \in Request /\ req.via = t /\ requests \in Seq(Request)
      /\ requests' = Append(requests, req) /\ clients' = clients /\ clients[t] \in Tests
  BY <1>1, <1>2 DEF IInv, TypeOK, Post, Request, testVars
<1>4. /\ requests' \in Seq(Request) /\ Len(requests) \in Nat
      /\ Len(requests') = Len(requests) + 1 /\ requests'[Len(requests) + 1] = req
      /\ \A r \in 1..Len(requests) : requests'[r] = requests[r]
  BY <1>3
<1>5. RequestInv'
  <2> SUFFICES ASSUME NEW r \in 1..Len(requests'), requests'[r].todo # <<>>
               PROVE  requests'[r].via \in Tests /\ clients[requests'[r].via] \in Tests
    BY <1>3 DEF RequestInv
  <2>1. CASE r \in 1..Len(requests)
    BY <1>4, <2>1 DEF IInv, RequestInv
  <2>2. CASE r = Len(requests) + 1
    BY <1>3, <1>4, <2>2
  <2> QED
    BY <1>4, <2>1, <2>2
<1>6. TypeOK'
  BY <1>4 DEF IInv, TypeOK, Post, Go, storeVars, testVars, callVars
<1>7. CallInv(g)'
  BY DEF IInv, TypeOK, Post, Go, CallInv, Drains, storeVars, callVars
<1>8. \A h \in Goroutines : Len(enqueued[at[h]]) \in Nat \/ ~Drains(h)
  BY DEF IInv, TypeOK, Drains
<1>9. ASSUME NEW h \in Goroutines \ {g}
      PROVE  /\ pc'[h] = pc[h] /\ at'[h] = at[h] /\ pos'[h] = pos[h]
             /\ Drains(h) => /\ holder'[at[h]] = h
                             /\ Len(enqueued'[at[h]]) >= Len(enqueued[at[h]])
  BY <1>8 DEF IInv, TypeOK, Post, Go, storeVars, callVars, Drains
<1> QED
  BY <1>5, <1>6, <1>7, <1>9, Others DEF Post

LEMMA PostReturnsInv ==
    ASSUME IInv, NEW g \in Goroutines, PostReturns(g)
    PROVE  IInv'
<1>1. TypeOK'
  BY DEF IInv, TypeOK, PostReturns, Go, storeVars, testVars, callVars
<1>2. CallInv(g)'
  <2>1. /\ at'[g] = at[g] /\ pos'[g] = pos[g] /\ holder' = holder /\ enqueued' = enqueued
        /\ pc'[g] = (IF Drains(g) THEN "handler" ELSE "idle") /\ pos[g] \in Nat
        /\ at[g] # None => Drains(g) /\ pos[g] \in 1..Len(enqueued[at[g]])
    BY DEF IInv, TypeOK, CallInv, PostReturns, Go, storeVars, callVars
  <2>2. Drains(g)' <=> Drains(g)
    BY <2>1 DEF Drains
  <2>3. Drains(g) => at[g] # None
    BY DEF Drains
  <2> QED
    BY <2>1, <2>2, <2>3 DEF CallInv
<1>3. \A h \in Goroutines : Len(enqueued[at[h]]) \in Nat \/ ~Drains(h)
  BY DEF IInv, TypeOK, Drains
<1>4. ASSUME NEW h \in Goroutines \ {g}
      PROVE  /\ pc'[h] = pc[h] /\ at'[h] = at[h] /\ pos'[h] = pos[h]
             /\ Drains(h) => /\ holder'[at[h]] = h
                             /\ Len(enqueued'[at[h]]) >= Len(enqueued[at[h]])
  BY <1>3 DEF IInv, TypeOK, PostReturns, Go, storeVars, callVars, Drains
<1> QED
  BY <1>1, <1>2, <1>4, QuietOthers DEF PostReturns

\* The store of a request under way, and the job recorded next.
LEMMA AtRequest ==
    ASSUME IInv, NEW r \in 1..Len(requests), RecordEnqueue(r)
    PROVE  \E s \in Tests, j \in FakeJob :
              /\ s = clients[requests[r].via]
              /\ j.ID = nextID[s] + 1 /\ j.State = "available"
              /\ holder[s] = None
              /\ nextID' = [nextID EXCEPT ![s] = @ + 1]
              /\ enqueued' = [enqueued EXCEPT ![s] = Append(@, j)]
<1>1. PICK s \in Tests : s = clients[requests[r].via]
  BY DEF IInv, RequestInv, RecordEnqueue, UnderWay
<1>2. /\ requests[r] \in Request /\ requests[r].todo # <<>>
      /\ enqueued \in [Tests -> Seq(FakeJob)] /\ nextID \in [Tests -> Nat]
  BY DEF IInv, TypeOK, RecordEnqueue, UnderWay
<1>3. Head(requests[r].todo) \in Types
  <2>1. requests[r].todo \in Seq(Types)
    BY <1>2 DEF Request
  <2> QED
    BY <1>2, <2>1, HeadTailProperties
<1>4. PICK j : j = NewJob(nextID[s] + 1, Head(requests[r].todo))
  OBVIOUS
<1>5. j \in FakeJob /\ j.ID = nextID[s] + 1 /\ j.State = "available"
  BY <1>2, <1>3, <1>4 DEF NewJob, FakeJob, States
<1>6. /\ nextID' = [nextID EXCEPT ![s] = @ + 1]
      /\ enqueued' = [enqueued EXCEPT ![s] = Append(@, j)]
      /\ holder[s] = None
  BY <1>1, <1>2, <1>4 DEF RecordEnqueue
<1> QED
  BY <1>1, <1>5, <1>6

LEMMA RecordInv ==
    ASSUME IInv, NEW r \in 1..Len(requests), RecordEnqueue(r)
    PROVE  IInv'
<1>1. PICK s \in Tests, j \in FakeJob :
             /\ holder[s] = None
             /\ nextID' = [nextID EXCEPT ![s] = @ + 1]
             /\ enqueued' = [enqueued EXCEPT ![s] = Append(@, j)]
  BY AtRequest
<1>2. enqueued \in [Tests -> Seq(FakeJob)] /\ enqueued' \in [Tests -> Seq(FakeJob)]
  BY <1>1 DEF IInv, TypeOK
<1>3. \A x \in Tests : /\ Len(enqueued[x]) \in Nat /\ Len(enqueued'[x]) \in Nat
                       /\ Len(enqueued'[x]) >= Len(enqueued[x])
  BY <1>1, <1>2
<1>4. PICK req \in Request :
             /\ requests' = [requests EXCEPT ![r] = req]
             /\ req.todo # <<>> => req.via = requests[r].via
  <2>1. requests \in Seq(Request) /\ requests[r] \in Request
    BY DEF IInv, TypeOK
  <2>2. requests[r].todo \in Seq(Types) /\ requests[r].via \in Tests \cup {None}
    BY <2>1 DEF Request
  <2>3. CASE Len(requests[r].todo) > 1
    <3>1. Tail(requests[r].todo) \in Seq(Types)
      BY <2>2, <2>3
    <3>2. Rest(requests[r]) = [via |-> requests[r].via, todo |-> Tail(requests[r].todo)]
      BY <2>3 DEF Rest
    <3>3. Rest(requests[r]) \in Request /\ Rest(requests[r]).via = requests[r].via
      BY <2>2, <3>1, <3>2 DEF Request
    <3> QED
      BY <3>3 DEF RecordEnqueue
  <2>4. CASE ~(Len(requests[r].todo) > 1)
    <3>1. Answered \in Request /\ Answered.todo = <<>>
      BY DEF Answered, Request
    <3>2. Rest(requests[r]) = Answered
      BY <2>4 DEF Rest
    <3> QED
      BY <3>1, <3>2 DEF RecordEnqueue
  <2> QED
    BY <2>3, <2>4
<1>5. /\ requests' \in Seq(Request) /\ Len(requests') = Len(requests)
      /\ requests'[r] = req
      /\ \A x \in 1..Len(requests) : x # r => requests'[x] = requests[x]
  BY <1>4 DEF IInv, TypeOK
<1>6. TypeOK'
  <2>1. nextID' \in [Tests -> Nat]
    BY <1>1 DEF IInv, TypeOK
  <2>2. UNCHANGED <<testVars, performed, handlers, holder, pc, callVars>>
    BY DEF RecordEnqueue
  <2> QED
    BY <1>2, <1>5, <2>1, <2>2 DEF IInv, TypeOK, testVars, callVars
<1>7. ASSUME NEW h \in Goroutines PROVE CallInv(h)'
  <2>1. pc'[h] = pc[h] /\ at'[h] = at[h] /\ pos'[h] = pos[h] /\ holder' = holder
    BY DEF RecordEnqueue, callVars
  <2>2. Drains(h) => /\ holder'[at[h]] = h
                     /\ Len(enqueued'[at[h]]) >= Len(enqueued[at[h]])
    BY <1>3, <2>1 DEF Drains, IInv, TypeOK
  <2> QED
    BY <2>1, <2>2, CallInvStable DEF IInv
<1>8. RequestInv'
  <2>1. /\ clients' = clients
        /\ requests[r].via \in Tests /\ clients[requests[r].via] \in Tests
    BY DEF IInv, RequestInv, RecordEnqueue, UnderWay, testVars
  <2> QED
    BY <1>4, <1>5, <2>1 DEF IInv, RequestInv
<1>9. TestInv'
  BY TestInvStable DEF IInv, RecordEnqueue
<1> QED
  BY <1>6, <1>7, <1>8, <1>9 DEF IInv

LEMMA ClearInv ==
    ASSUME IInv, NEW g \in Goroutines, ClearAll(g)
    PROVE  IInv'
<1>1. at[g] \in Tests /\ holder[at[g]] = None
  BY DEF IInv, CallInv, ClearAll
<1>2. TypeOK'
  BY <1>1 DEF IInv, TypeOK, ClearAll, Leave, Go, testVars
<1>3. CallInv(g)'
  BY DEF IInv, TypeOK, CallInv, ClearAll, Leave, Go
<1>4. ASSUME NEW h \in Goroutines \ {g}, Drains(h)
      PROVE  /\ holder'[at[h]] = h
             /\ Len(enqueued'[at[h]]) >= Len(enqueued[at[h]])
  <2>1. at[h] \in Tests /\ at[h] # at[g] /\ Len(enqueued[at[h]]) \in Nat
    BY <1>1, <1>4, FakeStoreAssumption DEF IInv, TypeOK, Drains
  <2> QED
    BY <1>4, <2>1 DEF ClearAll, Drains, IInv, TypeOK
<1> QED
  BY <1>2, <1>3, <1>4, QuietOthers DEF IInv, TypeOK, ClearAll, Leave, Go

LEMMA DrainInv ==
    ASSUME IInv, NEW g \in Goroutines, Drain(g)
    PROVE  IInv'
<1>1. at[g] \in Tests /\ holder[at[g]] = None
  BY DEF IInv, CallInv, Drain
<1>2. TypeOK'
  BY <1>1 DEF IInv, TypeOK, Drain, Go, testVars
<1>3. CallInv(g)'
  BY <1>1, FakeStoreAssumption DEF IInv, TypeOK, CallInv, Drain, Drains, Go
<1>4. ASSUME NEW h \in Goroutines \ {g}, Drains(h)
      PROVE  /\ holder'[at[h]] = h
             /\ Len(enqueued'[at[h]]) >= Len(enqueued[at[h]])
  <2>1. at[h] \in Tests /\ at[h] # at[g] /\ Len(enqueued[at[h]]) \in Nat
    BY <1>1, <1>4, FakeStoreAssumption DEF IInv, TypeOK, Drains
  <2> QED
    BY <1>4, <2>1 DEF Drain, Drains, IInv, TypeOK
<1> QED
  BY <1>2, <1>3, <1>4, QuietOthers DEF IInv, TypeOK, Drain, Go

\* Both ends of Drain: the mutex is released and the goroutine leaves.
LEMMA LeaveInv ==
    ASSUME IInv, NEW g \in Goroutines, HandlerPanics(g) \/ DrainEnds(g)
    PROVE  IInv'
<1>1. at[g] \in Tests /\ holder[at[g]] = g
  BY DEF IInv, TypeOK, CallInv, Drains, HandlerPanics, DrainEnds
<1>2. TypeOK'
  <2>1. /\ holder' = [holder EXCEPT ![at[g]] = None]
        /\ pc' = [pc EXCEPT ![g] = "idle"]
        /\ at' = [at EXCEPT ![g] = None]
        /\ pos' = [pos EXCEPT ![g] = 0]
        /\ UNCHANGED <<testVars, enqueued, performed, handlers, nextID, requests>>
    BY DEF HandlerPanics, DrainEnds, Leave, Go
  <2> QED
    BY <1>1, <2>1 DEF IInv, TypeOK, testVars
<1>3. CallInv(g)'
  BY DEF IInv, TypeOK, CallInv, HandlerPanics, DrainEnds, Leave, Go
<1>4. ASSUME NEW h \in Goroutines \ {g}, Drains(h)
      PROVE  /\ holder'[at[h]] = h
             /\ Len(enqueued'[at[h]]) >= Len(enqueued[at[h]])
  <2>1. at[h] \in Tests /\ at[h] # at[g] /\ Len(enqueued[at[h]]) \in Nat
    BY <1>1, <1>4 DEF IInv, TypeOK, Drains
  <2> QED
    BY <1>4, <2>1 DEF HandlerPanics, DrainEnds, Drains, IInv, TypeOK
<1> QED
  BY <1>2, <1>3, <1>4, QuietOthers DEF IInv, TypeOK, HandlerPanics, DrainEnds, Leave, Go

LEMMA SkipInv ==
    ASSUME IInv, NEW g \in Goroutines, DrainSkips(g)
    PROVE  IInv'
<1>1. pos[g] \in Nat /\ Drains(g) /\ pos'[g] = pos[g] + 1
  BY DEF IInv, TypeOK, CallInv, DrainSkips
<1>2. TypeOK'
  BY <1>1 DEF IInv, TypeOK, DrainSkips, testVars, storeVars
<1>3. CallInv(g)'
  BY <1>1 DEF IInv, TypeOK, CallInv, DrainSkips, storeVars, Drains
<1>4. \A h \in Goroutines : Len(enqueued[at[h]]) \in Nat \/ ~Drains(h)
  BY DEF IInv, TypeOK, Drains
<1>5. ASSUME NEW h \in Goroutines \ {g}
      PROVE  /\ pc'[h] = pc[h] /\ at'[h] = at[h] /\ pos'[h] = pos[h]
             /\ Drains(h) => /\ holder'[at[h]] = h
                             /\ Len(enqueued'[at[h]]) >= Len(enqueued[at[h]])
  BY <1>4 DEF IInv, TypeOK, DrainSkips, storeVars, Drains
<1> QED
  BY <1>2, <1>3, <1>5, QuietOthers DEF DrainSkips

\* A job of the store is replaced by another one: the store keeps its length.
LEMMA JobReplaced ==
    ASSUME IInv, NEW g \in Goroutines, Drains(g), pos[g] \in 1..Len(enqueued[at[g]]),
           NEW j \in FakeJob, enqueued' = [enqueued EXCEPT ![at[g]][pos[g]] = j]
    PROVE  /\ enqueued' \in [Tests -> Seq(FakeJob)]
           /\ \A x \in Tests : /\ Len(enqueued[x]) \in Nat
                                /\ Len(enqueued'[x]) = Len(enqueued[x])
<1>1. at[g] \in Tests /\ enqueued \in [Tests -> Seq(FakeJob)]
  BY DEF IInv, TypeOK, Drains
<1> DEFINE q == [enqueued[at[g]] EXCEPT ![pos[g]] = j]
<1>2. q \in Seq(FakeJob) /\ Len(q) = Len(enqueued[at[g]])
  BY <1>1
<1>3. enqueued' = [enqueued EXCEPT ![at[g]] = q]
  BY <1>1
<1> QED
  BY <1>1, <1>2, <1>3

LEMMA PerformInv ==
    ASSUME IInv, NEW g \in Goroutines, Drains(g), pos[g] \in 1..Len(enqueued[at[g]]),
           NEW st \in States, NEW attempt \in Nat, Perform(g, st, attempt)
    PROVE  IInv'
<1> DEFINE done == [Job(g) EXCEPT !.State = st, !.Attempt = attempt]
<1>1. at[g] \in Tests /\ pos[g] \in Nat /\ enqueued[at[g]] \in Seq(FakeJob)
  BY DEF IInv, TypeOK, Drains
<1>2. Job(g) \in FakeJob
  BY <1>1 DEF Job
<1>3. done \in FakeJob
  BY <1>2 DEF FakeJob
<1>4. /\ enqueued' = [enqueued EXCEPT ![at[g]][pos[g]] = done]
      /\ performed' = [performed EXCEPT ![at[g]] = Append(@, done)]
      /\ UNCHANGED <<testVars, handlers, nextID, holder, at, requests>>
      /\ pos' = [pos EXCEPT ![g] = @ + 1]
      /\ pc' = [pc EXCEPT ![g] = "drain"]
  BY DEF Perform, Go
<1> HIDE DEF done
<1>5. /\ enqueued' \in [Tests -> Seq(FakeJob)]
      /\ \A x \in Tests : /\ Len(enqueued[x]) \in Nat
                           /\ Len(enqueued'[x]) = Len(enqueued[x])
  BY <1>3, <1>4, JobReplaced
<1>6. TypeOK'
  <2>1. performed' \in [Tests -> Seq(FakeJob)]
    BY <1>1, <1>3, <1>4 DEF IInv, TypeOK
  <2>2. pos' \in [Goroutines -> Nat]
    <3>1. pos \in [Goroutines -> Nat] /\ pos' = [pos EXCEPT ![g] = @ + 1]
      BY <1>4 DEF IInv, TypeOK
    <3> QED
      BY <3>1
  <2> QED
    BY <1>4, <1>5, <2>1, <2>2 DEF IInv, TypeOK, testVars
<1>7. CallInv(g)'
  BY <1>1, <1>4 DEF IInv, TypeOK, CallInv, Drains
<1>8. ASSUME NEW h \in Goroutines \ {g}
      PROVE  /\ pc'[h] = pc[h] /\ at'[h] = at[h] /\ pos'[h] = pos[h]
             /\ Drains(h) => /\ holder'[at[h]] = h
                             /\ Len(enqueued'[at[h]]) >= Len(enqueued[at[h]])
  BY <1>4, <1>5 DEF IInv, TypeOK, Drains
<1> QED
  BY <1>4, <1>6, <1>7, <1>8, QuietOthers

LEMMA HandlerCallInv ==
    ASSUME IInv, NEW g \in Goroutines, DrainCallsHandler(g)
    PROVE  IInv'
<1> DEFINE j == [Job(g) EXCEPT !.State = "active", !.Attempt = Job(g).Attempt + 1]
<1>1. /\ at[g] \in Tests /\ pos[g] \in Nat /\ enqueued[at[g]] \in Seq(FakeJob)
      /\ Drains(g) /\ pos[g] \in 1..Len(enqueued[at[g]])
  BY DEF IInv, TypeOK, CallInv, Drains, DrainCallsHandler, Reached
<1>2. Job(g) \in FakeJob
  BY <1>1 DEF Job
<1>3. j \in FakeJob
  <2>1. Job(g).Attempt + 1 \in Nat /\ "active" \in States
    BY <1>2 DEF FakeJob, States
  <2> QED
    BY <1>2, <2>1 DEF FakeJob
<1>4. /\ enqueued' = [enqueued EXCEPT ![at[g]][pos[g]] = j]
      /\ UNCHANGED <<testVars, performed, handlers, nextID, holder, callVars, requests>>
      /\ pc' = [pc EXCEPT ![g] = "handler"]
  <2>1. enqueued \in [Tests -> Seq(FakeJob)]
    BY DEF IInv, TypeOK
  <2> QED
    BY <1>1, <2>1 DEF DrainCallsHandler, Go, Job
<1> HIDE DEF j
<1>5. /\ enqueued' \in [Tests -> Seq(FakeJob)]
      /\ \A x \in Tests : /\ Len(enqueued[x]) \in Nat
                           /\ Len(enqueued'[x]) = Len(enqueued[x])
  BY <1>1, <1>3, <1>4, JobReplaced
<1>6. TypeOK'
  BY <1>4, <1>5 DEF IInv, TypeOK, testVars, callVars
<1>7. CallInv(g)'
  BY <1>1, <1>4, <1>5 DEF IInv, TypeOK, CallInv, Drains, callVars
<1>8. ASSUME NEW h \in Goroutines \ {g}
      PROVE  /\ pc'[h] = pc[h] /\ at'[h] = at[h] /\ pos'[h] = pos[h]
             /\ Drains(h) => /\ holder'[at[h]] = h
                             /\ Len(enqueued'[at[h]]) >= Len(enqueued[at[h]])
  BY <1>4, <1>5 DEF IInv, TypeOK, Drains, callVars
<1> QED
  BY <1>4, <1>6, <1>7, <1>8, QuietOthers

LEMMA UnhandledInv ==
    ASSUME IInv, NEW g \in Goroutines,
           DrainUnhandled(g) \/ \E st \in {"completed", "discarded"} : HandlerReturns(g, st)
    PROVE  IInv'
<1>1. at[g] \in Tests /\ Drains(g) /\ enqueued[at[g]] \in Seq(FakeJob) /\ pos[g] \in Nat
  BY DEF IInv, TypeOK, CallInv, Drains, DrainUnhandled, HandlerReturns
<1>2. pos[g] \in 1..Len(enqueued[at[g]])
  BY <1>1 DEF IInv, CallInv, Drains, DrainUnhandled, HandlerReturns, Reached
<1>3. Job(g) \in FakeJob
  BY <1>1, <1>2 DEF Job
<1>4. Job(g).Attempt \in Nat /\ Job(g).Attempt + 1 \in Nat
  BY <1>3 DEF FakeJob
<1>5. "completed" \in States /\ "discarded" \in States
  BY DEF States
<1> QED
  BY <1>1, <1>2, <1>4, <1>5, PerformInv DEF DrainUnhandled, HandlerReturns

-----------------------------------------------------------------------------
\* The store's mutex is held by whoever drains it until Drain ends or a handler panics,
\* so nobody else moves the jobs under it (ojstesting/testing.go, Drain).
THEOREM FakeStoreInvariant == Spec => []IInv
<1>1. IInv /\ [Next]_vars => IInv'
  <2> SUFFICES ASSUME IInv, [Next]_vars PROVE IInv'
    OBVIOUS
  <2>1. ASSUME NEW t \in Tests,
               Fake(t) \/ FakeClient(t) \/ Cleanup(t) \/ \E type \in Types : RegisterHandler(t, type)
        PROVE  IInv'
    BY <2>1, FakeInv, CleanupInv, ClientInv
  <2>2. ASSUME NEW g \in Goroutines, \E l \in {"clear", "lock"} : Call(g, l) PROVE IInv'
    BY <2>2, CallLemma
  <2>3. ASSUME NEW g \in Goroutines, NEW t \in Tests, NEW reqs \in Batches,
               Enqueue(g, t, reqs) \/ HandlerEnqueues(g, t, reqs)
        PROVE  IInv'
    BY <2>3, PostInv DEF Enqueue, HandlerEnqueues
  <2>4. ASSUME NEW g \in Goroutines, Locks(g) PROVE IInv'
    BY <2>4, ClearInv, DrainInv DEF Locks
  <2>5. ASSUME NEW g \in Goroutines, DrainStep(g) PROVE IInv'
    BY <2>5, SkipInv, UnhandledInv, HandlerCallInv, LeaveInv DEF DrainStep
  <2>6. ASSUME NEW g \in Goroutines, HandlerEnds(g) PROVE IInv'
    BY <2>6, UnhandledInv, LeaveInv DEF HandlerEnds
  <2>7. ASSUME NEW g \in Goroutines, PostReturns(g) PROVE IInv'
    BY <2>7, PostReturnsInv
  <2>8. ASSUME NEW r \in 1..Len(requests), RecordEnqueue(r) PROVE IInv'
    BY <2>8, RecordInv
  <2>9. CASE UNCHANGED vars
    <3>1. TypeOK' /\ TestInv' /\ RequestInv'
      BY <2>9, TestInvStable, RequestInvStable
         DEF vars, testVars, storeVars, callVars, IInv, TypeOK
    <3>2. \A g \in Goroutines : CallInv(g)'
      BY <2>9 DEF vars, storeVars, callVars, IInv, CallInv, Drains
    <3> QED
      BY <3>1, <3>2 DEF IInv
  <2> QED
    BY <2>1, <2>2, <2>3, <2>4, <2>5, <2>6, <2>7, <2>8, <2>9 DEF Next
<1> QED
  BY <1>1, IInvInit, PTL DEF Spec

\* Stores hold well-formed jobs, and Drain's index never leaves the store it walks.
THEOREM FakeStoreTypes == Spec => []TypeOK
<1>1. IInv => TypeOK
  BY DEF IInv
<1> QED
  BY <1>1, FakeStoreInvariant, PTL

\* The test that called Fake last stays in fake mode until its own cleanup, for any number
\* of overlapping tests and any order of their cleanups.
THEOREM LatestFakeStaysActive == Spec => []LatestFakeIsActive
<1>1. IInv => LatestFakeIsActive
  BY DEF IInv, TestInv
<1> QED
  BY <1>1, FakeStoreInvariant, PTL

-----------------------------------------------------------------------------
(* What Drain leaves behind.                                                *)

\* Goroutine g is between the beginning and the end of Drain.
Draining(g) == pc[g] \in {"drain", "handler"} \/ (pc[g] = "post" /\ at[g] # None)

\* All jobs performed so far were enqueued before job j.
Before(jobs, j) == \A k \in 1..Len(jobs) : jobs[k].ID < j.ID

\* The jobs enqueued and performed agree, IDs up to n are used, and nothing was performed
\* that came after a job which is still to be drained.
Agree(jobs, done, n) ==
    /\ InOrder(jobs) /\ InOrder(done)
    /\ \A i \in 1..Len(jobs) : jobs[i].ID <= n
    /\ {done[k] : k \in 1..Len(done)} = Finished(jobs)
    /\ \A i \in 1..Len(jobs) : jobs[i].State = "available" => Before(done, jobs[i])

StoreInv(s) == Agree(enqueued[s], performed[s], nextID[s])

\* Drain leaves no available job behind its index; the job of a handler is active.
PassedInv(g) ==
    Draining(g) =>
        /\ \A i \in 1..Len(enqueued[at[g]]) : i < pos[g] => enqueued[at[g]][i].State # "available"
        /\ pc[g] # "drain" => Job(g).State = "active" /\ Before(performed[at[g]], Job(g))

JobsInv == (\A s \in Tests : StoreInv(s)) /\ (\A g \in Goroutines : PassedInv(g))

-----------------------------------------------------------------------------
(* What one step makes of the two lists.                                    *)

\* A new job comes last, with a larger ID.
LEMMA ListAppended ==
    ASSUME NEW q \in Seq(FakeJob), NEW P \in Seq(FakeJob), NEW j \in FakeJob,
           InOrder(q), \A i \in 1..Len(q) : q[i].ID < j.ID,
           j.State = "available", {P[k] : k \in 1..Len(P)} = Finished(q),
           \A i \in 1..Len(q) : q[i].State = "available" => Before(P, q[i])
    PROVE  LET qq == Append(q, j) IN
           /\ InOrder(qq)
           /\ \A i \in 1..Len(qq) : qq[i].ID <= j.ID
           /\ {P[k] : k \in 1..Len(P)} = Finished(qq)
           /\ \A i \in 1..Len(qq) : qq[i].State = "available" => Before(P, qq[i])
<1> DEFINE qq == Append(q, j)
<1>1. /\ Len(q) \in Nat /\ Len(qq) = Len(q) + 1 /\ qq[Len(qq)] = j
      /\ \A i \in 1..Len(q) : qq[i] = q[i] /\ q[i] \in FakeJob
  OBVIOUS
<1> HIDE DEF qq
<1>2. \A i \in 1..Len(qq) : (i \in 1..Len(q) /\ qq[i] = q[i]) \/ (i = Len(qq) /\ qq[i] = j)
  BY <1>1
<1>3. j.ID \in Nat /\ \A i \in 1..Len(q) : q[i].ID \in Nat
  BY <1>1 DEF FakeJob
<1>4. InOrder(qq)
  <2> SUFFICES ASSUME NEW i \in 1..Len(qq), NEW k \in 1..Len(qq), i < k PROVE qq[i].ID < qq[k].ID
    BY DEF InOrder
  <2>1. i \in 1..Len(q) /\ qq[i] = q[i]
    BY <1>1, <1>2
  <2>2. CASE k \in 1..Len(q) /\ qq[k] = q[k]
    BY <2>1, <2>2 DEF InOrder
  <2>3. CASE qq[k] = j
    BY <2>1, <2>3
  <2> QED
    BY <1>2, <2>2, <2>3
<1>5. \A i \in 1..Len(qq) : qq[i].ID <= j.ID
  BY <1>2, <1>3
<1>6. Finished(qq) = Finished(q)
  <2>1. \A x : x \in Finished(qq) <=> \E i \in 1..Len(qq) : qq[i] = x /\ x.State \in {"completed", "discarded"}
    BY DEF Finished
  <2>2. \A x : x \in Finished(q) <=> \E i \in 1..Len(q) : q[i] = x /\ x.State \in {"completed", "discarded"}
    BY DEF Finished
  <2>3. 1..Len(q) \subseteq 1..Len(qq)
    BY <1>1
  <2>4. \A x : x \in Finished(qq) <=> x \in Finished(q)
    BY <1>1, <1>2, <2>1, <2>2, <2>3
  <2> QED
    BY <2>4
<1>7. Before(P, j)
  <2> SUFFICES ASSUME NEW k \in 1..Len(P) PROVE P[k].ID < j.ID
    BY DEF Before
  <2>1. PICK i \in 1..Len(q) : q[i] = P[k]
    BY DEF Finished
  <2> QED
    BY <2>1
<1>8. \A i \in 1..Len(qq) : qq[i].State = "available" => Before(P, qq[i])
  BY <1>2, <1>7
<1> QED
  BY <1>4, <1>5, <1>6, <1>8 DEF qq

\* A job that is replaced by one with its ID keeps its place.
LEMMA ListReplaced ==
    ASSUME NEW q \in Seq(FakeJob), NEW p \in 1..Len(q), NEW j \in FakeJob, j.ID = q[p].ID,
           InOrder(q)
    PROVE  LET qq == [q EXCEPT ![p] = j] IN
           /\ Len(qq) = Len(q) /\ qq[p] = j
           /\ \A i \in 1..Len(q) : i # p => qq[i] = q[i]
           /\ \A i \in 1..Len(q) : qq[i].ID = q[i].ID
           /\ InOrder(qq)
<1> DEFINE qq == [q EXCEPT ![p] = j]
<1>1. /\ Len(qq) = Len(q) /\ qq[p] = j
      /\ \A i \in 1..Len(q) : i # p => qq[i] = q[i]
  OBVIOUS
<1> HIDE DEF qq
<1>2. \A i \in 1..Len(q) : qq[i].ID = q[i].ID
  BY <1>1
<1>3. InOrder(qq)
  BY <1>1, <1>2 DEF InOrder
<1> QED
  BY <1>1, <1>2, <1>3 DEF qq

\* A job that a handler is called for is not finished before or after.
LEMMA ListCalled ==
    ASSUME NEW q \in Seq(FakeJob), NEW p \in 1..Len(q), NEW j \in FakeJob, j.ID = q[p].ID,
           InOrder(q), q[p].State = "available", j.State = "active"
    PROVE  Finished([q EXCEPT ![p] = j]) = Finished(q)
<1> DEFINE qq == [q EXCEPT ![p] = j]
<1>1. /\ Len(qq) = Len(q) /\ qq[p] = j
      /\ \A i \in 1..Len(q) : i # p => qq[i] = q[i]
  BY ListReplaced
<1> HIDE DEF qq
<1>2. \A x : x \in Finished(qq) <=> \E i \in 1..Len(qq) : qq[i] = x /\ x.State \in {"completed", "discarded"}
  BY DEF Finished
<1>3. \A x : x \in Finished(q) <=> \E i \in 1..Len(q) : q[i] = x /\ x.State \in {"completed", "discarded"}
  BY DEF Finished
<1>4. \A x : x \in Finished(qq) <=> x \in Finished(q)
  BY <1>1, <1>2, <1>3
<1> QED
  BY <1>4 DEF qq

\* A job that leaves Drain is added at the end of performed: no earlier one is left.
LEMMA ListPerformed ==
    ASSUME NEW q \in Seq(FakeJob), NEW P \in Seq(FakeJob), NEW p \in 1..Len(q),
           NEW j \in FakeJob, j.ID = q[p].ID,
           InOrder(q), InOrder(P), {P[k] : k \in 1..Len(P)} = Finished(q),
           q[p].State \notin {"completed", "discarded"},
           j.State \in {"completed", "discarded"},
           Before(P, q[p]),
           \A i \in 1..Len(q) : i < p => q[i].State # "available",
           \A i \in 1..Len(q) : q[i].State = "available" => Before(P, q[i])
    PROVE  LET qq == [q EXCEPT ![p] = j]
               PP == Append(P, j) IN
           /\ InOrder(PP)
           /\ {PP[k] : k \in 1..Len(PP)} = Finished(qq)
           /\ \A i \in 1..Len(qq) : i < p + 1 => qq[i].State # "available"
           /\ \A i \in 1..Len(qq) : qq[i].State = "available" => Before(PP, qq[i])
<1> DEFINE qq == [q EXCEPT ![p] = j]
           PP == Append(P, j)
<1>1. /\ Len(qq) = Len(q) /\ qq[p] = j /\ Len(q) \in Nat /\ p \in Nat
      /\ \A i \in 1..Len(q) : i # p => qq[i] = q[i]
      /\ \A i \in 1..Len(q) : qq[i].ID = q[i].ID
      /\ InOrder(qq)
  BY ListReplaced
<1>2. /\ Len(P) \in Nat /\ Len(PP) = Len(P) + 1 /\ PP[Len(PP)] = j
      /\ \A k \in 1..Len(P) : PP[k] = P[k]
  OBVIOUS
<1> HIDE DEF qq, PP
<1>3. \A k \in 1..Len(PP) : (k \in 1..Len(P) /\ PP[k] = P[k]) \/ (k = Len(PP) /\ PP[k] = j)
  BY <1>2
<1>4. InOrder(PP)
  <2> SUFFICES ASSUME NEW i \in 1..Len(PP), NEW k \in 1..Len(PP), i < k PROVE PP[i].ID < PP[k].ID
    BY DEF InOrder
  <2>1. i \in 1..Len(P) /\ PP[i] = P[i]
    BY <1>2, <1>3
  <2>2. CASE k \in 1..Len(P) /\ PP[k] = P[k]
    BY <2>1, <2>2 DEF InOrder
  <2>3. CASE PP[k] = j
    BY <2>1, <2>3 DEF Before
  <2> QED
    BY <1>3, <2>2, <2>3
<1>5. {PP[k] : k \in 1..Len(PP)} = Finished(qq)
  <2>1. \A x : x \in Finished(qq) <=> \E i \in 1..Len(q) : qq[i] = x /\ x.State \in {"completed", "discarded"}
    BY <1>1 DEF Finished
  <2>2. \A x : x \in Finished(q) <=> \E i \in 1..Len(q) : q[i] = x /\ x.State \in {"completed", "discarded"}
    BY DEF Finished
  <2>3. \A x : x \in Finished(qq) <=> x \in Finished(q) \/ x = j
    BY <1>1, <2>1, <2>2
  <2>4. \A x : x \in {PP[k] : k \in 1..Len(PP)} <=> x \in {P[k] : k \in 1..Len(P)} \/ x = j
    <3>1. Len(PP) \in 1..Len(PP) /\ 1..Len(P) \subseteq 1..Len(PP)
      BY <1>2
    <3> QED
      BY <1>2, <1>3, <3>1
  <2> QED
    BY <2>3, <2>4
<1>6. \A i \in 1..Len(qq) : i < p + 1 => qq[i].State # "available"
  BY <1>1
<1>7. ASSUME NEW i \in 1..Len(qq), qq[i].State = "available" PROVE Before(PP, qq[i])
  <2>1. p < i /\ qq[i] = q[i] /\ i \in 1..Len(q)
    BY <1>1, <1>6, <1>7
  <2>2. j.ID < q[i].ID /\ Before(P, q[i])
    BY <1>7, <2>1 DEF InOrder
  <2> QED
    BY <1>3, <2>1, <2>2 DEF Before
<1> QED
  BY <1>4, <1>5, <1>6, <1>7 DEF qq, PP

-----------------------------------------------------------------------------
(* Steps.  A goroutine changes the lists of one store, and nobody else is   *)
(* draining that one.                                                       *)

\* Whoever drains a store holds its mutex.
LEMMA DrainingHolds ==
    ASSUME IInv, NEW g \in Goroutines, Draining(g)
    PROVE  at[g] \in Tests /\ holder[at[g]] = g /\ pos[g] \in Nat
BY DEF IInv, TypeOK, CallInv, Draining, Drains

LEMMA StoreStable ==
    ASSUME NEW s \in Tests, StoreInv(s),
           enqueued'[s] = enqueued[s], performed'[s] = performed[s], nextID'[s] = nextID[s]
    PROVE  StoreInv(s)'
BY DEF StoreInv

LEMMA PassedStable ==
    ASSUME NEW h \in Goroutines, PassedInv(h),
           pc'[h] = pc[h], at'[h] = at[h], pos'[h] = pos[h],
           Draining(h) => /\ enqueued'[at[h]] = enqueued[at[h]]
                          /\ performed'[at[h]] = performed[at[h]]
    PROVE  PassedInv(h)'
BY DEF PassedInv, Draining, Job, Before

\* What goroutine g does to store s, whose mutex is free or its own.
LEMMA OneStore ==
    ASSUME IInv, JobsInv, NEW g \in Goroutines, NEW s \in Tests, holder[s] \in {None, g},
           \A x \in Tests \ {s} : /\ enqueued'[x] = enqueued[x] /\ performed'[x] = performed[x]
                                  /\ nextID'[x] = nextID[x],
           \A h \in Goroutines \ {g} : pc'[h] = pc[h] /\ at'[h] = at[h] /\ pos'[h] = pos[h],
           StoreInv(s)', PassedInv(g)'
    PROVE  JobsInv'
<1>1. \A x \in Tests : StoreInv(x)'
  BY StoreStable DEF JobsInv
<1>2. ASSUME NEW h \in Goroutines \ {g} PROVE PassedInv(h)'
  <2>1. Draining(h) => at[h] \in Tests \ {s}
    BY DrainingHolds, FakeStoreAssumption
  <2> QED
    BY <2>1, PassedStable DEF JobsInv
<1> QED
  BY <1>1, <1>2 DEF JobsInv

\* The steps that leave the lists alone.
LEMMA QuietJobs ==
    ASSUME IInv, JobsInv, UNCHANGED <<enqueued, performed, nextID>>,
           \A h \in Goroutines : PassedInv(h)'
    PROVE  JobsInv'
BY StoreStable DEF JobsInv

LEMMA QuietGoroutine ==
    ASSUME IInv, JobsInv, UNCHANGED <<enqueued, performed, nextID>>, NEW g \in Goroutines,
           \A h \in Goroutines \ {g} : pc'[h] = pc[h] /\ at'[h] = at[h] /\ pos'[h] = pos[h],
           PassedInv(g)'
    PROVE  JobsInv'
<1>1. \A h \in Goroutines \ {g} : PassedInv(h)'
  BY PassedStable DEF JobsInv
<1> QED
  BY <1>1, QuietJobs

LEMMA TestJobs ==
    ASSUME IInv, JobsInv, UNCHANGED <<enqueued, performed, nextID, pc, at, pos>>
    PROVE  JobsInv'
BY PassedStable, QuietJobs DEF JobsInv

\* A goroutine that is not in Drain after its step.
LEMMA OutsideJobs ==
    ASSUME IInv, JobsInv, NEW g \in Goroutines,
           \/ \E l \in {"clear", "lock"} : Call(g, l)
           \/ HandlerPanics(g) \/ DrainEnds(g)
    PROVE  JobsInv'
<1>1. /\ UNCHANGED <<enqueued, performed, nextID>>
      /\ \A h \in Goroutines \ {g} : pc'[h] = pc[h] /\ at'[h] = at[h] /\ pos'[h] = pos[h]
      /\ pc'[g] \in {"clear", "lock", "idle"}
  BY DEF IInv, TypeOK, Call, HandlerPanics, DrainEnds, Leave, Go, storeVars
<1>2. PassedInv(g)'
  BY <1>1 DEF PassedInv, Draining
<1> QED
  BY <1>1, <1>2, QuietGoroutine

\* The job of a handler that enqueues stays where it is.
LEMMA PostJobs ==
    ASSUME IInv, JobsInv, NEW g \in Goroutines,
           \/ PostReturns(g)
           \/ /\ pc[g] \in {"idle", "handler"}
              /\ \E t \in Tests, reqs \in Batches : Post(g, t, reqs)
    PROVE  JobsInv'
<1>1. /\ UNCHANGED <<enqueued, performed, nextID, at, pos>>
      /\ \A h \in Goroutines \ {g} : pc'[h] = pc[h] /\ at'[h] = at[h] /\ pos'[h] = pos[h]
  BY DEF IInv, TypeOK, Post, PostReturns, Go, storeVars, callVars
<1>2. Draining(g)' => Draining(g) /\ pc[g] # "drain"
  <2>1. CASE PostReturns(g)
    BY <2>1 DEF PostReturns, Go, Draining, Drains, IInv, TypeOK, callVars
  <2>2. CASE /\ pc[g] \in {"idle", "handler"}
             /\ \E t \in Tests, reqs \in Batches : Post(g, t, reqs)
    <3>1. pc'[g] = "post" /\ at'[g] = at[g] /\ (pc[g] = "idle" => at[g] = None)
      BY <2>2, <1>1 DEF Post, Go, IInv, TypeOK, CallInv
    <3> QED
      BY <2>2, <3>1 DEF Draining
  <2> QED
    BY <2>1, <2>2
<1>3. PassedInv(g)'
  BY <1>1, <1>2 DEF JobsInv, PassedInv, Job, Before
<1> QED
  BY <1>1, <1>3, QuietGoroutine

LEMMA DrainJobs ==
    ASSUME IInv, JobsInv, NEW g \in Goroutines, Drain(g)
    PROVE  JobsInv'
<1>1. /\ UNCHANGED <<enqueued, performed, nextID, at>>
      /\ pc'[g] = "drain" /\ pos'[g] = 1
      /\ \A h \in Goroutines \ {g} : pc'[h] = pc[h] /\ at'[h] = at[h] /\ pos'[h] = pos[h]
  BY DEF IInv, TypeOK, Drain, Go
<1>2. PassedInv(g)'
  BY <1>1 DEF PassedInv
<1> QED
  BY <1>1, <1>2, QuietGoroutine

LEMMA SkipJobs ==
    ASSUME IInv, JobsInv, NEW g \in Goroutines, DrainSkips(g)
    PROVE  JobsInv'
<1>1. /\ UNCHANGED <<enqueued, performed, nextID, at, pc>>
      /\ pc[g] = "drain" /\ pos'[g] = pos[g] + 1 /\ pos[g] \in Nat
      /\ \A h \in Goroutines \ {g} : pc'[h] = pc[h] /\ at'[h] = at[h] /\ pos'[h] = pos[h]
  BY DEF IInv, TypeOK, DrainSkips, storeVars
<1>2. Draining(g) /\ enqueued[at[g]][pos[g]].State # "available"
  BY <1>1 DEF Draining, DrainSkips, Job
<1>3. Len(enqueued[at[g]]) \in Nat
  BY <1>2, DrainingHolds DEF IInv, TypeOK
<1>4. \A i \in 1..Len(enqueued[at[g]]) : i < pos[g] + 1 => enqueued[at[g]][i].State # "available"
  <2>1. \A i \in 1..Len(enqueued[at[g]]) : i < pos[g] => enqueued[at[g]][i].State # "available"
    BY <1>2 DEF JobsInv, PassedInv
  <2>2. \A i \in 1..Len(enqueued[at[g]]) : i < pos[g] + 1 => i < pos[g] \/ i = pos[g]
    BY <1>1, <1>3
  <2> QED
    BY <1>2, <2>1, <2>2
<1>5. PassedInv(g)'
  BY <1>1, <1>4 DEF PassedInv
<1> QED
  BY <1>1, <1>5, QuietGoroutine

-----------------------------------------------------------------------------
LEMMA RecordJobs ==
    ASSUME IInv, JobsInv, NEW r \in 1..Len(requests), RecordEnqueue(r)
    PROVE  JobsInv'
<1>0. PICK s \in Tests, j \in FakeJob :
             /\ j.ID = nextID[s] + 1 /\ j.State = "available"
             /\ holder[s] = None
             /\ nextID' = [nextID EXCEPT ![s] = @ + 1]
             /\ enqueued' = [enqueued EXCEPT ![s] = Append(@, j)]
  BY AtRequest
<1> DEFINE q == enqueued[s]
           P == performed[s]
<1>1. /\ enqueued \in [Tests -> Seq(FakeJob)] /\ nextID \in [Tests -> Nat]
      /\ q \in Seq(FakeJob) /\ P \in Seq(FakeJob) /\ nextID[s] \in Nat
  BY DEF IInv, TypeOK
<1>3. j \in FakeJob /\ j.ID = nextID[s] + 1 /\ j.State = "available"
  BY <1>0
<1>4. /\ nextID' = [nextID EXCEPT ![s] = @ + 1]
      /\ enqueued' = [enqueued EXCEPT ![s] = Append(@, j)]
      /\ UNCHANGED <<performed, pc, at, pos>>
  BY <1>0 DEF RecordEnqueue, callVars
<1>5. enqueued'[s] = Append(q, j) /\ nextID'[s] = j.ID /\ performed'[s] = P
  BY <1>1, <1>3, <1>4
<1>6. StoreInv(s)
  BY <1>1 DEF JobsInv
<1>7. \A i \in 1..Len(q) : q[i].ID < j.ID
  <2>1. \A i \in 1..Len(q) : q[i].ID <= nextID[s] /\ q[i].ID \in Nat
    <3>1. \A i \in 1..Len(q) : q[i] \in FakeJob
      BY <1>1
    <3>2. \A x \in FakeJob : x.ID \in Nat
      BY DEF FakeJob
    <3> QED
      BY <1>6, <3>1, <3>2 DEF StoreInv, Agree
  <2> QED
    BY <1>1, <1>3, <2>1
<1>8. StoreInv(s)'
  <2>1. /\ InOrder(q) /\ {P[k] : k \in 1..Len(P)} = Finished(q)
        /\ \A i \in 1..Len(q) : q[i].State = "available" => Before(P, q[i])
        /\ InOrder(P)
    BY <1>6 DEF StoreInv, Agree
  <2> DEFINE qq == Append(q, j)
  <2>2. /\ InOrder(qq)
        /\ \A i \in 1..Len(qq) : qq[i].ID <= j.ID
        /\ {P[k] : k \in 1..Len(P)} = Finished(qq)
        /\ \A i \in 1..Len(qq) : qq[i].State = "available" => Before(P, qq[i])
    BY <1>1, <1>3, <1>7, <2>1, ListAppended
  <2> HIDE DEF qq, q, P
  <2>3. enqueued'[s] = qq /\ performed'[s] = P /\ nextID'[s] = j.ID
    BY <1>5 DEF qq, q, P
  <2>4. Agree(qq, P, j.ID)
    BY <2>1, <2>2 DEF Agree
  <2> QED
    BY <2>3, <2>4 DEF StoreInv
<1>9. \A x \in Tests \ {s} : /\ enqueued'[x] = enqueued[x] /\ performed'[x] = performed[x]
                             /\ nextID'[x] = nextID[x]
  BY <1>1, <1>4
<1>10. ASSUME NEW h \in Goroutines PROVE PassedInv(h)'
  <2>1. Draining(h) => at[h] \in Tests \ {s}
    BY <1>0, DrainingHolds, FakeStoreAssumption
  <2> QED
    BY <1>4, <1>9, <2>1, PassedStable DEF JobsInv
<1>11. \A x \in Tests : StoreInv(x)'
  BY <1>8, <1>9, StoreStable DEF JobsInv
<1> QED
  BY <1>10, <1>11 DEF JobsInv

LEMMA ClearJobs ==
    ASSUME IInv, JobsInv, NEW g \in Goroutines, ClearAll(g)
    PROVE  JobsInv'
<1>0. PICK s \in Tests : s = at[g]
  BY DEF IInv, CallInv, ClearAll
<1>1. /\ s \in Tests /\ holder[s] = None
      /\ enqueued' = [enqueued EXCEPT ![s] = <<>>]
      /\ performed' = [performed EXCEPT ![s] = <<>>] /\ nextID' = nextID
      /\ pc'[g] = "idle"
      /\ \A h \in Goroutines \ {g} : pc'[h] = pc[h] /\ at'[h] = at[h] /\ pos'[h] = pos[h]
  BY <1>0 DEF IInv, TypeOK, CallInv, ClearAll, Leave, Go
<1>2. /\ enqueued'[s] = <<>> /\ performed'[s] = <<>>
      /\ \A x \in Tests \ {s} : /\ enqueued'[x] = enqueued[x] /\ performed'[x] = performed[x]
                                /\ nextID'[x] = nextID[x]
  BY <1>1 DEF IInv, TypeOK
<1>3. PassedInv(g)'
  BY <1>1 DEF PassedInv, Draining
<1>4. StoreInv(s)'
  <2>1. ASSUME NEW n PROVE Agree(<<>>, <<>>, n)
    BY DEF Agree, InOrder, Finished, Before
  <2> QED
    BY <1>2, <2>1 DEF StoreInv
<1> QED
  BY <1>1, <1>2, <1>3, <1>4, OneStore

\* Drain is at job p of the store: the facts that the next three lemmas start from.
LEMMA AtJob ==
    ASSUME IInv, JobsInv, NEW g \in Goroutines, Draining(g),
           pc[g] = "drain" => Reached(g) /\ Job(g).State = "available"
    PROVE  /\ at[g] \in Tests /\ holder[at[g]] = g
           /\ enqueued[at[g]] \in Seq(FakeJob) /\ performed[at[g]] \in Seq(FakeJob)
           /\ pos[g] \in 1..Len(enqueued[at[g]])
           /\ Job(g) \in FakeJob /\ Job(g).State \in {"available", "active"}
           /\ Before(performed[at[g]], Job(g))
           /\ \A i \in 1..Len(enqueued[at[g]]) : i < pos[g] => enqueued[at[g]][i].State # "available"
<1>1. /\ at[g] \in Tests /\ holder[at[g]] = g /\ pos[g] \in Nat
      /\ enqueued[at[g]] \in Seq(FakeJob) /\ performed[at[g]] \in Seq(FakeJob)
  BY DrainingHolds DEF IInv, TypeOK
<1>2. pos[g] \in 1..Len(enqueued[at[g]])
  <2>1. CASE pc[g] = "drain"
    BY <1>1, <2>1 DEF IInv, CallInv, Reached
  <2>2. CASE pc[g] # "drain"
    BY <1>1, <2>2, FakeStoreAssumption DEF IInv, CallInv, Draining
  <2> QED
    BY <2>1, <2>2
<1>3. Job(g) \in FakeJob
  BY <1>1, <1>2 DEF Job
<1>4. Job(g).State \in {"available", "active"} /\ Before(performed[at[g]], Job(g))
  <2>1. CASE pc[g] = "drain"
    BY <1>1, <1>2, <2>1 DEF JobsInv, StoreInv, Agree, Job
  <2>2. CASE pc[g] # "drain"
    BY <2>2 DEF JobsInv, PassedInv
  <2> QED
    BY <2>1, <2>2
<1>5. \A i \in 1..Len(enqueued[at[g]]) : i < pos[g] => enqueued[at[g]][i].State # "available"
  BY DEF JobsInv, PassedInv
<1> QED
  BY <1>1, <1>2, <1>3, <1>4, <1>5

LEMMA PerformJobs ==
    ASSUME IInv, JobsInv, NEW g \in Goroutines, Draining(g),
           pc[g] = "drain" => Reached(g) /\ Job(g).State = "available",
           NEW st \in {"completed", "discarded"}, NEW attempt \in Nat, Perform(g, st, attempt)
    PROVE  JobsInv'
<1>0. PICK s \in Tests : s = at[g]
  BY AtJob
<1> DEFINE p == pos[g]
           q == enqueued[s]
           P == performed[s]
           j == [Job(g) EXCEPT !.State = st, !.Attempt = attempt]
           qq == [q EXCEPT ![p] = j]
           PP == Append(P, j)
<1>1. /\ s \in Tests /\ holder[s] = g /\ q \in Seq(FakeJob) /\ P \in Seq(FakeJob)
      /\ p \in 1..Len(q) /\ Job(g) \in FakeJob /\ Job(g).State \in {"available", "active"}
      /\ Before(P, Job(g)) /\ Job(g) = q[p]
      /\ \A i \in 1..Len(q) : i < p => q[i].State # "available"
  BY <1>0, AtJob DEF Job
<1>2. /\ j \in FakeJob /\ j.ID = q[p].ID /\ j.State = st
  BY <1>1 DEF FakeJob, States
<1>3. /\ enqueued'[s] = qq /\ performed'[s] = PP /\ nextID' = nextID
      /\ \A x \in Tests \ {s} : enqueued'[x] = enqueued[x] /\ performed'[x] = performed[x]
      /\ pc'[g] = "drain" /\ at' = at /\ pos'[g] = p + 1
      /\ \A h \in Goroutines \ {g} : pc'[h] = pc[h] /\ at'[h] = at[h] /\ pos'[h] = pos[h]
  BY <1>0, <1>1 DEF Perform, Go, IInv, TypeOK
<1>4. /\ InOrder(q) /\ InOrder(P) /\ {P[k] : k \in 1..Len(P)} = Finished(q)
      /\ \A i \in 1..Len(q) : q[i].State = "available" => Before(P, q[i])
      /\ \A i \in 1..Len(q) : q[i].ID <= nextID[s]
  BY <1>1 DEF JobsInv, StoreInv, Agree
<1> HIDE DEF p, q, P, j, qq, PP
<1>5. /\ Len(qq) = Len(q) /\ InOrder(qq) /\ \A i \in 1..Len(q) : qq[i].ID = q[i].ID
  BY <1>1, <1>2, <1>4, ListReplaced DEF qq
<1>6. /\ InOrder(PP)
      /\ {PP[k] : k \in 1..Len(PP)} = Finished(qq)
      /\ \A i \in 1..Len(qq) : i < p + 1 => qq[i].State # "available"
      /\ \A i \in 1..Len(qq) : qq[i].State = "available" => Before(PP, qq[i])
  <2>1. Before(P, q[p]) /\ q[p].State \notin {"completed", "discarded"} /\ j.State \in {"completed", "discarded"}
    BY <1>1, <1>2
  <2> QED
    BY <1>1, <1>2, <1>4, <2>1, ListPerformed DEF qq, PP
<1>7. StoreInv(s)'
  <2>1. Agree(qq, PP, nextID[s])
    BY <1>4, <1>5, <1>6 DEF Agree
  <2> QED
    BY <1>3, <2>1 DEF StoreInv
<1>8. PassedInv(g)'
  BY <1>0, <1>3, <1>6 DEF PassedInv
<1> QED
  BY <1>1, <1>3, <1>7, <1>8, OneStore

LEMMA HandlerCallJobs ==
    ASSUME IInv, JobsInv, NEW g \in Goroutines, DrainCallsHandler(g)
    PROVE  JobsInv'
<1>0. PICK s \in Tests : s = at[g]
  BY AtJob DEF Draining, DrainCallsHandler
<1> DEFINE p == pos[g]
           q == enqueued[s]
           P == performed[s]
           j == [Job(g) EXCEPT !.State = "active", !.Attempt = Job(g).Attempt + 1]
           qq == [q EXCEPT ![p] = j]
<1>1. /\ s \in Tests /\ holder[s] = g /\ q \in Seq(FakeJob) /\ P \in Seq(FakeJob)
      /\ p \in 1..Len(q) /\ Job(g) \in FakeJob /\ Job(g).State = "available"
      /\ Before(P, Job(g)) /\ Job(g) = q[p]
      /\ \A i \in 1..Len(q) : i < p => q[i].State # "available"
  BY <1>0, AtJob DEF Job, Draining, DrainCallsHandler
<1>2. j \in FakeJob /\ j.ID = q[p].ID /\ j.State = "active"
  <2>1. Job(g).Attempt + 1 \in Nat /\ "active" \in States
    BY <1>1 DEF FakeJob, States
  <2> QED
    BY <1>1, <2>1 DEF FakeJob
<1>3. /\ enqueued'[s] = qq /\ performed' = performed /\ nextID' = nextID
      /\ \A x \in Tests \ {s} : enqueued'[x] = enqueued[x]
      /\ pc'[g] = "handler" /\ at' = at /\ pos' = pos
      /\ \A h \in Goroutines \ {g} : pc'[h] = pc[h]
  BY <1>0, <1>1 DEF DrainCallsHandler, Go, callVars, IInv, TypeOK
<1>4. /\ InOrder(q) /\ InOrder(P) /\ {P[k] : k \in 1..Len(P)} = Finished(q)
      /\ \A i \in 1..Len(q) : q[i].State = "available" => Before(P, q[i])
      /\ \A i \in 1..Len(q) : q[i].ID <= nextID[s]
  BY <1>1 DEF JobsInv, StoreInv, Agree
<1> HIDE DEF p, q, P, j, qq
<1>5. /\ Len(qq) = Len(q) /\ InOrder(qq) /\ qq[p] = j
      /\ \A i \in 1..Len(q) : i # p => qq[i] = q[i]
      /\ \A i \in 1..Len(q) : qq[i].ID = q[i].ID
  BY <1>1, <1>2, <1>4, ListReplaced DEF qq
<1>6. Finished(qq) = Finished(q)
  BY <1>1, <1>2, <1>4, ListCalled DEF qq
<1>7. /\ \A i \in 1..Len(qq) : i < p => qq[i].State # "available"
      /\ \A i \in 1..Len(qq) : qq[i].State = "available" => Before(P, qq[i])
      /\ Before(P, qq[p]) /\ qq[p].State = "active"
  BY <1>1, <1>2, <1>4, <1>5 DEF Before
<1>8. StoreInv(s)'
  <2>1. Agree(qq, P, nextID[s])
    BY <1>4, <1>5, <1>6, <1>7 DEF Agree
  <2> QED
    BY <1>3, <2>1 DEF StoreInv, P
<1>9. PassedInv(g)'
  BY <1>0, <1>3, <1>7 DEF PassedInv, Job, Before, p, P
<1> QED
  BY <1>1, <1>3, <1>8, <1>9, OneStore

-----------------------------------------------------------------------------
LEMMA JobsInvInit == Init => JobsInv
BY DEF Init, JobsInv, StoreInv, Agree, PassedInv, Draining, InOrder, Finished, Before

\* The lists of every store agree in every state.
LEMMA JobsInvNext ==
    ASSUME IInv, JobsInv, [Next]_vars
    PROVE  JobsInv'
<1>1. ASSUME NEW t \in Tests,
             Fake(t) \/ FakeClient(t) \/ Cleanup(t) \/ \E type \in Types : RegisterHandler(t, type)
      PROVE  JobsInv'
  BY <1>1, TestJobs DEF Fake, FakeClient, Cleanup, RegisterHandler, storeVars, callVars
<1>2. ASSUME NEW g \in Goroutines, \E l \in {"clear", "lock"} : Call(g, l) PROVE JobsInv'
  BY <1>2, OutsideJobs
<1>3. ASSUME NEW g \in Goroutines, NEW t \in Tests, NEW reqs \in Batches,
             Enqueue(g, t, reqs) \/ HandlerEnqueues(g, t, reqs)
      PROVE  JobsInv'
  BY <1>3, PostJobs DEF Enqueue, HandlerEnqueues
<1>p. ASSUME NEW g \in Goroutines, PostReturns(g) PROVE JobsInv'
  BY <1>p, PostJobs
<1>r. ASSUME NEW r \in 1..Len(requests), RecordEnqueue(r) PROVE JobsInv'
  BY <1>r, RecordJobs
<1>4. ASSUME NEW g \in Goroutines, Locks(g) PROVE JobsInv'
  BY <1>4, ClearJobs, DrainJobs DEF Locks
<1>5. ASSUME NEW g \in Goroutines,
             DrainUnhandled(g) \/ \E st \in {"completed", "discarded"} : HandlerReturns(g, st)
      PROVE  JobsInv'
  <2>1. Draining(g) /\ (pc[g] = "drain" => Reached(g) /\ Job(g).State = "available")
    BY <1>5 DEF DrainUnhandled, HandlerReturns, Draining
  <2>2. Job(g) \in FakeJob
    BY <2>1, AtJob
  <2>3. Job(g).Attempt \in Nat /\ Job(g).Attempt + 1 \in Nat
    BY <2>2 DEF FakeJob
  <2> QED
    BY <1>5, <2>1, <2>3, PerformJobs DEF DrainUnhandled, HandlerReturns
<1>6. ASSUME NEW g \in Goroutines, DrainStep(g) \/ HandlerEnds(g) PROVE JobsInv'
  BY <1>5, <1>6, SkipJobs, HandlerCallJobs, OutsideJobs DEF DrainStep, HandlerEnds
<1>7. CASE UNCHANGED vars
  BY <1>7, TestJobs DEF vars, storeVars, callVars
<1> QED
  BY <1>1, <1>2, <1>3, <1>p, <1>r, <1>4, <1>6, <1>7 DEF Next

\* What Drain has performed is exactly what has finished, in the order of the enqueues,
\* each job once and as the queue shows it, for any number of goroutines that enqueue,
\* drain and clear and of handlers that panic (ojstesting/testing.go, Drain).
THEOREM DrainPerformsOnce == Spec => []PerformedIsWhatFinished
<1>1. JobsInv => PerformedIsWhatFinished
  BY DEF JobsInv, StoreInv, Agree, PerformedIsWhatFinished
<1> QED
  BY <1>1, FakeStoreInvariant, JobsInvInit, JobsInvNext, PTL DEF Spec

-----------------------------------------------------------------------------
(* Assertions.                                                              *)

\* Every job keeps its place and its type, and every performed job stays as it is.
Kept(s) ==
    /\ Len(enqueued[s]) <= Len(enqueued'[s]) /\ Len(performed[s]) <= Len(performed'[s])
    /\ \A i \in 1..Len(enqueued[s]) : enqueued'[s][i].Type = enqueued[s][i].Type
    /\ \A k \in 1..Len(performed[s]) : performed'[s][k] = performed[s][k]

LEMMA UnchangedIsKept ==
    ASSUME IInv, NEW s \in Tests, enqueued'[s] = enqueued[s], performed'[s] = performed[s]
    PROVE  Kept(s)
<1>1. Len(enqueued[s]) \in Nat /\ Len(performed[s]) \in Nat
  BY DEF IInv, TypeOK
<1> QED
  BY <1>1 DEF Kept

LEMMA RecordKeeps ==
    ASSUME IInv, NEW r \in 1..Len(requests), RecordEnqueue(r), NEW s \in Tests
    PROVE  Kept(s)
<1>1. enqueued \in [Tests -> Seq(FakeJob)] /\ Len(performed[s]) \in Nat
  BY DEF IInv, TypeOK
<1>2. PICK x \in Tests, j \in FakeJob : enqueued' = [enqueued EXCEPT ![x] = Append(@, j)]
  BY AtRequest
<1>3. CASE s = x
  <2>1. enqueued'[s] = Append(enqueued[s], j) /\ performed' = performed
    BY <1>1, <1>2, <1>3 DEF RecordEnqueue
  <2>2. /\ Len(enqueued[s]) \in Nat /\ Len(enqueued'[s]) = Len(enqueued[s]) + 1
        /\ \A i \in 1..Len(enqueued[s]) : enqueued'[s][i] = enqueued[s][i]
    BY <1>1, <2>1
  <2> QED
    BY <1>1, <2>1, <2>2 DEF Kept
<1>4. CASE s # x
  BY <1>1, <1>2, <1>4, UnchangedIsKept DEF RecordEnqueue
<1> QED
  BY <1>3, <1>4

LEMMA DrainKeeps ==
    ASSUME IInv, NEW g \in Goroutines, NEW s \in Tests,
           \/ DrainUnhandled(g) \/ DrainCallsHandler(g)
           \/ \E st \in {"completed", "discarded"} : HandlerReturns(g, st)
    PROVE  Kept(s)
<1>1. at[g] \in Tests /\ Drains(g) /\ enqueued[at[g]] \in Seq(FakeJob) /\ pos[g] \in Nat
  BY DEF IInv, TypeOK, CallInv, Drains, DrainUnhandled, DrainCallsHandler, HandlerReturns
<1>2. pos[g] \in 1..Len(enqueued[at[g]])
  BY <1>1 DEF IInv, CallInv, Drains, DrainUnhandled, DrainCallsHandler, HandlerReturns, Reached
<1>3. Job(g) \in FakeJob /\ Job(g) = enqueued[at[g]][pos[g]]
  BY <1>1, <1>2 DEF Job
<1>4. PICK j : /\ enqueued' = [enqueued EXCEPT ![at[g]][pos[g]] = j]
               /\ j.Type = Job(g).Type
               /\ \/ performed' = performed
                  \/ performed' = [performed EXCEPT ![at[g]] = Append(@, j)]
  <2>1. ASSUME NEW st, NEW attempt, Perform(g, st, attempt)
        PROVE  /\ enqueued' = [enqueued EXCEPT ![at[g]][pos[g]] =
                                  [Job(g) EXCEPT !.State = st, !.Attempt = attempt]]
               /\ performed' = [performed EXCEPT ![at[g]] =
                                  Append(@, [Job(g) EXCEPT !.State = st, !.Attempt = attempt])]
    BY <2>1 DEF Perform
  <2>2. ASSUME NEW st, NEW attempt
        PROVE  [Job(g) EXCEPT !.State = st, !.Attempt = attempt].Type = Job(g).Type
    BY <1>3 DEF FakeJob
  <2>3. CASE \E st, attempt : Perform(g, st, attempt)
    <3>1. PICK st, attempt : Perform(g, st, attempt)
      BY <2>3
    <3> WITNESS [Job(g) EXCEPT !.State = st, !.Attempt = attempt]
    <3> QED
      BY <2>1, <2>2, <3>1
  <2>4. CASE DrainCallsHandler(g)
    BY <2>2, <2>4 DEF DrainCallsHandler
  <2> QED
    BY <2>3, <2>4 DEF DrainUnhandled, HandlerReturns
<1>5. CASE s = at[g]
  <2>1. /\ enqueued'[s] = [enqueued[s] EXCEPT ![pos[g]] = j]
        /\ performed'[s] = performed[s] \/ performed'[s] = Append(performed[s], j)
        /\ enqueued[s] \in Seq(FakeJob) /\ performed[s] \in Seq(FakeJob)
    BY <1>4, <1>5 DEF IInv, TypeOK
  <2>2. /\ Len(enqueued'[s]) = Len(enqueued[s]) /\ Len(enqueued[s]) \in Nat
        /\ \A i \in 1..Len(enqueued[s]) : enqueued'[s][i].Type = enqueued[s][i].Type
    BY <1>2, <1>3, <1>4, <1>5, <2>1
  <2>3. /\ Len(performed[s]) \in Nat /\ Len(performed'[s]) \in Nat
        /\ Len(performed[s]) <= Len(performed'[s])
        /\ \A k \in 1..Len(performed[s]) : performed'[s][k] = performed[s][k]
    BY <2>1
  <2> QED
    BY <2>2, <2>3 DEF Kept
<1>6. CASE s # at[g]
  <2>1. enqueued'[s] = enqueued[s] /\ performed'[s] = performed[s]
    BY <1>1, <1>4, <1>6 DEF IInv, TypeOK
  <2> QED
    BY <2>1, UnchangedIsKept
<1> QED
  BY <1>5, <1>6

\* A store keeps its jobs in every step, or is cleared.
LEMMA KeptOrCleared ==
    ASSUME IInv, [Next]_vars, NEW s \in Tests
    PROVE  Kept(s) \/ (enqueued'[s] = <<>> /\ performed'[s] = <<>>)
<1>1. CASE UNCHANGED <<enqueued, performed>>
  BY <1>1, UnchangedIsKept
<1>2. ASSUME NEW t \in Tests,
             Fake(t) \/ FakeClient(t) \/ Cleanup(t) \/ \E type \in Types : RegisterHandler(t, type)
      PROVE  UNCHANGED <<enqueued, performed>>
  BY <1>2 DEF Fake, FakeClient, Cleanup, RegisterHandler, storeVars
<1>3. ASSUME NEW g \in Goroutines,
             \/ \E l \in {"clear", "lock"} : Call(g, l)
             \/ \E t \in Tests, reqs \in Batches : Enqueue(g, t, reqs) \/ HandlerEnqueues(g, t, reqs)
             \/ PostReturns(g) \/ Drain(g) \/ DrainSkips(g) \/ DrainEnds(g) \/ HandlerPanics(g)
      PROVE  UNCHANGED <<enqueued, performed>>
  BY <1>3 DEF Call, Enqueue, HandlerEnqueues, Post, PostReturns, Drain, DrainSkips, DrainEnds,
              HandlerPanics, storeVars
<1>4. ASSUME NEW g \in Goroutines, ClearAll(g)
      PROVE  Kept(s) \/ (enqueued'[s] = <<>> /\ performed'[s] = <<>>)
  <2>1. CASE s = at[g]
    BY <1>4, <2>1 DEF IInv, TypeOK, ClearAll
  <2>2. CASE s # at[g]
    <3>1. enqueued'[s] = enqueued[s] /\ performed'[s] = performed[s]
      BY <1>4, <2>2 DEF IInv, TypeOK, ClearAll
    <3> QED
      BY <3>1, UnchangedIsKept
  <2> QED
    BY <2>1, <2>2
<1>5. CASE UNCHANGED vars
  BY <1>1, <1>5 DEF vars, storeVars
<1> QED
  BY <1>1, <1>2, <1>3, <1>4, <1>5, RecordKeeps, DrainKeeps
     DEF Next, Locks, DrainStep, HandlerEnds

LEMMA KeptAsserts ==
    ASSUME IInv, IInv', NEW s \in Tests, NEW type \in Types, Kept(s)
    PROVE  /\ AssertEnqueued(s, type, 0) => AssertEnqueued(s, type, 0)'
           /\ ~Recorded(s) => /\ RefuteEnqueued(s, type)' <=> RefuteEnqueued(s, type)
                              /\ \A n : AssertEnqueued(s, type, n)' <=> AssertEnqueued(s, type, n)
           /\ AssertPerformed(s, type) => AssertPerformed(s, type)'
           /\ AssertCompleted(s, type) => AssertCompleted(s, type)'
           /\ AssertFailed(s, type) => AssertFailed(s, type)'
<1>1. /\ Len(enqueued[s]) \in Nat /\ Len(performed[s]) \in Nat
      /\ Len(enqueued'[s]) \in Nat /\ Len(performed'[s]) \in Nat
  <2>1. TypeOK /\ TypeOK'
    BY DEF IInv
  <2>2. /\ enqueued[s] \in Seq(FakeJob) /\ performed[s] \in Seq(FakeJob)
        /\ enqueued'[s] \in Seq(FakeJob) /\ performed'[s] \in Seq(FakeJob)
    BY <2>1 DEF TypeOK
  <2> QED
    BY <2>2
<1>2. /\ 1..Len(enqueued[s]) \subseteq 1..Len(enqueued'[s])
      /\ 1..Len(performed[s]) \subseteq 1..Len(performed'[s])
  BY <1>1 DEF Kept
<1>3. AssertEnqueued(s, type, 0) => AssertEnqueued(s, type, 0)'
  <2>1. filterJobs(enqueued[s], type) \subseteq filterJobs(enqueued'[s], type)
    BY <1>2 DEF Kept, filterJobs
  <2> QED
    BY <2>1 DEF AssertEnqueued
<1>4. ASSUME ~Recorded(s)
      PROVE  filterJobs(enqueued'[s], type) = filterJobs(enqueued[s], type)
  <2>1. Len(enqueued'[s]) = Len(enqueued[s])
    BY <1>1, <1>4 DEF Kept, Recorded
  <2> QED
    BY <2>1 DEF Kept, filterJobs
<1>5. filterJobs(performed[s], type) \subseteq filterJobs(performed'[s], type)
  BY <1>2 DEF Kept, filterJobs
<1>6. /\ AssertPerformed(s, type) => AssertPerformed(s, type)'
      /\ AssertCompleted(s, type) => AssertCompleted(s, type)'
      /\ AssertFailed(s, type) => AssertFailed(s, type)'
  <2>1. \A i \in filterJobs(performed[s], type) : performed'[s][i] = performed[s][i]
    BY DEF Kept, filterJobs
  <2> QED
    BY <1>5, <2>1 DEF AssertPerformed, AssertCompleted, AssertFailed, Some
<1>7. ~Recorded(s) => /\ RefuteEnqueued(s, type)' <=> RefuteEnqueued(s, type)
                      /\ \A n : AssertEnqueued(s, type, n)' <=> AssertEnqueued(s, type, n)
  BY <1>4 DEF RefuteEnqueued, AssertEnqueued
<1> QED
  BY <1>3, <1>6, <1>7

\* Until ClearAll, "at least one" assertions about a store stay true, and an exact count
\* or a refutation is taken back only by the recording of another job, whatever drains,
\* handlers and other tests do (ojstesting/testing.go, the Assert functions).
THEOREM AssertionsStayTrue == Spec => AssertionsAreStable
<1>1. ASSUME IInv, IInv', [Next]_vars
      PROVE  \A s \in Tests, type \in Types :
                enqueued'[s] # <<>> \/ performed'[s] # <<>> =>
                   /\ AssertEnqueued(s, type, 0) => AssertEnqueued(s, type, 0)'
                   /\ \A n \in Counts : AssertEnqueued(s, type, n) =>
                                           AssertEnqueued(s, type, n)' \/ Recorded(s)
                   /\ RefuteEnqueued(s, type) => RefuteEnqueued(s, type)' \/ Recorded(s)
                   /\ AssertPerformed(s, type) => AssertPerformed(s, type)'
                   /\ AssertCompleted(s, type) => AssertCompleted(s, type)'
                   /\ AssertFailed(s, type) => AssertFailed(s, type)'
  BY <1>1, KeptOrCleared, KeptAsserts
<1> QED
  BY <1>1, FakeStoreInvariant, PTL DEF Spec, AssertionsAreStable
=============================================================================
