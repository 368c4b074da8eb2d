---------------------------- MODULE ClientProofs ----------------------------
(***************************************************************************)
(* Proofs about the two layers of the client: transport.do for every       *)
(* RetryConfig and every set of Retry-After values, and the regions of the *)
(* federated client for any number of regions and callers, any threshold   *)
(* and any bound.  Names of the first begin with Do.                       *)
(***************************************************************************)
EXTENDS Transport, Federation, TLAPS

\* How often the request has been or may still be performed, against the attempt: the
\* request under way is not counted yet, the last one of a sleep is.
CountInv ==
    /\ phase = "idle" => applied + wire = 0 /\ attempt = 0
    /\ phase = "request" => applied + wire <= attempt
    /\ phase = "sleep" => applied + wire <= attempt + 1 /\ attempt < MaxRetries
    /\ phase = "returned" => applied + wire <= attempt + 1

\* When only 429 is retried, a call that goes on has not been performed.
OnceInv ==
    ~(Enabled /\ RetryServerErrors) =>
        /\ applied + wire <= 1
        /\ phase # "returned" => applied + wire = 0

DoInv == DoTypeOK /\ CountInv /\ OnceInv /\ PauseIsClamped

-----------------------------------------------------------------------------
\* What retryBackoff returns (rate_limiter.go:45-62).
LEMMA BackoffRange ==
    ASSUME NEW n \in Nat, NEW h \in Int, NEW w \in RetryBackoff(n, h)
    PROVE  w \in Nat /\ w <= MaxBackoff /\ (h > 0 /\ h <= MaxBackoff => w = h)
<1>0. MinBackoff \in Nat /\ MaxBackoff \in Nat
  BY TransportAssumption
<1>1. CASE h > 0
  BY <1>0, <1>1 DEF RetryBackoff
<1>2. CASE ~(h > 0)
  <2>1. w \in 0..Exponential(n)
    BY <1>2 DEF RetryBackoff, Jittered
  <2>2. Exponential(n) \in Int /\ Exponential(n) <= MaxBackoff
    BY <1>0 DEF Exponential
  <2> QED
    BY <1>0, <1>2, <2>1, <2>2
<1> QED
  BY <1>1, <1>2

\* Before the call nothing is sent and nothing is counted (transport.go:98).
LEMMA DoInvInit == DoInit => DoInv
<1> SUFFICES ASSUME DoInit PROVE DoInv
  OBVIOUS
<1>1. ctxDone \in BOOLEAN
  BY DEF DoInit
<1> QED
  BY <1>1, TransportAssumption
     DEF DoInit, DoInv, DoTypeOK, CountInv, OnceInv, PauseIsClamped, Headers

\* Each step keeps the invariant (transport.go:98-179).
LEMMA DoInvNext == DoInv /\ [DoNext]_doVars => DoInv'
<1> SUFFICES ASSUME DoInv, [DoNext]_doVars PROVE DoInv'
  OBVIOUS
<1> USE TransportAssumption
    DEF DoInv, DoTypeOK, CountInv, OnceInv, serverVars, Return
<1>1. CASE Do
  BY <1>1 DEF Do, PauseIsClamped
<1>2. CASE MarshalFails \/ RequestFails \/ SleepCancelled
  BY <1>2 DEF MarshalFails, RequestFails, SleepCancelled, PauseIsClamped
<1>3. ASSUME NEW status \in Statuses, Unreadable(status) PROVE DoInv'
  BY <1>3 DEF Unreadable, Perform, PauseIsClamped
<1>4. ASSUME NEW status \in Statuses, NEW h \in Headers, Retry(status, h) PROVE DoInv'
  <2>1. wait' \in Nat /\ wait' <= MaxBackoff /\ (h > 0 /\ h <= MaxBackoff => wait' = h)
    BY <1>4, BackoffRange DEF Retry, Headers
  <2>2. PauseIsClamped'
    BY <1>4, <2>1 DEF Retry, PauseIsClamped, Headers
  <2>3. Enabled /\ attempt < MaxRetries /\ (status = 429 \/ RetryServerErrors)
    BY <1>4 DEF Retry, ShouldRetry
  <2> QED
    BY <1>4, <2>1, <2>2, <2>3 DEF Retry, Perform
<1>5. ASSUME NEW status \in Statuses, NEW h \in Headers, Refused(status, h) PROVE DoInv'
  BY <1>5 DEF Refused, Perform, PauseIsClamped
<1>6. ASSUME NEW decodes \in BOOLEAN, Succeeds(decodes) PROVE DoInv'
  BY <1>6 DEF Succeeds, Perform, PauseIsClamped
<1>7. CASE SleepOver
  BY <1>7 DEF SleepOver, PauseIsClamped
<1>8. CASE CancelCtx
  <2>1. ctxDone' \in BOOLEAN
    BY <1>8 DEF CancelCtx
  <2> QED
    BY <1>8, <2>1 DEF CancelCtx, PauseIsClamped
<1>9. CASE LateRequest
  <2>0. wire \in Nat /\ applied \in Nat
    OBVIOUS
  <2>1. wire \in Nat /\ applied \in Nat /\ wire > 0 /\ wire' = wire - 1
        /\ (applied' = applied \/ applied' = applied + 1)
    BY <1>9 DEF LateRequest
  <2>2. wire' \in Nat /\ applied' \in Nat /\ applied' + wire' <= applied + wire
        /\ applied + wire > 0
    BY <2>1
  <2>3. UNCHANGED <<phase, ctxDone, attempt, wait, asked, result>>
    BY <1>9 DEF LateRequest
  <2>4. DoTypeOK' /\ PauseIsClamped'
    BY <2>2, <2>3 DEF PauseIsClamped
  <2>5. attempt \in Int /\ MaxRetries \in Int
    OBVIOUS
  <2> HIDE TransportAssumption DEF DoInv, DoTypeOK, CountInv, OnceInv
  <2>6. CountInv /\ OnceInv
    BY DEF DoInv
  <2>p. phase' = phase /\ attempt' = attempt
    BY <2>3
  <2>c. applied + wire \in Int /\ applied + wire # 0
    BY <2>0, <2>2
  <2>d. applied' + wire' \in Int /\ applied' + wire' <= applied + wire
    BY <2>2
  <2>7. CountInv'
    BY <2>p, <2>c, <2>d, <2>5, <2>6 DEF CountInv
  <2>8. OnceInv'
    BY <2>p, <2>c, <2>d, <2>6 DEF OnceInv
  <2> QED
    BY <2>4, <2>7, <2>8 DEF DoInv
<1>10. CASE UNCHANGED doVars
  BY <1>10 DEF doVars, PauseIsClamped
<1> QED
  BY <1>1, <1>2, <1>3, <1>4, <1>5, <1>6, <1>7, <1>8, <1>9, <1>10 DEF DoNext, CallStep

-----------------------------------------------------------------------------
\* The inductive invariant of a call.
THEOREM CallInvariant == DoSpec => []DoInv
BY DoInvInit, DoInvNext, PTL DEF DoSpec

\* Type correctness of transport.do (transport.go:98-179): attempt stays in 0..MaxRetries.
THEOREM CallTypes == DoSpec => []DoTypeOK
<1>1. DoInv => DoTypeOK
  BY DEF DoInv
<1> QED
  BY <1>1, CallInvariant, PTL

\* A call is performed at most once unless gateway errors are retried, and at most
\* 1 + MaxRetries times if they are (transport.go:157, rate_limiter.go:66-80).
THEOREM BoundedRepetition == DoSpec => []PerformedAtMost
<1>1. DoInv => PerformedAtMost
  BY TransportAssumption DEF DoInv, DoTypeOK, CountInv, OnceInv, PerformedAtMost
<1> QED
  BY <1>1, CallInvariant, PTL

\* The pause between two requests stays within MaxBackoff and is as long as the server
\* asked for, if that is within MaxBackoff (rate_limiter.go:45-62).
THEOREM PausesAreClamped == DoSpec => []PauseIsClamped
<1>1. DoInv => PauseIsClamped
  BY DEF DoInv
<1> QED
  BY <1>1, CallInvariant, PTL

-----------------------------------------------------------------------------
(* The federated client.                                                    *)

\* A region that is open and healthy at once is about to be settled: somebody who has
\* opened it has still to store FALSE in healthy, or its checker, who has stored TRUE,
\* has still to close it.
Pending(r) == \E a \in Actors : target[a] = r /\ pc[a] \in {"mark", "reset", "close"}

PendingInv == \A r \in Regions : cbState[r] = "open" /\ healthy[r] => Pending(r)

IInv == TypeOK /\ PendingInv

\* New regions are healthy behind a closed breaker (client.go:43-44, 60-61).
LEMMA IInvInit == Init => IInv
<1> SUFFICES ASSUME Init PROVE IInv
  OBVIOUS
<1>1. /\ healthy \in [Regions -> BOOLEAN] /\ cooled \in [Regions -> BOOLEAN]
      /\ up \in [Regions -> BOOLEAN] /\ stopped \in BOOLEAN /\ cancelled \in BOOLEAN
  BY DEF Init
<1>2. /\ target \in [Actors -> Regions \cup {None}] /\ \A r \in Regions : target[r] = r
      /\ \A a \in Actors : pc[a] = "idle"
  BY DEF Init, Actors
<1> QED
  BY <1>1, <1>2 DEF Init, IInv, TypeOK, PendingInv

\* Types, action by action.
LEMMA TypeOKNext == TypeOK /\ [Next]_vars => TypeOK'
<1> SUFFICES ASSUME TypeOK, [Next]_vars PROVE TypeOK'
  OBVIOUS
<1> USE FederationAssumption DEF regionVars, monitorVars, Actors, Recording, Healing, Go
<1>1. CASE StartHealthChecks \/ CheckAllRegions \/ EndHealthChecks
  BY <1>1 DEF StartHealthChecks, CheckAllRegions, EndHealthChecks, TypeOK
<1>8. CASE Stop \/ Cancel
  <2>1. stopped' \in BOOLEAN /\ cancelled' \in BOOLEAN
    BY <1>8 DEF Stop, Cancel, TypeOK
  <2> QED
    BY <1>8, <2>1 DEF Stop, Cancel, TypeOK
<1>2. ASSUME NEW r \in Regions, Check(r) PROVE TypeOK'
  <2>1. CASE CheckRegion(r) \/ CheckCooldown(r) \/ HalfOpen(r)
    BY <2>1 DEF CheckRegion, CheckCooldown, HalfOpen, TypeOK
  <2>2. CASE ProbeFails(r) \/ ProbeSucceeds(r)
    BY <2>2 DEF ProbeFails, ProbeSucceeds, Fail, TypeOK
  <2>3. CASE MarkHealthy(r)
    <3>1. healthy' \in [Regions -> BOOLEAN]
      BY <2>3 DEF MarkHealthy, TypeOK
    <3> QED
      BY <2>3, <3>1 DEF MarkHealthy, TypeOK
  <2>4. CASE ResetFailures(r) \/ CloseBreaker(r)
    BY <2>4 DEF ResetFailures, CloseBreaker, TypeOK
  <2> QED
    BY <1>2, <2>1, <2>2, <2>3, <2>4 DEF Check
<1>3. ASSUME NEW r \in Regions, CooldownPasses(r) \/ Outage(r) PROVE TypeOK'
  BY <1>3 DEF CooldownPasses, Outage, TypeOK
<1>4. ASSUME NEW a \in Actors, RecordFailure(a) PROVE TypeOK'
  <2>1. CASE StoreLastFailure(a)
    <3>1. cooled' \in [Regions -> BOOLEAN]
      BY <2>1 DEF StoreLastFailure, TypeOK
    <3> QED
      BY <2>1, <3>1 DEF StoreLastFailure, TypeOK
  <2>2. CASE AddFailure(a) \/ OpenBreaker(a)
    BY <2>2 DEF AddFailure, OpenBreaker, TypeOK
  <2>3. CASE MarkUnhealthy(a)
    <3>1. healthy' \in [Regions -> BOOLEAN]
      BY <2>3 DEF MarkUnhealthy, TypeOK
    <3> QED
      BY <2>3, <3>1 DEF MarkUnhealthy, TypeOK
  <2> QED
    BY <1>4, <2>1, <2>2, <2>3 DEF RecordFailure
<1>5. ASSUME NEW c \in Callers, NEW r \in Regions, Enqueue(c, r) PROVE TypeOK'
  BY <1>5 DEF Enqueue, TypeOK
<1>6. ASSUME NEW c \in Callers, EnqueueSucceeds(c) \/ EnqueueFails(c) PROVE TypeOK'
  BY <1>6 DEF EnqueueSucceeds, EnqueueFails, Fail, TypeOK
<1>7. CASE UNCHANGED vars
  BY <1>7 DEF vars, TypeOK
<1> QED
  BY <1>1, <1>2, <1>3, <1>4, <1>5, <1>6, <1>7, <1>8 DEF Next

\* Who settles a region stays until it is settled.
LEMMA PendingNext == IInv /\ [Next]_vars => PendingInv'
<1> SUFFICES ASSUME IInv, [Next]_vars PROVE PendingInv'
  OBVIOUS
<1> USE DEF IInv, TypeOK, PendingInv, Pending, regionVars, monitorVars, Go
<1>1. CASE StartHealthChecks \/ CheckAllRegions \/ EndHealthChecks
  BY <1>1 DEF StartHealthChecks, CheckAllRegions, EndHealthChecks
<1>8. CASE Stop \/ Cancel
  BY <1>8 DEF Stop, Cancel
<1>2. ASSUME NEW r \in Regions, Check(r) PROVE PendingInv'
  <2>0. r \in Actors
    BY DEF Actors
  <2>1. CASE CheckRegion(r) \/ CheckCooldown(r) \/ HalfOpen(r)
    BY <2>0, <2>1 DEF CheckRegion, CheckCooldown, HalfOpen
  <2>2. CASE ProbeFails(r) \/ ProbeSucceeds(r)
    BY <2>0, <2>2 DEF ProbeFails, ProbeSucceeds, Fail
  <2>3. CASE MarkHealthy(r) \/ ResetFailures(r) \/ CloseBreaker(r)
    BY <2>0, <2>3 DEF MarkHealthy, ResetFailures, CloseBreaker
  <2> QED
    BY <1>2, <2>1, <2>2, <2>3 DEF Check
<1>3. ASSUME NEW r \in Regions, CooldownPasses(r) \/ Outage(r) PROVE PendingInv'
  BY <1>3 DEF CooldownPasses, Outage
<1>4. ASSUME NEW a \in Actors, RecordFailure(a) PROVE PendingInv'
  <2>1. CASE StoreLastFailure(a) \/ AddFailure(a)
    BY <2>1 DEF StoreLastFailure, AddFailure
  <2>2. CASE OpenBreaker(a)
    BY <2>2 DEF OpenBreaker
  <2>3. CASE MarkUnhealthy(a)
    BY <2>3 DEF MarkUnhealthy
  <2> QED
    BY <1>4, <2>1, <2>2, <2>3 DEF RecordFailure
<1>5. ASSUME NEW c \in Callers, NEW r \in Regions, Enqueue(c, r) PROVE PendingInv'
  BY <1>5 DEF Enqueue, Actors
<1>6. ASSUME NEW c \in Callers, EnqueueSucceeds(c) \/ EnqueueFails(c) PROVE PendingInv'
  BY <1>6 DEF EnqueueSucceeds, EnqueueFails, Fail, Actors
<1>7. CASE UNCHANGED vars
  BY <1>7 DEF vars
<1> QED
  BY <1>1, <1>2, <1>3, <1>4, <1>5, <1>6, <1>7, <1>8 DEF Next

\* The inductive invariant of the federated client.
THEOREM FederationInvariant == Spec => []IInv
<1>1. IInv /\ [Next]_vars => IInv'
  BY TypeOKNext, PendingNext DEF IInv
<1> QED
  BY <1>1, IInvInit, PTL DEF Spec

\* Type correctness (client.go:213-253): whoever is inside checkRegion, recordFailure or
\* a call has a region to work on.
THEOREM FederationTypes == Spec => []TypeOK
<1>1. IInv => TypeOK
  BY DEF IInv
<1> QED
  BY <1>1, FederationInvariant, PTL

\* No interleaving of recordFailure and checkRegion leaves a region open and healthy.
THEOREM OpenRegionsAreLeftAlone == Spec => []OpenIsNeverHealthyAtRest
<1>1. IInv => OpenIsNeverHealthyAtRest
  BY DEF IInv, PendingInv, Pending, OpenIsNeverHealthyAtRest, AtRest, Recording, Healing
<1> QED
  BY <1>1, FederationInvariant, PTL
=============================================================================
