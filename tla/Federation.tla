----------------------------- MODULE Federation -----------------------------
(***************************************************************************)
(* The regions of federation/client.go: the health monitor probes every    *)
(* region in rounds, callers enqueue to regions they believe healthy, and  *)
(* both update a region's breaker through separate atomics, one step each. *)
(*                                                                         *)
(* Which healthy region a strategy picks is left open: that is Routing's   *)
(* part, and so is the latency.  A region's server is external.            *)
(***************************************************************************)
EXTENDS Naturals

CONSTANTS
    Regions,      \* the configured regions
    Callers,      \* goroutines that enqueue
    Threshold,    \* failureThreshold
    MaxFailures,  \* bound on a region's failure counter
    None          \* no region

ASSUME FederationAssumption ==
    /\ Threshold \in Nat /\ MaxFailures \in Nat
    /\ Regions \cap Callers = {}
    /\ None \notin Regions

VARIABLES
    healthy,    \* regionState.healthy
    cbState,    \* regionState.cbState
    failures,   \* regionState.failures
    cooled,     \* cooldownPeriod has passed since regionState.lastFailure
    monitor,    \* StartHealthChecks: "off", "on" or "ended"
    stopped,    \* FederatedClient.stopped is closed
    cancelled,  \* the context given to StartHealthChecks is done
    round,      \* regions whose check of this round has not started
    pc,         \* where each caller and each region's checker is
    target,     \* the region a caller or checker works on
    up          \* server: the region answers

regionVars  == <<healthy, cbState, failures, cooled>>
monitorVars == <<monitor, stopped, cancelled, round>>
vars == <<regionVars, monitorVars, pc, target, up>>

\* A check of region r is run by an actor of its own, named r.
Actors == Regions \cup Callers

\* The statements of recordFailure still to come, in order.
Recording == {"lastFailure", "add", "open", "mark"}
\* What a probe that succeeds has still to store.
Healing   == {"heal", "reset", "close"}

TypeOK ==
    /\ healthy \in [Regions -> BOOLEAN]
    /\ cbState \in [Regions -> {"closed", "open", "halfOpen"}]
    /\ failures \in [Regions -> Nat]
    /\ cooled \in [Regions -> BOOLEAN]
    /\ monitor \in {"off", "on", "ended"}
    /\ stopped \in BOOLEAN
    /\ cancelled \in BOOLEAN
    /\ round \subseteq Regions
    /\ pc \in [Actors -> {"idle", "call", "cooldown", "half", "probe"}
                             \cup Recording \cup Healing]
    /\ target \in [Actors -> Regions \cup {None}]
    /\ \A r \in Regions : target[r] = r
    /\ \A a \in Actors : pc[a] # "idle" => target[a] \in Regions
    /\ up \in [Regions -> BOOLEAN]

Init ==
    /\ healthy = [r \in Regions |-> TRUE]
    /\ cbState = [r \in Regions |-> "closed"]
    /\ failures = [r \in Regions |-> 0]
    /\ cooled = [r \in Regions |-> TRUE]
    /\ monitor = "off"
    /\ stopped = FALSE
    /\ cancelled = FALSE
    /\ round = {}
    /\ pc = [a \in Actors |-> "idle"]
    /\ target = [a \in Actors |-> IF a \in Regions THEN a ELSE None]
    /\ up = [r \in Regions |-> TRUE]

Go(a, l) == pc' = [pc EXCEPT ![a] = l]

-----------------------------------------------------------------------------
(* recordFailure, by a caller or by a checker.                              *)

\* A call to the region of a fails.
Fail(a) ==
    /\ failures[target[a]] < MaxFailures
    /\ Go(a, "lastFailure")
    /\ UNCHANGED <<regionVars, monitorVars, target, up>>

StoreLastFailure(a) ==
    /\ pc[a] = "lastFailure"
    /\ cooled' = [cooled EXCEPT ![target[a]] = FALSE]
    /\ Go(a, "add")
    /\ UNCHANGED <<healthy, cbState, failures, monitorVars, target, up>>

AddFailure(a) ==
    /\ pc[a] = "add"
    /\ failures' = [failures EXCEPT ![target[a]] = @ + 1]
    /\ Go(a, IF failures[target[a]] + 1 >= Threshold THEN "open" ELSE "idle")
    /\ UNCHANGED <<healthy, cbState, cooled, monitorVars, target, up>>

OpenBreaker(a) ==
    /\ pc[a] = "open"
    /\ cbState' = [cbState EXCEPT ![target[a]] = "open"]
    /\ Go(a, "mark")
    /\ UNCHANGED <<healthy, failures, cooled, monitorVars, target, up>>

MarkUnhealthyMissing(a) ==  \* mutant: only the breaker is opened
    /\ pc[a] = "mark"
    /\ Go(a, "idle")
    /\ UNCHANGED <<regionVars, monitorVars, target, up>>

MarkUnhealthy(a) ==
    /\ pc[a] = "mark"
    /\ healthy' = [healthy EXCEPT ![target[a]] = FALSE]
    /\ Go(a, "idle")
    /\ UNCHANGED <<cbState, failures, cooled, monitorVars, target, up>>

RecordFailure(a) ==
    StoreLastFailure(a) \/ AddFailure(a) \/ OpenBreaker(a) \/ MarkUnhealthy(a)

-----------------------------------------------------------------------------
(* EnqueueWithRegion and EnqueueToRegion.                                   *)

\* A caller finds region r healthy and its strategy selects it, or it is pinned to r.
Enqueue(c, r) ==
    /\ pc[c] = "idle"
    /\ healthy[r]
    /\ target' = [target EXCEPT ![c] = r]
    /\ Go(c, "call")
    /\ UNCHANGED <<regionVars, monitorVars, up>>

\* Success changes nothing in the region's state.
EnqueueSucceeds(c) ==
    /\ pc[c] = "call"
    /\ up[target[c]]
    /\ Go(c, "idle")
    /\ UNCHANGED <<regionVars, monitorVars, target, up>>

\* The region is down, or Enqueue fails before or after reaching it (validation, a
\* cancelled context, an error status): every error counts.
EnqueueFails(c) ==
    /\ pc[c] = "call"
    /\ Fail(c)

-----------------------------------------------------------------------------
(* StartHealthChecks, checkAllRegions and checkRegion.                      *)

StartHealthChecks ==
    /\ monitor = "off"
    /\ monitor' = "on"
    /\ round' = Regions
    /\ UNCHANGED <<regionVars, stopped, cancelled, pc, target, up>>

\* Every check of the round has ended: wg.Wait returns.
RoundOver == round = {} /\ \A r \in Regions : pc[r] = "idle"

\* The ticker fires and the select takes it, whatever else is ready.
CheckAllRegions ==
    /\ monitor = "on"
    /\ RoundOver
    /\ round' = Regions
    /\ UNCHANGED <<regionVars, monitor, stopped, cancelled, pc, target, up>>

\* The select of StartHealthChecks sees the end of the context or Stop.
EndHealthChecks ==
    /\ monitor = "on"
    /\ RoundOver
    /\ stopped \/ cancelled
    /\ monitor' = "ended"
    /\ UNCHANGED <<regionVars, stopped, cancelled, round, pc, target, up>>

Stop ==
    /\ ~stopped
    /\ stopped' = TRUE
    /\ UNCHANGED <<regionVars, monitor, cancelled, round, pc, target, up>>

\* The caller cancels the context.
Cancel ==
    /\ ~cancelled
    /\ cancelled' = TRUE
    /\ UNCHANGED <<regionVars, monitor, stopped, round, pc, target, up>>

\* checkRegion loads the breaker.
CheckRegion(r) ==
    /\ r \in round
    /\ pc[r] = "idle"
    /\ round' = round \ {r}
    /\ Go(r, IF cbState[r] = "open" THEN "cooldown" ELSE "probe")
    /\ UNCHANGED <<regionVars, monitor, stopped, cancelled, target, up>>

CheckCooldownNever(r) ==  \* mutant: an open breaker is never probed
    /\ pc[r] = "cooldown"
    /\ Go(r, "idle")
    /\ UNCHANGED <<regionVars, monitorVars, target, up>>

CheckCooldown(r) ==
    /\ pc[r] = "cooldown"
    /\ Go(r, IF cooled[r] THEN "half" ELSE "idle")
    /\ UNCHANGED <<regionVars, monitorVars, target, up>>

HalfOpen(r) ==
    /\ pc[r] = "half"
    /\ cbState' = [cbState EXCEPT ![r] = "halfOpen"]
    /\ Go(r, "probe")
    /\ UNCHANGED <<healthy, failures, cooled, monitorVars, target, up>>

\* The region does not answer "ok" within five seconds, or the monitor's context is
\* done: that counts against the region too.
ProbeFails(r) ==
    /\ pc[r] = "probe"
    /\ ~up[r] \/ cancelled
    /\ Fail(r)

ProbeSucceeds(r) ==
    /\ pc[r] = "probe"
    /\ up[r]
    /\ Go(r, "heal")
    /\ UNCHANGED <<regionVars, monitorVars, target, up>>

\* healthy and the latency, then the counter, then the breaker.
MarkHealthy(r) ==
    /\ pc[r] = "heal"
    /\ healthy' = [healthy EXCEPT ![r] = TRUE]
    /\ Go(r, "reset")
    /\ UNCHANGED <<cbState, failures, cooled, monitorVars, target, up>>

ResetFailures(r) ==
    /\ pc[r] = "reset"
    /\ failures' = [failures EXCEPT ![r] = 0]
    /\ Go(r, "close")
    /\ UNCHANGED <<healthy, cbState, cooled, monitorVars, target, up>>

CloseBreaker(r) ==
    /\ pc[r] = "close"
    /\ cbState' = [cbState EXCEPT ![r] = "closed"]
    /\ Go(r, "idle")
    /\ UNCHANGED <<healthy, failures, cooled, monitorVars, target, up>>

Check(r) ==
    \/ CheckRegion(r) \/ CheckCooldown(r) \/ HalfOpen(r) \/ ProbeFails(r)
    \/ ProbeSucceeds(r) \/ MarkHealthy(r) \/ ResetFailures(r) \/ CloseBreaker(r)

-----------------------------------------------------------------------------
\* The cooldown period of a region passes.
CooldownPasses(r) ==
    /\ ~cooled[r]
    /\ cooled' = [cooled EXCEPT ![r] = TRUE]
    /\ UNCHANGED <<healthy, cbState, failures, monitorVars, pc, target, up>>

\* A region's server goes down or comes back.
Outage(r) ==
    /\ up' = [up EXCEPT ![r] = ~@]
    /\ UNCHANGED <<regionVars, monitorVars, pc, target>>

Next ==
    \/ StartHealthChecks \/ CheckAllRegions \/ EndHealthChecks \/ Stop \/ Cancel
    \/ \E r \in Regions : Check(r) \/ CooldownPasses(r) \/ Outage(r)
    \/ \E a \in Actors : RecordFailure(a)
    \/ \E c \in Callers : \/ \E r \in Regions : Enqueue(c, r)
                          \/ EnqueueSucceeds(c) \/ EnqueueFails(c)

Spec == Init /\ [][Next]_vars

\* The ticker fires, time passes, and a goroutine that can run does.  Callers may
\* stop calling, and the monitor need not be started.
Fairness ==
    /\ WF_vars(CheckAllRegions)
    /\ \A r \in Regions : WF_vars(Check(r)) /\ WF_vars(CooldownPasses(r))
    /\ \A a \in Actors : WF_vars(RecordFailure(a))

FairSpec == Spec /\ Fairness

-----------------------------------------------------------------------------
(* Properties.                                                              *)

\* Nobody is in the middle of an update of region r.
AtRest(r) == \A a \in Actors : target[a] = r => pc[a] \notin Recording \cup Healing \cup {"half", "probe"}

\* Callers and checker store the atomics of a region in opposite orders and no lock
\* joins them.  Still no interleaving leaves a region that callers go on using behind
\* an open breaker, where probes respect a cooldown and traffic does not.
OpenIsNeverHealthyAtRest ==
    \A r \in Regions : AtRest(r) /\ cbState[r] = "open" => ~healthy[r]

\* A region that stays up is used again, again and again, whatever races between its
\* callers and its checker have left behind, as long as the monitor goes on.
UpRegionRecovers ==
    \A r \in Regions :
        (<>[](up[r] /\ monitor = "on" /\ ~cancelled)) => []<>healthy[r]
=============================================================================
