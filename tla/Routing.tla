------------------------------ MODULE Routing -------------------------------
(***************************************************************************)
(* How a call of federation/client.go finds its region: healthyRegions     *)
(* loads the health of one region after the other, the strategy            *)
(* (router.go) selects from what was found, and meanwhile the health       *)
(* monitor and other callers (Federation) change health and latencies.     *)
(*                                                                         *)
(* A region's ID is a number, its place in the order of strings; 0 is the  *)
(* empty string.  Enqueue, EnqueueToRegion, FetchFromAnyRegion and GetJob  *)
(* are calls of a caller; what a call does in its region is Federation's.  *)
(***************************************************************************)
EXTENDS Integers, Sequences, FiniteSetsExt, Functions

CONSTANTS
    Regions,       \* IDs of the configured regions
    Callers,       \* goroutines that use the client
    Calls,         \* the calls each of them makes, given the strategy
    Strategies,    \* strategies a client may be given
    Local,         \* FederatedClient.localRegion
    Favourites,    \* GeoPinRouter.Region; or the Primary and the Secondaries
    Default,       \* GeographicRouter.DefaultRegion
    FallbackBehavior,  \* RoutingPolicy.FallbackBehavior, which no code reads
    Weights,       \* RegionConfig.Weight as configured
    MaxLatency,    \* bound on latencies
    MaxChanges,    \* bound on changes of health and latency
    MaxCalls       \* bound on the counter of RoundRobinRouter

IDs == Regions \cup {0}
Ops == {"enqueue", "to", "fetch", "get"}

ASSUME RoutingAssumption ==
    /\ Regions \subseteq Nat \ {0} /\ Regions # {} /\ IsFiniteSet(Regions)
    /\ Strategies \subseteq {"affinity", "overflow", "geo-pin", "round-robin",
                             "latency", "active-passive", "geographic"}
    /\ Calls \in [Strategies -> [Callers -> SUBSET Ops]]
    /\ {Local, Default} \subseteq IDs
    /\ Favourites \in Seq(IDs)
    /\ FallbackBehavior \in {"next-healthy", "error"}
    /\ Weights \in [Regions -> Int]
    /\ MaxLatency \in Nat /\ MaxChanges \in Nat /\ MaxCalls \in Nat

VARIABLES
    strategy,  \* FederatedClient.strategy
    healthy,   \* regionState.healthy
    latency,   \* regionState.latency
    counter,   \* RoundRobinRouter.counter
    changes,   \* changes of health and latency so far
    pc,        \* where each caller is
    op,        \* its call: "enqueue", "to", "fetch" or "get"
    arg,       \* the hint's region, the region to enqueue to, or where the job to get is
    left,      \* regions the present loop has still to visit
    found,     \* the result of healthyRegions
    best,      \* bestID and bestLatency
    target,    \* the region returned
    steady,    \* history: regions healthy since the call began,
    ever,      \* ... at some time of the call,
    moved,     \* ... whose latency changed,
    erred,     \* ... and that failed to answer the call
    turns      \* history: regions taken in turn since the last change of the healthy ones

clientVars == <<strategy, counter, turns>>
regionVars == <<healthy, latency, changes>>
history    == <<steady, ever, moved, erred>>
callVars   == <<pc, op, arg, left, found, best, target>>
vars == <<clientVars, regionVars, callVars, history>>

TypeOK ==
    /\ strategy \in Strategies
    /\ healthy \in [Regions -> BOOLEAN]
    /\ latency \in [Regions -> 0..MaxLatency]
    /\ counter \in Nat
    /\ changes \in Nat
    /\ pc \in [Callers -> {"idle", "scan", "select", "ask", "load", "search", "chosen", "refused"}]
    /\ op \in [Callers -> Ops]
    /\ arg \in [Callers -> IDs]
    /\ left \in [Callers -> SUBSET Regions] /\ found \in [Callers -> SUBSET Regions]
    /\ steady \in [Callers -> SUBSET Regions] /\ ever \in [Callers -> SUBSET Regions]
    /\ moved \in [Callers -> SUBSET Regions] /\ erred \in [Callers -> SUBSET Regions]
    /\ best \in [Callers -> [id: IDs, latency: 0..MaxLatency]]
    /\ target \in [Callers -> IDs]
    /\ turns \in [of: SUBSET Regions, taken: [Regions -> Nat]]

NoBest == [id |-> 0, latency |-> 0]

\* A new client: every region starts healthy, without a latency.
Init ==
    /\ strategy \in Strategies
    /\ healthy = [r \in Regions |-> TRUE]
    /\ latency = [r \in Regions |-> 0]
    /\ counter = 0
    /\ changes = 0
    /\ pc = [c \in Callers |-> "idle"]
    /\ op = [c \in Callers |-> "enqueue"]
    /\ arg = [c \in Callers |-> 0]
    /\ left = [c \in Callers |-> {}]
    /\ found = left
    /\ best = [c \in Callers |-> NoBest]
    /\ target = [c \in Callers |-> 0]
    /\ steady = left /\ ever = left /\ moved = left /\ erred = left
    /\ turns = [of |-> {}, taken |-> [r \in Regions |-> 0]]

-----------------------------------------------------------------------------
(* The parts of router.go.                                                  *)

DefaultWeight == 1

\* WithRegion: a weight that is not positive is replaced.
Weight(r) == IF Weights[r] <= 0 THEN DefaultWeight ELSE Weights[r]

\* sortedRegionIDs(H)[k], counted from 0.
sortedRegionID(H, k) == CHOOSE r \in H : Cardinality({x \in H : x < r}) = k

\* The regions Select looks for by name, in order; hint is the context's.
PreferredBy(hint) ==
    CASE strategy = "affinity"       -> <<Local>>
      [] strategy = "geo-pin"        -> SubSeq(Favourites, 1, 1)
      [] strategy = "active-passive" -> Favourites
      [] strategy = "geographic"     -> <<hint, Default>>
      [] OTHER                       -> <<>>

\* The regions a call tries by name.
Preferred(c) ==
    CASE op[c] = "to"      -> <<arg[c]>>
      [] op[c] = "fetch"   -> <<Local>>
      [] op[c] = "enqueue" -> PreferredBy(arg[c])
      [] op[c] = "get"     -> <<>>

\* The first of them that was found healthy.
PreferredFound(c, r) ==
    /\ r \in found[c]
    /\ \E i \in DOMAIN Preferred(c) :
          Preferred(c)[i] = r /\ \A k \in 1..i - 1 : Preferred(c)[k] \notin found[c]

NoneFound(c) == \A i \in DOMAIN Preferred(c) : Preferred(c)[i] \notin found[c]

\* What Select does when none of them was, and what a call does.
FallbackBy ==
    CASE strategy \in {"affinity", "latency"}          -> "fastest"
      [] strategy = "geo-pin"                          -> "refuse"
      [] strategy \in {"active-passive", "geographic"} -> "first"
      [] strategy = "round-robin"                      -> "turn"
      [] strategy = "overflow"                         -> "weighted"

Fallback(c) ==
    CASE op[c] = "to"      -> "refuse"
      [] op[c] = "fetch"   -> "fastest"
      [] op[c] = "enqueue" -> FallbackBy
      [] op[c] = "get"     -> "search"

\* OverflowRouter's totalWeight: the number of tickets in a draw in which each region of S
\* holds as many as it weighs.
Tickets(S)     == UNION {{r} \X (1..Weight(r)) : r \in S}
TotalWeight(S) == Cardinality(Tickets(S))

\* OverflowRouter, for the order in which it ranges over the map H and the number it
\* draws: the region whose weight makes pick negative.
Sum(order, k) == TotalWeight({order[i] : i \in 1..k})

OverflowInclusive(order, pick) ==  \* mutant: pick <= 0 for pick < 0
    {order[k] : k \in {k \in DOMAIN order :
        pick <= Sum(order, k) /\ \A i \in DOMAIN order : i < k => pick > Sum(order, i)}}

Overflow(order, pick) ==
    {order[k] : k \in {k \in DOMAIN order :
        pick < Sum(order, k) /\ \A i \in DOMAIN order : i < k => pick >= Sum(order, i)}}

Orders(H) == Bijection(1..Cardinality(H), H)
Picks(H)  == 0..TotalWeight(H) - 1

-----------------------------------------------------------------------------
(* A call.                                                                  *)

Go(c, l) == pc' = [pc EXCEPT ![c] = l]
Visit(c, S) == left' = [left EXCEPT ![c] = S]

Choose(c, r) ==
    /\ target' = [target EXCEPT ![c] = r]
    /\ Go(c, "chosen")

\* A context carries a hint for the geographic strategy only.
Begin(c, o, a) ==
    /\ pc[c] = "idle"
    /\ o = "fetch" \/ (o = "enqueue" /\ strategy # "geographic") => a = 0
    /\ op' = [op EXCEPT ![c] = o]
    /\ arg' = [arg EXCEPT ![c] = a]
    /\ Visit(c, IF o = "to" THEN {a} \cap Regions ELSE Regions)
    /\ Go(c, "scan")
    /\ steady' = [steady EXCEPT ![c] = {r \in Regions : healthy[r]}]
    /\ ever' = [ever EXCEPT ![c] = steady'[c]]
    /\ UNCHANGED <<clientVars, regionVars, found, best, target, moved, erred>>

\* healthyRegions loads the health of one region.
HealthyRegion(c, r) ==
    /\ pc[c] = "scan"
    /\ r \in left[c]
    /\ Visit(c, left[c] \ {r})
    /\ found' = [found EXCEPT ![c] = IF healthy[r] THEN @ \cup {r} ELSE @]
    /\ UNCHANGED <<clientVars, regionVars, pc, op, arg, best, target, history>>

HealthyRegions(c) ==
    /\ pc[c] = "scan"
    /\ left[c] = {}
    /\ \/ found[c] = {} /\ Go(c, "refused") /\ UNCHANGED left
       \/ found[c] # {} /\ op[c] = "get" /\ Go(c, "search") /\ Visit(c, found[c])
       \/ found[c] # {} /\ op[c] # "get" /\ Go(c, "select") /\ UNCHANGED left
    /\ UNCHANGED <<clientVars, regionVars, op, arg, found, best, target, history>>

\* Select returns the preferred region; FetchFromAnyRegion first asks it for its health.
SelectPreferred(c, r) ==
    /\ pc[c] = "select"
    /\ PreferredFound(c, r)
    /\ IF op[c] = "fetch" THEN Go(c, "ask") /\ UNCHANGED target ELSE Choose(c, r)
    /\ UNCHANGED <<clientVars, regionVars, op, arg, left, found, best, history>>

Refuse(c) ==
    /\ pc[c] = "select"
    /\ NoneFound(c) /\ Fallback(c) = "refuse"
    /\ Go(c, "refused")
    /\ UNCHANGED <<clientVars, regionVars, op, arg, left, found, best, target, history>>

SelectFirst(c) ==
    /\ pc[c] = "select"
    /\ NoneFound(c) /\ Fallback(c) = "first"
    /\ Choose(c, sortedRegionID(found[c], 0))
    /\ UNCHANGED <<clientVars, regionVars, op, arg, left, found, best, history>>

\* Region r has been taken by a call that found the regions H.
Taken(H, r) ==
    turns' = [of |-> H,
              taken |-> [x \in Regions |-> (IF turns.of = H THEN turns.taken[x] ELSE 0)
                                              + (IF x = r THEN 1 ELSE 0)]]

SelectNextUnsorted(c) ==  \* mutant: the index goes into the map's own order
    /\ pc[c] = "select"
    /\ Fallback(c) = "turn"
    /\ counter < MaxCalls
    /\ counter' = counter + 1
    /\ \E r \in found[c] : Choose(c, r) /\ Taken(found[c], r)
    /\ UNCHANGED <<strategy, regionVars, op, arg, left, found, best, history>>

SelectNext(c) ==
    /\ pc[c] = "select"
    /\ Fallback(c) = "turn"
    /\ counter < MaxCalls
    /\ counter' = counter + 1
    /\ LET r == sortedRegionID(found[c], counter % Cardinality(found[c]))
       IN  Choose(c, r) /\ Taken(found[c], r)
    /\ UNCHANGED <<strategy, regionVars, op, arg, left, found, best, history>>

SelectWeighted(c) ==
    /\ pc[c] = "select"
    /\ Fallback(c) = "weighted"
    /\ \E order \in Orders(found[c]), pick \in Picks(found[c]) :
          \E r \in Overflow(order, pick) : Choose(c, r)
    /\ UNCHANGED <<clientVars, regionVars, op, arg, left, found, best, history>>

\* FetchFromAnyRegion: the local region answers, or it is one of all again.
Asked(c) ==
    /\ pc[c] = "ask"
    /\ \/ Choose(c, Local) /\ UNCHANGED <<left, erred>>
       \/ /\ Go(c, "load")
          /\ Visit(c, found[c])
          /\ erred' = [erred EXCEPT ![c] = {Local}]
          /\ UNCHANGED target
    /\ UNCHANGED <<clientVars, regionVars, op, arg, found, best, steady, ever, moved>>

\* lowestLatencyRegion, one load after the other.
SelectFastest(c) ==
    /\ pc[c] = "select"
    /\ NoneFound(c) /\ Fallback(c) = "fastest"
    /\ Go(c, "load")
    /\ Visit(c, found[c])
    /\ UNCHANGED <<clientVars, regionVars, op, arg, found, best, target, history>>

LoadLatencyLast(c, r) ==  \* mutant: the best latency is not kept
    /\ pc[c] = "load"
    /\ r \in left[c]
    /\ Visit(c, left[c] \ {r})
    /\ best' = [best EXCEPT ![c] = IF @.id = 0 \/ latency[r] < @.latency
                                      THEN [id |-> r, latency |-> 0] ELSE @]
    /\ UNCHANGED <<clientVars, regionVars, pc, op, arg, found, target, history>>

LoadLatency(c, r) ==
    /\ pc[c] = "load"
    /\ r \in left[c]
    /\ Visit(c, left[c] \ {r})
    /\ best' = [best EXCEPT ![c] = IF @.id = 0 \/ latency[r] < @.latency
                                      THEN [id |-> r, latency |-> latency[r]] ELSE @]
    /\ UNCHANGED <<clientVars, regionVars, pc, op, arg, found, target, history>>

LowestLatencyRegion(c) ==
    /\ pc[c] = "load"
    /\ left[c] = {}
    /\ Choose(c, best[c].id)
    /\ UNCHANGED <<clientVars, regionVars, op, arg, left, found, best, history>>

\* GetJob asks the regions that were found: one that has the job answers, or the call fails.
GetJobGivesUp(c, r) ==  \* mutant: the first error ends the search
    /\ pc[c] = "search"
    /\ r \in left[c]
    /\ \/ r = arg[c] /\ Choose(c, r) /\ UNCHANGED <<left, erred>>
       \/ /\ Go(c, "refused")
          /\ erred' = [erred EXCEPT ![c] = @ \cup {r}]
          /\ UNCHANGED <<left, target>>
    /\ UNCHANGED <<clientVars, regionVars, op, arg, found, best, steady, ever, moved>>

GetJob(c, r) ==
    /\ pc[c] = "search"
    /\ r \in left[c]
    /\ \/ r = arg[c] /\ Choose(c, r) /\ UNCHANGED <<left, erred>>
       \/ /\ Visit(c, left[c] \ {r})
          /\ erred' = [erred EXCEPT ![c] = @ \cup {r}]
          /\ UNCHANGED <<pc, target>>
    /\ UNCHANGED <<clientVars, regionVars, op, arg, found, best, steady, ever, moved>>

NotFound(c) ==
    /\ pc[c] = "search"
    /\ left[c] = {}
    /\ Go(c, "refused")
    /\ UNCHANGED <<clientVars, regionVars, op, arg, left, found, best, target, history>>

\* The call returns, and the caller forgets about it.
Return(c) ==
    /\ pc[c] \in {"chosen", "refused"}
    /\ Go(c, "idle")
    /\ op' = [op EXCEPT ![c] = "enqueue"]
    /\ arg' = [arg EXCEPT ![c] = 0]
    /\ best' = [best EXCEPT ![c] = NoBest]
    /\ target' = [target EXCEPT ![c] = 0]
    /\ left' = [left EXCEPT ![c] = {}]
    /\ found' = [found EXCEPT ![c] = {}]
    /\ steady' = [steady EXCEPT ![c] = {}]
    /\ ever' = [ever EXCEPT ![c] = {}]
    /\ moved' = [moved EXCEPT ![c] = {}]
    /\ erred' = [erred EXCEPT ![c] = {}]
    /\ UNCHANGED <<clientVars, regionVars>>

CallStep(c) ==
    \/ \E o \in Calls[strategy][c], a \in IDs : Begin(c, o, a)
    \/ \E r \in Regions : HealthyRegion(c, r) \/ SelectPreferred(c, r)
                             \/ LoadLatency(c, r) \/ GetJob(c, r)
    \/ HealthyRegions(c) \/ Refuse(c) \/ SelectFirst(c) \/ SelectNext(c)
    \/ SelectWeighted(c) \/ SelectFastest(c) \/ Asked(c) \/ LowestLatencyRegion(c)
    \/ NotFound(c) \/ Return(c)

-----------------------------------------------------------------------------
(* The monitor and other calls change a region (Federation).                *)

SetHealth(r) ==
    /\ changes < MaxChanges
    /\ changes' = changes + 1
    /\ healthy' = [healthy EXCEPT ![r] = ~@]
    /\ IF healthy[r]
          THEN /\ steady' = [c \in Callers |-> steady[c] \ {r}]
               /\ ever' = ever
          ELSE /\ ever' = [c \in Callers |-> IF pc[c] = "idle" THEN ever[c] ELSE ever[c] \cup {r}]
               /\ steady' = steady
    /\ UNCHANGED <<clientVars, latency, callVars, moved, erred>>

\* A probe stores the time it took.
SetLatency(r, l) ==
    /\ changes < MaxChanges
    /\ changes' = changes + 1
    /\ latency' = [latency EXCEPT ![r] = l]
    /\ moved' = [c \in Callers |-> IF pc[c] = "idle" THEN moved[c] ELSE moved[c] \cup {r}]
    /\ UNCHANGED <<clientVars, healthy, callVars, steady, ever, erred>>

Next ==
    \/ \E c \in Callers : CallStep(c)
    \/ \E r \in Regions : SetHealth(r) \/ \E l \in 0..MaxLatency : SetLatency(r, l)

Spec == Init /\ [][Next]_vars

-----------------------------------------------------------------------------
(* Properties.                                                              *)

\* With the default FallbackBehavior, "next-healthy", a call is refused only when it had
\* to be.  The regions are loaded one after the other while they change, and the answer is
\* stale when it is used; still a region that was healthy from the beginning of the call
\* to its end is not missed: one for a strategy that takes any, the one asked for
\* otherwise, and the one that has the job unless it failed to answer.
RefusedOnlyInNeed ==
    FallbackBehavior = "next-healthy" =>
        \A c \in Callers : pc[c] = "refused" =>
            steady[c] \cap (CASE op[c] = "get"          -> {arg[c]} \ erred[c]
                              [] Fallback(c) = "refuse" -> Range(Preferred(c))
                              [] OTHER                  -> Regions) = {}

\* A call goes to a region that was healthy at some time of the call, and passes over no
\* region that was healthy all the time and preferred to it: earlier in the order of the
\* strategy or, where latency decides, faster, as far as neither latency changed.
NoBetterRegionIsPassedOver ==
    \A c \in Callers : pc[c] = "chosen" =>
        /\ target[c] \in ever[c]
        /\ op[c] # "get" =>
              \A i \in DOMAIN Preferred(c) : Preferred(c)[i] \in steady[c] \ erred[c] =>
                  \E k \in 1..i : target[c] = Preferred(c)[k]
        /\ op[c] # "get" /\ Fallback(c) = "fastest" =>
              \/ target[c] \in moved[c] \cup Range(Preferred(c))
              \/ \A r \in steady[c] \ moved[c] : latency[target[c]] <= latency[r]

\* "cycles through healthy regions in a deterministic order": calls that find the same
\* regions take them in turn, however their scans and returns interleave: none is taken
\* twice more often than another.
RoundRobinTakesTurns ==
    \A r, s \in turns.of : turns.taken[r] <= turns.taken[s] + 1

\* "Higher weight values increase the probability of selection": in proportion, whatever
\* regions were found and in whatever order the map is ranged over.
OverflowFollowsWeights ==
    \A c \in Callers : pc[c] = "select" /\ Fallback(c) = "weighted" =>
        \A order \in Orders(found[c]), r \in found[c] :
            Cardinality({pick \in Picks(found[c]) : Overflow(order, pick) = {r}}) = Weight(r)
=============================================================================
