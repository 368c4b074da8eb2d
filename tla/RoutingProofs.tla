--------------------------- MODULE RoutingProofs ----------------------------
(***************************************************************************)
(* Proofs about Routing, for any regions, callers, weights, favourites and *)
(* bounds.                                                                 *)
(***************************************************************************)
EXTENDS Routing, TLAPS, FiniteSetTheorems, NaturalsInduction, WellFoundedInduction

-----------------------------------------------------------------------------
(* Sorted regions.                                                          *)

\* A set of numbers that is not empty has a least one.
LEMMA Least ==
    ASSUME NEW S, S \subseteq Nat, S # {}
    PROVE  \E m \in S : \A x \in S : m <= x
<1>1. PICK m \in S : \A x \in S : ~ (<<x, m>> \in OpToRel(<, Nat))
  BY NatLessThanWellFounded, WFMin
<1>2. \A x \in S : ~ (x < m)
  BY <1>1 DEF OpToRel
<1> QED
  BY <1>2

\* sortedRegionIDs has an entry at every index: some region has exactly k smaller ones.
LEMMA SortedExists ==
    ASSUME NEW H, H \subseteq Regions
    PROVE  \A k \in 0..Cardinality(H) - 1 :
              \E r \in H : Cardinality({x \in H : x < r}) = k
<1> DEFINE Below(r) == {x \in H : x < r}
           Bad == {k \in 0..Cardinality(H) - 1 : ~ \E r \in H : Cardinality(Below(r)) = k}
<1>1. H \subseteq Nat /\ IsFiniteSet(H) /\ Cardinality(H) \in Nat
  BY RoutingAssumption, FS_Subset, FS_CardinalityType
<1>2. SUFFICES ASSUME Bad # {} PROVE FALSE
  OBVIOUS
<1>3. PICK k \in Bad : \A x \in Bad : k <= x
  <2>1. Bad \subseteq Nat
    BY <1>1
  <2> HIDE DEF Bad
  <2> QED
    BY <1>2, <2>1, Least
<1>4. CASE k = 0
  <2>1. H # {}
    BY <1>1, <1>3, <1>4, FS_EmptySet
  <2>2. PICK m \in H : \A x \in H : m <= x
    BY <1>1, <2>1, Least
  <2>3. Below(m) = {}
    <3>1. \A x \in H : ~ (x < m)
      BY <1>1, <2>2
    <3> QED
      BY <3>1
  <2>4. Cardinality(Below(m)) = k
    BY <1>4, <2>3, FS_EmptySet
  <2> QED
    BY <1>3, <2>2, <2>4
<1>5. CASE k # 0
  <2>1. k - 1 \in 0..Cardinality(H) - 1 /\ k - 1 \notin Bad
    BY <1>1, <1>3, <1>5
  <2>2. PICK r \in H : Cardinality(Below(r)) = k - 1
    BY <2>1
  <2> DEFINE Upto == Below(r) \cup {r}
  <2>3. IsFiniteSet(Below(r)) /\ r \notin Below(r)
    BY <1>1, FS_Subset
  <2>4. IsFiniteSet(Upto) /\ Cardinality(Upto) = k
    <3>1. Cardinality(Upto) = Cardinality(Below(r)) + 1
      BY <2>3, FS_AddElement
    <3> HIDE DEF Upto, Below
    <3>2. k \in Int
      BY <1>1, <1>3
    <3>3. IsFiniteSet(Upto)
      BY <2>3, FS_AddElement DEF Upto
    <3> QED
      BY <2>2, <3>1, <3>2, <3>3
  <2>5. H \ Upto # {}
    <3>1. SUFFICES ASSUME H \ Upto = {} PROVE FALSE
      OBVIOUS
    <3>2. H = Upto
      BY <3>1
    <3>3. Cardinality(H) = k
      BY <2>4, <3>2
    <3> QED
      BY <1>1, <1>3, <3>3
  <2>6. PICK m \in H \ Upto : \A x \in H \ Upto : m <= x
    BY <1>1, <2>5, Least
  <2>7. Below(m) = Upto
    <3>1. r < m
      BY <1>1, <2>6
    <3>2. ASSUME NEW x \in H PROVE x < m <=> x < r \/ x = r
      BY <1>1, <2>6, <3>1
    <3> QED
      BY <3>2
  <2>8. Cardinality(Below(m)) = k
    BY <2>4, <2>7
  <2> QED
    BY <1>3, <2>6, <2>8
<1> QED
  BY <1>3, <1>4, <1>5

\* So the index of SelectFirst and of SelectNext names a region of the set.
LEMMA SortedMember ==
    ASSUME NEW H, H \subseteq Regions, H # {}, NEW n \in Nat
    PROVE  /\ sortedRegionID(H, 0) \in H
           /\ sortedRegionID(H, n % Cardinality(H)) \in H
<1>1. IsFiniteSet(H) /\ Cardinality(H) \in Nat /\ Cardinality(H) # 0
  BY RoutingAssumption, FS_Subset, FS_CardinalityType, FS_EmptySet
<1>2. 0 \in 0..Cardinality(H) - 1 /\ n % Cardinality(H) \in 0..Cardinality(H) - 1
  BY <1>1
<1>3. ASSUME NEW k \in 0..Cardinality(H) - 1 PROVE sortedRegionID(H, k) \in H
  BY SortedExists DEF sortedRegionID
<1> QED
  BY <1>2, <1>3

\* OverflowRouter draws a region of the map it ranges over.
LEMMA OverflowMember ==
    ASSUME NEW H, NEW order \in Orders(H), NEW pick, NEW r \in Overflow(order, pick)
    PROVE  r \in H
<1>1. order \in [1..Cardinality(H) -> H]
  BY DEF Orders, Bijection, Injection
<1> QED
  BY <1>1 DEF Overflow

-----------------------------------------------------------------------------
(* The invariant, caller by caller.                                         *)

\* The regions that healthyRegions or EnqueueToRegion looks at.
Scope(c) == IF op[c] = "to" THEN {arg[c]} ELSE Regions

\* What was found has been healthy, and who was healthy all the time is still to be
\* loaded or was found.
FoundInv(c) ==
    /\ found[c] \subseteq ever[c]
    /\ \A r \in steady[c] : healthy[r]
    /\ pc[c] # "idle" => \A r \in Regions : healthy[r] => r \in ever[c]
    /\ pc[c] = "idle" => found[c] = {}
    /\ pc[c] = "scan" => steady[c] \cap Scope(c) \subseteq left[c] \cup found[c]
    /\ pc[c] \in {"select", "ask", "load", "search"} =>
          found[c] # {} /\ steady[c] \cap Scope(c) \subseteq found[c]

\* GetJob has asked whom it has not still to ask.
SearchInv(c) ==
    /\ pc[c] = "select" => op[c] # "get"
    /\ pc[c] = "ask" => op[c] = "fetch" /\ Local \in found[c]
    /\ pc[c] = "search" =>
          op[c] = "get" /\ left[c] \subseteq found[c] /\ found[c] \subseteq left[c] \cup erred[c]

\* lowestLatencyRegion has the least of the latencies it has loaded, as far as they have
\* not changed since.
LoadInv(c) ==
    /\ pc[c] \in {"idle", "scan", "select", "ask"} => best[c].id = 0
    /\ pc[c] = "load" =>
          /\ op[c] # "get"
          /\ Fallback(c) = "fastest"
          /\ \A i \in DOMAIN Preferred(c) : Preferred(c)[i] \notin found[c] \ erred[c]
          /\ left[c] \subseteq found[c]
          /\ best[c].id = 0 => left[c] = found[c]
          /\ best[c].id # 0 =>
                /\ best[c].id \in found[c]
                /\ best[c].id \in moved[c] \/ best[c].latency = latency[best[c].id]
                /\ \A r \in (found[c] \ left[c]) \ moved[c] : best[c].latency <= latency[r]

RefusedInv(c) ==
    pc[c] = "refused" =>
        steady[c] \cap (CASE op[c] = "get"          -> {arg[c]} \ erred[c]
                          [] Fallback(c) = "refuse" -> Range(Preferred(c))
                          [] OTHER                  -> Regions) = {}

ChosenInv(c) ==
    pc[c] = "chosen" =>
        /\ target[c] \in ever[c]
        /\ op[c] # "get" =>
              \A i \in DOMAIN Preferred(c) : Preferred(c)[i] \in steady[c] \ erred[c] =>
                  \E k \in 1..i : target[c] = Preferred(c)[k]
        /\ op[c] # "get" /\ Fallback(c) = "fastest" =>
              \/ target[c] \in moved[c] \cup Range(Preferred(c))
              \/ \A r \in steady[c] \ moved[c] : latency[target[c]] <= latency[r]

CallInv(c) == FoundInv(c) /\ SearchInv(c) /\ LoadInv(c) /\ RefusedInv(c) /\ ChosenInv(c)

IInv == TypeOK /\ \A c \in Callers : CallInv(c)

-----------------------------------------------------------------------------
(* What the calls try.                                                      *)

LEMMA TriesTo ==
    ASSUME NEW c, op[c] = "to"
    PROVE  Preferred(c) = <<arg[c]>> /\ Fallback(c) = "refuse"
BY DEF Preferred, Fallback

LEMMA TriesFetch ==
    ASSUME NEW c, op[c] = "fetch"
    PROVE  Preferred(c) = <<Local>> /\ Fallback(c) = "fastest"
BY DEF Preferred, Fallback

LEMMA TriesTurn ==
    ASSUME NEW c, op[c] \in Ops \ {"get"}, strategy \in Strategies,
           Fallback(c) \in {"turn", "weighted"}
    PROVE  Preferred(c) = <<>>
BY RoutingAssumption DEF Preferred, PreferredBy, Fallback, FallbackBy, Ops

LEMMA DomainIsPositive ==
    ASSUME TypeOK, NEW c \in Callers
    PROVE  DOMAIN Preferred(c) \subseteq Nat \ {0}
<1>1. op[c] \in {"enqueue", "to", "fetch", "get"} /\ Favourites \in Seq(IDs)
  BY RoutingAssumption DEF TypeOK, Ops
<1>2. DOMAIN SubSeq(Favourites, 1, 1) \subseteq Nat \ {0} /\ DOMAIN Favourites \subseteq Nat \ {0}
  BY <1>1
<1> QED
  BY <1>1, <1>2 DEF Preferred, PreferredBy

\* A call keeps its strategy and its arguments.
LEMMA TriesSame ==
    ASSUME NEW c, strategy' = strategy, op'[c] = op[c], arg'[c] = arg[c]
    PROVE  Preferred(c)' = Preferred(c) /\ Fallback(c)' = Fallback(c) /\ Scope(c)' = Scope(c)
BY DEF Preferred, PreferredBy, Fallback, FallbackBy, Scope

-----------------------------------------------------------------------------
\* A caller starts without a call.
LEMMA IInvInit == Init => IInv
<1> SUFFICES ASSUME Init PROVE IInv
  OBVIOUS
<1> USE RoutingAssumption
<1>1. healthy \in [Regions -> BOOLEAN]
  BY DEF Init
<1>2. best \in [Callers -> [id : IDs, latency : 0..MaxLatency]]
  BY DEF Init, NoBest, IDs
<1>3. TypeOK
  BY <1>1, <1>2 DEF Init, TypeOK, IDs, Ops
<1>4. ASSUME NEW c \in Callers PROVE CallInv(c)
  BY DEF Init, CallInv, FoundInv, SearchInv, LoadInv, RefusedInv, ChosenInv, NoBest
<1> QED
  BY <1>3, <1>4 DEF IInv

-----------------------------------------------------------------------------
(* Types.                                                                   *)

Places == {"idle", "scan", "select", "ask", "load", "search", "chosen", "refused"}

LEMMA TypeOKCall == ASSUME TypeOK, NEW c \in Callers, CallInv(c), CallStep(c) PROVE TypeOK'
<1> USE DEF clientVars, regionVars, history, Go, Visit, Choose
<1>1. ASSUME NEW o \in Calls[strategy][c], NEW a \in IDs, Begin(c, o, a) PROVE TypeOK'
  <2>1. o \in Ops
    BY RoutingAssumption DEF TypeOK
  <2>2. /\ left' \in [Callers -> SUBSET Regions]
        /\ steady' \in [Callers -> SUBSET Regions]
        /\ ever' \in [Callers -> SUBSET Regions]
    BY <1>1 DEF Begin, TypeOK
  <2> QED
    BY <1>1, <2>1, <2>2 DEF Begin, TypeOK
<1>2. ASSUME NEW r \in Regions, HealthyRegion(c, r) PROVE TypeOK'
  BY <1>2 DEF HealthyRegion, TypeOK
<1>3. ASSUME NEW r \in Regions, SelectPreferred(c, r) PROVE TypeOK'
  <2>1. pc' \in [Callers -> Places] /\ target' \in [Callers -> IDs]
    BY <1>3 DEF SelectPreferred, TypeOK, IDs, Places
  <2> QED
    BY <1>3, <2>1 DEF SelectPreferred, TypeOK, Places
<1>4. ASSUME NEW r \in Regions, LoadLatency(c, r) PROVE TypeOK'
  <2>1. latency[r] \in 0..MaxLatency
    BY DEF TypeOK
  <2>2. best' \in [Callers -> [id : IDs, latency : 0..MaxLatency]]
    BY <1>4, <2>1 DEF LoadLatency, TypeOK, IDs
  <2> QED
    BY <1>4, <2>2 DEF LoadLatency, TypeOK
<1>5. ASSUME NEW r \in Regions, GetJob(c, r) PROVE TypeOK'
  <2>1. pc' \in [Callers -> Places] /\ target' \in [Callers -> IDs]
    BY <1>5 DEF GetJob, TypeOK, IDs, Places
  <2>2. left' \in [Callers -> SUBSET Regions] /\ erred' \in [Callers -> SUBSET Regions]
    <3>1. CASE UNCHANGED <<left, erred>>
      BY <3>1 DEF TypeOK
    <3>2. CASE left' = [left EXCEPT ![c] = left[c] \ {r}] /\ erred' = [erred EXCEPT ![c] = @ \cup {r}]
      BY <3>2 DEF TypeOK
    <3> QED
      BY <1>5, <3>1, <3>2 DEF GetJob
  <2> QED
    BY <1>5, <2>1, <2>2 DEF GetJob, TypeOK, Places
<1>6. CASE HealthyRegions(c)
  <2>1. pc' \in [Callers -> Places] /\ left' \in [Callers -> SUBSET Regions]
    BY <1>6 DEF HealthyRegions, TypeOK, Places
  <2> QED
    BY <1>6, <2>1 DEF HealthyRegions, TypeOK, Places
<1>12. CASE Refuse(c) \/ NotFound(c)
  BY <1>12 DEF Refuse, NotFound, TypeOK
<1>13. CASE SelectFastest(c)
  BY <1>13 DEF SelectFastest, TypeOK
<1>7. ASSUME SelectFirst(c) \/ SelectNext(c) PROVE TypeOK'
  <2>1. found[c] \in SUBSET Regions /\ found[c] # {} /\ counter \in Nat
    BY <1>7 DEF SelectFirst, SelectNext, CallInv, FoundInv, TypeOK
  <2>2. /\ sortedRegionID(found[c], 0) \in Regions
        /\ sortedRegionID(found[c], counter % Cardinality(found[c])) \in Regions
    BY <2>1, SortedMember
  <2>3. CASE SelectFirst(c)
    BY <2>2, <2>3 DEF SelectFirst, TypeOK, IDs
  <2>4. CASE SelectNext(c)
    <3> DEFINE r == sortedRegionID(found[c], counter % Cardinality(found[c]))
    <3>1. turns' \in [of : SUBSET Regions, taken : [Regions -> Nat]]
      BY <2>1, <2>4 DEF SelectNext, Taken, TypeOK
    <3> HIDE DEF r
    <3>2. r \in Regions
      BY <2>2 DEF r
    <3>3. target' = [target EXCEPT ![c] = r] /\ counter' \in Nat
      BY <2>1, <2>4 DEF SelectNext, r
    <3> QED
      BY <2>4, <3>1, <3>2, <3>3 DEF SelectNext, TypeOK, IDs
  <2> QED
    BY <1>7, <2>3, <2>4
<1>8. CASE SelectWeighted(c)
  <2>1. PICK order \in Orders(found[c]), pick \in Picks(found[c]) :
           \E r \in Overflow(order, pick) : Choose(c, r)
    BY <1>8 DEF SelectWeighted
  <2>2. PICK r \in Overflow(order, pick) : Choose(c, r)
    BY <2>1
  <2>3. r \in Regions
    BY <2>2, OverflowMember DEF TypeOK
  <2> QED
    BY <1>8, <2>2, <2>3 DEF SelectWeighted, TypeOK, IDs
<1>9. CASE Asked(c)
  <2>1. Local \in Regions
    BY <1>9 DEF Asked, CallInv, SearchInv, TypeOK
  <2>2. CASE Choose(c, Local) /\ UNCHANGED <<left, erred>>
    BY <1>9, <2>1, <2>2 DEF Asked, TypeOK, IDs
  <2>3. CASE Go(c, "load") /\ Visit(c, found[c]) /\ erred' = [erred EXCEPT ![c] = {Local}]
             /\ UNCHANGED target
    <3>1. left' \in [Callers -> SUBSET Regions] /\ erred' \in [Callers -> SUBSET Regions]
      BY <2>1, <2>3 DEF TypeOK
    <3> QED
      BY <1>9, <2>3, <3>1 DEF Asked, TypeOK
  <2> QED
    BY <1>9, <2>2, <2>3 DEF Asked
<1>10. CASE LowestLatencyRegion(c)
  BY <1>10 DEF LowestLatencyRegion, TypeOK
<1>11. CASE Return(c)
  <2>1. NoBest \in [id : IDs, latency : 0..MaxLatency]
    BY RoutingAssumption DEF NoBest, IDs
  <2> QED
    BY <1>11, <2>1 DEF Return, TypeOK, IDs, Ops
<1> QED
  BY <1>1, <1>2, <1>3, <1>4, <1>5, <1>6, <1>7, <1>8, <1>9, <1>10, <1>11, <1>12,
     <1>13 DEF CallStep

LEMMA TypeOKRegion ==
    ASSUME TypeOK, NEW r \in Regions, SetHealth(r) \/ \E l \in 0..MaxLatency : SetLatency(r, l)
    PROVE  TypeOK'
<1> USE DEF clientVars, callVars
<1>1. CASE SetHealth(r)
  <2>1. healthy' \in [Regions -> BOOLEAN]
    BY <1>1 DEF SetHealth, TypeOK
  <2>2. steady' \in [Callers -> SUBSET Regions] /\ ever' \in [Callers -> SUBSET Regions]
    <3>1. CASE healthy[r]
      BY <1>1, <3>1 DEF SetHealth, TypeOK
    <3>2. CASE ~healthy[r]
      BY <1>1, <3>2 DEF SetHealth, TypeOK
    <3> QED
      BY <3>1, <3>2
  <2> QED
    BY <1>1, <2>1, <2>2 DEF SetHealth, TypeOK
<1>2. ASSUME NEW l \in 0..MaxLatency, SetLatency(r, l) PROVE TypeOK'
  <2>1. moved' \in [Callers -> SUBSET Regions]
    BY <1>2 DEF SetLatency, TypeOK
  <2> QED
    BY <1>2, <2>1 DEF SetLatency, TypeOK
<1> QED
  BY <1>1, <1>2

-----------------------------------------------------------------------------
(* One caller does not disturb another.                                     *)

Same(d) ==
    /\ strategy' = strategy /\ healthy' = healthy /\ latency' = latency
    /\ pc'[d] = pc[d] /\ op'[d] = op[d] /\ arg'[d] = arg[d]
    /\ left'[d] = left[d] /\ found'[d] = found[d]
    /\ best'[d] = best[d] /\ target'[d] = target[d]
    /\ steady'[d] = steady[d] /\ ever'[d] = ever[d] /\ moved'[d] = moved[d] /\ erred'[d] = erred[d]

LEMMA Frame == ASSUME NEW d, CallInv(d), Same(d) PROVE CallInv(d)'
<1>1. Preferred(d)' = Preferred(d) /\ Fallback(d)' = Fallback(d) /\ Scope(d)' = Scope(d)
  BY TriesSame DEF Same
<1>2. FoundInv(d)' /\ SearchInv(d)'
  BY <1>1 DEF CallInv, FoundInv, SearchInv, Same
<1>3. LoadInv(d)'
  BY <1>1 DEF CallInv, LoadInv, Same
<1>4. RefusedInv(d)'
  BY <1>1 DEF CallInv, RefusedInv, Same
<1>5. ChosenInv(d)'
  BY <1>1 DEF CallInv, ChosenInv, Same
<1> QED
  BY <1>2, <1>3, <1>4, <1>5 DEF CallInv

LEMMA CallStepSame ==
    ASSUME TypeOK, NEW c \in Callers, CallStep(c), NEW d \in Callers \ {c}
    PROVE  Same(d)
<1> USE DEF clientVars, regionVars, history, Go, Visit, Choose, Same, TypeOK
<1>1. ASSUME NEW o \in Calls[strategy][c], NEW a \in IDs, Begin(c, o, a) PROVE Same(d)
  BY <1>1 DEF Begin
<1>2. ASSUME NEW r \in Regions, HealthyRegion(c, r) \/ SelectPreferred(c, r) PROVE Same(d)
  BY <1>2 DEF HealthyRegion, SelectPreferred
<1>3. ASSUME NEW r \in Regions, LoadLatency(c, r) \/ GetJob(c, r) PROVE Same(d)
  BY <1>3 DEF LoadLatency, GetJob
<1>4. CASE HealthyRegions(c) \/ Refuse(c) \/ SelectFastest(c) \/ NotFound(c)
  BY <1>4 DEF HealthyRegions, Refuse, SelectFastest, NotFound
<1>5. CASE SelectFirst(c) \/ SelectNext(c) \/ SelectWeighted(c)
  BY <1>5 DEF SelectFirst, SelectNext, SelectWeighted
<1>6. CASE Asked(c) \/ LowestLatencyRegion(c) \/ Return(c)
  BY <1>6 DEF Asked, LowestLatencyRegion, Return
<1> QED
  BY <1>1, <1>2, <1>3, <1>4, <1>5, <1>6 DEF CallStep

-----------------------------------------------------------------------------
(* What a caller does keeps its own invariant.                              *)

LEMMA BeginInv ==
    ASSUME TypeOK, NEW c \in Callers, CallInv(c),
           NEW o \in Calls[strategy][c], NEW a \in IDs, Begin(c, o, a)
    PROVE  CallInv(c)'
<1> USE DEF clientVars, regionVars, Go, Visit
<1>1. /\ pc'[c] = "scan" /\ op'[c] = o /\ arg'[c] = a /\ found'[c] = {} /\ best'[c].id = 0
      /\ steady'[c] = {r \in Regions : healthy[r]} /\ ever'[c] = steady'[c]
      /\ left'[c] = IF o = "to" THEN {a} \cap Regions ELSE Regions
      /\ healthy' = healthy
  BY DEF Begin, TypeOK, CallInv, FoundInv, LoadInv
<1>2. FoundInv(c)'
  BY <1>1 DEF FoundInv, Scope
<1> QED
  BY <1>1, <1>2 DEF CallInv, SearchInv, LoadInv, RefusedInv, ChosenInv

LEMMA HealthyRegionInv ==
    ASSUME TypeOK, NEW c \in Callers, CallInv(c), NEW r \in Regions, HealthyRegion(c, r)
    PROVE  CallInv(c)'
<1> USE DEF clientVars, regionVars, history, Visit
<1>1. /\ pc'[c] = "scan" /\ pc[c] = "scan" /\ best'[c] = best[c]
      /\ steady' = steady /\ ever' = ever /\ healthy' = healthy
      /\ left'[c] = left[c] \ {r}
      /\ found'[c] = IF healthy[r] THEN found[c] \cup {r} ELSE found[c]
  BY DEF HealthyRegion, TypeOK
<1>2. Scope(c)' = Scope(c)
  BY DEF HealthyRegion, Scope
<1>3. FoundInv(c)'
  BY <1>1, <1>2 DEF CallInv, FoundInv
<1> QED
  BY <1>1, <1>3 DEF CallInv, SearchInv, LoadInv, RefusedInv, ChosenInv

\* A call is refused when a scan has found nothing, or nothing that may be taken.
LEMMA HealthyRegionsInv ==
    ASSUME TypeOK, NEW c \in Callers, CallInv(c), HealthyRegions(c)
    PROVE  CallInv(c)'
<1> USE DEF clientVars, regionVars, history, Go, Visit
<1>1. /\ pc[c] = "scan" /\ left[c] = {} /\ best' = best /\ op' = op /\ arg' = arg
      /\ steady' = steady /\ ever' = ever /\ healthy' = healthy /\ found' = found /\ erred' = erred
      /\ strategy' = strategy
  BY DEF HealthyRegions
<1>2. Preferred(c)' = Preferred(c) /\ Fallback(c)' = Fallback(c) /\ Scope(c)' = Scope(c)
  BY <1>1, TriesSame
<1>3. steady[c] \cap Scope(c) \subseteq found[c]
  BY <1>1 DEF CallInv, FoundInv
<1>4. CASE found[c] = {}
  <2>1. pc'[c] = "refused"
    BY <1>4 DEF HealthyRegions, TypeOK
  <2>2. op[c] = "to" => Range(Preferred(c)) = {arg[c]} /\ Fallback(c) = "refuse"
    BY TriesTo DEF Range
  <2>3. steady[c] \subseteq Regions
    BY DEF TypeOK
  <2>4. RefusedInv(c)'
    <3>1. CASE op[c] = "to"
      BY <1>1, <1>2, <1>3, <1>4, <2>2, <3>1 DEF RefusedInv, Scope
    <3>2. CASE op[c] # "to"
      <4>1. steady[c] = {}
        BY <1>3, <1>4, <2>3, <3>2 DEF Scope
      <4> QED
        BY <1>1, <1>2, <4>1 DEF RefusedInv
    <3> QED
      BY <3>1, <3>2
  <2>5. FoundInv(c)'
    BY <1>1, <2>1 DEF CallInv, FoundInv
  <2> QED
    BY <2>1, <2>4, <2>5 DEF CallInv, SearchInv, LoadInv, ChosenInv
<1>5. CASE found[c] # {} /\ op[c] = "get"
  <2>1. pc'[c] = "search" /\ left'[c] = found[c]
    BY <1>5 DEF HealthyRegions, TypeOK
  <2>2. FoundInv(c)' /\ SearchInv(c)'
    BY <1>1, <1>2, <1>3, <1>5, <2>1 DEF CallInv, FoundInv, SearchInv
  <2> QED
    BY <2>1, <2>2 DEF CallInv, LoadInv, RefusedInv, ChosenInv
<1>6. CASE found[c] # {} /\ op[c] # "get"
  <2>1. pc'[c] = "select"
    BY <1>6 DEF HealthyRegions, TypeOK
  <2>2. FoundInv(c)' /\ SearchInv(c)' /\ LoadInv(c)'
    BY <1>1, <1>2, <1>3, <1>6, <2>1 DEF CallInv, FoundInv, SearchInv, LoadInv
  <2> QED
    BY <2>1, <2>2 DEF CallInv, RefusedInv, ChosenInv
<1> QED
  BY <1>4, <1>5, <1>6

\* What a call that has found its regions still knows.
LEMMA SelectFacts ==
    ASSUME TypeOK, NEW c \in Callers, CallInv(c), pc[c] = "select",
           strategy' = strategy, op' = op, arg' = arg, found' = found, healthy' = healthy,
           steady' = steady, ever' = ever
    PROVE  /\ found[c] # {} /\ found[c] \subseteq Regions /\ found[c] \subseteq ever[c]
           /\ Preferred(c)' = Preferred(c) /\ Fallback(c)' = Fallback(c) /\ Scope(c)' = Scope(c)
           /\ op[c] # "get" /\ best[c].id = 0
           /\ \A i \in DOMAIN Preferred(c) : Preferred(c)[i] \in steady[c] => Preferred(c)[i] \in found[c]
           /\ pc'[c] \in {"chosen", "refused"} => FoundInv(c)'
           /\ pc'[c] \in {"ask", "load"} => FoundInv(c)'
<1>1. found[c] # {} /\ found[c] \subseteq Regions /\ found[c] \subseteq ever[c]
  BY DEF TypeOK, CallInv, FoundInv
<1>2. Preferred(c)' = Preferred(c) /\ Fallback(c)' = Fallback(c) /\ Scope(c)' = Scope(c)
  BY TriesSame
<1>3. op[c] # "get" /\ best[c].id = 0
  BY DEF CallInv, SearchInv, LoadInv
<1>4. ASSUME NEW i \in DOMAIN Preferred(c), Preferred(c)[i] \in steady[c]
      PROVE  Preferred(c)[i] \in found[c]
  <2>1. CASE op[c] = "to"
    <3>1. Preferred(c)[i] = arg[c]
      BY <2>1, TriesTo
    <3> QED
      BY <1>4, <2>1, <3>1 DEF CallInv, FoundInv, Scope
  <2>2. CASE op[c] # "to"
    BY <1>4, <2>2 DEF CallInv, FoundInv, Scope, TypeOK
  <2> QED
    BY <2>1, <2>2
<1>5. pc'[c] \in {"chosen", "refused", "ask", "load"} => FoundInv(c)'
  BY <1>2 DEF CallInv, FoundInv
<1> QED
  BY <1>1, <1>2, <1>3, <1>4, <1>5

\* A strategy that takes any region it found, when none is preferred, passes over none.
LEMMA AnyFound ==
    ASSUME TypeOK, NEW c \in Callers, CallInv(c), pc[c] = "select", NoneFound(c), Fallback(c) # "fastest",
           strategy' = strategy, op' = op, arg' = arg, found' = found, healthy' = healthy,
           steady' = steady, ever' = ever, NEW r \in found[c], Choose(c, r)
    PROVE  CallInv(c)'
<1>1. pc'[c] = "chosen" /\ target'[c] = r
  BY DEF Choose, Go, TypeOK
<1>2. FoundInv(c)'
  BY <1>1, SelectFacts
<1>3. \A i \in DOMAIN Preferred(c) : Preferred(c)[i] \notin steady[c]
  BY SelectFacts DEF NoneFound
<1>4. ChosenInv(c)'
  BY <1>1, <1>3, SelectFacts DEF ChosenInv
<1> QED
  BY <1>1, <1>2, <1>4 DEF CallInv, SearchInv, LoadInv, RefusedInv

LEMMA SelectInv ==
    ASSUME TypeOK, NEW c \in Callers, CallInv(c),
           \/ \E r \in Regions : SelectPreferred(c, r)
           \/ Refuse(c) \/ SelectFirst(c) \/ SelectNext(c) \/ SelectWeighted(c) \/ SelectFastest(c)
    PROVE  CallInv(c)'
<1> USE DEF clientVars, regionVars, history
<1>1. /\ pc[c] = "select" /\ strategy' = strategy /\ op' = op /\ arg' = arg /\ found' = found
      /\ healthy' = healthy /\ steady' = steady /\ ever' = ever /\ best' = best
      /\ erred' = erred /\ moved' = moved /\ latency' = latency
  BY DEF SelectPreferred, Refuse, SelectFirst, SelectNext, SelectWeighted, SelectFastest
<1>2. ASSUME NEW r \in Regions, SelectPreferred(c, r) PROVE CallInv(c)'
  <2>1. PICK i \in DOMAIN Preferred(c) :
           Preferred(c)[i] = r /\ \A k \in 1..i - 1 : Preferred(c)[k] \notin found[c]
    BY <1>2 DEF SelectPreferred, PreferredFound
  <2>2. r \in found[c]
    BY <1>2 DEF SelectPreferred, PreferredFound
  <2>3. CASE op[c] = "fetch"
    <3>1. pc'[c] = "ask"
      BY <1>2, <2>3 DEF SelectPreferred, Go, TypeOK
    <3>2. r = Local
      BY <2>1, <2>3, TriesFetch
    <3>3. FoundInv(c)'
      BY <1>1, <3>1, SelectFacts
    <3> QED
      BY <1>1, <2>2, <2>3, <3>1, <3>2, <3>3, SelectFacts
         DEF CallInv, SearchInv, LoadInv, RefusedInv, ChosenInv
  <2>4. CASE op[c] # "fetch"
    <3>1. pc'[c] = "chosen" /\ target'[c] = r
      BY <1>2, <2>4 DEF SelectPreferred, Choose, Go, TypeOK
    <3>2. FoundInv(c)'
      BY <1>1, <3>1, SelectFacts
    <3>3. ASSUME NEW m \in DOMAIN Preferred(c), Preferred(c)[m] \in steady[c]
          PROVE  \E k \in 1..m : r = Preferred(c)[k]
      <4>1. i \in Nat \ {0} /\ m \in Nat \ {0}
        BY DomainIsPositive DEF TypeOK
      <4>2. m \notin 1..i - 1
        BY <1>1, <2>1, <3>3, SelectFacts
      <4> QED
        BY <2>1, <4>1, <4>2
    <3>4. r \in Range(Preferred(c))
      BY <2>1 DEF Range
    <3>5. r \in ever[c]
      BY <1>1, <2>2, SelectFacts
    <3>6. Preferred(c)' = Preferred(c)
      BY <1>1, SelectFacts
    <3>7. ChosenInv(c)'
      BY <1>1, <3>1, <3>3, <3>4, <3>5, <3>6 DEF ChosenInv
    <3> QED
      BY <3>1, <3>2, <3>7 DEF CallInv, SearchInv, LoadInv, RefusedInv
  <2> QED
    BY <2>3, <2>4
<1>3. CASE Refuse(c)
  <2>1. pc'[c] = "refused"
    BY <1>3 DEF Refuse, Go, TypeOK
  <2>2. FoundInv(c)'
    BY <1>1, <2>1, SelectFacts
  <2>3. \A x \in Range(Preferred(c)) : x \notin steady[c]
    BY <1>1, <1>3, SelectFacts DEF Refuse, NoneFound, Range
  <2>4. RefusedInv(c)'
    <3>1. Fallback(c) = "refuse" /\ op'[c] # "get" /\ Fallback(c)' = Fallback(c)
          /\ Preferred(c)' = Preferred(c)
      BY <1>1, <1>3, SelectFacts DEF Refuse
    <3> QED
      BY <1>1, <2>3, <3>1 DEF RefusedInv
  <2> QED
    BY <2>1, <2>2, <2>4 DEF CallInv, SearchInv, LoadInv, ChosenInv
<1>4. CASE SelectFirst(c)
  <2>1. sortedRegionID(found[c], 0) \in found[c]
    BY <1>1, SelectFacts, SortedMember
  <2> QED
    BY <1>1, <1>4, <2>1, AnyFound DEF SelectFirst
<1>5. CASE SelectNext(c)
  <2>1. counter \in Nat
    BY DEF TypeOK
  <2>2. sortedRegionID(found[c], counter % Cardinality(found[c])) \in found[c]
    BY <1>1, <2>1, SelectFacts, SortedMember
  <2>3. Fallback(c) = "turn" /\ op[c] # "get" /\ op[c] \in Ops /\ strategy \in Strategies
    BY <1>1, <1>5, SelectFacts DEF SelectNext, TypeOK
  <2>4. NoneFound(c)
    BY <2>3, TriesTurn DEF NoneFound
  <2> QED
    BY <1>1, <1>5, <2>2, <2>3, <2>4, AnyFound DEF SelectNext
<1>6. CASE SelectWeighted(c)
  <2>1. PICK order \in Orders(found[c]), pick \in Picks(found[c]) :
           \E r \in Overflow(order, pick) : Choose(c, r)
    BY <1>6 DEF SelectWeighted
  <2>2. PICK r \in Overflow(order, pick) : Choose(c, r)
    BY <2>1
  <2>3. Fallback(c) = "weighted" /\ op[c] # "get" /\ op[c] \in Ops /\ strategy \in Strategies
    BY <1>1, <1>6, SelectFacts DEF SelectWeighted, TypeOK
  <2>4. NoneFound(c) /\ r \in found[c]
    BY <2>3, TriesTurn, OverflowMember DEF NoneFound
  <2> QED
    BY <1>1, <2>2, <2>3, <2>4, AnyFound
<1>7. CASE SelectFastest(c)
  <2>1. pc'[c] = "load" /\ left'[c] = found[c] /\ Fallback(c) = "fastest" /\ NoneFound(c)
    BY <1>7 DEF SelectFastest, Go, Visit, TypeOK
  <2>2. FoundInv(c)'
    BY <1>1, <2>1, SelectFacts
  <2>3. LoadInv(c)'
    BY <1>1, <2>1, SelectFacts DEF LoadInv, NoneFound
  <2> QED
    BY <2>1, <2>2, <2>3 DEF CallInv, SearchInv, RefusedInv, ChosenInv
<1> QED
  BY <1>2, <1>3, <1>4, <1>5, <1>6, <1>7

LEMMA AskedInv ==
    ASSUME TypeOK, NEW c \in Callers, CallInv(c), Asked(c)
    PROVE  CallInv(c)'
<1> USE DEF clientVars, regionVars, Go, Visit, Choose
<1>1. /\ pc[c] = "ask" /\ best' = best /\ op' = op /\ arg' = arg /\ strategy' = strategy
      /\ steady' = steady /\ ever' = ever /\ healthy' = healthy /\ found' = found
      /\ moved' = moved /\ latency' = latency
  BY DEF Asked
<1>2. Preferred(c)' = Preferred(c) /\ Fallback(c)' = Fallback(c) /\ Scope(c)' = Scope(c)
  BY <1>1, TriesSame
<1>3. op[c] = "fetch" /\ Local \in found[c] /\ Preferred(c) = <<Local>> /\ Fallback(c) = "fastest"
      /\ best[c].id = 0
  BY <1>1, TriesFetch DEF CallInv, SearchInv, LoadInv
<1>4. CASE Choose(c, Local) /\ UNCHANGED <<left, erred>>
  <2>1. pc'[c] = "chosen" /\ target'[c] = Local
    BY <1>4 DEF TypeOK
  <2>2. FoundInv(c)'
    BY <1>1, <1>2, <2>1 DEF CallInv, FoundInv
  <2>3. Local \in ever[c]
    BY <1>3 DEF CallInv, FoundInv
  <2>4. ChosenInv(c)'
    BY <1>1, <1>2, <1>3, <2>1, <2>3 DEF ChosenInv, Range
  <2> QED
    BY <2>1, <2>2, <2>4 DEF CallInv, SearchInv, LoadInv, RefusedInv
<1>5. CASE Go(c, "load") /\ Visit(c, found[c]) /\ erred' = [erred EXCEPT ![c] = {Local}]
  <2>1. pc'[c] = "load" /\ left'[c] = found[c] /\ erred'[c] = {Local}
    BY <1>5 DEF TypeOK
  <2>2. FoundInv(c)'
    BY <1>1, <1>2, <2>1 DEF CallInv, FoundInv
  <2>3. LoadInv(c)'
    BY <1>1, <1>2, <1>3, <2>1 DEF LoadInv
  <2> QED
    BY <2>1, <2>2, <2>3 DEF CallInv, SearchInv, RefusedInv, ChosenInv
<1> QED
  BY <1>4, <1>5 DEF Asked

LEMMA LoadLatencyInv ==
    ASSUME TypeOK, NEW c \in Callers, CallInv(c), NEW r \in Regions, LoadLatency(c, r)
    PROVE  CallInv(c)'
<1> USE DEF clientVars, regionVars, history, Visit
<1>1. /\ pc[c] = "load" /\ pc' = pc /\ op' = op /\ arg' = arg /\ strategy' = strategy
      /\ steady' = steady /\ ever' = ever /\ healthy' = healthy /\ found' = found /\ erred' = erred
      /\ moved' = moved /\ latency' = latency /\ r \in left[c] /\ left'[c] = left[c] \ {r}
      /\ best'[c] = IF best[c].id = 0 \/ latency[r] < best[c].latency
                       THEN [id |-> r, latency |-> latency[r]] ELSE best[c]
  BY DEF LoadLatency, TypeOK
<1>2. Preferred(c)' = Preferred(c) /\ Fallback(c)' = Fallback(c) /\ Scope(c)' = Scope(c)
  BY <1>1, TriesSame
<1>3. FoundInv(c)'
  BY <1>1, <1>2 DEF CallInv, FoundInv
<1>4. r # 0 /\ latency[r] \in Nat /\ best[c].latency \in Nat /\ \A x \in found[c] : latency[x] \in Nat
  BY RoutingAssumption DEF TypeOK
<1>5. LoadInv(c)'
  <2>1. /\ left'[c] \subseteq found[c] /\ best'[c].id # 0 /\ best'[c].id \in found[c]
        /\ best'[c].id \in moved[c] \/ best'[c].latency = latency[best'[c].id]
    BY <1>1, <1>4 DEF CallInv, LoadInv
  <2>2. ASSUME NEW x \in (found[c] \ left'[c]) \ moved[c] PROVE best'[c].latency <= latency[x]
    BY <1>1, <1>4 DEF CallInv, LoadInv
  <2> QED
    BY <1>1, <1>2, <2>1, <2>2 DEF CallInv, LoadInv
<1> QED
  BY <1>1, <1>3, <1>5 DEF CallInv, SearchInv, RefusedInv, ChosenInv

LEMMA LowestLatencyInv ==
    ASSUME TypeOK, NEW c \in Callers, CallInv(c), LowestLatencyRegion(c)
    PROVE  CallInv(c)'
<1> USE DEF clientVars, regionVars, history, Choose, Go
<1>1. /\ pc[c] = "load" /\ op' = op /\ arg' = arg /\ strategy' = strategy /\ left[c] = {}
      /\ steady' = steady /\ ever' = ever /\ healthy' = healthy /\ found' = found /\ erred' = erred
      /\ moved' = moved /\ latency' = latency /\ pc'[c] = "chosen" /\ target'[c] = best[c].id
  BY DEF LowestLatencyRegion, TypeOK
<1>2. Preferred(c)' = Preferred(c) /\ Fallback(c)' = Fallback(c) /\ Scope(c)' = Scope(c)
  BY <1>1, TriesSame
<1>3. FoundInv(c)'
  BY <1>1, <1>2 DEF CallInv, FoundInv
<1>4. best[c].id # 0 /\ best[c].id \in found[c] /\ best[c].id \in ever[c]
  BY <1>1 DEF CallInv, LoadInv, FoundInv
<1>5. op[c] # "get" /\ Fallback(c) = "fastest" /\ steady[c] \subseteq found[c]
  <2>1. op[c] # "get" /\ Fallback(c) = "fastest"
    BY <1>1 DEF CallInv, LoadInv
  <2>2. op[c] # "to"
    BY <2>1, TriesTo
  <2> QED
    BY <1>1, <2>1, <2>2 DEF CallInv, FoundInv, Scope, TypeOK
<1>6. ChosenInv(c)'
  <2>1. \A i \in DOMAIN Preferred(c) : Preferred(c)[i] \notin steady[c] \ erred[c]
    BY <1>1, <1>5 DEF CallInv, LoadInv
  <2>2. \/ best[c].id \in moved[c]
        \/ \A x \in steady[c] \ moved[c] : latency[best[c].id] <= latency[x]
    BY <1>1, <1>4, <1>5 DEF CallInv, LoadInv
  <2> QED
    BY <1>1, <1>2, <1>4, <2>1, <2>2 DEF ChosenInv
<1> QED
  BY <1>1, <1>3, <1>6 DEF CallInv, SearchInv, LoadInv, RefusedInv

LEMMA GetJobInv ==
    ASSUME TypeOK, NEW c \in Callers, CallInv(c),
           NotFound(c) \/ \E r \in Regions : GetJob(c, r)
    PROVE  CallInv(c)'
<1> USE DEF clientVars, regionVars, history, Choose, Go, Visit
<1>1. /\ pc[c] = "search" /\ op' = op /\ arg' = arg /\ strategy' = strategy
      /\ steady' = steady /\ ever' = ever /\ healthy' = healthy /\ found' = found
  BY DEF NotFound, GetJob
<1>2. Scope(c)' = Scope(c) /\ op[c] = "get" /\ steady[c] \subseteq found[c]
  BY <1>1 DEF Scope, CallInv, SearchInv, FoundInv, TypeOK
<1>3. CASE NotFound(c)
  <2>1. pc'[c] = "refused" /\ left[c] = {} /\ erred' = erred
    BY <1>3 DEF NotFound, TypeOK
  <2>2. steady[c] \subseteq erred[c]
    BY <1>1, <1>2, <2>1 DEF CallInv, SearchInv
  <2>3. Fallback(c)' = "search"
    BY <1>1, <1>2 DEF Fallback
  <2>4. RefusedInv(c)'
    BY <1>1, <1>2, <2>1, <2>2, <2>3 DEF RefusedInv
  <2>5. FoundInv(c)'
    BY <1>1, <2>1 DEF CallInv, FoundInv
  <2> QED
    BY <2>1, <2>4, <2>5 DEF CallInv, SearchInv, LoadInv, ChosenInv
<1>4. ASSUME NEW r \in Regions, GetJob(c, r) PROVE CallInv(c)'
  <2>1. r \in left[c] /\ r \in found[c] /\ r \in ever[c]
    BY <1>1, <1>4 DEF GetJob, CallInv, SearchInv, FoundInv
  <2>2. CASE Choose(c, r)
    <3>1. pc'[c] = "chosen" /\ target'[c] = r
      BY <2>2 DEF TypeOK
    <3>2. FoundInv(c)' /\ ChosenInv(c)'
      BY <1>1, <1>2, <2>1, <3>1 DEF CallInv, FoundInv, ChosenInv
    <3> QED
      BY <3>1, <3>2 DEF CallInv, SearchInv, LoadInv, RefusedInv
  <2>3. CASE Visit(c, left[c] \ {r}) /\ erred' = [erred EXCEPT ![c] = @ \cup {r}] /\ UNCHANGED pc
    <3>1. left'[c] = left[c] \ {r} /\ erred'[c] = erred[c] \cup {r} /\ pc'[c] = "search"
      BY <1>1, <2>3 DEF TypeOK
    <3>2. FoundInv(c)'
      BY <1>1, <1>2, <3>1 DEF CallInv, FoundInv
    <3>3. SearchInv(c)'
      BY <1>1, <3>1 DEF CallInv, SearchInv
    <3> QED
      BY <3>1, <3>2, <3>3 DEF CallInv, LoadInv, RefusedInv, ChosenInv
  <2> QED
    BY <1>4, <2>2, <2>3 DEF GetJob
<1> QED
  BY <1>3, <1>4

LEMMA ReturnInv ==
    ASSUME TypeOK, NEW c \in Callers, CallInv(c), Return(c)
    PROVE  CallInv(c)'
<1>1. /\ pc'[c] = "idle" /\ found'[c] = {} /\ steady'[c] = {} /\ best'[c] = NoBest
  BY DEF Return, Go, TypeOK
<1> QED
  BY <1>1 DEF CallInv, FoundInv, SearchInv, LoadInv, RefusedInv, ChosenInv, NoBest

-----------------------------------------------------------------------------
(* Regions change under a call.                                             *)

LEMMA SetHealthInv ==
    ASSUME TypeOK, NEW c \in Callers, CallInv(c), NEW r \in Regions, SetHealth(r)
    PROVE  CallInv(c)'
<1> USE DEF clientVars, callVars
<1>1. /\ pc' = pc /\ op' = op /\ arg' = arg /\ strategy' = strategy /\ left' = left /\ found' = found
      /\ best' = best /\ target' = target /\ latency' = latency /\ moved' = moved /\ erred' = erred
  BY DEF SetHealth
<1>2. Preferred(c)' = Preferred(c) /\ Fallback(c)' = Fallback(c) /\ Scope(c)' = Scope(c)
  BY <1>1, TriesSame
<1>3. /\ steady'[c] \subseteq steady[c] /\ ever[c] \subseteq ever'[c]
      /\ \A x \in steady'[c] : healthy'[x]
      /\ pc[c] # "idle" => \A x \in Regions : healthy'[x] => x \in ever'[c]
  <2>1. CASE healthy[r]
    BY <2>1 DEF SetHealth, TypeOK, CallInv, FoundInv
  <2>2. CASE ~healthy[r]
    BY <2>2 DEF SetHealth, TypeOK, CallInv, FoundInv
  <2> QED
    BY <2>1, <2>2
<1>4. FoundInv(c)'
  BY <1>1, <1>2, <1>3 DEF CallInv, FoundInv
<1>5. SearchInv(c)' /\ LoadInv(c)'
  BY <1>1, <1>2 DEF CallInv, SearchInv, LoadInv
<1>6. RefusedInv(c)'
  BY <1>1, <1>2, <1>3 DEF CallInv, RefusedInv
<1>7. ChosenInv(c)'
  BY <1>1, <1>2, <1>3 DEF CallInv, ChosenInv
<1> QED
  BY <1>4, <1>5, <1>6, <1>7 DEF CallInv

LEMMA SetLatencyInv ==
    ASSUME TypeOK, NEW c \in Callers, CallInv(c), NEW r \in Regions,
           NEW l \in 0..MaxLatency, SetLatency(r, l)
    PROVE  CallInv(c)'
<1> USE DEF clientVars, callVars
<1>1. /\ pc' = pc /\ op' = op /\ arg' = arg /\ strategy' = strategy /\ left' = left /\ found' = found
      /\ best' = best /\ target' = target /\ healthy' = healthy
      /\ steady' = steady /\ ever' = ever /\ erred' = erred
  BY DEF SetLatency
<1>2. Preferred(c)' = Preferred(c) /\ Fallback(c)' = Fallback(c) /\ Scope(c)' = Scope(c)
  BY <1>1, TriesSame
<1>3. /\ moved[c] \subseteq moved'[c]
      /\ pc[c] # "idle" => r \in moved'[c]
      /\ \A x \in Regions \ {r} : latency'[x] = latency[x]
  BY DEF SetLatency, TypeOK
<1>4. FoundInv(c)' /\ SearchInv(c)'
  BY <1>1, <1>2 DEF CallInv, FoundInv, SearchInv
<1>5. RefusedInv(c)'
  BY <1>1, <1>2 DEF CallInv, RefusedInv
<1>6. LoadInv(c)'
  BY <1>1, <1>2, <1>3 DEF CallInv, LoadInv, TypeOK
<1>7. ChosenInv(c)'
  BY <1>1, <1>2, <1>3 DEF CallInv, ChosenInv, TypeOK
<1> QED
  BY <1>4, <1>5, <1>6, <1>7 DEF CallInv

-----------------------------------------------------------------------------
\* Routing's invariant: what a call has loaded, against what was true while it ran.
THEOREM RoutingInvariant == Spec => []IInv
<1>1. IInv /\ [Next]_vars => IInv'
  <2> SUFFICES ASSUME IInv, [Next]_vars PROVE IInv'
    OBVIOUS
  <2>1. TypeOK /\ \A c \in Callers : CallInv(c)
    BY DEF IInv
  <2>2. ASSUME NEW c \in Callers, CallStep(c) PROVE IInv'
    <3>1. TypeOK'
      BY <2>1, <2>2, TypeOKCall
    <3>2. ASSUME NEW d \in Callers, d # c PROVE CallInv(d)'
      BY <2>1, <2>2, <3>2, CallStepSame, Frame
    <3>3. CallInv(c)'
      BY <2>1, <2>2, BeginInv, HealthyRegionInv, HealthyRegionsInv, SelectInv, AskedInv,
         LoadLatencyInv, LowestLatencyInv, GetJobInv, ReturnInv DEF CallStep
    <3> QED
      BY <3>1, <3>2, <3>3 DEF IInv
  <2>3. ASSUME NEW r \in Regions, SetHealth(r) \/ \E l \in 0..MaxLatency : SetLatency(r, l)
        PROVE  IInv'
    BY <2>1, <2>3, TypeOKRegion, SetHealthInv, SetLatencyInv DEF IInv
  <2>4. CASE UNCHANGED vars
    <3>1. TypeOK'
      BY <2>1, <2>4 DEF TypeOK, vars, clientVars, regionVars, callVars, history
    <3>2. ASSUME NEW c \in Callers PROVE CallInv(c)'
      <4>1. Same(c)
        BY <2>4 DEF Same, vars, clientVars, regionVars, callVars, history
      <4> QED
        BY <2>1, <4>1, Frame
    <3> QED
      BY <3>1, <3>2 DEF IInv
  <2> QED
    BY <2>2, <2>3, <2>4 DEF Next
<1> QED
  BY <1>1, IInvInit, PTL DEF Spec

\* A client's counters, scans and choices keep their types: in particular an index into
\* the sorted regions always names one.
THEOREM RoutingTypes == Spec => []TypeOK
<1>1. IInv => TypeOK
  BY DEF IInv
<1> QED
  BY <1>1, RoutingInvariant, PTL

\* healthyRegions and GetJob may work with stale answers, but under "next-healthy" a call
\* is refused only if no region that would do was healthy all the time.
THEOREM NobodyIsRefusedWithoutNeed == Spec => []RefusedOnlyInNeed
<1>1. IInv => RefusedOnlyInNeed
  BY DEF IInv, CallInv, RefusedInv, RefusedOnlyInNeed
<1> QED
  BY <1>1, RoutingInvariant, PTL

\* Select goes to a region that was healthy during the call and passes over no region
\* that was healthy all the time and preferred, or faster.
THEOREM NothingBetterIsPassedOver == Spec => []NoBetterRegionIsPassedOver
<1>1. IInv => NoBetterRegionIsPassedOver
  BY DEF IInv, CallInv, ChosenInv, NoBetterRegionIsPassedOver
<1> QED
  BY <1>1, RoutingInvariant, PTL

-----------------------------------------------------------------------------
(* Turns.                                                                   *)

\* Place of r in sortedRegionIDs(H), counted from 0.
Index(H, r) == Cardinality({x \in H : x < r})

LEMMA IndexIsOwn ==
    ASSUME NEW H, H \subseteq Regions, NEW r \in H
    PROVE  /\ Index(H, r) \in 0..Cardinality(H) - 1
           /\ \A s \in H : Index(H, s) = Index(H, r) => s = r
<1> DEFINE Below(y) == {x \in H : x < y}
<1>1. H \subseteq Nat /\ IsFiniteSet(H) /\ Cardinality(H) \in Nat
  BY RoutingAssumption, FS_Subset, FS_CardinalityType
<1>2. \A y : IsFiniteSet(Below(y)) /\ Cardinality(Below(y)) \in Nat
  BY <1>1, FS_Subset, FS_CardinalityType
<1>3. Cardinality(Below(r)) < Cardinality(H)
  <2>1. Below(r) \subseteq H /\ Below(r) # H
    BY <1>1
  <2> HIDE DEF Below
  <2>2. Cardinality(Below(r)) <= Cardinality(H) /\ Cardinality(Below(r)) # Cardinality(H)
    BY <1>1, <2>1, FS_Subset
  <2> QED
    BY <1>1, <1>2, <2>2
<1>4. ASSUME NEW y \in H, NEW z \in H, y < z PROVE Cardinality(Below(y)) # Cardinality(Below(z))
  <2>1. Below(y) \subseteq Below(z)
    <3>1. ASSUME NEW x \in H, x < y PROVE x < z
      BY <1>1, <1>4, <3>1
    <3> QED
      BY <3>1
  <2>2. y \in Below(z) /\ y \notin Below(y)
    BY <1>1, <1>4
  <2> HIDE DEF Below
  <2> QED
    BY <1>2, <2>1, <2>2, FS_Subset
<1>5. ASSUME NEW s \in H, Cardinality(Below(s)) = Cardinality(Below(r)) PROVE s = r
  <2>1. s < r \/ r < s \/ s = r
    BY <1>1
  <2> QED
    BY <1>4, <1>5, <2>1
<1> QED
  BY <1>1, <1>2, <1>3, <1>5 DEF Index

\* The counter goes round.
LEMMA NextTurn ==
    ASSUME NEW n \in Nat, NEW N \in Nat \ {0}
    PROVE  /\ n % N \in 0..N - 1
           /\ (n + 1) % N = IF (n % N) + 1 = N THEN 0 ELSE (n % N) + 1
<1> DEFINE q == n \div N  r == n % N  qq == (n + 1) \div N  rr == (n + 1) % N
<1>1. n = N * q + r /\ r \in 0..N - 1 /\ q \in Int
  OBVIOUS
<1>2. n + 1 = N * qq + rr /\ rr \in 0..N - 1 /\ qq \in Int
  OBVIOUS
<1> HIDE DEF q, r, qq, rr
<1>3. N * qq - N * q = r + 1 - rr
  BY <1>1, <1>2
<1>4. N * (qq - q) = r + 1 - rr
  BY <1>1, <1>2, <1>3
<1>5. qq - q \in {0, 1}
  <2>1. CASE qq - q >= 2
    <3>1. N * (qq - q) >= N * 2
      BY <1>1, <1>2, <2>1
    <3> QED
      BY <1>1, <1>2, <1>4, <3>1
  <2>2. CASE qq - q <= -1
    <3>1. N * (qq - q) <= N * (-1)
      BY <1>1, <1>2, <2>2
    <3> QED
      BY <1>1, <1>2, <1>4, <3>1
  <2> QED
    BY <1>1, <1>2, <2>1, <2>2
<1>6. rr = IF r + 1 = N THEN 0 ELSE r + 1
  <2>1. CASE qq - q = 0
    BY <1>1, <1>2, <1>4, <2>1
  <2>2. CASE qq - q = 1
    BY <1>1, <1>2, <1>4, <2>2
  <2> QED
    BY <1>5, <2>1, <2>2
<1> QED
  BY <1>1, <1>6 DEF r, rr

\* Going round from a, index k comes before j.
Between(a, k, j) == IF a <= j THEN a <= k /\ k < j ELSE a <= k \/ k < j

\* Since the healthy regions changed, each has been taken m times, and once more those
\* from the index of the first call up to the index that is next.
TurnInv ==
    turns.of # {} =>
        \E m \in Nat, a \in 0..Cardinality(turns.of) - 1 :
            \A r \in turns.of :
                turns.taken[r] = IF Between(a, Index(turns.of, r), counter % Cardinality(turns.of))
                                   THEN m + 1 ELSE m

LEMMA TakesTurn ==
    ASSUME TypeOK, NEW c \in Callers, CallInv(c), TurnInv, SelectNext(c)
    PROVE  TurnInv'
<1> DEFINE H == found[c]
           N == Cardinality(H)
           j == counter % N
           r == sortedRegionID(H, j)
<1>1. H \subseteq Regions /\ H # {} /\ counter \in Nat
  BY DEF SelectNext, CallInv, FoundInv, TypeOK
<1>2. N \in Nat \ {0}
  BY <1>1, RoutingAssumption, FS_Subset, FS_CardinalityType, FS_EmptySet
<1>3. counter' = counter + 1
  BY DEF SelectNext
<1>4. turns'.of = H /\ \A x \in Regions : turns'.taken[x] = (IF turns.of = H THEN turns.taken[x] ELSE 0)
                                             + (IF x = r THEN 1 ELSE 0)
  BY DEF SelectNext, Taken
<1>5. r \in H /\ Index(H, r) = j
  <2>1. j \in 0..N - 1
    BY <1>1, <1>2, NextTurn
  <2>2. \E x \in H : Cardinality({y \in H : y < x}) = j
    BY <1>1, <2>1, SortedExists
  <2> QED
    BY <2>2 DEF sortedRegionID, Index
<1>6. \A x \in H : Index(H, x) \in 0..N - 1 /\ (Index(H, x) = j => x = r)
  BY <1>1, <1>5, IndexIsOwn
<1>7. j \in 0..N - 1 /\ counter' % N = IF j + 1 = N THEN 0 ELSE j + 1
  BY <1>1, <1>2, <1>3, NextTurn
<1> DEFINE jj == counter' % N
<1> HIDE DEF H, N, j, r, jj
<1>8. \E m \in Nat, a \in 0..N - 1 :
         \A x \in H : turns'.taken[x] = IF Between(a, Index(H, x), jj) THEN m + 1 ELSE m
  <2>1. CASE turns.of = H
    <3>1. PICK m \in Nat, a \in 0..N - 1 :
             \A x \in H : turns.taken[x] = IF Between(a, Index(H, x), j) THEN m + 1 ELSE m
      BY <1>1, <2>1 DEF TurnInv, N, j
    <3>2. CASE jj = a
      <4>1. ASSUME NEW x \in H
            PROVE  turns'.taken[x] = IF Between(a, Index(H, x), jj) THEN (m + 1) + 1 ELSE m + 1
        <5>1. turns'.taken[x] = turns.taken[x] + (IF x = r THEN 1 ELSE 0)
          BY <1>1, <1>4, <2>1
        <5>2. Between(a, Index(H, x), j) <=> x # r
          BY <1>2, <1>5, <1>6, <1>7, <3>2 DEF Between, jj
        <5>3. ~Between(a, Index(H, x), jj)
          BY <1>2, <1>6, <1>7, <3>2 DEF Between, jj
        <5>4. turns.taken[x] = IF x # r THEN m + 1 ELSE m
          BY <3>1, <5>2
        <5> QED
          BY <5>1, <5>3, <5>4
      <4>2. m + 1 \in Nat
        OBVIOUS
      <4> QED
        BY <4>1, <4>2
    <3>3. CASE jj # a
      <4>1. ASSUME NEW x \in H
            PROVE  turns'.taken[x] = IF Between(a, Index(H, x), jj) THEN m + 1 ELSE m
        <5>1. turns'.taken[x] = turns.taken[x] + (IF x = r THEN 1 ELSE 0)
          BY <1>1, <1>4, <2>1
        <5>2. Between(a, Index(H, x), jj) <=> Between(a, Index(H, x), j) \/ x = r
          BY <1>2, <1>5, <1>6, <1>7, <3>3 DEF Between, jj
        <5>3. x = r => ~Between(a, Index(H, x), j)
          BY <1>2, <1>5, <1>7 DEF Between
        <5>4. turns.taken[x] = IF Between(a, Index(H, x), j) THEN m + 1 ELSE m
          BY <3>1
        <5> QED
          BY <5>1, <5>2, <5>3, <5>4
      <4> QED
        BY <4>1
    <3> QED
      BY <3>2, <3>3
  <2>2. CASE turns.of # H
    <3>1. ASSUME NEW x \in H PROVE turns'.taken[x] = IF x = r THEN 1 ELSE 0
      BY <1>1, <1>4, <2>2, <3>1
    <3>2. CASE jj = j
      <4>1. N = 1
        BY <1>2, <1>7, <3>2 DEF jj
      <4>2. \A x \in H : x = r /\ ~Between(j, Index(H, x), jj)
        BY <1>6, <1>7, <3>2, <4>1 DEF Between
      <4>3. \A x \in H : turns'.taken[x] = IF Between(j, Index(H, x), jj) THEN 1 + 1 ELSE 1
        BY <3>1, <4>2
      <4> QED
        BY <1>7, <4>3
    <3>3. CASE jj # j
      <4>1. \A x \in H : Between(j, Index(H, x), jj) <=> x = r
        BY <1>2, <1>5, <1>6, <1>7, <3>3 DEF Between, jj
      <4>2. \A x \in H : turns'.taken[x] = IF Between(j, Index(H, x), jj) THEN 0 + 1 ELSE 0
        BY <3>1, <4>1
      <4> QED
        BY <1>7, <4>2
    <3> QED
      BY <3>2, <3>3
  <2> QED
    BY <2>1, <2>2
<1> QED
  BY <1>4, <1>8 DEF TurnInv, N, jj

\* "cycles through healthy regions in a deterministic order" (router.go): calls that find
\* the same regions take them in turn, for any number of regions and callers.
THEOREM RegionsTakeTurns == Spec => []RoundRobinTakesTurns
<1>1. Init => TurnInv
  BY DEF Init, TurnInv
<1>2. IInv /\ TurnInv /\ [Next]_vars => TurnInv'
  <2> SUFFICES ASSUME IInv, TurnInv, [Next]_vars PROVE TurnInv'
    OBVIOUS
  <2>1. ASSUME NEW c \in Callers, SelectNext(c) PROVE TurnInv'
    BY <2>1, TakesTurn DEF IInv
  <2>2. CASE UNCHANGED <<counter, turns>>
    BY <2>2 DEF TurnInv
  <2>3. ASSUME NEW c \in Callers, CallStep(c), ~SelectNext(c) PROVE UNCHANGED <<counter, turns>>
    BY <2>3 DEF CallStep, Begin, HealthyRegion, SelectPreferred, LoadLatency, GetJob, HealthyRegions,
                Refuse, SelectFirst, SelectWeighted, SelectFastest, Asked, LowestLatencyRegion,
                NotFound, Return, clientVars
  <2>4. ASSUME NEW r \in Regions, SetHealth(r) \/ \E l \in 0..MaxLatency : SetLatency(r, l)
        PROVE  UNCHANGED <<counter, turns>>
    BY <2>4 DEF SetHealth, SetLatency, clientVars
  <2>5. CASE UNCHANGED vars
    BY <2>2, <2>5 DEF vars, clientVars
  <2> QED
    BY <2>1, <2>2, <2>3, <2>4, <2>5 DEF Next
<1>3. TurnInv => RoundRobinTakesTurns
  <2> SUFFICES ASSUME TurnInv, NEW r \in turns.of, NEW s \in turns.of
               PROVE  turns.taken[r] <= turns.taken[s] + 1
    BY DEF RoundRobinTakesTurns
  <2>1. PICK m \in Nat, a \in 0..Cardinality(turns.of) - 1 :
           \A x \in turns.of :
              turns.taken[x] = IF Between(a, Index(turns.of, x), counter % Cardinality(turns.of))
                                 THEN m + 1 ELSE m
    BY DEF TurnInv
  <2>2. turns.taken[r] \in {m, m + 1} /\ turns.taken[s] \in {m, m + 1}
    BY <2>1
  <2> QED
    BY <2>2
<1> QED
  BY <1>1, <1>2, <1>3, RoutingInvariant, PTL DEF Spec

-----------------------------------------------------------------------------
(* The weighted choice.                                                     *)

LEMMA WeightType ==
    ASSUME NEW r \in Regions
    PROVE  Weight(r) \in Nat /\ Weight(r) >= 1
BY RoutingAssumption DEF Weight, DefaultWeight

\* The tickets of a region.
LEMMA OwnTickets ==
    ASSUME NEW r \in Regions
    PROVE  /\ IsFiniteSet({r} \X (1..Weight(r)))
           /\ Cardinality({r} \X (1..Weight(r))) = Weight(r)
<1>1. IsFiniteSet({r}) /\ Cardinality({r}) = 1
  BY FS_Singleton
<1>2. IsFiniteSet(1..Weight(r)) /\ Cardinality(1..Weight(r)) = Weight(r)
  BY WeightType, FS_Interval
<1>3. /\ IsFiniteSet({r} \X (1..Weight(r)))
      /\ Cardinality({r} \X (1..Weight(r))) = Cardinality({r}) * Cardinality(1..Weight(r))
  BY <1>1, <1>2, FS_Product
<1> QED
  BY <1>1, <1>2, <1>3, WeightType

LEMMA TicketsFinite ==
    ASSUME NEW S, S \subseteq Regions
    PROVE  IsFiniteSet(Tickets(S)) /\ TotalWeight(S) \in Nat
<1> DEFINE T == {{r} \X (1..Weight(r)) : r \in S}
           f == [r \in S |-> {r} \X (1..Weight(r))]
<1>1. IsFiniteSet(S)
  BY RoutingAssumption, FS_Subset
<1>2. f \in Surjection(S, T)
  BY DEF Surjection
<1>3. IsFiniteSet(T)
  <2> HIDE DEF f, T
  <2> QED
    BY <1>1, <1>2, FS_Surjection
<1>4. \A t \in T : IsFiniteSet(t)
  BY OwnTickets
<1>5. IsFiniteSet(UNION T)
  <2> HIDE DEF T
  <2> QED
    BY <1>3, <1>4, FS_UNION
<1> QED
  BY <1>5, FS_CardinalityType DEF Tickets, TotalWeight

\* One region more adds its weight.
LEMMA OneMore ==
    ASSUME NEW S, S \subseteq Regions, NEW r \in Regions, r \notin S
    PROVE  TotalWeight(S \cup {r}) = TotalWeight(S) + Weight(r)
<1> DEFINE Own == {r} \X (1..Weight(r))
<1>1. Tickets(S \cup {r}) = Tickets(S) \cup Own
  BY DEF Tickets
<1>2. Tickets(S) \cap Own = {}
  BY DEF Tickets
<1>3. IsFiniteSet(Tickets(S)) /\ IsFiniteSet(Own) /\ Cardinality(Own) = Weight(r)
  BY TicketsFinite, OwnTickets
<1>4. Cardinality(Tickets(S) \cup Own)
         = Cardinality(Tickets(S)) + Cardinality(Own) - Cardinality(Tickets(S) \cap Own)
  <2> HIDE DEF Own
  <2> QED
    BY <1>3, FS_Union
<1>5. Cardinality(Tickets(S)) \in Nat /\ Weight(r) \in Nat
  BY <1>3, FS_CardinalityType, WeightType
<1>6. Cardinality(Tickets(S) \cap Own) = 0
  BY <1>2, FS_EmptySet
<1>7. TotalWeight(S \cup {r}) = Cardinality(Tickets(S) \cup Own)
  BY <1>1 DEF TotalWeight
<1>8. Cardinality(Own) = Weight(r)
  BY <1>3
<1> HIDE DEF Own
<1>9. Cardinality(Tickets(S) \cup Own) = Cardinality(Tickets(S)) + Weight(r)
  BY <1>4, <1>5, <1>6, <1>8
<1> QED
  BY <1>7, <1>9 DEF TotalWeight

\* Fewer regions weigh no more.
LEMMA FewerWeighLess ==
    ASSUME NEW S, NEW T, S \subseteq T, T \subseteq Regions
    PROVE  TotalWeight(S) <= TotalWeight(T)
<1>1. Tickets(S) \subseteq Tickets(T)
  BY DEF Tickets
<1> QED
  BY <1>1, TicketsFinite, FS_Subset DEF TotalWeight

\* The numbers that make OverflowRouter return a region are as many as the region weighs.
LEMMA ShareIsWeight ==
    ASSUME NEW H, H \subseteq Regions, NEW order \in Orders(H), NEW r \in H
    PROVE  Cardinality({pick \in Picks(H) : Overflow(order, pick) = {r}}) = Weight(r)
<1> DEFINE n == Cardinality(H)
           First(k) == {order[i] : i \in 1..k}
           Shares == {pick \in Picks(H) : Overflow(order, pick) = {r}}
<1>1. IsFiniteSet(H) /\ n \in Nat
  BY RoutingAssumption, FS_Subset, FS_CardinalityType
<1>2. /\ order \in [1..n -> H] /\ DOMAIN order = 1..n
      /\ \A i, m \in 1..n : order[i] = order[m] => i = m
      /\ \A x \in H : \E i \in 1..n : order[i] = x
  BY DEF Orders, Bijection, Injection, Surjection, IsInjective
<1> HIDE DEF n
<1>3. PICK k \in 1..n : order[k] = r
  BY <1>2
<1>4. \A i \in 0..n : First(i) \subseteq H /\ First(i) \subseteq Regions
  BY <1>1, <1>2
<1>5. \A i \in 0..n : Sum(order, i) \in Nat
  BY <1>4, TicketsFinite DEF Sum
<1>6. \A i, m \in 0..n : i <= m => Sum(order, i) <= Sum(order, m)
  <2> SUFFICES ASSUME NEW i \in 0..n, NEW m \in 0..n, i <= m PROVE Sum(order, i) <= Sum(order, m)
    OBVIOUS
  <2>1. 1..i \subseteq 1..m
    BY <1>1
  <2>2. First(i) \subseteq First(m)
    BY <2>1
  <2> QED
    BY <1>4, <2>2, FewerWeighLess DEF Sum
<1>7. Sum(order, k) = Sum(order, k - 1) + Weight(r)
  <2>1. k - 1 \in 0..n /\ 1..k = (1..(k - 1)) \cup {k} /\ 1..(k - 1) \subseteq 1..n /\ k \notin 1..(k - 1)
    BY <1>1
  <2>2. First(k) = First(k - 1) \cup {r}
    BY <1>3, <2>1
  <2>3. r \notin First(k - 1)
    BY <1>2, <1>3, <2>1
  <2> QED
    BY <1>4, <2>1, <2>2, <2>3, OneMore DEF Sum
<1>8. Sum(order, k) <= TotalWeight(H) /\ TotalWeight(H) \in Nat
  <2>1. k \in 0..n
    BY <1>1
  <2> QED
    BY <1>4, <2>1, FewerWeighLess, TicketsFinite DEF Sum
<1> DEFINE lo == Sum(order, k - 1)
           hi == Sum(order, k)
<1>9. lo \in Nat /\ hi \in Nat /\ hi = lo + Weight(r) /\ Weight(r) \in Nat /\ Weight(r) >= 1
  <2>1. k - 1 \in 0..n /\ k \in 0..n
    BY <1>1
  <2> QED
    BY <1>5, <1>7, <2>1, WeightType
<1>10. ASSUME NEW pick \in Nat, Overflow(order, pick) = {r} PROVE lo <= pick /\ pick < hi
  <2>1. PICK m \in 1..n : /\ order[m] = r /\ pick < Sum(order, m)
                          /\ \A i \in 1..n : i < m => pick >= Sum(order, i)
    BY <1>2, <1>10 DEF Overflow
  <2>2. m = k
    BY <1>2, <1>3, <2>1
  <2>3. CASE k = 1
    <3>1. First(0) = {}
      OBVIOUS
    <3>2. Tickets({}) = {}
      BY DEF Tickets
    <3>3. Sum(order, 0) = 0
      BY <3>1, <3>2, FS_EmptySet DEF Sum, TotalWeight
    <3> QED
      BY <2>1, <2>2, <2>3, <3>3
  <2>4. CASE k # 1
    <3>1. k - 1 \in 1..n /\ k - 1 < k
      BY <1>1, <2>4
    <3>2. pick >= lo
      BY <2>1, <2>2, <3>1
    <3> QED
      BY <1>9, <2>1, <2>2, <3>2
  <2> QED
    BY <2>3, <2>4
<1>11. ASSUME NEW pick \in Nat, lo <= pick, pick < hi PROVE Overflow(order, pick) = {r}
  <2>1. \A i \in 1..n : i < k => pick >= Sum(order, i)
    <3> SUFFICES ASSUME NEW i \in 1..n, i < k PROVE pick >= Sum(order, i)
      OBVIOUS
    <3>1. i \in 0..n /\ k - 1 \in 0..n /\ i <= k - 1
      BY <1>1
    <3>2. Sum(order, i) <= lo /\ Sum(order, i) \in Nat
      BY <1>5, <1>6, <3>1
    <3> QED
      BY <1>9, <1>11, <3>2
  <2>2. ASSUME NEW m \in 1..n, pick < Sum(order, m), \A i \in 1..n : i < m => pick >= Sum(order, i)
        PROVE  m = k
    <3>1. Sum(order, m) \in Nat /\ m \in 0..n
      BY <1>1, <1>5
    <3>2. ~(m < k)
      BY <2>1, <2>2, <3>1
    <3>3. ~(k < m)
      BY <1>9, <1>11, <2>2
    <3> QED
      BY <1>1, <3>2, <3>3
  <2>3. {m \in 1..n : pick < Sum(order, m) /\ \A i \in 1..n : i < m => pick >= Sum(order, i)} = {k}
    BY <1>11, <2>1, <2>2
  <2> QED
    BY <1>2, <1>3, <2>3 DEF Overflow
<1>12. Shares = lo..(hi - 1)
  <2> HIDE DEF lo, hi
  <2>1. Picks(H) = 0..(TotalWeight(H) - 1)
    BY DEF Picks
  <2>2. hi <= TotalWeight(H)
    BY <1>8 DEF hi
  <2>3. ASSUME NEW x \in Shares PROVE x \in lo..(hi - 1)
    BY <1>8, <1>9, <1>10, <2>1, <2>3
  <2>4. ASSUME NEW x \in lo..(hi - 1) PROVE x \in Shares
    BY <1>8, <1>9, <1>11, <2>1, <2>2, <2>4
  <2> QED
    BY <2>3, <2>4
<1> QED
  <2> HIDE DEF lo, hi
  <2>1. Cardinality(lo..(hi - 1)) = Weight(r)
    BY <1>9, FS_Interval
  <2> QED
    BY <1>12, <2>1

\* The overflow strategy takes each region in proportion to its weight, whichever regions
\* were found healthy, whatever they weigh and in whatever order the two loops range over
\* the map (federation/router.go, OverflowRouter.Select).
THEOREM OverflowIsProportional == Spec => []OverflowFollowsWeights
<1>1. TypeOK => OverflowFollowsWeights
  <2> SUFFICES ASSUME TypeOK, NEW c \in Callers, NEW order \in Orders(found[c]), NEW r \in found[c]
               PROVE  Cardinality({pick \in Picks(found[c]) : Overflow(order, pick) = {r}}) = Weight(r)
    BY DEF OverflowFollowsWeights
  <2>1. found[c] \subseteq Regions
    BY DEF TypeOK
  <2> QED
    BY <2>1, ShareIsWeight
<1> QED
  BY <1>1, RoutingTypes, PTL
=============================================================================
