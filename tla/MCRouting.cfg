SPECIFICATION Spec
CONSTANTS
    c1 = c1
    c2 = c2
    Regions = {1, 2, 3}
    Callers = {c1, c2}
    Calls <- MCCalls
    Strategies = {"affinity", "overflow", "geo-pin", "round-robin", "latency", "active-passive", "geographic"}
    Local = 2
    Favourites <- MCFavourites
    Default = 3
    FallbackBehavior = "next-healthy"
    Weights <- MCWeights
    MaxLatency = 1
    MaxChanges = 2
    MaxCalls = 5
INVARIANTS
    RefusedOnlyInNeed
    NoBetterRegionIsPassedOver
    RoundRobinTakesTurns
    OverflowFollowsWeights
CHECK_DEADLOCK FALSE
