SPECIFICATION FairSpec
CONSTANTS
    east = east
    c1 = c1
    c2 = c2
    None = None
    Regions = {east}
    Callers = {c1, c2}
    Threshold = 2
    MaxFailures = 4
INVARIANTS
    OpenIsNeverHealthyAtRest
PROPERTY UpRegionRecovers
CHECK_DEADLOCK FALSE
