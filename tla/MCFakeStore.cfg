SPECIFICATION FairSpec
CONSTANTS
    t1 = t1
    t2 = t2
    g1 = g1
    g2 = g2
    None = None
    Invalid = Invalid
    Tests = {t1, t2}
    Goroutines = {g1, g2}
    Types = {"mail"}
    Batches <- MCBatches
    Counts = {1, 2}
    MaxJobs = 2
INVARIANTS
    PerformedIsWhatFinished
    LatestFakeIsActive
PROPERTIES
    AssertionsAreStable
    PostedIsRecorded
CHECK_DEADLOCK FALSE
