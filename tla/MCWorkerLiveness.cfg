SPECIFICATION FairSpec
CONSTANTS
    j1 = j1
    j2 = j2
    d1 = d1
    d2 = d2
    d3 = d3
    NoJob = NoJob
    Loop = Loop
    Jobs = {j1}
    Deliveries = {d1}
    Types = {"email"}
    TypeOf <- MCOneType
    Concurrency = 1
    AckNackMaxRetries = 3
    Faulty = TRUE
    LeaseExpires = FALSE
    Directives = {"quiet"}
    Beaters = {Loop}
PROPERTIES
    ShutdownCompletes
    SlotIsReleased
CHECK_DEADLOCK FALSE
