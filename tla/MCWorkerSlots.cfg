SPECIFICATION Spec
CONSTANTS
    j1 = j1
    j2 = j2
    d1 = d1
    d2 = d2
    d3 = d3
    NoJob = NoJob
    Loop = Loop
    Jobs = {j1, j2}
    Deliveries = {d1, d2, d3}
    Types = {"email"}
    TypeOf <- MCOneType
    Concurrency = 2
    AckNackMaxRetries = 1
    Faulty = FALSE
    LeaseExpires = FALSE
    Directives = {}
    Beaters = {}
INVARIANTS
    TypeOK
    DispatchNeverBlocks
    ActiveCountExact
    LeasedJobIsInHand
SYMMETRY DeliverySymmetry
CHECK_DEADLOCK FALSE
