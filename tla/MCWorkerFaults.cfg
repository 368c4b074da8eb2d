SPECIFICATION Spec
CONSTANTS
    j1 = j1
    j2 = j2
    d1 = d1
    d2 = d2
    d3 = d3
    NoJob = NoJob
    Loop = Loop
    Jobs = {j1}
    Deliveries = {d1, d2}
    Types = {"email", "report"}
    TypeOf <- MCTypeOf
    Concurrency = 2
    AckNackMaxRetries = 1
    Faulty = TRUE
    LeaseExpires = TRUE
    Directives = {}
    Beaters = {}
INVARIANTS
    ActiveJobsHaveOwner
    OutcomeHasCause
SYMMETRY DeliverySymmetry
CHECK_DEADLOCK FALSE
