SPECIFICATION Spec
CONSTANTS
    i1 = i1
    i2 = i2
    None = None
    Invocations = {i1, i2}
    Jobs <- MCJobs
    Types = {"mail"}
    Undecodable = {"huge"}
    MaxWorkflowSteps = 3
    Defs <- MCDefs
    MaxBatch = 2
    MaxTries = 2
INVARIANTS
    CompletedWasHandled
    BatchReportIsExact
SYMMETRY InvocationSymmetry
PROPERTY ImplementsWorkflow
CHECK_DEADLOCK FALSE
