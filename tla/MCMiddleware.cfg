SPECIFICATION Spec
CONSTANTS
    e1 = e1
    e2 = e2
    j1 = j1
    j2 = j2
    None = None
    Executions = {e1, e2}
    Jobs = {j1, j2}
    LastStep = 1
SYMMETRY MCSymmetry
INVARIANTS
    TypeOK
    RegistryFollowsExecution
    NoStepIsSkipped
    EveryStartIsReported
    
CHECK_DEADLOCK FALSE
