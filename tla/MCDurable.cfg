SPECIFICATION Spec
CONSTANTS
    Program <- MCProgram
    Survives = {1}
    Values = {1, 2}
    Error = Error
    MaxAttempts = 3
    MaxLate = 1
INVARIANTS
    TypeOK
    ReplayIsFaithful
    LogIsWhatHandlerSaw
    MismatchHasCause
PROPERTIES
    NothingIsRedone
    CheckpointOnlyGrows
CHECK_DEADLOCK FALSE
