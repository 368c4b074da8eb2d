SPECIFICATION FairSpec
CONSTANTS
    LastEvent = 3
    HasId = {1, 3}
    MinBackoff = 1
    MaxBackoff = 3
INVARIANTS
    TypeOK
    NoEventIsSkipped
    IdsAreHandledOnce
PROPERTIES
    EachEventIsHandled
    CancelEnds
CHECK_DEADLOCK FALSE
