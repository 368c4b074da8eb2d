SPECIFICATION DoFairSpec
CONSTANTS
    Enabled = TRUE
    RetryServerErrors = TRUE
    MaxRetries = 3
    MinBackoff = 2
    MaxBackoff = 6
    RetryAfters <- MCRetryAfters
INVARIANTS
    PauseIsClamped
    PerformedAtMost
PROPERTY CallReturns
CHECK_DEADLOCK FALSE
