SPECIFICATION FairSpec
CONSTANTS
    None = None
    Workers = {w1, w2}
    Reliable = {w2}
    MaxAttempts = 2
    MaxGeneration = 1
    Timeouts = TRUE
    Activity = FALSE
    Errors = TRUE
CHECK_DEADLOCK FALSE
PROPERTY InFlightResolved
