CONSTANTS
    Workers = {w1, w2}
    None = None
    MaxAttempts = 2
    MaxGeneration = 1
    Reliable = {w2}
    Timeouts = TRUE
    CommitAckLoss = FALSE
SPECIFICATION FairSpec
PROPERTIES
    InFlightResolved
    StopsOnlyWithAuthority
CHECK_DEADLOCK FALSE
