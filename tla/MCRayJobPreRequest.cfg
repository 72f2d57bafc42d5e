CONSTANTS
    Workers = {w1}
    None = None
    MaxAttempts = 1
    MaxGeneration = 1
    Reliable = {}
    Timeouts = FALSE
    CommitAckLoss = TRUE
SPECIFICATION Spec
PROPERTIES
    PreRequestFailureReleases
CHECK_DEADLOCK FALSE
