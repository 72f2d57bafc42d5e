CONSTANTS
    Workers = {w1, w2}
    None = None
    MaxAttempts = 2
    MaxGeneration = 3
    Reliable = {w2}
    Timeouts = FALSE
    CommitAckLoss = TRUE
SPECIFICATION Spec
INVARIANTS
    SubmitsOnce
    EnvelopeIsOwn
    RunningJobIsBound
    TrackingExclusive
PROPERTIES
    ImplementsLifecycle
    AutomaticRetryNeverOverlaps
    OwnerChangesOnlyFromDead
CHECK_DEADLOCK FALSE
