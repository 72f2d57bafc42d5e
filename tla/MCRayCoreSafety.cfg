SPECIFICATION Spec
CONSTANTS
    None = None
    Workers = {w1, w2}
    Reliable = {}
    MaxAttempts = 2
    MaxGeneration = 2
    Timeouts = FALSE
    Activity = TRUE
    Errors = TRUE
SYMMETRY Alike
CHECK_DEADLOCK FALSE
INVARIANT NoStaleHandle
PROPERTIES HandleKeepsExecution CancellationWins
