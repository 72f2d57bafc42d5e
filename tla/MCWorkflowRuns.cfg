SPECIFICATION Spec
CONSTANTS
    Topologies <- MCOneNode
    MaxRun = 2
    MaxAttempt = 2
    MaxRevision = 1
    MaxClock = 2
    RetentionDays = 1
    MaxItems = 2
    MaxBytes = 3
    BatchSize = 1
    ReadAttempts = {}
    Outcomes = {"SUCCEEDED"}
INVARIANTS
    SummaryBacked
    StaleDetailHasDeadline
CHECK_DEADLOCK FALSE
