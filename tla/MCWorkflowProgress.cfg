SPECIFICATION Spec
CONSTANTS
    Topologies <- MCShrinking
    MaxRun = 1
    MaxAttempt = 2
    MaxRevision = 2
    MaxClock = 2
    RetentionDays = 1
    MaxItems = 2
    MaxBytes = 3
    BatchSize = 1
    ReadAttempts = {1}
    Outcomes = {"SUCCEEDED"}
INVARIANTS
    ReaderSeesOnePublication
    AggregatesMatchRows
    ManifestPagesStored
CHECK_DEADLOCK FALSE
