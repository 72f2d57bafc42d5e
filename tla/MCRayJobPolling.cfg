SPECIFICATION Spec
CONSTANTS
    MaxRows = 3
    MaxFaults = 1
    Priorities = {0, 1}
    Concurrency = 2
    PageSize = 1
    ExpiryBatch = 1
INVARIANTS
    ClaimsWithinConcurrency
PROPERTIES
    ReceiptConsumed
    HighestPriorityClaimed
CHECK_DEADLOCK FALSE
