CONSTANTS
    Workers = {w1, w2}
    None = None
    MaxAttempts = 3
    MaxGeneration = 4
SPECIFICATION Spec
SYMMETRY WorkerSymmetry
INVARIANTS
    TypeOK
    HistoryComplete
    AttemptsWithin
PROPERTIES
    HistoryStable
    CompletionDecides
    ClaimOpensGeneration
CHECK_DEADLOCK FALSE
