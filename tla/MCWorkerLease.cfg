CONSTANTS
    p1 = p1
    p2 = p2
    p3 = p3
    Procs = {p1, p2, p3}
    Ids = {x1, x2}
    Tasks = {t1}
    None = None
    Durations = {1, 2}
    Configured <- ConfiguredSeconds
    MaxTime = 4
    MaxRevision = 2
SPECIFICATION Spec
SYMMETRY Symmetric
INVARIANTS
    TypeOK
    AuthorityIsEarned
    DeposedNeverActs
    AgreedDuration
PROPERTIES
    RetiredStaysRetired
CHECK_DEADLOCK FALSE
