SPECIFICATION Spec
CONSTANTS
    Coordinators = {c1, c2}
    Producers = {p1}
    LegacyWorkers = {1}
    Workers = {2}
    Supports <- MCSupports
    Executions = {1}
    MaxRevision = 4
    None = None
SYMMETRY Alike
INVARIANTS NoLegacyWhileClosed OnlyV1WhileOpen NoCircularWait
