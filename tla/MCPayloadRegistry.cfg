SPECIFICATION Spec
CONSTANTS
    None = None
    Producers = {p1, p2}
    Purgers = {g1}
    Reapers = {r1}
    Executions = {e1, e2}
SYMMETRY Alike
CHECK_DEADLOCK FALSE
INVARIANTS TypeOK BytesLostOnlyToReap LiveIsRegistered
PROPERTY DeletesOnlyUnused
