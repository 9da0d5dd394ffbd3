SPECIFICATION Spec
CONSTANTS
    Procs = {p1, p2}
    Missions = {1}
    TTLs = {2}
    MaxAttempts = 2
    MaxTime = 2
    MaxLeases = 3
    None = None
SYMMETRY Workers
INVARIANTS
    TypeOK
    HistoryAuthorised
    CurrentHolder
PROPERTIES
    ImplementsOwnership
