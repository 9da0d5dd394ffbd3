SPECIFICATION Spec
CONSTANTS
    Missions = {m1}
    Runners = {w1}
    TTL = 2
    MaxTime = 3
    MaxCheckpoints = 2
    MaxCrashes = 1
    None = None
CHECK_DEADLOCK FALSE
INVARIANTS
    TypeOK
    CleanExit
    ContextCurrent
PROPERTIES
    OthersLeaseKept
    RunnerEnds
