SPECIFICATION FairSpec
CONSTANTS
    Procs = {p1, p2}
    Missions = {1, 2}
    TTLs = {1}
    MaxAttempts = 2
    MaxTime = 1
    MaxLeases = 1
    None = None
PROPERTIES
    AcquiresOldest
    CallsReturn
