SPECIFICATION FairSpec
CONSTANTS
    Procs = {p1, p2}
    Runs = {r1}
    EventIds = {e1, e2}
    CallerIds = {e1}
    Missions = {m1, m2}
    Naming = {m1}
    Anchoring = {m2}
    Terminal = {"completed"}
    MaxAttempts = 2
    None = None
INVARIANTS
    TypeOK
    ChainVerifies
    AckedStored
    BundlesSound
PROPERTIES
    ImplementsRunLog
    CallsReturn
