SPECIFICATION Spec
CONSTANTS
    Missions = {m1}
    Runs = {r1, r2}
    Identities = {}
    Malformed = {}
    CommitmentIds = {c1}
    Definitions = {d1, d2}
    CitedSequences = {1}
    Claims <- SelfMade
    MaxEvents = 2
    MaxCheckpoints = 2
    None = None
SYMMETRY Interchangeable
CHECK_DEADLOCK FALSE
INVARIANTS
    TypeOK
    ContinuityVerifies
    RecoverySound
    ProgressKept
