SPECIFICATION Spec
CONSTANTS
    Missions = {m1, m2}
    Runs = {r1, r2}
    Identities = {i1, x1}
    Malformed = {x1}
    CommitmentIds = {}
    Definitions = {d1}
    CitedSequences = {0}
    Claims = {}
    MaxEvents = 1
    MaxCheckpoints = 2
    None = None
SYMMETRY Interchangeable
CHECK_DEADLOCK FALSE
INVARIANTS
    RejectionPossible
    OwnWorkReconciled
