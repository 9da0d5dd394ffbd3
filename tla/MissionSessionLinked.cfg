SPECIFICATION Spec
CONSTANTS
    Missions = {m1}
    Runs = {r1, r2}
    Identities = {i1}
    Malformed = {}
    CommitmentIds = {}
    Definitions = {d1}
    CitedSequences = {0}
    Claims = {}
    MaxEvents = 1
    MaxCheckpoints = 2
    None = None
SYMMETRY Interchangeable
CHECK_DEADLOCK FALSE
PROPERTIES
    CheckpointsStayValid
