SPECIFICATION Spec
CONSTANTS
    Users = {u1, u2}
    Profiles = {p1}
    Names = {n1}
    MaxWaits = 2
    Publishers = {b1, b2}
    Backups = {backup}
    Instances = {instance}
    Strangers = {stranger}
    None = None
SYMMETRY Interchangeable
INVARIANTS
    TypeOK
    PairMatches
    HalfCreated
    BackupComplete
PROPERTIES
    KeyKept
    PublishedKept
