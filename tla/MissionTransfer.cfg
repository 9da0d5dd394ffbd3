SPECIFICATION Spec
CONSTANTS
    r1 = r1
    text = text
    other = other
    Runs = {r1}
    MediaTypes = {text, other}
    References <- MCReferences
    MaxEvents = 2
    MaxCheckpoints = 2
    Procs = {i1, i2}
    MaxAttempts = 2
    None = None
SYMMETRY Importers
CHECK_DEADLOCK FALSE
INVARIANTS
    TypeOK
    FileSound
    ImportedWhole
    AllOrNothing
    ContextComplete
