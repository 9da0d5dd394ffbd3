SPECIFICATION Spec
CONSTANTS
    Procs = {daemon, manual}
    Watchers = {daemon}
    Sessions <- MCSessions
    Transcripts <- MCTranscripts
    MaxBlanks <- MCBlanks
    Closable <- MCClosable
    MaxFailures = 1
INVARIANTS
    TypeOK
    ImportedOnce
    NothingSkipped
    IndexAgrees
    IdentityKept
PROPERTIES
    CatchesUp
