SPECIFICATION Spec
CONSTANTS
    Procs = {daemon, manual}
    Watchers = {daemon}
    Sessions <- MCNextTurn
    Transcripts <- MCNone
    MaxBlanks <- MCNoBlanks
    Closable <- MCNoClosable
    MaxFailures = 0
INVARIANT
    AttributionInherited
