SPECIFICATION Spec
CONSTANTS
    Items = {1, 2}
    Chunks = {1, 2}
    ChunkSize = 2
    MaxAttempts = 2
    Callers = {p1, p2}
    MaxDispatches = 2
    MaxControls = 2
    MaxCrashes = 1
    MaxErrors = 2
SYMMETRY CallerSymmetry
INVARIANTS
    TypeOK
    CompletedMeansDone
    CountersAgree
PROPERTY
    SucceededIsFinal
CHECK_DEADLOCK FALSE
