SPECIFICATION Spec
CONSTANTS
    Items = {1, 2}
    Chunks = {1, 2, 3, 4}
    ChunkSize = 1
    MaxAttempts = 1
    Callers = {p1}
    MaxDispatches = 2
    MaxControls = 1
    MaxCrashes = 0
    MaxErrors = 0
INVARIANT
    NeverStranded
CHECK_DEADLOCK FALSE
