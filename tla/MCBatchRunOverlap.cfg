SPECIFICATION Spec
CONSTANTS
    Items = {1, 2}
    Chunks = {1, 2, 3, 4}
    ChunkSize = 1
    MaxAttempts = 1
    Callers = {p1}
    MaxDispatches = 2
    MaxControls = 2
    MaxCrashes = 0
    MaxErrors = 0
PROPERTY
    ProcessesOnlyPending
CHECK_DEADLOCK FALSE
