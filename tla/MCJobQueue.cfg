SPECIFICATION FairSpec
CONSTANTS
    j1 = j1
    j2 = j2
    j3 = j3
    Jobs = {j1, j2, j3}
    Workers = {w1, w2}
    NoWorker = NoWorker
    MaxAttempts <- MCMaxAttempts
    Priority <- MCPriority
    Batch = 2
    IntMax = 3
    MaxRetries = 1
    MaxCrashes = 1
    MaxLost = 1
INVARIANTS
    TypeOK
    ExclusiveExecution
    ExecutionOwnsRow
    DeadMeansExhausted
    OrphansNeedAFault

PROPERTIES
    SettlesUnlessOutranked
    Delivers
CHECK_DEADLOCK FALSE
