SPECIFICATION FairSpec
CONSTANTS
    j1 = j1
    j2 = j2
    j3 = j3
    Jobs = {j1, j2}
    Workers = {w1, w2}
    NoWorker = NoWorker
    MaxAttempts <- MCMaxAttempts
    Priority <- MCPriority
    Batch = 2
    IntMax = 2147483647
    MaxRetries = 0
    MaxCrashes = 1
    MaxLost = 0
PROPERTY
    SurvivesRestart
CHECK_DEADLOCK FALSE
