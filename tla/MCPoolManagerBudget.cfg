SPECIFICATION Spec
CONSTANTS
    Tasks = {t1, t2}
    Nobody = Nobody
    Databases = {main, acme, zen}
    Primary = main
    PrimarySizes = {1}
    GlobalMax = 3
    MinPerPool = 1
    MaxPerPool = 2
    Grace = 0
    IdleTimeout = 1
    MaxClock = 0
    MaxCalls = 2
    MaxFaults = 0
    MaxRemovals = 0
INVARIANT
    HardBudget
CHECK_DEADLOCK FALSE
