SPECIFICATION FairSpec
CONSTANTS
    Tasks = {t1, t2}
    Nobody = Nobody
    Databases = {main, acme, zen}
    Primary = main
    PrimarySizes = {1, 4}
    GlobalMax = 3
    MinPerPool = 1
    MaxPerPool = 2
    Grace = 0
    IdleTimeout = 1
    MaxClock = 2
    MaxCalls = 3
    MaxFaults = 1
    MaxRemovals = 1
INVARIANTS
    TypeOK
    OnlyStaleSumOvercommits
    ReservationsAreHeld
PROPERTIES
    NeverReplaced
    FreshPoolsStay
    EveryCallReturns
CHECK_DEADLOCK FALSE
