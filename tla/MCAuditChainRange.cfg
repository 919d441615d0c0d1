SPECIFICATION AuditSpec
CONSTANTS
    primary = primary
    tenant = tenant
    login = login
    Entries = {login, e1, e2, e3}
    Chains = {primary, tenant}
    Route <- MCRoute
    MaxClock = 1
    MaxFaults = 0
INVARIANT
    RangeVerifiesClean
CHECK_DEADLOCK FALSE
