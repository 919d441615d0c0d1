SPECIFICATION AuditSpec
CONSTANTS
    primary = primary
    tenant = tenant
    login = login
    Entries = {login, e1, e2, e3}
    Chains = {primary, tenant}
    Route <- MCRoute
    MaxClock = 1
    MaxFaults = 1
SYMMETRY EntrySymmetry
INVARIANTS
    AuditTypeOK
    ChainIntact
    CollidesOnlyAtGenesis
    LinksAndHashesClean
PROPERTY
    KeepsLedger
CHECK_DEADLOCK FALSE
