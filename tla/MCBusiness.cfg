SPECIFICATION Spec
CONSTANTS
    Focuses = {"stock", "sales", "purchase", "postings", "settlement",
               "period", "change", "approval", "scheduler", "snapshot", "cache", "intake"}
    Counters = {u1, u2}
    MaxQuantity = 2
    MaxDrafts = 1
    MaxCounts = 3
    Salespeople = {u1, u2}
    Ordered <- OrderedHere
    MaxRevisions = 2
    MaxRequests = 3
    MaxFaults = 1
    Buyers = {u1, u2}
    Wanted = 2
    MaxRfqs = 2
    MaxBuys = 3
    MaxBuyFaults = 1
    Clerks = {u1, u2}
    MaxMoves = 2
    MaxErrands = 3
    Cashiers = {u1, u2}
    Invoices = 1
    Total = 2
    MaxPayments = 2
    MaxVisits = 2
    MaxMishaps = 1
    Runners = {u1, u2}
    Life = 2
    MaxRuns = 4
    MaxHalts = 1
    Users = {u1, u2}
    Approvers = {u1, u2}
    MaxInstances = 2
    MaxNumberAttempts = 1
    MaxTransitions = 3
    MaxLosses = 1
    Tasks = {u1, u2}
    m1 = m1
    m2 = m2
    m3 = m3
    Members = {m1, m2, m3}
    NumSteps = 2
    Quota <- QuotaHere
    Holders <- HoldersHere
    MaxAsked = 2
    MaxLapses = 1
    Servers = {u1, u2}
    Actions = {a1, a2}
    Intervals = {1, 2}
    Handled <- HandledHere
    MaxTime = 3
    MaxUpsets = 1
    Freezers = {u1, u2}
    Keys = {e1, e2}
    MaxSets = 2
    MaxLive = 1
    MaxFreezes = 3
    Apps = {u1, u2}
    Callers = {u1, u2}
    NumCompanies = 2
    SoftDelete = FALSE
    MaxEntries = 1
    MaxCalls = 3
    MaxWrites = 2
    MaxGaps = 1
    Visitors = {u1, u2}
    DailyCap = 1
    MaxSubmissions = 3
    MaxRecords = 3
    MaxSlips = 1
SYMMETRY Alike
INVARIANTS
    TypeOK OnHandIsTheMoves ShipmentsMatchOrders BillsFollowDeliveries PurchasesMatchReceipts
    ClosedYearIsCovered LedgerLinesOnce BooksAgree PostedAsRecorded
    HistoryExplainsState QuorumBeforeTransition OutcomeIsTheDecision
    OneFirePerInterval SealedStaysAsSealed StaleCopiesAreDropped SubmissionsSettleOnce
PROPERTIES
    CountLandsOnCounted
CHECK_DEADLOCK FALSE
