SPECIFICATION
    AuditSpec
CONSTANTS
    r1 = r1
    r2 = r2
    MaxPubs = 3
    PubPeriod <- MCPubPeriod
    Legacy = {1, 2}
    Hashless = {}
    Operators = {r1, r2}
    WithHistory = {r2}
    Backfilling = {r1, r2}
    Fragile <- MCFragile
    MaxDamages = 2
    MaxErrors = 1
    Missing = Missing
INVARIANTS
    CleanReportIsTrue
    ReportIsKept
CHECK_DEADLOCK
    FALSE
