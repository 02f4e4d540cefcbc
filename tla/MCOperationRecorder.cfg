CONSTANTS
    Service <- MCService
    Operation <- MCOperation
    Detail <- MCDetail
    None = None
    MaxHistory = 2
    MaxRecords = 5
SPECIFICATION Spec
INVARIANTS
    TypeOK
    HistoryIsRecentLog
    MetricsExact
    IdsNameOneRecord
    ListedCanBeOpened
