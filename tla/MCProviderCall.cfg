CONSTANTS
    t1 = t1
    t2 = t2
    Thread <- MCThread
    Service <- MCService
    Operation <- MCOperation
    WILDCARD = "*"
    MAX_DELAY_MS = 1
    Certain = 2
    Request <- MCRequest
    NoCall = NoCall
    MaxRules = 2
    MaxCalls = 2
    None = None
    MaxHistory = 1
    BotoException <- MCBotoException
SPECIFICATION FairSpec
INVARIANTS
    RecordedOnce
    InjectionIsWhatHappened
    HitsAccounted
PROPERTIES
    ComponentsImplemented
    LedgerImplemented
    EveryCallEnds
