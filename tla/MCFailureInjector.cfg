CONSTANTS
    t1 = t1
    t2 = t2
    Thread <- MCThread
    Service <- MCService
    Operation <- MCOperation
    WILDCARD = "*"
    MAX_DELAY_MS = 1
    Certain = 4
    Request <- MCRequest
    NoCall = NoCall
    MaxRules = 3
    MaxCalls = 3
SYMMETRY ThreadSymmetry
SPECIFICATION Spec
INVARIANTS
    TypeOK
    CertainRuleNotOvertaken
    NoEscape
PROPERTIES
    HitOnlyWhileRegistered
