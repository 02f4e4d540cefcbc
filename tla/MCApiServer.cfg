CONSTANTS
    r1 = r1
    r2 = r2
    r3 = r3
    p1 = p1
    Request <- MCRequest
    Probe <- MCProbe
    Main = Main
    PoolSize = 2
    Attempts = 2
    Service <- MCService
    Resource <- MCResource
    NoService = NoService
    NoId = NoId
SPECIFICATION FairSpec
INVARIANTS
    ClientsBounded
    IdsTold
PROPERTIES
    RequestAnswered
    ReadinessBounded
