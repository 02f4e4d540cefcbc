CONSTANTS
    c1 = c1
    c2 = c2
    n1 = n1
    n2 = n2
    n3 = n3
    Client <- MCClient
    Name <- MCName
    NoName = NoName
    Fault <- MCFault
    ListLimit = 3
SPECIFICATION Spec
INVARIANTS
    OnlyNoSuchTagSetSwallowed
