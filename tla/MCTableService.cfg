CONSTANTS
    c1 = c1
    c2 = c2
    n1 = n1
    n2 = n2
    Client <- MCClient
    Name <- MCName
    NoName = NoName
    Fault <- MCFault
    ListLimit = 2
SYMMETRY Symmetric
SPECIFICATION Spec
INVARIANTS
    NotFoundHonest
    ListHonestWithinLimit
PROPERTIES
    DirectoryImplemented
