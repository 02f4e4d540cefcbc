CONSTANTS
    c1 = c1
    c2 = c2
    q1 = q1
    q2 = q2
    Client <- MCClient
    Name <- MCName
    NoName = NoName
    Fault <- MCFault
    ListLimit = 1
SPECIFICATION FairSpec
INVARIANTS
    NotFoundHonest
    ListHonestWithinLimit
PROPERTIES
    DirectoryImplemented
    RequestAnswered
