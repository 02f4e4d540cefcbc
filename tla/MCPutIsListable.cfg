CONSTANTS
    Key <- MCKey
    PageSizes <- MCPageSizes
    Number <- MCNumber
    WirePrecision = 3
    MaxAdjusted = 3
    MinExponent <- MCMinExponent
    ContextPrecision = 2
    NaN = NaN
    NoNumber = NoNumber
    LagLimit = 1
SPECIFICATION ItemSpec
INVARIANTS
    PutIsListable
