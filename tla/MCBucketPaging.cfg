CONSTANTS
    Name <- MCName
    PageSizes <- MCPageSizes
    MaxChanges = 2
SPECIFICATION FairSpec
INVARIANTS
    SkipsBoundedByDeletes
    RepeatsBoundedByCreates
PROPERTIES
    ListingEnds
