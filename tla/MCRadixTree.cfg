SPECIFICATION Spec
CONSTANTS
    Pages     <- MCPages
    Freelists <- MCFreelists
    Limits    <- MCLimits
INVARIANTS
    TypeOK
    PathsComplete
    LeftmostIsSmallest
PROPERTIES
    PopMinRemovesSmallest
    ImplementsFreePageSet
