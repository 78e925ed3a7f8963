SPECIFICATION FairSpec
CONSTANTS
    K = 2
    RealL = 2
    G = 1
    NumStripes = 2
    NumSlow = 2
    MayFail = TRUE
INVARIANTS
    TypeOK
    DecodedRight
PROPERTIES
    
    
    ReadsAtomically
