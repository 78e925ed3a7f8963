SPECIFICATION FairSpec
CONSTANTS
    K = 2
    RealL = 1
    G = 3
    NumClusters = 3
    NumStripes = 1
    Handlers = {h1}
    MaxAsks = 2
    BlocksLost = TRUE
    Placements <- AllPlacements
    NodeBlocks <- AnyBlocks
    None = None
INVARIANTS
    TypeOK
    RepairedRight
    NothingLeftBehind
    FewestClusters
PROPERTIES
    CallsAreServed
