SPECIFICATION Spec
CONSTANTS
    K = 2
    RealL = 1
    G = 1
    NumClusters = 3
    NumStripes = 2
    Handlers = {h1, h2}
    MaxAsks = 2
    BlocksLost = FALSE
    Placements <- SameMain
    NodeBlocks <- FirstBlocks
    None = None
INVARIANTS
    RepairedRight
