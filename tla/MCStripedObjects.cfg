SPECIFICATION Spec
CONSTANTS
    Keys = {a, b}
    Lengths = {3, 9}
    Schemas <- TwoSizes
    FirstSchema <- StripesOf8
    MaxStripes = 3
    MaxStoring = 1
    Unsteady = {0}
    MaxRestarts = 1
    MaxRepairs = 1
    None = None
    Nothing = Nothing
    Garbage = Garbage
    Zero = Zero
    Granule = 2
    IdSpan = 5
    UIntSize = 24
    IntMax = 8
    DiskSize = 11
    BlockIds <- MCBlockIds
    Nodes <- MCNodes
    StripeNodes <- MCStripeNodes
    StripeCacheNodes <- MCStripeCacheNodes
    Bytes <- MCBytes
SYMMETRY Symmetry
PROPERTY KeepsBlocks
INVARIANTS TypeOK BlocksReadBack GetReturnsStored
