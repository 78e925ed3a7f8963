SPECIFICATION Spec
CONSTANTS
    Keys = {a}
    Lengths = {8}
    Schemas <- TwoCodes
    FirstSchema <- KOf2
    MaxStripes = 1
    MaxStoring = 1
    Unsteady = {}
    MaxRestarts = 0
    MaxRepairs = 0
    None = None
    Nothing = Nothing
    Garbage = Garbage
    Zero = Zero
    Granule = 2
    IdSpan = 10
    UIntSize = 64
    IntMax = 99
    DiskSize = 99
    BlockIds <- MCBlockIds
    Nodes <- MCNodes
    StripeNodes <- MCStripeNodes
    StripeCacheNodes <- MCStripeCacheNodes
    Bytes <- MCBytes
INVARIANT GetReturnsSet
