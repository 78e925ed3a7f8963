SPECIFICATION Spec
CONSTANTS
    K = 1
    RealL = 1
    G = 1
    NumClusters = 2
    NodesPerCluster = 2
    CachesPerCluster = 2
    ExtraRepairIds = 1
    MaxStripes = 2
    ClusterOfNode <- MCClusterOfNode
    ClusterOfCache <- MCClusterOfCache
    RepairIds <- MCRepairIds
    MaxNodeId <- MCMaxNodeId
INVARIANTS
    PlacedOnDatanodes
