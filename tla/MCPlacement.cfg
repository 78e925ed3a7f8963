SPECIFICATION FairSpec
CONSTANTS
    K = 2
    RealL = 2
    G = 1
    NumClusters = 3
    NodesPerCluster = 3
    CachesPerCluster = 2
    ExtraRepairIds = 1
    MaxStripes = 1
    ClusterOfNode <- MCClusterOfNode
    ClusterOfCache <- MCClusterOfCache
    RepairIds <- MCRepairIds
    MaxNodeId <- MCMaxNodeId
INVARIANTS
    TypeOK
    ClusterLossBounded
    
    CacheCopyInCluster
    OneBlockPerNode
PROPERTIES
    PlacementEnds
