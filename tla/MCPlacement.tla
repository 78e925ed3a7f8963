----------------------------- MODULE MCPlacement -----------------------------
(***************************************************************************)
(* Configurations for Placement: clusters of the same size.                *)
(***************************************************************************)
EXTENDS Placement

CONSTANTS NodesPerCluster, CachesPerCluster, ExtraRepairIds

NumDatanodes == NumClusters * NodesPerCluster

MCClusterOfNode == [n \in 0 .. NumDatanodes - 1 |-> n \div NodesPerCluster]

MCClusterOfCache ==
    [n \in 0 .. NumClusters * CachesPerCluster - 1 |-> n \div CachesPerCluster]

\* Some configured datanodes, and ids after the last of them.
MCRepairIds == {0} \cup NumDatanodes .. NumDatanodes + ExtraRepairIds - 1

MCMaxNodeId == NumDatanodes + 2 * ExtraRepairIds
=============================================================================
