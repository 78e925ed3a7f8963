------------------------------ MODULE Placement ------------------------------
(***************************************************************************)
(* Where the coordinator puts the blocks of each stripe:                   *)
(* generate_placement_plan draws datanodes at random until one fits, block *)
(* by block, and puts a copy of the last global parity and of each local   *)
(* parity on a cache node of the same cluster.  ask_for_repair looks nodes *)
(* up in the same tables.                                                  *)
(***************************************************************************)
EXTENDS LrcStripe, Sequences, Functions

CONSTANTS
    NumClusters,     \* cluster_info_.size(); cluster ids are 0, 1, ...
    ClusterOfNode,   \* per configured datanode id, its cluster
    ClusterOfCache,  \* per cache node id, its cluster
    RepairIds,       \* the node ids clients ask to repair
    MaxNodeId,       \* bound: no entry is made for a greater node id
    MaxStripes       \* bound: stripes placed

Clusters == 0 .. NumClusters - 1

Datanodes  == DOMAIN ClusterOfNode
CacheNodes == DOMAIN ClusterOfCache
NodeIds    == 0 .. MaxNodeId
StripeIds  == 0 .. MaxStripes - 1

ASSUME PlacementAssumption ==
    /\ NumClusters \in Nat \ {0}
    /\ MaxNodeId \in Nat
    /\ MaxStripes \in Nat
    /\ ClusterOfNode \in [Datanodes -> Clusters]
    /\ ClusterOfCache \in [CacheNodes -> Clusters]
    /\ \E n \in NodeIds : Datanodes = 0 .. n
    /\ RepairIds \subseteq NodeIds

VARIABLES
    node_info,       \* the ids with an entry in node_info_
    stripe_ids,      \* per node id, node_info_[id].stripe_ids
    next_stripe_id,  \* next_stripe_id_
    nodes,           \* per stripe, the datanode of each block placed
    cache_nodes,     \* per stripe, the cache node of each copy placed
    help,            \* per cluster, the groups in it and its number of blocks
    dis_size         \* node_info_.size() when the draws were set up

vars == <<node_info, stripe_ids, next_stripe_id, nodes, cache_nodes, help,
          dis_size>>

Help == [groups : SUBSET (0 .. RealL - 1), count : Nat]

TypeOK ==
    /\ node_info \in SUBSET NodeIds
    /\ stripe_ids \in [NodeIds -> SUBSET StripeIds]
    /\ next_stripe_id \in 0 .. MaxStripes
    /\ nodes \in [StripeIds -> Seq(NodeIds)]
    /\ cache_nodes \in [StripeIds -> Seq(CacheNodes)]
    /\ help \in [Clusters -> Help]
    /\ dis_size \in 0 .. MaxNodeId + 1

NoHelp == [c \in Clusters |-> [groups |-> {}, count |-> 0]]

Init ==
    /\ node_info = Datanodes
    /\ stripe_ids = [n \in NodeIds |-> {}]
    /\ next_stripe_id = 0
    /\ nodes = [s \in StripeIds |-> <<>>]
    /\ cache_nodes = [s \in StripeIds |-> <<>>]
    /\ help = NoHelp
    /\ dis_size = 0

\* node_info_[id] of an id without an entry makes one of zeros.
cluster_id(node_id) ==
    IF node_id \in Datanodes THEN ClusterOfNode[node_id] ELSE 0

\* The stripe that generate_placement_plan works on.
stripe_id == next_stripe_id - 1

Placing == next_stripe_id > 0 /\ Len(nodes[stripe_id]) < NumBlocks

-----------------------------------------------------------------------------
\* get_proxy_location or its loop over stripes: new_stripe_item, then the
\* locals of generate_placement_plan.
NewStripe ==
    /\ ~Placing
    /\ next_stripe_id < MaxStripes
    /\ next_stripe_id' = next_stripe_id + 1
    /\ help' = NoHelp
    /\ dis_size' = Cardinality(node_info)
    /\ UNCHANGED <<node_info, stripe_ids, nodes, cache_nodes>>

\* Mutants: a cluster takes one block more; its groups earn it no room.
space_upper_wide(c) == G + 1 + Cardinality(help[c].groups)
space_upper_tight(c) == G

\* Mutant: the node is not looked for among those of the stripe.
FitsAgain(node_id) ==
    LET c == cluster_id(node_id)
    IN  help[c].count # G + Cardinality(help[c].groups)

\* The do-while of find_a_node_for_a_block ends on this draw.
space_upper(c) == G + Cardinality(help[c].groups)

Fits(node_id) ==
    /\ node_id \notin Range(nodes[stripe_id])
    /\ help[cluster_id(node_id)].count # space_upper(cluster_id(node_id))

\* Mutant: the copy goes to any cluster.
CacheAnywhere(c) == CacheNodes \ Range(cache_nodes[stripe_id])

\* find_a_cache_node_for_a_block draws until the cache node is a new one.
CacheCandidates(c) ==
    {cache \in CacheNodes \ Range(cache_nodes[stripe_id]) :
        ClusterOfCache[cache] = c}

\* Both draws look the node up, which makes an entry for an unknown id.
PlaceBlock(node_id) ==
    LET block == Len(nodes[stripe_id])
        c     == cluster_id(node_id)
    IN  /\ Placing
        /\ node_id < dis_size
        /\ Fits(node_id)
        /\ node_info' = node_info \cup {node_id}
        /\ nodes' = [nodes EXCEPT ![stripe_id] = Append(@, node_id)]
        /\ stripe_ids' =
              [stripe_ids EXCEPT ![node_id] = @ \cup {stripe_id}]
        /\ help' = [help EXCEPT ![c] =
              [groups |-> @.groups \cup GroupsOf({block}),
               count  |-> @.count + 1]]
        /\ IF IsCached(block)
           THEN \E cache \in CacheCandidates(c) :
                   cache_nodes' =
                      [cache_nodes EXCEPT ![stripe_id] = Append(@, cache)]
           ELSE cache_nodes' = cache_nodes
        /\ UNCHANGED <<next_stripe_id, dis_size>>

DrawAgain(node_id) ==
    /\ Placing
    /\ node_id < dis_size
    /\ ~Fits(node_id)
    /\ node_info' = node_info \cup {node_id}
    /\ UNCHANGED <<stripe_ids, next_stripe_id, nodes, cache_nodes, help,
                   dis_size>>

\* ask_for_repair: a repaired block goes back to the node it was on, so only
\* the lookup of the failed node changes the tables.
AskForRepair(node_id) ==
    /\ ~Placing
    /\ node_info' = node_info \cup {node_id}
    /\ UNCHANGED <<stripe_ids, next_stripe_id, nodes, cache_nodes, help,
                   dis_size>>

Finished ==
    /\ ~Placing
    /\ next_stripe_id = MaxStripes
    /\ UNCHANGED vars

Next ==
    \/ NewStripe
    \/ \E node_id \in NodeIds : PlaceBlock(node_id) \/ DrawAgain(node_id)
    \/ \E node_id \in RepairIds : AskForRepair(node_id)
    \/ Finished

\* A draw that can succeed is made in the end.
Fairness == WF_vars(\E node_id \in NodeIds : PlaceBlock(node_id))

Spec == Init /\ [][Next]_vars

FairSpec == Spec /\ Fairness

-----------------------------------------------------------------------------
\* The blocks of stripe s placed in cluster c.
BlocksIn(s, c) ==
    {i \in Blocks : i < Len(nodes[s]) /\ cluster_id(nodes[s][i + 1]) = c}

\* The fault tolerance the placement is after: no cluster holds more than g
\* blocks of a stripe beyond one for each local group it has blocks of.
ClusterLossBounded ==
    \A s \in StripeIds, c \in Clusters :
        Cardinality(BlocksIn(s, c)) <=
            G + Cardinality(GroupsOf(BlocksIn(s, c)))

\* What that is for: the blocks outside a cluster rebuild the stripe.
ClusterLossTolerated ==
    \A s \in StripeIds, c \in Clusters : Decodable(BlocksIn(s, c))

\* generate_repair_plan_CACHED asserts that the copy it repairs a parity from
\* is in the cluster of the failed block.
CacheCopyInCluster ==
    \A s \in StripeIds, i \in Blocks :
        IsCached(i) /\ i < Len(nodes[s]) =>
            /\ CacheSlot(i) < Len(cache_nodes[s])
            /\ ClusterOfCache[cache_nodes[s][CacheSlot(i) + 1]] =
                  cluster_id(nodes[s][i + 1])

\* ask_for_repair asserts that each stripe listed at the failed node has just
\* one block on it; and a stripe with a block on a node is listed there.
OneBlockPerNode ==
    \A s \in StripeIds, n \in NodeIds :
        LET held == {i \in 1 .. Len(nodes[s]) : nodes[s][i] = n}
        IN  IF s \in stripe_ids[n] THEN Cardinality(held) = 1 ELSE held = {}

\* Blocks only go to datanodes of the configuration.
PlacedOnDatanodes == \A s \in StripeIds : Range(nodes[s]) \subseteq Datanodes

\* The draws end: with at most NumClusters * (g + 1) - 1 blocks in a stripe
\* and enough nodes in each cluster, whatever nodes were drawn before, there
\* is one left that fits.
PlacementEnds == Placing ~> ~Placing
=============================================================================
