--------------------------- MODULE PlacementProofs ---------------------------
(***************************************************************************)
(* What generate_placement_plan guarantees of every stripe, for every code *)
(* and every configuration of clusters.                                    *)
(***************************************************************************)
EXTENDS Placement, LrcStripeProofs

USE StripeAssumption, PlacementAssumption

\* Placement never gives a stripe more blocks than it has, and the stripes to
\* come have none.
StripesInOrder ==
    /\ \A s \in StripeIds : Len(nodes[s]) <= NumBlocks
    /\ \A s \in StripeIds : s >= next_stripe_id => nodes[s] = <<>>

\* help describes the stripe being placed.
HelpIsExact ==
    next_stripe_id > 0 =>
        \A c \in Clusters :
            /\ help[c].groups = GroupsOf(BlocksIn(stripe_id, c))
            /\ help[c].count = Cardinality(BlocksIn(stripe_id, c))

IInv ==
    /\ TypeOK
    /\ StripesInOrder
    /\ HelpIsExact
    /\ ClusterLossBounded

-----------------------------------------------------------------------------
\* Ids, clusters and groups are in range.

\* Every id, also one without an entry in the configuration, has a cluster.
LEMMA ClusterType == \A n \in NodeIds : cluster_id(n) \in Clusters
BY DEF cluster_id, Clusters, Datanodes

\* The group a block adds to help is one of the stripe's.
LEMMA GroupsType == \A S \in SUBSET Blocks : GroupsOf(S) \subseteq 0 .. RealL - 1
BY GroupIndex DEF GroupsOf

\* While a stripe is being placed it is one of the stripes.
LEMMA PlacingType ==
  ASSUME TypeOK, StripesInOrder, Placing
  PROVE  /\ stripe_id \in StripeIds
         /\ Len(nodes[stripe_id]) \in Blocks
BY DEF TypeOK, Placing, stripe_id, StripeIds, Blocks, NumBlocks

\* There are at most as many entries in node_info_ as ids.
LEMMA EntriesType ==
  ASSUME TypeOK
  PROVE  Cardinality(node_info) \in 0 .. MaxNodeId + 1
<1>1. IsFiniteSet(NodeIds) /\ Cardinality(NodeIds) = MaxNodeId + 1
  BY FS_Interval DEF NodeIds
<1>2. node_info \in SUBSET NodeIds
  BY DEF TypeOK
<1> QED
  BY <1>1, <1>2, FS_Subset, FS_CardinalityType

-----------------------------------------------------------------------------
\* Type correctness.

\* The coordinator's tables have their types when the configuration is read.
LEMMA InitTypeOK == Init => TypeOK
<1> SUFFICES ASSUME Init PROVE TypeOK
  OBVIOUS
<1>1. node_info \in SUBSET NodeIds
  BY DEF Init, NodeIds
<1>2. help \in [Clusters -> Help]
  BY DEF Init, NoHelp, Help
<1> QED
  BY <1>1, <1>2 DEF Init, TypeOK

\* Placing, drawing again and looking up a failed node keep the types.
LEMMA NextTypeOK == TypeOK /\ StripesInOrder /\ [Next]_vars => TypeOK'
<1> SUFFICES ASSUME TypeOK, StripesInOrder, [Next]_vars PROVE TypeOK'
  OBVIOUS
<1>1. CASE NewStripe
  <2>1. dis_size' \in 0 .. MaxNodeId + 1
    BY <1>1, EntriesType DEF NewStripe
  <2>2. help' \in [Clusters -> Help]
    BY <1>1 DEF NewStripe, NoHelp, Help
  <2>3. next_stripe_id' \in 0 .. MaxStripes
    BY <1>1 DEF NewStripe, TypeOK
  <2> QED
    BY <1>1, <2>1, <2>2, <2>3 DEF NewStripe, TypeOK
<1>2. ASSUME NEW node_id \in NodeIds, PlaceBlock(node_id)
      PROVE  TypeOK'
  <2> DEFINE c == cluster_id(node_id)
             block == Len(nodes[stripe_id])
  <2>1. stripe_id \in StripeIds /\ block \in Blocks /\ c \in Clusters
    BY <1>2, PlacingType, ClusterType DEF PlaceBlock
  <2>2. nodes' \in [StripeIds -> Seq(NodeIds)]
    BY <1>2, <2>1 DEF PlaceBlock, TypeOK
  <2>3. cache_nodes' \in [StripeIds -> Seq(CacheNodes)]
    <3>1. CASE IsCached(block)
      <4>1. PICK cache \in CacheCandidates(c) :
              cache_nodes' =
                [cache_nodes EXCEPT ![stripe_id] = Append(@, cache)]
        BY <1>2, <3>1 DEF PlaceBlock
      <4> QED
        BY <2>1, <4>1 DEF CacheCandidates, TypeOK
    <3>2. CASE ~IsCached(block)
      BY <1>2, <3>2 DEF PlaceBlock, TypeOK
    <3> QED
      BY <3>1, <3>2
  <2>4. help' \in [Clusters -> Help]
    <3>1. GroupsOf({block}) \subseteq 0 .. RealL - 1
      BY <2>1, GroupsType
    <3> DEFINE gs == help[c].groups \cup GroupsOf({block})
               n  == help[c].count + 1
    <3>2. help[c] \in Help
      BY <2>1 DEF TypeOK
    <3>3. gs \in SUBSET (0 .. RealL - 1) /\ n \in Nat
      <4>1. /\ help[c].groups \in SUBSET (0 .. RealL - 1)
            /\ help[c].count \in Nat
        BY <3>2 DEF Help
      <4>2. help[c].groups \cup GroupsOf({block}) \in SUBSET (0 .. RealL - 1)
        BY <3>1, <4>1, Zenon
      <4>3. help[c].count + 1 \in Nat
        BY <4>1
      <4> QED
        BY <4>2, <4>3, Zenon
    <3>4. help' = [help EXCEPT ![c] = [groups |-> gs, count |-> n]]
      BY <1>2 DEF PlaceBlock
    <3> HIDE DEF gs, n
    <3>5. [groups |-> gs, count |-> n] \in Help
      BY <3>3 DEF Help
    <3> QED
      BY <3>4, <3>5 DEF TypeOK
  <2>5. stripe_ids' \in [NodeIds -> SUBSET StripeIds]
    BY <1>2, <2>1 DEF PlaceBlock, TypeOK
  <2> QED
    BY <1>2, <2>2, <2>3, <2>4, <2>5 DEF PlaceBlock, TypeOK
<1>3. ASSUME NEW node_id \in NodeIds, DrawAgain(node_id)
      PROVE  TypeOK'
  BY <1>3 DEF DrawAgain, TypeOK
<1>4. ASSUME NEW node_id \in RepairIds, AskForRepair(node_id)
      PROVE  TypeOK'
  BY <1>4 DEF AskForRepair, TypeOK
<1>5. CASE UNCHANGED vars
  BY <1>5 DEF vars, TypeOK
<1> QED
  BY <1>1, <1>2, <1>3, <1>4, <1>5 DEF Next, Finished


-----------------------------------------------------------------------------
\* What placing one block changes.

\* The block joins the blocks of its cluster, and no others change.
LEMMA PlaceBlockEffect ==
  ASSUME TypeOK, StripesInOrder,
         NEW node_id \in NodeIds, PlaceBlock(node_id),
         NEW s \in StripeIds, NEW d \in Clusters
  PROVE  LET block == Len(nodes[stripe_id])
         IN  /\ block \in Blocks
             /\ block \notin BlocksIn(s, d) \/ s # stripe_id
             /\ BlocksIn(s, d)' =
                  IF s = stripe_id /\ d = cluster_id(node_id)
                  THEN BlocksIn(s, d) \cup {block} ELSE BlocksIn(s, d)
<1> DEFINE block == Len(nodes[stripe_id])
<1>1. /\ stripe_id \in StripeIds /\ block \in Blocks
      /\ nodes' = [nodes EXCEPT ![stripe_id] = Append(@, node_id)]
  BY PlacingType DEF PlaceBlock
<1>2. CASE s # stripe_id
  <2>1. nodes'[s] = nodes[s]
    BY <1>1, <1>2 DEF TypeOK
  <2> QED
    BY <1>1, <1>2, <2>1 DEF BlocksIn
<1>3. CASE s = stripe_id
  <2>1. /\ nodes[s] \in Seq(NodeIds)
        /\ nodes'[s] = Append(nodes[s], node_id)
    BY <1>1, <1>3 DEF TypeOK
  <2>2. /\ Len(nodes'[s]) = block + 1
        /\ nodes'[s][block + 1] = node_id
        /\ \A i \in 1 .. block : nodes'[s][i] = nodes[s][i]
    BY <1>3, <2>1
  <2>3. ASSUME NEW i \in Blocks
        PROVE  i \in BlocksIn(s, d)' <=>
                 i \in BlocksIn(s, d)
                   \/ (i = block /\ cluster_id(node_id) = d)
    <3>1. i \in Nat /\ block \in Nat
      BY <1>1 DEF Blocks, NumBlocks
    <3>2. CASE i < block
      <4>1. i < Len(nodes'[s]) /\ i < Len(nodes[s])
        BY <1>3, <2>2, <3>1, <3>2
      <4>2. nodes'[s][i + 1] = nodes[s][i + 1]
        BY <2>2, <3>1, <3>2
      <4>3. cluster_id(nodes[s][i + 1])' = cluster_id(nodes[s][i + 1])
        BY <4>2 DEF cluster_id
      <4> QED
        BY <3>1, <3>2, <4>1, <4>3 DEF BlocksIn
    <3>3. CASE i = block
      <4>1. i < Len(nodes'[s]) /\ ~(i < Len(nodes[s]))
        BY <1>3, <2>2, <3>1, <3>3
      <4>2. cluster_id(nodes[s][i + 1])' = cluster_id(node_id)
        BY <2>2, <3>3 DEF cluster_id
      <4> QED
        BY <3>3, <4>1, <4>2 DEF BlocksIn
    <3>4. CASE i > block
      <4>1. ~(i < Len(nodes'[s])) /\ ~(i < Len(nodes[s]))
        BY <1>3, <2>2, <3>1, <3>4
      <4> QED
        BY <3>1, <3>4, <4>1 DEF BlocksIn
    <3> QED
      BY <3>1, <3>2, <3>3, <3>4
  <2>4. block \notin BlocksIn(s, d)
    BY <1>1, <1>3 DEF BlocksIn, Blocks, NumBlocks
  <2>5. BlocksIn(s, d) \subseteq Blocks /\ BlocksIn(s, d)' \subseteq Blocks
    BY DEF BlocksIn
  <2> QED
    BY <1>1, <1>3, <2>3, <2>4, <2>5
<1> QED
  BY <1>2, <1>3

\* The blocks of a stripe in a cluster are finitely many.
LEMMA BlocksInFinite ==
  ASSUME NEW s \in StripeIds, NEW c \in Clusters
  PROVE  /\ BlocksIn(s, c) \in SUBSET Blocks
         /\ IsFiniteSet(BlocksIn(s, c))
         /\ Cardinality(BlocksIn(s, c)) \in Nat
<1>1. BlocksIn(s, c) \in SUBSET Blocks
  BY DEF BlocksIn
<1> QED
  BY <1>1, StripeSizes, FS_Subset, FS_CardinalityType

\* A block more never means a group less.
LEMMA GroupsGrow ==
  ASSUME NEW S \in SUBSET Blocks, NEW block \in Blocks
  PROVE  /\ GroupsOf(S \cup {block}) = GroupsOf(S) \cup GroupsOf({block})
         /\ Cardinality(GroupsOf(S)) \in Nat
         /\ Cardinality(GroupsOf(S \cup {block})) \in Nat
         /\ Cardinality(GroupsOf(S)) <= Cardinality(GroupsOf(S \cup {block}))
<1>1. GroupsOf(S \cup {block}) = GroupsOf(S) \cup GroupsOf({block})
  BY DEF GroupsOf
<1>2. IsFiniteSet(0 .. RealL - 1)
  BY FS_Interval
<1>3. GroupsOf(S \cup {block}) \in SUBSET (0 .. RealL - 1)
  BY GroupsType
<1>4. IsFiniteSet(GroupsOf(S \cup {block}))
  BY <1>2, <1>3, FS_Subset
<1>5. GroupsOf(S) \in SUBSET GroupsOf(S \cup {block})
  BY <1>1
<1> QED
  BY <1>1, <1>4, <1>5, FS_Subset, FS_CardinalityType

-----------------------------------------------------------------------------
\* The invariant.

\* No stripe has blocks at first, and the invariant holds.
LEMMA InitIInv == Init => IInv
<1> SUFFICES ASSUME Init PROVE IInv
  OBVIOUS
<1>1. TypeOK
  BY InitTypeOK
<1>2. \A s \in StripeIds : nodes[s] = <<>> /\ Len(nodes[s]) = 0
  BY DEF Init
<1>3. StripesInOrder
  BY <1>2 DEF StripesInOrder, NumBlocks
<1>4. HelpIsExact
  BY DEF Init, HelpIsExact
<1>5. ClusterLossBounded
  <2> SUFFICES ASSUME NEW s \in StripeIds, NEW c \in Clusters
               PROVE  Cardinality(BlocksIn(s, c)) <=
                        G + Cardinality(GroupsOf(BlocksIn(s, c)))
    BY DEF ClusterLossBounded
  <2>1. BlocksIn(s, c) = {}
    BY <1>2 DEF BlocksIn, Blocks, NumBlocks
  <2>2. GroupsOf(BlocksIn(s, c)) = {}
    BY <2>1 DEF GroupsOf
  <2>3. Cardinality(BlocksIn(s, c)) = 0
    BY <2>1, FS_EmptySet, Zenon
  <2>4. Cardinality(GroupsOf(BlocksIn(s, c))) = 0
    BY <2>2, FS_EmptySet, Zenon
  <2> QED
    BY <2>3, <2>4
<1> QED
  BY <1>1, <1>3, <1>4, <1>5 DEF IInv

\* Where no block is placed the blocks of a cluster stay the same.
LEMMA BlocksInSame ==
  ASSUME UNCHANGED nodes, NEW s \in StripeIds, NEW c \in Clusters
  PROVE  BlocksIn(s, c)' = BlocksIn(s, c)
BY DEF BlocksIn, cluster_id

\* A new stripe starts with an empty help, which is right: it has no blocks.
LEMMA NewStripeIInv == IInv /\ NewStripe => IInv'
<1> SUFFICES ASSUME IInv, NewStripe PROVE IInv'
  OBVIOUS
<1>0. TypeOK /\ StripesInOrder /\ HelpIsExact /\ ClusterLossBounded
  BY DEF IInv
<1>1. TypeOK'
  BY <1>0, NextTypeOK DEF Next
<1>2. StripesInOrder'
  BY <1>0 DEF NewStripe, StripesInOrder, TypeOK, StripeIds
<1>3. ClusterLossBounded'
  <2>1. UNCHANGED nodes
    BY DEF NewStripe
  <2> QED
    BY <1>0, <2>1, BlocksInSame DEF ClusterLossBounded
<1>4. HelpIsExact'
  <2> SUFFICES ASSUME NEW c \in Clusters
               PROVE  /\ help'[c].groups = GroupsOf(BlocksIn(stripe_id, c)')
                      /\ help'[c].count = Cardinality(BlocksIn(stripe_id, c)')
    BY DEF HelpIsExact
  <2>1. stripe_id' = next_stripe_id /\ next_stripe_id \in StripeIds
    BY <1>0 DEF NewStripe, stripe_id, TypeOK, StripeIds
  <2>2. nodes'[stripe_id'] = <<>>
    BY <1>0, <2>1 DEF NewStripe, StripesInOrder, TypeOK
  <2>3. BlocksIn(stripe_id, c)' = {}
    BY <2>2 DEF BlocksIn, Blocks, NumBlocks
  <2>4. help'[c].groups = {} /\ help'[c].count = 0
    BY DEF NewStripe, NoHelp
  <2>5. GroupsOf({}) = {}
    BY DEF GroupsOf
  <2> QED
    BY <2>3, <2>4, <2>5, FS_EmptySet
<1> QED
  BY <1>1, <1>2, <1>3, <1>4 DEF IInv

\* The block goes to a cluster whose count is not at its upper limit, hence
\* below it, and a cluster's limit never falls.
LEMMA PlaceBlockIInv ==
  ASSUME IInv, NEW node_id \in NodeIds, PlaceBlock(node_id)
  PROVE  IInv'
<1> DEFINE c == cluster_id(node_id)
           block == Len(nodes[stripe_id])
<1>0. TypeOK /\ StripesInOrder /\ HelpIsExact /\ ClusterLossBounded
  BY DEF IInv
<1>1. /\ stripe_id \in StripeIds /\ block \in Blocks /\ c \in Clusters
      /\ next_stripe_id > 0
      /\ UNCHANGED stripe_id
  BY <1>0, PlacingType, ClusterType DEF PlaceBlock, Placing, stripe_id
<1>2. TypeOK'
  BY <1>0, NextTypeOK DEF Next
<1>3. StripesInOrder'
  <2>1. ASSUME NEW s \in StripeIds
        PROVE  /\ Len(nodes'[s]) <= NumBlocks
               /\ s >= next_stripe_id' => nodes'[s] = <<>>
    <3>1. CASE s = stripe_id
      <4>1. nodes'[s] = Append(nodes[s], node_id) /\ nodes[s] \in Seq(NodeIds)
        BY <1>0, <1>1, <3>1 DEF PlaceBlock, TypeOK
      <4>2. Len(nodes'[s]) = block + 1 /\ block + 1 <= NumBlocks
        BY <1>1, <3>1, <4>1 DEF Blocks, NumBlocks
      <4>3. ~(s >= next_stripe_id')
        BY <1>0, <3>1 DEF PlaceBlock, stripe_id, TypeOK
      <4> QED
        BY <4>2, <4>3
    <3>2. CASE s # stripe_id
      <4>1. nodes'[s] = nodes[s]
        BY <1>0, <3>2 DEF PlaceBlock, TypeOK
      <4> QED
        BY <1>0, <4>1 DEF PlaceBlock, StripesInOrder
    <3> QED
      BY <3>1, <3>2
  <2> QED
    BY <2>1 DEF StripesInOrder
<1>4. HelpIsExact'
  <2> SUFFICES ASSUME NEW d \in Clusters
               PROVE  /\ help'[d].groups = GroupsOf(BlocksIn(stripe_id, d)')
                      /\ help'[d].count = Cardinality(BlocksIn(stripe_id, d)')
    BY DEF HelpIsExact
  <2>1. /\ help[d].groups = GroupsOf(BlocksIn(stripe_id, d))
        /\ help[d].count = Cardinality(BlocksIn(stripe_id, d))
    BY <1>0, <1>1 DEF HelpIsExact
  <2>2. CASE d = c
    <3>1. /\ help'[d].groups = help[d].groups \cup GroupsOf({block})
          /\ help'[d].count = help[d].count + 1
      BY <1>0, <2>2 DEF PlaceBlock, TypeOK
    <3>2. /\ BlocksIn(stripe_id, d)' = BlocksIn(stripe_id, d) \cup {block}
          /\ block \notin BlocksIn(stripe_id, d)
      BY <1>0, <1>1, <2>2, PlaceBlockEffect
    <3>3. /\ BlocksIn(stripe_id, d) \in SUBSET Blocks
          /\ IsFiniteSet(BlocksIn(stripe_id, d))
      BY <1>1, BlocksInFinite
    <3>4. GroupsOf(BlocksIn(stripe_id, d)') =
            GroupsOf(BlocksIn(stripe_id, d)) \cup GroupsOf({block})
      BY <1>1, <3>2, <3>3, GroupsGrow
    <3>5. Cardinality(BlocksIn(stripe_id, d)') =
            Cardinality(BlocksIn(stripe_id, d)) + 1
      BY <3>2, <3>3, FS_AddElement
    <3> QED
      BY <2>1, <3>1, <3>4, <3>5
  <2>3. CASE d # c
    <3>1. help'[d] = help[d]
      BY <1>0, <2>3 DEF PlaceBlock, TypeOK
    <3>2. BlocksIn(stripe_id, d)' = BlocksIn(stripe_id, d)
      BY <1>0, <1>1, <2>3, PlaceBlockEffect
    <3> QED
      BY <2>1, <3>1, <3>2
  <2> QED
    BY <2>2, <2>3
<1>5. ClusterLossBounded'
  <2> SUFFICES ASSUME NEW s \in StripeIds, NEW d \in Clusters
               PROVE  Cardinality(BlocksIn(s, d)') <=
                        G + Cardinality(GroupsOf(BlocksIn(s, d)'))
    BY DEF ClusterLossBounded
  <2>1. Cardinality(BlocksIn(s, d)) <=
          G + Cardinality(GroupsOf(BlocksIn(s, d)))
    BY <1>0 DEF ClusterLossBounded
  <2>2. CASE s = stripe_id /\ d = c
    <3>1. Cardinality(BlocksIn(s, d)) #
            G + Cardinality(GroupsOf(BlocksIn(s, d)))
      BY <1>0, <1>1, <2>2 DEF PlaceBlock, Fits, space_upper, HelpIsExact
    <3>2. /\ BlocksIn(s, d)' = BlocksIn(s, d) \cup {block}
          /\ block \notin BlocksIn(s, d)
      BY <1>0, <1>1, <2>2, PlaceBlockEffect
    <3>3. /\ BlocksIn(s, d) \in SUBSET Blocks
          /\ IsFiniteSet(BlocksIn(s, d))
          /\ Cardinality(BlocksIn(s, d)) \in Nat
      BY BlocksInFinite
    <3>4. Cardinality(BlocksIn(s, d)') = Cardinality(BlocksIn(s, d)) + 1
      BY <3>2, <3>3, FS_AddElement
    <3>5. /\ Cardinality(GroupsOf(BlocksIn(s, d))) \in Nat
          /\ Cardinality(GroupsOf(BlocksIn(s, d)')) \in Nat
          /\ Cardinality(GroupsOf(BlocksIn(s, d))) <=
               Cardinality(GroupsOf(BlocksIn(s, d)'))
      BY <1>1, <3>2, <3>3, GroupsGrow
    <3> QED
      BY <2>1, <3>1, <3>3, <3>4, <3>5
  <2>3. CASE ~(s = stripe_id /\ d = c)
    <3>1. BlocksIn(s, d)' = BlocksIn(s, d)
      BY <1>0, <2>3, PlaceBlockEffect
    <3> QED
      BY <2>1, <3>1
  <2> QED
    BY <2>2, <2>3
<1> QED
  BY <1>2, <1>3, <1>4, <1>5 DEF IInv

\* The other actions leave the stripes and help as they are.
LEMMA NextIInv == IInv /\ [Next]_vars => IInv'
<1> SUFFICES ASSUME IInv, [Next]_vars PROVE IInv'
  OBVIOUS
<1>1. CASE NewStripe
  BY <1>1, NewStripeIInv
<1>2. CASE \E node_id \in NodeIds : PlaceBlock(node_id)
  BY <1>2, PlaceBlockIInv
<1>3. CASE UNCHANGED <<next_stripe_id, nodes, help>>
  <2>1. TypeOK'
    BY NextTypeOK DEF IInv
  <2>2. StripesInOrder'
    BY <1>3 DEF IInv, StripesInOrder
  <2>3. \A s \in StripeIds, c \in Clusters :
          BlocksIn(s, c)' = BlocksIn(s, c)
    BY <1>3, BlocksInSame
  <2>4. ClusterLossBounded'
    BY <2>3 DEF IInv, ClusterLossBounded
  <2>5. HelpIsExact'
    <3>1. stripe_id' = stripe_id /\ (next_stripe_id > 0 => stripe_id \in StripeIds)
      BY <1>3 DEF stripe_id, IInv, TypeOK, StripeIds
    <3> QED
      BY <1>3, <2>3, <3>1 DEF IInv, HelpIsExact
  <2> QED
    BY <2>1, <2>2, <2>4, <2>5 DEF IInv
<1> QED
  BY <1>1, <1>2, <1>3 DEF Next, DrawAgain, AskForRepair, Finished, vars

-----------------------------------------------------------------------------
\* The invariant of generate_placement_plan holds in every reachable state.
THEOREM InductiveInvariant == Spec => []IInv
BY InitIInv, NextIInv, PTL DEF Spec

\* The coordinator's tables keep their types.
THEOREM TypeCorrect == Spec => []TypeOK
<1>1. IInv => TypeOK
  BY DEF IInv
<1> QED
  BY <1>1, InductiveInvariant, PTL

\* For every stripe, whatever nodes are drawn, no cluster gets more than g
\* blocks beyond one for each of the local groups it has blocks of.
THEOREM PlacementBoundsClusterLoss == Spec => []ClusterLossBounded
<1>1. IInv => ClusterLossBounded
  BY DEF IInv
<1> QED
  BY <1>1, InductiveInvariant, PTL

\* With one local group no cluster holds more than g + 1 blocks, so the rest
\* of the stripe survives the loss of any cluster.
THEOREM OneGroupSurvivesCluster ==
  ASSUME RealL = 1
  PROVE  Spec => []ClusterLossTolerated
<1>1. ClusterLossBounded => ClusterLossTolerated
  <2> SUFFICES ASSUME ClusterLossBounded,
                      NEW s \in StripeIds, NEW c \in Clusters
               PROVE  Decodable(BlocksIn(s, c))
    BY DEF ClusterLossTolerated
  <2>1. BlocksIn(s, c) \in SUBSET Blocks /\ Cardinality(BlocksIn(s, c)) \in Nat
    BY BlocksInFinite
  <2>2. IsFiniteSet(0 .. RealL - 1) /\ Cardinality(0 .. RealL - 1) = 1
    <3>1. 0 .. RealL - 1 = {0}
      OBVIOUS
    <3>2. IsFiniteSet({0}) /\ Cardinality({0}) = 1
      BY FS_Singleton, Zenon
    <3> QED
      BY <3>1, <3>2
  <2>3. GroupsOf(BlocksIn(s, c)) \in SUBSET (0 .. RealL - 1)
    BY <2>1, GroupsType
  <2>4. /\ Cardinality(GroupsOf(BlocksIn(s, c))) <= 1
        /\ Cardinality(GroupsOf(BlocksIn(s, c))) \in Nat
    BY <2>2, <2>3, FS_Subset, FS_CardinalityType
  <2>5. Cardinality(BlocksIn(s, c)) <= G + 1
    BY <2>1, <2>4 DEF ClusterLossBounded
  <2> QED
    BY <2>1, <2>5, AnyLossOfGPlus1
<1> QED
  BY <1>1, PlacementBoundsClusterLoss, PTL

-----------------------------------------------------------------------------
\* Copies on cache nodes, and the stripes listed at each node.

\* A stripe has as many copies as blocks placed that have one.
CopiesFollow ==
    \A s \in StripeIds :
        Len(cache_nodes[s]) = IF Len(nodes[s]) <= K + G - 1 THEN 0
                              ELSE Len(nodes[s]) - (K + G - 1)

\* The blocks of a stripe are on different nodes ...
NodesDistinct ==
    \A s \in StripeIds : \A i, j \in 1 .. Len(nodes[s]) :
        nodes[s][i] = nodes[s][j] => i = j

\* ... and a node lists the stripes it has a block of.
NodesListed ==
    \A s \in StripeIds, n \in NodeIds :
        s \in stripe_ids[n] <=> \E i \in 1 .. Len(nodes[s]) : nodes[s][i] = n

TableInv ==
    /\ CopiesFollow
    /\ CacheCopyInCluster
    /\ NodesDistinct
    /\ NodesListed

\* The tables agree at first, when they are empty.
LEMMA InitTableInv == Init => TableInv
<1> SUFFICES ASSUME Init PROVE TableInv
  OBVIOUS
<1>1. \A s \in StripeIds : Len(nodes[s]) = 0 /\ Len(cache_nodes[s]) = 0
  BY DEF Init
<1>2. CopiesFollow
  BY <1>1 DEF CopiesFollow
<1>3. CacheCopyInCluster
  BY <1>1 DEF CacheCopyInCluster, Blocks, NumBlocks
<1>4. NodesDistinct
  BY <1>1 DEF NodesDistinct
<1>5. NodesListed
  BY <1>1 DEF Init, NodesListed
<1> QED
  BY <1>2, <1>3, <1>4, <1>5 DEF TableInv

\* A block that has a copy gets it in its own cluster, in the slot the repair
\* will look it up in; a node gets a stripe listed with its only block of it.
LEMMA PlaceBlockTableInv ==
  ASSUME TypeOK, StripesInOrder, TableInv,
         NEW node_id \in NodeIds, PlaceBlock(node_id)
  PROVE  TableInv'
<1> DEFINE S == stripe_id
           block == Len(nodes[S])
           c == cluster_id(node_id)
<1>1. S \in StripeIds /\ block \in Blocks /\ block \in Nat
  BY PlacingType DEF PlaceBlock, Blocks, NumBlocks
<1>2. /\ nodes[S] \in Seq(NodeIds)
      /\ cache_nodes[S] \in Seq(CacheNodes)
      /\ nodes'[S] = Append(nodes[S], node_id)
  BY <1>1 DEF PlaceBlock, TypeOK
<1>3. /\ Len(nodes'[S]) = block + 1
      /\ nodes'[S][block + 1] = node_id
      /\ \A i \in 1 .. block : nodes'[S][i] = nodes[S][i]
  BY <1>2
<1>4. node_id \notin {nodes[S][i] : i \in 1 .. block}
  BY <1>2 DEF PlaceBlock, Fits, Range
<1>5. ASSUME NEW s \in StripeIds, s # S
      PROVE  nodes'[s] = nodes[s] /\ cache_nodes'[s] = cache_nodes[s]
  BY <1>1, <1>5 DEF PlaceBlock, TypeOK
<1>6. CopiesFollow' /\ CacheCopyInCluster'
  <2> DEFINE slot == CacheSlot(block)
  <2>1. Len(cache_nodes[S]) = IF block <= K + G - 1 THEN 0
                              ELSE block - (K + G - 1)
    BY <1>1 DEF TableInv, CopiesFollow
  <2>2. CASE IsCached(block)
    <3>1. PICK cache \in CacheCandidates(c) :
            cache_nodes' = [cache_nodes EXCEPT ![S] = Append(@, cache)]
      BY <2>2 DEF PlaceBlock
    <3>2. cache \in CacheNodes /\ ClusterOfCache[cache] = c
      BY <3>1 DEF CacheCandidates
    <3>3. slot \in Nat /\ Len(cache_nodes[S]) = slot
      BY <1>1, <2>1, <2>2 DEF IsCached, CacheSlot
    <3>4. cache_nodes'[S] = Append(cache_nodes[S], cache)
      BY <1>1, <3>1 DEF TypeOK
    <3>5. /\ Len(cache_nodes'[S]) = slot + 1
          /\ cache_nodes'[S][slot + 1] = cache
          /\ \A i \in 1 .. slot : cache_nodes'[S][i] = cache_nodes[S][i]
      BY <1>2, <3>2, <3>3, <3>4
    <3>6. CopiesFollow'
      <4> SUFFICES ASSUME NEW s \in StripeIds
                   PROVE  Len(cache_nodes'[s]) =
                            IF Len(nodes'[s]) <= K + G - 1 THEN 0
                            ELSE Len(nodes'[s]) - (K + G - 1)
        BY DEF CopiesFollow
      <4>1. CASE s = S
        <5>1. slot + 1 = (block + 1) - (K + G - 1) /\ ~(block + 1 <= K + G - 1)
          BY <1>1, <2>2 DEF IsCached, CacheSlot
        <5> QED
          BY <1>3, <3>5, <4>1, <5>1
      <4>2. CASE s # S
        BY <1>5, <4>2 DEF TableInv, CopiesFollow
      <4> QED
        BY <4>1, <4>2
    <3>7. ASSUME NEW s \in StripeIds, NEW i \in Blocks,
                 IsCached(i), i < Len(nodes'[s])
          PROVE  /\ CacheSlot(i) < Len(cache_nodes'[s])
                 /\ ClusterOfCache[cache_nodes'[s][CacheSlot(i) + 1]] =
                      cluster_id(nodes'[s][i + 1])
      <4>1. CASE s # S
        BY <1>5, <3>7, <4>1 DEF TableInv, CacheCopyInCluster
      <4>2. CASE s = S /\ i = block
        BY <1>3, <3>2, <3>3, <3>5, <4>2
      <4>3. CASE s = S /\ i # block
        <5>1. i \in Nat /\ i < block
          BY <1>1, <1>3, <3>7, <4>3 DEF Blocks, NumBlocks
        <5>2. /\ CacheSlot(i) < Len(cache_nodes[s])
              /\ ClusterOfCache[cache_nodes[s][CacheSlot(i) + 1]] =
                   cluster_id(nodes[s][i + 1])
          BY <3>7, <4>3, <5>1 DEF TableInv, CacheCopyInCluster
        <5>3. nodes'[s][i + 1] = nodes[s][i + 1]
          BY <1>1, <1>3, <4>3, <5>1
        <5>4. CacheSlot(i) \in Nat /\ CacheSlot(i) < slot
          BY <1>1, <3>7, <5>1 DEF IsCached, CacheSlot
        <5>5. cache_nodes'[s][CacheSlot(i) + 1] = cache_nodes[s][CacheSlot(i) + 1]
          <6>1. CacheSlot(i) + 1 \in 1 .. slot
            BY <3>3, <5>4
          <6> QED
            BY <3>5, <4>3, <6>1
        <5> QED
          BY <3>3, <3>5, <4>3, <5>2, <5>3, <5>4, <5>5
      <4> QED
        BY <4>1, <4>2, <4>3
    <3>8. CacheCopyInCluster'
      BY <3>7 DEF CacheCopyInCluster, cluster_id
    <3> QED
      BY <3>6, <3>8
  <2>3. CASE ~IsCached(block)
    <3>1. cache_nodes' = cache_nodes
      BY <2>3 DEF PlaceBlock
    <3>2. CopiesFollow'
      BY <1>1, <1>3, <1>5, <2>1, <2>3, <3>1, SMTT(20)
         DEF TableInv, CopiesFollow, IsCached
    <3>3. ASSUME NEW s \in StripeIds, NEW i \in Blocks,
                 IsCached(i), i < Len(nodes'[s])
          PROVE  i < Len(nodes[s]) /\ nodes'[s][i + 1] = nodes[s][i + 1]
      <4>1. CASE s = S
        <5>1. i \in Nat /\ i <= block /\ block < K + G - 1 /\ i >= K + G - 1
          BY <1>1, <1>3, <2>3, <3>3, <4>1 DEF IsCached, Blocks, NumBlocks
        <5> QED
          BY <1>1, <5>1
      <4>2. CASE s # S
        BY <1>5, <3>3, <4>2
      <4> QED
        BY <4>1, <4>2
    <3>4. CacheCopyInCluster'
      BY <3>1, <3>3 DEF TableInv, CacheCopyInCluster, cluster_id
    <3> QED
      BY <3>2, <3>4
  <2> QED
    BY <2>2, <2>3
<1>7. NodesDistinct'
  <2> SUFFICES ASSUME NEW s \in StripeIds,
                      NEW i \in 1 .. Len(nodes'[s]),
                      NEW j \in 1 .. Len(nodes'[s]),
                      nodes'[s][i] = nodes'[s][j]
               PROVE  i = j
    BY DEF NodesDistinct
  <2>1. CASE s # S
    <3>1. nodes'[s] = nodes[s]
      BY <1>5, <2>1
    <3> QED
      BY <3>1 DEF TableInv, NodesDistinct
  <2>2. CASE s = S
    <3>1. \A x \in 1 .. Len(nodes'[s]) : x \in 1 .. block \/ x = block + 1
      BY <1>1, <1>3, <2>2
    <3>2. \A x \in 1 .. block : nodes'[s][x] # node_id
      BY <1>3, <1>4, <2>2
    <3>3. CASE i \in 1 .. block /\ j \in 1 .. block
      BY <1>1, <1>3, <2>2, <3>3 DEF TableInv, NodesDistinct
    <3> QED
      BY <1>3, <2>2, <3>1, <3>2, <3>3
  <2> QED
    BY <2>1, <2>2
<1>8. NodesListed'
  <2>1. /\ stripe_ids' = [stripe_ids EXCEPT ![node_id] = @ \cup {S}]
        /\ stripe_ids \in [NodeIds -> SUBSET StripeIds]
    BY DEF PlaceBlock, TypeOK
  <2> SUFFICES ASSUME NEW s \in StripeIds, NEW n \in NodeIds
               PROVE  s \in stripe_ids'[n] <=>
                        \E i \in 1 .. Len(nodes'[s]) : nodes'[s][i] = n
    BY DEF NodesListed
  <2>2. s \in stripe_ids[n] <=> \E i \in 1 .. Len(nodes[s]) : nodes[s][i] = n
    BY DEF TableInv, NodesListed
  <2>3. CASE s # S
    BY <1>5, <2>1, <2>2, <2>3
  <2>4. CASE s = S
    <3>1. (\E i \in 1 .. Len(nodes'[s]) : nodes'[s][i] = n) <=>
            (\E i \in 1 .. block : nodes[S][i] = n) \/ n = node_id
      BY <1>1, <1>3, <2>4, SMTT(20)
    <3> QED
      BY <2>1, <2>2, <2>4, <3>1
  <2> QED
    BY <2>3, <2>4
<1> QED
  BY <1>6, <1>7, <1>8 DEF TableInv

\* The other actions change neither the stripes nor the lists.
LEMMA NextTableInv == IInv /\ TableInv /\ [Next]_vars => TableInv'
<1> SUFFICES ASSUME IInv, TableInv, [Next]_vars PROVE TableInv'
  OBVIOUS
<1>1. CASE \E node_id \in NodeIds : PlaceBlock(node_id)
  BY <1>1, PlaceBlockTableInv DEF IInv
<1>2. CASE UNCHANGED <<nodes, cache_nodes, stripe_ids>>
  BY <1>2 DEF TableInv, CopiesFollow, CacheCopyInCluster, NodesDistinct,
              NodesListed, cluster_id
<1> QED
  BY <1>1, <1>2 DEF Next, NewStripe, DrawAgain, AskForRepair, Finished, vars

\* The tables agree in every reachable state.
LEMMA TablesAgree == Spec => []TableInv
BY InductiveInvariant, InitTableInv, NextTableInv, PTL DEF Spec

\* The assertion of generate_repair_plan_CACHED never fails.
THEOREM CopiesAreInCluster == Spec => []CacheCopyInCluster
<1>1. TableInv => CacheCopyInCluster
  BY DEF TableInv
<1> QED
  BY <1>1, TablesAgree, PTL

\* The assertion of ask_for_repair never fails.
THEOREM RepairFindsOneBlock == Spec => []OneBlockPerNode
<1>1. TypeOK /\ TableInv => OneBlockPerNode
  <2> SUFFICES ASSUME TypeOK, TableInv, NEW s \in StripeIds, NEW n \in NodeIds
               PROVE  LET held == {i \in 1 .. Len(nodes[s]) : nodes[s][i] = n}
                      IN  IF s \in stripe_ids[n] THEN Cardinality(held) = 1
                          ELSE held = {}
    BY DEF OneBlockPerNode
  <2> DEFINE held == {i \in 1 .. Len(nodes[s]) : nodes[s][i] = n}
  <2>1. CASE s \in stripe_ids[n]
    <3>1. PICK i \in 1 .. Len(nodes[s]) : nodes[s][i] = n
      BY <2>1 DEF TableInv, NodesListed
    <3>2. held = {i}
      BY <3>1 DEF TableInv, NodesDistinct
    <3> QED
      BY <2>1, <3>2, FS_Singleton, Zenon
  <2>2. CASE s \notin stripe_ids[n]
    BY <2>2 DEF TableInv, NodesListed
  <2> QED
    BY <2>1, <2>2
<1> QED
  BY <1>1, TypeCorrect, TablesAgree, PTL

-----------------------------------------------------------------------------
\* As long as no id without a datanode is looked up, the draws are of them.
DrawsAreDatanodes ==
    /\ node_info = Datanodes
    /\ dis_size <= Cardinality(Datanodes)
    /\ PlacedOnDatanodes

\* Datanode ids are 0, 1, ... without a gap.
LEMMA DatanodeCount ==
  \E n \in Nat : Datanodes = 0 .. n /\ Cardinality(Datanodes) = n + 1
<1>1. PICK n \in NodeIds : Datanodes = 0 .. n
  OBVIOUS
<1>2. Cardinality(Datanodes) = n + 1 /\ n \in Nat
  BY <1>1, FS_Interval DEF NodeIds
<1> QED
  BY <1>1, <1>2

\* A draw below the number of datanodes is one of them.
LEMMA DrawnIsDatanode ==
  ASSUME NEW node_id \in Nat, node_id < Cardinality(Datanodes)
  PROVE  node_id \in Datanodes
BY DatanodeCount

\* Initially there are no stripes, and an entry for each datanode.
LEMMA InitDraws == Init => DrawsAreDatanodes
<1> SUFFICES ASSUME Init PROVE DrawsAreDatanodes
  OBVIOUS
<1>1. 0 <= Cardinality(Datanodes)
  BY DatanodeCount
<1>2. \A s \in StripeIds : Range(nodes[s]) = {}
  BY DEF Init, Range
<1> QED
  BY <1>1, <1>2 DEF Init, DrawsAreDatanodes, PlacedOnDatanodes

\* Repairs of configured datanodes make no entry, so no step does.
LEMMA NextDraws ==
  ASSUME RepairIds \subseteq Datanodes
  PROVE  IInv /\ DrawsAreDatanodes /\ [Next]_vars => DrawsAreDatanodes'
<1> SUFFICES ASSUME IInv, DrawsAreDatanodes, [Next]_vars
             PROVE  DrawsAreDatanodes'
  OBVIOUS
<1> USE DEF DrawsAreDatanodes, PlacedOnDatanodes
<1>0. TypeOK /\ StripesInOrder
  BY DEF IInv
<1>1. CASE NewStripe
  BY <1>0, <1>1, EntriesType DEF NewStripe
<1>2. ASSUME NEW node_id \in NodeIds, PlaceBlock(node_id)
      PROVE  DrawsAreDatanodes'
  <2>1. node_id \in Datanodes
    BY <1>0, <1>2, DrawnIsDatanode, EntriesType DEF PlaceBlock, NodeIds, TypeOK
  <2>2. Range(nodes'[stripe_id]) \subseteq Range(nodes[stripe_id]) \cup {node_id}
    BY <1>0, <1>2, PlacingType DEF PlaceBlock, TypeOK, Range
  <2>3. \A s \in StripeIds : s # stripe_id => nodes'[s] = nodes[s]
    BY <1>0, <1>2 DEF PlaceBlock, TypeOK
  <2>4. PlacedOnDatanodes'
    BY <1>0, <1>2, <2>1, <2>2, <2>3, PlacingType DEF PlaceBlock
  <2> QED
    BY <1>2, <2>1, <2>4 DEF PlaceBlock
<1>3. ASSUME NEW node_id \in NodeIds, DrawAgain(node_id)
      PROVE  DrawsAreDatanodes'
  <2>1. node_id \in Datanodes
    BY <1>0, <1>3, DrawnIsDatanode, EntriesType DEF DrawAgain, NodeIds, TypeOK
  <2> QED
    BY <1>3, <2>1 DEF DrawAgain
<1>4. ASSUME NEW node_id \in RepairIds, AskForRepair(node_id)
      PROVE  DrawsAreDatanodes'
  BY <1>4 DEF AskForRepair
<1>5. CASE UNCHANGED vars
  BY <1>5 DEF vars
<1> QED
  BY <1>1, <1>2, <1>3, <1>4, <1>5 DEF Next, Finished

\* If only datanodes of the configuration are ever asked to be repaired,
\* generate_placement_plan places blocks on datanodes only.
THEOREM KnownRepairsPlaceRight ==
  ASSUME RepairIds \subseteq Datanodes
  PROVE  Spec => []PlacedOnDatanodes
<1>1. IInv /\ DrawsAreDatanodes /\ [Next]_vars => DrawsAreDatanodes'
  BY NextDraws
<1>2. DrawsAreDatanodes => PlacedOnDatanodes
  BY DEF DrawsAreDatanodes
<1> QED
  BY <1>1, <1>2, InductiveInvariant, InitDraws, PTL DEF Spec
=============================================================================
