------------------------------ MODULE RepairPlan ------------------------------
(***************************************************************************)
(* generate_repair_plan_CACHED: which blocks are read, and in which        *)
(* clusters, to repair one block of a stripe.  where[i] is the cluster of  *)
(* block i; a copy on a cache node is in the cluster of its block, which   *)
(* Placement guarantees and the code asserts.                              *)
(***************************************************************************)
EXTENDS LrcStripe

\* Mutant: the failed block is taken to be alive.
LiveBlocksAndFailed(f) == {i \in Blocks : ~IsCached(i)}

\* A global parity without a copy is repaired from k of the other blocks
\* without a copy, which the sorted walk over the clusters picks.
LiveBlocks(f) == {i \in Blocks : ~IsCached(i)} \ {f}

LiveIn(where, f, c) == {i \in LiveBlocks(f) : where[i] = c}

\* The failed block's cluster comes first, ...
MainFirst(where, f, reads) ==
    \/ LiveIn(where, f, where[f]) \subseteq reads
    \/ \A i \in reads : where[i] = where[f]

\* Mutant: the other clusters are walked in any order.
AnyOrder(where, f, reads) == TRUE

\* ... then clusters with more live blocks before clusters with fewer, ...
MoreLiveFirst(where, f, reads) ==
    \A i \in reads, j \in LiveBlocks(f) \ reads :
        where[f] \notin {where[i], where[j]} =>
            Cardinality(LiveIn(where, f, where[i])) >=
                Cardinality(LiveIn(where, f, where[j]))

\* ... one after the other, and in each the blocks from the lowest index.
InOrder(where, f, reads) ==
    /\ \A i \in reads, j \in LiveBlocks(f) \ reads : where[i] = where[j] => i < j
    /\ \A i, j \in LiveBlocks(f) \ reads :
          LiveIn(where, f, where[i]) \cap reads # {} /\
          LiveIn(where, f, where[j]) \cap reads # {} => where[i] = where[j]

GlobalReads(where, f) ==
    {reads \in SUBSET LiveBlocks(f) :
        /\ Cardinality(reads) = K
        /\ MainFirst(where, f, reads)
        /\ MoreLiveFirst(where, f, reads)
        /\ InOrder(where, f, reads)}

\* A data block is the xor of the rest of its group.
GroupReads(f) == GroupBlocks(GroupOf(f)) \ {f}

\* The sets of blocks that may be read to repair block f.
Plans(where, f) ==
    CASE f < K       -> {GroupReads(f)}
      [] IsCached(f) -> {{f}}
      [] OTHER       -> GlobalReads(where, f)

\* repair_span_cluster, the failed block's cluster included.
Span(where, f, reads) == {where[f]} \cup {where[i] : i \in reads}

\* The xor of these blocks, or their combination by the inverted matrix, is f.
\* Any k rows of the identity and of the global parities are independent.
Determines(reads, f) ==
    CASE f < K       -> reads = GroupBlocks(GroupOf(f)) \ {f}
      [] IsCached(f) -> reads = {f}
      [] OTHER       -> /\ reads \subseteq (DataBlocks \cup GlobalBlocks) \ {f}
                        /\ Cardinality(reads) = K
=============================================================================
