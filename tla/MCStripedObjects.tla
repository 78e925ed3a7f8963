--------------------------- MODULE MCStripedObjects ---------------------------
(***************************************************************************)
(* Small instances of StripedObjects: a granule of 2 bytes for 64, a few   *)
(* ids to a stripe for 1000, and a disk and an int that blocks outgrow.    *)
(***************************************************************************)
EXTENDS StripedObjects

Schema(k, l, g, upper) ==
    [k |-> k, real_l |-> l, g |-> g, stripe_size_upper |-> upper]

\* Stripes of 8 bytes or of 4.
TwoSizes == {Schema(2, 1, 1, 8), Schema(2, 1, 1, 4)}
StripesOf8 == Schema(2, 1, 1, 8)

\* Codes of seven blocks, with copies of the last three and the last two.
TwoCodes == {Schema(2, 2, 3, 8), Schema(4, 2, 1, 8)}
KOf2 == Schema(2, 2, 3, 8)

Symmetry == Permutations(Keys)

\* Every stripe has its blocks on the same nodes, cache nodes after datanodes.
MaxBlocks == CHOOSE m \in {NumBlocks(s) : s \in Schemas} :
                 \A s \in Schemas : NumBlocks(s) <= m

MCNodes == 0 .. MaxBlocks + 2

MCStripeNodes == [s \in StripeIds |-> [j \in BlockIndexes |-> j]]

MCStripeCacheNodes ==
    [s \in StripeIds |-> [slot \in CacheSlots |-> MaxBlocks + slot]]

\* Ids as they are written and, as far as they differ, as they are read.
MCBlockIds == -(UIntSize \div 2) .. UIntSize - 1

MCBytes ==
    (Keys \X (1 .. 16)) \cup
    (Keys \X StripeIds \X BlockIndexes \X (1 .. 8)) \cup
    {Zero, Garbage}
===============================================================================
