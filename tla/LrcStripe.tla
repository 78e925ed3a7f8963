------------------------------ MODULE LrcStripe ------------------------------
(***************************************************************************)
(* One stripe of the Azure-LRC(k, real_l, g) code: which block has which   *)
(* index, which block has a copy on a cache node, and which blocks suffice *)
(* to rebuild the data.  The matrix arithmetic itself (Jerasure) is kept   *)
(* only through the independence the code relies on.                       *)
(***************************************************************************)
EXTENDS Naturals, FiniteSets

CONSTANTS
    K,      \* EC_schema.k: data blocks
    RealL,  \* EC_schema.real_l: local parity blocks, one per group
    G       \* EC_schema.g: global parity blocks

\* K % RealL = 0 is asserted by make_lrc_coding_matrix and by the placement;
\* G = 0 would leave every cluster with no room for its first block.
ASSUME StripeAssumption ==
    /\ K \in Nat \ {0}
    /\ RealL \in Nat \ {0}
    /\ G \in Nat \ {0}
    /\ K % RealL = 0

B == K \div RealL

NumBlocks == K + G + RealL

\* Indexes within a stripe: data, then global parities, then local parities.
DataBlocks   == 0 .. K - 1
GlobalBlocks == K .. K + G - 1
LocalBlocks  == K + G .. NumBlocks - 1
Blocks       == 0 .. NumBlocks - 1

\* The local group of a data block or of a local parity block.
GroupOf(i) == IF i < K THEN i \div B ELSE i - (K + G)

LocalParity(group) == K + G + group

GroupBlocks(group) == {i \in Blocks \ GlobalBlocks : GroupOf(i) = group}

\* Mutant: a global parity is taken for a block of a group.
GroupsOfAll(S) == {GroupOf(i) : i \in S}

GroupsOf(S) == {GroupOf(i) : i \in S \ GlobalBlocks}

\* The last global parity and every local parity also go to a cache node;
\* CacheSlot is the position of block i in stripe_item.cache_nodes.
IsCached(i) == i >= K + G - 1

CacheSlot(i) == i - (K + G - 1)

-----------------------------------------------------------------------------
\* The data blocks that xor inside their local group cannot bring back.
UnknownData(lost) ==
    {i \in lost \cap DataBlocks : lost \cap GroupBlocks(GroupOf(i)) # {i}}

\* Row 0 of reed_sol_vandermonde_coding_matrix(k, g + 1) is all ones, that is
\* the sum of the local parities; any k rows of it, of the g rows kept as
\* global parities and of the identity are independent.  So the unknowns are
\* found if they are no more than the live global parities, with one equation
\* more when their groups' local parities are all alive.
HasAllOnesRow(lost) ==
    \A i \in UnknownData(lost) : LocalParity(GroupOf(i)) \notin lost

Decodable(lost) ==
    Cardinality(UnknownData(lost)) <=
        Cardinality(GlobalBlocks \ lost)
            + (IF HasAllOnesRow(lost) THEN 1 ELSE 0)

\* erasure_code.cpp check_k_data: no data block is erased.
check_k_data(erasures) == erasures \cap DataBlocks = {}

\* Mutants: any k blocks are taken to suffice; one block too many is awaited.
expect_any_k == K
expect_one_more == K + RealL

\* erasure_code.cpp check_received_block, called with the number of blocks
\* the concurrent read waits for.
expect_block_number == K + RealL - 1

check_received_block(blocks_idx) ==
    \/ Cardinality(blocks_idx) >= expect_block_number
    \/ Cardinality(blocks_idx) = K /\ DataBlocks \subseteq blocks_idx

\* erasure_code.cpp decode: TRUE when the data comes out right.
decode(erasures) == check_k_data(erasures) \/ Decodable(erasures)
=============================================================================
