--------------------------- MODULE LrcStripeProofs ---------------------------
(***************************************************************************)
(* Which losses of blocks a stripe survives, for every k, real_l and g.    *)
(***************************************************************************)
EXTENDS LrcStripe, FiniteSetTheorems, TLAPS

USE StripeAssumption

\* There is at least one data block in a group, which makes the group index of
\* a data block (i / b in the code) a natural number below real_l.
LEMMA GroupSize == B \in Nat \ {0} /\ K = RealL * B
<1>1. /\ K = RealL * (K \div RealL) + (K % RealL)
      /\ K \div RealL \in Nat
  OBVIOUS
<1>2. K = RealL * B /\ B \in Nat
  BY <1>1 DEF B
<1>3. B # 0
  <2>1. SUFFICES ASSUME B = 0 PROVE FALSE
    OBVIOUS
  <2>2. RealL * B = 0
    BY <2>1
  <2> QED
    BY <1>2, <2>2
<1> QED
  BY <1>2, <1>3

\* Every data block and every local parity belongs to one of the real_l groups.
LEMMA GroupIndex ==
  ASSUME NEW i \in Blocks \ GlobalBlocks
  PROVE  GroupOf(i) \in 0 .. RealL - 1
<1>1. CASE i < K
  <2> DEFINE q == i \div B
  <2>1. i \in Nat /\ B \in Nat \ {0} /\ K = RealL * B
    BY GroupSize DEF Blocks, NumBlocks
  <2>2. q \in Nat /\ i = B * q + (i % B) /\ i % B \in 0 .. B - 1
    BY <2>1
  <2>3. q < RealL
    <3>1. SUFFICES ASSUME q >= RealL PROVE FALSE
      BY <2>2
    <3>2. PICK d \in Nat : q = RealL + d
      BY <2>2, <3>1
    <3>3. B * q = RealL * B + B * d /\ B * d \in Nat
      BY <2>1, <3>2
    <3> HIDE DEF q
    <3> QED
      BY <1>1, <2>1, <2>2, <3>3
  <2> QED
    BY <1>1, <2>2, <2>3 DEF GroupOf
<1>2. CASE ~(i < K)
  BY <1>2 DEF GroupOf, Blocks, NumBlocks, GlobalBlocks
<1> QED
  BY <1>1, <1>2

\* The stripe has k + g + real_l blocks, g of them global parities, and data
\* blocks and global parities are different blocks.
LEMMA StripeSizes ==
  /\ IsFiniteSet(Blocks) /\ Cardinality(Blocks) = NumBlocks
  /\ IsFiniteSet(GlobalBlocks) /\ Cardinality(GlobalBlocks) = G
  /\ DataBlocks \subseteq Blocks
  /\ GlobalBlocks \subseteq Blocks
  /\ DataBlocks \cap GlobalBlocks = {}
<1>1. /\ IsFiniteSet(0 .. NumBlocks - 1)
      /\ Cardinality(0 .. NumBlocks - 1) = NumBlocks
  BY FS_Interval DEF NumBlocks
<1>2. /\ IsFiniteSet(K .. K + G - 1)
      /\ Cardinality(K .. K + G - 1) = G
  BY FS_Interval
<1> QED
  BY <1>1, <1>2 DEF Blocks, NumBlocks, DataBlocks, GlobalBlocks

\* A stripe survives the loss of any g + 1 blocks: global parities that are
\* lost count against the g unknowns they would have solved, and a group whose
\* local parity is lost too has one unknown less.
THEOREM AnyLossOfGPlus1 ==
  ASSUME NEW lost \in SUBSET Blocks,
         Cardinality(lost) <= G + 1
  PROVE  Decodable(lost)
<1> DEFINE U    == UnknownData(lost)
           Dead == GlobalBlocks \cap lost
           Live == GlobalBlocks \ lost
<1>1. IsFiniteSet(lost) /\ Cardinality(lost) \in Nat
  BY StripeSizes, FS_Subset, FS_CardinalityType
<1>2. U \subseteq lost \cap DataBlocks
  BY DEF UnknownData
<1>3. /\ IsFiniteSet(U) /\ Cardinality(U) \in Nat
      /\ IsFiniteSet(Dead) /\ Cardinality(Dead) \in Nat
      /\ IsFiniteSet(Live) /\ Cardinality(Live) \in Nat
  BY <1>1, <1>2, StripeSizes, FS_Subset, FS_CardinalityType
<1>4. Cardinality(Live) + Cardinality(Dead) = G
  <2>1. Live \cup Dead = GlobalBlocks /\ Live \cap Dead = {}
    OBVIOUS
  <2>2. Cardinality(Live \cup Dead) =
          Cardinality(Live) + Cardinality(Dead) - Cardinality(Live \cap Dead)
    BY <1>3, FS_Union
  <2>3. Cardinality(Live \cap Dead) = 0
    BY <2>1, FS_EmptySet
  <2>4. Cardinality(Live \cup Dead) = G
    BY <2>1, StripeSizes
  <2> QED
    BY <1>3, <2>2, <2>3, <2>4
<1>5. /\ IsFiniteSet(U \cup Dead)
      /\ Cardinality(U \cup Dead) = Cardinality(U) + Cardinality(Dead)
  <2>1. U \cap Dead = {}
    BY <1>2, StripeSizes
  <2>2. /\ IsFiniteSet(U \cup Dead)
        /\ Cardinality(U \cup Dead) =
             Cardinality(U) + Cardinality(Dead) - Cardinality(U \cap Dead)
    BY <1>3, FS_Union
  <2>3. Cardinality(U \cap Dead) = 0
    BY <2>1, FS_EmptySet
  <2> QED
    BY <1>3, <2>2, <2>3
<1>6. CASE HasAllOnesRow(lost)
  <2>1. Cardinality(U \cup Dead) <= Cardinality(lost)
    BY <1>1, <1>2, FS_Subset
  <2> QED
    BY <1>1, <1>3, <1>4, <1>5, <1>6, <2>1 DEF Decodable
<1>7. CASE ~HasAllOnesRow(lost)
  <2>1. PICK i \in U : LocalParity(GroupOf(i)) \in lost
    BY <1>7 DEF HasAllOnesRow
  <2> DEFINE p == LocalParity(GroupOf(i))
  <2>2. i \in Blocks \ GlobalBlocks
    BY <1>2, StripeSizes
  <2>3. p \notin DataBlocks /\ p \notin GlobalBlocks
    BY <2>2, GroupIndex DEF LocalParity, DataBlocks, GlobalBlocks
  <2>4. U \cup Dead \subseteq lost \ {p}
    BY <1>2, <2>3
  <2>5. /\ IsFiniteSet(lost \ {p})
        /\ Cardinality(lost \ {p}) = Cardinality(lost) - 1
    BY <1>1, <2>1, FS_RemoveElement
  <2>6. Cardinality(U \cup Dead) <= Cardinality(lost) - 1
    BY <2>4, <2>5, FS_Subset
  <2> QED
    BY <1>1, <1>3, <1>4, <1>5, <1>7, <2>6 DEF Decodable
<1> QED
  BY <1>6, <1>7

\* check_received_block never lets a read decode too early: the blocks that
\* satisfy it determine the data.
THEOREM ReceivedSuffices ==
  ASSUME NEW blocks_idx \in SUBSET Blocks,
         check_received_block(blocks_idx)
  PROVE  decode(Blocks \ blocks_idx)
<1>1. CASE Cardinality(blocks_idx) >= expect_block_number
  <2>1. IsFiniteSet(blocks_idx) /\ Cardinality(blocks_idx) \in Nat
    BY StripeSizes, FS_Subset, FS_CardinalityType
  <2>2. /\ IsFiniteSet(Blocks \ blocks_idx)
        /\ Cardinality(Blocks \ blocks_idx) \in Nat
    BY StripeSizes, FS_Subset, FS_CardinalityType
  <2>3. Cardinality(Blocks) =
          Cardinality(blocks_idx) + Cardinality(Blocks \ blocks_idx)
    <3>1. /\ blocks_idx \cup (Blocks \ blocks_idx) = Blocks
          /\ blocks_idx \cap (Blocks \ blocks_idx) = {}
      OBVIOUS
    <3> QED
      BY <2>1, <2>2, <3>1, FS_Union, FS_EmptySet
  <2>4. Cardinality(Blocks \ blocks_idx) <= G + 1
    BY <1>1, <2>1, <2>2, <2>3, StripeSizes
       DEF expect_block_number, NumBlocks
  <2> QED
    BY <2>4, AnyLossOfGPlus1 DEF decode
<1>2. CASE DataBlocks \subseteq blocks_idx
  BY <1>2 DEF decode, check_k_data
<1> QED
  BY <1>1, <1>2 DEF check_received_block
=============================================================================
