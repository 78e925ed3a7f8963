---------------------------- MODULE DatanodeProofs ----------------------------
(***************************************************************************)
(* The datanodes keep what they promise, for any nodes, blocks and widths: *)
(* the types, and the refinement of BlockMap from the invariant that a     *)
(* node which is not outgrown counts its offset right.                     *)
(***************************************************************************)
EXTENDS Datanode, SequenceTheorems, TLAPS

\* An int holds whatever the conversion makes, and small numbers stay.
LEMMA ToIntFits ==
    ASSUME NEW x \in (-IntMax - 1) .. IntMax, NEW y \in Nat
    PROVE  /\ ToInt(x + y) \in (-IntMax - 1) .. IntMax
           /\ x + y \in 0 .. IntMax => ToInt(x + y) = x + y
  <1> DEFINE w == 2 * (IntMax + 1)
             z == x + y + IntMax + 1
  <1>1. IntMax \in Nat
    BY DatanodeAssumption
  <1>2. z \in Nat /\ w \in Nat \ {0} /\ ToInt(x + y) = (z % w) - (IntMax + 1)
    BY <1>1 DEF ToInt
  <1>3. x + y \in 0 .. IntMax => z < w
    BY <1>1
  <1>4. z % w \in 0 .. w - 1 /\ (z < w => z % w = z)
    <2> HIDE DEF z, w
    <2> QED
      BY <1>2
  <1> QED
    BY <1>1, <1>2, <1>3, <1>4

\* What lies in a sequence stays when something is appended, and what is
\* appended is what comes after it.
LEMMA PartOfLonger ==
    ASSUME NEW S, NEW s \in Seq(S), NEW t \in Seq(S),
           NEW o \in Nat, NEW size \in Nat, o + size <= Len(s)
    PROVE  SubSeq(s \o t, o + 1, o + size) = SubSeq(s, o + 1, o + size)
  <1>1. Len(s) \in Nat
    BY LenProperties
  <1>2. CASE size = 0
    BY <1>2, SubSeqEmpty
  <1>3. CASE size # 0
    <2>1. o + 1 \in 1 .. Len(s) /\ o + size \in 1 .. Len(s)
      BY <1>1, <1>3
    <2> QED
      BY <2>1, SubSeqOfConcat1
  <1> QED
    BY <1>2, <1>3

LEMMA PartOfFile ==
    ASSUME NEW s \in Seq(Bytes), NEW t \in Seq(Bytes),
           NEW o \in Nat, NEW size \in Nat, o + size <= Len(s)
    PROVE  SubSeq(s \o t, o + 1, o + size) = SubSeq(s, o + 1, o + size)
  BY PartOfLonger

LEMMA AppendedPart ==
    ASSUME NEW S, NEW s \in Seq(S), NEW t \in Seq(S)
    PROVE  SubSeq(s \o t, Len(s) + 1, Len(s) + Len(t)) = t
  <1> DEFINE u == SubSeq(s \o t, Len(s) + 1, Len(s) + Len(t))
  <1>1. Len(s) \in Nat /\ Len(t) \in Nat
    BY LenProperties
  <1>2. CASE Len(t) = 0
    <2>1. u = <<>>
      BY <1>1, <1>2, SubSeqEmpty
    <2>2. t = <<>>
      BY <1>2, EmptySeq
    <2> QED
      BY <2>1, <2>2
  <1>3. CASE Len(t) # 0
    <2>1. u = SubSeq(t, 1, Len(t))
      <3>1. /\ Len(s) + 1 \in Len(s) + 1 .. Len(s) + Len(t)
            /\ Len(s) + Len(t) \in Len(s) + 1 .. Len(s) + Len(t)
        BY <1>1, <1>3
      <3>2. u = SubSeq(t, Len(s) + 1 - Len(s), Len(s) + Len(t) - Len(s))
        BY <3>1, SubSeqOfConcat2
      <3> QED
        BY <1>1, <3>2
    <2> QED
      BY <2>1, SubSeqFull
  <1> QED
    BY <1>2, <1>3

LEMMA AppendedType ==
    ASSUME DatanodeTypeOK, NEW n \in Nodes, NEW value \in Contents
    PROVE  /\ Appended(n, value) \in Seq(Bytes)
           /\ file[n] \in Seq(Bytes)
           /\ Len(file[n]) \in Nat
           /\ Len(value) \in Nat
           /\ file[n] \o value \in Seq(Bytes)
           /\ Len(file[n] \o value) = Len(file[n]) + Len(value)
  <1> DEFINE f == file[n] \o value
  <1>1. /\ file[n] \in Seq(Bytes)
        /\ value \in Seq(Bytes)
        /\ DiskSize \in Nat
    BY DatanodeAssumption DEF DatanodeTypeOK, Contents
  <1>2. /\ Len(file[n]) \in Nat
        /\ Len(value) \in Nat
        /\ f \in Seq(Bytes)
        /\ Len(f) = Len(file[n]) + Len(value)
    BY <1>1, LenProperties, ConcatProperties
  <1>3. DiskFull(n, value) => SubSeq(f, 1, DiskSize) \in Seq(Bytes)
    <2>1. ASSUME DiskFull(n, value), NEW i \in 1 .. DiskSize
          PROVE  f[i] \in Bytes
      <3>1. i \in 1 .. Len(f)
        BY <1>1, <1>2, <2>1 DEF DiskFull
      <3> QED
        BY <1>2, <3>1, ElementOfSeq
    <2> HIDE DEF f
    <2> QED
      BY <1>1, <2>1, SubSeqProperties
  <1> QED
    BY <1>1, <1>2, <1>3 DEF Appended

-----------------------------------------------------------------------------
\* Each action keeps the types of what it changes: the disk or the copies.

DiskTypeOK ==
    /\ file \in [Nodes -> Seq(Bytes)]
    /\ DOMAIN block_info = Nodes
    /\ \A n \in Nodes : IsMap(block_info[n], BlockIds, Location)
    /\ cur_offset \in [Nodes -> (-IntMax - 1) .. IntMax]
    /\ failed \subseteq Nodes

CopiesTypeOK ==
    /\ DOMAIN redis = Nodes
    /\ \A n \in Nodes : IsMap(redis[n], BlockIds, Contents)
    /\ down \subseteq Nodes

LEMMA TypesOfParts ==
    DatanodeTypeOK <=> DiskTypeOK /\ CopiesTypeOK
  BY DEF DatanodeTypeOK, DiskTypeOK, CopiesTypeOK

LEMMA WithType ==
    ASSUME NEW S, NEW T, NEW f, IsMap(f, S, T), NEW x \in S, NEW y \in T
    PROVE  IsMap(With(f, x, y), S, T)
  BY DEF IsMap, With

LEMMA WriteDiskType ==
    ASSUME DatanodeTypeOK,
           NEW n \in Nodes, NEW key \in BlockIds, NEW value \in Contents,
           WriteDisk(n, key, value)
    PROVE  DiskTypeOK'
  <1>1. /\ Appended(n, value) \in Seq(Bytes)
        /\ Len(value) \in Nat
    BY AppendedType
  <1>2. /\ cur_offset[n] \in (-IntMax - 1) .. IntMax
        /\ cur_offset[n] \in Int
    BY DatanodeAssumption DEF DatanodeTypeOK
  <1>3. file' \in [Nodes -> Seq(Bytes)]
    BY <1>1 DEF WriteDisk, DatanodeTypeOK
  <1>4. /\ DOMAIN block_info' = Nodes
        /\ \A m \in Nodes : IsMap(block_info'[m], BlockIds, Location)
    <2>1. [offset |-> cur_offset[n], size |-> Len(value)] \in Location
      BY <1>1, <1>2 DEF Location
    <2>2. IsMap(With(block_info[n], key,
                     [offset |-> cur_offset[n], size |-> Len(value)]),
                BlockIds, Location)
      BY <2>1, WithType DEF DatanodeTypeOK
    <2> QED
      BY <2>2 DEF WriteDisk, DatanodeTypeOK
  <1>5. cur_offset' \in [Nodes -> (-IntMax - 1) .. IntMax]
    BY <1>1, <1>2, ToIntFits DEF WriteDisk, DatanodeTypeOK
  <1>6. failed' \subseteq Nodes
    BY DEF WriteDisk, DatanodeTypeOK
  <1> QED
    BY <1>3, <1>4, <1>5, <1>6 DEF DiskTypeOK

LEMMA ReadDiskType ==
    ASSUME DatanodeTypeOK, NEW reads, ReadDisk(reads)
    PROVE  DiskTypeOK'
  BY DEF DatanodeTypeOK, DiskTypeOK, ReadDisk, FailReading

LEMMA WriteRedisType ==
    ASSUME DatanodeTypeOK,
           NEW n \in Nodes, NEW key \in BlockIds, NEW value \in Contents,
           WriteRedis(n, key, value), down' = down
    PROVE  CopiesTypeOK'
  <1>1. IsMap(With(redis[n], key, value), BlockIds, Contents)
    BY WithType DEF DatanodeTypeOK
  <1> QED
    BY <1>1 DEF WriteRedis, DatanodeTypeOK, CopiesTypeOK

LEMMA ReadRedisType ==
    ASSUME DatanodeTypeOK, NEW reads, ReadRedis(reads), redis' = redis
    PROVE  CopiesTypeOK'
  BY DEF DatanodeTypeOK, CopiesTypeOK, ReadRedis

LEMMA StartAnewType ==
    ASSUME DatanodeTypeOK, NEW n \in Nodes, StartAnew(n)
    PROVE  DatanodeTypeOK'
  <1>1. <<>> \in Seq(Bytes) /\ 0 \in (-IntMax - 1) .. IntMax
    BY DatanodeAssumption
  <1>2. IsMap(NoEntries, BlockIds, Location)
    BY DEF IsMap, NoEntries
  <1> QED
    BY <1>1, <1>2 DEF DatanodeTypeOK, StartAnew

-----------------------------------------------------------------------------
\* The inductive invariant: a node that is not outgrown has counted its offset
\* right, and its entries lie inside the file.
Counted(n) ==
    /\ cur_offset[n] = Len(file[n])
    /\ \A id \in DOMAIN block_info[n] :
          /\ block_info[n][id].offset \in Nat
          /\ block_info[n][id].size \in Nat
          /\ block_info[n][id].offset + block_info[n][id].size <= Len(file[n])

DiskInv ==
    /\ DatanodeTypeOK
    /\ \A n \in Nodes : ~Outgrown(n) => Counted(n)

\* Until it is outgrown, a write adds its bytes to the file, indexed by where
\* they are.
LEMMA GoodWrite ==
    ASSUME DiskInv,
           NEW n \in Nodes, NEW key \in BlockIds, NEW value \in Contents,
           WriteDisk(n, key, value), ~Outgrown(n)'
    PROVE  /\ ~Outgrown(n)
           /\ file'[n] = file[n] \o value
           /\ Len(file'[n]) = Len(file[n]) + Len(value)
           /\ block_info'[n] = With(block_info[n], key,
                 [offset |-> Len(file[n]), size |-> Len(value)])
           /\ cur_offset'[n] = Len(file'[n])
           /\ failed' = failed
  <1>1. /\ Len(file[n]) \in Nat
        /\ Len(value) \in Nat
        /\ Len(file[n] \o value) = Len(file[n]) + Len(value)
        /\ IntMax \in Nat
    BY AppendedType, DatanodeAssumption DEF DiskInv
  <1>2. n \notin failed /\ ~DiskFull(n, value) /\ failed' = failed
    BY DEF WriteDisk, Outgrown
  <1>3. file'[n] = file[n] \o value
    BY <1>2 DEF WriteDisk, Appended, DiskInv, DatanodeTypeOK
  <1>4. Len(file'[n]) <= IntMax
    BY <1>1, <1>3 DEF Outgrown
  <1>5. ~Outgrown(n)
    BY <1>1, <1>2, <1>3, <1>4 DEF Outgrown
  <1>6. cur_offset[n] = Len(file[n])
    BY <1>5 DEF DiskInv, Counted
  <1>7. /\ block_info'[n] = With(block_info[n], key,
              [offset |-> Len(file[n]), size |-> Len(value)])
        /\ cur_offset'[n] = ToInt(Len(file[n]) + Len(value))
    BY <1>6 DEF WriteDisk, DiskInv, DatanodeTypeOK
  <1>8. ToInt(Len(file[n]) + Len(value)) = Len(file[n]) + Len(value)
    BY <1>1, <1>3, <1>4, ToIntFits
  <1> QED
    BY <1>1, <1>2, <1>3, <1>5, <1>7, <1>8

\* What a node has lost it does not find again before it is started anew.
LEMMA StaysOutgrown ==
    ASSUME DiskInv,
           NEW n \in Nodes, NEW key \in BlockIds, NEW value \in Contents,
           WriteDisk(n, key, value), Outgrown(n)
    PROVE  Outgrown(n)'
  BY GoodWrite

\* A write concerns its node alone.
LEMMA OtherNodes ==
    ASSUME DiskInv,
           NEW n \in Nodes, NEW key \in BlockIds, NEW value \in Contents,
           WriteDisk(n, key, value), NEW m \in Nodes, m # n
    PROVE  /\ file'[m] = file[m]
           /\ block_info'[m] = block_info[m]
           /\ cur_offset'[m] = cur_offset[m]
           /\ Outgrown(m)' = Outgrown(m)
  <1>1. /\ file'[m] = file[m]
        /\ block_info'[m] = block_info[m]
        /\ cur_offset'[m] = cur_offset[m]
        /\ m \in failed' <=> m \in failed
    BY DEF WriteDisk, DiskInv, DatanodeTypeOK
  <1> QED
    BY <1>1 DEF Outgrown

\* No read fails a stream that has not failed before.
LEMMA GoodReads ==
    ASSUME DiskInv, NEW reads, ReadDisk(reads), NEW n \in Nodes
    PROVE  Outgrown(n)' = Outgrown(n)
  <1>1. ASSUME ~Outgrown(n), NEW key
        PROVE  Readable(n, LocationOf(n, key))
    <2>1. n \notin failed /\ Len(file[n]) \in Nat
      BY <1>1, LenProperties DEF Outgrown, DiskInv, DatanodeTypeOK
    <2>2. CASE key \in DOMAIN block_info[n]
      BY <1>1, <2>1, <2>2 DEF Readable, LocationOf, DiskInv, Counted
    <2>3. CASE key \notin DOMAIN block_info[n]
      BY <2>1, <2>3 DEF Readable, LocationOf
    <2> QED
      BY <2>2, <2>3
  <1>2. ~Outgrown(n) => (n \in failed' <=> n \in failed)
    BY <1>1 DEF ReadDisk, FailReading
  <1>3. /\ file'[n] = file[n]
        /\ n \in failed => n \in failed'
    BY DEF ReadDisk
  <1> QED
    BY <1>2, <1>3 DEF Outgrown

LEMMA InitInv ==
    DatanodeInit => DiskInv
  <1> SUFFICES ASSUME DatanodeInit
               PROVE  DiskInv
    OBVIOUS
  <1>1. DatanodeTypeOK
    <2>1. <<>> \in Seq(Bytes) /\ 0 \in (-IntMax - 1) .. IntMax
      BY DatanodeAssumption
    <2>2. IsMap(NoEntries, BlockIds, Location) /\ IsMap(NoEntries, BlockIds, Contents)
      BY DEF IsMap, NoEntries
    <2> QED
      BY <2>1, <2>2 DEF DatanodeInit, DatanodeTypeOK
  <1>2. \A n \in Nodes : Counted(n)
    BY DEF DatanodeInit, Counted, NoEntries
  <1> QED
    BY <1>1, <1>2 DEF DiskInv

\* The invariant's part about the disks, kept by everything done to a disk.
DiskOK == DiskTypeOK /\ \A n \in Nodes : ~Outgrown(n) => Counted(n)

LEMMA InvOfParts ==
    DiskInv <=> DiskOK /\ CopiesTypeOK
  BY TypesOfParts DEF DiskInv, DiskOK

LEMMA WriteDiskOK ==
    ASSUME DiskInv,
           NEW n \in Nodes, NEW key \in BlockIds, NEW value \in Contents,
           WriteDisk(n, key, value)
    PROVE  DiskOK'
  <1>1. DiskTypeOK'
    BY WriteDiskType DEF DiskInv
  <1>2. ASSUME ~Outgrown(n)'
        PROVE  Counted(n)'
    <2>1. Counted(n)
      BY <1>2, GoodWrite DEF DiskInv
    <2>2. /\ file'[n] = file[n] \o value
          /\ Len(file'[n]) = Len(file[n]) + Len(value)
          /\ block_info'[n] = With(block_info[n], key,
                [offset |-> Len(file[n]), size |-> Len(value)])
          /\ cur_offset'[n] = Len(file'[n])
      BY <1>2, GoodWrite
    <2>3. Len(file[n]) \in Nat /\ Len(value) \in Nat
      BY AppendedType DEF DiskInv
    <2> QED
      BY <2>1, <2>2, <2>3 DEF Counted, With
  <1>3. ASSUME NEW m \in Nodes, m # n, ~Outgrown(m)'
        PROVE  Counted(m)'
    BY <1>3, OtherNodes DEF Counted, DiskInv
  <1> QED
    BY <1>1, <1>2, <1>3 DEF DiskOK

LEMMA ReadDiskOK ==
    ASSUME DiskInv, NEW reads, ReadDisk(reads)
    PROVE  DiskOK'
  BY ReadDiskType, GoodReads DEF ReadDisk, Counted, DiskInv, DiskOK

LEMMA StartAnewInv ==
    ASSUME DiskInv, NEW n \in Nodes, StartAnew(n)
    PROVE  DiskInv'
  <1>1. DatanodeTypeOK'
    BY StartAnewType DEF DiskInv
  <1>2. Counted(n)'
    BY DEF StartAnew, Counted, NoEntries, DatanodeTypeOK, DiskInv
  <1>3. ASSUME NEW m \in Nodes, m # n, ~Outgrown(m)'
        PROVE  Counted(m)'
    BY <1>3 DEF StartAnew, Counted, Outgrown, DatanodeTypeOK, DiskInv
  <1> QED
    BY <1>1, <1>2, <1>3 DEF DiskInv

LEMMA SameDiskOK ==
    ASSUME DiskInv, UNCHANGED disk
    PROVE  DiskOK'
  BY DEF DiskInv, DiskOK, disk, DiskTypeOK, DatanodeTypeOK, Outgrown, Counted

LEMMA SameCopiesOK ==
    ASSUME DiskInv, UNCHANGED <<redis, down>>
    PROVE  CopiesTypeOK'
  BY DEF DiskInv, CopiesTypeOK, DatanodeTypeOK

LEMMA NextInv ==
    DiskInv /\ [DatanodeNext]_datanode => DiskInv'
  <1> SUFFICES ASSUME DiskInv, [DatanodeNext]_datanode
               PROVE  DiskInv'
    OBVIOUS
  <1>1. DiskInv' <=> DiskOK' /\ CopiesTypeOK'
    BY InvOfParts, PTL
  <1>2. DatanodeTypeOK
    BY DEF DiskInv
  <1>3. ASSUME NEW n \in Nodes, NEW key \in BlockIds, NEW value \in Contents,
               WriteDisk(n, key, value), UNCHANGED <<redis, down>>
        PROVE  DiskInv'
    BY <1>1, <1>3, WriteDiskOK, SameCopiesOK
  <1>4. ASSUME NEW n \in Nodes, NEW key \in BlockIds, NEW value \in Contents,
               WriteRedis(n, key, value), UNCHANGED <<disk, down>>
        PROVE  DiskInv'
    BY <1>1, <1>2, <1>4, WriteRedisType, SameDiskOK
  <1>5. ASSUME NEW reads, ReadDisk(reads), UNCHANGED <<redis, down>>
        PROVE  DiskInv'
    BY <1>1, <1>5, ReadDiskOK, SameCopiesOK
  <1>6. ASSUME NEW reads, ReadRedis(reads), UNCHANGED <<disk, redis>>
        PROVE  DiskInv'
    BY <1>1, <1>2, <1>6, ReadRedisType, SameDiskOK
  <1>7. CASE UNCHANGED datanode
    BY <1>1, <1>7, SameDiskOK, SameCopiesOK DEF datanode
  <1> QED
    BY <1>3, <1>4, <1>5, <1>6, <1>7, StartAnewInv DEF DatanodeNext

\* The variables have their types, an int in particular its range, whatever is
\* written, read and started anew.
THEOREM DatanodeTypes ==
    DatanodeSpec => []DatanodeTypeOK
  <1>1. DiskInv => DatanodeTypeOK
    BY DEF DiskInv
  <1> QED
    BY <1>1, InitInv, NextInv, PTL DEF DatanodeSpec

-----------------------------------------------------------------------------
\* The refinement: every step of a datanode is a step of BlockMap or leaves the
\* blocks that are kept as they are.

OutgrownNodes == {n \in Nodes : Outgrown(n)}

\* Steps that change nothing of what is kept.
LEMMA SameReads ==
    ASSUME UNCHANGED <<file, block_info>>, NEW n,
           ~Outgrown(n), ~Outgrown(n)', NEW id
    PROVE  find_value_by_key_from_disk(n, id)' = find_value_by_key_from_disk(n, id)
  <1>1. n \notin failed /\ n \notin failed'
    BY DEF Outgrown
  <1> QED
    BY <1>1 DEF find_value_by_key_from_disk, Readable, LocationOf

LEMMA SameBlocks ==
    ASSUME UNCHANGED <<file, block_info>>,
           \A n \in Nodes : Outgrown(n)' = Outgrown(n)
    PROVE  UNCHANGED <<KeptBlocks, KeptBytes, OutgrownNodes>>
  <1>1. ASSUME NEW n \in Nodes, ~Outgrown(n), NEW id
        PROVE  find_value_by_key_from_disk(n, id)' = find_value_by_key_from_disk(n, id)
    BY <1>1, SameReads
  <1>2. KeptBlocks' = KeptBlocks
    BY <1>1 DEF KeptBlocks
  <1>3. KeptBytes' = KeptBytes
    BY DEF KeptBytes
  <1>4. OutgrownNodes' = OutgrownNodes
    BY DEF OutgrownNodes
  <1> QED
    BY <1>2, <1>3, <1>4

\* What is read is a sequence of bytes, and empty for an unknown key.
LEMMA ReadType ==
    ASSUME DatanodeTypeOK, NEW n \in Nodes, NEW id
    PROVE  /\ find_value_by_key_from_disk(n, id) \in Contents
           /\ id \notin DOMAIN block_info[n] =>
                 Len(find_value_by_key_from_disk(n, id)) = 0
  <1> DEFINE loc == LocationOf(n, id)
             f == file[n]
  <1>1. /\ loc.offset \in Int
        /\ loc.size \in Nat
        /\ id \notin DOMAIN block_info[n] => loc.size = 0
    BY DEF LocationOf, DatanodeTypeOK, IsMap, Location
  <1>2. f \in Seq(Bytes) /\ Len(f) \in Nat
    BY LenProperties DEF DatanodeTypeOK
  <1>3. /\ Zeros(loc.size) \in Seq(Bytes)
        /\ Len(Zeros(loc.size)) = loc.size
    BY <1>1, DatanodeAssumption DEF Zeros
  <1>4. ASSUME Readable(n, loc)
        PROVE  /\ SubSeq(f, loc.offset + 1, loc.offset + loc.size) \in Seq(Bytes)
               /\ Len(SubSeq(f, loc.offset + 1, loc.offset + loc.size)) = loc.size
    <2>1. loc.offset \in Nat /\ loc.offset + loc.size <= Len(f)
      BY <1>1, <1>4 DEF Readable
    <2> HIDE DEF loc, f
    <2>2. ASSUME NEW i \in loc.offset + 1 .. loc.offset + loc.size
          PROVE  f[i] \in Bytes
      BY <1>1, <1>2, <2>1, ElementOfSeq
    <2> QED
      BY <1>1, <2>1, <2>2, SubSeqProperties
  <1> QED
    BY <1>1, <1>3, <1>4 DEF find_value_by_key_from_disk, Contents

\* An entry inside the file is read from there, after a step as before it.
LEMMA EntryIsRead ==
    ASSUME NEW n, n \notin failed, NEW id \in DOMAIN block_info[n],
           NEW loc, block_info[n][id] = loc,
           loc.offset \in Nat, loc.offset + loc.size <= Len(file[n])
    PROVE  find_value_by_key_from_disk(n, id) =
               SubSeq(file[n], loc.offset + 1, loc.offset + loc.size)
  <1>1. LocationOf(n, id) = loc
    BY DEF LocationOf
  <1>2. Readable(n, loc)
    BY DEF Readable
  <1> QED
    BY <1>1, <1>2 DEF find_value_by_key_from_disk

LEMMA EntryIsReadAfter ==
    ASSUME NEW n, n \notin failed', NEW id, id \in DOMAIN block_info'[n],
           NEW loc, block_info'[n][id] = loc,
           loc.offset \in Nat, loc.offset + loc.size <= Len(file'[n])
    PROVE  find_value_by_key_from_disk(n, id)' =
               SubSeq(file'[n], loc.offset + 1, loc.offset + loc.size)
  <1>1. LocationOf(n, id)' = loc
    BY DEF LocationOf
  <1>2. Readable(n, loc)'
    BY DEF Readable
  <1> QED
    BY <1>1, <1>2 DEF find_value_by_key_from_disk

\* After a write by which its node is not outgrown the block reads as what was
\* written, and the node's other blocks as before.
LEMMA WrittenBlocks ==
    ASSUME DiskInv,
           NEW n \in Nodes, NEW key \in BlockIds, NEW value \in Contents,
           WriteDisk(n, key, value), ~Outgrown(n)'
    PROVE  /\ DOMAIN block_info'[n] = DOMAIN block_info[n] \cup {key}
           /\ find_value_by_key_from_disk(n, key)' = value
           /\ \A id \in DOMAIN block_info[n] \ {key} :
                 find_value_by_key_from_disk(n, id)' =
                     find_value_by_key_from_disk(n, id)
  <1> DEFINE entry == [offset |-> Len(file[n]), size |-> Len(value)]
  <1>1. /\ ~Outgrown(n)
        /\ file'[n] = file[n] \o value
        /\ Len(file'[n]) = Len(file[n]) + Len(value)
        /\ block_info'[n] = With(block_info[n], key, entry)
    BY GoodWrite
  <1>2. /\ file[n] \in Seq(Bytes)
        /\ value \in Seq(Bytes)
        /\ Len(file[n]) \in Nat
        /\ Len(value) \in Nat
    BY AppendedType DEF DiskInv, Contents
  <1>3. DOMAIN block_info'[n] = DOMAIN block_info[n] \cup {key}
    BY <1>1 DEF With
  <1>4. find_value_by_key_from_disk(n, key)' = value
    <2>1. block_info'[n][key] = entry
      BY <1>1 DEF With
    <2>2. n \notin failed'
      BY DEF Outgrown
    <2>3. find_value_by_key_from_disk(n, key)' =
              SubSeq(file'[n], entry.offset + 1, entry.offset + entry.size)
      <3> HIDE DEF entry
      <3>1. entry.offset \in Nat /\ entry.offset + entry.size <= Len(file'[n])
        BY <1>1, <1>2 DEF entry
      <3> QED
        BY <1>3, <2>1, <2>2, <3>1, EntryIsReadAfter
    <2> QED
      BY <1>1, <1>2, <2>3, AppendedPart
  <1>5. ASSUME NEW id \in DOMAIN block_info[n], id # key
        PROVE  find_value_by_key_from_disk(n, id)' =
                   find_value_by_key_from_disk(n, id)
    <2>1. PICK loc : loc = block_info[n][id]
      OBVIOUS
    <2>2. /\ loc.offset \in Nat
          /\ loc.size \in Nat
          /\ loc.offset + loc.size <= Len(file[n])
      BY <1>1, <2>1 DEF DiskInv, Counted
    <2>3. find_value_by_key_from_disk(n, id) =
              SubSeq(file[n], loc.offset + 1, loc.offset + loc.size)
      BY <1>1, <2>1, <2>2, EntryIsRead DEF Outgrown
    <2>4. find_value_by_key_from_disk(n, id)' =
              SubSeq(file'[n], loc.offset + 1, loc.offset + loc.size)
      <3>1. /\ n \notin failed'
            /\ id \in DOMAIN block_info'[n]
            /\ block_info'[n][id] = loc
        BY <1>1, <1>3, <1>5, <2>1 DEF Outgrown, With
      <3>2. loc.offset + loc.size <= Len(file'[n])
        BY <1>1, <1>2, <2>2
      <3> QED
        BY <2>2, <3>1, <3>2, EntryIsReadAfter
    <2>5. SubSeq(file[n] \o value, loc.offset + 1, loc.offset + loc.size) =
              SubSeq(file[n], loc.offset + 1, loc.offset + loc.size)
      <3>1. ASSUME NEW o \in Nat, NEW size \in Nat, o + size <= Len(file[n])
            PROVE  SubSeq(file[n] \o value, o + 1, o + size) =
                       SubSeq(file[n], o + 1, o + size)
        BY ONLY <1>2, <3>1, PartOfFile
      <3> QED
        BY <2>2, <3>1
    <2> QED
      BY <1>1, <2>3, <2>4, <2>5
  <1> QED
    BY <1>3, <1>4, <1>5

\* On the other nodes all blocks read as before.
LEMMA BlocksElsewhere ==
    ASSUME DiskInv,
           NEW n \in Nodes, NEW key \in BlockIds, NEW value \in Contents,
           WriteDisk(n, key, value), NEW m \in Nodes, m # n
    PROVE  /\ block_info'[m] = block_info[m]
           /\ ~Outgrown(m) =>
                 \A id : find_value_by_key_from_disk(m, id)' =
                             find_value_by_key_from_disk(m, id)
           /\ KeptBlocks'[m] = KeptBlocks[m]
  <1>1. /\ file'[m] = file[m]
        /\ block_info'[m] = block_info[m]
        /\ Outgrown(m)' = Outgrown(m)
    BY OtherNodes
  <1>2. ASSUME ~Outgrown(m), NEW id
        PROVE  find_value_by_key_from_disk(m, id)' =
                   find_value_by_key_from_disk(m, id)
    <2>1. m \notin failed /\ m \notin failed'
      BY <1>1, <1>2 DEF Outgrown
    <2> QED
      BY <1>1, <2>1 DEF find_value_by_key_from_disk, Readable, LocationOf
  <1> QED
    BY <1>1, <1>2 DEF KeptBlocks

\* A write by which its node is not outgrown is a Write of the block map.
LEMMA WriteIsWrite ==
    ASSUME DiskInv, DiskInv',
           NEW n \in Nodes, NEW key \in BlockIds, NEW value \in Contents,
           WriteDisk(n, key, value), ~Outgrown(n)'
    PROVE  Disks!Write(n)
  <1>1. /\ ~Outgrown(n)
        /\ file'[n] = file[n] \o value
        /\ Len(file'[n]) = Len(file[n]) + Len(value)
    BY GoodWrite
  <1>2. /\ file[n] \in Seq(Bytes)
        /\ value \in Seq(Bytes)
    BY AppendedType DEF DiskInv, Contents
  <1>3. KeptBytes[n] = file[n] /\ KeptBytes'[n] = file'[n]
    BY <1>1 DEF KeptBytes
  <1>4. SubSeq(KeptBytes'[n], Len(KeptBytes[n]) + 1, Len(KeptBytes'[n])) = value
    <2>1. SubSeq(file[n] \o value, Len(file[n]) + 1, Len(file[n]) + Len(value))
              = value
      BY ONLY <1>2, AppendedPart
    <2> QED
      BY <1>1, <1>3, <2>1
  <1>5. OutgrownNodes' = OutgrownNodes /\ n \notin OutgrownNodes
    BY <1>1, OtherNodes DEF OutgrownNodes
  <1>6. KeptBytes' = [KeptBytes EXCEPT ![n] = @ \o value]
    <2>1. \A m \in Nodes : m # n => KeptBytes'[m] = KeptBytes[m]
      BY OtherNodes DEF KeptBytes
    <2> QED
      BY <1>1, <1>3, <2>1 DEF KeptBytes
  <1>7. KeptBlocks'[n] = [id \in DOMAIN KeptBlocks[n] \cup {key} |->
                             IF id = key THEN value ELSE KeptBlocks[n][id]]
    <2>1. /\ KeptBlocks[n] = [id \in DOMAIN block_info[n] |->
                                 find_value_by_key_from_disk(n, id)]
          /\ KeptBlocks'[n] = [id \in DOMAIN block_info'[n] |->
                                  find_value_by_key_from_disk(n, id)']
      BY <1>1 DEF KeptBlocks
    <2> QED
      BY <2>1, WrittenBlocks
  <1>8. KeptBlocks' = [KeptBlocks EXCEPT ![n] =
             [id \in DOMAIN @ \cup {key} |-> IF id = key THEN value ELSE @[id]]]
    BY <1>7, BlocksElsewhere DEF KeptBlocks
  <1>9. key \in DOMAIN KeptBlocks'[n]
    BY <1>7
  <1> QED
    BY <1>4, <1>5, <1>6, <1>8, <1>9 DEF Disks!Write, OutgrownNodes

\* One by which it is outgrown is an Outgrow, unless it was before.
LEMMA WriteIsStep ==
    ASSUME DiskInv, DiskInv',
           NEW n \in Nodes, NEW key \in BlockIds, NEW value \in Contents,
           WriteDisk(n, key, value)
    PROVE  Disks!Write(n) \/ Disks!Outgrow(n)
  <1>1. CASE ~Outgrown(n)'
    BY <1>1, WriteIsWrite
  <1>2. CASE Outgrown(n)'
    <2>1. OutgrownNodes' = OutgrownNodes \cup {n}
      BY <1>2, OtherNodes DEF OutgrownNodes
    <2>2. KeptBytes' = [KeptBytes EXCEPT ![n] = <<>>]
      BY <1>2, OtherNodes DEF KeptBytes
    <2>3. KeptBlocks' = [KeptBlocks EXCEPT ![n] = NoEntries]
      BY <1>2, BlocksElsewhere DEF KeptBlocks
    <2> QED
      BY <2>1, <2>2, <2>3
      DEF Disks!Outgrow, Disks!Forget, Disks!NoBlocks, NoEntries, OutgrownNodes
  <1> QED
    BY <1>1, <1>2

LEMMA StartAnewIsStartAnew ==
    ASSUME DiskInv, NEW n \in Nodes, StartAnew(n)
    PROVE  Disks!StartAnew(n)
  <1>1. file'[n] = <<>> /\ block_info'[n] = NoEntries /\ ~Outgrown(n)'
    <2>1. file'[n] = <<>> /\ block_info'[n] = NoEntries /\ n \notin failed'
      BY DEF StartAnew, DiskInv, DatanodeTypeOK
    <2>2. Len(file'[n]) = 0 /\ IntMax \in Nat
      BY <2>1, DatanodeAssumption
    <2> QED
      BY <2>1, <2>2 DEF Outgrown
  <1>2. ASSUME NEW m \in Nodes, m # n
        PROVE  /\ file'[m] = file[m]
               /\ block_info'[m] = block_info[m]
               /\ m \in failed' <=> m \in failed
    BY <1>2 DEF StartAnew, DiskInv, DatanodeTypeOK
  <1>3. OutgrownNodes' = OutgrownNodes \ {n}
    BY <1>1, <1>2 DEF OutgrownNodes, Outgrown
  <1>4. KeptBytes' = [KeptBytes EXCEPT ![n] = <<>>]
    BY <1>1, <1>2 DEF KeptBytes, Outgrown
  <1>5. KeptBlocks' = [KeptBlocks EXCEPT ![n] = NoEntries]
    <2>1. KeptBlocks'[n] = NoEntries
      BY <1>1 DEF KeptBlocks, NoEntries
    <2>2. ASSUME NEW m \in Nodes, m # n
          PROVE  KeptBlocks'[m] = KeptBlocks[m]
      BY <1>2, <2>2
      DEF KeptBlocks, Outgrown, find_value_by_key_from_disk, Readable, LocationOf
    <2> QED
      BY <2>1, <2>2 DEF KeptBlocks
  <1> QED
    BY <1>3, <1>4, <1>5
    DEF Disks!StartAnew, Disks!Forget, Disks!NoBlocks, NoEntries, OutgrownNodes

LEMMA InitIsInit ==
    DatanodeInit => Disks!Init
  <1>1. ASSUME DatanodeInit, NEW n \in Nodes
        PROVE  ~Outgrown(n)
    <2>1. file[n] = <<>> /\ n \notin failed
      BY <1>1 DEF DatanodeInit
    <2>2. Len(file[n]) = 0 /\ IntMax \in Nat
      BY <2>1, DatanodeAssumption
    <2> QED
      BY <2>1, <2>2 DEF Outgrown
  <1> QED
    BY <1>1
    DEF DatanodeInit, Disks!Init, Disks!NoBlocks, KeptBlocks, KeptBytes, NoEntries

\* Whatever requests come in whatever order, and however often nodes are
\* started anew, a block that is read is what was last written of it.
THEOREM BlocksAreKept ==
    DatanodeSpec => KeepsBlocks
  <1>1. DatanodeInit => Disks!Init
    BY InitIsInit
  <1>2. DiskInv /\ DiskInv' /\ [DatanodeNext]_datanode
            => [Disks!Next]_<<KeptBlocks, KeptBytes, OutgrownNodes>>
    <2> SUFFICES ASSUME DiskInv, DiskInv', [DatanodeNext]_datanode
                 PROVE  \/ Disks!Next
                        \/ UNCHANGED <<KeptBlocks, KeptBytes, OutgrownNodes>>
      OBVIOUS
    <2>1. ASSUME NEW n \in Nodes, NEW key \in BlockIds, NEW value \in Contents,
                 WriteDisk(n, key, value)
          PROVE  Disks!Next
      BY <2>1, WriteIsStep DEF Disks!Next
    <2>2. ASSUME NEW reads, ReadDisk(reads)
          PROVE  UNCHANGED <<KeptBlocks, KeptBytes, OutgrownNodes>>
      BY <2>2, GoodReads, SameBlocks DEF ReadDisk
    <2>3. ASSUME NEW n \in Nodes, StartAnew(n)
          PROVE  Disks!Next
      BY <2>3, StartAnewIsStartAnew DEF Disks!Next
    <2>4. CASE UNCHANGED disk
      BY <2>4, SameBlocks DEF disk, Outgrown
    <2> QED
      BY <2>1, <2>2, <2>3, <2>4 DEF DatanodeNext, datanode
  <1>3. DatanodeSpec => []DiskInv
    BY InitInv, NextInv, PTL DEF DatanodeSpec
  <1> QED
    BY <1>1, <1>2, <1>3, PTL
    DEF DatanodeSpec, KeepsBlocks, Disks!Spec, OutgrownNodes
=============================================================================
