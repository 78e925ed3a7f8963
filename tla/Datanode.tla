------------------------------- MODULE Datanode -------------------------------
(***************************************************************************)
(* The datanode processes, those used as cache nodes included.  Each has   *)
(* one thread that serves one connection after the other: blocks on disk   *)
(* are appended to one file and found through an index in memory, copies   *)
(* are in the node's Redis.                                                *)
(***************************************************************************)
EXTENDS Integers, Sequences

CONSTANTS
    Nodes, BlockIds,
    Bytes,     \* what a byte of a block may be
    Zero,      \* the byte a resized string is filled with
    IntMax,    \* largest int: 2^31 - 1
    DiskSize   \* bytes that fit on a node's disk

Contents == Seq(Bytes)

ASSUME DatanodeAssumption ==
    /\ Zero \in Bytes
    /\ IntMax \in Nat
    /\ DiskSize \in Nat

VARIABLES
    file,        \* per node, the bytes of its file
    block_info,  \* block_info_: per node, where a block is in the file
    cur_offset,  \* cur_offset_: where the next block is expected to begin
    failed,      \* the nodes whose file_ has failbit or badbit set
    redis,       \* per node, the copies in its Redis
    down         \* the nodes that a my_assert has ended

disk     == <<file, block_info, cur_offset, failed>>
datanode == <<disk, redis, down>>

Location == [offset : Int, size : Nat]

IsMap(f, S, T) == DOMAIN f \subseteq S /\ \A x \in DOMAIN f : f[x] \in T

\* The map f with x mapped to y.
With(f, x, y) == [i \in DOMAIN f \cup {x} |-> IF i = x THEN y ELSE f[i]]

NoEntries == [id \in {} |-> {}]

DatanodeTypeOK ==
    /\ file \in [Nodes -> Seq(Bytes)]
    /\ DOMAIN block_info = Nodes
    /\ \A n \in Nodes : IsMap(block_info[n], BlockIds, Location)
    /\ cur_offset \in [Nodes -> (-IntMax - 1) .. IntMax]
    /\ failed \subseteq Nodes
    /\ DOMAIN redis = Nodes
    /\ \A n \in Nodes : IsMap(redis[n], BlockIds, Contents)
    /\ down \subseteq Nodes

DatanodeInit ==
    /\ file = [n \in Nodes |-> <<>>]
    /\ block_info = [n \in Nodes |-> NoEntries]
    /\ cur_offset = [n \in Nodes |-> 0]
    /\ failed = {}
    /\ redis = [n \in Nodes |-> NoEntries]
    /\ down = {}

-----------------------------------------------------------------------------
\* Mutant: offsets are not cut to the width of an int.
ToIntWide(x) == x

\* The value of a size_t as an int.
ToInt(x) == ((x + IntMax + 1) % (2 * (IntMax + 1))) - (IntMax + 1)

\* write_key_value_to_disk.  A stream that has failed writes nothing, and one
\* whose disk is full fails; neither throws, so the block is indexed and
\* acknowledged all the same.
DiskFull(n, value) == Len(file[n]) + Len(value) > DiskSize

Appended(n, value) ==
    CASE n \in failed       -> file[n]
      [] DiskFull(n, value) -> SubSeq(file[n] \o value, 1, DiskSize)
      [] OTHER              -> file[n] \o value

\* Mutant: the offset is not advanced.
WriteDiskInPlace(n, key, value) ==
    /\ n \notin down
    /\ file' = [file EXCEPT ![n] = Appended(n, value)]
    /\ block_info' = [block_info EXCEPT ![n] =
          With(@, key, [offset |-> cur_offset[n], size |-> Len(value)])]
    /\ cur_offset' = cur_offset
    /\ failed' = IF DiskFull(n, value) THEN failed \cup {n} ELSE failed

WriteDisk(n, key, value) ==
    /\ n \notin down
    /\ file' = [file EXCEPT ![n] = Appended(n, value)]
    /\ block_info' = [block_info EXCEPT ![n] =
          With(@, key, [offset |-> cur_offset[n], size |-> Len(value)])]
    /\ cur_offset' =
          [cur_offset EXCEPT ![n] = ToInt(cur_offset[n] + Len(value))]
    /\ failed' = IF DiskFull(n, value) THEN failed \cup {n} ELSE failed

\* block_info_[key] of an unknown key makes an entry of zeros, which no later
\* lookup can tell from none.
LocationOf(n, key) ==
    IF key \in DOMAIN block_info[n] THEN block_info[n][key]
    ELSE [offset |-> 0, size |-> 0]

Readable(n, loc) ==
    /\ n \notin failed
    /\ loc.offset >= 0
    /\ loc.offset + loc.size <= Len(file[n])

Zeros(size) == [i \in 1 .. size |-> Zero]

\* find_value_by_key_from_disk.  A seek before the file leaves the stream
\* failed and the value as resize has made it; nothing is sought past the end.
find_value_by_key_from_disk(n, key) ==
    LET loc == LocationOf(n, key)
    IN  IF Readable(n, loc)
        THEN SubSeq(file[n], loc.offset + 1, loc.offset + loc.size)
        ELSE Zeros(loc.size)

\* The nodes whose streams fail when each reads its keys of a set of pairs.
FailReading(reads) ==
    {n \in Nodes : \E key \in BlockIds :
        <<n, key>> \in reads /\ ~Readable(n, LocationOf(n, key))}

ReadDisk(reads) ==
    /\ failed' = failed \cup FailReading(reads)
    /\ UNCHANGED <<file, block_info, cur_offset>>

\* Redis, and the assertion that a copy which is asked for is there.
WriteRedis(n, key, value) ==
    /\ n \notin down
    /\ redis' = [redis EXCEPT ![n] = With(@, key, value)]

ReadRedis(reads) ==
    down' = down \cup
        {n \in Nodes : \E key \in BlockIds \ DOMAIN redis[n] :
                           <<n, key>> \in reads}

\* Mutant: the process is started again on the file it had.
StartOnOldFile(n) ==
    /\ block_info' = [block_info EXCEPT ![n] = NoEntries]
    /\ cur_offset' = [cur_offset EXCEPT ![n] = 0]
    /\ failed' = failed \ {n}
    /\ down' = down \ {n}
    /\ UNCHANGED <<file, redis>>

\* The constructor, after the files have been deleted as idea.txt wants it
\* done before the program is run again.  Redis keeps what it has.
StartAnew(n) ==
    /\ file' = [file EXCEPT ![n] = <<>>]
    /\ block_info' = [block_info EXCEPT ![n] = NoEntries]
    /\ cur_offset' = [cur_offset EXCEPT ![n] = 0]
    /\ failed' = failed \ {n}
    /\ down' = down \ {n}
    /\ redis' = redis

\* keep_working, for any request.
DatanodeNext ==
    \E n \in Nodes :
        \/ \E key \in BlockIds, value \in Contents :
              WriteDisk(n, key, value) /\ UNCHANGED <<redis, down>>
        \/ \E key \in BlockIds, value \in Contents :
              WriteRedis(n, key, value) /\ UNCHANGED <<disk, down>>
        \/ \E key \in BlockIds :
              ReadDisk({<<n, key>>}) /\ UNCHANGED <<redis, down>>
        \/ \E key \in BlockIds :
              ReadRedis({<<n, key>>}) /\ UNCHANGED <<disk, redis>>
        \/ StartAnew(n)

DatanodeSpec == DatanodeInit /\ [][DatanodeNext]_datanode

-----------------------------------------------------------------------------
\* A node whose offsets no longer fit an int or whose stream has failed.
Outgrown(n) == n \in failed \/ Len(file[n]) > IntMax

KeptBlocks == [n \in Nodes |->
    IF Outgrown(n) THEN NoEntries
    ELSE [id \in DOMAIN block_info[n] |-> find_value_by_key_from_disk(n, id)]]

KeptBytes == [n \in Nodes |-> IF Outgrown(n) THEN <<>> ELSE file[n]]

\* A block that is read is the bytes that were last written under its id,
\* whatever was written before and after it, until the node is started anew or
\* outgrown.
Disks == INSTANCE BlockMap WITH
    blocks <- KeptBlocks,
    given <- KeptBytes,
    outgrown <- {n \in Nodes : Outgrown(n)}

KeepsBlocks == Disks!Spec
=============================================================================
