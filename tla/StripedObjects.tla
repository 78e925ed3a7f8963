---------------------------- MODULE StripedObjects ----------------------------
(***************************************************************************)
(* Objects of several stripes, from the layout at the coordinator to the   *)
(* bytes on the datanodes and back: sets whose writers run side by side,   *)
(* gets under a schema that may have changed, repairs, and datanodes that  *)
(* are started anew.  Who places a stripe where, races for ids and         *)
(* connections, and the order of a read's answers are left to Placement,   *)
(* ObjectStore, Repair and ConcurrentRead.                                 *)
(***************************************************************************)
EXTENDS Datanode, StripeLayout, FiniteSets, SequencesExt

CONSTANTS
    Keys, Lengths,     \* the objects and how long their values may be
    Schemas,           \* what set_erasure_coding_parameters may be called with
    FirstSchema,
    StripeNodes,       \* the nodes and cache_nodes that
    StripeCacheNodes,  \* generate_placement_plan gives a stripe
    MaxStripes,        \* bounds: stripes placed,
    MaxStoring,        \* sets in progress at a time,
    MaxRestarts,       \* datanodes started anew,
    Unsteady,          \* of these nodes,
    MaxRepairs,        \* and blocks repaired
    None, Nothing, Garbage

Code(K, RealL, G) == INSTANCE LrcStripe

NumBlocks(schema) == Code(schema.k, schema.real_l, schema.g)!NumBlocks

Blocks(schema) == Code(schema.k, schema.real_l, schema.g)!Blocks

IsCached(schema, j) == Code(schema.k, schema.real_l, schema.g)!IsCached(j)

CacheSlot(schema, j) == Code(schema.k, schema.real_l, schema.g)!CacheSlot(j)

SameCode(s, t) == s.k = t.k /\ s.real_l = t.real_l /\ s.g = t.g

StripeIds == 0 .. MaxStripes - 1

BlockIndexes == UNION {Blocks(schema) : schema \in Schemas}

CacheSlots == UNION {0 .. schema.real_l : schema \in Schemas}

\* Stripe ids are given once, so one node for each block of each id is any
\* choice that generate_placement_plan can make.  Bytes and BlockIds have room
\* for what is written and for the ids that are asked for.
ASSUME StripedAssumption ==
    /\ Schemas \subseteq [k : Nat \ {0}, real_l : Nat \ {0}, g : Nat \ {0},
                          stripe_size_upper : Nat \ {0}]
    /\ FirstSchema \in Schemas
    /\ Lengths \subseteq Nat \ {0}
    /\ MaxStripes \in Nat /\ MaxRestarts \in Nat /\ MaxRepairs \in Nat
    /\ StripeNodes \in [StripeIds -> [BlockIndexes -> Nodes]]
    /\ StripeCacheNodes \in [StripeIds -> [CacheSlots -> Nodes]]
    /\ None \notin Nodes
    /\ Unsteady \subseteq Nodes
    /\ \A s \in StripeIds, j \in BlockIndexes :
          {written_id(s, j), read_id(s, j)} \subseteq BlockIds
    /\ Garbage \in Bytes
    /\ \A key \in Keys, value_len \in Lengths :
          /\ \A p \in 1 .. value_len : <<key, p>> \in Bytes
          /\ \A schema \in Schemas, i \in StripeIds, j \in BlockIndexes :
                \A q \in 1 .. block_size(schema, value_len) :
                    <<key, i, j, q>> \in Bytes

VARIABLES
    ec_schema,       \* ec_schema_
    next_stripe_id,  \* next_stripe_id_
    stripe_info,     \* stripe_info_: the code and block size of each stripe
    object,          \* per key, its meta_info_of_object and where its set is
    repairing,       \* the block that a proxy has rebuilt but not yet written
    got,             \* what a get has just returned
    spoilt,          \* some datanode has been outgrown (history)
    restarts, repairs

vars == <<datanode, ec_schema, next_stripe_id, stripe_info, object, repairing,
          got, spoilt, restarts, repairs>>

Object == [pc : {"storing", "commited"}, value_len : Lengths,
           stripes : Seq(StripeIds), schema : Schemas,
           stripe : Nat, todo : SUBSET BlockIndexes]

StripeInfo == [schema : Schemas, block_size : Nat]

Repairing == [stripe : StripeIds, block : BlockIndexes, contents : Contents]

Got == [key : Keys, value : Contents \cup {Nothing}, code : BOOLEAN,
        whole : BOOLEAN]

TypeOK ==
    /\ DatanodeTypeOK
    /\ ec_schema \in Schemas
    /\ next_stripe_id \in 0 .. MaxStripes
    /\ stripe_info \in [0 .. next_stripe_id - 1 -> StripeInfo]
    /\ object \in [Keys -> Object \cup {None}]
    /\ repairing \in Repairing \cup {None}
    /\ got \in Got \cup {None}
    /\ spoilt \in BOOLEAN
    /\ restarts \in 0 .. MaxRestarts
    /\ repairs \in 0 .. MaxRepairs

Init ==
    /\ DatanodeInit
    /\ ec_schema = FirstSchema
    /\ next_stripe_id = 0
    /\ stripe_info = NoEntries
    /\ object = [key \in Keys |-> None]
    /\ repairing = None
    /\ got = None
    /\ spoilt = FALSE
    /\ restarts = 0
    /\ repairs = 0

NodeOf(s, j) == StripeNodes[s][j]

CacheNodeOf(s, slot) == StripeCacheNodes[s][slot]

-----------------------------------------------------------------------------
\* The value of an object, and what encode makes of it.

Value(key, value_len) == [p \in 1 .. value_len |-> <<key, p>>]

\* value_buf is filled with zeros before the value is read into it.
ByteOf(key, value_len, p) == IF p <= value_len THEN <<key, p>> ELSE Zero

\* Block j of stripe i, for i from 0; the bytes of a parity are only told
\* apart by where they are.
EncodedBlock(key, o, i, j) ==
    LET start == stripe_start(o.schema, o.value_len, i)
        size  == stored_block_size(o.schema, o.value_len, i)
    IN  [q \in 1 .. size |->
            IF j < o.schema.k
            THEN ByteOf(key, o.value_len, start + j * size + q)
            ELSE <<key, i, j, q>>]

-----------------------------------------------------------------------------
\* set_erasure_coding_parameters, which any client may call at any time.
SetParameters(schema) ==
    /\ schema # ec_schema
    /\ ec_schema' = schema
    /\ got' = None
    /\ UNCHANGED <<datanode, next_stripe_id, stripe_info, object, repairing,
                   spoilt, restarts, repairs>>

\* get_proxy_location with the stripes it makes.
Storing(key) == object[key] # None /\ object[key].pc = "storing"

GetProxyLocation(key, value_len) ==
    LET n == stripes_to_store(ec_schema, value_len)
    IN  /\ object[key] = None
        /\ Cardinality({k \in Keys : Storing(k)}) < MaxStoring
        /\ next_stripe_id + n <= MaxStripes
        /\ next_stripe_id' = next_stripe_id + n
        /\ stripe_info' = [s \in 0 .. next_stripe_id + n - 1 |->
              IF s < next_stripe_id THEN stripe_info[s]
              ELSE [schema |-> ec_schema,
                    block_size |-> stripe_item_block_size(ec_schema, value_len,
                                                          s - next_stripe_id)]]
        /\ object' = [object EXCEPT ![key] =
              [pc |-> "storing", value_len |-> value_len,
               stripes |-> [i \in 1 .. n |-> next_stripe_id + i - 1],
               schema |-> ec_schema, stripe |-> 0,
               todo |-> Blocks(ec_schema)]]
        /\ got' = None
        /\ UNCHANGED <<datanode, ec_schema, repairing, spoilt, restarts,
                       repairs>>

-----------------------------------------------------------------------------
\* A writer of start_encode_and_store_object: its block goes to the datanode,
\* and if it has a copy then to the cache node.
NoteOutgrown == spoilt' = (spoilt \/ \E n \in Nodes : Outgrown(n)')

WriteBlock(key, j) ==
    LET o        == object[key]
        s        == o.stripes[o.stripe + 1]
        id       == written_id(s, j)
        contents == EncodedBlock(key, o, o.stripe, j)
    IN  /\ Storing(key)
        /\ j \in o.todo
        /\ WriteDisk(NodeOf(s, j), id, contents)
        /\ IF IsCached(o.schema, j)
           THEN WriteRedis(CacheNodeOf(s, CacheSlot(o.schema, j)), id, contents)
           ELSE redis' = redis
        /\ object' = [object EXCEPT ![key].todo = @ \ {j}]
        /\ NoteOutgrown
        /\ got' = None
        /\ UNCHANGED <<down, ec_schema, next_stripe_id, stripe_info, repairing,
                       restarts, repairs>>

\* The writers of a stripe are joined; after the last stripe the client is
\* answered and commits.
JoinWriters(key) ==
    LET o == object[key]
    IN  /\ Storing(key)
        /\ o.todo = {}
        /\ object' = [object EXCEPT ![key] =
              IF o.stripe = Len(o.stripes) - 1
              THEN [o EXCEPT !.pc = "commited"]
              ELSE [o EXCEPT !.stripe = @ + 1,
                             !.todo = Blocks(o.schema)]]
        /\ got' = None
        /\ UNCHANGED <<datanode, ec_schema, next_stripe_id, stripe_info,
                       repairing, spoilt, restarts, repairs>>

-----------------------------------------------------------------------------
\* A get with the schema of now: ask_for_data and the read at the proxy.

\* One reader of the placement: which node it asks for which id, on disk or in
\* Redis.  Placement lists the nodes of all stripes one after the other; a
\* position past the end of the list is read as one that has no node.
Stores(o, position) ==
    LET m == NumBlocks(o.schema)
    IN  IF position < Len(o.stripes) * m
        THEN NodeOf(o.stripes[(position \div m) + 1], position % m)
        ELSE None

Caches(o, position) ==
    LET m == o.schema.real_l + 1
    IN  IF position < Len(o.stripes) * m
        THEN CacheNodeOf(o.stripes[(position \div m) + 1], position % m)
        ELSE None

ReadFrom(o, i, j) ==
    IF IsCached(ec_schema, j)
    THEN Caches(o, i * (1 + ec_schema.real_l) + CacheSlot(ec_schema, j))
    ELSE Stores(o, i * NumBlocks(ec_schema) + j)

\* What a reader is answered; nothing by a node that has ended, or ends since it
\* has no such copy.
CopyIn(n, id) == IF id \in DOMAIN redis[n] THEN redis[n][id] ELSE <<>>

Answer(n, id, copy) ==
    IF n = None \/ n \in down THEN <<>>
    ELSE IF copy THEN CopyIn(n, id)
    ELSE find_value_by_key_from_disk(n, id)

BlockRead(o, i, j) ==
    Answer(ReadFrom(o, i, j), read_id(o.stripes[i + 1], j),
           IsCached(ec_schema, j))

SizeRead(o, i) ==
    cur_block_size(block_size(ec_schema, o.value_len),
                   tail_to_read(ec_schema, o.value_len), Len(o.stripes), i)

\* The blocks of stripe i that come with all the bytes asked for.
Arriving(o, i) ==
    {j \in Blocks(ec_schema) : Len(BlockRead(o, i, j)) >= SizeRead(o, i)}

\* Those that may have been received when the decoding begins.
Suffices(received) ==
    Code(ec_schema.k, ec_schema.real_l, ec_schema.g)!check_received_block(received)

Received(arriving) ==
    {r \in SUBSET arriving : Suffices(r) /\ \E j \in r : ~Suffices(r \ {j})}

\* What may come out for stripe i: the data blocks as they were received, or
\* as decode makes them.  It works by columns, so they are right if all that
\* was received is a prefix of what was encoded.
Decoded(key, o, i) ==
    LET size  == SizeRead(o, i)
        block == [j \in Arriving(o, i) |-> SubSeq(BlockRead(o, i, j), 1, size)]
        right == {j \in DOMAIN block : IsPrefix(block[j], EncodedBlock(key, o, i, j))}
        data  == 0 .. ec_schema.k - 1
        From(received) ==
            [b \in data |->
                CASE data \subseteq received -> block[b]
                  [] ~(data \subseteq received) /\ SameCode(ec_schema, o.schema)
                     /\ received \subseteq right
                       -> SubSeq(EncodedBlock(key, o, i, b), 1, size)
                  [] OTHER -> [q \in 1 .. size |-> Garbage]]
    IN  {From(received) : received \in Received(DOMAIN block)}

DecodedStripes(key, o) ==
    LET stripes == 0 .. Len(o.stripes) - 1
    IN  {f \in [stripes -> UNION {Decoded(key, o, i) : i \in stripes}] :
            \A i \in stripes : f[i] \in Decoded(key, o, i)}

\* object_value is the stripes one after the other, all but the last of blocks
\* of block_size: how long it is, and which byte is its p-th.
BytesSent(o) ==
    LET last == Len(o.stripes) - 1
    IN  last * stripe_size(ec_schema, o.value_len) + ec_schema.k * SizeRead(o, last)

ByteSent(o, decoded, p) ==
    LET i    == (p - 1) \div stripe_size(ec_schema, o.value_len)
        rest == (p - 1) % stripe_size(ec_schema, o.value_len)
        size == SizeRead(o, i)
    IN  decoded[i][rest \div size][(rest % size) + 1]

\* A client that is sent less than value_len bytes, or nothing since a reader
\* of a missing block has ended the proxy, dies of an exception.
Delivered(key, o) ==
    {IF BytesSent(o) < o.value_len THEN Nothing
     ELSE [p \in 1 .. o.value_len |-> ByteSent(o, decoded, p)]
        : decoded \in DecodedStripes(key, o)}
    \cup (IF \A i \in 0 .. Len(o.stripes) - 1 : Arriving(o, i) = Blocks(ec_schema)
          THEN {} ELSE {Nothing})

Reads(o, copy) ==
    {<<ReadFrom(o, i, j), read_id(o.stripes[i + 1], j)>> :
        i \in 0 .. Len(o.stripes) - 1,
        j \in {b \in Blocks(ec_schema) : IsCached(ec_schema, b) = copy}}

Kept(s, j) == written_id(s, j) \in DOMAIN block_info[NodeOf(s, j)]

\* The node that a get asks for block j of stripe s is there, with the block if
\* it is to come from the disk.
Available(schema, s, j) ==
    IF IsCached(schema, j)
    THEN CacheNodeOf(s, CacheSlot(schema, j)) \notin down
    ELSE NodeOf(s, j) \notin down /\ Kept(s, j)

Get(key) ==
    LET o == object[key]
    IN  /\ o # None /\ o.pc = "commited"
        /\ \E value \in Delivered(key, o) :
              got' = [key |-> key, value |-> value,
                      code |-> SameCode(ec_schema, o.schema),
                      whole |-> /\ ec_schema = o.schema
                                /\ \A s \in ToSet(o.stripes) :
                                      \A j \in Blocks(o.schema) :
                                          Available(o.schema, s, j)]
        /\ ReadDisk(Reads(o, FALSE))
        /\ ReadRedis(Reads(o, TRUE))
        /\ NoteOutgrown
        /\ UNCHANGED <<redis, ec_schema, next_stripe_id, stripe_info, object,
                       repairing, restarts, repairs>>

-----------------------------------------------------------------------------
\* A repair of block j of a stripe, by the code and the block size the stripe
\* was placed with.

\* What is read: the copy; the rest of the group, its parity from the copy; or
\* k blocks without a copy.
GroupOfBlock(schema, j) ==
    LET group == Code(schema.k, schema.real_l, schema.g)!GroupOf(j)
    IN  Code(schema.k, schema.real_l, schema.g)!GroupBlocks(group)

Helpers(schema, j) ==
    CASE IsCached(schema, j) -> {{j}}
      [] j < schema.k        -> {GroupOfBlock(schema, j) \ {j}}
      [] OTHER -> {h \in SUBSET ((0 .. schema.k + schema.g - 2) \ {j}) :
                      Cardinality(h) = schema.k}

HelperNode(schema, s, h) ==
    IF IsCached(schema, h) THEN CacheNodeOf(s, CacheSlot(schema, h))
    ELSE NodeOf(s, h)

\* A helper that is answered less than a block ends its proxy, and no step of
\* the repair follows.
RebuildBlock(key, i, j) ==
    LET o      == object[key]
        s      == o.stripes[i + 1]
        stripe == stripe_info[s]
        BlockFrom(h) == Answer(HelperNode(stripe.schema, s, h),
                               written_id(s, h), IsCached(stripe.schema, h))
    IN  /\ o # None /\ o.pc = "commited"
        /\ repairing = None
        /\ repairs < MaxRepairs
        /\ i < Len(o.stripes)
        /\ j \in Blocks(stripe.schema)
        /\ \E helpers \in Helpers(stripe.schema, j) :
              /\ \A h \in helpers : Len(BlockFrom(h)) >= stripe.block_size
              /\ repairing' =
                    [stripe |-> s, block |-> j, contents |->
                     IF \A h \in helpers :
                           IsPrefix(SubSeq(BlockFrom(h), 1, stripe.block_size),
                                    EncodedBlock(key, o, i, h))
                     THEN SubSeq(EncodedBlock(key, o, i, j), 1, stripe.block_size)
                     ELSE [q \in 1 .. stripe.block_size |-> Garbage]]
              /\ ReadDisk({<<NodeOf(s, h), written_id(s, h)>> :
                              h \in {b \in helpers : ~IsCached(stripe.schema, b)}})
        /\ repairs' = repairs + 1
        /\ NoteOutgrown
        /\ got' = None
        /\ UNCHANGED <<redis, down, ec_schema, next_stripe_id, stripe_info,
                       object, restarts>>

\* The block goes back to the node it was on.
WriteBack ==
    /\ repairing # None
    /\ WriteDisk(NodeOf(repairing.stripe, repairing.block),
                 written_id(repairing.stripe, repairing.block),
                 repairing.contents)
    /\ repairing' = None
    /\ NoteOutgrown
    /\ got' = None
    /\ UNCHANGED <<redis, down, ec_schema, next_stripe_id, stripe_info, object,
                   restarts, repairs>>

RestartNode(n) ==
    /\ restarts < MaxRestarts
    /\ StartAnew(n)
    /\ restarts' = restarts + 1
    /\ got' = None
    /\ UNCHANGED <<ec_schema, next_stripe_id, stripe_info, object, repairing,
                   spoilt, repairs>>

Next ==
    \/ \E schema \in Schemas : SetParameters(schema)
    \/ \E key \in Keys :
          \/ \E value_len \in Lengths : GetProxyLocation(key, value_len)
          \/ \E j \in BlockIndexes : WriteBlock(key, j)
          \/ JoinWriters(key)
          \/ Get(key)
          \/ \E i \in StripeIds, j \in BlockIndexes : RebuildBlock(key, i, j)
    \/ WriteBack
    \/ \E n \in Unsteady : RestartNode(n)

Spec == Init /\ [][Next]_vars

-----------------------------------------------------------------------------
\* The ids of an object's blocks are the same as unsigned and as int.
IdsFit(o) ==
    \A s \in ToSet(o.stripes), j \in Blocks(o.schema) :
        2 * (s * IdSpan + j) < UIntSize

\* Every block that a datanode has an entry for reads back as what encode made
\* of the object, also after repairs, restarts and changes of the parameters,
\* as long as no node has been outgrown.
BlocksReadBack ==
    ~spoilt =>
        \A key \in Keys : object[key] # None =>
            LET o == object[key]
            IN  \A i \in 0 .. Len(o.stripes) - 1, j \in Blocks(o.schema) :
                    Kept(o.stripes[i + 1], j) =>
                        find_value_by_key_from_disk(NodeOf(o.stripes[i + 1], j),
                            written_id(o.stripes[i + 1], j)) =
                                EncodedBlock(key, o, i, j)

\* With parameters of the code the object was stored with, a client gets its
\* value or nothing, whatever the stripe_size_upper; and with the same, and all
\* the nodes it asks there and with the blocks, it gets its value.
GetReturnsStored ==
    got # None /\ ~spoilt =>
        LET o == object[got.key]
        IN  IdsFit(o) /\ got.code =>
                \/ got.value = Value(got.key, o.value_len)
                \/ got.value = Nothing /\ ~got.whole

\* run_client.cpp: my_assert(stored_value == kv.second) for a get that returns.
GetReturnsSet ==
    got # None => got.value \in {Value(got.key, object[got.key].value_len), Nothing}
=============================================================================
