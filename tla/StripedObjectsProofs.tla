------------------------- MODULE StripedObjectsProofs -------------------------
(***************************************************************************)
(* What is stored of an object comes back, for every code, size, placement *)
(* and number of stripes, from an invariant that ties the datanodes' disks *)
(* and Redis to the objects: as long as no id is given twice, the blocks   *)
(* that are kept are those that were encoded, after repairs, restarts and  *)
(* changes of the parameters too, and a get returns the value or nothing.  *)
(***************************************************************************)
EXTENDS StripedObjects, DatanodeProofs, StripeLayoutProofs

\* What a schema is to the layout and to the code.
LEMMA SchemaFacts ==
    ASSUME NEW schema \in Schemas
    PROVE  /\ LayoutSchema(schema)
           /\ schema.k \in Nat \ {0}
           /\ schema.real_l \in Nat \ {0}
           /\ schema.g \in Nat \ {0}
           /\ schema.stripe_size_upper \in Nat \ {0}
           /\ NumBlocks(schema) = schema.k + schema.g + schema.real_l
           /\ NumBlocks(schema) \in Nat \ {0}
           /\ Blocks(schema) = 0 .. NumBlocks(schema) - 1
           /\ Blocks(schema) \subseteq BlockIndexes
           /\ 0 .. schema.k - 1 \subseteq Blocks(schema)
  <1>1. schema \in [k : Nat \ {0}, real_l : Nat \ {0}, g : Nat \ {0},
                    stripe_size_upper : Nat \ {0}]
    BY StripedAssumption
  <1>2. /\ NumBlocks(schema) = schema.k + schema.g + schema.real_l
        /\ Blocks(schema) = 0 .. NumBlocks(schema) - 1
    BY DEF NumBlocks, Blocks, Code!NumBlocks, Code!Blocks
  <1>3. Blocks(schema) \subseteq BlockIndexes
    BY DEF BlockIndexes
  <1> QED
    BY <1>1, <1>2, <1>3 DEF LayoutSchema

LEMMA BlockNumbers ==
    ASSUME NEW schema \in Schemas
    PROVE  /\ schema.k \in Nat /\ schema.g \in Nat /\ schema.real_l \in Nat
           /\ schema.real_l >= 1
           /\ Blocks(schema) = 0 .. schema.k + schema.g + schema.real_l - 1
  <1>1. Blocks(schema) = 0 .. NumBlocks(schema) - 1
    BY SchemaFacts
  <1>2. NumBlocks(schema) = schema.k + schema.g + schema.real_l
    BY SchemaFacts
  <1>3. /\ schema.k \in Nat \ {0}
        /\ schema.g \in Nat \ {0}
        /\ schema.real_l \in Nat \ {0}
    BY SchemaFacts
  <1> QED
    BY <1>1, <1>2, <1>3

\* A copy has one of real_l + 1 slots, and the data blocks have none.
LEMMA CachedFacts ==
    ASSUME NEW schema \in Schemas, NEW j \in Blocks(schema)
    PROVE  /\ IsCached(schema, j) <=> j >= schema.k + schema.g - 1
           /\ CacheSlot(schema, j) = j - (schema.k + schema.g - 1)
           /\ IsCached(schema, j) =>
                 /\ CacheSlot(schema, j) \in 0 .. schema.real_l
                 /\ CacheSlot(schema, j) \in CacheSlots
  <1>1. /\ IsCached(schema, j) <=> j >= schema.k + schema.g - 1
        /\ CacheSlot(schema, j) = j - (schema.k + schema.g - 1)
    BY DEF IsCached, CacheSlot, Code!IsCached, Code!CacheSlot
  <1>2. IsCached(schema, j) => CacheSlot(schema, j) \in 0 .. schema.real_l
    BY <1>1, BlockNumbers
  <1>3. 0 .. schema.real_l \subseteq CacheSlots
    BY DEF CacheSlots
  <1> QED
    BY <1>1, <1>2, <1>3

\* Codes of the same numbers have the same blocks and copies.
LEMMA SameCodeFacts ==
    ASSUME NEW s \in Schemas, NEW t \in Schemas, SameCode(s, t)
    PROVE  /\ NumBlocks(s) = NumBlocks(t)
           /\ Blocks(s) = Blocks(t)
           /\ s.k = t.k /\ s.real_l = t.real_l
           /\ \A j \in Blocks(s) : /\ IsCached(s, j) = IsCached(t, j)
                                   /\ CacheSlot(s, j) = CacheSlot(t, j)
  <1>1. NumBlocks(s) = NumBlocks(t) /\ Blocks(s) = Blocks(t)
    BY SchemaFacts DEF SameCode
  <1> QED
    BY <1>1 DEF SameCode, IsCached, CacheSlot, Code!IsCached, Code!CacheSlot

\* Where blocks and copies are put, and under which ids.
LEMMA PlacesOfBlocks ==
    ASSUME NEW s \in StripeIds, NEW j \in BlockIndexes
    PROVE  /\ NodeOf(s, j) \in Nodes
           /\ written_id(s, j) \in BlockIds
  BY StripedAssumption DEF NodeOf

LEMMA PlacesOfCopies ==
    ASSUME NEW s \in StripeIds, NEW slot \in CacheSlots
    PROVE  CacheNodeOf(s, slot) \in Nodes
  BY StripedAssumption DEF CacheNodeOf

-----------------------------------------------------------------------------
\* An object, its blocks and their sizes.

\* The stripes of the object under a key by their number in it, and their ids.
Parts(key) == IF object[key] = None THEN {} ELSE 0 .. Len(object[key].stripes) - 1

StripeOf(key, i) == object[key].stripes[i + 1]

\* What is kept of an object is what get_proxy_location has made of the
\* parameters of then, and so is what is kept of its stripes.
ObjectOK(key) ==
    LET o == object[key]
    IN  /\ Len(o.stripes) = stripes_to_store(o.schema, o.value_len)
        /\ Len(o.stripes) <= next_stripe_id
        /\ o.stripe < Len(o.stripes)
        /\ o.todo \subseteq Blocks(o.schema)
        /\ \A i \in 0 .. Len(o.stripes) - 1 :
              /\ o.stripes[i + 1] < next_stripe_id
              /\ stripe_info[o.stripes[i + 1]] =
                    [schema |-> o.schema, block_size |->
                        stored_block_size(o.schema, o.value_len, i)]

ObjectsOK == \A key \in Keys : object[key] # None => ObjectOK(key)

LEMMA ObjectFacts ==
    ASSUME TypeOK, ObjectsOK, NEW key \in Keys, object[key] # None
    PROVE  LET o == object[key]
           IN  /\ o \in Object
               /\ o.value_len \in Lengths
               /\ o.value_len \in Nat \ {0}
               /\ o.schema \in Schemas
               /\ o.stripe \in 0 .. Len(o.stripes) - 1
               /\ o.todo \subseteq Blocks(o.schema)
               /\ o.stripes \in Seq(StripeIds)
               /\ Len(o.stripes) \in Nat \ {0}
               /\ Len(o.stripes) = stripes_to_store(o.schema, o.value_len)
               /\ \A i \in 0 .. Len(o.stripes) - 1 :
                     /\ i \in StripeIds
                     /\ o.stripes[i + 1] \in StripeIds
                     /\ o.stripes[i + 1] \in 0 .. next_stripe_id - 1
  <1> DEFINE o == object[key]
  <1>1. o \in Object /\ ObjectOK(key)
    BY DEF TypeOK, ObjectsOK
  <1>2. /\ o.value_len \in Lengths
        /\ o.schema \in Schemas
        /\ o.stripe \in Nat
        /\ o.stripes \in Seq(StripeIds)
    BY <1>1 DEF Object
  <1>3. o.value_len \in Nat \ {0} /\ MaxStripes \in Nat
    BY <1>2, StripedAssumption
  <1>4. /\ Len(o.stripes) = stripes_to_store(o.schema, o.value_len)
        /\ Len(o.stripes) <= next_stripe_id
        /\ o.stripe < Len(o.stripes)
        /\ o.todo \subseteq Blocks(o.schema)
        /\ \A i \in 0 .. Len(o.stripes) - 1 : o.stripes[i + 1] < next_stripe_id
    BY <1>1 DEF ObjectOK
  <1>5. Len(o.stripes) \in Nat \ {0}
    BY <1>2, <1>3, <1>4, SchemaFacts, StripesHoldObject
  <1>6. next_stripe_id \in 0 .. MaxStripes
    BY DEF TypeOK
  <1> HIDE DEF o
  <1>7. ASSUME NEW i \in 0 .. Len(o.stripes) - 1
        PROVE  /\ i \in StripeIds
               /\ o.stripes[i + 1] \in StripeIds
               /\ o.stripes[i + 1] \in 0 .. next_stripe_id - 1
    <2>1. i + 1 \in 1 .. Len(o.stripes)
      BY <1>5
    <2>2. o.stripes[i + 1] \in StripeIds
      BY <1>2, <2>1, ElementOfSeq
    <2>3. i \in StripeIds
      BY <1>3, <1>4, <1>5, <1>6 DEF StripeIds
    <2> QED
      BY <1>3, <1>4, <1>6, <2>2, <2>3 DEF StripeIds
  <1>8. o.stripe \in 0 .. Len(o.stripes) - 1
    BY <1>2, <1>4, <1>5
  <1> QED
    BY <1>1, <1>2, <1>3, <1>4, <1>5, <1>7, <1>8 DEF o

\* What encode makes are blocks of the stored size.
LEMMA EncodedFacts ==
    ASSUME TypeOK, ObjectsOK, NEW key \in Keys, object[key] # None,
           NEW i \in 0 .. Len(object[key].stripes) - 1
    PROVE  LET o == object[key]
               size == stored_block_size(o.schema, o.value_len, i)
           IN  /\ size \in Nat \ {0}
               /\ size <= block_size(o.schema, o.value_len)
               /\ \A j \in Blocks(o.schema) :
                     /\ EncodedBlock(key, o, i, j) \in Contents
                     /\ Len(EncodedBlock(key, o, i, j)) = size
  <1> DEFINE o == object[key]
             len == o.value_len
             size == stored_block_size(o.schema, len, i)
             start == stripe_start(o.schema, len, i)
  <1>1. /\ len \in Lengths
        /\ len \in Nat \ {0}
        /\ o.schema \in Schemas
        /\ i \in StripeIds
        /\ i \in 0 .. stripes_to_store(o.schema, len) - 1
    BY ObjectFacts
  <1>2. /\ size \in 1 .. block_size(o.schema, len)
        /\ block_size(o.schema, len) \in Nat
        /\ stripe_size(o.schema, len) \in Nat
    BY <1>1, SchemaFacts, StripesHoldObject, Sizes
  <1>3. start \in Nat
    BY <1>1, <1>2, ProductsOfNaturals DEF stripe_start, StripeIds
  <1>4. ASSUME NEW j \in Blocks(o.schema)
        PROVE  /\ EncodedBlock(key, o, i, j) \in Contents
               /\ Len(EncodedBlock(key, o, i, j)) = size
    <2>1. j \in Nat /\ j \in BlockIndexes
      BY <1>1, SchemaFacts
    <2>2. EncodedBlock(key, o, i, j) =
              [q \in 1 .. size |->
                  IF j < o.schema.k THEN ByteOf(key, len, start + j * size + q)
                  ELSE <<key, i, j, q>>]
      BY DEF EncodedBlock
    <2> HIDE DEF o, len, size, start
    <2>3. ASSUME NEW q \in 1 .. size
          PROVE  /\ ByteOf(key, len, start + j * size + q) \in Bytes
                 /\ <<key, i, j, q>> \in Bytes
      <3>1. j * size \in Nat
        BY <1>2, <2>1, ProductsOfNaturals
      <3>2. start + j * size + q \in Nat \ {0}
        BY <1>2, <1>3, <3>1
      <3>3. ByteOf(key, len, start + j * size + q) \in Bytes
        BY <1>1, <3>2, StripedAssumption, DatanodeAssumption DEF ByteOf
      <3>4. q \in 1 .. block_size(o.schema, len)
        BY <1>2
      <3>5. <<key, i, j, q>> \in Bytes
        BY <1>1, <2>1, <3>4, StripedAssumption
      <3> QED
        BY <3>3, <3>5
    <2>4. EncodedBlock(key, o, i, j) \in [1 .. size -> Bytes]
      BY <2>2, <2>3
    <2>5. size \in Nat
      BY <1>2
    <2> HIDE DEF EncodedBlock
    <2> QED
      BY <2>4, <2>5 DEF Contents
  <1> QED
    BY <1>2, <1>4

-----------------------------------------------------------------------------
\* What a reader is answered.

\* Positions in a list of n times m nodes.
LEMMA PositionInList ==
    ASSUME NEW n \in Nat, NEW m \in Nat \ {0}, NEW p \in Nat
    PROVE  /\ p % m \in 0 .. m - 1
           /\ p < n * m => p \div m \in 0 .. n - 1
  <1>1. /\ p \div m \in Nat
        /\ p % m \in 0 .. m - 1
        /\ p = m * (p \div m) + (p % m)
    BY DivMod
  <1>2. ASSUME NEW q \in Nat, q >= n
        PROVE  m * q >= n * m
    BY <1>2, Monotone
  <1>3. m * (p \div m) \in Nat /\ n * m \in Nat
    BY <1>1, ProductsOfNaturals
  <1>4. p < n * m => ~(p \div m >= n)
    BY <1>1, <1>2, <1>3
  <1> QED
    BY <1>1, <1>4

LEMMA PositionOfPlace ==
    ASSUME NEW n \in Nat, NEW m \in Nat \ {0},
           NEW i \in 0 .. n - 1, NEW r \in 0 .. m - 1
    PROVE  /\ i * m + r \in Nat
           /\ i * m + r < n * m
           /\ (i * m + r) \div m = i
           /\ (i * m + r) % m = r
  <1> DEFINE p == i * m + r
             q == p \div m
             rest == p % m
  <1>1. i \in Nat /\ i * m \in Nat /\ p \in Nat /\ p = m * i + r
    BY ProductsOfNaturals
  <1>2. q \in Nat /\ rest \in 0 .. m - 1 /\ p = m * q + rest
    <2> HIDE DEF p
    <2> QED
      BY <1>1, DivMod
  <1> HIDE DEF p, q, rest
  <1>3. ASSUME NEW a \in Nat, NEW b \in Nat, a < b
        PROVE  m * b >= m * a + m
    <2>1. m * b >= m * (a + 1) /\ m * (a + 1) = m * a + m
      BY <1>3, Monotone
    <2> QED
      BY <2>1
  <1>4. m * i \in Nat /\ m * q \in Nat
    BY <1>1, <1>2, ProductsOfNaturals
  <1>5. q = i
    <2>1. ~(q < i)
      BY <1>1, <1>2, <1>3, <1>4
    <2>2. ~(i < q)
      BY <1>1, <1>2, <1>3, <1>4
    <2> QED
      BY <1>1, <1>2, <2>1, <2>2
  <1>6. rest = r
    BY <1>1, <1>2, <1>4, <1>5
  <1>7. p < n * m
    <2>1. m * n >= m * i + m /\ m * n \in Nat /\ m * n = n * m
      BY <1>1, <1>3, ProductsOfNaturals
    <2> QED
      BY <1>1, <1>4, <2>1
  <1> QED
    BY <1>1, <1>5, <1>6, <1>7 DEF p, q, rest

LEMMA ListedNodes ==
    ASSUME TypeOK, ObjectsOK, NEW key \in Keys, object[key] # None,
           NEW position \in Nat
    PROVE  /\ Stores(object[key], position) \in Nodes \cup {None}
           /\ Caches(object[key], position) \in Nodes \cup {None}
  <1> DEFINE o == object[key]
             n == Len(o.stripes)
             m == NumBlocks(o.schema)
             l == o.schema.real_l + 1
  <1>1. /\ o.schema \in Schemas
        /\ n \in Nat
        /\ \A i \in 0 .. n - 1 : o.stripes[i + 1] \in StripeIds
    BY ObjectFacts
  <1>2. /\ m \in Nat \ {0}
        /\ l \in Nat \ {0}
        /\ 0 .. m - 1 \subseteq BlockIndexes
        /\ 0 .. l - 1 \subseteq CacheSlots
    BY <1>1, SchemaFacts DEF CacheSlots
  <1>3. /\ Stores(o, position) =
              IF position < n * m
              THEN NodeOf(o.stripes[(position \div m) + 1], position % m)
              ELSE None
        /\ Caches(o, position) =
              IF position < n * l
              THEN CacheNodeOf(o.stripes[(position \div l) + 1], position % l)
              ELSE None
    BY DEF Stores, Caches
  <1> HIDE DEF o, n, m, l
  <1>4. position < n * m =>
            /\ o.stripes[(position \div m) + 1] \in StripeIds
            /\ position % m \in BlockIndexes
    BY <1>1, <1>2, PositionInList
  <1>5. position < n * l =>
            /\ o.stripes[(position \div l) + 1] \in StripeIds
            /\ position % l \in CacheSlots
    BY <1>1, <1>2, PositionInList
  <1>6. Stores(o, position) \in Nodes \cup {None}
    BY <1>3, <1>4, PlacesOfBlocks
  <1>7. Caches(o, position) \in Nodes \cup {None}
    BY <1>3, <1>5, PlacesOfCopies
  <1> QED
    BY <1>6, <1>7 DEF o

\* A get of the code that the object was stored with asks the nodes that a
\* block and its copy were sent to.
LEMMA AskedNodes ==
    ASSUME TypeOK, ObjectsOK, NEW key \in Keys, object[key] # None,
           NEW i \in 0 .. Len(object[key].stripes) - 1,
           NEW j \in Blocks(ec_schema)
    PROVE  LET o == object[key]
           IN  /\ ReadFrom(o, i, j) \in Nodes \cup {None}
               /\ SameCode(ec_schema, o.schema) =>
                     ReadFrom(o, i, j) = HelperNode(o.schema, o.stripes[i + 1], j)
  <1> DEFINE o == object[key]
             m == NumBlocks(ec_schema)
             l == ec_schema.real_l + 1
             slot == CacheSlot(ec_schema, j)
  <1>1. ec_schema \in Schemas /\ o.schema \in Schemas /\ i \in Nat
    BY ObjectFacts DEF TypeOK
  <1>2. /\ m \in Nat \ {0}
        /\ l \in Nat \ {0}
        /\ j \in 0 .. m - 1
        /\ IsCached(ec_schema, j) => slot \in 0 .. l - 1
    BY <1>1, SchemaFacts, CachedFacts
  <1>3. ReadFrom(o, i, j) = IF IsCached(ec_schema, j) THEN Caches(o, i * l + slot)
                            ELSE Stores(o, i * m + j)
    <2>1. 1 + ec_schema.real_l = l
      BY <1>1, SchemaFacts
    <2> QED
      BY <2>1 DEF ReadFrom
  <1>4. Len(o.stripes) \in Nat
    BY ObjectFacts
  <1> HIDE DEF o, m, l, slot
  <1>5. i * m + j \in Nat /\ (IsCached(ec_schema, j) => i * l + slot \in Nat)
    BY <1>1, <1>2, ProductsOfNaturals
  <1>6. ReadFrom(o, i, j) \in Nodes \cup {None}
    BY <1>3, <1>5, ListedNodes DEF o
  <1>7. ASSUME SameCode(ec_schema, o.schema)
        PROVE  ReadFrom(o, i, j) = HelperNode(o.schema, o.stripes[i + 1], j)
    <2>1. /\ m = NumBlocks(o.schema)
          /\ l = o.schema.real_l + 1
          /\ IsCached(o.schema, j) = IsCached(ec_schema, j)
          /\ slot = CacheSlot(o.schema, j)
      BY <1>1, <1>7, SameCodeFacts DEF m, l, slot
    <2>2. i \in 0 .. Len(o.stripes) - 1
      BY DEF o
    <2>3. CASE IsCached(ec_schema, j)
      <3>1. /\ i * l + slot < Len(o.stripes) * l
            /\ (i * l + slot) \div l = i
            /\ (i * l + slot) % l = slot
        <4>1. l \in Nat \ {0} /\ slot \in 0 .. l - 1
          BY <1>2, <2>3
        <4> QED
          BY <1>4, <2>2, <4>1, PositionOfPlace
      <3> QED
        BY <1>3, <2>1, <2>3, <3>1 DEF Caches, HelperNode
    <2>4. CASE ~IsCached(ec_schema, j)
      <3>1. /\ i * m + j < Len(o.stripes) * m
            /\ (i * m + j) \div m = i
            /\ (i * m + j) % m = j
        BY <1>2, <1>4, <2>2, PositionOfPlace
      <3> QED
        BY <1>3, <2>1, <2>4, <3>1 DEF Stores, HelperNode
    <2> QED
      BY <2>3, <2>4
  <1> QED
    BY <1>6, <1>7 DEF o

LEMMA AnswerType ==
    ASSUME TypeOK, NEW n \in Nodes \cup {None}, NEW id, NEW copy \in BOOLEAN
    PROVE  /\ Answer(n, id, copy) \in Contents
           /\ Len(Answer(n, id, copy)) \in Nat
  <1>1. <<>> \in Contents
    BY DEF Contents
  <1>2. DatanodeTypeOK
    BY DEF TypeOK
  <1>3. n \in Nodes => find_value_by_key_from_disk(n, id) \in Contents
    BY <1>2, ReadType
  <1>4. n \in Nodes => CopyIn(n, id) \in Contents
    BY <1>1, <1>2 DEF CopyIn, DatanodeTypeOK, IsMap
  <1>5. Answer(n, id, copy) \in Contents
    BY <1>1, <1>3, <1>4 DEF Answer
  <1> QED
    BY <1>5, LenProperties DEF Contents

-----------------------------------------------------------------------------
\* What a get makes of what it is sent.

LEMMA ReadSize ==
    ASSUME TypeOK, ObjectsOK, NEW key \in Keys, object[key] # None, NEW i
    PROVE  LET o == object[key]
           IN  /\ SizeRead(o, i) =
                     asked_block_size(ec_schema, o.value_len, Len(o.stripes), i)
               /\ SizeRead(o, i) \in Nat \ {0}
  <1> DEFINE o == object[key]
             size == asked_block_size(ec_schema, o.value_len, Len(o.stripes), i)
  <1>1. ec_schema \in Schemas /\ o.value_len \in Nat \ {0}
    BY ObjectFacts DEF TypeOK
  <1>2. /\ size \in 1 .. block_size(ec_schema, o.value_len)
        /\ block_size(ec_schema, o.value_len) \in Nat
    BY <1>1, SchemaFacts, AskedSizes, Sizes
  <1>3. size \in Nat \ {0}
    BY <1>2
  <1> QED
    BY <1>3 DEF SizeRead, asked_block_size

LEMMA BlockReadType ==
    ASSUME TypeOK, ObjectsOK, NEW key \in Keys, object[key] # None,
           NEW i \in 0 .. Len(object[key].stripes) - 1,
           NEW j \in Blocks(ec_schema)
    PROVE  /\ BlockRead(object[key], i, j) \in Contents
           /\ Len(BlockRead(object[key], i, j)) \in Nat
  <1>1. ReadFrom(object[key], i, j) \in Nodes \cup {None}
    BY AskedNodes
  <1>2. IsCached(ec_schema, j) \in BOOLEAN
    BY DEF IsCached, Code!IsCached
  <1> QED
    BY <1>1, <1>2, AnswerType DEF BlockRead

\* The first bytes of a block.
LEMMA FirstBytes ==
    ASSUME NEW s \in Contents, NEW n \in Nat, n <= Len(s)
    PROVE  /\ SubSeq(s, 1, n) \in Contents
           /\ Len(SubSeq(s, 1, n)) = n
           /\ n = Len(s) => SubSeq(s, 1, n) = s
  <1>1. s \in Seq(Bytes) /\ Len(s) \in Nat
    BY LenProperties DEF Contents
  <1>2. ASSUME NEW i \in 1 .. n
        PROVE  s[i] \in Bytes
    BY <1>1, ElementOfSeq
  <1>3. SubSeq(s, 1, n) \in Seq(Bytes) /\ Len(SubSeq(s, 1, n)) = n
    BY <1>1, <1>2, SubSeqProperties
  <1> QED
    BY <1>1, <1>3, SubSeqFull DEF Contents

\* The blocks that have arrived as they were encoded.
FirstRead(o, i, j) == SubSeq(BlockRead(o, i, j), 1, SizeRead(o, i))

ReadRight(key, o, i) ==
    {j \in Arriving(o, i) : IsPrefix(FirstRead(o, i, j), EncodedBlock(key, o, i, j))}

\* A data block is as it has arrived, as it was encoded, or garbage.
MadeFrom(received, key, o, i, f) ==
    /\ \E j \in received : TRUE
    /\ \A b \in 0 .. ec_schema.k - 1 :
          \/ b \in received /\ f[b] = FirstRead(o, i, b)
          \/ /\ SameCode(ec_schema, o.schema)
             /\ received \subseteq ReadRight(key, o, i)
             /\ f[b] = SubSeq(EncodedBlock(key, o, i, b), 1, SizeRead(o, i))
          \/ /\ ~(/\ SameCode(ec_schema, o.schema)
                  /\ received \subseteq ReadRight(key, o, i))
             /\ f[b] = [q \in 1 .. SizeRead(o, i) |-> Garbage]

LEMMA DecodedFrom ==
    ASSUME NEW key, NEW o, NEW i, NEW f \in Decoded(key, o, i)
    PROVE  \E received \in SUBSET Arriving(o, i) : MadeFrom(received, key, o, i, f)
  <1> DEFINE size  == SizeRead(o, i)
             block == [j \in Arriving(o, i) |-> SubSeq(BlockRead(o, i, j), 1, size)]
             right == {j \in DOMAIN block : IsPrefix(block[j], EncodedBlock(key, o, i, j))}
             data  == 0 .. ec_schema.k - 1
             From(received) ==
                 [b \in data |->
                     CASE data \subseteq received -> block[b]
                       [] ~(data \subseteq received) /\ SameCode(ec_schema, o.schema)
                          /\ received \subseteq right
                            -> SubSeq(EncodedBlock(key, o, i, b), 1, size)
                       [] OTHER -> [q \in 1 .. size |-> Garbage]]
  <1>1. /\ DOMAIN block = Arriving(o, i)
        /\ \A j \in Arriving(o, i) : block[j] = FirstRead(o, i, j)
    BY DEF FirstRead
  <1>2. right = ReadRight(key, o, i)
    BY <1>1 DEF ReadRight
  <1>3. PICK received \in Received(Arriving(o, i)) : f = From(received)
    BY <1>1 DEF Decoded
  <1>4. received \subseteq Arriving(o, i) /\ \E j \in received : TRUE
    BY <1>3 DEF Received
  <1>5. ASSUME NEW b \in data
        PROVE  \/ b \in received /\ f[b] = FirstRead(o, i, b)
               \/ /\ SameCode(ec_schema, o.schema)
                  /\ received \subseteq right
                  /\ f[b] = SubSeq(EncodedBlock(key, o, i, b), 1, size)
               \/ /\ ~(SameCode(ec_schema, o.schema) /\ received \subseteq right)
                  /\ f[b] = [q \in 1 .. size |-> Garbage]
    <2> HIDE DEF block, right, size
    <2>1. f[b] = CASE data \subseteq received -> block[b]
                   [] ~(data \subseteq received) /\ SameCode(ec_schema, o.schema)
                      /\ received \subseteq right
                        -> SubSeq(EncodedBlock(key, o, i, b), 1, size)
                   [] OTHER -> [q \in 1 .. size |-> Garbage]
      BY <1>3
    <2>2. data \subseteq received => b \in received /\ block[b] = FirstRead(o, i, b)
      BY <1>1, <1>4
    <2>3. CASE data \subseteq received
      BY <2>1, <2>2, <2>3
    <2>4. CASE /\ ~(data \subseteq received)
               /\ SameCode(ec_schema, o.schema)
               /\ received \subseteq right
      BY <2>1, <2>4
    <2>5. CASE /\ ~(data \subseteq received)
               /\ ~(SameCode(ec_schema, o.schema) /\ received \subseteq right)
      BY <2>1, <2>5
    <2> QED
      BY <2>3, <2>4, <2>5
  <1> QED
    BY <1>2, <1>4, <1>5 DEF MadeFrom

LEMMA DecodedType ==
    ASSUME TypeOK, ObjectsOK, NEW key \in Keys, object[key] # None,
           NEW i \in 0 .. Len(object[key].stripes) - 1,
           NEW f \in Decoded(key, object[key], i),
           NEW b \in 0 .. ec_schema.k - 1
    PROVE  /\ f[b] \in Contents
           /\ Len(f[b]) = SizeRead(object[key], i)
  <1> DEFINE o == object[key]
             size == SizeRead(o, i)
             stored == stored_block_size(o.schema, o.value_len, i)
  <1>1. /\ size \in Nat
        /\ ec_schema \in Schemas
        /\ o.schema \in Schemas
    BY ReadSize, ObjectFacts DEF TypeOK
  <1>2. \A j \in Arriving(o, i) :
            /\ FirstRead(o, i, j) \in Contents
            /\ Len(FirstRead(o, i, j)) = size
    BY <1>1, BlockReadType, FirstBytes DEF Arriving, FirstRead
  <1>3. \A j \in Blocks(o.schema) : /\ EncodedBlock(key, o, i, j) \in Contents
                                    /\ Len(EncodedBlock(key, o, i, j)) = stored
    BY EncodedFacts
  <1>4. PICK received \in SUBSET Arriving(o, i) : MadeFrom(received, key, o, i, f)
    BY DecodedFrom
  <1>5. \/ b \in received /\ f[b] = FirstRead(o, i, b)
        \/ /\ SameCode(ec_schema, o.schema)
           /\ received \subseteq ReadRight(key, o, i)
           /\ f[b] = SubSeq(EncodedBlock(key, o, i, b), 1, size)
        \/ f[b] = [q \in 1 .. size |-> Garbage]
    BY <1>4 DEF MadeFrom
  <1>6. CASE b \in received /\ f[b] = FirstRead(o, i, b)
    BY <1>2, <1>6
  <1>7. CASE /\ SameCode(ec_schema, o.schema)
             /\ received \subseteq ReadRight(key, o, i)
             /\ f[b] = SubSeq(EncodedBlock(key, o, i, b), 1, size)
    <2>1. PICK j \in received : TRUE
      BY <1>4 DEF MadeFrom
    <2>2. /\ j \in Arriving(o, i)
          /\ IsPrefix(FirstRead(o, i, j), EncodedBlock(key, o, i, j))
      BY <1>7, <2>1 DEF ReadRight
    <2>3. j \in Blocks(o.schema) /\ b \in Blocks(o.schema)
      BY <1>1, <1>7, <2>2, SameCodeFacts, SchemaFacts DEF Arriving
    <2>4. size <= stored
      BY <1>2, <1>3, <2>2, <2>3 DEF IsPrefix
    <2> QED
      BY <1>1, <1>3, <1>7, <2>3, <2>4, FirstBytes
  <1>8. CASE f[b] = [q \in 1 .. size |-> Garbage]
    <2>1. Garbage \in Bytes
      BY StripedAssumption
    <2> QED
      BY <1>1, <1>8, <2>1 DEF Contents
  <1> QED
    BY <1>5, <1>6, <1>7, <1>8

\* Where a byte that is sent comes from, and how many bytes are sent.
LEMMA SentPlace ==
    ASSUME TypeOK, ObjectsOK, NEW key \in Keys, object[key] # None,
           ~(BytesSent(object[key]) < object[key].value_len),
           NEW p \in 1 .. object[key].value_len
    PROVE  LET o == object[key]
               n == Len(o.stripes)
               S == stripe_size(ec_schema, o.value_len)
           IN  /\ (n - 1) * S + ec_schema.k * SizeRead(o, n - 1) >= o.value_len
               /\ \E i \in 0 .. n - 1, b \in 0 .. ec_schema.k - 1, q \in Nat :
                     /\ q < SizeRead(o, i)
                     /\ p - 1 = i * S + b * SizeRead(o, i) + q
                     /\ \A decoded : ByteSent(o, decoded, p) = decoded[i][b][q + 1]
  <1> DEFINE o == object[key]
             len == o.value_len
             n == Len(o.stripes)
             S == stripe_size(ec_schema, len)
             i == (p - 1) \div S
             rest == (p - 1) % S
             size == SizeRead(o, i)
             last == SizeRead(o, n - 1)
  <1>1. /\ ec_schema \in Schemas
        /\ len \in Nat \ {0}
        /\ n \in Nat \ {0}
    BY ObjectFacts DEF TypeOK
  <1>2. /\ S \in Nat
        /\ ec_schema.k \in Nat
        /\ last \in Nat
        /\ (n - 1) * S + ec_schema.k * last \in Nat
    <2>1. S \in Nat /\ ec_schema.k \in Nat /\ last \in Nat
      BY <1>1, SchemaFacts, Sizes, ReadSize
    <2> HIDE DEF S, last, n
    <2>2. n - 1 \in Nat
      BY <1>1
    <2>3. (n - 1) * S \in Nat /\ ec_schema.k * last \in Nat
      BY <2>1, <2>2, ProductsOfNaturals
    <2> QED
      BY <2>1, <2>3
  <1>3. /\ (n - 1) * S + ec_schema.k * last >= len
        /\ p - 1 < (n - 1) * S + ec_schema.k * last
        /\ p - 1 \in Nat
    BY <1>1, <1>2 DEF BytesSent
  <1>4. /\ i \in 0 .. n - 1
        /\ rest \div size \in 0 .. ec_schema.k - 1
        /\ rest % size \in 0 .. size - 1
        /\ p - 1 = i * S + (rest \div size) * size + (rest % size)
    <2>1. /\ size = asked_block_size(ec_schema, len, n, i)
          /\ last = asked_block_size(ec_schema, len, n, n - 1)
      BY ReadSize
    <2>2. LayoutSchema(ec_schema)
      BY <1>1, SchemaFacts
    <2> QED
      BY <1>1, <1>3, <2>1, <2>2, PlaceOfByte
  <1>5. size \in Nat
    BY ReadSize
  <1>6. \A decoded : ByteSent(o, decoded, p) =
                         decoded[i][rest \div size][(rest % size) + 1]
    BY DEF ByteSent
  <1> HIDE DEF o, len, n, S, i, rest, size, last
  <1>7. rest % size \in Nat /\ rest % size < size
    BY <1>4, <1>5
  <1>8. \E h \in 0 .. n - 1, b \in 0 .. ec_schema.k - 1, q \in Nat :
            /\ q < SizeRead(o, h)
            /\ p - 1 = h * S + b * SizeRead(o, h) + q
            /\ \A decoded : ByteSent(o, decoded, p) = decoded[h][b][q + 1]
    <2>1. size = SizeRead(o, i)
      BY DEF size
    <2> QED
      BY <1>4, <1>6, <1>7, <2>1
  <1> QED
    BY <1>3, <1>8 DEF o, len, n, S, last

LEMMA DeliveredType ==
    ASSUME TypeOK, ObjectsOK, NEW key \in Keys, object[key] # None,
           NEW value \in Delivered(key, object[key])
    PROVE  value \in Contents \cup {Nothing}
  <1> DEFINE o == object[key]
             len == o.value_len
             n == Len(o.stripes)
  <1>1. ASSUME NEW decoded \in DecodedStripes(key, o), ~(BytesSent(o) < len),
               NEW p \in 1 .. len
        PROVE  ByteSent(o, decoded, p) \in Bytes
    <2>1. PICK i \in 0 .. n - 1, b \in 0 .. ec_schema.k - 1, q \in Nat :
              /\ q < SizeRead(o, i)
              /\ ByteSent(o, decoded, p) = decoded[i][b][q + 1]
      BY <1>1, SentPlace
    <2>2. decoded[i] \in Decoded(key, o, i)
      BY <1>1, <2>1 DEF DecodedStripes
    <2>3. decoded[i][b] \in Contents /\ Len(decoded[i][b]) = SizeRead(o, i)
      BY <2>1, <2>2, DecodedType
    <2>4. SizeRead(o, i) \in Nat
      BY ReadSize
    <2>5. q + 1 \in 1 .. Len(decoded[i][b])
      BY <2>1, <2>3, <2>4
    <2> QED
      BY <2>1, <2>3, <2>5, ElementOfSeq DEF Contents
  <1>2. len \in Nat
    BY ObjectFacts
  <1>3. ASSUME NEW decoded \in DecodedStripes(key, o), ~(BytesSent(o) < len)
        PROVE  [p \in 1 .. len |-> ByteSent(o, decoded, p)] \in Contents
    <2>1. [p \in 1 .. len |-> ByteSent(o, decoded, p)] \in [1 .. len -> Bytes]
      BY <1>1, <1>3
    <2> QED
      BY <1>2, <2>1 DEF Contents
  <1> QED
    BY <1>3 DEF Delivered

-----------------------------------------------------------------------------
\* The types.  Sizes and the bytes that are sent are only as they should be
\* since an object's stripes are those that its parameters make, so the
\* invariant is about the objects and the disks too.

StripesDiffer ==
    \A key, other \in Keys : \A i \in Parts(key), h \in Parts(other) :
        StripeOf(key, i) = StripeOf(other, h) => key = other /\ i = h

NoneOutgrown == ~spoilt => \A n \in Nodes : ~Outgrown(n)

RepairKnown == repairing # None => repairing.stripe < next_stripe_id

ObjectInv ==
    /\ TypeOK
    /\ DiskInv
    /\ ObjectsOK
    /\ StripesDiffer
    /\ NoneOutgrown
    /\ RepairKnown

\* An object's stripes and parameters stay, whatever becomes of the set.
SameLayout ==
    \A key \in Keys : object'[key] # None =>
        /\ object[key] # None
        /\ object'[key].value_len = object[key].value_len
        /\ object'[key].schema = object[key].schema
        /\ object'[key].stripes = object[key].stripes

LEMMA ProgressKeepsObjects ==
    ASSUME ObjectInv, NEW key \in Keys, object[key] # None, NEW o \in Object,
           o.value_len = object[key].value_len,
           o.schema = object[key].schema,
           o.stripes = object[key].stripes,
           o.stripe < Len(o.stripes),
           o.todo \subseteq Blocks(o.schema),
           object' = [object EXCEPT ![key] = o],
           UNCHANGED <<next_stripe_id, stripe_info>>
    PROVE  /\ object' \in [Keys -> Object \cup {None}]
           /\ ObjectsOK'
           /\ StripesDiffer'
           /\ SameLayout
  <1>1. object \in [Keys -> Object \cup {None}]
    BY DEF ObjectInv, TypeOK
  <1>2. /\ object' \in [Keys -> Object \cup {None}]
        /\ object'[key] = o
        /\ \A other \in Keys : other # key => object'[other] = object[other]
    BY <1>1
  <1>3. SameLayout
    BY <1>2 DEF SameLayout
  <1>4. ObjectsOK'
    <2>1. ObjectOK(key)
      BY DEF ObjectInv, ObjectsOK
    <2>2. ObjectOK(key)'
      BY <1>2, <2>1 DEF ObjectOK
    <2>3. ASSUME NEW other \in Keys, other # key, object'[other] # None
          PROVE  ObjectOK(other)'
      BY <1>2, <2>3 DEF ObjectInv, ObjectsOK, ObjectOK
    <2> QED
      BY <2>2, <2>3 DEF ObjectsOK
  <1>5. StripesDiffer'
    <2>1. ASSUME NEW k \in Keys
          PROVE  /\ Parts(k)' \subseteq Parts(k)
                 /\ \A i \in Parts(k)' : StripeOf(k, i)' = StripeOf(k, i)
      BY <1>3 DEF SameLayout, Parts, StripeOf
    <2> QED
      BY <2>1 DEF ObjectInv, StripesDiffer
  <1> QED
    BY <1>2, <1>3, <1>4, <1>5

LEMMA SameObjects ==
    ASSUME ObjectInv, UNCHANGED <<object, next_stripe_id, stripe_info>>
    PROVE  /\ object' \in [Keys -> Object \cup {None}]
           /\ ObjectsOK'
           /\ StripesDiffer'
           /\ SameLayout
  BY DEF ObjectInv, TypeOK, ObjectsOK, ObjectOK, StripesDiffer, Parts, StripeOf,
         SameLayout

\* The stripes that get_proxy_location makes follow those that are there.
LEMMA PlacingKeepsObjects ==
    ASSUME ObjectInv, NEW key \in Keys, NEW value_len \in Lengths,
           GetProxyLocation(key, value_len)
    PROVE  /\ next_stripe_id' \in 0 .. MaxStripes
           /\ next_stripe_id' >= next_stripe_id
           /\ stripe_info' \in [0 .. next_stripe_id' - 1 -> StripeInfo]
           /\ object' \in [Keys -> Object \cup {None}]
           /\ ObjectsOK'
           /\ StripesDiffer'
           /\ \A other \in Keys : other # key => object'[other] = object[other]
           /\ \A i \in Parts(key)' : StripeOf(key, i)' >= next_stripe_id
  <1> DEFINE n == stripes_to_store(ec_schema, value_len)
             next == next_stripe_id
             size(s) == stripe_item_block_size(ec_schema, value_len, s - next)
             item(s) == [schema |-> ec_schema, block_size |-> size(s)]
             made == [i \in 1 .. n |-> next + i - 1]
             o == [pc |-> "storing", value_len |-> value_len,
                   stripes |-> made, schema |-> ec_schema, stripe |-> 0,
                   todo |-> Blocks(ec_schema)]
  <1>1. /\ ec_schema \in Schemas
        /\ next \in 0 .. MaxStripes
        /\ MaxStripes \in Nat
        /\ value_len \in Nat \ {0}
        /\ stripe_info \in [0 .. next - 1 -> StripeInfo]
        /\ object \in [Keys -> Object \cup {None}]
    BY StripedAssumption DEF ObjectInv, TypeOK
  <1>2. /\ n \in Nat \ {0}
        /\ \A i \in 0 .. n - 1 :
              /\ stored_block_size(ec_schema, value_len, i) \in Nat
              /\ stripe_item_block_size(ec_schema, value_len, i) =
                    stored_block_size(ec_schema, value_len, i)
    <2>1. /\ n \in Nat \ {0}
          /\ block_size(ec_schema, value_len) \in Nat
      BY <1>1, SchemaFacts, StripesHoldObject, Sizes
    <2>2. ASSUME NEW i \in 0 .. n - 1
          PROVE  stored_block_size(ec_schema, value_len, i)
                     \in 1 .. block_size(ec_schema, value_len)
      BY <1>1, <2>2, SchemaFacts, StripesHoldObject
    <2>3. ASSUME NEW i \in 0 .. n - 1
          PROVE  stripe_item_block_size(ec_schema, value_len, i) =
                     stored_block_size(ec_schema, value_len, i)
      BY <1>1, <2>3, SchemaFacts, RepairKnowsBlockSize
    <2> QED
      BY <2>1, <2>2, <2>3
  <1>3. /\ object[key] = None
        /\ next + n <= MaxStripes
        /\ next_stripe_id' = next + n
        /\ stripe_info' = [s \in 0 .. next + n - 1 |->
                              IF s < next THEN stripe_info[s] ELSE item(s)]
        /\ object' = [object EXCEPT ![key] = o]
        /\ UNCHANGED ec_schema
    BY DEF GetProxyLocation
  <1> HIDE DEF n, next
  <1>4. ASSUME NEW s \in next .. next + n - 1
        PROVE  item(s) \in StripeInfo
    <2>1. s - next \in 0 .. n - 1
      BY <1>1, <1>2
    <2>2. size(s) \in Nat
      BY <1>2, <2>1
    <2> QED
      BY <1>1, <2>2 DEF StripeInfo
  <1>5. stripe_info' \in [0 .. next_stripe_id' - 1 -> StripeInfo]
    <2>1. ASSUME NEW s \in 0 .. next + n - 1
          PROVE  (IF s < next THEN stripe_info[s] ELSE item(s)) \in StripeInfo
      BY <1>1, <1>2, <1>4
    <2> HIDE DEF item
    <2>2. next_stripe_id' - 1 = next + n - 1
      BY <1>1, <1>2, <1>3
    <2> QED
      BY <1>3, <2>1, <2>2
  <1>6. /\ made \in Seq(StripeIds)
        /\ Len(made) = n
        /\ \A i \in 0 .. n - 1 : made[i + 1] = next + i
    <2>1. \A i \in 1 .. n : next + i - 1 \in StripeIds
      BY <1>1, <1>2, <1>3 DEF StripeIds
    <2>2. made \in [1 .. n -> StripeIds]
      BY <2>1
    <2>3. \A i \in 0 .. n - 1 : made[i + 1] = next + i
      BY <1>1, <1>2
    <2> HIDE DEF made
    <2> QED
      BY <1>2, <2>2, <2>3
  <1>7. Blocks(ec_schema) \subseteq BlockIndexes
    BY <1>1, SchemaFacts
  <1>8. o \in Object
    <2> HIDE DEF made
    <2> QED
      BY <1>1, <1>6, <1>7 DEF Object
  <1>9. /\ object' \in [Keys -> Object \cup {None}]
        /\ object'[key] = o
        /\ \A other \in Keys : other # key => object'[other] = object[other]
    <2> HIDE DEF o
    <2> QED
      BY <1>1, <1>3, <1>8
  <1>10. /\ object'[key].value_len = value_len
         /\ object'[key].schema = ec_schema
         /\ object'[key].stripes = made
         /\ object'[key].stripe = 0
         /\ object'[key].todo = Blocks(ec_schema)
    BY <1>9
  <1>11. ObjectsOK'
    <2>1. ObjectOK(key)'
      <3>1. \A i \in 0 .. n - 1 :
                /\ made[i + 1] = next + i
                /\ next + i \in 0 .. next + n - 1
                /\ ~(next + i < next)
                /\ (next + i) - next = i
        BY <1>1, <1>2, <1>6
      <3>2. \A i \in 0 .. n - 1 : stripe_info'[made[i + 1]] =
                [schema |-> ec_schema,
                 block_size |-> stored_block_size(ec_schema, value_len, i)]
        <4> SUFFICES ASSUME NEW i \in 0 .. n - 1
                     PROVE  stripe_info'[made[i + 1]] =
                                [schema |-> ec_schema, block_size |->
                                    stored_block_size(ec_schema, value_len, i)]
          OBVIOUS
        <4>1. stripe_info'[next + i] = item(next + i)
          <5> HIDE DEF item, made, o
          <5> QED
            BY <1>3, <3>1
        <4>2. size(next + i) = stored_block_size(ec_schema, value_len, i)
          <5>1. (next + i) - next = i
            BY <3>1
          <5> QED
            BY <1>2, <5>1
        <4> HIDE DEF made, size
        <4> QED
          BY <3>1, <4>1, <4>2
      <3> HIDE DEF made, o, item, size
      <3>3. /\ Len(made) = stripes_to_store(ec_schema, value_len)
            /\ Len(made) <= next_stripe_id'
            /\ 0 < Len(made)
            /\ \A i \in 0 .. Len(made) - 1 : made[i + 1] < next_stripe_id'
        BY <1>1, <1>2, <1>3, <1>6 DEF n
      <3> QED
        BY <1>6, <1>10, <3>2, <3>3 DEF ObjectOK
    <2>2. ASSUME NEW other \in Keys, other # key, object'[other] # None
          PROVE  ObjectOK(other)'
      <3>1. object'[other] = object[other]
        BY <1>9, <2>2
      <3>2. /\ ObjectOK(other)
            /\ Len(object[other].stripes) \in Nat
            /\ \A i \in 0 .. Len(object[other].stripes) - 1 :
                  object[other].stripes[i + 1] \in 0 .. next - 1
        BY <2>2, <3>1, ObjectFacts DEF ObjectInv, ObjectsOK, next
      <3>3. \A s \in 0 .. next - 1 : s < next + n /\ stripe_info'[s] = stripe_info[s]
        BY <1>1, <1>2, <1>3
      <3>4. Len(object[other].stripes) <= next + n
        <4>1. Len(object[other].stripes) <= next
          BY <3>2 DEF ObjectOK, next
        <4> QED
          BY <1>1, <1>2, <3>2, <4>1
      <3> HIDE DEF made, o, item, size
      <3>5. ASSUME NEW i \in 0 .. Len(object[other].stripes) - 1
            PROVE  /\ object[other].stripes[i + 1] < next_stripe_id'
                   /\ stripe_info'[object[other].stripes[i + 1]] =
                          stripe_info[object[other].stripes[i + 1]]
        BY <1>3, <3>2, <3>3
      <3>6. Len(object[other].stripes) <= next_stripe_id'
        BY <1>3, <3>4
      <3> QED
        BY <3>1, <3>2, <3>5, <3>6 DEF ObjectOK
    <2> QED
      BY <2>1, <2>2 DEF ObjectsOK
  <1>12. ASSUME NEW i \in Parts(key)'
         PROVE  i \in 0 .. n - 1 /\ StripeOf(key, i)' = next + i
    <2> HIDE DEF made
    <2> QED
      BY <1>6, <1>10 DEF Parts, StripeOf
  <1>13. ASSUME NEW other \in Keys, other # key
         PROVE  /\ Parts(other)' = Parts(other)
                /\ \A i \in Parts(other) :
                      /\ StripeOf(other, i)' = StripeOf(other, i)
                      /\ StripeOf(other, i) \in 0 .. next - 1
    <2>1. object'[other] = object[other]
      BY <1>9, <1>13
    <2>2. \A i \in Parts(other) : StripeOf(other, i) \in 0 .. next - 1
      BY ObjectFacts DEF Parts, StripeOf, ObjectInv, next
    <2> QED
      BY <2>1, <2>2 DEF Parts, StripeOf
  <1>14. StripesDiffer'
    <2> SUFFICES ASSUME NEW k \in Keys, NEW l \in Keys,
                        NEW i \in Parts(k)', NEW h \in Parts(l)',
                        StripeOf(k, i)' = StripeOf(l, h)'
                 PROVE  k = l /\ i = h
      BY DEF StripesDiffer
    <2>1. CASE k = key /\ l = key
      BY <1>1, <1>2, <1>12, <2>1
    <2>2. CASE k = key /\ l # key
      BY <1>1, <1>2, <1>12, <1>13, <2>2
    <2>3. CASE k # key /\ l = key
      BY <1>1, <1>2, <1>12, <1>13, <2>3
    <2>4. CASE k # key /\ l # key
      BY <1>13, <2>4 DEF ObjectInv, StripesDiffer
    <2> QED
      BY <2>1, <2>2, <2>3, <2>4
  <1>15. next_stripe_id' \in 0 .. MaxStripes /\ next_stripe_id' >= next_stripe_id
    BY <1>1, <1>2, <1>3 DEF next
  <1>16. \A i \in Parts(key)' : StripeOf(key, i)' >= next_stripe_id
    BY <1>1, <1>2, <1>12 DEF next
  <1> QED
    BY <1>5, <1>9, <1>11, <1>14, <1>15, <1>16

-----------------------------------------------------------------------------
\* What each action does to the disks and to the objects.

\* The block that a writer of a set writes.
LEMMA WriterFacts ==
    ASSUME ObjectInv, NEW key \in Keys, NEW j, WriteBlock(key, j)
    PROVE  LET o == object[key]
               s == StripeOf(key, o.stripe)
               contents == EncodedBlock(key, o, o.stripe, j)
           IN  /\ o # None
               /\ o.stripe \in Parts(key)
               /\ s \in StripeIds
               /\ j \in Blocks(o.schema)
               /\ NodeOf(s, j) \in Nodes
               /\ written_id(s, j) \in BlockIds
               /\ contents \in Contents
               /\ WriteDisk(NodeOf(s, j), written_id(s, j), contents)
               /\ IsCached(o.schema, j) =>
                     /\ CacheNodeOf(s, CacheSlot(o.schema, j)) \in Nodes
                     /\ WriteRedis(CacheNodeOf(s, CacheSlot(o.schema, j)),
                                   written_id(s, j), contents)
               /\ ~IsCached(o.schema, j) => redis' = redis
               /\ down' = down
  <1> DEFINE o == object[key]
             s == StripeOf(key, o.stripe)
  <1>1. o # None /\ j \in o.todo
    BY DEF WriteBlock, Storing
  <1>2. /\ o.stripe \in Parts(key)
        /\ o.schema \in Schemas
        /\ s \in StripeIds
        /\ j \in Blocks(o.schema)
    BY <1>1, ObjectFacts DEF ObjectInv, Parts, StripeOf
  <1>3. j \in BlockIndexes
    BY <1>2, SchemaFacts
  <1>4. EncodedBlock(key, o, o.stripe, j) \in Contents
    BY <1>1, <1>2, EncodedFacts DEF ObjectInv, Parts
  <1>5. IsCached(o.schema, j) => CacheNodeOf(s, CacheSlot(o.schema, j)) \in Nodes
    BY <1>2, CachedFacts, PlacesOfCopies
  <1>6. NodeOf(s, j) \in Nodes /\ written_id(s, j) \in BlockIds
    BY <1>2, <1>3, PlacesOfBlocks
  <1>7. /\ WriteDisk(NodeOf(s, j), written_id(s, j),
                     EncodedBlock(key, o, o.stripe, j))
        /\ IF IsCached(o.schema, j)
           THEN WriteRedis(CacheNodeOf(s, CacheSlot(o.schema, j)),
                           written_id(s, j), EncodedBlock(key, o, o.stripe, j))
           ELSE redis' = redis
        /\ down' = down
    BY DEF WriteBlock, StripeOf
  <1> HIDE DEF o, s
  <1> QED
    BY <1>1, <1>2, <1>4, <1>5, <1>6, <1>7 DEF o, s

LEMMA InvOfPartsAfter ==
    ASSUME DiskOK', CopiesTypeOK'
    PROVE  DiskInv'
  <1>1. DiskInv' <=> DiskOK' /\ CopiesTypeOK'
    BY InvOfParts, PTL
  <1> QED
    BY <1>1

LEMMA WriterDisk ==
    ASSUME ObjectInv, NEW key \in Keys, NEW j, WriteBlock(key, j)
    PROVE  DiskInv'
  <1> DEFINE o == object[key]
             s == StripeOf(key, o.stripe)
             contents == EncodedBlock(key, o, o.stripe, j)
  <1>1. DiskInv /\ DatanodeTypeOK
    BY DEF ObjectInv, DiskInv
  <1>2. DiskOK'
    <2>1. /\ NodeOf(s, j) \in Nodes
          /\ written_id(s, j) \in BlockIds
          /\ contents \in Contents
          /\ WriteDisk(NodeOf(s, j), written_id(s, j), contents)
      BY WriterFacts
    <2> QED
      BY <1>1, <2>1, WriteDiskOK
  <1>3. CopiesTypeOK'
    <2>1. CASE IsCached(o.schema, j)
      <3>1. /\ CacheNodeOf(s, CacheSlot(o.schema, j)) \in Nodes
            /\ written_id(s, j) \in BlockIds
            /\ contents \in Contents
            /\ WriteRedis(CacheNodeOf(s, CacheSlot(o.schema, j)),
                          written_id(s, j), contents)
            /\ down' = down
        BY <2>1, WriterFacts
      <3> QED
        BY <1>1, <3>1, WriteRedisType
    <2>2. CASE ~IsCached(o.schema, j)
      <3>1. UNCHANGED <<redis, down>>
        BY <2>2, WriterFacts
      <3> QED
        BY <1>1, <3>1, SameCopiesOK
    <2> QED
      BY <2>1, <2>2
  <1> QED
    BY <1>2, <1>3, InvOfPartsAfter

LEMMA GetDisk ==
    ASSUME ObjectInv, NEW key, Get(key)
    PROVE  DiskInv'
  <1>1. DiskInv /\ DatanodeTypeOK
    BY DEF ObjectInv, DiskInv
  <1>2. /\ ReadDisk(Reads(object[key], FALSE))
        /\ ReadRedis(Reads(object[key], TRUE))
        /\ redis' = redis
    BY DEF Get
  <1> QED
    BY <1>1, <1>2, ReadDiskOK, ReadRedisType, InvOfPartsAfter

\* The block that a repair rebuilds, and its size.
LEMMA RebuildFacts ==
    ASSUME ObjectInv, NEW key \in Keys, NEW i \in StripeIds, NEW j,
           RebuildBlock(key, i, j)
    PROVE  LET o == object[key]
               s == StripeOf(key, i)
               size == stored_block_size(o.schema, o.value_len, i)
               From(h) == Answer(HelperNode(o.schema, s, h), written_id(s, h),
                                 IsCached(o.schema, h))
           IN  /\ o # None
               /\ o.pc = "commited"
               /\ i \in Parts(key)
               /\ s \in 0 .. next_stripe_id - 1
               /\ j \in Blocks(o.schema)
               /\ size \in Nat \ {0}
               /\ repairs < MaxRepairs
               /\ repairs' = repairs + 1
               /\ \E helpers \in Helpers(o.schema, j) :
                     /\ \A h \in helpers : Len(From(h)) >= size
                     /\ repairing' =
                           [stripe |-> s, block |-> j, contents |->
                            IF \A h \in helpers :
                                  IsPrefix(SubSeq(From(h), 1, size),
                                           EncodedBlock(key, o, i, h))
                            THEN SubSeq(EncodedBlock(key, o, i, j), 1, size)
                            ELSE [q \in 1 .. size |-> Garbage]]
               /\ \E reads : ReadDisk(reads)
  <1> DEFINE o == object[key]
             s == StripeOf(key, i)
             size == stored_block_size(o.schema, o.value_len, i)
             info == stripe_info[s]
  <1>1. /\ o # None
        /\ o.pc = "commited"
        /\ i < Len(o.stripes)
        /\ repairs < MaxRepairs
        /\ repairs' = repairs + 1
    BY DEF RebuildBlock
  <1>2. i \in Parts(key)
    <2>1. i \in Nat /\ Len(o.stripes) \in Nat
      BY <1>1, ObjectFacts DEF ObjectInv, StripeIds
    <2> QED
      BY <1>1, <2>1 DEF Parts
  <1>3. /\ s \in 0 .. next_stripe_id - 1
        /\ info = [schema |-> o.schema, block_size |-> size]
    BY <1>1, <1>2, ObjectFacts DEF ObjectInv, ObjectsOK, ObjectOK, Parts, StripeOf
  <1>4. size \in Nat \ {0}
    BY <1>1, <1>2, EncodedFacts DEF ObjectInv, Parts
  <1>5. info.schema = o.schema /\ info.block_size = size
    BY <1>3
  <1> HIDE DEF size, info
  <1>6. /\ j \in Blocks(info.schema)
        /\ \E helpers \in Helpers(info.schema, j) :
              /\ \A h \in helpers :
                    Len(Answer(HelperNode(info.schema, s, h), written_id(s, h),
                               IsCached(info.schema, h))) >= info.block_size
              /\ repairing' =
                    [stripe |-> s, block |-> j, contents |->
                     IF \A h \in helpers :
                           IsPrefix(SubSeq(Answer(HelperNode(info.schema, s, h),
                                                  written_id(s, h),
                                                  IsCached(info.schema, h)),
                                           1, info.block_size),
                                    EncodedBlock(key, o, i, h))
                     THEN SubSeq(EncodedBlock(key, o, i, j), 1, info.block_size)
                     ELSE [q \in 1 .. info.block_size |-> Garbage]]
        /\ \E reads : ReadDisk(reads)
    BY DEF RebuildBlock, StripeOf, info
  <1> HIDE DEF o, s
  <1>7. /\ j \in Blocks(o.schema)
        /\ \E helpers \in Helpers(o.schema, j) :
              /\ \A h \in helpers :
                    Len(Answer(HelperNode(o.schema, s, h), written_id(s, h),
                               IsCached(o.schema, h))) >= size
              /\ repairing' =
                    [stripe |-> s, block |-> j, contents |->
                     IF \A h \in helpers :
                           IsPrefix(SubSeq(Answer(HelperNode(o.schema, s, h),
                                                  written_id(s, h),
                                                  IsCached(o.schema, h)),
                                           1, size),
                                    EncodedBlock(key, o, i, h))
                     THEN SubSeq(EncodedBlock(key, o, i, j), 1, size)
                     ELSE [q \in 1 .. size |-> Garbage]]
    BY <1>5, <1>6
  <1> QED
    BY <1>1, <1>2, <1>3, <1>4, <1>6, <1>7 DEF o, s, size

LEMMA RebuiltType ==
    ASSUME ObjectInv, NEW key \in Keys, NEW i \in StripeIds, NEW j,
           RebuildBlock(key, i, j)
    PROVE  /\ repairing' \in Repairing
           /\ repairing'.stripe < next_stripe_id
  <1> DEFINE o == object[key]
             s == StripeOf(key, i)
             size == stored_block_size(o.schema, o.value_len, i)
             right == SubSeq(EncodedBlock(key, o, i, j), 1, size)
             wrong == [q \in 1 .. size |-> Garbage]
  <1>1. /\ o # None
        /\ i \in Parts(key)
        /\ s \in 0 .. next_stripe_id - 1
        /\ j \in Blocks(o.schema)
        /\ size \in Nat \ {0}
    BY RebuildFacts
  <1>2. /\ o.schema \in Schemas
        /\ s \in StripeIds
        /\ next_stripe_id \in Nat
    <2>1. next_stripe_id \in 0 .. MaxStripes /\ MaxStripes \in Nat
      BY StripedAssumption DEF ObjectInv, TypeOK
    <2> QED
      BY <1>1, <2>1, ObjectFacts DEF ObjectInv, StripeIds
  <1>3. right \in Contents
    <2>1. /\ EncodedBlock(key, o, i, j) \in Contents
          /\ Len(EncodedBlock(key, o, i, j)) = size
      BY <1>1, EncodedFacts DEF ObjectInv, Parts
    <2> QED
      BY <1>1, <2>1, FirstBytes
  <1>4. wrong \in Contents
    BY <1>1, StripedAssumption DEF Contents
  <1>5. \E c \in {right, wrong} :
            repairing' = [stripe |-> s, block |-> j, contents |-> c]
    BY RebuildFacts
  <1>6. j \in BlockIndexes
    BY <1>1, <1>2, SchemaFacts
  <1> HIDE DEF right, wrong, s
  <1> QED
    BY <1>1, <1>2, <1>3, <1>4, <1>5, <1>6 DEF Repairing

LEMMA RebuildDisk ==
    ASSUME ObjectInv, NEW key \in Keys, NEW i \in StripeIds, NEW j,
           RebuildBlock(key, i, j)
    PROVE  DiskInv'
  <1>1. PICK reads : ReadDisk(reads)
    BY RebuildFacts
  <1>2. UNCHANGED <<redis, down>>
    BY DEF RebuildBlock
  <1> QED
    BY <1>1, <1>2, ReadDiskOK, SameCopiesOK, InvOfPartsAfter DEF ObjectInv

LEMMA WriteBackFacts ==
    ASSUME ObjectInv, WriteBack
    PROVE  LET r == repairing
           IN  /\ r # None
               /\ r.stripe \in StripeIds
               /\ r.stripe < next_stripe_id
               /\ r.block \in BlockIndexes
               /\ r.contents \in Contents
               /\ NodeOf(r.stripe, r.block) \in Nodes
               /\ written_id(r.stripe, r.block) \in BlockIds
               /\ WriteDisk(NodeOf(r.stripe, r.block),
                            written_id(r.stripe, r.block), r.contents)
               /\ UNCHANGED <<redis, down>>
  <1>1. repairing # None /\ repairing \in Repairing
    BY DEF WriteBack, ObjectInv, TypeOK
  <1>2. /\ repairing.stripe \in StripeIds
        /\ repairing.block \in BlockIndexes
        /\ repairing.contents \in Contents
    BY <1>1 DEF Repairing
  <1> QED
    BY <1>1, <1>2, PlacesOfBlocks DEF WriteBack, ObjectInv, RepairKnown

LEMMA WriteBackDisk ==
    ASSUME ObjectInv, WriteBack
    PROVE  DiskInv'
  BY WriteBackFacts, WriteDiskOK, SameCopiesOK, InvOfPartsAfter DEF ObjectInv

\* Steps that leave the datanodes alone.
LEMMA SameDatanodes ==
    ASSUME ObjectInv, UNCHANGED <<datanode, spoilt>>
    PROVE  DiskInv' /\ NoneOutgrown'
  <1>1. DiskInv'
    BY SameDiskOK, SameCopiesOK, InvOfPartsAfter DEF ObjectInv, datanode
  <1>2. NoneOutgrown'
    BY DEF ObjectInv, NoneOutgrown, Outgrown, datanode, disk
  <1> QED
    BY <1>1, <1>2

\* A node that is outgrown is noted.
LEMMA OutgrownIsNoted ==
    ASSUME NoteOutgrown, spoilt \in BOOLEAN
    PROVE  /\ spoilt' \in BOOLEAN
           /\ NoneOutgrown'
           /\ ~spoilt' => ~spoilt
  BY DEF NoteOutgrown, NoneOutgrown

-----------------------------------------------------------------------------
\* Each action keeps the invariant; all but get_proxy_location leave every
\* object's layout as it is.

LEMMA DiskInvHasTypes ==
    DiskInv => DatanodeTypeOK
  BY DEF DiskInv

LEMMA SetParametersKeeps ==
    ASSUME ObjectInv, NEW schema \in Schemas, SetParameters(schema)
    PROVE  ObjectInv' /\ SameLayout
  <1>1. /\ object' \in [Keys -> Object \cup {None}]
        /\ ObjectsOK'
        /\ StripesDiffer'
        /\ SameLayout
    BY SameObjects DEF SetParameters
  <1>2. DiskInv' /\ NoneOutgrown' /\ DatanodeTypeOK'
    <2>1. DiskInv' /\ NoneOutgrown'
      BY SameDatanodes DEF SetParameters
    <2> QED
      BY <2>1, DiskInvHasTypes, PTL
  <1>3. TypeOK'
    BY <1>1, <1>2 DEF SetParameters, ObjectInv, TypeOK
  <1>4. RepairKnown'
    BY DEF SetParameters, ObjectInv, RepairKnown
  <1> QED
    BY <1>1, <1>2, <1>3, <1>4 DEF ObjectInv

LEMMA PlacingKeeps ==
    ASSUME ObjectInv, NEW key \in Keys, NEW value_len \in Lengths,
           GetProxyLocation(key, value_len)
    PROVE  ObjectInv'
  <1>1. /\ next_stripe_id' \in 0 .. MaxStripes
        /\ next_stripe_id' >= next_stripe_id
        /\ stripe_info' \in [0 .. next_stripe_id' - 1 -> StripeInfo]
        /\ object' \in [Keys -> Object \cup {None}]
        /\ ObjectsOK'
        /\ StripesDiffer'
    BY PlacingKeepsObjects
  <1>2. DiskInv' /\ NoneOutgrown' /\ DatanodeTypeOK'
    <2>1. DiskInv' /\ NoneOutgrown'
      BY SameDatanodes DEF GetProxyLocation
    <2> QED
      BY <2>1, DiskInvHasTypes, PTL
  <1>3. TypeOK'
    BY <1>1, <1>2 DEF GetProxyLocation, ObjectInv, TypeOK
  <1>4. RepairKnown'
    <2>1. repairing # None => repairing.stripe \in StripeIds
      BY DEF ObjectInv, TypeOK, Repairing
    <2>2. repairing # None => repairing.stripe < next_stripe_id'
      <3>1. /\ MaxStripes \in Nat
            /\ next_stripe_id \in 0 .. MaxStripes
            /\ repairing # None => repairing.stripe < next_stripe_id
        BY StripedAssumption DEF ObjectInv, TypeOK, RepairKnown
      <3> QED
        BY <1>1, <2>1, <3>1 DEF StripeIds
    <2> QED
      BY <2>2 DEF GetProxyLocation, RepairKnown
  <1> QED
    BY <1>1, <1>2, <1>3, <1>4 DEF ObjectInv

LEMMA WriterKeeps ==
    ASSUME ObjectInv, NEW key \in Keys, NEW j, WriteBlock(key, j)
    PROVE  ObjectInv' /\ SameLayout
  <1> DEFINE o == [object[key] EXCEPT !.todo = @ \ {j}]
  <1>1. object[key] # None /\ object[key] \in Object
    BY WriterFacts DEF ObjectInv, TypeOK
  <1>2. /\ o \in Object
        /\ o.value_len = object[key].value_len
        /\ o.schema = object[key].schema
        /\ o.stripes = object[key].stripes
        /\ o.stripe = object[key].stripe
        /\ o.todo = object[key].todo \ {j}
    BY <1>1 DEF Object
  <1>3. /\ o.stripe < Len(o.stripes)
        /\ o.todo \subseteq Blocks(o.schema)
    BY <1>1, <1>2 DEF ObjectInv, ObjectsOK, ObjectOK
  <1>4. /\ object' = [object EXCEPT ![key] = o]
        /\ UNCHANGED <<next_stripe_id, stripe_info>>
    BY DEF WriteBlock
  <1> HIDE DEF o
  <1>5. /\ object' \in [Keys -> Object \cup {None}]
        /\ ObjectsOK'
        /\ StripesDiffer'
        /\ SameLayout
    BY <1>1, <1>2, <1>3, <1>4, ProgressKeepsObjects
  <1>6. DiskInv' /\ DatanodeTypeOK'
    <2>1. DiskInv'
      BY WriterDisk
    <2> QED
      BY <2>1, DiskInvHasTypes, PTL
  <1>7. NoneOutgrown' /\ spoilt' \in BOOLEAN
    BY OutgrownIsNoted DEF WriteBlock, ObjectInv, TypeOK
  <1>8. TypeOK'
    BY <1>5, <1>6, <1>7 DEF WriteBlock, ObjectInv, TypeOK
  <1>9. RepairKnown'
    BY DEF WriteBlock, ObjectInv, RepairKnown
  <1> QED
    BY <1>5, <1>6, <1>7, <1>8, <1>9 DEF ObjectInv

LEMMA JoinKeeps ==
    ASSUME ObjectInv, NEW key \in Keys, JoinWriters(key)
    PROVE  ObjectInv' /\ SameLayout
  <1> DEFINE o == object[key]
             done == [o EXCEPT !.pc = "commited"]
             next == [o EXCEPT !.stripe = @ + 1, !.todo = Blocks(o.schema)]
             new == IF o.stripe = Len(o.stripes) - 1 THEN done ELSE next
  <1>1. o # None /\ o \in Object
    BY DEF JoinWriters, Storing, ObjectInv, TypeOK
  <1>2. /\ o.stripe \in 0 .. Len(o.stripes) - 1
        /\ Len(o.stripes) \in Nat
        /\ o.todo \subseteq Blocks(o.schema)
        /\ o.schema \in Schemas
    BY <1>1, ObjectFacts DEF ObjectInv
  <1>3. Blocks(o.schema) \subseteq BlockIndexes
    BY <1>2, SchemaFacts
  <1>4. /\ done \in Object
        /\ done.value_len = o.value_len
        /\ done.schema = o.schema
        /\ done.stripes = o.stripes
        /\ done.stripe = o.stripe
        /\ done.todo = o.todo
    BY <1>1 DEF Object
  <1>5. /\ next \in Object
        /\ next.value_len = o.value_len
        /\ next.schema = o.schema
        /\ next.stripes = o.stripes
        /\ next.stripe = o.stripe + 1
        /\ next.todo = Blocks(o.schema)
    <2>1. o.stripe + 1 \in Nat
      BY <1>2
    <2> QED
      BY <1>1, <1>3, <2>1 DEF Object
  <1>6. /\ object' = [object EXCEPT ![key] = new]
        /\ UNCHANGED <<next_stripe_id, stripe_info>>
    BY DEF JoinWriters
  <1> HIDE DEF o, done, next
  <1>7. /\ new \in Object
        /\ new.value_len = o.value_len
        /\ new.schema = o.schema
        /\ new.stripes = o.stripes
        /\ new.stripe < Len(new.stripes)
        /\ new.todo \subseteq Blocks(new.schema)
    BY <1>2, <1>4, <1>5
  <1> HIDE DEF new
  <1>8. /\ object' \in [Keys -> Object \cup {None}]
        /\ ObjectsOK'
        /\ StripesDiffer'
        /\ SameLayout
    BY <1>1, <1>6, <1>7, ProgressKeepsObjects DEF o
  <1>9. DiskInv' /\ NoneOutgrown' /\ DatanodeTypeOK'
    <2>1. DiskInv' /\ NoneOutgrown'
      BY SameDatanodes DEF JoinWriters
    <2> QED
      BY <2>1, DiskInvHasTypes, PTL
  <1>10. TypeOK'
    BY <1>8, <1>9 DEF JoinWriters, ObjectInv, TypeOK
  <1>11. RepairKnown'
    BY DEF JoinWriters, ObjectInv, RepairKnown
  <1> QED
    BY <1>8, <1>9, <1>10, <1>11 DEF ObjectInv

LEMMA GetKeeps ==
    ASSUME ObjectInv, NEW key \in Keys, Get(key)
    PROVE  ObjectInv' /\ SameLayout
  <1>1. /\ object' \in [Keys -> Object \cup {None}]
        /\ ObjectsOK'
        /\ StripesDiffer'
        /\ SameLayout
    BY SameObjects DEF Get
  <1>2. DiskInv' /\ DatanodeTypeOK'
    <2>1. DiskInv'
      BY GetDisk
    <2> QED
      BY <2>1, DiskInvHasTypes, PTL
  <1>3. NoneOutgrown' /\ spoilt' \in BOOLEAN
    BY OutgrownIsNoted DEF Get, ObjectInv, TypeOK
  <1>4. got' \in Got
    <2>1. object[key] # None
      BY DEF Get
    <2>2. \E value \in Delivered(key, object[key]), code \in BOOLEAN,
             whole \in BOOLEAN :
              got' = [key |-> key, value |-> value, code |-> code, whole |-> whole]
      BY DEF Get, SameCode
    <2> QED
      BY <2>1, <2>2, DeliveredType DEF Got, ObjectInv
  <1>5. TypeOK'
    BY <1>1, <1>2, <1>3, <1>4 DEF Get, ObjectInv, TypeOK
  <1>6. RepairKnown'
    BY DEF Get, ObjectInv, RepairKnown
  <1> QED
    BY <1>1, <1>2, <1>3, <1>5, <1>6 DEF ObjectInv

LEMMA RebuildKeeps ==
    ASSUME ObjectInv, NEW key \in Keys, NEW i \in StripeIds, NEW j,
           RebuildBlock(key, i, j)
    PROVE  ObjectInv' /\ SameLayout
  <1>1. /\ object' \in [Keys -> Object \cup {None}]
        /\ ObjectsOK'
        /\ StripesDiffer'
        /\ SameLayout
    BY SameObjects DEF RebuildBlock
  <1>2. DiskInv' /\ DatanodeTypeOK'
    <2>1. DiskInv'
      BY RebuildDisk
    <2> QED
      BY <2>1, DiskInvHasTypes, PTL
  <1>3. NoneOutgrown' /\ spoilt' \in BOOLEAN
    BY OutgrownIsNoted DEF RebuildBlock, ObjectInv, TypeOK
  <1>4. repairs' \in 0 .. MaxRepairs
    <2>1. repairs < MaxRepairs /\ repairs' = repairs + 1
      BY RebuildFacts
    <2> QED
      BY <2>1, StripedAssumption DEF ObjectInv, TypeOK
  <1>5. repairing' \in Repairing /\ RepairKnown'
    <2>1. repairing' \in Repairing /\ repairing'.stripe < next_stripe_id
      BY RebuiltType
    <2>2. next_stripe_id' = next_stripe_id
      BY DEF RebuildBlock
    <2> QED
      BY <2>1, <2>2 DEF RepairKnown
  <1>6. TypeOK'
    BY <1>1, <1>2, <1>3, <1>4, <1>5 DEF RebuildBlock, ObjectInv, TypeOK
  <1> QED
    BY <1>1, <1>2, <1>3, <1>5, <1>6 DEF ObjectInv

LEMMA WriteBackKeeps ==
    ASSUME ObjectInv, WriteBack
    PROVE  ObjectInv' /\ SameLayout
  <1>1. /\ object' \in [Keys -> Object \cup {None}]
        /\ ObjectsOK'
        /\ StripesDiffer'
        /\ SameLayout
    BY SameObjects DEF WriteBack
  <1>2. DiskInv' /\ DatanodeTypeOK'
    <2>1. DiskInv'
      BY WriteBackDisk
    <2> QED
      BY <2>1, DiskInvHasTypes, PTL
  <1>3. NoneOutgrown' /\ spoilt' \in BOOLEAN
    BY OutgrownIsNoted DEF WriteBack, ObjectInv, TypeOK
  <1>4. TypeOK'
    BY <1>1, <1>2, <1>3 DEF WriteBack, ObjectInv, TypeOK
  <1>5. RepairKnown'
    BY DEF WriteBack, RepairKnown
  <1> QED
    BY <1>1, <1>2, <1>3, <1>4, <1>5 DEF ObjectInv

LEMMA RestartKeeps ==
    ASSUME ObjectInv, NEW n \in Unsteady, RestartNode(n)
    PROVE  ObjectInv' /\ SameLayout
  <1>1. /\ object' \in [Keys -> Object \cup {None}]
        /\ ObjectsOK'
        /\ StripesDiffer'
        /\ SameLayout
    BY SameObjects DEF RestartNode
  <1>2. n \in Nodes /\ StartAnew(n)
    BY StripedAssumption DEF RestartNode
  <1>3. DiskInv' /\ DatanodeTypeOK'
    <2>1. DiskInv'
      BY <1>2, StartAnewInv DEF ObjectInv
    <2> QED
      BY <2>1, DiskInvHasTypes, PTL
  <1>4. NoneOutgrown'
    <2>1. ~Outgrown(n)'
      <3>1. file'[n] = <<>> /\ n \notin failed'
        BY <1>2 DEF StartAnew, ObjectInv, DiskInv, DatanodeTypeOK
      <3>2. Len(file'[n]) = 0 /\ IntMax \in Nat
        BY <3>1, DatanodeAssumption
      <3> QED
        BY <3>1, <3>2 DEF Outgrown
    <2>2. ASSUME NEW m \in Nodes, m # n, ~Outgrown(m)
          PROVE  ~Outgrown(m)'
      BY <1>2, <2>2 DEF StartAnew, Outgrown, ObjectInv, DiskInv, DatanodeTypeOK
    <2> QED
      BY <2>1, <2>2 DEF RestartNode, ObjectInv, NoneOutgrown
  <1>5. restarts' \in 0 .. MaxRestarts
    BY StripedAssumption DEF RestartNode, ObjectInv, TypeOK
  <1>6. TypeOK'
    BY <1>1, <1>3, <1>5 DEF RestartNode, ObjectInv, TypeOK
  <1>7. RepairKnown'
    BY DEF RestartNode, ObjectInv, RepairKnown
  <1> QED
    BY <1>1, <1>3, <1>4, <1>6, <1>7 DEF ObjectInv

LEMMA StutterKeeps ==
    ASSUME ObjectInv, UNCHANGED vars
    PROVE  ObjectInv' /\ SameLayout
  <1>1. /\ object' \in [Keys -> Object \cup {None}]
        /\ ObjectsOK'
        /\ StripesDiffer'
        /\ SameLayout
    BY SameObjects DEF vars
  <1>2. DiskInv' /\ NoneOutgrown' /\ DatanodeTypeOK'
    <2>1. DiskInv' /\ NoneOutgrown'
      BY SameDatanodes DEF vars
    <2> QED
      BY <2>1, DiskInvHasTypes, PTL
  <1>3. TypeOK'
    BY <1>1, <1>2 DEF vars, ObjectInv, TypeOK
  <1>4. RepairKnown'
    BY DEF vars, ObjectInv, RepairKnown
  <1> QED
    BY <1>1, <1>2, <1>3, <1>4 DEF ObjectInv

LEMMA InitObjectInv ==
    Init => ObjectInv
  <1> SUFFICES ASSUME Init
               PROVE  ObjectInv
    OBVIOUS
  <1>1. DiskInv /\ DatanodeTypeOK
    BY InitInv DEF Init, DiskInv
  <1>2. \A key \in Keys : object[key] = None
    BY DEF Init
  <1>3. stripe_info \in [0 .. next_stripe_id - 1 -> StripeInfo]
    BY DEF Init, NoEntries
  <1>4. TypeOK
    <2>1. /\ FirstSchema \in Schemas
          /\ 0 \in 0 .. MaxStripes
          /\ 0 \in 0 .. MaxRestarts
          /\ 0 \in 0 .. MaxRepairs
      BY StripedAssumption
    <2> QED
      BY <1>1, <1>3, <2>1 DEF Init, TypeOK
  <1>5. ObjectsOK /\ StripesDiffer
    BY <1>2 DEF ObjectsOK, StripesDiffer, Parts
  <1>6. NoneOutgrown
    <2>1. ASSUME NEW n \in Nodes
          PROVE  ~Outgrown(n)
      <3>1. file[n] = <<>> /\ n \notin failed
        BY DEF Init, DatanodeInit
      <3>2. Len(file[n]) = 0 /\ IntMax \in Nat
        BY <3>1, DatanodeAssumption
      <3> QED
        BY <3>1, <3>2 DEF Outgrown
    <2> QED
      BY <2>1 DEF NoneOutgrown
  <1>7. RepairKnown
    BY DEF Init, RepairKnown
  <1> QED
    BY <1>1, <1>4, <1>5, <1>6, <1>7 DEF ObjectInv

LEMMA NextObjectInv ==
    ObjectInv /\ [Next]_vars => ObjectInv'
  <1> SUFFICES ASSUME ObjectInv, [Next]_vars
               PROVE  ObjectInv'
    OBVIOUS
  <1>1. CASE UNCHANGED vars
    BY <1>1, StutterKeeps
  <1>2. CASE Next
    BY <1>2, SetParametersKeeps, PlacingKeeps, WriterKeeps, JoinKeeps, GetKeeps,
       RebuildKeeps, WriteBackKeeps, RestartKeeps DEF Next
  <1> QED
    BY <1>1, <1>2

\* Every variable keeps its type, whatever is set, read, repaired and started
\* anew: no stripe is placed beyond its id, no read asks a position that is
\* neither a node nor none, and all that a client is sent are bytes.
THEOREM StripedTypes ==
    Spec => []TypeOK
  <1>1. ObjectInv => TypeOK
    BY DEF ObjectInv
  <1> QED
    BY <1>1, InitObjectInv, NextObjectInv, PTL DEF Spec

-----------------------------------------------------------------------------
\* The disks under all of this are those of Datanode, also as BlockMap sees
\* them.

\* A get or a repair reads, a writer or a repair writes one block, and nothing
\* else is done to a disk but starting its node anew: a block that is read is
\* what was last written of it, in the whole system as at one datanode.
THEOREM StripedKeepsBlocks ==
    Spec => KeepsBlocks
  <1>1. Init => Disks!Init
    BY InitIsInit DEF Init
  <1>2. ObjectInv /\ ObjectInv' /\ [Next]_vars
            => [Disks!Next]_<<KeptBlocks, KeptBytes, OutgrownNodes>>
    <2> SUFFICES ASSUME ObjectInv, ObjectInv', [Next]_vars
                 PROVE  \/ Disks!Next
                        \/ UNCHANGED <<KeptBlocks, KeptBytes, OutgrownNodes>>
      OBVIOUS
    <2>1. DiskInv /\ DiskInv'
      BY DEF ObjectInv
    <2>2. ASSUME NEW n \in Nodes, NEW id \in BlockIds, NEW value \in Contents,
                 WriteDisk(n, id, value)
          PROVE  Disks!Next
      BY <2>1, <2>2, WriteIsStep DEF Disks!Next
    <2>3. ASSUME NEW reads, ReadDisk(reads)
          PROVE  UNCHANGED <<KeptBlocks, KeptBytes, OutgrownNodes>>
      BY <2>1, <2>3, GoodReads, SameBlocks DEF ReadDisk
    <2>4. CASE UNCHANGED datanode
      BY <2>4, SameBlocks DEF datanode, disk, Outgrown
    <2>5. CASE \/ \E schema \in Schemas : SetParameters(schema)
               \/ \E key \in Keys, value_len \in Lengths :
                     GetProxyLocation(key, value_len)
               \/ \E key \in Keys : JoinWriters(key)
               \/ UNCHANGED vars
      BY <2>4, <2>5 DEF SetParameters, GetProxyLocation, JoinWriters, vars
    <2>6. ASSUME NEW key \in Keys, NEW j, WriteBlock(key, j)
          PROVE  Disks!Next
      BY <2>2, <2>6, WriterFacts
    <2>7. ASSUME NEW key \in Keys, Get(key)
          PROVE  UNCHANGED <<KeptBlocks, KeptBytes, OutgrownNodes>>
      BY <2>3, <2>7 DEF Get
    <2>8. ASSUME NEW key \in Keys, NEW i \in StripeIds, NEW j,
                 RebuildBlock(key, i, j)
          PROVE  UNCHANGED <<KeptBlocks, KeptBytes, OutgrownNodes>>
      BY <2>3, <2>8, RebuildFacts
    <2>9. CASE WriteBack
      BY <2>2, <2>9, WriteBackFacts
    <2>10. ASSUME NEW n \in Unsteady, RestartNode(n)
           PROVE  Disks!Next
      <3>1. n \in Nodes /\ StartAnew(n)
        BY <2>10, StripedAssumption DEF RestartNode
      <3> QED
        BY <2>1, <3>1, StartAnewIsStartAnew DEF Disks!Next
    <2> QED
      BY <2>5, <2>6, <2>7, <2>8, <2>9, <2>10 DEF Next
  <1> QED
    BY <1>1, <1>2, InitObjectInv, NextObjectInv, PTL
    DEF Spec, KeepsBlocks, Disks!Spec, OutgrownNodes

-----------------------------------------------------------------------------
\* What the blocks and copies contain, as long as no id is given twice: stripe
\* ids times IdSpan fit an unsigned int, and a stripe has no more blocks than
\* ids are set aside for it.
NoIdTwice ==
    /\ MaxStripes * IdSpan <= UIntSize
    /\ \A schema \in Schemas : NumBlocks(schema) <= IdSpan

LEMMA IdsDiffer ==
    ASSUME NoIdTwice, NEW s \in StripeIds, NEW t \in StripeIds,
           NEW j \in BlockIndexes, NEW i \in BlockIndexes,
           written_id(s, j) = written_id(t, i)
    PROVE  s = t /\ j = i
  <1>1. IdSpan \in Nat \ {0} /\ UIntSize \in Nat \ {0} /\ MaxStripes \in Nat
    BY LayoutAssumption, StripedAssumption
  <1>2. ASSUME NEW b \in BlockIndexes
        PROVE  b \in 0 .. IdSpan - 1
    <2>1. PICK schema \in Schemas : b \in Blocks(schema)
      BY <1>2 DEF BlockIndexes
    <2> QED
      BY <1>1, <2>1, SchemaFacts DEF NoIdTwice
  <1>3. ASSUME NEW u \in StripeIds, NEW b \in BlockIndexes
        PROVE  u \in Nat /\ u * IdSpan + b < UIntSize
    <2>1. u \in Nat /\ u + 1 <= MaxStripes /\ b \in 0 .. IdSpan - 1
      BY <1>1, <1>2 DEF StripeIds
    <2>2. IdSpan * MaxStripes >= IdSpan * (u + 1)
      BY <1>1, <2>1, Monotone
    <2>3. /\ IdSpan * (u + 1) = u * IdSpan + IdSpan
          /\ IdSpan * MaxStripes = MaxStripes * IdSpan
          /\ u * IdSpan \in Nat
          /\ MaxStripes * IdSpan \in Nat
      BY <1>1, <2>1, ProductsOfNaturals
    <2> QED
      BY <1>1, <2>1, <2>2, <2>3 DEF NoIdTwice
  <1> QED
    BY <1>2, <1>3, BlockIdsAreDistinct

\* Only blocks of stripes that were placed have been stored.
IdsKnown ==
    \A n \in Nodes : \A id \in DOMAIN block_info[n] \cup DOMAIN redis[n] :
        \E s \in 0 .. next_stripe_id - 1, j \in BlockIndexes :
            id = written_id(s, j)

\* The writer of block j of stripe i has come to its end.
Written(key, i, j) ==
    LET o == object[key]
    IN  \/ o.pc = "commited"
        \/ i < o.stripe
        \/ i = o.stripe /\ j \notin o.todo

\* A copy is what was encoded, and is there once it was written.
CopyRight(key, i, j) ==
    LET o  == object[key]
        s  == StripeOf(key, i)
        n  == CacheNodeOf(s, CacheSlot(o.schema, j))
        id == written_id(s, j)
    IN  /\ id \in DOMAIN redis[n] => redis[n][id] = EncodedBlock(key, o, i, j)
        /\ Written(key, i, j) => id \in DOMAIN redis[n]

CopiesRight ==
    \A key \in Keys : \A i \in Parts(key), j \in Blocks(object[key].schema) :
        IsCached(object[key].schema, j) => CopyRight(key, i, j)

BlockRight(key, i, j) ==
    LET o == object[key]
        s == StripeOf(key, i)
    IN  Kept(s, j) =>
            find_value_by_key_from_disk(NodeOf(s, j), written_id(s, j)) =
                EncodedBlock(key, o, i, j)

BlocksRight ==
    ~spoilt => \A key \in Keys : \A i \in Parts(key), j \in Blocks(object[key].schema) :
                   BlockRight(key, i, j)

\* What is to be written to repair block j of stripe s.
RightFor(s, j, contents) ==
    \A key \in Keys : \A i \in Parts(key) :
        StripeOf(key, i) = s => contents = EncodedBlock(key, object[key], i, j)

RepairRight ==
    repairing # None /\ ~spoilt =>
        RightFor(repairing.stripe, repairing.block, repairing.contents)

ContentsInv ==
    /\ IdsKnown
    /\ CopiesRight
    /\ BlocksRight
    /\ RepairRight

LEMMA BlocksRightIsReadBack ==
    BlocksRight => BlocksReadBack
  BY DEF BlocksRight, BlockRight, BlocksReadBack, Parts, StripeOf

LEMMA LayoutStays ==
    ASSUME SameLayout, NEW key \in Keys, NEW i \in Parts(key)'
    PROVE  /\ i \in Parts(key)
           /\ StripeOf(key, i)' = StripeOf(key, i)
           /\ object'[key].schema = object[key].schema
           /\ \A j : EncodedBlock(key, object'[key], i, j) =
                         EncodedBlock(key, object[key], i, j)
  <1>1. /\ object'[key] # None
        /\ i \in 0 .. Len(object'[key].stripes) - 1
    BY DEF Parts
  <1> QED
    BY <1>1 DEF SameLayout, Parts, StripeOf, EncodedBlock

LEMMA StripeFacts ==
    ASSUME ObjectInv, NEW key \in Keys, NEW i \in Parts(key)
    PROVE  LET o == object[key]
           IN  /\ o # None
               /\ i \in 0 .. Len(o.stripes) - 1
               /\ i \in StripeIds
               /\ o.schema \in Schemas
               /\ Blocks(o.schema) \subseteq BlockIndexes
               /\ StripeOf(key, i) \in StripeIds
               /\ StripeOf(key, i) \in 0 .. next_stripe_id - 1
  <1>1. object[key] # None /\ i \in 0 .. Len(object[key].stripes) - 1
    BY DEF Parts
  <1> QED
    BY <1>1, ObjectFacts, SchemaFacts DEF ObjectInv, StripeOf

-----------------------------------------------------------------------------
\* Steps that leave a part of this alone.

LEMMA IdsStay ==
    ASSUME IdsKnown, UNCHANGED <<block_info, redis, next_stripe_id>>
    PROVE  IdsKnown'
  BY DEF IdsKnown

LEMMA CopiesStay ==
    ASSUME CopiesRight, SameLayout, UNCHANGED redis,
           \A key \in Keys : \A i \in Parts(key)', j \in Blocks(object[key].schema) :
               Written(key, i, j)' => Written(key, i, j)
    PROVE  CopiesRight'
  <1> SUFFICES ASSUME NEW key \in Keys, NEW i \in Parts(key)',
                      NEW j \in Blocks(object'[key].schema),
                      IsCached(object'[key].schema, j)
               PROVE  CopyRight(key, i, j)'
    BY DEF CopiesRight
  <1>1. /\ i \in Parts(key)
        /\ StripeOf(key, i)' = StripeOf(key, i)
        /\ object'[key].schema = object[key].schema
        /\ EncodedBlock(key, object'[key], i, j) = EncodedBlock(key, object[key], i, j)
    BY LayoutStays
  <1>2. CopyRight(key, i, j)
    BY <1>1 DEF CopiesRight
  <1>3. Written(key, i, j)' => Written(key, i, j)
    BY <1>1
  <1> QED
    BY <1>1, <1>2, <1>3 DEF CopyRight

LEMMA BlocksStay ==
    ASSUME ObjectInv, BlocksRight, SameLayout, NoneOutgrown',
           UNCHANGED <<file, block_info>>, ~spoilt' => ~spoilt
    PROVE  BlocksRight'
  <1> SUFFICES ASSUME ~spoilt', NEW key \in Keys, NEW i \in Parts(key)',
                      NEW j \in Blocks(object'[key].schema)
               PROVE  BlockRight(key, i, j)'
    BY DEF BlocksRight
  <1>0. PICK s : s = StripeOf(key, i)
    OBVIOUS
  <1> DEFINE n == NodeOf(s, j)
             id == written_id(s, j)
  <1>1. /\ i \in Parts(key)
        /\ StripeOf(key, i)' = s
        /\ object'[key].schema = object[key].schema
        /\ EncodedBlock(key, object'[key], i, j) = EncodedBlock(key, object[key], i, j)
    BY <1>0, LayoutStays
  <1>2. n \in Nodes
    BY <1>0, <1>1, StripeFacts, PlacesOfBlocks
  <1>3. find_value_by_key_from_disk(n, id)' = find_value_by_key_from_disk(n, id)
    BY <1>2, SameReads DEF ObjectInv, NoneOutgrown
  <1>4. Kept(s, j)' = Kept(s, j)
    BY DEF Kept
  <1>5. BlockRight(key, i, j)
    BY <1>1 DEF BlocksRight
  <1> QED
    BY <1>0, <1>1, <1>3, <1>4, <1>5 DEF BlockRight

LEMMA RepairStays ==
    ASSUME RepairRight, SameLayout, UNCHANGED repairing, ~spoilt' => ~spoilt
    PROVE  RepairRight'
  BY LayoutStays DEF RepairRight, RightFor

\* A write of what was encoded, by a writer of a set or to repair.
LEMMA RightWrite ==
    ASSUME NoIdTwice, ObjectInv, BlocksRight, SameLayout, NoneOutgrown',
           ~spoilt' => ~spoilt,
           NEW s \in StripeIds, NEW j \in BlockIndexes, NEW value \in Contents,
           WriteDisk(NodeOf(s, j), written_id(s, j), value),
           ~spoilt' => RightFor(s, j, value)
    PROVE  BlocksRight'
  <1> SUFFICES ASSUME ~spoilt', NEW key \in Keys, NEW i \in Parts(key)',
                      NEW b \in Blocks(object'[key].schema)
               PROVE  BlockRight(key, i, b)'
    BY DEF BlocksRight
  <1>0. PICK t : t = StripeOf(key, i)
    OBVIOUS
  <1> DEFINE n == NodeOf(s, j)
             m == NodeOf(t, b)
             id == written_id(s, j)
             other == written_id(t, b)
  <1>1. /\ i \in Parts(key)
        /\ StripeOf(key, i)' = t
        /\ object'[key].schema = object[key].schema
        /\ EncodedBlock(key, object'[key], i, b) = EncodedBlock(key, object[key], i, b)
    BY <1>0, LayoutStays
  <1>2. t \in StripeIds /\ b \in BlockIndexes
    BY <1>0, <1>1, StripeFacts
  <1>3. n \in Nodes /\ m \in Nodes /\ id \in BlockIds
    BY <1>2, PlacesOfBlocks
  <1>4. DiskInv /\ ~Outgrown(n) /\ ~Outgrown(m) /\ ~Outgrown(n)'
    BY <1>3 DEF ObjectInv, NoneOutgrown
  <1>5. BlockRight(key, i, b)
    BY <1>1 DEF BlocksRight
  <1>6. CASE m # n
    <2>1. /\ block_info'[m] = block_info[m]
          /\ find_value_by_key_from_disk(m, other)' =
                 find_value_by_key_from_disk(m, other)
      BY <1>3, <1>4, <1>6, BlocksElsewhere
    <2>2. Kept(t, b)' = Kept(t, b)
      BY <2>1 DEF Kept
    <2> QED
      BY <1>0, <1>1, <1>5, <2>1, <2>2 DEF BlockRight
  <1>7. /\ DOMAIN block_info'[n] = DOMAIN block_info[n] \cup {id}
        /\ find_value_by_key_from_disk(n, id)' = value
        /\ \A known \in DOMAIN block_info[n] \ {id} :
              find_value_by_key_from_disk(n, known)' =
                  find_value_by_key_from_disk(n, known)
    BY <1>3, <1>4, WrittenBlocks
  <1>8. CASE m = n /\ other = id
    <2>1. t = s /\ b = j
      BY <1>2, <1>8, IdsDiffer
    <2>2. value = EncodedBlock(key, object[key], i, b)
      BY <1>0, <1>1, <2>1 DEF RightFor
    <2> QED
      BY <1>0, <1>1, <1>7, <2>1, <2>2 DEF BlockRight
  <1>9. CASE m = n /\ other # id
    <2>1. Kept(t, b)' => other \in DOMAIN block_info[n] \ {id}
      BY <1>7, <1>9 DEF Kept
    <2>2. Kept(t, b)' => Kept(t, b)
      BY <1>9, <2>1 DEF Kept
    <2>3. Kept(t, b)' => find_value_by_key_from_disk(m, other)' =
                             find_value_by_key_from_disk(m, other)
      BY <1>7, <1>9, <2>1
    <2> QED
      BY <1>0, <1>1, <1>5, <2>2, <2>3 DEF BlockRight
  <1> QED
    BY <1>6, <1>8, <1>9

-----------------------------------------------------------------------------
\* What is answered by the node that a block or its copy was sent to.
FirstAnswer(schema, s, j) ==
    Answer(HelperNode(schema, s, j), written_id(s, j), IsCached(schema, j))

\* An answer with anything in it is the block as it was encoded.
LEMMA AnswerRight ==
    ASSUME ObjectInv, CopiesRight, BlocksRight, ~spoilt,
           NEW key \in Keys, NEW i \in Parts(key),
           NEW j \in Blocks(object[key].schema),
           Len(FirstAnswer(object[key].schema, StripeOf(key, i), j)) # 0
    PROVE  FirstAnswer(object[key].schema, StripeOf(key, i), j) =
               EncodedBlock(key, object[key], i, j)
  <1> DEFINE o == object[key]
             s == StripeOf(key, i)
             id == written_id(s, j)
             n == HelperNode(o.schema, s, j)
  <1>1. /\ o.schema \in Schemas
        /\ j \in BlockIndexes
        /\ s \in StripeIds
    BY StripeFacts
  <1>2. FirstAnswer(o.schema, s, j) =
            IF n = None \/ n \in down THEN <<>>
            ELSE IF IsCached(o.schema, j) THEN CopyIn(n, id)
            ELSE find_value_by_key_from_disk(n, id)
    BY DEF FirstAnswer, Answer
  <1>3. Len(<<>>) = 0
    OBVIOUS
  <1>4. ~(n = None \/ n \in down)
    BY <1>2, <1>3
  <1>5. CASE IsCached(o.schema, j)
    <2>1. n = CacheNodeOf(s, CacheSlot(o.schema, j)) /\ CopyRight(key, i, j)
      BY <1>5 DEF HelperNode, CopiesRight
    <2>2. FirstAnswer(o.schema, s, j) = CopyIn(n, id)
      BY <1>2, <1>4, <1>5
    <2>3. id \in DOMAIN redis[n] /\ CopyIn(n, id) = redis[n][id]
      BY <1>3, <2>2 DEF CopyIn
    <2> QED
      BY <2>1, <2>2, <2>3 DEF CopyRight
  <1>6. CASE ~IsCached(o.schema, j)
    <2>1. n = NodeOf(s, j) /\ BlockRight(key, i, j)
      BY <1>6 DEF HelperNode, BlocksRight
    <2>2. FirstAnswer(o.schema, s, j) = find_value_by_key_from_disk(n, id)
      BY <1>2, <1>4, <1>6
    <2>3. n \in Nodes
      BY <1>1, <2>1, PlacesOfBlocks
    <2>4. Kept(s, j)
      <3>1. DatanodeTypeOK
        BY DEF ObjectInv, TypeOK
      <3>2. id \in DOMAIN block_info[n]
        BY <2>2, <2>3, <3>1, ReadType
      <3> QED
        BY <2>1, <3>2 DEF Kept
    <2> QED
      BY <2>1, <2>2, <2>4 DEF BlockRight
  <1> QED
    BY <1>5, <1>6

\* A node that is there, with the block if it is on disk, answers.
LEMMA AvailableAnswers ==
    ASSUME ObjectInv, CopiesRight, BlocksRight, ~spoilt,
           NEW key \in Keys, object[key].pc = "commited", NEW i \in Parts(key),
           NEW j \in Blocks(object[key].schema),
           Available(object[key].schema, StripeOf(key, i), j)
    PROVE  FirstAnswer(object[key].schema, StripeOf(key, i), j) =
               EncodedBlock(key, object[key], i, j)
  <1> DEFINE o == object[key]
             s == StripeOf(key, i)
             id == written_id(s, j)
             n == HelperNode(o.schema, s, j)
  <1>1. /\ o.schema \in Schemas
        /\ j \in BlockIndexes
        /\ s \in StripeIds
        /\ None \notin Nodes
    BY StripeFacts, StripedAssumption
  <1>2. FirstAnswer(o.schema, s, j) =
            IF n = None \/ n \in down THEN <<>>
            ELSE IF IsCached(o.schema, j) THEN CopyIn(n, id)
            ELSE find_value_by_key_from_disk(n, id)
    BY DEF FirstAnswer, Answer
  <1>3. CASE IsCached(o.schema, j)
    <2>1. n = CacheNodeOf(s, CacheSlot(o.schema, j)) /\ CopyRight(key, i, j)
      BY <1>3 DEF HelperNode, CopiesRight
    <2>2. n \in Nodes /\ n \notin down
      <3>1. CacheSlot(o.schema, j) \in CacheSlots
        BY <1>1, <1>3, CachedFacts
      <3> QED
        BY <1>1, <1>3, <2>1, <3>1, PlacesOfCopies DEF Available
    <2>3. id \in DOMAIN redis[n] /\ redis[n][id] = EncodedBlock(key, o, i, j)
      BY <2>1 DEF CopyRight, Written
    <2> QED
      BY <1>1, <1>2, <1>3, <2>2, <2>3 DEF CopyIn
  <1>4. CASE ~IsCached(o.schema, j)
    <2>1. n = NodeOf(s, j) /\ BlockRight(key, i, j)
      BY <1>4 DEF HelperNode, BlocksRight
    <2>2. n \in Nodes /\ n \notin down /\ Kept(s, j)
      BY <1>1, <1>4, <2>1, PlacesOfBlocks DEF Available
    <2> QED
      BY <1>1, <1>2, <1>4, <2>1, <2>2 DEF BlockRight
  <1> QED
    BY <1>3, <1>4

LEMMA HelpersAreBlocks ==
    ASSUME NEW schema \in Schemas, NEW j \in Blocks(schema),
           NEW helpers \in Helpers(schema, j)
    PROVE  helpers \subseteq Blocks(schema)
  <1>1. 0 .. schema.k + schema.g - 2 \subseteq Blocks(schema)
    BY BlockNumbers
  <1>2. GroupOfBlock(schema, j) \subseteq Blocks(schema)
    BY DEF GroupOfBlock, Blocks, Code!GroupBlocks
  <1>3. \/ helpers = {j}
        \/ helpers \subseteq GroupOfBlock(schema, j)
        \/ helpers \subseteq 0 .. schema.k + schema.g - 2
    BY DEF Helpers
  <1> QED
    BY <1>1, <1>2, <1>3

LEMMA OwnPrefix ==
    ASSUME NEW s \in Contents
    PROVE  IsPrefix(s, s)
  <1>1. Len(s) \in Nat
    BY LenProperties DEF Contents
  <1> QED
    BY <1>1 DEF IsPrefix

\* A repair from blocks as they were encoded makes the block as it was.
LEMMA RebuiltIsRight ==
    ASSUME ObjectInv, ContentsInv, ~spoilt,
           NEW key \in Keys, NEW i \in StripeIds, NEW j,
           RebuildBlock(key, i, j)
    PROVE  RightFor(repairing'.stripe, repairing'.block, repairing'.contents)
  <1> DEFINE o == object[key]
             s == StripeOf(key, i)
             size == stored_block_size(o.schema, o.value_len, i)
             right == EncodedBlock(key, o, i, j)
  <1>1. /\ o # None
        /\ i \in Parts(key)
        /\ j \in Blocks(o.schema)
        /\ size \in Nat \ {0}
    BY RebuildFacts
  <1>2. PICK helpers \in Helpers(o.schema, j) :
            /\ \A h \in helpers : Len(FirstAnswer(o.schema, s, h)) >= size
            /\ repairing' =
                  [stripe |-> s, block |-> j, contents |->
                   IF \A h \in helpers :
                         IsPrefix(SubSeq(FirstAnswer(o.schema, s, h), 1, size),
                                  EncodedBlock(key, o, i, h))
                   THEN SubSeq(EncodedBlock(key, o, i, j), 1, size)
                   ELSE [q \in 1 .. size |-> Garbage]]
    BY RebuildFacts DEF FirstAnswer
  <1>3. \A b \in Blocks(o.schema) :
            /\ EncodedBlock(key, o, i, b) \in Contents
            /\ Len(EncodedBlock(key, o, i, b)) = size
    BY <1>1, EncodedFacts DEF ObjectInv, Parts
  <1>4. ASSUME NEW b \in Blocks(o.schema)
        PROVE  SubSeq(EncodedBlock(key, o, i, b), 1, size) = EncodedBlock(key, o, i, b)
    BY <1>1, <1>3, FirstBytes
  <1>5. ASSUME NEW h \in helpers
        PROVE  IsPrefix(SubSeq(FirstAnswer(o.schema, s, h), 1, size),
                        EncodedBlock(key, o, i, h))
    <2>1. h \in Blocks(o.schema)
      BY <1>1, StripeFacts, HelpersAreBlocks
    <2>2. Len(FirstAnswer(o.schema, s, h)) # 0
      BY <1>1, <1>2
    <2>3. FirstAnswer(o.schema, s, h) = EncodedBlock(key, o, i, h)
      BY <1>1, <2>1, <2>2, AnswerRight DEF ContentsInv
    <2>4. SubSeq(FirstAnswer(o.schema, s, h), 1, size) = EncodedBlock(key, o, i, h)
      BY <1>4, <2>1, <2>3
    <2>5. EncodedBlock(key, o, i, h) \in Contents
      BY <1>3, <2>1
    <2> QED
      BY <2>4, <2>5, OwnPrefix
  <1>6. repairing' = [stripe |-> s, block |-> j, contents |-> right]
    BY <1>1, <1>2, <1>4, <1>5
  <1>7. ASSUME NEW k \in Keys, NEW h \in Parts(k), StripeOf(k, h) = s
        PROVE  k = key /\ h = i
    BY <1>1, <1>7 DEF ObjectInv, StripesDiffer
  <1> HIDE DEF s, right
  <1>8. /\ repairing'.stripe = s
        /\ repairing'.block = j
        /\ repairing'.contents = right
    BY <1>6
  <1> QED
    BY <1>7, <1>8 DEF RightFor, right

-----------------------------------------------------------------------------
\* Each action keeps what the blocks and copies contain.

\* Steps that change neither a block nor a copy.
LEMMA ContentsStay ==
    ASSUME ObjectInv, ContentsInv, SameLayout, NoneOutgrown',
           ~spoilt' => ~spoilt,
           UNCHANGED <<file, block_info, redis, next_stripe_id>>,
           \A key \in Keys : \A i \in Parts(key)', j \in Blocks(object[key].schema) :
               Written(key, i, j)' => Written(key, i, j)
    PROVE  IdsKnown' /\ CopiesRight' /\ BlocksRight'
  BY IdsStay, CopiesStay, BlocksStay DEF ContentsInv

LEMMA SameWritten ==
    ASSUME UNCHANGED object
    PROVE  \A key, i, j : Written(key, i, j)' => Written(key, i, j)
  BY DEF Written

\* Steps of the parameters, and those of a get.
LEMMA SameContents ==
    ASSUME ObjectInv, ObjectInv', ContentsInv, SameLayout, ~spoilt' => ~spoilt,
           UNCHANGED <<file, block_info, redis, next_stripe_id, object, repairing>>
    PROVE  ContentsInv'
  <1>1. NoneOutgrown'
    BY DEF ObjectInv
  <1>2. IdsKnown' /\ CopiesRight' /\ BlocksRight'
    BY <1>1, ContentsStay, SameWritten
  <1>3. RepairRight'
    BY RepairStays DEF ContentsInv
  <1> QED
    BY <1>2, <1>3 DEF ContentsInv

LEMMA GetKeepsContents ==
    ASSUME ObjectInv, ContentsInv, NEW key \in Keys, Get(key)
    PROVE  ContentsInv'
  <1>1. ObjectInv' /\ SameLayout
    BY GetKeeps
  <1>2. ~spoilt' => ~spoilt
    BY OutgrownIsNoted DEF Get, ObjectInv, TypeOK
  <1>3. UNCHANGED <<file, block_info, redis, next_stripe_id, object, repairing>>
    BY DEF Get, ReadDisk
  <1> QED
    BY <1>1, <1>2, <1>3, SameContents

LEMMA JoinKeepsContents ==
    ASSUME ObjectInv, ContentsInv, NEW key \in Keys, JoinWriters(key)
    PROVE  ContentsInv'
  <1> DEFINE o == object[key]
  <1>1. ObjectInv' /\ SameLayout /\ NoneOutgrown'
    BY JoinKeeps DEF ObjectInv
  <1>2. UNCHANGED <<file, block_info, redis, next_stripe_id, repairing, spoilt>>
    BY DEF JoinWriters, datanode, disk
  <1>3. /\ o \in Object
        /\ o.pc = "storing"
        /\ o.todo = {}
        /\ o.stripe \in 0 .. Len(o.stripes) - 1
        /\ Len(o.stripes) \in Nat
    BY ObjectFacts DEF JoinWriters, Storing, ObjectInv
  <1>4. \/ o.stripe = Len(o.stripes) - 1
        \/ /\ object'[key].pc = "storing"
           /\ object'[key].stripe = o.stripe + 1
           /\ object'[key].todo = Blocks(o.schema)
    BY <1>3 DEF JoinWriters, ObjectInv, TypeOK, Object
  <1>5. ASSUME NEW k \in Keys, NEW i \in Parts(k)', NEW j \in Blocks(object[k].schema),
               Written(k, i, j)'
        PROVE  Written(k, i, j)
    <2>1. i \in Parts(k)
      BY <1>1, LayoutStays
    <2>2. CASE k = key
      <3>1. i \in 0 .. Len(o.stripes) - 1
        BY <1>3, <2>1, <2>2 DEF Parts
      <3>2. i <= o.stripe
        BY <1>3, <1>4, <1>5, <2>2, <3>1 DEF Written
      <3> QED
        BY <1>3, <2>2, <3>1, <3>2 DEF Written
    <2>3. CASE k # key
      <3>1. object'[k] = object[k]
        BY <2>3 DEF JoinWriters, ObjectInv, TypeOK
      <3> QED
        BY <1>5, <3>1 DEF Written
    <2> QED
      BY <2>2, <2>3
  <1>6. IdsKnown' /\ CopiesRight' /\ BlocksRight'
    BY <1>1, <1>2, <1>5, ContentsStay
  <1>7. RepairRight'
    BY <1>1, <1>2, RepairStays DEF ContentsInv
  <1> QED
    BY <1>6, <1>7 DEF ContentsInv

LEMMA RebuildKeepsContents ==
    ASSUME ObjectInv, ContentsInv, NEW key \in Keys, NEW i \in StripeIds, NEW j,
           RebuildBlock(key, i, j)
    PROVE  ContentsInv'
  <1>1. ObjectInv' /\ SameLayout /\ NoneOutgrown'
    BY RebuildKeeps DEF ObjectInv
  <1>2. ~spoilt' => ~spoilt
    BY OutgrownIsNoted DEF RebuildBlock, ObjectInv, TypeOK
  <1>3. UNCHANGED <<file, block_info, redis, next_stripe_id, object>>
    <2>1. \E reads : ReadDisk(reads)
      BY RebuildFacts
    <2>2. UNCHANGED <<file, block_info>>
      BY <2>1 DEF ReadDisk
    <2>3. UNCHANGED redis /\ UNCHANGED next_stripe_id /\ UNCHANGED object
      BY Zenon DEF RebuildBlock
    <2> QED
      BY <2>2, <2>3
  <1>4. IdsKnown' /\ CopiesRight' /\ BlocksRight'
    BY <1>1, <1>2, <1>3, ContentsStay, SameWritten
  <1>5. ~spoilt => RightFor(repairing'.stripe, repairing'.block, repairing'.contents)
    BY RebuiltIsRight
  <1>6. RepairRight'
    BY <1>2, <1>3, <1>5 DEF RepairRight, RightFor, Parts, StripeOf, EncodedBlock
  <1> QED
    BY <1>4, <1>6 DEF ContentsInv

\* A block that is written is one of a stripe that was placed.
LEMMA IdsAfterWrite ==
    ASSUME ObjectInv, IdsKnown, UNCHANGED next_stripe_id,
           NEW s \in 0 .. next_stripe_id - 1, NEW j \in BlockIndexes,
           NEW n \in Nodes, NEW value, WriteDisk(n, written_id(s, j), value),
           \/ redis' = redis
           \/ \E m \in Nodes : WriteRedis(m, written_id(s, j), value)
    PROVE  IdsKnown'
  <1> DEFINE id == written_id(s, j)
  <1>1. DOMAIN block_info = Nodes /\ DOMAIN redis = Nodes
    BY DEF ObjectInv, TypeOK, DatanodeTypeOK
  <1>2. \A m \in Nodes : DOMAIN block_info'[m] \subseteq DOMAIN block_info[m] \cup {id}
    BY <1>1 DEF WriteDisk, With
  <1>3. \A m \in Nodes : DOMAIN redis'[m] \subseteq DOMAIN redis[m] \cup {id}
    BY <1>1 DEF WriteRedis, With
  <1> QED
    BY <1>2, <1>3 DEF IdsKnown

\* The writer's copy, if there is one, and the others.
LEMMA WriterKeepsCopies ==
    ASSUME NoIdTwice, ObjectInv, CopiesRight, SameLayout,
           NEW key \in Keys, NEW j, WriteBlock(key, j)
    PROVE  CopiesRight'
  <1>0. PICK o : o = object[key]
    OBVIOUS
  <1>1. PICK s : s = StripeOf(key, o.stripe)
    OBVIOUS
  <1>2. PICK contents : contents = EncodedBlock(key, o, o.stripe, j)
    OBVIOUS
  <1> DEFINE id == written_id(s, j)
             n == CacheNodeOf(s, CacheSlot(o.schema, j))
  <1>3. /\ o.stripe \in Parts(key)
        /\ s \in StripeIds
        /\ j \in Blocks(o.schema)
        /\ IsCached(o.schema, j) => n \in Nodes /\ WriteRedis(n, id, contents)
        /\ ~IsCached(o.schema, j) => redis' = redis
    BY <1>0, <1>1, <1>2, WriterFacts
  <1>4. /\ o \in Object
        /\ o.schema \in Schemas
        /\ o # None
        /\ o.stripe \in Nat
    BY <1>0, <1>3, ObjectFacts DEF ObjectInv, Parts
  <1>5. /\ object'[key] = [o EXCEPT !.todo = @ \ {j}]
        /\ \A k \in Keys : k # key => object'[k] = object[k]
    BY <1>0 DEF WriteBlock, ObjectInv, TypeOK
  <1>6. DOMAIN redis = Nodes
    BY DEF ObjectInv, TypeOK, DatanodeTypeOK
  <1>7. j \in BlockIndexes
    BY <1>3, <1>4, SchemaFacts
  <1> SUFFICES ASSUME NEW k \in Keys, NEW i \in Parts(k)',
                      NEW b \in Blocks(object'[k].schema),
                      IsCached(object'[k].schema, b)
               PROVE  CopyRight(k, i, b)'
    BY DEF CopiesRight
  <1>8. PICK t : t = StripeOf(k, i)
    OBVIOUS
  <1> DEFINE other == written_id(t, b)
             m == CacheNodeOf(t, CacheSlot(object[k].schema, b))
  <1>9. /\ i \in Parts(k)
        /\ StripeOf(k, i)' = t
        /\ object'[k].schema = object[k].schema
        /\ EncodedBlock(k, object'[k], i, b) = EncodedBlock(k, object[k], i, b)
    BY <1>8, LayoutStays
  <1>10. /\ t \in StripeIds
         /\ b \in BlockIndexes
         /\ m \in Nodes
    <2>1. t \in StripeIds /\ b \in BlockIndexes /\ object[k].schema \in Schemas
      BY <1>8, <1>9, StripeFacts
    <2> QED
      BY <1>9, <2>1, CachedFacts, PlacesOfCopies
  <1>11. CopyRight(k, i, b)
    BY <1>9 DEF CopiesRight
  <1>12. CASE k = key /\ i = o.stripe /\ b = j
    <2>1. t = s /\ m = n /\ other = id
      BY <1>0, <1>1, <1>8, <1>12
    <2>2. WriteRedis(n, id, contents)
      BY <1>0, <1>3, <1>9, <1>12
    <2>3. id \in DOMAIN redis'[n] /\ redis'[n][id] = contents
      BY <1>6, <1>10, <2>1, <2>2 DEF WriteRedis, With
    <2> QED
      BY <1>0, <1>2, <1>9, <1>12, <2>1, <2>3 DEF CopyRight
  <1>13. CASE ~(k = key /\ i = o.stripe /\ b = j)
    <2>1. other # id
      <3>1. CASE t = s
        <4>1. k = key /\ i = o.stripe
          <5>1. StripeOf(k, i) = StripeOf(key, o.stripe)
            BY <1>1, <1>8, <3>1
          <5>2. o.stripe \in Parts(key) /\ i \in Parts(k)
            BY <1>3, <1>9
          <5>3. StripesDiffer
            BY DEF ObjectInv
          <5> QED
            BY <5>1, <5>2, <5>3 DEF StripesDiffer
        <4>2. b # j
          BY <1>13, <4>1
        <4> QED
          BY <1>3, <1>7, <1>10, <4>2, IdsDiffer
      <3>2. CASE t # s
        BY <1>3, <1>7, <1>10, <3>2, IdsDiffer
      <3> QED
        BY <3>1, <3>2
    <2>2. /\ other \in DOMAIN redis'[m] <=> other \in DOMAIN redis[m]
          /\ other \in DOMAIN redis[m] => redis'[m][other] = redis[m][other]
      <3>1. CASE redis' = redis
        BY <3>1
      <3>2. CASE WriteRedis(n, id, contents) /\ n \in Nodes
        BY <1>6, <1>10, <2>1, <3>2 DEF WriteRedis, With
      <3> QED
        BY <1>3, <3>1, <3>2
    <2>3. Written(k, i, b)' => Written(k, i, b)
      <3>1. CASE k # key
        BY <1>5, <3>1 DEF Written
      <3>2. CASE k = key
        <4>1. /\ object'[k].pc = o.pc
              /\ object'[k].stripe = o.stripe
              /\ object'[k].todo = o.todo \ {j}
          BY <1>4, <1>5, <3>2 DEF Object
        <4>2. object[k] = o /\ (i = o.stripe => b # j)
          BY <1>0, <1>13, <3>2
        <4> QED
          BY <4>1, <4>2 DEF Written
      <3> QED
        BY <3>1, <3>2
    <2> QED
      BY <1>8, <1>9, <1>11, <2>2, <2>3 DEF CopyRight
  <1> QED
    BY <1>12, <1>13

LEMMA WriterKeepsContents ==
    ASSUME NoIdTwice, ObjectInv, ContentsInv,
           NEW key \in Keys, NEW j, WriteBlock(key, j)
    PROVE  ContentsInv'
  <1> DEFINE o == object[key]
             s == StripeOf(key, o.stripe)
             contents == EncodedBlock(key, o, o.stripe, j)
  <1>1. ObjectInv' /\ SameLayout /\ NoneOutgrown'
    BY WriterKeeps DEF ObjectInv
  <1>2. ~spoilt' => ~spoilt
    BY OutgrownIsNoted DEF WriteBlock, ObjectInv, TypeOK
  <1>3. /\ o.stripe \in Parts(key)
        /\ s \in StripeIds
        /\ j \in Blocks(o.schema)
        /\ NodeOf(s, j) \in Nodes
        /\ contents \in Contents
        /\ WriteDisk(NodeOf(s, j), written_id(s, j), contents)
        /\ \/ redis' = redis
           \/ \E m \in Nodes : WriteRedis(m, written_id(s, j), contents)
    BY WriterFacts
  <1>4. s \in 0 .. next_stripe_id - 1 /\ j \in BlockIndexes
    BY <1>3, StripeFacts
  <1>5. UNCHANGED <<next_stripe_id, repairing>>
    BY DEF WriteBlock
  <1>6. RightFor(s, j, contents)
    <2>1. ASSUME NEW k \in Keys, NEW h \in Parts(k), StripeOf(k, h) = s
          PROVE  k = key /\ h = o.stripe
      BY <1>3, <2>1 DEF ObjectInv, StripesDiffer
    <2> QED
      BY <2>1 DEF RightFor
  <1> HIDE DEF s, contents
  <1>7. IdsKnown'
    BY <1>3, <1>4, <1>5, IdsAfterWrite DEF ContentsInv
  <1>8. BlocksRight'
    BY <1>1, <1>2, <1>3, <1>4, <1>6, RightWrite DEF ContentsInv
  <1>9. CopiesRight'
    BY <1>1, WriterKeepsCopies DEF ContentsInv
  <1>10. RepairRight'
    BY <1>1, <1>2, <1>5, RepairStays DEF ContentsInv
  <1> QED
    BY <1>7, <1>8, <1>9, <1>10 DEF ContentsInv

LEMMA WriteBackKeepsContents ==
    ASSUME NoIdTwice, ObjectInv, ContentsInv, WriteBack
    PROVE  ContentsInv'
  <1> DEFINE r == repairing
  <1>1. ObjectInv' /\ SameLayout /\ NoneOutgrown'
    BY WriteBackKeeps DEF ObjectInv
  <1>2. ~spoilt' => ~spoilt
    BY OutgrownIsNoted DEF WriteBack, ObjectInv, TypeOK
  <1>3. /\ r # None
        /\ r.stripe \in StripeIds
        /\ r.stripe < next_stripe_id
        /\ r.block \in BlockIndexes
        /\ r.contents \in Contents
        /\ NodeOf(r.stripe, r.block) \in Nodes
        /\ WriteDisk(NodeOf(r.stripe, r.block),
                     written_id(r.stripe, r.block), r.contents)
    BY WriteBackFacts
  <1>4. r.stripe \in 0 .. next_stripe_id - 1
    BY <1>3, StripedAssumption DEF StripeIds, ObjectInv, TypeOK
  <1>5. UNCHANGED <<redis, object, next_stripe_id>> /\ repairing' = None
    BY DEF WriteBack
  <1>6. ~spoilt => RightFor(r.stripe, r.block, r.contents)
    BY <1>3 DEF ContentsInv, RepairRight
  <1> HIDE DEF r
  <1>7. IdsKnown'
    BY <1>3, <1>4, <1>5, IdsAfterWrite DEF ContentsInv
  <1>8. BlocksRight'
    BY <1>1, <1>2, <1>3, <1>6, RightWrite DEF ContentsInv
  <1>9. CopiesRight'
    BY <1>1, <1>5, CopiesStay, SameWritten DEF ContentsInv
  <1>10. RepairRight'
    BY <1>5 DEF RepairRight
  <1> QED
    BY <1>7, <1>8, <1>9, <1>10 DEF ContentsInv

\* Redis and the other nodes keep what they have when a node is started anew.
LEMMA RestartKeepsContents ==
    ASSUME ObjectInv, ContentsInv, NEW n \in Unsteady, RestartNode(n)
    PROVE  ContentsInv'
  <1>1. ObjectInv' /\ SameLayout /\ NoneOutgrown'
    BY RestartKeeps DEF ObjectInv
  <1>2. n \in Nodes /\ StartAnew(n)
    BY StripedAssumption DEF RestartNode
  <1>3. UNCHANGED <<redis, object, next_stripe_id, repairing, spoilt>>
    BY <1>2 DEF RestartNode, StartAnew
  <1>4. /\ DOMAIN block_info'[n] = {}
        /\ \A m \in Nodes \ {n} : /\ block_info'[m] = block_info[m]
                                  /\ file'[m] = file[m]
                                  /\ m \in failed' <=> m \in failed
    BY <1>2 DEF StartAnew, NoEntries, ObjectInv, DiskInv, DatanodeTypeOK
  <1>5. IdsKnown'
    BY <1>2, <1>3, <1>4 DEF ContentsInv, IdsKnown
  <1>6. CopiesRight'
    BY <1>1, <1>3, CopiesStay, SameWritten DEF ContentsInv
  <1>7. BlocksRight'
    <2> SUFFICES ASSUME ~spoilt', NEW key \in Keys, NEW i \in Parts(key)',
                        NEW j \in Blocks(object'[key].schema)
                 PROVE  BlockRight(key, i, j)'
      BY DEF BlocksRight
    <2>0. PICK s : s = StripeOf(key, i)
      OBVIOUS
    <2> DEFINE m == NodeOf(s, j)
               id == written_id(s, j)
    <2>1. /\ i \in Parts(key)
          /\ StripeOf(key, i)' = s
          /\ object'[key].schema = object[key].schema
          /\ EncodedBlock(key, object'[key], i, j) = EncodedBlock(key, object[key], i, j)
      BY <1>1, <2>0, LayoutStays
    <2>2. m \in Nodes
      BY <2>0, <2>1, StripeFacts, PlacesOfBlocks
    <2>3. BlockRight(key, i, j)
      BY <1>3, <2>1 DEF ContentsInv, BlocksRight
    <2>4. CASE m = n
      <3>1. ~Kept(s, j)'
        BY <1>4, <2>4 DEF Kept
      <3> QED
        BY <2>1, <3>1 DEF BlockRight
    <2>5. CASE m # n
      <3>1. find_value_by_key_from_disk(m, id)' = find_value_by_key_from_disk(m, id)
        BY <1>4, <2>2, <2>5 DEF find_value_by_key_from_disk, Readable, LocationOf
      <3>2. Kept(s, j)' = Kept(s, j)
        BY <1>4, <2>2, <2>5 DEF Kept
      <3> QED
        BY <2>0, <2>1, <2>3, <3>1, <3>2 DEF BlockRight
    <2> QED
      BY <2>4, <2>5
  <1>8. RepairRight'
    BY <1>1, <1>3, RepairStays DEF ContentsInv
  <1> QED
    BY <1>5, <1>6, <1>7, <1>8 DEF ContentsInv

\* Nothing is there yet under the ids of stripes that have just been placed.
LEMMA PlacingKeepsContents ==
    ASSUME NoIdTwice, ObjectInv, ContentsInv,
           NEW key \in Keys, NEW value_len \in Lengths,
           GetProxyLocation(key, value_len)
    PROVE  ContentsInv'
  <1> DEFINE n == stripes_to_store(ec_schema, value_len)
  <1>1. ObjectInv'
    BY PlacingKeeps
  <1>2. /\ next_stripe_id' >= next_stripe_id
        /\ next_stripe_id' \in 0 .. MaxStripes
        /\ object' \in [Keys -> Object \cup {None}]
        /\ \A other \in Keys : other # key => object'[other] = object[other]
        /\ \A i \in Parts(key)' : StripeOf(key, i)' >= next_stripe_id
    BY PlacingKeepsObjects
  <1>3. /\ UNCHANGED <<file, block_info, cur_offset, failed, redis, down>>
        /\ UNCHANGED <<repairing, spoilt>>
    BY DEF GetProxyLocation, datanode, disk
  <1>4. /\ next_stripe_id \in 0 .. MaxStripes
        /\ MaxStripes \in Nat
        /\ ec_schema \in Schemas
    BY StripedAssumption DEF ObjectInv, TypeOK
  <1>5. /\ object'[key].schema = ec_schema
        /\ object'[key].pc = "storing"
        /\ object'[key].stripe = 0
        /\ object'[key].todo = Blocks(ec_schema)
    <2>1. ObjectInv => object \in [Keys -> Object \cup {None}]
      BY DEF ObjectInv, TypeOK
    <2>2. PICK o : /\ object' = [object EXCEPT ![key] = o]
                   /\ o = [pc |-> "storing", value_len |-> value_len,
                           stripes |-> [i \in 1 .. n |-> next_stripe_id + i - 1],
                           schema |-> ec_schema, stripe |-> 0,
                           todo |-> Blocks(ec_schema)]
      BY DEF GetProxyLocation
    <2>3. object'[key] = o
      BY <2>1, <2>2
    <2> QED
      BY <2>2, <2>3
  <1>6. \A s \in StripeIds, j \in BlockIndexes : s >= next_stripe_id =>
           \A m \in Nodes : written_id(s, j) \notin
                               DOMAIN block_info[m] \cup DOMAIN redis[m]
    <2> SUFFICES ASSUME NEW s \in StripeIds, NEW j \in BlockIndexes,
                        s >= next_stripe_id, NEW m \in Nodes,
                        written_id(s, j) \in DOMAIN block_info[m] \cup DOMAIN redis[m]
                 PROVE  FALSE
      OBVIOUS
    <2>1. PICK t \in 0 .. next_stripe_id - 1, b \in BlockIndexes :
              written_id(s, j) = written_id(t, b)
      BY DEF ContentsInv, IdsKnown
    <2>2. t \in StripeIds /\ t # s
      BY <1>4, <2>1 DEF StripeIds
    <2> QED
      BY <2>1, <2>2, IdsDiffer
  <1>7. ASSUME NEW i \in Parts(key)'
        PROVE  /\ StripeOf(key, i)' \in StripeIds
               /\ StripeOf(key, i)' >= next_stripe_id
               /\ i \in Nat
    <2>1. /\ object'[key] # None
          /\ object'[key] \in Object
          /\ i \in 0 .. Len(object'[key].stripes) - 1
      BY <1>2 DEF Parts
    <2>2. PICK stripes \in Seq(StripeIds) : stripes = object'[key].stripes
      BY <2>1 DEF Object
    <2>3. i + 1 \in 1 .. Len(stripes)
      BY <2>1, <2>2, LenProperties
    <2>4. stripes[i + 1] \in StripeIds
      BY <2>3, ElementOfSeq
    <2> QED
      BY <1>2, <2>1, <2>2, <2>4 DEF StripeOf
  <1>8. IdsKnown'
    <2>1. next_stripe_id \in Nat /\ next_stripe_id' \in Nat
      BY <1>2, <1>4
    <2>2. \A s \in 0 .. next_stripe_id - 1 : s \in 0 .. next_stripe_id' - 1
      <3>1. PICK a \in Nat : a = next_stripe_id
        BY <2>1
      <3>2. PICK b \in Nat : b = next_stripe_id'
        BY <2>1
      <3>3. a <= b
        BY <1>2, <3>1, <3>2
      <3>4. \A s \in 0 .. a - 1 : s \in 0 .. b - 1
        BY <3>3
      <3> QED
        BY <3>1, <3>2, <3>4
    <2> QED
      BY <1>3, <2>2 DEF ContentsInv, IdsKnown
  <1>9. CopiesRight'
    <2> SUFFICES ASSUME NEW k \in Keys, NEW i \in Parts(k)',
                        NEW j \in Blocks(object'[k].schema),
                        IsCached(object'[k].schema, j)
                 PROVE  CopyRight(k, i, j)'
      BY DEF CopiesRight
    <2>1. CASE k = key
      <3>0. PICK s : s = StripeOf(k, i)'
        OBVIOUS
      <3> DEFINE m == CacheNodeOf(s, CacheSlot(ec_schema, j))
      <3>1. s \in StripeIds /\ s >= next_stripe_id /\ i \in Nat
        BY <1>7, <2>1, <3>0
      <3>2. /\ j \in Blocks(ec_schema)
            /\ j \in BlockIndexes
            /\ m \in Nodes
        BY <1>4, <1>5, <2>1, <3>1, SchemaFacts, CachedFacts, PlacesOfCopies
      <3>3. written_id(s, j) \notin DOMAIN redis'[m]
        BY <1>3, <1>6, <3>1, <3>2
      <3>4. ~Written(k, i, j)'
        BY <1>5, <2>1, <3>1, <3>2 DEF Written
      <3> QED
        BY <1>5, <2>1, <3>0, <3>3, <3>4 DEF CopyRight
    <2>2. CASE k # key
      <3>1. object'[k] = object[k]
        BY <1>2, <2>2
      <3>2. i \in Parts(k) /\ CopyRight(k, i, j)
        BY <3>1 DEF ContentsInv, CopiesRight, Parts
      <3> QED
        BY <1>3, <3>1, <3>2 DEF CopyRight, StripeOf, Written
    <2> QED
      BY <2>1, <2>2
  <1>10. BlocksRight'
    <2> SUFFICES ASSUME ~spoilt', NEW k \in Keys, NEW i \in Parts(k)',
                        NEW j \in Blocks(object'[k].schema)
                 PROVE  BlockRight(k, i, j)'
      BY DEF BlocksRight
    <2>1. CASE k = key
      <3>0. PICK s : s = StripeOf(k, i)'
        OBVIOUS
      <3>1. s \in StripeIds /\ s >= next_stripe_id
        BY <1>7, <2>1, <3>0
      <3>2. j \in BlockIndexes /\ NodeOf(s, j) \in Nodes
        BY <1>4, <1>5, <2>1, <3>1, SchemaFacts, PlacesOfBlocks
      <3>3. ~Kept(s, j)'
        BY <1>3, <1>6, <3>1, <3>2 DEF Kept
      <3> QED
        BY <3>0, <3>3 DEF BlockRight
    <2>2. CASE k # key
      <3>1. object'[k] = object[k]
        BY <1>2, <2>2
      <3>2. i \in Parts(k) /\ BlockRight(k, i, j)
        BY <1>3, <3>1 DEF ContentsInv, BlocksRight, Parts
      <3>3. \A m, id : find_value_by_key_from_disk(m, id)' =
                           find_value_by_key_from_disk(m, id)
        BY <1>3 DEF find_value_by_key_from_disk, Readable, LocationOf
      <3> QED
        BY <1>3, <3>1, <3>2, <3>3 DEF BlockRight, StripeOf, Kept
    <2> QED
      BY <2>1, <2>2
  <1>11. RepairRight'
    <2> SUFFICES ASSUME repairing # None, ~spoilt,
                        NEW k \in Keys, NEW i \in Parts(k)',
                        StripeOf(k, i)' = repairing.stripe
                 PROVE  repairing.contents =
                            EncodedBlock(k, object'[k], i, repairing.block)
      BY <1>3 DEF RepairRight, RightFor
    <2>1. CASE k = key
      <3>1. repairing.stripe < next_stripe_id
        BY DEF ObjectInv, RepairKnown
      <3>2. StripeOf(k, i)' \in Nat /\ StripeOf(k, i)' >= next_stripe_id
        BY <1>4, <1>7, <2>1 DEF StripeIds
      <3> QED
        BY <1>4, <3>1, <3>2
    <2>2. CASE k # key
      <3>1. object'[k] = object[k]
        BY <1>2, <2>2
      <3>2. i \in Parts(k) /\ StripeOf(k, i) = repairing.stripe
        BY <3>1 DEF Parts, StripeOf
      <3> QED
        BY <3>1, <3>2 DEF ContentsInv, RepairRight, RightFor
    <2> QED
      BY <2>1, <2>2
  <1> QED
    BY <1>8, <1>9, <1>10, <1>11 DEF ContentsInv

LEMMA InitContentsInv ==
    Init => ContentsInv
  <1> SUFFICES ASSUME Init
               PROVE  ContentsInv
    OBVIOUS
  <1>1. \A key \in Keys : Parts(key) = {}
    BY DEF Init, Parts
  <1>2. \A n \in Nodes : \A id : id \notin DOMAIN block_info[n] \cup DOMAIN redis[n]
    <2>1. DatanodeInit
      BY DEF Init
    <2>2. \A id : id \notin DOMAIN NoEntries
      BY DEF NoEntries
    <2>3. \A n \in Nodes : block_info[n] = NoEntries /\ redis[n] = NoEntries
      BY <2>1 DEF DatanodeInit
    <2> QED
      BY <2>2, <2>3
  <1>3. repairing = None
    BY DEF Init
  <1> QED
    BY <1>1, <1>2, <1>3
    DEF ContentsInv, IdsKnown, CopiesRight, BlocksRight, RepairRight

LEMMA NextContentsInv ==
    ASSUME NoIdTwice, ObjectInv, ContentsInv, [Next]_vars
    PROVE  ContentsInv'
  <1>1. CASE \/ \E schema \in Schemas : SetParameters(schema)
             \/ UNCHANGED vars
    <2>1. ObjectInv' /\ SameLayout
      BY <1>1, SetParametersKeeps, StutterKeeps
    <2>2. UNCHANGED <<file, block_info, redis, next_stripe_id, object, repairing,
                      spoilt>>
      BY <1>1 DEF SetParameters, vars, datanode, disk
    <2> QED
      BY <2>1, <2>2, SameContents
  <1>2. CASE Next
    BY <1>1, <1>2, PlacingKeepsContents, WriterKeepsContents, JoinKeepsContents,
       GetKeepsContents, RebuildKeepsContents, WriteBackKeepsContents,
       RestartKeepsContents DEF Next
  <1> QED
    BY <1>1, <1>2

\* What BlocksReadBack says: a block that a datanode has an entry for is what
\* encode made of the object, through repairs from the other blocks and copies,
\* datanodes that are started anew and parameters that are set between.
THEOREM StripedBlocksReadBack ==
    ASSUME NoIdTwice
    PROVE  Spec => []BlocksReadBack
  <1>1. Init => ObjectInv /\ ContentsInv
    BY InitObjectInv, InitContentsInv
  <1>2. ObjectInv /\ ContentsInv /\ [Next]_vars => ObjectInv' /\ ContentsInv'
    BY NextObjectInv, NextContentsInv
  <1>3. ContentsInv => BlocksReadBack
    BY BlocksRightIsReadBack DEF ContentsInv
  <1> QED
    BY <1>1, <1>2, <1>3, PTL DEF Spec

-----------------------------------------------------------------------------
\* What a client gets.

\* With parameters of the code that the object was stored with, and ids that
\* are the same as int, a get asks for the blocks where they were sent.
LEMMA AskedBlocks ==
    ASSUME NoIdTwice, ObjectInv, NEW key \in Keys, NEW i \in Parts(key),
           IdsFit(object[key]), SameCode(ec_schema, object[key].schema),
           NEW j \in Blocks(ec_schema)
    PROVE  /\ j \in Blocks(object[key].schema)
           /\ BlockRead(object[key], i, j) =
                  FirstAnswer(object[key].schema, StripeOf(key, i), j)
  <1> DEFINE o == object[key]
  <1>0. PICK s : s = StripeOf(key, i)
    OBVIOUS
  <1>1. /\ o # None
        /\ i \in 0 .. Len(o.stripes) - 1
        /\ o.schema \in Schemas
        /\ s \in StripeIds
        /\ ec_schema \in Schemas
        /\ o.stripes \in Seq(StripeIds)
        /\ Len(o.stripes) \in Nat
    BY <1>0, StripeFacts, ObjectFacts DEF ObjectInv, TypeOK
  <1>2. /\ j \in Blocks(o.schema)
        /\ IsCached(ec_schema, j) = IsCached(o.schema, j)
    BY <1>1, SameCodeFacts
  <1>3. ReadFrom(o, i, j) = HelperNode(o.schema, s, j)
    BY <1>0, <1>1, AskedNodes DEF ObjectInv, StripeOf
  <1>4. s \in ToSet(o.stripes)
    <2>1. i + 1 \in DOMAIN o.stripes
      BY <1>1
    <2> QED
      BY <1>0, <2>1 DEF ToSet, StripeOf
  <1>5. 2 * (s * IdSpan + j) < UIntSize
    BY <1>2, <1>4 DEF IdsFit
  <1>6. /\ s \in Nat
        /\ j \in 0 .. IdSpan - 1
        /\ IdSpan \in Nat \ {0}
        /\ UIntSize \in Nat
        /\ s * IdSpan \in Nat
    <2>1. s \in Nat /\ IdSpan \in Nat \ {0} /\ UIntSize \in Nat
      BY <1>1, LayoutAssumption, StripedAssumption DEF StripeIds
    <2>2. j \in 0 .. NumBlocks(o.schema) - 1 /\ NumBlocks(o.schema) \in Nat
      BY <1>1, <1>2, SchemaFacts
    <2>3. NumBlocks(o.schema) <= IdSpan
      BY <1>1 DEF NoIdTwice
    <2> QED
      BY <2>1, <2>2, <2>3, ProductsOfNaturals
  <1>7. read_id(s, j) = written_id(s, j)
    <2>1. PICK x \in Nat : x = s * IdSpan
      BY <1>6
    <2>2. x + j < UIntSize
      BY <1>5, <1>6, <2>1
    <2> QED
      BY <1>5, <1>6, <2>1, <2>2, BlockIdsAreDistinct
  <1> QED
    BY <1>0, <1>2, <1>3, <1>7 DEF BlockRead, FirstAnswer, StripeOf

\* What comes out of the decoding is what was encoded, as far as it goes.
LEMMA DecodedRight ==
    ASSUME NoIdTwice, ObjectInv, ContentsInv, ~spoilt,
           NEW key \in Keys, NEW i \in Parts(key),
           IdsFit(object[key]), SameCode(ec_schema, object[key].schema),
           NEW f \in Decoded(key, object[key], i), NEW b \in 0 .. ec_schema.k - 1
    PROVE  LET o == object[key]
               size == SizeRead(o, i)
           IN  /\ size <= stored_block_size(o.schema, o.value_len, i)
               /\ f[b] = SubSeq(EncodedBlock(key, o, i, b), 1, size)
  <1> DEFINE o == object[key]
             size == SizeRead(o, i)
             stored == stored_block_size(o.schema, o.value_len, i)
  <1>1. /\ o # None
        /\ i \in 0 .. Len(o.stripes) - 1
        /\ TypeOK /\ ObjectsOK
        /\ size \in Nat \ {0}
    BY StripeFacts, ReadSize DEF ObjectInv
  <1>2. \A j \in Blocks(o.schema) : /\ EncodedBlock(key, o, i, j) \in Contents
                                    /\ Len(EncodedBlock(key, o, i, j)) = stored
    BY <1>1, EncodedFacts
  <1>3. ASSUME NEW j \in Arriving(o, i)
        PROVE  /\ size <= stored
               /\ FirstRead(o, i, j) = SubSeq(EncodedBlock(key, o, i, j), 1, size)
               /\ j \in ReadRight(key, o, i)
    <2>1. j \in Blocks(ec_schema) /\ Len(BlockRead(o, i, j)) >= size
      BY DEF Arriving
    <2>2. /\ j \in Blocks(o.schema)
          /\ BlockRead(o, i, j) = FirstAnswer(o.schema, StripeOf(key, i), j)
      BY <2>1, AskedBlocks
    <2>3. Len(FirstAnswer(o.schema, StripeOf(key, i), j)) # 0
      BY <1>1, <2>1, <2>2
    <2>4. BlockRead(o, i, j) = EncodedBlock(key, o, i, j)
      BY <2>2, <2>3, AnswerRight DEF ContentsInv
    <2>5. PICK block \in Contents : block = EncodedBlock(key, o, i, j)
      BY <1>2, <2>2
    <2>6. Len(block) = stored /\ size <= stored
      BY <1>2, <2>1, <2>2, <2>4, <2>5
    <2>7. FirstRead(o, i, j) = SubSeq(block, 1, size)
      BY <2>4, <2>5 DEF FirstRead
    <2>8. IsPrefix(SubSeq(block, 1, size), block)
      <3>1. /\ SubSeq(block, 1, size) \in Contents
            /\ Len(SubSeq(block, 1, size)) = size
        BY <1>1, <2>6, FirstBytes
      <3>2. SubSeq(SubSeq(block, 1, size), 1, size) = SubSeq(block, 1, size)
        BY <1>1, <3>1, FirstBytes
      <3> QED
        BY <2>6, <3>1, <3>2 DEF IsPrefix
    <2> QED
      BY <2>5, <2>6, <2>7, <2>8 DEF ReadRight
  <1>4. PICK received \in SUBSET Arriving(o, i) : MadeFrom(received, key, o, i, f)
    BY DecodedFrom
  <1>5. received \subseteq ReadRight(key, o, i) /\ \E j \in received : TRUE
    BY <1>3, <1>4 DEF MadeFrom
  <1>6. \/ b \in received /\ f[b] = FirstRead(o, i, b)
        \/ f[b] = SubSeq(EncodedBlock(key, o, i, b), 1, size)
    BY <1>4, <1>5 DEF MadeFrom
  <1> QED
    BY <1>3, <1>4, <1>5, <1>6

\* Enough bytes are the right ones.
LEMMA SentRight ==
    ASSUME NoIdTwice, ObjectInv, ContentsInv, ~spoilt,
           NEW key \in Keys, object[key] # None,
           IdsFit(object[key]), SameCode(ec_schema, object[key].schema),
           NEW decoded \in DecodedStripes(key, object[key]),
           ~(BytesSent(object[key]) < object[key].value_len),
           NEW p \in 1 .. object[key].value_len
    PROVE  ByteSent(object[key], decoded, p) = <<key, p>>
  <1>0. PICK o : o = object[key]
    OBVIOUS
  <1> DEFINE len == o.value_len
             n == Len(o.stripes)
             S == stripe_size(ec_schema, len)
             stored(h) == stored_block_size(o.schema, len, h)
             asked(h) == asked_block_size(ec_schema, len, n, h)
  <1>1. /\ ec_schema \in Schemas
        /\ o.schema \in Schemas
        /\ len \in Nat \ {0}
        /\ n \in Nat \ {0}
        /\ n = stripes_to_store(o.schema, len)
        /\ p \in Nat \ {0}
        /\ p <= len
    BY <1>0, ObjectFacts DEF ObjectInv, TypeOK
  <1>2. \A h : SizeRead(o, h) = asked(h)
    BY <1>0, ReadSize DEF ObjectInv
  <1>3. /\ LayoutSchema(ec_schema)
        /\ LayoutSchema(o.schema)
        /\ ec_schema.k = o.schema.k
        /\ ec_schema.k \in Nat \ {0}
    BY <1>0, <1>1, SchemaFacts DEF SameCode
  <1>4. ASSUME NEW h \in 0 .. n - 1, NEW c \in 0 .. ec_schema.k - 1
        PROVE  /\ asked(h) <= stored(h)
               /\ decoded[h][c] = SubSeq(EncodedBlock(key, o, h, c), 1, asked(h))
    <2>1. h \in Parts(key)
      BY <1>0 DEF Parts
    <2>2. decoded[h] \in Decoded(key, o, h)
      BY <1>0 DEF DecodedStripes
    <2> QED
      BY <1>0, <1>2, <2>1, <2>2, DecodedRight
  <1>5. /\ (n - 1) * S + ec_schema.k * asked(n - 1) >= len
        /\ \E i \in 0 .. n - 1, b \in 0 .. ec_schema.k - 1, q \in Nat :
              /\ q < asked(i)
              /\ p - 1 = i * S + b * asked(i) + q
              /\ ByteSent(o, decoded, p) = decoded[i][b][q + 1]
    <2>1. LET v == object[key].value_len
              m == Len(object[key].stripes)
              T == stripe_size(ec_schema, v)
          IN  /\ (m - 1) * T + ec_schema.k * SizeRead(object[key], m - 1) >= v
              /\ \E i \in 0 .. m - 1, b \in 0 .. ec_schema.k - 1, q \in Nat :
                    /\ q < SizeRead(object[key], i)
                    /\ p - 1 = i * T + b * SizeRead(object[key], i) + q
                    /\ \A d : ByteSent(object[key], d, p) = d[i][b][q + 1]
      BY SentPlace DEF ObjectInv
    <2>2. /\ (n - 1) * S + ec_schema.k * SizeRead(o, n - 1) >= len
          /\ \E i \in 0 .. n - 1, b \in 0 .. ec_schema.k - 1, q \in Nat :
                /\ q < SizeRead(o, i)
                /\ p - 1 = i * S + b * SizeRead(o, i) + q
                /\ \A d : ByteSent(o, d, p) = d[i][b][q + 1]
      BY <1>0, <2>1, Zenon
    <2> HIDE DEF asked, S, n, len
    <2> QED
      BY <1>2, <2>2
  <1>6. \A h \in 0 .. n - 1 : asked(h) = stored(h)
    <2>1. ASSUME NEW h \in 0 .. n - 1
          PROVE  asked(h) <= stored(h)
      <3>1. 0 \in 0 .. ec_schema.k - 1
        BY <1>3
      <3> QED
        BY <1>4, <3>1
    <2>2. PICK N : N = stripes_to_store(o.schema, len)
      OBVIOUS
    <2>3. /\ \A h \in 0 .. N - 1 : asked_block_size(ec_schema, len, N, h) <= stored(h)
          /\ (N - 1) * S + ec_schema.k * asked_block_size(ec_schema, len, N, N - 1) >= len
      BY <1>1, <1>5, <2>1, <2>2, Zenon
    <2>4. \A h \in 0 .. N - 1 : asked_block_size(ec_schema, len, N, h) = stored(h)
      BY <1>1, <1>3, <2>2, <2>3, OtherSizesFail
    <2> QED
      BY <1>1, <2>2, <2>4
  <1>7. PICK i \in 0 .. n - 1, b \in 0 .. ec_schema.k - 1, q \in Nat :
            /\ q < stored(i)
            /\ p - 1 = i * S + b * stored(i) + q
            /\ ByteSent(o, decoded, p) = decoded[i][b][q + 1]
    BY <1>5, <1>6
  <1>8. i * S = stripe_start(o.schema, len, i)
    <2>1. CASE i = 0
      <3>1. S \in Nat /\ stripe_size(o.schema, len) \in Nat
        BY <1>1, <1>3, Sizes
      <3> QED
        BY <2>1, <3>1 DEF stripe_start
    <2>2. CASE i # 0
      <3>1. 0 # n - 1 /\ 0 \in 0 .. n - 1
        BY <1>1, <2>2
      <3>2. asked(0) = block_size(ec_schema, len)
        BY <1>1, <1>3, <3>1, AskedSizes
      <3>3. stored(0) = block_size(o.schema, len)
        BY <1>1, <1>3, <3>1, AskedSizes, SameParameters
      <3>4. S = stripe_size(o.schema, len)
        BY <1>3, <1>6, <3>1, <3>2, <3>3 DEF stripe_size
      <3> QED
        BY <3>4 DEF stripe_start
    <2> QED
      BY <2>1, <2>2
  <1>9. /\ b \in Blocks(o.schema)
        /\ b < o.schema.k
        /\ stored(i) \in Nat
        /\ EncodedBlock(key, o, i, b) \in Contents
        /\ Len(EncodedBlock(key, o, i, b)) = stored(i)
    <2>1. b \in Blocks(o.schema) /\ b < o.schema.k
      BY <1>1, <1>3, SchemaFacts
    <2> QED
      BY <1>0, <2>1, EncodedFacts DEF ObjectInv
  <1>10. decoded[i][b] = EncodedBlock(key, o, i, b)
    <2>1. SubSeq(EncodedBlock(key, o, i, b), 1, stored(i)) = EncodedBlock(key, o, i, b)
      BY <1>9, FirstBytes
    <2>2. decoded[i][b] = SubSeq(EncodedBlock(key, o, i, b), 1, asked(i))
      BY <1>4
    <2>3. asked(i) = stored(i)
      BY <1>6
    <2> QED
      BY <2>1, <2>2, <2>3
  <1>11. EncodedBlock(key, o, i, b)[q + 1] =
             ByteOf(key, len, stripe_start(o.schema, len, i) + b * stored(i) + (q + 1))
    <2>1. q + 1 \in 1 .. stored(i)
      BY <1>7, <1>9
    <2> QED
      BY <1>9, <2>1 DEF EncodedBlock
  <1>12. stripe_start(o.schema, len, i) + b * stored(i) + (q + 1) = p
    <2>1. PICK x \in Nat : x = stripe_start(o.schema, len, i)
      <3>1. i \in Nat
        BY <1>1
      <3>2. stripe_size(o.schema, len) \in Nat
        BY <1>1, <1>3, Sizes
      <3>3. i * stripe_size(o.schema, len) \in Nat
        BY <3>1, <3>2, ProductsOfNaturals
      <3> QED
        BY <3>3 DEF stripe_start
    <2>2. PICK y \in Nat : y = b * stored(i)
      BY <1>3, <1>9, ProductsOfNaturals
    <2>3. p - 1 = x + y + q
      BY <1>7, <1>8, <2>1, <2>2
    <2>4. x + y + (q + 1) = p
      BY <1>1, <2>3
    <2> QED
      BY <2>1, <2>2, <2>4
  <1> QED
    BY <1>0, <1>1, <1>7, <1>10, <1>11, <1>12 DEF ByteOf

\* Nothing is missing to the parameters of the set when all nodes have their
\* blocks.
LEMMA WholeIsSent ==
    ASSUME NoIdTwice, ObjectInv, ContentsInv, ~spoilt,
           NEW key \in Keys, object[key] # None, object[key].pc = "commited",
           IdsFit(object[key]), ec_schema = object[key].schema,
           \A s \in ToSet(object[key].stripes) :
               \A j \in Blocks(object[key].schema) :
                   Available(object[key].schema, s, j)
    PROVE  /\ ~(BytesSent(object[key]) < object[key].value_len)
           /\ \A i \in 0 .. Len(object[key].stripes) - 1 :
                  Arriving(object[key], i) = Blocks(ec_schema)
  <1>0. PICK o : o = object[key]
    OBVIOUS
  <1> DEFINE len == o.value_len
             n == Len(o.stripes)
             stored(i) == stored_block_size(o.schema, len, i)
  <1>1. /\ ec_schema = o.schema
        /\ o.schema \in Schemas
        /\ LayoutSchema(o.schema)
        /\ len \in Nat \ {0}
        /\ n \in Nat \ {0}
        /\ n = stripes_to_store(o.schema, len)
        /\ o.stripes \in Seq(StripeIds)
        /\ SameCode(ec_schema, o.schema)
    BY <1>0, ObjectFacts, SchemaFacts DEF ObjectInv, SameCode
  <1>2. \A i : SizeRead(o, i) = stored(i)
    BY <1>0, <1>1, ReadSize, SameParameters DEF ObjectInv
  <1>3. ~(BytesSent(o) < len)
    <2>1. stripe_start(o.schema, len, n - 1) + o.schema.k * stored(n - 1) >= len
      BY <1>1, StripesHoldObject
    <2>2. BytesSent(o) = stripe_start(o.schema, len, n - 1)
                         + o.schema.k * stored(n - 1)
      BY <1>1, <1>2 DEF BytesSent, stripe_start
    <2>3. BytesSent(o) \in Nat
      <3>1. SizeRead(o, n - 1) \in Nat \ {0}
        BY <1>0, ReadSize DEF ObjectInv
      <3>2. /\ n - 1 \in Nat
            /\ stripe_size(o.schema, len) \in Nat
            /\ o.schema.k \in Nat
            /\ stored(n - 1) \in Nat
        BY <1>1, <1>2, <3>1, Sizes, SchemaFacts
      <3>3. /\ (n - 1) * stripe_size(o.schema, len) \in Nat
            /\ o.schema.k * stored(n - 1) \in Nat
        BY <3>2, ProductsOfNaturals
      <3> QED
        BY <2>2, <3>3 DEF stripe_start
    <2> QED
      BY <1>1, <2>1, <2>2, <2>3
  <1>4. ASSUME NEW i \in 0 .. n - 1, NEW j \in Blocks(ec_schema)
        PROVE  j \in Arriving(o, i)
    <2>1. i \in Parts(key) /\ j \in Blocks(o.schema)
      BY <1>0, <1>1, <1>4 DEF Parts
    <2>2. StripeOf(key, i) \in ToSet(o.stripes)
      <3>1. i + 1 \in DOMAIN o.stripes
        BY <1>1
      <3> QED
        BY <1>0, <3>1 DEF ToSet, StripeOf
    <2>3. Available(o.schema, StripeOf(key, i), j)
      BY <1>0, <2>1, <2>2
    <2>4. FirstAnswer(o.schema, StripeOf(key, i), j) = EncodedBlock(key, o, i, j)
      BY <1>0, <2>1, <2>3, AvailableAnswers DEF ContentsInv
    <2>5. BlockRead(o, i, j) = EncodedBlock(key, o, i, j)
      BY <1>0, <1>1, <2>1, <2>4, AskedBlocks
    <2>6. Len(EncodedBlock(key, o, i, j)) = stored(i) /\ stored(i) \in Nat
      BY <1>0, <2>1, EncodedFacts DEF ObjectInv
    <2> QED
      BY <1>2, <2>5, <2>6 DEF Arriving
  <1> QED
    BY <1>0, <1>3, <1>4 DEF Arriving

LEMMA GetIsRight ==
    ASSUME NoIdTwice, ObjectInv, ContentsInv, NEW key \in Keys, Get(key)
    PROVE  GetReturnsStored'
  <1> DEFINE o == object[key]
             whole == /\ ec_schema = o.schema
                      /\ \A s \in ToSet(o.stripes) : \A j \in Blocks(o.schema) :
                            Available(o.schema, s, j)
  <1>1. /\ o # None
        /\ o.pc = "commited"
        /\ object' = object
    BY DEF Get
  <1>2. PICK value \in Delivered(key, o) :
            got' = [key |-> key, value |-> value,
                    code |-> SameCode(ec_schema, o.schema), whole |-> whole]
    BY DEF Get
  <1>3. ~spoilt' => ~spoilt
    BY OutgrownIsNoted DEF Get, ObjectInv, TypeOK
  <1>4. ASSUME ~spoilt, IdsFit(o), SameCode(ec_schema, o.schema)
        PROVE  \/ value = Value(key, o.value_len)
               \/ value = Nothing /\ ~whole
    <2>1. whole => /\ ~(BytesSent(o) < o.value_len)
                   /\ \A i \in 0 .. Len(o.stripes) - 1 :
                          Arriving(o, i) = Blocks(ec_schema)
      BY <1>1, <1>4, WholeIsSent
    <2>2. CASE \E decoded \in DecodedStripes(key, o) : value =
                  IF BytesSent(o) < o.value_len THEN Nothing
                  ELSE [p \in 1 .. o.value_len |-> ByteSent(o, decoded, p)]
      <3>1. PICK decoded \in DecodedStripes(key, o) : value =
                  IF BytesSent(o) < o.value_len THEN Nothing
                  ELSE [p \in 1 .. o.value_len |-> ByteSent(o, decoded, p)]
        BY <2>2
      <3>2. CASE BytesSent(o) < o.value_len
        BY <2>1, <3>1, <3>2
      <3>3. CASE ~(BytesSent(o) < o.value_len)
        <4>1. \A p \in 1 .. o.value_len : ByteSent(o, decoded, p) = <<key, p>>
          BY <1>1, <1>4, <3>3, SentRight
        <4> QED
          BY <3>1, <3>3, <4>1 DEF Value
      <3> QED
        BY <3>2, <3>3
    <2>3. CASE /\ value = Nothing
               /\ ~(\A i \in 0 .. Len(o.stripes) - 1 : Arriving(o, i) = Blocks(ec_schema))
      BY <2>1, <2>3
    <2> QED
      BY <2>2, <2>3 DEF Delivered
  <1> HIDE DEF whole
  <1>5. /\ got'.key = key
        /\ got'.value = value
        /\ got'.code = SameCode(ec_schema, o.schema)
        /\ got'.whole = whole
    BY <1>2
  <1> QED
    BY <1>1, <1>3, <1>4, <1>5 DEF GetReturnsStored, IdsFit

\* What GetReturnsStored says: a get with parameters of the code that the
\* object was stored with returns the value, byte by byte, or nothing, whatever
\* stripe_size_upper is by then and whatever was repaired or started anew, and
\* with the same parameters and all the blocks in their places it returns it.
THEOREM StripedGetReturnsStored ==
    ASSUME NoIdTwice
    PROVE  Spec => []GetReturnsStored
  <1>1. Init => ObjectInv /\ ContentsInv /\ GetReturnsStored
    BY InitObjectInv, InitContentsInv DEF Init, GetReturnsStored
  <1>2. ObjectInv /\ ContentsInv /\ [Next]_vars => ObjectInv' /\ ContentsInv'
    BY NextObjectInv, NextContentsInv
  <1>3. ObjectInv /\ ContentsInv /\ GetReturnsStored /\ [Next]_vars
            => GetReturnsStored'
    <2> SUFFICES ASSUME ObjectInv, ContentsInv, GetReturnsStored, [Next]_vars
                 PROVE  GetReturnsStored'
      OBVIOUS
    <2>1. CASE \E key \in Keys : Get(key)
      BY <2>1, GetIsRight
    <2>2. CASE UNCHANGED vars
      BY <2>2 DEF vars, GetReturnsStored
    <2>3. ASSUME got' = None
          PROVE  GetReturnsStored'
      BY <2>3 DEF GetReturnsStored
    <2>4. CASE \/ \E schema \in Schemas : SetParameters(schema)
               \/ \E n \in Unsteady : RestartNode(n)
               \/ WriteBack
      BY <2>3, <2>4 DEF SetParameters, RestartNode, WriteBack
    <2>5. ASSUME NEW key \in Keys, NEW value_len \in Lengths,
                 GetProxyLocation(key, value_len)
          PROVE  GetReturnsStored'
      BY <2>3, <2>5 DEF GetProxyLocation
    <2>6. ASSUME NEW key \in Keys, NEW j, WriteBlock(key, j)
          PROVE  GetReturnsStored'
      BY <2>3, <2>6 DEF WriteBlock
    <2>7. ASSUME NEW key \in Keys, JoinWriters(key)
          PROVE  GetReturnsStored'
      BY <2>3, <2>7 DEF JoinWriters
    <2>8. ASSUME NEW key \in Keys, NEW i, NEW j, RebuildBlock(key, i, j)
          PROVE  GetReturnsStored'
      BY <2>3, <2>8, Zenon DEF RebuildBlock
    <2> QED
      BY <2>1, <2>2, <2>4, <2>5, <2>6, <2>7, <2>8 DEF Next
  <1> QED
    BY <1>1, <1>2, <1>3, PTL DEF Spec
=============================================================================
