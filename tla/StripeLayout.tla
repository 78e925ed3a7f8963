----------------------------- MODULE StripeLayout -----------------------------
(***************************************************************************)
(* How an object is cut into stripes and blocks: the sizes that            *)
(* get_proxy_location computes to store it and those that ask_for_data     *)
(* computes again to read it, and the ids that blocks have on the nodes.   *)
(***************************************************************************)
EXTENDS Integers

CONSTANTS
    Granule,   \* block sizes are multiples of it: 64
    IdSpan,    \* ids set aside for a stripe: 1000
    UIntSize   \* unsigned int counts modulo this: 2^32

ASSUME LayoutAssumption ==
    /\ Granule \in Nat \ {0}
    /\ IdSpan \in Nat \ {0}
    /\ UIntSize \in Nat \ {0}

\* std::ceil of a quotient of doubles, exact below 2^53.
CeilDiv(a, b) == (a + b - 1) \div b

RoundUp(n) == Granule * CeilDiv(n, Granule)

\* size_t(-1), which a placement has when its last stripe is like the others.
NoTail == -1

OneStripe(schema, value_len) == schema.stripe_size_upper >= value_len

block_size(schema, value_len) ==
    RoundUp(CeilDiv(IF OneStripe(schema, value_len)
                    THEN value_len ELSE schema.stripe_size_upper, schema.k))

-----------------------------------------------------------------------------
\* get_proxy_location: full stripes as long as there is value for them, and
\* one more for what is left.
stripe_size(schema, value_len) == schema.k * block_size(schema, value_len)

num_of_stripes(schema, value_len) ==
    value_len \div stripe_size(schema, value_len)

left_value_len(schema, value_len) ==
    value_len - num_of_stripes(schema, value_len) * stripe_size(schema, value_len)

HasTail(schema, value_len) ==
    ~OneStripe(schema, value_len) /\ left_value_len(schema, value_len) > 0

stripes_to_store(schema, value_len) ==
    CASE OneStripe(schema, value_len) -> 1
      [] HasTail(schema, value_len)   -> num_of_stripes(schema, value_len) + 1
      [] OTHER                        -> num_of_stripes(schema, value_len)

tail_to_store(schema, value_len) ==
    IF HasTail(schema, value_len)
    THEN RoundUp(CeilDiv(left_value_len(schema, value_len), schema.k))
    ELSE NoTail

\* ask_for_data: the tail once more, from a remainder.
tail_to_read(schema, value_len) ==
    LET tail_stripe_size == value_len % stripe_size(schema, value_len)
    IN  IF OneStripe(schema, value_len) \/ tail_stripe_size = 0
        THEN NoTail
        ELSE RoundUp(CeilDiv(tail_stripe_size, schema.k))

\* The proxy's choice for stripe i of so many, the same in a set and in a get.
cur_block_size(block, tail, stripes, i) ==
    IF i = stripes - 1 /\ tail # NoTail THEN tail ELSE block

stored_block_size(schema, value_len, i) ==
    cur_block_size(block_size(schema, value_len),
                   tail_to_store(schema, value_len),
                   stripes_to_store(schema, value_len), i)

\* The buffer that the proxy reads a value into, ...
value_buf_size(schema, value_len) ==
    stripes_to_store(schema, value_len) * stripe_size(schema, value_len)

\* Mutant: the stripes before a tail are taken to be of its size.
start_by_own_size(schema, value_len, i) ==
    i * schema.k * stored_block_size(schema, value_len, i)

\* ... and where in it stripe i is encoded from.
stripe_start(schema, value_len, i) == i * stripe_size(schema, value_len)

\* new_stripe_item keeps the size for repairs.
stripe_item_block_size(schema, value_len, i) ==
    IF HasTail(schema, value_len) /\ i = num_of_stripes(schema, value_len)
    THEN tail_to_store(schema, value_len)
    ELSE block_size(schema, value_len)

-----------------------------------------------------------------------------
\* std::to_string(stripe_id * 1000 + j) with an unsigned stripe_id, as a block
\* is written and repaired ...
written_id(stripe_id, j) == (stripe_id * IdSpan + j) % UIntSize

\* ... and with the int stripe_id of getFromNode, whose overflow is undefined
\* and wraps on common builds.
read_id(stripe_id, j) ==
    LET id == written_id(stripe_id, j)
    IN  IF 2 * id < UIntSize THEN id ELSE id - UIntSize
=============================================================================
