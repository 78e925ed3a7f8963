-------------------------- MODULE StripeLayoutProofs --------------------------
(***************************************************************************)
(* The layout, for every length of the value, every number of data blocks  *)
(* and every stripe_size_upper.                                            *)
(***************************************************************************)
EXTENDS StripeLayout, TLAPS

LEMMA DivMod ==
    ASSUME NEW a \in Nat, NEW b \in Nat \ {0}
    PROVE  /\ a \div b \in Nat
           /\ a % b \in 0 .. b - 1
           /\ a = b * (a \div b) + (a % b)
  OBVIOUS

LEMMA ProductsOfNaturals ==
    ASSUME NEW a \in Nat, NEW b \in Nat
    PROVE  a * b \in Nat
  OBVIOUS

LEMMA CeilDivBounds ==
    ASSUME NEW a \in Nat, NEW b \in Nat \ {0}
    PROVE  /\ CeilDiv(a, b) \in Nat
           /\ b * CeilDiv(a, b) >= a
           /\ b * CeilDiv(a, b) < a + b
  <1>1. a + b - 1 \in Nat
    OBVIOUS
  <1>2. /\ CeilDiv(a, b) \in Nat
        /\ (a + b - 1) % b \in 0 .. b - 1
        /\ a + b - 1 = b * CeilDiv(a, b) + ((a + b - 1) % b)
    BY <1>1, DivMod DEF CeilDiv
  <1>3. b * CeilDiv(a, b) \in Nat
    BY <1>2, ProductsOfNaturals
  <1>4. \A p, r \in Nat : r \in 0 .. b - 1 /\ a + b - 1 = p + r
                              => p >= a /\ p < a + b
    OBVIOUS
  <1>5. (a + b - 1) % b \in Nat
    BY <1>2
  <1> QED
    BY <1>2, <1>3, <1>4, <1>5

\* Rounding up to the granule adds less than one granule.
LEMMA RoundUpBounds ==
    ASSUME NEW a \in Nat
    PROVE  /\ RoundUp(a) \in Nat
           /\ RoundUp(a) >= a
           /\ RoundUp(a) < a + Granule
  <1>1. Granule \in Nat \ {0}
    BY LayoutAssumption
  <1>2. CeilDiv(a, Granule) \in Nat
    BY <1>1, CeilDivBounds
  <1> QED
    BY <1>1, <1>2, CeilDivBounds, ProductsOfNaturals DEF RoundUp

LEMMA Monotone ==
    ASSUME NEW a \in Nat, NEW b \in Nat, NEW c \in Nat, b >= c
    PROVE  a * b >= a * c
  OBVIOUS

LEMMA PositiveProduct ==
    ASSUME NEW a \in Nat, NEW b \in Nat, a * b > 0
    PROVE  a > 0 /\ b > 0
  OBVIOUS

\* k blocks of the size that is computed for some bytes hold them, and there is
\* at least one byte in each; they have less than a granule too much.
LEMMA BlocksHold ==
    ASSUME NEW k \in Nat \ {0}, NEW len \in Nat \ {0}
    PROVE  LET size == RoundUp(CeilDiv(len, k))
           IN  /\ size \in Nat \ {0}
               /\ k * size >= len
               /\ k * size < len + k * Granule
  <1> DEFINE c == CeilDiv(len, k)
             size == RoundUp(c)
  <1>1. Granule \in Nat \ {0}
    BY LayoutAssumption
  <1>2. c \in Nat /\ k * c >= len /\ k * c < len + k
    BY CeilDivBounds
  <1>3. size \in Nat /\ size >= c /\ size < c + Granule
    BY <1>2, RoundUpBounds
  <1> HIDE DEF c, size
  <1>4. k * size >= k * c /\ k * size \in Nat /\ k * c \in Nat
    BY <1>2, <1>3, Monotone, ProductsOfNaturals
  <1>5. k * size >= len
    BY <1>2, <1>4
  <1>6. size > 0
    BY <1>3, <1>4, <1>5, PositiveProduct
  <1>7. k * (size + 1) <= k * (c + Granule)
    BY <1>1, <1>2, <1>3, Monotone
  <1>8. k * (c + Granule) = k * c + k * Granule /\ k * (size + 1) = k * size + k
    BY <1>1, <1>2, <1>3
  <1>10. k * Granule \in Nat
    BY <1>1, ProductsOfNaturals
  <1>11. k * size < len + k * Granule
    BY <1>2, <1>4, <1>7, <1>8, <1>10
  <1>12. size \in Nat \ {0} /\ k * size >= len /\ k * size < len + k * Granule
    BY <1>3, <1>5, <1>6, <1>11
  <1> QED
    BY <1>12 DEF c, size

-----------------------------------------------------------------------------
\* Every theorem below is about a schema and the length of a value.  What the
\* layout uses of an EC_schema:
LayoutSchema(schema) ==
    schema.k \in Nat \ {0} /\ schema.stripe_size_upper \in Nat \ {0}

LEMMA Sizes ==
    ASSUME NEW schema, LayoutSchema(schema), NEW len \in Nat \ {0}
    PROVE  /\ block_size(schema, len) \in Nat \ {0}
           /\ stripe_size(schema, len) \in Nat \ {0}
           /\ OneStripe(schema, len) => stripe_size(schema, len) >= len
  <1> DEFINE upper == IF OneStripe(schema, len) THEN len
                      ELSE schema.stripe_size_upper
  <1>1. schema.k \in Nat \ {0} /\ upper \in Nat \ {0}
    BY DEF LayoutSchema
  <1>2. block_size(schema, len) = RoundUp(CeilDiv(upper, schema.k))
    BY DEF block_size
  <1>3. OneStripe(schema, len) => upper = len
    OBVIOUS
  <1> HIDE DEF upper
  <1>4. /\ block_size(schema, len) \in Nat \ {0}
        /\ schema.k * block_size(schema, len) >= upper
    BY <1>1, <1>2, BlocksHold
  <1>5. schema.k * block_size(schema, len) \in Nat
    BY <1>1, <1>4, ProductsOfNaturals
  <1>6. stripe_size(schema, len) = schema.k * block_size(schema, len)
    BY DEF stripe_size
  <1> QED
    BY <1>1, <1>3, <1>4, <1>5, <1>6

\* What is left after the full stripes is the remainder.
LEMMA LeftIsRemainder ==
    ASSUME NEW schema, LayoutSchema(schema), NEW len \in Nat \ {0}
    PROVE  LET S == stripe_size(schema, len)
               N == num_of_stripes(schema, len)
           IN  /\ N \in Nat
               /\ N * S \in Nat
               /\ left_value_len(schema, len) \in 0 .. S - 1
               /\ left_value_len(schema, len) = len % S
               /\ len = N * S + left_value_len(schema, len)
  <1> DEFINE S == stripe_size(schema, len)
             N == num_of_stripes(schema, len)
  <1>1. S \in Nat \ {0}
    BY Sizes
  <1>2. N = len \div S /\ left_value_len(schema, len) = len - N * S
    BY DEF num_of_stripes, left_value_len
  <1> HIDE DEF S, N
  <1>3. N \in Nat /\ len % S \in 0 .. S - 1 /\ len = S * N + (len % S)
    BY <1>1, <1>2, DivMod
  <1>4. N * S \in Nat /\ S * N = N * S
    BY <1>1, <1>3, ProductsOfNaturals
  <1>5. left_value_len(schema, len) = len % S
    BY <1>1, <1>2, <1>3, <1>4
  <1>6. len = N * S + left_value_len(schema, len)
    BY <1>3, <1>4, <1>5
  <1>7. left_value_len(schema, len) \in 0 .. S - 1
    BY <1>3, <1>5
  <1> QED
    BY <1>3, <1>4, <1>5, <1>6, <1>7 DEF S, N

\* get_proxy_location and ask_for_data compute the tail in two ways, and come
\* to the same: a get asks for blocks of the size that a set has written, as
\* long as the parameters are the same.
THEOREM TailsAgree ==
    ASSUME NEW schema, LayoutSchema(schema), NEW len \in Nat \ {0}
    PROVE  tail_to_read(schema, len) = tail_to_store(schema, len)
  <1> DEFINE left == left_value_len(schema, len)
  <1>1. left = len % stripe_size(schema, len) /\ left \in Nat
    <2>1. stripe_size(schema, len) \in Nat \ {0}
      BY Sizes
    <2>2. left \in 0 .. stripe_size(schema, len) - 1
      BY LeftIsRemainder
    <2>3. left = len % stripe_size(schema, len)
      BY LeftIsRemainder
    <2> QED
      BY <2>1, <2>2, <2>3
  <1>2. HasTail(schema, len) <=> ~(OneStripe(schema, len) \/ left = 0)
    BY <1>1 DEF HasTail
  <1> QED
    BY <1>1, <1>2 DEF tail_to_read, tail_to_store

\* The tail's blocks hold what is left and are no larger than the others.
LEMMA TailFits ==
    ASSUME NEW schema, LayoutSchema(schema), NEW len \in Nat \ {0},
           HasTail(schema, len)
    PROVE  /\ tail_to_store(schema, len) \in 1 .. block_size(schema, len)
           /\ schema.k * tail_to_store(schema, len) >= left_value_len(schema, len)
  <1> DEFINE k == schema.k
             b == block_size(schema, len)
             left == left_value_len(schema, len)
             c == CeilDiv(left, k)
             upper == schema.stripe_size_upper
             m == CeilDiv(CeilDiv(upper, k), Granule)
             t == CeilDiv(c, Granule)
  <1>1. /\ k \in Nat \ {0}
        /\ upper \in Nat \ {0}
        /\ b \in Nat \ {0}
        /\ Granule \in Nat \ {0}
    BY Sizes, LayoutAssumption DEF LayoutSchema
  <1>2. stripe_size(schema, len) = k * b /\ k * b \in Nat
    BY <1>1, ProductsOfNaturals DEF stripe_size
  <1>3. left \in Nat \ {0} /\ left < k * b
    <2>1. left \in 0 .. stripe_size(schema, len) - 1
      BY LeftIsRemainder
    <2>2. left > 0
      BY DEF HasTail
    <2> QED
      BY <1>2, <2>1, <2>2
  <1>4. tail_to_store(schema, len) = Granule * t
    BY DEF tail_to_store, RoundUp
  <1>5. b = Granule * m
    BY DEF HasTail, block_size, RoundUp
  <1> HIDE DEF k, b, left, upper
  <1>6. c \in Nat /\ k * c \in Nat /\ k * c < left + k
    BY <1>1, <1>3, CeilDivBounds, ProductsOfNaturals
  <1>7. m \in Nat /\ t \in Nat /\ Granule * t < c + Granule
    BY <1>1, <1>6, CeilDivBounds
  <1>8. Granule * t \in Nat \ {0} /\ k * (Granule * t) >= left
    BY <1>1, <1>3, BlocksHold DEF RoundUp
  <1> HIDE DEF c, m, t
  <1>9. c <= b
    <2>1. SUFFICES ASSUME c >= b + 1
                   PROVE  FALSE
      BY <1>1, <1>6
    <2>2. k * c >= k * (b + 1)
      BY <1>1, <1>6, <2>1, Monotone
    <2>3. k * (b + 1) = k * b + k
      BY <1>1
    <2> QED
      BY <1>1, <1>2, <1>3, <1>6, <2>2, <2>3
  <1>10. t <= m
    <2>1. SUFFICES ASSUME t >= m + 1
                   PROVE  FALSE
      BY <1>7
    <2>2. Granule * t >= Granule * (m + 1)
      BY <1>1, <1>7, <2>1, Monotone
    <2>3. Granule * (m + 1) = Granule * m + Granule
      BY <1>1, <1>7
    <2> QED
      BY <1>1, <1>5, <1>6, <1>7, <1>8, <1>9, <2>2, <2>3
  <1>11. Granule * t <= b
    BY <1>1, <1>5, <1>7, <1>10, Monotone
  <1>12. /\ tail_to_store(schema, len) \in 1 .. b
         /\ k * tail_to_store(schema, len) >= left
    BY <1>1, <1>4, <1>8, <1>11
  <1> QED
    BY <1>12 DEF k, b, left

\* What a repair is told is a block's size is what the proxy has stored, for
\* every stripe of the object.
THEOREM RepairKnowsBlockSize ==
    ASSUME NEW schema, LayoutSchema(schema), NEW len \in Nat \ {0},
           NEW i \in 0 .. stripes_to_store(schema, len) - 1
    PROVE  stripe_item_block_size(schema, len, i) = stored_block_size(schema, len, i)
  <1> DEFINE N == num_of_stripes(schema, len)
             n == stripes_to_store(schema, len)
             tail == tail_to_store(schema, len)
  <1>1. N \in Nat
    BY LeftIsRemainder
  <1>2. CASE HasTail(schema, len)
    <2>1. n = N + 1
      BY <1>2 DEF stripes_to_store, HasTail
    <2>2. tail # NoTail
      <3>1. tail \in 1 .. block_size(schema, len)
        BY <1>2, TailFits
      <3>2. block_size(schema, len) \in Nat
        BY Sizes
      <3> QED
        BY <3>1, <3>2 DEF NoTail
    <2>3. i = N <=> i = n - 1
      BY <1>1, <2>1
    <2> QED
      BY <1>2, <2>2, <2>3
      DEF stripe_item_block_size, stored_block_size, cur_block_size
  <1>3. CASE ~HasTail(schema, len)
    <2>1. tail = NoTail
      BY <1>3 DEF tail_to_store
    <2> QED
      BY <1>3, <2>1
      DEF stripe_item_block_size, stored_block_size, cur_block_size
  <1> QED
    BY <1>2, <1>3

\* A set: every stripe has blocks of at least one byte (my_assert(cur_block_size
\* > 0)) and is encoded from inside value_buf, and together the stripes take
\* all of the value.
THEOREM StripesHoldObject ==
    ASSUME NEW schema, LayoutSchema(schema), NEW len \in Nat \ {0}
    PROVE  LET n == stripes_to_store(schema, len)
               End(i) == stripe_start(schema, len, i)
                         + schema.k * stored_block_size(schema, len, i)
           IN  /\ n \in Nat \ {0}
               /\ \A i \in 0 .. n - 1 :
                     /\ stored_block_size(schema, len, i) \in 1 .. block_size(schema, len)
                     /\ End(i) <= value_buf_size(schema, len)
                     /\ i < n - 1 => End(i) = stripe_start(schema, len, i + 1)
               /\ End(n - 1) >= len
               /\ stripe_start(schema, len, n - 1) < len
  <1> DEFINE k == schema.k
             b == block_size(schema, len)
             S == stripe_size(schema, len)
             N == num_of_stripes(schema, len)
             left == left_value_len(schema, len)
             n == stripes_to_store(schema, len)
             size(i) == stored_block_size(schema, len, i)
             start(i) == stripe_start(schema, len, i)
             End(i) == start(i) + k * size(i)
             tail == tail_to_store(schema, len)
  <1>1. /\ k \in Nat \ {0}
        /\ b \in Nat \ {0}
        /\ S \in Nat \ {0}
        /\ S = k * b
    BY Sizes DEF LayoutSchema, stripe_size
  <1>2. /\ N \in Nat
        /\ N * S \in Nat
        /\ left \in 0 .. S - 1
        /\ len = N * S + left
    BY LeftIsRemainder
  <1>3. /\ HasTail(schema, len) =>
              /\ n = N + 1
              /\ tail \in 1 .. b
              /\ tail # NoTail
              /\ k * tail >= left
              /\ left > 0
        /\ ~HasTail(schema, len) => tail = NoTail
    BY <1>1, TailFits DEF HasTail, stripes_to_store, tail_to_store, NoTail
  <1>4. OneStripe(schema, len) => n = 1 /\ S >= len
    BY Sizes DEF stripes_to_store, HasTail
  <1>5. ~OneStripe(schema, len) /\ ~HasTail(schema, len) => n = N /\ left = 0
    BY <1>2 DEF stripes_to_store, HasTail
  <1>6. HasTail(schema, len) => ~OneStripe(schema, len)
    BY DEF HasTail
  <1>7. \A i : size(i) = IF i = n - 1 /\ tail # NoTail THEN tail ELSE b
    BY DEF stored_block_size, cur_block_size
  <1>8. \A i : start(i) = i * S
    BY DEF stripe_start
  <1>9. value_buf_size(schema, len) = n * S
    BY DEF value_buf_size
  <1> HIDE DEF k, b, S, N, left, n, size, start, tail
  <1>10. n \in Nat \ {0}
    <2>1. CASE ~OneStripe(schema, len) /\ ~HasTail(schema, len)
      <3>1. N * S > 0
        BY <1>2, <1>5, <2>1
      <3> QED
        BY <1>1, <1>2, <1>5, <2>1, <3>1, PositiveProduct
    <2> QED
      BY <1>2, <1>3, <1>4, <2>1
  <1>11. \A i \in 0 .. n - 1 : size(i) \in 1 .. b
    BY <1>1, <1>3, <1>7
  <1>12. ASSUME NEW i \in 0 .. n - 1
         PROVE  End(i) <= n * S
    <2>1. size(i) \in Nat /\ b >= size(i)
      BY <1>1, <1>11
    <2>2. k * b >= k * size(i)
      BY <1>1, <2>1, Monotone
    <2>3. S * n >= S * (i + 1) /\ S * (i + 1) = i * S + S /\ S * n = n * S
      BY <1>1, <1>10, Monotone
    <2>4. i * S \in Nat /\ k * size(i) \in Nat /\ n * S \in Nat
      BY <1>1, <1>10, <2>1, ProductsOfNaturals
    <2> QED
      BY <1>1, <1>8, <2>2, <2>3, <2>4
  <1>13. ASSUME NEW i \in 0 .. n - 1, i < n - 1
         PROVE  End(i) = start(i + 1)
    <2>1. size(i) = b
      BY <1>7, <1>10, <1>13
    <2>2. (i + 1) * S = i * S + S
      BY <1>1
    <2> QED
      BY <1>1, <1>8, <2>1, <2>2
  <1>14. End(n - 1) >= len /\ start(n - 1) < len
    <2>1. CASE HasTail(schema, len)
      <3>1. n - 1 = N /\ size(n - 1) = tail
        BY <1>2, <1>3, <1>7, <2>1
      <3>2. k * tail \in Nat
        BY <1>1, <1>3, <2>1, ProductsOfNaturals
      <3> QED
        BY <1>2, <1>3, <1>8, <2>1, <3>1, <3>2
    <2>2. CASE OneStripe(schema, len)
      <3>1. n - 1 = 0 /\ size(n - 1) = b
        BY <1>3, <1>4, <1>6, <1>7, <2>2
      <3>2. start(n - 1) = 0
        BY <1>1, <1>8, <3>1
      <3> QED
        BY <1>1, <1>4, <2>2, <3>1, <3>2
    <2>3. CASE ~OneStripe(schema, len) /\ ~HasTail(schema, len)
      <3>1. size(n - 1) = b
        BY <1>3, <1>7, <2>3
      <3>2. n * S = (n - 1) * S + S
        BY <1>1, <1>10
      <3>3. (n - 1) * S \in Nat
        BY <1>1, <1>10, ProductsOfNaturals
      <3> QED
        BY <1>1, <1>2, <1>5, <1>8, <2>3, <3>1, <3>2, <3>3
    <2> QED
      BY <2>1, <2>2, <2>3
  <1> QED
    BY <1>9, <1>10, <1>11, <1>12, <1>13, <1>14
    DEF k, b, n, size, start

-----------------------------------------------------------------------------
\* The stripes of a set have less than a granule per block too much: the last
\* ends before that.
LEMMA StripesAreTight ==
    ASSUME NEW schema, LayoutSchema(schema), NEW len \in Nat \ {0}
    PROVE  LET n == stripes_to_store(schema, len)
           IN  (n - 1) * stripe_size(schema, len)
                   + schema.k * stored_block_size(schema, len, n - 1)
                       < len + schema.k * Granule
  <1> DEFINE k == schema.k
             S == stripe_size(schema, len)
             N == num_of_stripes(schema, len)
             left == left_value_len(schema, len)
             n == stripes_to_store(schema, len)
             last == stored_block_size(schema, len, n - 1)
  <1>1. /\ k \in Nat \ {0}
        /\ S \in Nat \ {0}
        /\ S = k * block_size(schema, len)
        /\ k * Granule \in Nat \ {0}
    BY Sizes, LayoutAssumption, ProductsOfNaturals
    DEF LayoutSchema, stripe_size
  <1>2. N \in Nat /\ N * S \in Nat /\ left \in Nat /\ len = N * S + left
    BY <1>1, LeftIsRemainder
  <1>3. CASE HasTail(schema, len)
    <2>1. n - 1 = N /\ left \in Nat \ {0}
      BY <1>2, <1>3 DEF stripes_to_store, HasTail
    <2>2. tail_to_store(schema, len) = RoundUp(CeilDiv(left, k))
      BY <1>3 DEF tail_to_store
    <2>3. tail_to_store(schema, len) \in Nat \ {0}
      BY <1>1, <2>1, <2>2, BlocksHold
    <2>4. last = tail_to_store(schema, len)
      BY <2>3 DEF stored_block_size, cur_block_size, NoTail
    <2>5. k * last < left + k * Granule /\ k * last \in Nat
      <3> HIDE DEF k, left, last
      <3> QED
        BY <1>1, <2>1, <2>2, <2>3, <2>4, BlocksHold, ProductsOfNaturals
    <2> HIDE DEF k, S, N, left, n, last
    <2> QED
      BY <1>1, <1>2, <2>1, <2>5 DEF k, S, n, last
  <1>4. CASE ~HasTail(schema, len)
    <2>1. last = block_size(schema, len)
      <3>1. tail_to_store(schema, len) = NoTail
        BY <1>4 DEF tail_to_store
      <3> QED
        BY <3>1 DEF stored_block_size, cur_block_size
    <2>2. CASE OneStripe(schema, len)
      <3>1. n - 1 = 0
        BY <1>4, <2>2 DEF stripes_to_store
      <3>2. last = RoundUp(CeilDiv(len, k))
        BY <2>1, <2>2 DEF block_size
      <3>3. k * last < len + k * Granule /\ k * last \in Nat
        <4> HIDE DEF k, last
        <4> QED
          BY <1>1, <3>2, BlocksHold, ProductsOfNaturals
      <3>4. (n - 1) * S = 0
        BY <1>1, <3>1
      <3> HIDE DEF k, S, n, last
      <3> QED
        BY <1>1, <3>3, <3>4 DEF k, S, n, last
    <2>3. CASE ~OneStripe(schema, len)
      <3>1. n = N /\ left = 0
        BY <1>2, <1>4, <2>3 DEF stripes_to_store, HasTail
      <3>2. k * last = S
        BY <1>1, <2>1
      <3>3. (n - 1) * S = N * S - S
        BY <1>1, <1>2, <3>1
      <3> HIDE DEF k, S, N, left, n, last
      <3> QED
        BY <1>1, <1>2, <3>1, <3>2, <3>3 DEF k, S, n, last
    <2> QED
      BY <2>2, <2>3
  <1> QED
    BY <1>3, <1>4

\* Every size is a multiple of the granule, so that of two the smaller is a
\* granule smaller at least.
IsSize(x) == \E m \in Nat : x = Granule * m

LEMMA RoundedIsSize ==
    ASSUME NEW a \in Nat
    PROVE  IsSize(RoundUp(a))
  <1>1. CeilDiv(a, Granule) \in Nat
    BY LayoutAssumption, CeilDivBounds
  <1> QED
    BY <1>1 DEF RoundUp, IsSize

LEMMA SmallerByAGranule ==
    ASSUME NEW x \in Nat, NEW y \in Nat, IsSize(x), IsSize(y), x < y
    PROVE  x + Granule <= y
  <1>1. PICK m \in Nat : x = Granule * m
    BY DEF IsSize
  <1>2. PICK p \in Nat : y = Granule * p
    BY DEF IsSize
  <1>3. Granule \in Nat \ {0}
    BY LayoutAssumption
  <1>4. ~(m >= p)
    BY <1>1, <1>2, <1>3, Monotone
  <1>5. p >= m + 1
    BY <1>4
  <1>6. Granule * p >= Granule * (m + 1)
    BY <1>3, <1>5, Monotone
  <1>7. Granule * (m + 1) = Granule * m + Granule
    BY <1>3
  <1> QED
    BY <1>1, <1>2, <1>6, <1>7

\* What a get under the schema asks for, of an object of n stripes.
asked_block_size(schema, len, n, i) ==
    cur_block_size(block_size(schema, len), tail_to_read(schema, len), n, i)

LEMMA AskedSizes ==
    ASSUME NEW schema, LayoutSchema(schema), NEW len \in Nat \ {0}, NEW n, NEW i
    PROVE  /\ asked_block_size(schema, len, n, i) \in 1 .. block_size(schema, len)
           /\ IsSize(asked_block_size(schema, len, n, i))
           /\ i # n - 1 => asked_block_size(schema, len, n, i) = block_size(schema, len)
  <1> DEFINE b == block_size(schema, len)
             tail == tail_to_read(schema, len)
  <1>1. schema.k \in Nat \ {0} /\ schema.stripe_size_upper \in Nat \ {0}
    BY DEF LayoutSchema
  <1>2. b \in Nat \ {0}
    BY Sizes
  <1>3. IsSize(b)
    <2>1. CeilDiv(IF OneStripe(schema, len) THEN len
                  ELSE schema.stripe_size_upper, schema.k) \in Nat
      BY <1>1, CeilDivBounds
    <2> QED
      BY <2>1, RoundedIsSize DEF block_size
  <1>4. tail # NoTail => tail \in 1 .. b /\ IsSize(tail)
    <2>1. tail = tail_to_store(schema, len)
      BY TailsAgree
    <2>2. tail # NoTail => HasTail(schema, len)
      BY <2>1 DEF tail_to_store
    <2>3. HasTail(schema, len) => tail \in 1 .. b
      BY <2>1, TailFits
    <2>4. HasTail(schema, len) => IsSize(tail)
      <3>1. left_value_len(schema, len) \in Nat
        <4>1. /\ left_value_len(schema, len) \in 0 .. stripe_size(schema, len) - 1
              /\ stripe_size(schema, len) \in Nat
          BY LeftIsRemainder, Sizes
        <4> QED
          BY <4>1
      <3>2. CeilDiv(left_value_len(schema, len), schema.k) \in Nat
        BY <1>1, <3>1, CeilDivBounds
      <3> QED
        BY <2>1, <3>2, RoundedIsSize DEF tail_to_store
    <2> QED
      BY <2>2, <2>3, <2>4
  <1> QED
    BY <1>2, <1>3, <1>4 DEF asked_block_size, cur_block_size

\* A get with the same parameters asks for what was stored.
LEMMA SameParameters ==
    ASSUME NEW schema, LayoutSchema(schema), NEW len \in Nat \ {0}, NEW i
    PROVE  asked_block_size(schema, len, stripes_to_store(schema, len), i) =
               stored_block_size(schema, len, i)
  BY TailsAgree DEF asked_block_size, stored_block_size

\* A get with the same number of data blocks and another stripe_size_upper: if
\* it is sent all that it asks for, and that is enough, then it has asked for
\* what was stored.
THEOREM OtherSizesFail ==
    ASSUME NEW schema, LayoutSchema(schema), NEW other, LayoutSchema(other),
           other.k = schema.k, NEW len \in Nat \ {0},
           LET n == stripes_to_store(schema, len)
               asked(i) == asked_block_size(other, len, n, i)
           IN  /\ \A i \in 0 .. n - 1 : asked(i) <= stored_block_size(schema, len, i)
               /\ (n - 1) * stripe_size(other, len) + other.k * asked(n - 1) >= len
    PROVE  LET n == stripes_to_store(schema, len)
           IN  \A i \in 0 .. n - 1 :
                   asked_block_size(other, len, n, i) = stored_block_size(schema, len, i)
  <1> DEFINE k == schema.k
             n == stripes_to_store(schema, len)
             asked(i) == asked_block_size(other, len, n, i)
             stored(i) == stored_block_size(schema, len, i)
             a == asked(n - 1)
             s == stored(n - 1)
             b == block_size(schema, len)
             c == block_size(other, len)
  <1>1. k \in Nat \ {0} /\ n \in Nat \ {0} /\ Granule \in Nat \ {0}
    BY StripesHoldObject, LayoutAssumption DEF LayoutSchema
  <1>2. /\ \A i : asked(i) \in 1 .. c /\ IsSize(asked(i))
        /\ \A i : i # n - 1 => asked(i) = c
        /\ c \in Nat
    BY AskedSizes, Sizes
  <1>3. /\ \A i : stored(i) \in 1 .. b /\ IsSize(stored(i))
        /\ \A i : i # n - 1 => stored(i) = b
        /\ b \in Nat
    BY AskedSizes, SameParameters, Sizes
  <1>4. /\ (n - 1) * (k * c) + k * a >= len
        /\ (n - 1) * (k * b) + k * s < len + k * Granule
        /\ \A i \in 0 .. n - 1 : asked(i) <= stored(i)
    BY StripesAreTight DEF stripe_size
  <1> HIDE DEF k, n, asked, stored, b, c
  <1>5. a \in Nat /\ s \in Nat /\ a <= s /\ IsSize(a) /\ IsSize(s)
    BY <1>1, <1>2, <1>3, <1>4
  <1>6. /\ k * a \in Nat /\ k * s \in Nat /\ k * Granule \in Nat
        /\ k * c \in Nat /\ k * b \in Nat
        /\ k * s >= k * a
    BY <1>1, <1>2, <1>3, <1>5, ProductsOfNaturals, Monotone
  <1>7. n - 1 > 0 => c <= b /\ IsSize(c) /\ IsSize(b)
    <2>1. SUFFICES ASSUME n - 1 > 0
                   PROVE  c <= b /\ IsSize(c) /\ IsSize(b)
      OBVIOUS
    <2>2. asked(0) = c /\ stored(0) = b /\ 0 \in 0 .. n - 1
      BY <1>1, <1>2, <1>3, <2>1
    <2> QED
      BY <1>2, <1>3, <1>4, <2>2
  <1>8. (n - 1) * (k * b) >= (n - 1) * (k * c)
    <2>1. CASE n - 1 > 0
      <3>1. k * b >= k * c
        BY <1>1, <1>2, <1>3, <1>7, <2>1, Monotone
      <3> QED
        BY <1>1, <1>6, <3>1, Monotone
    <2>2. CASE ~(n - 1 > 0)
      <3>1. n - 1 = 0
        BY <1>1, <2>2
      <3>2. (n - 1) * (k * b) = 0 /\ (n - 1) * (k * c) = 0
        BY <1>6, <3>1
      <3> QED
        BY <3>2
    <2> QED
      BY <2>1, <2>2
  <1>9. (n - 1) * (k * b) \in Nat /\ (n - 1) * (k * c) \in Nat
    BY <1>1, <1>6, ProductsOfNaturals
  <1>10. a = s
    <2>1. SUFFICES ASSUME a < s
                   PROVE  FALSE
      BY <1>5
    <2>2. a + Granule <= s
      BY <1>5, <2>1, SmallerByAGranule
    <2>3. k * s >= k * (a + Granule) /\ k * (a + Granule) = k * a + k * Granule
      BY <1>1, <1>5, <2>2, Monotone
    <2> QED
      BY <1>1, <1>4, <1>6, <1>8, <1>9, <2>3
  <1>11. n - 1 > 0 => c = b
    <2>1. SUFFICES ASSUME n - 1 > 0, c < b
                   PROVE  FALSE
      BY <1>2, <1>3, <1>7
    <2>2. c + Granule <= b
      BY <1>2, <1>3, <1>7, <2>1, SmallerByAGranule
    <2>3. k * b >= k * (c + Granule) /\ k * (c + Granule) = k * c + k * Granule
      BY <1>1, <1>2, <1>3, <2>2, Monotone
    <2>4. (n - 1) * (k * b) >= (n - 1) * (k * c + k * Granule)
      BY <1>1, <1>6, <2>3, Monotone
    <2>5. (n - 1) * (k * c + k * Granule) =
              (n - 1) * (k * c) + (n - 1) * (k * Granule)
      BY <1>1, <1>6
    <2>6. (n - 1) * (k * Granule) >= k * Granule
      <3>1. (k * Granule) * (n - 1) >= (k * Granule) * 1
        BY <1>1, <1>6, <2>1, Monotone
      <3> QED
        BY <1>1, <1>6, <3>1
    <2>7. (n - 1) * (k * Granule) \in Nat
      BY <1>1, <1>6, ProductsOfNaturals
    <2> QED
      BY <1>4, <1>6, <1>9, <1>10, <2>4, <2>5, <2>6, <2>7
  <1>12. ASSUME NEW i \in 0 .. n - 1
         PROVE  asked(i) = stored(i)
    <2>1. CASE i = n - 1
      BY <1>10, <2>1
    <2>2. CASE i # n - 1
      BY <1>1, <1>2, <1>3, <1>11, <1>12, <2>2
    <2> QED
      BY <2>1, <2>2
  <1> QED
    BY <1>12 DEF n, asked, stored

\* The p-th byte of what is sent lies in one of the stripes, in one of its data
\* blocks.
LEMMA PlaceOfByte ==
    ASSUME NEW schema, LayoutSchema(schema), NEW len \in Nat \ {0},
           NEW n \in Nat \ {0}, NEW p \in Nat,
           p < (n - 1) * stripe_size(schema, len)
                   + schema.k * asked_block_size(schema, len, n, n - 1)
    PROVE  LET S    == stripe_size(schema, len)
               i    == p \div S
               rest == p % S
               size == asked_block_size(schema, len, n, i)
           IN  /\ i \in 0 .. n - 1
               /\ rest \div size \in 0 .. schema.k - 1
               /\ rest % size \in 0 .. size - 1
               /\ p = i * S + (rest \div size) * size + (rest % size)
  <1> DEFINE k == schema.k
             S == stripe_size(schema, len)
             i == p \div S
             rest == p % S
             size == asked_block_size(schema, len, n, i)
             last == asked_block_size(schema, len, n, n - 1)
             b == block_size(schema, len)
             j == rest \div size
             q == rest % size
  <1>1. /\ k \in Nat \ {0}
        /\ b \in Nat \ {0}
        /\ S \in Nat \ {0}
        /\ S = k * b
    BY Sizes DEF LayoutSchema, stripe_size
  <1>2. /\ size \in 1 .. b
        /\ last \in 1 .. b
        /\ i # n - 1 => size = b
        /\ i = n - 1 => size = last
    BY AskedSizes
  <1>3. p < (n - 1) * S + k * last
    OBVIOUS
  <1>4. i \in Nat /\ rest \in 0 .. S - 1 /\ p = S * i + rest
    <2> HIDE DEF S
    <2> QED
      BY <1>1, DivMod
  <1> HIDE DEF k, S, i, rest, size, last, b
  <1>5. k * last \in Nat /\ k * last <= S /\ (n - 1) * S \in Nat /\ S * i \in Nat
    BY <1>1, <1>2, <1>4, Monotone, ProductsOfNaturals
  <1>6. i <= n - 1
    <2>1. SUFFICES ASSUME i >= n
                   PROVE  FALSE
      BY <1>4
    <2>2. S * i >= S * n
      BY <1>1, <1>4, <2>1, Monotone
    <2>3. S * n = (n - 1) * S + S
      BY <1>1
    <2> QED
      BY <1>1, <1>3, <1>4, <1>5, <2>2, <2>3
  <1>7. rest < k * size
    <2>1. CASE i = n - 1
      <3>1. S * i = (n - 1) * S
        BY <1>1, <2>1
      <3> QED
        BY <1>2, <1>3, <1>4, <1>5, <2>1, <3>1
    <2>2. CASE i # n - 1
      BY <1>1, <1>2, <1>4, <2>2
    <2> QED
      BY <2>1, <2>2
  <1>8. /\ j \in Nat
        /\ q \in 0 .. size - 1
        /\ rest = size * j + q
    <2>1. rest \in Nat /\ size \in Nat \ {0}
      BY <1>1, <1>2, <1>4
    <2> QED
      BY <2>1, DivMod
  <1> HIDE DEF j, q
  <1>9. j < k
    <2>1. SUFFICES ASSUME j >= k
                   PROVE  FALSE
      BY <1>1, <1>8
    <2>2. size \in Nat
      BY <1>1, <1>2
    <2>3. size * j >= size * k /\ size * k = k * size
      BY <1>1, <1>8, <2>1, <2>2, Monotone
    <2>4. k * size \in Nat /\ size * j \in Nat
      BY <1>1, <1>8, <2>2, ProductsOfNaturals
    <2> QED
      BY <1>7, <1>8, <2>2, <2>3, <2>4
  <1>10. p = i * S + j * size + q
    <2>1. S * i = i * S /\ size * j = j * size /\ size \in Nat
      BY <1>1, <1>2, <1>4, <1>8
    <2>2. i * S \in Nat /\ j * size \in Nat
      BY <1>1, <1>4, <1>8, <2>1, ProductsOfNaturals
    <2> QED
      BY <1>4, <1>8, <2>1, <2>2
  <1> QED
    BY <1>4, <1>6, <1>8, <1>9, <1>10, <1>1 DEF k, S, i, rest, size, j, q

-----------------------------------------------------------------------------
\* As long as ids are below what an unsigned counts to, and a stripe has no more
\* blocks than ids are set aside for it, no two blocks have one id; and as long
\* as they are below half of that, a block is read under the id it was written
\* under.
THEOREM BlockIdsAreDistinct ==
    ASSUME NEW s \in Nat, NEW j \in 0 .. IdSpan - 1,
           NEW t \in Nat, NEW i \in 0 .. IdSpan - 1,
           s * IdSpan + j < UIntSize,
           t * IdSpan + i < UIntSize
    PROVE  /\ 2 * (s * IdSpan + j) < UIntSize => read_id(s, j) = written_id(s, j)
           /\ written_id(s, j) = written_id(t, i) => s = t /\ j = i
  <1>1. IdSpan \in Nat \ {0} /\ UIntSize \in Nat \ {0}
    BY LayoutAssumption
  <1>2. s * IdSpan \in Nat /\ t * IdSpan \in Nat
    BY <1>1, ProductsOfNaturals
  <1>3. \A x \in Nat : x < UIntSize => x % UIntSize = x
    BY <1>1
  <1>4. written_id(s, j) = s * IdSpan + j /\ written_id(t, i) = t * IdSpan + i
    BY <1>1, <1>2, <1>3 DEF written_id
  <1>5. 2 * (s * IdSpan + j) < UIntSize => read_id(s, j) = written_id(s, j)
    BY <1>4 DEF read_id
  <1>6. ASSUME NEW a \in Nat, NEW b \in Nat, a < b,
               NEW x \in 0 .. IdSpan - 1
        PROVE  a * IdSpan + x < b * IdSpan
    <2>1. IdSpan * b >= IdSpan * (a + 1)
      BY <1>1, <1>6, Monotone
    <2>2. IdSpan * (a + 1) = a * IdSpan + IdSpan /\ IdSpan * b = b * IdSpan
      BY <1>1
    <2>3. a * IdSpan \in Nat /\ b * IdSpan \in Nat
      BY <1>1, ProductsOfNaturals
    <2> QED
      BY <1>1, <2>1, <2>2, <2>3
  <1>7. ASSUME written_id(s, j) = written_id(t, i)
        PROVE  s = t /\ j = i
    <2>1. ~(s < t)
      BY <1>1, <1>2, <1>4, <1>6, <1>7
    <2>2. ~(t < s)
      BY <1>1, <1>2, <1>4, <1>6, <1>7
    <2>3. s = t
      BY <2>1, <2>2
    <2> QED
      BY <1>1, <1>2, <1>4, <1>7, <2>3
  <1> QED
    BY <1>5, <1>7
=============================================================================
