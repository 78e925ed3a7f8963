------------------------- MODULE ConcurrentReadProofs -------------------------
(***************************************************************************)
(* The concurrent read decodes every stripe right and delivers the object  *)
(* whole, for every code, object length and order of the answers.          *)
(***************************************************************************)
EXTENDS ConcurrentRead, LrcStripeProofs

USE ReadAssumption

\* The stripe being read is one of the object's, and the loop ends after the
\* last.
StripeInRange ==
    IF pc \in {"send", "done"} THEN stripe = NumStripes + 1
    ELSE pc # "terminated" => stripe \in Stripes

\* The thread only decodes with the lock, after it has seen enough blocks.
DecodesEnough == pc = "decode" => check_received_block(blocks_idx[stripe])

\* Nothing is sent before the loop ends.
SentAtEnd ==
    IF pc = "done" THEN sent = Object
    ELSE pc # "terminated" => sent = <<>>

IInv ==
    /\ TypeOK
    /\ StripeInRange
    /\ DecodesEnough
    /\ Len(object_value) = stripe - 1
    /\ DecodedRight
    /\ SentAtEnd

\* The strengthened invariant holds initially.
LEMMA InitIInv == Init => IInv
<1> SUFFICES ASSUME Init PROVE IInv
  OBVIOUS
<1>1. TypeOK
  BY DEF Init, TypeOK, Stripes
<1>2. DecodedRight /\ Len(object_value) = stripe - 1
  BY DEF Init, DecodedRight
<1> QED
  BY <1>1, <1>2
     DEF Init, IInv, StripeInRange, DecodesEnough, SentAtEnd, Stripes

\* Every step keeps the types.
LEMMA NextTypeOK == TypeOK /\ StripeInRange /\ [Next]_vars => TypeOK'
<1> SUFFICES ASSUME TypeOK, StripeInRange, [Next]_vars PROVE TypeOK'
  OBVIOUS
<1> USE DEF TypeOK, Stripes
<1>1. ASSUME NEW s \in Stripes, NEW b \in Blocks, GetFromNode(s, b)
      PROVE  TypeOK'
  BY <1>1 DEF GetFromNode, WithBlock
<1>2. ASSUME NEW s \in Stripes, NEW b \in Blocks, ConnectionFails(s, b)
      PROVE  TypeOK'
  BY <1>2 DEF ConnectionFails
<1>3. CASE SpawnReaders
  BY <1>3 DEF SpawnReaders
<1>4. CASE TestReceived
  BY <1>4 DEF TestReceived
<1>5. CASE WakeSpuriously
  BY <1>5 DEF WakeSpuriously
<1>6. CASE DecodeStripe
  <2>1. stripe \in Stripes
    BY <1>6 DEF DecodeStripe, StripeInRange
  <2>2. object_value' \in Seq(Stripes \cup {Undecoded})
    BY <1>6, <2>1 DEF DecodeStripe
  <2> QED
    BY <1>6, <2>1, <2>2 DEF DecodeStripe
<1>7. CASE SendToClient
  BY <1>7 DEF SendToClient
<1>8. CASE UNCHANGED vars
  BY <1>8 DEF vars
<1> QED
  BY <1>1, <1>2, <1>3, <1>4, <1>5, <1>6, <1>7, <1>8
     DEF Next, DecodeThread, Finished

\* Enough blocks stay enough: the vector is frozen from then on.
LEMMA EnoughIsFrozen ==
  ASSUME TypeOK, StripeInRange, [Next]_vars, NEW s \in Stripes,
         check_received_block(blocks_idx[s])
  PROVE  blocks_idx'[s] = blocks_idx[s]
<1>1. ASSUME NEW t \in Stripes, NEW b \in Blocks, GetFromNode(t, b)
      PROVE  blocks_idx'[s] = blocks_idx[s]
  BY <1>1 DEF GetFromNode, WithBlock, TypeOK
<1>2. CASE \E t \in Stripes, b \in Blocks : ConnectionFails(t, b)
  BY <1>2 DEF ConnectionFails
<1>3. CASE DecodeThread
  BY <1>3 DEF DecodeThread, SpawnReaders, TestReceived, DecodeStripe,
              SendToClient
<1>4. CASE WakeSpuriously
  BY <1>4 DEF WakeSpuriously
<1>5. CASE UNCHANGED vars
  BY <1>5 DEF vars
<1> QED
  BY <1>1, <1>2, <1>3, <1>4, <1>5 DEF Next, Finished

\* When the loop has ended the stripes appended are the whole object.
LEMMA WholeAtSend == IInv /\ pc = "send" => object_value = Object
<1> SUFFICES ASSUME IInv, pc = "send" PROVE object_value = Object
  OBVIOUS
<1>1. stripe = NumStripes + 1
  BY DEF IInv, StripeInRange
<1>2. Len(object_value) = NumStripes
  BY <1>1 DEF IInv
<1> QED
  BY <1>2 DEF IInv, DecodedRight, Object, Stripes

\* Every step keeps the strengthened invariant.
LEMMA NextIInv == IInv /\ [Next]_vars => IInv'
<1> SUFFICES ASSUME IInv, [Next]_vars PROVE IInv'
  OBVIOUS
<1>0. TypeOK /\ TypeOK'
  BY NextTypeOK DEF IInv
<1>1. ASSUME NEW s \in Stripes, NEW b \in Blocks, GetFromNode(s, b)
      PROVE  IInv'
  <2>1. StripeInRange'
    BY <1>0, <1>1 DEF GetFromNode, WithBlock, IInv, StripeInRange, TypeOK
  <2>2. DecodesEnough'
    <3>1. SUFFICES ASSUME pc' = "decode"
                   PROVE  check_received_block(blocks_idx[stripe])'
      BY DEF DecodesEnough
    <3>2. pc = "decode" /\ stripe' = stripe /\ stripe \in Stripes
      BY <1>0, <1>1, <3>1 DEF GetFromNode, WithBlock, IInv, StripeInRange, TypeOK
    <3>3. blocks_idx'[stripe] = blocks_idx[stripe]
      BY <3>2, EnoughIsFrozen DEF IInv, DecodesEnough
    <3> QED
      BY <3>2, <3>3 DEF IInv, DecodesEnough
  <2>3. SentAtEnd'
    BY <1>0, <1>1 DEF GetFromNode, WithBlock, IInv, SentAtEnd, TypeOK
  <2> QED
    BY <1>0, <1>1, <2>1, <2>2, <2>3 DEF GetFromNode, WithBlock, IInv, DecodedRight
<1>2. ASSUME NEW s \in Stripes, NEW b \in Blocks, ConnectionFails(s, b)
      PROVE  IInv'
  BY <1>0, <1>2 DEF ConnectionFails, IInv, StripeInRange, DecodesEnough,
                    DecodedRight, SentAtEnd
<1>3. CASE SpawnReaders
  BY <1>0, <1>3 DEF SpawnReaders, IInv, StripeInRange, DecodesEnough,
                    DecodedRight, SentAtEnd
<1>4. CASE TestReceived
  BY <1>0, <1>4 DEF TestReceived, IInv, StripeInRange, DecodesEnough,
                    DecodedRight, SentAtEnd
<1>5. CASE WakeSpuriously
  BY <1>0, <1>5 DEF WakeSpuriously, IInv, StripeInRange, DecodesEnough,
                    DecodedRight, SentAtEnd
<1>6. CASE DecodeStripe
  <2>1. stripe \in Stripes /\ stripe \in Nat /\ blocks_idx[stripe] \in SUBSET Blocks
    BY <1>0, <1>6 DEF DecodeStripe, IInv, StripeInRange, TypeOK, Stripes
  <2>2. decode(Blocks \ blocks_idx[stripe])
    BY <1>6, <2>1, ReceivedSuffices DEF DecodeStripe, IInv, DecodesEnough
  <2>3. object_value' = Append(object_value, stripe)
    BY <1>6, <2>2 DEF DecodeStripe
  <2>4. Len(object_value') = stripe' - 1
    BY <1>0, <1>6, <2>1, <2>3 DEF DecodeStripe, IInv, TypeOK
  <2>5. DecodedRight'
    <3> DEFINE n == Len(object_value)
    <3>1. object_value \in Seq(Nat) /\ n \in Nat /\ stripe = n + 1
      BY <1>0, <2>1 DEF IInv, TypeOK, Stripes, Undecoded
    <3>2. /\ object_value' \in Seq(Nat)
          /\ Len(object_value') = n + 1
          /\ object_value'[n + 1] = stripe
          /\ \A i \in 1 .. n : object_value'[i] = object_value[i]
      BY <2>1, <2>3, <3>1
    <3>3. \A i \in 1 .. n : object_value[i] = i
      BY DEF IInv, DecodedRight
    <3>4. \A i \in 1 .. n + 1 : object_value'[i] = i
      BY <3>1, <3>2, <3>3
    <3>5. object_value' = [i \in 1 .. n + 1 |-> object_value'[i]]
      BY <3>2
    <3> QED
      BY <3>2, <3>4, <3>5 DEF DecodedRight
  <2>6. StripeInRange' /\ DecodesEnough' /\ SentAtEnd'
    BY <1>0, <1>6, <2>1 DEF DecodeStripe, IInv, StripeInRange, DecodesEnough,
                            SentAtEnd, Stripes
  <2> QED
    BY <1>0, <2>4, <2>5, <2>6 DEF IInv
<1>7. CASE SendToClient
  <2>1. object_value = Object
    BY <1>7, WholeAtSend DEF SendToClient
  <2> QED
    BY <1>0, <1>7, <2>1 DEF SendToClient, IInv, StripeInRange, DecodesEnough,
                            DecodedRight, SentAtEnd
<1>8. CASE UNCHANGED vars
  BY <1>0, <1>8 DEF vars, IInv, StripeInRange, DecodesEnough, DecodedRight,
                    SentAtEnd
<1> QED
  BY <1>1, <1>2, <1>3, <1>4, <1>5, <1>6, <1>7, <1>8
     DEF Next, DecodeThread, Finished

\* The strengthened invariant holds in every reachable state.
THEOREM InductiveInvariant == Spec => []IInv
BY InitIInv, NextIInv, PTL DEF Spec

\* The variables of decode_and_transfer_data_concurrence keep their types.
THEOREM TypeCorrect == Spec => []TypeOK
<1>1. IInv => TypeOK
  BY DEF IInv
<1> QED
  BY <1>1, InductiveInvariant, PTL

\* Whatever blocks come first, every stripe appended is the stripe's data.
THEOREM ReadsDecodeRight == Spec => []DecodedRight
<1>1. IInv => DecodedRight
  BY DEF IInv
<1> QED
  BY <1>1, InductiveInvariant, PTL

\* Late readers never change the blocks the decoding thread goes through.
THEOREM LateReadersAreHarmless == Spec => ReceivedIsFrozen
<1>1. IInv /\ [Next]_vars =>
        [\A s \in Stripes : check_received_block(blocks_idx[s])
                              => blocks_idx'[s] = blocks_idx[s]]_vars
  BY EnoughIsFrozen DEF IInv
<1> QED
  BY <1>1, InductiveInvariant, PTL DEF Spec, ReceivedIsFrozen

\* The concurrent read implements the atomic one: whatever connection fails,
\* the client is sent nothing or the whole object, once, as the read ends.
THEOREM ReadIsAtomic == Spec => AllOrNothing
<1>1. Init => AtomicRead!Init
  BY DEF Init, AtomicRead!Init
<1>2. IInv /\ [Next]_vars => [AtomicRead!Next]_(AtomicRead!vars)
  <2> SUFFICES ASSUME IInv, [Next]_vars
               PROVE  [AtomicRead!Next]_(AtomicRead!vars)
    OBVIOUS
  <2> USE DEF AtomicRead!vars
  <2>1. ASSUME NEW s \in Stripes, NEW b \in Blocks, GetFromNode(s, b)
        PROVE  UNCHANGED AtomicRead!vars
    BY <2>1 DEF GetFromNode
  <2>2. ASSUME NEW s \in Stripes, NEW b \in Blocks, ConnectionFails(s, b)
        PROVE  [AtomicRead!Next]_(AtomicRead!vars)
    BY <2>2 DEF ConnectionFails, AtomicRead!Next, AtomicRead!GiveUp
  <2>3. CASE SpawnReaders \/ TestReceived \/ WakeSpuriously \/ DecodeStripe
    BY <2>3 DEF SpawnReaders, TestReceived, WakeSpuriously, DecodeStripe
  <2>4. CASE SendToClient
    <3>1. object_value = Object
      BY <2>4, WholeAtSend DEF SendToClient
    <3>2. AtomicRead!Deliver
      BY <2>4, <3>1 DEF SendToClient, AtomicRead!Deliver
    <3> QED
      BY <3>2 DEF AtomicRead!Next
  <2>5. CASE UNCHANGED vars
    BY <2>5 DEF vars
  <2> QED
    BY <2>1, <2>2, <2>3, <2>4, <2>5 DEF Next, DecodeThread, Finished
<1> QED
  BY <1>1, <1>2, InductiveInvariant, PTL
     DEF Spec, AllOrNothing, AtomicRead!SafeSpec
=============================================================================
