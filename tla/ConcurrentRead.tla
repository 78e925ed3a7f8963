---------------------------- MODULE ConcurrentRead ----------------------------
(***************************************************************************)
(* Proxy::decode_and_transfer_data_concurrence: for each stripe of the     *)
(* object one thread per block asks a datanode or a cache node for it, the *)
(* decoding thread sleeps on a condition variable until enough blocks have *)
(* come, decodes under the lock and goes on; late threads stay behind.     *)
(***************************************************************************)
EXTENDS LrcStripe, Sequences

CONSTANTS
    NumStripes,  \* placement.stripe_ids.size()
    NumSlow,     \* blocks of each stripe whose node may never answer
    MayFail      \* whether a connection may also fail outright

ASSUME ReadAssumption ==
    /\ NumStripes \in Nat \ {0}
    /\ NumSlow \in Nat
    /\ MayFail \in BOOLEAN

VARIABLES
    slow,          \* per stripe, the blocks whose node may never answer
    stripe,        \* the loop variable of the decoding thread
    pc,            \* where the decoding thread is
    readers,       \* per stripe, the blocks whose thread has not ended
    blocks_idx,    \* per stripe, *blocks_idx_ptr (and *blocks_ptr with it)
    object_value,  \* the stripes appended so far
    sent           \* what has been written to the client's socket

vars == <<slow, stripe, pc, readers, blocks_idx, object_value, sent>>

Stripes == 1 .. NumStripes

\* A stripe that decode could not rebuild: its buffers keep their zeros.
Undecoded == 0

Object == [s \in Stripes |-> s]

TypeOK ==
    /\ slow \in [Stripes -> SUBSET Blocks]
    /\ stripe \in 1 .. NumStripes + 1
    /\ pc \in {"spawn", "lock", "wait", "decode", "send", "done", "terminated"}
    /\ readers \in [Stripes -> SUBSET Blocks]
    /\ blocks_idx \in [Stripes -> SUBSET Blocks]
    /\ object_value \in Seq(Stripes \cup {Undecoded})
    /\ sent \in Seq(Stripes \cup {Undecoded})

Init ==
    /\ slow \in [Stripes -> {S \in SUBSET Blocks : Cardinality(S) = NumSlow}]
    /\ stripe = 1
    /\ pc = "spawn"
    /\ readers = [s \in Stripes |-> {}]
    /\ blocks_idx = [s \in Stripes |-> {}]
    /\ object_value = <<>>
    /\ sent = <<>>

-----------------------------------------------------------------------------
\* The reading threads, getFromNode.

\* The decoding thread holds myLock_ptr of a stripe while it decodes it.
LockIsFree(s) == ~(pc = "decode" /\ stripe = s)

\* Mutant: the block is kept without asking whether there are enough.
WithAnyBlock(s, b) == blocks_idx[s] \cup {b}

\* A block that comes when there are enough is dropped.
WithBlock(s, b) ==
    IF check_received_block(blocks_idx[s])
    THEN blocks_idx[s] ELSE blocks_idx[s] \cup {b}

\* The block has come and the thread has the lock; the waiter, if there is
\* one, is notified when the block makes enough.
GetFromNode(s, b) ==
    /\ pc # "terminated"
    /\ b \in readers[s]
    /\ LockIsFree(s)
    /\ blocks_idx' = [blocks_idx EXCEPT ![s] = WithBlock(s, b)]
    /\ pc' = IF /\ ~check_received_block(blocks_idx[s])
                /\ check_received_block(WithBlock(s, b))
                /\ pc = "wait" /\ stripe = s
             THEN "lock" ELSE pc
    /\ readers' = [readers EXCEPT ![s] = @ \ {b}]
    /\ UNCHANGED <<slow, stripe, object_value, sent>>

\* connect or read throws in a detached thread, which ends the whole process.
ConnectionFails(s, b) ==
    /\ MayFail
    /\ pc # "terminated"
    /\ b \in readers[s]
    /\ pc' = "terminated"
    /\ UNCHANGED <<slow, stripe, readers, blocks_idx, object_value, sent>>

-----------------------------------------------------------------------------
\* The decoding thread.

\* Mutant: blocks are counted from one.
SpawnReadersFromOne ==
    /\ pc = "spawn"
    /\ readers' = [readers EXCEPT ![stripe] = 1 .. NumBlocks]
    /\ pc' = "lock"
    /\ UNCHANGED <<slow, stripe, blocks_idx, object_value, sent>>

SpawnReaders ==
    /\ pc = "spawn"
    /\ readers' = [readers EXCEPT ![stripe] = Blocks]
    /\ pc' = "lock"
    /\ UNCHANGED <<slow, stripe, blocks_idx, object_value, sent>>

\* The while condition, tested with the lock held; wait() releases it.
TestReceived ==
    /\ pc = "lock"
    /\ pc' = IF check_received_block(blocks_idx[stripe])
             THEN "decode" ELSE "wait"
    /\ UNCHANGED <<slow, stripe, readers, blocks_idx, object_value, sent>>

\* A condition variable may wake up its waiter without any notification.
WakeSpuriously ==
    /\ pc = "wait"
    /\ pc' = "lock"
    /\ UNCHANGED <<slow, stripe, readers, blocks_idx, object_value, sent>>

\* Mutant: the loop ends one stripe early.
DecodeStripeAndStop ==
    /\ pc = "decode"
    /\ object_value' = Append(object_value,
            IF decode(Blocks \ blocks_idx[stripe]) THEN stripe ELSE Undecoded)
    /\ stripe' = stripe + 1
    /\ pc' = IF stripe >= NumStripes - 1 THEN "send" ELSE "spawn"
    /\ UNCHANGED <<slow, readers, blocks_idx, sent>>

\* decode's result is only logged: an undecoded stripe is appended as it is.
DecodeStripe ==
    /\ pc = "decode"
    /\ object_value' = Append(object_value,
            IF decode(Blocks \ blocks_idx[stripe]) THEN stripe ELSE Undecoded)
    /\ stripe' = stripe + 1
    /\ pc' = IF stripe = NumStripes THEN "send" ELSE "spawn"
    /\ UNCHANGED <<slow, readers, blocks_idx, sent>>

SendToClient ==
    /\ pc = "send"
    /\ sent' = object_value
    /\ pc' = "done"
    /\ UNCHANGED <<slow, stripe, readers, blocks_idx, object_value>>

DecodeThread ==
    \/ SpawnReaders
    \/ TestReceived
    \/ DecodeStripe
    \/ SendToClient

\* All the threads have ended.
Finished ==
    /\ \/ pc = "terminated"
       \/ pc = "done" /\ \A s \in Stripes : readers[s] = {}
    /\ UNCHANGED vars

Next ==
    \/ DecodeThread
    \/ WakeSpuriously
    \/ \E s \in Stripes, b \in Blocks :
          GetFromNode(s, b) \/ ConnectionFails(s, b)
    \/ Finished

\* The threads are scheduled, and a node that is not slow answers in the end.
\* Nothing is assumed of spurious wake-ups.
Fairness ==
    /\ WF_vars(DecodeThread)
    /\ \A s \in Stripes, b \in Blocks :
          WF_vars(b \notin slow[s] /\ GetFromNode(s, b))

Spec == Init /\ [][Next]_vars

FairSpec == Spec /\ Fairness

-----------------------------------------------------------------------------
\* Every stripe appended to the object is that stripe's data: whatever blocks
\* came first, decode is only entered with blocks that determine the data,
\* and the stripes are appended in order.
DecodedRight == object_value = [i \in 1 .. Len(object_value) |-> i]

\* Once there are enough blocks the vectors the decoding thread goes through
\* no longer change, although late readers still come to the lock.
ReceivedIsFrozen ==
    [][\A s \in Stripes : check_received_block(blocks_idx[s])
                            => blocks_idx'[s] = blocks_idx[s]]_vars

\* Whatever connections fail, the client is sent nothing or the whole object,
\* in one step that ends the read.
AtomicRead == INSTANCE ObjectRead WITH
    delivered <- sent,
    ended <- pc \in {"done", "terminated"}

AllOrNothing == AtomicRead!SafeSpec

\* And the read ends when at most g + 1 nodes of each stripe never answer: the
\* last notification is never lost.
ReadsAtomically == AtomicRead!Spec
=============================================================================
