------------------------------- MODULE KVStore -------------------------------
(***************************************************************************)
(* What the object store promises: a key is given a value once, and every  *)
(* read of it returns that value.                                          *)
(***************************************************************************)
CONSTANTS Clients, Keys, NoValue

VARIABLES
    kv,     \* per key, its value
    reply   \* per client, the last key it read and the value it got

\* Every client has a value of its own for each key.
Value(c, k) == {<<c, k>>}

Init ==
    /\ kv = [k \in Keys |-> NoValue]
    /\ reply = [c \in Clients |-> NoValue]

Put(c, k) ==
    /\ kv[k] = NoValue
    /\ kv' = [kv EXCEPT ![k] = Value(c, k)]
    /\ UNCHANGED reply

Read(c, k) ==
    /\ kv[k] # NoValue
    /\ reply' = [reply EXCEPT ![c] = <<k, kv[k]>>]
    /\ UNCHANGED kv

Next == \E c \in Clients, k \in Keys : Put(c, k) \/ Read(c, k)

Spec == Init /\ [][Next]_<<kv, reply>>
=============================================================================
