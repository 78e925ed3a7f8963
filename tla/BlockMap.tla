------------------------------- MODULE BlockMap -------------------------------
(***************************************************************************)
(* What the datanodes promise: each keeps, of every block, the bytes it    *)
(* was last given for it, until it is started anew or has outgrown its     *)
(* file.                                                                   *)
(***************************************************************************)
EXTENDS Naturals, Sequences

CONSTANT Nodes

VARIABLES
    blocks,   \* per node, the contents of its blocks
    given,    \* per node, all the bytes it was given, in that order
    outgrown  \* the nodes that keep nothing for sure any more

NoBlocks == [id \in {} |-> {}]

Init ==
    /\ blocks = [n \in Nodes |-> NoBlocks]
    /\ given = [n \in Nodes |-> <<>>]
    /\ outgrown = {}

Write(n) ==
    LET contents == SubSeq(given'[n], Len(given[n]) + 1, Len(given'[n]))
    IN  /\ n \notin outgrown
        /\ outgrown' = outgrown
        /\ given' = [given EXCEPT ![n] = @ \o contents]
        /\ \E id \in DOMAIN blocks'[n] :
              blocks' = [blocks EXCEPT ![n] =
                 [i \in DOMAIN @ \cup {id} |->
                     IF i = id THEN contents ELSE @[i]]]

Forget(n) ==
    /\ given' = [given EXCEPT ![n] = <<>>]
    /\ blocks' = [blocks EXCEPT ![n] = NoBlocks]

Outgrow(n)   == outgrown' = outgrown \cup {n} /\ Forget(n)

StartAnew(n) == outgrown' = outgrown \ {n} /\ Forget(n)

Next == \E n \in Nodes : Write(n) \/ Outgrow(n) \/ StartAnew(n)

Spec == Init /\ [][Next]_<<blocks, given, outgrown>>
=============================================================================
