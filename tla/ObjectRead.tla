------------------------------ MODULE ObjectRead ------------------------------
(***************************************************************************)
(* What reading one committed object promises: the read ends, with the     *)
(* whole object delivered in one piece and its stripes in order, or, when  *)
(* something fails, with nothing delivered at all.                         *)
(***************************************************************************)
CONSTANT Object         \* the stripes of the object, in order

VARIABLES
    delivered,  \* what the client has been sent
    ended       \* whether the read is over

vars == <<delivered, ended>>

Init == delivered = <<>> /\ ended = FALSE

Deliver ==
    /\ ~ended
    /\ delivered' = Object
    /\ ended' = TRUE

GiveUp ==
    /\ ~ended
    /\ ended' = TRUE
    /\ UNCHANGED delivered

Next == Deliver \/ GiveUp

SafeSpec == Init /\ [][Next]_vars

Spec == SafeSpec /\ WF_vars(Next)
=============================================================================
