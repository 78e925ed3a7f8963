---------------------------- MODULE MCObjectStore ----------------------------
(***************************************************************************)
(* Configurations for ObjectStore: one client or two, with keys of their   *)
(* own or with the same keys.                                              *)
(***************************************************************************)
EXTENDS ObjectStore, TLC

CONSTANTS c1, c2, k1, k2, k3

OneClient == [c \in Clients |-> Keys]

OwnKeys == (c1 :> {k1, k2}) @@ (c2 :> {k3})

SharedKey == [c \in Clients |-> {k1}]
=============================================================================
