------------------------------- MODULE MCRepair -------------------------------
(***************************************************************************)
(* Configurations for Repair: which placements of the stripes are tried.   *)
(***************************************************************************)
EXTENDS Repair, TLC

Legal == {w \in [Blocks -> Clusters] : Placed(w)}

\* Clusters are numbered in the order in which the first stripe uses them.
Numbered(w) ==
    \A i \in Blocks : w[i] = 0 \/ \E j \in 0 .. i - 1 : w[j] = w[i] - 1

AllPlacements == {p \in [Stripes -> Legal] : Numbered(p[1])}

AnyBlocks == SUBSET (Stripes \X Blocks)

\* Two nodes, with the first data block of one stripe each.
FirstBlocks == {{<<s, 0>>} : s \in Stripes}

\* Two stripes of (2, 1, 1), each group spread over three clusters, with their
\* first blocks in one cluster ...
SameMain == {<<(0 :> 0) @@ (1 :> 1) @@ (2 :> 1) @@ (3 :> 2),
               (0 :> 0) @@ (1 :> 1) @@ (2 :> 2) @@ (3 :> 2)>>}

\* ... or in two, each of which helps the other.
TwoMains == {<<(0 :> 0) @@ (1 :> 1) @@ (2 :> 1) @@ (3 :> 2),
               (0 :> 1) @@ (1 :> 0) @@ (2 :> 2) @@ (3 :> 2)>>}
=============================================================================
