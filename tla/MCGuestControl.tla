--------------------------- MODULE MCGuestControl ----------------------------
(* Instances of GuestControl for TLC.                                         *)
EXTENDS GuestControl, TLC

CONSTANTS e1, A, k1, k2, k3, c1, c2

MCSite == {Quiet, [catches |-> {A}, cleanup |-> TRUE]}
\* A slot nothing may jump to any more is told apart by its key alone.
View ==
    <<vars, [i \in 1..Len(jbs) |-> IF jbs[i].frame THEN jbs[i] ELSE jbs[i].key], cmp, sorts>>

Symmetry == Permutations({c1, c2}) \cup Permutations({k1, k2, k3})
=============================================================================
