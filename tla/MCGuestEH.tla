----------------------------- MODULE MCGuestEH -----------------------------
(* Instances of GuestEH for TLC.                                              *)
EXTENDS GuestEHImplements, TLC

CONSTANTS e1, e2, A, B

At(types, cleans) == [catches |-> types, cleanup |-> cleans]

\* No pad; a cleanup; a catch of one type, with and without a cleanup; catch (...).
MCSite == {Quiet, At({}, TRUE), At({A}, FALSE), At({A}, TRUE), At({A, B}, TRUE)}
MCDestroyed == {A}
Symmetry == Permutations({e1, e2})
=============================================================================
