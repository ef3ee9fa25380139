--------------------------- MODULE MCProfileStore ---------------------------
(* The instance of ProfileStore that TLC checks. *)
EXTENDS ProfileStore, TLC

CONSTANTS i1, i2

Symmetry == Permutations(Item)
=============================================================================
