--------------------------- MODULE MCSystemProxy ---------------------------
(* Instance of SystemProxy for TLC. *)
EXTENDS SystemProxy, TLC

CONSTANTS a1, a2, u1

Symmetry == Permutations({a1, a2})
=============================================================================
