--------------------------- MODULE MCSourceSwitch ---------------------------
(* The instance of SourceSwitch that TLC checks. *)
EXTENDS SourceSwitch, TLC

CONSTANTS c1, c2, c3, s1, s2, s3

Symmetry == Permutations(Call) \cup Permutations(Source)
=============================================================================
