--------------------------- MODULE MCNetworkFlow ---------------------------
EXTENDS NetworkFlow, TLC

CONSTANTS c1, c2

\* The two clicks are interchangeable.
Symmetry == Permutations(Click)
=============================================================================
