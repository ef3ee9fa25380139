---------------------------- MODULE MCRuntimeOps ----------------------------
(***************************************************************************)
(* RuntimeOps on three interchangeable flows.                              *)
(***************************************************************************)
EXTENDS RuntimeOps, TLC

Flows == Permutations(Flow)
=============================================================================
