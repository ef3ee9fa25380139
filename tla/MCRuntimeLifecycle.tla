------------------------- MODULE MCRuntimeLifecycle -------------------------
(***************************************************************************)
(* RuntimeLifecycle with two flows.                                        *)
(***************************************************************************)
EXTENDS RuntimeLifecycle

CONSTANTS f1, f2
=============================================================================
