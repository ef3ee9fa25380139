---------------------------- MODULE MCKillSwitch ----------------------------
(***************************************************************************)
(* KillSwitch with interchangeable threads and handles.                    *)
(***************************************************************************)
EXTENDS KillSwitch, TLC

Symmetric == Permutations(Thread) \cup Permutations(Handle)
=============================================================================
