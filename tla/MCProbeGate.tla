---------------------------- MODULE MCProbeGate -----------------------------
(***************************************************************************)
(* ProbeGate with interchangeable threads.                                 *)
(***************************************************************************)
EXTENDS ProbeGate, TLC

Threads == Permutations(Thread)
=============================================================================
