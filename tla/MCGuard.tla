------------------------------ MODULE MCGuard ------------------------------
(* The instance of Guard that TLC checks. *)
EXTENDS Guard
=============================================================================
