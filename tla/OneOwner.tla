------------------------------ MODULE OneOwner ------------------------------
(***************************************************************************)
(* What the runtime operation coordinator promises to the rest of Ninety,  *)
(* whatever kinds, priorities and leases it uses to decide: the right to   *)
(* change the VPN runtime belongs to at most one grant at a time, every    *)
(* grant is a new one, and a grant that has lost the right never gets it   *)
(* back.  Callers keep copies of their grants across awaits for as long as *)
(* they like; the third promise is what makes those copies harmless.       *)
(***************************************************************************)
EXTENDS Naturals

VARIABLES
    granted,   \* how many grants have been made; they are numbered from 1
    owner      \* the grant that may change the runtime, 0 when there is none

vars == <<granted, owner>>

Init ==
    /\ granted = 0
    /\ owner = 0

\* A new grant; whoever owned the runtime before has lost it.
Grant ==
    /\ granted' = granted + 1
    /\ owner' = granted + 1

\* The owner gives the right back, or is told to.
Release ==
    /\ owner # 0
    /\ owner' = 0
    /\ UNCHANGED granted

Next == Grant \/ Release

Spec == Init /\ [][Next]_vars
=============================================================================
