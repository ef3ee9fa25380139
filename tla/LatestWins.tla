----------------------------- MODULE LatestWins -----------------------------
(***************************************************************************)
(* What a latest-wins queue promises to those who ask it: one request is   *)
(* served at a time, at most one waits, and who asks is answered once, by  *)
(* the end of his own request or by losing his place to a later one.       *)
(***************************************************************************)
CONSTANTS
    Caller,     \* who may ask and wait for the answer
    Nobody,     \* a request that no one waits for
    Nothing     \* no request; neither a caller nor Nobody, who is no caller either

VARIABLES
    served,     \* whose request is served
    waiting,    \* whose request waits
    asking      \* the callers without an answer

vars == <<served, waiting, asking>>

Init == served = Nothing /\ waiting = Nothing /\ asking = {}

\* A caller asks once at a time; whose request waited is told so.
Ask(c) ==
    /\ c \notin asking
    /\ IF served = Nothing
       THEN served' = c /\ UNCHANGED waiting
       ELSE waiting' = c /\ UNCHANGED served
    /\ asking' = (asking \ (IF served = Nothing THEN {} ELSE {waiting})) \cup ({c} \ {Nobody})

\* The request ends; the one that waited is served or turned away.
Done ==
    /\ served # Nothing
    /\ waiting' = Nothing
    /\ \/ served' = waiting /\ asking' = asking \ {served}
       \/ served' = Nothing /\ asking' = asking \ {served, waiting}

\* The one that waits is turned away.
Cancel ==
    /\ waiting' = Nothing
    /\ asking' = asking \ {waiting}
    /\ UNCHANGED served

Next == (\E c \in Caller \cup {Nobody} : Ask(c)) \/ Done \/ Cancel

Spec == Init /\ [][Next]_vars

\* Who has no answer is served or waits, and the other way round: no promise is
\* forgotten and none is settled twice.
Answered == asking = {served, waiting} \cap Caller
=============================================================================
