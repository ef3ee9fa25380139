------------------------- MODULE SourceSwitchProofs -------------------------
(***************************************************************************)
(* What SourceSwitch promises, for any calls, sources and bounds.          *)
(*                                                                         *)
(* The argument.  A call that has begun and is not overtaken is the one    *)
(* that is pending, with a token (Places); what it has selected is its     *)
(* target until the target is refuted (PendingIsSelected, with Phases),    *)
(* then its fallback, which is another source (Targets).  What a verifier  *)
(* is asked about is therefore still selected when it answers (Looked).    *)
(* An operation belongs to a call that still has it in its locals, or in   *)
(* what is pending, so that whoever ends it or takes its place gives it    *)
(* back (Owners).                                                          *)
(***************************************************************************)
EXTENDS SourceSwitch, TLAPS

\* Where a call is once its operation was granted.
Mid == {"queued", "building", "snapshot", "leader", "verify"}

\* A pending call is under way, and past its begin the token is pending too.
Places ==
    \A c \in Call :
        /\ Current(c) => pc[c] \in Mid \cup {"begin", "rollback"}
        /\ Current(c) /\ pc[c] \in Mid \cup {"rollback"} => pending.tok # NoToken

\* What a call that awaits an operation is about.
Phases ==
    \A c \in Call :
        /\ pc[c] = "begin" => at[c].phase = "target" /\ at[c].end = "ready"
        /\ pc[c] = "rollback" => at[c].phase = "rollback"

\* Where the operation of a call is to be found.
Owners ==
    \A c \in Call : owner \in Token /\ owner.call = c =>
        /\ pc[c] \in Mid => Current(c) /\ pending.tok = owner
        /\ \/ owner = at[c].tok \/ pc[c] = "rejected"
           \/ /\ pc[c] = "rollback" /\ Current(c)
              /\ at[c].tok = NoToken /\ pending.tok = owner

\* What a verifier is asked about is selected as long as the call is not overtaken.
Looked ==
    \A c \in Call : Current(c) /\ pc[c] \in {"leader", "verify"} => selected = Goal(c)

\* A switch has a target, and is taken back to something else only.
Targets ==
    \A c \in Call : pc[c] \in Mid \cup {"begin", "rollback"} =>
        /\ at[c].target \in Source
        /\ at[c].phase = "rollback" => at[c].fallback \notin {NoSource, at[c].target}

Inv ==
    /\ TypeOK
    /\ Places
    /\ Phases
    /\ PendingIsSelected
    /\ Owners
    /\ OwnerIsAlive
    /\ Looked
    /\ Targets

\* The tokens are told apart, and so is what is none.
LEMMA Tokens ==
    /\ NoToken \notin Token /\ Foreign \notin Token /\ NoToken # Foreign
    /\ NoPending.call \notin Call /\ NoPending.tok = NoToken
    /\ \A c \in Call : [call |-> c, phase |-> "target"] \in Token
                      /\ [call |-> c, phase |-> "rollback"] \in Token
    /\ NoLocal \in Local
    /\ \A t \in Token : t.call \in Call
    /\ NoCall \notin Call /\ NoSource \notin Source
BY SourceSwitchAssumption
   DEF NoToken, Foreign, Token, Phase, NoPending, NoLocal, Local

\* What the locals of a call are.
LEMMA Locals ==
    ASSUME TypeOK, NEW c \in Call
    PROVE  /\ at[c].tok \in Token \cup {NoToken} /\ at[c].end \in Ended \ {"unrestored"}
           /\ at[c].target \in Source \cup {NoSource}
           /\ \A end \in {"ready", "unverified", "cancelled", "failed", "restored"} :
                 [at[c] EXCEPT !.end = end] \in Local
BY DEF TypeOK, Local, Ended

\* The call saves and ends.
LEMMA SettlesKeeps ==
    ASSUME Inv, NEW c \in Call, NEW end \in {"ready", "unverified", "cancelled", "failed", "restored"},
           Settles(c, end), Current(c), pc[c] \in Mid,
           UNCHANGED <<sources, choice, desired, events>>,
           running' \in Source \cup {NoSource},
           building' \in [call : Call \cup {NoCall}, source : Source \cup {NoSource}]
    PROVE  Inv'
<1> USE Tokens DEF Inv
<1>1. TypeOK'
  <2>1. at' \in [Call -> Local]
    <3>1. [at[c] EXCEPT !.end = end] \in Local
      BY Locals
    <3> QED
      BY <3>1 DEF TypeOK, Settles
  <2> QED
    BY <2>1 DEF TypeOK, Settles, Goes, Awaiting, NoPending
<1>2. Places'
  BY DEF TypeOK, Places, Current, Mid, Settles, Goes, Ended, NoPending
<1>3. Phases'
  BY DEF TypeOK, Phases, Mid, Settles, Goes, Ended, NoPending
<1>4. PendingIsSelected'
  BY DEF TypeOK, Places, Phases, PendingIsSelected, Current, Goal, Applied, Mid,
     Settles, Goes, Ended, NoPending
<1>5. Owners'
  BY DEF TypeOK, Places, Owners, Current, Mid, OwnerIsAlive, Awaiting, Settles, Goes,
     Ended, NoPending
<1>6. OwnerIsAlive'
  BY DEF TypeOK, Owners, Current, Mid, OwnerIsAlive, Awaiting, Places, Settles, Goes,
     Ended, NoPending
<1>7. Looked'
  BY DEF TypeOK, Places, PendingIsSelected, Looked, Current, Goal, Mid, Applied,
     Settles, Goes, Ended, NoPending
<1>8. Targets'
  BY DEF TypeOK, Targets, Mid, Phases, Settles, Goes, Ended, NoPending
<1> QED
  BY <1>1, <1>2, <1>3, <1>4, <1>5, <1>6, <1>7, <1>8

\* The call gives its operation up.
LEMMA DropsKeeps ==
    ASSUME Inv, NEW c \in Call, NEW end \in Ended,
           Drops(c, end), Current(c),
           pc[c] \in Mid \/ (at[c].tok = NoToken /\ pc[c] = "begin"),
           UNCHANGED <<sources, choice, desired, events>>,
           running' \in Source \cup {NoSource},
           building' \in [call : Call \cup {NoCall}, source : Source \cup {NoSource}]
    PROVE  Inv'
<1> USE Tokens DEF Inv
<1>1. TypeOK'
  BY Locals DEF TypeOK, Drops, Ends, Goes, Released, Awaiting, Ended, NoPending, Applied
<1>2. Places'
  BY DEF TypeOK, Places, Current, Mid, Drops, Ends, Goes, Released, Ended, NoPending
<1>3. Phases'
  BY DEF TypeOK, Phases, Mid, Drops, Ends, Goes, Released, Ended, NoPending
<1>4. PendingIsSelected'
  BY DEF TypeOK, Places, Phases, PendingIsSelected, Current, Goal, Applied, Mid, Drops,
     Ends, Goes, Released, Ended, NoPending
<1>5. Owners'
  BY DEF TypeOK, Places, Owners, Current, Mid, OwnerIsAlive, Awaiting, Drops, Ends,
     Goes, Released, Ended, NoPending
<1>6. OwnerIsAlive'
  BY DEF TypeOK, Owners, Current, Mid, OwnerIsAlive, Awaiting, Places, Drops, Ends,
     Goes, Released, Ended, NoPending
<1>7. Looked'
  BY DEF TypeOK, Places, PendingIsSelected, Looked, Current, Goal, Mid, Applied, Drops,
     Ends, Goes, Released, Ended, NoPending
<1>8. Targets'
  BY DEF TypeOK, Targets, Mid, Phases, Drops, Ends, Goes, Released, Ended, NoPending
<1> QED
  BY <1>1, <1>2, <1>3, <1>4, <1>5, <1>6, <1>7, <1>8

\* The call was overtaken, and the operation with it.
LEMMA IsStaleKeeps ==
    ASSUME Inv, NEW c \in Call, IsStale(c), ~Current(c), pc[c] \in Mid,
           UNCHANGED <<sources, choice, desired, events>>,
           running' \in Source \cup {NoSource},
           building' \in [call : Call \cup {NoCall}, source : Source \cup {NoSource}]
    PROVE  Inv'
<1> USE Tokens DEF Inv
<1>1. TypeOK'
  BY Locals DEF TypeOK, IsStale, Ends, Goes, Awaiting, Ended, NoPending, Applied
<1>2. Places'
  BY DEF TypeOK, Places, Current, Mid, IsStale, Ends, Goes, Ended, NoPending
<1>3. Phases'
  BY DEF TypeOK, Phases, Mid, IsStale, Ends, Goes, Ended, NoPending
<1>4. PendingIsSelected'
  BY DEF TypeOK, Places, Phases, PendingIsSelected, Current, Goal, Applied, Mid,
     IsStale, Ends, Goes, Ended, NoPending
<1>5. Owners'
  BY DEF TypeOK, Places, Owners, Current, Mid, OwnerIsAlive, Awaiting, IsStale, Ends,
     Goes, Ended, NoPending
<1>6. OwnerIsAlive'
  BY DEF TypeOK, Owners, Current, Mid, OwnerIsAlive, Awaiting, Places, IsStale, Ends,
     Goes, Ended, NoPending
<1>7. Looked'
  BY DEF TypeOK, Places, PendingIsSelected, Looked, Current, Goal, Mid, Applied,
     IsStale, Ends, Goes, Ended, NoPending
<1>8. Targets'
  BY DEF TypeOK, Targets, Mid, Phases, IsStale, Ends, Goes, Ended, NoPending
<1> QED
  BY <1>1, <1>2, <1>3, <1>4, <1>5, <1>6, <1>7, <1>8

\* The fallback is selected.
LEMMA RollsBackKeeps ==
    ASSUME Inv, NEW c \in Call, RollsBack(c), Current(c), pc[c] \in Mid,
           at[c].fallback \notin {NoSource, at[c].target},
           UNCHANGED <<sources, choice, desired, events>>,
           running' \in Source \cup {NoSource},
           building' \in [call : Call \cup {NoCall}, source : Source \cup {NoSource}]
    PROVE  Inv'
<1> USE Tokens DEF Inv
<1>1. TypeOK'
  <2>1. at' \in [Call -> Local]
    <3> DEFINE new == Granted([call |-> c, phase |-> "rollback"], at[c].fallback)
    <3>1. new \in Token \cup {NoToken}
      BY DEF Granted
    <3>2. at' = [at EXCEPT ![c] = [@ EXCEPT !.tok = new, !.phase = "rollback"]]
      BY DEF RollsBack
    <3> HIDE DEF new
    <3>3. [at[c] EXCEPT !.tok = new, !.phase = "rollback"] \in Local
      <4>1. at[c] \in Local /\ "rollback" \in Phase
        BY DEF TypeOK, Phase
      <4> QED
        BY <3>1, <4>1 DEF Local
    <3> QED
      BY <3>2, <3>3 DEF TypeOK
  <2> QED
    BY <2>1 DEF TypeOK, RollsBack, Goes, Grants, OwnerAfterBegin, Awaiting, Ended, Mid, Applied
<1>2. Places'
  BY DEF TypeOK, Places, Current, Mid, RollsBack, Goes, Grants, Granted,
     OwnerAfterBegin, Ended, NoPending
<1>3. Phases'
  BY DEF TypeOK, Phases, Mid, RollsBack, Goes, Grants, Granted, OwnerAfterBegin, Ended,
     NoPending
<1>4. PendingIsSelected'
  BY DEF TypeOK, Places, Phases, PendingIsSelected, Current, Goal, Applied, Mid,
     RollsBack, Goes, Grants, Granted, OwnerAfterBegin, Ended, NoPending
<1>5. Owners'
  BY DEF TypeOK, Places, Owners, Current, Mid, OwnerIsAlive, Awaiting, RollsBack, Goes,
     Grants, Granted, OwnerAfterBegin, Ended, NoPending
<1>6. OwnerIsAlive'
  BY DEF TypeOK, Owners, Current, Mid, OwnerIsAlive, Awaiting, Places, RollsBack, Goes,
     Grants, Granted, OwnerAfterBegin, Ended, NoPending
<1>7. Looked'
  BY DEF TypeOK, Places, PendingIsSelected, Looked, Current, Goal, Mid, Applied,
     RollsBack, Goes, Grants, Granted, OwnerAfterBegin, Ended, NoPending
<1>8. Targets'
  BY DEF TypeOK, Targets, Mid, Phases, RollsBack, Goes, Grants, Granted,
     OwnerAfterBegin, Ended, NoPending
<1> QED
  BY <1>1, <1>2, <1>3, <1>4, <1>5, <1>6, <1>7, <1>8

\* One of the four.
LEMMA DecidesKeeps ==
    ASSUME Inv, NEW c \in Call, pc[c] \in Mid,
           NEW verdict \in {"ready", "hardFailed", "unverified", "cancelled", "stale"},
           Decides(c, verdict),
           UNCHANGED <<sources, choice, desired, events>>,
           running' \in Source \cup {NoSource},
           building' \in [call : Call \cup {NoCall}, source : Source \cup {NoSource}]
    PROVE  Inv'
<1>1. CASE ~Current(c)
  BY <1>1, IsStaleKeeps DEF Decides
<1>2. CASE Current(c) /\ at[c].phase = "rollback"
  <2>1. CASE Settles(c, "restored")
    BY <1>2, <2>1, SettlesKeeps
  <2>2. CASE Drops(c, "unrestored")
    BY <1>2, <2>2, DropsKeeps DEF Ended
  <2> QED
    BY <1>2, <2>1, <2>2 DEF Decides
<1>3. CASE Current(c) /\ at[c].phase # "rollback"
  <2>1. CASE \E end \in {"cancelled", "ready", "unverified", "failed"} : Settles(c, end)
    <3>1. PICK end \in {"cancelled", "ready", "unverified", "failed"} : Settles(c, end)
      BY <2>1
    <3> QED
      BY <1>3, <3>1, SettlesKeeps
  <2>2. CASE \E end \in {"cancelled", "stale"} : Drops(c, end)
    <3>1. PICK end \in {"cancelled", "stale"} : Drops(c, end)
      BY <2>2
    <3> QED
      BY <1>3, <3>1, DropsKeeps DEF Ended
  <2>3. CASE RollsBack(c) /\ at[c].fallback \notin {NoSource, at[c].target}
    BY <1>3, <2>3, RollsBackKeeps
  <2> QED
    BY <1>3, <2>1, <2>2, <2>3 DEF Decides
<1> QED
  BY <1>1, <1>2, <1>3

\* A new choice.
LEMMA ChoosesKeeps ==
    ASSUME Inv, NEW c \in Call, NEW s \in sources, NEW from,
           Chooses(c, s, from),
           \/ from = selected /\ UNCHANGED sources
           \/ from = NoSource /\ sources' \subseteq sources,
           UNCHANGED <<desired, running, building>>, events' \in 0 .. MaxEvents
    PROVE  Inv'
<1> USE Tokens DEF Inv
<1>1. TypeOK'
  <2>1. at' \in [Call -> Local]
    <3>1. CASE s = from
      BY <3>1 DEF TypeOK, Chooses, Ends
    <3>2. CASE s # from
      <4> DEFINE was == pending.call
                 back == IF was \in Call /\ at[was].fallback # NoSource
                         THEN at[was].fallback ELSE from
      <4>1. back \in Source \cup {NoSource} /\ s \in Source
        BY DEF TypeOK, Local
      <4>2. Granted([call |-> c, phase |-> "target"], s) \in Token \cup {NoToken}
        BY DEF Granted
      <4> HIDE DEF back
      <4>3. [target |-> s, fallback |-> back,
             tok |-> Granted([call |-> c, phase |-> "target"], s), phase |-> "target",
             sole |-> ~CanContinue, end |-> "ready"] \in Local
        BY <4>1, <4>2 DEF Local, Phase, CanContinue
      <4> QED
        BY <3>2, <4>3 DEF TypeOK, Chooses, back
    <3> QED
      BY <3>1, <3>2
  <2>2. selected' \in sources' \cup {NoSource} /\ sources' \subseteq Source
    BY DEF TypeOK, Chooses
  <2>3. choice' \in Source \cup {NoSource}
    BY DEF TypeOK, Chooses
  <2>4. pending' \in [call : Call \cup {NoCall}, tok : Token \cup {NoToken}]
    BY DEF TypeOK, Chooses
  <2>5. owner' \in Token \cup {NoToken, Foreign}
    <3>1. [call |-> c, phase |-> "target"] \in Token
      OBVIOUS
    <3> QED
      BY <3>1 DEF TypeOK, Chooses, Released
  <2>6. pc' \in [Call -> {"new"} \cup Awaiting \cup Ended]
    BY DEF TypeOK, Chooses, Ends, Goes, Awaiting, Ended
  <2> QED
    BY <2>1, <2>2, <2>3, <2>4, <2>5, <2>6 DEF TypeOK
<1>2. Places'
  BY DEF TypeOK, Places, Current, Mid, Chooses, Ends, Goes, Grants, Granted, Released,
     Ended, NoPending
<1>3. Phases'
  BY DEF TypeOK, Phases, Mid, Chooses, Ends, Goes, Grants, Granted, Released, Ended,
     NoPending
<1>4. PendingIsSelected'
  BY DEF TypeOK, Places, Phases, PendingIsSelected, Current, Goal, Applied, Mid,
     Chooses, Ends, Goes, Grants, Granted, Released, Ended, NoPending
<1>5. Owners'
  BY DEF TypeOK, Places, Owners, Current, Mid, OwnerIsAlive, Awaiting, Chooses, Ends,
     Goes, Grants, Granted, Released, Ended, NoPending
<1>6. OwnerIsAlive'
  BY DEF TypeOK, Owners, Current, Mid, OwnerIsAlive, Awaiting, Places, Chooses, Ends,
     Goes, Grants, Granted, Released, Ended, NoPending
<1>7. Looked'
  BY DEF TypeOK, Places, PendingIsSelected, Looked, Current, Goal, Mid, Applied,
     Chooses, Ends, Goes, Grants, Granted, Released, Ended, NoPending
<1>8. Targets'
  BY DEF TypeOK, Targets, Mid, Phases, Chooses, Ends, Goes, Grants, Granted, Released,
     Ended, NoPending
<1> QED
  BY <1>1, <1>2, <1>3, <1>4, <1>5, <1>6, <1>7, <1>8

\* The operation is granted, or refused, or comes too late.
LEMMA BegunKeeps ==
    ASSUME Inv, NEW c \in Call, Begun(c)
    PROVE  Inv'
<1> USE Tokens DEF Inv
<1>1. TypeOK'
  <2>0. at[c].tok \in Token \cup {NoToken}
    BY Locals
  <2>1. at' \in [Call -> Local]
    BY DEF TypeOK, Begun, Ends, Drops
  <2>2. pc' \in [Call -> {"new"} \cup Awaiting \cup Ended]
    BY DEF TypeOK, Begun, Ends, Drops, Goes, Awaiting, Ended
  <2>3. pending' \in [call : Call \cup {NoCall}, tok : Token \cup {NoToken}]
    BY <2>0 DEF TypeOK, Begun, Drops, NoPending
  <2>4. owner' \in Token \cup {NoToken, Foreign}
    BY <2>0 DEF TypeOK, Begun, Drops, Released
  <2> QED
    BY <2>1, <2>2, <2>3, <2>4 DEF TypeOK, Begun, Drops, Applied
<1>2. Places'
  BY DEF TypeOK, Places, Current, Mid, Begun, Ends, Goes, Drops, Released, Ended,
     NoPending
<1>3. Phases'
  BY DEF TypeOK, Phases, Mid, Begun, Ends, Goes, Drops, Released, Ended, NoPending
<1>4. PendingIsSelected'
  BY DEF TypeOK, Places, Phases, PendingIsSelected, Current, Goal, Applied, Mid, Begun,
     Ends, Goes, Drops, Released, Ended, NoPending
<1>5. Owners'
  BY DEF TypeOK, Places, Owners, Current, Mid, OwnerIsAlive, Awaiting, Begun, Ends,
     Goes, Drops, Released, Ended, NoPending
<1>6. OwnerIsAlive'
  BY DEF TypeOK, Owners, Current, Mid, OwnerIsAlive, Awaiting, Places, Begun, Ends,
     Goes, Drops, Released, Ended, NoPending
<1>7. Looked'
  BY DEF TypeOK, Places, PendingIsSelected, Looked, Current, Goal, Mid, Applied, Begun,
     Ends, Goes, Drops, Released, Ended, NoPending
<1>8. Targets'
  BY DEF TypeOK, Targets, Mid, Phases, Begun, Ends, Goes, Drops, Released, Ended,
     NoPending
<1> QED
  BY <1>1, <1>2, <1>3, <1>4, <1>5, <1>6, <1>7, <1>8

\* The same of the fallback.
LEMMA RollbackBegunKeeps ==
    ASSUME Inv, NEW c \in Call, RollbackBegun(c)
    PROVE  Inv'
<1> USE Tokens DEF Inv
<1>1. TypeOK'
  <2>0. at[c].tok \in Token \cup {NoToken}
    BY Locals
  <2>1. at' \in [Call -> Local]
    BY DEF TypeOK, RollbackBegun, Ends
  <2>2. pc' \in [Call -> {"new"} \cup Awaiting \cup Ended]
    BY DEF TypeOK, RollbackBegun, Ends, Goes, Awaiting, Ended
  <2>3. pending' \in [call : Call \cup {NoCall}, tok : Token \cup {NoToken}]
    BY <2>0 DEF TypeOK, RollbackBegun, NoPending
  <2>4. owner' \in Token \cup {NoToken, Foreign}
    BY <2>0 DEF TypeOK, RollbackBegun, Released
  <2> QED
    BY <2>1, <2>2, <2>3, <2>4 DEF TypeOK, RollbackBegun
<1>2. Places'
  BY DEF TypeOK, Places, Current, Mid, RollbackBegun, Ends, Goes, Released, Ended,
     NoPending
<1>3. Phases'
  BY DEF TypeOK, Phases, Mid, RollbackBegun, Ends, Goes, Released, Ended, NoPending
<1>4. PendingIsSelected'
  BY DEF TypeOK, Places, Phases, PendingIsSelected, Current, Goal, Applied, Mid,
     RollbackBegun, Ends, Goes, Released, Ended, NoPending
<1>5. Owners'
  BY DEF TypeOK, Places, Owners, Current, Mid, OwnerIsAlive, Awaiting, RollbackBegun,
     Ends, Goes, Released, Ended, NoPending
<1>6. OwnerIsAlive'
  BY DEF TypeOK, Owners, Current, Mid, OwnerIsAlive, Awaiting, Places, RollbackBegun,
     Ends, Goes, Released, Ended, NoPending
<1>7. Looked'
  BY DEF TypeOK, Places, PendingIsSelected, Looked, Current, Goal, Mid, Applied,
     RollbackBegun, Ends, Goes, Released, Ended, NoPending
<1>8. Targets'
  BY DEF TypeOK, Targets, Mid, Phases, RollbackBegun, Ends, Goes, Released, Ended,
     NoPending
<1> QED
  BY <1>1, <1>2, <1>3, <1>4, <1>5, <1>6, <1>7, <1>8

\* A reconnect begins.
LEMMA BuildKeeps ==
    ASSUME Inv, NEW c \in Call, Build(c)
    PROVE  Inv'
<1> USE Tokens DEF Inv
<1>1. TypeOK'
  BY Locals DEF TypeOK, Build, Goes, Awaiting, Ended, NoPending, Applied
<1>2. Places'
  BY DEF TypeOK, Places, Current, Mid, Build, Goes, Ended, NoPending
<1>3. Phases'
  BY DEF TypeOK, Phases, Mid, Build, Goes, Ended, NoPending
<1>4. PendingIsSelected'
  BY DEF TypeOK, Places, Phases, PendingIsSelected, Current, Goal, Applied, Mid, Build,
     Goes, Ended, NoPending
<1>5. Owners'
  BY DEF TypeOK, Places, Owners, Current, Mid, OwnerIsAlive, Awaiting, Build, Goes,
     Ended, NoPending
<1>6. OwnerIsAlive'
  BY DEF TypeOK, Owners, Current, Mid, OwnerIsAlive, Awaiting, Places, Build, Goes,
     Ended, NoPending
<1>7. Looked'
  BY DEF TypeOK, Places, PendingIsSelected, Looked, Current, Goal, Mid, Applied, Build,
     Goes, Ended, NoPending
<1>8. Targets'
  BY DEF TypeOK, Targets, Mid, Phases, Build, Goes, Ended, NoPending
<1> QED
  BY <1>1, <1>2, <1>3, <1>4, <1>5, <1>6, <1>7, <1>8

\* The selection is saved, or not.
LEMMA PersistedKeeps ==
    ASSUME Inv, NEW c \in Call, NEW ok \in BOOLEAN, Persisted(c, ok)
    PROVE  Inv'
<1> USE Tokens DEF Inv
<1>1. TypeOK'
  <2>1. at' \in [Call -> Local]
    BY DEF TypeOK, Persisted, Ends
  <2>2. pc' \in [Call -> {"new"} \cup Awaiting \cup Ended]
    BY Locals DEF TypeOK, Persisted, Ends, Goes, Ended
  <2> QED
    BY <2>1, <2>2 DEF TypeOK, Persisted, Released
<1>2. Places'
  BY DEF TypeOK, Places, Current, Mid, Persisted, Ends, Goes, Released, Ended, NoPending
<1>3. Phases'
  BY Locals DEF TypeOK, Phases, Mid, Persisted, Ends, Goes, Released, Ended, NoPending
<1>4. PendingIsSelected'
  BY DEF TypeOK, Places, Phases, PendingIsSelected, Current, Goal, Applied, Mid,
     Persisted, Ends, Goes, Released, Ended, NoPending
<1>5. Owners'
  BY DEF TypeOK, Places, Owners, Current, Mid, OwnerIsAlive, Awaiting, Persisted, Ends,
     Goes, Released, Ended, NoPending
<1>6. OwnerIsAlive'
  BY DEF TypeOK, Owners, Current, Mid, OwnerIsAlive, Awaiting, Places, Persisted, Ends,
     Goes, Released, Ended, NoPending
<1>7. Looked'
  BY DEF TypeOK, Places, PendingIsSelected, Looked, Current, Goal, Mid, Applied,
     Persisted, Ends, Goes, Released, Ended, NoPending
<1>8. Targets'
  BY Locals DEF TypeOK, Targets, Mid, Phases, Persisted, Ends, Goes, Released, Ended, NoPending
<1> QED
  BY <1>1, <1>2, <1>3, <1>4, <1>5, <1>6, <1>7, <1>8

\* The other steps either decide, or go on with the check of the runtime.
LEMMA MidSteps ==
    ASSUME Inv, NEW c \in Call, Answer(c), ~Begun(c), ~Build(c), ~RollbackBegun(c),
           \A ok \in BOOLEAN : ~Persisted(c, ok)
    PROVE  Inv'
<1> USE Tokens DEF Inv
<1> DEFINE Verdict == {"ready", "hardFailed", "unverified", "cancelled", "stale"}
<1>1. UNCHANGED <<sources, choice, desired, events>> /\ pc[c] \in Mid
  BY DEF Answer, Refused, Snapshot, Built, Leader, Verified, Mid
<1>2. /\ running' \in Source \cup {NoSource}
      /\ building' \in [call : Call \cup {NoCall}, source : Source \cup {NoSource}]
  BY DEF Answer, Refused, Snapshot, Built, Leader, Verified, TypeOK, NoRun
<1>3. CASE \E verdict \in Verdict : Decides(c, verdict)
  BY <1>1, <1>2, <1>3, DecidesKeeps
<1>4. CASE \A verdict \in Verdict : ~Decides(c, verdict)
  <2>1. /\ UNCHANGED <<selected, pending, owner, at>>
        /\ \E to \in {"snapshot", "leader", "verify"} :
              Goes(c, to) /\ (to # "snapshot" /\ Current(c) => selected = Goal(c))
    <3>1. CASE Refused(c)
      BY <1>4, <3>1 DEF Refused
    <3>2. CASE \E up \in BOOLEAN : Built(c, up)
      BY <1>4, <3>2 DEF Built
    <3>3. CASE Snapshot(c)
      BY <1>4, <3>3 DEF Snapshot
    <3>4. CASE \E changed \in BOOLEAN : Leader(c, changed)
      BY <1>4, <3>4 DEF Leader, Looked
    <3>5. CASE \E v \in Verdict : Verified(c, v)
      BY <1>4, <3>5 DEF Verified
    <3> QED
      BY <3>1, <3>2, <3>3, <3>4, <3>5 DEF Answer
  <2>2. PICK to \in {"snapshot", "leader", "verify"} :
           Goes(c, to) /\ (to # "snapshot" /\ Current(c) => selected = Goal(c))
    BY <2>1
  <2>3. pc' = [pc EXCEPT ![c] = to] /\ to \in Mid
    BY <2>2 DEF Goes, Mid
  <2>4. TypeOK'
    BY <1>1, <1>2, <2>1, <2>2, <2>3 DEF TypeOK, Awaiting, Mid
  <2>5. Places'
    BY <1>1, <1>2, <2>1, <2>2, <2>3 DEF TypeOK, Places, Current, Mid
  <2>6. Phases'
    BY <1>1, <1>2, <2>1, <2>2, <2>3 DEF TypeOK, Phases, Mid
  <2>7. PendingIsSelected'
    BY <1>1, <1>2, <2>1, <2>2, <2>3 DEF PendingIsSelected, Current, Goal, Applied, Mid
  <2>8. Owners'
    BY <1>1, <1>2, <2>1, <2>2, <2>3 DEF TypeOK, Owners, Current, Mid
  <2>9. OwnerIsAlive'
    BY <1>1, <1>2, <2>1, <2>2, <2>3 DEF TypeOK, OwnerIsAlive, Awaiting, Mid
  <2>10. Looked'
    BY <1>1, <1>2, <2>1, <2>2, <2>3 DEF TypeOK, Looked, Current, Goal, Mid
  <2>11. Targets'
    BY <1>1, <1>2, <2>1, <2>2, <2>3 DEF TypeOK, Targets, Mid
  <2> QED
    BY <2>4, <2>5, <2>6, <2>7, <2>8, <2>9, <2>10, <2>11
<1> QED
  BY <1>3, <1>4

\* What comes in between leaves the calls, and what is selected, as they are.
LEMMA AroundKeeps ==
    ASSUME Inv, UNCHANGED <<selected, building, pc, at>>,
           selected \in sources' \cup {NoSource}, sources' \subseteq sources,
           UNCHANGED choice, desired' \in {"idle", "connected"},
           running' \in Source \cup {NoSource}, events' \in 0 .. MaxEvents,
           \/ UNCHANGED pending /\ owner' \in {owner, NoToken, Foreign}
           \/ Cancels
    PROVE  Inv'
<1> USE Tokens DEF Inv
<1>1. TypeOK'
  BY Locals DEF TypeOK, Cancels, Released, Awaiting, Ended, NoPending, Applied
<1>2. Places'
  BY DEF TypeOK, Places, Current, Mid, Cancels, Released, Ended, NoPending
<1>3. Phases'
  BY DEF TypeOK, Phases, Mid, Cancels, Released, Ended, NoPending
<1>4. PendingIsSelected'
  BY DEF TypeOK, Places, Phases, PendingIsSelected, Current, Goal, Applied, Mid,
     Cancels, Released, Ended, NoPending
<1>5. Owners'
  BY DEF TypeOK, Places, Owners, Current, Mid, OwnerIsAlive, Awaiting, Cancels,
     Released, Ended, NoPending
<1>6. OwnerIsAlive'
  BY DEF TypeOK, Owners, Current, Mid, OwnerIsAlive, Awaiting, Places, Cancels,
     Released, Ended, NoPending
<1>7. Looked'
  BY DEF TypeOK, Places, PendingIsSelected, Looked, Current, Goal, Mid, Applied,
     Cancels, Released, Ended, NoPending
<1>8. Targets'
  BY DEF TypeOK, Targets, Mid, Phases, Cancels, Released, Ended, NoPending
<1> QED
  BY <1>1, <1>2, <1>3, <1>4, <1>5, <1>6, <1>7, <1>8

\* Deleting the selected source chooses another one.
LEMMA DeleteKeeps ==
    ASSUME Inv, NEW s \in Source, Delete(s)
    PROVE  Inv'
<1>1. CASE s # selected
  BY <1>1, AroundKeeps, SourceSwitchAssumption DEF Delete, Event, Inv, TypeOK
<1>2. CASE s = selected
  <2>1. PICK c \in Call, next \in sources \ {s} : Chooses(c, next, NoSource)
    BY <1>2 DEF Delete
  <2>2. sources' \subseteq sources /\ UNCHANGED <<desired, running, building>>
    BY DEF Delete
  <2>3. events' \in 0 .. MaxEvents
    BY SourceSwitchAssumption DEF Delete, Event, Inv, TypeOK
  <2> QED
    BY <2>1, <2>2, <2>3, ChoosesKeeps
<1> QED
  BY <1>1, <1>2

\* The user chooses.
LEMMA ActivateKeeps ==
    ASSUME Inv, NEW c \in Call, Activate(c)
    PROVE  Inv'
<1>1. PICK s \in sources : Chooses(c, s, selected)
  BY DEF Activate
<1>2. UNCHANGED <<sources, desired, running, building>> /\ events' \in 0 .. MaxEvents
  BY DEF Activate, Inv, TypeOK
<1> QED
  BY <1>1, <1>2, ChoosesKeeps

\* The invariant holds at first.
LEMMA InitInv == Init => Inv
<1> SUFFICES ASSUME Init PROVE Inv
  OBVIOUS
<1> USE Tokens, SourceSwitchAssumption
<1>1. TypeOK
  BY DEF Init, TypeOK, NoPending, NoRun
<1>2. \A c \in Call : pc[c] = "new" /\ ~Current(c)
  BY DEF Init, Current
<1>3. Places /\ Phases /\ PendingIsSelected /\ Looked /\ Targets
  BY <1>2 DEF Places, Phases, PendingIsSelected, Looked, Targets, Mid
<1>4. Owners /\ OwnerIsAlive
  BY DEF Init, Owners, OwnerIsAlive
<1> QED
  BY <1>1, <1>3, <1>4 DEF Inv

\* Every step keeps it.
LEMMA NextInv == Inv /\ [Next]_vars => Inv'
<1> SUFFICES ASSUME Inv, [Next]_vars PROVE Inv'
  OBVIOUS
<1>1. ASSUME NEW c \in Call, Answer(c) PROVE Inv'
  <2>1. CASE Begun(c)
    BY <2>1, BegunKeeps
  <2>2. CASE Build(c)
    BY <2>2, BuildKeeps
  <2>3. CASE RollbackBegun(c)
    BY <2>3, RollbackBegunKeeps
  <2>4. CASE \E ok \in BOOLEAN : Persisted(c, ok)
    BY <2>4, PersistedKeeps
  <2> QED
    BY <1>1, <2>1, <2>2, <2>3, <2>4, MidSteps
<1>2. CASE UNCHANGED vars
  BY <1>2 DEF vars, Inv, TypeOK, Places, Phases, PendingIsSelected, Owners, OwnerIsAlive,
              Looked, Targets, Current, Goal, Applied
<1>3. CASE Next
  <2>1. CASE \E c \in Call : Activate(c)
    BY <2>1, ActivateKeeps
  <2>2. CASE \E c \in Call : Answer(c)
    BY <2>2, <1>1
  <2>3. CASE \E s \in Source : Delete(s)
    BY <2>3, DeleteKeeps
  <2>4. CASE Rest
    BY <2>4, <1>2 DEF Rest
  <2>5. CASE TurnOff \/ Disconnect \/ TurnOn \/ Restart \/ Preempt
    BY <2>5, AroundKeeps, SourceSwitchAssumption
       DEF TurnOff, Disconnect, TurnOn, Restart, Preempt, Event, Inv, TypeOK
  <2> QED
    BY <1>3, <2>1, <2>2, <2>3, <2>4, <2>5 DEF Next
<1> QED
  BY <1>2, <1>3

\* The invariant holds throughout.
LEMMA SpecInv == Spec => []Inv
BY InitInv, NextInv, PTL DEF Spec


-----------------------------------------------------------------------------
\* Types are kept.
THEOREM TypeCorrect == Spec => []TypeOK
BY SpecInv, PTL DEF Inv

\* No older call selects anything over a newer one that has its operation.
THEOREM NewestIsSelected == Spec => []PendingIsSelected
BY SpecInv, PTL DEF Inv

\* Whichever way a call ends, its operation is given back.
THEOREM OperationsAreGivenBack == Spec => []OwnerIsAlive
BY SpecInv, PTL DEF Inv

\* Where a call goes is decided by a step of its own, once it has been made.
LEMMA OwnSteps ==
    ASSUME Inv, NEW c \in Call, Next, pc[c] # pc'[c], pc'[c] \notin {"begin", "same"}
    PROVE  Answer(c)
<1> USE DEF Inv
<1>1. ASSUME NEW d \in Call, NEW s, NEW from, Chooses(d, s, from) PROVE FALSE
  BY <1>1 DEF Chooses, Ends, Goes, TypeOK
<1>2. ASSUME NEW d \in Call, Answer(d), d # c PROVE FALSE
  BY <1>2 DEF Answer, Begun, Refused, Build, Snapshot, RollbackBegun, Built, Leader, Verified,
     Persisted, Decides, IsStale, Settles, Drops, RollsBack, Ends, Goes, TypeOK
<1>3. ~Activate(c) /\ \A d \in Call : ~Activate(d)
  BY <1>1 DEF Activate
<1>4. \A s \in Source : ~Delete(s)
  BY <1>1 DEF Delete
<1> QED
  BY <1>2, <1>3, <1>4 DEF Next, TurnOff, Disconnect, TurnOn, Restart, Preempt, Rest, vars

\* How a call that is saved is to end.
LEMMA SettledAs ==
    ASSUME TypeOK, NEW c \in Call, NEW end, Settles(c, end)
    PROVE  at'[c].end = end
<1>1. at' = [at EXCEPT ![c] = [at[c] EXCEPT !.end = end]] /\ at[c] \in Local
  BY DEF Settles, TypeOK
<1>2. [at[c] EXCEPT !.end = end].end = end
  BY <1>1 DEF Local
<1> QED
  BY <1>1, <1>2 DEF TypeOK

\* A verdict other than ready saves nothing as ready or restored.
LEMMA OthersSaveOtherwise ==
    ASSUME Inv, NEW c \in Call,
           NEW v \in {"hardFailed", "unverified", "cancelled", "stale"}, Decides(c, v),
           pc'[c] = "persist"
    PROVE  at'[c].end \notin {"ready", "restored"}
<1>1. \A end : Settles(c, end) => at'[c].end = end
  BY SettledAs DEF Inv
<1>2. \E end \in {"cancelled", "unverified", "failed"} : Settles(c, end)
  <2>1. ~IsStale(c) /\ ~RollsBack(c) /\ \A end \in {"unrestored", "cancelled", "stale"} : ~Drops(c, end)
    BY DEF Inv, IsStale, Drops, RollsBack, Ends, Goes, TypeOK
  <2> QED
    BY <2>1 DEF Decides
<1> QED
  BY <1>1, <1>2

\* A switch that need not reconnect is saved as it was begun.
LEMMA Starts ==
    ASSUME Inv, NEW c \in Call, Next, pc[c] = "begin", pc'[c] = "persist"
    PROVE  at' = at /\ at[c].sole
<1> USE DEF Inv
<1>1. Answer(c)
  BY OwnSteps
<1>2. Begun(c)
  BY <1>1 DEF Answer, Refused, Build, Snapshot, RollbackBegun, Built, Leader, Verified, Persisted
<1> QED
  BY <1>2 DEF Begun, Drops, Ends, Goes, TypeOK

\* A switch that is saved as ready, or as restored, was verified just now.
LEMMA SavedIsVerified ==
    ASSUME Inv, NEW c \in Call, Next,
           pc[c] # "persist", pc'[c] = "persist",
           at'[c].end \in {"ready", "restored"}, pc[c] # "begin"
    PROVE  Verified(c, "ready") /\ Current(c)
<1> USE DEF Inv
<1>1. Answer(c)
  BY OwnSteps
<1>2. ~Begun(c) /\ ~Build(c) /\ ~RollbackBegun(c) /\ \A ok \in BOOLEAN : ~Persisted(c, ok)
  BY DEF Begun, Build, RollbackBegun, Persisted, Ends, Goes, TypeOK
<1>3. ~Refused(c) /\ ~Snapshot(c) /\ \A b \in BOOLEAN : ~Built(c, b) /\ ~Leader(c, b)
  BY OthersSaveOtherwise DEF Refused, Snapshot, Built, Leader, Goes, TypeOK
<1>4. \A v \in {"hardFailed", "unverified", "cancelled", "stale"} : ~Verified(c, v)
  BY OthersSaveOtherwise DEF Verified
<1>5. Verified(c, "ready")
  BY <1>1, <1>2, <1>3, <1>4 DEF Answer
<1> QED
  BY <1>5 DEF Verified, Decides, IsStale, Ends, Goes, TypeOK

\* A rollback that fails leaves what is selected.
LEMMA Unrestored ==
    ASSUME Inv, NEW c \in Call, Next, pc[c] # pc'[c], pc'[c] = "unrestored"
    PROVE  /\ pc[c] \in Mid \cup {"rollback"} /\ Current(c)
           /\ at[c].phase = "rollback" /\ UNCHANGED selected
<1> USE DEF Inv
<1>1. Answer(c)
  BY OwnSteps
<1>2. ASSUME NEW v \in {"ready", "hardFailed", "unverified", "cancelled", "stale"},
             Decides(c, v)
      PROVE  Current(c) /\ at[c].phase = "rollback" /\ UNCHANGED selected
  BY <1>2 DEF Decides, IsStale, Settles, Drops, RollsBack, Ends, Goes, TypeOK
<1>3. ~Begun(c) /\ ~Build(c) /\ \A ok \in BOOLEAN : ~Persisted(c, ok)
  BY Locals DEF Begun, Build, Persisted, Drops, Ends, Goes, TypeOK
<1>4. CASE RollbackBegun(c)
  BY <1>4 DEF RollbackBegun, Ends, Goes, TypeOK, Phases
<1>5. CASE Refused(c)
  BY <1>2, <1>5 DEF Refused, Mid
<1>6. CASE Snapshot(c)
  BY <1>2, <1>6 DEF Snapshot, Goes, TypeOK, Mid
<1>7. CASE \E up \in BOOLEAN : Built(c, up)
  BY <1>2, <1>7 DEF Built, Goes, TypeOK, Mid
<1>8. CASE \E changed \in BOOLEAN : Leader(c, changed)
  BY <1>2, <1>8 DEF Leader, Goes, TypeOK, Mid
<1>9. CASE \E v \in {"ready", "hardFailed", "unverified", "cancelled", "stale"} : Verified(c, v)
  BY <1>2, <1>9 DEF Verified, Mid
<1> QED
  BY <1>1, <1>3, <1>4, <1>5, <1>6, <1>7, <1>8, <1>9 DEF Answer

\* What is reported as ready, or as restored, was verified in a runtime of that very
\* source, which is the selected one, by the latest switch.
THEOREM ReadyWasVerified == Spec => ReadyIsRunning
<1> DEFINE A(c) ==
      /\ pc[c] # "persist" /\ pc'[c] = "persist"
      /\ at'[c].end \in {"ready", "restored"} /\ ~at[c].sole
      => running = Goal(c) /\ selected = Goal(c) /\ Current(c)
<1>1. ASSUME Inv, [Next]_vars, NEW c \in Call PROVE A(c)
  <2> SUFFICES ASSUME pc[c] # "persist", pc'[c] = "persist",
                      at'[c].end \in {"ready", "restored"}, ~at[c].sole
               PROVE  running = Goal(c) /\ selected = Goal(c) /\ Current(c)
    OBVIOUS
  <2>1. Verified(c, "ready") /\ Current(c)
    BY <1>1, SavedIsVerified, Starts DEF vars
  <2>2. selected = Goal(c)
    BY <1>1, <2>1 DEF Inv, Looked, Verified
  <2>3. running = Goal(c)
    BY <2>1 DEF Verified
  <2> QED
    BY <2>1, <2>2, <2>3
<1>2. Inv /\ [Next]_vars =>
         [\A c \in Call :
            /\ pc[c] # "persist" /\ pc'[c] = "persist"
            /\ at'[c].end \in {"ready", "restored"} /\ ~at[c].sole
            => /\ running = Goal(c) /\ selected = Goal(c)
               /\ Current(c)]_vars
  BY <1>1
<1> QED
  BY <1>2, SpecInv, PTL DEF Spec, ReadyIsRunning

\* A target that was refuted does not stay selected.
THEOREM RefutedTargetIsLeft == Spec => RefutedIsLeft
<1>1. ASSUME Inv, [Next]_vars, NEW c \in Call, pc[c] # pc'[c],
             \/ pc'[c] = "unrestored"
             \/ pc'[c] = "persist" /\ at'[c].end = "restored"
      PROVE  selected' # at[c].target
  <2> USE <1>1 DEF Inv
  <2>1. ASSUME pc[c] \in Mid \cup {"rollback"}, Current(c), at[c].phase = "rollback",
               UNCHANGED selected
        PROVE  selected' # at[c].target
    <3>1. selected = Applied(at[c].fallback)
      BY <2>1 DEF Places, PendingIsSelected, Goal
    <3> QED
      BY <2>1, <3>1, Tokens DEF Applied, Targets
  <2>2. CASE pc'[c] = "persist"
    <3>1. pc[c] # "begin"
      <4>1. CASE pc[c] = "begin"
        <5>1. at' = at /\ at[c].end = "ready"
          BY <2>2, <4>1, Starts DEF Phases, vars
        <5> QED
          BY <1>1, <2>2, <5>1
      <4> QED
        BY <4>1
    <3>2. Verified(c, "ready") /\ Current(c)
      BY <2>2, <3>1, SavedIsVerified DEF vars
    <3>3. at[c].phase = "rollback" /\ UNCHANGED selected
      <4>1. ~Settles(c, "ready") /\ ~Settles(c, "cancelled")
        BY <1>1, <2>2, SettledAs
      <4> QED
        BY <2>2, <3>2, <4>1 DEF Verified, Decides, Settles, Drops, Ends, Goes, TypeOK
    <3> QED
      BY <2>1, <3>2, <3>3 DEF Verified, Mid
  <2>3. CASE pc'[c] = "unrestored"
    <3>1. pc[c] \in Mid \cup {"rollback"} /\ Current(c) /\ at[c].phase = "rollback"
          /\ UNCHANGED selected
      BY <2>3, Unrestored DEF vars
    <3> QED
      BY <2>1, <3>1
  <2> QED
    BY <1>1, <2>2, <2>3
<1>2. Inv /\ [Next]_vars =>
         [\A c \in Call :
            /\ pc[c] # pc'[c]
            /\ \/ pc'[c] = "unrestored"
               \/ pc'[c] = "persist" /\ at'[c].end = "restored"
            => selected' # at[c].target]_vars
  BY <1>1
<1> QED
  BY <1>2, SpecInv, PTL DEF Spec, RefutedIsLeft

=============================================================================
