-------------------------- MODULE RuntimeOpsProofs --------------------------
(***************************************************************************)
(* What runtime_ops.rs guarantees, for every value of the bounds.          *)
(*                                                                         *)
(* RuntimeOps, for every set of flows and sources: types, the uniqueness   *)
(* of authority, and that the coordinator implements OneOwner.             *)
(*                                                                         *)
(* ProbeGate, for every number of threads, generations and tickets: types, *)
(* one permit, a queue without leftovers, and wake-ups that arrive as long *)
(* as the first runtime lasts.                                             *)
(***************************************************************************)
EXTENDS RuntimeOps, ProbeGate, TLAPS

-----------------------------------------------------------------------------

\* Every variable of the coordinator keeps its type.
THEOREM TypeCorrect == Spec => []TypeOK
<1>1. Init => TypeOK
  <2> SUFFICES ASSUME Init PROVE TypeOK
    OBVIOUS
  <2>1. nextId \in Nat /\ active \in Token \cup {NoToken}
    BY DEF Init
  <2>2. expired \in BOOLEAN
    BY Zenon DEF Init
  <2>3. held \in [Flow -> Token \cup {NoToken}]
    BY DEF Init
  <2>4. QED
    BY <2>1, <2>2, <2>3 DEF TypeOK
<1>2. TypeOK /\ [Next]_vars => TypeOK'
  <2> SUFFICES ASSUME TypeOK, [Next]_vars
               PROVE  TypeOK'
    OBVIOUS
  <2> USE RuntimeOpsAssumption DEF TypeOK
  <2>1. ASSUME NEW f \in Flow, NEW kind \in Kind, NEW gen \in Generation,
               NEW fingerprint \in Fingerprint \cup {NoFingerprint},
               Begin(f, kind, gen, fingerprint)
        PROVE  TypeOK'
    <3>1. nextId' \in Nat /\ nextId + 1 \in Nat \ {0}
      BY <2>1 DEF Begin
    <3>2. active' \in Token
      BY <2>1, <3>1 DEF Begin, Token
    <3>3. QED
      BY <2>1, <3>1, <3>2 DEF Begin
  <2>2. ASSUME NEW f \in Flow, Complete(f)
        PROVE  TypeOK'
    BY <2>2 DEF Complete
  <2>3. ASSUME NEW f \in Flow, Cancel(f)
        PROVE  TypeOK'
    BY <2>3 DEF Cancel
  <2>4. ASSUME NEW f \in Flow, Forget(f)
        PROVE  TypeOK'
    BY <2>4 DEF Forget
  <2>5. CASE LeaseRunsOut
    BY <2>5 DEF LeaseRunsOut
  <2>6. CASE UNCHANGED vars
    BY <2>6 DEF vars
  <2>7. QED
    BY <2>1, <2>2, <2>3, <2>4, <2>5, <2>6 DEF Next
<1>3. QED
  BY <1>1, <1>2, PTL DEF Spec

-----------------------------------------------------------------------------

\* The strengthening that makes OneAuthority inductive.  Ids are never reused:
\* what is held or active was numbered by an earlier begin, the active
\* operation carries the last number given, and two flows never hold the same.
HeldIdsIssued == \A f \in Flow : held[f] # NoToken => held[f].id <= nextId
ActiveIsLatest == active # NoToken => active.id = nextId
HeldIdsDistinct ==
    \A f, g \in Flow :
        held[f] # NoToken /\ held[g] # NoToken /\ held[f].id = held[g].id => f = g

IdInv == TypeOK /\ HeldIdsIssued /\ ActiveIsLatest /\ HeldIdsDistinct

\* The id of a token is a positive number.
LEMMA TokenId == ASSUME NEW t \in Token PROVE t.id \in Nat /\ t.id > 0 /\ t # NoToken
BY NoTokenAssumption DEF Token

LEMMA IdInvHolds == Spec => []IdInv
<1>1. Init => HeldIdsIssued /\ ActiveIsLatest /\ HeldIdsDistinct
  BY DEF Init, HeldIdsIssued, ActiveIsLatest, HeldIdsDistinct
<1>2. TypeOK' /\ IdInv /\ [Next]_vars => IdInv'
  <2> SUFFICES ASSUME TypeOK', IdInv, [Next]_vars
               PROVE  HeldIdsIssued' /\ ActiveIsLatest' /\ HeldIdsDistinct'
    BY DEF IdInv
  <2> USE TokenId DEF IdInv, TypeOK, HeldIdsIssued, ActiveIsLatest, HeldIdsDistinct
  <2>1. ASSUME NEW f \in Flow, NEW kind \in Kind, NEW gen \in Generation,
               NEW fingerprint \in Fingerprint \cup {NoFingerprint},
               Begin(f, kind, gen, fingerprint)
        PROVE  HeldIdsIssued' /\ ActiveIsLatest' /\ HeldIdsDistinct'
    <3>1. /\ nextId' = nextId + 1
          /\ active'.id = nextId + 1
          /\ held' = [held EXCEPT ![f] = active']
      BY <2>1 DEF Begin
    <3>2. \A g \in Flow : g # f => held'[g] = held[g]
      BY <3>1
    <3>3. held'[f] = active'
      BY <3>1
    <3>4. HeldIdsIssued'
      BY <3>1, <3>2, <3>3
    <3>5. ActiveIsLatest'
      BY <3>1
    <3>6. HeldIdsDistinct'
      BY <3>1, <3>2, <3>3
    <3>7. QED
      BY <3>4, <3>5, <3>6
  <2>2. ASSUME NEW f \in Flow, Complete(f)
        PROVE  HeldIdsIssued' /\ ActiveIsLatest' /\ HeldIdsDistinct'
    BY <2>2 DEF Complete
  <2>3. ASSUME NEW f \in Flow, Cancel(f)
        PROVE  HeldIdsIssued' /\ ActiveIsLatest' /\ HeldIdsDistinct'
    BY <2>3 DEF Cancel
  <2>4. ASSUME NEW f \in Flow, Forget(f)
        PROVE  HeldIdsIssued' /\ ActiveIsLatest' /\ HeldIdsDistinct'
    BY <2>4 DEF Forget
  <2>5. CASE LeaseRunsOut
    BY <2>5 DEF LeaseRunsOut
  <2>6. CASE UNCHANGED vars
    BY <2>6 DEF vars
  <2>7. QED
    BY <2>1, <2>2, <2>3, <2>4, <2>5, <2>6 DEF Next
<1>3. TypeOK /\ Init => IdInv
  BY <1>1 DEF IdInv
<1>4. QED
  BY <1>2, <1>3, TypeCorrect, PTL DEF Spec

\* However many flows keep however many tokens, at most one of them still
\* commands the runtime.
THEOREM AuthorityIsUnique == Spec => []OneAuthority
<1>1. IdInv => OneAuthority
  BY DEF IdInv, HeldIdsDistinct, OneAuthority, Authorised
<1>2. QED
  BY <1>1, IdInvHolds, PTL

-----------------------------------------------------------------------------

\* The coordinator implements the abstract single owner: a begin is a grant, an
\* ending complete or cancel is a release, and nothing else is visible.
THEOREM CoordinatorKeepsPromise == Spec => KeepsPromise
<1>1. Init => Promise!Init
  BY DEF Init, Promise!Init, ActiveId
<1>2. IdInv /\ IdInv' /\ [Next]_vars => [Promise!Next]_(Promise!vars)
  <2> SUFFICES ASSUME IdInv, IdInv', [Next]_vars
               PROVE  Promise!Next \/ UNCHANGED Promise!vars
    BY DEF Promise!vars
  <2> USE TokenId DEF IdInv, TypeOK, ActiveIsLatest, ActiveId,
                      Promise!Next, Promise!Grant, Promise!Release, Promise!vars
  <2>1. ASSUME NEW f \in Flow, NEW kind \in Kind, NEW gen \in Generation,
               NEW fingerprint \in Fingerprint \cup {NoFingerprint},
               Begin(f, kind, gen, fingerprint)
        PROVE  Promise!Grant
    <3>1. nextId' = nextId + 1 /\ active'.id = nextId + 1 /\ active' # NoToken
      <4>1. nextId' = nextId + 1 /\ nextId + 1 \in Nat \ {0}
        BY <2>1 DEF Begin
      <4>2. active' \in Token
        BY <2>1, <4>1 DEF Begin, Token
      <4>3. QED
        BY <2>1, <4>1, <4>2 DEF Begin
    <3>2. QED
      BY <3>1
  <2>2. ASSUME NEW f \in Flow, Complete(f)
        PROVE  Promise!Release \/ UNCHANGED Promise!vars
    BY <2>2 DEF Complete
  <2>3. ASSUME NEW f \in Flow, Cancel(f)
        PROVE  Promise!Release
    BY <2>3 DEF Cancel
  <2>4. ASSUME NEW f \in Flow, Forget(f)
        PROVE  UNCHANGED Promise!vars
    BY <2>4 DEF Forget
  <2>5. CASE LeaseRunsOut
    BY <2>5 DEF LeaseRunsOut
  <2>6. CASE UNCHANGED vars
    BY <2>6 DEF vars
  <2>7. QED
    BY <2>1, <2>2, <2>3, <2>4, <2>5, <2>6 DEF Next
<1>3. QED
  BY <1>1, <1>2, IdInvHolds, PTL DEF Spec, KeepsPromise, Promise!Spec

-----------------------------------------------------------------------------

\* While the lease of a UserDisconnect lasts, nothing supersedes it and only
\* its own token ends it, for any number of flows and operations.
THEOREM DisconnectIsFinal == Spec => DisconnectPrevails
<1> DEFINE Kept == active # NoToken /\ active.kind = "UserDisconnect" /\ ~expired
                   /\ active' # active
                   => active' = NoToken /\ \E f \in Flow : held[f] = active
<1>1. [Next]_vars => [Kept]_vars
  <2> SUFFICES ASSUME Next, active # NoToken, active.kind = "UserDisconnect",
                      ~expired, active' # active
               PROVE  active' = NoToken /\ \E f \in Flow : held[f] = active
    OBVIOUS
  <2>1. ASSUME NEW f \in Flow, NEW kind \in Kind, NEW gen \in Generation,
               NEW fingerprint \in Fingerprint \cup {NoFingerprint},
               Begin(f, kind, gen, fingerprint)
        PROVE  FALSE
    <3>1. Supersedes(kind)
      BY <2>1 DEF Begin
    <3>2. Priority("UserDisconnect") = 5 /\ Priority(kind) <= 5
      BY DEF Priority, Kind
    <3>3. QED
      BY <3>1, <3>2 DEF Supersedes, Priority, Kind
  <2>2. ASSUME NEW f \in Flow, Complete(f)
        PROVE  active' = NoToken /\ held[f] = active
    BY <2>2 DEF Complete
  <2>3. ASSUME NEW f \in Flow, Cancel(f)
        PROVE  active' = NoToken /\ held[f] = active
    BY <2>3 DEF Cancel
  <2>4. ASSUME NEW f \in Flow, Forget(f)
        PROVE  FALSE
    BY <2>4 DEF Forget
  <2>5. CASE LeaseRunsOut
    BY <2>5 DEF LeaseRunsOut
  <2>6. QED
    BY <2>1, <2>2, <2>3, <2>4, <2>5 DEF Next
<1>2. QED
  BY <1>1, PTL DEF Spec, DisconnectPrevails

\* Automation cannot take over an operation of the user whose lease lasts.
THEOREM AutomationWaits == Spec => AutomationYields
<1> DEFINE User == {"UserConnect", "UserDisconnect", "SourceSwitch"}
           Automatic == {"FrontendRecovery", "QualityRemediation"}
           Yields == active # NoToken /\ ~expired /\ active' # active
                     /\ active' # NoToken /\ active.kind \in User
                     => active'.kind \notin Automatic
<1>1. [Next]_vars => [Yields]_vars
  <2> SUFFICES ASSUME Next, active # NoToken, ~expired, active' # active,
                      active' # NoToken, active.kind \in User
               PROVE  active'.kind \notin Automatic
    OBVIOUS
  <2>1. ASSUME NEW f \in Flow, NEW kind \in Kind, NEW gen \in Generation,
               NEW fingerprint \in Fingerprint \cup {NoFingerprint},
               Begin(f, kind, gen, fingerprint)
        PROVE  active'.kind \notin Automatic
    <3>1. Supersedes(kind) /\ active'.kind = kind
      BY <2>1 DEF Begin
    <3>2. kind \in Automatic => Priority(kind) <= 2
      BY DEF Priority
    <3>3. Priority(active.kind) >= 4
      BY DEF Priority
    <3>4. Priority(kind) \in Nat /\ Priority(active.kind) \in Nat
      BY DEF Priority, Kind
    <3>5. QED
      BY <3>1, <3>2, <3>3, <3>4 DEF Supersedes
  <2>2. ASSUME NEW f \in Flow, Complete(f)
        PROVE  FALSE
    BY <2>2 DEF Complete
  <2>3. ASSUME NEW f \in Flow, Cancel(f)
        PROVE  FALSE
    BY <2>3 DEF Cancel
  <2>4. ASSUME NEW f \in Flow, Forget(f)
        PROVE  FALSE
    BY <2>4 DEF Forget
  <2>5. CASE LeaseRunsOut
    BY <2>5 DEF LeaseRunsOut
  <2>6. QED
    BY <2>1, <2>2, <2>3, <2>4, <2>5 DEF Next
<1>2. QED
  BY <1>1, PTL DEF Spec, AutomationYields

-----------------------------------------------------------------------------
(* The probe gate. *)

LEMMA NoCallType == NoCall \in Call
BY DEF NoCall, Call, ProbeKind

\* Every variable of the gate keeps its type.
THEOREM GateTypeCorrect == GateSpec => []GateTypeOK
<1>1. GateInit => GateTypeOK
  <2> SUFFICES ASSUME GateInit PROVE GateTypeOK
    OBVIOUS
  <2>1. free \in BOOLEAN
    BY Zenon DEF GateInit
  <2>2. call \in [Thread -> Call]
    BY NoCallType DEF GateInit
  <2>3. QED
    BY <2>1, <2>2 DEF GateInit, GateTypeOK, PC
<1>2. GateTypeOK /\ [GateNext]_gateVars => GateTypeOK'
  <2> SUFFICES ASSUME GateTypeOK, [GateNext]_gateVars
               PROVE  GateTypeOK'
    OBVIOUS
  <2> USE NoCallType DEF GateTypeOK, PC, HasPermit, Queued, Notifying, Registered
  <2>1. ASSUME NEW t \in Thread, NEW kind \in ProbeKind, NEW g \in 1 .. latest,
               Acquire(t, kind, g)
        PROVE  GateTypeOK'
    BY <2>1 DEF Acquire, Call, NoCall, ProbeKind
  <2>2. ASSUME NEW t \in Thread, InCall(t)
        PROVE  GateTypeOK'
    <3>1. CASE Look(t)
      BY <3>1 DEF Look, OfGeneration, Return
    <3>2. CASE Grab(t)
      BY <3>2 DEF Grab, Return
    <3>3. CASE Recheck(t)
      BY <3>3 DEF Recheck, Return
    <3>4. CASE TakeTicket(t)
      BY <3>4 DEF TakeTicket, Go, Call
    <3>5. CASE Push(t)
      BY <3>5 DEF Push, Go, Call, Waiter
    <3>6. CASE Register(t)
      BY <3>6 DEF Register, Go
    <3>7. CASE StillFresh(t)
      BY <3>7 DEF StillFresh, Go
    <3>8. CASE Admit(t)
      BY <3>8 DEF Admit, Go, OfGeneration
    <3>9. CASE Take(t)
      BY <3>9 DEF Take, Go
    <3>10. CASE Due(t)
      BY <3>10 DEF Due, Go
    <3>11. CASE Wake(t)
      BY <3>11 DEF Wake, Go
    <3>12. CASE TimeOut(t)
      BY <3>12 DEF TimeOut, Go
    <3>13. CASE Remove(t)
      BY <3>13 DEF Remove, Go
    <3>14. CASE Announce(t)
      BY <3>14 DEF Announce, Go, NotifyWaiters
    <3>15. CASE Dismiss(t)
      BY <3>15 DEF Dismiss, Return, NotifyWaiters
    <3>16. CASE Release(t)
      BY <3>16 DEF Release, Go
    <3>17. CASE NotifyReleased(t)
      BY <3>17 DEF NotifyReleased, Return, NotifyWaiters
    <3>18. QED
      BY <2>2, <3>1, <3>2, <3>3, <3>4, <3>5, <3>6, <3>7, <3>8, <3>9, <3>10,
         <3>11, <3>12, <3>13, <3>14, <3>15, <3>16, <3>17 DEF InCall
  <2>3. ASSUME NEW t \in Thread, DeadlinePasses(t)
        PROVE  GateTypeOK'
    BY <2>3 DEF DeadlinePasses
  <2>4. CASE ResetGeneration
    BY <2>4 DEF ResetGeneration, NotifyWaiters
  <2>5. CASE Invalidate
    BY <2>5 DEF Invalidate, NotifyWaiters
  <2>6. CASE UNCHANGED gateVars
    BY <2>6 DEF gateVars
  <2>7. QED
    BY <2>1, <2>2, <2>3, <2>4, <2>5, <2>6 DEF GateNext, AcquireStale
<1>3. QED
  BY <1>1, <1>2, PTL DEF GateSpec

-----------------------------------------------------------------------------

\* The semaphore lacks its permit exactly while one thread has it, on every
\* path through acquire and Drop.
THEOREM PermitIsAccounted == GateSpec => []PermitAccounted
<1>1. GateInit => PermitAccounted
  BY DEF GateInit, PermitAccounted, HasPermit
<1>2. GateTypeOK /\ PermitAccounted /\ [GateNext]_gateVars => PermitAccounted'
  <2> SUFFICES ASSUME GateTypeOK, PermitAccounted, [GateNext]_gateVars
               PROVE  PermitAccounted'
    OBVIOUS
  <2> USE DEF GateTypeOK, PC, HasPermit, Queued, Notifying, PermitAccounted
  <2>1. ASSUME NEW t \in Thread, NEW kind \in ProbeKind, NEW g \in 1 .. latest,
               Acquire(t, kind, g)
        PROVE  PermitAccounted'
    BY <2>1 DEF Acquire
  <2>2. ASSUME NEW t \in Thread, InCall(t)
        PROVE  PermitAccounted'
    <3>1. CASE Look(t)
      BY <3>1 DEF Look, OfGeneration, Return
    <3>2. CASE Grab(t)
      BY <3>2 DEF Grab, Return
    <3>3. CASE Recheck(t)
      BY <3>3 DEF Recheck, Return
    <3>4. CASE TakeTicket(t)
      BY <3>4 DEF TakeTicket, Go
    <3>5. CASE Push(t)
      BY <3>5 DEF Push, Go
    <3>6. CASE Register(t)
      BY <3>6 DEF Register, Go
    <3>7. CASE StillFresh(t)
      BY <3>7 DEF StillFresh, Go
    <3>8. CASE Admit(t)
      BY <3>8 DEF Admit, Go, OfGeneration
    <3>9. CASE Take(t)
      BY <3>9 DEF Take, Go
    <3>10. CASE Due(t)
      BY <3>10 DEF Due, Go
    <3>11. CASE Wake(t)
      BY <3>11 DEF Wake, Go
    <3>12. CASE TimeOut(t)
      BY <3>12 DEF TimeOut, Go
    <3>13. CASE Remove(t)
      BY <3>13 DEF Remove, Go
    <3>14. CASE Announce(t)
      BY <3>14 DEF Announce, Go, NotifyWaiters
    <3>15. CASE Dismiss(t)
      BY <3>15 DEF Dismiss, Return, NotifyWaiters
    <3>16. CASE Release(t)
      BY <3>16 DEF Release, Go
    <3>17. CASE NotifyReleased(t)
      BY <3>17 DEF NotifyReleased, Return, NotifyWaiters
    <3>18. QED
      BY <2>2, <3>1, <3>2, <3>3, <3>4, <3>5, <3>6, <3>7, <3>8, <3>9, <3>10,
         <3>11, <3>12, <3>13, <3>14, <3>15, <3>16, <3>17 DEF InCall
  <2>3. ASSUME NEW t \in Thread, DeadlinePasses(t)
        PROVE  PermitAccounted'
    BY <2>3 DEF DeadlinePasses
  <2>4. CASE ResetGeneration
    BY <2>4 DEF ResetGeneration, NotifyWaiters
  <2>5. CASE Invalidate
    BY <2>5 DEF Invalidate, NotifyWaiters
  <2>6. CASE UNCHANGED gateVars
    BY <2>6 DEF gateVars
  <2>7. QED
    BY <2>1, <2>2, <2>3, <2>4, <2>5, <2>6 DEF GateNext, AcquireStale
<1>3. QED
  BY <1>1, <1>2, GateTypeCorrect, PTL DEF GateSpec

-----------------------------------------------------------------------------

\* Whoever has an entry in the queue is still inside acquire, under the ticket
\* of that entry: the entry is pushed after the ticket is taken and removed by
\* ticket before the call returns, whatever else is removed in between.
THEOREM QueueHasNoGhosts == GateSpec => []NoGhostWaiter
<1>1. GateInit => NoGhostWaiter
  BY DEF GateInit, NoGhostWaiter
<1>2. GateTypeOK /\ NoGhostWaiter /\ [GateNext]_gateVars => NoGhostWaiter'
  <2> SUFFICES ASSUME GateTypeOK, NoGhostWaiter, [GateNext]_gateVars
               PROVE  NoGhostWaiter'
    OBVIOUS
  <2> USE DEF GateTypeOK, PC, HasPermit, Queued, Notifying, Registered, NoGhostWaiter,
              Waiter, Call
  <2>1. ASSUME NEW t \in Thread, NEW kind \in ProbeKind, NEW g \in 1 .. latest,
               Acquire(t, kind, g)
        PROVE  NoGhostWaiter'
    BY <2>1 DEF Acquire
  <2>2. ASSUME NEW t \in Thread, InCall(t)
        PROVE  NoGhostWaiter'
    <3>1. CASE Look(t)
      BY <3>1 DEF Look, OfGeneration, Return
    <3>2. CASE Grab(t)
      BY <3>2 DEF Grab, Return
    <3>3. CASE Recheck(t)
      BY <3>3 DEF Recheck, Return
    <3>4. CASE TakeTicket(t)
      BY <3>4 DEF TakeTicket, Go
    <3>5. CASE Push(t)
      BY <3>5 DEF Push, Go
    <3>6. CASE Register(t)
      BY <3>6 DEF Register, Go
    <3>7. CASE StillFresh(t)
      BY <3>7 DEF StillFresh, Go
    <3>8. CASE Admit(t)
      BY <3>8 DEF Admit, Go, OfGeneration
    <3>9. CASE Take(t)
      BY <3>9 DEF Take, Go
    <3>10. CASE Due(t)
      BY <3>10 DEF Due, Go
    <3>11. CASE Wake(t)
      BY <3>11 DEF Wake, Go
    <3>12. CASE TimeOut(t)
      BY <3>12 DEF TimeOut, Go
    <3>13. CASE Remove(t)
      BY <3>13 DEF Remove, Go
    <3>14. CASE Announce(t)
      BY <3>14 DEF Announce, Go, NotifyWaiters
    <3>15. CASE Dismiss(t)
      BY <3>15 DEF Dismiss, Return, NotifyWaiters
    <3>16. CASE Release(t)
      BY <3>16 DEF Release, Go
    <3>17. CASE NotifyReleased(t)
      BY <3>17 DEF NotifyReleased, Return, NotifyWaiters
    <3>18. QED
      BY <2>2, <3>1, <3>2, <3>3, <3>4, <3>5, <3>6, <3>7, <3>8, <3>9, <3>10,
         <3>11, <3>12, <3>13, <3>14, <3>15, <3>16, <3>17 DEF InCall
  <2>3. ASSUME NEW t \in Thread, DeadlinePasses(t)
        PROVE  NoGhostWaiter'
    BY <2>3 DEF DeadlinePasses
  <2>4. CASE ResetGeneration
    BY <2>4 DEF ResetGeneration, NotifyWaiters
  <2>5. CASE Invalidate
    BY <2>5 DEF Invalidate, NotifyWaiters
  <2>6. CASE UNCHANGED gateVars
    BY <2>6 DEF gateVars
  <2>7. QED
    BY <2>1, <2>2, <2>3, <2>4, <2>5, <2>6 DEF GateNext, AcquireStale
<1>3. QED
  BY <1>1, <1>2, GateTypeCorrect, PTL DEF GateSpec

-----------------------------------------------------------------------------
\* A call in progress names a runtime that has been.
CallsNameRuntimes ==
    \A t \in Thread : pc[t] # "idle" => call[t].generation \in 1 .. latest

\* No two calls have the same ticket.
Ticketed == Queued \cup {"push"}
TicketsDiffer ==
    /\ \A t \in Thread : pc[t] \in Ticketed => call[t].ticket <= nextWaiter
    /\ \A t, u \in Thread :
          pc[t] \in Ticketed /\ pc[u] \in Ticketed /\ call[t].ticket = call[u].ticket
          => t = u

\* What is in the queue is what the calls have put there.
Entry(t) == [thread |-> t, kind |-> call[t].kind,
             generation |-> call[t].generation, ticket |-> call[t].ticket]
EntriesMatch == \A w \in waiters : w = Entry(w.thread)

\* Under the first runtime no entry is dropped from under its call.
Waiting == {"loop", "fresh", "admit", "take", "due", "sleep"}
EntryKept ==
    generation = 1 => \A t \in Thread : pc[t] \in Waiting => Entry(t) \in waiters

\* Under the first runtime, when the permit is free, whoever is about to sleep
\* has a wake-up coming: from a call that must still leave the queue, or from one
\* whose next step is to notify.
WakeComes ==
    generation = 1 /\ free =>
        \A t \in Thread : pc[t] \in {"due", "sleep"} /\ t \notin woken =>
            \E u \in Thread \ {t} : pc[u] \in Queued \cup Notifying

\* The bookkeeping of calls, tickets and entries.
EntryInv ==
    /\ GateTypeOK
    /\ NoGhostWaiter
    /\ CallsNameRuntimes
    /\ TicketsDiffer
    /\ EntriesMatch
    /\ EntryKept

LEMMA EntryInvHolds == GateSpec => []EntryInv
<1> USE DEF EntryInv
<1>1. GateTypeOK /\ NoGhostWaiter /\ GateInit => EntryInv
  BY DEF GateInit, CallsNameRuntimes, TicketsDiffer, EntriesMatch, EntryKept, Ticketed,
         Queued, Waiting
<1>2. GateTypeOK' /\ NoGhostWaiter' /\ EntryInv /\ [GateNext]_gateVars => EntryInv'
  <2> SUFFICES ASSUME GateTypeOK', NoGhostWaiter', EntryInv, [GateNext]_gateVars
               PROVE  EntryInv'
    OBVIOUS
  <2> USE DEF GateTypeOK, PC, HasPermit, Queued, Notifying, Registered, Ticketed, Waiting,
              NoGhostWaiter, CallsNameRuntimes, TicketsDiffer, EntriesMatch, EntryKept,
              Entry, Call, Waiter
  <2>1. ASSUME NEW t \in Thread, NEW kind \in ProbeKind, NEW g \in 1 .. latest,
               Acquire(t, kind, g)
        PROVE  EntryInv'
    BY <2>1 DEF Acquire, NoCall
  <2>2. ASSUME NEW t \in Thread, InCall(t)
        PROVE  EntryInv'
    <3>1. CASE Look(t)
      <4> HIDE DEF CallsNameRuntimes, TicketsDiffer, EntriesMatch, EntryKept
      <4>1. CallsNameRuntimes'
        BY <3>1 DEF Look, OfGeneration, Return, CallsNameRuntimes
      <4>2. TicketsDiffer'
        <5>1. /\ nextWaiter' = nextWaiter
              /\ \A u \in Thread : pc'[u] \in Ticketed =>
                    pc[u] \in Ticketed /\ call'[u] = call[u]
          BY <3>1 DEF Look, OfGeneration, Return
        <5>2. QED
          BY <5>1 DEF TicketsDiffer
      <4>3. EntriesMatch'
        BY <3>1 DEF Look, OfGeneration, Return, EntriesMatch
      <4>4. EntryKept'
        BY <3>1 DEF Look, OfGeneration, Return, EntryKept, EntriesMatch, CallsNameRuntimes
      <4>5. QED
        BY <4>1, <4>2, <4>3, <4>4
    <3>2. CASE Grab(t)
      <4> HIDE DEF CallsNameRuntimes, TicketsDiffer, EntriesMatch, EntryKept
      <4>1. CallsNameRuntimes'
        BY <3>2 DEF Grab, Return, CallsNameRuntimes
      <4>2. TicketsDiffer'
        BY <3>2 DEF Grab, Return, TicketsDiffer
      <4>3. EntriesMatch'
        BY <3>2 DEF Grab, Return, EntriesMatch
      <4>4. EntryKept'
        BY <3>2 DEF Grab, Return, EntryKept, EntriesMatch, CallsNameRuntimes
      <4>5. QED
        BY <4>1, <4>2, <4>3, <4>4
    <3>3. CASE Recheck(t)
      <4> HIDE DEF CallsNameRuntimes, TicketsDiffer, EntriesMatch, EntryKept
      <4>1. CallsNameRuntimes'
        BY <3>3 DEF Recheck, Return, CallsNameRuntimes
      <4>2. TicketsDiffer'
        <5>1. /\ nextWaiter' = nextWaiter
              /\ \A u \in Thread : pc'[u] \in Ticketed =>
                    pc[u] \in Ticketed /\ call'[u] = call[u]
          BY <3>3 DEF Recheck, Return
        <5>2. QED
          BY <5>1 DEF TicketsDiffer
      <4>3. EntriesMatch'
        BY <3>3 DEF Recheck, Return, EntriesMatch
      <4>4. EntryKept'
        BY <3>3 DEF Recheck, Return, EntryKept, EntriesMatch, CallsNameRuntimes
      <4>5. QED
        BY <4>1, <4>2, <4>3, <4>4
    <3>4. CASE TakeTicket(t)
      BY <3>4 DEF TakeTicket, Go
    <3>5. CASE Push(t)
      BY <3>5 DEF Push, Go
    <3>6. CASE Register(t)
      BY <3>6 DEF Register, Go
    <3>7. CASE StillFresh(t)
      BY <3>7 DEF StillFresh, Go
    <3>8. CASE Admit(t)
      BY <3>8 DEF Admit, Go, OfGeneration
    <3>9. CASE Take(t)
      BY <3>9 DEF Take, Go
    <3>10. CASE Due(t)
      BY <3>10 DEF Due, Go
    <3>11. CASE Wake(t)
      BY <3>11 DEF Wake, Go
    <3>12. CASE TimeOut(t)
      BY <3>12 DEF TimeOut, Go
    <3>13. CASE Remove(t)
      BY <3>13 DEF Remove, Go
    <3>14. CASE Announce(t)
      BY <3>14 DEF Announce, Go, NotifyWaiters
    <3>15. CASE Dismiss(t)
      BY <3>15 DEF Dismiss, Return, NotifyWaiters
    <3>16. CASE Release(t)
      BY <3>16 DEF Release, Go
    <3>17. CASE NotifyReleased(t)
      BY <3>17 DEF NotifyReleased, Return, NotifyWaiters
    <3>18. QED
      BY <2>2, <3>1, <3>2, <3>3, <3>4, <3>5, <3>6, <3>7, <3>8, <3>9, <3>10,
         <3>11, <3>12, <3>13, <3>14, <3>15, <3>16, <3>17 DEF InCall
  <2>3. ASSUME NEW t \in Thread, DeadlinePasses(t)
        PROVE  EntryInv'
    BY <2>3 DEF DeadlinePasses
  <2>4. CASE ResetGeneration
    BY <2>4 DEF ResetGeneration, NotifyWaiters
  <2>5. CASE Invalidate
    BY <2>5 DEF Invalidate, NotifyWaiters
  <2>6. CASE UNCHANGED gateVars
    BY <2>6 DEF gateVars
  <2>7. QED
    BY <2>1, <2>2, <2>3, <2>4, <2>5, <2>6 DEF GateNext, AcquireStale
<1>3. QED
  BY <1>1, <1>2, GateTypeCorrect, QueueHasNoGhosts, PTL DEF GateSpec

\* A waiter that is not the best of the queue is not alone in it.
LEMMA NotBest ==
    ASSUME EntryInv, generation = 1, NEW t \in Thread, pc[t] = "admit",
           ~IsBest(t, OfGeneration(call[t].generation))
    PROVE  \E u \in Thread \ {t} : pc[u] \in Queued
<1>1. Entry(t) \in waiters /\ call[t].generation = 1
  BY DEF EntryInv, EntryKept, Waiting, CallsNameRuntimes, GateTypeOK
<1>2. Entry(t) \in OfGeneration(call[t].generation)
  BY <1>1 DEF OfGeneration, Entry
<1>3. PICK v \in waiters : v # Entry(t)
  BY <1>2 DEF IsBest, Entry, OfGeneration
<1>4. v.thread \in Thread /\ pc[v.thread] \in Queued
  BY DEF EntryInv, NoGhostWaiter, GateTypeOK, Waiter
<1>5. v.thread # t
  BY <1>3 DEF EntryInv, EntriesMatch
<1>6. QED
  BY <1>4, <1>5

\* Under the first runtime no one sleeps beside a free permit with no one left to
\* wake him: interest is registered before the queue and the semaphore are looked
\* at (acquire), and whoever leaves the queue or gives the permit back notifies
\* after that (remove_waiter, Drop).
THEOREM NoWakeIsLostAtFirst == GateSpec => []WakeNotLostAtFirst
<1>1. GateInit => WakeComes
  BY DEF GateInit, WakeComes
<1>2. EntryInv /\ WakeComes /\ [GateNext]_gateVars => WakeComes'
  <2> SUFFICES ASSUME EntryInv, WakeComes, [GateNext]_gateVars
               PROVE  WakeComes'
    OBVIOUS
  <2> USE DEF EntryInv, GateTypeOK, PC, HasPermit, Queued, Notifying, Registered, WakeComes
  <2>1. ASSUME NEW t \in Thread, NEW kind \in ProbeKind, NEW g \in 1 .. latest,
               Acquire(t, kind, g)
        PROVE  WakeComes'
    BY <2>1 DEF Acquire, NoCall
  <2>2. ASSUME NEW t \in Thread, InCall(t)
        PROVE  WakeComes'
    <3>1. CASE Look(t)
      BY <3>1 DEF Look, OfGeneration, Return
    <3>2. CASE Grab(t)
      BY <3>2 DEF Grab, Return
    <3>3. CASE Recheck(t)
      <4>1. generation = 1 => call[t].generation = generation
        BY <3>3 DEF Recheck, CallsNameRuntimes
      <4>2. QED
        BY <3>3, <4>1 DEF Recheck, Return
    <3>4. CASE TakeTicket(t)
      BY <3>4 DEF TakeTicket, Go
    <3>5. CASE Push(t)
      BY <3>5 DEF Push, Go
    <3>6. CASE Register(t)
      BY <3>6 DEF Register, Go
    <3>7. CASE StillFresh(t)
      BY <3>7 DEF StillFresh, Go
    <3>8. CASE Admit(t)
      BY <3>8, NotBest DEF Admit, Go
    <3>9. CASE Take(t)
      BY <3>9 DEF Take, Go
    <3>10. CASE Due(t)
      BY <3>10 DEF Due, Go
    <3>11. CASE Wake(t)
      BY <3>11 DEF Wake, Go
    <3>12. CASE TimeOut(t)
      BY <3>12 DEF TimeOut, Go
    <3>13. CASE Remove(t)
      BY <3>13 DEF Remove, Go
    <3>14. CASE Announce(t)
      BY <3>14 DEF Announce, Go, NotifyWaiters
    <3>15. CASE Dismiss(t)
      BY <3>15 DEF Dismiss, Return, NotifyWaiters
    <3>16. CASE Release(t)
      BY <3>16 DEF Release, Go
    <3>17. CASE NotifyReleased(t)
      BY <3>17 DEF NotifyReleased, Return, NotifyWaiters
    <3>18. QED
      BY <2>2, <3>1, <3>2, <3>3, <3>4, <3>5, <3>6, <3>7, <3>8, <3>9, <3>10,
         <3>11, <3>12, <3>13, <3>14, <3>15, <3>16, <3>17 DEF InCall
  <2>3. ASSUME NEW t \in Thread, DeadlinePasses(t)
        PROVE  WakeComes'
    BY <2>3 DEF DeadlinePasses
  <2>4. CASE ResetGeneration
    BY <2>4 DEF ResetGeneration, NotifyWaiters
  <2>5. CASE Invalidate
    BY <2>5 DEF Invalidate, NotifyWaiters
  <2>6. CASE UNCHANGED gateVars
    BY <2>6 DEF gateVars
  <2>7. QED
    BY <2>1, <2>2, <2>3, <2>4, <2>5, <2>6 DEF GateNext, AcquireStale
<1>3. WakeComes => WakeNotLostAtFirst
  BY DEF WakeComes, WakeNotLostAtFirst, WakeNotLost, Overlooked, Queued, Notifying
<1>4. QED
  BY <1>1, <1>2, <1>3, EntryInvHolds, PTL DEF GateSpec
=============================================================================
