----------------------------- MODULE ProbeGate ------------------------------
(***************************************************************************)
(* DataplaneProbeCoordinator (src-tauri/src/runtime_ops.rs): the gate with *)
(* one permit that every probe of the dataplane passes.  A probe names the *)
(* runtime generation it means to measure.  Only a source verification     *)
(* waits for the permit, for a bounded time; the others are told `Busy`.   *)
(*                                                                         *)
(* The methods take no common lock.  A step below is one atomic access:    *)
(* the generation, the queue under its mutex, the semaphore, or one        *)
(* notify_waiters, so that what happens between them can be seen.          *)
(*                                                                         *)
(* Time is abstracted to whether the deadline of a call has passed.        *)
(*                                                                         *)
(* An operator commented as a mistake is no part of the specification: it  *)
(* is what the definition after it must not be, and a property fails on it.*)
(***************************************************************************)
EXTENDS Naturals, FiniteSets

CONSTANTS
    Thread,         \* tasks that run probes
    Waits,          \* the kinds whose callers pass a wait_for
    MaxGeneration,  \* bound: runtimes started in one behaviour
    MaxTicket       \* bound: waiting calls in one behaviour

ProbeKind == {"SourceVerification", "QualityProbe", "Diagnostics"}

ASSUME ProbeGateAssumption ==
    /\ Waits \subseteq ProbeKind
    /\ MaxGeneration \in Nat
    /\ MaxTicket \in Nat

ProbePriority(kind) ==
    CASE kind = "SourceVerification" -> 3
      [] kind = "Diagnostics"        -> 2
      [] kind = "QualityProbe"       -> 1

VARIABLES
    generation,  \* the generation probes may measure, 0 when there is none
    latest,      \* the last generation a runtime was given
    free,        \* the semaphore has its permit
    waiters,     \* the queue
    nextWaiter,  \* the last ticket given
    pc,          \* where each thread is in its call
    call,        \* what it called with, and its ticket
    woken,       \* threads whose `notified` future has fired
    late         \* threads whose deadline has passed

gateVars == <<generation, latest, free, waiters, nextWaiter, pc, call, woken, late>>

Call == [kind: ProbeKind, generation: Nat, ticket: Nat]
Waiter == [thread: Thread, kind: ProbeKind, generation: Nat, ticket: Nat]

\* Threads that have the permit, whether or not they were told so yet.
HasPermit == {"leave", "announce", "recheck", "hold"}
\* Threads in the queue: between the push and the removal.
Queued == {"loop", "fresh", "admit", "take", "due", "sleep", "quit", "leave"}
\* Threads whose `notified` future is registered for the next wake-up.
Registered == {"fresh", "admit", "take", "due", "sleep"}
\* Threads whose next step is notify_waiters.
Notifying == {"announce", "dismiss", "released"}

PC == HasPermit \cup Queued \cup Notifying
      \cup {"idle", "look", "grab", "ticket", "push"}

GateTypeOK ==
    /\ latest \in Nat
    /\ generation \in {0, latest}
    /\ free \in BOOLEAN
    /\ waiters \subseteq Waiter
    /\ nextWaiter \in Nat
    /\ pc \in [Thread -> PC]
    /\ call \in [Thread -> Call]
    /\ woken \subseteq Thread
    /\ late \subseteq Thread

NoCall == [kind |-> "QualityProbe", generation |-> 0, ticket |-> 0]

GateInit ==
    /\ generation = 0
    /\ latest = 0
    /\ free = TRUE
    /\ waiters = {}
    /\ nextWaiter = 0
    /\ pc = [t \in Thread |-> "idle"]
    /\ call = [t \in Thread |-> NoCall]
    /\ woken = {}
    /\ late = {}

-----------------------------------------------------------------------------

\* notify_waiters: every registered future fires.
NotifyWaiters == woken' = woken \cup {t \in Thread : pc[t] \in Registered}

\* retain: what a call of generation g leaves in the queue.
OfGeneration(g) == {w \in waiters : w.generation = g}

Go(t, from, to) ==
    /\ pc[t] = from
    /\ pc' = [pc EXCEPT ![t] = to]

\* The call is over: nothing of it is left but the thread.
Return(t) ==
    /\ pc' = [pc EXCEPT ![t] = "idle"]
    /\ call' = [call EXCEPT ![t] = NoCall]
    /\ late' = late \ {t}

\* acquire: the generation is compared first; a stale call is refused.
Acquire(t, kind, g) ==
    /\ pc[t] = "idle"
    /\ g = generation
    /\ kind \in Waits =>
          nextWaiter + Cardinality({u \in Thread : pc[u] = "ticket"}) < MaxTicket
    /\ pc' = [pc EXCEPT ![t] = IF kind \in Waits THEN "ticket" ELSE "look"]
    /\ call' = [call EXCEPT ![t] = IF kind \in Waits
                                   THEN [NoCall EXCEPT !.kind = kind, !.generation = g]
                                   ELSE [NoCall EXCEPT !.generation = g]]
    /\ UNCHANGED <<generation, latest, free, waiters, nextWaiter, woken, late>>

AcquireStale(t, g) ==
    /\ pc[t] = "idle"
    /\ g # generation
    /\ UNCHANGED gateVars

\* A call that does not wait gives way to whoever is queued ...
Look(t) ==
    LET mine == OfGeneration(call[t].generation) IN
    /\ pc[t] = "look"
    /\ waiters' = mine
    /\ IF mine = {}
       THEN pc' = [pc EXCEPT ![t] = "grab"] /\ UNCHANGED <<call, late>>
       ELSE Return(t)
    /\ UNCHANGED <<generation, latest, free, nextWaiter, woken>>

\* ... and takes the permit only if it is free.
Grab(t) ==
    /\ pc[t] = "grab"
    /\ IF free
       THEN free' = FALSE /\ pc' = [pc EXCEPT ![t] = "recheck"] /\ UNCHANGED <<call, late>>
       ELSE Return(t) /\ UNCHANGED free
    /\ UNCHANGED <<generation, latest, waiters, nextWaiter, woken>>

\* The generation is read again with the permit in hand.  If it has moved on
\* the bare semaphore permit is dropped: no one is notified.
Recheck(t) ==
    /\ pc[t] = "recheck"
    /\ IF generation = call[t].generation
       THEN pc' = [pc EXCEPT ![t] = "hold"] /\ UNCHANGED <<free, call, late>>
       ELSE free' = TRUE /\ Return(t)
    /\ UNCHANGED <<generation, latest, waiters, nextWaiter, woken>>

-----------------------------------------------------------------------------
\* A call that waits.

TakeTicket(t) ==
    /\ Go(t, "ticket", "push")
    /\ nextWaiter' = nextWaiter + 1
    /\ call' = [call EXCEPT ![t].ticket = nextWaiter']
    /\ UNCHANGED <<generation, latest, free, waiters, woken, late>>

Push(t) ==
    /\ Go(t, "push", "loop")
    /\ waiters' = waiters \cup
           {[thread |-> t, kind |-> call[t].kind,
             generation |-> call[t].generation, ticket |-> call[t].ticket]}
    /\ UNCHANGED <<generation, latest, free, nextWaiter, call, woken, late>>

\* Interest in the next wake-up is registered before anything is examined.
Register(t) ==
    /\ Go(t, "loop", "fresh")
    /\ UNCHANGED <<generation, latest, free, waiters, nextWaiter, call, woken, late>>

StillFresh(t) ==
    /\ Go(t, "fresh", IF generation = call[t].generation THEN "admit" ELSE "quit")
    /\ UNCHANGED <<generation, latest, free, waiters, nextWaiter, call, woken, late>>

\* The waiter to admit: the most important, then the oldest.
Better(w, v) ==
    \/ ProbePriority(w.kind) > ProbePriority(v.kind)
    \/ ProbePriority(w.kind) = ProbePriority(v.kind) /\ w.ticket < v.ticket
IsBest(t, queue) ==
    \E w \in queue : w.ticket = call[t].ticket /\ \A v \in queue \ {w} : Better(w, v)

Admit(t) ==
    LET mine == OfGeneration(call[t].generation) IN
    /\ Go(t, "admit", IF IsBest(t, mine) /\ free THEN "take" ELSE "due")
    /\ waiters' = mine
    /\ UNCHANGED <<generation, latest, free, nextWaiter, call, woken, late>>

\* Mistake: the answer of available_permits is trusted.
TakeUnchecked(t) ==
    /\ Go(t, "take", "leave")
    /\ free' = FALSE
    /\ UNCHANGED <<generation, latest, waiters, nextWaiter, call, woken, late>>

\* try_acquire: another call may have been faster.
Take(t) ==
    /\ Go(t, "take", IF free THEN "leave" ELSE "due")
    /\ free' = FALSE
    /\ UNCHANGED <<generation, latest, waiters, nextWaiter, call, woken, late>>

\* Mistake: interest is registered by the first poll, when the call goes to sleep.
DueUnregistered(t) ==
    /\ Go(t, "due", IF t \in late THEN "quit" ELSE "sleep")
    /\ woken' = woken \ {t}
    /\ UNCHANGED <<generation, latest, free, waiters, nextWaiter, call, late>>

\* The deadline is looked at before sleeping; a sleeper is woken or is late.
Due(t) ==
    /\ Go(t, "due", IF t \in late THEN "quit" ELSE "sleep")
    /\ UNCHANGED <<generation, latest, free, waiters, nextWaiter, call, woken, late>>

\* Mistake: the wait is measured from the last wake-up, not from the call.
WakeWithNewDeadline(t) ==
    /\ t \in woken
    /\ Go(t, "sleep", "loop")
    /\ woken' = woken \ {t}
    /\ late' = late \ {t}
    /\ UNCHANGED <<generation, latest, free, waiters, nextWaiter, call>>

Wake(t) ==
    /\ t \in woken
    /\ Go(t, "sleep", "loop")
    /\ woken' = woken \ {t}
    /\ UNCHANGED <<generation, latest, free, waiters, nextWaiter, call, late>>

\* Mistake: a call that timed out does not take its entry along.
TimeOutInPlace(t) ==
    /\ t \in late \ woken
    /\ Go(t, "sleep", "dismiss")
    /\ UNCHANGED <<generation, latest, free, waiters, nextWaiter, call, woken, late>>

TimeOut(t) ==
    /\ t \in late \ woken
    /\ Go(t, "sleep", "quit")
    /\ UNCHANGED <<generation, latest, free, waiters, nextWaiter, call, woken, late>>

\* remove_waiter: the entry goes, then the others are notified.
Remove(t) ==
    /\ Go(t, "leave", "announce") \/ Go(t, "quit", "dismiss")
    /\ waiters' = {w \in waiters : w.ticket # call[t].ticket}
    /\ woken' = woken \ {t}
    /\ UNCHANGED <<generation, latest, free, nextWaiter, call, late>>

Announce(t) ==
    /\ Go(t, "announce", "recheck")
    /\ NotifyWaiters
    /\ UNCHANGED <<generation, latest, free, waiters, nextWaiter, call, late>>

Dismiss(t) ==
    /\ pc[t] = "dismiss"
    /\ Return(t)
    /\ NotifyWaiters
    /\ UNCHANGED <<generation, latest, free, waiters, nextWaiter>>

\* Drop of a DataplaneProbePermit: released first, then announced.
Release(t) ==
    /\ Go(t, "hold", "released")
    /\ free' = TRUE
    /\ UNCHANGED <<generation, latest, waiters, nextWaiter, call, woken, late>>

NotifyReleased(t) ==
    /\ pc[t] = "released"
    /\ Return(t)
    /\ NotifyWaiters
    /\ UNCHANGED <<generation, latest, free, waiters, nextWaiter>>

-----------------------------------------------------------------------------
\* The runtime and the clock.  A generation change and the notification that
\* follows it are two steps in the code; a waiter compares generations only
\* after it registered, so seeing them as one loses nothing.

ResetGeneration ==
    /\ latest < MaxGeneration
    /\ latest' = latest + 1
    /\ generation' = latest + 1
    /\ NotifyWaiters
    /\ UNCHANGED <<free, waiters, nextWaiter, pc, call, late>>

Invalidate ==
    /\ generation # 0
    /\ generation' = 0
    /\ NotifyWaiters
    /\ UNCHANGED <<latest, free, waiters, nextWaiter, pc, call, late>>

\* A deadline that passed earlier is noticed here first.
DeadlinePasses(t) ==
    /\ pc[t] \in {"due", "sleep"}
    /\ late' = late \cup {t}
    /\ UNCHANGED <<generation, latest, free, waiters, nextWaiter, pc, call, woken>>

-----------------------------------------------------------------------------

InCall(t) ==
    \/ Look(t) \/ Grab(t) \/ Recheck(t)
    \/ TakeTicket(t) \/ Push(t) \/ Register(t) \/ StillFresh(t) \/ Admit(t)
    \/ Take(t) \/ Due(t) \/ Wake(t) \/ TimeOut(t) \/ Remove(t) \/ Announce(t)
    \/ Dismiss(t) \/ Release(t) \/ NotifyReleased(t)

GateNext ==
    \/ \E t \in Thread :
          \/ \E kind \in ProbeKind, g \in 1 .. latest : Acquire(t, kind, g)
          \/ \E g \in 1 .. latest : AcquireStale(t, g)
          \/ InCall(t)
          \/ DeadlinePasses(t)
    \/ ResetGeneration
    \/ Invalidate

\* tokio polls every task that is ready, probes have timeouts of their own, and
\* the clock does not stop: a deadline is absolute, so a waiter that keeps being
\* woken still gets to see it pass (hence strong fairness).
Fairness ==
    \A t \in Thread : WF_gateVars(InCall(t)) /\ SF_gateVars(DeadlinePasses(t))

GateSpec == GateInit /\ [][GateNext]_gateVars /\ Fairness

-----------------------------------------------------------------------------

\* One probe at a time, and no permit leaks: the semaphore lacks its permit
\* exactly when one thread has it, on every path in and out of acquire.
PermitAccounted ==
    /\ \A t, u \in Thread : pc[t] \in HasPermit /\ pc[u] \in HasPermit => t = u
    /\ free <=> \A t \in Thread : pc[t] \notin HasPermit

\* No call leaves an entry behind: whoever is in the queue is still inside
\* acquire under that ticket, so a finished probe never blocks the others.
NoGhostWaiter ==
    \A w \in waiters : pc[w.thread] \in Queued /\ call[w.thread].ticket = w.ticket

\* Sleeping at the head of the queue beside a free permit, with no wake-up
\* fired and none about to be sent.
Overlooked(t) ==
    /\ pc[t] = "sleep"
    /\ t \notin woken
    /\ call[t].generation = generation
    /\ free
    /\ \A w \in waiters : w.thread = t
    /\ \A u \in Thread \ {t} : pc[u] = "idle"

\* A released permit wakes the queued waiter at once (the comments at
\* Drop and at `enable`): no one is left to sleep until its deadline.
WakeNotLost == \A t \in Thread : ~Overlooked(t)

\* The same, until a runtime replaces the first one.
WakeNotLostAtFirst == generation = 1 => WakeNotLost

\* The promise of the bounded wait: a call always comes to an end and whoever
\* got the permit gives it back, even if a wake-up is lost.
CallsEnd == \A t \in Thread : pc[t] # "idle" ~> pc[t] = "idle"
=============================================================================
