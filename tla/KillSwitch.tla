----------------------------- MODULE KillSwitch -----------------------------
(***************************************************************************)
(* The WFP kill switch (src-tauri/src/killswitch.rs): a list of leases,    *)
(* each a dynamic session of the Windows Filtering Platform that blocks    *)
(* all traffic but the tunnel's.  The policy of the user and a temporary   *)
(* transition barrier are leases side by side.  Commands run on blocking   *)
(* threads; a mutex guards the list and a second, short-lived cache of the *)
(* health answer is stamped with a version of the list.                    *)
(*                                                                         *)
(* A step is one access to shared memory or one call of the platform, so   *)
(* commands interleave where the code lets them.  What a session permits   *)
(* (LAN, the tunnel interface, the engines) is left out: no step here      *)
(* depends on it.  A closed handle may be given to a later session.  A     *)
(* session whose filters could not be committed is closed at once, and the *)
(* answer of that close is not read (win::arm): it blocks nothing and is   *)
(* not counted as open, even if Windows should keep it.                    *)
(*                                                                         *)
(* An operator commented as a mistake is no part of the specification: it  *)
(* is what the definition after it must not be, and a property fails on it.*)
(***************************************************************************)
EXTENDS Naturals, FiniteSets

CONSTANTS
    Thread,      \* the blocking threads that run commands
    Handle,      \* engine handles the platform can give out
    NoThread,    \* the mutex is free
    NoCache,     \* the health cache is empty or has expired
    MaxVersion   \* bound: changes of the list that commands may start

ASSUME KillSwitchAssumption ==
    /\ NoThread \notin Thread
    /\ MaxVersion \in Nat

VARIABLES
    leases,      \* the handles in the list
    transition,  \* the handles whose lease is marked as a transition
    open,        \* sessions open in the platform
    live,        \* those whose filters the base filtering engine enforces
    lock,        \* who has the mutex of the list
    todo,        \* leases the lock holder has yet to close or examine
    version,     \* the version of the list
    cache,       \* health: the last answer and its version, or NoCache
    pc,          \* where each thread is
    task         \* what it runs, and its local variables

platform == <<open, live>>
vars == <<leases, transition, open, live, lock, todo, version, cache, pc, task>>

Mutation == {"arm_policy", "disarm_policy", "transition_arm", "transition_release"}
Task == [op: Mutation \cup {"is_active", "none"}, version: Nat,
         active: BOOLEAN, dropped: BOOLEAN]
NoTask == [op |-> "none", version |-> 0, active |-> FALSE, dropped |-> FALSE]

\* Between taking the mutex and giving it back.
Critical == {"enter", "close", "drain", "examine"}
PC == Critical \cup {"idle", "lock", "cached", "lockProbe", "bump", "check", "store"}

TypeOK ==
    /\ leases \subseteq Handle
    /\ transition \subseteq Handle
    /\ open \subseteq Handle
    /\ live \subseteq open
    /\ lock \in Thread \cup {NoThread}
    /\ todo \subseteq Handle
    /\ version \in Nat
    /\ cache \in [active: BOOLEAN, version: Nat] \cup {NoCache}
    /\ pc \in [Thread -> PC]
    /\ task \in [Thread -> Task]

Init ==
    /\ leases = {}
    /\ transition = {}
    /\ open = {}
    /\ live = {}
    /\ lock = NoThread
    /\ todo = {}
    /\ version = 0
    /\ cache = NoCache
    /\ pc = [t \in Thread |-> "idle"]
    /\ task = [t \in Thread |-> NoTask]

-----------------------------------------------------------------------------

Go(t, from, to) ==
    /\ pc[t] = from
    /\ pc' = [pc EXCEPT ![t] = to]

\* bump_version: whatever was cached no longer describes the list.  A reader
\* between the two writes compares versions, so they are one step.
BumpVersion ==
    /\ version' = version + 1
    /\ cache' = NoCache

\* Every command that changes the list bumps the version, then takes the mutex.
Begin(t, op) ==
    /\ version < MaxVersion
    /\ Go(t, "idle", "lock")
    /\ BumpVersion
    /\ task' = [task EXCEPT ![t] = [NoTask EXCEPT !.op = op]]
    /\ UNCHANGED <<leases, transition, open, live, lock, todo>>

Lock(t) ==
    /\ lock = NoThread
    /\ Go(t, "lock", "enter") \/ Go(t, "lockProbe", "drain")
    /\ lock' = t
    /\ UNCHANGED <<leases, transition, open, live, todo, version, cache, task>>

\* The command returns and its guard is dropped.
Return(t) ==
    /\ lock' = NoThread
    /\ pc' = [pc EXCEPT ![t] = "idle"]
    /\ task' = [task EXCEPT ![t] = NoTask]

\* win::arm: a complete session, built in one transaction.
Opened(h) ==
    /\ h \notin open
    /\ open' = open \cup {h}
    /\ live' = live \cup {h}

Running(t, op) == pc[t] = "enter" /\ task[t].op = op

\* arm_policy: the new session stands before the old ones go, and only the
\* policy of the user is replaced, never a transition barrier.
ArmPolicy(t) ==
    /\ Running(t, "arm_policy")
    /\ \E h \in Handle :
          /\ Opened(h)
          /\ leases' = (leases \cap transition) \cup {h}
          /\ transition' = transition \ {h}
    /\ todo' = leases \ transition
    /\ pc' = [pc EXCEPT ![t] = "close"]
    /\ UNCHANGED <<lock, version, cache, task>>

\* Mistake: a failed rearm takes the old policy down.
ArmFailsOpen(t) ==
    /\ pc[t] = "enter"
    /\ task[t].op \in {"arm_policy", "transition_arm"}
    /\ todo' = leases
    /\ leases' = {}
    /\ pc' = [pc EXCEPT ![t] = "close"]
    /\ UNCHANGED <<transition, open, live, lock, version, cache, task>>

\* The arguments are refused, no engine was found or the platform said no:
\* whatever was armed stays armed.
ArmFails(t) ==
    /\ pc[t] = "enter"
    /\ task[t].op \in {"arm_policy", "transition_arm"}
    /\ Return(t)
    /\ UNCHANGED <<leases, transition, open, live, todo, version, cache>>

\* transition_arm: a barrier beside whatever policy there is, unless one stands.
TransitionArm(t) ==
    /\ Running(t, "transition_arm")
    /\ IF leases \cap transition # {}
       THEN UNCHANGED <<leases, transition, open, live>>
       ELSE \E h \in Handle :
               /\ Opened(h)
               /\ leases' = leases \cup {h}
               /\ transition' = transition \cup {h}
    /\ Return(t)
    /\ UNCHANGED <<todo, version, cache>>

\* disarm_policy: everything goes, the barrier too.
DisarmPolicy(t) ==
    /\ Running(t, "disarm_policy")
    /\ todo' = leases
    /\ leases' = {}
    /\ pc' = [pc EXCEPT ![t] = "close"]
    /\ UNCHANGED <<transition, open, live, lock, version, cache, task>>

\* transition_release: a barrier leaves the list only when its session is closed.
TransitionRelease(t) ==
    /\ Running(t, "transition_release")
    /\ todo' = leases \cap transition
    /\ pc' = [pc EXCEPT ![t] = "close"]
    /\ UNCHANGED <<leases, transition, open, live, lock, version, cache, task>>

\* Mistake: a session that could not be closed is forgotten.
CloseForgets(h) ==
    \/ open' = open \ {h} /\ live' = live \ {h} /\ leases' = leases \ {h}
    \/ leases' = leases \ {h} /\ UNCHANGED platform

\* win::disarm: closing may fail, and then the handle is kept for a retry.
Close(h) ==
    \/ open' = open \ {h} /\ live' = live \ {h} /\ leases' = leases \ {h}
    \/ leases' = leases \cup {h} /\ UNCHANGED platform

\* The closing loop of a command, one session at a time.
CloseOne(t) ==
    /\ pc[t] = "close"
    /\ \E h \in todo : Close(h) /\ todo' = todo \ {h}
    /\ UNCHANGED <<transition, lock, version, cache, pc, task>>

CloseDone(t) ==
    /\ pc[t] = "close"
    /\ todo = {}
    /\ Return(t)
    /\ UNCHANGED <<leases, transition, open, live, todo, version, cache>>

-----------------------------------------------------------------------------
\* is_active: the version, the cache under that version, else a probe of every
\* session, whose answer is stored unless the version has moved on meanwhile.

ReadVersion(t) ==
    /\ Go(t, "idle", "cached")
    /\ task' = [task EXCEPT ![t] = [NoTask EXCEPT !.op = "is_active", !.version = version]]
    /\ UNCHANGED <<leases, transition, open, live, lock, todo, version, cache>>

ReadCache(t) ==
    LET usable == cache # NoCache /\ cache.version = task[t].version IN
    /\ Go(t, "cached", IF usable THEN "idle" ELSE "lockProbe")
    /\ task' = IF usable THEN [task EXCEPT ![t] = NoTask] ELSE task
    /\ UNCHANGED <<leases, transition, open, live, lock, todo, version, cache>>

Drain(t) ==
    /\ Go(t, "drain", "examine")
    /\ todo' = leases
    /\ leases' = {}
    /\ UNCHANGED <<transition, open, live, lock, version, cache, task>>

\* session_alive: a live session goes back to the list, a dead one is closed
\* and goes back only if that fails.
Examine(t) ==
    /\ pc[t] = "examine"
    /\ \E h \in todo :
          /\ todo' = todo \ {h}
          /\ IF h \in live
             THEN leases' = leases \cup {h} /\ UNCHANGED platform
             ELSE Close(h)
          /\ task' = [task EXCEPT ![t].active = @ \/ h \in live,
                                  ![t].dropped = @ \/ h \notin leases']
    /\ UNCHANGED <<transition, lock, version, cache, pc>>

Examined(t) ==
    /\ todo = {}
    /\ Go(t, "examine", IF task[t].dropped THEN "bump" ELSE "check")
    /\ lock' = NoThread
    /\ UNCHANGED <<leases, transition, open, live, todo, version, cache, task>>

\* A dead session that was dropped is a change of the list like any other.
BumpAfterDrop(t) ==
    /\ Go(t, "bump", "check")
    /\ BumpVersion
    /\ UNCHANGED <<leases, transition, open, live, lock, todo, task>>

\* store_health: the version is compared, then the cache is written.
CheckVersion(t) ==
    LET same == version = task[t].version IN
    /\ Go(t, "check", IF same THEN "store" ELSE "idle")
    /\ task' = IF same THEN task ELSE [task EXCEPT ![t] = NoTask]
    /\ UNCHANGED <<leases, transition, open, live, lock, todo, version, cache>>

StoreHealth(t) ==
    /\ Go(t, "store", "idle")
    /\ cache' = [active |-> task[t].active, version |-> task[t].version]
    /\ task' = [task EXCEPT ![t] = NoTask]
    /\ UNCHANGED <<leases, transition, open, live, lock, todo, version>>

-----------------------------------------------------------------------------
\* The platform and the clock.

\* The base filtering engine restarts: handles stay, filters are gone.
BfeRestarts ==
    /\ live # {}
    /\ live' = {}
    /\ UNCHANGED <<leases, transition, open, lock, todo, version, cache, pc, task>>

CacheExpires ==
    /\ cache # NoCache
    /\ cache' = NoCache
    /\ UNCHANGED <<leases, transition, open, live, lock, todo, version, pc, task>>

Next ==
    \/ \E t \in Thread :
          \/ \E op \in Mutation : Begin(t, op)
          \/ Lock(t) \/ ArmPolicy(t) \/ ArmFails(t) \/ TransitionArm(t)
          \/ DisarmPolicy(t) \/ TransitionRelease(t) \/ CloseOne(t) \/ CloseDone(t)
          \/ ReadVersion(t) \/ ReadCache(t) \/ Drain(t) \/ Examine(t) \/ Examined(t)
          \/ BumpAfterDrop(t) \/ CheckVersion(t) \/ StoreHealth(t)
    \/ BfeRestarts
    \/ CacheExpires

Spec == Init /\ [][Next]_vars

-----------------------------------------------------------------------------

\* No session is ever lost and none is closed twice: what is open in Windows
\* is exactly what the list holds or the running command still has in hand, so
\* a later disarm can always lift every block.
NoLostHandle == open = leases \cup todo

\* A barrier is held at most once, whichever commands overlap.
OneBarrier == Cardinality((leases \cup todo) \cap transition) <= 1

\* The command inside the mutex is one of these.
Runs(ops) == lock # NoThread /\ task[lock].op \in ops

\* arm_policy, alone or beside any other command, never lifts a transition
\* barrier: closing a marked session is left to a release, a disarm or a probe
\* that found it dead.
BarrierSurvivesArm ==
    [][ (open \ open') \cap transition # {} => ~Runs({"arm_policy"}) ]_vars

\* Rearming opens no window: as long as Windows keeps its filters, neither a
\* rearm that succeeds nor one that fails takes the last live session away.
NoFailOpenWindow ==
    [][ live # {} /\ live' = {} /\ open' # open
        => ~Runs({"arm_policy", "transition_arm"}) ]_vars

\* "Only transition_release may lift the barrier" (the comment in arm_policy).
OnlyReleaseLiftsBarrier ==
    [][ (live \ open') \cap transition # {} => Runs({"transition_release"}) ]_vars

\* "Rearm, then ask at once" sees a fresh answer (the comment at
\* KillSwitchState): when no command is changing the list, a usable cached
\* answer agrees with it.
Settled == \A t \in Thread : task[t].op \notin Mutation
HealthIsFresh ==
    Settled /\ cache # NoCache /\ lock = NoThread
    /\ cache.version = version
    => /\ cache.active => leases # {}
       /\ leases \cap live # {} => cache.active
=============================================================================
