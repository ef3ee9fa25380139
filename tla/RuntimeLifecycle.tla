-------------------------- MODULE RuntimeLifecycle --------------------------
(***************************************************************************)
(* The native life of the VPN runtime (src-tauri/src/vpn.rs): start_singbox*)
(* brings up the bridges and then the core, with waits of seconds between  *)
(* the steps; stop_singbox takes them down and waits for proof that they   *)
(* are gone; both may run at once, and a monitor per engine reports its    *)
(* death.  A step is one critical section or one access to shared state    *)
(* between two awaits or two locks; the rest of the program moves between. *)
(*                                                                         *)
(* Abstractions.  The operation coordinator is its abstract promise: one   *)
(* owner, who may lose the right at any moment (OneOwner).  start_epoch    *)
(* only ever answers one question, "is this start still the current one",  *)
(* and is represented by the call for which the answer is yes.  An engine  *)
(* is the generation and the kind it was spawned as; the sidecar clients   *)
(* are one engine.  Whether the ports are free is the answer of the system *)
(* (a stranger may hold one).  Kill may fail to end a process; a process   *)
(* may die at any time.  Waiting loops are the step at which they end.     *)
(* Windows tells when an engine was created: one it does not tell of would *)
(* be left out of a debt (unresolved_processes), as nothing could tell it  *)
(* from a later process with its number.                                   *)
(*                                                                         *)
(* An operator commented as a mistake is no part of the specification: it  *)
(* is what the definition after it must not be, and a property fails on it.*)
(***************************************************************************)
EXTENDS Naturals, FiniteSets

CONSTANTS
    Flow,           \* the callers of start and stop
    NoFlow,
    Bridge,         \* the bridge engines that configurations may ask for
    MaxGeneration   \* bound: starts that pass the gate

ASSUME RuntimeLifecycleAssumption ==
    /\ NoFlow \notin Flow
    /\ Bridge \subseteq {"xray", "sidecars"}
    /\ MaxGeneration \in Nat

Slot == Bridge \cup {"core"}
Proc == [generation: 1 .. MaxGeneration, slot: Slot]

\* A cleanup that is owed may name nothing: a stop that failed only to restore
\* the system proxy leaves Some of two empty lists.
Debt == [owed: BOOLEAN, procs: SUBSET Proc, ports: BOOLEAN]
NoDebt == [owed |-> FALSE, procs |-> {}, ports |-> FALSE]

VARIABLES
    owner,         \* the flow whose operation token is authorised
    epoch,         \* start_epoch: the flow whose start under way it matches
    generation,    \* process_generation
    expectedExit,  \* expected_exit_generation
    starting,      \* the sentinel of a start in progress
    stopping,      \* a stop is past its gate
    stopLock,      \* stop_lock
    child,         \* the engine in each of child, xray_child and sidecars, if any
    runtime,       \* the generation of the published RuntimeRecord, 0 when None
    ports,         \* runtime_ports is not empty
    pending,       \* pending_cleanup; NoDebt when None
    died,          \* the generation each death flag speaks of, 0 when None
    alive,         \* the engines that run
    killed,        \* those of them a kill was issued for
    monitor,       \* what the monitor of each engine is doing
    pc,            \* where each call is
    call           \* the local variables of each call

authority == <<owner, epoch>>
shared == <<generation, expectedExit, starting, stopping, stopLock,
            child, runtime, ports, pending, died>>
engines == <<alive, killed, monitor>>
vars == <<owner, epoch, generation, expectedExit, starting, stopping, stopLock,
          child, runtime, ports, pending, died, alive, killed, monitor, pc, call>>

\* A local: the engines still to spawn or to take, the one being spawned, the
\* processes and ports whose end this call must confirm, the verdict, and whose
\* the ports are if an abort cannot see them released.
Local == [todo: SUBSET Slot, now: Slot, procs: SUBSET Proc, ports: BOOLEAN,
          confirmed: BOOLEAN, debt: {"Ours", "Unproven"}]
NoLocal == [todo |-> {}, now |-> "core", procs |-> {}, ports |-> FALSE,
            confirmed |-> FALSE, debt |-> "Ours"]

\* A start between the gate and its end, and in it the cleanup of an abort.
AbortPC == {"abort", "abortTake", "abortForget", "abortWait", "abortRecord"}
StartingPC == {"prepare", "spawn", "spawned", "settle", "ensure", "ready",
               "owned", "publish", "published"} \cup AbortPC
StoppingPC == {"stopTargets", "stopTake", "stopWait", "stopRecord"}
PC == {"idle", "startEntry", "startGate", "stopIntent", "stopBarrier", "stopCurrent",
       "stopQueue", "stopGate"} \cup StartingPC \cup StoppingPC

TypeOK ==
    /\ owner \in Flow \cup {NoFlow}
    /\ epoch \in Flow \cup {NoFlow}
    /\ generation \in 0 .. MaxGeneration
    /\ expectedExit \in 0 .. generation
    /\ starting \in BOOLEAN
    /\ stopping \in BOOLEAN
    /\ stopLock \in Flow \cup {NoFlow}
    /\ child \in [Slot -> 0 .. generation]
    /\ runtime \in 0 .. generation
    /\ ports \in BOOLEAN
    /\ pending \in Debt
    /\ died \in [Slot -> 0 .. generation]
    /\ alive \subseteq Proc
    /\ killed \subseteq alive
    /\ monitor \in [Proc -> {"none", "watching", "reporting", "done"}]
    /\ pc \in [Flow -> PC]
    /\ call \in [Flow -> Local]

Init ==
    /\ owner = NoFlow
    /\ epoch = NoFlow
    /\ generation = 0
    /\ expectedExit = 0
    /\ starting = FALSE
    /\ stopping = FALSE
    /\ stopLock = NoFlow
    /\ child = [s \in Slot |-> 0]
    /\ runtime = 0
    /\ ports = FALSE
    /\ pending = NoDebt
    /\ died = [s \in Slot |-> 0]
    /\ alive = {}
    /\ killed = {}
    /\ monitor = [p \in Proc |-> "none"]
    /\ pc = [f \in Flow |-> "idle"]
    /\ call = [f \in Flow |-> NoLocal]

-----------------------------------------------------------------------------

Engine(g, s) == [generation |-> g, slot |-> s]
NoDeaths == [s \in Slot |-> 0]

Go(f, from, to) ==
    /\ pc[f] = from
    /\ pc' = [pc EXCEPT ![f] = to]

\* The call returns; an implicit token is completed, a caller's token is
\* completed by the caller.
Return(f) ==
    /\ pc' = [pc EXCEPT ![f] = "idle"]
    /\ call' = [call EXCEPT ![f] = NoLocal]
    /\ owner' = IF owner = f THEN NoFlow ELSE owner
    /\ epoch' = IF epoch = f THEN NoFlow ELSE epoch

\* lifecycle_operation and the commands of the frontend: a flow takes the
\* runtime over and calls.
BeginStart(f) ==
    /\ Go(f, "idle", "startEntry")
    /\ owner' = f
    /\ UNCHANGED <<epoch, shared, engines, call>>

\* stop_singbox announces its intent first; stop_owned_runtime does not.
BeginStop(f) ==
    /\ Go(f, "idle", "stopIntent") \/ Go(f, "idle", "stopCurrent")
    /\ owner' = f
    /\ UNCHANGED <<epoch, shared, engines, call>>

\* The operation is cancelled, completed or superseded from elsewhere.  Once a
\* call does not ask again whether it is the owner, losing it changes nothing.
LoseOwnership ==
    /\ owner # NoFlow
    /\ pc[owner] \notin AbortPC \cup StoppingPC \cup {"stopQueue", "stopGate",
                                                 "publish", "published"}
    /\ owner' = NoFlow
    /\ UNCHANGED <<epoch, shared, engines, pc, call>>

-----------------------------------------------------------------------------
\* start_singbox_inner.

StartEntry(f) ==
    /\ pc[f] = "startEntry"
    /\ IF owner = f
       THEN pc' = [pc EXCEPT ![f] = "startGate"] /\ UNCHANGED <<authority, call>>
       ELSE Return(f)
    /\ UNCHANGED <<shared, engines>>

\* The sidecars are not asked for.
Occupied == \E s \in Slot \ {"sidecars"} : child[s] # 0

\* Mistake: the sentinel is set by each start without looking at it.
RefusedUnlessStarting ==
    stopping \/ pending.owed \/ Occupied \/ generation = MaxGeneration

\* Mistake: a start does not look for the engines of another.
RefusedUnlessOccupied ==
    stopping \/ starting \/ pending.owed \/ generation = MaxGeneration

\* What the gate refuses; the last disjunct is the bound.
Refused ==
    stopping \/ starting \/ pending.owed \/ Occupied \/ generation = MaxGeneration

StartRefused(f) ==
    /\ pc[f] = "startGate"
    /\ Refused
    /\ Return(f)
    /\ UNCHANGED <<shared, engines>>

\* Under lifecycle_gate.  The generation changes before the death flags are
\* cleared.
StartGate(f) ==
    /\ ~Refused
    /\ Go(f, "startGate", "prepare")
    /\ starting' = TRUE
    /\ epoch' = f
    /\ generation' = generation + 1
    /\ expectedExit' = 0
    /\ died' = NoDeaths
    /\ UNCHANGED <<owner, stopping, stopLock, child, runtime, ports, pending,
                   engines, call>>

\* The configuration is hardened and read; if that fails nothing was started.
\* Otherwise the ports are published and the engines to spawn are known.
Prepare(f) ==
    /\ \E bridges \in SUBSET Bridge :
          /\ Go(f, "prepare", "spawn")
          /\ call' = [call EXCEPT ![f].todo = bridges \cup {"core"}]
    /\ ports' = TRUE
    /\ UNCHANGED <<authority, generation, expectedExit, starting, stopping, stopLock,
                   child, runtime, pending, died, engines>>

PrepareFails(f) ==
    /\ pc[f] = "prepare"
    /\ Return(f)
    /\ starting' = FALSE
    /\ UNCHANGED <<generation, expectedExit, stopping, stopLock,
                   child, runtime, ports, pending, died, engines>>

\* xray, then the sidecars, then the core.
FirstOf(slots) ==
    IF "xray" \in slots THEN "xray"
    ELSE IF "sidecars" \in slots THEN "sidecars" ELSE "core"

\* The process exists before its handle is in the state.
Spawn(f) ==
    LET s == FirstOf(call[f].todo) IN
    /\ Go(f, "spawn", "spawned")
    /\ alive' = alive \cup {Engine(generation, s)}
    /\ call' = [call EXCEPT ![f].now = s, ![f].todo = @ \ {s}]
    /\ UNCHANGED <<authority, shared, killed, monitor>>

Abort(f, debt) ==
    /\ pc' = [pc EXCEPT ![f] = "abort"]
    /\ call' = [call EXCEPT ![f] = [NoLocal EXCEPT !.debt = debt]]

\* Mistake: the error leaves the start at once, with what it has spawned.
SpawnFailsAtOnce(f) ==
    /\ pc[f] = "spawn"
    /\ Return(f)
    /\ starting' = FALSE
    /\ UNCHANGED <<generation, expectedExit, stopping, stopLock,
                   child, runtime, ports, pending, died, engines>>

SpawnFails(f) ==
    /\ pc[f] = "spawn"
    /\ Abort(f, "Unproven")
    /\ UNCHANGED <<authority, shared, engines>>

\* The handle is stored and the monitor starts.
Spawned(f) ==
    LET s == call[f].now IN
    /\ Go(f, "spawned", "settle")
    /\ child' = [child EXCEPT ![s] = generation]
    /\ monitor' = [monitor EXCEPT ![Engine(generation, s)] = "watching"]
    /\ UNCHANGED <<authority, generation, expectedExit, starting, stopping, stopLock,
                   runtime, ports, pending, died, alive, killed, call>>

\* wait_start_delay and the fail-fast that follows: a cancelled start aborts;
\* one whose engine died meanwhile takes the reason along and aborts too.
Settle(f) ==
    LET s == call[f].now
        watched == IF s = "core" THEN Slot ELSE {s}
    IN
    /\ pc[f] = "settle"
    /\ \/ epoch # f /\ Abort(f, "Ours") /\ UNCHANGED died
       \/ /\ epoch = f
          /\ \E d \in watched : died[d] # 0 /\ died' = [died EXCEPT ![d] = 0]
          /\ Abort(f, "Unproven")
       \/ /\ epoch = f
          /\ \A d \in watched : died[d] = 0
          /\ Go(f, "settle", "ensure")
          /\ UNCHANGED <<died, call>>
    /\ UNCHANGED <<authority, generation, expectedExit, starting, stopping, stopLock,
                   child, runtime, ports, pending, engines>>

\* ensure_start_current and ensure_operation_current.
Ensure(f) ==
    /\ pc[f] = "ensure"
    /\ IF epoch = f /\ owner = f
       THEN /\ pc' = [pc EXCEPT ![f] = IF call[f].todo = {} THEN "ready" ELSE "spawn"]
            /\ UNCHANGED call
       ELSE Abort(f, "Ours")
    /\ UNCHANGED <<authority, shared, engines>>

\* wait_clash_ready and wait_probe_listener_ready: someone answers at the two
\* endpoints, or no one does in time.  The epoch is compared before each try.
Ready(f) ==
    /\ pc[f] = "ready"
    /\ \/ epoch # f /\ Abort(f, "Ours")
       \/ epoch = f /\ Abort(f, "Unproven")
       \/ epoch = f /\ Go(f, "ready", "owned") /\ UNCHANGED call
    /\ UNCHANGED <<authority, shared, engines>>

Owned(f) ==
    /\ pc[f] = "owned"
    /\ IF owner = f
       THEN Go(f, "owned", "publish") /\ UNCHANGED call
       ELSE Abort(f, "Ours")
    /\ UNCHANGED <<authority, shared, engines>>

\* The RuntimeRecord is published.
Publish(f) ==
    /\ Go(f, "publish", "published")
    /\ runtime' = generation
    /\ UNCHANGED <<authority, generation, expectedExit, starting, stopping, stopLock,
                   child, ports, pending, died, engines, call>>

\* The kill switch has been asked for the answer, and the start returns: its
\* sentinel falls.
Finish(f) ==
    /\ pc[f] = "published"
    /\ starting' = FALSE
    /\ Return(f)
    /\ UNCHANGED <<generation, expectedExit, stopping, stopLock,
                   child, runtime, ports, pending, died, engines>>

-----------------------------------------------------------------------------
\* abort_started_runtime_scoped.  A second call of it on the way out finds
\* nothing and does nothing; it is left out.

\* Mistake: a start that has published nothing has nothing to abort.
NothingPublished == runtime = 0

NothingToAbort == child = NoDeaths /\ ~ports /\ runtime = 0

AbortNothing(f) ==
    /\ pc[f] = "abort"
    /\ NothingToAbort
    /\ Return(f)
    /\ starting' = FALSE
    /\ UNCHANGED <<generation, expectedExit, stopping, stopLock,
                   child, runtime, ports, pending, died, engines>>

\* The death of this generation is planned from here on.
AbortBegin(f) ==
    /\ ~NothingToAbort
    /\ Go(f, "abort", "abortTake")
    /\ expectedExit' = generation
    /\ call' = [call EXCEPT ![f].todo = Slot]
    /\ UNCHANGED <<authority, generation, starting, stopping, stopLock,
                   child, runtime, ports, pending, died, engines>>

\* One child is taken out of the state and killed: the core, then xray, then
\* the sidecars; what is taken is remembered.
TakeAndKill(f) ==
    LET s == IF "core" \in call[f].todo THEN "core" ELSE FirstOf(call[f].todo)
        taken == IF child[s] = 0 THEN {} ELSE {Engine(child[s], s)}
    IN
    /\ call[f].todo # {}
    /\ child' = [child EXCEPT ![s] = 0]
    /\ killed' = killed \cup (taken \cap alive)
    /\ call' = [call EXCEPT ![f].procs = @ \cup taken, ![f].todo = @ \ {s}]
    /\ UNCHANGED <<authority, generation, expectedExit, starting, stopping, stopLock,
                   runtime, ports, pending, died, alive, monitor, pc>>

AbortTake(f) == pc[f] = "abortTake" /\ TakeAndKill(f)

\* The ports are taken and the runtime is forgotten.
AbortForget(f) ==
    /\ call[f].todo = {}
    /\ Go(f, "abortTake", "abortWait")
    /\ call' = [call EXCEPT ![f].ports = ports]
    /\ ports' = FALSE
    /\ runtime' = 0
    /\ UNCHANGED <<authority, generation, expectedExit, starting, stopping, stopLock,
                   child, pending, died, engines>>

\* wait_runtime_released ends: confirmed, or two seconds have passed.  Ports
\* that may be a stranger's do not count for an abort.
AbortWait(f) ==
    LET exited == call[f].procs \cap alive = {} IN
    /\ Go(f, "abortWait", "abortRecord")
    /\ \E free \in BOOLEAN :
          call' = [call EXCEPT ![f].confirmed =
                     exited /\ (free \/ ~call[f].ports \/ call[f].debt = "Unproven")]
    /\ UNCHANGED <<authority, shared, engines>>

\* merge_pending_cleanup: None when neither list has an entry.
Merge(old, procs, portsToo) ==
    [owed |-> old.procs \cup procs # {} \/ old.ports \/ portsToo,
     procs |-> old.procs \cup procs,
     ports |-> old.ports \/ portsToo]

\* What was not confirmed is added to the debt; the start is over.
AbortRecord(f) ==
    /\ pc[f] = "abortRecord"
    /\ IF call[f].confirmed
       THEN died' = NoDeaths /\ UNCHANGED pending
       ELSE /\ pending' = Merge(pending, call[f].procs \cap alive,
                                call[f].ports /\ call[f].debt = "Ours")
            /\ UNCHANGED died
    /\ starting' = FALSE
    /\ Return(f)
    /\ UNCHANGED <<generation, expectedExit, stopping, stopLock,
                   child, runtime, ports, engines>>

-----------------------------------------------------------------------------
\* stop_singbox and stop_singbox_inner.

\* The token must be the current one; a stop that needs the transition barrier then
\* has it armed, which takes its time.
StopIntent(f) ==
    /\ owner = f
    /\ Go(f, "stopIntent", "stopBarrier")
    /\ UNCHANGED <<authority, shared, engines, call>>

\* The epoch moves on as soon as the intent is known, whoever is the owner by now.
StopBarrier(f) ==
    /\ epoch' = NoFlow
    /\ Go(f, "stopBarrier", "stopCurrent")
    /\ UNCHANGED <<owner, shared, engines, call>>

\* The token is stale, or the barrier cannot be armed.
StopRefused(f) ==
    /\ \/ pc[f] \in {"stopIntent", "stopBarrier"}
       \/ pc[f] = "stopCurrent" /\ owner # f
    /\ Return(f)
    /\ UNCHANGED <<shared, engines>>

StopCurrent(f) ==
    /\ owner = f
    /\ Go(f, "stopCurrent", "stopQueue")
    /\ UNCHANGED <<authority, shared, engines, call>>

StopQueue(f) ==
    /\ stopLock = NoFlow
    /\ stopLock' = f
    /\ Go(f, "stopQueue", "stopGate")
    /\ UNCHANGED <<authority, generation, expectedExit, starting, stopping,
                   child, runtime, ports, pending, died, engines, call>>

\* Under lifecycle_gate.
StopGate(f) ==
    /\ Go(f, "stopGate", "stopTargets")
    /\ stopping' = TRUE
    /\ epoch' = NoFlow
    /\ UNCHANGED <<owner, generation, expectedExit, starting, stopLock,
                   child, runtime, ports, pending, died, engines, call>>

\* The targets: what is owed from before and the ports; the processes that are
\* owed are terminated again.
StopTargets(f) ==
    /\ Go(f, "stopTargets", "stopTake")
    /\ expectedExit' = generation
    /\ call' = [call EXCEPT ![f] = [NoLocal EXCEPT !.todo = Slot,
                                                   !.procs = pending.procs,
                                                   !.ports = ports \/ pending.ports]]
    /\ UNCHANGED <<authority, generation, starting, stopping, stopLock,
                   child, runtime, ports, pending, died, engines>>

StopTake(f) == pc[f] = "stopTake" /\ TakeAndKill(f)

\* wait_runtime_released; whether the ports came free and the system proxy could
\* be restored is the system's answer.
StopWait(f) ==
    /\ call[f].todo = {}
    /\ Go(f, "stopTake", "stopRecord")
    /\ \E released \in BOOLEAN :
          call' = [call EXCEPT ![f].confirmed =
                     released /\ call[f].procs \cap alive = {}]
    /\ UNCHANGED <<authority, shared, engines>>

\* Mistake: a stop that is not confirmed leaves without releasing the lock.
StopRecordKeepsLock(f) ==
    /\ pc[f] = "stopRecord"
    /\ IF call[f].confirmed
       THEN /\ died' = NoDeaths
            /\ runtime' = 0
            /\ ports' = FALSE
            /\ pending' = NoDebt
            /\ stopLock' = NoFlow
       ELSE /\ pending' = [owed |-> TRUE, procs |-> call[f].procs \cap alive,
                          ports |-> call[f].ports]
            /\ UNCHANGED <<died, runtime, ports, stopLock>>
    /\ stopping' = FALSE
    /\ Return(f)
    /\ UNCHANGED <<generation, expectedExit, starting, child, engines>>

\* A confirmed stop clears everything; another leaves its own targets as the
\* debt.
StopRecord(f) ==
    /\ pc[f] = "stopRecord"
    /\ IF call[f].confirmed
       THEN /\ died' = NoDeaths
            /\ runtime' = 0
            /\ ports' = FALSE
            /\ pending' = NoDebt
       ELSE /\ pending' = [owed |-> TRUE, procs |-> call[f].procs \cap alive,
                          ports |-> call[f].ports]
            /\ UNCHANGED <<died, runtime, ports>>
    /\ stopping' = FALSE
    /\ stopLock' = NoFlow
    /\ Return(f)
    /\ UNCHANGED <<generation, expectedExit, starting, child, engines>>

-----------------------------------------------------------------------------
\* The engines and their monitors.

\* A process ends, of itself or killed.
Exit(p) ==
    /\ p \in alive
    /\ alive' = alive \ {p}
    /\ killed' = killed \ {p}
    /\ UNCHANGED <<authority, shared, monitor, pc, call>>

\* spawn_log_monitor at Terminated: the verdict ...
MonitorDecides(p) ==
    /\ monitor[p] = "watching"
    /\ p \notin alive
    /\ monitor' = [monitor EXCEPT ![p] =
           IF expectedExit # p.generation /\ generation = p.generation
           THEN "reporting" ELSE "done"]
    /\ UNCHANGED <<authority, shared, alive, killed, pc, call>>

\* ... and, after the log has been written and flushed, the death flag.
MonitorReports(p) ==
    /\ monitor[p] = "reporting"
    /\ monitor' = [monitor EXCEPT ![p] = "done"]
    /\ died' = [died EXCEPT ![p.slot] = p.generation]
    /\ UNCHANGED <<authority, generation, expectedExit, starting, stopping, stopLock,
                   child, runtime, ports, pending, alive, killed, pc, call>>

-----------------------------------------------------------------------------

StartStep(f) ==
    \/ StartEntry(f) \/ StartRefused(f) \/ StartGate(f) \/ Prepare(f) \/ PrepareFails(f)
    \/ Spawn(f) \/ SpawnFails(f) \/ Spawned(f) \/ Settle(f) \/ Ensure(f)
    \/ Ready(f) \/ Owned(f) \/ Publish(f) \/ Finish(f)

AbortStep(f) ==
    \/ AbortNothing(f) \/ AbortBegin(f) \/ AbortTake(f) \/ AbortForget(f)
    \/ AbortWait(f) \/ AbortRecord(f)

StopStep(f) ==
    \/ StopIntent(f) \/ StopBarrier(f) \/ StopRefused(f) \/ StopCurrent(f) \/ StopGate(f)
    \/ StopTargets(f) \/ StopTake(f) \/ StopWait(f) \/ StopRecord(f)

Next ==
    \/ \E f \in Flow : BeginStart(f) \/ BeginStop(f) \/ StopQueue(f)
                       \/ StartStep(f) \/ AbortStep(f) \/ StopStep(f)
    \/ \E p \in Proc : Exit(p) \/ MonitorDecides(p) \/ MonitorReports(p)
    \/ LoseOwnership

\* Every wait in a call has a deadline, and stop_lock is a fair queue.
Fairness ==
    \A f \in Flow :
        /\ WF_vars(StartStep(f)) /\ WF_vars(AbortStep(f)) /\ WF_vars(StopStep(f))
        /\ SF_vars(StopQueue(f))

Spec == Init /\ [][Next]_vars /\ Fairness

-----------------------------------------------------------------------------

\* One start at a time is past the gate, from the sentinel to the end of its
\* cleanup, and the sentinel says so; the same of stops and stop_lock.
OneStartOneStop ==
    /\ \A f, g \in Flow : pc[f] \in StartingPC /\ pc[g] \in StartingPC => f = g
    /\ starting <=> \E f \in Flow : pc[f] \in StartingPC
    /\ \A f \in Flow : pc[f] \in StoppingPC \cup {"stopGate"} <=> stopLock = f
    /\ stopping <=> \E f \in Flow : pc[f] \in StoppingPC

\* An engine that runs and that no one has tried to kill is in the state, where
\* the next stop will find it, or in the hands of the start that has just
\* created it: no interleaving of starts, aborts and stops loses one, so two
\* living cores never fight for the same ports.
InState(p) == child[p.slot] = p.generation
JustSpawned(p) ==
    \E f \in Flow : pc[f] = "spawned" /\ p = Engine(generation, call[f].now)
NoEngineLost == \A p \in alive \ killed : InState(p) \/ JustSpawned(p)

\* When no call is running, what is in the state was published: a cancelled or
\* failed start leaves no engine that runs without a RuntimeRecord.
Quiet == \A f \in Flow : pc[f] = "idle"
NoStrayRuntime == Quiet => \A s \in Slot : child[s] # 0 => runtime = child[s]

\* An engine that outlived its kill is remembered: by the call that has yet to
\* confirm its end or in pending_cleanup (the comments at abort_started_runtime
\* and merge_pending_cleanup).
Remembered(p) ==
    \/ p \in pending.procs
    \/ \E f \in Flow : p \in call[f].procs
SurvivorsAreOwed == \A p \in killed : Remembered(p)

\* A late Terminated of an old generation never marks the new core as dead (the
\* comments in spawn_log_monitor and in start_singbox_inner).
NoStaleDeath == \A s \in Slot : died[s] \in {0, generation}

\* A stop prevails over a start it overlaps: every engine alive while a stop is
\* under way is killed or ends, also one that the start spawns only later.
StopPrevails ==
    \A p \in Proc : (stopping /\ p \in alive) ~> (p \in killed \/ p \notin alive)

\* Every call comes to an end, however starts, stops and deaths overlap.
CallsReturn == \A f \in Flow : pc[f] # "idle" ~> pc[f] = "idle"
=============================================================================
