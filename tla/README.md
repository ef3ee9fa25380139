# Ninety, specified

TLA+ specifications of the runtime core of Ninety, a Windows VPN client: a Tauri
application whose JavaScript frontend decides what should run and whose Rust
backend owns the processes (sing-box as the core, xray and sidecar clients as
bridges), the Windows proxy setting and the WFP kill switch. The models follow
the source under `src/`; `PROJECT.json` maps every definition to its lines.

Contents: [inventory](#inventory) · [modules](#modules) · [runs](#runs) ·
[proofs](#proofs) · [findings](#findings) · [limits](#what-is-not-covered) ·
[what could come next](#what-could-come-next)

## Inventory

The native side is written as tokio tasks, blocking threads and locks held for
short sections; the frontend is one thread whose functions interleave at every
`await`. Neither side trusts the other's timing: a command carries a token, and
the token is checked again after every wait.

| Component | State | Operations | What is hard | What must be true |
|---|---|---|---|---|
| Runtime operation coordinator (`runtime_ops.rs`) | id counter, active operation, lease | begin, authorize, cancel, complete | copies of tokens kept across awaits, superseding, a lost WebView | one authority; the user's disconnect prevails; a lost right never returns |
| Dataplane probe gate (`runtime_ops.rs`) | generation, semaphore, queue | acquire, drop of the permit, reset_generation, invalidate | check and take under different locks, wake-ups, timeouts | one probe at a time, no leaked permit or entry, no missed wake-up, every call ends |
| Core runtime lifecycle (`vpn.rs`) | generation, expected exit, sentinels, three children, runtime record, ports, cleanup debt, death flags | start, abort of a start, stop, exit monitors | start and stop overlap at every await; a kill may fail; a spawn precedes its handle | no engine lost, none runs unpublished, a stop prevails, every call returns |
| WFP kill switch (`killswitch.rs`) | list of leases, version, health cache | arm, disarm, transition arm and release, health | platform calls that fail half way, a cache beside a mutex, BFE restarts | no session lost, one barrier, a rearm opens no window |
| Connect and disconnect flow (`main.js`) | state of the screen, intent, attempt, identity, latches | the power button, connectNetwork, disconnectNetwork, shutdownCore | every await may be overtaken by a click, an edit or the watchdog | the screen tells the truth, nothing runs that nobody wants, nothing stays held |
| Reconnect queue, intents, attempts (`reconnect-queue.js` and neighbours) | running and waiting request, epochs, a timer | enqueue, cancel, drain | requests during the end of another; a timer that is forgotten | each request is answered once, the newest waits |
| Source switch (`source-activation.js`, `main.js`) | selected and running source, pending switch, operation | activate with rollback, cancel, delete | late answers, a rollback that is refused, choices on top of choices | confirmed means verified; refuted means left |
| Kill switch controller (`kill-switch.js`) | wish, queue of reconciliations | apply | UAC questions of any length in the middle, failing commands | what was asked for last is what Windows blocks |
| Health watchdog (`health-watchdog.js`) | generation of the watch, counters, restore budget | tick, core death, rearm | snapshots used after awaits; operations lost in between | a lost block is rearmed; nothing is done for a session that is over |
| Profile store and backup (`profile_store.rs`, `backup.rs`, `profile-store.js`, `state-backup.js`) | two files, a backup, keys of localStorage, the store in memory, a chain of writes | load, migrate, change, back up, restore, erase | crashes between two files, writes queued behind failing ones, changes before the store answers | the store is never lost; what is erased or sealed stays so |
| Transition barrier release (`vpn.rs`) | none of its own | reads runtime, operation and health facts, then releases | facts read one by one | the barrier falls only for a verified runtime |
| System proxy (`proxy_win.rs`, `vpn.rs`) | three values of Windows, the saved setting and its mark, the address marked as ours | set, undo, restore, recover at launch, notify other programs | no lock: a stop against an enable, another program's change, a failing write or a crash between two writes | what the user had comes back; nobody is sent to a dead address |
| Quality engine, quarantine (`quality-*.js`, `quality.rs`) | scores, quarantine | record, rank, remediate | mostly data | bounded, expires |
| Dataplane verification, diagnosis; startup policy; atomic files and secrets; subscriptions and updates; configuration builders; DPI bypass; browser, network and Wi-Fi guards; views | – | – | input and output, pure data, short decisions | – |

How they interact. The frontend begins an operation, keeps the token and passes
it to `start_singbox`, `stop_singbox` and the verification commands. A start
checks the token and its own `start_epoch` after each wait; a stop moves the
epoch first, so that a start under way aborts itself at its next look. A
published runtime gives its generation to the probe gate, a stop invalidates it.
A stop with an armed kill switch raises the transition barrier before the core
falls. Each engine has a monitor task that writes its log and reports its death
through a flag that the watchdog of the frontend polls. In the frontend the power
button, the debounced edit, the source switch, quality remediation and the
watchdog all end in `connectNetwork` and `shutdownCore`; all but the button go
through the reconnect queue, and each of them asks the kill switch controller,
which serialises what reaches Windows. The full list of hazards, each at its
line, is in `PROJECT.json`.

## Modules

| Module | What it models |
|---|---|
| `OneOwner` | What the coordinator promises: one owner, every grant new, no right ever returns. |
| `RuntimeOps` | The coordinator with kinds, priorities, lease and the tokens flows keep. Implements `OneOwner`. |
| `ProbeGate` | The probe gate at the grain of single atomic accesses. |
| `KillSwitch` | The kill switch commands and the health probe, step by step. |
| `RuntimeLifecycle` | Start, abort, stop and the exit monitors. |
| `LatestWins` | What the reconnect queue promises to those who wait for it: one answer each. |
| `NetworkFlow` | Connecting, disconnecting and reconnecting in the frontend, over the coordinator and a runtime that starts and stops. Implements `LatestWins`. |
| `SourceSwitch` | The two-phase switch of the source with its rollback, over the coordinator. |
| `Guard` | The queue of kill switch reconciliations, everyone who asks it, and the watchdog. |
| `ProfileStore` | The sealed store, its backups and their copy in localStorage, from the first migration to the erasure. |
| `SystemProxy` | The proxy setting of Windows write by write, with those who set it, take it away and recover it. |
| `MC…` | The instances for TLC: model values and, where it is sound, symmetry. |
| `…Proofs` | The theorems of the module they are named after; those of `ProbeGate` are in `RuntimeOpsProofs`, as both coordinators are one file of the code. |

Operators whose comment begins with *Mistake* (or *A mistake*) are no part of a
specification. Each is what a plausible bug would turn the definition after it
into, and is there so that a property can be seen to fail on it.
### RuntimeOps

Each method of the coordinator is one critical section of one mutex, so each is
one action. `held` is what flows remember, and is the point of the model: a flow
may present, complete or cancel with a token long after it lost the right, may
forget it (`Forget`: the WebView reloads, crashes or loses a task), and may name
a generation it read too early. `expired` is the only question the code asks of
time. The `cancelled` flag is set only where the operation is replaced or
removed in the same section; no one ever reads it set, so it is left out. A
diagnostic snapshot is left out too.

### ProbeGate

`acquire` is cut at every atomic access: the comparison of generations, the
queue under its mutex, the semaphore, the registration with `Notify::enable`,
each `notify_waiters`. The queue can be seen between any two of them. The permit
in the code is returned first and announced second, and so it is here
(`Release`, `NotifyReleased`). A generation change and its notification are one
step: a waiter compares generations only after it registered, so no behaviour is
lost by that. `GateInit`, `GateNext` and `GateSpec` are its `Init`, `Next` and
`Spec`: `RuntimeOpsProofs` proves about this module and `RuntimeOps`, which share
no variable, side by side.

### KillSwitch

The version is bumped *before* the mutex is taken, the list is *drained* while a
probe examines its sessions outside of it, the cache lives under a lock of its
own: each is a step. `Close` may fail for any session at any time and then keeps
the handle; the base filtering engine may restart (`BfeRestarts`), which leaves
handles without filters. A closed handle may be given out again.

### RuntimeLifecycle

A call is a program counter and a record of locals; a step is one critical
section, or one access to shared state between two awaits. The order of the code
is kept everywhere it can be seen: the process exists before its handle is
stored; the generation changes before the death flags are cleared; the abort
plans the death of the generation, takes the children one lock after another
(core, xray, sidecars), forgets ports and runtime, waits, merges its debt and
only then drops the sentinel. The stop looks at its token, may have the transition
barrier armed (`StopBarrier`), moves the epoch whoever is the owner by then, and looks at
the token again; then it queues for `stop_lock`, raises its flag
under `lifecycle_gate`, reads the debt, takes, waits, records.

Four things are represented by what they are asked:

- *the coordinator* is `owner`: one flow has the right and may lose it at any
  moment (`LoseOwnership`). That is the promise `OneOwner` states and that
  `RuntimeOps` is proved to keep;
- *`start_epoch`* is compared by a start with the value it set; `epoch` is the
  flow for which they are equal;
- *the ports* are free or not by the system's answer, as a stranger may hold one;
- *a process* may end at any time, and a kill may fail to end it for ever.

`pending` keeps the difference between no debt and a debt of two empty lists
(`owed`), because the gate of a start tests the former and a stop that failed
only to restore the proxy leaves the latter.

### LatestWins and NetworkFlow

A step of `NetworkFlow` is what one flow does from the answer of one await to
the next. JavaScript is one thread and promise continuations run before any new
event, so `Next` has three ranks: a synchronous segment that is under way, a
continuation that is ready (`Micro`), and only then answers, timers and events.
A flow is a call of the power button (`Click`), the run of the reconnect queue
(`Runner`) or one of the automatic ones: the watchdog after a dead core, after a
dead bridge, a source switch, quality remediation. All walk through the same
functions, so those are operators with the flow as parameter: `Connect` …
`Live` is `connectNetwork`, `Disconnect` is `disconnectNetwork`, `Down` …
`StopCore` is `shutdownCore`, `Enqueue`, `RunBegins`, `RunEnds` are the queue.

| Model | Code |
|---|---|
| `ui`, `desired`, `need`, `latched` | `state`, `networkIntent.desired()`, `needsReconnect`, the latches of the guard |
| `current` | who holds an epoch for which `networkIntent.isCurrent` is true |
| `attempt`, `owner`, `runtime` | the attempt, operation and runtime that are current, by the flow that made them |
| `serving`, `pending` | the request that is run and the one that waits (`reconnect-queue.js`) |
| `timer`, `orphan` | `pendingReconnectTimer`, and a timer that is armed but no longer held by it |
| `barrier`, `doomed` | the tracked start (`connection-start-barrier.js`), and that it is to be cancelled |
| `pc`, `at` | at which await each flow is, with its locals |

The history variable `early` belongs to `IdleMeansStopped`. It is set when an
attempt shows "idle" because WARP is wanted and not registered
(`main.js:3463`), and reset by whatever changes the screen next. Every other "idle" of
these flows comes behind a stop; this one asks for none, and promises nothing
about an attempt that was overtaken: see finding 9.

`LatestWins` is what a caller of the queue relies on: one answer to each
request, the newest one waits. `NetworkFlow` implements it (`QueueKeepsPromise`)
with `served` and `waiting` read off `serving` and `pending`, and `asking` off
the flows at `"request"`.

### SourceSwitch

One call of `activate()` is one value of `Call`: `Chooses`, `Begun`, `Build`,
`Built`, `Snapshot`, `Leader`, `Verified`, `Persisted`, `RollbackBegun` are its
awaits. `selected` and `running` are the source that is selected and the one the
runtime was built for; `pending` is the `pending` of the controller; `owner` is
the operation of the coordinator, whose grants and releases are those of
`RuntimeOps` seen by a switch (`Foreign` is anyone else of higher priority). The
rollback uses a second operation, hence `Phase`. Between the steps come `Cancels`,
`TurnOff`, `Disconnect`, `TurnOn`, `Restart`, `Preempt` and `Delete`.

### Guard

The reconciliation that runs is `run`, those that wait are in `queue` with who
waits for each, as `kill-switch.js` chains them. Every command is a step that
changes Windows (`Armed`, `Disarmed`) and a step in which the answer is read.
`dog`, `conn`, `disc` and `toggle` are the watchdog, an attempt to connect, a
disconnect and the switch in the settings, each with the await it is at.
`FiltersVanish` and `Dies` are what Windows and the core may do. `strict`
chooses which of the two guards is looked at, in the initial state.

Two history variables belong to the properties. `made` says that the strict tunnel
has been connected since the user disconnected last: that is where
`GuardOutlivesRuntime` begins, whatever the screen shows in between. `late` says that
a click crossed a shutdown that was to keep the block, either a disconnect or the
switch in the settings turned off and on again, which takes the latch of the block
and not the block (`main.js:913`); `IdleIsOpen` leaves out that one case
(finding 1). Both are about interleavings of four and five events, which
showed that without them neither property is an invariant for all bounds.

### ProfileStore

`primary` and `bak` are the sealed file and its rotated predecessor, `backup` the
profiles in `state-backup.json`, `legacy` the old keys in localStorage. The
backend runs one command at a time and replaces in two steps (`Rotate`,
`Replace`), between which `Crash` may come; a crash loses everything the frontend
holds and nothing that is on disk. An erasure of the store removes the file, then its
backup, and then answers (`Clear`); it may fail before any of these, and a crash may come
between them. `Launch`, `Ask`, `Loaded`, `Missing`,
`Migrated`, `Check`, `RestoreAnswered`, `Reload` are the bootstrap, `Change`, `Chains`,
`Unchains` and `WriteAnswered` the chain of writes, `Erase`, `EraseStore`,
`StoreErased`, `EraseAgain` and `EraseFails` the erasure. `Rot` makes the primary
file unreadable.

A backup is taken in three steps, because nothing orders the commands that Tauri
spawns: `Save` is the snapshot the frontend sends, `SaveBegins` is where a thread takes it
up and reads `BACKUP_GENERATION`, `Saved` where it writes. A restore is two:
`RestoreAnswered` puts what was restored in place, or its plain-text keys if the backend
refused it, and `Reload` loads the page again. What the chain of the old page had sent is
then an orphan (`cmd["orphan"]`): the backend carries it out and nobody has its answer.
An erasure that was sent is not carried over, as there is none before the store is ready.

Three ghosts belong to the properties: a command of the chain failed since the last one
that did not (`unsaved`); something changed while an erasure was under way, or an orphan
was written after the new page had read the store (`raced`); a save requested before an
erasure is still to be taken up when the erasure is done (`late`).

### SystemProxy

`reg` is the registry: the three values of Windows (`enable`, `server`,
`override`), the saved setting with the value that makes it count (`saved`,
`valid`), and `ActiveProxyServer` (`active`). A call of `set_system_proxy` reads
once (`Begins`) and then has a list of writes to do (`call`); each is a step
(`Writes`), may fail (`Fails`), and says what happens then: the call ends, it is
undone, or the failure is ignored. `Saves`, `Applies`, `Undoes`, `Restores` and
`Recovery` are these lists, in the order of the code. `Validate` … `Unset` are
`enable_system_proxy_for_runtime` await by await, `Succeeds` and `IsRefused` what
`connectNetwork` does with its answer, `Kill` … `Stopped` the stop, `Launch` and
`Exit` the beginning and the end of the program, `Crash` the end without one.

Other programs and the user write any of the three values of Windows, alone or together
(`Changes`): replace the address, edit the exceptions of ours, turn ours off and on again.

Two ghosts belong to the properties. `theirs` is the setting as another
program left it last; what looks like a setting of ours is not taken for theirs. `torn`
holds `"ninety"` once two calls have overlapped or one ended half way, `"other"` once
another program wrote in the middle of a call or wrote what looks like ours, and `"shared"`
once another program left an address of ours in a setting that the code does not take
for ours: it changed the exceptions alone, say, or turned ours on after a stop.
`GivenBack` holds in that last case, too: such a setting is somebody's own and is left as it is. That it
then sends to a place where nobody listens is what `proxy_recovery_action` decides on
purpose (`third_party_enable_or_override_change_is_untouched`, `proxy_win.rs:1177`), so
`NobodyIsSentNowhere` leaves it out. What happens in the other cases is what findings 13
and 14 are about.

## Runs

| Run | Bounds | Shows |
|---|---|---|
| `runtime_ops` | 3 flows, 1 source, 2 generations, 4 operations | `OneAuthority`, `DisconnectPrevails`, and that `RuntimeOps` implements `OneOwner` (`KeepsPromise`) |
| `probe_gate` | 2 threads, 2 generations, 3 tickets, `SourceVerification` waits | `PermitAccounted`, `NoGhostWaiter`, `WakeNotLostAtFirst`, and that every call ends, lost wake-up or not (`CallsEnd`) |
| `kill_switch` | 2 threads, 3 handles, 4 changes | `NoLostHandle`, `NoFailOpenWindow` |
| `lifecycle` | 2 flows, 2 generations, core alone | `OneStartOneStop`, `NoEngineLost`, and that every call returns (`CallsReturn`) |
| `lifecycle_bridge` | 2 flows, 1 generation, xray before the core | `NoStrayRuntime`, when a start has something to clean up, and `StopPrevails` |
| `network_flow` | 2 clicks, all 4 automatic flows, 4 events, guard on | `NoOrphanTimer`, `IdleMeansStopped`, `ConnectedIsIntended`, `NothingLeftOver`, `ChangeIsApplied`, and that the queue implements `LatestWins` (`QueueKeepsPromise`) |
| `source_switch` | 3 calls, 3 sources, 2 events | `PendingIsSelected`, `OwnerIsAlive`, `ReadyIsRunning`, `RefutedIsLeft` |
| `guard` | 3 events, 1 fault, both guards, elevated or not | `QuietMeansApplied`, `IdleIsOpen`, `GuardOutlivesRuntime`, `LostIsRearmed` |
| `profile_store` | 2 items, 2 changes, 3 faults | `StoreIsNeverLost`, `NoPlaintextAgain`, `BackupStaysErased`, `StoreIsSynced` |
| `system_proxy` | 2 attempts, 2 addresses of ours, 1 of others, any setting made of them, 3 events, 1 fault | `GivenBack`, `NobodyIsSentNowhere` |
| `guard_disconnect` | 2 events, no fault | the counterexample of finding 1 |
| `profile_early` | 2 items, 3 changes, 3 faults | the counterexample of finding 2 |

The passing runs of the other modules also check their types; for `ProbeGate`,
`KillSwitch` and `RuntimeLifecycle` only the proof speaks of them.

Why the bounds are enough to be of use. In `RuntimeOps` three flows are the
owner, the one that superseded it and the one that supersedes that; a fourth
operation lets the first flow return. In `ProbeGate` two threads are a holder and
a waiter who change places, two generations are a runtime and its successor; the
tickets bound how many calls may queue. In `KillSwitch` three handles are a
policy, its successor and a barrier; a fourth session could only be opened by
repeating one of the three. In `RuntimeLifecycle` two flows are enough for a
start to meet a stop, a start or a stop, and since a flow calls again after it
returned, the stop of one start also meets the next; two generations are the old
engine and the new one. The bridge run has one generation, because its questions
are what a single start leaves behind and what the stop that overlaps it does. `sidecars` behave as `xray` does except
that the gate does not ask for them; the proofs cover them, as they hold for all
values of the constants. In `NetworkFlow` two clicks are the one that is under
way and the one that overtakes it, and every kind of automatic flow is there; an
event is a click, an edit, a mode change, a death of the core or the begin of an
automatic flow, so four make one connection and three things that cut across it. In
`SourceSwitch` three calls are a choice, the one on top of it and the one on top
of that, each with a source of its own. In `Guard` three events are a connection,
a disconnect and a change of the setting, in any order, and the safety
properties were also checked with four events and one fault, and with three and two;
that they hold beyond is proved.
In `ProfileStore` two items are the one that is kept and the one that is erased
or overwritten, and two changes are one on either side of an erasure, a restore or a
crash; three faults are a crash, a rotten file and a failing command. Three changes were
also checked, with two and with three faults.
In `SystemProxy` an event is a start, a disconnect, the death of a core, an exit
or a write of another program: three are a runtime behind the proxy, what another program
does to it and its end, or two attempts with the disconnect between them; one of
the addresses is that of the old versions. One address of others is enough, as no step
compares two of them but to see that something changed; two were also checked. One fault is a write that fails, a
crash or damage. The inductive invariant behind the two properties (`Kept`, `Debt`)
was also checked with a second one, in the recovery from the first, and two events; that it holds for any
number of attempts, events and faults is proved.

Bounds in guards: `MaxId` (operations), `MaxGeneration` (runtimes, in both
modules), `MaxTicket` (waiting calls), `MaxVersion` (commands that change the
list), `MaxEvents` (what the user and the system bring, in four modules),
`MaxChanges` and `MaxFaults`.

Deadlock is checked everywhere but in `runtime_ops`, which stops when `MaxId`
operations have been begun and every token is gone. `Rest` in the modules of the
frontend is the state in which nothing is under way; every other end would be a
flow that waits for nobody. `SystemProxy` has the same `Rest`.

### Fairness

Safety runs need none, and the proofs use none. `NetworkFlow`, `SourceSwitch`,
`ProfileStore` and `SystemProxy` state none.

`ProbeGate`: tokio polls every ready task, a probe has a timeout of its own, so
the steps of a call are weakly fair. The deadline is strongly fair: it is an
absolute instant, so a waiter that is woken again and again before it still
meets it.

`RuntimeLifecycle`: every wait in a start, an abort or a stop has a deadline or a
fixed length, so each of the three groups of steps is weakly fair. `StopQueue` is
strongly fair, because the tokio mutex is a first-in first-out queue. Nothing is
assumed of engines (`Exit` is not fair), of monitors, or of the flows that call.

`Guard`: the commands of the backend answer, so reconciliations, attempts and
disconnects go on (weakly fair), and the timer of the watchdog fires
(`Watching`). The watchdog needs the runtime operation to act; whoever holds it
lets go of it again and again, and the watchdog asks at every tick, hence strong
fairness of the grant. Nothing is assumed of clicks, faults, or of the outcome of
a command.

## Proofs

`tlapm` checks all of the following for every value of the constants that meets
the named assumptions.

| Theorem | States |
|---|---|
| `RuntimeOpsProofs!TypeCorrect` | `Spec => []TypeOK` |
| `RuntimeOpsProofs!AuthorityIsUnique` | `Spec => []OneAuthority` |
| `RuntimeOpsProofs!DisconnectIsFinal` | `Spec => DisconnectPrevails` |
| `RuntimeOpsProofs!AutomationWaits` | `Spec => AutomationYields` |
| `RuntimeOpsProofs!CoordinatorKeepsPromise` | `Spec => KeepsPromise`: the refinement of `OneOwner` |
| `RuntimeOpsProofs!GateTypeCorrect` | `GateSpec => []GateTypeOK` |
| `RuntimeOpsProofs!PermitIsAccounted` | `GateSpec => []PermitAccounted` |
| `RuntimeOpsProofs!QueueHasNoGhosts` | `GateSpec => []NoGhostWaiter` |
| `RuntimeOpsProofs!NoWakeIsLostAtFirst` | `GateSpec => []WakeNotLostAtFirst` |
| `KillSwitchProofs!SwitchTypeCorrect` | `Spec => []TypeOK` |
| `KillSwitchProofs!NoHandleIsLost` | `Spec => []NoLostHandle` |
| `KillSwitchProofs!BarrierIsAlone` | `Spec => []OneBarrier` |
| `KillSwitchProofs!ArmSparesBarrier` | `Spec => BarrierSurvivesArm` |
| `KillSwitchProofs!RearmLeavesNoWindow` | `Spec => NoFailOpenWindow` |
| `RuntimeLifecycleProofs!LifecycleTypeCorrect` | `Spec => []TypeOK` |
| `RuntimeLifecycleProofs!StartsAndStopsAreAlone` | `Spec => []OneStartOneStop` |
| `RuntimeLifecycleProofs!NoEngineIsLost` | `Spec => []NoEngineLost` |
| `RuntimeLifecycleProofs!NoRuntimeIsStray` | `Spec => []NoStrayRuntime` |
| `NetworkFlowProofs!QueueIsLatestWins` | `Spec => QueueKeepsPromise`: the refinement of `LatestWins` |
| `NetworkFlowProofs!NobodyIsForgotten` | `Spec => []Queue!Answered`: who has no answer yet is served or waits |
| `NetworkFlowProofs!NoTimerIsLost` | `Spec => []NoOrphanTimer` |
| `NetworkFlowProofs!FlowsAreTyped` | `Spec => []TypeOK` |
| `NetworkFlowProofs!AllIsGivenBack` | `Spec => []NothingLeftOver` |
| `NetworkFlowProofs!NothingIsLeftRunning` | `Spec => []IdleMeansStopped` |
| `NetworkFlowProofs!ConnectedOnlyIfWanted` | `Spec => []ConnectedIsIntended` |
| `NetworkFlowProofs!NoChangeIsForgotten` | `Spec => []ChangeIsApplied` |
| `SourceSwitchProofs!TypeCorrect` | `Spec => []TypeOK` |
| `SourceSwitchProofs!NewestIsSelected` | `Spec => []PendingIsSelected` |
| `SourceSwitchProofs!OperationsAreGivenBack` | `Spec => []OwnerIsAlive` |
| `SourceSwitchProofs!ReadyWasVerified` | `Spec => ReadyIsRunning` |
| `SourceSwitchProofs!RefutedTargetIsLeft` | `Spec => RefutedIsLeft` |
| `ProfileStoreProofs!StoreIsWellFormed` | `Spec => []TypeOK` |
| `ProfileStoreProofs!StoreFollowsMemory` | `Spec => []StoreIsSynced` |
| `ProfileStoreProofs!StoreIsNotLost` | `Spec => StoreIsNeverLost` |
| `ProfileStoreProofs!PlaintextStaysAway` | `Spec => NoPlaintextAgain` |
| `ProfileStoreProofs!ErasedBackupStaysErased` | `Spec => []BackupStaysErased` |
| `ProfileStoreProofs!LegacyIsKeptUntilSealed` | `Spec => LegacyOutlivesMigration` |
| `GuardProofs!QueueIsOfWhoWaits` | `Spec => []TypeOK` |
| `GuardProofs!LastWishIsApplied` | `Spec => []QuietMeansApplied` |
| `GuardProofs!NothingStaysBlocked` | `Spec => []IdleIsOpen` |
| `GuardProofs!StrictBlockIsKept` | `Spec => GuardOutlivesRuntime` |
| `SystemProxyProofs!SystemProxyTypes` | `Spec => []TypeOK` |
| `SystemProxyProofs!SystemProxyGivesBack` | `Spec => []GivenBack` |
| `SystemProxyProofs!SystemProxySendsNobodyNowhere` | `Spec => []NobodyIsSentNowhere` |
| `SystemProxyProofs!SystemProxySavesOthersOnly` | `Spec => []SavedIsNotOurs` |
| `SystemProxyProofs!SystemProxyKnowsItsOwn` | `Spec => []OursIsRecognised` |

`AutomationYields`, `OneBarrier`, `BarrierSurvivesArm`, `LegacyOutlivesMigration`,
`SavedIsNotOurs` and `OursIsRecognised` are proved and no run repeats them. The assumptions are
that the model values differ from the sets they stand outside of (in `SystemProxy`,
that no address is neither an endpoint nor an address of others), that bounds are
natural numbers, that `Click` and `Item` are finite and, in `RuntimeLifecycle`,
that bridges are among xray and sidecars.

The arguments:

- *RuntimeOps.* `OneAuthority` is not inductive: nothing in it says that tokens
  differ. `IdInv` adds that every token held was issued (its id is at most
  `nextId`), that the active token is the latest issued, and that two flows never hold
  tokens of one id. The refinement needs the same facts: a release frees exactly the
  last grant.
- *ProbeGate.* `PermitAccounted` and `NoGhostWaiter` are inductive together with
  the types. The wake-up is not: `EntryInv` adds that tickets differ, that an
  entry of the queue is what its call has put there, and that under the first
  runtime it stays there; `WakeComes` says that whoever is about to sleep beside
  a free permit has someone else in the queue or about to notify. It is exactly
  the drop of a stale permit that breaks `WakeComes` under a later runtime.
- *KillSwitch.* `LockInv` says that only the holder of the mutex is in a
  critical step, that `todo` is empty when no one closes or examines, and which
  commands can be at which step; then `open = leases \cup todo` is inductive.
  `RearmInv` adds that what a rearm has yet to close is no barrier and never all
  that is live. `BarrierUnique` is `OneBarrier` without counting.
- *RuntimeLifecycle.* `GenInv` ties generations to starts: a start past the gate
  has one, and no mark, handle or flag speaks of one that is not there yet.
  `OneStartOneStop` is then inductive by itself. `NoEngineLost` needs to know that
  a start stores its handles in slots that are empty or its own (`OwnKit`). The
  gate looks for a core and for xray, but *not* for sidecars, so `OwnKit` has to
  show that sidecars are never left behind without a core unless a stop is about
  to take them (`SidecarsServed`), which in turn rests on the order of spawning
  (`CoreIsLast`), the order of taking (`StopOrder`), and on a stop ending the
  epoch of the start it overtakes (`StopEndsEpoch`, `CoreIsUp`). `KitInv` is the
  conjunction of these with what an abort and a stop leave behind
  (`StartEmpties`, `StopEmpties`) and with `Published`, from which
  `NoStrayRuntime` follows.
- *NetworkFlow.* `QueueInv` says that a flow is at `"request"` exactly if its
  request is served or waits, that nothing waits unless something is served, and
  where the runner then is; with it every step of a flow is an `Ask`, a `Done`, a
  `Cancel` or a stutter of `LatestWins`. `TimerInv` says that an armed timer is
  the one `pendingReconnectTimer` holds and that it was armed under an epoch the
  timer can still be asked about. What holds at rest needs an invariant for
  each await, in five layers. `Typed` is `TypeOK` in parts: the marks (`Marks`), who is
  named by whom (`Named`), what each flow carries (`Papers`) and the flags of its
  locals at each await (`Locals`). `HeldOnTheWay` says that a tracked start, a start
  to be cancelled and an operation belong to a flow that is still at an await after
  which it gives them back; at rest there is no such flow (`NothingLeftOver`).
  `Alternate` says that one flow at most is inside a synchronous segment and that what
  it has just read is still so; every step is an answer or the one step of that
  segment (`Enters`). `Ended` is the core of `IdleMeansStopped`. Its measure is
  `MayBeUp`: a runtime is up, or a start that nobody cancelled is under way. While the
  screen says "disconnecting" or "idle", `MayBeUp` means that a stop is under way
  (`IdleIsStopped`); while the user wants to be disconnected, that a stop is under way, a
  click that will send one is on its way, or the failure is shown
  (`UnwantedIsEnded`). It is inductive because one start is under way at a time
  (`OneStart`) and a stop dooms it (`StopDooms`), so that nothing comes up behind a
  confirmed stop. Nearly every step is `Harmless` to it; the proof is about the start, the
  stop, the two ways a shutdown ends, the preparation and the retreat of an attempt.
  `Marked` is the core of `ChangeIsApplied`: a mark `need` is answered by a timer, by a
  request, by the run of the queue or by a click that will disconnect, or
  whoever set "disconnecting" is still to end it (`NeedIsAnswered`); and while the mark is
  set no click, no automatic flow and no attempt of the run holds the epoch
  that could show "connected" (`NobodyConnects`, `ClicksAsk`, `GateIsShut`). A step
  that leaves the mark set is `Steady`, and `StillAnswered` is what then remains to be
  shown of it.
- *SourceSwitch.* `PendingIsSelected` rests on `Places` and `Phases`: what a call
  at a given await may hold, and in which of its two phases it is. `Owners` says
  that tokens follow the phase, so the owner is either where its call can still
  give it back or belongs to a call that was superseded and has the answer to
  come. `Looked` and `Targets` carry a verdict to the await at which it is used.
- *ProfileStore.* `ErasureInv` says what an erasure that has come to a given step
  has already removed and which save may still bring something back: one that is under
  way when the erasure is done is void, holds nothing erased, or came late. `ChainInv`
  says that what the backend executes is the head of the chain, that one erasure is in it
  at most, and that a crash leaves nothing of it; a rotation without the replacement then
  always leaves a `bak` that can be read. For the types `Links` ties the command that
  runs to the head of the chain and to the phase. It also says that a degraded store
  skips its restore and does not send it, so the one plain-text write `NoPlaintextAgain`
  admits comes from a backend that works. `StoreIsSynced` rests on `Current`: the last
  write that waits has the memory as payload (`LastIsMemory`), and when none waits the
  file has it, or the migration is about to put it there, or it is erased in a moment
  (`Sealed`). `HalfErased` says that what an erasure under way has removed stays
  removed until it is answered; one that fails half way leaves the chain `unsaved` until
  a write succeeds, and that puts the memory there. `HeadWritten` says that
  a result that was not read is in the file, `FirstToWrite` that a migration that has the lock found
  nothing stored, and `AfterClear` that only a change during an erasure is chained behind it.
- *Guard.* `Busy` ties the reconciliation that runs to the head of the queue,
  `LastIsFresh` says that the last one in it is the one that will read the
  newest wish, and `FreshActsForNow` that a run that has read the newest wish
  heads for what the wish and the option ask for now. When the queue is
  empty the last run was such a one. `IdleIsOpen` then needs to know that the last wish
  at rest is no block to keep: `Intent` ties what each flow wants to the
  intent of the user (`LiveWants`, `DiscMeansIdle`, `IdleIsNotShown`, `BarrierKeeps`),
  and `Kept` says who may still ask for a block when the intent is idle: no attempt
  (`CancelledEnds`), the watchdog only while the latch tells of the block (`DogKeeps`,
  `OnByDog`), so that a wish for it has the latch or the rearm beside it
  (`KeptIsKnown`), and what has the latch is `Required`. For `GuardOutlivesRuntime`, `Latched` says that once
  the tunnel was connected every wish until the disconnect closes, and whoever shuts down
  keeps the block (`MadeIsLatched`), and that an attempt has all of that before its
  last step (`NearlyMade`, `ArmsSome`); `Sent` says whose stop is under way
  (`StopsOfFlows`), that a stop of the watchdog that gives the block up is answered before
  anybody connects again (`DogFirst`), and that the strict tunnel has no switch
  (`StrictIsOn`).
- *SystemProxy.* At rest both properties say that the setting is `Clean`: it sends to
  no endpoint, unless another program left it there (`Safely`), and, as long as nothing came
  between the writes of a call, is what others left last (`Exactly`). Neither is inductive, as they say nothing of a
  call that has writes left. `Plan` says it for every list of writes at every one of
  its writes. A call clears marks (`Clears`), turns the proxy off because what was saved is
  damaged (`Disables`), restores (`Restoring`), sets (`Enables`) or rolls back
  (`Undoing`), and of each there is a disjunct for every remainder of its list:
  what the writes behind it have left in the registry, and what the values of those ahead
  are. `Before` says to what a failed enabling goes back. This needs the order of the
  code: the setting is saved before it is marked, marked before it is
  changed, and the marks go only once it is back. A plan leads to its remainder under
  its own write (`WritesPlanned`) and under a failing one (`FailsPlanned`); if another program
  writes in between (`PlansStand`), what was known exactly is lost, but the address is then
  not one of ours any more, or the switch is off, and `HasServer` and `HasList` are weak
  enough to survive that. When the list is empty the setting is `Quiet`: a setting of ours is
  marked, and what was there before it is saved. `Orderly` adds that one caller
  writes at a time and that what is saved sends to no endpoint; `Kept` claims all this
  for what `torn` leaves of the promise. `Kept` alone does not say that a quiet setting
  of ours ever goes away. `Debt` does: unless the setting is that of others and nothing is
  saved any more (`Settled`), somebody has failed, is before
  his look at the setting, or is about to stop (`Due`), or the runtime is there to be stopped
  and no stop is past the look (`Owed`). A setting of ours that the user turned off is not
  `Settled`: he may turn it on again, and it is then still somebody's to take away. It is kept because the last write of a list
  either leaves the setting clean or is that of an enabling, whose caller reads back what
  happened meanwhile (`LastWrite`, `LastFailure`). The other two theorems, which hold
  at every state and not only at rest, are read off `SavedIsSafe` and `Quiet`. `Turns` says who can write, and that
  a stop which takes a runtime away belongs to the newest attempt.

TLC checked each conjunct before it was proved. Three properties turned out not to be
invariants beyond the bounds of their runs while their proofs were attempted:
`IdleIsOpen`, `GuardOutlivesRuntime` and the half of `IdleMeansStopped` that speaks of
the screen. TLC shows the counterexamples at four, five and seven events; they are
behaviours of the code, told in findings 1 and 9, and the properties are stated for
what the code does keep.

Only model-checked are the liveness properties `CallsEnd`, `StopPrevails`,
`CallsReturn` and `LostIsRearmed`, which need `ENABLED` and fairness and are beyond the
prover. Every other property that a passing run checks is proved. The prover cannot do
induction over data or recursive operators either; no module here has the one or the
other.

## Findings

Interleavings the code allows, and what a comment, a document or a test says of
them. None is likely in daily use. The first two are runs that stop at a
counterexample.

1. *A disconnect during the shutdown of a failed connection leaves everything
   blocked* (`guard_disconnect`, `main.js:1113`). The shutdown waits for its
   barrier and does not look at the intent again; the disconnect that came
   meanwhile opens the block, and the older shutdown's `setState("idle")` closes it
   behind the user. `docs/RELEASE_QUALIFICATION.md:91` says that an ordinary
   disconnect removes the rules. With a fourth event and a second fault the same
   end is reached by the switch in the settings: a disconnect could not open the block
   ("cleanup_error"), the watchdog, which found the core dead before it, shuts down and
   keeps the block (`health-watchdog.js:337`), and the switch, turned off and on
   meanwhile, takes the latch without the block (`main.js:913`).
2. *A profile that is added before the store answers is lost when there is no store
   yet* (`profile_early`, `profile-store.js:382`). The comment at 355-357 and the test
   `profile-store-bootstrap-race.test.mjs` say that it must not vanish; the merge
   is only on the branch with a store.

The others are stated in the modules, under *what the source says and the code
does not do*, as definitions no run checks; adding one to a configuration, with
the bounds of its run, shows the counterexample.

3. *A stop forgets the debt of an abort* (`RuntimeLifecycle!SurvivorsAreOwed`,
   `vpn.rs:3091`). A stop reads `pending_cleanup`, waits up to two seconds, then
   clears or overwrites it. A start that aborts meanwhile and could not confirm
   the death of its engine merges its debt into the value that is about to be
   lost. Needs a kill that does not work.
4. *A stale death mark* (`RuntimeLifecycle!NoStaleDeath`, `vpn.rs:386`). The monitor
   compares generations, writes and flushes the log, and then sets the flag. A
   start that passes its gate within that write gets the mark of its predecessor.
   It fails and can be repeated.
5. *A lost wake-up* (`ProbeGate!WakeNotLost`, `runtime_ops.rs:586`). A call that
   gets the permit and then finds its generation replaced drops the bare permit
   without notifying anyone. A waiter that looked in between sleeps beside a free
   permit until its own deadline. Under the first runtime this cannot happen
   (`WakeNotLostAtFirst`), and every call still ends (`CallsEnd`).
6. *A health answer about the list before the change* (`KillSwitch!HealthIsFresh`,
   `killswitch.rs:138`). The version moves before the mutex is taken, so a probe
   can read the new version, examine the old list and store the answer under the
   new version. It is served for at most 1.5 s.
7. *`disarm_policy` lifts the transition barrier*
   (`KillSwitch!OnlyReleaseLiftsBarrier`, `killswitch.rs:326`), though two comments
   say that only `transition_release` may. The user asked for the switch to be
   off, so the code may well be what is wanted; the comments are not what it does.
8. *A waiting request is turned away* (`NetworkFlow!WaitingRequestIsServed`,
   `main.js:1171`). `canRun` asks for `needsReconnect`, which `setState("idle")` at
   2950 clears, so a request that waited through "disconnecting" is cancelled; the
   comment at 1213 says it starts at idle.
9. *"disconnecting" without anyone who ends it* (`NetworkFlow!DisconnectingIsEnded`,
   `main.js:3817`, against the comment at 3796), and *a latch dropped by a
   reconnect* (`NetworkFlow!LatchOutlivesReconnect`, `main.js:3463`, against the
   comment at 1040). In the same module a stale run that is cancelled may leave
   "connecting" on the screen, and a stale attempt's stop without a token may take
   down the runtime of a newer attempt. The other way round, with seven events: an
   attempt overtakes a reconnect whose start is under way, ends at once because WARP is not
   registered (`main.js:3463`) and shows "idle"; the start comes up, and the undo of
   the reconnect is refused because its operation was preempted. The screen
   says idle and the runtime is up, until the next click.
10. *The older choice overwrites the newer one*
    (`SourceSwitch!NewerChoiceStands`, `source-activation.js:97`). Choosing the
    selected source again, while the begin of another is under way, is answered as
    ready and reserves nothing. Beside it: a begin that is refused as busy after it
    superseded another switch leaves that switch's target selected and unproven
    (comment at 101), and a `persist` that rejects keeps its operation until the lease.
11. *An erasure that is not complete* (`ProfileStore!EraseIsComplete`,
    `main.js:989`). With a degraded store the sealed file stays and the erasure
    reports success; a change chained behind an erasure writes its old payload. An erasure
    that fails after it has removed the file and before it removes its backup tells the
    user so, but leaves the store of one write ago on the disk: every later write of the
    session expects another revision and is refused, and the next launch reads that older
    store (`profile_store.rs:403`). A crash between the two does the same.
    Beside it: the migration is not part of the write chain, so a change published
    meanwhile conflicts and degrades the store; a failed restore puts back the store of
    before and loses what changed meanwhile (`profile-store.js:532`).
12. *Connected, switched on and not guarded* (`Guard!ConnectedIsGuarded`,
    `main.js:908`). Switched off and on again between the last snapshot and
    "connected", the guard is on in the settings and open in Windows.
13. *A crash or a failing write leaves half a proxy setting*
    (`SystemProxy!CrashIsRecovered`, 1 event and 1 fault,
    `SystemProxy!HalfRestoredIsOff`, 2 and 1; `proxy_win.rs:453`). The address and
    the list of exceptions are two writes. A crash between them, while a proxy of the
    user is on, leaves the one of Ninety and the other of the user; the launch takes the
    setting for a foreign one, leaves it and forgets what was saved. At the enabling
    this leaves Windows with an address where nobody listens.
    `docs/RELEASE_QUALIFICATION.md:45` says that the next launch restores the values
    of before. A write that fails there in a restoration does the same; the comment at
    354 says that it never activates half a configuration, because `ProxyEnable`
    is written last, but it is on already when a restoration begins.
14. *A stale attempt takes the proxy of a newer one* (`SystemProxy!LossIsNoticed`,
    `vpn.rs:3653`). An attempt that finds itself overtaken calls
    `disable_system_proxy` (`main.js:3634`), which restores the setting and forgets
    the address whosever they are; the runtime of the newer attempt stands without its
    proxy, and the watchdog is not told that it is missing (4 events, no fault). Beside it: a
    recovery at launch that fails leaves the saved setting valid, the next enabling
    keeps it, and what another program wrote in between is lost (`Outdated`).
15. *A late save brings back what was erased* (`ProfileStore!BackupForgets`, 1 item,
    no change, no fault; `backup.rs:56`). The comment at 53 says that an old request has no right
    to bring erased profiles back. The generation is read when a blocking thread takes the
    request up, so a save that was sent before the erasure and is taken up after its
    last `state_backup_clear` notes the new generation and writes the old snapshot.
    `BackupStaysErased` is what does hold: no save that had begun does that.
16. *A refused restore puts the profiles into localStorage* (`ProfileStore!PlaintextStaysOut`,
    `state-backup.js:216`). `docs/PROFILE_STORE_MIGRATION.md:164` says that a failed write
    does not touch the copy in localStorage, and `:187` that nothing is restored there while the
    store is available. When the write of a restored snapshot is refused, its profile keys
    are copied there in plain text, on purpose (the comment at 214), and stay until the page that is loaded
    next has migrated them. `NoPlaintextAgain` says that this is the only way.
## What is not covered

- `RuntimeLifecycle` leaves out the system proxy (see `SystemProxy`; its failure is
  a free choice of `StopWait`), dataplane verification, the death watcher, port planning, the
  snapshots, and `force_cleanup`, which runs only when the process ends. It assumes that
  Windows tells the creation time of an engine that was just spawned: one without is dropped from a debt
  (`unresolved_processes`, `vpn.rs:1733`), as nothing could tell it from a later process
  with its number.
- `KillSwitch` leaves out what a session permits, and `force_disarm` at process
  exit, when Windows closes the dynamic sessions anyway. `open` counts sessions whose filters were
  committed. Where building one fails, the transaction is undone and the answer of
  `FwpmEngineClose0` is not read (`killswitch.rs:546`, `555`, `567`): what may stay open
  in Windows then is in no list, holds no filter and blocks nothing.
- `SourceSwitch` has the verdict of the verifier and the arrival of its answer in one step
  (`source-activation.js:140`). What the frontend looks at again it looks at on arrival;
  a core that dies between the two could as well die right after, and what
  `ReadyIsRunning` says is that the verdict was about that runtime and this choice.
- `NetworkFlow` takes the adoption of a runtime at launch as a choice of its
  initial state, and leaves out the mode change with its barrier, elevation by
  restart and everything that is only shown. That every click returns was checked
  by hand, for two clicks, three events and two automatic flows, with strong
  fairness of the answers; it is no run, as it takes too long.
- `Guard` has the strict tunnel on throughout and leaves out its own switch, the
  mode change with its barrier (`main.js:400`), the adoption of a runtime and
  the permit for local networks.
- `ProfileStore` leaves out the pointers to the active source and the settings in
  the backup, portable passphrases and the encryption; replacing one file is
  atomic, and so is removing one. Of the copies of the store `.bak` is modelled, of those of the backup none: `.legacy.bak`,
  which the sealing of a plain-text file leaves (`secrets.rs`) and which is read when the other two are gone
  (`profile_store.rs:222`), is left out. A backup is saved in a store that is ready, one
  at a time; the 15 s timer (`main.js:3994`) that may fire during a launch that takes longer
  is left out, and so are the other keys a restore writes.
- The thresholds of the watchdog and the counters of its restore budget are an
  open choice.
- *Transition barrier release.* `release_transition_barrier` reads facts of three
  components one by one; `RuntimeOps`, `RuntimeLifecycle` and `KillSwitch` each
  have their part. Their product is beyond what TLC enumerates in minutes.
- `SystemProxy` takes the reads of a call as one and the four values of the saved
  setting as one write; it leaves out a setting with no address at all, registry
  keys that cannot be opened, which list of exceptions is chosen, the cleanup in
  the panic hook and the thread that tells WinINet of a change. `NobodyIsSentNowhere`,
  `SavedIsNotOurs` and `OursIsRecognised` promise nothing once another program has left
  an address of ours in a setting of its own, by editing `ProxyOverride` alone or by turning ours on
  after a stop: the code then leaves the setting, forgets its marks
  (`proxy_win.rs:205-235`, `486-492`), and Windows goes on sending there; a test of the
  repository asks for that (`proxy_win.rs:1177`). Its promises are made for calls that do not overlap; when writes
  of two calls interleave, no lock keeps them apart and the result may be a
  mixture. In `NetworkFlow` the outcome of the frontend's await stays open.
- Quality scores, diagnosis, subscriptions, configuration building, the DPI
  scanner, guards and views: data, input and output without control a model
  checker could help with; the repository's own tests cover them.

## What could come next

1. `Transition`: `RuntimeLifecycle`, `RuntimeOps` and `KillSwitch` reduced to
   what the release of the barrier reads. Promise: the barrier falls only while a
   verified runtime stands.
2. Two calls of `set_system_proxy` whose writes overlap. Nothing is promised of them
   today, since nothing keeps them apart (findings 13 and 14); with a lock around a
   call the proofs of `SystemProxy` would cover them without `torn`.
