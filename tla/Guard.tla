------------------------------- MODULE Guard -------------------------------
(***************************************************************************)
(* What keeps the kill switch in step with the connection: the queue of    *)
(* reconciliations of src/lib/kill-switch.js over the commands of module   *)
(* KillSwitch, the watchdog that rearms a lost block and shuts a dead core *)
(* down behind it (src/lib/health-watchdog.js), and those of src/main.js   *)
(* that ask the queue: connecting, reconnecting, disconnecting, shutting   *)
(* down and the switch in the settings.                                    *)
(*                                                                         *)
(* A step is what the frontend does from the answer of one await to the    *)
(* next, so the end of a reconciliation, what the one who waits for it     *)
(* does, and the start of the next one are one step.  What a command does  *)
(* to Windows is a step before its answer.                                 *)
(*                                                                         *)
(* Abstractions.  One of the two guards is looked at, with a mode it goes  *)
(* with: the ordinary kill switch in a proxy mode, or the strict tunnel in *)
(* TUN, which is on throughout.  A connection attempt is one at a time,    *)
(* and a click while a disconnect is under way joins it (module            *)
(* NetworkFlow has what they do to each other); its start is one await.    *)
(* The barrier of the backend, which comes and goes beside the policy, is  *)
(* in module KillSwitch.                                                   *)
(*                                                                         *)
(* An operator commented as a mistake is no part of the specification: it  *)
(* is what the definition after it must not be, and a property fails on it.*)
(***************************************************************************)
EXTENDS Naturals, Sequences

CONSTANTS
    MaxEvents,  \* a bound: clicks, changes of the setting, reconnects
    MaxFaults   \* a bound: what fails or dies

ASSUME GuardAssumption == MaxEvents \in Nat /\ MaxFaults \in Nat

VARIABLES
    strict,    \* which of the guards: privacy.strictTunnel, or general.killSwitch
    elevated,  \* is_elevated
    option,    \* whether the guard is on in the settings
    policy,    \* in Windows: nothing blocked, all of it, or all but the tunnel
    up,        \* the core runs
    state,     \* state
    desired,   \* networkIntent.desired()
    latch,     \* strictFailClosedLatched or ordinaryFailClosedLatched
    wish,      \* desiredConnected, desiredPhase, preserveDisconnected
    queue,     \* who waits for the reconciliations, the first one running
    run,       \* the locals of the one that runs
    settled,   \* the last one confirmed its wish and nothing changed since
    dog, conn, disc, toggle,  \* where the flows await, with their locals
    stops,     \* whose stop_singbox is under way, in the order they were sent
    made,      \* it was connected since the user disconnected last
    late,      \* a click crossed a shutdown that was to keep the block
    events, faults

vars == <<strict, elevated, option, policy, up, state, desired, latch, wish, queue, run,
          settled, dog, conn, disc, toggle, stops, made, late, events, faults>>

\* Who asks the queue; nobody waits for what setState asks.
Flow == {"dog", "conn", "disc", "toggle"}
Waiter == Flow \cup {"nobody"}

\* connected, and whether what is blocked before is to be kept when not.
Wish == [connected : BOOLEAN, phase : {"preconnect", "connected"}, preserve : BOOLEAN]
On(phase) == [connected |-> TRUE, phase |-> phase, preserve |-> FALSE]
Off(preserve) == [connected |-> FALSE, phase |-> "connected", preserve |-> preserve]

\* Locals of reconcile: what it awaits, what it is arming, and whether the revision
\* is still the one it started with.
Run == [step : {"none", "active", "elevated", "arm", "confirm", "disarm", "disarmed"},
        to : {"none", "block", "tunnel"}, fresh : BOOLEAN]
NoRun == [step |-> "none", to |-> "none", fresh |-> FALSE]

Dog == [on : BOOLEAN, fresh : BOOLEAN, guardOnly : BOOLEAN, armed : BOOLEAN, alive : BOOLEAN,
        preserve : BOOLEAN,
        pc : {"off", "asked", "read", "claim", "barrier", "stopping", "restoring", "rearm",
              "reconcile"}]
Conn == [live : BOOLEAN, preserve : BOOLEAN, armed : BOOLEAN, again : BOOLEAN,
         pc : {"off", "claim", "barrier", "stopping", "observe", "preflight",
               "starting", "guard", "snapshot", "verify"}]
Toggle == [pc : {"off", "apply", "revert"}, value : BOOLEAN, arm : BOOLEAN]

NoConn == [live |-> FALSE, preserve |-> FALSE, armed |-> FALSE, again |-> FALSE, pc |-> "off"]

TypeOK ==
    /\ {strict, elevated, option, up, latch, settled} \subseteq BOOLEAN
    /\ policy \in {"none", "block", "tunnel"}
    /\ state \in {"idle", "connecting", "connected", "disconnecting", "cleanup_error"}
    /\ desired \in {"idle", "connected"}
    /\ wish \in Wish /\ queue \in Seq(Waiter) /\ run \in Run
    /\ dog \in Dog /\ conn \in Conn /\ toggle \in Toggle
    /\ disc \in {"off", "stopping", "release"}
    /\ stops \in Seq({"dog", "conn", "disc"}) /\ {made, late} \subseteq BOOLEAN
    /\ events \in 0 .. MaxEvents /\ faults \in 0 .. MaxFaults
    \* Somebody waits for the queue exactly where his locals say so.
    /\ run.step = "none" <=> queue = <<>>
    /\ \A w \in Flow : \A i, j \in DOMAIN queue : queue[i] = w /\ queue[j] = w => i = j
    /\ (\E i \in DOMAIN queue : queue[i] = "dog") <=> dog.pc \in {"barrier", "rearm", "reconcile"}
    /\ (\E i \in DOMAIN queue : queue[i] = "conn") <=> conn.pc \in {"barrier", "preflight", "guard"}
    /\ (\E i \in DOMAIN queue : queue[i] = "disc") <=> disc = "release"
    /\ (\E i \in DOMAIN queue : queue[i] = "toggle") <=> toggle.pc # "off"

\* The strict tunnel needs the rights anyway.
Init ==
    /\ strict \in BOOLEAN
    /\ option \in IF strict THEN {TRUE} ELSE BOOLEAN
    /\ elevated \in IF strict THEN {TRUE} ELSE BOOLEAN
    /\ policy = "none" /\ up = FALSE /\ state = "idle" /\ desired = "idle" /\ latch = FALSE
    /\ wish = Off(FALSE) /\ queue = <<>> /\ run = NoRun /\ settled = FALSE
    /\ dog = [on |-> FALSE, fresh |-> FALSE, guardOnly |-> FALSE, armed |-> FALSE,
              alive |-> FALSE, preserve |-> FALSE, pc |-> "off"]
    /\ conn = NoConn /\ disc = "off" /\ stops = <<>> /\ made = FALSE /\ late = FALSE
    /\ toggle = [pc |-> "off", value |-> FALSE, arm |-> FALSE]
    /\ events = 0 /\ faults = 0

Event == events < MaxEvents /\ events' = events + 1 /\ UNCHANGED faults
Fault == faults < MaxFaults /\ faults' = faults + 1 /\ UNCHANGED events
Quiet == UNCHANGED <<events, faults>>
World == <<strict, elevated>>
\* What a flow shows, and what it sends.
Shown == <<state, latch, dog, stops>>

-----------------------------------------------------------------------------
(* The queue of reconciliations. *)

\* killSwitchMustSurviveRuntimeStop
Required == latch /\ option

\* What reconcile does first, from the wish and the options of this moment.
Starts(w, on) ==
    [step |-> IF ~on \/ ~(w.connected \/ w.preserve) THEN "disarm"
              ELSE IF w.connected THEN "elevated" ELSE "active",
     to |-> "none", fresh |-> TRUE]

\* Who asks, and for what.
Call(w, who) == <<[wish |-> w, who |-> who]>>

\* A mistake: who asks while a reconciliation runs gets that one's result.
ApplyShared(q, calls, runs) ==
    /\ wish' = IF calls = <<>> THEN wish ELSE calls[Len(calls)].wish
    /\ queue' = IF runs THEN q ELSE q \o [i \in DOMAIN calls |-> calls[i].who]
    /\ run' = IF runs THEN run
              ELSE IF queue' = <<>> THEN NoRun
              ELSE Starts(wish', option')

\* apply, for the calls that a segment makes, behind the queue q, whose first
\* reconciliation runs or is started now.
Apply(q, calls, runs) ==
    /\ wish' = IF calls = <<>> THEN wish ELSE calls[Len(calls)].wish
    /\ queue' = q \o [i \in DOMAIN calls |-> calls[i].who]
    /\ run' = IF runs THEN [run EXCEPT !.fresh = @ /\ calls = <<>>]
              ELSE IF queue' = <<>> THEN NoRun
              ELSE Starts(wish', option')

-----------------------------------------------------------------------------
(* What the segments of main.js are made of. *)

Watch(d) == IF d.on THEN d ELSE [d EXCEPT !.on = TRUE, !.fresh = FALSE]
Unwatch(d) == [d EXCEPT !.on = FALSE, !.fresh = FALSE]

\* syncHealthWatchdogForState
Synced(d) == IF state' = "connected" \/ (latch' /\ option') THEN Watch(d) ELSE Unwatch(d)

\* setState("disconnecting") and the stop, setState("idle") and setState("cleanup_error"), with d
\* for the watchdog.  The last two ask the queue to end the block, or to keep it.
Disconnecting(who, preserve, d) ==
    /\ state' = "disconnecting" /\ UNCHANGED latch
    /\ stops' = Append(stops, who)
    /\ dog' = IF preserve THEN Synced(d) ELSE Unwatch(d)

Over(how, preserve, d) ==
    /\ state' = how
    /\ latch' = (latch /\ preserve)
    /\ dog' = Synced(d)

\* A mistake: whatever ends, the block is kept.
EndingKept(preserve) == Call(Off(TRUE), "nobody")

Ending(preserve) == Call(Off(preserve), "nobody")

\* A flow goes on without asking the queue.
Silently(q, runs) == Apply(q, <<>>, runs)

\* A mistake: the block that is to survive is asked to end.
ConnShutsOpenly(preserve, again, q, runs) ==
    /\ conn' = [conn EXCEPT !.preserve = preserve, !.again = again,
                            !.pc = IF preserve THEN "barrier" ELSE "stopping"]
    /\ IF preserve
       THEN Apply(q, Call(Off(FALSE), "conn"), runs) /\ UNCHANGED Shown
       ELSE Silently(q, runs) /\ Disconnecting("conn", FALSE, dog)

\* shutdownCore of a connection flow: a block that is to survive comes first.
ConnShuts(preserve, again, q, runs) ==
    /\ conn' = [conn EXCEPT !.preserve = preserve, !.again = again,
                            !.pc = IF preserve THEN "barrier" ELSE "stopping"]
    /\ IF preserve
       THEN Apply(q, Call(Off(TRUE), "conn"), runs) /\ UNCHANGED Shown
       ELSE Silently(q, runs) /\ Disconnecting("conn", FALSE, dog)

\* The attempt ends without a word: somebody else decides what is shown.
ConnGivesUp(q, runs) ==
    /\ conn' = NoConn
    /\ Silently(q, runs)
    /\ UNCHANGED Shown

\* The catch of connectNetwork.
ConnFails(q, runs) ==
    IF conn.live THEN ConnShuts(Required, FALSE, q, runs) ELSE ConnGivesUp(q, runs)

\* The stop of shutdownCore has its answer, and the block is ended or kept.
Stopped(who, ok, preserve, d) ==
    /\ stops # <<>> /\ Head(stops) = who
    /\ stops' = Tail(stops)
    /\ up' = (up /\ ~ok)
    /\ Over(IF ok THEN "idle" ELSE "cleanup_error", preserve, d)

-----------------------------------------------------------------------------
(* Who waits for a reconciliation goes on with its result. *)

ConnAnswered(ok, q) ==
    /\ UNCHANGED <<option, disc, toggle>>
    /\ CASE conn.pc = "barrier" /\ ok ->
               /\ conn' = [conn EXCEPT !.pc = "stopping"]
               /\ Disconnecting("conn", TRUE, dog)
               /\ Silently(q, FALSE)
         [] conn.pc = "barrier" /\ ~ok /\ conn.again -> ConnGivesUp(q, FALSE)
         [] conn.pc = "barrier" /\ ~ok /\ ~conn.again ->
               /\ conn' = NoConn
               /\ Over("cleanup_error", TRUE, dog) /\ UNCHANGED stops
               /\ Apply(q, Ending(TRUE), FALSE)
         [] conn.pc = "preflight" /\ ok ->
               /\ conn' = [conn EXCEPT !.pc = "starting"]
               /\ latch' = TRUE /\ dog' = Watch(dog) /\ UNCHANGED <<state, stops>>
               /\ Silently(q, FALSE)
         [] conn.pc = "guard" /\ ~conn.live -> ConnGivesUp(q, FALSE)
         [] conn.pc = "guard" /\ conn.live /\ ok ->
               /\ conn' = [conn EXCEPT !.pc = "snapshot"]
               /\ latch' = IF strict THEN latch ELSE option
               /\ UNCHANGED <<state, dog, stops>>
               /\ Silently(q, FALSE)
         [] OTHER -> ConnFails(q, FALSE)

DiscAnswered(ok, q) ==
    /\ UNCHANGED <<option, conn, toggle, stops>>
    /\ disc' = "off"
    /\ Over(IF ok THEN "idle" ELSE "cleanup_error", ~ok /\ Required, dog)
    /\ Apply(q, Ending(~ok /\ Required), FALSE)

\* verifyKillSwitch asks again whether the block is wanted once it is rearmed.
DogAnswered(ok, q) ==
    /\ UNCHANGED <<option, conn, disc, toggle>>
    /\ CASE dog.pc = "barrier" /\ ok ->
               /\ Disconnecting("dog", TRUE, [dog EXCEPT !.pc = "stopping"])
               /\ Silently(q, FALSE)
         [] dog.pc = "rearm" /\ ~Required ->
               /\ dog' = [dog EXCEPT !.pc = "reconcile"] /\ UNCHANGED <<state, latch, stops>>
               /\ Apply(q, Call(IF state = "connected" THEN On("connected") ELSE Off(FALSE), "dog"),
                        FALSE)
         [] OTHER ->
               /\ dog' = [dog EXCEPT !.pc = "off"] /\ UNCHANGED <<state, latch, stops>>
               /\ Silently(q, FALSE)

\* The switch in the settings: what cannot be done is taken back.
ToggleAnswered(ok, q) ==
    /\ UNCHANGED <<conn, disc, state, stops>>
    /\ IF toggle.pc = "apply" /\ ~ok
       THEN /\ option' = ~toggle.value
            /\ toggle' = [toggle EXCEPT !.pc = "revert"]
            /\ UNCHANGED <<latch, dog>>
            /\ Apply(q, Call(IF state = "connected" /\ ~toggle.value
                             THEN On("connected") ELSE Off(FALSE), "toggle"), FALSE)
       ELSE /\ UNCHANGED option
            /\ toggle' = [toggle EXCEPT !.pc = "off"]
            /\ latch' = (state = "connected" /\ IF toggle.pc = "apply"
                                                THEN toggle.value /\ toggle.arm
                                                ELSE ~toggle.value /\ ok)
            /\ dog' = Synced(dog)
            /\ Silently(q, FALSE)

\* A shutdown is under way that is to keep the block.
Keeping == \E f \in {conn, dog} : f.preserve /\ f.pc \in {"barrier", "stopping"}

\* The first reconciliation of the queue has its result.  late, which only IdleIsOpen reads,
\* records that the answered switch takes the latch of a block that a shutdown keeps.
Resolves(ok) ==
    LET q == Tail(queue)
    IN  /\ settled' = ok
        /\ UNCHANGED <<up, desired, made>>
        /\ \/ /\ Head(queue) = "nobody"
              /\ UNCHANGED <<option, Shown, conn, disc, toggle>>
              /\ Silently(q, FALSE)
           \/ Head(queue) = "conn" /\ ConnAnswered(ok, q)
           \/ Head(queue) = "disc" /\ DiscAnswered(ok, q)
           \/ Head(queue) = "dog" /\ DogAnswered(ok, q)
           \/ Head(queue) = "toggle" /\ ToggleAnswered(ok, q)
        /\ late' = (late \/ (Head(queue) = "toggle" /\ latch /\ ~latch'
                            /\ (wish.preserve \/ Keeping)))

-----------------------------------------------------------------------------
(* reconcile(), from await to await. *)

RunGoes(step, to) ==
    /\ run' = [run EXCEPT !.step = step, !.to = to]
    /\ UNCHANGED <<option, up, state, desired, latch, wish, queue, settled, dog, conn, disc, toggle,
                   stops, made, late>>

\* killswitch_active, before a block that is to be kept is armed.
AskedActive ==
    /\ run.step = "active"
    /\ IF policy # "none" THEN Resolves(TRUE) ELSE RunGoes("elevated", "none")
    /\ UNCHANGED <<World, policy>> /\ Quiet

\* is_elevated.  What was asked meanwhile is left to the next reconciliation.
AskedElevated ==
    /\ run.step = "elevated"
    /\ IF ~run.fresh \/ ~elevated
       THEN Resolves(FALSE)
       ELSE RunGoes("arm", IF strict /\ wish.connected /\ wish.phase = "connected"
                           THEN "tunnel" ELSE "block")
    /\ UNCHANGED <<World, policy>> /\ Quiet

Armed ==
    /\ run.step = "arm"
    /\ policy' = run.to
    /\ RunGoes("confirm", "none")
    /\ UNCHANGED World /\ Quiet

Confirmed ==
    /\ run.step = "confirm"
    /\ Resolves(policy # "none")
    /\ UNCHANGED <<World, policy>> /\ Quiet

Disarmed ==
    /\ run.step = "disarm"
    /\ policy' = "none"
    /\ RunGoes("disarmed", "none")
    /\ UNCHANGED World /\ Quiet

DisarmAnswered ==
    /\ run.step = "disarmed"
    /\ Resolves(TRUE)
    /\ UNCHANGED <<World, policy>> /\ Quiet

\* A command throws.
CommandFails ==
    /\ run.step \in {"active", "elevated", "arm", "confirm", "disarm"}
    /\ Resolves(FALSE)
    /\ UNCHANGED <<World, policy>> /\ Fault

Reconcile ==
    \/ AskedActive \/ AskedElevated \/ Armed \/ Confirmed \/ Disarmed \/ DisarmAnswered

-----------------------------------------------------------------------------
(* Connecting, reconnecting and disconnecting, between the reconciliations. *)

Now == queue # <<>>
Rests == UNCHANGED <<World, policy, settled, made, late>>

\* A click on the disc while nothing runs.
Connect ==
    /\ state = "idle" /\ conn.pc = "off" /\ disc = "off" /\ Event
    /\ desired' = "connected"
    /\ conn' = [NoConn EXCEPT !.live = TRUE, !.pc = "observe"]
    /\ UNCHANGED <<option, up, state, latch, wish, queue, run, dog, disc, toggle, stops>>
    /\ Rests

\* A change of the source, the mode or the configuration, or a retry of it; whether
\* the block is to be kept is read before the operation is waited for.
Reconnect ==
    /\ desired = "connected" /\ state \in {"connected", "disconnecting"}
    /\ conn.pc = "off" /\ disc = "off" /\ Event
    /\ conn' = [NoConn EXCEPT !.live = TRUE, !.pc = "claim", !.preserve = Required]
    /\ UNCHANGED <<option, up, state, desired, latch, wish, queue, run, dog, disc, toggle, stops>>
    /\ Rests

\* The operation is granted, or taken by the watchdog; a stop under way is waited for.
ConnClaimed(granted) ==
    /\ conn.pc = "claim"
    /\ granted => dog.pc \notin {"barrier", "stopping"}
    /\ UNCHANGED <<option, up, desired, disc, toggle>>
    /\ CASE ~granted \/ ~conn.live \/ state = "cleanup_error" -> ConnGivesUp(queue, Now)
         [] granted /\ conn.live /\ state = "idle" ->
               /\ conn' = [conn EXCEPT !.pc = "observe"]
               /\ Silently(queue, Now)
               /\ UNCHANGED Shown
         [] granted /\ conn.live /\ state \in {"connected", "connecting"} ->
               ConnShuts(conn.preserve, TRUE, queue, Now)
         [] OTHER -> FALSE
    /\ Rests /\ Quiet

ConnStopped(ok) ==
    /\ conn.pc = "stopping"
    /\ UNCHANGED <<option, desired, disc, toggle>>
    /\ Stopped("conn", ok, conn.preserve, dog)
    /\ conn' = IF ok /\ conn.again /\ conn.live THEN [conn EXCEPT !.pc = "observe"] ELSE NoConn
    /\ Apply(queue, Ending(conn.preserve), Now)
    /\ Rests /\ Quiet

\* connectNetwork has the snapshot of the backend: a block that is there is latched,
\* the strict tunnel blocks all before the core is started.
Observed(confirms) ==
    /\ conn.pc = "observe"
    /\ UNCHANGED <<option, up, desired, disc, toggle>>
    /\ IF ~conn.live
       THEN ~confirms /\ ConnGivesUp(queue, Now)
       ELSE /\ confirms => option /\ policy # "none"
            /\ strict /\ policy # "none" => confirms
            /\ latch' = (latch \/ confirms)
            /\ state' = "connecting"
            /\ dog' = IF confirms THEN Watch(dog) ELSE dog
            /\ UNCHANGED stops
            /\ conn' = [conn EXCEPT !.pc = IF strict THEN "preflight" ELSE "starting"]
            /\ Apply(queue, IF strict THEN Call(On("preconnect"), "conn") ELSE <<>>, Now)
    /\ Rests /\ Quiet

NotObserved ==
    /\ conn.pc = "observe"
    /\ UNCHANGED <<option, up, desired, disc, toggle>>
    /\ conn' = NoConn
    /\ Over("cleanup_error", Required, dog) /\ UNCHANGED stops
    /\ Apply(queue, Ending(Required), Now)
    /\ Rests /\ Fault

\* The core is started and ready; its block is part of what is confirmed.
Started(ok) ==
    /\ conn.pc = "starting"
    /\ UNCHANGED <<option, desired, disc, toggle>>
    /\ up' = (ok /\ conn.live)
    /\ IF ok /\ conn.live
       THEN /\ conn' = [conn EXCEPT !.pc = "guard"]
            /\ Apply(queue, Call(On("connected"), "conn"), Now)
            /\ UNCHANGED Shown
       ELSE ConnFails(queue, Now)
    /\ Rests /\ Quiet

FinalSnapshot(ok) ==
    /\ conn.pc = "snapshot"
    /\ UNCHANGED <<option, up, desired, disc, toggle>>
    /\ IF ok
       THEN /\ conn' = [conn EXCEPT !.pc = "verify", !.armed = (policy # "none")]
            /\ Silently(queue, Now)
            /\ UNCHANGED Shown
       ELSE ConnFails(queue, Now)
    /\ Rests /\ Quiet

\* The endpoint is verified and the snapshot compared with what is expected now.
Verified(ok) ==
    /\ conn.pc = "verify"
    /\ UNCHANGED <<option, up, desired, disc, toggle>>
    /\ ok => up
    /\ IF ok /\ conn.live /\ conn.armed = option
       THEN /\ conn' = NoConn
            /\ latch' = (option /\ (strict \/ conn.armed))
            /\ state' = "connected" /\ made' = TRUE
            /\ dog' = Watch(dog)
            /\ UNCHANGED stops
            /\ Silently(queue, Now)
       ELSE ConnFails(queue, Now) /\ UNCHANGED made
    /\ UNCHANGED <<World, policy, settled, late>> /\ Quiet

\* The power button, and disconnectNetwork up to its stop.
Disconnect ==
    /\ disc = "off" /\ (state # "idle" \/ conn.pc # "off") /\ Event
    /\ UNCHANGED <<option, up, toggle>>
    /\ desired' = "idle"
    /\ conn' = [conn EXCEPT !.live = FALSE]
    /\ disc' = "stopping"
    /\ Disconnecting("disc", FALSE, dog)
    /\ made' = FALSE /\ late' = Keeping
    /\ Silently(queue, Now)
    /\ UNCHANGED <<strict, elevated, policy, settled>>

\* The block is lifted only once the core is known to be gone.
DiscStopped(ok) ==
    /\ disc = "stopping"
    /\ UNCHANGED <<option, desired, conn, toggle>>
    /\ IF ok
       THEN /\ stops # <<>> /\ Head(stops) = "disc"
            /\ stops' = Tail(stops)
            /\ up' = FALSE
            /\ disc' = "release"
            /\ Apply(queue, Call(Off(FALSE), "disc"), Now)
            /\ UNCHANGED <<state, latch, dog>>
       ELSE /\ disc' = "off"
            /\ Stopped("disc", FALSE, FALSE, dog)
            /\ Apply(queue, Ending(FALSE), Now)
    /\ Rests /\ Quiet

Connecting ==
    \/ \E ok \in BOOLEAN : \/ ConnClaimed(ok) \/ ConnStopped(ok) \/ Observed(ok) \/ Started(ok)
                           \/ FinalSnapshot(ok) \/ Verified(ok)
    \/ NotObserved
Disconnects == \E ok \in BOOLEAN : DiscStopped(ok)

-----------------------------------------------------------------------------
(* The watchdog, from await to await. *)

\* A mistake: a block without a connection is not looked after.
TickConnected ==
    /\ dog.on /\ dog.pc = "off" /\ state = "connected"
    /\ dog' = [dog EXCEPT !.pc = "asked", !.fresh = TRUE, !.guardOnly = FALSE]
    /\ UNCHANGED <<option, up, state, desired, latch, wish, queue, run, conn, disc, toggle,
                   stops>>
    /\ Rests /\ Quiet

Tick ==
    /\ dog.on /\ dog.pc = "off" /\ (state = "connected" \/ Required)
    /\ dog' = [dog EXCEPT !.pc = "asked", !.fresh = TRUE, !.guardOnly = (state # "connected")]
    /\ UNCHANGED <<option, up, state, desired, latch, wish, queue, run, conn, disc, toggle,
                   stops>>
    /\ Rests /\ Quiet

\* health_snapshot looks at the core and at the filters.
HealthSnapshot ==
    /\ dog.pc = "asked"
    /\ dog' = [dog EXCEPT !.pc = "read", !.armed = (policy # "none"), !.alive = up]
    /\ UNCHANGED <<option, up, state, desired, latch, wish, queue, run, conn, disc, toggle,
                   stops>>
    /\ Rests /\ Quiet

\* The tick goes on with it: a dead core is shut down, a lost block is rearmed.
Examined ==
    /\ dog.pc = "read"
    /\ UNCHANGED <<option, up, state, desired, latch, conn, disc, toggle, stops>>
    /\ CASE ~dog.fresh \/ (~dog.guardOnly /\ state # "connected") ->
               dog' = [dog EXCEPT !.pc = "off"] /\ Silently(queue, Now)
         [] dog.fresh /\ ~dog.guardOnly /\ state = "connected" /\ ~dog.alive ->
               dog' = [dog EXCEPT !.pc = "claim"] /\ Silently(queue, Now)
         [] OTHER ->
               IF Required /\ ~dog.armed
               THEN /\ dog' = [dog EXCEPT !.pc = "rearm"]
                    /\ Apply(queue, Call(On(IF state = "connected" THEN "connected"
                                            ELSE "preconnect"), "dog"), Now)
               ELSE dog' = [dog EXCEPT !.pc = "off"] /\ Silently(queue, Now)
    /\ Rests /\ Quiet

\* The operation is granted or somebody else has the runtime.
DogClaimed(granted) ==
    /\ dog.pc = "claim"
    /\ granted => conn.pc = "off" /\ disc = "off"
    /\ UNCHANGED <<option, up, desired, conn, disc, toggle>>
    /\ IF ~granted
       THEN dog' = [dog EXCEPT !.pc = "off"] /\ Silently(queue, Now) /\ UNCHANGED <<state, latch, stops>>
       ELSE IF Required
       THEN /\ dog' = [dog EXCEPT !.pc = "barrier", !.preserve = TRUE]
            /\ Apply(queue, Call(Off(TRUE), "dog"), Now)
            /\ UNCHANGED <<state, latch, stops>>
       ELSE /\ Disconnecting("dog", FALSE, [dog EXCEPT !.pc = "stopping", !.preserve = FALSE])
            /\ Silently(queue, Now)
    /\ Rests /\ Quiet

\* The core is shut down; within its budget it is restored.
DogStopped(ok, restores) ==
    /\ dog.pc = "stopping"
    /\ restores => ok /\ desired = "connected" /\ conn.pc = "off"
    /\ UNCHANGED <<option, desired, disc, toggle>>
    /\ Stopped("dog", ok, dog.preserve, [dog EXCEPT !.pc = IF restores THEN "restoring" ELSE "off"])
    /\ conn' = IF restores THEN [NoConn EXCEPT !.live = TRUE, !.pc = "observe"] ELSE conn
    /\ Apply(queue, Ending(dog.preserve), Now)
    /\ Rests /\ Quiet

Restored ==
    /\ dog.pc = "restoring" /\ conn.pc = "off"
    /\ dog' = [dog EXCEPT !.pc = "off"]
    /\ UNCHANGED <<option, up, state, desired, latch, wish, queue, run, conn, disc, toggle,
                   stops>>
    /\ Rests /\ Quiet

Watching ==
    \/ Tick \/ HealthSnapshot \/ Examined \/ Restored
    \/ \E ok, restores \in BOOLEAN : DogClaimed(ok) \/ DogStopped(ok, restores)

-----------------------------------------------------------------------------
(* The settings, and what fails by itself. *)

\* The switch is turned: the newer turn makes the older one forget its result.
Turn ==
    /\ ~strict /\ Event
    /\ option' = ~option
    /\ toggle' = [pc |-> "apply", value |-> option', arm |-> (state = "connected")]
    /\ settled' = FALSE
    /\ Apply([i \in DOMAIN queue |-> IF queue[i] = "toggle" THEN "nobody" ELSE queue[i]],
             Call(IF state = "connected" THEN On("connected") ELSE Off(FALSE), "toggle"), Now)
    /\ UNCHANGED <<World, policy, up, Shown, desired, conn, disc, made, late>>

\* The filtering engine of Windows restarts and takes the filters with it.
FiltersVanish ==
    /\ policy # "none" /\ Fault
    /\ policy' = "none" /\ settled' = FALSE
    /\ UNCHANGED <<World, option, up, Shown, desired, wish, queue, run, conn, disc, toggle, made, late>>

Dies ==
    /\ up /\ Fault
    /\ up' = FALSE
    /\ UNCHANGED <<World, option, policy, Shown, desired, wish, queue, run, settled, conn, disc,
                   toggle, made, late>>

\* Nothing is left to do.
Rest ==
    /\ queue = <<>> /\ conn.pc = "off" /\ disc = "off" /\ dog.pc = "off" /\ ~dog.on
    /\ UNCHANGED vars

Next ==
    \/ Reconcile \/ CommandFails
    \/ Connect \/ Reconnect \/ Connecting
    \/ Disconnect \/ Disconnects
    \/ Watching
    \/ Turn \/ FiltersVanish \/ Dies \/ Rest

\* Every command is answered and the timer of the watchdog fires; who holds the
\* runtime lets go of it at times.  Nobody has to click, and nothing has to fail.
Fairness ==
    /\ WF_vars(Reconcile) /\ WF_vars(Connecting) /\ WF_vars(Disconnects) /\ WF_vars(Watching)
    /\ SF_vars(DogClaimed(TRUE))

Spec == Init /\ [][Next]_vars /\ Fairness

-----------------------------------------------------------------------------
(* Properties *)

AtRest == queue = <<>> /\ conn.pc = "off" /\ disc = "off" /\ dog.pc = "off"

\* When the queue is empty and the last reconciliation was confirmed, Windows blocks
\* what was asked for last, under the option of now, whatever was asked, cancelled or
\* overtaken before (kill-switch.js:125).
QuietMeansApplied ==
    queue = <<>> /\ settled =>
        policy \in IF ~option \/ ~(wish.connected \/ wish.preserve) THEN {"none"}
                   ELSE IF wish.preserve THEN {"block", "tunnel"}
                   ELSE IF strict /\ wish.phase = "connected" THEN {"tunnel"}
                   ELSE {"block"}

\* main.js:3836: the program is not left idle with everything blocked and nobody that
\* knows of the block, whatever rearm, restore or failed shutdown there was before.
\* A click that crosses a shutdown is left out, of the user who disconnects or of one who
\* turns the switch off and on: see DisconnectOpens.
IdleIsOpen ==
    AtRest /\ state = "idle" /\ desired = "idle" /\ settled /\ ~late
        => policy = "none" \/ Required

\* docs/RELEASE_QUALIFICATION.md:89: from the moment the strict tunnel is connected until
\* the user disconnects, nothing but a fault lifts its block: no reconnect, death of the
\* core, failed shutdown, new attempt or reconciliation of an older wish (main.js:1101,
\* health-watchdog.js:341).
GuardOutlivesRuntime ==
    [][(strict /\ made /\ policy # "none" /\ policy' = "none") => faults' # faults]_vars

\* docs/RELEASE_QUALIFICATION.md:96: a block that is required and was lost is armed
\* again, or is not required any more, whoever is busy meanwhile.
LostIsRearmed ==
    elevated /\ Required /\ policy = "none" ~> policy # "none" \/ ~Required

-----------------------------------------------------------------------------
(* What the source says and the code does not do. *)

\* docs/RELEASE_QUALIFICATION.md:91: after an ordinary disconnect the blocking rules
\* are removed.  The shutdown of a failed or replaced connection waits for its block
\* and does not look at the intent again; when the user disconnects meanwhile, its
\* setState("idle", preserve) comes last and arms the block behind the disconnect.
DisconnectOpens ==
    AtRest /\ state = "idle" /\ desired = "idle" /\ settled => policy = "none" \/ Required

\* main.js:916: the guard is not left switched on while it guards nothing.  Switched
\* off and on again between the last snapshot and "connected", it is.
ConnectedIsGuarded ==
    AtRest /\ state = "connected" /\ option /\ elevated => Required
=============================================================================
