---------------------------- MODULE NetworkFlow ----------------------------
(***************************************************************************)
(* Connecting, disconnecting and reconnecting in the frontend (src/main.js *)
(* with reconnect-queue.js, network-intent.js, connection-attempt.js,      *)
(* connection-start-barrier.js and runtime-idle-gate.js): the power button,*)
(* the debounced reconnect after an edit, the reconnect of a source switch *)
(* or of quality remediation and the recovery of the watchdog all drive    *)
(* one runtime through the same asynchronous functions and the same        *)
(* module-level variables.                                                 *)
(*                                                                         *)
(* JavaScript runs one segment at a time: a step is what a flow does from  *)
(* the answer of one await to the next.  Promise continuations run before  *)
(* any new event (Micro).  The answer of a command of the backend is read  *)
(* in the step that acts on it; starts and stops, which last seconds, are  *)
(* two steps each.                                                         *)
(*                                                                         *)
(* Abstractions.  Epochs, attempts and runtime identities are only ever    *)
(* asked "is this one still current", so what is kept is who would be told *)
(* yes.  Of the kill switch only the latch that must survive a stop is     *)
(* kept; its filters are the module Guard's and KillSwitch's.  The mode is *)
(* not kept: whether a step waits for elevation or for the system proxy is *)
(* open.  Configuration, selection and verification succeed or fail.       *)
(*                                                                         *)
(* An operator commented as a mistake is no part of the specification: it  *)
(* is what the definition after it must not be, and a property fails on it.*)
(***************************************************************************)
EXTENDS Naturals, FiniteSets

CONSTANTS
    Click,      \* calls of handleConnectionIntent that may be under way at once
    Runner,     \* the flow of the reconnect queue's run
    Automation,       \* the other flows: any of "watchdog", "bridge", "source", "quality"
    NoFlow,
    MaxEvents,  \* a bound: how much the user and the system may bring
    GuardOn     \* general.killSwitch is on, and the mode is not tun

ASSUME NetworkFlowAssumption ==
    /\ IsFiniteSet(Click)
    /\ Automation \subseteq {"watchdog", "bridge", "source", "quality"}
    /\ Runner \notin Click \cup Automation
    /\ Click \cap Automation = {}
    /\ NoFlow \notin Click \cup Automation \cup {Runner}
    /\ {"timer", "pending", "nothing"} \cap (Click \cup Automation \cup {Runner, NoFlow}) = {}
    /\ GuardOn \in BOOLEAN
    /\ MaxEvents \in Nat

Flow == Click \cup Automation \cup {Runner}
Holder == Flow \cup {"timer", "pending"}

\* An operation of the coordinator: whose, and of which kind.
Kind == {"UserConnect", "UserDisconnect", "SourceSwitch", "FrontendRecovery",
         "QualityRemediation"}
Operation == [flow: Flow, kind: Kind]
NoOp == [flow |-> NoFlow, kind |-> "UserConnect"]

\* A request in the queue: the flow that waits for its result, if any, and the
\* token it brings, if any.
Request == [by: Flow \cup {NoFlow}, tok: Operation \cup {NoOp}]
NoRequest == [by |-> Runner, tok |-> NoOp]

VARIABLES
    ui,        \* state
    early,     \* history: an attempt that ended before its start set it to "idle"
    desired,   \* networkIntent.desired()
    current,   \* who holds the current epoch of networkIntent
    attempt,   \* the flow whose connection attempt is current
    identity,  \* the flow whose runtime token is current
    need,      \* needsReconnect
    timer,     \* pendingReconnectTimer is armed
    orphan,    \* a timer is armed that pendingReconnectTimer no longer names
    latched,   \* the kill switch must survive the stop of the runtime
    pending,   \* the waiting request of the reconnect queue
    serving,   \* the request the queue's run serves
    clicked,   \* connectionIntentInFlight: its flow and kind
    barrier,   \* the flow whose start_singbox the start barrier tracks
    runtime,   \* the flow that started the backend's runtime, or none
    doomed,    \* the start that is under way in the backend was cancelled
    owner,     \* the active operation of the coordinator
    pc,        \* where each flow awaits
    at,        \* the local variables of each flow
    events     \* bound: what the user and the system have brought so far

intent == <<desired, current>>
session == <<attempt, identity>>
reconnect == <<need, timer, orphan, pending, serving>>
backend == <<runtime, doomed, owner>>
vars == <<ui, early, desired, current, attempt, identity, need, timer, orphan, latched,
          pending, serving, clicked, barrier, runtime, doomed, owner, pc, at, events>>

\* Locals: where shutdownCore returns to, the token the flow presents, whether
\* a start was pending when it began to stop (for the flow of a source switch:
\* whether the switch was cancelled), the flow whose start it waits for, whether
\* the guard is to be preserved, whether the backend accepted its command.
Local == [ret: {"none", "first", "second", "third", "replaced", "stale", "failed",
                "old", "late", "dead"},
          tok: Operation \cup {NoOp}, late: BOOLEAN, await: Flow \cup {NoFlow},
          keep: BOOLEAN, ok: BOOLEAN]
NoLocal == [ret |-> "none", tok |-> NoOp, late |-> FALSE, await |-> NoFlow,
            keep |-> FALSE, ok |-> FALSE]

\* Where the segment goes on without an await: a call that is made.
SyncPC == {"connect", "attempt", "dispatch", "down", "retreat", "caught",
           "reconnect"}
\* Continuations that are due as soon as the segment ends; of shutdownCore, the
\* stop confirmed or not.
MicroPC == {"run", "returned", "stopped", "unstopped"}
\* The awaits.
AwaitPC == {"guard", "stop", "toggle", "wait", "snapshot", "resnapshot", "release",
            "begin", "gate", "complete", "request", "observe", "adopt", "elevate",
            "prepare", "start", "topology", "select", "proxy", "arm", "final",
            "live", "lift", "undo"}

TypeOK ==
    /\ ui \in {"idle", "connecting", "connected", "disconnecting", "cleanup_error"}
    /\ desired \in {"idle", "connected"}
    /\ current \subseteq Holder
    /\ attempt \in Flow \cup {NoFlow}
    /\ identity \in Flow \cup {NoFlow}
    /\ {early, need, timer, orphan, latched, doomed} \subseteq BOOLEAN
    /\ pending \in Request \cup {NoRequest}
    /\ serving \in Request \cup {NoRequest}
    /\ clicked \in [flow: Click \cup {NoFlow}, kind: {"connect", "disconnect"}]
    /\ barrier \in Flow \cup {NoFlow}
    /\ runtime \in Flow \cup {NoFlow}
    /\ owner \in Operation \cup {NoOp}
    /\ pc \in [Flow -> {"idle"} \cup SyncPC \cup MicroPC \cup AwaitPC]
    /\ at \in [Flow -> Local]
    /\ events \in 0 .. MaxEvents

NoClick == [flow |-> NoFlow, kind |-> "connect"]

\* The application has started: with nothing running, or connected to the
\* runtime that it adopted or that an earlier reconnect has left.
Init ==
    /\ \E up \in BOOLEAN :
          /\ ui = IF up THEN "connected" ELSE "idle"
          /\ desired = IF up THEN "connected" ELSE "idle"
          /\ runtime = IF up THEN Runner ELSE NoFlow
          /\ attempt = runtime
          /\ latched = (up /\ GuardOn)
    /\ early = FALSE
    /\ current = {}
    /\ identity = NoFlow
    /\ need = FALSE
    /\ timer = FALSE
    /\ orphan = FALSE
    /\ pending = NoRequest
    /\ serving = NoRequest
    /\ clicked = NoClick
    /\ barrier = NoFlow
    /\ doomed = FALSE
    /\ owner = NoOp
    /\ pc = [f \in Flow |-> "idle"]
    /\ at = [f \in Flow |-> NoLocal]
    /\ events = 0

-----------------------------------------------------------------------------
\* What everything below is made of.

\* isCurrentNetworkIntent of an epoch that wants a connection, or none.
Fresh(h) == h \in current /\ desired = "connected"
FreshIdle(h) == h \in current /\ desired = "idle"

\* The attempt of a connect is still wanted.
Wanted(f) == Fresh(f) /\ attempt = f

Own(f) == [flow |-> f,
           kind |-> CASE f \in {"watchdog", "bridge"} -> "FrontendRecovery"
                      [] f = "source" -> "SourceSwitch"
                      [] OTHER -> "QualityRemediation"]

Priority(kind) ==
    CASE kind = "UserDisconnect"     -> 5
      [] kind \in {"SourceSwitch", "UserConnect"} -> 4
      [] kind = "FrontendRecovery"   -> 2
      [] kind = "QualityRemediation" -> 1

\* The coordinator grants an operation of this kind.
Grants(kind) == owner = NoOp \/ Priority(kind) > Priority(owner.kind)

\* lifecycle_operation: the token is presented, or an operation of the fallback
\* kind is begun for the time of the command.
Accepts(tok, kind) == IF tok = NoOp THEN Grants(kind) ELSE owner = tok
Charge(f, tok, kind) ==
    IF tok = NoOp /\ Grants(kind) THEN [flow |-> f, kind |-> kind] ELSE owner
Discharge(op) == IF owner = op THEN NoOp ELSE owner

StartUnderWay == \E f \in Flow : pc[f] = "start" /\ at[f].ok
StopUnderWay == \E f \in Flow : pc[f] \in {"stop", "undo"} /\ at[f].ok

\* setState, as far as the flows read what it changes.
Show(next, keep) ==
    /\ ui' = next
    /\ latched' = (latched /\ (keep \/ next \notin {"idle", "cleanup_error"}))
    /\ need' = (need /\ next # "idle")
    /\ timer' = (timer /\ next # "idle")
SetState(next, keep) == Show(next, keep) /\ early' = FALSE

screen == <<ui, early, latched, need, timer>>
queue == <<pending, serving>>
aside == <<orphan, clicked>>

Go(f, to) == pc' = [pc EXCEPT ![f] = to] /\ UNCHANGED at
GoWith(f, to, l) == pc' = [pc EXCEPT ![f] = to] /\ at' = [at EXCEPT ![f] = l]

\* The function that the flow is about returns; its caller is next.
Return(f) == Go(f, "returned")

\* shutdownCore is called; it will return to ret.
CallShutDown(f, ret, keep) ==
    GoWith(f, "down", [at[f] EXCEPT !.ret = ret, !.keep = keep])

-----------------------------------------------------------------------------
\* shutdownCore.

\* stop_singbox is sent: an accepted stop cancels the start under way.
SendStop(f, to, tok) ==
    LET accepted == Accepts(tok, "UserDisconnect") IN
    /\ GoWith(f, to, [at[f] EXCEPT !.ok = accepted])
    /\ owner' = Charge(f, tok, "UserDisconnect")
    /\ doomed' = (doomed \/ (accepted /\ StartUnderWay))
    /\ UNCHANGED runtime

\* stop_singbox answers: confirmed, or refused, or failed somehow.
StopAnswers(f, confirmed) ==
    /\ confirmed => at[f].ok
    /\ owner' = Discharge([flow |-> f, kind |-> "UserDisconnect"])
    /\ runtime' \in (IF at[f].ok THEN {NoFlow} ELSE {}) \cup (IF confirmed THEN {} ELSE {runtime})
    /\ UNCHANGED doomed

\* After the guard: every token of the session is void, the stop is sent.  The
\* replacement of a runtime that does not fit the settings brings no token.
StopCore(f) ==
    /\ ui' = "disconnecting"
    /\ early' = FALSE
    /\ attempt' = NoFlow
    /\ identity' = NoFlow
    /\ SendStop(f, "stop", IF at[f].ret = "replaced" THEN NoOp ELSE at[f].tok)

\* A guard that must survive the stop is confirmed first.
Down(f) ==
    /\ pc[f] = "down"
    /\ IF at[f].keep
       THEN Go(f, "guard") /\ UNCHANGED <<ui, early, session, backend>>
       ELSE StopCore(f)
    /\ UNCHANGED <<intent, latched, need, timer, queue, aside, barrier>>

Guard(f) ==
    /\ pc[f] = "guard"
    /\ \/ Go(f, "unstopped") /\ UNCHANGED <<ui, early, session, backend>>
       \/ StopCore(f)
    /\ UNCHANGED <<intent, latched, need, timer, queue, aside, barrier>>

Stop(f) ==
    /\ pc[f] = "stop"
    /\ \/ /\ StopAnswers(f, TRUE)
          /\ Go(f, "stopped")
          /\ IF at[f].ret \in {"first", "second", "third"}
             THEN UNCHANGED screen
             ELSE SetState("idle", at[f].keep)
       \/ /\ StopAnswers(f, FALSE)
          /\ Go(f, "unstopped")
          /\ SetState("cleanup_error", at[f].keep)
    /\ UNCHANGED <<intent, session, queue, aside, barrier>>

-----------------------------------------------------------------------------
\* connectNetwork.

Connect(f) ==
    /\ pc[f] = "connect"
    /\ IF Fresh(f) /\ ui = "idle" THEN Go(f, "observe") ELSE Return(f)
    /\ UNCHANGED <<screen, intent, session, queue, aside, barrier, backend>>

\* Idle on the screen need not mean idle in the backend.
Observe(f) ==
    /\ pc[f] = "observe"
    /\ \/ Return(f) /\ SetState("cleanup_error", latched)
       \/ ~Fresh(f) /\ Return(f) /\ UNCHANGED screen
       \/ /\ Fresh(f)
          /\ IF runtime # NoFlow
             THEN Go(f, "adopt")
             ELSE Go(f, "elevate") \/ Go(f, "attempt") \/ Return(f)
          /\ UNCHANGED screen
    /\ UNCHANGED <<intent, session, queue, aside, barrier, backend>>

\* A runtime that fits the settings is adopted, another one is replaced.
Adopt(f) ==
    /\ pc[f] = "adopt"
    /\ \/ /\ Fresh(f) /\ runtime # NoFlow
          /\ ui' = "connected"
          /\ early' = FALSE
          /\ latched' = GuardOn
          /\ identity' = NoFlow
          /\ Return(f)
       \/ /\ latched' = (latched \/ GuardOn)
          /\ CallShutDown(f, "replaced", GuardOn)
          /\ UNCHANGED <<ui, early, identity>>
    /\ UNCHANGED <<intent, attempt, need, timer, queue, aside, barrier, backend>>

Elevate(f) ==
    /\ pc[f] = "elevate"
    /\ (Fresh(f) /\ Go(f, "attempt")) \/ Return(f)
    /\ UNCHANGED <<screen, intent, session, queue, aside, barrier, backend>>

Attempt(f) ==
    /\ pc[f] = "attempt"
    /\ attempt' = f
    /\ ui' = "connecting"
    /\ early' = FALSE
    /\ Go(f, "prepare")
    /\ UNCHANGED <<latched, need, timer, intent, identity, queue, aside, barrier, backend>>

\* start_singbox is sent.  The coordinator and the gate of the backend accept
\* it or not.
SendStart(f) ==
    LET accepted == /\ Accepts(at[f].tok, "UserConnect")
                    /\ ~StartUnderWay /\ ~StopUnderWay /\ runtime = NoFlow
    IN
    /\ identity' = f
    /\ barrier' = f
    /\ GoWith(f, "start", [at[f] EXCEPT !.ok = accepted])
    /\ owner' = Charge(f, at[f].tok, "UserConnect")
    /\ doomed' = (doomed /\ ~accepted)
    /\ UNCHANGED runtime

\* Mistake: the check after the last await of the preparation is missing.
PrepareUnchecked(f) ==
    /\ pc[f] = "prepare"
    /\ \/ Go(f, "caught") /\ UNCHANGED <<screen, identity, barrier, backend>>
       \/ SendStart(f) /\ UNCHANGED screen
    /\ UNCHANGED <<intent, attempt, queue, aside>>

\* The preparation; after each of its awaits the attempt is checked.  It ends
\* early where WARP is wanted but not registered.
Prepare(f) ==
    /\ pc[f] = "prepare"
    /\ \/ Go(f, "caught") /\ UNCHANGED <<screen, identity, barrier, backend>>
       \/ /\ ~(Wanted(f) /\ ui = "connecting")
          /\ Return(f)
          /\ UNCHANGED <<screen, identity, barrier, backend>>
       \/ /\ Wanted(f) /\ ui = "connecting"
          /\ \/ /\ Show("idle", FALSE)
                /\ early' = TRUE
                /\ Return(f)
                /\ UNCHANGED <<identity, barrier, backend>>
             \/ /\ SendStart(f)
                /\ UNCHANGED screen
    /\ UNCHANGED <<intent, attempt, queue, aside>>

\* start_singbox answers.  One that a stop cancelled in its last steps answers
\* that it is up, but it is not.
Start(f) ==
    /\ pc[f] = "start"
    /\ barrier' = IF barrier = f THEN NoFlow ELSE barrier
    /\ owner' = IF at[f].tok = NoOp THEN Discharge([flow |-> f, kind |-> "UserConnect"])
                ELSE owner
    /\ doomed' = (doomed /\ ~at[f].ok)
    /\ \/ Go(f, "caught") /\ UNCHANGED <<identity, runtime>>
       \/ /\ at[f].ok
          /\ runtime' = IF doomed THEN runtime ELSE f
          /\ IF Wanted(f)
             THEN Go(f, "topology") /\ identity' = f
             ELSE Go(f, "retreat") /\ UNCHANGED identity
    /\ UNCHANGED <<screen, intent, attempt, queue, aside>>

Topology(f) ==
    /\ pc[f] = "topology"
    /\ IF Wanted(f) /\ identity = f
       THEN Go(f, "select") \/ Go(f, "caught")
       ELSE Go(f, "retreat")
    /\ UNCHANGED <<screen, intent, session, queue, aside, barrier, backend>>

\* The remembered node is selected; the mode needs the system proxy or not.
Select(f) ==
    /\ pc[f] = "select"
    /\ IF Wanted(f) /\ identity = f
       THEN Go(f, "proxy") \/ Go(f, "arm") \/ Go(f, "caught")
       ELSE CallShutDown(f, "stale", latched)
    /\ UNCHANGED <<screen, intent, session, queue, aside, barrier, backend>>

Proxy(f) ==
    /\ pc[f] = "proxy"
    /\ \/ Go(f, "caught")
       \/ ~Wanted(f) /\ Go(f, "retreat")
       \/ Wanted(f) /\ identity # f /\ CallShutDown(f, "stale", latched)
       \/ Wanted(f) /\ identity = f /\ Go(f, "arm")
    /\ UNCHANGED <<screen, intent, session, queue, aside, barrier, backend>>

\* The kill switch is part of what is asked for.
Arm(f) ==
    /\ pc[f] = "arm"
    /\ IF Fresh(f) /\ identity = f
       THEN \/ Go(f, "caught") /\ UNCHANGED latched
            \/ Go(f, "final") /\ latched' = GuardOn
       ELSE Go(f, "retreat") /\ UNCHANGED latched
    /\ UNCHANGED <<ui, early, need, timer, intent, session, queue, aside, barrier, backend>>

Final(f) ==
    /\ pc[f] = "final"
    /\ Go(f, "live") \/ Go(f, "caught")
    /\ UNCHANGED <<screen, intent, session, queue, aside, barrier, backend>>

\* Mistake: the connection is published without a look at the intent.
LiveUnasked(f) ==
    /\ pc[f] = "live"
    /\ \/ Go(f, "caught") /\ UNCHANGED <<ui, early, latched, identity>>
       \/ /\ runtime # NoFlow
          /\ ui' = "connected"
          /\ early' = FALSE
          /\ latched' = GuardOn
          /\ identity' = NoFlow
          /\ Go(f, "lift")
    /\ UNCHANGED <<need, timer, intent, attempt, queue, aside, barrier, backend>>

\* The endpoint of the runtime answers, or not; finalizeConnected.
Live(f) ==
    /\ pc[f] = "live"
    /\ \/ Go(f, "caught") /\ UNCHANGED <<ui, early, latched, identity>>
       \/ /\ runtime # NoFlow
          /\ IF Fresh(f) /\ identity = f
             THEN /\ ui' = "connected"
                  /\ early' = FALSE
                  /\ latched' = GuardOn
                  /\ identity' = NoFlow
                  /\ Go(f, "lift")
             ELSE Go(f, "retreat") /\ UNCHANGED <<ui, early, latched, identity>>
    /\ UNCHANGED <<need, timer, intent, attempt, queue, aside, barrier, backend>>

\* releaseTransitionBarrier answers.
Lift(f) ==
    /\ pc[f] = "lift"
    /\ Return(f)
    /\ UNCHANGED <<screen, intent, session, queue, aside, barrier, backend>>

\* stopCurrentOperation of an attempt that finds itself superseded ...
Retreat(f) ==
    /\ pc[f] = "retreat"
    /\ SendStop(f, "undo", at[f].tok)
    /\ UNCHANGED <<screen, intent, session, queue, aside, barrier>>

\* ... whose outcome no one asks for.
Undo(f) ==
    /\ pc[f] = "undo"
    /\ \E confirmed \in BOOLEAN : StopAnswers(f, confirmed)
    /\ Return(f)
    /\ UNCHANGED <<screen, intent, session, queue, aside, barrier>>

\* The catch: a superseded attempt leaves the screen alone.
Caught(f) ==
    /\ pc[f] = "caught"
    /\ IF Wanted(f) THEN CallShutDown(f, "failed", latched) ELSE Go(f, "retreat")
    /\ UNCHANGED <<screen, intent, session, queue, aside, barrier, backend>>

\* shutdownCore has returned to connectNetwork.
ConnectStopped(f) ==
    /\ pc[f] \in {"stopped", "unstopped"}
    /\ at[f].ret \in {"replaced", "stale", "failed"}
    /\ Return(f)
    /\ IF at[f].ret = "failed" /\ pc[f] = "unstopped" /\ ui # "cleanup_error"
       THEN SetState("cleanup_error", at[f].keep)
       ELSE UNCHANGED screen
    /\ UNCHANGED <<intent, session, queue, aside, barrier, backend>>

-----------------------------------------------------------------------------
\* createLatestWinsReconnectQueue over performAutoReconnectOnce.

\* enqueue: an idle queue runs the request at once; a busy one lets it wait and
\* tells the request it replaces that it was superseded.
Queued == IF pc[Runner] = "idle" THEN Runner ELSE "pending"
\* Mistake: a waiting request is filed under the queue and not under its caller.
EnqueueUnnamed(by, tok) ==
    LET idle == pc[Runner] = "idle" IN
    /\ serving' = IF idle THEN [by |-> by, tok |-> tok] ELSE serving
    /\ pending' = IF idle THEN pending ELSE [by |-> "pending", tok |-> tok]
    /\ pc' = [f \in Flow |-> IF f = by THEN "request"
                             ELSE IF idle /\ f = Runner THEN "run" ELSE pc[f]]
    /\ UNCHANGED at

Enqueue(by, tok) ==
    LET request == [by |-> by, tok |-> tok]
        idle == pc[Runner] = "idle"
    IN
    /\ serving' = IF idle THEN request ELSE serving
    /\ pending' = IF idle THEN pending ELSE request
    /\ pc' = [f \in Flow |-> IF f = by THEN "request"
                             ELSE IF idle /\ f = Runner THEN "run"
                             ELSE IF ~idle /\ pending # NoRequest /\ f = pending.by
                                  THEN "returned"
                             ELSE pc[f]]
    /\ UNCHANGED at

\* Mistake: the timer of an earlier edit is left alone.
SourceReconnectBesideTimer(by, tok) ==
    /\ desired' = "connected"
    /\ current' = {Queued}
    /\ need' = TRUE
    /\ Enqueue(by, tok)
    /\ UNCHANGED <<ui, early, latched, timer, session, aside, barrier, backend>>

\* beginSourceReconnect.
SourceReconnect(by, tok) ==
    /\ desired' = "connected"
    /\ current' = {Queued}
    /\ need' = TRUE
    /\ timer' = FALSE
    /\ Enqueue(by, tok)
    /\ UNCHANGED <<ui, early, latched, session, aside, barrier, backend>>

\* The debounced reconnect after an edit: scheduleAutoReconnect ...
Edit ==
    /\ ui \in {"connected", "connecting"}
    /\ desired' = "connected"
    /\ current' = {"timer"}
    /\ need' = TRUE
    /\ timer' = TRUE
    /\ UNCHANGED <<ui, early, latched, session, queue, aside, barrier, backend, pc, at>>

\* ... and its timer, which hands its epoch on.
TimerFires ==
    /\ timer
    /\ timer' = FALSE
    /\ current' = (current \ {"timer", Queued})
                  \cup (IF "timer" \in current THEN {Queued} ELSE {})
    /\ Enqueue(NoFlow, NoOp)
    /\ UNCHANGED <<ui, early, latched, need, desired, session, aside, barrier, backend>>

\* A change of the mode, of the nodes of the active source or of the resolver:
\* reconnectForSourceChange.
ModeChange ==
    /\ ui \in {"connected", "connecting", "disconnecting"}
    /\ SourceReconnect(NoFlow, NoOp)

\* performAutoReconnectOnce up to its first await.  The timer it forgets is not
\* cleared.
Run ==
    /\ pc[Runner] = "run"
    /\ timer' = FALSE
    /\ orphan' = (orphan \/ timer)
    /\ IF need /\ Fresh(Runner)
       THEN GoWith(Runner, IF serving.tok = NoOp THEN "begin" ELSE "dispatch",
                   [NoLocal EXCEPT !.tok = serving.tok, !.keep = latched])
       ELSE Return(Runner)
    /\ UNCHANGED <<ui, early, latched, need, intent, session, queue, clicked, barrier, backend>>

\* The retry after a failure; the timer that is armed already is cleared or not.
RetryIf(wanted, cleared) ==
    /\ timer' = (timer \/ wanted)
    /\ orphan' = (orphan \/ (wanted /\ timer /\ ~cleared))
    /\ current' = IF wanted THEN current \cup {"timer"} ELSE current

\* Mistake: a run that is refused an operation just ends.
RunBeginsOnce ==
    /\ pc[Runner] = "begin"
    /\ IF Grants("QualityRemediation")
       THEN /\ owner' = Own(Runner)
            /\ GoWith(Runner, "dispatch", [at[Runner] EXCEPT !.tok = Own(Runner)])
       ELSE Return(Runner) /\ UNCHANGED owner
    /\ UNCHANGED <<screen, intent, session, queue, aside, barrier, runtime, doomed>>

\* beginRuntimeOperation answers the run: without the operation it retries.
RunBegins ==
    /\ pc[Runner] = "begin"
    /\ IF Grants("QualityRemediation")
       THEN /\ owner' = Own(Runner)
            /\ GoWith(Runner, "dispatch", [at[Runner] EXCEPT !.tok = Own(Runner)])
            /\ UNCHANGED <<current, timer, orphan>>
       ELSE /\ Return(Runner)
            /\ RetryIf(need /\ Fresh(Runner), TRUE)
            /\ UNCHANGED owner
    /\ UNCHANGED <<ui, early, latched, need, desired, session, queue, clicked, barrier,
                   runtime, doomed>>

\* The run has an operation and goes on as the state of the screen demands.
Dispatch ==
    /\ pc[Runner] = "dispatch"
    /\ CASE ui = "disconnecting" ->
              /\ IF Fresh(Runner) THEN Go(Runner, "gate") ELSE Return(Runner)
              /\ UNCHANGED <<need, attempt>>
         [] ui = "idle" -> need' = FALSE /\ Go(Runner, "connect") /\ UNCHANGED attempt
         [] ui \in {"connected", "connecting"} ->
              /\ attempt' = NoFlow
              /\ GoWith(Runner, "down", [at[Runner] EXCEPT !.ret = "old",
                                                           !.late = barrier # NoFlow])
              /\ UNCHANGED need
         [] OTHER -> Return(Runner) /\ UNCHANGED <<need, attempt>>
    /\ UNCHANGED <<ui, early, latched, timer, intent, identity, queue, aside, barrier, backend>>

\* runtimeIdleGate resolves its waiter.
GateOpen == ~(ui = "disconnecting" /\ Fresh(Runner))
PassGate ==
    /\ pc[Runner] = "gate"
    /\ GateOpen
    /\ IF ui = "idle" /\ Fresh(Runner)
       THEN need' = FALSE /\ Go(Runner, "connect")
       ELSE UNCHANGED need /\ Return(Runner)
    /\ UNCHANGED <<ui, early, latched, timer, intent, session, queue, aside, barrier, backend>>

\* shutdownCore has returned to the run.  A stop that is not confirmed is
\* retried if the guard was to survive; a start that was pending is waited for
\* and stopped once more.
RunStopped ==
    LET l == at[Runner] IN
    /\ pc[Runner] \in {"stopped", "unstopped"}
    /\ IF pc[Runner] = "unstopped"
       THEN Return(Runner) /\ RetryIf(l.keep /\ Fresh(Runner), FALSE) /\ UNCHANGED need
       ELSE /\ UNCHANGED <<timer, orphan, current>>
            /\ IF l.ret = "old" /\ ~Fresh(Runner)
               THEN Return(Runner) /\ UNCHANGED need
               ELSE IF l.ret = "old" /\ l.late
               THEN GoWith(Runner, "wait", [l EXCEPT !.await = barrier]) /\ UNCHANGED need
               ELSE need' = FALSE /\ Go(Runner, "connect")
    /\ l.ret \in {"old", "late"}
    /\ UNCHANGED <<ui, early, latched, desired, session, queue, clicked, barrier, backend>>

\* coreStartBarrier.wait is over.
Awaited(f) == at[f].await \notin {g \in Flow : pc[g] = "start"}
RunWaited ==
    /\ pc[Runner] = "wait"
    /\ Awaited(Runner)
    /\ IF Fresh(Runner) THEN CallShutDown(Runner, "late", at[Runner].keep) ELSE Return(Runner)
    /\ UNCHANGED <<screen, intent, session, queue, aside, barrier, backend>>

\* canRun: is the waiting request still wanted?
CanRun == Fresh("pending") /\ need

\* The run ends: its requester has the result, and the waiting request is
\* started or cancelled (finalize).
RunEnds ==
    LET next == pending # NoRequest /\ CanRun
        freed == {serving.by} \cup (IF pending # NoRequest /\ ~CanRun THEN {pending.by} ELSE {})
    IN
    /\ serving' = IF next THEN pending ELSE NoRequest
    /\ pending' = NoRequest
    /\ current' = (current \ {Runner, "pending"}) \cup (IF next THEN {Runner} ELSE {})
    /\ pc' = [f \in Flow |-> IF f = Runner THEN IF next THEN "run" ELSE "idle"
                             ELSE IF f \in freed THEN "returned" ELSE pc[f]]
    /\ at' = [at EXCEPT ![Runner] = NoLocal]
    /\ UNCHANGED <<screen, desired, session, aside, barrier>>

\* Mistake: the finally that completes the operation is missing.
RunReturnedAtOnce ==
    /\ pc[Runner] = "returned"
    /\ RunEnds
    /\ UNCHANGED backend

\* performAutoReconnectOnce returns: an operation of its own is completed first.
RunReturned ==
    /\ pc[Runner] = "returned"
    /\ IF serving.tok = NoOp /\ at[Runner].tok # NoOp
       THEN /\ Go(Runner, "complete")
            /\ UNCHANGED <<screen, intent, session, queue, aside, barrier>>
       ELSE RunEnds
    /\ UNCHANGED backend

RunCompleted ==
    /\ pc[Runner] = "complete"
    /\ owner' = Discharge(Own(Runner))
    /\ RunEnds
    /\ UNCHANGED <<runtime, doomed>>

-----------------------------------------------------------------------------
\* The power button: handleConnectionIntent, userToggleNetwork and
\* disconnectNetwork.

\* Mistake: the waiting request is dropped and its caller hears nothing.
DisconnectSilently(f) ==
    /\ need' = FALSE
    /\ timer' = FALSE
    /\ pending' = NoRequest
    /\ attempt' = NoFlow
    /\ GoWith(f, "down", [NoLocal EXCEPT !.ret = "first", !.late = barrier # NoFlow])
    /\ UNCHANGED <<ui, early, latched, identity, orphan, serving, barrier, backend>>

\* disconnectNetwork up to its first await: cancelPendingReconnect, the source
\* switch is cancelled, shutdownCore is called without a token.
Disconnect(f) ==
    /\ need' = FALSE
    /\ timer' = FALSE
    /\ pending' = NoRequest
    /\ attempt' = NoFlow
    /\ pc' = [g \in Flow |-> IF g = f THEN "down"
                             ELSE IF pending # NoRequest /\ g = pending.by THEN "returned"
                             ELSE pc[g]]
    /\ at' = [g \in Flow |-> IF g = f THEN [NoLocal EXCEPT !.ret = "first",
                                                           !.late = barrier # NoFlow]
                             ELSE IF g = "source" /\ pc[g] = "begin"
                                  THEN [at[g] EXCEPT !.late = TRUE]
                             ELSE at[g]]
    /\ UNCHANGED <<ui, early, latched, identity, orphan, serving, barrier, backend>>

\* The first click of a series asks what to do ...
ClickFirst(f) ==
    /\ pc[f] = "idle"
    /\ clicked = NoClick
    /\ clicked' = [flow |-> f, kind |-> IF ui = "idle" /\ ~need THEN "connect"
                                        ELSE "disconnect"]
    /\ desired' = "idle"
    /\ current' = {f}
    /\ Go(f, "toggle")
    /\ UNCHANGED <<screen, session, queue, orphan, barrier, backend>>

\* ... one during a connect cancels it; one during a disconnect joins it.
ClickAgain(f) ==
    /\ pc[f] = "idle"
    /\ clicked # NoClick
    /\ clicked.kind = "connect"
    /\ ui # "disconnecting"
    /\ clicked' = [flow |-> f, kind |-> "disconnect"]
    /\ desired' = "idle"
    /\ current' = {f}
    /\ Disconnect(f)

\* userToggleNetwork has its snapshot, or none.
Toggle(f) ==
    /\ pc[f] = "toggle"
    /\ IF ~FreshIdle(f)
       THEN /\ Return(f)
            /\ UNCHANGED <<desired, clicked, screen, queue, orphan, session, barrier, backend>>
       ELSE \E snapshot \in BOOLEAN :
              IF \/ snapshot /\ (runtime # NoFlow \/ StartUnderWay)
                 \/ barrier # NoFlow \/ pc[Runner] # "idle" \/ ui # "idle" \/ need
              THEN /\ Disconnect(f)
                   /\ clicked' = IF clicked.flow = f THEN [clicked EXCEPT !.kind = "disconnect"]
                                 ELSE clicked
                   /\ UNCHANGED desired
              ELSE /\ desired' = "connected"
                   /\ Go(f, "connect")
                   /\ clicked' = IF clicked.flow = f THEN [clicked EXCEPT !.kind = "connect"]
                                 ELSE clicked
                   /\ UNCHANGED <<screen, queue, orphan, session, barrier, backend>>
    /\ UNCHANGED current

\* finalizeStoppedRuntime: whoever set "disconnecting" ends it.
Finalize(f) ==
    /\ Return(f)
    /\ IF ui = "disconnecting" THEN SetState("idle", FALSE) ELSE UNCHANGED screen

\* shutdownCore has returned to disconnectNetwork.
ClickStopped(f) ==
    /\ pc[f] \in {"stopped", "unstopped"}
    /\ at[f].ret \in {"first", "second", "third"}
    /\ IF pc[f] = "unstopped" THEN Return(f) /\ UNCHANGED screen
       ELSE IF at[f].ret = "first" /\ at[f].late
       THEN GoWith(f, "wait", [at[f] EXCEPT !.await = barrier]) /\ UNCHANGED screen
       ELSE IF at[f].ret = "third" THEN Go(f, "resnapshot") /\ UNCHANGED screen
       ELSE IF FreshIdle(f) THEN Go(f, "snapshot") /\ UNCHANGED screen
       ELSE Finalize(f)
    /\ UNCHANGED <<intent, session, queue, aside, barrier, backend>>

\* The start that was pending has ended: a late runtime is stopped once more.
ClickWaited(f) ==
    /\ pc[f] = "wait"
    /\ Awaited(f)
    /\ IF FreshIdle(f) THEN CallShutDown(f, "second", FALSE) ELSE Return(f)
    /\ UNCHANGED <<screen, intent, session, queue, aside, barrier, backend>>

\* runtime_snapshot answers, or fails.
Snapshot(f) ==
    /\ pc[f] = "snapshot"
    /\ \/ /\ Return(f)
          /\ SetState("cleanup_error", FALSE)
       \/ /\ runtime # NoFlow \/ StartUnderWay
          /\ CallShutDown(f, "third", FALSE)
          /\ UNCHANGED screen
       \/ /\ runtime = NoFlow /\ ~StartUnderWay /\ FreshIdle(f)
          /\ Go(f, "release")
          /\ UNCHANGED screen
    /\ UNCHANGED <<intent, session, queue, aside, barrier, backend>>

Resnapshot(f) ==
    /\ pc[f] = "resnapshot"
    /\ \/ /\ Return(f)
          /\ SetState("cleanup_error", FALSE)
       \/ /\ runtime = NoFlow /\ ~StartUnderWay /\ FreshIdle(f)
          /\ Go(f, "release")
          /\ UNCHANGED screen
    /\ UNCHANGED <<intent, session, queue, aside, barrier, backend>>

\* The kill switch is released, or not.
Release(f) ==
    /\ pc[f] = "release"
    /\ \/ Return(f) /\ SetState("cleanup_error", latched)
       \/ FreshIdle(f) /\ Return(f) /\ SetState("idle", FALSE)
       \/ ~FreshIdle(f) /\ Finalize(f)
    /\ UNCHANGED <<intent, session, queue, aside, barrier, backend>>

\* handleConnectionIntent ends.
ClickReturned(f) ==
    /\ pc[f] = "returned"
    /\ GoWith(f, "idle", NoLocal)
    /\ clicked' = IF clicked.flow = f THEN NoClick ELSE clicked
    /\ current' = current \ {f}
    /\ UNCHANGED <<screen, desired, session, queue, orphan, barrier, backend>>

-----------------------------------------------------------------------------
\* The watchdog, and the flows that ask for a reconnect with an operation of
\* their own: the watchdog for a bridge, a source switch, quality remediation.

Begin(f) ==
    /\ pc[f] = "idle"
    /\ CASE f = "watchdog" -> ui = "connected" /\ runtime = NoFlow
         [] f = "bridge"   -> ui = "connected" /\ runtime # NoFlow
         [] f = "quality"  -> ui = "connected"
         [] f = "source"   -> desired = "connected"
    /\ Go(f, "begin")
    /\ UNCHANGED <<screen, intent, session, queue, aside, barrier, backend>>

\* The operation is begun or refused.  The screen is not looked at again.
Begun(f) ==
    LET l == [at[f] EXCEPT !.tok = Own(f)] IN
    /\ pc[f] = "begin"
    /\ IF ~Grants(Own(f).kind)
       THEN GoWith(f, "idle", NoLocal) /\ UNCHANGED <<owner, identity>>
       ELSE /\ owner' = Own(f)
            /\ CASE f = "watchdog" ->
                      /\ GoWith(f, "down", [l EXCEPT !.ret = "dead", !.keep = latched])
                      /\ UNCHANGED identity
                 [] f = "source" ->
                      IF l.late THEN GoWith(f, "complete", l) /\ UNCHANGED identity
                      ELSE GoWith(f, "reconnect", l) /\ identity' = NoFlow
                 [] f = "quality" ->
                      /\ GoWith(f, IF desired = "connected" /\ ui = "connected"
                                   THEN "reconnect" ELSE "complete", l)
                      /\ UNCHANGED identity
                 [] f = "bridge" -> GoWith(f, "reconnect", l) /\ UNCHANGED identity
    /\ UNCHANGED <<screen, intent, attempt, queue, aside, barrier, runtime, doomed>>

\* shutdownCore has returned to the watchdog; a restore costs from its budget.
WatchdogStopped(f) ==
    /\ pc[f] \in {"stopped", "unstopped"}
    /\ at[f].ret = "dead"
    /\ (pc[f] = "stopped" /\ Go(f, "reconnect")) \/ Go(f, "complete")
    /\ UNCHANGED <<screen, intent, session, queue, aside, barrier, backend>>

\* reconnectCommittedSource: the queue, or a connect of its own.
Reconnect(f) ==
    /\ pc[f] = "reconnect"
    /\ IF desired = "connected" /\ ui \in {"connected", "connecting", "disconnecting"}
       THEN SourceReconnect(f, at[f].tok)
       ELSE /\ IF desired = "connected" /\ ui = "idle"
               THEN current' = {f} /\ Go(f, "connect")
               ELSE Go(f, "complete") /\ UNCHANGED current
            /\ UNCHANGED <<desired, screen, session, queue, aside, barrier, backend>>

AutoReturned(f) ==
    /\ pc[f] = "returned"
    /\ Go(f, "complete")
    /\ UNCHANGED <<screen, intent, session, queue, aside, barrier, backend>>

\* complete_frontend_runtime_operation, or the cancel of a source switch.
Completed(f) ==
    /\ pc[f] = "complete"
    /\ owner' = Discharge(Own(f))
    /\ current' = current \ {f}
    /\ GoWith(f, "idle", NoLocal)
    /\ UNCHANGED <<screen, desired, session, queue, aside, barrier, runtime, doomed>>

\* The core dies, or a stop of the backend's own takes it down.
CoreDies ==
    /\ runtime # NoFlow
    /\ runtime' = NoFlow
    /\ UNCHANGED <<screen, intent, session, queue, aside, barrier, doomed, owner, pc, at>>

-----------------------------------------------------------------------------

\* What a segment goes on with.
Synchronous(f) ==
    \/ Connect(f) \/ Attempt(f) \/ Down(f) \/ Retreat(f) \/ Caught(f) \/ Reconnect(f)
    \/ f = Runner /\ Dispatch
SyncReady == \E f \in Flow : pc[f] \in SyncPC

\* Continuations of promises that are settled.
Micro(f) ==
    \/ ConnectStopped(f)
    \/ f = Runner /\ (Run \/ PassGate \/ RunStopped \/ RunWaited \/ RunReturned)
    \/ f \in Click /\ (ClickStopped(f) \/ ClickWaited(f) \/ ClickReturned(f))
    \/ f \in Automation /\ (WatchdogStopped(f) \/ AutoReturned(f))
MicroReady ==
    \E f \in Flow : \/ pc[f] \in MicroPC
                    \/ pc[f] = "wait" /\ Awaited(f)
                    \/ pc[f] = "gate" /\ GateOpen

\* Answers of the backend.
Answer(f) ==
    \/ Guard(f) \/ Stop(f) \/ Observe(f) \/ Adopt(f) \/ Elevate(f) \/ Prepare(f)
    \/ Start(f) \/ Topology(f) \/ Select(f) \/ Proxy(f) \/ Arm(f) \/ Final(f)
    \/ Live(f) \/ Lift(f) \/ Undo(f)
    \/ f = Runner /\ (RunBegins \/ RunCompleted)
    \/ f \in Click /\ (Toggle(f) \/ Snapshot(f) \/ Resnapshot(f) \/ Release(f))
    \/ f \in Automation /\ (Begun(f) \/ Completed(f))

\* What the user, the clock and the system bring.
Event ==
    /\ events < MaxEvents
    /\ events' = events + 1
    /\ \/ \E f \in Click : ClickFirst(f) \/ ClickAgain(f)
       \/ \E f \in Automation : Begin(f)
       \/ Edit \/ ModeChange \/ CoreDies

\* Nothing is left to be done.  A run that waits for the end of "disconnecting"
\* may wait for good, and with it who waits for the run.
Waits(f) ==
    \/ pc[f] = "idle"
    \/ f = Runner /\ pc[f] = "gate"
    \/ f \in Automation /\ pc[f] = "request" /\ pc[Runner] = "gate"
Rest ==
    /\ events = MaxEvents
    /\ \A f \in Flow : Waits(f)
    /\ ~timer
    /\ UNCHANGED vars

Next ==
    IF SyncReady THEN (\E f \in Flow : Synchronous(f)) /\ UNCHANGED events
    ELSE IF MicroReady THEN (\E f \in Flow : Micro(f)) /\ UNCHANGED events
    ELSE \/ (\E f \in Flow : Answer(f)) /\ UNCHANGED events
         \/ TimerFires /\ UNCHANGED events
         \/ Event
         \/ Rest

Spec == Init /\ [][Next]_vars

-----------------------------------------------------------------------------
\* Properties.

\* Every flow is done and no timer is armed.
AtRest == (\A f \in Flow : pc[f] = "idle") /\ ~timer

\* cancelPendingReconnect (main.js:1088) can cancel every timer that is armed: a run forgets
\* pendingReconnectTimer without clearing it, and several flows arm it, but it
\* never stands for two timers.
NoOrphanTimer == ~orphan

\* However clicks, edits, switches and the watchdog cut across each other: when
\* all is done, a screen that says idle, or a user who wanted to be
\* disconnected, means that no runtime is up, or the screen tells of the
\* failure.  The one "idle" that promises nothing is that of an attempt that
\* ends because WARP is wanted and not registered (main.js:3463): it does not
\* ask what an attempt that it has overtaken leaves behind.
IdleMeansStopped ==
    AtRest /\ ((ui = "idle" /\ ~early) \/ desired = "idle") =>
        runtime = NoFlow \/ ui = "cleanup_error"

\* finalizeConnected (main.js:3329): an attempt that was overtaken anywhere between its start and
\* its end never ends with "connected" on the screen of a user who wanted to be
\* disconnected.
ConnectedIsIntended == AtRest /\ ui = "connected" => desired = "connected"

\* When all is done no operation is held, no start is tracked and none is to be
\* cancelled: whoever was overtaken has given back what he took.
NothingLeftOver == AtRest => owner = NoOp /\ barrier = NoFlow /\ ~doomed

\* A change that asks for a reconnect is not forgotten with its mark set: when
\* all is done the mark is gone, or a failed cleanup is shown.
ChangeIsApplied == AtRest /\ need => ui = "cleanup_error"

\* reconnect-queue.js: the queue keeps the promise of LatestWins to the flows
\* that wait for the result of their reconnect.
By(request) == IF request = NoRequest THEN "nothing" ELSE request.by
Queue == INSTANCE LatestWins
    WITH Caller <- Automation, Nobody <- NoFlow, Nothing <- "nothing",
         served <- By(serving), waiting <- By(pending),
         asking <- {f \in Automation : pc[f] = "request"}
QueueKeepsPromise == Queue!Spec

-----------------------------------------------------------------------------
\* What comments of the source say and the code does not keep.

\* main.js:1213: a newer request that came during "disconnecting" starts at idle and
\* is not lost.
WaitingRequestIsServed ==
    [][pending # NoRequest /\ serving' # serving /\ Fresh("pending")
          => serving' = pending]_vars

\* main.js:3796: who set "disconnecting" has to end it.
DisconnectingIsEnded ==
    ui = "disconnecting" =>
        \E f \in Flow : pc[f] \in {"down", "guard", "stop", "stopped", "unstopped", "wait",
                                   "snapshot", "resnapshot", "release"}

\* main.js:1040: a barrier that is confirmed lives until the new runtime is ready; only
\* a disconnect drops it.
LatchOutlivesReconnect ==
    [][latched /\ ~latched' =>
          \E f \in Click : pc[f] \in {"stop", "stopped", "snapshot", "resnapshot",
                                      "release"}]_vars
=============================================================================
