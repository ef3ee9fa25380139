---------------------------- MODULE SourceSwitch ----------------------------
(***************************************************************************)
(* Switching the active source (src/lib/source-activation.js and what      *)
(* src/main.js gives it): a choice is applied, the runtime reconnects with *)
(* it, the dataplane is verified, and what is refuted is taken back to the *)
(* last source that was known to work, while newer choices, the power      *)
(* button and the deletion of a source come in between.                    *)
(*                                                                         *)
(* A call of activate() is used once, so its sequence number is the call   *)
(* itself.  A step is what a call does from the answer of one await to the *)
(* next.  The commands of the coordinator are synchronous, the backend     *)
(* serves them in the order in which they are sent: they take effect in    *)
(* the step that sends them, and the answer comes in a later one.          *)
(*                                                                         *)
(* Abstractions.  The reconnect queue and the connection it runs (module   *)
(* NetworkFlow) are one run at a time that builds the configuration of the *)
(* selected source and succeeds or fails.  The state "connected" is not    *)
(* lost between a reconnect that succeeded and the continuation of who     *)
(* waits for it, which is run at once.                                     *)
(*                                                                         *)
(* An operator commented as a mistake is no part of the specification: it  *)
(* is what the definition after it must not be, and a property fails on it.*)
(***************************************************************************)
EXTENDS Naturals, FiniteSets

CONSTANTS
    Call,       \* calls of activate()
    NoCall,
    Source,     \* subscriptions and profiles
    NoSource,
    MaxEvents   \* a bound: how much comes in between

ASSUME SourceSwitchAssumption ==
    /\ NoCall \notin Call
    /\ NoSource \notin Source
    /\ MaxEvents \in Nat

\* The token of a call is that of the switch or that of its rollback, which is
\* an operation of its own.
Phase == {"target", "rollback"}
Token == [call : Call, phase : Phase]
NoToken == [call |-> NoCall, phase |-> "target"]
\* An operation of higher priority that is not a source switch.
Foreign == [call |-> NoCall, phase |-> "rollback"]

VARIABLES
    sources,   \* the sources that exist
    selected,  \* activeSourceRef()
    choice,    \* the source that was chosen last, if it was selected already
    desired,   \* networkIntent.desired()
    running,   \* the source of the runtime
    building,  \* the reconnect that is being run: its call and configuration
    pending,   \* pending: the call, and the token it has by now
    owner,     \* the active operation of the coordinator
    pc,        \* where each call awaits, or how it ended
    at,        \* the local variables of each call
    events     \* bound: what has come in between so far

vars == <<sources, selected, choice, desired, running, building, pending, owner, pc,
          at, events>>

\* Locals: target, fallback, the token that was granted, the phase, whether the
\* call is not to reconnect, and how it is to end once the store is saved.
Local == [target : Source \cup {NoSource}, fallback : Source \cup {NoSource},
          tok : Token \cup {NoToken}, phase : Phase, sole : BOOLEAN,
          end : {"ready", "unverified", "cancelled", "failed", "restored"}]
NoLocal == [target |-> NoSource, fallback |-> NoSource, tok |-> NoToken,
            phase |-> "target", sole |-> FALSE, end |-> "ready"]

Awaiting == {"begin", "queued", "building", "snapshot", "leader", "verify", "persist",
             "rollback"}
\* "same": the choice was selected already; "rejected": the promise is.
Ended == {"same", "ready", "stale", "busy", "unverified", "cancelled", "failed",
          "restored", "unrestored", "rejected"}

NoPending == [call |-> NoCall, tok |-> NoToken]
NoRun == [call |-> NoCall, source |-> NoSource]

TypeOK ==
    /\ sources \subseteq Source
    /\ selected \in sources \cup {NoSource}
    /\ choice \in Source \cup {NoSource}
    /\ desired \in {"idle", "connected"}
    /\ running \in Source \cup {NoSource}
    /\ building \in [call : Call \cup {NoCall}, source : Source \cup {NoSource}]
    /\ pending \in [call : Call \cup {NoCall}, tok : Token \cup {NoToken}]
    /\ owner \in Token \cup {NoToken, Foreign}
    /\ pc \in [Call -> {"new"} \cup Awaiting \cup Ended]
    /\ at \in [Call -> Local]
    /\ events \in 0 .. MaxEvents

\* Connected to the selected source, or not connected.
Init ==
    /\ sources = Source
    /\ selected \in Source
    /\ choice = NoSource
    /\ desired \in {"idle", "connected"}
    /\ running = IF desired = "connected" THEN selected ELSE NoSource
    /\ building = NoRun
    /\ pending = NoPending
    /\ owner = NoToken
    /\ pc = [c \in Call |-> "new"]
    /\ at = [c \in Call |-> NoLocal]
    /\ events = 0

-----------------------------------------------------------------------------
(* What the steps are made of. *)

Current(c) == pending.call = c
CanContinue == desired = "connected"

\* The source the phase of the call is about.
Goal(c) == IF at[c].phase = "target" THEN at[c].target ELSE at[c].fallback

\* A mistake: whether the source is still there is not asked.
AppliedAnyway(s) == s

\* applySource: an identifier that is in no list any more selects nothing.
Applied(s) == IF s \in sources THEN s ELSE NoSource

\* beginOperation(s) for token t: a switch supersedes a switch and whatever is
\* of lower priority.  A source that was deleted has no fingerprint.
Grants(s) == owner # Foreign /\ s \in sources
Granted(t, s) == IF Grants(s) THEN t ELSE NoToken
OwnerAfterBegin(t, s) == IF Grants(s) THEN t ELSE owner

\* complete and cancel give up the operation if it is still that of the token.
Released(t) == IF t # NoToken /\ owner = t THEN NoToken ELSE owner

Goes(c, to) == pc' = [pc EXCEPT ![c] = to]

\* The promise of the call is settled, and its locals are gone.
Ends(c, how) ==
    /\ Goes(c, how)
    /\ at' = [at EXCEPT ![c] = NoLocal]

\* The call saves the selection and ends as given.
Settles(c, end) ==
    /\ pending' = NoPending
    /\ at' = [at EXCEPT ![c].end = end]
    /\ Goes(c, "persist")
    /\ UNCHANGED <<selected, owner>>

\* The call gives the operation up and ends as given.
Drops(c, end) ==
    /\ pending' = NoPending
    /\ owner' = Released(at[c].tok)
    /\ Ends(c, end)
    /\ UNCHANGED selected

\* Someone else took over: nothing is touched.
IsStale(c) ==
    /\ Ends(c, "stale")
    /\ UNCHANGED <<selected, pending, owner>>

\* A mistake: the fallback is applied only once its operation is granted.
RollsBackLater(c) ==
    LET t == [call |-> c, phase |-> "rollback"]
        s == at[c].fallback
    IN  /\ selected' = IF Grants(s) THEN Applied(s) ELSE selected
        /\ owner' = OwnerAfterBegin(t, s)
        /\ at' = [at EXCEPT ![c].tok = Granted(t, s), ![c].phase = "rollback"]
        /\ Goes(c, "rollback")
        /\ UNCHANGED pending

\* The fallback is applied and an operation for it is asked for.
RollsBack(c) ==
    LET t == [call |-> c, phase |-> "rollback"]
        s == at[c].fallback
    IN  /\ selected' = Applied(s)
        /\ owner' = OwnerAfterBegin(t, s)
        /\ at' = [at EXCEPT ![c].tok = Granted(t, s), ![c].phase = "rollback"]
        /\ Goes(c, "rollback")
        /\ UNCHANGED pending

\* A mistake: a newer choice is noticed before the verifier is asked only.
DecidesAnyway(c, verdict) ==
    IF at[c].phase = "rollback"
    THEN IF verdict = "ready"
         THEN Settles(c, "restored")
         ELSE Drops(c, "unrestored")
    ELSE IF ~CanContinue THEN Settles(c, "cancelled")
    ELSE IF verdict \in {"ready", "unverified"} THEN Settles(c, verdict)
    ELSE IF verdict \in {"cancelled", "stale"} THEN Drops(c, verdict)
    ELSE IF at[c].fallback \in {NoSource, at[c].target} THEN Settles(c, "failed")
    ELSE RollsBack(c)

\* What the switch makes of its verdict.
Decides(c, verdict) ==
    IF ~Current(c) THEN IsStale(c)
    ELSE IF at[c].phase = "rollback"
    THEN IF verdict = "ready"
         THEN Settles(c, "restored")
         ELSE Drops(c, "unrestored")
    ELSE IF ~CanContinue THEN Settles(c, "cancelled")
    ELSE IF verdict \in {"ready", "unverified"} THEN Settles(c, verdict)
    ELSE IF verdict \in {"cancelled", "stale"} THEN Drops(c, verdict)
    ELSE IF at[c].fallback \in {NoSource, at[c].target} THEN Settles(c, "failed")
    ELSE RollsBack(c)

-----------------------------------------------------------------------------
(* activate(), from await to await. *)

\* applyActiveSource and the first segment of activate(), for a choice made
\* while the selection is `from`.  A switch in progress is superseded; its
\* fallback becomes that of the new one.
Chooses(c, s, from) ==
    /\ pc[c] = "new"
    /\ choice' = IF s = from THEN s ELSE NoSource
    /\ selected' = from
    /\ IF s = from
       THEN Ends(c, "same") /\ UNCHANGED <<pending, owner>>
       ELSE LET t == [call |-> c, phase |-> "target"]
                was == pending.call
            IN  /\ pending' = [call |-> c, tok |-> NoToken]
                /\ owner' = IF Grants(s) THEN t ELSE Released(pending.tok)
                /\ at' = [at EXCEPT ![c] =
                            [target |-> s,
                             fallback |-> IF was \in Call /\ at[was].fallback # NoSource
                                          THEN at[was].fallback ELSE from,
                             tok |-> Granted(t, s), phase |-> "target",
                             sole |-> ~CanContinue, end |-> "ready"]]
                /\ Goes(c, "begin")

Activate(c) ==
    /\ \E s \in sources : Chooses(c, s, selected)
    /\ UNCHANGED <<sources, desired, running, building, events>>

\* A mistake: the operation of a call that was overtaken is not given back.
BegunHolding(c) ==
    /\ pc[c] = "begin"
    /\ IF ~Current(c)
       THEN IsStale(c)
       ELSE IF at[c].tok = NoToken
       THEN Drops(c, "busy")
       ELSE /\ selected' = Applied(at[c].target)
            /\ IF at[c].sole
               THEN /\ pending' = NoPending
                    /\ Goes(c, "persist")
               ELSE /\ pending' = [call |-> c, tok |-> at[c].tok]
                    /\ Goes(c, "queued")
            /\ UNCHANGED <<owner, at>>
    /\ UNCHANGED <<sources, choice, desired, running, building, events>>

\* A mistake: what was granted is applied, whoever chose since.
BegunOver(c) ==
    /\ pc[c] = "begin"
    /\ IF at[c].tok = NoToken
       THEN Drops(c, "busy")
       ELSE /\ selected' = Applied(at[c].target)
            /\ IF at[c].sole
               THEN /\ pending' = NoPending
                    /\ Goes(c, "persist")
               ELSE /\ pending' = [pending EXCEPT !.tok = at[c].tok]
                    /\ Goes(c, "queued")
            /\ UNCHANGED <<owner, at>>
    /\ UNCHANGED <<sources, choice, desired, running, building, events>>

\* The answer of beginOperation.  A refused one leaves everything as it is.
Begun(c) ==
    /\ pc[c] = "begin"
    /\ IF ~Current(c)
       THEN /\ owner' = Released(at[c].tok)
            /\ Ends(c, "stale")
            /\ UNCHANGED <<selected, pending>>
       ELSE IF at[c].tok = NoToken
       THEN Drops(c, "busy")
       ELSE /\ selected' = Applied(at[c].target)
            /\ IF at[c].sole
               THEN /\ pending' = NoPending
                    /\ Goes(c, "persist")
               ELSE /\ pending' = [call |-> c, tok |-> at[c].tok]
                    /\ Goes(c, "queued")
            /\ UNCHANGED <<owner, at>>
    /\ UNCHANGED <<sources, choice, desired, running, building, events>>

\* reconnectCommittedSource does not reconnect: nobody wants to be connected, no
\* request can be made, or the request lost its place in the queue.
Refused(c) ==
    /\ pc[c] = "queued"
    /\ Decides(c, "hardFailed")
    /\ UNCHANGED <<sources, choice, desired, running, building, events>>

\* The queue runs the request of the call, unless a newer one took its place: the
\* configuration is built.
Build(c) ==
    /\ pc[c] = "queued"
    /\ \A d \in Call \ {c} : pc[d] = "queued" => ~Current(d)
    /\ building = NoRun /\ CanContinue
    /\ building' = [call |-> c, source |-> selected]
    /\ Goes(c, "building")
    /\ UNCHANGED <<sources, selected, choice, desired, running, pending, owner, at, events>>

\* The run has ended; the old runtime was stopped before the new one was started.
Built(c, up) ==
    /\ pc[c] = "building"
    /\ building' = NoRun
    /\ up => building.source # NoSource /\ CanContinue
    /\ running' = IF up THEN building.source ELSE NoSource
    /\ IF up /\ Current(c)
       THEN Goes(c, "snapshot") /\ UNCHANGED <<selected, pending, owner, at>>
       ELSE Decides(c, "hardFailed")
    /\ UNCHANGED <<sources, choice, desired, events>>

\* confirmActiveSourceDataplane has read the runtime.
Snapshot(c) ==
    /\ pc[c] = "snapshot"
    /\ IF ~Current(c) \/ selected # Goal(c) THEN Decides(c, "stale")
       ELSE IF running = NoSource THEN Decides(c, "hardFailed")
       ELSE /\ \E next \in {"leader", "verify"} : Goes(c, next)
            /\ UNCHANGED <<selected, pending, owner, at>>
    /\ UNCHANGED <<sources, choice, desired, running, building, events>>

\* The balancer of a subscription has measured a leader, or has not in time; the
\* runtime may have become another one meanwhile.
Leader(c, changed) ==
    /\ pc[c] = "leader"
    /\ IF ~Current(c) \/ changed
       THEN Decides(c, "stale")
       ELSE Goes(c, "verify") /\ UNCHANGED <<selected, pending, owner, at>>
    /\ UNCHANGED <<sources, choice, desired, running, building, events>>

\* verify_runtime_dataplane: the operation must be the active one and the runtime
\* that of the source the operation is for, in the generation of the snapshot, or the
\* answer is stale.  An error is unverified.  The verdict and the arrival of its answer
\* are one step: the runtime can be lost between them as it can be right after them,
\* and what the frontend looks at again, it looks at when the answer arrives (Decides).
Verified(c, verdict) ==
    /\ pc[c] = "verify"
    /\ verdict \in IF owner # at[c].tok THEN {"cancelled", "unverified"}
                   ELSE IF running = NoSource THEN {"hardFailed", "stale", "unverified"}
                   ELSE IF running # Goal(c) THEN {"stale", "unverified"}
                   ELSE {"ready", "hardFailed", "unverified", "cancelled", "stale"}
    /\ Decides(c, verdict)
    /\ UNCHANGED <<sources, choice, desired, running, building, events>>

\* The selection is saved and the operation completed (cancelled for a switch
\* that was), or the backup that was to close an update's journal is rejected.
Persisted(c, ok) ==
    /\ pc[c] = "persist"
    /\ IF ok THEN owner' = Released(at[c].tok) ELSE UNCHANGED owner
    /\ Ends(c, IF ok THEN at[c].end ELSE "rejected")
    /\ UNCHANGED <<sources, selected, choice, desired, running, building, pending, events>>

\* The answer of beginOperation for the fallback.
RollbackBegun(c) ==
    /\ pc[c] = "rollback"
    /\ IF ~Current(c)
       THEN /\ owner' = Released(at[c].tok)
            /\ Ends(c, "stale")
            /\ UNCHANGED <<selected, pending>>
       ELSE IF at[c].tok = NoToken
       THEN /\ pending' = NoPending
            /\ owner' = Released(pending.tok)
            /\ Ends(c, "unrestored")
            /\ UNCHANGED selected
       ELSE /\ pending' = [call |-> c, tok |-> at[c].tok]
            /\ Goes(c, "queued")
            /\ UNCHANGED <<selected, owner, at>>
    /\ UNCHANGED <<sources, choice, desired, running, building, events>>

-----------------------------------------------------------------------------
(* What happens around it. *)

Event == events < MaxEvents /\ events' = events + 1

\* sourceSwitchController.cancel()
Cancels ==
    /\ owner' = Released(pending.tok)
    /\ pending' = NoPending

\* The power button: the intent comes first, the disconnect some awaits later.
TurnOff ==
    /\ desired = "connected" /\ Event
    /\ desired' = "idle"
    /\ UNCHANGED <<sources, selected, choice, running, building, pending, owner, pc, at>>

Disconnect ==
    /\ desired = "idle"
    /\ pending # NoPending \/ running # NoSource
    /\ Cancels
    /\ running' = NoSource
    /\ UNCHANGED <<sources, selected, choice, desired, building, pc, at, events>>

TurnOn ==
    /\ desired = "idle" /\ Event
    /\ desired' = "connected"
    /\ UNCHANGED <<sources, selected, choice, running, building, pending, owner, pc, at>>

\* Another flow starts a runtime with what is selected, or the runtime dies.
Restart ==
    /\ building = NoRun /\ Event
    /\ running' \in (IF CanContinue THEN {selected} ELSE {}) \cup {NoSource}
    /\ running' # running
    /\ UNCHANGED <<sources, selected, choice, desired, building, pending, owner, pc, at>>

\* An operation of higher priority begins or ends.
Preempt ==
    /\ IF owner = Foreign
       THEN owner' = NoToken /\ UNCHANGED events
       ELSE owner' = Foreign /\ Event
    /\ UNCHANGED <<sources, selected, choice, desired, running, building, pending, pc, at>>

\* deleteSource of a source that is not the last one.  If it was selected, the
\* first that is left is activated in the same segment.
Delete(s) ==
    /\ s \in sources /\ sources # {s} /\ Event
    /\ sources' = sources \ {s}
    /\ IF s # selected
       THEN UNCHANGED <<selected, choice, pending, owner, pc, at>>
       ELSE \E c \in Call, next \in sources \ {s} : Chooses(c, next, NoSource)
    /\ UNCHANGED <<desired, running, building>>

\* Nothing is left to do.
Rest ==
    /\ \A c \in Call : pc[c] \in Ended
    /\ UNCHANGED vars

Answer(c) ==
    \/ Begun(c) \/ Refused(c) \/ Build(c) \/ Snapshot(c) \/ RollbackBegun(c)
    \/ \E up \in BOOLEAN : Built(c, up)
    \/ \E changed \in BOOLEAN : Leader(c, changed)
    \/ \E v \in {"ready", "hardFailed", "unverified", "cancelled", "stale"} : Verified(c, v)
    \/ \E ok \in BOOLEAN : Persisted(c, ok)

Next ==
    \/ \E c \in Call : Activate(c) \/ Answer(c)
    \/ TurnOff \/ Disconnect \/ TurnOn \/ Restart \/ Preempt
    \/ \E s \in Source : Delete(s)
    \/ Rest

Spec == Init /\ [][Next]_vars

-----------------------------------------------------------------------------
(* Properties *)

\* While a switch that has its operation is pending, what is selected is its
\* target, or its fallback from the moment the target is refuted: an older call,
\* whose begin or verdict comes late, never selects anything over a newer one
\* (source-activation.js:114 and :149).
PendingIsSelected ==
    \A c \in Call : Current(c) /\ pending.tok # NoToken => selected = Applied(Goal(c))

\* An operation of the coordinator never outlives the call that has it: whichever
\* way a call ends, is overtaken or cancelled, somebody gives its operation back
\* (source-activation.js:104, :115, :200, :243).  The promise of a backup that was
\* to close an update's journal is the one that may be rejected first (:127, :158).
OwnerIsAlive ==
    owner \in Token => pc[owner.call] \in Awaiting \cup {"rejected"}

\* What is reported as ready, or as restored, was verified in a runtime of that
\* very source, which is the selected one, by the latest switch
\* (source-activation.js:156, :224).
ReadyIsRunning ==
    [][\A c \in Call :
          /\ pc[c] # "persist" /\ pc'[c] = "persist"
          /\ at'[c].end \in {"ready", "restored"} /\ ~at[c].sole
          => /\ running = Goal(c) /\ selected = Goal(c)
             /\ Current(c)]_vars

\* A target that was refuted does not stay selected, whatever becomes of the
\* rollback (source-activation.js:187).
RefutedIsLeft ==
    [][\A c \in Call :
          /\ pc[c] # pc'[c]
          /\ \/ pc'[c] = "unrestored"
             \/ pc'[c] = "persist" /\ at'[c].end = "restored"
          => selected' # at[c].target]_vars

-----------------------------------------------------------------------------
(* What the source says and the code does not do. *)

\* The comment at source-activation.js:107: "Without this placeholder, two rapid
\* clicks could both pass `pending === null` and the older async begin would later
\* overwrite the newer intent."  Choosing the selected source again, while the
\* begin of another one is under way, is answered as ready at once and reserves
\* nothing: the older begin then overwrites it.
NewerChoiceStands ==
    choice # NoSource /\ pending = NoPending => selected \in {choice, NoSource}
=============================================================================
