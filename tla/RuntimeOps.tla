----------------------------- MODULE RuntimeOps -----------------------------
(***************************************************************************)
(* RuntimeOperationCoordinator (src-tauri/src/runtime_ops.rs): the single  *)
(* authority over changes of the VPN runtime.  A flow of the frontend (the *)
(* power button, a source switch, the watchdog, quality remediation) or a  *)
(* native command without a token begins an operation, keeps the token it  *)
(* gets, presents it with every command and gives it back at the end.      *)
(* Each method of the coordinator is one critical section of the `active`  *)
(* mutex, so each is one action.                                           *)
(*                                                                         *)
(* Abstractions.  The source fingerprint hash is a function of the         *)
(* fingerprint and is left out.  Time is the one question the code asks of *)
(* it: has the lease of the active operation run out.  The `cancelled`     *)
(* flag is set only in the critical sections that also remove or replace   *)
(* the operation it belongs to, so it is never seen set and is left out.   *)
(*                                                                         *)
(* An operator commented as a mistake is no part of the specification: it  *)
(* is what the definition after it must not be, and a property fails on it.*)
(***************************************************************************)
EXTENDS Naturals

CONSTANTS
    Flow,          \* the callers that begin operations
    Fingerprint,   \* the sources an operation may be about
    NoFingerprint, \* an operation that is about no source in particular
    NoToken,       \* what a flow holds when it has no token
    Generation,    \* the runtime generations a flow may have read
    MaxId          \* bound: operations begun in one behaviour

ASSUME RuntimeOpsAssumption ==
    /\ NoFingerprint \notin Fingerprint
    /\ MaxId \in Nat

Kind == {"UserConnect", "UserDisconnect", "SourceSwitch",
         "FrontendRecovery", "QualityRemediation"}

Priority(kind) ==
    CASE kind = "UserDisconnect"     -> 5
      [] kind \in {"SourceSwitch", "UserConnect"} -> 4
      [] kind = "FrontendRecovery"   -> 2
      [] kind = "QualityRemediation" -> 1

Token == [id: Nat \ {0}, kind: Kind, generation: Generation,
          fingerprint: Fingerprint \cup {NoFingerprint}]

ASSUME NoTokenAssumption == NoToken \notin Token

VARIABLES
    nextId,      \* next_id: the id of the last operation begun
    active,      \* the token of the active operation, or NoToken
    expired,     \* the active operation has outlived OPERATION_LEASE_MS
    held         \* the token each flow holds

vars == <<nextId, active, expired, held>>

TypeOK ==
    /\ nextId \in Nat
    /\ active \in Token \cup {NoToken}
    /\ expired \in BOOLEAN
    /\ held \in [Flow -> Token \cup {NoToken}]

Init ==
    /\ nextId = 0
    /\ active = NoToken
    /\ expired = FALSE
    /\ held = [f \in Flow |-> NoToken]

-----------------------------------------------------------------------------

\* authorize: the presented token is the token of the active operation.
Authorised(token) == token # NoToken /\ active = token

\* Mistake: a source switch is urgent enough to replace anything.
SupersedesAtOnce(kind) ==
    \/ expired
    \/ Priority(kind) > Priority(active.kind)
    \/ kind \in {"SourceSwitch", "UserDisconnect"}

\* May an operation of this kind take the runtime from the active one?
Supersedes(kind) ==
    \/ expired
    \/ Priority(kind) > Priority(active.kind)
    \/ kind = "SourceSwitch" /\ active.kind = "SourceSwitch"
    \/ kind = "UserDisconnect" /\ active.kind # "UserDisconnect"

\* Mistake: the id is taken before the counter moves, and the first is 0.
BeginFromZero(f, kind, gen, fingerprint) ==
    /\ nextId < MaxId
    /\ kind = "SourceSwitch" => fingerprint # NoFingerprint
    /\ active # NoToken => Supersedes(kind)
    /\ nextId' = nextId + 1
    /\ active' = [id |-> nextId, kind |-> kind, generation |-> gen,
                  fingerprint |-> fingerprint]
    /\ expired' = FALSE
    /\ held' = [held EXCEPT ![f] = active']

\* Mistake: a switch of the same source joins the one that is under way.
BeginJoins(f, kind, gen, fingerprint) ==
    LET joins == active # NoToken /\ kind = "SourceSwitch" /\ kind = active.kind
    IN
    /\ nextId < MaxId
    /\ kind = "SourceSwitch" => fingerprint # NoFingerprint
    /\ active # NoToken => Supersedes(kind)
    /\ nextId' = IF joins THEN nextId ELSE nextId + 1
    /\ active' = [id |-> nextId', kind |-> kind, generation |-> gen,
                  fingerprint |-> fingerprint]
    /\ expired' = FALSE
    /\ held' = [held EXCEPT ![f] = active']

\* begin, as called by begin_frontend_runtime_operation, by
\* begin_source_switch_operation (which insists on a target) and by
\* lifecycle_operation for a command that came without a token.  The
\* generation was read earlier and may be an old one.
Begin(f, kind, gen, fingerprint) ==
    /\ nextId < MaxId
    /\ kind = "SourceSwitch" => fingerprint # NoFingerprint
    /\ active # NoToken => Supersedes(kind)
    /\ nextId' = nextId + 1
    /\ active' = [id |-> nextId + 1, kind |-> kind, generation |-> gen,
                  fingerprint |-> fingerprint]
    /\ expired' = FALSE
    /\ held' = [held EXCEPT ![f] = active']

\* complete: ends the active operation if it is the one named by the token.
\* The flow drops its token whatever the answer.
Complete(f) ==
    /\ held[f] # NoToken
    /\ active' = IF active = held[f] THEN NoToken ELSE active
    /\ expired' = IF active = held[f] THEN FALSE ELSE expired
    /\ held' = [held EXCEPT ![f] = NoToken]
    /\ UNCHANGED nextId

\* Mistake: the superseded operation comes back when the flow that took its
\* place is done.
CancelRestores(f) ==
    /\ held[f] # NoToken
    /\ active = held[f]
    /\ \E token \in {held[g] : g \in Flow} \cup {NoToken} : active' = token
    /\ expired' = FALSE
    /\ UNCHANGED <<nextId, held>>

\* cancel: ends the active operation at once, so that it does not keep
\* suppressing a later one, while the flow that was cancelled still runs and
\* still holds its token.
Cancel(f) ==
    /\ held[f] # NoToken
    /\ active = held[f]
    /\ active' = NoToken
    /\ expired' = FALSE
    /\ UNCHANGED <<nextId, held>>

\* The monotonic clock passes the lease of the active operation.
LeaseRunsOut ==
    /\ active # NoToken
    /\ expired' = TRUE
    /\ UNCHANGED <<nextId, active, held>>

\* The WebView reloads, crashes or loses a task: a flow forgets its token
\* without telling the coordinator.
Forget(f) ==
    /\ held[f] # NoToken
    /\ held' = [held EXCEPT ![f] = NoToken]
    /\ UNCHANGED <<nextId, active, expired>>

Next ==
    \/ \E f \in Flow, kind \in Kind, gen \in Generation,
          fingerprint \in Fingerprint \cup {NoFingerprint} :
             Begin(f, kind, gen, fingerprint)
    \/ \E f \in Flow : Complete(f) \/ Cancel(f) \/ Forget(f)
    \/ LeaseRunsOut

Spec == Init /\ [][Next]_vars

-----------------------------------------------------------------------------

\* Of all the tokens that flows keep, at most one still commands the runtime:
\* authorize (runtime_ops.rs) never answers yes to two callers, however many
\* operations were superseded, cancelled or forgotten in between.
OneAuthority ==
    \A f, g \in Flow :
        Authorised(held[f]) /\ Authorised(held[g]) => f = g

\* A user who disconnects is not overruled: while its lease lasts, a
\* UserDisconnect operation gives way to no other operation and ends only when
\* its own token is completed or cancelled: an older flow that unwinds does not
\* end it, not even when every copy of its token is lost.
DisconnectPrevails ==
    [][ active # NoToken /\ active.kind = "UserDisconnect" /\ ~expired
        /\ active' # active
        => /\ active' = NoToken
           /\ \E f \in Flow : held[f] = active ]_vars

\* Automation never takes the runtime from a person: as long as the lease of
\* an operation of the user lasts, recovery and quality remediation wait.
AutomationYields ==
    [][ active # NoToken /\ ~expired /\ active' # active /\ active' # NoToken
        /\ active.kind \in {"UserConnect", "UserDisconnect", "SourceSwitch"}
        => active'.kind \notin {"FrontendRecovery", "QualityRemediation"} ]_vars

\* The coordinator keeps the promise of OneOwner: its operations are grants,
\* numbered by their ids.
ActiveId == IF active = NoToken THEN 0 ELSE active.id
Promise == INSTANCE OneOwner WITH granted <- nextId, owner <- ActiveId
KeepsPromise == Promise!Spec
=============================================================================
