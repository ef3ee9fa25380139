---------------------------- MODULE SystemProxy ----------------------------
(***************************************************************************)
(* The proxy setting of Windows (src-tauri/src/proxy_win.rs) and those who *)
(* change it: the command that puts a runtime behind it and the stop that  *)
(* takes it away (src-tauri/src/vpn.rs), the attempt of the frontend that  *)
(* asks for it (src/main.js, src/lib/system-proxy-runtime.js), the launch  *)
(* that recovers from a crash, the exit, and other programs.               *)
(*                                                                         *)
(* The setting is several values in the registry and no lock is held: each *)
(* write is a step, and the program may die before any of them.  What a    *)
(* call reads it reads at once.  The four values of a saved setting count  *)
(* as one, since they are looked at only under SavedProxyValid, which is   *)
(* written after them.  An endpoint is an address; it may be that of an    *)
(* earlier runtime, and that of the old versions (Legacy).                 *)
(*                                                                         *)
(* Abstractions.  Processes that are killed die, ports are released (see   *)
(* RuntimeLifecycle).  The operation of an attempt is current as long as   *)
(* nobody disconnected (see RuntimeOps).  What an attempt does before it   *)
(* asks for the proxy is one step; what it does after it is module         *)
(* NetworkFlow's.                                                          *)
(*                                                                         *)
(* An operator commented as a mistake is no part of the specification: it  *)
(* is what the definition after it must not be, and a property fails on it.*)
(***************************************************************************)
EXTENDS Naturals, Sequences

CONSTANTS
    Attempt,    \* attempts to connect
    NoAttempt,
    Endpoint,   \* loopback addresses of the listener
    Legacy,     \* LEGACY_PROXY_SERVER
    NoEndpoint,
    User,       \* what other programs put into the setting: address and exceptions
    MaxEvents,  \* a bound: clicks, other programs, launches
    MaxFaults   \* a bound: writes that fail, crashes, damage to the saved setting

ASSUME SystemProxyAssumption ==
    /\ Legacy \in Endpoint
    /\ NoAttempt \notin Attempt
    /\ NoEndpoint \notin Endpoint \cup User
    /\ Endpoint \cap User = {}
    /\ {"ninety"} \cap User = {}
    /\ {"user", "host"} \cap Attempt = {}
    /\ MaxEvents \in Nat /\ MaxFaults \in Nat

VARIABLES
    reg,      \* the registry
    theirs,   \* the setting as it stood after another program changed it last
    core,     \* the endpoint at which a core listens
    runtime,  \* the published runtime
    wanted,   \* the attempt that is current
    doomed,   \* the core was killed and is not dead yet
    pc, at,   \* how far everybody is, with the locals
    call,     \* the writes of everybody
    torn,     \* what happened that the properties except: "ninety", writes of calls overlapped,
              \* were cut off or failed half way; "other", another program wrote in the middle of
              \* a call or wrote what looks like ours, or a call saved over what it wrote;
              \* "shared", another program left our address in a setting of its own
    events, faults

vars == <<reg, theirs, core, runtime, wanted, doomed, pc, at, call, torn, events, faults>>

\* "user" is the stop of an ordinary disconnect, "host" the launch and the exit.
Caller == Attempt \cup {"user", "host"}

\* ProxyEnable, ProxyServer and ProxyOverride; the lists of Ninety are one.
Setting == [enable : BOOLEAN, server : Endpoint \cup User, override : {"ninety"} \cup User]
Theirs == {[enable |-> on, server |-> u, override |-> u] : on \in BOOLEAN, u \in User}
Damaged == [enable |-> FALSE, server |-> NoEndpoint, override |-> "ninety"]
SettingIn(r) == [enable |-> r.enable, server |-> r.server, override |-> r.override]
Ours(e) == [enable |-> TRUE, server |-> e, override |-> "ninety"]
Off(e) == [enable |-> FALSE, server |-> e, override |-> "ninety"]
MarkOf(e) == IF e = NoEndpoint THEN Legacy ELSE e

Runtime == [by : Attempt \cup {NoAttempt}, at : Endpoint \cup {NoEndpoint}, proxied : BOOLEAN]
NoRuntime == [by |-> NoAttempt, at |-> NoEndpoint, proxied |-> FALSE]

\* What a call has yet to write, and what it writes instead when that fails.  A
\* write that fails ends the call, starts its undoing or is ignored.
Write(key, val, otherwise) == [key |-> key, val |-> val, otherwise |-> otherwise]
Idle == [todo |-> <<>>, undo |-> <<>>, ok |-> TRUE]
NoLocal == [goal |-> NoEndpoint, last |-> FALSE, owned |-> FALSE]

Stopping == {"killed", "restore", "wait"}
PC == {"off", "validate", "connect", "look", "set", "listen", "unset", "ok", "failed", "retreat",
       "queue", "boot", "launch", "exit"} \cup Stopping

TypeOK ==
    /\ [reg EXCEPT !.saved = Damaged]
         \in [enable : BOOLEAN, server : Endpoint \cup User, override : {"ninety"} \cup User,
              saved : {Damaged}, valid : BOOLEAN, active : Endpoint \cup {NoEndpoint}]
    /\ reg.saved \in Setting \cup {Damaged}
    /\ theirs \in Setting
    /\ core \in Endpoint \cup {NoEndpoint}
    /\ runtime \in Runtime
    /\ wanted \in Attempt \cup {NoAttempt}
    /\ doomed \in BOOLEAN
    /\ pc \in [Caller -> PC]
    /\ at \in [Caller -> [goal : Endpoint \cup {NoEndpoint}, last : BOOLEAN, owned : BOOLEAN]]
    /\ torn \subseteq {"ninety", "other", "shared"}
    /\ \A w \in Caller : call[w].ok \in BOOLEAN /\ Len(call[w].todo) <= 6
    /\ events \in 0 .. MaxEvents
    /\ faults \in 0 .. MaxFaults

-----------------------------------------------------------------------------
\* What the calls write.

Forget == <<Write("valid", FALSE, "ignore"), Write("active", NoEndpoint, "ignore")>>

\* A mistake: the list of exceptions of the user is not put back.
RestoresProxyOnly(s) ==
    <<Write("server", s.server, "end"), Write("enable", s.enable, "end")>>

\* restore_proxy_settings: ProxyEnable comes last.
RestoresSetting(s) ==
    <<Write("server", s.server, "end"), Write("override", s.override, "end"),
      Write("enable", s.enable, "end")>>

Restores(s) ==
    RestoresSetting(s) \o <<Write("valid", FALSE, "end"), Write("active", NoEndpoint, "ignore")>>

\* proxy_recovery_action: the setting is ours if it is on with our list and at the
\* endpoint that is marked, or at that of the old versions, which had no mark.
Intact(r) == r.valid /\ r.saved # Damaged
OnWithOurList(r) == r.enable /\ r.override = "ninety"
Recovery(r) ==
    IF OnWithOurList(r) /\ r.server = r.active /\ ~Intact(r)
    THEN <<Write("enable", FALSE, "end")>> \o Forget
    ELSE IF /\ OnWithOurList(r) /\ Intact(r)
            /\ r.server = MarkOf(r.active)
         THEN Restores(r.saved)
         ELSE Forget

\* save_proxy_snapshot: only the setting before the first of several is saved.
Saves(r) ==
    IF r.valid THEN <<>>
    ELSE <<Write("saved", SettingIn(r), "end"), Write("valid", TRUE, "end")>>

\* A mistake: the address and the list are swapped.
AppliesSwapped(e) ==
    <<Write("active", e, "undo"), Write("server", "ninety", "undo"),
      Write("override", e, "undo"), Write("enable", TRUE, "undo")>>

Applies(e) ==
    <<Write("active", e, "undo"), Write("server", e, "undo"),
      Write("override", "ninety", "undo"), Write("enable", TRUE, "undo")>>

\* rollback_failed_enable, from what capture_enable_rollback read.
Undoes(r) ==
    RestoresSetting(SettingIn(r)) \o <<Write("active", r.active, "end")>>
    \o (IF Intact(r) THEN <<>> ELSE <<Write("valid", FALSE, "end")>>)

-----------------------------------------------------------------------------
(* Single writes *)

Busy(w) == call[w].todo # <<>>
Alone(w) == \A v \in Caller \ {w} : ~Busy(v)
Event == events < MaxEvents /\ events' = events + 1 /\ UNCHANGED faults
Fault == faults < MaxFaults /\ faults' = faults + 1 /\ UNCHANGED events
NoEvent == UNCHANGED <<events, faults>>
Windows == <<reg, theirs>>
Frontend == <<core, runtime, wanted, doomed>>

Tears(if) == torn' = IF if THEN torn \cup {"ninety"} ELSE torn

\* The setting is neither what another program left nor all of what is marked as ours.
HalfWritten ==
    SettingIn(reg) \notin {theirs, Ours(MarkOf(reg.active))}

\* A call has looked at the registry and knows what it has to write.
Begins(w, todo, undo) ==
    /\ call' = [call EXCEPT ![w] = [todo |-> todo, undo |-> undo, ok |-> TRUE]]
    /\ UNCHANGED Windows

BeginsRecovery(w) == Begins(w, Recovery(reg), <<>>) /\ Tears(~Alone(w))

\* What was saved, in a session whose recovery failed, is kept although another program
\* has changed the setting since.
Outdated == reg.valid /\ SettingIn(reg) = theirs

BeginsEnabling(w, e) ==
    /\ Begins(w, Saves(reg) \o Applies(e), Undoes(reg))
    /\ torn' = torn \cup (IF Alone(w) THEN {} ELSE {"ninety"})
                    \cup (IF Outdated THEN {"other"} ELSE {})

Writes(w) ==
    /\ Busy(w)
    /\ reg' = [reg EXCEPT ![Head(call[w].todo).key] = Head(call[w].todo).val]
    /\ call' = [call EXCEPT ![w] = IF Len(@.todo) = 1 THEN [Idle EXCEPT !.ok = call[w].ok]
                                   ELSE [@ EXCEPT !.todo = Tail(call[w].todo)]]
    /\ Tears(~Alone(w))
    /\ UNCHANGED <<theirs, Frontend, pc, at>> /\ NoEvent

Fails(w) ==
    /\ Fault
    /\ Busy(w)
    /\ LET write == Head(call[w].todo)
       IN /\ call' = [call EXCEPT ![w] =
                IF write.otherwise = "ignore" THEN [@ EXCEPT !.todo = Tail(call[w].todo)]
                ELSE [@ EXCEPT !.todo = IF write.otherwise = "undo" THEN call[w].undo ELSE <<>>,
                               !.ok = FALSE]]
          /\ Tears(\/ ~Alone(w)
                   \/ write.otherwise = "end" /\ HalfWritten
                   \/ write.key = "valid" /\ ~write.val)
    /\ UNCHANGED <<Windows, Frontend, pc, at>>

-----------------------------------------------------------------------------
(* An attempt, and enable_system_proxy *)

On == pc["host"] = "off"

\* Nothing is under way.
AtRest == \A w \in Caller : pc[w] = "off"
Goes(w, to) == pc' = [pc EXCEPT ![w] = to]
Done(w, from) == On /\ pc[w] = from /\ ~Busy(w)
Quietly == UNCHANGED <<Windows, call, torn>>

\* start_singbox, which is refused while a stop is under way.
Start(a) ==
    /\ Done(a, "off") /\ wanted = NoAttempt
    /\ runtime = NoRuntime /\ core = NoEndpoint
    /\ \A w \in Caller : pc[w] \notin Stopping \cup {"queue"}
    /\ \E e \in Endpoint :
          /\ core' = e
          /\ runtime' = [by |-> a, at |-> e, proxied |-> FALSE]
          /\ at' = [at EXCEPT ![a].goal = e]
    /\ wanted' = a
    /\ Goes(a, "validate")
    /\ Event /\ Quietly
    /\ UNCHANGED doomed

\* enable_system_proxy has failed: it stops the runtime if the operation of the
\* attempt is current.
GivesUp(a) == Goes(a, IF wanted = a THEN "queue" ELSE "failed")

\* validate_runtime_probe_endpoint, before its await and after it.
Validate(a) ==
    /\ Done(a, "validate")
    /\ IF runtime.by = a THEN Goes(a, "connect") ELSE GivesUp(a)
    /\ Quietly /\ NoEvent
    /\ UNCHANGED <<Frontend, at>>

Connects(a) ==
    /\ Done(a, "connect")
    /\ IF core = at[a].goal THEN Goes(a, "look") ELSE GivesUp(a)
    /\ Quietly /\ NoEvent
    /\ UNCHANGED <<Frontend, at>>

\* set_system_proxy(true, ...); a saved setting that cannot be read is refused.
SetOn(a) ==
    /\ Done(a, "look")
    /\ IF reg.valid /\ ~Intact(reg)
       THEN GivesUp(a) /\ Quietly
       ELSE Goes(a, "set") /\ BeginsEnabling(a, at[a].goal)
    /\ NoEvent
    /\ UNCHANGED <<Frontend, at>>

\* system_proxy_matches.
Matches(e) == reg.enable /\ reg.server = e /\ reg.active = e

ReadsBack(a) ==
    /\ Done(a, "set")
    /\ IF ~call[a].ok THEN GivesUp(a) /\ Quietly
       ELSE IF Matches(at[a].goal) THEN Goes(a, "listen") /\ Quietly
       ELSE Goes(a, "unset") /\ BeginsRecovery(a)
    /\ NoEvent
    /\ UNCHANGED <<Frontend, at>>

Listens(a) ==
    /\ Done(a, "listen")
    /\ IF core = at[a].goal
       THEN /\ Goes(a, "ok") /\ Quietly
            /\ runtime' = [runtime EXCEPT !.proxied = @ \/ runtime.by = a]
       ELSE Goes(a, "unset") /\ BeginsRecovery(a) /\ UNCHANGED runtime
    /\ NoEvent
    /\ UNCHANGED <<core, wanted, doomed, at>>

Unset(a) ==
    /\ Done(a, "unset")
    /\ GivesUp(a)
    /\ Quietly /\ NoEvent
    /\ UNCHANGED <<Frontend, at>>

\* disable_system_proxy: whatever runtime there is, its proxy is not missed any more.
Retreats(a) ==
    /\ Goes(a, "retreat") /\ BeginsRecovery(a)
    /\ runtime' = [runtime EXCEPT !.proxied = FALSE]
    /\ UNCHANGED <<wanted, at>>

\* A mistake: the answer is taken without a look at what the user wants meanwhile.
SucceedsAnyway(a) ==
    /\ Done(a, "ok")
    /\ Goes(a, "off") /\ Quietly
    /\ at' = [at EXCEPT ![a] = NoLocal]
    /\ UNCHANGED <<core, runtime, wanted, doomed>> /\ NoEvent

\* The answer in the frontend: an attempt that is not current takes the proxy away.
Succeeds(a) ==
    /\ Done(a, "ok")
    /\ IF wanted = a
       THEN /\ Goes(a, "off") /\ Quietly
            /\ at' = [at EXCEPT ![a] = NoLocal]
            /\ UNCHANGED <<runtime, wanted>>
       ELSE Retreats(a)
    /\ UNCHANGED <<core, doomed>> /\ NoEvent

\* An attempt that is current shuts the core down.
IsRefused(a) ==
    /\ Done(a, "failed")
    /\ IF wanted = a
       THEN /\ Goes(a, "queue") /\ Quietly
            /\ wanted' = NoAttempt
            /\ at' = [at EXCEPT ![a].last = TRUE]
            /\ UNCHANGED runtime
       ELSE Retreats(a)
    /\ UNCHANGED <<core, doomed>> /\ NoEvent

Retreated(a) ==
    /\ Done(a, "retreat")
    /\ Goes(a, "off")
    /\ at' = [at EXCEPT ![a] = NoLocal]
    /\ Quietly /\ NoEvent
    /\ UNCHANGED Frontend

-----------------------------------------------------------------------------
(* A stop *)

Disconnect ==
    /\ Event
    /\ Done("user", "off")
    /\ wanted # NoAttempt \/ runtime # NoRuntime
    /\ wanted' = NoAttempt
    /\ Goes("user", "queue")
    /\ Quietly
    /\ UNCHANGED <<core, runtime, doomed, at>>

\* stop_singbox_inner under its lock: the proxy is not missed any more, the engines
\* are killed.
Kill(w) ==
    /\ Done(w, "queue")
    /\ \A v \in Caller : pc[v] \notin Stopping
    /\ runtime' = [runtime EXCEPT !.proxied = FALSE]
    /\ doomed' = (core # NoEndpoint)
    /\ Goes(w, "killed")
    /\ Quietly /\ NoEvent
    /\ UNCHANGED <<core, wanted, at>>

Restore(w) ==
    /\ Done(w, "killed")
    /\ BeginsRecovery(w)
    /\ at' = [at EXCEPT ![w].owned = reg.enable /\ reg.server = reg.active]
    /\ Goes(w, "restore")
    /\ NoEvent
    /\ UNCHANGED Frontend

Restored(w) ==
    /\ Done(w, "restore")
    /\ Goes(w, "wait")
    /\ Quietly /\ NoEvent
    /\ UNCHANGED <<Frontend, at>>

\* A proxy of ours that could not be taken away leaves the runtime to be stopped again.
Stopped(w) ==
    /\ Done(w, "wait") /\ core = NoEndpoint
    /\ runtime' = IF at[w].owned /\ ~call[w].ok THEN runtime ELSE NoRuntime
    /\ Goes(w, IF w = "user" \/ at[w].last THEN "off" ELSE "failed")
    /\ at' = [at EXCEPT ![w] = NoLocal]
    /\ Quietly /\ NoEvent
    /\ UNCHANGED <<core, wanted, doomed>>

Exits ==
    /\ doomed
    /\ core' = NoEndpoint /\ doomed' = FALSE
    /\ UNCHANGED <<Windows, runtime, wanted, pc, at, call, torn>> /\ NoEvent

Dies ==
    /\ Event
    /\ core # NoEndpoint /\ ~doomed
    /\ core' = NoEndpoint
    /\ UNCHANGED <<Windows, runtime, wanted, doomed, pc, at, call, torn>>

-----------------------------------------------------------------------------
(* The program begins and ends *)

\* recover_stale_system_proxy; an error is only printed.
Launch ==
    /\ pc["host"] = "boot"
    /\ BeginsRecovery("host")
    /\ Goes("host", "launch")
    /\ NoEvent
    /\ UNCHANGED <<Frontend, at>>

Launched ==
    /\ pc["host"] = "launch" /\ ~Busy("host")
    /\ Goes("host", "off")
    /\ Quietly /\ NoEvent
    /\ UNCHANGED <<Frontend, at>>

\* force_cleanup, which waits for no lock.
Exit ==
    /\ Event
    /\ On
    /\ BeginsRecovery("host")
    /\ core' = NoEndpoint /\ doomed' = FALSE
    /\ Goes("host", "exit")
    /\ UNCHANGED <<runtime, wanted, at>>

Ends ==
    /\ pc' = [w \in Caller |-> IF w = "host" THEN "boot" ELSE "off"]
    /\ call' = [w \in Caller |-> Idle]
    /\ core' = NoEndpoint /\ doomed' = FALSE
    /\ runtime' = NoRuntime /\ wanted' = NoAttempt
    /\ at' = [w \in Caller |-> NoLocal]
    /\ Tears(HalfWritten /\ \E w \in Caller : Busy(w))
    /\ UNCHANGED Windows

Exited == pc["host"] = "exit" /\ ~Busy("host") /\ Ends /\ NoEvent

Crash == pc["host"] # "boot" /\ Fault /\ Ends

-----------------------------------------------------------------------------
(* Other programs *)

Writing == \E w \in Caller : Busy(w)
LooksOurs(s) == OnWithOurList(s) /\ s.server \in Endpoint

\* The setting keeps an address of ours, or gets one, and is not just turned off, or on
\* again while it is still marked and what was before it still saved.
Shares(s) ==
    /\ s.server \in Endpoint
    /\ s # [SettingIn(reg) EXCEPT !.enable = FALSE]
    /\ ~(~Writing /\ reg.valid /\ s = Ours(MarkOf(reg.active)))

\* Any of the values, alone or together.  What looks like ours is not theirs.
Changes(s) ==
    /\ Event
    /\ s # SettingIn(reg)
    /\ reg' = [reg EXCEPT !.enable = s.enable, !.server = s.server, !.override = s.override]
    /\ theirs' = IF LooksOurs(s) THEN theirs ELSE s
    /\ torn' = torn \cup (IF Writing \/ LooksOurs(s) THEN {"other"} ELSE {})
                    \cup (IF Shares(s) THEN {"shared"} ELSE {})
    /\ UNCHANGED <<Frontend, pc, at, call>>

\* The saved setting becomes unreadable: what can still be given back is no proxy.
\* Without the mark, which old versions did not have, nothing can.
IsDamaged ==
    /\ Fault
    /\ reg.valid /\ reg.active # NoEndpoint
    /\ ~Writing
    /\ reg' = [reg EXCEPT !.saved = Damaged]
    /\ theirs' = IF SettingIn(reg) = Ours(reg.active)
                 THEN Off(reg.active) ELSE theirs
    /\ UNCHANGED <<Frontend, pc, at, call, torn>>

-----------------------------------------------------------------------------
(* The specification *)

\* The program is launched for the first time, or after an old version that had
\* no mark of the active endpoint was killed.
Init ==
    /\ theirs \in Theirs
    /\ reg \in {[enable |-> theirs.enable, server |-> theirs.server,
                 override |-> theirs.override, saved |-> theirs, valid |-> FALSE,
                 active |-> NoEndpoint],
                [enable |-> TRUE, server |-> Legacy, override |-> "ninety",
                 saved |-> theirs, valid |-> TRUE, active |-> NoEndpoint]}
    /\ core = NoEndpoint /\ runtime = NoRuntime /\ wanted = NoAttempt /\ doomed = FALSE
    /\ pc = [w \in Caller |-> IF w = "host" THEN "boot" ELSE "off"]
    /\ at = [w \in Caller |-> NoLocal]
    /\ call = [w \in Caller |-> Idle]
    /\ torn = {}
    /\ events = 0 /\ faults = 0

Rest == AtRest /\ UNCHANGED vars

Enabling(a) ==
    \/ Validate(a) \/ Connects(a) \/ SetOn(a) \/ ReadsBack(a) \/ Listens(a) \/ Unset(a)
    \/ Succeeds(a) \/ IsRefused(a) \/ Retreated(a)

Next ==
    \/ \E w \in Caller : Writes(w) \/ Fails(w)
    \/ \E a \in Attempt : Start(a) \/ Enabling(a)
    \/ Disconnect
    \/ \E w \in Attempt \cup {"user"} : Kill(w) \/ Restore(w) \/ Restored(w) \/ Stopped(w)
    \/ Exits \/ Dies
    \/ Launch \/ Launched \/ Exit \/ Exited \/ Crash
    \/ \E s \in Setting : Changes(s)
    \/ IsDamaged
    \/ Rest

Spec == Init /\ [][Next]_vars

-----------------------------------------------------------------------------
(* Properties *)

\* Every call was able to do what it was to do.
AllDone == \A w \in Caller : call[w].ok

\* What the user had comes back (docs/RELEASE_QUALIFICATION.md:43-46): when nothing runs
\* the setting is what another program left last, after sessions that ended by a
\* disconnect, a failed start, a write that failed and was undone, an exit or a crash, and
\* whatever other programs or damage came between the calls.  That holds of a setting of
\* theirs with our address in it, too (proxy_win.rs:1177).  Calls whose writes overlap or
\* end half way are left out: see CrashIsRecovered.
GivenBack ==
    AtRest /\ runtime = NoRuntime /\ AllDone /\ torn \subseteq {"shared"}
        => SettingIn(reg) = theirs

\* vpn.rs:1955: the command that sets the proxy waits twice, and a stop, a newer attempt
\* or the death of the core may come meanwhile.  When nothing runs Windows does not
\* send anything to where nobody listens, even if another program changed the setting
\* in the middle of a call.  Where another program changed only the exceptions of ours, or
\* turned ours on again later, the address is left there on purpose (proxy_win.rs:1177).
NobodyIsSentNowhere ==
    AtRest /\ runtime = NoRuntime /\ AllDone /\ {"ninety", "shared"} \cap torn = {}
        => ~(reg.enable /\ reg.server \in Endpoint)

\* save_proxy_snapshot (proxy_win.rs:284): what is kept to be given back is never a
\* setting of ours, even if the proxy is set again and again, set over an older one,
\* undone, or found on at the launch, as long as nobody else left our address there.
SavedIsNotOurs ==
    {"ninety", "shared"} \cap torn = {} /\ Intact(reg)
        => ~(reg.saved.enable /\ reg.saved.server \in Endpoint)

\* proxy_recovery_action (proxy_win.rs:205): whenever no call is at work and Windows sends
\* to an endpoint, a recovery would recognise the setting as ours and take it away; so
\* the program may crash at any such moment.  A user who turns ours off and on again
\* leaves it ours; one who edits its exceptions does not (proxy_win.rs:1177).
OursIsRecognised ==
    {"ninety", "shared"} \cap torn = {} /\ ~Writing /\ reg.enable /\ reg.server \in Endpoint
        => Recovery(reg) # Forget

-----------------------------------------------------------------------------
(* What the source says and the code does not do. *)

\* docs/RELEASE_QUALIFICATION.md:45: after a crash the next launch restores the previous
\* setting.  Between the write of ProxyServer and that of ProxyOverride it does not: the
\* setting is not recognised as ours, and the marks are forgotten.
CrashIsRecovered ==
    AtRest /\ runtime = NoRuntime /\ AllDone /\ "other" \notin torn => SettingIn(reg) = theirs

\* proxy_win.rs:354: a write that fails in the middle of a restoration never leaves a
\* half-restored setting that is on.
HalfRestoredIsOff ==
    \A w \in {"user", "host"} :
        call[w].todo = <<>> /\ ~call[w].ok /\ Alone(w) => ~(reg.enable /\ HalfWritten)

\* A runtime that was put behind the proxy has it, or the watchdog is told that it is
\* missing (vpn.rs:2002).  An older attempt that finds itself overtaken takes the proxy
\* of the newer one away and has it forgotten (vpn.rs:3650).
LossIsNoticed ==
    [][/\ runtime.proxied /\ runtime' # NoRuntime /\ ~runtime'.proxied
       => \E w \in Attempt \cup {"user"} :
             pc'[w] = "killed" \/ (pc'[w] = "retreat" /\ runtime.by = w)]_vars
=============================================================================
