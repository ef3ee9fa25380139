------------------------- MODULE SystemProxyProofs --------------------------
(***************************************************************************)
(* The proxy setting is given back, and nobody is sent to where nobody     *)
(* listens, for any endpoints, attempts, settings of others and bounds.    *)
(*                                                                         *)
(* The argument.  Neither property says anything while a call has writes   *)
(* left, and a call that has half of them behind it may be overtaken by    *)
(* whatever another program writes.  So the invariant says of each list of *)
(* writes, at each of its writes, what the registry then holds (Plan): the *)
(* list is what is left of a clearing, a turning off, a restoring, an      *)
(* enabling or a rollback, and what it has already written is there.       *)
(* Between the calls the setting is that of another program, or ours,      *)
(* marked, with what was there before it saved (Quiet).  That is known     *)
(* exactly only until someone else writes in the middle of a call          *)
(* (Exactly) or leaves an address of ours in a setting of his own          *)
(* (Safely); what is left then is that the other program has written an    *)
(* address of its own, so that no plan ends with an endpoint of ours       *)
(* (Sent).  A plan is kept by its own writes (WritesPlanned), by a failing *)
(* write (FailsPlanned) and by other programs (PlansStand); one caller     *)
(* writes at a time (Orderly).                                             *)
(*                                                                         *)
(* What a quiet setting of ours still lacks is someone to take it away.    *)
(* Debt says that he is there: a flow before or in its look at the         *)
(* setting, a stop that has yet to restore, the launch, or the runtime     *)
(* itself.  Where none of them is left, the setting is that of another     *)
(* program and nothing is saved (Settled), so at rest without a runtime it *)
(* has been given back.                                                    *)
(***************************************************************************)
EXTENDS SystemProxy, SequenceTheorems, TLAPS

-----------------------------------------------------------------------------
(* Lists of writes.  All are of one to six writes. *)

LEMMA OneAndTwo ==
    ASSUME NEW a, NEW b, NEW c
    PROVE  <<a>> \o <<b, c>> = <<a, b, c>>
<1> DEFINE S == {a, b, c}
           p == <<a>>
           q == <<b, c>>
           r == <<a, b, c>>
<1>1. p \in Seq(S) /\ q \in Seq(S) /\ r \in Seq(S) /\ Len(p) = 1 /\ Len(q) = 2 /\ Len(r) = 3
  OBVIOUS
<1>2. /\ p \o q \in Seq(S) /\ Len(p \o q) = 3
      /\ \A i \in 1 .. 3 : (p \o q)[i] = IF i <= 1 THEN p[i] ELSE q[i - 1]
  BY <1>1, ConcatProperties
<1>3. ASSUME NEW i \in 1 .. 3 PROVE (p \o q)[i] = r[i]
  <2>1. i = 1 \/ i = 2 \/ i = 3
    OBVIOUS
  <2> QED
    BY <1>2, <2>1
<1> QED
  BY <1>1, <1>2, <1>3, SeqEqual

LEMMA ThreeAndTwo ==
    ASSUME NEW a, NEW b, NEW c, NEW d, NEW e
    PROVE  <<a, b, c>> \o <<d, e>> = <<a, b, c, d, e>>
<1> DEFINE S == {a, b, c, d, e}
           p == <<a, b, c>>
           q == <<d, e>>
           r == <<a, b, c, d, e>>
<1>1. p \in Seq(S) /\ q \in Seq(S) /\ r \in Seq(S) /\ Len(p) = 3 /\ Len(q) = 2 /\ Len(r) = 5
  OBVIOUS
<1>2. /\ p \o q \in Seq(S) /\ Len(p \o q) = 5
      /\ \A i \in 1 .. 5 : (p \o q)[i] = IF i <= 3 THEN p[i] ELSE q[i - 3]
  BY <1>1, ConcatProperties
<1>3. ASSUME NEW i \in 1 .. 5 PROVE (p \o q)[i] = r[i]
  <2>1. i = 1 \/ i = 2 \/ i = 3 \/ i = 4 \/ i = 5
    OBVIOUS
  <2> QED
    BY <1>2, <2>1
<1> QED
  BY <1>1, <1>2, <1>3, SeqEqual

LEMMA ThreeAndOne ==
    ASSUME NEW a, NEW b, NEW c, NEW d
    PROVE  <<a, b, c>> \o <<d>> = <<a, b, c, d>>
<1> DEFINE S == {a, b, c, d}
           p == <<a, b, c>>
           q == <<d>>
           r == <<a, b, c, d>>
<1>1. p \in Seq(S) /\ q \in Seq(S) /\ r \in Seq(S) /\ Len(p) = 3 /\ Len(q) = 1 /\ Len(r) = 4
  OBVIOUS
<1>2. /\ p \o q \in Seq(S) /\ Len(p \o q) = 4
      /\ \A i \in 1 .. 4 : (p \o q)[i] = IF i <= 3 THEN p[i] ELSE q[i - 3]
  BY <1>1, ConcatProperties
<1>3. ASSUME NEW i \in 1 .. 4 PROVE (p \o q)[i] = r[i]
  <2>1. i = 1 \/ i = 2 \/ i = 3 \/ i = 4
    OBVIOUS
  <2> QED
    BY <1>2, <2>1
<1> QED
  BY <1>1, <1>2, <1>3, SeqEqual

LEMMA FourAndOne ==
    ASSUME NEW a, NEW b, NEW c, NEW d, NEW e
    PROVE  /\ <<a, b, c, d>> \o <<e>> = <<a, b, c, d, e>>
           /\ <<a, b, c, d>> \o <<>> = <<a, b, c, d>>
<1> DEFINE S == {a, b, c, d, e}
           p == <<a, b, c, d>>
           q == <<e>>
           r == <<a, b, c, d, e>>
<1>1. p \in Seq(S) /\ q \in Seq(S) /\ r \in Seq(S) /\ Len(p) = 4 /\ Len(q) = 1 /\ Len(r) = 5
  OBVIOUS
<1>2. /\ p \o q \in Seq(S) /\ Len(p \o q) = 5
      /\ \A i \in 1 .. 5 : (p \o q)[i] = IF i <= 4 THEN p[i] ELSE q[i - 4]
  BY <1>1, ConcatProperties
<1>3. ASSUME NEW i \in 1 .. 5 PROVE (p \o q)[i] = r[i]
  <2>1. i = 1 \/ i = 2 \/ i = 3 \/ i = 4 \/ i = 5
    OBVIOUS
  <2> QED
    BY <1>2, <2>1
<1>4. p \o q = r
  BY <1>1, <1>2, <1>3, SeqEqual
<1>5. p \o <<>> = p
  BY <1>1, ConcatEmptySeq
<1> QED
  BY <1>4, <1>5

LEMMA TwoAndFour ==
    ASSUME NEW a, NEW b, NEW c, NEW d, NEW e, NEW f
    PROVE  <<a, b>> \o <<c, d, e, f>> = <<a, b, c, d, e, f>>
<1> DEFINE S == {a, b, c, d, e, f}
           p == <<a, b>>
           q == <<c, d, e, f>>
           r == <<a, b, c, d, e, f>>
<1>1. p \in Seq(S) /\ q \in Seq(S) /\ r \in Seq(S) /\ Len(p) = 2 /\ Len(q) = 4 /\ Len(r) = 6
  OBVIOUS
<1>2. /\ p \o q \in Seq(S) /\ Len(p \o q) = 6
      /\ \A i \in 1 .. 6 : (p \o q)[i] = IF i <= 2 THEN p[i] ELSE q[i - 2]
  BY <1>1, ConcatProperties
<1>3. ASSUME NEW i \in 1 .. 6 PROVE (p \o q)[i] = r[i]
  <2>1. i = 1 \/ i = 2 \/ i = 3 \/ i = 4 \/ i = 5 \/ i = 6
    OBVIOUS
  <2> QED
    BY <1>2, <2>1
<1> QED
  BY <1>1, <1>2, <1>3, SeqEqual

LEMMA FourInSeq ==
    ASSUME NEW S, NEW a \in S, NEW b \in S, NEW c \in S, NEW d \in S
    PROVE  <<a, b, c, d>> \in Seq(S)
OBVIOUS

\* The last write of every recovery.
Unmarks == Write("active", NoEndpoint, "ignore")

\* What restore_proxy_snapshot writes, the whole and from the second and third write on.
RestoresAll(s) ==
    <<Write("server", s.server, "end"), Write("override", s.override, "end"),
      Write("enable", s.enable, "end"), Write("valid", FALSE, "end"), Unmarks>>
RestoresList(s) ==
    <<Write("override", s.override, "end"), Write("enable", s.enable, "end"),
      Write("valid", FALSE, "end"), Unmarks>>
RestoresSwitch(s) ==
    <<Write("enable", s.enable, "end"), Write("valid", FALSE, "end"), Unmarks>>

TurnsItOff == <<Write("enable", FALSE, "end"), Write("valid", FALSE, "ignore"), Unmarks>>

\* What set_system_proxy writes, the whole and from the second write on, ...
Sets(e) ==
    <<Write("active", e, "undo"), Write("server", e, "undo"),
      Write("override", "ninety", "undo"), Write("enable", TRUE, "undo")>>
SetsServer(e) ==
    <<Write("server", e, "undo"), Write("override", "ninety", "undo"),
      Write("enable", TRUE, "undo")>>
SetsList == <<Write("override", "ninety", "undo"), Write("enable", TRUE, "undo")>>
SetsSwitch == <<Write("enable", TRUE, "undo")>>

\* ... and before it where nothing is saved.
SavesAll(s, e) ==
    <<Write("saved", s, "end"), Write("valid", TRUE, "end"),
      Write("active", e, "undo"), Write("server", e, "undo"),
      Write("override", "ninety", "undo"), Write("enable", TRUE, "undo")>>
SavesMark(e) ==
    <<Write("valid", TRUE, "end"), Write("active", e, "undo"), Write("server", e, "undo"),
      Write("override", "ninety", "undo"), Write("enable", TRUE, "undo")>>

\* What rollback_failed_enable writes where a setting was saved before, and where none was.
UndoesKept(s, a) ==
    <<Write("server", s.server, "end"), Write("override", s.override, "end"),
      Write("enable", s.enable, "end"), Write("active", a, "end")>>
UndoesAll(s, a) ==
    <<Write("server", s.server, "end"), Write("override", s.override, "end"),
      Write("enable", s.enable, "end"), Write("active", a, "end"),
      Write("valid", FALSE, "end")>>

\* What taking the proxy away, or recovering it, finds to write.
LEMMA RecoveryLists ==
    ASSUME NEW r
    PROVE  Recovery(r) =
             IF OnWithOurList(r) /\ r.server = r.active /\ ~Intact(r) THEN TurnsItOff
             ELSE IF /\ OnWithOurList(r) /\ Intact(r)
                     /\ r.server = MarkOf(r.active)
                  THEN RestoresAll(r.saved)
                  ELSE Forget
<1>1. <<Write("enable", FALSE, "end")>> \o Forget = TurnsItOff
  BY OneAndTwo DEF Forget, TurnsItOff, Unmarks
<1>2. Restores(r.saved) = RestoresAll(r.saved)
  BY ThreeAndTwo DEF Restores, RestoresSetting, RestoresAll, Unmarks
<1> QED
  BY <1>1, <1>2 DEF Recovery

\* What set_system_proxy finds to write.
LEMMA EnablingLists ==
    ASSUME NEW r, NEW e
    PROVE  Saves(r) \o Applies(e) = IF r.valid THEN Sets(e) ELSE SavesAll(SettingIn(r), e)
<1> DEFINE S == {Write("active", e, "undo"), Write("server", e, "undo"),
                 Write("override", "ninety", "undo"), Write("enable", TRUE, "undo")}
<1>1. <<>> \o Applies(e) = Sets(e)
  <2>1. Applies(e) \in Seq(S)
    BY FourInSeq DEF Applies
  <2>2. <<>> \o Applies(e) = Applies(e)
    BY <2>1, ConcatEmptySeq
  <2> QED
    BY <2>2 DEF Applies, Sets
<1>2. <<Write("saved", SettingIn(r), "end"), Write("valid", TRUE, "end")>> \o Applies(e)
        = SavesAll(SettingIn(r), e)
  <2> DEFINE a == Write("saved", SettingIn(r), "end")
             b == Write("valid", TRUE, "end")
             c == Write("active", e, "undo")
             d == Write("server", e, "undo")
             f == Write("override", "ninety", "undo")
             g == Write("enable", TRUE, "undo")
  <2>1. Applies(e) = <<c, d, f, g>> /\ SavesAll(SettingIn(r), e) = <<a, b, c, d, f, g>>
    BY DEF Applies, SavesAll
  <2> HIDE DEF a, b, c, d, f, g
  <2>2. <<a, b>> \o <<c, d, f, g>> = <<a, b, c, d, f, g>>
    BY TwoAndFour
  <2>3. <<a, b>> \o Applies(e) = SavesAll(SettingIn(r), e)
    BY <2>1, <2>2
  <2> QED
    BY <2>3 DEF a, b
<1> QED
  BY <1>1, <1>2 DEF Saves

\* What its rollback will write if one of these fails.
LEMMA UndoingLists ==
    ASSUME NEW r
    PROVE  Undoes(r) = IF Intact(r) THEN UndoesKept(SettingIn(r), r.active)
                       ELSE UndoesAll(SettingIn(r), r.active)
<1>1. RestoresSetting(SettingIn(r)) \o <<Write("active", r.active, "end")>>
        = UndoesKept(SettingIn(r), r.active)
  BY ThreeAndOne DEF RestoresSetting, UndoesKept
<1> QED
  BY <1>1, FourAndOne DEF Undoes, UndoesKept, UndoesAll

-----------------------------------------------------------------------------
(* Types *)

Writable ==
    [key : {"enable", "valid"}, val : BOOLEAN, otherwise : {"end", "undo", "ignore"}]
    \cup [key : {"server"}, val : Endpoint \cup User, otherwise : {"end", "undo"}]
    \cup [key : {"override"}, val : {"ninety"} \cup User, otherwise : {"end", "undo"}]
    \cup [key : {"saved"}, val : Setting, otherwise : {"end"}]
    \cup [key : {"active"}, val : Endpoint \cup {NoEndpoint},
          otherwise : {"end", "undo", "ignore"}]

\* No list is longer than that of a setting which is saved first.
Lists == {s \in Seq(Writable) : Len(s) <= 6}

Registry ==
    [enable : BOOLEAN, server : Endpoint \cup User, override : {"ninety"} \cup User,
     saved : Setting \cup {Damaged}, valid : BOOLEAN, active : Endpoint \cup {NoEndpoint}]

Local == [goal : Endpoint \cup {NoEndpoint}, last : BOOLEAN, owned : BOOLEAN]

\* An attempt that has not asked for the proxy yet knows the address.
Typed ==
    /\ reg \in Registry /\ theirs \in Setting
    /\ core \in Endpoint \cup {NoEndpoint}
    /\ runtime \in Runtime
    /\ wanted \in Attempt \cup {NoAttempt}
    /\ doomed \in BOOLEAN
    /\ pc \in [Caller -> PC]
    /\ at \in [Caller -> Local]
    /\ \A w \in Caller : pc[w] \in {"validate", "connect", "look"} => at[w].goal \in Endpoint
    /\ call \in [Caller -> [todo : Lists, undo : Lists, ok : BOOLEAN]]
    /\ torn \subseteq {"ninety", "other", "shared"}
    /\ events \in 0 .. MaxEvents /\ faults \in 0 .. MaxFaults

LEMMA SixAreAList ==
    ASSUME NEW a \in Writable, NEW b \in Writable, NEW c \in Writable,
           NEW d \in Writable, NEW e \in Writable, NEW f \in Writable
    PROVE  /\ <<>> \in Lists /\ <<a, b>> \in Lists /\ <<a, b, c>> \in Lists
           /\ <<a, b, c, d>> \in Lists /\ <<a, b, c, d, e>> \in Lists
           /\ <<a, b, c, d, e, f>> \in Lists
BY DEF Lists

LEMMA ListsAreLists ==
    ASSUME NEW s \in Setting, NEW e \in Endpoint, NEW a \in Endpoint \cup {NoEndpoint}
    PROVE  /\ <<>> \in Lists
           /\ RestoresAll(s) \in Lists /\ TurnsItOff \in Lists /\ Forget \in Lists
           /\ Sets(e) \in Lists /\ SavesAll(s, e) \in Lists
           /\ UndoesKept(s, a) \in Lists /\ UndoesAll(s, a) \in Lists
<1>1. /\ Write("valid", FALSE, "end") \in Writable /\ Write("valid", TRUE, "end") \in Writable
      /\ Write("valid", FALSE, "ignore") \in Writable /\ Write("enable", FALSE, "end") \in Writable
      /\ Write("enable", TRUE, "undo") \in Writable /\ Unmarks \in Writable
  BY DEF Write, Writable, Unmarks
<1>2. /\ Write("server", s.server, "end") \in Writable
      /\ Write("override", s.override, "end") \in Writable
      /\ Write("enable", s.enable, "end") \in Writable
      /\ Write("saved", s, "end") \in Writable
  BY DEF Write, Writable, Setting
<1>3. /\ Write("active", e, "undo") \in Writable /\ Write("server", e, "undo") \in Writable
      /\ Write("override", "ninety", "undo") \in Writable
      /\ Write("active", a, "end") \in Writable
  BY DEF Write, Writable
<1>4. <<>> \in Lists
  BY DEF Lists
<1>5. RestoresAll(s) \in Lists /\ TurnsItOff \in Lists /\ Forget \in Lists
  BY <1>1, <1>2, SixAreAList DEF RestoresAll, TurnsItOff, Forget, Unmarks
<1>6. Sets(e) \in Lists
  BY <1>1, <1>3, SixAreAList DEF Sets
<1>7. SavesAll(s, e) \in Lists
  BY <1>1, <1>2, <1>3, SixAreAList DEF SavesAll
<1>8. UndoesKept(s, a) \in Lists /\ UndoesAll(s, a) \in Lists
  BY <1>1, <1>2, <1>3, SixAreAList DEF UndoesKept, UndoesAll
<1> QED
  BY <1>4, <1>5, <1>6, <1>7, <1>8

LEMMA TailsAreLists ==
    ASSUME NEW t \in Lists, t # <<>>
    PROVE  Head(t) \in Writable /\ Tail(t) \in Lists
BY DEF Lists

LEMMA WrittenRegistry ==
    ASSUME NEW x \in Writable, reg \in Registry
    PROVE  [reg EXCEPT ![x.key] = x.val] \in Registry
<1>1. CASE x.key = "enable" /\ x.val \in BOOLEAN
  BY <1>1 DEF Registry
<1>2. CASE x.key = "valid" /\ x.val \in BOOLEAN
  BY <1>2 DEF Registry
<1>3. CASE x.key = "server" /\ x.val \in Endpoint \cup User
  BY <1>3 DEF Registry
<1>4. CASE x.key = "override" /\ x.val \in {"ninety"} \cup User
  BY <1>4 DEF Registry
<1>5. CASE x.key = "saved" /\ x.val \in Setting
  BY <1>5 DEF Registry
<1>6. CASE x.key = "active" /\ x.val \in Endpoint \cup {NoEndpoint}
  BY <1>6 DEF Registry
<1> QED
  BY <1>1, <1>2, <1>3, <1>4, <1>5, <1>6 DEF Writable

LEMMA TypedInit == Init => Typed
<1> SUFFICES ASSUME Init PROVE Typed
  OBVIOUS
<1>1. theirs \in Setting
  BY DEF Init, Theirs, Setting
<1>2. reg \in Registry
  <2>1. /\ theirs.enable \in BOOLEAN /\ theirs.server \in Endpoint \cup User
        /\ theirs.override \in {"ninety"} \cup User
    BY <1>1 DEF Setting
  <2>2. CASE reg = [enable |-> theirs.enable, server |-> theirs.server,
                    override |-> theirs.override, saved |-> theirs, valid |-> FALSE,
                    active |-> NoEndpoint]
    BY <1>1, <2>1, <2>2 DEF Registry
  <2>3. CASE reg = [enable |-> TRUE, server |-> Legacy, override |-> "ninety",
                    saved |-> theirs, valid |-> TRUE, active |-> NoEndpoint]
    BY <1>1, <2>3, SystemProxyAssumption DEF Registry
  <2> QED
    BY <2>2, <2>3 DEF Init
<1>3. runtime \in Runtime /\ wanted \in Attempt \cup {NoAttempt} /\ doomed \in BOOLEAN
      /\ core \in Endpoint \cup {NoEndpoint}
  BY DEF Init, Runtime, NoRuntime
<1>4. pc \in [Caller -> PC] /\ \A w \in Caller : pc[w] \in {"boot", "off"}
  BY DEF Init, PC
<1>5. at \in [Caller -> Local]
  BY DEF Init, NoLocal, Local
<1>6. call \in [Caller -> [todo : Lists, undo : Lists, ok : BOOLEAN]]
  <2>1. <<>> \in Lists
    BY DEF Lists
  <2> QED
    BY <2>1 DEF Init, Idle
<1>7. torn \subseteq {"ninety", "other", "shared"} /\ events \in 0 .. MaxEvents /\ faults \in 0 .. MaxFaults
  BY SystemProxyAssumption DEF Init
<1> QED
  BY <1>1, <1>2, <1>3, <1>4, <1>5, <1>6, <1>7 DEF Typed

\* A call that begins has lists of writes.
LEMMA TypedBegins ==
    ASSUME Typed, NEW w \in Caller, NEW todo \in Lists, NEW undo \in Lists, Begins(w, todo, undo)
    PROVE  call' \in [Caller -> [todo : Lists, undo : Lists, ok : BOOLEAN]]
BY DEF Typed, Begins

LEMMA RecoveryIsAList ==
    ASSUME Typed
    PROVE  Recovery(reg) \in Lists /\ <<>> \in Lists
<1>1. Legacy \in Endpoint
  BY SystemProxyAssumption
<1>2. theirs \in Setting /\ Damaged.enable = FALSE
  BY DEF Typed, Damaged
<1>3. <<>> \in Lists /\ TurnsItOff \in Lists /\ Forget \in Lists
  BY <1>1, <1>2, ListsAreLists
<1>4. CASE reg.saved = Damaged
  BY <1>3, <1>4, RecoveryLists DEF Intact
<1>5. CASE reg.saved # Damaged
  <2>1. reg.saved \in Setting
    BY <1>5 DEF Typed, Registry
  <2>2. RestoresAll(reg.saved) \in Lists
    BY <2>1, <1>1, ListsAreLists
  <2> QED
    BY <1>3, <2>2, RecoveryLists
<1> QED
  BY <1>4, <1>5

LEMMA EnablingIsAList ==
    ASSUME Typed, NEW e \in Endpoint
    PROVE  Saves(reg) \o Applies(e) \in Lists /\ Undoes(reg) \in Lists
<1>1. SettingIn(reg) \in Setting /\ reg.active \in Endpoint \cup {NoEndpoint}
  BY DEF Typed, Registry, Setting, SettingIn
<1>2. /\ Sets(e) \in Lists /\ SavesAll(SettingIn(reg), e) \in Lists
      /\ UndoesKept(SettingIn(reg), reg.active) \in Lists
      /\ UndoesAll(SettingIn(reg), reg.active) \in Lists
  BY <1>1, ListsAreLists
<1> QED
  BY <1>2, EnablingLists, UndoingLists

LEMMA EventsCount ==
    ASSUME Typed
    PROVE  /\ Event => events' \in 0 .. MaxEvents /\ faults' \in 0 .. MaxFaults
           /\ Fault => events' \in 0 .. MaxEvents /\ faults' \in 0 .. MaxFaults
           /\ NoEvent => events' \in 0 .. MaxEvents /\ faults' \in 0 .. MaxFaults
<1>1. MaxEvents \in Nat /\ MaxFaults \in Nat
  BY SystemProxyAssumption
<1>2. events \in 0 .. MaxEvents /\ faults \in 0 .. MaxFaults
  BY DEF Typed
<1> QED
  BY <1>1, <1>2 DEF Event, Fault, NoEvent

Calls == [todo : Lists, undo : Lists, ok : BOOLEAN]

LEMMA CallReplaced ==
    ASSUME Typed, NEW w \in Caller, NEW x \in Calls
    PROVE  [call EXCEPT ![w] = x] \in [Caller -> [todo : Lists, undo : Lists, ok : BOOLEAN]]
BY DEF Typed, Calls

\* Every step keeps the types; a list only loses its first write, or gives way to another.
LEMMA TypedNext == Typed /\ [Next]_vars => Typed'
<1> SUFFICES ASSUME Typed, [Next]_vars PROVE Typed'
  OBVIOUS
<1> USE SystemProxyAssumption
<1>1. CASE \E w \in Caller : Writes(w) \/ Fails(w)
  <2>1. PICK w \in Caller : Writes(w) \/ Fails(w)
    BY <1>1
  <2>2. /\ call[w].todo \in Lists /\ call[w].undo \in Lists /\ call[w].ok \in BOOLEAN
        /\ call[w].todo # <<>> /\ <<>> \in Lists
    BY <2>1, RecoveryIsAList DEF Typed, Writes, Fails, Busy
  <2>3. Head(call[w].todo) \in Writable /\ Tail(call[w].todo) \in Lists
    BY <2>2, TailsAreLists
  <2>4. CASE Writes(w)
    <3>1. reg' \in Registry
      BY <2>3, <2>4, WrittenRegistry DEF Writes, Typed
    <3>2. call' \in [Caller -> [todo : Lists, undo : Lists, ok : BOOLEAN]]
      <4>1. [Idle EXCEPT !.ok = call[w].ok] \in Calls
        BY <2>2 DEF Idle, Calls
      <4>2. [call[w] EXCEPT !.todo = Tail(call[w].todo)] \in Calls
        BY <2>3 DEF Typed, Calls
      <4> DEFINE x == IF Len(call[w].todo) = 1 THEN [Idle EXCEPT !.ok = call[w].ok]
                      ELSE [call[w] EXCEPT !.todo = Tail(call[w].todo)]
      <4>3. x \in Calls
        BY <4>1, <4>2
      <4>4. call' = [call EXCEPT ![w] = x]
        BY <2>4, Zenon DEF Writes
      <4> HIDE DEF x
      <4> QED
        BY <2>1, <4>3, <4>4, CallReplaced
    <3>3. torn' \subseteq {"ninety", "other", "shared"}
      BY <2>4 DEF Writes, Typed, Tears
    <3> QED
      BY <2>4, <3>1, <3>2, <3>3 DEF Writes, Typed, Frontend, NoEvent
  <2>5. CASE Fails(w)
    <3>1. call' \in [Caller -> [todo : Lists, undo : Lists, ok : BOOLEAN]]
      <4>1. [call[w] EXCEPT !.todo = Tail(call[w].todo)] \in Calls
        BY <2>3 DEF Typed, Calls
      <4>2. \A t \in Lists : [call[w] EXCEPT !.todo = t, !.ok = FALSE]
               \in Calls
        BY DEF Typed, Calls
      <4>3. (IF Head(call[w].todo).otherwise = "undo" THEN call[w].undo ELSE <<>>) \in Lists
        BY <2>2
      <4> DEFINE x == IF Head(call[w].todo).otherwise = "ignore"
                      THEN [call[w] EXCEPT !.todo = Tail(call[w].todo)]
                      ELSE [call[w] EXCEPT !.todo = IF Head(call[w].todo).otherwise = "undo"
                                                    THEN call[w].undo ELSE <<>>,
                                           !.ok = FALSE]
      <4>4. x \in Calls
        BY <4>1, <4>2, <4>3
      <4>5. call' = [call EXCEPT ![w] = x]
        BY <2>5, Zenon DEF Fails
      <4> HIDE DEF x
      <4> QED
        BY <2>1, <4>4, <4>5, CallReplaced
    <3>2. torn' \subseteq {"ninety", "other", "shared"} /\ faults' \in 0 .. MaxFaults /\ events' = events
      BY <2>5, EventsCount DEF Fails, Typed, Tears, Fault
    <3> QED
      BY <2>5, <3>1, <3>2 DEF Fails, Typed, Frontend, Windows
  <2> QED
    BY <2>1, <2>4, <2>5
<1>2. ASSUME NEW a \in Attempt, Start(a) PROVE Typed'
  BY <1>2 DEF Start, Done, Goes, Event, Quietly, Windows, Typed, Caller, PC, Local, Runtime
<1>3. ASSUME NEW a \in Attempt, Validate(a) \/ Connects(a) \/ Unset(a) PROVE Typed'
  BY <1>3 DEF Validate, Connects, Unset, Done, Goes, GivesUp, NoEvent, Quietly, Windows, Frontend,
              Typed, Caller, PC
<1>4. ASSUME NEW a \in Attempt, SetOn(a) PROVE Typed'
  <2>1. at[a].goal \in Endpoint
    BY <1>4 DEF SetOn, Done, Typed, Caller
  <2>2. /\ call' \in [Caller -> [todo : Lists, undo : Lists, ok : BOOLEAN]]
        /\ torn' \subseteq {"ninety", "other", "shared"} /\ UNCHANGED Windows
    <3>1. CASE Quietly
      BY <3>1 DEF Quietly, Typed
    <3>2. CASE BeginsEnabling(a, at[a].goal)
      <4>1. Begins(a, Saves(reg) \o Applies(at[a].goal), Undoes(reg))
        BY <3>2 DEF BeginsEnabling
      <4>2. call' \in [Caller -> [todo : Lists, undo : Lists, ok : BOOLEAN]]
        BY <4>1, <2>1, EnablingIsAList, TypedBegins DEF Caller
      <4> QED
        BY <3>2, <4>1, <4>2 DEF BeginsEnabling, Begins, Typed
    <3> QED
      BY <1>4, <3>1, <3>2 DEF SetOn
  <2>3. pc' \in [Caller -> PC] /\ \A v \in Caller : pc'[v] = pc[v] \/ pc'[v] \in {"queue", "failed", "set"}
    BY <1>4 DEF SetOn, GivesUp, Goes, Typed, PC
  <2> QED
    BY <1>4, <2>2, <2>3 DEF SetOn, Typed, Windows, Frontend, NoEvent
<1>5. ASSUME NEW w \in Caller, BeginsRecovery(w) \/ Quietly
      PROVE  /\ call' \in [Caller -> [todo : Lists, undo : Lists, ok : BOOLEAN]]
             /\ torn' \subseteq {"ninety", "other", "shared"} /\ UNCHANGED Windows
  <2>1. CASE Quietly
    BY <2>1 DEF Quietly, Typed
  <2>2. CASE BeginsRecovery(w)
    BY <2>2, RecoveryIsAList, TypedBegins DEF BeginsRecovery, Begins, Tears, Typed
  <2> QED
    BY <1>5, <2>1, <2>2
<1>6. ASSUME NEW a \in Attempt, ReadsBack(a) \/ Listens(a) PROVE Typed'
  <2>1. BeginsRecovery(a) \/ Quietly
    BY <1>6 DEF ReadsBack, Listens
  <2>2. /\ call' \in [Caller -> [todo : Lists, undo : Lists, ok : BOOLEAN]]
        /\ torn' \subseteq {"ninety", "other", "shared"} /\ UNCHANGED Windows
    BY <1>5, <2>1 DEF Caller
  <2>3. pc' \in [Caller -> PC] /\ \A v \in Caller : pc'[v] = pc[v] \/ pc'[v] \notin {"validate", "connect", "look"}
    BY <1>6 DEF ReadsBack, Listens, GivesUp, Goes, Typed, PC
  <2>4. runtime' \in Runtime /\ UNCHANGED <<core, wanted, doomed, at, events, faults>>
    BY <1>6 DEF ReadsBack, Listens, NoEvent, Frontend, Typed, Runtime
  <2> QED
    BY <2>2, <2>3, <2>4 DEF Typed, Windows
<1>7. ASSUME NEW a \in Attempt, Succeeds(a) \/ IsRefused(a) \/ Retreated(a) PROVE Typed'
  <2>1. BeginsRecovery(a) \/ Quietly
    BY <1>7 DEF Succeeds, IsRefused, Retreated, Retreats
  <2>2. /\ call' \in [Caller -> [todo : Lists, undo : Lists, ok : BOOLEAN]]
        /\ torn' \subseteq {"ninety", "other", "shared"} /\ UNCHANGED Windows
    BY <1>5, <2>1 DEF Caller
  <2>3. pc' \in [Caller -> PC] /\ pc'[a] \in {"off", "retreat", "queue"}
        /\ \A v \in Caller \ {a} : pc'[v] = pc[v]
    BY <1>7 DEF Succeeds, IsRefused, Retreated, Retreats, Goes, Typed, PC, Caller
  <2>4. /\ at' \in [Caller -> Local]
        /\ \A v \in Caller \ {a} : at'[v] = at[v]
    <3>1. NoLocal \in Local /\ at[a] \in Local /\ at \in [Caller -> Local]
      BY DEF NoLocal, Local, Typed, Caller
    <3>2. [at[a] EXCEPT !.last = TRUE] \in Local
      BY <3>1 DEF Local
    <3>3. at' = at \/ at' = [at EXCEPT ![a] = NoLocal]
          \/ at' = [at EXCEPT ![a] = [at[a] EXCEPT !.last = TRUE]]
      BY <1>7 DEF Succeeds, IsRefused, Retreated, Retreats
    <3> QED
      BY <3>1, <3>2, <3>3
  <2>5. runtime' \in Runtime /\ wanted' \in Attempt \cup {NoAttempt}
        /\ UNCHANGED <<core, doomed, events, faults>>
    BY <1>7 DEF Succeeds, IsRefused, Retreated, Retreats, NoEvent, Frontend, Typed, Runtime
  <2> QED
    BY <2>2, <2>3, <2>4, <2>5 DEF Typed, Windows
<1>8. CASE Disconnect
  <2>1. pc' \in [Caller -> PC] /\ \A v \in Caller : pc'[v] = pc[v] \/ pc'[v] = "queue"
    BY <1>8 DEF Disconnect, Goes, Typed, PC, Caller
  <2>2. events' \in 0 .. MaxEvents /\ faults' \in 0 .. MaxFaults
    BY <1>8, EventsCount DEF Disconnect
  <2> QED
    BY <1>8, <2>1, <2>2 DEF Disconnect, Quietly, Windows, Typed
<1>9. ASSUME NEW w \in Attempt \cup {"user"}, Kill(w) \/ Restored(w) PROVE Typed'
  <2>1. pc' \in [Caller -> PC]
        /\ \A v \in Caller : pc'[v] = pc[v] \/ pc'[v] \in {"killed", "wait"}
    BY <1>9 DEF Kill, Restored, Goes, Typed, PC, Stopping, Caller
  <2>2. runtime' \in Runtime /\ doomed' \in BOOLEAN
    BY <1>9 DEF Kill, Restored, Frontend, Typed, Runtime
  <2> QED
    BY <1>9, <2>1, <2>2 DEF Kill, Restored, NoEvent, Quietly, Windows, Frontend, Typed
<1>10. ASSUME NEW w \in Attempt \cup {"user"}, Restore(w) PROVE Typed'
  <2>1. /\ call' \in [Caller -> [todo : Lists, undo : Lists, ok : BOOLEAN]]
        /\ torn' \subseteq {"ninety", "other", "shared"} /\ UNCHANGED Windows
    BY <1>5, <1>10 DEF Restore, Caller
  <2>2. pc' \in [Caller -> PC] /\ \A v \in Caller : pc'[v] = pc[v] \/ pc'[v] = "restore"
    BY <1>10 DEF Restore, Goes, Typed, PC, Stopping
  <2>3. /\ at' \in [Caller -> Local]
        /\ \A v \in Caller : at'[v].goal = at[v].goal
    <3>1. (reg.enable /\ reg.server = reg.active) \in BOOLEAN /\ at \in [Caller -> Local]
      BY DEF Typed, Registry
    <3>2. \A b \in BOOLEAN : [at[w] EXCEPT !.owned = b] \in Local /\ [at[w] EXCEPT !.owned = b].goal = at[w].goal
      BY <3>1 DEF Local, Caller
    <3>3. at' = [at EXCEPT ![w] = [at[w] EXCEPT !.owned = (reg.enable /\ reg.server = reg.active)]]
      BY <1>10 DEF Restore
    <3> QED
      BY <3>1, <3>2, <3>3
  <2> QED
    BY <1>10, <2>1, <2>2, <2>3 DEF Restore, Typed, Windows, Frontend, NoEvent
<1>11. ASSUME NEW w \in Attempt \cup {"user"}, Stopped(w) PROVE Typed'
  <2>1. pc' \in [Caller -> PC] /\ pc'[w] \in {"off", "failed"}
        /\ \A v \in Caller \ {w} : pc'[v] = pc[v]
    BY <1>11 DEF Stopped, Goes, Typed, PC, Caller
  <2>2. /\ at' \in [Caller -> Local]
        /\ \A v \in Caller \ {w} : at'[v] = at[v]
    BY <1>11 DEF Stopped, Typed, NoLocal, Local
  <2>3. runtime' \in Runtime
    BY <1>11 DEF Stopped, Typed, Runtime, NoRuntime
  <2> QED
    BY <1>11, <2>1, <2>2, <2>3 DEF Stopped, Typed, Quietly, Windows, NoEvent
<1>12. CASE Exits \/ Dies
  BY <1>12, EventsCount DEF Exits, Dies, Windows, Typed
<1>13. CASE Launch \/ Launched \/ Exit
  <2>1. BeginsRecovery("host") \/ Quietly
    BY <1>13 DEF Launch, Launched, Exit
  <2>2. /\ call' \in [Caller -> [todo : Lists, undo : Lists, ok : BOOLEAN]]
        /\ torn' \subseteq {"ninety", "other", "shared"} /\ UNCHANGED Windows
    BY <1>5, <2>1 DEF Caller
  <2>3. pc' \in [Caller -> PC] /\ \A v \in Caller : pc'[v] = pc[v] \/ pc'[v] \notin {"validate", "connect", "look"}
    BY <1>13 DEF Launch, Launched, Exit, Goes, Typed, PC
  <2>4. /\ core' \in Endpoint \cup {NoEndpoint} /\ doomed' \in BOOLEAN
        /\ events' \in 0 .. MaxEvents /\ faults' \in 0 .. MaxFaults
        /\ UNCHANGED <<runtime, wanted, at>>
    BY <1>13, EventsCount DEF Launch, Launched, Exit, Frontend, Typed
  <2> QED
    BY <2>2, <2>3, <2>4 DEF Typed, Windows
<1>14. CASE Exited \/ Crash
  <2>1. Ends /\ events' \in 0 .. MaxEvents /\ faults' \in 0 .. MaxFaults
    BY <1>14 DEF Exited, Crash, Fault, NoEvent, Typed
  <2>2. pc' \in [Caller -> PC] /\ \A v \in Caller : pc'[v] \in {"boot", "off"}
    BY <2>1 DEF Ends, PC
  <2>3. at' \in [Caller -> Local]
    BY <2>1 DEF Ends, NoLocal, Local
  <2>4. call' \in [Caller -> [todo : Lists, undo : Lists, ok : BOOLEAN]]
    BY <2>1, RecoveryIsAList DEF Ends, Idle
  <2>5. runtime' \in Runtime /\ torn' \subseteq {"ninety", "other", "shared"}
    BY <2>1 DEF Ends, Runtime, NoRuntime, Tears, Typed
  <2> QED
    BY <2>1, <2>2, <2>3, <2>4, <2>5 DEF Ends, Typed, Windows
<1>15. CASE (\E s \in Setting : Changes(s)) \/ IsDamaged
  <2>1. ASSUME NEW s \in Setting, Changes(s) PROVE Typed'
    <3>1. s.enable \in BOOLEAN /\ s.server \in Endpoint \cup User /\ s.override \in {"ninety"} \cup User
      BY DEF Setting
    <3>2. reg' \in Registry
      BY <2>1, <3>1 DEF Changes, Registry, Typed
    <3>3. theirs' \in Setting
      BY <2>1 DEF Changes, Typed
    <3>4. torn' \subseteq {"ninety", "other", "shared"}
          /\ events' \in 0 .. MaxEvents /\ faults' \in 0 .. MaxFaults
      BY <2>1, EventsCount DEF Changes, Typed
    <3> QED
      BY <2>1, <3>2, <3>3, <3>4 DEF Changes, Frontend, Typed
  <2>2. CASE IsDamaged
    <3>1. reg' \in Registry /\ reg.active \in Endpoint
      BY <2>2 DEF IsDamaged, Registry, Typed
    <3>2. Off(reg.active) \in Setting
      BY <3>1 DEF Off, Setting
    <3>3. theirs' \in Setting
      BY <2>2, <3>2 DEF IsDamaged, Typed
    <3>4. events' \in 0 .. MaxEvents /\ faults' \in 0 .. MaxFaults
      BY <2>2, EventsCount DEF IsDamaged
    <3> QED
      BY <2>2, <3>1, <3>3, <3>4 DEF IsDamaged, Frontend, Typed
  <2> QED
    BY <1>15, <2>1, <2>2
<1>16. CASE UNCHANGED vars
  BY <1>16 DEF vars, Typed
<1> QED
  BY <1>1, <1>2, <1>3, <1>4, <1>6, <1>7, <1>8, <1>9, <1>10, <1>11, <1>12, <1>13, <1>14, <1>15,
     <1>16 DEF Next, Enabling, Rest

LEMMA TypedAlways == Spec => []Typed
BY TypedInit, TypedNext, PTL DEF Spec

LEMMA TypedIsTypeOK == Typed => TypeOK
<1> SUFFICES ASSUME Typed PROVE TypeOK
  OBVIOUS
<1>1. [reg EXCEPT !.saved = Damaged]
         \in [enable : BOOLEAN, server : Endpoint \cup User, override : {"ninety"} \cup User,
              saved : {Damaged}, valid : BOOLEAN, active : Endpoint \cup {NoEndpoint}]
  BY DEF Typed, Registry
<1>2. reg.saved \in Setting \cup {Damaged}
  BY DEF Typed, Registry
<1>3. \A w \in Caller : call[w].ok \in BOOLEAN /\ Len(call[w].todo) <= 6
  BY DEF Typed, Lists
<1> QED
  BY <1>1, <1>2, <1>3 DEF TypeOK, Typed, Local

\* The values below Internet Settings and Software\Ninety (proxy_win.rs:38-52), the lists
\* of writes of the commands of proxy_win.rs and the places of their callers keep their
\* types; no list is longer than the six writes of an enabling that saves first.
THEOREM SystemProxyTypes == Spec => []TypeOK
BY TypedAlways, TypedIsTypeOK, PTL

-----------------------------------------------------------------------------
(* Turns: who writes, who stops and whose attempt is the current one *)

WritingPC == {"set", "unset", "retreat", "restore", "launch", "exit"}
StoppingPC == {"queue", "killed", "restore", "wait"}

Turns ==
    /\ \A w \in Caller : Busy(w) => pc[w] \in WritingPC
    /\ \A w \in Caller : pc[w] \in StoppingPC => wanted \in {w, NoAttempt}
    /\ \A w \in Caller : at[w].last => pc[w] \in StoppingPC /\ wanted = NoAttempt
    /\ wanted # NoAttempt => runtime.by = wanted \/ pc[wanted] = "failed"

\* What a step does to the caller that takes it, and to no other.
LEMMA GoesThere ==
    ASSUME Typed, NEW w \in Caller, NEW to, Goes(w, to)
    PROVE  pc'[w] = to /\ \A v \in Caller \ {w} : pc'[v] = pc[v]
BY DEF Typed, Goes

LEMMA BeginsThat ==
    ASSUME Typed, NEW w \in Caller, NEW todo, NEW undo, Begins(w, todo, undo)
    PROVE  /\ call'[w] = [todo |-> todo, undo |-> undo, ok |-> TRUE]
           /\ \A v \in Caller \ {w} : call'[v] = call[v]
           /\ reg' = reg /\ theirs' = theirs
BY DEF Typed, Begins, Windows

\* What a single write does to its caller, and to no other.
LEMMA WritesOne ==
    ASSUME Typed, NEW w \in Caller, Writes(w)
    PROVE  /\ call[w].todo \in Lists /\ call[w].todo # <<>>
           /\ call'[w].todo = Tail(call[w].todo)
           /\ call'[w].ok = call[w].ok
           /\ Tail(call[w].todo) # <<>> => call'[w].undo = call[w].undo
           /\ \A v \in Caller \ {w} : call'[v] = call[v]
<1>1. /\ call[w].todo \in Lists /\ call[w].todo # <<>>
      /\ call[w] \in [todo : Lists, undo : Lists, ok : BOOLEAN]
      /\ call \in [Caller -> [todo : Lists, undo : Lists, ok : BOOLEAN]]
  BY DEF Typed, Writes, Busy
<1>2. call' = [call EXCEPT ![w] = IF Len(call[w].todo) = 1 THEN [Idle EXCEPT !.ok = call[w].ok]
                                  ELSE [call[w] EXCEPT !.todo = Tail(call[w].todo)]]
  BY DEF Writes
<1>3. /\ call'[w] = (IF Len(call[w].todo) = 1 THEN [Idle EXCEPT !.ok = call[w].ok]
                     ELSE [call[w] EXCEPT !.todo = Tail(call[w].todo)])
      /\ \A v \in Caller \ {w} : call'[v] = call[v]
  BY <1>1, <1>2
<1>4. Len(call[w].todo) = 1 => Tail(call[w].todo) = <<>>
  <2>1. call[w].todo \in Seq(Writable)
    BY <1>1 DEF Lists
  <2>2. Tail(call[w].todo) \in Seq(Writable) /\ Len(Tail(call[w].todo)) = Len(call[w].todo) - 1
    BY <1>1, <2>1
  <2>3. Tail(call[w].todo) # <<>> => Len(Tail(call[w].todo)) \in Nat \ {0}
    BY <2>2, EmptySeq
  <2> QED
    BY <2>2, <2>3
<1> QED
  BY <1>1, <1>3, <1>4 DEF Idle

\* What a failing write does to its caller, and to no other.
LEMMA FailsOne ==
    ASSUME Typed, NEW w \in Caller, Fails(w)
    PROVE  /\ call[w].todo \in Lists /\ call[w].todo # <<>>
           /\ call'[w].todo = (IF Head(call[w].todo).otherwise = "ignore" THEN Tail(call[w].todo)
                               ELSE IF Head(call[w].todo).otherwise = "undo" THEN call[w].undo
                               ELSE <<>>)
           /\ call'[w].undo = call[w].undo
           /\ call'[w].ok = (call[w].ok /\ Head(call[w].todo).otherwise = "ignore")
           /\ \A v \in Caller \ {w} : call'[v] = call[v]
<1> DEFINE x == IF Head(call[w].todo).otherwise = "ignore"
                THEN [call[w] EXCEPT !.todo = Tail(call[w].todo)]
                ELSE [call[w] EXCEPT !.todo = IF Head(call[w].todo).otherwise = "undo"
                                              THEN call[w].undo ELSE <<>>,
                                     !.ok = FALSE]
<1>1. /\ call[w].todo \in Lists /\ call[w].todo # <<>>
      /\ call[w] \in [todo : Lists, undo : Lists, ok : BOOLEAN]
      /\ call \in [Caller -> [todo : Lists, undo : Lists, ok : BOOLEAN]]
  BY DEF Typed, Fails, Busy
<1>2. call' = [call EXCEPT ![w] = x]
  BY Zenon DEF Fails
<1>3. call'[w] = x /\ \A v \in Caller \ {w} : call'[v] = call[v]
  <2> HIDE DEF x
  <2> QED
    BY <1>1, <1>2
<1>4. CASE Head(call[w].todo).otherwise = "ignore"
  BY <1>1, <1>3, <1>4
<1>5. CASE Head(call[w].todo).otherwise # "ignore"
  BY <1>1, <1>3, <1>5
<1> QED
  BY <1>4, <1>5

LEMMA TurnsInit == Init => Turns
<1> SUFFICES ASSUME Init PROVE Turns
  OBVIOUS
<1>1. \A w \in Caller : pc[w] \in {"boot", "off"} /\ ~at[w].last /\ ~Busy(w)
  BY DEF Init, NoLocal, Idle, Busy
<1> QED
  BY <1>1 DEF Init, Turns, StoppingPC

\* Nobody writes elsewhere than in a call, and a stop is of the latest attempt.
LEMMA TurnsNext == Typed /\ Turns /\ [Next]_vars => Turns'
<1> SUFFICES ASSUME Typed, Turns, [Next]_vars PROVE Turns'
  OBVIOUS
<1> USE SystemProxyAssumption DEF WritingPC, StoppingPC
<1>1. CASE \E w \in Caller : Writes(w) \/ Fails(w)
  <2>1. PICK w \in Caller : Writes(w) \/ Fails(w)
    BY <1>1
  <2>2. UNCHANGED <<runtime, wanted, pc, at>> /\ Busy(w)
    BY <2>1 DEF Writes, Fails, Frontend
  <2>3. \A v \in Caller \ {w} : call'[v] = call[v]
    BY <2>1, WritesOne, FailsOne
  <2>4. \A v \in Caller : Busy(v)' => Busy(v)
    BY <2>2, <2>3 DEF Busy
  <2> QED
    BY <2>2, <2>4 DEF Turns
<1>2. ASSUME NEW a \in Attempt, Start(a) PROVE Turns'
  <2>1. a \in Caller /\ pc'[a] = "validate" /\ pc[a] = "off" /\ \A v \in Caller \ {a} : pc'[v] = pc[v]
    BY <1>2, GoesThere DEF Start, Done, Caller
  <2>2. UNCHANGED call /\ wanted' = a /\ runtime'.by = a /\ ~Busy(a) /\ wanted = NoAttempt
        /\ \A v \in Caller : pc[v] \notin StoppingPC
    BY <1>2 DEF Start, Done, Quietly, Stopping
  <2>3. \A v \in Caller : at'[v].last = at[v].last
    BY <1>2 DEF Start, Typed, Local
  <2> QED
    BY <2>1, <2>2, <2>3 DEF Turns, Busy
<1>3. ASSUME NEW a \in Attempt, Validate(a) \/ Connects(a) \/ SetOn(a) \/ ReadsBack(a) \/ Listens(a)
                                \/ Unset(a)
      PROVE  Turns'
  <2>1. a \in Caller /\ ~Busy(a) /\ pc[a] \in {"validate", "connect", "look", "set", "listen", "unset"}
    BY <1>3 DEF Validate, Connects, SetOn, ReadsBack, Listens, Unset, Done, Caller
  <2>2. /\ pc'[a] \in {"connect", "look", "set", "listen", "unset", "ok"} \/ (wanted = a /\ pc'[a] = "queue")
           \/ (wanted # a /\ pc'[a] = "failed")
        /\ \A v \in Caller \ {a} : pc'[v] = pc[v]
    BY <1>3, <2>1, GoesThere DEF Validate, Connects, SetOn, ReadsBack, Listens, Unset, GivesUp
  <2>3. UNCHANGED <<wanted, at>> /\ runtime'.by = runtime.by
    BY <1>3 DEF Validate, Connects, SetOn, ReadsBack, Listens, Unset, Frontend, Typed, Runtime
  <2>4. /\ call'[a].todo # <<>> => pc'[a] \in {"set", "unset"}
        /\ \A v \in Caller \ {a} : call'[v] = call[v]
    <3>1. CASE Quietly
      BY <2>1, <3>1 DEF Quietly, Busy
    <3>2. CASE ~Quietly
      <4>1. pc'[a] \in {"set", "unset"} /\ (BeginsRecovery(a) \/ BeginsEnabling(a, at[a].goal))
        BY <1>3, <2>1, <3>2, GoesThere DEF Validate, Connects, SetOn, ReadsBack, Listens, Unset
      <4> QED
        BY <2>1, <4>1, BeginsThat DEF BeginsRecovery, BeginsEnabling
    <3> QED
      BY <3>1, <3>2
  <2>5. \A v \in Caller : Busy(v)' => pc'[v] \in WritingPC
    BY <2>1, <2>2, <2>3, <2>4 DEF Turns, Busy
  <2>6. \A v \in Caller : pc'[v] \in StoppingPC => wanted' \in {v, NoAttempt}
    BY <2>1, <2>2, <2>3, <2>4 DEF Turns
  <2>7. \A v \in Caller : at'[v].last => pc'[v] \in StoppingPC /\ wanted' = NoAttempt
    BY <2>1, <2>2, <2>3, <2>4 DEF Turns
  <2>8. wanted' # NoAttempt => runtime'.by = wanted' \/ pc'[wanted'] = "failed"
    BY <2>1, <2>2, <2>3, <2>4 DEF Turns, Typed, Caller
  <2> QED
    BY <2>5, <2>6, <2>7, <2>8 DEF Turns
<1>4. ASSUME NEW a \in Attempt, Succeeds(a) \/ IsRefused(a) \/ Retreated(a) PROVE Turns'
  <2>1. a \in Caller /\ ~Busy(a) /\ pc[a] \in {"ok", "failed", "retreat"} /\ ~at[a].last
    BY <1>4 DEF Succeeds, IsRefused, Retreated, Done, Caller, Turns
  <2>2. /\ \/ pc'[a] = "off" \/ (pc'[a] = "retreat" /\ wanted # a /\ wanted' = wanted)
           \/ (wanted = a /\ wanted' = NoAttempt /\ pc'[a] = "queue")
        /\ wanted' = wanted \/ (wanted' = NoAttempt /\ wanted = a)
        /\ pc[a] = "failed" /\ wanted = a => wanted' = NoAttempt
        /\ \A v \in Caller \ {a} : pc'[v] = pc[v]
    BY <1>4, <2>1, GoesThere DEF Succeeds, IsRefused, Retreated, Retreats, Frontend, Done
  <2>3. /\ at'[a].last => pc'[a] = "queue" /\ wanted' = NoAttempt
        /\ \A v \in Caller \ {a} : at'[v] = at[v]
    <3>1. at \in [Caller -> Local]
      BY DEF Typed
    <3>2. CASE at' = at
      BY <2>1, <3>2
    <3>3. CASE at' = [at EXCEPT ![a] = NoLocal]
      BY <2>1, <3>1, <3>3 DEF NoLocal
    <3>4. CASE IsRefused(a) /\ wanted = a
      <4>1. pc'[a] = "queue" /\ wanted' = NoAttempt /\ at' = [at EXCEPT ![a].last = TRUE]
        BY <2>1, <3>4, GoesThere DEF IsRefused
      <4> QED
        BY <3>1, <4>1
    <3> QED
      BY <1>4, <3>2, <3>3, <3>4 DEF Succeeds, IsRefused, Retreated, Retreats
  <2>4. runtime'.by = runtime.by
    BY <1>4 DEF Succeeds, IsRefused, Retreated, Retreats, Frontend, Typed, Runtime
  <2>5. /\ call'[a].todo # <<>> => pc'[a] = "retreat"
        /\ \A v \in Caller \ {a} : call'[v] = call[v]
    <3>1. CASE Quietly
      BY <2>1, <3>1 DEF Quietly, Busy
    <3>2. CASE ~Quietly
      <4>1. pc'[a] = "retreat" /\ BeginsRecovery(a)
        BY <1>4, <2>1, <3>2, GoesThere DEF Succeeds, IsRefused, Retreated, Retreats
      <4> QED
        BY <2>1, <4>1, BeginsThat DEF BeginsRecovery
    <3> QED
      BY <3>1, <3>2
  <2>6. \A v \in Caller : Busy(v)' => pc'[v] \in WritingPC
    BY <2>1, <2>2, <2>3, <2>4, <2>5 DEF Turns, Busy
  <2>7. \A v \in Caller : pc'[v] \in StoppingPC => wanted' \in {v, NoAttempt}
    BY <2>1, <2>2, <2>3, <2>4, <2>5 DEF Turns
  <2>8. \A v \in Caller : at'[v].last => pc'[v] \in StoppingPC /\ wanted' = NoAttempt
    BY <2>1, <2>2, <2>3, <2>4, <2>5 DEF Turns
  <2>9. wanted' # NoAttempt => runtime'.by = wanted' \/ pc'[wanted'] = "failed"
    BY <2>1, <2>2, <2>3, <2>4, <2>5 DEF Turns, Typed, Caller
  <2> QED
    BY <2>6, <2>7, <2>8, <2>9 DEF Turns
<1>5. CASE Disconnect
  <2>1. "user" \in Caller /\ ~Busy("user") /\ pc'["user"] = "queue" /\ \A v \in Caller \ {"user"} : pc'[v] = pc[v]
    BY <1>5, GoesThere DEF Disconnect, Done, Caller
  <2>2. wanted' = NoAttempt /\ UNCHANGED <<call, at, runtime>> /\ pc["user"] = "off"
    BY <1>5 DEF Disconnect, Done, Quietly
  <2> QED
    BY <2>1, <2>2 DEF Turns, Busy
<1>6. ASSUME NEW w \in Attempt \cup {"user"}, Kill(w) \/ Restore(w) \/ Restored(w) PROVE Turns'
  <2>1. w \in Caller /\ ~Busy(w) /\ pc[w] \in StoppingPC /\ pc'[w] \in StoppingPC
        /\ \A v \in Caller \ {w} : pc'[v] = pc[v]
    BY <1>6, GoesThere DEF Kill, Restore, Restored, Done, Caller
  <2>2. wanted' = wanted /\ runtime'.by = runtime.by
    BY <1>6 DEF Kill, Restore, Restored, Frontend, Typed, Runtime
  <2>3. \A v \in Caller : at'[v].last = at[v].last
    BY <1>6, <2>1 DEF Kill, Restore, Restored, Typed, Local
  <2>4. /\ call'[w].todo # <<>> => pc'[w] = "restore"
        /\ \A v \in Caller \ {w} : call'[v] = call[v]
    BY <1>6, <2>1, BeginsThat, GoesThere DEF Kill, Restore, Restored, BeginsRecovery, Quietly, Busy
  <2> QED
    BY <2>1, <2>2, <2>3, <2>4 DEF Turns, Busy
<1>7. ASSUME NEW w \in Attempt \cup {"user"}, Stopped(w) PROVE Turns'
  <2>1. w \in Caller /\ ~Busy(w) /\ pc[w] = "wait"
        /\ pc'[w] = (IF w = "user" \/ at[w].last THEN "off" ELSE "failed")
        /\ \A v \in Caller \ {w} : pc'[v] = pc[v]
    BY <1>7, GoesThere DEF Stopped, Done, Caller
  <2>2. /\ ~at'[w].last
        /\ \A v \in Caller \ {w} : at'[v] = at[v]
    BY <1>7, <2>1 DEF Stopped, Typed, NoLocal
  <2>3. UNCHANGED <<wanted, call>> /\ (runtime' = runtime \/ runtime' = NoRuntime)
    BY <1>7 DEF Stopped, Quietly
  <2>4. wanted = NoAttempt \/ (wanted = w /\ ~at[w].last /\ w # "user")
    BY <2>1 DEF Turns, Typed
  <2> QED
    BY <2>1, <2>2, <2>3, <2>4 DEF Turns, Busy
<1>8. CASE Exits \/ Dies
  BY <1>8 DEF Exits, Dies, Turns, Busy
<1>9. CASE Launch \/ Launched \/ Exit
  <2>1. "host" \in Caller /\ ~Busy("host") /\ pc["host"] \in {"boot", "launch", "off"}
        /\ pc'["host"] \in {"launch", "off", "exit"} /\ \A v \in Caller \ {"host"} : pc'[v] = pc[v]
    BY <1>9, GoesThere DEF Launch, Launched, Exit, On, Caller, Turns
  <2>2. UNCHANGED <<runtime, wanted, at>>
    BY <1>9 DEF Launch, Launched, Exit, Frontend
  <2>3. /\ call'["host"].todo # <<>> => pc'["host"] \in {"launch", "exit"}
        /\ \A v \in Caller \ {"host"} : call'[v] = call[v]
    <3>1. CASE Launched
      BY <2>1, <3>1 DEF Launched, Quietly, Busy
    <3>2. CASE Launch \/ Exit
      BY <2>1, <3>2, BeginsThat, GoesThere DEF Launch, Exit, BeginsRecovery
    <3> QED
      BY <1>9, <3>1, <3>2
  <2>4. wanted # NoAttempt => wanted # "host"
    BY DEF Typed
  <2>5. \A v \in Caller : Busy(v)' => pc'[v] \in WritingPC
    BY <2>1, <2>2, <2>3, <2>4 DEF Turns, Busy
  <2>6. \A v \in Caller : pc'[v] \in StoppingPC => wanted' \in {v, NoAttempt}
    BY <2>1, <2>2, <2>3, <2>4 DEF Turns
  <2>7. \A v \in Caller : at'[v].last => pc'[v] \in StoppingPC /\ wanted' = NoAttempt
    BY <2>1, <2>2, <2>3, <2>4 DEF Turns
  <2>8. wanted' # NoAttempt => runtime'.by = wanted' \/ pc'[wanted'] = "failed"
    BY <2>1, <2>2, <2>3, <2>4 DEF Turns, Typed, Caller
  <2> QED
    BY <2>5, <2>6, <2>7, <2>8 DEF Turns
<1>10. CASE Exited \/ Crash
  <2>1. Ends
    BY <1>10 DEF Exited, Crash
  <2>2. \A w \in Caller : pc'[w] \in {"boot", "off"} /\ ~at'[w].last /\ ~Busy(w)' /\ wanted' = NoAttempt
    BY <2>1 DEF Ends, NoLocal, Idle, Busy
  <2>3. wanted' = NoAttempt
    BY <2>1 DEF Ends
  <2> QED
    BY <2>2, <2>3 DEF Turns
<1>11. CASE (\E s \in Setting : Changes(s)) \/ IsDamaged
  BY <1>11 DEF Changes, IsDamaged, Frontend, Turns, Busy
<1>12. CASE UNCHANGED vars
  BY <1>12 DEF vars, Turns, Busy
<1> QED
  BY <1>1, <1>2, <1>3, <1>4, <1>5, <1>6, <1>7, <1>8, <1>9, <1>10, <1>11, <1>12
     DEF Next, Enabling, Rest

-----------------------------------------------------------------------------
(* Plans: what is in the registry while a call has writes left *)

Unbroken == "ninety" \notin torn

\* What is known exactly as long as nothing came between the writes of a call, and what is
\* known as long as others leave no address of ours in the setting.
Exact == "ninety" \notin torn /\ "other" \notin torn
Exactly(P) == Exact => P
Safely(P) == "shared" \notin torn => P

\* Windows sends to an endpoint.
Sent(s) == s.enable /\ s.server \in Endpoint

\* What can be given back is there; the setting has been given back already.
Good == reg.valid /\ reg.saved # Damaged /\ Exactly(reg.saved = theirs)
Clean == Safely(~Sent(reg)) /\ Exactly(SettingIn(reg) = theirs)

\* Between the calls: a setting that sends to an endpoint is ours and marked, and what
\* was there before it can be given back.
Quiet ==
    /\ Safely(Sent(reg) => reg.valid /\ SettingIn(reg) = Ours(MarkOf(reg.active)))
    /\ Exactly(\/ SettingIn(reg) = theirs
               \/ /\ reg.valid /\ SettingIn(reg) = Ours(MarkOf(reg.active))
                  /\ \/ reg.saved = theirs
                     \/ reg.saved = Damaged /\ theirs = Off(reg.active))

\* The setting that is not ours sends nobody to an endpoint, and neither does what is saved.
\* In no case does it look like one of ours.
Spared == Safely(~Sent(theirs)) /\ ~LooksOurs(theirs)
SavedIsSafe ==
    reg.valid => IF reg.saved = Damaged THEN reg.active # NoEndpoint ELSE Safely(~Sent(reg.saved))

\* The address is that of s, or another program has written one over it.
HasServer(s) == Safely(reg.server \in {s.server} \cup User) /\ Exactly(reg.server = s.server)
HasList(s) ==
    /\ Safely(reg.server \in Endpoint => reg.override = s.override)
    /\ Exactly(reg.override = s.override)

\* The marks are taken away from a setting that has been given back.
Forgets == <<Write("valid", FALSE, "end"), Unmarks>>
Clears(w) ==
    /\ call[w].ok /\ Clean
    /\ \/ call[w].todo = Forget
       \/ call[w].todo = Forgets
       \/ call[w].todo = <<Unmarks>> /\ ~reg.valid

\* The proxy is turned off, since what was saved is damaged.
CannotRestore ==
    /\ Safely(reg.valid /\ reg.saved = Damaged)
    /\ Exactly(/\ reg.valid /\ reg.saved = Damaged
               /\ SettingIn(reg) = Ours(reg.active) /\ theirs = Off(reg.active))
Disables(w) == call[w].ok /\ call[w].todo = TurnsItOff /\ CannotRestore

\* What was saved is given back.
Restoring(w) ==
    /\ call[w].ok /\ Good
    /\ \/ call[w].todo = RestoresAll(reg.saved)
       \/ call[w].todo = RestoresList(reg.saved) /\ HasServer(reg.saved)
       \/ call[w].todo = RestoresSwitch(reg.saved) /\ HasServer(reg.saved) /\ HasList(reg.saved)

\* The rollback to the setting s and the mark a, and what is left of it.  It keeps what
\* was saved if that was there before.
UndoesFrom(s, a, kept) == IF kept THEN UndoesKept(s, a) ELSE UndoesAll(s, a)
UndoesList(s, a, kept) ==
    IF kept THEN <<Write("override", s.override, "end"), Write("enable", s.enable, "end"),
                   Write("active", a, "end")>>
    ELSE <<Write("override", s.override, "end"), Write("enable", s.enable, "end"),
           Write("active", a, "end"), Write("valid", FALSE, "end")>>
UndoesSwitch(s, a, kept) ==
    IF kept THEN <<Write("enable", s.enable, "end"), Write("active", a, "end")>>
    ELSE <<Write("enable", s.enable, "end"), Write("active", a, "end"),
           Write("valid", FALSE, "end")>>
UndoesMark(a, kept) ==
    IF kept THEN <<Write("active", a, "end")>>
    ELSE <<Write("active", a, "end"), Write("valid", FALSE, "end")>>
UndoesSaving == <<Write("valid", FALSE, "end")>>

\* The setting to which a failed enabling goes back is the user's, or one of ours that
\* was marked when the enabling began.
Before(s, a, kept) ==
    /\ Safely(Sent(s) => kept /\ s = Ours(MarkOf(a)))
    /\ Exactly(s = theirs \/ (kept /\ s = Ours(MarkOf(a))))

\* A setting is saved and the endpoint e is put into its place.
Marked(e) == Good /\ reg.active = e
EnablesFrom(w, e, s, a, kept) ==
    /\ call[w].undo = UndoesFrom(s, a, kept)
    /\ Before(s, a, kept)
    /\ \/ /\ call[w].todo = SavesAll(s, e)
          /\ ~kept /\ ~reg.valid /\ Clean /\ Exactly(s = theirs)
       \/ /\ call[w].todo = SavesMark(e)
          /\ ~kept /\ ~reg.valid /\ Clean /\ reg.saved = s /\ Exactly(s = theirs)
       \/ call[w].todo = Sets(e) /\ Good
       \/ call[w].todo = SetsServer(e) /\ Marked(e)
       \/ call[w].todo = SetsList /\ Marked(e) /\ HasServer(Ours(e))
       \/ call[w].todo = SetsSwitch /\ Marked(e) /\ HasServer(Ours(e)) /\ HasList(Ours(e))
Enables(w) ==
    /\ call[w].ok /\ pc[w] = "set"
    /\ \E e \in Endpoint, s \in Setting, a \in Endpoint \cup {NoEndpoint}, kept \in BOOLEAN :
          EnablesFrom(w, e, s, a, kept)

\* An enabling that has failed is undone.
UndoingTo(w, s, a, kept) ==
    /\ Before(s, a, kept)
    /\ \/ call[w].todo = UndoesFrom(s, a, kept) /\ Good
       \/ call[w].todo = UndoesList(s, a, kept) /\ Good /\ HasServer(s)
       \/ call[w].todo = UndoesSwitch(s, a, kept) /\ Good /\ HasServer(s) /\ HasList(s)
       \/ /\ call[w].todo = UndoesMark(a, kept) /\ Good /\ HasServer(s) /\ HasList(s)
          /\ Safely(reg.server \in Endpoint /\ reg.enable => s.enable)
          /\ Exactly(reg.enable = s.enable)
       \/ call[w].todo = UndoesSaving /\ Clean
Undoing(w) ==
    /\ ~call[w].ok
    /\ \E s \in Setting, a \in Endpoint \cup {NoEndpoint}, kept \in BOOLEAN : UndoingTo(w, s, a, kept)

Plan(w) == Clears(w) \/ Disables(w) \/ Restoring(w) \/ Enables(w) \/ Undoing(w)

\* One caller writes at a time, according to its plan, and the setting is in order when
\* none does.
Orderly ==
    /\ \A v, w \in Caller : Busy(v) /\ Busy(w) => v = w
    /\ Spared
    /\ SavedIsSafe
    /\ \A w \in Caller : Busy(w) => Plan(w)
    /\ ~Writing => Quiet
Kept == Unbroken => Orderly

-----------------------------------------------------------------------------
(* The first write of a list and the rest *)

Splits(list, write, rest) == list # <<>> /\ Head(list) = write /\ Tail(list) = rest

LEMMA SixSplit ==
    ASSUME NEW a, NEW b, NEW c, NEW d, NEW e, NEW f
    PROVE  /\ Splits(<<a>>, a, <<>>) /\ Splits(<<a, b>>, a, <<b>>)
           /\ Splits(<<a, b, c>>, a, <<b, c>>) /\ Splits(<<a, b, c, d>>, a, <<b, c, d>>)
           /\ Splits(<<a, b, c, d, e>>, a, <<b, c, d, e>>)
           /\ Splits(<<a, b, c, d, e, f>>, a, <<b, c, d, e, f>>)
BY DEF Splits

LEMMA ForgettingSplits ==
    /\ Splits(Forget, Write("valid", FALSE, "ignore"), <<Unmarks>>)
    /\ Splits(Forgets, Write("valid", FALSE, "end"), <<Unmarks>>)
    /\ Splits(<<Unmarks>>, Write("active", NoEndpoint, "ignore"), <<>>)
    /\ Splits(TurnsItOff, Write("enable", FALSE, "end"), Forget)
    /\ Splits(UndoesSaving, Write("valid", FALSE, "end"), <<>>)
BY SixSplit DEF Forget, Forgets, TurnsItOff, Unmarks, UndoesSaving

LEMMA RestoringSplits ==
    ASSUME NEW s
    PROVE  /\ Splits(RestoresAll(s), Write("server", s.server, "end"), RestoresList(s))
           /\ Splits(RestoresList(s), Write("override", s.override, "end"), RestoresSwitch(s))
           /\ Splits(RestoresSwitch(s), Write("enable", s.enable, "end"), Forgets)
BY SixSplit DEF RestoresAll, RestoresList, RestoresSwitch, Forgets

LEMMA EnablingSplits ==
    ASSUME NEW s, NEW e
    PROVE  /\ Splits(SavesAll(s, e), Write("saved", s, "end"), SavesMark(e))
           /\ Splits(SavesMark(e), Write("valid", TRUE, "end"), Sets(e))
           /\ Splits(Sets(e), Write("active", e, "undo"), SetsServer(e))
           /\ Splits(SetsServer(e), Write("server", e, "undo"), SetsList)
           /\ Splits(SetsList, Write("override", "ninety", "undo"), SetsSwitch)
           /\ Splits(SetsSwitch, Write("enable", TRUE, "undo"), <<>>)
BY SixSplit DEF SavesAll, SavesMark, Sets, SetsServer, SetsList, SetsSwitch

LEMMA UndoingSplits ==
    ASSUME NEW s, NEW a, NEW kept \in BOOLEAN
    PROVE  /\ Splits(UndoesFrom(s, a, kept), Write("server", s.server, "end"), UndoesList(s, a, kept))
           /\ Splits(UndoesList(s, a, kept), Write("override", s.override, "end"),
                     UndoesSwitch(s, a, kept))
           /\ Splits(UndoesSwitch(s, a, kept), Write("enable", s.enable, "end"), UndoesMark(a, kept))
           /\ Splits(UndoesMark(a, kept), Write("active", a, "end"), IF kept THEN <<>> ELSE UndoesSaving)
<1>1. CASE kept
  BY <1>1, SixSplit DEF UndoesFrom, UndoesKept, UndoesList, UndoesSwitch, UndoesMark
<1>2. CASE ~kept
  BY <1>2, SixSplit
     DEF UndoesFrom, UndoesAll, UndoesList, UndoesSwitch, UndoesMark, UndoesSaving
<1> QED
  BY <1>1, <1>2

LEMMA NoListIsEmpty ==
    /\ Forgets # <<>> /\ Forget # <<>> /\ <<Unmarks>> # <<>> /\ UndoesSaving # <<>>
    /\ \A s, a : \A kept \in BOOLEAN : UndoesFrom(s, a, kept) # <<>>
BY ForgettingSplits, UndoingSplits DEF Splits

\* What a single write leaves in the registry.
LEMMA WritesFirst ==
    ASSUME Typed, NEW w \in Caller, Writes(w)
    PROVE  LET x == Head(call[w].todo)
           IN  /\ reg'.enable = (IF x.key = "enable" THEN x.val ELSE reg.enable)
               /\ reg'.server = (IF x.key = "server" THEN x.val ELSE reg.server)
               /\ reg'.override = (IF x.key = "override" THEN x.val ELSE reg.override)
               /\ reg'.saved = (IF x.key = "saved" THEN x.val ELSE reg.saved)
               /\ reg'.valid = (IF x.key = "valid" THEN x.val ELSE reg.valid)
               /\ reg'.active = (IF x.key = "active" THEN x.val ELSE reg.active)
               /\ theirs' = theirs /\ pc' = pc
<1> DEFINE x == Head(call[w].todo)
<1>1. reg' = [reg EXCEPT ![x.key] = x.val] /\ theirs' = theirs /\ pc' = pc
  BY DEF Writes
<1> HIDE DEF x
<1>2. reg \in Registry
  BY DEF Typed
<1>3. /\ reg'.enable = (IF x.key = "enable" THEN x.val ELSE reg.enable)
      /\ reg'.server = (IF x.key = "server" THEN x.val ELSE reg.server)
      /\ reg'.override = (IF x.key = "override" THEN x.val ELSE reg.override)
      /\ reg'.saved = (IF x.key = "saved" THEN x.val ELSE reg.saved)
      /\ reg'.valid = (IF x.key = "valid" THEN x.val ELSE reg.valid)
      /\ reg'.active = (IF x.key = "active" THEN x.val ELSE reg.active)
  BY <1>1, <1>2 DEF Registry
<1> QED
  BY <1>1, <1>3 DEF x

\* Settings are equal if their values are; a damaged one is none.
LEMMA SameSetting ==
    /\ \A s, t \in Setting : s.enable = t.enable /\ s.server = t.server /\ s.override = t.override => s = t
    /\ \A s \in Setting : s # Damaged
    /\ \A e \in Endpoint : Ours(e) \in Setting /\ LooksOurs(Ours(e))
    /\ \A s \in Setting : LooksOurs(s) => s = Ours(s.server)
    /\ \A r \in Registry : SettingIn(r) \in Setting
    /\ \A e : Ours(e).enable /\ Ours(e).server = e /\ Ours(e).override = "ninety"
    /\ \A r : SettingIn(r).enable = r.enable /\ SettingIn(r).server = r.server
              /\ SettingIn(r).override = r.override
<1>1. \A s, t \in Setting : s.enable = t.enable /\ s.server = t.server /\ s.override = t.override => s = t
  BY DEF Setting
<1>2. \A s \in Setting : s # Damaged
  BY SystemProxyAssumption DEF Setting, Damaged
<1>3. \A e \in Endpoint : Ours(e) \in Setting /\ LooksOurs(Ours(e))
  BY DEF Ours, Setting, LooksOurs, OnWithOurList
<1>5. \A s \in Setting : LooksOurs(s) => s = Ours(s.server)
  BY DEF Ours, Setting, LooksOurs, OnWithOurList
<1>4. \A r \in Registry : SettingIn(r) \in Setting
  BY DEF Registry, SettingIn, Setting
<1> QED
  BY <1>1, <1>2, <1>3, <1>4, <1>5 DEF Ours, SettingIn

-----------------------------------------------------------------------------
(* A write of a call leads from its plan to its plan, and from its end to the *)
(* quiet between the calls.                                                    *)

After(w) ==
    /\ Spared' /\ SavedIsSafe'
    /\ call'[w].todo # <<>> => Plan(w)'
    /\ call'[w].todo = <<>> => Quiet'

LEMMA CleanIsQuiet == Clean => Quiet
BY DEF Clean, Quiet, Exactly, Exact, Safely

\* What others left, they left.
LEMMA SparedStays ==
    ASSUME Spared, torn \subseteq torn', theirs' = theirs
    PROVE  Spared'
BY DEF Spared, Safely, Sent, LooksOurs, OnWithOurList

\* Marks do not belong to the setting.
LEMMA CleanStays ==
    ASSUME Clean, torn' = torn, theirs' = theirs,
           UNCHANGED <<reg.enable, reg.server, reg.override>>
    PROVE  Clean' /\ SettingIn(reg') = SettingIn(reg)
BY DEF Clean, Exactly, Exact, Safely, Sent, SettingIn

\* What was saved can be given back as long as it is not written.
LEMMA GoodStays ==
    ASSUME Good, SavedIsSafe, torn' = torn, theirs' = theirs, UNCHANGED <<reg.saved, reg.valid>>
    PROVE  Good' /\ SavedIsSafe'
BY DEF Good, SavedIsSafe, Exactly, Exact, Safely, Sent

\* Taking the marks away leaves the setting that was given back.
LEMMA WritesClearing ==
    ASSUME Typed, Spared, SavedIsSafe, NEW w \in Caller, Writes(w), torn' = torn, Clears(w)
    PROVE  After(w)
<1>1. reg \in Registry /\ Clean /\ call[w].ok
  BY DEF Typed, Clears
<1>2. CASE call[w].todo = Forget \/ call[w].todo = Forgets
  <2>1. PICK o : Splits(call[w].todo, Write("valid", FALSE, o), <<Unmarks>>)
    BY <1>2, ForgettingSplits
  <2> call'[w].todo = <<Unmarks>>
    BY <2>1, WritesOne DEF Splits
  <2>2. call'[w].ok = call[w].ok /\ theirs' = theirs
    BY <2>1, WritesOne, WritesFirst DEF Splits, Write
  <2>3. reg'.valid = FALSE /\ UNCHANGED <<reg.enable, reg.server, reg.override>>
    BY <2>1, WritesOne, WritesFirst DEF Splits, Write
  <2>4. Clean'
    BY <1>1, <2>2, <2>3, CleanStays
  <2>5. Clears(w)'
    BY <1>1, <2>2, <2>3, <2>4 DEF Clears
  <2> QED
    BY <2>2, <2>3, <2>5, SparedStays, NoListIsEmpty DEF After, Plan, SavedIsSafe, Safely, Sent
<1>3. CASE call[w].todo = <<Unmarks>> /\ ~reg.valid
  <2> Splits(call[w].todo, Write("active", NoEndpoint, "ignore"), <<>>)
    BY <1>3, ForgettingSplits
  <2> call'[w].todo = <<>>
    BY WritesOne DEF Splits
  <2>1. theirs' = theirs
    BY WritesOne, WritesFirst DEF Splits, Write
  <2>2. reg'.valid = reg.valid /\ UNCHANGED <<reg.enable, reg.server, reg.override>>
    BY WritesOne, WritesFirst DEF Splits, Write
  <2>3. Clean'
    BY <1>1, <2>1, <2>2, CleanStays
  <2>4. Quiet'
    BY <2>3 DEF Clean, Quiet, Exactly, Exact, Safely
  <2> QED
    BY <1>3, <2>1, <2>2, <2>4, SparedStays DEF After, SavedIsSafe
<1> QED
  BY <1>2, <1>3 DEF Clears

\* Turning ours off, where what was saved is damaged, leaves what nobody is sent by.
LEMMA WritesDisabling ==
    ASSUME Typed, Spared, SavedIsSafe, NEW w \in Caller, Writes(w), torn' = torn, Disables(w)
    PROVE  After(w)
<1>1. reg \in Registry /\ CannotRestore /\ call[w].ok /\ call[w].todo = TurnsItOff
  BY DEF Typed, Disables
<1> Splits(call[w].todo, Write("enable", FALSE, "end"), Forget)
  BY <1>1, ForgettingSplits
<1> call'[w].todo = Forget
  BY WritesOne DEF Splits
<1>2. call'[w].ok = call[w].ok /\ theirs' = theirs
  BY WritesOne, WritesFirst DEF Splits, Write
<1>3. reg'.enable = FALSE
      /\ UNCHANGED <<reg.server, reg.override, reg.saved, reg.valid, reg.active>>
  BY WritesOne, WritesFirst DEF Splits, Write
<1>4. ~Sent(reg')
  BY <1>3 DEF Sent
<1>5. Exact => SettingIn(reg') = theirs'
  BY <1>1, <1>2, <1>3, SameSetting DEF CannotRestore, Exactly, Exact, Safely, SettingIn, Ours, Off
<1>6. Clears(w)'
  BY <1>1, <1>2, <1>4, <1>5 DEF Clears, Clean, Exactly, Exact, Safely
<1> QED
  BY <1>2, <1>3, <1>6, SparedStays, NoListIsEmpty DEF After, Plan, SavedIsSafe, Safely, Sent

\* Address, exceptions and switch are given back one by one, before the marks go.
LEMMA WritesRestoring ==
    ASSUME Typed, Typed', Spared, SavedIsSafe, NEW w \in Caller, Writes(w), torn' = torn, Restoring(w)
    PROVE  After(w)
<1>1. reg \in Registry /\ Good /\ call[w].ok /\ reg.saved \in Setting /\ theirs \in Setting
      /\ reg' \in Registry
  BY DEF Typed, Restoring, Good, Registry
<1>2. CASE call[w].todo = RestoresAll(reg.saved)
  <2> Splits(call[w].todo, Write("server", reg.saved.server, "end"), RestoresList(reg.saved))
    BY <1>2, RestoringSplits
  <2> call'[w].todo = RestoresList(reg.saved)
    BY WritesOne DEF Splits
  <2>1. call'[w].ok = call[w].ok /\ theirs' = theirs
    BY WritesOne, WritesFirst DEF Splits, Write
  <2>2. reg'.server = reg.saved.server
        /\ UNCHANGED <<reg.enable, reg.override, reg.saved, reg.valid, reg.active>>
    BY WritesOne, WritesFirst DEF Splits, Write
  <2>3. Good' /\ SavedIsSafe'
    BY <1>1, <2>1, <2>2, GoodStays
  <2>4. Restoring(w)'
    BY <1>1, <2>1, <2>2, <2>3 DEF Restoring, HasServer, Exactly, Exact, Safely
  <2> QED
    BY <2>1, <2>3, <2>4, SparedStays, RestoringSplits DEF After, Plan, Splits
<1>3. CASE call[w].todo = RestoresList(reg.saved) /\ HasServer(reg.saved)
  <2> Splits(call[w].todo, Write("override", reg.saved.override, "end"), RestoresSwitch(reg.saved))
    BY <1>3, RestoringSplits
  <2> call'[w].todo = RestoresSwitch(reg.saved)
    BY WritesOne DEF Splits
  <2>1. call'[w].ok = call[w].ok /\ theirs' = theirs
    BY WritesOne, WritesFirst DEF Splits, Write
  <2>2. reg'.override = reg.saved.override
        /\ UNCHANGED <<reg.server, reg.saved, reg.valid, reg.active>>
    BY WritesOne, WritesFirst DEF Splits, Write
  <2>3. Good' /\ SavedIsSafe'
    BY <1>1, <2>1, <2>2, GoodStays
  <2>4. Restoring(w)'
    BY <1>1, <1>3, <2>1, <2>2, <2>3 DEF Restoring, HasServer, HasList, Exactly, Exact, Safely
  <2> QED
    BY <2>1, <2>3, <2>4, SparedStays, RestoringSplits DEF After, Plan, Splits
<1>4. CASE call[w].todo = RestoresSwitch(reg.saved) /\ HasServer(reg.saved) /\ HasList(reg.saved)
  <2> Splits(call[w].todo, Write("enable", reg.saved.enable, "end"), Forgets)
    BY <1>4, RestoringSplits
  <2> call'[w].todo = Forgets
    BY WritesOne DEF Splits
  <2>1. call'[w].ok = call[w].ok /\ theirs' = theirs
    BY WritesOne, WritesFirst DEF Splits, Write
  <2>2. reg'.enable = reg.saved.enable
        /\ UNCHANGED <<reg.server, reg.override, reg.saved, reg.valid, reg.active>>
    BY WritesOne, WritesFirst DEF Splits, Write
  <2>3. Good' /\ SavedIsSafe'
    BY <1>1, <2>1, <2>2, GoodStays
  <2>4. Safely(~Sent(reg'))
    <3>1. Safely(~Sent(reg.saved))
      BY <1>1 DEF SavedIsSafe, Good
    <3>2. Safely(reg.server = reg.saved.server \/ reg.server \in User)
      BY <1>4 DEF HasServer, Safely
    <3> QED
      BY <2>2, <3>1, <3>2, SystemProxyAssumption DEF Sent, Safely
  <2>5. Exact => SettingIn(reg') = theirs'
    <3>1. SettingIn(reg') \in Setting
      BY <1>1, SameSetting
    <3>2. Exact => reg.server = reg.saved.server /\ reg.override = reg.saved.override
                       /\ reg.saved = theirs
      BY <1>1, <1>4 DEF HasServer, HasList, Exactly, Exact, Safely, Good
    <3>3. Exact => SettingIn(reg') = reg.saved
      BY <1>1, <2>2, <3>1, <3>2, SameSetting
    <3> QED
      BY <2>1, <3>2, <3>3
  <2>6. Clears(w)'
    BY <1>1, <2>1, <2>4, <2>5 DEF Clears, Clean, Exactly, Exact, Safely
  <2> QED
    BY <2>1, <2>3, <2>6, SparedStays, NoListIsEmpty DEF After, Plan
<1> QED
  BY <1>2, <1>3, <1>4 DEF Restoring

\* The setting is saved and marked before the address of ours is written.
LEMMA WritesEnabling ==
    ASSUME Typed, Typed', Spared, SavedIsSafe, NEW w \in Caller, Writes(w), torn' = torn, Enables(w)
    PROVE  After(w)
<1>1. /\ reg \in Registry /\ reg' \in Registry /\ theirs \in Setting
      /\ call[w].ok /\ pc[w] = "set"
  BY DEF Typed, Enables
<1>2. PICK e \in Endpoint, s \in Setting, a \in Endpoint \cup {NoEndpoint}, kept \in BOOLEAN :
         EnablesFrom(w, e, s, a, kept)
  BY DEF Enables
<1>3. /\ theirs' = theirs /\ pc' = pc /\ call'[w].ok
      /\ call'[w].todo = Tail(call[w].todo)
      /\ Tail(call[w].todo) # <<>> => call'[w].undo = UndoesFrom(s, a, kept)
      /\ Before(s, a, kept)
      /\ Before(s, a, kept)'
      /\ Spared'
  <2>1. /\ call'[w].ok = call[w].ok /\ theirs' = theirs /\ pc' = pc
        /\ call'[w].todo = Tail(call[w].todo)
        /\ Tail(call[w].todo) # <<>> => call'[w].undo = call[w].undo
    BY WritesOne, WritesFirst
  <2>2. call[w].undo = UndoesFrom(s, a, kept) /\ Before(s, a, kept)
    BY <1>2 DEF EnablesFrom
  <2>3. theirs' = theirs
    BY <2>1
  <2>4. Before(s, a, kept)'
    BY <2>2, <2>3 DEF Before, Exactly, Exact, Safely
  <2>5. Spared'
    BY <2>3, SparedStays
  <2> QED
    BY <1>1, <2>1, <2>2, <2>4, <2>5
<1>4. ASSUME Tail(call[w].todo) # <<>>, EnablesFrom(w, e, s, a, kept)' PROVE Plan(w)'
  BY <1>1, <1>2, <1>3, <1>4 DEF Plan, Enables
<1>5. CASE call[w].todo = SavesAll(s, e) /\ ~kept /\ ~reg.valid /\ Clean /\ Exactly(s = theirs)
  <2>1. Splits(call[w].todo, Write("saved", s, "end"), SavesMark(e)) /\ SavesMark(e) # <<>>
    BY <1>5, EnablingSplits DEF Splits
  <2>2. reg'.saved = s
        /\ UNCHANGED <<reg.enable, reg.server, reg.override, reg.valid, reg.active>>
    BY <2>1, WritesFirst DEF Splits, Write
  <2>3. Clean'
    BY <1>3, <1>5, <2>2, CleanStays
  <2>4. EnablesFrom(w, e, s, a, kept)'
    BY <1>3, <1>5, <2>1, <2>2, <2>3 DEF EnablesFrom, Splits, Exactly, Exact, Safely
  <2> QED
    BY <1>3, <1>4, <1>5, <2>1, <2>2, <2>4 DEF After, Splits, SavedIsSafe
<1>6. CASE /\ call[w].todo = SavesMark(e)
           /\ ~kept /\ ~reg.valid /\ Clean /\ reg.saved = s /\ Exactly(s = theirs)
  <2>1. Splits(call[w].todo, Write("valid", TRUE, "end"), Sets(e)) /\ Sets(e) # <<>>
    BY <1>6, EnablingSplits DEF Splits
  <2>2. reg'.valid = TRUE
        /\ UNCHANGED <<reg.enable, reg.server, reg.override, reg.saved, reg.active>>
    BY <2>1, WritesFirst DEF Splits, Write
  <2>3. reg.saved # Damaged /\ Safely(~Sent(reg.saved))
    BY <1>3, <1>6, SameSetting DEF Before, Safely
  <2>4. Good' /\ SavedIsSafe'
    BY <1>3, <1>6, <2>2, <2>3 DEF Good, SavedIsSafe, Exactly, Exact, Safely, Sent
  <2>5. EnablesFrom(w, e, s, a, kept)'
    BY <1>3, <2>1, <2>4 DEF EnablesFrom, Splits
  <2> QED
    BY <1>3, <1>4, <2>1, <2>4, <2>5 DEF After, Splits
<1>7. CASE call[w].todo = Sets(e) /\ Good
  <2>1. Splits(call[w].todo, Write("active", e, "undo"), SetsServer(e)) /\ SetsServer(e) # <<>>
    BY <1>7, EnablingSplits DEF Splits
  <2>2. reg'.active = e
        /\ UNCHANGED <<reg.enable, reg.server, reg.override, reg.saved, reg.valid>>
    BY <2>1, WritesFirst DEF Splits, Write
  <2>3. Good' /\ SavedIsSafe'
    BY <1>3, <1>7, <2>2, GoodStays
  <2>4. EnablesFrom(w, e, s, a, kept)'
    BY <1>3, <2>1, <2>2, <2>3 DEF EnablesFrom, Splits, Marked
  <2> QED
    BY <1>3, <1>4, <2>1, <2>3, <2>4 DEF After, Splits
<1>8. CASE call[w].todo = SetsServer(e) /\ Marked(e)
  <2>1. Splits(call[w].todo, Write("server", e, "undo"), SetsList) /\ SetsList # <<>>
    BY <1>8, EnablingSplits DEF Splits
  <2>2. reg'.server = e
        /\ UNCHANGED <<reg.enable, reg.override, reg.saved, reg.valid, reg.active>>
    BY <2>1, WritesFirst DEF Splits, Write
  <2>3. Good' /\ SavedIsSafe' /\ Marked(e)'
    BY <1>3, <1>8, <2>2, GoodStays DEF Marked
  <2>4. HasServer(Ours(e))'
    BY <2>2, SameSetting DEF HasServer, Exactly, Exact, Safely
  <2>5. EnablesFrom(w, e, s, a, kept)'
    BY <1>3, <2>1, <2>3, <2>4 DEF EnablesFrom, Splits
  <2> QED
    BY <1>3, <1>4, <2>1, <2>3, <2>5 DEF After, Splits
<1>9. CASE call[w].todo = SetsList /\ Marked(e) /\ HasServer(Ours(e))
  <2>1. Splits(call[w].todo, Write("override", "ninety", "undo"), SetsSwitch) /\ SetsSwitch # <<>>
    BY <1>9, EnablingSplits DEF Splits
  <2>2. reg'.override = "ninety"
        /\ UNCHANGED <<reg.enable, reg.server, reg.saved, reg.valid, reg.active>>
    BY <2>1, WritesFirst DEF Splits, Write
  <2>3. Good' /\ SavedIsSafe' /\ Marked(e)'
    BY <1>3, <1>9, <2>2, GoodStays DEF Marked
  <2>4. HasServer(Ours(e))' /\ HasList(Ours(e))'
    BY <1>3, <1>9, <2>2, SameSetting DEF HasServer, HasList, Exactly, Exact, Safely
  <2>5. EnablesFrom(w, e, s, a, kept)'
    BY <1>3, <2>1, <2>3, <2>4 DEF EnablesFrom, Splits
  <2> QED
    BY <1>3, <1>4, <2>1, <2>3, <2>5 DEF After, Splits
<1>10. CASE call[w].todo = SetsSwitch /\ Marked(e) /\ HasServer(Ours(e)) /\ HasList(Ours(e))
  <2>1. Splits(call[w].todo, Write("enable", TRUE, "undo"), <<>>)
    BY <1>10, EnablingSplits
  <2>2. reg'.enable = TRUE
        /\ UNCHANGED <<reg.server, reg.override, reg.saved, reg.valid, reg.active>>
    BY <2>1, WritesFirst DEF Splits, Write
  <2>3. Good' /\ SavedIsSafe' /\ Marked(e)'
    BY <1>3, <1>10, <2>2, GoodStays DEF Marked
  <2>4. MarkOf(reg'.active) = e
    BY <2>3, SystemProxyAssumption DEF Marked, MarkOf
  <2>5. Safely(Sent(reg') => SettingIn(reg') = Ours(e)) /\ (Exact => SettingIn(reg') = Ours(e))
    <3>1. SettingIn(reg') \in Setting /\ Ours(e) \in Setting
      BY <1>1, SameSetting
    <3>2. Safely(reg.server \in Endpoint => reg.server = e /\ reg.override = "ninety")
      BY <1>10, SystemProxyAssumption, SameSetting DEF HasServer, HasList, Safely
    <3>3. Exact => reg.server = e /\ reg.override = "ninety"
      BY <1>10, SameSetting DEF HasServer, HasList, Exactly, Exact, Safely
    <3>4. reg'.enable = TRUE /\ reg'.server = reg.server /\ reg'.override = reg.override
      BY <2>2
    <3>5. ASSUME reg.server = e, reg.override = "ninety" PROVE SettingIn(reg') = Ours(e)
      <4>1. /\ SettingIn(reg').enable = Ours(e).enable /\ SettingIn(reg').server = Ours(e).server
            /\ SettingIn(reg').override = Ours(e).override
        BY <3>4, <3>5 DEF SettingIn, Ours
      <4> QED
        BY <3>1, <4>1, SameSetting
    <3>6. Safely(Sent(reg') => SettingIn(reg') = Ours(e))
      BY <3>2, <3>4, <3>5 DEF Sent, Safely
    <3> QED
      BY <3>3, <3>5, <3>6
  <2>6. Quiet'
    BY <1>3, <2>3, <2>4, <2>5 DEF Quiet, Good, Exactly, Exact, Safely
  <2> QED
    BY <1>3, <2>1, <2>3, <2>6 DEF After, Splits
<1> QED
  BY <1>2, <1>5, <1>6, <1>7, <1>8, <1>9, <1>10 DEF EnablesFrom

\* A rollback writes back address, exceptions and switch before it touches the marks.
LEMMA WritesUndoing ==
    ASSUME Typed, Typed', Spared, SavedIsSafe, NEW w \in Caller, Writes(w), torn' = torn, Undoing(w)
    PROVE  After(w)
<1>1. reg \in Registry /\ reg' \in Registry /\ theirs \in Setting /\ ~call[w].ok
  BY DEF Typed, Undoing
<1>2. PICK s \in Setting, a \in Endpoint \cup {NoEndpoint}, kept \in BOOLEAN :
         UndoingTo(w, s, a, kept)
  BY DEF Undoing
<1>3. /\ theirs' = theirs /\ ~call'[w].ok /\ call'[w].todo = Tail(call[w].todo)
      /\ Before(s, a, kept) /\ Before(s, a, kept)'
      /\ Spared'
  <2>1. call'[w].ok = call[w].ok /\ theirs' = theirs /\ call'[w].todo = Tail(call[w].todo)
    BY WritesOne, WritesFirst
  <2>2. Before(s, a, kept)
    BY <1>2 DEF UndoingTo
  <2>3. Before(s, a, kept)'
    BY <2>1, <2>2 DEF Before, Exactly, Exact, Safely
  <2> QED
    BY <1>1, <2>1, <2>2, <2>3, SparedStays
<1>4. ASSUME UndoingTo(w, s, a, kept)' PROVE Plan(w)'
  BY <1>2, <1>3, <1>4 DEF Plan, Undoing
<1>5. CASE call[w].todo = UndoesFrom(s, a, kept) /\ Good
  <2>1. Splits(call[w].todo, Write("server", s.server, "end"), UndoesList(s, a, kept))
        /\ UndoesList(s, a, kept) # <<>>
    BY <1>5, UndoingSplits DEF Splits
  <2>2. reg'.server = s.server
        /\ UNCHANGED <<reg.enable, reg.override, reg.saved, reg.valid, reg.active>>
    BY <2>1, WritesFirst DEF Splits, Write
  <2>3. Good' /\ SavedIsSafe'
    BY <1>3, <1>5, <2>2, GoodStays
  <2>4. UndoingTo(w, s, a, kept)'
    BY <1>3, <2>1, <2>2, <2>3 DEF UndoingTo, Splits, HasServer, Exactly, Exact, Safely
  <2> QED
    BY <1>3, <1>4, <2>1, <2>3, <2>4 DEF After, Splits
<1>6. CASE call[w].todo = UndoesList(s, a, kept) /\ Good /\ HasServer(s)
  <2>1. Splits(call[w].todo, Write("override", s.override, "end"), UndoesSwitch(s, a, kept))
        /\ UndoesSwitch(s, a, kept) # <<>>
    BY <1>6, UndoingSplits DEF Splits
  <2>2. reg'.override = s.override
        /\ UNCHANGED <<reg.enable, reg.server, reg.saved, reg.valid, reg.active>>
    BY <2>1, WritesFirst DEF Splits, Write
  <2>3. Good' /\ SavedIsSafe' /\ HasServer(s)' /\ HasList(s)'
    BY <1>3, <1>6, <2>2, GoodStays DEF HasServer, HasList, Exactly, Exact, Safely
  <2>4. UndoingTo(w, s, a, kept)'
    BY <1>3, <2>1, <2>3 DEF UndoingTo, Splits
  <2> QED
    BY <1>3, <1>4, <2>1, <2>3, <2>4 DEF After, Splits
<1>7. CASE call[w].todo = UndoesSwitch(s, a, kept) /\ Good /\ HasServer(s) /\ HasList(s)
  <2>1. Splits(call[w].todo, Write("enable", s.enable, "end"), UndoesMark(a, kept))
        /\ UndoesMark(a, kept) # <<>>
    BY <1>7, UndoingSplits DEF Splits
  <2>2. reg'.enable = s.enable
        /\ UNCHANGED <<reg.server, reg.override, reg.saved, reg.valid, reg.active>>
    BY <2>1, WritesFirst DEF Splits, Write
  <2>3. Good' /\ SavedIsSafe' /\ HasServer(s)' /\ HasList(s)'
    BY <1>3, <1>7, <2>2, GoodStays DEF HasServer, HasList, Exactly, Exact, Safely
  <2>4. UndoingTo(w, s, a, kept)'
    BY <1>3, <2>1, <2>2, <2>3 DEF UndoingTo, Splits, Exactly, Exact, Safely
  <2> QED
    BY <1>3, <1>4, <2>1, <2>3, <2>4 DEF After, Splits
<1>8. CASE /\ call[w].todo = UndoesMark(a, kept) /\ Good /\ HasServer(s) /\ HasList(s)
           /\ Safely(reg.server \in Endpoint /\ reg.enable => s.enable)
           /\ Exactly(reg.enable = s.enable)
  <2>1. Splits(call[w].todo, Write("active", a, "end"), IF kept THEN <<>> ELSE UndoesSaving)
    BY <1>8, UndoingSplits
  <2>2. reg'.active = a
        /\ UNCHANGED <<reg.enable, reg.server, reg.override, reg.saved, reg.valid>>
    BY <2>1, WritesFirst DEF Splits, Write
  <2>3. Good' /\ SavedIsSafe'
    BY <1>3, <1>8, <2>2, GoodStays
  <2>4. Exact => SettingIn(reg') = s
    <3>1. SettingIn(reg') \in Setting
      BY <1>1, SameSetting
    <3>2. Exact => reg.enable = s.enable /\ reg.server = s.server /\ reg.override = s.override
      BY <1>8 DEF HasServer, HasList, Exactly, Exact, Safely
    <3> QED
      BY <1>2, <2>2, <3>1, <3>2, SameSetting
  <2>5. Safely(Sent(reg') => SettingIn(reg') = s /\ Sent(s))
    <3>1. SettingIn(reg') \in Setting
      BY <1>1, SameSetting
    <3>2. reg'.enable = reg.enable /\ reg'.server = reg.server /\ reg'.override = reg.override
      BY <2>2
    <3>3. Safely(Sent(reg) => s.enable = TRUE /\ reg.server = s.server /\ reg.override = s.override)
      BY <1>1, <1>2, <1>8, SystemProxyAssumption DEF Sent, HasServer, HasList, Setting, Registry, Safely
    <3>4. ASSUME s.enable = TRUE, reg.server = s.server, reg.override = s.override, Sent(reg)
          PROVE  SettingIn(reg') = s /\ Sent(s)
      <4>1. reg'.enable = s.enable
        BY <1>1, <3>2, <3>4 DEF Sent, Registry
      <4>2. SettingIn(reg') = s
        BY <1>2, <3>1, <3>2, <3>4, <4>1, SameSetting
      <4> QED
        BY <3>4, <4>2 DEF Sent
    <3> QED
      BY <3>2, <3>3, <3>4 DEF Safely, Sent
  <2>6. CASE kept
    <3>1. Quiet'
      BY <1>3, <2>2, <2>3, <2>4, <2>5 DEF Quiet, Before, Exactly, Exact, Safely, Good
    <3> QED
      BY <1>3, <2>1, <2>3, <2>6, <3>1 DEF After, Splits
  <2>7. CASE ~kept
    <3>1. Clean'
      BY <1>3, <2>4, <2>5, <2>7 DEF Clean, Before, Exactly, Exact, Safely
    <3>2. UndoingTo(w, s, a, kept)'
      BY <1>3, <2>1, <2>7, <3>1 DEF UndoingTo, Splits
    <3> QED
      BY <1>3, <1>4, <2>1, <2>3, <2>7, <3>2, NoListIsEmpty DEF After, Splits
  <2> QED
    BY <2>6, <2>7
<1>9. CASE call[w].todo = UndoesSaving /\ Clean
  <2>1. Splits(call[w].todo, Write("valid", FALSE, "end"), <<>>)
    BY <1>9, ForgettingSplits
  <2>2. reg'.valid = FALSE
        /\ UNCHANGED <<reg.enable, reg.server, reg.override, reg.saved, reg.active>>
    BY <2>1, WritesFirst DEF Splits, Write
  <2>3. Clean'
    BY <1>3, <1>9, <2>2, CleanStays
  <2>4. Quiet'
    BY <2>3 DEF Clean, Quiet, Exactly, Exact, Safely
  <2>5. SavedIsSafe'
    BY <2>2 DEF SavedIsSafe
  <2> QED
    BY <1>3, <2>1, <2>4, <2>5 DEF After, Splits
<1> QED
  BY <1>2, <1>5, <1>6, <1>7, <1>8, <1>9 DEF UndoingTo

\* Every write leads from a plan to what is left of it.
LEMMA WritesPlanned ==
    ASSUME Typed, Typed', Spared, SavedIsSafe, NEW w \in Caller, Writes(w), torn' = torn, Plan(w)
    PROVE  After(w)
BY WritesClearing, WritesDisabling, WritesRestoring, WritesEnabling, WritesUndoing DEF Plan

-----------------------------------------------------------------------------
(* A write that fails *)

LEMMA PlansAreBased ==
    ASSUME NEW w \in Caller, Plan(w)
    PROVE  Good \/ Clean \/ CannotRestore
BY DEF Plan, Clears, Disables, Restoring, Enables, EnablesFrom, Undoing, UndoingTo, Marked

\* A call may stop anywhere where the setting is one of theirs and ours.
LEMMA SettledIsQuiet ==
    ASSUME Spared, Good \/ Clean \/ CannotRestore, ~HalfWritten
    PROVE  Quiet
<1>1. SettingIn(reg) = theirs \/ SettingIn(reg) = Ours(MarkOf(reg.active))
  BY DEF HalfWritten, MarkOf
<1>2. Safely(Sent(reg) => SettingIn(reg) # theirs)
  BY SameSetting DEF Spared, Sent, Safely
<1>3. CASE Clean
  BY <1>3, CleanIsQuiet
<1>4. CASE Good
  BY <1>1, <1>2, <1>4 DEF Good, Quiet, Exactly, Exact, Safely
<1>5. CASE CannotRestore
  BY <1>1, <1>2, <1>5 DEF CannotRestore, Quiet, Exactly, Exact, Safely
<1> QED
  BY <1>3, <1>4, <1>5

\* All of these are about the registry and the setting of the others alone.
LEMMA QuietStays ==
    ASSUME UNCHANGED <<reg, theirs, torn>>
    PROVE  /\ Quiet => Quiet'
           /\ Good => Good'
           /\ Clean => Clean'
           /\ CannotRestore => CannotRestore'
           /\ Spared => Spared' /\ (SavedIsSafe => SavedIsSafe')
BY DEF Quiet, Good, Clean, CannotRestore, Spared, SavedIsSafe, Exactly, Exact, Safely, Sent

\* A failing write is passed over, ends its call where the setting is one of theirs or
\* ours, or has its call undone.
LEMMA FailsPlanned ==
    ASSUME Typed, Spared, SavedIsSafe, NEW w \in Caller, Fails(w), torn' = torn, Plan(w),
           Head(call[w].todo).otherwise = "end" => ~HalfWritten,
           Head(call[w].todo).key = "valid" => Head(call[w].todo).val
    PROVE  After(w)
<1> DEFINE x == Head(call[w].todo)
<1>1. /\ UNCHANGED <<reg, theirs, pc>>
      /\ call'[w].todo = (IF x.otherwise = "ignore" THEN Tail(call[w].todo)
                          ELSE IF x.otherwise = "undo" THEN call[w].undo ELSE <<>>)
      /\ call'[w].ok = (call[w].ok /\ x.otherwise = "ignore")
  BY FailsOne DEF Fails, Windows
<1>2. Spared' /\ SavedIsSafe'
  BY <1>1, QuietStays
<1>3. CASE x.otherwise = "end"
  <2>1. Quiet
    BY <1>3, PlansAreBased, SettledIsQuiet
  <2> QED
    BY <1>1, <1>2, <1>3, <2>1, QuietStays DEF After
<1>4. ASSUME NEW key, NEW val, NEW rest, Splits(call[w].todo, Write(key, val, "end"), rest)
      PROVE  After(w)
  <2>1. x.otherwise = "end"
    BY <1>4 DEF Splits, Write
  <2> QED
    BY <1>3, <2>1
<1>5. CASE Clears(w)
  <2>1. CASE call[w].todo = Forget \/ call[w].todo = Forgets
    <3>1. x.key = "valid" /\ x.val = FALSE
      BY <2>1, ForgettingSplits DEF Splits, Write
    <3> QED
      BY <3>1
  <2>2. CASE call[w].todo = <<Unmarks>>
    <3>1. x.otherwise = "ignore" /\ Tail(call[w].todo) = <<>>
      BY <2>2, ForgettingSplits DEF Splits, Write
    <3>2. Quiet'
      BY <1>1, <1>5, CleanIsQuiet, QuietStays DEF Clears
    <3> QED
      BY <1>1, <1>2, <3>1, <3>2 DEF After
  <2> QED
    BY <1>5, <2>1, <2>2 DEF Clears
<1>6. CASE Disables(w)
  <2>1. Splits(call[w].todo, Write("enable", FALSE, "end"), Forget)
    BY <1>6, ForgettingSplits DEF Disables
  <2> QED
    BY <1>4, <2>1
<1>7. CASE Restoring(w)
  <2>1. \/ Splits(call[w].todo, Write("server", reg.saved.server, "end"), RestoresList(reg.saved))
        \/ Splits(call[w].todo, Write("override", reg.saved.override, "end"),
                  RestoresSwitch(reg.saved))
        \/ Splits(call[w].todo, Write("enable", reg.saved.enable, "end"), Forgets)
    BY <1>7, RestoringSplits DEF Restoring
  <2> QED
    BY <1>4, <2>1
<1>8. CASE Enables(w)
  <2>1. PICK e \in Endpoint, s \in Setting, a \in Endpoint \cup {NoEndpoint}, kept \in BOOLEAN :
           EnablesFrom(w, e, s, a, kept)
    BY <1>8 DEF Enables
  <2>2. CASE call[w].todo = SavesAll(s, e) \/ call[w].todo = SavesMark(e)
    <3>1. \/ Splits(call[w].todo, Write("saved", s, "end"), SavesMark(e))
          \/ Splits(call[w].todo, Write("valid", TRUE, "end"), Sets(e))
      BY <2>2, EnablingSplits
    <3> QED
      BY <1>4, <3>1
  <2>3. CASE Good /\ call[w].todo \in {Sets(e), SetsServer(e), SetsList, SetsSwitch}
    <3>1. x.otherwise = "undo"
      <4>1. \/ Splits(call[w].todo, Write("active", e, "undo"), SetsServer(e))
            \/ Splits(call[w].todo, Write("server", e, "undo"), SetsList)
            \/ Splits(call[w].todo, Write("override", "ninety", "undo"), SetsSwitch)
            \/ Splits(call[w].todo, Write("enable", TRUE, "undo"), <<>>)
        BY <2>3, EnablingSplits
      <4> QED
        BY <4>1 DEF Splits, Write
    <3>2. call'[w].todo = UndoesFrom(s, a, kept) /\ ~call'[w].ok
      BY <1>1, <2>1, <3>1 DEF EnablesFrom
    <3>3. Before(s, a, kept)'
      BY <1>1, <2>1 DEF EnablesFrom, Before, Exactly, Exact, Safely, Sent, Ours, MarkOf
    <3>4. Good'
      BY <1>1, <2>3, QuietStays
    <3>5. UndoingTo(w, s, a, kept)'
      BY <3>2, <3>3, <3>4 DEF UndoingTo
    <3>6. Undoing(w)'
      BY <2>1, <3>2, <3>5 DEF Undoing
    <3> QED
      BY <1>2, <2>1, <3>2, <3>6, NoListIsEmpty DEF After, Plan
  <2> QED
    BY <2>1, <2>2, <2>3 DEF EnablesFrom, Marked
<1>9. CASE Undoing(w)
  <2>1. PICK s \in Setting, a \in Endpoint \cup {NoEndpoint}, kept \in BOOLEAN :
           UndoingTo(w, s, a, kept)
    BY <1>9 DEF Undoing
  <2>2. x.otherwise = "end"
    BY <2>1, UndoingSplits, ForgettingSplits DEF UndoingTo, Splits, Write
  <2> QED
    BY <1>3, <2>2
<1> QED
  BY <1>5, <1>6, <1>7, <1>8, <1>9 DEF Plan

-----------------------------------------------------------------------------
(* A call begins with a plan *)

\* A recovery of a quiet setting clears, turns off or restores.
LEMMA RecoveryIsPlanned ==
    ASSUME Typed, Spared, SavedIsSafe, Quiet, NEW w \in Caller,
           call'[w] = [todo |-> Recovery(reg), undo |-> <<>>, ok |-> TRUE],
           UNCHANGED <<reg, theirs, torn>>
    PROVE  After(w)
<1>1. reg \in Registry /\ theirs \in Setting /\ reg.active \in Endpoint \cup {NoEndpoint}
      /\ reg.enable \in BOOLEAN /\ reg.server \in Endpoint \cup User
  BY DEF Typed, Registry
<1>2. call'[w].todo = Recovery(reg) /\ call'[w].ok
  OBVIOUS
<1>3. Spared' /\ SavedIsSafe'
  BY QuietStays
<1>4. LooksOurs(reg) => SettingIn(reg) # theirs
  BY SameSetting DEF Spared, LooksOurs, OnWithOurList
<1>5. MarkOf(reg.active) \in Endpoint
  BY <1>1, SystemProxyAssumption DEF MarkOf
<1>6. ASSUME reg.valid /\ SettingIn(reg) = Ours(MarkOf(reg.active))
      PROVE  /\ OnWithOurList(reg) /\ reg.server = MarkOf(reg.active) /\ Sent(reg)
             /\ ~Intact(reg) => reg.server = reg.active
  <2>1. reg.enable /\ reg.server = MarkOf(reg.active) /\ reg.override = "ninety"
    BY <1>6, SameSetting
  <2>2. ~Intact(reg) => reg.active # NoEndpoint
    BY <1>6 DEF Intact, SavedIsSafe
  <2> QED
    BY <1>5, <2>1, <2>2 DEF OnWithOurList, Sent, MarkOf
<1>7. CASE OnWithOurList(reg) /\ reg.server = reg.active /\ ~Intact(reg)
  <2>1. reg.active \in Endpoint /\ MarkOf(reg.active) = reg.active
    BY <1>1, <1>7, SystemProxyAssumption DEF MarkOf
  <2>2. LooksOurs(reg) /\ Sent(reg)
    BY <1>7, <2>1 DEF LooksOurs, OnWithOurList, Sent
  <2>3. reg.valid => reg.saved = Damaged
    BY <1>7 DEF Intact
  <2>4. Safely(reg.valid /\ reg.saved = Damaged)
    BY <2>2, <2>3 DEF Quiet, Safely
  <2>5. Exactly(/\ reg.valid /\ reg.saved = Damaged
                /\ SettingIn(reg) = Ours(reg.active) /\ theirs = Off(reg.active))
    BY <1>1, <1>4, <2>1, <2>2, <2>3, SameSetting DEF Quiet, Exactly
  <2>6. call'[w].todo = TurnsItOff
    BY <1>2, <1>7, RecoveryLists
  <2>7. Disables(w)'
    BY <1>2, <2>4, <2>5, <2>6, QuietStays DEF Disables, CannotRestore
  <2> QED
    BY <1>3, <2>6, <2>7, ForgettingSplits DEF After, Plan, Splits
<1>8. CASE OnWithOurList(reg) /\ Intact(reg) /\ reg.server = MarkOf(reg.active)
  <2>1. LooksOurs(reg)
    BY <1>5, <1>8 DEF LooksOurs, OnWithOurList
  <2>2. reg.valid /\ reg.saved # Damaged
    BY <1>8 DEF Intact
  <2>3. Good
    BY <1>4, <2>1, <2>2 DEF Good, Quiet, Exactly
  <2>4. call'[w].todo = RestoresAll(reg.saved)
    BY <1>2, <1>8, RecoveryLists
  <2>5. Restoring(w)'
    BY <1>2, <2>3, <2>4, QuietStays DEF Restoring
  <2> QED
    BY <1>3, <2>4, <2>5, RestoringSplits DEF After, Plan, Splits
<1>9. CASE /\ ~(OnWithOurList(reg) /\ reg.server = reg.active /\ ~Intact(reg))
           /\ ~(OnWithOurList(reg) /\ Intact(reg) /\ reg.server = MarkOf(reg.active))
  <2>1. ~(reg.valid /\ SettingIn(reg) = Ours(MarkOf(reg.active)))
    BY <1>6, <1>9
  <2>2. Clean
    BY <2>1 DEF Clean, Quiet, Exactly, Exact, Safely
  <2>3. call'[w].todo = Forget
    BY <1>2, <1>9, RecoveryLists DEF MarkOf
  <2>4. Clears(w)'
    BY <1>2, <2>2, <2>3, QuietStays DEF Clears
  <2> QED
    BY <1>3, <2>3, <2>4, NoListIsEmpty DEF After, Plan
<1> QED
  BY <1>7, <1>8, <1>9

\* An enabling of a quiet setting saves it first, or goes over one of ours that is saved
\* already; its rollback goes back to what it has found.
LEMMA EnablingIsPlanned ==
    ASSUME Typed, Spared, SavedIsSafe, Quiet, NEW w \in Caller, NEW e \in Endpoint,
           call'[w] = [todo |-> Saves(reg) \o Applies(e), undo |-> Undoes(reg), ok |-> TRUE],
           ~(reg.valid /\ ~Intact(reg)),
           UNCHANGED <<reg, theirs>>,
           torn \subseteq torn', Outdated => "other" \in torn',
           pc'[w] = "set"
    PROVE  After(w)
<1>1. reg \in Registry /\ theirs \in Setting /\ SettingIn(reg) \in Setting
      /\ reg.active \in Endpoint \cup {NoEndpoint} /\ reg.valid \in BOOLEAN
  BY SameSetting DEF Typed, Registry
<1>2. PICK s \in Setting : s = SettingIn(reg)
  BY <1>1
<1>3. PICK a \in Endpoint \cup {NoEndpoint} : a = reg.active
  BY <1>1
<1>4. Saves(reg) \o Applies(e) = (IF reg.valid THEN Sets(e) ELSE SavesAll(s, e))
  BY <1>2, EnablingLists
<1>5. Undoes(reg) = (IF Intact(reg) THEN UndoesKept(s, a) ELSE UndoesAll(s, a))
  BY <1>2, <1>3, UndoingLists
<1>6. /\ call'[w].todo = (IF reg.valid THEN Sets(e) ELSE SavesAll(s, e))
      /\ call'[w].undo = (IF Intact(reg) THEN UndoesKept(s, a) ELSE UndoesAll(s, a))
      /\ call'[w].ok
  BY <1>4, <1>5
<1>7. Spared' /\ SavedIsSafe'
  BY SparedStays DEF SavedIsSafe, Safely, Sent
<1>8. /\ Exact' => Exact /\ ~Outdated
      /\ "shared" \notin torn' => "shared" \notin torn
  BY DEF Exact
<1>9. Sent(s) <=> Sent(reg)
  BY <1>2, SameSetting DEF Sent
<1>10. CASE ~reg.valid
  <2>1. Safely(~Sent(reg)) /\ (Exact => s = theirs)
    BY <1>2, <1>10 DEF Quiet, Exactly, Exact, Safely
  <2>2. Clean'
    BY <1>2, <1>8, <2>1 DEF Clean, Exactly, Exact, Safely, Sent
  <2>3. Before(s, a, FALSE)' /\ (Exact' => s = theirs')
    BY <1>8, <1>9, <2>1 DEF Before, Exactly, Exact, Safely, Sent
  <2>4. call'[w].undo = UndoesFrom(s, a, FALSE) /\ call'[w].todo = SavesAll(s, e)
    BY <1>6, <1>10 DEF Intact, UndoesFrom
  <2>5. EnablesFrom(w, e, s, a, FALSE)'
    BY <1>10, <2>2, <2>3, <2>4 DEF EnablesFrom, Exactly, Exact, Safely
  <2>6. Enables(w)'
    BY <1>6, <2>5 DEF Enables
  <2> QED
    BY <1>7, <2>4, <2>6, EnablingSplits DEF After, Plan, Splits
<1>11. CASE reg.valid
  <2>1. reg.saved # Damaged /\ Intact(reg)
    BY <1>11 DEF Intact
  <2>2. Good'
    BY <1>8, <1>11, <2>1 DEF Good, Quiet, Exactly, Exact, Safely, Outdated
  <2>3. Before(s, a, TRUE)'
    BY <1>2, <1>3, <1>8, <1>9, <1>11 DEF Before, Quiet, Exactly, Exact, Safely, Sent, Ours, MarkOf
  <2>4. call'[w].undo = UndoesFrom(s, a, TRUE) /\ call'[w].todo = Sets(e)
    BY <1>6, <1>11, <2>1 DEF UndoesFrom
  <2>5. EnablesFrom(w, e, s, a, TRUE)'
    BY <2>2, <2>3, <2>4 DEF EnablesFrom
  <2>6. Enables(w)'
    BY <1>6, <2>5 DEF Enables
  <2> QED
    BY <1>7, <2>4, <2>6, EnablingSplits DEF After, Plan, Splits
<1> QED
  BY <1>10, <1>11

-----------------------------------------------------------------------------
(* Every step keeps the plans *)

\* One caller moves, the others have nothing to write.
LEMMA OneMoves ==
    ASSUME NEW w \in Caller, After(w),
           \A v \in Caller \ {w} : ~Busy(v) /\ call'[v] = call[v]
    PROVE  Orderly'
<1>1. \A v \in Caller \ {w} : ~Busy(v)'
  BY DEF Busy
<1>2. Busy(w)' => Plan(w)'
  BY DEF After, Busy
<1>3. ~Writing' => Quiet'
  BY DEF After, Busy, Writing
<1> QED
  BY <1>1, <1>2, <1>3 DEF Orderly, After

\* Nobody moves, or only those that have nothing to write.
LEMMA NobodyMoves ==
    ASSUME Typed, Orderly, UNCHANGED <<reg, theirs, torn, call>>,
           \A v \in Caller : Busy(v) => pc'[v] = pc[v]
    PROVE  Orderly'
<1>1. \A v \in Caller : Busy(v)' <=> Busy(v)
  BY DEF Busy
<1>2. ASSUME NEW v \in Caller, Busy(v) PROVE Plan(v)'
  <2>1. Plan(v)
    BY <1>2 DEF Orderly
  <2>2. CASE Clears(v) \/ Disables(v) \/ Restoring(v)
    BY <2>2, QuietStays DEF Plan, Clears, Disables, Restoring, HasServer, HasList, Exactly, Exact, Safely
  <2>3. CASE Enables(v)
    <3>1. PICK e \in Endpoint, s \in Setting, a \in Endpoint \cup {NoEndpoint}, kept \in BOOLEAN :
             EnablesFrom(v, e, s, a, kept)
      BY <2>3 DEF Enables
    <3>2. EnablesFrom(v, e, s, a, kept)'
      BY <3>1 DEF EnablesFrom, Before, Clean, Good, Marked, HasServer, HasList, Exactly,
                  Exact, Safely, Sent, MarkOf, Ours
    <3> QED
      BY <1>2, <2>3, <3>2 DEF Plan, Enables
  <2>4. CASE Undoing(v)
    <3>1. PICK s \in Setting, a \in Endpoint \cup {NoEndpoint}, kept \in BOOLEAN :
             UndoingTo(v, s, a, kept)
      BY <2>4 DEF Undoing
    <3>2. UndoingTo(v, s, a, kept)'
      BY <3>1 DEF UndoingTo, Before, Clean, Good, HasServer, HasList, Exactly, Exact,
                  Safely, Sent, MarkOf, Ours
    <3> QED
      BY <2>4, <3>2 DEF Plan, Undoing
  <2> QED
    BY <2>1, <2>2, <2>3, <2>4 DEF Plan
<1>3. ~Writing' => Quiet'
  BY <1>1, QuietStays DEF Orderly, Writing
<1> QED
  BY <1>1, <1>2, <1>3, QuietStays DEF Orderly

\* Another program changes the setting in the middle of a call: what is known exactly is
\* lost, and the rest of the plan stands.
LEMMA PlansStand ==
    ASSUME Typed, NEW w \in Caller, Plan(w), torn \subseteq torn', "other" \in torn',
           UNCHANGED <<call, pc>>, UNCHANGED <<reg.saved, reg.valid, reg.active>>,
           "shared" \notin torn' =>
              reg'.server \in User \/ (UNCHANGED <<reg.server, reg.override>> /\ ~reg'.enable)
    PROVE  Plan(w)'
<1>1. (Good => Good') /\ Clean' /\ (CannotRestore => CannotRestore')
  BY SystemProxyAssumption DEF Good, Clean, CannotRestore, Exactly, Exact, Safely, Sent
<1>2. ASSUME NEW s PROVE HasServer(s) => HasServer(s)'
  BY DEF HasServer, Exactly, Exact, Safely
<1>3. ASSUME NEW s PROVE HasList(s) => HasList(s)'
  BY SystemProxyAssumption DEF HasList, Exactly, Exact, Safely
<1>4. ASSUME NEW s, NEW a, NEW kept PROVE Before(s, a, kept) => Before(s, a, kept)'
  BY DEF Before, Exactly, Exact, Safely, Sent, Ours, MarkOf
<1>5. CASE Clears(w) \/ Disables(w)
  BY <1>1, <1>5 DEF Plan, Clears, Disables
<1>6. CASE Restoring(w)
  <2>1. HasServer(reg.saved) => HasServer(reg.saved)'
    BY DEF HasServer, Exactly, Exact, Safely
  <2>2. HasList(reg.saved) => HasList(reg.saved)'
    BY SystemProxyAssumption DEF HasList, Exactly, Exact, Safely
  <2> QED
    BY <1>1, <1>6, <2>1, <2>2 DEF Plan, Restoring
<1>7. CASE Enables(w)
  <2>1. PICK e \in Endpoint, s \in Setting, a \in Endpoint \cup {NoEndpoint}, kept \in BOOLEAN :
           EnablesFrom(w, e, s, a, kept)
    BY <1>7 DEF Enables
  <2>2. EnablesFrom(w, e, s, a, kept)'
    BY <1>1, <1>2, <1>3, <1>4, <2>1 DEF EnablesFrom, Marked, Exactly, Exact, Safely, Ours
  <2> QED
    BY <1>7, <2>2 DEF Plan, Enables
<1>8. CASE Undoing(w)
  <2>1. PICK s \in Setting, a \in Endpoint \cup {NoEndpoint}, kept \in BOOLEAN :
           UndoingTo(w, s, a, kept)
    BY <1>8 DEF Undoing
  <2>2. /\ Safely(reg.server \in Endpoint /\ reg.enable => s.enable)'
        /\ Exactly(reg.enable = s.enable)'
    BY SystemProxyAssumption DEF Exactly, Exact, Safely
  <2>3. UndoingTo(w, s, a, kept)'
    BY <1>1, <1>2, <1>3, <1>4, <2>1, <2>2 DEF UndoingTo
  <2> QED
    BY <1>8, <2>3 DEF Plan, Undoing
<1> QED
  BY <1>5, <1>6, <1>7, <1>8 DEF Plan

\* Nothing that came between the writes is ever forgotten.
LEMMA TornGrows == [Next]_vars => torn \subseteq torn'
  BY DEF Next, vars, Enabling, Rest, Writes, Fails, Start, Validate, Connects, SetOn, ReadsBack,
         Listens, Unset, Succeeds, IsRefused, Retreated, Retreats, Disconnect, Kill, Restore, Restored,
         Stopped, Exits, Dies, Launch, Launched, Exit, Exited, Crash, Ends, Changes, IsDamaged,
         Quietly, BeginsRecovery, BeginsEnabling, Tears

\* Another program or the user writes some of the values, and leaves our marks alone.  If
\* that leaves no address of ours there, it is gone, or turned off, or what was marked as
\* ours is on again.
LEMMA ProgramsChange ==
    ASSUME Typed, Typed', NEW s \in Setting, Changes(s)
    PROVE  /\ UNCHANGED <<reg.saved, reg.valid, reg.active, call, pc, runtime>>
           /\ SettingIn(reg') = s
           /\ theirs' = (IF LooksOurs(s) THEN theirs ELSE s)
           /\ Writing \/ LooksOurs(s) => "other" \in torn'
           /\ "shared" \notin torn' =>
                 \/ reg'.server \in User
                 \/ UNCHANGED <<reg.server, reg.override>> /\ ~reg'.enable
                 \/ ~Writing /\ reg.valid /\ s = Ours(MarkOf(reg.active))
<1>1. /\ reg'.enable = s.enable /\ reg'.server = s.server /\ reg'.override = s.override
      /\ UNCHANGED <<reg.saved, reg.valid, reg.active, call, pc, runtime>>
      /\ theirs' = (IF LooksOurs(s) THEN theirs ELSE s)
      /\ Writing \/ LooksOurs(s) => "other" \in torn'
      /\ "shared" \notin torn' => ~Shares(s)
  BY DEF Changes, Typed, Registry, Frontend
<1>2. SettingIn(reg') = s
  <2>1. SettingIn(reg') \in Setting
    BY SameSetting DEF Typed
  <2> QED
    BY <1>1, <2>1, SameSetting
<1>3. ASSUME ~Shares(s), reg'.server \notin User,
             ~(~Writing /\ reg.valid /\ s = Ours(MarkOf(reg.active)))
      PROVE  UNCHANGED <<reg.server, reg.override>> /\ ~reg'.enable
  <2>1. s = [SettingIn(reg) EXCEPT !.enable = FALSE]
    BY <1>1, <1>3 DEF Shares, Setting
  <2> QED
    BY <1>1, <2>1 DEF SettingIn
<1> QED
  BY <1>1, <1>2, <1>3

LEMMA KeptInit == Init => Kept
<1> SUFFICES ASSUME Init PROVE Orderly
  BY DEF Kept
<1>1. theirs \in Setting /\ ~Sent(theirs) /\ ~LooksOurs(theirs)
  BY SystemProxyAssumption DEF Init, Theirs, Setting, Sent, LooksOurs
<1>2. \A w \in Caller : ~Busy(w)
  BY DEF Init, Idle, Busy
<1>3. SavedIsSafe /\ Quiet
  <2>1. CASE reg = [enable |-> theirs.enable, server |-> theirs.server,
                    override |-> theirs.override, saved |-> theirs, valid |-> FALSE,
                    active |-> NoEndpoint]
    <3>1. SettingIn(reg) = theirs /\ ~reg.valid /\ ~Sent(reg)
      BY <1>1, <2>1 DEF SettingIn, Sent, Setting
    <3> QED
      BY <3>1 DEF SavedIsSafe, Quiet, Exactly, Exact, Safely
  <2>2. CASE reg = [enable |-> TRUE, server |-> Legacy, override |-> "ninety",
                    saved |-> theirs, valid |-> TRUE, active |-> NoEndpoint]
    <3>1. SettingIn(reg) = Ours(MarkOf(reg.active)) /\ reg.valid /\ reg.saved = theirs
      BY <2>2 DEF SettingIn, Ours, MarkOf
    <3> QED
      BY <1>1, <3>1, SameSetting DEF SavedIsSafe, Quiet, Exactly, Exact, Safely
  <2> QED
    BY <2>1, <2>2 DEF Init
<1> QED
  BY <1>1, <1>2, <1>3 DEF Orderly, Spared, Writing, Safely

\* Every step of the program, of the user and of other programs keeps the plans.
LEMMA KeptNext == Typed /\ Typed' /\ Turns /\ Kept /\ [Next]_vars => Kept'
<1> SUFFICES ASSUME Typed, Typed', Turns, Kept, [Next]_vars, Unbroken' PROVE Orderly'
  BY DEF Kept
<1>1. torn \subseteq torn'
  BY TornGrows
<1>2. Unbroken /\ Orderly
  BY <1>1 DEF Unbroken, Kept
<1>3. Spared /\ SavedIsSafe
  BY <1>2 DEF Orderly
<1>4. CASE \E w \in Caller : Writes(w) \/ Fails(w)
  <2>1. PICK w \in Caller : Writes(w) \/ Fails(w)
    BY <1>4
  <2>2. Plan(w) /\ \A v \in Caller \ {w} : ~Busy(v)
    BY <1>2, <2>1 DEF Orderly, Writes, Fails
  <2>3. torn' = torn
    BY <2>1 DEF Writes, Fails, Tears, Unbroken
  <2>4. CASE Writes(w)
    BY <1>3, <2>2, <2>3, <2>4, WritesPlanned, WritesOne, OneMoves
  <2>5. CASE Fails(w)
    <3>1. /\ Head(call[w].todo).otherwise = "end" => ~HalfWritten
          /\ Head(call[w].todo).key = "valid" => Head(call[w].todo).val
      BY <2>5 DEF Fails, Tears, Unbroken
    <3> QED
      BY <1>3, <2>2, <2>3, <2>5, <3>1, FailsPlanned, FailsOne, OneMoves
  <2> QED
    BY <2>1, <2>4, <2>5
\* Calls that begin find nobody at work.
<1>5. ASSUME NEW w \in Caller, ~Busy(w), BeginsRecovery(w) PROVE Orderly'
  <2>1. \A v \in Caller : ~Busy(v)
    BY <1>5 DEF BeginsRecovery, Tears, Unbroken, Alone
  <2>2. torn' = torn
    BY <1>5, <2>1 DEF BeginsRecovery, Tears, Alone
  <2>3. Quiet
    BY <1>2, <2>1 DEF Orderly, Writing
  <2>4. /\ call'[w] = [todo |-> Recovery(reg), undo |-> <<>>, ok |-> TRUE]
        /\ \A v \in Caller \ {w} : call'[v] = call[v]
        /\ reg' = reg /\ theirs' = theirs
    BY <1>5, BeginsThat DEF BeginsRecovery
  <2> QED
    BY <1>3, <2>1, <2>2, <2>3, <2>4, RecoveryIsPlanned, OneMoves
<1>6. ASSUME NEW a \in Attempt, SetOn(a), ~Quietly PROVE Orderly'
  <2>1. a \in Caller /\ ~Busy(a) /\ pc[a] = "look" /\ at[a].goal \in Endpoint
    BY <1>6 DEF SetOn, Done, Caller, Typed
  <2>2. /\ ~(reg.valid /\ ~Intact(reg)) /\ pc'[a] = "set"
        /\ BeginsEnabling(a, at[a].goal)
    BY <1>6, <2>1, GoesThere DEF SetOn
  <2>3. \A v \in Caller : ~Busy(v)
    BY <2>1, <2>2 DEF BeginsEnabling, Unbroken, Alone
  <2>4. Outdated => "other" \in torn'
    BY <2>2 DEF BeginsEnabling
  <2>5. Quiet
    BY <1>2, <2>3 DEF Orderly, Writing
  <2>6. /\ call'[a] = [todo |-> Saves(reg) \o Applies(at[a].goal), undo |-> Undoes(reg), ok |-> TRUE]
        /\ \A v \in Caller \ {a} : call'[v] = call[v]
        /\ reg' = reg /\ theirs' = theirs
    BY <2>1, <2>2, BeginsThat DEF BeginsEnabling
  <2>7. After(a)
    BY <1>1, <1>3, <2>1, <2>2, <2>4, <2>5, <2>6, EnablingIsPlanned
  <2> QED
    BY <2>1, <2>3, <2>6, <2>7, OneMoves
<1>7. ASSUME UNCHANGED <<reg, theirs, torn, call>>, \A v \in Caller : Busy(v) => pc'[v] = pc[v]
      PROVE  Orderly'
  BY <1>2, <1>7, NobodyMoves
<1>8. ASSUME NEW w \in Caller, ~Busy(w), Quietly, NEW to, Goes(w, to) PROVE Orderly'
  BY <1>7, <1>8, GoesThere DEF Quietly, Windows
<1>9. ASSUME NEW a \in Attempt, Start(a) \/ Enabling(a) PROVE Orderly'
  <2>1. a \in Caller /\ ~Busy(a)
    BY <1>9 DEF Start, Enabling, Validate, Connects, SetOn, ReadsBack, Listens, Unset, Succeeds,
                IsRefused, Retreated, Done, Caller
  <2>2. \E to : Goes(a, to)
    BY <1>9 DEF Start, Enabling, Validate, Connects, SetOn, ReadsBack, Listens, Unset, Succeeds,
                IsRefused, Retreated, Retreats, GivesUp
  <2>3. Quietly \/ BeginsRecovery(a) \/ SetOn(a)
    BY <1>9 DEF Start, Enabling, Validate, Connects, ReadsBack, Listens, Unset, Succeeds,
                IsRefused, Retreated, Retreats
  <2> QED
    BY <1>5, <1>6, <1>8, <2>1, <2>2, <2>3
<1>10. CASE Disconnect
  BY <1>8, <1>10 DEF Disconnect, Done, Caller
<1>11. ASSUME NEW w \in Attempt \cup {"user"}, Kill(w) \/ Restore(w) \/ Restored(w) \/ Stopped(w)
       PROVE  Orderly'
  <2>1. w \in Caller /\ ~Busy(w)
    BY <1>11 DEF Kill, Restore, Restored, Stopped, Done, Caller
  <2>2. \E to : Goes(w, to)
    BY <1>11 DEF Kill, Restore, Restored, Stopped
  <2>3. Quietly \/ BeginsRecovery(w)
    BY <1>11 DEF Kill, Restore, Restored, Stopped
  <2> QED
    BY <1>5, <1>8, <2>1, <2>2, <2>3
<1>12. CASE Exits \/ Dies
  BY <1>7, <1>12 DEF Exits, Dies, Windows
<1>13. CASE Launch \/ Launched \/ Exit
  <2>1. "host" \in Caller /\ ~Busy("host")
    BY <1>13 DEF Launch, Launched, Exit, On, Caller, Turns, WritingPC
  <2> QED
    BY <1>5, <1>8, <1>13, <2>1 DEF Launch, Launched, Exit
<1>14. CASE Exited \/ Crash
  <2>1. Ends /\ reg' = reg /\ theirs' = theirs
    BY <1>14 DEF Exited, Crash, Ends, Windows
  <2>2. torn' = torn /\ (Writing => ~HalfWritten)
    BY <2>1 DEF Ends, Tears, Unbroken, Writing
  <2>3. \A v \in Caller : ~Busy(v)'
    BY <2>1 DEF Ends, Idle, Busy
  <2>4. Quiet
    BY <1>2, <1>3, <2>2, PlansAreBased, SettledIsQuiet DEF Orderly, Writing
  <2> QED
    BY <1>3, <2>1, <2>2, <2>3, <2>4, QuietStays DEF Orderly
<1>15. ASSUME NEW s \in Setting, Changes(s) PROVE Orderly'
  <2>1. /\ UNCHANGED <<reg.saved, reg.valid, reg.active, call, pc>>
        /\ SettingIn(reg') = s
        /\ theirs' = (IF LooksOurs(s) THEN theirs ELSE s)
        /\ Writing \/ LooksOurs(s) => "other" \in torn'
        /\ "shared" \notin torn' =>
              \/ reg'.server \in User
              \/ UNCHANGED <<reg.server, reg.override>> /\ ~reg'.enable
              \/ ~Writing /\ reg.valid /\ s = Ours(MarkOf(reg.active))
    BY <1>15, ProgramsChange
  <2>2. MarkOf(reg.active) \in Endpoint
    BY SystemProxyAssumption DEF MarkOf, Typed, Registry
  <2>3. Sent(reg') <=> Sent(s)
    BY <2>1, SameSetting DEF Sent
  <2>4. "shared" \notin torn' => ~Sent(s) \/ (~Writing /\ reg.valid /\ s = Ours(MarkOf(reg.active)))
    BY <2>1, <2>3, SystemProxyAssumption DEF Sent
  <2>5. "shared" \notin torn' => "shared" \notin torn
    BY <1>1
  <2>6. Spared'
    <3>1. LooksOurs(Ours(MarkOf(reg.active)))
      BY <2>2, SameSetting
    <3>2. ~LooksOurs(theirs')
      BY <1>3, <2>1 DEF Spared
    <3>3. "shared" \notin torn' => ~Sent(theirs')
      BY <1>3, <2>1, <2>4, <2>5, <3>1 DEF Spared, Safely
    <3> QED
      BY <3>2, <3>3 DEF Spared, Safely, Sent, LooksOurs, OnWithOurList
  <2>7. SavedIsSafe'
    BY <1>3, <2>1, <2>5 DEF SavedIsSafe, Safely, Sent
  <2>8. \A v \in Caller : Busy(v)' <=> Busy(v)
    BY <2>1 DEF Busy
  <2>9. ASSUME NEW w \in Caller, Busy(w) PROVE Plan(w)'
    <3>1. Plan(w) /\ Writing
      BY <1>2, <2>9 DEF Orderly, Writing
    <3> QED
      BY <1>1, <2>1, <3>1, PlansStand
  <2>10. ~Writing => Quiet'
    <3>1. Safely(Sent(reg) => reg.valid /\ SettingIn(reg) = Ours(MarkOf(reg.active)))'
      BY <2>1, <2>3, <2>4 DEF Safely, MarkOf, Ours
    <3>2. Exact' => SettingIn(reg') = theirs'
      BY <2>1 DEF Exact
    <3> QED
      BY <3>1, <3>2 DEF Quiet, Exactly
  <2> QED
    BY <1>2, <2>6, <2>7, <2>8, <2>9, <2>10 DEF Orderly, Writing
<1>16. CASE IsDamaged
  <2>1. /\ reg.valid /\ reg.active # NoEndpoint
        /\ reg'.saved = Damaged
        /\ UNCHANGED <<reg.enable, reg.server, reg.override, reg.valid, reg.active>>
        /\ theirs' = (IF SettingIn(reg) = Ours(reg.active) THEN Off(reg.active) ELSE theirs)
        /\ torn' = torn /\ call' = call
    BY <1>16 DEF IsDamaged, Typed, Registry
  <2>2. \A v \in Caller : ~Busy(v) /\ ~Busy(v)'
    BY <1>16, <2>1 DEF IsDamaged, Busy, Writing
  <2>3. Quiet
    BY <1>2, <2>2 DEF Orderly, Writing
  <2>4. SettingIn(reg') = SettingIn(reg) /\ (Sent(reg') <=> Sent(reg))
        /\ MarkOf(reg'.active) = reg.active /\ MarkOf(reg.active) = reg.active
    BY <2>1 DEF SettingIn, Sent, MarkOf
  <2>5. Spared' /\ SavedIsSafe'
    <3>1. ~Sent(Off(reg.active)) /\ ~LooksOurs(Off(reg.active))
      BY DEF Off, Sent, LooksOurs, OnWithOurList
    <3>2. theirs' = theirs \/ theirs' = Off(reg.active)
      BY <2>1
    <3>3. ~LooksOurs(theirs') /\ ("shared" \notin torn => ~Sent(theirs'))
      BY <1>3, <3>1, <3>2 DEF Spared, Safely
    <3>4. Spared'
      BY <2>1, <3>3 DEF Spared, Safely, Sent, LooksOurs, OnWithOurList
    <3> QED
      BY <2>1, <3>4 DEF SavedIsSafe
  <2>6. Quiet'
    <3>1. Safely(Sent(reg) => reg.valid /\ SettingIn(reg) = Ours(MarkOf(reg.active)))'
      BY <2>1, <2>3, <2>4 DEF Quiet, Safely
    <3>2. Exact' => \/ SettingIn(reg') = theirs'
                    \/ SettingIn(reg') = Ours(reg.active) /\ theirs' = Off(reg.active)
      BY <2>1, <2>3, <2>4 DEF Quiet, Exactly, Exact
    <3> QED
      BY <2>1, <2>4, <3>1, <3>2 DEF Quiet, Exactly
  <2> QED
    BY <2>2, <2>5, <2>6 DEF Orderly, Writing
<1>17. CASE UNCHANGED vars
  BY <1>7, <1>17 DEF vars
<1> QED
  BY <1>4, <1>9, <1>10, <1>11, <1>12, <1>13, <1>14, <1>15, <1>16, <1>17 DEF Next, Rest

-----------------------------------------------------------------------------
(* What is not given back is owed by somebody *)

DuePC == {"boot", "validate", "connect", "look", "set", "listen", "unset", "ok", "failed", "queue",
          "killed"}

\* Somebody has failed, or has yet to look at the setting; a runtime will be stopped.
Due(w) == ~call[w].ok \/ pc[w] \in DuePC
Owed ==
    \/ \E w \in Caller : Due(w)
    \/ runtime # NoRuntime /\ \A w \in Caller : pc[w] \notin {"restore", "wait"}

\* What others left is there, and no mark of ours is.
Settled == Clean /\ ~reg.valid

Debt == Unbroken /\ ~Writing /\ ~Settled => Owed

LEMMA DebtInit == Init => Debt
<1> SUFFICES ASSUME Init PROVE Owed
  BY DEF Debt
<1>1. "host" \in Caller /\ pc["host"] = "boot"
  BY DEF Init, Caller
<1> QED
  BY <1>1 DEF Owed, Due, DuePC

\* A call whose last write is done has cleared the marks, is an enabling that will be
\* looked at, or has failed.
LEMMA LastWrite ==
    ASSUME Typed, NEW w \in Caller, Writes(w), torn' = torn, Plan(w), call'[w].todo = <<>>
    PROVE  Settled' \/ Due(w)'
<1>1. /\ call'[w].todo = Tail(call[w].todo) /\ call'[w].ok = call[w].ok
      /\ theirs' = theirs /\ pc' = pc
  BY WritesOne, WritesFirst
<1>2. CASE Clears(w)
  <2>1. CASE call[w].todo = <<Unmarks>>
    <3>1. UNCHANGED <<reg.enable, reg.server, reg.override, reg.valid>>
      BY <2>1, ForgettingSplits, WritesFirst DEF Splits, Write
    <3>2. ~reg.valid
      BY <1>2, <2>1, ForgettingSplits, NoListIsEmpty DEF Clears, Splits
    <3> QED
      BY <1>1, <1>2, <3>1, <3>2, CleanStays DEF Clears, Settled
  <2>2. CASE call[w].todo = Forget \/ call[w].todo = Forgets
    <3>1. Tail(call[w].todo) = <<Unmarks>>
      BY <2>2, ForgettingSplits DEF Splits
    <3> QED
      BY <1>1, <3>1, NoListIsEmpty
  <2> QED
    BY <1>2, <2>1, <2>2 DEF Clears
<1>3. CASE Disables(w)
  <2>1. Tail(call[w].todo) = Forget
    BY <1>3, ForgettingSplits DEF Disables, Splits
  <2> QED
    BY <1>1, <2>1, NoListIsEmpty
<1>4. CASE Restoring(w)
  <2>1. Tail(call[w].todo) \in {RestoresList(reg.saved), RestoresSwitch(reg.saved), Forgets}
    BY <1>4, RestoringSplits DEF Restoring, Splits
  <2>2. RestoresList(reg.saved) # <<>> /\ RestoresSwitch(reg.saved) # <<>>
    BY RestoringSplits DEF Splits
  <2> QED
    BY <1>1, <2>1, <2>2, NoListIsEmpty
<1>5. CASE Enables(w)
  BY <1>1, <1>5 DEF Enables, Due, DuePC
<1>6. CASE Undoing(w)
  BY <1>1, <1>6 DEF Undoing, Due
<1> QED
  BY <1>2, <1>3, <1>4, <1>5, <1>6 DEF Plan

\* A call that a failing write has ended has failed or, in passing over it, has cleared.
LEMMA LastFailure ==
    ASSUME Typed, NEW w \in Caller, Fails(w), torn' = torn, Plan(w),
           Head(call[w].todo).key = "valid" => Head(call[w].todo).val
    PROVE  Settled' \/ Due(w)'
<1>1. /\ UNCHANGED <<reg, theirs, pc>>
      /\ call'[w].ok = (call[w].ok /\ Head(call[w].todo).otherwise = "ignore")
  BY FailsOne DEF Fails, Windows
<1>2. CASE Clears(w)
  <2>1. call[w].todo # Forget /\ call[w].todo # Forgets
    BY ForgettingSplits DEF Splits, Write
  <2> QED
    BY <1>1, <1>2, <2>1, QuietStays DEF Clears, Settled
<1>3. CASE Disables(w)
  <2>1. Head(call[w].todo).otherwise = "end"
    BY <1>3, ForgettingSplits DEF Disables, Splits, Write
  <2> QED
    BY <1>1, <2>1 DEF Due
<1>4. CASE Restoring(w)
  <2>1. \/ Splits(call[w].todo, Write("server", reg.saved.server, "end"), RestoresList(reg.saved))
        \/ Splits(call[w].todo, Write("override", reg.saved.override, "end"),
                  RestoresSwitch(reg.saved))
        \/ Splits(call[w].todo, Write("enable", reg.saved.enable, "end"), Forgets)
    BY <1>4, RestoringSplits DEF Restoring
  <2>2. Head(call[w].todo).otherwise = "end"
    BY <2>1 DEF Splits, Write
  <2> QED
    BY <1>1, <2>2 DEF Due
<1>5. CASE Enables(w)
  BY <1>1, <1>5 DEF Enables, Due, DuePC
<1>6. CASE Undoing(w)
  BY <1>1, <1>6 DEF Undoing, Due
<1> QED
  BY <1>2, <1>3, <1>4, <1>5, <1>6 DEF Plan

\* A call that begins has something to write, so it is not at its end at once.
LEMMA NoRecoveryIsEmpty ==
    /\ Recovery(reg) # <<>>
    /\ \A e : Saves(reg) \o Applies(e) # <<>>
<1>1. TurnsItOff # <<>> /\ Forget # <<>> /\ RestoresAll(reg.saved) # <<>>
  BY ForgettingSplits, RestoringSplits DEF Splits
<1>2. \A e : Sets(e) # <<>> /\ SavesAll(SettingIn(reg), e) # <<>>
  BY EnablingSplits DEF Splits
<1> QED
  BY <1>1, <1>2, RecoveryLists, EnablingLists

\* Whoever owes hands the debt on before leaving: the command to the attempt, the attempt
\* to the runtime or to its own retreat, the runtime to the stop that takes it down.
LEMMA DebtNext == Typed /\ Typed' /\ Turns /\ Kept /\ Kept' /\ Debt /\ [Next]_vars => Debt'
<1> SUFFICES ASSUME Typed, Typed', Turns, Kept, Kept', Debt, [Next]_vars,
                    Unbroken', ~Writing', ~Settled'
             PROVE  Owed'
  BY DEF Debt
<1>1. torn \subseteq torn'
  BY TornGrows
<1>2. Unbroken /\ Orderly
  BY <1>1 DEF Unbroken, Kept
<1>3. \A w \in Caller : ~Busy(w)'
  BY DEF Writing
<1>4. ASSUME NEW w \in Caller, Due(w)' PROVE Owed'
  BY <1>4 DEF Owed
<1>5. CASE \E w \in Caller : Writes(w) \/ Fails(w)
  <2>1. PICK w \in Caller : Writes(w) \/ Fails(w)
    BY <1>5
  <2>2. Plan(w) /\ torn' = torn
        /\ (Fails(w) /\ Head(call[w].todo).key = "valid" => Head(call[w].todo).val)
    BY <1>2, <2>1 DEF Orderly, Writes, Fails, Tears, Unbroken
  <2>3. call'[w].todo = <<>>
    BY <1>3 DEF Busy
  <2> QED
    BY <1>4, <2>1, <2>2, <2>3, LastWrite, LastFailure
\* A call that begins has something to write.
<1>6. ASSUME NEW w \in Caller, NEW e, BeginsRecovery(w) \/ BeginsEnabling(w, e) PROVE FALSE
  <2>1. CASE BeginsRecovery(w)
    <3>1. Begins(w, Recovery(reg), <<>>)
      BY <2>1 DEF BeginsRecovery
    <3>2. call'[w] = [todo |-> Recovery(reg), undo |-> <<>>, ok |-> TRUE]
      BY <3>1, BeginsThat
    <3> QED
      BY <1>3, <3>2, NoRecoveryIsEmpty DEF Busy
  <2>2. CASE BeginsEnabling(w, e)
    <3>1. Begins(w, Saves(reg) \o Applies(e), Undoes(reg))
      BY <2>2 DEF BeginsEnabling
    <3>2. call'[w] = [todo |-> Saves(reg) \o Applies(e), undo |-> Undoes(reg), ok |-> TRUE]
      BY <3>1, BeginsThat
    <3>3. Saves(reg) \o Applies(e) # <<>>
      BY NoRecoveryIsEmpty
    <3> QED
      BY <1>3, <3>2, <3>3 DEF Busy
  <2> QED
    BY <1>6, <2>1, <2>2
<1>7. ASSUME UNCHANGED <<reg, theirs, torn, call>>
      PROVE  Owed
  <2>1. ~Writing
    BY <1>3, <1>7 DEF Writing, Busy
  <2>2. ~Settled
    BY <1>7, QuietStays DEF Settled
  <2> QED
    BY <1>2, <2>1, <2>2 DEF Debt
\* Whoever owes it and does not move, owes it still.
<1>8. ASSUME NEW w \in Caller, Quietly, NEW to, Goes(w, to), pc[w] \notin DuePC,
             runtime' = runtime \/ pc[w] \in {"restore", "wait"},
             to \in {"restore", "wait"} => pc[w] \in {"restore", "wait"}
      PROVE  Owed'
  <2>1. Owed /\ call' = call /\ \A v \in Caller \ {w} : pc'[v] = pc[v]
    BY <1>7, <1>8, GoesThere DEF Quietly, Windows
  <2>2. ASSUME NEW v \in Caller, Due(v) PROVE Owed'
    BY <1>4, <1>8, <2>1, <2>2 DEF Due
  <2>3. CASE runtime # NoRuntime /\ \A v \in Caller : pc[v] \notin {"restore", "wait"}
    BY <1>8, <2>1, <2>3, GoesThere DEF Owed
  <2> QED
    BY <2>1, <2>2, <2>3 DEF Owed
<1>9. ASSUME NEW w \in Caller, NEW to \in DuePC, Goes(w, to) PROVE Owed'
  BY <1>4, <1>9, GoesThere DEF Due
<1>10. ASSUME NEW a \in Attempt, Start(a) \/ Enabling(a) PROVE Owed'
  <2>1. a \in Caller
    BY DEF Caller
  <2>2. CASE Start(a) \/ Validate(a) \/ Connects(a) \/ SetOn(a) \/ Unset(a)
    <3>1. \E to \in DuePC : Goes(a, to)
      BY <2>2 DEF Start, Validate, Connects, SetOn, Unset, GivesUp, DuePC
    <3> QED
      BY <1>9, <2>1, <3>1
  <2>3. CASE ReadsBack(a) \/ Listens(a)
    <3>1. \E to \in DuePC : Goes(a, to)
      BY <2>3 DEF ReadsBack, Listens, GivesUp, DuePC
    <3> QED
      BY <1>9, <2>1, <3>1
  <2>4. CASE Succeeds(a)
    <3>1. wanted = a /\ pc[a] = "ok" /\ UNCHANGED runtime /\ Goes(a, "off")
      BY <1>6, <2>1, <2>4 DEF Succeeds, Retreats, Done
    <3>2. wanted # NoAttempt
      BY <3>1, SystemProxyAssumption
    <3>3. runtime.by = a
      BY <3>1, <3>2 DEF Turns
    <3>4. runtime' # NoRuntime
      BY <3>1, <3>2, <3>3 DEF NoRuntime
    <3>5. \A w \in Caller : pc'[w] \notin {"restore", "wait"}
      BY <2>1, <3>1, <3>2, GoesThere DEF Turns, StoppingPC
    <3> QED
      BY <3>4, <3>5 DEF Owed
  <2>5. CASE IsRefused(a)
    <3>1. Goes(a, "queue")
      BY <1>6, <2>1, <2>5 DEF IsRefused, Retreats
    <3> QED
      BY <1>9, <2>1, <3>1 DEF DuePC
  <2>6. CASE Retreated(a)
    BY <1>8, <2>1, <2>6 DEF Retreated, Done, Frontend, DuePC
  <2> QED
    BY <1>10, <2>2, <2>3, <2>4, <2>5, <2>6 DEF Enabling
<1>11. CASE Disconnect
  BY <1>9, <1>11 DEF Disconnect, Caller, DuePC
<1>12. ASSUME NEW w \in Attempt \cup {"user"}, Kill(w) \/ Restore(w) \/ Restored(w) \/ Stopped(w)
       PROVE  Owed'
  <2>1. w \in Caller
    BY DEF Caller
  <2>2. CASE Kill(w)
    BY <1>9, <2>1, <2>2 DEF Kill, DuePC
  <2>3. CASE Restore(w)
    BY <1>6, <2>1, <2>3 DEF Restore
  <2>4. CASE Restored(w)
    BY <1>8, <2>1, <2>4 DEF Restored, Done, Frontend, DuePC
  <2>5. CASE Stopped(w)
    <3>1. \E to \in {"off", "failed"} : Goes(w, to)
      BY <2>5 DEF Stopped
    <3> QED
      BY <1>8, <2>1, <2>5, <3>1 DEF Stopped, Done, DuePC
  <2> QED
    BY <1>12, <2>2, <2>3, <2>4, <2>5
<1>13. CASE Exits \/ Dies
  <2>1. UNCHANGED <<reg, theirs, torn, call, pc, runtime>>
    BY <1>13 DEF Exits, Dies, Windows
  <2> QED
    BY <1>7, <2>1 DEF Owed, Due
<1>14. CASE Launch \/ Launched \/ Exit
  <2>1. "host" \in Caller
    BY DEF Caller
  <2>2. Launched
    BY <1>6, <1>14, <2>1 DEF Launch, Exit
  <2> QED
    BY <1>8, <2>1, <2>2 DEF Launched, Frontend, DuePC
<1>15. CASE Exited \/ Crash
  <2>1. "host" \in Caller /\ pc'["host"] = "boot"
    BY <1>15 DEF Exited, Crash, Ends, Caller
  <2> QED
    BY <1>4, <2>1 DEF Due, DuePC
<1>16. ASSUME NEW s \in Setting, Changes(s) PROVE Owed'
  <2>1. /\ UNCHANGED <<reg.valid, call, pc, runtime>>
        /\ SettingIn(reg') = s
        /\ theirs' = (IF LooksOurs(s) THEN theirs ELSE s)
        /\ LooksOurs(s) => "other" \in torn'
        /\ "shared" \notin torn' =>
              \/ reg'.server \in User
              \/ UNCHANGED <<reg.server, reg.override>> /\ ~reg'.enable
              \/ reg.valid /\ s = Ours(MarkOf(reg.active))
    BY <1>16, ProgramsChange
  <2>2. ~Writing
    BY <1>3, <2>1 DEF Writing, Busy
  <2>3. reg.valid
    <3>1. SUFFICES ASSUME ~reg.valid PROVE Settled'
      OBVIOUS
    <3>2. "shared" \notin torn' => ~Sent(reg')
      BY <2>1, <3>1, SystemProxyAssumption DEF Sent
    <3>3. Exact' => SettingIn(reg') = theirs'
      BY <2>1 DEF Exact
    <3> QED
      BY <2>1, <3>1, <3>2, <3>3 DEF Settled, Clean, Exactly, Safely
  <2>4. Owed
    BY <1>2, <2>2, <2>3 DEF Debt, Settled
  <2> QED
    BY <2>1, <2>4 DEF Owed, Due
<1>17. CASE IsDamaged
  <2>1. UNCHANGED <<pc, call, runtime>> /\ reg.valid /\ ~Writing
    BY <1>17 DEF IsDamaged, Frontend
  <2> QED
    BY <1>2, <2>1 DEF Debt, Owed, Due, Settled
<1>18. CASE UNCHANGED vars
  <2>1. UNCHANGED <<reg, theirs, torn, call, pc, runtime>>
    BY <1>18 DEF vars
  <2> QED
    BY <1>7, <2>1 DEF Owed, Due
<1> QED
  BY <1>5, <1>10, <1>11, <1>12, <1>13, <1>14, <1>15, <1>16, <1>17, <1>18 DEF Next, Rest

-----------------------------------------------------------------------------
(* The theorems *)

SystemProxyInv == Typed /\ Turns /\ Kept /\ Debt

\* The invariant holds at the start and is kept by every step.
LEMMA SystemProxyInductive == Spec => []SystemProxyInv
<1>1. Init => SystemProxyInv
  BY TypedInit, TurnsInit, KeptInit, DebtInit DEF SystemProxyInv
<1>2. SystemProxyInv /\ [Next]_vars => SystemProxyInv'
  BY TypedNext, TurnsNext, KeptNext, DebtNext DEF SystemProxyInv
<1> QED
  BY <1>1, <1>2, PTL DEF Spec

\* At rest nobody writes and nobody owes anything, so the setting has been given back.
LEMMA RestIsClean ==
    ASSUME SystemProxyInv, AtRest, runtime = NoRuntime, AllDone, Unbroken
    PROVE  Clean
<1>1. ~Writing
  BY DEF SystemProxyInv, Turns, AtRest, WritingPC, Writing
<1>2. ~Owed
  BY DEF AtRest, AllDone, Owed, Due, DuePC
<1> QED
  BY <1>1, <1>2 DEF SystemProxyInv, Debt, Settled

\* What the user had comes back (docs/RELEASE_QUALIFICATION.md:43-46): when nothing runs,
\* the setting is what another program left last, an address of ours included, however
\* starts, disconnects, failed and undone writes (rollback_failed_enable), exits and crashes
\* came before, as long as no calls overlapped, none ended half way, and no other program
\* wrote in the middle of one or wrote what looks like a setting of ours.
THEOREM SystemProxyGivesBack == Spec => []GivenBack
<1>1. SystemProxyInv => GivenBack
  BY RestIsClean DEF GivenBack, Clean, Exactly, Exact, Safely, Unbroken
<1> QED
  BY <1>1, SystemProxyInductive, PTL

\* vpn.rs:1955: when nothing runs Windows sends nothing to an endpoint where nobody
\* listens, whichever attempt, stop or death of a core came between the waits of the
\* command that sets the proxy, and even if another program wrote in the middle of a call, as
\* long as none left an address of ours in a setting of its own (proxy_win.rs:1177).
THEOREM SystemProxySendsNobodyNowhere == Spec => []NobodyIsSentNowhere
<1>1. SystemProxyInv => NobodyIsSentNowhere
  BY RestIsClean DEF NobodyIsSentNowhere, Clean, Safely, Sent, Unbroken
<1> QED
  BY <1>1, SystemProxyInductive, PTL

\* proxy_win.rs:284: as long as no other program left an address of ours in a setting of its
\* own, whatever is saved to be given back sends nobody there, so that no disable can put an
\* endpoint of ours back.
THEOREM SystemProxySavesOthersOnly == Spec => []SavedIsNotOurs
<1>1. SystemProxyInv => SavedIsNotOurs
  BY DEF SystemProxyInv, Kept, Unbroken, Orderly, SavedIsSafe, Safely, Sent, Intact, SavedIsNotOurs
<1> QED
  BY <1>1, SystemProxyInductive, PTL

\* proxy_win.rs:205: between the calls, and as long as no other program left an address of
\* ours in a setting of its own, a setting that sends to an endpoint is marked as ours, so
\* whichever moment the program dies at, the next launch takes it away.
THEOREM SystemProxyKnowsItsOwn == Spec => []OursIsRecognised
<1>1. ASSUME SystemProxyInv, Unbroken, "shared" \notin torn, ~Writing, Sent(reg)
      PROVE  Recovery(reg) # Forget
  <2>1. /\ reg.valid /\ SettingIn(reg) = Ours(MarkOf(reg.active))
        /\ reg.saved = Damaged => reg.active # NoEndpoint
    BY <1>1 DEF SystemProxyInv, Kept, Orderly, Quiet, SavedIsSafe, Safely
  <2>2. OnWithOurList(reg) /\ reg.server = MarkOf(reg.active)
    BY <2>1, SameSetting DEF OnWithOurList
  <2>3. Recovery(reg) = (IF Intact(reg) THEN RestoresAll(reg.saved) ELSE TurnsItOff)
    BY <2>1, <2>2, RecoveryLists DEF Intact, MarkOf
  <2>4. /\ Head(RestoresAll(reg.saved)) = Write("server", reg.saved.server, "end")
        /\ Head(TurnsItOff) = Write("enable", FALSE, "end")
        /\ Head(Forget) = Write("valid", FALSE, "ignore")
    BY RestoringSplits, ForgettingSplits DEF Splits
  <2>5. "server" # "valid" /\ "enable" # "valid"
    OBVIOUS
  <2> QED
    BY <2>3, <2>4, <2>5 DEF Write
<1> QED
  <2>1. SystemProxyInv => OursIsRecognised
    BY <1>1 DEF OursIsRecognised, Unbroken, Sent
  <2> QED
    BY <2>1, SystemProxyInductive, PTL
=============================================================================
