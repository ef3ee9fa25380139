-------------------------- MODULE NetworkFlowProofs --------------------------
(***************************************************************************)
(* What NetworkFlow promises, for any clicks, any flows that wait for a    *)
(* reconnect and any bounds: its reconnect queue keeps the promise of      *)
(* LatestWins, no timer is lost, every variable has its type, nothing is   *)
(* left over, idle means stopped, connected is intended and no change is   *)
(* forgotten.                                                              *)
(*                                                                         *)
(* The argument for the queue.  QueueInv says which flows have no answer:  *)
(* those whose request is served or waits.  Almost every step leaves the   *)
(* queue alone, and no flow that waits for the queue does anything         *)
(* meanwhile (Untouched); such a step keeps QueueInv and is a stutter of   *)
(* the queue.  The others are a request (Ask), the end of a run (Done) or  *)
(* a disconnect (Cancel).                                                  *)
(*                                                                         *)
(* The other arguments are built alike, each at the head of its section: a *)
(* few steps are what the invariant is about, and one predicate says what  *)
(* all the others leave as it is (Calm, Enters, Harmless, Steady with      *)
(* StillAnswered).                                                         *)
(***************************************************************************)
EXTENDS NetworkFlow, TLAPS

PC == {"idle"} \cup SyncPC \cup MicroPC \cup AwaitPC

\* The queue's part of the state: a request is somebody's who is waiting for it or
\* nobody's, and the run is idle exactly when it serves nothing.
QueueInv ==
    /\ pc \in [Flow -> PC]
    /\ serving = NoRequest \/ serving.by \in Automation \cup {NoFlow}
    /\ pending = NoRequest \/ pending.by \in Automation \cup {NoFlow}
    /\ pc[Runner] = "idle" <=> serving = NoRequest
    /\ pending # NoRequest => serving # NoRequest
    /\ \A f \in Automation : pc[f] = "request" <=> f \in {serving.by, pending.by}
    /\ serving.by \in Automation => serving.by # pending.by
    /\ \A f \in Flow : pc[f] = "reconnect" => f \in Automation

\* Nobody starts or ends to wait for the queue.
Untouched ==
    /\ UNCHANGED queue
    /\ pc' \in [Flow -> PC]
    /\ \A f \in Automation : pc'[f] = "request" <=> pc[f] = "request"
    /\ pc'[Runner] = "idle" <=> pc[Runner] = "idle"
    /\ \A f \in Flow : pc'[f] = "reconnect" => pc[f] = "reconnect" \/ f \in Automation

LEMMA Names ==
    /\ Runner \in Flow /\ Runner \notin Automation /\ Runner \notin Click
    /\ NoFlow \notin Flow /\ NoFlow # Runner
    /\ Automation \subseteq Flow /\ Click \subseteq Flow
    /\ \A f \in Click : f \notin Automation
    /\ "nothing" \notin Automation \cup {NoFlow} /\ "pending" \notin Flow
BY NetworkFlowAssumption DEF Flow

LEMMA NoRequestBy == NoRequest.by = Runner
BY DEF NoRequest

\* A step that leaves the queue alone keeps the invariant and is a stutter.
LEMMA UntouchedStutters ==
    ASSUME QueueInv, Untouched
    PROVE  QueueInv' /\ UNCHANGED Queue!vars
<1>1. QueueInv'
  BY DEF QueueInv, Untouched, queue
<1>2. UNCHANGED Queue!vars
  BY DEF QueueInv, Untouched, queue, Queue!vars, By
<1> QED
  BY <1>1, <1>2

LEMMA ConnectQuiet ==
    ASSUME QueueInv, NEW f \in Flow, Connect(f)
    PROVE  Untouched
BY Names DEF QueueInv, Untouched, Connect, PC, SyncPC, MicroPC, AwaitPC, Go, GoWith,
   Return, CallShutDown, queue, screen, aside, intent, session, backend, reconnect

LEMMA ObserveQuiet ==
    ASSUME QueueInv, NEW f \in Flow, Observe(f)
    PROVE  Untouched
BY Names DEF QueueInv, Untouched, Observe, PC, SyncPC, MicroPC, AwaitPC, Go, GoWith,
   Return, CallShutDown, queue, screen, aside, intent, session, backend, reconnect,
   SetState, Show

LEMMA AdoptQuiet ==
    ASSUME QueueInv, NEW f \in Flow, Adopt(f)
    PROVE  Untouched
BY Names DEF QueueInv, Untouched, Adopt, PC, SyncPC, MicroPC, AwaitPC, Go, GoWith,
   Return, CallShutDown, queue, screen, aside, intent, session, backend, reconnect

LEMMA ElevateQuiet ==
    ASSUME QueueInv, NEW f \in Flow, Elevate(f)
    PROVE  Untouched
BY Names DEF QueueInv, Untouched, Elevate, PC, SyncPC, MicroPC, AwaitPC, Go, GoWith,
   Return, CallShutDown, queue, screen, aside, intent, session, backend, reconnect

LEMMA AttemptQuiet ==
    ASSUME QueueInv, NEW f \in Flow, Attempt(f)
    PROVE  Untouched
BY Names DEF QueueInv, Untouched, Attempt, PC, SyncPC, MicroPC, AwaitPC, Go, GoWith,
   Return, CallShutDown, queue, screen, aside, intent, session, backend, reconnect

LEMMA TopologyQuiet ==
    ASSUME QueueInv, NEW f \in Flow, Topology(f)
    PROVE  Untouched
BY Names DEF QueueInv, Untouched, Topology, PC, SyncPC, MicroPC, AwaitPC, Go, GoWith,
   Return, CallShutDown, queue, screen, aside, intent, session, backend, reconnect

LEMMA SelectQuiet ==
    ASSUME QueueInv, NEW f \in Flow, Select(f)
    PROVE  Untouched
BY Names DEF QueueInv, Untouched, Select, PC, SyncPC, MicroPC, AwaitPC, Go, GoWith,
   Return, CallShutDown, queue, screen, aside, intent, session, backend, reconnect

LEMMA ProxyQuiet ==
    ASSUME QueueInv, NEW f \in Flow, Proxy(f)
    PROVE  Untouched
BY Names DEF QueueInv, Untouched, Proxy, PC, SyncPC, MicroPC, AwaitPC, Go, GoWith,
   Return, CallShutDown, queue, screen, aside, intent, session, backend, reconnect

LEMMA ArmQuiet ==
    ASSUME QueueInv, NEW f \in Flow, Arm(f)
    PROVE  Untouched
BY Names DEF QueueInv, Untouched, Arm, PC, SyncPC, MicroPC, AwaitPC, Go, GoWith, Return,
   CallShutDown, queue, screen, aside, intent, session, backend, reconnect

LEMMA FinalQuiet ==
    ASSUME QueueInv, NEW f \in Flow, Final(f)
    PROVE  Untouched
BY Names DEF QueueInv, Untouched, Final, PC, SyncPC, MicroPC, AwaitPC, Go, GoWith,
   Return, CallShutDown, queue, screen, aside, intent, session, backend, reconnect

LEMMA LiveQuiet ==
    ASSUME QueueInv, NEW f \in Flow, Live(f)
    PROVE  Untouched
BY Names DEF QueueInv, Untouched, Live, PC, SyncPC, MicroPC, AwaitPC, Go, GoWith,
   Return, CallShutDown, queue, screen, aside, intent, session, backend, reconnect

LEMMA LiftQuiet ==
    ASSUME QueueInv, NEW f \in Flow, Lift(f)
    PROVE  Untouched
BY Names DEF QueueInv, Untouched, Lift, PC, SyncPC, MicroPC, AwaitPC, Go, GoWith,
   Return, CallShutDown, queue, screen, aside, intent, session, backend, reconnect

LEMMA CaughtQuiet ==
    ASSUME QueueInv, NEW f \in Flow, Caught(f)
    PROVE  Untouched
BY Names DEF QueueInv, Untouched, Caught, PC, SyncPC, MicroPC, AwaitPC, Go, GoWith,
   Return, CallShutDown, queue, screen, aside, intent, session, backend, reconnect

LEMMA ConnectStoppedQuiet ==
    ASSUME QueueInv, NEW f \in Flow, ConnectStopped(f)
    PROVE  Untouched
BY Names DEF QueueInv, Untouched, ConnectStopped, PC, SyncPC, MicroPC, AwaitPC, Go,
   GoWith, Return, CallShutDown, queue, screen, aside, intent, session, backend,
   reconnect, SetState, Show

LEMMA DownQuiet ==
    ASSUME QueueInv, NEW f \in Flow, Down(f)
    PROVE  Untouched
BY Names DEF QueueInv, Untouched, Down, PC, SyncPC, MicroPC, AwaitPC, Go, GoWith,
   Return, CallShutDown, queue, screen, aside, intent, session, backend, reconnect,
   StopCore, SendStop

LEMMA GuardQuiet ==
    ASSUME QueueInv, NEW f \in Flow, Guard(f)
    PROVE  Untouched
BY Names DEF QueueInv, Untouched, Guard, PC, SyncPC, MicroPC, AwaitPC, Go, GoWith,
   Return, CallShutDown, queue, screen, aside, intent, session, backend, reconnect,
   StopCore, SendStop

LEMMA StopQuiet ==
    ASSUME QueueInv, NEW f \in Flow, Stop(f)
    PROVE  Untouched
BY Names DEF QueueInv, Untouched, Stop, PC, SyncPC, MicroPC, AwaitPC, Go, GoWith,
   Return, CallShutDown, queue, screen, aside, intent, session, backend, reconnect,
   StopAnswers, SetState, Show

LEMMA PrepareQuiet ==
    ASSUME QueueInv, NEW f \in Flow, Prepare(f)
    PROVE  Untouched
BY Names DEF QueueInv, Untouched, Prepare, PC, SyncPC, MicroPC, AwaitPC, Go, GoWith,
   Return, CallShutDown, queue, screen, aside, intent, session, backend, reconnect,
   SendStart, SetState, Show

LEMMA StartQuiet ==
    ASSUME QueueInv, NEW f \in Flow, Start(f)
    PROVE  Untouched
BY Names DEF QueueInv, Untouched, Start, PC, SyncPC, MicroPC, AwaitPC, Go, GoWith,
   Return, CallShutDown, queue, screen, aside, intent, session, backend, reconnect

LEMMA RetreatQuiet ==
    ASSUME QueueInv, NEW f \in Flow, Retreat(f)
    PROVE  Untouched
BY Names DEF QueueInv, Untouched, Retreat, PC, SyncPC, MicroPC, AwaitPC, Go, GoWith,
   Return, CallShutDown, queue, screen, aside, intent, session, backend, reconnect,
   SendStop

LEMMA UndoQuiet ==
    ASSUME QueueInv, NEW f \in Flow, Undo(f)
    PROVE  Untouched
BY Names DEF QueueInv, Untouched, Undo, PC, SyncPC, MicroPC, AwaitPC, Go, GoWith,
   Return, CallShutDown, queue, screen, aside, intent, session, backend, reconnect,
   StopAnswers

LEMMA RunQuiet ==
    ASSUME QueueInv, Run
    PROVE  Untouched
BY Names DEF QueueInv, Untouched, Run, PC, SyncPC, MicroPC, AwaitPC, Go, GoWith, Return,
   CallShutDown, queue, screen, aside, intent, session, backend, reconnect

LEMMA RunBeginsQuiet ==
    ASSUME QueueInv, RunBegins
    PROVE  Untouched
BY Names DEF QueueInv, Untouched, RunBegins, PC, SyncPC, MicroPC, AwaitPC, Go, GoWith,
   Return, CallShutDown, queue, screen, aside, intent, session, backend, reconnect

LEMMA DispatchQuiet ==
    ASSUME QueueInv, Dispatch
    PROVE  Untouched
BY Names DEF QueueInv, Untouched, Dispatch, PC, SyncPC, MicroPC, AwaitPC, Go, GoWith,
   Return, CallShutDown, queue, screen, aside, intent, session, backend, reconnect

LEMMA PassGateQuiet ==
    ASSUME QueueInv, PassGate
    PROVE  Untouched
BY Names DEF QueueInv, Untouched, PassGate, PC, SyncPC, MicroPC, AwaitPC, Go, GoWith,
   Return, CallShutDown, queue, screen, aside, intent, session, backend, reconnect

LEMMA RunStoppedQuiet ==
    ASSUME QueueInv, RunStopped
    PROVE  Untouched
BY Names DEF QueueInv, Untouched, RunStopped, PC, SyncPC, MicroPC, AwaitPC, Go, GoWith,
   Return, CallShutDown, queue, screen, aside, intent, session, backend, reconnect,
   RetryIf

LEMMA RunWaitedQuiet ==
    ASSUME QueueInv, RunWaited
    PROVE  Untouched
BY Names DEF QueueInv, Untouched, RunWaited, PC, SyncPC, MicroPC, AwaitPC, Go, GoWith,
   Return, CallShutDown, queue, screen, aside, intent, session, backend, reconnect

LEMMA ClickFirstQuiet ==
    ASSUME QueueInv, NEW f \in Click, ClickFirst(f)
    PROVE  Untouched
BY Names DEF QueueInv, Untouched, ClickFirst, PC, SyncPC, MicroPC, AwaitPC, Go, GoWith,
   Return, CallShutDown, queue, screen, aside, intent, session, backend, reconnect

LEMMA ClickStoppedQuiet ==
    ASSUME QueueInv, NEW f \in Click, ClickStopped(f)
    PROVE  Untouched
BY Names DEF QueueInv, Untouched, ClickStopped, PC, SyncPC, MicroPC, AwaitPC, Go,
   GoWith, Return, CallShutDown, queue, screen, aside, intent, session, backend,
   reconnect, Finalize, SetState, Show

LEMMA ClickWaitedQuiet ==
    ASSUME QueueInv, NEW f \in Click, ClickWaited(f)
    PROVE  Untouched
BY Names DEF QueueInv, Untouched, ClickWaited, PC, SyncPC, MicroPC, AwaitPC, Go, GoWith,
   Return, CallShutDown, queue, screen, aside, intent, session, backend, reconnect

LEMMA SnapshotQuiet ==
    ASSUME QueueInv, NEW f \in Click, Snapshot(f)
    PROVE  Untouched
BY Names DEF QueueInv, Untouched, Snapshot, PC, SyncPC, MicroPC, AwaitPC, Go, GoWith,
   Return, CallShutDown, queue, screen, aside, intent, session, backend, reconnect,
   SetState, Show

LEMMA ResnapshotQuiet ==
    ASSUME QueueInv, NEW f \in Click, Resnapshot(f)
    PROVE  Untouched
BY Names DEF QueueInv, Untouched, Resnapshot, PC, SyncPC, MicroPC, AwaitPC, Go, GoWith,
   Return, CallShutDown, queue, screen, aside, intent, session, backend, reconnect,
   SetState, Show

LEMMA ReleaseQuiet ==
    ASSUME QueueInv, NEW f \in Click, Release(f)
    PROVE  Untouched
BY Names DEF QueueInv, Untouched, Release, PC, SyncPC, MicroPC, AwaitPC, Go, GoWith,
   Return, CallShutDown, queue, screen, aside, intent, session, backend, reconnect,
   Finalize, SetState, Show

LEMMA ClickReturnedQuiet ==
    ASSUME QueueInv, NEW f \in Click, ClickReturned(f)
    PROVE  Untouched
BY Names DEF QueueInv, Untouched, ClickReturned, PC, SyncPC, MicroPC, AwaitPC, Go,
   GoWith, Return, CallShutDown, queue, screen, aside, intent, session, backend,
   reconnect

LEMMA BeginQuiet ==
    ASSUME QueueInv, NEW f \in Automation, Begin(f)
    PROVE  Untouched
BY Names DEF QueueInv, Untouched, Begin, PC, SyncPC, MicroPC, AwaitPC, Go, GoWith,
   Return, CallShutDown, queue, screen, aside, intent, session, backend, reconnect

LEMMA WatchdogStoppedQuiet ==
    ASSUME QueueInv, NEW f \in Automation, WatchdogStopped(f)
    PROVE  Untouched
BY Names DEF QueueInv, Untouched, WatchdogStopped, PC, SyncPC, MicroPC, AwaitPC, Go,
   GoWith, Return, CallShutDown, queue, screen, aside, intent, session, backend,
   reconnect

LEMMA AutoReturnedQuiet ==
    ASSUME QueueInv, NEW f \in Automation, AutoReturned(f)
    PROVE  Untouched
BY Names DEF QueueInv, Untouched, AutoReturned, PC, SyncPC, MicroPC, AwaitPC, Go,
   GoWith, Return, CallShutDown, queue, screen, aside, intent, session, backend,
   reconnect

LEMMA CompletedQuiet ==
    ASSUME QueueInv, NEW f \in Automation, Completed(f)
    PROVE  Untouched
BY Names DEF QueueInv, Untouched, Completed, PC, SyncPC, MicroPC, AwaitPC, Go, GoWith,
   Return, CallShutDown, queue, screen, aside, intent, session, backend, reconnect

LEMMA BegunQuiet ==
    ASSUME QueueInv, NEW f \in Automation, Begun(f)
    PROVE  Untouched
<1>1. /\ UNCHANGED queue
      /\ \E to \in {"idle", "down", "reconnect", "complete"} : pc' = [pc EXCEPT ![f] = to]
  BY NetworkFlowAssumption DEF Begun, Go, GoWith, queue
<1>2. pc[f] = "begin"
  BY DEF Begun
<1> QED
  BY <1>1, <1>2, Names DEF QueueInv, Untouched, PC, SyncPC, MicroPC, AwaitPC

LEMMA EditQuiet ==
    ASSUME QueueInv, Edit
    PROVE  Untouched
BY Names DEF QueueInv, Untouched, Edit, PC, SyncPC, MicroPC, AwaitPC, Go, GoWith,
   Return, CallShutDown, queue, screen, aside, intent, session, backend, reconnect

LEMMA CoreDiesQuiet ==
    ASSUME QueueInv, CoreDies
    PROVE  Untouched
BY Names DEF QueueInv, Untouched, CoreDies, PC, SyncPC, MicroPC, AwaitPC, Go, GoWith,
   Return, CallShutDown, queue, screen, aside, intent, session, backend, reconnect

\* A request finds the queue idle or busy.
LEMMA EnqueueAsks ==
    ASSUME QueueInv, NEW by \in Automation \cup {NoFlow}, NEW tok, Enqueue(by, tok),
           by \in Automation => pc[by] # "request"
    PROVE  QueueInv' /\ Queue!Ask(by)
<1> USE Names, NoRequestBy
<1>1. [by |-> by, tok |-> tok] # NoRequest /\ [by |-> by, tok |-> tok].by = by
  BY DEF NoRequest
<1>2. pc' \in [Flow -> PC]
  BY DEF QueueInv, PC, SyncPC, MicroPC, AwaitPC, Enqueue
<1>3. QueueInv'
  BY <1>1, <1>2 DEF QueueInv, Enqueue
<1>4. CASE pc[Runner] = "idle"
  <2>1. By(serving) = "nothing" /\ By(serving') = by /\ By(pending') = By(pending)
    BY <1>1, <1>4 DEF QueueInv, Enqueue, By
  <2>2. {f \in Automation : pc'[f] = "request"}
          = {f \in Automation : pc[f] = "request"} \cup ({by} \ {NoFlow})
    BY <1>4 DEF QueueInv, Enqueue
  <2> QED
    BY <1>3, <2>1, <2>2 DEF QueueInv, Queue!Ask
<1>5. CASE pc[Runner] # "idle"
  <2>1. By(serving) # "nothing" /\ By(serving') = By(serving) /\ By(pending') = by
    BY <1>1, <1>5 DEF QueueInv, Enqueue, By
  <2>2. {f \in Automation : pc'[f] = "request"}
          = ({f \in Automation : pc[f] = "request"} \ {By(pending)}) \cup ({by} \ {NoFlow})
    BY <1>5 DEF QueueInv, Enqueue, By
  <2> QED
    BY <1>3, <2>1, <2>2 DEF QueueInv, Queue!Ask
<1> QED
  BY <1>4, <1>5

LEMMA SourceReconnectAsks ==
    ASSUME QueueInv, NEW by \in Automation \cup {NoFlow}, NEW tok, SourceReconnect(by, tok),
           by \in Automation => pc[by] # "request"
    PROVE  QueueInv' /\ Queue!Ask(by)
BY EnqueueAsks DEF SourceReconnect

\* A disconnect turns away the request that waits.
LEMMA DisconnectCancels ==
    ASSUME QueueInv, NEW f \in Click, Disconnect(f)
    PROVE  QueueInv' /\ Queue!Cancel
<1> USE Names, NoRequestBy
<1>1. pc' \in [Flow -> PC]
  BY DEF QueueInv, PC, SyncPC, MicroPC, AwaitPC, Disconnect
<1>2. QueueInv'
  BY <1>1 DEF QueueInv, Disconnect
<1>3. By(serving') = By(serving) /\ By(pending') = "nothing"
  BY DEF Disconnect, By
<1>4. {g \in Automation : pc'[g] = "request"} = {g \in Automation : pc[g] = "request"} \ {By(pending)}
  BY DEF QueueInv, Disconnect, By
<1> QED
  BY <1>2, <1>3, <1>4 DEF Queue!Cancel

\* The run ends: the waiting request is next, or is turned away with the answer.
LEMMA RunEndsIsDone ==
    ASSUME QueueInv, RunEnds, pc[Runner] # "idle"
    PROVE  QueueInv' /\ Queue!Done
<1> USE Names, NoRequestBy
<1> DEFINE next == pending # NoRequest /\ CanRun
<1>1. pc' \in [Flow -> PC]
  BY DEF QueueInv, PC, SyncPC, MicroPC, AwaitPC, RunEnds
<1>2. QueueInv'
  BY <1>1 DEF QueueInv, RunEnds
<1>3. By(serving) # "nothing" /\ By(pending') = "nothing"
  BY DEF QueueInv, RunEnds, By
<1>4. CASE next
  <2>1. By(serving') = By(pending)
    BY <1>4 DEF RunEnds, By
  <2>2. {f \in Automation : pc'[f] = "request"} = {f \in Automation : pc[f] = "request"} \ {By(serving)}
    BY <1>4 DEF QueueInv, RunEnds, By
  <2> QED
    BY <1>2, <1>3, <2>1, <2>2 DEF Queue!Done
<1>5. CASE ~next
  <2>1. By(serving') = "nothing"
    BY <1>5 DEF RunEnds, By
  <2>2. {f \in Automation : pc'[f] = "request"}
          = {f \in Automation : pc[f] = "request"} \ {By(serving), By(pending)}
    BY <1>5 DEF QueueInv, RunEnds, By
  <2> QED
    BY <1>2, <1>3, <2>1, <2>2 DEF Queue!Done
<1> QED
  BY <1>4, <1>5

\* The step of the queue that a step of the program is.
QueueSteps == QueueInv' /\ [Queue!Next]_(Queue!vars)

LEMMA AskSteps ==
    ASSUME NEW by \in Automation \cup {NoFlow}, QueueInv', Queue!Ask(by)
    PROVE  QueueSteps
BY DEF QueueSteps, Queue!Next

LEMMA QuietSteps ==
    ASSUME QueueInv, Untouched
    PROVE  QueueSteps
BY UntouchedStutters DEF QueueSteps

LEMMA CancelSteps ==
    ASSUME QueueInv', Queue!Cancel
    PROVE  QueueSteps
BY DEF QueueSteps, Queue!Next

LEMMA DoneSteps ==
    ASSUME QueueInv', Queue!Done
    PROVE  QueueSteps
BY DEF QueueSteps, Queue!Next

\* Only a flow that is at "reconnect" asks for itself.
LEMMA ReconnectSteps ==
    ASSUME QueueInv, NEW f \in Flow, Reconnect(f)
    PROVE  QueueSteps
<1>1. pc[f] = "reconnect" /\ f \in Automation
  BY DEF QueueInv, Reconnect
<1>2. CASE SourceReconnect(f, at[f].tok)
  BY <1>1, <1>2, SourceReconnectAsks, AskSteps
<1>3. CASE ~SourceReconnect(f, at[f].tok)
  <2>1. /\ UNCHANGED queue
        /\ \E to \in {"connect", "complete"} : pc' = [pc EXCEPT ![f] = to]
    BY <1>3 DEF Reconnect, Go, queue
  <2>2. Untouched
    BY <2>1, <1>1, Names DEF QueueInv, Untouched, PC, SyncPC, MicroPC, AwaitPC
  <2> QED
    BY <2>2, QuietSteps
<1> QED
  BY <1>2, <1>3

\* The answer of a snapshot: a click that has been overtaken returns, another one
\* connects or disconnects.
LEMMA ToggleSteps ==
    ASSUME QueueInv, NEW f \in Click, Toggle(f)
    PROVE  QueueSteps
<1>1. CASE Disconnect(f)
  BY <1>1, DisconnectCancels, CancelSteps
<1>2. CASE ~Disconnect(f)
  <2>1. /\ UNCHANGED queue /\ pc[f] = "toggle"
        /\ \E to \in {"returned", "connect"} : pc' = [pc EXCEPT ![f] = to]
    BY <1>2 DEF Toggle, Go, Return, queue
  <2>2. Untouched
    BY <2>1, Names DEF QueueInv, Untouched, PC, SyncPC, MicroPC, AwaitPC
  <2> QED
    BY <2>2, QuietSteps
<1> QED
  BY <1>1, <1>2

LEMMA RunReturnedSteps ==
    ASSUME QueueInv, RunReturned \/ RunCompleted
    PROVE  QueueSteps
<1>1. pc[Runner] # "idle"
  BY DEF RunReturned, RunCompleted
<1>2. CASE RunEnds
  BY <1>1, <1>2, RunEndsIsDone, DoneSteps
<1>3. CASE ~RunEnds
  <2>1. UNCHANGED queue /\ pc[Runner] = "returned" /\ pc' = [pc EXCEPT ![Runner] = "complete"]
    BY <1>3 DEF RunReturned, RunCompleted, Go, queue
  <2>2. Untouched
    BY <2>1, Names DEF QueueInv, Untouched, PC, SyncPC, MicroPC, AwaitPC
  <2> QED
    BY <2>2, QuietSteps
<1> QED
  BY <1>2, <1>3

LEMMA SynchronousSteps ==
    ASSUME QueueInv, NEW f \in Flow, Synchronous(f)
    PROVE  QueueSteps
<1>1. CASE Reconnect(f)
  BY <1>1, ReconnectSteps
<1>2. CASE ~Reconnect(f)
  <2>1. Untouched
    BY <1>2, ConnectQuiet, AttemptQuiet, DownQuiet, RetreatQuiet, CaughtQuiet, DispatchQuiet DEF
       Synchronous
  <2> QED
    BY <2>1, QuietSteps
<1> QED
  BY <1>1, <1>2

LEMMA MicroSteps ==
    ASSUME QueueInv, NEW f \in Flow, Micro(f)
    PROVE  QueueSteps
<1>1. CASE RunReturned
  BY <1>1, RunReturnedSteps
<1>2. CASE ~RunReturned
  <2>1. Untouched
    BY <1>2, ConnectStoppedQuiet, RunQuiet, PassGateQuiet, RunStoppedQuiet, RunWaitedQuiet,
       ClickStoppedQuiet, ClickWaitedQuiet, ClickReturnedQuiet, WatchdogStoppedQuiet,
       AutoReturnedQuiet DEF Micro
  <2> QED
    BY <2>1, QuietSteps
<1> QED
  BY <1>1, <1>2

LEMMA AnswerSteps ==
    ASSUME QueueInv, NEW f \in Flow, Answer(f)
    PROVE  QueueSteps
<1>1. CASE RunCompleted
  BY <1>1, RunReturnedSteps
<1>2. CASE f \in Click /\ Toggle(f)
  BY <1>2, ToggleSteps
<1>3. CASE ~RunCompleted /\ ~(f \in Click /\ Toggle(f))
  <2>1. Untouched
    BY <1>3, GuardQuiet, StopQuiet, ObserveQuiet, AdoptQuiet, ElevateQuiet, PrepareQuiet,
       StartQuiet, TopologyQuiet, SelectQuiet, ProxyQuiet, ArmQuiet, FinalQuiet, LiveQuiet,
       LiftQuiet, UndoQuiet, RunBeginsQuiet, SnapshotQuiet, ResnapshotQuiet, ReleaseQuiet,
       BegunQuiet, CompletedQuiet DEF Answer
  <2> QED
    BY <2>1, QuietSteps
<1> QED
  BY <1>1, <1>2, <1>3

\* The requests that nobody waits for.
LEMMA TimerSteps ==
    ASSUME QueueInv, TimerFires \/ ModeChange
    PROVE  QueueSteps
<1>1. NoFlow \in Automation \cup {NoFlow} /\ NoFlow \notin Automation
  BY Names
<1>2. Enqueue(NoFlow, NoOp)
  BY DEF TimerFires, ModeChange, SourceReconnect
<1> QED
  BY <1>1, <1>2, EnqueueAsks, AskSteps

LEMMA EventSteps ==
    ASSUME QueueInv, Event
    PROVE  QueueSteps
<1>1. CASE ModeChange
  BY <1>1, TimerSteps
<1>2. ASSUME NEW f \in Click, ClickAgain(f) PROVE QueueSteps
  BY <1>2, DisconnectCancels, CancelSteps DEF ClickAgain
<1>3. CASE ~ModeChange /\ \A f \in Click : ~ClickAgain(f)
  <2>1. Untouched
    BY <1>3, ClickFirstQuiet, BeginQuiet, EditQuiet, CoreDiesQuiet DEF Event
  <2> QED
    BY <2>1, QuietSteps
<1> QED
  BY <1>1, <1>2, <1>3

LEMMA InitQueue == Init => QueueInv /\ Queue!Init
<1> SUFFICES ASSUME Init PROVE QueueInv /\ Queue!Init
  OBVIOUS
<1>1. QueueInv
  BY Names, NoRequestBy DEF Init, QueueInv, PC
<1>2. Queue!Init
  BY Names DEF Init, Queue!Init, By
<1> QED
  BY <1>1, <1>2

LEMMA NextQueue ==
    ASSUME QueueInv, [Next]_vars
    PROVE  QueueSteps
<1>1. CASE UNCHANGED vars
  <2>1. Untouched
    BY <1>1 DEF vars, QueueInv, Untouched, queue
  <2> QED
    BY <2>1, QuietSteps
<1>2. CASE Next
  <2>1. CASE \E f \in Flow : Synchronous(f) \/ Micro(f) \/ Answer(f)
    BY <2>1, SynchronousSteps, MicroSteps, AnswerSteps
  <2>2. CASE TimerFires
    BY <2>2, TimerSteps
  <2>3. CASE Event
    BY <2>3, EventSteps
  <2>4. CASE Rest
    BY <2>4, <1>1 DEF Rest
  <2> QED
    BY <1>2, <2>1, <2>2, <2>3, <2>4 DEF Next
<1> QED
  BY <1>1, <1>2

-----------------------------------------------------------------------------

\* Whose reconnect has no result is served or waits, and nobody else: a promise of
\* the queue is neither forgotten nor settled twice (reconnect-queue.js:27).
THEOREM NobodyIsForgotten == Spec => []Queue!Answered
<1>1. QueueInv => Queue!Answered
  <2> SUFFICES ASSUME QueueInv PROVE Queue!Answered
    OBVIOUS
  <2>1. /\ \A f \in Automation : f = By(serving) <=> f = serving.by
        /\ \A f \in Automation : f = By(pending) <=> f = pending.by
    BY Names, NoRequestBy DEF By
  <2> QED
    BY <2>1 DEF QueueInv, Queue!Answered
<1>2. QueueInv /\ [Next]_vars => QueueInv'
  BY NextQueue DEF QueueSteps
<1> QED
  BY InitQueue, <1>1, <1>2, PTL DEF Spec

\* The reconnect queue with all that drives it implements LatestWins.
THEOREM QueueIsLatestWins == Spec => QueueKeepsPromise
<1>1. QueueInv /\ [Next]_vars => QueueInv' /\ [Queue!Next]_(Queue!vars)
  BY NextQueue DEF QueueSteps
<1> QED
  BY InitQueue, <1>1, PTL DEF Spec, QueueKeepsPromise, Queue!Spec

-----------------------------------------------------------------------------
(***************************************************************************)
(* No timer is lost.  Who arms the timer holds "timer" and nobody who is   *)
(* queued is fresh then; a run that is not over is no longer fresh either. *)
(* So a run starts, and a retry arms, only where no timer is armed.        *)
(***************************************************************************)
Over == {"returned", "complete"}

TimerInv ==
    /\ ~orphan
    /\ timer => "pending" \notin current
    /\ pc[Runner] = "run" => ~timer
    /\ timer /\ Runner \in current => pc[Runner] \in Over
    /\ Runner \in current /\ "pending" \in current => pc[Runner] \in Over

\* No timer is armed, nothing is queued and the run neither starts nor goes on.
Calm ==
    /\ orphan' = orphan /\ (timer' => timer)
    /\ Runner \in current' => Runner \in current
    /\ "pending" \in current' => "pending" \in current
    /\ pc'[Runner] = "run" => pc[Runner] = "run"
    /\ pc[Runner] \in Over => pc'[Runner] \in Over

LEMMA CalmKeeps == ASSUME TimerInv, Calm PROVE TimerInv'
BY DEF TimerInv, Calm

\* What is called within a segment.
LEMMA SegmentsCalm ==
    ASSUME QueueInv, NEW f \in Flow,
           Connect(f) \/ Attempt(f) \/ Down(f) \/ Retreat(f) \/ Caught(f) \/
           ConnectStopped(f)
    PROVE  Calm
<1> USE Names DEF QueueInv, Calm, Over, Go, GoWith, Return, CallShutDown, screen, queue, aside,
   intent, session, backend, reconnect
<1>1. CASE Connect(f)
  BY <1>1 DEF Connect
<1>2. CASE Attempt(f)
  BY <1>2 DEF Attempt
<1>3. CASE Down(f)
  BY <1>3 DEF Down, StopCore, SendStop
<1>4. CASE Retreat(f)
  BY <1>4 DEF Retreat, SendStop
<1>5. CASE Caught(f)
  BY <1>5 DEF Caught
<1>6. CASE ConnectStopped(f)
  BY <1>6 DEF ConnectStopped, SetState, Show
<1> QED
  BY <1>1, <1>2, <1>3, <1>4, <1>5, <1>6

\* The answers of an attempt.
LEMMA StartingCalm ==
    ASSUME QueueInv, NEW f \in Flow,
           Guard(f) \/ Stop(f) \/ Observe(f) \/ Adopt(f) \/ Elevate(f) \/ Prepare(f) \/
           Start(f) \/ Topology(f) \/ Select(f)
    PROVE  Calm
<1> USE Names DEF QueueInv, Calm, Over, Go, GoWith, Return, CallShutDown, screen, queue, aside,
   intent, session, backend, reconnect
<1>1. CASE Guard(f)
  BY <1>1 DEF Guard, StopCore, SendStop
<1>2. CASE Stop(f)
  BY <1>2 DEF Stop, SetState, Show, StopAnswers
<1>3. CASE Observe(f)
  <2>1. UNCHANGED <<orphan, current>> /\ pc[f] = "observe"
    BY <1>3 DEF Observe
  <2>2. SetState("cleanup_error", latched) \/ UNCHANGED timer
    BY <1>3 DEF Observe
  <2>3. timer' => timer
    BY <2>2 DEF SetState, Show
  <2>4. \E to \in {"returned", "adopt", "elevate", "attempt"} :
           pc' = [pc EXCEPT ![f] = to]
    BY <1>3 DEF Observe, SetState, Show
  <2> QED
    BY <2>1, <2>3, <2>4
<1>4. CASE Adopt(f)
  BY <1>4 DEF Adopt
<1>5. CASE Elevate(f)
  BY <1>5 DEF Elevate
<1>6. CASE Prepare(f)
  <2>1. UNCHANGED <<orphan, current>> /\ pc[f] = "prepare"
    BY <1>6 DEF Prepare
  <2>2. Show("idle", FALSE) \/ UNCHANGED timer
    BY <1>6 DEF Prepare
  <2>3. timer' => timer
    BY <2>2 DEF Show
  <2>4. \E to \in {"returned", "caught", "start"} :
           pc' = [pc EXCEPT ![f] = to]
    BY <1>6 DEF Prepare, SetState, Show, SendStart
  <2> QED
    BY <2>1, <2>3, <2>4
<1>7. CASE Start(f)
  BY <1>7 DEF Start
<1>8. CASE Topology(f)
  BY <1>8 DEF Topology
<1>9. CASE Select(f)
  BY <1>9 DEF Select
<1> QED
  BY <1>1, <1>2, <1>3, <1>4, <1>5, <1>6, <1>7, <1>8, <1>9

\* And its last ones.
LEMMA EndingCalm ==
    ASSUME QueueInv, NEW f \in Flow,
           Proxy(f) \/ Arm(f) \/ Final(f) \/ Live(f) \/ Lift(f) \/ Undo(f)
    PROVE  Calm
<1> USE Names DEF QueueInv, Calm, Over, Go, GoWith, Return, CallShutDown, screen, queue, aside,
   intent, session, backend, reconnect
<1>1. CASE Proxy(f)
  BY <1>1 DEF Proxy
<1>2. CASE Arm(f)
  BY <1>2 DEF Arm
<1>3. CASE Final(f)
  BY <1>3 DEF Final
<1>4. CASE Live(f)
  BY <1>4 DEF Live
<1>5. CASE Lift(f)
  BY <1>5 DEF Lift
<1>6. CASE Undo(f)
  BY <1>6 DEF Undo, StopAnswers
<1> QED
  BY <1>1, <1>2, <1>3, <1>4, <1>5, <1>6

\* The clicks.
LEMMA ClicksCalm ==
    ASSUME QueueInv, NEW f \in Click,
           ClickFirst(f) \/ ClickStopped(f) \/ ClickWaited(f) \/ Snapshot(f) \/
           Resnapshot(f) \/ Release(f) \/ ClickReturned(f)
    PROVE  Calm
<1> USE Names DEF QueueInv, Calm, Over, Go, GoWith, Return, CallShutDown, screen, queue, aside,
   intent, session, backend, reconnect
<1>1. CASE ClickFirst(f)
  BY <1>1 DEF ClickFirst
<1>2. CASE ClickStopped(f)
  BY <1>2 DEF ClickStopped, SetState, Show, Finalize
<1>3. CASE ClickWaited(f)
  BY <1>3 DEF ClickWaited
<1>4. CASE Snapshot(f)
  <2>1. UNCHANGED <<orphan, current>> /\ pc[f] = "snapshot"
    BY <1>4 DEF Snapshot
  <2>2. SetState("cleanup_error", FALSE) \/ UNCHANGED timer
    BY <1>4 DEF Snapshot
  <2>3. timer' => timer
    BY <2>2 DEF SetState, Show
  <2>4. \E to \in {"returned", "down", "release"} :
           pc' = [pc EXCEPT ![f] = to]
    BY <1>4 DEF Snapshot, SetState, Show
  <2> QED
    BY <2>1, <2>3, <2>4
<1>5. CASE Resnapshot(f)
  <2>1. UNCHANGED <<orphan, current>> /\ pc[f] = "resnapshot"
    BY <1>5 DEF Resnapshot
  <2>2. SetState("cleanup_error", FALSE) \/ UNCHANGED timer
    BY <1>5 DEF Resnapshot
  <2>3. timer' => timer
    BY <2>2 DEF SetState, Show
  <2>4. \E to \in {"returned", "release"} :
           pc' = [pc EXCEPT ![f] = to]
    BY <1>5 DEF Resnapshot, SetState, Show
  <2> QED
    BY <2>1, <2>3, <2>4
<1>6. CASE Release(f)
  BY <1>6 DEF Release, SetState, Show, Finalize
<1>7. CASE ClickReturned(f)
  BY <1>7 DEF ClickReturned
<1> QED
  BY <1>1, <1>2, <1>3, <1>4, <1>5, <1>6, <1>7

\* The flows that ask for a reconnect.
LEMMA AutomationCalm ==
    ASSUME QueueInv, NEW f \in Automation,
           Begin(f) \/ Begun(f) \/ WatchdogStopped(f) \/ AutoReturned(f) \/ Completed(f)
    PROVE  Calm
<1> USE Names DEF QueueInv, Calm, Over, Go, GoWith, Return, CallShutDown, screen, queue, aside,
   intent, session, backend, reconnect
<1>1. CASE Begin(f)
  BY <1>1 DEF Begin
<1>2. CASE Begun(f)
  <2>1. UNCHANGED screen /\ UNCHANGED aside /\ UNCHANGED intent /\ pc[f] = "begin"
    BY ONLY <1>2 DEF Begun
  <2>2. UNCHANGED <<orphan, current, timer>>
    BY <2>1
  <2>3. \E to \in {"idle", "down", "complete", "reconnect"} :
           pc' = [pc EXCEPT ![f] = to]
    <3>1. f \in {"watchdog", "bridge", "source", "quality"}
      BY NetworkFlowAssumption
    <3>2. CASE ~Grants(Own(f).kind)
      BY <1>2, <3>2 DEF Begun
    <3>3. CASE Grants(Own(f).kind) /\ f = "watchdog"
      BY <1>2, <3>3 DEF Begun
    <3>4. CASE Grants(Own(f).kind) /\ f = "bridge"
      BY <1>2, <3>4 DEF Begun
    <3>5. CASE Grants(Own(f).kind) /\ f = "source"
      BY <1>2, <3>5 DEF Begun
    <3>6. CASE Grants(Own(f).kind) /\ f = "quality"
      BY <1>2, <3>6 DEF Begun
    <3> QED
      BY <3>1, <3>2, <3>3, <3>4, <3>5, <3>6
  <2> QED
    BY <2>1, <2>2, <2>3
<1>3. CASE WatchdogStopped(f)
  BY <1>3 DEF WatchdogStopped
<1>4. CASE AutoReturned(f)
  BY <1>4 DEF AutoReturned
<1>5. CASE Completed(f)
  BY <1>5 DEF Completed
<1> QED
  BY <1>1, <1>2, <1>3, <1>4, <1>5

\* The run between its start and its end.
LEMMA RunCalm ==
    ASSUME QueueInv, TimerInv,
           Dispatch \/ PassGate \/ RunWaited \/ CoreDies
    PROVE  Calm
<1> USE Names DEF QueueInv, Calm, Over, Go, GoWith, Return, CallShutDown, screen, queue, aside,
   intent, session, backend, reconnect
<1>1. CASE Dispatch
  BY <1>1 DEF Dispatch
<1>2. CASE PassGate
  BY <1>2 DEF PassGate
<1>3. CASE RunWaited
  BY <1>3 DEF RunWaited
<1>4. CASE CoreDies
  BY <1>4 DEF CoreDies
<1> QED
  BY <1>1, <1>2, <1>3, <1>4

\* A disconnect clears the timer.
LEMMA DisconnectCalm ==
    ASSUME QueueInv, NEW f \in Click, Disconnect(f),
           current' = {f} \/ UNCHANGED current
    PROVE  Calm
<1>1. pc'[Runner] = pc[Runner]
  BY Names DEF QueueInv, Disconnect
<1> QED
  BY <1>1, Names DEF Disconnect, Calm, Over

LEMMA ToggleCalm ==
    ASSUME QueueInv, NEW f \in Click, Toggle(f)
    PROVE  Calm
<1>1. UNCHANGED current
  BY DEF Toggle
<1>2. CASE Disconnect(f)
  BY <1>1, <1>2, DisconnectCalm
<1>3. CASE ~Disconnect(f)
  <2>1. /\ UNCHANGED <<orphan, timer>> /\ pc[f] = "toggle"
        /\ \E to \in {"returned", "connect"} : pc' = [pc EXCEPT ![f] = to]
    BY <1>3 DEF Toggle, Return, Go, screen
  <2> QED
    BY <1>1, <2>1, Names DEF QueueInv, Calm, Over
<1> QED
  BY <1>2, <1>3

\* A retry arms the timer where none is armed.
LEMMA RetryKeeps ==
    ASSUME QueueInv, TimerInv, RunStopped \/ RunBegins
    PROVE  TimerInv'
<1> USE Names DEF QueueInv, TimerInv
<1>1. pc[Runner] \notin Over /\ pc[Runner] # "run"
  BY DEF RunStopped, RunBegins, Over
<1>2. pc'[Runner] # "run"
  BY DEF RunStopped, RunBegins, Return, Go, GoWith
<1>3. CASE UNCHANGED <<timer, orphan, current>>
  BY <1>1, <1>2, <1>3
<1>4. ASSUME NEW wanted \in BOOLEAN, NEW cleared \in BOOLEAN, wanted => Fresh(Runner),
             RetryIf(wanted, cleared), Return(Runner)
      PROVE  TimerInv'
  <2>1. pc'[Runner] = "returned"
    BY <1>4 DEF Return, Go
  <2>2. CASE wanted
    <3>1. Runner \in current /\ ~timer /\ "pending" \notin current
      BY <1>1, <1>4, <2>2 DEF Fresh
    <3> QED
      BY <1>4, <2>1, <2>2, <3>1 DEF RetryIf, Over
  <2>3. CASE ~wanted
    BY <1>4, <2>1, <2>3 DEF RetryIf, Over
  <2> QED
    BY <2>2, <2>3
<1>5. CASE RunStopped
  <2>1. CASE pc[Runner] = "unstopped"
    <3> DEFINE w == at[Runner].keep /\ Fresh(Runner)
    <3>1. w \in BOOLEAN /\ (w => Fresh(Runner)) /\ RetryIf(w, FALSE) /\ Return(Runner)
      BY <1>5, <2>1 DEF RunStopped
    <3> QED
      BY <1>4, <3>1
  <2>2. CASE pc[Runner] # "unstopped"
    BY <1>3, <1>5, <2>2 DEF RunStopped
  <2> QED
    BY <2>1, <2>2
<1>6. CASE RunBegins
  <2>1. CASE Grants("QualityRemediation")
    BY <1>3, <1>6, <2>1 DEF RunBegins
  <2>2. CASE ~Grants("QualityRemediation")
    <3> DEFINE w == need /\ Fresh(Runner)
    <3>1. w \in BOOLEAN /\ (w => Fresh(Runner)) /\ RetryIf(w, TRUE) /\ Return(Runner)
      BY <1>6, <2>2 DEF RunBegins
    <3> QED
      BY <1>4, <3>1
  <2> QED
    BY <2>1, <2>2
<1> QED
  BY <1>5, <1>6

\* What the queue does to the run.
LEMMA EnqueuesRun ==
    ASSUME QueueInv, NEW by \in Automation \cup {NoFlow}, NEW tok, Enqueue(by, tok)
    PROVE  pc'[Runner] = IF pc[Runner] = "idle" THEN "run" ELSE pc[Runner]
BY Names DEF QueueInv, Enqueue

\* A request of the user's or of an automatic flow clears the timer.
LEMMA SourceReconnectKeeps ==
    ASSUME QueueInv, TimerInv, NEW by \in Automation \cup {NoFlow}, NEW tok,
           SourceReconnect(by, tok)
    PROVE  TimerInv'
<1>1. timer' = FALSE /\ orphan' = orphan /\ current' = {Queued}
  BY DEF SourceReconnect, aside
<1>2. ~(Runner \in current' /\ "pending" \in current')
  BY <1>1, Names
<1> QED
  BY <1>1, <1>2 DEF TimerInv

LEMMA ReconnectKeeps ==
    ASSUME QueueInv, TimerInv, NEW f \in Flow, Reconnect(f)
    PROVE  TimerInv'
<1>1. pc[f] = "reconnect" /\ f \in Automation
  BY DEF QueueInv, Reconnect
<1>2. CASE SourceReconnect(f, at[f].tok)
  BY <1>1, <1>2, SourceReconnectKeeps
<1>3. CASE ~SourceReconnect(f, at[f].tok)
  <2>1. /\ UNCHANGED <<orphan, timer>> /\ (current' = {f} \/ UNCHANGED current)
        /\ \E to \in {"connect", "complete"} : pc' = [pc EXCEPT ![f] = to]
    BY <1>3 DEF Reconnect, Go, screen, aside
  <2>2. Calm
    BY <1>1, <2>1, Names DEF QueueInv, Calm, Over
  <2> QED
    BY <2>2, CalmKeeps
<1> QED
  BY <1>2, <1>3

\* The timer hands its epoch on: nobody is queued beside it.
LEMMA TimerFiresKeeps == ASSUME QueueInv, TimerInv, TimerFires PROVE TimerInv'
<1>1. timer' = FALSE /\ orphan' = orphan /\ timer
  BY DEF TimerFires, aside
<1>2. pc'[Runner] = IF pc[Runner] = "idle" THEN "run" ELSE pc[Runner]
  BY EnqueuesRun DEF TimerFires
<1>3. ASSUME Runner \in current', "pending" \in current' PROVE pc'[Runner] \in Over
  <2>1. CASE pc[Runner] = "idle"
    BY <1>1, <1>3, <2>1, Names DEF TimerFires, TimerInv, Queued
  <2>2. CASE pc[Runner] # "idle"
    BY <1>1, <1>2, <1>3, <2>2, Names DEF TimerFires, TimerInv, Queued
  <2> QED
    BY <2>1, <2>2
<1> QED
  BY <1>1, <1>3 DEF TimerInv

\* The run starts with the request that is fresh, so that no timer is armed.
LEMMA RunEndsKeeps ==
    ASSUME QueueInv, TimerInv, RunEnds, pc[Runner] \in Over
    PROVE  TimerInv'
<1> DEFINE next == pending # NoRequest /\ CanRun
<1>1. UNCHANGED <<timer, orphan>>
  BY DEF RunEnds, screen, aside
<1>2. /\ "pending" \notin current'
      /\ Runner \in current' => next
      /\ pc'[Runner] = "run" => next
  BY Names DEF RunEnds, QueueInv
<1>3. next => ~timer
  BY DEF CanRun, Fresh, TimerInv
<1> QED
  BY <1>1, <1>2, <1>3 DEF TimerInv

LEMMA RunReturnedKeeps ==
    ASSUME QueueInv, TimerInv, RunReturned \/ RunCompleted
    PROVE  TimerInv'
<1>1. pc[Runner] \in Over
  BY DEF RunReturned, RunCompleted, Over
<1>2. CASE RunEnds
  BY <1>1, <1>2, RunEndsKeeps
<1>3. CASE ~RunEnds
  <2>1. Calm
    BY <1>1, <1>3, Names DEF QueueInv, RunReturned, RunCompleted, Go, Calm, Over, screen, aside,
       intent
  <2> QED
    BY <2>1, CalmKeeps
<1> QED
  BY <1>2, <1>3

\* It forgets no timer: it starts where none is armed.
LEMMA RunKeeps == ASSUME QueueInv, TimerInv, Run PROVE TimerInv'
<1>1. ~timer /\ pc[Runner] \notin Over
  BY DEF Run, TimerInv, Over
<1>2. /\ timer' = FALSE /\ ~orphan' /\ UNCHANGED current
      /\ pc'[Runner] # "run"
  BY <1>1, Names DEF Run, TimerInv, Return, Go, GoWith, intent, QueueInv
<1> QED
  BY <1>1, <1>2 DEF TimerInv

\* An edit takes the epoch away from whoever is queued or runs.
LEMMA EditKeeps == ASSUME QueueInv, TimerInv, Edit, ~MicroReady PROVE TimerInv'
<1>1. pc[Runner] # "run"
  BY Names DEF MicroReady, MicroPC
<1> QED
  BY <1>1, Names, NetworkFlowAssumption DEF Edit, TimerInv, aside, Flow

LEMMA NextTimer ==
    ASSUME QueueInv, TimerInv, [Next]_vars
    PROVE  TimerInv'
<1>1. CASE UNCHANGED vars
  BY <1>1 DEF vars, TimerInv
<1>2. ASSUME NEW f \in Flow, Synchronous(f) PROVE TimerInv'
  BY <1>2, SegmentsCalm, RunCalm, ReconnectKeeps, CalmKeeps DEF Synchronous
<1>3. ASSUME NEW f \in Flow, Micro(f) PROVE TimerInv'
  BY <1>3, SegmentsCalm, ClicksCalm, AutomationCalm, RunCalm, RunKeeps, RetryKeeps,
     RunReturnedKeeps, CalmKeeps DEF Micro
<1>4. ASSUME NEW f \in Flow, Answer(f) PROVE TimerInv'
  BY <1>4, StartingCalm, EndingCalm, ClicksCalm, AutomationCalm, ToggleCalm, RetryKeeps,
     RunReturnedKeeps, CalmKeeps DEF Answer
<1>5. ASSUME Event, ~MicroReady PROVE TimerInv'
  <2>1. ASSUME NEW f \in Click, ClickAgain(f) PROVE TimerInv'
    BY <2>1, DisconnectCalm, CalmKeeps DEF ClickAgain
  <2>2. CASE ModeChange
    BY <2>2, SourceReconnectKeeps DEF ModeChange
  <2> QED
    BY <1>5, <2>1, <2>2, ClicksCalm, AutomationCalm, RunCalm, EditKeeps, CalmKeeps DEF Event
<1> QED
  BY <1>1, <1>2, <1>3, <1>4, <1>5, TimerFiresKeeps DEF Next, Rest

LEMMA InitTimer == Init => TimerInv
BY DEF Init, TimerInv

\* cancelPendingReconnect reaches every timer that is armed, for any clicks, edits
\* and automatic flows (main.js:1088-1096, :1160-1167, :1179-1184).
THEOREM NoTimerIsLost == Spec => []NoOrphanTimer
<1>1. QueueInv /\ TimerInv /\ [Next]_vars => QueueInv' /\ TimerInv'
  BY NextQueue, NextTimer DEF QueueSteps
<1>2. TimerInv => NoOrphanTimer
  BY DEF TimerInv, NoOrphanTimer
<1> QED
  BY InitQueue, InitTimer, <1>1, <1>2, PTL DEF Spec

-----------------------------------------------------------------------------
(***************************************************************************)
(* Every variable has its type.  QueueInv gives the type of pc; the marks, *)
(* the names of flows, the queue with the operation and the locals are     *)
(* each shown on their own.                                                *)
(***************************************************************************)
Screens == {"idle", "connecting", "connected", "disconnecting", "cleanup_error"}

Marks ==
    /\ early \in BOOLEAN /\ need \in BOOLEAN /\ timer \in BOOLEAN
    /\ orphan \in BOOLEAN /\ latched \in BOOLEAN /\ doomed \in BOOLEAN

Named ==
    /\ ui \in Screens
    /\ desired \in {"idle", "connected"}
    /\ current \subseteq Holder
    /\ attempt \in Flow \cup {NoFlow} /\ identity \in Flow \cup {NoFlow}
    /\ barrier \in Flow \cup {NoFlow} /\ runtime \in Flow \cup {NoFlow}
    /\ clicked \in [flow: Click \cup {NoFlow}, kind: {"connect", "disconnect"}]

Papers ==
    /\ pending \in Request \cup {NoRequest}
    /\ serving \in Request \cup {NoRequest}
    /\ owner \in Operation \cup {NoOp}

Locals == at \in [Flow -> Local]

Typed == Marks /\ Named /\ Papers /\ Locals

Rets == {"none", "first", "second", "third", "replaced", "stale", "failed", "old",
         "late", "dead"}

LEMMA OwnIsOperation == \A f \in Flow : Own(f) \in Operation /\ Own(f).flow = f
BY DEF Own, Operation, Kind

LEMMA NoLocalIsLocal == NoLocal \in Local
BY DEF NoLocal, Local

\* What the locals of a flow are set to.
LEMMA LocalFields ==
    ASSUME NEW l \in Local
    PROVE  /\ \A r \in Rets, k \in BOOLEAN : [l EXCEPT !.ret = r, !.keep = k] \in Local
           /\ \A r \in Rets, k \in BOOLEAN : [l EXCEPT !.ret = r, !.late = k] \in Local
           /\ \A t \in Operation, k \in BOOLEAN :
                 [NoLocal EXCEPT !.tok = t, !.keep = k] \in Local
           /\ \A k \in BOOLEAN : [NoLocal EXCEPT !.tok = NoOp, !.keep = k] \in Local
           /\ \A k \in BOOLEAN : [l EXCEPT !.ok = k] \in Local
           /\ \A k \in BOOLEAN : [l EXCEPT !.late = k] \in Local
           /\ \A t \in Operation : [l EXCEPT !.tok = t] \in Local
           /\ \A g \in Flow \cup {NoFlow} : [l EXCEPT !.await = g] \in Local
           /\ l.ret \in Rets /\ l.keep \in BOOLEAN /\ l.late \in BOOLEAN /\ l.ok \in BOOLEAN
           /\ l.tok \in Operation \cup {NoOp}
BY DEF Local, NoLocal, Rets

LEMMA GoTyped ==
    ASSUME Locals, NEW f \in Flow, NEW to
    PROVE  /\ Go(f, to) => Locals'
           /\ \A l \in Local : GoWith(f, to, l) => Locals'
           /\ \A r \in Rets, k \in BOOLEAN : CallShutDown(f, r, k) => Locals'
<1>1. at[f] \in Local
  BY DEF Locals
<1>2. Go(f, to) => Locals'
  BY DEF Go, Locals
<1>3. ASSUME NEW l \in Local, GoWith(f, to, l) PROVE Locals'
  BY <1>3 DEF GoWith, Locals
<1>4. ASSUME NEW r \in Rets, NEW k \in BOOLEAN, CallShutDown(f, r, k) PROVE Locals'
  <2>1. [at[f] EXCEPT !.ret = r, !.keep = k] \in Local
    BY <1>1, LocalFields
  <2>2. at' = [at EXCEPT ![f] = [at[f] EXCEPT !.ret = r, !.keep = k]]
    BY <1>4 DEF CallShutDown, GoWith
  <2> QED
    BY <2>1, <2>2 DEF Locals
<1> QED
  BY <1>2, <1>3, <1>4

LEMMA SendStopTyped ==
    ASSUME Locals, NEW f \in Flow, NEW to, NEW tok, SendStop(f, to, tok)
    PROVE  Locals'
<1>1. at[f] \in Local /\ Accepts(tok, "UserDisconnect") \in BOOLEAN
  BY DEF Accepts, Grants, Locals
<1>2. [at[f] EXCEPT !.ok = Accepts(tok, "UserDisconnect")] \in Local
  BY <1>1, LocalFields
<1> QED
  BY <1>2 DEF SendStop, GoWith, Locals

LEMMA DisconnectTyped ==
    ASSUME Typed, NEW f \in Click, Disconnect(f)
    PROVE  Locals'
<1>1. at \in [Flow -> Local]
  BY DEF Typed, Locals
<1>2. [NoLocal EXCEPT !.ret = "first", !.late = barrier # NoFlow] \in Local
  BY DEF NoLocal, Local
<1>3. \A g \in Flow : [at[g] EXCEPT !.late = TRUE] \in Local
  BY <1>1 DEF Local
<1> QED
  BY <1>1, <1>2, <1>3 DEF Disconnect, Locals

LEMMA SegmentsMarks ==
    ASSUME Typed, QueueInv, NEW f \in Flow,
           Connect(f) \/ Attempt(f) \/ Down(f) \/ Retreat(f) \/ Caught(f) \/
              ConnectStopped(f) \/ Reconnect(f)
    PROVE  Marks'
<1> USE Names, NetworkFlowAssumption DEF Typed, Marks, QueueInv, Go, GoWith, Return,
   CallShutDown, screen, queue, aside, intent, session, backend, reconnect
<1>1. CASE Connect(f)
  BY <1>1 DEF Connect
<1>2. CASE Attempt(f)
  BY <1>2 DEF Attempt
<1>3. CASE Down(f)
  BY <1>3 DEF Down, StopCore, SendStop
<1>4. CASE Retreat(f)
  BY <1>4 DEF Retreat, SendStop
<1>5. CASE Caught(f)
  BY <1>5 DEF Caught
<1>6. CASE ConnectStopped(f)
  BY <1>6 DEF ConnectStopped, SetState, Show
<1>7. CASE Reconnect(f)
  BY <1>7 DEF Reconnect, SourceReconnect, Enqueue, Queued
<1> QED
  BY <1>1, <1>2, <1>3, <1>4, <1>5, <1>6, <1>7

LEMMA StartingMarks ==
    ASSUME Typed, QueueInv, NEW f \in Flow,
           Guard(f) \/ Stop(f) \/ Observe(f) \/ Adopt(f) \/ Elevate(f) \/ Prepare(f) \/
              Start(f) \/ Topology(f) \/ Select(f)
    PROVE  Marks'
<1> USE Names, NetworkFlowAssumption DEF Typed, Marks, QueueInv, Go, GoWith, Return,
   CallShutDown, screen, queue, aside, intent, session, backend, reconnect
<1>1. CASE Guard(f)
  BY <1>1 DEF Guard, StopCore, SendStop
<1>2. CASE Stop(f)
  BY <1>2 DEF Stop, StopAnswers, SetState, Show
<1>3. CASE Observe(f)
  BY <1>3 DEF Observe, SetState, Show
<1>4. CASE Adopt(f)
  BY <1>4 DEF Adopt
<1>5. CASE Elevate(f)
  BY <1>5 DEF Elevate
<1>6. CASE Prepare(f)
  BY <1>6 DEF Prepare, SendStart, Show
<1>7. CASE Start(f)
  BY <1>7 DEF Start
<1>8. CASE Topology(f)
  BY <1>8 DEF Topology
<1>9. CASE Select(f)
  BY <1>9 DEF Select
<1> QED
  BY <1>1, <1>2, <1>3, <1>4, <1>5, <1>6, <1>7, <1>8, <1>9

LEMMA EndingMarks ==
    ASSUME Typed, QueueInv, NEW f \in Flow,
           Proxy(f) \/ Arm(f) \/ Final(f) \/ Live(f) \/ Lift(f) \/ Undo(f)
    PROVE  Marks'
<1> USE Names, NetworkFlowAssumption DEF Typed, Marks, QueueInv, Go, GoWith, Return,
   CallShutDown, screen, queue, aside, intent, session, backend, reconnect
<1>1. CASE Proxy(f)
  BY <1>1 DEF Proxy
<1>2. CASE Arm(f)
  BY <1>2 DEF Arm
<1>3. CASE Final(f)
  BY <1>3 DEF Final
<1>4. CASE Live(f)
  BY <1>4 DEF Live
<1>5. CASE Lift(f)
  BY <1>5 DEF Lift
<1>6. CASE Undo(f)
  BY <1>6 DEF Undo, StopAnswers
<1> QED
  BY <1>1, <1>2, <1>3, <1>4, <1>5, <1>6

LEMMA ClicksMarks ==
    ASSUME Typed, QueueInv, NEW f \in Click,
           ClickFirst(f) \/ ClickAgain(f) \/ Toggle(f) \/ ClickStopped(f) \/
              ClickWaited(f) \/ Snapshot(f) \/ Resnapshot(f) \/ Release(f) \/
              ClickReturned(f)
    PROVE  Marks'
<1> USE Names, NetworkFlowAssumption DEF Typed, Marks, QueueInv, Go, GoWith, Return,
   CallShutDown, screen, queue, aside, intent, session, backend, reconnect
<1>1. CASE ClickFirst(f)
  BY <1>1 DEF ClickFirst
<1>2. CASE ClickAgain(f)
  BY <1>2 DEF ClickAgain, Disconnect
<1>3. CASE Toggle(f)
  BY <1>3 DEF Toggle, Disconnect
<1>4. CASE ClickStopped(f)
  BY <1>4 DEF ClickStopped, Finalize, SetState, Show
<1>5. CASE ClickWaited(f)
  BY <1>5 DEF ClickWaited
<1>6. CASE Snapshot(f)
  BY <1>6 DEF Snapshot, SetState, Show
<1>7. CASE Resnapshot(f)
  BY <1>7 DEF Resnapshot, SetState, Show
<1>8. CASE Release(f)
  BY <1>8 DEF Release, Finalize, SetState, Show
<1>9. CASE ClickReturned(f)
  BY <1>9 DEF ClickReturned
<1> QED
  BY <1>1, <1>2, <1>3, <1>4, <1>5, <1>6, <1>7, <1>8, <1>9

LEMMA AutomationMarks ==
    ASSUME Typed, QueueInv, NEW f \in Automation,
           Begin(f) \/ Begun(f) \/ WatchdogStopped(f) \/ AutoReturned(f) \/ Completed(f)
    PROVE  Marks'
<1> USE Names, NetworkFlowAssumption DEF Typed, Marks, QueueInv, Go, GoWith, Return,
   CallShutDown, screen, queue, aside, intent, session, backend, reconnect
<1>1. CASE Begin(f)
  BY <1>1 DEF Begin
<1>2. CASE Begun(f)
  BY <1>2 DEF Begun
<1>3. CASE WatchdogStopped(f)
  BY <1>3 DEF WatchdogStopped
<1>4. CASE AutoReturned(f)
  BY <1>4 DEF AutoReturned
<1>5. CASE Completed(f)
  BY <1>5 DEF Completed
<1> QED
  BY <1>1, <1>2, <1>3, <1>4, <1>5

LEMMA RunMarks ==
    ASSUME Typed, QueueInv,
           Run \/ RunBegins \/ Dispatch \/ PassGate \/ RunStopped \/ RunWaited \/
              RunReturned \/ RunCompleted
    PROVE  Marks'
<1> USE Names, NetworkFlowAssumption DEF Typed, Marks, QueueInv, Go, GoWith, Return,
   CallShutDown, screen, queue, aside, intent, session, backend, reconnect
<1>1. CASE Run
  BY <1>1 DEF Run
<1>2. CASE RunBegins
  BY <1>2 DEF RunBegins, RetryIf
<1>3. CASE Dispatch
  BY <1>3 DEF Dispatch
<1>4. CASE PassGate
  BY <1>4 DEF PassGate
<1>5. CASE RunStopped
  BY <1>5 DEF RunStopped, RetryIf
<1>6. CASE RunWaited
  BY <1>6 DEF RunWaited
<1>7. CASE RunReturned
  BY <1>7 DEF RunReturned, RunEnds
<1>8. CASE RunCompleted
  BY <1>8 DEF RunCompleted, RunEnds
<1> QED
  BY <1>1, <1>2, <1>3, <1>4, <1>5, <1>6, <1>7, <1>8

LEMMA EventsMarks ==
    ASSUME Typed, QueueInv,
           TimerFires \/ ModeChange \/ Edit \/ CoreDies
    PROVE  Marks'
<1> USE Names, NetworkFlowAssumption DEF Typed, Marks, QueueInv, Go, GoWith, Return,
   CallShutDown, screen, queue, aside, intent, session, backend, reconnect
<1>1. CASE TimerFires
  BY <1>1 DEF TimerFires, Enqueue, Queued
<1>2. CASE ModeChange
  BY <1>2 DEF ModeChange, SourceReconnect, Enqueue, Queued
<1>3. CASE Edit
  BY <1>3 DEF Edit
<1>4. CASE CoreDies
  BY <1>4 DEF CoreDies
<1> QED
  BY <1>1, <1>2, <1>3, <1>4

LEMMA SegmentsNamed ==
    ASSUME Typed, QueueInv, NEW f \in Flow,
           Connect(f) \/ Attempt(f) \/ Down(f) \/ Retreat(f) \/ Caught(f) \/
              ConnectStopped(f) \/ Reconnect(f)
    PROVE  Named'
<1> USE Names, NetworkFlowAssumption DEF Typed, Named, QueueInv, Holder, Screens,
   NoClick, Go, GoWith, Return, CallShutDown, screen, queue, aside, intent, session,
   backend, reconnect
<1>1. CASE Connect(f)
  BY <1>1 DEF Connect
<1>2. CASE Attempt(f)
  BY <1>2 DEF Attempt
<1>3. CASE Down(f)
  BY <1>3 DEF Down, StopCore, SendStop
<1>4. CASE Retreat(f)
  BY <1>4 DEF Retreat, SendStop
<1>5. CASE Caught(f)
  BY <1>5 DEF Caught
<1>6. CASE ConnectStopped(f)
  BY <1>6 DEF ConnectStopped, SetState, Show
<1>7. CASE Reconnect(f)
  <2>1. Queued \in Holder /\ f \in Holder
    BY DEF Queued, Holder
  <2>2. /\ UNCHANGED <<ui, attempt, identity, barrier, runtime, clicked>>
        /\ desired' \in {desired, "connected"} /\ current' \in {{Queued}, {f}, current}
    BY <1>7 DEF Reconnect, SourceReconnect
  <2> QED
    BY <2>1, <2>2
<1> QED
  BY <1>1, <1>2, <1>3, <1>4, <1>5, <1>6, <1>7

LEMMA StartingNamed ==
    ASSUME Typed, QueueInv, NEW f \in Flow,
           Guard(f) \/ Stop(f) \/ Observe(f) \/ Adopt(f) \/ Elevate(f) \/ Prepare(f) \/
              Start(f) \/ Topology(f) \/ Select(f)
    PROVE  Named'
<1> USE Names, NetworkFlowAssumption DEF Typed, Named, QueueInv, Holder, Screens,
   NoClick, Go, GoWith, Return, CallShutDown, screen, queue, aside, intent, session,
   backend, reconnect
<1>1. CASE Guard(f)
  BY <1>1 DEF Guard, StopCore, SendStop
<1>2. CASE Stop(f)
  BY <1>2 DEF Stop, StopAnswers, SetState, Show
<1>3. CASE Observe(f)
  BY <1>3 DEF Observe, SetState, Show
<1>4. CASE Adopt(f)
  BY <1>4 DEF Adopt
<1>5. CASE Elevate(f)
  BY <1>5 DEF Elevate
<1>6. CASE Prepare(f)
  BY <1>6 DEF Prepare, SendStart, Show
<1>7. CASE Start(f)
  BY <1>7 DEF Start
<1>8. CASE Topology(f)
  BY <1>8 DEF Topology
<1>9. CASE Select(f)
  BY <1>9 DEF Select
<1> QED
  BY <1>1, <1>2, <1>3, <1>4, <1>5, <1>6, <1>7, <1>8, <1>9

LEMMA EndingNamed ==
    ASSUME Typed, QueueInv, NEW f \in Flow,
           Proxy(f) \/ Arm(f) \/ Final(f) \/ Live(f) \/ Lift(f) \/ Undo(f)
    PROVE  Named'
<1> USE Names, NetworkFlowAssumption DEF Typed, Named, QueueInv, Holder, Screens,
   NoClick, Go, GoWith, Return, CallShutDown, screen, queue, aside, intent, session,
   backend, reconnect
<1>1. CASE Proxy(f)
  BY <1>1 DEF Proxy
<1>2. CASE Arm(f)
  BY <1>2 DEF Arm
<1>3. CASE Final(f)
  BY <1>3 DEF Final
<1>4. CASE Live(f)
  BY <1>4 DEF Live
<1>5. CASE Lift(f)
  BY <1>5 DEF Lift
<1>6. CASE Undo(f)
  BY <1>6 DEF Undo, StopAnswers
<1> QED
  BY <1>1, <1>2, <1>3, <1>4, <1>5, <1>6

LEMMA ClicksNamed ==
    ASSUME Typed, QueueInv, NEW f \in Click,
           ClickFirst(f) \/ ClickAgain(f) \/ Toggle(f) \/ ClickStopped(f) \/
              ClickWaited(f) \/ Snapshot(f) \/ Resnapshot(f) \/ Release(f) \/
              ClickReturned(f)
    PROVE  Named'
<1> USE Names, NetworkFlowAssumption DEF Typed, Named, QueueInv, Holder, Screens,
   NoClick, Go, GoWith, Return, CallShutDown, screen, queue, aside, intent, session,
   backend, reconnect
<1>1. CASE ClickFirst(f)
  BY <1>1 DEF ClickFirst
<1>2. CASE ClickAgain(f)
  BY <1>2 DEF ClickAgain, Disconnect
<1>3. CASE Toggle(f)
  BY <1>3 DEF Toggle, Disconnect
<1>4. CASE ClickStopped(f)
  BY <1>4 DEF ClickStopped, Finalize, SetState, Show
<1>5. CASE ClickWaited(f)
  BY <1>5 DEF ClickWaited
<1>6. CASE Snapshot(f)
  BY <1>6 DEF Snapshot, SetState, Show
<1>7. CASE Resnapshot(f)
  BY <1>7 DEF Resnapshot, SetState, Show
<1>8. CASE Release(f)
  BY <1>8 DEF Release, Finalize, SetState, Show
<1>9. CASE ClickReturned(f)
  BY <1>9 DEF ClickReturned
<1> QED
  BY <1>1, <1>2, <1>3, <1>4, <1>5, <1>6, <1>7, <1>8, <1>9

LEMMA AutomationNamed ==
    ASSUME Typed, QueueInv, NEW f \in Automation,
           Begin(f) \/ Begun(f) \/ WatchdogStopped(f) \/ AutoReturned(f) \/ Completed(f)
    PROVE  Named'
<1> USE Names, NetworkFlowAssumption DEF Typed, Named, QueueInv, Holder, Screens,
   NoClick, Go, GoWith, Return, CallShutDown, screen, queue, aside, intent, session,
   backend, reconnect
<1>1. CASE Begin(f)
  BY <1>1 DEF Begin
<1>2. CASE Begun(f)
  BY <1>2 DEF Begun
<1>3. CASE WatchdogStopped(f)
  BY <1>3 DEF WatchdogStopped
<1>4. CASE AutoReturned(f)
  BY <1>4 DEF AutoReturned
<1>5. CASE Completed(f)
  BY <1>5 DEF Completed
<1> QED
  BY <1>1, <1>2, <1>3, <1>4, <1>5

LEMMA RunNamed ==
    ASSUME Typed, QueueInv,
           Run \/ RunBegins \/ Dispatch \/ PassGate \/ RunStopped \/ RunWaited \/
              RunReturned \/ RunCompleted
    PROVE  Named'
<1> USE Names, NetworkFlowAssumption DEF Typed, Named, QueueInv, Holder, Screens,
   NoClick, Go, GoWith, Return, CallShutDown, screen, queue, aside, intent, session,
   backend, reconnect
<1>1. CASE Run
  BY <1>1 DEF Run
<1>2. CASE RunBegins
  BY <1>2 DEF RunBegins, RetryIf
<1>3. CASE Dispatch
  BY <1>3 DEF Dispatch
<1>4. CASE PassGate
  BY <1>4 DEF PassGate
<1>5. CASE RunStopped
  BY <1>5 DEF RunStopped, RetryIf
<1>6. CASE RunWaited
  BY <1>6 DEF RunWaited
<1>7. CASE RunReturned
  <2>1. UNCHANGED <<ui, desired, attempt, identity, barrier, runtime, clicked>>
    BY <1>7 DEF RunReturned, RunEnds
  <2>2. current' \subseteq current \cup {Runner}
    BY <1>7 DEF RunReturned, RunEnds
  <2> QED
    BY <2>1, <2>2
<1>8. CASE RunCompleted
  BY <1>8 DEF RunCompleted, RunEnds
<1> QED
  BY <1>1, <1>2, <1>3, <1>4, <1>5, <1>6, <1>7, <1>8

LEMMA EventsNamed ==
    ASSUME Typed, QueueInv,
           TimerFires \/ ModeChange \/ Edit \/ CoreDies
    PROVE  Named'
<1> USE Names, NetworkFlowAssumption DEF Typed, Named, QueueInv, Holder, Screens,
   NoClick, Go, GoWith, Return, CallShutDown, screen, queue, aside, intent, session,
   backend, reconnect
<1>1. CASE TimerFires
  BY <1>1 DEF TimerFires, Enqueue, Queued
<1>2. CASE ModeChange
  BY <1>2 DEF ModeChange, SourceReconnect, Enqueue, Queued
<1>3. CASE Edit
  BY <1>3 DEF Edit
<1>4. CASE CoreDies
  BY <1>4 DEF CoreDies
<1> QED
  BY <1>1, <1>2, <1>3, <1>4

LEMMA SegmentsPapers ==
    ASSUME Typed, QueueInv, NEW f \in Flow,
           Connect(f) \/ Attempt(f) \/ Down(f) \/ Retreat(f) \/ Caught(f) \/
              ConnectStopped(f) \/ Reconnect(f)
    PROVE  Papers'
<1> USE Names, OwnIsOperation DEF Typed, Papers, QueueInv, Operation, Kind, Request,
   NoRequest, NoOp, Charge, Discharge, Locals, Local, Go, GoWith, Return, CallShutDown,
   screen, queue, aside, intent, session, backend, reconnect
<1>1. CASE Connect(f)
  BY <1>1 DEF Connect
<1>2. CASE Attempt(f)
  BY <1>2 DEF Attempt
<1>3. CASE Down(f)
  BY <1>3 DEF Down, StopCore, SendStop
<1>4. CASE Retreat(f)
  BY <1>4 DEF Retreat, SendStop
<1>5. CASE Caught(f)
  BY <1>5 DEF Caught
<1>6. CASE ConnectStopped(f)
  BY <1>6 DEF ConnectStopped, SetState, Show
<1>7. CASE Reconnect(f)
  BY <1>7 DEF Reconnect, SourceReconnect, Enqueue, Queued
<1> QED
  BY <1>1, <1>2, <1>3, <1>4, <1>5, <1>6, <1>7

LEMMA StartingPapers ==
    ASSUME Typed, QueueInv, NEW f \in Flow,
           Guard(f) \/ Stop(f) \/ Observe(f) \/ Adopt(f) \/ Elevate(f) \/ Prepare(f) \/
              Start(f) \/ Topology(f) \/ Select(f)
    PROVE  Papers'
<1> USE Names, OwnIsOperation DEF Typed, Papers, QueueInv, Operation, Kind, Request,
   NoRequest, NoOp, Charge, Discharge, Locals, Local, Go, GoWith, Return, CallShutDown,
   screen, queue, aside, intent, session, backend, reconnect
<1>1. CASE Guard(f)
  BY <1>1 DEF Guard, StopCore, SendStop
<1>2. CASE Stop(f)
  BY <1>2 DEF Stop, StopAnswers, SetState, Show
<1>3. CASE Observe(f)
  BY <1>3 DEF Observe, SetState, Show
<1>4. CASE Adopt(f)
  BY <1>4 DEF Adopt
<1>5. CASE Elevate(f)
  BY <1>5 DEF Elevate
<1>6. CASE Prepare(f)
  BY <1>6 DEF Prepare, SendStart, Show
<1>7. CASE Start(f)
  BY <1>7 DEF Start
<1>8. CASE Topology(f)
  BY <1>8 DEF Topology
<1>9. CASE Select(f)
  BY <1>9 DEF Select
<1> QED
  BY <1>1, <1>2, <1>3, <1>4, <1>5, <1>6, <1>7, <1>8, <1>9

LEMMA EndingPapers ==
    ASSUME Typed, QueueInv, NEW f \in Flow,
           Proxy(f) \/ Arm(f) \/ Final(f) \/ Live(f) \/ Lift(f) \/ Undo(f)
    PROVE  Papers'
<1> USE Names, OwnIsOperation DEF Typed, Papers, QueueInv, Operation, Kind, Request,
   NoRequest, NoOp, Charge, Discharge, Locals, Local, Go, GoWith, Return, CallShutDown,
   screen, queue, aside, intent, session, backend, reconnect
<1>1. CASE Proxy(f)
  BY <1>1 DEF Proxy
<1>2. CASE Arm(f)
  BY <1>2 DEF Arm
<1>3. CASE Final(f)
  BY <1>3 DEF Final
<1>4. CASE Live(f)
  BY <1>4 DEF Live
<1>5. CASE Lift(f)
  BY <1>5 DEF Lift
<1>6. CASE Undo(f)
  BY <1>6 DEF Undo, StopAnswers
<1> QED
  BY <1>1, <1>2, <1>3, <1>4, <1>5, <1>6

LEMMA ClicksPapers ==
    ASSUME Typed, QueueInv, NEW f \in Click,
           ClickFirst(f) \/ ClickAgain(f) \/ Toggle(f) \/ ClickStopped(f) \/
              ClickWaited(f) \/ Snapshot(f) \/ Resnapshot(f) \/ Release(f) \/
              ClickReturned(f)
    PROVE  Papers'
<1> USE Names, OwnIsOperation DEF Typed, Papers, QueueInv, Operation, Kind, Request,
   NoRequest, NoOp, Charge, Discharge, Locals, Local, Go, GoWith, Return, CallShutDown,
   screen, queue, aside, intent, session, backend, reconnect
<1>1. CASE ClickFirst(f)
  BY <1>1 DEF ClickFirst
<1>2. CASE ClickAgain(f)
  BY <1>2 DEF ClickAgain, Disconnect
<1>3. CASE Toggle(f)
  BY <1>3 DEF Toggle, Disconnect
<1>4. CASE ClickStopped(f)
  BY <1>4 DEF ClickStopped, Finalize, SetState, Show
<1>5. CASE ClickWaited(f)
  BY <1>5 DEF ClickWaited
<1>6. CASE Snapshot(f)
  BY <1>6 DEF Snapshot, SetState, Show
<1>7. CASE Resnapshot(f)
  BY <1>7 DEF Resnapshot, SetState, Show
<1>8. CASE Release(f)
  BY <1>8 DEF Release, Finalize, SetState, Show
<1>9. CASE ClickReturned(f)
  BY <1>9 DEF ClickReturned
<1> QED
  BY <1>1, <1>2, <1>3, <1>4, <1>5, <1>6, <1>7, <1>8, <1>9

LEMMA AutomationPapers ==
    ASSUME Typed, QueueInv, NEW f \in Automation,
           Begin(f) \/ Begun(f) \/ WatchdogStopped(f) \/ AutoReturned(f) \/ Completed(f)
    PROVE  Papers'
<1> USE Names, OwnIsOperation DEF Typed, Papers, QueueInv, Operation, Kind, Request,
   NoRequest, NoOp, Charge, Discharge, Locals, Local, Go, GoWith, Return, CallShutDown,
   screen, queue, aside, intent, session, backend, reconnect
<1>1. CASE Begin(f)
  BY <1>1 DEF Begin
<1>2. CASE Begun(f)
  <2>1. UNCHANGED queue /\ (owner' = Own(f) \/ UNCHANGED owner)
    BY <1>2 DEF Begun
  <2> QED
    BY <2>1
<1>3. CASE WatchdogStopped(f)
  BY <1>3 DEF WatchdogStopped
<1>4. CASE AutoReturned(f)
  BY <1>4 DEF AutoReturned
<1>5. CASE Completed(f)
  BY <1>5 DEF Completed
<1> QED
  BY <1>1, <1>2, <1>3, <1>4, <1>5

LEMMA RunPapers ==
    ASSUME Typed, QueueInv,
           Run \/ RunBegins \/ Dispatch \/ PassGate \/ RunStopped \/ RunWaited \/
              RunReturned \/ RunCompleted
    PROVE  Papers'
<1> USE Names, OwnIsOperation DEF Typed, Papers, QueueInv, Operation, Kind, Request,
   NoRequest, NoOp, Charge, Discharge, Locals, Local, Go, GoWith, Return, CallShutDown,
   screen, queue, aside, intent, session, backend, reconnect
<1>1. CASE Run
  BY <1>1 DEF Run
<1>2. CASE RunBegins
  BY <1>2 DEF RunBegins, RetryIf
<1>3. CASE Dispatch
  BY <1>3 DEF Dispatch
<1>4. CASE PassGate
  BY <1>4 DEF PassGate
<1>5. CASE RunStopped
  BY <1>5 DEF RunStopped, RetryIf
<1>6. CASE RunWaited
  BY <1>6 DEF RunWaited
<1>7. CASE RunReturned
  BY <1>7 DEF RunReturned, RunEnds
<1>8. CASE RunCompleted
  BY <1>8 DEF RunCompleted, RunEnds
<1> QED
  BY <1>1, <1>2, <1>3, <1>4, <1>5, <1>6, <1>7, <1>8

LEMMA EventsPapers ==
    ASSUME Typed, QueueInv,
           TimerFires \/ ModeChange \/ Edit \/ CoreDies
    PROVE  Papers'
<1> USE Names, OwnIsOperation DEF Typed, Papers, QueueInv, Operation, Kind, Request,
   NoRequest, NoOp, Charge, Discharge, Locals, Local, Go, GoWith, Return, CallShutDown,
   screen, queue, aside, intent, session, backend, reconnect
<1>1. CASE TimerFires
  BY <1>1 DEF TimerFires, Enqueue, Queued
<1>2. CASE ModeChange
  BY <1>2 DEF ModeChange, SourceReconnect, Enqueue, Queued
<1>3. CASE Edit
  BY <1>3 DEF Edit
<1>4. CASE CoreDies
  BY <1>4 DEF CoreDies
<1> QED
  BY <1>1, <1>2, <1>3, <1>4

LEMMA SegmentsLocals ==
    ASSUME Typed, NEW f \in Flow,
           Connect(f) \/ Attempt(f) \/ Down(f) \/ Retreat(f) \/ Caught(f) \/
              ConnectStopped(f) \/ Reconnect(f)
    PROVE  Locals'
<1> USE Names, NetworkFlowAssumption DEF Typed, Marks
<1>1. CASE Connect(f)
  BY <1>1, GoTyped DEF Connect, Return
<1>2. CASE Attempt(f)
  BY <1>2, GoTyped DEF Attempt
<1>3. CASE Down(f)
  BY <1>3, GoTyped, SendStopTyped DEF Down, StopCore
<1>4. CASE Retreat(f)
  BY <1>4, SendStopTyped DEF Retreat
<1>5. CASE Caught(f)
  BY <1>5, GoTyped DEF Caught, Return, Rets
<1>6. CASE ConnectStopped(f)
  BY <1>6, GoTyped DEF ConnectStopped, Return
<1>7. CASE Reconnect(f)
  BY <1>7, GoTyped DEF Reconnect, SourceReconnect, Enqueue, Locals
<1> QED
  BY <1>1, <1>2, <1>3, <1>4, <1>5, <1>6, <1>7

LEMMA StartingLocals ==
    ASSUME Typed, NEW f \in Flow,
           Guard(f) \/ Stop(f) \/ Observe(f) \/ Adopt(f) \/ Elevate(f) \/ Prepare(f) \/
              Start(f) \/ Topology(f) \/ Select(f)
    PROVE  Locals'
<1> USE Names, NetworkFlowAssumption DEF Typed, Marks
<1>1. CASE Guard(f)
  BY <1>1, GoTyped, SendStopTyped DEF Guard, StopCore
<1>2. CASE Stop(f)
  BY <1>2, GoTyped DEF Stop, Return
<1>3. CASE Observe(f)
  BY <1>3, GoTyped DEF Observe, Return
<1>4. CASE Adopt(f)
  BY <1>4, GoTyped DEF Adopt, Return, Rets
<1>5. CASE Elevate(f)
  BY <1>5, GoTyped DEF Elevate, Return
<1>6. CASE Prepare(f)
  <2>1. [at[f] EXCEPT !.ok = /\ Accepts(at[f].tok, "UserConnect") /\ ~StartUnderWay
                               /\ ~StopUnderWay /\ runtime = NoFlow] \in Local
    BY LocalFields DEF Locals
  <2> QED
    BY <1>6, <2>1, GoTyped DEF Prepare, SendStart, Return
<1>7. CASE Start(f)
  BY <1>7, GoTyped DEF Start, Return
<1>8. CASE Topology(f)
  BY <1>8, GoTyped DEF Topology, Return
<1>9. CASE Select(f)
  BY <1>9, GoTyped DEF Select, Return, Rets
<1> QED
  BY <1>1, <1>2, <1>3, <1>4, <1>5, <1>6, <1>7, <1>8, <1>9

LEMMA EndingLocals ==
    ASSUME Typed, NEW f \in Flow,
           Proxy(f) \/ Arm(f) \/ Final(f) \/ Live(f) \/ Lift(f) \/ Undo(f)
    PROVE  Locals'
<1> USE Names, NetworkFlowAssumption DEF Typed, Marks
<1>1. CASE Proxy(f)
  BY <1>1, GoTyped DEF Proxy, Return, Rets
<1>2. CASE Arm(f)
  BY <1>2, GoTyped DEF Arm, Return
<1>3. CASE Final(f)
  BY <1>3, GoTyped DEF Final, Return
<1>4. CASE Live(f)
  BY <1>4, GoTyped DEF Live, Return
<1>5. CASE Lift(f)
  BY <1>5, GoTyped DEF Lift, Return
<1>6. CASE Undo(f)
  BY <1>6, GoTyped DEF Undo, Return
<1> QED
  BY <1>1, <1>2, <1>3, <1>4, <1>5, <1>6

LEMMA ClicksLocals ==
    ASSUME Typed, NEW f \in Click,
           ClickFirst(f) \/ ClickAgain(f) \/ Toggle(f) \/ ClickStopped(f) \/
              ClickWaited(f) \/ Snapshot(f) \/ Resnapshot(f) \/ Release(f) \/
              ClickReturned(f)
    PROVE  Locals'
<1> USE Names, NetworkFlowAssumption DEF Typed, Marks
<1>1. CASE ClickFirst(f)
  BY <1>1, GoTyped DEF ClickFirst
<1>2. CASE ClickAgain(f)
  BY <1>2, DisconnectTyped DEF ClickAgain
<1>3. CASE Toggle(f)
  BY <1>3, DisconnectTyped, GoTyped DEF Toggle, Return
<1>4. CASE ClickStopped(f)
  <2>1. [at[f] EXCEPT !.await = barrier] \in Local
    BY LocalFields DEF Named, Locals
  <2> QED
    BY <1>4, <2>1, GoTyped DEF ClickStopped, Finalize, Return
<1>5. CASE ClickWaited(f)
  BY <1>5, GoTyped DEF ClickWaited, Return, Rets
<1>6. CASE Snapshot(f)
  BY <1>6, GoTyped DEF Snapshot, Return, Rets
<1>7. CASE Resnapshot(f)
  BY <1>7, GoTyped DEF Resnapshot, Return
<1>8. CASE Release(f)
  BY <1>8, GoTyped DEF Release, Return, Finalize
<1>9. CASE ClickReturned(f)
  BY <1>9, GoTyped, NoLocalIsLocal DEF ClickReturned
<1> QED
  BY <1>1, <1>2, <1>3, <1>4, <1>5, <1>6, <1>7, <1>8, <1>9

LEMMA AutomationLocals ==
    ASSUME Typed, NEW f \in Automation,
           Begin(f) \/ Begun(f) \/ WatchdogStopped(f) \/ AutoReturned(f) \/ Completed(f)
    PROVE  Locals'
<1> USE Names, NetworkFlowAssumption DEF Typed, Marks
<1>1. CASE Begin(f)
  BY <1>1, GoTyped DEF Begin
<1>2. CASE Begun(f)
  <2>1. at[f] \in Local /\ latched \in BOOLEAN /\ Own(f) \in Operation
    BY OwnIsOperation DEF Locals
  <2>2. [at[f] EXCEPT !.tok = Own(f)] \in Local
    BY <2>1, LocalFields
  <2>3. [[at[f] EXCEPT !.tok = Own(f)] EXCEPT !.ret = "dead", !.keep = latched] \in Local
    BY <2>1, <2>2, LocalFields DEF Rets
  <2>4. NoLocal \in Local
    BY NoLocalIsLocal
  <2>5. \E to, l : l \in Local /\ GoWith(f, to, l)
    BY <1>2, <2>2, <2>3, <2>4, NetworkFlowAssumption DEF Begun
  <2> QED
    BY <2>5, GoTyped
<1>3. CASE WatchdogStopped(f)
  BY <1>3, GoTyped DEF WatchdogStopped, Return
<1>4. CASE AutoReturned(f)
  BY <1>4, GoTyped DEF AutoReturned, Return
<1>5. CASE Completed(f)
  BY <1>5, GoTyped, NoLocalIsLocal DEF Completed
<1> QED
  BY <1>1, <1>2, <1>3, <1>4, <1>5

LEMMA RunLocals ==
    ASSUME Typed,
           Run \/ RunBegins \/ Dispatch \/ PassGate \/ RunStopped \/ RunWaited \/
              RunReturned \/ RunCompleted
    PROVE  Locals'
<1> USE Names, NetworkFlowAssumption DEF Typed, Marks
<1>1. CASE Run
  <2>1. latched \in BOOLEAN /\ serving.tok \in Operation \cup {NoOp}
    BY DEF Papers, Request, NoRequest
  <2>2. [NoLocal EXCEPT !.tok = serving.tok, !.keep = latched] \in Local
    BY <2>1 DEF NoLocal, Local
  <2> QED
    BY <1>1, <2>2, GoTyped DEF Run, Return
<1>2. CASE RunBegins
  <2>1. [at[Runner] EXCEPT !.tok = Own(Runner)] \in Local
    BY LocalFields, OwnIsOperation DEF Locals
  <2> QED
    BY <1>2, <2>1, GoTyped DEF RunBegins, Return
<1>3. CASE Dispatch
  <2>1. [at[Runner] EXCEPT !.ret = "old", !.late = barrier # NoFlow] \in Local
    BY LocalFields DEF Locals, Rets
  <2> QED
    BY <1>3, <2>1, GoTyped DEF Dispatch, Return
<1>4. CASE PassGate
  BY <1>4, GoTyped DEF PassGate, Return
<1>5. CASE RunStopped
  <2>1. [at[Runner] EXCEPT !.await = barrier] \in Local
    BY LocalFields DEF Named, Locals
  <2> QED
    BY <1>5, <2>1, GoTyped DEF RunStopped, Return
<1>6. CASE RunWaited
  <2>1. at[Runner].keep \in BOOLEAN
    BY LocalFields DEF Locals
  <2> QED
    BY <1>6, <2>1, GoTyped DEF RunWaited, Return, Rets
<1>7. CASE RunReturned
  BY <1>7, NoLocalIsLocal, GoTyped DEF RunReturned, RunEnds, Locals
<1>8. CASE RunCompleted
  BY <1>8, NoLocalIsLocal DEF RunCompleted, RunEnds, Locals
<1> QED
  BY <1>1, <1>2, <1>3, <1>4, <1>5, <1>6, <1>7, <1>8

LEMMA EventsLocals ==
    ASSUME Typed,
           TimerFires \/ ModeChange \/ Edit \/ CoreDies
    PROVE  Locals'
<1> USE Names, NetworkFlowAssumption DEF Typed, Marks
<1>1. CASE TimerFires
  BY <1>1 DEF TimerFires, Enqueue, Locals
<1>2. CASE ModeChange
  BY <1>2 DEF ModeChange, SourceReconnect, Enqueue, Locals
<1>3. CASE Edit
  BY <1>3 DEF Edit, Locals
<1>4. CASE CoreDies
  BY <1>4 DEF CoreDies, Locals
<1> QED
  BY <1>1, <1>2, <1>3, <1>4

LEMMA NextTyped ==
    ASSUME Typed, QueueInv, [Next]_vars
    PROVE  Typed'
<1> USE Names DEF Typed
<1>1. CASE UNCHANGED vars
  BY <1>1 DEF vars, Marks, Named, Papers, Locals, Request, NoRequest
<1>2. ASSUME NEW f \in Flow, Synchronous(f) \/ Micro(f) \/ Answer(f) PROVE Typed'
  <2>1. Marks'
    BY <1>2, SegmentsMarks, StartingMarks, EndingMarks, ClicksMarks, AutomationMarks,
       RunMarks DEF Synchronous, Micro, Answer
  <2>2. Named'
    BY <1>2, SegmentsNamed, StartingNamed, EndingNamed, ClicksNamed, AutomationNamed,
       RunNamed DEF Synchronous, Micro, Answer
  <2>3. Papers'
    BY <1>2, SegmentsPapers, StartingPapers, EndingPapers, ClicksPapers, AutomationPapers,
       RunPapers DEF Synchronous, Micro, Answer
  <2>4. Locals'
    BY <1>2, SegmentsLocals, StartingLocals, EndingLocals, ClicksLocals, AutomationLocals,
       RunLocals DEF Synchronous, Micro, Answer
  <2> QED
    BY <2>1, <2>2, <2>3, <2>4
<1>3. CASE TimerFires \/ Event
  <2>1. Marks'
    BY <1>3, ClicksMarks, AutomationMarks, EventsMarks DEF Event
  <2>2. Named'
    BY <1>3, ClicksNamed, AutomationNamed, EventsNamed DEF Event
  <2>3. Papers'
    BY <1>3, ClicksPapers, AutomationPapers, EventsPapers DEF Event
  <2>4. Locals'
    BY <1>3, ClicksLocals, AutomationLocals, EventsLocals DEF Event
  <2> QED
    BY <2>1, <2>2, <2>3, <2>4
<1> QED
  BY <1>1, <1>2, <1>3 DEF Next, Rest

LEMMA InitTyped == Init => Typed
<1> SUFFICES ASSUME Init PROVE Typed
  OBVIOUS
<1>1. Marks
  BY NetworkFlowAssumption DEF Init, Marks
<1>2. Named
  BY Names DEF Init, Named, Screens, NoClick, Holder
<1>3. Papers /\ Locals
  BY DEF Init, Papers, Locals, Local, NoLocal
<1> QED
  BY <1>1, <1>2, <1>3 DEF Typed

\* The bound on events.
LEMMA EventsBounded ==
    ASSUME events \in 0 .. MaxEvents, [Next]_vars
    PROVE  events' \in 0 .. MaxEvents
BY NetworkFlowAssumption DEF Next, Event, Rest, vars

\* Every variable of the frontend's flows keeps its type, for any clicks, automatic
\* flows and number of events (main.js:1021-1023, :1169, :1890, :2776-2778).
THEOREM FlowsAreTyped == Spec => []TypeOK
<1>1. Init => events \in 0 .. MaxEvents
  BY NetworkFlowAssumption DEF Init
<1>2. QueueInv /\ Typed /\ events \in 0 .. MaxEvents /\ [Next]_vars
         => QueueInv' /\ Typed' /\ (events \in 0 .. MaxEvents)'
  BY NextQueue, NextTyped, EventsBounded DEF QueueSteps
<1>3. QueueInv /\ Typed /\ events \in 0 .. MaxEvents => TypeOK
  BY DEF QueueInv, Typed, Marks, Named, Papers, Locals, TypeOK, PC, Screens
<1> QED
  BY InitQueue, InitTyped, <1>1, <1>2, <1>3, PTL DEF Spec

-----------------------------------------------------------------------------
\* Nobody but f moves.
Alone(f) == \A g \in Flow \ {f} : pc'[g] = pc[g] /\ at'[g] = at[g]

\* f moves and its locals stay, or its locals are l, or it calls shutdownCore.
LEMMA GoMoves ==
    ASSUME QueueInv, Locals, NEW f \in Flow, NEW to
    PROVE  /\ Go(f, to) => Alone(f) /\ pc'[f] = to /\ at'[f] = at[f]
           /\ \A l : GoWith(f, to, l) => Alone(f) /\ pc'[f] = to /\ at'[f] = l
BY DEF QueueInv, Locals, Go, GoWith, Alone

LEMMA CallMoves ==
    ASSUME QueueInv, Locals, NEW f \in Flow, NEW ret, NEW keep, CallShutDown(f, ret, keep)
    PROVE  /\ Alone(f) /\ pc'[f] = "down" /\ at'[f].tok = at[f].tok
           /\ at'[f].ret = ret /\ at'[f].keep = keep
<1> DEFINE l == [at[f] EXCEPT !.ret = ret, !.keep = keep]
<1>1. l.tok = at[f].tok /\ l.ret = ret /\ l.keep = keep
  BY DEF Locals, Local
<1>2. GoWith(f, "down", l)
  BY DEF CallShutDown
<1> HIDE DEF l
<1> QED
  BY <1>1, <1>2, GoMoves

\* shutdownCore sends the stop.
LEMMA StopMoves ==
    ASSUME QueueInv, Locals, NEW f \in Flow, StopCore(f)
    PROVE  /\ Alone(f) /\ pc'[f] = "stop" /\ at'[f].tok = at[f].tok
           /\ at'[f].ret = at[f].ret /\ at'[f].keep = at[f].keep
<1> DEFINE tok == IF at[f].ret = "replaced" THEN NoOp ELSE at[f].tok
           l == [at[f] EXCEPT !.ok = Accepts(tok, "UserDisconnect")]
<1>1. l.tok = at[f].tok /\ l.ret = at[f].ret /\ l.keep = at[f].keep
  BY DEF Locals, Local
<1>2. GoWith(f, "stop", l)
  BY DEF StopCore, SendStop
<1> HIDE DEF l
<1> QED
  BY <1>1, <1>2, GoMoves

\* The attempt that calls shutdownCore.
LEMMA AttemptMoves ==
    ASSUME QueueInv, Locals, NEW f \in Flow, Caught(f) \/ Adopt(f) \/ Select(f) \/ Proxy(f)
    PROVE  Alone(f) /\ at'[f].tok = at[f].tok
BY GoMoves, CallMoves DEF Caught, Adopt, Select, Proxy, Return

\* The start of an automatic flow.
LEMMA BegunMoves ==
    ASSUME QueueInv, Locals, NEW f \in Automation, Begun(f)
    PROVE  /\ Alone(f) /\ pc[f] = "begin" /\ UNCHANGED <<runtime, doomed, serving, barrier>>
           /\ \/ owner' = Own(f) /\ pc'[f] \in {"down", "complete", "reconnect"}
              \/ UNCHANGED owner /\ pc'[f] = "idle"
<1> USE Names
<1>1. pc[f] = "begin" /\ UNCHANGED <<runtime, doomed, serving, barrier>>
  BY DEF Begun, queue
<1>2. CASE ~Grants(Own(f).kind)
  <2>1. GoWith(f, "idle", NoLocal) /\ UNCHANGED owner
    BY <1>2 DEF Begun
  <2> QED
    BY <1>1, <2>1, GoMoves
<1>3. CASE Grants(Own(f).kind)
  <2>1. owner' = Own(f) /\ \E l : \E to \in {"down", "complete", "reconnect"} : GoWith(f, to, l)
    BY <1>3, NetworkFlowAssumption DEF Begun
  <2> QED
    BY <1>1, <2>1, GoMoves
<1> QED
  BY <1>2, <1>3

\* The run.
LEMMA RunMoves ==
    ASSUME QueueInv, Locals,
           Dispatch \/ RunStopped \/ RunWaited \/ RunBegins \/ Run \/ PassGate
    PROVE  /\ Alone(Runner)
           /\ pc[Runner] \notin {"run", "begin"} =>
                 /\ at'[Runner].tok = at[Runner].tok
                 /\ pc'[Runner] \in {"returned", "wait", "connect", "down", "gate"}
<1> USE Names
<1>1. CASE Dispatch
  <2>1. [at[Runner] EXCEPT !.ret = "old", !.late = barrier # NoFlow].tok = at[Runner].tok
    BY DEF Locals, Local
  <2>2. \/ \E to \in {"gate", "returned", "connect"} : Go(Runner, to)
        \/ GoWith(Runner, "down", [at[Runner] EXCEPT !.ret = "old", !.late = barrier # NoFlow])
    BY <1>1 DEF Dispatch, Return
  <2> QED
    BY <2>1, <2>2, GoMoves
<1>2. CASE RunStopped
  <2>1. [at[Runner] EXCEPT !.await = barrier].tok = at[Runner].tok
    BY DEF Locals, Local
  <2> QED
    BY <1>2, <2>1, GoMoves DEF RunStopped, Return
<1>3. CASE RunWaited
  BY <1>3, GoMoves, CallMoves DEF RunWaited, Return
<1>4. CASE RunBegins
  BY <1>4, GoMoves DEF RunBegins, Return
<1>5. CASE Run
  BY <1>5, GoMoves DEF Run, Return
<1>6. CASE PassGate
  BY <1>6, GoMoves DEF PassGate, Return
<1> QED
  BY <1>1, <1>2, <1>3, <1>4, <1>5, <1>6

-----------------------------------------------------------------------------
(***************************************************************************)
(* Nothing is left over.  What is held is held by a flow on its way: the   *)
(* start barrier and the mark of a cancelled start by a start, the         *)
(* operation by the command that brought none, or by the flow whose own it *)
(* is, which completes it before it is idle.                               *)
(***************************************************************************)
BarrierIsAStart ==
    /\ barrier # NoFlow => pc[barrier] = "start"
    /\ pc[Runner] = "begin" => serving.tok = NoOp

DoomedIsAStart == doomed => StartUnderWay

OwnerIsOnItsWay ==
    owner # NoOp =>
       \/ /\ owner.kind = "UserConnect"
          /\ pc[owner.flow] = "start" /\ at[owner.flow].tok = NoOp
       \/ owner.kind = "UserDisconnect" /\ pc[owner.flow] \in {"stop", "undo"}
       \/ /\ owner.flow \in Automation /\ owner = Own(owner.flow)
          /\ pc[owner.flow] \notin {"idle", "begin"}
       \/ /\ owner = Own(Runner) /\ pc[Runner] \notin {"idle", "run", "begin"}
          /\ serving.tok = NoOp /\ at[Runner].tok # NoOp

HeldOnTheWay == BarrierIsAStart /\ DoomedIsAStart /\ OwnerIsOnItsWay

LEMMA SegmentsBarrier ==
    ASSUME Typed, QueueInv, HeldOnTheWay, NEW f \in Flow,
           Connect(f) \/ Attempt(f) \/ Down(f) \/ Retreat(f) \/ Caught(f) \/
              ConnectStopped(f) \/ Reconnect(f)
    PROVE  BarrierIsAStart'
<1> USE Names, NoRequestBy DEF Typed, Named, Locals, HeldOnTheWay, BarrierIsAStart,
   QueueInv, Go, GoWith, Return, CallShutDown, screen, queue, aside, intent, session,
   backend, reconnect
<1>1. CASE Connect(f)
  BY <1>1 DEF Connect
<1>2. CASE Attempt(f)
  BY <1>2 DEF Attempt
<1>3. CASE Down(f)
  BY <1>3 DEF Down, StopCore, SendStop
<1>4. CASE Retreat(f)
  BY <1>4 DEF Retreat, SendStop
<1>5. CASE Caught(f)
  BY <1>5 DEF Caught
<1>6. CASE ConnectStopped(f)
  BY <1>6 DEF ConnectStopped, SetState, Show
<1>7. CASE Reconnect(f)
  BY <1>7 DEF Reconnect, SourceReconnect, Enqueue, Queued
<1> QED
  BY <1>1, <1>2, <1>3, <1>4, <1>5, <1>6, <1>7

LEMMA StartingBarrier ==
    ASSUME Typed, QueueInv, HeldOnTheWay, NEW f \in Flow,
           Guard(f) \/ Stop(f) \/ Observe(f) \/ Adopt(f) \/ Elevate(f) \/ Prepare(f) \/
              Start(f) \/ Topology(f) \/ Select(f)
    PROVE  BarrierIsAStart'
<1> USE Names, NoRequestBy DEF Typed, Named, Locals, HeldOnTheWay, BarrierIsAStart,
   QueueInv, Go, GoWith, Return, CallShutDown, screen, queue, aside, intent, session,
   backend, reconnect
<1>1. CASE Guard(f)
  BY <1>1 DEF Guard, StopCore, SendStop
<1>2. CASE Stop(f)
  BY <1>2 DEF Stop, StopAnswers, SetState, Show
<1>3. CASE Observe(f)
  BY <1>3 DEF Observe, SetState, Show
<1>4. CASE Adopt(f)
  BY <1>4 DEF Adopt
<1>5. CASE Elevate(f)
  BY <1>5 DEF Elevate
<1>6. CASE Prepare(f)
  BY <1>6 DEF Prepare, SendStart, Show
<1>7. CASE Start(f)
  BY <1>7 DEF Start
<1>8. CASE Topology(f)
  BY <1>8 DEF Topology
<1>9. CASE Select(f)
  BY <1>9 DEF Select
<1> QED
  BY <1>1, <1>2, <1>3, <1>4, <1>5, <1>6, <1>7, <1>8, <1>9

LEMMA EndingBarrier ==
    ASSUME Typed, QueueInv, HeldOnTheWay, NEW f \in Flow,
           Proxy(f) \/ Arm(f) \/ Final(f) \/ Live(f) \/ Lift(f) \/ Undo(f)
    PROVE  BarrierIsAStart'
<1> USE Names, NoRequestBy DEF Typed, Named, Locals, HeldOnTheWay, BarrierIsAStart,
   QueueInv, Go, GoWith, Return, CallShutDown, screen, queue, aside, intent, session,
   backend, reconnect
<1>1. CASE Proxy(f)
  BY <1>1 DEF Proxy
<1>2. CASE Arm(f)
  BY <1>2 DEF Arm
<1>3. CASE Final(f)
  BY <1>3 DEF Final
<1>4. CASE Live(f)
  BY <1>4 DEF Live
<1>5. CASE Lift(f)
  BY <1>5 DEF Lift
<1>6. CASE Undo(f)
  BY <1>6 DEF Undo, StopAnswers
<1> QED
  BY <1>1, <1>2, <1>3, <1>4, <1>5, <1>6

LEMMA ClicksBarrier ==
    ASSUME Typed, QueueInv, HeldOnTheWay, NEW f \in Click,
           ClickFirst(f) \/ ClickAgain(f) \/ Toggle(f) \/ ClickStopped(f) \/
              ClickWaited(f) \/ Snapshot(f) \/ Resnapshot(f) \/ Release(f) \/
              ClickReturned(f)
    PROVE  BarrierIsAStart'
<1> USE Names, NoRequestBy DEF Typed, Named, Locals, HeldOnTheWay, BarrierIsAStart,
   QueueInv, Go, GoWith, Return, CallShutDown, screen, queue, aside, intent, session,
   backend, reconnect
<1>1. CASE ClickFirst(f)
  BY <1>1 DEF ClickFirst
<1>2. CASE ClickAgain(f)
  BY <1>2 DEF ClickAgain, Disconnect
<1>3. CASE Toggle(f)
  BY <1>3 DEF Toggle, Disconnect
<1>4. CASE ClickStopped(f)
  BY <1>4 DEF ClickStopped, Finalize, SetState, Show
<1>5. CASE ClickWaited(f)
  BY <1>5 DEF ClickWaited
<1>6. CASE Snapshot(f)
  BY <1>6 DEF Snapshot, SetState, Show
<1>7. CASE Resnapshot(f)
  BY <1>7 DEF Resnapshot, SetState, Show
<1>8. CASE Release(f)
  BY <1>8 DEF Release, Finalize, SetState, Show
<1>9. CASE ClickReturned(f)
  BY <1>9 DEF ClickReturned
<1> QED
  BY <1>1, <1>2, <1>3, <1>4, <1>5, <1>6, <1>7, <1>8, <1>9

LEMMA AutomationBarrier ==
    ASSUME Typed, QueueInv, HeldOnTheWay, NEW f \in Automation,
           Begin(f) \/ Begun(f) \/ WatchdogStopped(f) \/ AutoReturned(f) \/ Completed(f)
    PROVE  BarrierIsAStart'
<1> USE Names, NoRequestBy DEF Typed, Named, Locals, HeldOnTheWay, BarrierIsAStart,
   QueueInv, Go, GoWith, Return, CallShutDown, screen, queue, aside, intent, session,
   backend, reconnect
<1>1. CASE Begin(f)
  BY <1>1 DEF Begin
<1>2. CASE Begun(f)
  <2>1. /\ Alone(f) /\ pc[f] = "begin" /\ UNCHANGED <<serving, barrier>>
    BY <1>2, BegunMoves
  <2> QED
    BY <2>1, BegunMoves DEF Alone
<1>3. CASE WatchdogStopped(f)
  BY <1>3 DEF WatchdogStopped
<1>4. CASE AutoReturned(f)
  BY <1>4 DEF AutoReturned
<1>5. CASE Completed(f)
  BY <1>5 DEF Completed
<1> QED
  BY <1>1, <1>2, <1>3, <1>4, <1>5

LEMMA RunBarrier ==
    ASSUME Typed, QueueInv, HeldOnTheWay,
           Run \/ RunBegins \/ Dispatch \/ PassGate \/ RunStopped \/ RunWaited \/
              RunReturned \/ RunCompleted
    PROVE  BarrierIsAStart'
<1> USE Names, NoRequestBy DEF Typed, Named, Locals, HeldOnTheWay, BarrierIsAStart,
   QueueInv, Go, GoWith, Return, CallShutDown, screen, queue, aside, intent, session,
   backend, reconnect
<1>1. CASE Run
  BY <1>1 DEF Run
<1>2. CASE RunBegins
  BY <1>2 DEF RunBegins, RetryIf
<1>3. CASE Dispatch
  BY <1>3 DEF Dispatch
<1>4. CASE PassGate
  BY <1>4 DEF PassGate
<1>5. CASE RunStopped
  BY <1>5 DEF RunStopped, RetryIf
<1>6. CASE RunWaited
  BY <1>6 DEF RunWaited
<1>7. CASE RunReturned
  BY <1>7 DEF RunReturned, RunEnds
<1>8. CASE RunCompleted
  BY <1>8 DEF RunCompleted, RunEnds
<1> QED
  BY <1>1, <1>2, <1>3, <1>4, <1>5, <1>6, <1>7, <1>8

LEMMA EventsBarrier ==
    ASSUME Typed, QueueInv, HeldOnTheWay,
           TimerFires \/ ModeChange \/ Edit \/ CoreDies
    PROVE  BarrierIsAStart'
<1> USE Names, NoRequestBy DEF Typed, Named, Locals, HeldOnTheWay, BarrierIsAStart,
   QueueInv, Go, GoWith, Return, CallShutDown, screen, queue, aside, intent, session,
   backend, reconnect
<1>1. CASE TimerFires
  BY <1>1 DEF TimerFires, Enqueue, Queued
<1>2. CASE ModeChange
  BY <1>2 DEF ModeChange, SourceReconnect, Enqueue, Queued
<1>3. CASE Edit
  BY <1>3 DEF Edit
<1>4. CASE CoreDies
  BY <1>4 DEF CoreDies
<1> QED
  BY <1>1, <1>2, <1>3, <1>4

LEMMA SegmentsDoomed ==
    ASSUME Typed, QueueInv, HeldOnTheWay, NEW f \in Flow,
           Connect(f) \/ Attempt(f) \/ Down(f) \/ Retreat(f) \/ Caught(f) \/
              ConnectStopped(f) \/ Reconnect(f)
    PROVE  DoomedIsAStart'
<1> USE Names, NoRequestBy DEF Typed, Named, Locals, Marks, HeldOnTheWay,
   DoomedIsAStart, StartUnderWay, QueueInv, Go, GoWith, Return, CallShutDown, screen,
   queue, aside, intent, session, backend, reconnect
<1>1. CASE Connect(f)
  BY <1>1 DEF Connect
<1>2. CASE Attempt(f)
  BY <1>2 DEF Attempt
<1>3. CASE Down(f)
  <2>1. CASE StopCore(f)
    <3>1. pc[f] # "start"
      BY <1>3 DEF Down
    <3>2. StartUnderWay => StartUnderWay'
      BY <2>1, <3>1 DEF StopCore, SendStop
    <3>3. doomed' => doomed \/ StartUnderWay
      BY <2>1 DEF StopCore, SendStop
    <3> QED
      BY <3>2, <3>3
  <2>2. CASE ~StopCore(f)
    <3>1. UNCHANGED doomed /\ \E to : pc[f] # "start" /\ Go(f, to)
      BY <1>3, <2>2 DEF Down
    <3> QED
      BY <3>1
  <2> QED
    BY <2>1, <2>2
<1>4. CASE Retreat(f)
  BY <1>4 DEF Retreat, SendStop
<1>5. CASE Caught(f)
  BY <1>5 DEF Caught
<1>6. CASE ConnectStopped(f)
  BY <1>6 DEF ConnectStopped, SetState, Show
<1>7. CASE Reconnect(f)
  <2>1. UNCHANGED doomed /\ \A g \in Flow : pc[g] = "start" => pc'[g] = "start" /\ at'[g] = at[g]
    BY <1>7 DEF Reconnect, SourceReconnect, Enqueue
  <2> QED
    BY <2>1
<1> QED
  BY <1>1, <1>2, <1>3, <1>4, <1>5, <1>6, <1>7

LEMMA StartingDoomed ==
    ASSUME Typed, QueueInv, HeldOnTheWay, NEW f \in Flow,
           Guard(f) \/ Stop(f) \/ Observe(f) \/ Adopt(f) \/ Elevate(f) \/ Prepare(f) \/
              Start(f) \/ Topology(f) \/ Select(f)
    PROVE  DoomedIsAStart'
<1> USE Names, NoRequestBy DEF Typed, Named, Locals, Marks, HeldOnTheWay,
   DoomedIsAStart, StartUnderWay, QueueInv, Go, GoWith, Return, CallShutDown, screen,
   queue, aside, intent, session, backend, reconnect
<1>1. CASE Guard(f)
  <2>1. CASE StopCore(f)
    <3>1. pc[f] # "start"
      BY <1>1 DEF Guard
    <3>2. StartUnderWay => StartUnderWay'
      BY <2>1, <3>1 DEF StopCore, SendStop
    <3>3. doomed' => doomed \/ StartUnderWay
      BY <2>1 DEF StopCore, SendStop
    <3> QED
      BY <3>2, <3>3
  <2>2. CASE ~StopCore(f)
    <3>1. UNCHANGED doomed /\ \E to : pc[f] # "start" /\ Go(f, to)
      BY <1>1, <2>2 DEF Guard
    <3> QED
      BY <3>1
  <2> QED
    BY <2>1, <2>2
<1>2. CASE Stop(f)
  BY <1>2 DEF Stop, StopAnswers, SetState, Show
<1>3. CASE Observe(f)
  BY <1>3 DEF Observe, SetState, Show
<1>4. CASE Adopt(f)
  BY <1>4 DEF Adopt
<1>5. CASE Elevate(f)
  BY <1>5 DEF Elevate
<1>6. CASE Prepare(f)
  <2>1. CASE SendStart(f)
    <3>1. pc[f] # "start"
      BY <1>6 DEF Prepare
    <3>2. \A g \in Flow \ {f} : pc'[g] = pc[g] /\ at'[g] = at[g]
      BY <2>1 DEF SendStart
    <3>3. pc'[f] = "start" /\ (doomed' => doomed)
      BY <2>1 DEF SendStart
    <3> QED
      BY <3>1, <3>2, <3>3
  <2>2. CASE ~SendStart(f)
    <3>1. UNCHANGED doomed /\ \E to : pc[f] # "start" /\ Go(f, to)
      BY <1>6, <2>2 DEF Prepare
    <3> QED
      BY <3>1
  <2> QED
    BY <2>1, <2>2
<1>7. CASE Start(f)
  BY <1>7 DEF Start
<1>8. CASE Topology(f)
  BY <1>8 DEF Topology
<1>9. CASE Select(f)
  BY <1>9 DEF Select
<1> QED
  BY <1>1, <1>2, <1>3, <1>4, <1>5, <1>6, <1>7, <1>8, <1>9

LEMMA EndingDoomed ==
    ASSUME Typed, QueueInv, HeldOnTheWay, NEW f \in Flow,
           Proxy(f) \/ Arm(f) \/ Final(f) \/ Live(f) \/ Lift(f) \/ Undo(f)
    PROVE  DoomedIsAStart'
<1> USE Names, NoRequestBy DEF Typed, Named, Locals, Marks, HeldOnTheWay,
   DoomedIsAStart, StartUnderWay, QueueInv, Go, GoWith, Return, CallShutDown, screen,
   queue, aside, intent, session, backend, reconnect
<1>1. CASE Proxy(f)
  BY <1>1 DEF Proxy
<1>2. CASE Arm(f)
  BY <1>2 DEF Arm
<1>3. CASE Final(f)
  BY <1>3 DEF Final
<1>4. CASE Live(f)
  BY <1>4 DEF Live
<1>5. CASE Lift(f)
  BY <1>5 DEF Lift
<1>6. CASE Undo(f)
  BY <1>6 DEF Undo, StopAnswers
<1> QED
  BY <1>1, <1>2, <1>3, <1>4, <1>5, <1>6

LEMMA ClicksDoomed ==
    ASSUME Typed, QueueInv, HeldOnTheWay, NEW f \in Click,
           ClickFirst(f) \/ ClickAgain(f) \/ Toggle(f) \/ ClickStopped(f) \/
              ClickWaited(f) \/ Snapshot(f) \/ Resnapshot(f) \/ Release(f) \/
              ClickReturned(f)
    PROVE  DoomedIsAStart'
<1> USE Names, NoRequestBy DEF Typed, Named, Locals, Marks, HeldOnTheWay,
   DoomedIsAStart, StartUnderWay, QueueInv, Go, GoWith, Return, CallShutDown, screen,
   queue, aside, intent, session, backend, reconnect
<1>1. CASE ClickFirst(f)
  BY <1>1 DEF ClickFirst
<1>2. CASE ClickAgain(f)
  BY <1>2 DEF ClickAgain, Disconnect
<1>3. CASE Toggle(f)
  <2>1. UNCHANGED doomed /\ \A g \in Flow : pc[g] = "start" => pc'[g] = "start" /\ at'[g] = at[g]
    BY <1>3 DEF Toggle, Disconnect
  <2> QED
    BY <2>1
<1>4. CASE ClickStopped(f)
  BY <1>4 DEF ClickStopped, Finalize, SetState, Show
<1>5. CASE ClickWaited(f)
  BY <1>5 DEF ClickWaited
<1>6. CASE Snapshot(f)
  BY <1>6 DEF Snapshot, SetState, Show
<1>7. CASE Resnapshot(f)
  BY <1>7 DEF Resnapshot, SetState, Show
<1>8. CASE Release(f)
  BY <1>8 DEF Release, Finalize, SetState, Show
<1>9. CASE ClickReturned(f)
  BY <1>9 DEF ClickReturned
<1> QED
  BY <1>1, <1>2, <1>3, <1>4, <1>5, <1>6, <1>7, <1>8, <1>9

LEMMA AutomationDoomed ==
    ASSUME Typed, QueueInv, HeldOnTheWay, NEW f \in Automation,
           Begin(f) \/ Begun(f) \/ WatchdogStopped(f) \/ AutoReturned(f) \/ Completed(f)
    PROVE  DoomedIsAStart'
<1> USE Names, NoRequestBy DEF Typed, Named, Locals, Marks, HeldOnTheWay,
   DoomedIsAStart, StartUnderWay, QueueInv, Go, GoWith, Return, CallShutDown, screen,
   queue, aside, intent, session, backend, reconnect
<1>1. CASE Begin(f)
  BY <1>1 DEF Begin
<1>2. CASE Begun(f)
  <2>1. Alone(f) /\ pc[f] = "begin" /\ UNCHANGED doomed
    BY <1>2, BegunMoves
  <2> QED
    BY <2>1 DEF Alone
<1>3. CASE WatchdogStopped(f)
  BY <1>3 DEF WatchdogStopped
<1>4. CASE AutoReturned(f)
  BY <1>4 DEF AutoReturned
<1>5. CASE Completed(f)
  BY <1>5 DEF Completed
<1> QED
  BY <1>1, <1>2, <1>3, <1>4, <1>5

LEMMA RunDoomed ==
    ASSUME Typed, QueueInv, HeldOnTheWay,
           Run \/ RunBegins \/ Dispatch \/ PassGate \/ RunStopped \/ RunWaited \/
              RunReturned \/ RunCompleted
    PROVE  DoomedIsAStart'
<1> USE Names, NoRequestBy DEF Typed, Named, Locals, Marks, HeldOnTheWay,
   DoomedIsAStart, StartUnderWay, QueueInv, Go, GoWith, Return, CallShutDown, screen,
   queue, aside, intent, session, backend, reconnect
<1>1. CASE Run
  BY <1>1 DEF Run
<1>2. CASE RunBegins
  BY <1>2 DEF RunBegins, RetryIf
<1>3. CASE Dispatch
  BY <1>3 DEF Dispatch
<1>4. CASE PassGate
  BY <1>4 DEF PassGate
<1>5. CASE RunStopped
  BY <1>5 DEF RunStopped, RetryIf
<1>6. CASE RunWaited
  BY <1>6 DEF RunWaited
<1>7. CASE RunReturned
  BY <1>7 DEF RunReturned, RunEnds
<1>8. CASE RunCompleted
  BY <1>8 DEF RunCompleted, RunEnds
<1> QED
  BY <1>1, <1>2, <1>3, <1>4, <1>5, <1>6, <1>7, <1>8

LEMMA EventsDoomed ==
    ASSUME Typed, QueueInv, HeldOnTheWay,
           TimerFires \/ ModeChange \/ Edit \/ CoreDies
    PROVE  DoomedIsAStart'
<1> USE Names, NoRequestBy DEF Typed, Named, Locals, Marks, HeldOnTheWay,
   DoomedIsAStart, StartUnderWay, QueueInv, Go, GoWith, Return, CallShutDown, screen,
   queue, aside, intent, session, backend, reconnect
<1>1. CASE TimerFires
  BY <1>1 DEF TimerFires, Enqueue, Queued
<1>2. CASE ModeChange
  BY <1>2 DEF ModeChange, SourceReconnect, Enqueue, Queued
<1>3. CASE Edit
  BY <1>3 DEF Edit
<1>4. CASE CoreDies
  BY <1>4 DEF CoreDies
<1> QED
  BY <1>1, <1>2, <1>3, <1>4

LEMMA SegmentsOwner ==
    ASSUME Typed, QueueInv, HeldOnTheWay, NEW f \in Flow,
           Connect(f) \/ Attempt(f) \/ Down(f) \/ Retreat(f) \/ Caught(f) \/
              ConnectStopped(f) \/ Reconnect(f)
    PROVE  OwnerIsOnItsWay'
<1> USE Names, NoRequestBy, OwnIsOperation DEF Typed, Named, Locals, Papers,
   HeldOnTheWay, OwnerIsOnItsWay, BarrierIsAStart, QueueInv, Charge, Discharge,
   Operation, NoOp, Go, GoWith, Return, CallShutDown, screen, queue, aside, intent,
   session, backend, reconnect
<1>1. CASE Connect(f)
  BY <1>1 DEF Connect
<1>2. CASE Attempt(f)
  BY <1>2 DEF Attempt
<1>3. CASE Down(f)
  <2>1. CASE StopCore(f)
    <3>1. /\ pc'[f] = "stop" /\ at'[f].tok = at[f].tok /\ UNCHANGED serving
          /\ \A g \in Flow \ {f} : pc'[g] = pc[g] /\ at'[g] = at[g]
      BY <1>3, <2>1 DEF Down, StopCore, SendStop
    <3>2. owner' \in {owner, [flow |-> f, kind |-> "UserDisconnect"]}
      BY <2>1 DEF StopCore, SendStop
    <3>3. pc[f] \in {"down", "guard"}
      BY <1>3 DEF Down
    <3> QED
      BY <3>1, <3>2, <3>3
  <2>2. CASE ~StopCore(f)
    BY <1>3, <2>2 DEF Down
  <2> QED
    BY <2>1, <2>2
<1>4. CASE Retreat(f)
  BY <1>4 DEF Retreat, SendStop
<1>5. CASE Caught(f)
  <2>1. Alone(f) /\ at'[f].tok = at[f].tok
    BY <1>5, AttemptMoves
  <2>2. pc[f] = "caught" /\ pc'[f] \in {"down", "retreat"} /\ UNCHANGED <<owner, serving>>
    BY <1>5 DEF Caught
  <2> QED
    BY <2>1, <2>2 DEF Alone
<1>6. CASE ConnectStopped(f)
  BY <1>6 DEF ConnectStopped, SetState, Show
<1>7. CASE Reconnect(f)
  BY <1>7 DEF Reconnect, SourceReconnect, Enqueue, Queued
<1> QED
  BY <1>1, <1>2, <1>3, <1>4, <1>5, <1>6, <1>7

LEMMA StartingOwner ==
    ASSUME Typed, QueueInv, HeldOnTheWay, NEW f \in Flow,
           Guard(f) \/ Stop(f) \/ Observe(f) \/ Adopt(f) \/ Elevate(f) \/ Prepare(f) \/
              Start(f) \/ Topology(f) \/ Select(f)
    PROVE  OwnerIsOnItsWay'
<1> USE Names, NoRequestBy, OwnIsOperation DEF Typed, Named, Locals, Papers,
   HeldOnTheWay, OwnerIsOnItsWay, BarrierIsAStart, QueueInv, Charge, Discharge,
   Operation, NoOp, Go, GoWith, Return, CallShutDown, screen, queue, aside, intent,
   session, backend, reconnect
<1>1. CASE Guard(f)
  <2>1. CASE StopCore(f)
    <3>1. /\ pc'[f] = "stop" /\ at'[f].tok = at[f].tok /\ UNCHANGED serving
          /\ \A g \in Flow \ {f} : pc'[g] = pc[g] /\ at'[g] = at[g]
      BY <1>1, <2>1 DEF Guard, StopCore, SendStop
    <3>2. owner' \in {owner, [flow |-> f, kind |-> "UserDisconnect"]}
      BY <2>1 DEF StopCore, SendStop
    <3>3. pc[f] \in {"down", "guard"}
      BY <1>1 DEF Guard
    <3> QED
      BY <3>1, <3>2, <3>3
  <2>2. CASE ~StopCore(f)
    BY <1>1, <2>2 DEF Guard
  <2> QED
    BY <2>1, <2>2
<1>2. CASE Stop(f)
  BY <1>2 DEF Stop, StopAnswers, SetState, Show
<1>3. CASE Observe(f)
  BY <1>3 DEF Observe, SetState, Show
<1>4. CASE Adopt(f)
  <2>1. Alone(f) /\ at'[f].tok = at[f].tok
    BY <1>4, AttemptMoves
  <2>2. pc[f] = "adopt" /\ pc'[f] \in {"down", "returned"} /\ UNCHANGED <<owner, serving>>
    BY <1>4 DEF Adopt
  <2> QED
    BY <2>1, <2>2 DEF Alone
<1>5. CASE Elevate(f)
  BY <1>5 DEF Elevate
<1>6. CASE Prepare(f)
  <2>1. CASE SendStart(f)
    <3>1. /\ pc'[f] = "start" /\ at'[f].tok = at[f].tok /\ UNCHANGED serving
          /\ \A g \in Flow \ {f} : pc'[g] = pc[g] /\ at'[g] = at[g]
      BY <1>6, <2>1 DEF Prepare, SendStart
    <3>2. owner' = owner \/ (at[f].tok = NoOp /\ owner' = [flow |-> f, kind |-> "UserConnect"])
      BY <2>1 DEF SendStart
    <3>3. pc[f] = "prepare"
      BY <1>6 DEF Prepare
    <3> QED
      BY <3>1, <3>2, <3>3
  <2>2. CASE ~SendStart(f)
    BY <1>6, <2>2 DEF Prepare, Show
  <2> QED
    BY <2>1, <2>2
<1>7. CASE Start(f)
  BY <1>7 DEF Start
<1>8. CASE Topology(f)
  BY <1>8 DEF Topology
<1>9. CASE Select(f)
  <2>1. Alone(f) /\ at'[f].tok = at[f].tok
    BY <1>9, AttemptMoves
  <2>2. pc[f] = "select" /\ pc'[f] \in {"proxy", "arm", "caught", "down"} /\ UNCHANGED <<owner, serving>>
    BY <1>9 DEF Select
  <2> QED
    BY <2>1, <2>2 DEF Alone
<1> QED
  BY <1>1, <1>2, <1>3, <1>4, <1>5, <1>6, <1>7, <1>8, <1>9

LEMMA EndingOwner ==
    ASSUME Typed, QueueInv, HeldOnTheWay, NEW f \in Flow,
           Proxy(f) \/ Arm(f) \/ Final(f) \/ Live(f) \/ Lift(f) \/ Undo(f)
    PROVE  OwnerIsOnItsWay'
<1> USE Names, NoRequestBy, OwnIsOperation DEF Typed, Named, Locals, Papers,
   HeldOnTheWay, OwnerIsOnItsWay, BarrierIsAStart, QueueInv, Charge, Discharge,
   Operation, NoOp, Go, GoWith, Return, CallShutDown, screen, queue, aside, intent,
   session, backend, reconnect
<1>1. CASE Proxy(f)
  <2>1. Alone(f) /\ at'[f].tok = at[f].tok
    BY <1>1, AttemptMoves
  <2>2. pc[f] = "proxy" /\ pc'[f] \in {"caught", "retreat", "down", "arm"} /\ UNCHANGED <<owner, serving>>
    BY <1>1 DEF Proxy
  <2> QED
    BY <2>1, <2>2 DEF Alone
<1>2. CASE Arm(f)
  BY <1>2 DEF Arm
<1>3. CASE Final(f)
  BY <1>3 DEF Final
<1>4. CASE Live(f)
  BY <1>4 DEF Live
<1>5. CASE Lift(f)
  BY <1>5 DEF Lift
<1>6. CASE Undo(f)
  BY <1>6 DEF Undo, StopAnswers
<1> QED
  BY <1>1, <1>2, <1>3, <1>4, <1>5, <1>6

LEMMA ClicksOwner ==
    ASSUME Typed, QueueInv, HeldOnTheWay, NEW f \in Click,
           ClickFirst(f) \/ ClickAgain(f) \/ Toggle(f) \/ ClickStopped(f) \/
              ClickWaited(f) \/ Snapshot(f) \/ Resnapshot(f) \/ Release(f) \/
              ClickReturned(f)
    PROVE  OwnerIsOnItsWay'
<1> USE Names, NoRequestBy, OwnIsOperation DEF Typed, Named, Locals, Papers,
   HeldOnTheWay, OwnerIsOnItsWay, BarrierIsAStart, QueueInv, Charge, Discharge,
   Operation, NoOp, Go, GoWith, Return, CallShutDown, screen, queue, aside, intent,
   session, backend, reconnect
<1>1. CASE ClickFirst(f)
  BY <1>1 DEF ClickFirst
<1>2. CASE ClickAgain(f)
  BY <1>2 DEF ClickAgain, Disconnect
<1>3. CASE Toggle(f)
  BY <1>3 DEF Toggle, Disconnect
<1>4. CASE ClickStopped(f)
  BY <1>4 DEF ClickStopped, Finalize, SetState, Show
<1>5. CASE ClickWaited(f)
  BY <1>5 DEF ClickWaited
<1>6. CASE Snapshot(f)
  BY <1>6 DEF Snapshot, SetState, Show
<1>7. CASE Resnapshot(f)
  BY <1>7 DEF Resnapshot, SetState, Show
<1>8. CASE Release(f)
  BY <1>8 DEF Release, Finalize, SetState, Show
<1>9. CASE ClickReturned(f)
  BY <1>9 DEF ClickReturned
<1> QED
  BY <1>1, <1>2, <1>3, <1>4, <1>5, <1>6, <1>7, <1>8, <1>9

LEMMA AutomationOwner ==
    ASSUME Typed, QueueInv, HeldOnTheWay, NEW f \in Automation,
           Begin(f) \/ Begun(f) \/ WatchdogStopped(f) \/ AutoReturned(f) \/ Completed(f)
    PROVE  OwnerIsOnItsWay'
<1> USE Names, NoRequestBy, OwnIsOperation DEF Typed, Named, Locals, Papers,
   HeldOnTheWay, OwnerIsOnItsWay, BarrierIsAStart, QueueInv, Charge, Discharge,
   Operation, NoOp, Go, GoWith, Return, CallShutDown, screen, queue, aside, intent,
   session, backend, reconnect
<1>1. CASE Begin(f)
  BY <1>1 DEF Begin
<1>2. CASE Begun(f)
  <2>1. /\ Alone(f) /\ pc[f] = "begin" /\ UNCHANGED serving
        /\ \/ owner' = Own(f) /\ pc'[f] \in {"down", "complete", "reconnect"}
           \/ UNCHANGED owner /\ pc'[f] = "idle"
    BY <1>2, BegunMoves
  <2> QED
    BY <2>1 DEF Alone
<1>3. CASE WatchdogStopped(f)
  BY <1>3 DEF WatchdogStopped
<1>4. CASE AutoReturned(f)
  BY <1>4 DEF AutoReturned
<1>5. CASE Completed(f)
  BY <1>5 DEF Completed
<1> QED
  BY <1>1, <1>2, <1>3, <1>4, <1>5

LEMMA RunOwner ==
    ASSUME Typed, QueueInv, HeldOnTheWay,
           Run \/ RunBegins \/ Dispatch \/ PassGate \/ RunStopped \/ RunWaited \/
              RunReturned \/ RunCompleted
    PROVE  OwnerIsOnItsWay'
<1> USE Names, NoRequestBy, OwnIsOperation DEF Typed, Named, Locals, Papers,
   HeldOnTheWay, OwnerIsOnItsWay, BarrierIsAStart, QueueInv, Charge, Discharge,
   Operation, NoOp, Go, GoWith, Return, CallShutDown, screen, queue, aside, intent,
   session, backend, reconnect
<1>1. CASE Run
  BY <1>1 DEF Run
<1>2. CASE RunBegins
  <2>1. pc[Runner] = "begin" /\ UNCHANGED serving
    BY <1>2 DEF RunBegins
  <2>2. CASE Grants("QualityRemediation")
    <3>1. /\ owner' = Own(Runner)
          /\ GoWith(Runner, "dispatch", [at[Runner] EXCEPT !.tok = Own(Runner)])
      BY <1>2, <2>2 DEF RunBegins
    <3>3. [at[Runner] EXCEPT !.tok = Own(Runner)].tok = Own(Runner)
      BY DEF Local
    <3>2. Own(Runner) # NoOp
      BY OwnIsOperation
    <3> QED
      BY <2>1, <3>1, <3>2, <3>3
  <2>3. CASE ~Grants("QualityRemediation")
    <3>1. UNCHANGED <<owner, at>> /\ pc' = [pc EXCEPT ![Runner] = "returned"]
      BY <1>2, <2>3 DEF RunBegins
    <3> QED
      BY <2>1, <3>1
  <2> QED
    BY <2>2, <2>3
<1>3. CASE Dispatch
  <2>1. pc[Runner] \in {"dispatch"} /\ UNCHANGED <<owner, serving>>
    BY <1>3 DEF Dispatch
  <2>2. /\ Alone(Runner) /\ at'[Runner].tok = at[Runner].tok
        /\ pc'[Runner] \in {"returned", "wait", "connect", "down", "gate"}
    BY <1>3, <2>1, RunMoves
  <2> QED
    BY <2>1, <2>2 DEF Alone
<1>4. CASE PassGate
  BY <1>4 DEF PassGate
<1>5. CASE RunStopped
  <2>1. pc[Runner] \in {"stopped", "unstopped"} /\ UNCHANGED <<owner, serving>>
    BY <1>5 DEF RunStopped
  <2>2. /\ Alone(Runner) /\ at'[Runner].tok = at[Runner].tok
        /\ pc'[Runner] \in {"returned", "wait", "connect", "down", "gate"}
    BY <1>5, <2>1, RunMoves
  <2> QED
    BY <2>1, <2>2 DEF Alone
<1>6. CASE RunWaited
  <2>1. pc[Runner] \in {"wait"} /\ UNCHANGED <<owner, serving>>
    BY <1>6 DEF RunWaited
  <2>2. /\ Alone(Runner) /\ at'[Runner].tok = at[Runner].tok
        /\ pc'[Runner] \in {"returned", "wait", "connect", "down", "gate"}
    BY <1>6, <2>1, RunMoves
  <2> QED
    BY <2>1, <2>2 DEF Alone
<1>7. CASE RunReturned
  BY <1>7 DEF RunReturned, RunEnds
<1>8. CASE RunCompleted
  BY <1>8 DEF RunCompleted, RunEnds
<1> QED
  BY <1>1, <1>2, <1>3, <1>4, <1>5, <1>6, <1>7, <1>8

LEMMA EventsOwner ==
    ASSUME Typed, QueueInv, HeldOnTheWay,
           TimerFires \/ ModeChange \/ Edit \/ CoreDies
    PROVE  OwnerIsOnItsWay'
<1> USE Names, NoRequestBy, OwnIsOperation DEF Typed, Named, Locals, Papers,
   HeldOnTheWay, OwnerIsOnItsWay, BarrierIsAStart, QueueInv, Charge, Discharge,
   Operation, NoOp, Go, GoWith, Return, CallShutDown, screen, queue, aside, intent,
   session, backend, reconnect
<1>1. CASE TimerFires
  BY <1>1 DEF TimerFires, Enqueue, Queued
<1>2. CASE ModeChange
  BY <1>2 DEF ModeChange, SourceReconnect, Enqueue, Queued
<1>3. CASE Edit
  BY <1>3 DEF Edit
<1>4. CASE CoreDies
  BY <1>4 DEF CoreDies
<1> QED
  BY <1>1, <1>2, <1>3, <1>4

LEMMA NextHeld ==
    ASSUME Typed, QueueInv, HeldOnTheWay, [Next]_vars
    PROVE  HeldOnTheWay'
<1>1. CASE UNCHANGED vars
  BY <1>1 DEF vars, HeldOnTheWay, BarrierIsAStart, DoomedIsAStart, OwnerIsOnItsWay, NoOp,
     StartUnderWay
<1>2. ASSUME NEW f \in Flow, Synchronous(f) \/ Micro(f) \/ Answer(f) PROVE HeldOnTheWay'
  <2>1. BarrierIsAStart'
    BY <1>2, SegmentsBarrier, StartingBarrier, EndingBarrier, ClicksBarrier,
       AutomationBarrier, RunBarrier DEF Synchronous, Micro, Answer
  <2>2. DoomedIsAStart'
    BY <1>2, SegmentsDoomed, StartingDoomed, EndingDoomed, ClicksDoomed, AutomationDoomed,
       RunDoomed DEF Synchronous, Micro, Answer
  <2>3. OwnerIsOnItsWay'
    BY <1>2, SegmentsOwner, StartingOwner, EndingOwner, ClicksOwner, AutomationOwner,
       RunOwner DEF Synchronous, Micro, Answer
  <2> QED
    BY <2>1, <2>2, <2>3 DEF HeldOnTheWay
<1>3. CASE TimerFires \/ Event
  <2>1. BarrierIsAStart'
    BY <1>3, ClicksBarrier, AutomationBarrier, EventsBarrier DEF Event
  <2>2. DoomedIsAStart'
    BY <1>3, ClicksDoomed, AutomationDoomed, EventsDoomed DEF Event
  <2>3. OwnerIsOnItsWay'
    BY <1>3, ClicksOwner, AutomationOwner, EventsOwner DEF Event
  <2> QED
    BY <2>1, <2>2, <2>3 DEF HeldOnTheWay
<1> QED
  BY <1>1, <1>2, <1>3 DEF Next, Rest

LEMMA InitHeld == Init => HeldOnTheWay
BY DEF Init, HeldOnTheWay, BarrierIsAStart, DoomedIsAStart, OwnerIsOnItsWay, NoRequest

\* Whoever was overtaken has given back what he took: when all is done no operation
\* is held, no start is tracked and none is to be cancelled (main.js:1673-1714,
\* connection-start-barrier.js, vpn.rs:2033-2058).
THEOREM AllIsGivenBack == Spec => []NothingLeftOver
<1>1. QueueInv /\ Typed /\ HeldOnTheWay /\ [Next]_vars => QueueInv' /\ Typed' /\ HeldOnTheWay'
  BY NextQueue, NextTyped, NextHeld DEF QueueSteps
<1>2. QueueInv /\ Typed /\ HeldOnTheWay => NothingLeftOver
  <2> SUFFICES ASSUME QueueInv, Typed, HeldOnTheWay, AtRest
               PROVE  owner = NoOp /\ barrier = NoFlow /\ ~doomed
    BY DEF NothingLeftOver
  <2>1. \A f \in Flow : pc[f] = "idle"
    BY DEF AtRest
  <2>2. barrier = NoFlow
    BY <2>1 DEF Typed, Named, HeldOnTheWay, BarrierIsAStart
  <2>3. ~doomed
    BY <2>1 DEF HeldOnTheWay, DoomedIsAStart, StartUnderWay
  <2>4. owner # NoOp => owner.flow \in Flow
    BY DEF Typed, Papers, Operation
  <2>5. owner = NoOp
    BY <2>1, <2>4, Names DEF HeldOnTheWay, OwnerIsOnItsWay
  <2> QED
    BY <2>2, <2>3, <2>5
<1> QED
  BY InitQueue, InitTyped, InitHeld, <1>1, <1>2, PTL DEF Spec

-----------------------------------------------------------------------------
(***************************************************************************)
(* One segment runs at a time.  A step lets only the flow that takes it go *)
(* on without an await, so what an attempt has just found it can act upon. *)
(***************************************************************************)
OneSegment == \A f, g \in Flow : pc[f] \in SyncPC /\ pc[g] \in SyncPC => f = g
AttemptsAreFresh == \A f \in Flow : pc[f] = "attempt" => Fresh(f)
Alternate == OneSegment /\ AttemptsAreFresh

\* Nobody but f goes on, and to its attempt only with an intent to connect.
Enters(f) ==
    \A g \in Flow :
        /\ pc'[g] \in SyncPC => g = f \/ pc[g] \in SyncPC
        /\ pc'[g] = "attempt" =>
              \/ g = f /\ g \in current' /\ desired' = "connected"
              \/ g # f /\ pc[g] = "attempt"

LEMMA SegmentsEnters ==
    ASSUME Locals, QueueInv, NEW f \in Flow,
           Connect(f) \/ Attempt(f) \/ Down(f) \/ Retreat(f) \/ Caught(f) \/
              ConnectStopped(f) \/ Reconnect(f)
    PROVE  Enters(f)
<1> USE Names DEF Locals, QueueInv, Enters, SyncPC, Fresh, Go, GoWith, Return,
   CallShutDown, screen, queue, aside, intent, session, backend, reconnect
<1>1. CASE Connect(f)
  BY <1>1 DEF Connect
<1>2. CASE Attempt(f)
  BY <1>2 DEF Attempt
<1>3. CASE Down(f)
  BY <1>3 DEF Down, StopCore, SendStop
<1>4. CASE Retreat(f)
  BY <1>4 DEF Retreat, SendStop
<1>5. CASE Caught(f)
  BY <1>5 DEF Caught
<1>6. CASE ConnectStopped(f)
  BY <1>6 DEF ConnectStopped, SetState, Show
<1>7. CASE Reconnect(f)
  BY <1>7 DEF Reconnect, SourceReconnect, Enqueue, Queued
<1> QED
  BY <1>1, <1>2, <1>3, <1>4, <1>5, <1>6, <1>7

LEMMA StartingEnters ==
    ASSUME Locals, QueueInv, NEW f \in Flow,
           Guard(f) \/ Stop(f) \/ Observe(f) \/ Adopt(f) \/ Elevate(f) \/ Prepare(f) \/
              Start(f) \/ Topology(f) \/ Select(f)
    PROVE  Enters(f)
<1> USE Names DEF Locals, QueueInv, Enters, SyncPC, Fresh, Go, GoWith, Return,
   CallShutDown, screen, queue, aside, intent, session, backend, reconnect
<1>1. CASE Guard(f)
  BY <1>1 DEF Guard, StopCore, SendStop
<1>2. CASE Stop(f)
  BY <1>2 DEF Stop, StopAnswers, SetState, Show
<1>3. CASE Observe(f)
  BY <1>3 DEF Observe, SetState, Show
<1>4. CASE Adopt(f)
  BY <1>4 DEF Adopt
<1>5. CASE Elevate(f)
  BY <1>5 DEF Elevate
<1>6. CASE Prepare(f)
  BY <1>6 DEF Prepare, SendStart, Show
<1>7. CASE Start(f)
  BY <1>7 DEF Start
<1>8. CASE Topology(f)
  BY <1>8 DEF Topology
<1>9. CASE Select(f)
  BY <1>9 DEF Select
<1> QED
  BY <1>1, <1>2, <1>3, <1>4, <1>5, <1>6, <1>7, <1>8, <1>9

LEMMA EndingEnters ==
    ASSUME Locals, QueueInv, NEW f \in Flow,
           Proxy(f) \/ Arm(f) \/ Final(f) \/ Live(f) \/ Lift(f) \/ Undo(f)
    PROVE  Enters(f)
<1> USE Names DEF Locals, QueueInv, Enters, SyncPC, Fresh, Go, GoWith, Return,
   CallShutDown, screen, queue, aside, intent, session, backend, reconnect
<1>1. CASE Proxy(f)
  BY <1>1 DEF Proxy
<1>2. CASE Arm(f)
  BY <1>2 DEF Arm
<1>3. CASE Final(f)
  BY <1>3 DEF Final
<1>4. CASE Live(f)
  BY <1>4 DEF Live
<1>5. CASE Lift(f)
  BY <1>5 DEF Lift
<1>6. CASE Undo(f)
  BY <1>6 DEF Undo, StopAnswers
<1> QED
  BY <1>1, <1>2, <1>3, <1>4, <1>5, <1>6

LEMMA ClicksEnters ==
    ASSUME Locals, QueueInv, NEW f \in Click,
           ClickFirst(f) \/ ClickAgain(f) \/ Toggle(f) \/ ClickStopped(f) \/
              ClickWaited(f) \/ Snapshot(f) \/ Resnapshot(f) \/ Release(f) \/
              ClickReturned(f)
    PROVE  Enters(f)
<1> USE Names DEF Locals, QueueInv, Enters, SyncPC, Fresh, Go, GoWith, Return,
   CallShutDown, screen, queue, aside, intent, session, backend, reconnect
<1>1. CASE ClickFirst(f)
  BY <1>1 DEF ClickFirst
<1>2. CASE ClickAgain(f)
  BY <1>2 DEF ClickAgain, Disconnect
<1>3. CASE Toggle(f)
  BY <1>3 DEF Toggle, Disconnect
<1>4. CASE ClickStopped(f)
  BY <1>4 DEF ClickStopped, Finalize, SetState, Show
<1>5. CASE ClickWaited(f)
  BY <1>5 DEF ClickWaited
<1>6. CASE Snapshot(f)
  BY <1>6 DEF Snapshot, SetState, Show
<1>7. CASE Resnapshot(f)
  BY <1>7 DEF Resnapshot, SetState, Show
<1>8. CASE Release(f)
  BY <1>8 DEF Release, Finalize, SetState, Show
<1>9. CASE ClickReturned(f)
  BY <1>9 DEF ClickReturned
<1> QED
  BY <1>1, <1>2, <1>3, <1>4, <1>5, <1>6, <1>7, <1>8, <1>9

LEMMA AutomationEnters ==
    ASSUME Locals, QueueInv, NEW f \in Automation,
           Begin(f) \/ Begun(f) \/ WatchdogStopped(f) \/ AutoReturned(f) \/ Completed(f)
    PROVE  Enters(f)
<1> USE Names DEF Locals, QueueInv, Enters, SyncPC, Fresh, Go, GoWith, Return,
   CallShutDown, screen, queue, aside, intent, session, backend, reconnect
<1>1. CASE Begin(f)
  BY <1>1 DEF Begin
<1>2. CASE Begun(f)
  <2>1. /\ Alone(f) /\ pc'[f] \in {"down", "complete", "reconnect", "idle"}
    BY <1>2, BegunMoves
  <2> QED
    BY <2>1 DEF Alone
<1>3. CASE WatchdogStopped(f)
  BY <1>3 DEF WatchdogStopped
<1>4. CASE AutoReturned(f)
  BY <1>4 DEF AutoReturned
<1>5. CASE Completed(f)
  BY <1>5 DEF Completed
<1> QED
  BY <1>1, <1>2, <1>3, <1>4, <1>5

LEMMA RunEnters ==
    ASSUME Locals, QueueInv,
           Run \/ RunBegins \/ Dispatch \/ PassGate \/ RunStopped \/ RunWaited \/
              RunReturned \/ RunCompleted
    PROVE  Enters(Runner)
<1> USE Names DEF Locals, QueueInv, Enters, SyncPC, Fresh, Go, GoWith, Return,
   CallShutDown, screen, queue, aside, intent, session, backend, reconnect
<1>1. CASE Run
  BY <1>1 DEF Run
<1>2. CASE RunBegins
  BY <1>2 DEF RunBegins, RetryIf
<1>3. CASE Dispatch
  BY <1>3 DEF Dispatch
<1>4. CASE PassGate
  BY <1>4 DEF PassGate
<1>5. CASE RunStopped
  BY <1>5 DEF RunStopped, RetryIf
<1>6. CASE RunWaited
  BY <1>6 DEF RunWaited
<1>7. CASE RunReturned
  BY <1>7 DEF RunReturned, RunEnds
<1>8. CASE RunCompleted
  BY <1>8 DEF RunCompleted, RunEnds
<1> QED
  BY <1>1, <1>2, <1>3, <1>4, <1>5, <1>6, <1>7, <1>8

LEMMA EventsEnter ==
    ASSUME QueueInv, ~SyncReady, TimerFires \/ ModeChange \/ Edit \/ CoreDies
    PROVE  \A g \in Flow : pc'[g] \notin SyncPC
<1>1. \A g \in Flow : pc[g] \notin SyncPC
  BY DEF SyncReady
<1>2. \A g \in Flow : pc'[g] \in {pc[g], "request", "run", "returned"}
  BY DEF QueueInv, TimerFires, ModeChange, Edit, CoreDies, SourceReconnect, Enqueue
<1> QED
  BY <1>1, <1>2 DEF SyncPC

\* What a segment goes on with is one of the calls that SyncPC names.
LEMMA SynchronousPC ==
    ASSUME NEW f \in Flow, Synchronous(f)
    PROVE  pc[f] \in SyncPC
BY DEF Synchronous, Connect, Attempt, Down, Retreat, Caught, Reconnect, Dispatch, SyncPC

LEMMA EntersAlternate ==
    ASSUME Alternate, NEW f \in Flow, Enters(f), ~SyncReady \/ pc[f] \in SyncPC
    PROVE  Alternate'
<1>1. \A g \in Flow \ {f} : pc[g] \notin SyncPC
  BY DEF Alternate, OneSegment, SyncReady
<1>2. \A g \in Flow : pc'[g] \in SyncPC => g = f
  BY <1>1 DEF Enters
<1>3. \A g \in Flow : pc'[g] = "attempt" => g = f /\ g \in current' /\ desired' = "connected"
  BY <1>1 DEF Enters, SyncPC
<1> QED
  BY <1>2, <1>3 DEF Alternate, OneSegment, AttemptsAreFresh, Fresh

LEMMA NextAlternate ==
    ASSUME Typed, QueueInv, Alternate, [Next]_vars
    PROVE  Alternate'
<1> USE Names DEF Typed
<1>1. CASE UNCHANGED vars
  BY <1>1 DEF vars, Alternate, OneSegment, AttemptsAreFresh, Fresh
<1>2. ASSUME NEW f \in Flow, Synchronous(f) PROVE Alternate'
  <2>1. Enters(f)
    BY <1>2, SegmentsEnters, RunEnters DEF Synchronous
  <2> QED
    BY <1>2, <2>1, SynchronousPC, EntersAlternate
<1>3. ASSUME NEW f \in Flow, Micro(f) \/ Answer(f), ~SyncReady PROVE Alternate'
  <2>1. Enters(f)
    BY <1>3, SegmentsEnters, StartingEnters, EndingEnters, ClicksEnters, AutomationEnters,
       RunEnters DEF Micro, Answer
  <2> QED
    BY <1>3, <2>1, EntersAlternate
<1>4. CASE (TimerFires \/ Event) /\ ~SyncReady
  <2>1. CASE TimerFires \/ ModeChange \/ Edit \/ CoreDies
    <3>1. \A g \in Flow : pc'[g] \notin SyncPC
      BY <1>4, <2>1, EventsEnter
    <3> QED
      BY <3>1 DEF Alternate, OneSegment, AttemptsAreFresh, SyncPC
  <2>2. ASSUME NEW f \in Click, ClickFirst(f) \/ ClickAgain(f) PROVE Alternate'
    BY <1>4, <2>2, ClicksEnters, EntersAlternate
  <2>3. ASSUME NEW f \in Automation, Begin(f) PROVE Alternate'
    BY <1>4, <2>3, AutomationEnters, EntersAlternate
  <2> QED
    BY <1>4, <2>1, <2>2, <2>3 DEF Event
<1> QED
  BY <1>1, <1>2, <1>3, <1>4 DEF Next, Rest

LEMMA InitAlternate == Init => Alternate
BY DEF Init, Alternate, OneSegment, AttemptsAreFresh, SyncPC

-----------------------------------------------------------------------------
(***************************************************************************)
(* Idle means stopped, and connected is intended.  A runtime that is up or *)
(* may come up while the screen or the user says idle is being stopped by  *)
(* somebody, or the flow that will stop it is on its way.  One start is    *)
(* under way at a time, and a stop that is under way has doomed it; so     *)
(* when the stop is confirmed nothing is up and nothing comes up.          *)
(***************************************************************************)
MayBeUp == runtime # NoFlow \/ (StartUnderWay /\ ~doomed)
Stopping == \E g \in Flow : pc[g] = "stop"

\* A click that will disconnect: it has its intent, and nothing to preserve.
Ends(f) == FreshIdle(f) /\ (pc[f] = "toggle" \/ (pc[f] = "down" /\ ~at[f].keep))
Coming == \E f \in Click : Ends(f)

OneStart ==
    \A f, g \in Flow : pc[f] = "start" /\ at[f].ok /\ pc[g] = "start" /\ at[g].ok => f = g
StopDooms == StopUnderWay /\ StartUnderWay => doomed

ShownIsEnded == desired = "idle" /\ ui = "connected" => Coming
IdleIsStopped ==
    MayBeUp /\ (ui = "disconnecting" \/ (ui = "idle" /\ ~early)) => Stopping
UnwantedIsEnded ==
    desired = "idle" /\ MayBeUp => ui = "cleanup_error" \/ Stopping \/ Coming
ReleasedIsDown ==
    \A f \in Click : FreshIdle(f) /\ pc[f] = "release" => runtime = NoFlow /\ ~StartUnderWay

Ended ==
    /\ OneStart /\ StopDooms
    /\ ShownIsEnded /\ IdleIsStopped /\ UnwantedIsEnded /\ ReleasedIsDown

\* Nothing starts or stops and nothing comes up; who will disconnect stays on his
\* way; the screen does not claim more than it did.
Harmless ==
    /\ runtime' \in {runtime, NoFlow} /\ doomed' = doomed
    /\ \A g \in Flow :
          /\ pc[g] \in {"start", "stop"} => pc'[g] = pc[g] /\ at'[g].ok = at[g].ok
          /\ pc'[g] \in {"start", "stop", "undo"} => pc'[g] = pc[g] /\ at'[g].ok = at[g].ok
    /\ \/ Coming' \/ desired' = "connected"
       \/ desired' = desired /\ \A g \in Click : Ends(g) => Ends(g)'
    /\ \A g \in Click : desired' = "idle" /\ g \in current' /\ pc'[g] = "release" =>
          \/ FreshIdle(g) /\ pc[g] = "release"
          \/ runtime = NoFlow /\ ~StartUnderWay
    /\ \/ UNCHANGED <<ui, early>>
       \/ ui' = "cleanup_error"
       \/ ui' = "idle" /\ (ui = "disconnecting" \/ (runtime = NoFlow /\ ~StartUnderWay))
       \/ desired' = "connected" /\ (ui' \in {"connecting", "connected"} \/ (ui' = "idle" /\ early'))

LEMMA HarmlessKeeps ==
    ASSUME Ended, Harmless
    PROVE  Ended'
<1>1. StartUnderWay' <=> StartUnderWay
  BY DEF StartUnderWay, Harmless
<1>2. StopUnderWay' => StopUnderWay
  BY DEF StopUnderWay, Harmless
<1>3. MayBeUp' => MayBeUp
  BY <1>1 DEF MayBeUp, Harmless
<1>4. Stopping => Stopping'
  BY DEF Stopping, Harmless
<1>5. Coming' \/ desired' = "connected" \/ (desired' = desired /\ (Coming => Coming'))
  BY DEF Coming, Harmless
<1>6. OneStart'
  BY DEF Ended, OneStart, Harmless
<1>7. StopDooms'
  BY <1>1, <1>2 DEF Ended, StopDooms, Harmless
<1>8. ShownIsEnded'
  BY <1>5 DEF Ended, ShownIsEnded, Harmless
<1>9. IdleIsStopped'
  <2> SUFFICES ASSUME MayBeUp', ui' = "disconnecting" \/ (ui' = "idle" /\ ~early')
               PROVE  Stopping'
    BY DEF IdleIsStopped
  <2>1. ~(runtime = NoFlow /\ ~StartUnderWay)
    BY <1>3 DEF MayBeUp
  <2>2. ui = "disconnecting" \/ (ui = "idle" /\ ~early)
    BY <2>1 DEF Harmless
  <2> QED
    BY <1>3, <1>4, <2>2 DEF Ended, IdleIsStopped
<1>10. UnwantedIsEnded'
  <2> SUFFICES ASSUME desired' = "idle", MayBeUp', ui' # "cleanup_error", ~Coming'
               PROVE  Stopping'
    BY DEF UnwantedIsEnded
  <2>1. desired = "idle" /\ ~Coming
    BY <1>5
  <2>2. ui # "cleanup_error"
    BY <1>3 DEF Harmless, MayBeUp
  <2> QED
    BY <1>3, <1>4, <2>1, <2>2 DEF Ended, UnwantedIsEnded
<1>11. ReleasedIsDown'
  <2> SUFFICES ASSUME NEW f \in Click, FreshIdle(f)', pc'[f] = "release"
               PROVE  runtime' = NoFlow /\ ~StartUnderWay'
    BY DEF ReleasedIsDown
  <2>1. (FreshIdle(f) /\ pc[f] = "release") \/ (runtime = NoFlow /\ ~StartUnderWay)
    BY DEF FreshIdle, Harmless
  <2>2. runtime = NoFlow /\ ~StartUnderWay
    BY <2>1 DEF Ended, ReleasedIsDown
  <2> QED
    BY <1>1, <2>2 DEF Harmless
<1> QED
  BY <1>6, <1>7, <1>8, <1>9, <1>10, <1>11 DEF Ended

LEMMA SegmentsHarmless ==
    ASSUME Typed, QueueInv, Alternate, Ended, NEW f \in Flow,
           Connect(f) \/ Attempt(f) \/ Caught(f) \/ ConnectStopped(f) \/ Reconnect(f)
    PROVE  Harmless
<1> USE Names DEF Typed, Locals, Named, Local, QueueInv, Harmless, Ends, Fresh,
   FreshIdle, Wanted, Go, GoWith, Return, CallShutDown, screen, queue, aside, intent,
   session, backend, reconnect
<1>1. CASE Connect(f)
  BY <1>1 DEF Connect
<1>2. CASE Attempt(f)
  BY <1>2 DEF Attempt, Alternate, AttemptsAreFresh
<1>3. CASE Caught(f)
  BY <1>3 DEF Caught
<1>4. CASE ConnectStopped(f)
  BY <1>4 DEF ConnectStopped, SetState, Show
<1>5. CASE Reconnect(f)
  BY <1>5 DEF Reconnect, SourceReconnect, Enqueue, Queued
<1> QED
  BY <1>1, <1>2, <1>3, <1>4, <1>5

LEMMA StartingHarmless ==
    ASSUME Typed, QueueInv, Alternate, Ended, NEW f \in Flow,
           Observe(f) \/ Adopt(f) \/ Elevate(f) \/ Topology(f) \/ Select(f)
    PROVE  Harmless
<1> USE Names DEF Typed, Locals, Named, Local, QueueInv, Harmless, Ends, Fresh,
   FreshIdle, Wanted, Go, GoWith, Return, CallShutDown, screen, queue, aside, intent,
   session, backend, reconnect
<1>1. CASE Observe(f)
  BY <1>1 DEF Observe, SetState, Show
<1>2. CASE Adopt(f)
  BY <1>2 DEF Adopt
<1>3. CASE Elevate(f)
  BY <1>3 DEF Elevate
<1>4. CASE Topology(f)
  BY <1>4 DEF Topology
<1>5. CASE Select(f)
  BY <1>5 DEF Select
<1> QED
  BY <1>1, <1>2, <1>3, <1>4, <1>5

LEMMA EndingHarmless ==
    ASSUME Typed, QueueInv, Alternate, Ended, NEW f \in Flow,
           Proxy(f) \/ Arm(f) \/ Final(f) \/ Live(f) \/ Lift(f) \/ Undo(f)
    PROVE  Harmless
<1> USE Names DEF Typed, Locals, Named, Local, QueueInv, Harmless, Ends, Fresh,
   FreshIdle, Wanted, Go, GoWith, Return, CallShutDown, screen, queue, aside, intent,
   session, backend, reconnect
<1>1. CASE Proxy(f)
  BY <1>1 DEF Proxy
<1>2. CASE Arm(f)
  BY <1>2 DEF Arm
<1>3. CASE Final(f)
  BY <1>3 DEF Final
<1>4. CASE Live(f)
  BY <1>4 DEF Live
<1>5. CASE Lift(f)
  BY <1>5 DEF Lift
<1>6. CASE Undo(f)
  BY <1>6 DEF Undo, StopAnswers
<1> QED
  BY <1>1, <1>2, <1>3, <1>4, <1>5, <1>6

LEMMA ClicksHarmless ==
    ASSUME Typed, QueueInv, Alternate, Ended, NEW f \in Click,
           ClickFirst(f) \/ ClickAgain(f) \/ Toggle(f) \/ ClickStopped(f) \/
              ClickWaited(f) \/ Snapshot(f) \/ Resnapshot(f) \/ Release(f) \/
              ClickReturned(f)
    PROVE  Harmless
<1> USE Names DEF Typed, Locals, Named, Local, QueueInv, Harmless, Ends, Fresh,
   FreshIdle, Wanted, Go, GoWith, Return, CallShutDown, screen, queue, aside, intent,
   session, backend, reconnect
<1>1. CASE ClickFirst(f)
  <2>1. Ends(f)'
    BY <1>1 DEF ClickFirst
  <2>2. Coming'
    BY <2>1 DEF Coming
  <2>3. /\ UNCHANGED <<ui, early, runtime, doomed>> /\ current' = {f}
        /\ pc'[f] \in {"toggle", "down"}
        /\ \A g \in Flow \ {f} : /\ pc'[g] = pc[g] \/ (pc[g] = "request" /\ pc'[g] = "returned")
                                 /\ at'[g].ok = at[g].ok
        /\ pc[f] = "idle"
    BY <1>1 DEF ClickFirst
  <2> QED
    BY <2>2, <2>3
<1>2. CASE ClickAgain(f)
  <2>1. Ends(f)'
    BY <1>2 DEF ClickAgain, Disconnect, NoLocal
  <2>2. Coming'
    BY <2>1 DEF Coming
  <2>3. /\ UNCHANGED <<ui, early, runtime, doomed>> /\ current' = {f}
        /\ pc'[f] \in {"toggle", "down"}
        /\ \A g \in Flow \ {f} : /\ pc'[g] = pc[g] \/ (pc[g] = "request" /\ pc'[g] = "returned")
                                 /\ at'[g].ok = at[g].ok
        /\ pc[f] = "idle"
    BY <1>2 DEF ClickAgain, Disconnect
  <2> QED
    BY <2>2, <2>3
<1>3. CASE Toggle(f)
  <2>1. CASE Disconnect(f)
    <3>1. Ends(f)' \/ ~FreshIdle(f)
      BY <1>3, <2>1 DEF Toggle, Disconnect, NoLocal
    <3>2. FreshIdle(f)
      BY <1>3, <2>1 DEF Toggle, Disconnect
    <3>3. Coming'
      BY <3>1, <3>2 DEF Coming
    <3>4. /\ UNCHANGED <<ui, early, desired, runtime, doomed, current>>
          /\ pc'[f] = "down" /\ pc[f] = "toggle"
          /\ \A g \in Flow \ {f} : /\ pc'[g] = pc[g] \/ (pc[g] = "request" /\ pc'[g] = "returned")
                                   /\ at'[g].ok = at[g].ok
      BY <1>3, <2>1 DEF Toggle, Disconnect
    <3> QED
      BY <3>3, <3>4
  <2>2. CASE ~Disconnect(f)
    BY <1>3, <2>2 DEF Toggle
  <2> QED
    BY <2>1, <2>2
<1>4. CASE ClickStopped(f)
  BY <1>4 DEF ClickStopped, Finalize, SetState, Show
<1>5. CASE ClickWaited(f)
  BY <1>5 DEF ClickWaited
<1>6. CASE Snapshot(f)
  BY <1>6 DEF Snapshot, SetState, Show
<1>7. CASE Resnapshot(f)
  BY <1>7 DEF Resnapshot, SetState, Show
<1>8. CASE Release(f)
  <2>1. FreshIdle(f) => runtime = NoFlow /\ ~StartUnderWay
    BY <1>8 DEF Release, Ended, ReleasedIsDown
  <2> QED
    BY <1>8, <2>1 DEF Release, Finalize, SetState, Show
<1>9. CASE ClickReturned(f)
  BY <1>9 DEF ClickReturned
<1> QED
  BY <1>1, <1>2, <1>3, <1>4, <1>5, <1>6, <1>7, <1>8, <1>9

LEMMA AutomationHarmless ==
    ASSUME Typed, QueueInv, Alternate, Ended, NEW f \in Automation,
           Begin(f) \/ Begun(f) \/ WatchdogStopped(f) \/ AutoReturned(f) \/ Completed(f)
    PROVE  Harmless
<1> USE Names DEF Typed, Locals, Named, Local, QueueInv, Harmless, Ends, Fresh,
   FreshIdle, Wanted, Go, GoWith, Return, CallShutDown, screen, queue, aside, intent,
   session, backend, reconnect
<1>1. CASE Begin(f)
  BY <1>1 DEF Begin
<1>2. CASE Begun(f)
  <2>1. /\ Alone(f) /\ pc[f] = "begin" /\ UNCHANGED <<runtime, doomed>>
        /\ pc'[f] \in {"down", "complete", "reconnect", "idle"}
    BY <1>2, BegunMoves
  <2>2. UNCHANGED <<ui, early, desired, current>>
    BY <1>2 DEF Begun
  <2> QED
    BY <2>1, <2>2 DEF Alone
<1>3. CASE WatchdogStopped(f)
  BY <1>3 DEF WatchdogStopped
<1>4. CASE AutoReturned(f)
  BY <1>4 DEF AutoReturned
<1>5. CASE Completed(f)
  BY <1>5 DEF Completed
<1> QED
  BY <1>1, <1>2, <1>3, <1>4, <1>5

LEMMA RunHarmless ==
    ASSUME Typed, QueueInv, Alternate, Ended,
           Run \/ RunBegins \/ Dispatch \/ PassGate \/ RunStopped \/ RunWaited \/
              RunReturned \/ RunCompleted
    PROVE  Harmless
<1> USE Names DEF Typed, Locals, Named, Local, QueueInv, Harmless, Ends, Fresh,
   FreshIdle, Wanted, Go, GoWith, Return, CallShutDown, screen, queue, aside, intent,
   session, backend, reconnect
<1>1. CASE Run
  BY <1>1 DEF Run
<1>2. CASE RunBegins
  BY <1>2 DEF RunBegins, RetryIf
<1>3. CASE Dispatch
  BY <1>3 DEF Dispatch
<1>4. CASE PassGate
  BY <1>4 DEF PassGate
<1>5. CASE RunStopped
  BY <1>5 DEF RunStopped, RetryIf
<1>6. CASE RunWaited
  BY <1>6 DEF RunWaited
<1>7. CASE RunReturned
  BY <1>7 DEF RunReturned, RunEnds
<1>8. CASE RunCompleted
  BY <1>8 DEF RunCompleted, RunEnds
<1> QED
  BY <1>1, <1>2, <1>3, <1>4, <1>5, <1>6, <1>7, <1>8

LEMMA EventsHarmless ==
    ASSUME Typed, QueueInv, Alternate, Ended,
           TimerFires \/ ModeChange \/ Edit \/ CoreDies
    PROVE  Harmless
<1> USE Names DEF Typed, Locals, Named, Local, QueueInv, Harmless, Ends, Fresh,
   FreshIdle, Wanted, Go, GoWith, Return, CallShutDown, screen, queue, aside, intent,
   session, backend, reconnect
<1>1. CASE TimerFires
  <2>1. \A g \in Click : g \in current => g \in current'
    BY <1>1, NetworkFlowAssumption DEF TimerFires, Queued
  <2>2. \A g \in Click : g \in current' => g \in current
    BY <1>1, NetworkFlowAssumption DEF TimerFires, Queued
  <2>3. /\ UNCHANGED <<ui, early, desired, runtime, doomed, at>>
        /\ \A g \in Flow : pc'[g] = pc[g] \/ (pc[g] \in {"request", "idle"} /\ pc'[g] \in {"returned", "run"})
    BY <1>1 DEF TimerFires, Enqueue
  <2> QED
    BY <2>1, <2>2, <2>3
<1>2. CASE ModeChange
  BY <1>2 DEF ModeChange, SourceReconnect, Enqueue, Queued
<1>3. CASE Edit
  BY <1>3 DEF Edit
<1>4. CASE CoreDies
  BY <1>4 DEF CoreDies
<1> QED
  BY <1>1, <1>2, <1>3, <1>4

LEMMA DownHarmless ==
    ASSUME Typed, QueueInv, NEW f \in Flow, Down(f) \/ Guard(f), ~StopCore(f)
    PROVE  Harmless
<1>1. /\ UNCHANGED <<ui, early, desired, current, runtime, doomed, at>>
      /\ pc' = [pc EXCEPT ![f] = IF pc[f] = "down" THEN "guard" ELSE "unstopped"]
      /\ pc[f] \in {"down", "guard"} /\ (pc[f] = "down" => at[f].keep)
  BY DEF Down, Guard, Go, intent, session, backend
<1> QED
  BY <1>1, Names DEF Typed, Locals, Local, QueueInv, Harmless, Ends, FreshIdle

\* What an accepted stop does to the start that is under way.
LEMMA SendStopDooms ==
    ASSUME Typed, QueueInv, Ended, NEW f \in Flow, NEW to \in {"stop", "undo"}, NEW tok,
           SendStop(f, to, tok), pc[f] \notin {"start", "stop", "undo"}
    PROVE  /\ Alone(f) /\ pc'[f] = to /\ UNCHANGED runtime
           /\ OneStart' /\ StopDooms'
           /\ (StartUnderWay' <=> StartUnderWay) /\ (MayBeUp' => MayBeUp)
<1> DEFINE accepted == Accepts(tok, "UserDisconnect")
           l == [at[f] EXCEPT !.ok = accepted]
<1>1. l.ok = accepted
  BY DEF Typed, Locals, Local
<1>2. GoWith(f, to, l) /\ UNCHANGED runtime /\ doomed' = (doomed \/ (accepted /\ StartUnderWay))
  BY DEF SendStop
<1> HIDE DEF l, accepted
<1>3. Alone(f) /\ pc'[f] = to /\ at'[f].ok = accepted
  BY <1>1, <1>2, GoMoves DEF Typed
<1>4. StartUnderWay' <=> StartUnderWay
  BY <1>3 DEF StartUnderWay, Alone
<1>5. StopUnderWay' => StopUnderWay \/ accepted
  BY <1>3 DEF StopUnderWay, Alone
<1>6. OneStart'
  BY <1>3 DEF Ended, OneStart, Alone
<1>7. StopDooms'
  BY <1>2, <1>4, <1>5 DEF Ended, StopDooms
<1>8. MayBeUp' => MayBeUp
  BY <1>2, <1>4 DEF MayBeUp
<1> QED
  BY <1>2, <1>3, <1>4, <1>6, <1>7, <1>8

\* shutdownCore stops: whatever the screen says from now on, somebody is stopping.
LEMMA StopCoreEnded ==
    ASSUME Typed, QueueInv, Ended, NEW f \in Flow, Down(f) \/ Guard(f), StopCore(f)
    PROVE  Ended'
<1>1. pc[f] \in {"down", "guard"} /\ UNCHANGED <<desired, current>>
  BY DEF Down, Guard, intent
<1>2. SendStop(f, "stop", IF at[f].ret = "replaced" THEN NoOp ELSE at[f].tok)
      /\ ui' = "disconnecting"
  BY DEF StopCore
<1>3. /\ Alone(f) /\ pc'[f] = "stop" /\ UNCHANGED runtime
      /\ OneStart' /\ StopDooms' /\ (StartUnderWay' <=> StartUnderWay)
  BY <1>1, <1>2, SendStopDooms
<1>4. Stopping'
  BY <1>3 DEF Stopping
<1>5. ReleasedIsDown'
  BY <1>1, <1>3, Names DEF Ended, ReleasedIsDown, FreshIdle, Alone
<1> QED
  BY <1>2, <1>3, <1>4, <1>5 DEF Ended, ShownIsEnded, IdleIsStopped, UnwantedIsEnded

LEMMA RetreatEnded ==
    ASSUME Typed, QueueInv, Ended, NEW f \in Flow, Retreat(f)
    PROVE  Ended'
<1>1. pc[f] = "retreat" /\ UNCHANGED <<ui, early, desired, current>>
  BY DEF Retreat, intent, screen
<1>2. SendStop(f, "undo", at[f].tok)
  BY DEF Retreat
<1>3. /\ Alone(f) /\ pc'[f] = "undo" /\ UNCHANGED runtime
      /\ OneStart' /\ StopDooms'
      /\ (StartUnderWay' <=> StartUnderWay) /\ (MayBeUp' => MayBeUp)
  BY <1>1, <1>2, SendStopDooms
<1>4. Stopping => Stopping'
  BY <1>1, <1>3 DEF Stopping, Alone
<1>5. Coming => Coming'
  BY <1>1, <1>3, Names DEF Coming, Ends, FreshIdle, Alone
<1>6. ReleasedIsDown'
  BY <1>1, <1>3, Names DEF Ended, ReleasedIsDown, FreshIdle, Alone
<1> QED
  BY <1>1, <1>3, <1>4, <1>5, <1>6 DEF Ended, ShownIsEnded, IdleIsStopped, UnwantedIsEnded

\* A stop that is confirmed has stopped what was up and doomed what was starting;
\* one that is not is shown.
LEMMA StopEnded ==
    ASSUME Typed, QueueInv, Ended, NEW f \in Flow, Stop(f)
    PROVE  Ended'
<1>1. /\ pc[f] = "stop" /\ UNCHANGED <<desired, current, doomed, at>>
      /\ runtime' \in {runtime, NoFlow}
      /\ \E to \in {"stopped", "unstopped"} : pc' = [pc EXCEPT ![f] = to]
  BY DEF Stop, StopAnswers, Go, intent
<1>2. Alone(f) /\ pc'[f] \in {"stopped", "unstopped"} /\ at'[f] = at[f]
  BY <1>1 DEF Alone, QueueInv
<1>3. (StartUnderWay' <=> StartUnderWay) /\ (StopUnderWay' => StopUnderWay)
  BY <1>1, <1>2 DEF StartUnderWay, StopUnderWay, Alone
<1>4. OneStart' /\ StopDooms'
  BY <1>1, <1>2, <1>3 DEF Ended, OneStart, StopDooms, Alone
<1>5. ReleasedIsDown'
  BY <1>1, <1>2, <1>3, Names DEF Ended, ReleasedIsDown, FreshIdle, Alone
<1>6. CASE StopAnswers(f, TRUE) /\ ui' \in {ui, "idle"} /\ (ui' = ui => early' = early \/ ui' = "idle")
  <2>1. at[f].ok /\ runtime' = NoFlow
    BY <1>6 DEF StopAnswers
  <2>2. StopUnderWay
    BY <1>1, <2>1 DEF StopUnderWay
  <2>3. ~MayBeUp'
    BY <1>1, <1>3, <2>1, <2>2 DEF MayBeUp, Ended, StopDooms
  <2>4. Coming => Coming'
    BY <1>1, <1>2, Names DEF Coming, Ends, FreshIdle, Alone
  <2>5. ShownIsEnded'
    BY <1>1, <1>6, <2>4 DEF Ended, ShownIsEnded
  <2> QED
    BY <1>4, <1>5, <2>3, <2>5 DEF Ended, IdleIsStopped, UnwantedIsEnded
<1>7. CASE ui' = "cleanup_error"
  BY <1>4, <1>5, <1>7 DEF Ended, ShownIsEnded, IdleIsStopped, UnwantedIsEnded
<1> QED
  BY <1>6, <1>7 DEF Stop, SetState, Show, screen

\* A start is sent for an intent to connect only, where nothing stops.
LEMMA PrepareEnded ==
    ASSUME Typed, QueueInv, Ended, NEW f \in Flow, Prepare(f)
    PROVE  Ended'
<1>1. CASE SendStart(f)
  <2> DEFINE accepted == /\ Accepts(at[f].tok, "UserConnect")
                         /\ ~StartUnderWay /\ ~StopUnderWay /\ runtime = NoFlow
             l == [at[f] EXCEPT !.ok = accepted]
  <2>1. l.ok = accepted
    BY DEF Typed, Locals, Local
  <2>2. /\ GoWith(f, "start", l) /\ UNCHANGED runtime
        /\ doomed' = (doomed /\ ~accepted)
    BY <1>1 DEF SendStart
  <2>3. accepted => ~StartUnderWay /\ ~StopUnderWay
    OBVIOUS
  <2> HIDE DEF l, accepted
  <2>4. Alone(f) /\ pc'[f] = "start" /\ at'[f].ok = accepted
    BY <2>1, <2>2, GoMoves DEF Typed
  <2>5. ~Go(f, "caught") /\ ~Go(f, "returned")
    BY <2>4, GoMoves DEF Typed
  <2>6. desired = "connected" /\ ui = "connecting" /\ UNCHANGED <<ui, desired, current>>
    BY <2>5 DEF Prepare, Return, Wanted, Fresh, screen, intent
  <2>7. OneStart'
    BY <2>3, <2>4 DEF Ended, OneStart, Alone, StartUnderWay
  <2>8. StopUnderWay' => StopUnderWay
    BY <2>4 DEF StopUnderWay, Alone
  <2>9. ~accepted => (StartUnderWay' => StartUnderWay)
    BY <2>4 DEF StartUnderWay, Alone
  <2>10. StopDooms'
    BY <2>2, <2>3, <2>8, <2>9 DEF Ended, StopDooms
  <2> QED
    BY <2>6, <2>7, <2>10 DEF Ended, ShownIsEnded, IdleIsStopped, UnwantedIsEnded,
       ReleasedIsDown, FreshIdle
<1>2. CASE ~SendStart(f)
  <2>1. /\ UNCHANGED <<desired, current, runtime, doomed, at>> /\ pc[f] = "prepare"
        /\ \E to \in {"caught", "returned"} : pc' = [pc EXCEPT ![f] = to]
    BY <1>2 DEF Prepare, Go, Return, backend, intent
  <2>2. UNCHANGED <<ui, early>> \/ (desired = "connected" /\ ui' = "idle" /\ early')
    BY <1>2 DEF Prepare, Show, screen, Wanted, Fresh
  <2>3. Harmless
    BY <2>1, <2>2, Names DEF QueueInv, Harmless, Ends, FreshIdle
  <2> QED
    BY <2>3, HarmlessKeeps
<1> QED
  BY <1>1, <1>2

\* A start that was accepted comes up only if no stop has doomed it.
LEMMA StartEnded ==
    ASSUME Typed, QueueInv, Ended, NEW f \in Flow, Start(f)
    PROVE  Ended'
<1>1. /\ pc[f] = "start" /\ UNCHANGED <<ui, early, desired, current, at>>
      /\ \E to \in {"caught", "topology", "retreat"} : pc' = [pc EXCEPT ![f] = to]
  BY DEF Start, Go, screen, intent
<1>2. Alone(f) /\ pc'[f] \in {"caught", "topology", "retreat"}
  BY <1>1 DEF Alone, QueueInv
<1>3. doomed' = (doomed /\ ~at[f].ok)
      /\ (runtime' = runtime \/ (at[f].ok /\ ~doomed))
  BY DEF Start
<1>4. at[f].ok => StartUnderWay /\ ~StartUnderWay'
  BY <1>1, <1>2 DEF Ended, OneStart, StartUnderWay, Alone
<1>5. ~at[f].ok => (StartUnderWay' <=> StartUnderWay)
  BY <1>1, <1>2 DEF StartUnderWay, Alone
<1>6. StopUnderWay' <=> StopUnderWay
  BY <1>1, <1>2 DEF StopUnderWay, Alone
<1>7. OneStart'
  BY <1>1, <1>2 DEF Ended, OneStart, Alone
<1>8. StopDooms'
  BY <1>3, <1>4, <1>5, <1>6 DEF Ended, StopDooms
<1>9. MayBeUp' => MayBeUp
  BY <1>3, <1>4, <1>5 DEF MayBeUp, Typed, Marks
<1>10. Stopping <=> Stopping'
  BY <1>1, <1>2 DEF Stopping, Alone
<1>11. Coming => Coming'
  BY <1>1, <1>2, Names DEF Coming, Ends, FreshIdle, Alone
<1>12. ReleasedIsDown'
  BY <1>1, <1>2, <1>3, <1>4, <1>5, Names DEF Ended, ReleasedIsDown, FreshIdle, Alone
<1> QED
  BY <1>1, <1>7, <1>8, <1>9, <1>10, <1>11, <1>12
     DEF Ended, ShownIsEnded, IdleIsStopped, UnwantedIsEnded

LEMMA NextEnded ==
    ASSUME Typed, QueueInv, Alternate, Ended, [Next]_vars
    PROVE  Ended'
<1> USE Names
<1>1. CASE UNCHANGED vars
  <2>1. Harmless
    BY <1>1 DEF vars, Harmless, Ends, FreshIdle
  <2> QED
    BY <2>1, HarmlessKeeps
<1>2. ASSUME NEW f \in Flow, Synchronous(f) PROVE Ended'
  BY <1>2, SegmentsHarmless, RunHarmless, DownHarmless, StopCoreEnded, RetreatEnded,
     HarmlessKeeps DEF Synchronous
<1>3. ASSUME NEW f \in Flow, Micro(f) PROVE Ended'
  BY <1>3, SegmentsHarmless, ClicksHarmless, AutomationHarmless, RunHarmless,
     HarmlessKeeps DEF Micro
<1>4. ASSUME NEW f \in Flow, Answer(f) PROVE Ended'
  BY <1>4, StartingHarmless, EndingHarmless, ClicksHarmless, AutomationHarmless, RunHarmless,
     DownHarmless, StopCoreEnded, StopEnded, PrepareEnded, StartEnded, HarmlessKeeps
     DEF Answer
<1>5. CASE TimerFires \/ Event
  BY <1>5, ClicksHarmless, AutomationHarmless, EventsHarmless, HarmlessKeeps DEF Event
<1> QED
  BY <1>1, <1>2, <1>3, <1>4, <1>5 DEF Next, Rest

LEMMA InitEnded == Init => Ended
<1> SUFFICES ASSUME Init PROVE Ended
  OBVIOUS
<1>1. ~StartUnderWay /\ ~StopUnderWay
  BY DEF Init, StartUnderWay, StopUnderWay
<1>2. runtime = NoFlow \/ (ui = "connected" /\ desired = "connected")
  BY DEF Init
<1>3. desired = "idle" => ui = "idle"
  BY DEF Init
<1>4. OneStart /\ ReleasedIsDown
  BY Names DEF Init, OneStart, ReleasedIsDown
<1> QED
  BY <1>1, <1>2, <1>3, <1>4 DEF Ended, MayBeUp, StopDooms, ShownIsEnded, IdleIsStopped,
     UnwantedIsEnded

FlowsInv == QueueInv /\ Typed /\ Alternate /\ Ended

LEMMA FlowsInvariant == Spec => []FlowsInv
<1>1. Init => FlowsInv
  BY InitQueue, InitTyped, InitAlternate, InitEnded DEF FlowsInv
<1>2. FlowsInv /\ [Next]_vars => FlowsInv'
  BY NextQueue, NextTyped, NextAlternate, NextEnded DEF FlowsInv, QueueSteps
<1> QED
  BY <1>1, <1>2, PTL DEF Spec

\* When all is done, a screen that says idle or a user who wanted to be disconnected
\* means that no runtime is up, or the screen tells of the failure, for any clicks,
\* edits and automatic flows (shutdownCore, main.js:1101-1132; disconnectNetwork,
\* main.js:3806-3856).
THEOREM NothingIsLeftRunning == Spec => []IdleMeansStopped
<1>1. FlowsInv => IdleMeansStopped
  <2> SUFFICES ASSUME Ended, \A f \in Flow : pc[f] = "idle",
                      (ui = "idle" /\ ~early) \/ desired = "idle"
               PROVE  runtime = NoFlow \/ ui = "cleanup_error"
    BY DEF FlowsInv, IdleMeansStopped, AtRest
  <2>1. ~Stopping /\ ~Coming
    BY Names DEF Stopping, Coming, Ends
  <2> QED
    BY <2>1 DEF Ended, IdleIsStopped, UnwantedIsEnded, MayBeUp
<1> QED
  BY FlowsInvariant, <1>1, PTL

\* An attempt that was overtaken anywhere never ends with "connected" on the screen
\* of a user who wanted to be disconnected (finalizeConnected, main.js:3329-3347).
THEOREM ConnectedOnlyIfWanted == Spec => []ConnectedIsIntended
<1>1. FlowsInv => ConnectedIsIntended
  <2> SUFFICES ASSUME Typed, Ended, \A f \in Flow : pc[f] = "idle", ui = "connected"
               PROVE  desired = "connected"
    BY DEF FlowsInv, ConnectedIsIntended, AtRest
  <2>1. ~Coming
    BY Names DEF Coming, Ends
  <2> QED
    BY <2>1 DEF Ended, ShownIsEnded, Typed, Named
<1> QED
  BY FlowsInvariant, <1>1, PTL

-----------------------------------------------------------------------------
(***************************************************************************)
(* A change is not forgotten.  While its mark is set somebody answers for  *)
(* it: the timer, the waiting request or the run with a current intent, a  *)
(* click that will disconnect, whoever ends "disconnecting", or the screen *)
(* of a failed cleanup.  No attempt is current meanwhile, so none leaves   *)
(* that screen; and who stops without an answer has taken the mark away.   *)
(***************************************************************************)
Connecting == {"connect", "observe", "adopt", "elevate", "attempt", "prepare", "start",
               "topology", "select", "proxy", "arm", "final", "live", "lift", "retreat",
               "undo", "caught"}

\* The run is on its way to what the change asks for.
RunAnswers ==
    \/ pc[Runner] \in {"run", "begin", "dispatch", "gate"}
    \/ /\ at[Runner].ret \in {"old", "late"}
       /\ \/ pc[Runner] \in {"down", "guard", "stop", "stopped", "wait"}
          \/ pc[Runner] = "unstopped" /\ at[Runner].keep

Answered ==
    \/ Fresh("timer") /\ timer
    \/ Fresh("pending") /\ pending # NoRequest
    \/ Fresh(Runner) /\ RunAnswers
    \/ \E f \in Click : FreshIdle(f) /\ pc[f] = "toggle"

\* f ends "disconnecting", with "idle" or with "cleanup_error".
EndsIt(f) ==
    \/ pc[f] = "stop" /\ at[f].ret \notin {"first", "second"}
    \/ at[f].ret = "third" /\ pc[f] \in {"down", "stopped"}
    \/ pc[f] \in {"snapshot", "resnapshot", "release"}

NeedIsAnswered ==
    need => /\ ui # "idle"
            /\ \/ Answered
               \/ ui = "cleanup_error"
               \/ ui = "disconnecting" /\ \E f \in Flow : EndsIt(f)

NobodyConnects ==
    need /\ desired = "connected" =>
        /\ \A f \in Click \cup Automation : f \notin current
        /\ Runner \in current => pc[Runner] \notin Connecting

ClicksAsk == need /\ desired = "idle" => \A f \in Click : f \in current => pc[f] = "toggle"

GateIsShut ==
    need /\ pc[Runner] = "gate" /\ Fresh(Runner) => ui \in {"disconnecting", "cleanup_error"}

FirstIsUnmarked == \A f \in Flow : pc[f] = "down" /\ at[f].ret \in {"first", "second"} => ~need

Marked == NeedIsAnswered /\ NobodyConnects /\ ClicksAsk /\ GateIsShut /\ FirstIsUnmarked

\* Only a stop that is no disconnect preserves the guard.
Preserves ==
    \A f \in Flow : /\ pc[f] = "guard" => at[f].keep
                    /\ at[f].ret \in {"first", "second", "third"} => ~at[f].keep

LEMMA GoPreserves ==
    ASSUME Typed, QueueInv, Preserves, NEW f \in Flow, NEW to, to # "guard", Go(f, to)
    PROVE  Preserves'
<1>1. Alone(f) /\ pc'[f] = to /\ at'[f] = at[f]
  BY GoMoves DEF Typed
<1> QED
  BY <1>1 DEF Preserves, Alone

LEMMA GoWithPreserves ==
    ASSUME Typed, QueueInv, Preserves, NEW f \in Flow, NEW to, to # "guard", NEW l,
           GoWith(f, to, l), l.ret \in {"first", "second", "third"} => ~l.keep
    PROVE  Preserves'
<1>1. Alone(f) /\ pc'[f] = to /\ at'[f] = l
  BY GoMoves DEF Typed
<1> QED
  BY <1>1 DEF Preserves, Alone

LEMMA CallPreserves ==
    ASSUME Typed, QueueInv, Preserves, NEW f \in Flow, NEW ret, NEW keep,
           CallShutDown(f, ret, keep), ret \in {"first", "second", "third"} => ~keep
    PROVE  Preserves'
<1>1. Alone(f) /\ pc'[f] = "down" /\ at'[f].ret = ret /\ at'[f].keep = keep
  BY CallMoves DEF Typed
<1> QED
  BY <1>1 DEF Preserves, Alone

\* The calls of shutdownCore, and what the run and an automatic flow begin with.
LEMMA AttemptPreserves ==
    ASSUME Typed, QueueInv, Preserves, NEW f \in Flow,
           Caught(f) \/ Adopt(f) \/ Select(f) \/ Proxy(f)
    PROVE  Preserves'
BY GoPreserves, CallPreserves DEF Caught, Adopt, Select, Proxy, Return

LEMMA ClickPreserves ==
    ASSUME Typed, QueueInv, Preserves, NEW f \in Click, ClickWaited(f) \/ Snapshot(f)
    PROVE  Preserves'
BY GoPreserves, CallPreserves, Names DEF ClickWaited, Snapshot, Return

LEMMA TogglePreserves ==
    ASSUME Typed, QueueInv, Preserves, NEW f \in Click, Toggle(f)
    PROVE  Preserves'
<1>1. CASE Disconnect(f)
  <2>1. \A g \in Flow : g # f => /\ at'[g].ret = at[g].ret /\ at'[g].keep = at[g].keep
                                 /\ pc'[g] = "guard" => pc[g] = "guard"
    BY <1>1, Names DEF Disconnect, Typed, Locals, Local, QueueInv
  <2>2. pc'[f] = "down" /\ ~at'[f].keep
    BY <1>1, Names DEF Disconnect, NoLocal
  <2> QED
    BY <2>1, <2>2 DEF Preserves
<1>2. CASE ~Disconnect(f)
  BY <1>2, GoPreserves, Names DEF Toggle, Return
<1> QED
  BY <1>1, <1>2

LEMMA BegunPreserves ==
    ASSUME Typed, QueueInv, Preserves, NEW f \in Automation, Begun(f)
    PROVE  Preserves'
<1> DEFINE l == [at[f] EXCEPT !.tok = Own(f)]
           d == [l EXCEPT !.ret = "dead", !.keep = latched]
<1>1. l.ret = at[f].ret /\ l.keep = at[f].keep /\ d.ret = "dead"
  BY Names DEF Typed, Locals, Local
<1>2. \E to \in {"idle", "down", "complete", "reconnect"} :
         GoWith(f, to, NoLocal) \/ GoWith(f, to, l) \/ GoWith(f, to, d)
  BY NetworkFlowAssumption DEF Begun
<1>3. NoLocal.ret = "none" /\ (l.ret \in {"first", "second", "third"} => ~l.keep)
  BY <1>1, Names DEF NoLocal, Preserves
<1> HIDE DEF l, d
<1> QED
  BY <1>1, <1>2, <1>3, GoWithPreserves, Names

LEMMA RunningPreserves ==
    ASSUME Typed, QueueInv, Preserves, Run \/ Dispatch \/ RunWaited
    PROVE  Preserves'
<1> USE Names
<1>1. CASE Run
  <2> DEFINE l == [NoLocal EXCEPT !.tok = serving.tok, !.keep = latched]
  <2>1. l.ret = "none"
    BY DEF NoLocal
  <2>2. Go(Runner, "returned") \/ \E to \in {"begin", "dispatch"} : GoWith(Runner, to, l)
    BY <1>1 DEF Run, Return
  <2> HIDE DEF l
  <2> QED
    BY <2>1, <2>2, GoPreserves, GoWithPreserves
<1>2. CASE Dispatch
  <2> DEFINE l == [at[Runner] EXCEPT !.ret = "old", !.late = barrier # NoFlow]
  <2>1. l.ret = "old"
    BY DEF Typed, Locals, Local
  <2>2. \/ \E to \in {"gate", "returned", "connect"} : Go(Runner, to)
        \/ GoWith(Runner, "down", l)
    BY <1>2 DEF Dispatch, Return
  <2> HIDE DEF l
  <2> QED
    BY <2>1, <2>2, GoPreserves, GoWithPreserves
<1>3. CASE RunWaited
  BY <1>3, GoPreserves, CallPreserves DEF RunWaited, Return
<1> QED
  BY <1>1, <1>2, <1>3

LEMMA SegmentsPreserves ==
    ASSUME Typed, QueueInv, Preserves, NEW f \in Flow,
           Connect(f) \/ Attempt(f) \/ Down(f) \/ Retreat(f) \/ ConnectStopped(f) \/
              Reconnect(f)
    PROVE  Preserves'
<1> USE Names DEF Preserves, Typed, Marks, Locals, Local, NoLocal, QueueInv, Go,
   GoWith, Return, CallShutDown, screen, queue, aside, intent, session, backend,
   reconnect
<1>1. CASE Connect(f)
  BY <1>1 DEF Connect
<1>2. CASE Attempt(f)
  BY <1>2 DEF Attempt
<1>3. CASE Down(f)
  BY <1>3 DEF Down, StopCore, SendStop
<1>4. CASE Retreat(f)
  BY <1>4 DEF Retreat, SendStop
<1>5. CASE ConnectStopped(f)
  BY <1>5 DEF ConnectStopped, SetState, Show
<1>6. CASE Reconnect(f)
  BY <1>6 DEF Reconnect, SourceReconnect, Enqueue, Queued
<1> QED
  BY <1>1, <1>2, <1>3, <1>4, <1>5, <1>6

LEMMA StartingPreserves ==
    ASSUME Typed, QueueInv, Preserves, NEW f \in Flow,
           Guard(f) \/ Stop(f) \/ Observe(f) \/ Elevate(f) \/ Prepare(f) \/ Start(f) \/
              Topology(f)
    PROVE  Preserves'
<1> USE Names DEF Preserves, Typed, Marks, Locals, Local, NoLocal, QueueInv, Go,
   GoWith, Return, CallShutDown, screen, queue, aside, intent, session, backend,
   reconnect
<1>1. CASE Guard(f)
  BY <1>1 DEF Guard, StopCore, SendStop
<1>2. CASE Stop(f)
  BY <1>2 DEF Stop, StopAnswers, SetState, Show
<1>3. CASE Observe(f)
  BY <1>3 DEF Observe, SetState, Show
<1>4. CASE Elevate(f)
  BY <1>4 DEF Elevate
<1>5. CASE Prepare(f)
  BY <1>5 DEF Prepare, SendStart, Show
<1>6. CASE Start(f)
  BY <1>6 DEF Start
<1>7. CASE Topology(f)
  BY <1>7 DEF Topology
<1> QED
  BY <1>1, <1>2, <1>3, <1>4, <1>5, <1>6, <1>7

LEMMA EndingPreserves ==
    ASSUME Typed, QueueInv, Preserves, NEW f \in Flow,
           Arm(f) \/ Final(f) \/ Live(f) \/ Lift(f) \/ Undo(f)
    PROVE  Preserves'
<1> USE Names DEF Preserves, Typed, Marks, Locals, Local, NoLocal, QueueInv, Go,
   GoWith, Return, CallShutDown, screen, queue, aside, intent, session, backend,
   reconnect
<1>1. CASE Arm(f)
  BY <1>1 DEF Arm
<1>2. CASE Final(f)
  BY <1>2 DEF Final
<1>3. CASE Live(f)
  BY <1>3 DEF Live
<1>4. CASE Lift(f)
  BY <1>4 DEF Lift
<1>5. CASE Undo(f)
  BY <1>5 DEF Undo, StopAnswers
<1> QED
  BY <1>1, <1>2, <1>3, <1>4, <1>5

LEMMA ClicksPreserves ==
    ASSUME Typed, QueueInv, Preserves, NEW f \in Click,
           ClickFirst(f) \/ ClickAgain(f) \/ ClickStopped(f) \/ Resnapshot(f) \/
              Release(f) \/ ClickReturned(f)
    PROVE  Preserves'
<1> USE Names DEF Preserves, Typed, Marks, Locals, Local, NoLocal, QueueInv, Go,
   GoWith, Return, CallShutDown, screen, queue, aside, intent, session, backend,
   reconnect
<1>1. CASE ClickFirst(f)
  BY <1>1 DEF ClickFirst
<1>2. CASE ClickAgain(f)
  BY <1>2 DEF ClickAgain, Disconnect
<1>3. CASE ClickStopped(f)
  BY <1>3 DEF ClickStopped, Finalize, SetState, Show
<1>4. CASE Resnapshot(f)
  BY <1>4 DEF Resnapshot, SetState, Show
<1>5. CASE Release(f)
  BY <1>5 DEF Release, Finalize, SetState, Show
<1>6. CASE ClickReturned(f)
  BY <1>6 DEF ClickReturned
<1> QED
  BY <1>1, <1>2, <1>3, <1>4, <1>5, <1>6

LEMMA AutomationPreserves ==
    ASSUME Typed, QueueInv, Preserves, NEW f \in Automation,
           Begin(f) \/ WatchdogStopped(f) \/ AutoReturned(f) \/ Completed(f)
    PROVE  Preserves'
<1> USE Names DEF Preserves, Typed, Marks, Locals, Local, NoLocal, QueueInv, Go,
   GoWith, Return, CallShutDown, screen, queue, aside, intent, session, backend,
   reconnect
<1>1. CASE Begin(f)
  BY <1>1 DEF Begin
<1>2. CASE WatchdogStopped(f)
  BY <1>2 DEF WatchdogStopped
<1>3. CASE AutoReturned(f)
  BY <1>3 DEF AutoReturned
<1>4. CASE Completed(f)
  BY <1>4 DEF Completed
<1> QED
  BY <1>1, <1>2, <1>3, <1>4

LEMMA RunPreserves ==
    ASSUME Typed, QueueInv, Preserves,
           RunBegins \/ PassGate \/ RunStopped \/ RunReturned \/ RunCompleted
    PROVE  Preserves'
<1> USE Names DEF Preserves, Typed, Marks, Locals, Local, NoLocal, QueueInv, Go,
   GoWith, Return, CallShutDown, screen, queue, aside, intent, session, backend,
   reconnect
<1>1. CASE RunBegins
  BY <1>1 DEF RunBegins, RetryIf
<1>2. CASE PassGate
  BY <1>2 DEF PassGate
<1>3. CASE RunStopped
  BY <1>3 DEF RunStopped, RetryIf
<1>4. CASE RunReturned
  BY <1>4 DEF RunReturned, RunEnds
<1>5. CASE RunCompleted
  BY <1>5 DEF RunCompleted, RunEnds
<1> QED
  BY <1>1, <1>2, <1>3, <1>4, <1>5

LEMMA EventsPreserves ==
    ASSUME Typed, QueueInv, Preserves,
           TimerFires \/ ModeChange \/ Edit \/ CoreDies
    PROVE  Preserves'
<1> USE Names DEF Preserves, Typed, Marks, Locals, Local, NoLocal, QueueInv, Go,
   GoWith, Return, CallShutDown, screen, queue, aside, intent, session, backend,
   reconnect
<1>1. CASE TimerFires
  BY <1>1 DEF TimerFires, Enqueue, Queued
<1>2. CASE ModeChange
  BY <1>2 DEF ModeChange, SourceReconnect, Enqueue, Queued
<1>3. CASE Edit
  BY <1>3 DEF Edit
<1>4. CASE CoreDies
  BY <1>4 DEF CoreDies
<1> QED
  BY <1>1, <1>2, <1>3, <1>4

LEMMA NextPreserves ==
    ASSUME Typed, QueueInv, Preserves, [Next]_vars
    PROVE  Preserves'
<1> USE Names
<1>1. CASE UNCHANGED vars
  BY <1>1 DEF vars, Preserves
<1>2. ASSUME NEW f \in Flow, Synchronous(f) \/ Micro(f) \/ Answer(f) PROVE Preserves'
  BY <1>2, SegmentsPreserves, StartingPreserves, EndingPreserves, ClicksPreserves,
     AutomationPreserves, RunPreserves, AttemptPreserves, ClickPreserves, TogglePreserves,
     BegunPreserves, RunningPreserves DEF Synchronous, Micro, Answer
<1>3. CASE TimerFires \/ Event
  BY <1>3, ClicksPreserves, AutomationPreserves, EventsPreserves DEF Event
<1> QED
  BY <1>1, <1>2, <1>3 DEF Next, Rest

\* A step that leaves the mark set leaves everybody to his answer, and makes no
\* attempt current.
Steady ==
    need' =>
        /\ need /\ desired' = desired /\ ui' \in {ui, "cleanup_error"}
        /\ \A g \in Click \cup Automation : g \in current' => g \in current
        /\ Runner \in current' =>
              /\ pc'[Runner] \in Connecting => Runner \in current /\ pc[Runner] \in Connecting
              /\ pc'[Runner] = "gate" =>
                    (Runner \in current /\ pc[Runner] = "gate") \/ ui' = "disconnecting"
        /\ \A g \in Click : pc[g] = "toggle" /\ FreshIdle(g)' => pc'[g] = "toggle"

Unanswered == need' /\ ui' # "cleanup_error"
StillAnswered ==
    Unanswered => /\ Answered => Answered'
                  /\ ui = "disconnecting" => \A g \in Flow : EndsIt(g) => EndsIt(g)'

LEMMA SteadyKeeps ==
    ASSUME Typed, Marked, Steady, StillAnswered, FirstIsUnmarked'
    PROVE  Marked'
<1> SUFFICES ASSUME need' PROVE Marked'
  BY DEF Marked, NeedIsAnswered, NobodyConnects, ClicksAsk, GateIsShut, FirstIsUnmarked
<1>1. /\ need /\ desired' = desired /\ ui' \in {ui, "cleanup_error"}
  BY DEF Steady
<1>2. NeedIsAnswered'
  <2>1. ui' # "idle"
    BY <1>1 DEF Marked, NeedIsAnswered
  <2>2. CASE ui' = "cleanup_error"
    BY <2>1, <2>2 DEF NeedIsAnswered
  <2>3. CASE ui' # "cleanup_error"
    <3>1. /\ ui' = ui /\ (Answered => Answered')
          /\ ui = "disconnecting" => \A g \in Flow : EndsIt(g) => EndsIt(g)'
      BY <1>1, <2>3 DEF StillAnswered, Unanswered
    <3>2. Answered \/ (ui = "disconnecting" /\ \E f \in Flow : EndsIt(f))
      BY <1>1, <2>3, <3>1 DEF Marked, NeedIsAnswered
    <3> QED
      BY <2>1, <3>1, <3>2 DEF NeedIsAnswered
  <2> QED
    BY <2>2, <2>3
<1>3. NobodyConnects'
  BY <1>1 DEF Marked, NobodyConnects, Steady
<1>4. ClicksAsk'
  BY <1>1 DEF Marked, ClicksAsk, Steady, FreshIdle
<1>5. GateIsShut'
  BY <1>1 DEF Marked, GateIsShut, Steady, Fresh
<1> QED
  BY <1>1, <1>2, <1>3, <1>4, <1>5 DEF Marked

\* A flow with an intent to connect is not on its way while the mark is set.
LEMMA ConnectsUnmarked ==
    ASSUME Typed, Marked, NEW f \in Flow, Fresh(f), pc[f] \in Connecting
    PROVE  ~need
BY DEF Marked, NobodyConnects, Fresh, Flow

\* No disconnect is called while the mark is set.
LEMMA MovesFirst ==
    ASSUME Marked, NEW f \in Flow, Alone(f), need' => need,
           need' /\ pc'[f] = "down" => at'[f].ret \notin {"first", "second"}
    PROVE  FirstIsUnmarked'
BY DEF Marked, FirstIsUnmarked, Alone

LEMMA AttemptFirst ==
    ASSUME Typed, QueueInv, Marked, NEW f \in Flow,
           Caught(f) \/ Adopt(f) \/ Select(f) \/ Proxy(f)
    PROVE  FirstIsUnmarked'
<1>1. Alone(f) /\ UNCHANGED need
  BY AttemptMoves DEF Typed, Caught, Adopt, Select, Proxy, screen
<1>2. \/ \E to \in {"retreat", "returned", "proxy", "arm", "caught"} : Go(f, to)
      \/ \E ret \in {"failed", "replaced", "stale"}, keep \in BOOLEAN : CallShutDown(f, ret, keep)
  BY NetworkFlowAssumption DEF Typed, Marks, Caught, Adopt, Select, Proxy, Return
<1>3. pc'[f] = "down" => at'[f].ret \notin {"first", "second"}
  BY <1>2, GoMoves, CallMoves DEF Typed
<1> QED
  BY <1>1, <1>3, MovesFirst

LEMMA SnapshotFirst ==
    ASSUME Typed, QueueInv, Marked, NEW f \in Click, Snapshot(f)
    PROVE  FirstIsUnmarked'
<1> USE Names
<1>1. need' => need
  BY DEF Snapshot, SetState, Show, screen
<1>2. (\E to \in {"returned", "release"} : Go(f, to)) \/ CallShutDown(f, "third", FALSE)
  BY DEF Snapshot, Return
<1>3. Alone(f) /\ (pc'[f] = "down" => at'[f].ret = "third")
  BY <1>2, GoMoves, CallMoves DEF Typed
<1> QED
  BY <1>1, <1>3, MovesFirst

LEMMA BegunFirst ==
    ASSUME Typed, QueueInv, Marked, NEW f \in Automation, Begun(f)
    PROVE  FirstIsUnmarked'
<1> USE Names
<1> DEFINE l == [at[f] EXCEPT !.tok = Own(f)]
           d == [l EXCEPT !.ret = "dead", !.keep = latched]
<1>1. d.ret = "dead"
  BY DEF Typed, Locals, Local
<1>2. \/ GoWith(f, "idle", NoLocal) \/ GoWith(f, "complete", l) \/ GoWith(f, "reconnect", l)
      \/ GoWith(f, "down", d)
  BY NetworkFlowAssumption DEF Begun
<1> HIDE DEF l, d
<1>3. Alone(f) /\ (pc'[f] = "down" => at'[f].ret = "dead")
  BY <1>1, <1>2, GoMoves DEF Typed
<1> QED
  BY <1>3, MovesFirst DEF Begun, screen

LEMMA RunningFirst ==
    ASSUME Typed, QueueInv, Marked, Dispatch \/ RunWaited
    PROVE  FirstIsUnmarked'
<1> USE Names
<1> DEFINE l == [at[Runner] EXCEPT !.ret = "old", !.late = barrier # NoFlow]
<1>1. l.ret = "old"
  BY DEF Typed, Locals, Local
<1>2. need' => need
  BY DEF Dispatch, RunWaited, screen
<1>3. \/ \E to \in {"gate", "returned", "connect"} : Go(Runner, to)
      \/ GoWith(Runner, "down", l) \/ CallShutDown(Runner, "late", at[Runner].keep)
  BY DEF Dispatch, RunWaited, Return
<1> HIDE DEF l
<1>4. Alone(Runner) /\ (pc'[Runner] = "down" => at'[Runner].ret \in {"old", "late"})
  BY <1>1, <1>3, GoMoves, CallMoves DEF Typed
<1> QED
  BY <1>2, <1>4, MovesFirst

LEMMA SegmentsFirst ==
    ASSUME Typed, QueueInv, TimerInv, Alternate, Preserves, Marked, NEW f \in Flow,
           Connect(f) \/ Attempt(f) \/ Retreat(f) \/ ConnectStopped(f)
    PROVE  FirstIsUnmarked'
<1> USE Names DEF Marked, FirstIsUnmarked, ClicksAsk, FreshIdle, Fresh, Typed, Marks,
   Named, Locals, Local, NoLocal, QueueInv, Go, GoWith, Return, CallShutDown, screen,
   queue, aside, intent, session, backend, reconnect
<1>1. CASE Connect(f)
  BY <1>1 DEF Connect
<1>2. CASE Attempt(f)
  BY <1>2 DEF Attempt
<1>3. CASE Retreat(f)
  BY <1>3 DEF Retreat, SendStop
<1>4. CASE ConnectStopped(f)
  BY <1>4 DEF ConnectStopped, SetState, Show
<1> QED
  BY <1>1, <1>2, <1>3, <1>4

LEMMA StartingFirst ==
    ASSUME Typed, QueueInv, TimerInv, Alternate, Preserves, Marked, NEW f \in Flow,
           Stop(f) \/ Observe(f) \/ Elevate(f) \/ Prepare(f) \/ Start(f) \/ Topology(f)
    PROVE  FirstIsUnmarked'
<1> USE Names DEF Marked, FirstIsUnmarked, ClicksAsk, FreshIdle, Fresh, Typed, Marks,
   Named, Locals, Local, NoLocal, QueueInv, Go, GoWith, Return, CallShutDown, screen,
   queue, aside, intent, session, backend, reconnect
<1>1. CASE Stop(f)
  BY <1>1 DEF Stop, StopAnswers, SetState, Show
<1>2. CASE Observe(f)
  BY <1>2 DEF Observe, SetState, Show
<1>3. CASE Elevate(f)
  BY <1>3 DEF Elevate
<1>4. CASE Prepare(f)
  BY <1>4 DEF Prepare, SendStart, Show
<1>5. CASE Start(f)
  BY <1>5 DEF Start
<1>6. CASE Topology(f)
  BY <1>6 DEF Topology
<1> QED
  BY <1>1, <1>2, <1>3, <1>4, <1>5, <1>6

LEMMA EndingFirst ==
    ASSUME Typed, QueueInv, TimerInv, Alternate, Preserves, Marked, NEW f \in Flow,
           Arm(f) \/ Final(f) \/ Live(f) \/ Lift(f) \/ Undo(f)
    PROVE  FirstIsUnmarked'
<1> USE Names DEF Marked, FirstIsUnmarked, ClicksAsk, FreshIdle, Fresh, Typed, Marks,
   Named, Locals, Local, NoLocal, QueueInv, Go, GoWith, Return, CallShutDown, screen,
   queue, aside, intent, session, backend, reconnect
<1>1. CASE Arm(f)
  BY <1>1 DEF Arm
<1>2. CASE Final(f)
  BY <1>2 DEF Final
<1>3. CASE Live(f)
  BY <1>3 DEF Live
<1>4. CASE Lift(f)
  BY <1>4 DEF Lift
<1>5. CASE Undo(f)
  BY <1>5 DEF Undo, StopAnswers
<1> QED
  BY <1>1, <1>2, <1>3, <1>4, <1>5

LEMMA ClicksFirst ==
    ASSUME Typed, QueueInv, TimerInv, Alternate, Preserves, Marked, NEW f \in Click,
           ClickAgain(f) \/ Toggle(f) \/ ClickStopped(f) \/ ClickWaited(f) \/
              Resnapshot(f) \/ Release(f) \/ ClickReturned(f)
    PROVE  FirstIsUnmarked'
<1> USE Names DEF Marked, FirstIsUnmarked, ClicksAsk, FreshIdle, Fresh, Typed, Marks,
   Named, Locals, Local, NoLocal, QueueInv, Go, GoWith, Return, CallShutDown, screen,
   queue, aside, intent, session, backend, reconnect
<1>1. CASE ClickAgain(f)
  BY <1>1 DEF ClickAgain, Disconnect
<1>2. CASE Toggle(f)
  BY <1>2 DEF Toggle, Disconnect
<1>3. CASE ClickStopped(f)
  BY <1>3 DEF ClickStopped, Finalize, SetState, Show
<1>4. CASE ClickWaited(f)
  BY <1>4 DEF ClickWaited
<1>5. CASE Resnapshot(f)
  BY <1>5 DEF Resnapshot, SetState, Show
<1>6. CASE Release(f)
  BY <1>6 DEF Release, Finalize, SetState, Show
<1>7. CASE ClickReturned(f)
  BY <1>7 DEF ClickReturned
<1> QED
  BY <1>1, <1>2, <1>3, <1>4, <1>5, <1>6, <1>7

LEMMA AutomationFirst ==
    ASSUME Typed, QueueInv, TimerInv, Alternate, Preserves, Marked, NEW f \in Automation,
           Begin(f) \/ WatchdogStopped(f) \/ AutoReturned(f) \/ Completed(f)
    PROVE  FirstIsUnmarked'
<1> USE Names DEF Marked, FirstIsUnmarked, ClicksAsk, FreshIdle, Fresh, Typed, Marks,
   Named, Locals, Local, NoLocal, QueueInv, Go, GoWith, Return, CallShutDown, screen,
   queue, aside, intent, session, backend, reconnect
<1>1. CASE Begin(f)
  BY <1>1 DEF Begin
<1>2. CASE WatchdogStopped(f)
  BY <1>2 DEF WatchdogStopped
<1>3. CASE AutoReturned(f)
  BY <1>3 DEF AutoReturned
<1>4. CASE Completed(f)
  BY <1>4 DEF Completed
<1> QED
  BY <1>1, <1>2, <1>3, <1>4

LEMMA RunFirst ==
    ASSUME Typed, QueueInv, TimerInv, Alternate, Preserves, Marked,
           Run \/ RunBegins \/ PassGate \/ RunStopped \/ RunReturned \/ RunCompleted
    PROVE  FirstIsUnmarked'
<1> USE Names DEF Marked, FirstIsUnmarked, ClicksAsk, FreshIdle, Fresh, Typed, Marks,
   Named, Locals, Local, NoLocal, QueueInv, Go, GoWith, Return, CallShutDown, screen,
   queue, aside, intent, session, backend, reconnect
<1>1. CASE Run
  BY <1>1 DEF Run
<1>2. CASE RunBegins
  BY <1>2 DEF RunBegins, RetryIf
<1>3. CASE PassGate
  BY <1>3 DEF PassGate
<1>4. CASE RunStopped
  BY <1>4 DEF RunStopped, RetryIf
<1>5. CASE RunReturned
  BY <1>5 DEF RunReturned, RunEnds
<1>6. CASE RunCompleted
  BY <1>6 DEF RunCompleted, RunEnds
<1> QED
  BY <1>1, <1>2, <1>3, <1>4, <1>5, <1>6

LEMMA EventsFirst ==
    ASSUME Typed, QueueInv, TimerInv, Alternate, Preserves, Marked,
           TimerFires \/ CoreDies
    PROVE  FirstIsUnmarked'
<1> USE Names DEF Marked, FirstIsUnmarked, ClicksAsk, FreshIdle, Fresh, Typed, Marks,
   Named, Locals, Local, NoLocal, QueueInv, Go, GoWith, Return, CallShutDown, screen,
   queue, aside, intent, session, backend, reconnect
<1>1. CASE TimerFires
  BY <1>1 DEF TimerFires, Enqueue, Queued
<1>2. CASE CoreDies
  BY <1>2 DEF CoreDies
<1> QED
  BY <1>1, <1>2

LEMMA MovesSteady ==
    ASSUME NEW f \in Flow, Alone(f),
           need' => /\ need /\ desired' = desired /\ ui' \in {ui, "cleanup_error"}
                    /\ \A g \in Flow : g \in current' => g \in current
                    /\ pc[f] # "toggle"
                    /\ pc'[f] \in Connecting => pc[f] \in Connecting
                    /\ pc'[f] = "gate" => ui' = "disconnecting"
    PROVE  Steady
BY Names DEF Steady, Alone

\* The steps of an attempt that show something.
LEMMA AttemptSteady ==
    ASSUME Typed, QueueInv, Alternate, Marked, NEW f \in Flow,
           Attempt(f) \/ Adopt(f) \/ Prepare(f) \/ Live(f) \/ Observe(f)
    PROVE  Steady
<1>1. UNCHANGED <<desired, current>> /\ pc[f] \in Connecting /\ pc[f] # "toggle"
  BY DEF Attempt, Adopt, Prepare, Live, Observe, intent, Connecting
<1>2. need' => need
  BY DEF Attempt, Adopt, Prepare, Live, Observe, SetState, Show, screen
<1>3. Fresh(f) => ~need
  BY <1>1, ConnectsUnmarked
<1>4. need' => ui' \in {ui, "cleanup_error"}
  <2>1. CASE Attempt(f)
    BY <1>2, <1>3, <2>1 DEF Attempt, Alternate, AttemptsAreFresh
  <2>2. CASE Adopt(f)
    BY <1>2, <1>3, <2>2 DEF Adopt
  <2>3. CASE Prepare(f)
    BY <2>3 DEF Prepare, Show, screen
  <2>4. CASE Live(f)
    BY <1>2, <1>3, <2>4 DEF Live
  <2>5. CASE Observe(f)
    BY <2>5 DEF Observe, SetState, Show, screen
  <2> QED
    BY <2>1, <2>2, <2>3, <2>4, <2>5
<1>5. Alone(f) /\ pc'[f] # "gate"
  <2>1. CASE Prepare(f)
    <3>1. \/ \E to \in {"caught", "returned"} : Go(f, to)
          \/ \E l : GoWith(f, "start", l)
      BY <2>1 DEF Prepare, SendStart, Return
    <3> QED
      BY <3>1, GoMoves DEF Typed
  <2>2. CASE ~Prepare(f)
    <3>1. \/ \E to \in {"prepare", "returned", "caught", "lift", "retreat", "adopt",
                        "elevate", "attempt"} : Go(f, to)
          \/ \E keep : CallShutDown(f, "replaced", keep)
      BY <2>2 DEF Attempt, Adopt, Live, Observe, Return
    <3> QED
      BY <3>1, GoMoves, CallMoves DEF Typed
  <2> QED
    BY <2>1, <2>2
<1> QED
  BY <1>1, <1>2, <1>4, <1>5, MovesSteady

\* The stop, and what a click shows after it.
LEMMA StoppedSteady ==
    ASSUME Typed, QueueInv, NEW f \in Flow,
           Stop(f) \/ (f \in Click /\ (ClickStopped(f) \/ Snapshot(f) \/ Resnapshot(f)))
    PROVE  Steady
<1>1. UNCHANGED <<desired, current>> /\ pc[f] # "toggle"
  BY DEF Stop, ClickStopped, Snapshot, Resnapshot, intent
<1>2. need' => need /\ ui' \in {ui, "cleanup_error"}
  BY DEF Stop, ClickStopped, Snapshot, Resnapshot, Finalize, SetState, Show, screen
<1>3. \/ \E to \in {"stopped", "unstopped", "returned", "resnapshot", "snapshot", "release"} :
            Go(f, to)
      \/ \E l : GoWith(f, "wait", l)
      \/ CallShutDown(f, "third", FALSE)
  BY DEF Stop, ClickStopped, Snapshot, Resnapshot, Finalize, Return
<1>4. /\ Alone(f)
      /\ pc'[f] \in {"stopped", "unstopped", "returned", "resnapshot", "snapshot", "release",
                     "wait", "down"}
  BY <1>3, GoMoves, CallMoves DEF Typed
<1> QED
  BY <1>1, <1>2, <1>4, MovesSteady DEF Connecting

LEMMA BegunSteady ==
    ASSUME Typed, QueueInv, NEW f \in Automation, Begun(f)
    PROVE  Steady
<1>1. /\ Alone(f) /\ pc[f] = "begin"
      /\ pc'[f] \in {"down", "complete", "reconnect", "idle"}
  BY BegunMoves, Names DEF Typed
<1>2. UNCHANGED <<need, ui, desired, current>>
  BY DEF Begun, screen, intent
<1> QED
  BY <1>1, <1>2, MovesSteady, Names DEF Connecting

\* The run goes on to connect only where the mark is taken away.
LEMMA RunningSteady ==
    ASSUME Typed, QueueInv, Marked, RunBegins \/ Dispatch \/ PassGate \/ RunStopped
    PROVE  Steady
<1> USE Names
<1>1. Alone(Runner)
  BY RunMoves DEF Typed
<1>2. /\ UNCHANGED <<desired, ui>> /\ (need' => need)
      /\ pc[Runner] # "toggle"
  BY DEF RunBegins, Dispatch, PassGate, RunStopped, intent, screen
<1>3. \A g \in Flow : g \in current' => g \in current
  BY NetworkFlowAssumption DEF RunBegins, Dispatch, PassGate, RunStopped, RetryIf, intent, Flow
<1>4. need' => /\ pc'[Runner] \notin Connecting
               /\ pc'[Runner] = "gate" => ui' = "disconnecting"
  <2> SUFFICES ASSUME need'
               PROVE  /\ pc'[Runner] \notin Connecting
                      /\ pc'[Runner] = "gate" => ui' = "disconnecting"
    OBVIOUS
  <2>1. ui # "idle"
    BY <1>2 DEF Marked, NeedIsAnswered
  <2>2. \/ Go(Runner, "returned")
        \/ \E l : \E to \in {"dispatch", "down", "wait"} : GoWith(Runner, to, l)
        \/ Go(Runner, "gate") /\ ui = "disconnecting"
    BY <2>1 DEF RunBegins, Dispatch, PassGate, RunStopped, Return
  <2>3. \/ pc'[Runner] \in {"returned", "dispatch", "down", "wait"}
        \/ pc'[Runner] = "gate" /\ ui = "disconnecting"
    BY <2>2, GoMoves DEF Typed
  <2> QED
    BY <1>2, <2>3 DEF Connecting
<1> QED
  BY <1>1, <1>2, <1>3, <1>4, MovesSteady

LEMMA RunEndsSteady ==
    ASSUME Typed, QueueInv, RunReturned \/ RunCompleted
    PROVE  Steady
<1> USE Names
<1>1. UNCHANGED <<need, ui, desired>>
  BY DEF RunReturned, RunCompleted, RunEnds, screen, intent
<1>2. pc'[Runner] \in {"complete", "run", "idle"}
  BY DEF RunReturned, RunCompleted, RunEnds, Go, QueueInv
<1>3. \A g \in Click : (pc[g] = "toggle" => pc'[g] = "toggle") /\ (g \in current' => g \in current)
  BY DEF RunReturned, RunCompleted, RunEnds, Go, QueueInv, intent
<1>4. \A g \in Automation : g \in current' => g \in current
  BY DEF RunReturned, RunCompleted, RunEnds, intent
<1> QED
  BY <1>1, <1>2, <1>3, <1>4 DEF Steady, Connecting

LEMMA SegmentsSteady ==
    ASSUME Typed, QueueInv, TimerInv, Alternate, Preserves, Marked, NEW f \in Flow,
           Connect(f) \/ Retreat(f) \/ Caught(f) \/ ConnectStopped(f)
    PROVE  Steady
<1> USE Names DEF Steady, Marked, NobodyConnects, Connecting, Fresh, FreshIdle, Wanted,
   Typed, Marks, Named, Locals, Local, NoLocal, QueueInv, Go, GoWith, Return,
   CallShutDown, screen, queue, aside, intent, session, backend, reconnect
<1>1. CASE Connect(f)
  BY <1>1 DEF Connect
<1>2. CASE Retreat(f)
  BY <1>2 DEF Retreat, SendStop
<1>3. CASE Caught(f)
  BY <1>3 DEF Caught
<1>4. CASE ConnectStopped(f)
  BY <1>4 DEF ConnectStopped, SetState, Show
<1> QED
  BY <1>1, <1>2, <1>3, <1>4

LEMMA StartingSteady ==
    ASSUME Typed, QueueInv, TimerInv, Alternate, Preserves, Marked, NEW f \in Flow,
           Elevate(f) \/ Start(f) \/ Topology(f) \/ Select(f)
    PROVE  Steady
<1> USE Names DEF Steady, Marked, NobodyConnects, Connecting, Fresh, FreshIdle, Wanted,
   Typed, Marks, Named, Locals, Local, NoLocal, QueueInv, Go, GoWith, Return,
   CallShutDown, screen, queue, aside, intent, session, backend, reconnect
<1>1. CASE Elevate(f)
  BY <1>1 DEF Elevate
<1>2. CASE Start(f)
  BY <1>2 DEF Start
<1>3. CASE Topology(f)
  BY <1>3 DEF Topology
<1>4. CASE Select(f)
  BY <1>4 DEF Select
<1> QED
  BY <1>1, <1>2, <1>3, <1>4

LEMMA EndingSteady ==
    ASSUME Typed, QueueInv, TimerInv, Alternate, Preserves, Marked, NEW f \in Flow,
           Proxy(f) \/ Arm(f) \/ Final(f) \/ Lift(f) \/ Undo(f)
    PROVE  Steady
<1> USE Names DEF Steady, Marked, NobodyConnects, Connecting, Fresh, FreshIdle, Wanted,
   Typed, Marks, Named, Locals, Local, NoLocal, QueueInv, Go, GoWith, Return,
   CallShutDown, screen, queue, aside, intent, session, backend, reconnect
<1>1. CASE Proxy(f)
  BY <1>1 DEF Proxy
<1>2. CASE Arm(f)
  BY <1>2 DEF Arm
<1>3. CASE Final(f)
  BY <1>3 DEF Final
<1>4. CASE Lift(f)
  BY <1>4 DEF Lift
<1>5. CASE Undo(f)
  BY <1>5 DEF Undo, StopAnswers
<1> QED
  BY <1>1, <1>2, <1>3, <1>4, <1>5

LEMMA ClicksSteady ==
    ASSUME Typed, QueueInv, TimerInv, Alternate, Preserves, Marked, NEW f \in Click,
           ClickAgain(f) \/ Toggle(f) \/ ClickWaited(f) \/ Release(f) \/
              ClickReturned(f)
    PROVE  Steady
<1> USE Names DEF Steady, Marked, NobodyConnects, Connecting, Fresh, FreshIdle, Wanted,
   Typed, Marks, Named, Locals, Local, NoLocal, QueueInv, Go, GoWith, Return,
   CallShutDown, screen, queue, aside, intent, session, backend, reconnect
<1>1. CASE ClickAgain(f)
  BY <1>1 DEF ClickAgain, Disconnect
<1>2. CASE Toggle(f)
  <2>1. CASE need /\ FreshIdle(f)
    BY <1>2, <2>1 DEF Toggle, Disconnect
  <2>2. CASE ~need
    BY <1>2, <2>2 DEF Toggle, Disconnect
  <2>3. CASE ~FreshIdle(f)
    BY <1>2, <2>3 DEF Toggle
  <2> QED
    BY <2>1, <2>2, <2>3
<1>3. CASE ClickWaited(f)
  BY <1>3 DEF ClickWaited
<1>4. CASE Release(f)
  BY <1>4 DEF Release, Finalize, SetState, Show
<1>5. CASE ClickReturned(f)
  BY <1>5 DEF ClickReturned
<1> QED
  BY <1>1, <1>2, <1>3, <1>4, <1>5

LEMMA AutomationSteady ==
    ASSUME Typed, QueueInv, TimerInv, Alternate, Preserves, Marked, NEW f \in Automation,
           Begin(f) \/ WatchdogStopped(f) \/ AutoReturned(f) \/ Completed(f)
    PROVE  Steady
<1> USE Names DEF Steady, Marked, NobodyConnects, Connecting, Fresh, FreshIdle, Wanted,
   Typed, Marks, Named, Locals, Local, NoLocal, QueueInv, Go, GoWith, Return,
   CallShutDown, screen, queue, aside, intent, session, backend, reconnect
<1>1. CASE Begin(f)
  BY <1>1 DEF Begin
<1>2. CASE WatchdogStopped(f)
  BY <1>2 DEF WatchdogStopped
<1>3. CASE AutoReturned(f)
  BY <1>3 DEF AutoReturned
<1>4. CASE Completed(f)
  BY <1>4 DEF Completed
<1> QED
  BY <1>1, <1>2, <1>3, <1>4

LEMMA RunSteady ==
    ASSUME Typed, QueueInv, TimerInv, Alternate, Preserves, Marked,
           Run \/ RunWaited
    PROVE  Steady
<1> USE Names DEF Steady, Marked, NobodyConnects, Connecting, Fresh, FreshIdle, Wanted,
   Typed, Marks, Named, Locals, Local, NoLocal, QueueInv, Go, GoWith, Return,
   CallShutDown, screen, queue, aside, intent, session, backend, reconnect
<1>1. CASE Run
  BY <1>1 DEF Run
<1>2. CASE RunWaited
  BY <1>2 DEF RunWaited
<1> QED
  BY <1>1, <1>2

LEMMA EventsSteady ==
    ASSUME Typed, QueueInv, TimerInv, Alternate, Preserves, Marked,
           TimerFires \/ CoreDies
    PROVE  Steady
<1> USE Names DEF Steady, Marked, NobodyConnects, Connecting, Fresh, FreshIdle, Wanted,
   Typed, Marks, Named, Locals, Local, NoLocal, QueueInv, Go, GoWith, Return,
   CallShutDown, screen, queue, aside, intent, session, backend, reconnect
<1>1. CASE TimerFires
  BY <1>1 DEF TimerFires, Enqueue, Queued
<1>2. CASE CoreDies
  BY <1>2 DEF CoreDies
<1> QED
  BY <1>1, <1>2

\* Nobody but f moves, and f goes on to its answer.
LEMMA MovesAnswered ==
    ASSUME NEW f \in Flow, Alone(f),
           Unanswered =>
              /\ desired' = desired /\ pending' = pending /\ (timer => timer')
              /\ \A h \in {"timer", "pending", Runner} \cup (Click \ {f}) :
                    h \in current => h \in current'
              /\ f = Runner /\ Fresh(f) /\ RunAnswers =>
                    RunAnswers' \/ (Fresh("timer") /\ timer)'
              /\ pc[f] # "toggle"
              /\ ui = "disconnecting" /\ EndsIt(f) => EndsIt(f)'
    PROVE  StillAnswered
<1> USE Names
<1> SUFFICES ASSUME Unanswered PROVE StillAnswered
  BY DEF StillAnswered
<1>1. ASSUME NEW g \in Flow, EndsIt(g), ui = "disconnecting" PROVE EndsIt(g)'
  BY <1>1 DEF EndsIt, Alone
<1>2. ASSUME Fresh("timer"), timer PROVE Answered'
  BY <1>2 DEF Answered, Fresh
<1>3. ASSUME Fresh("pending"), pending # NoRequest PROVE Answered'
  BY <1>3 DEF Answered, Fresh, NoRequest, NoOp
<1>4. ASSUME Fresh(Runner), RunAnswers PROVE Answered'
  <2>1. CASE f = Runner
    BY <1>4, <2>1 DEF Answered, Fresh
  <2>2. CASE f # Runner
    BY <1>4, <2>2 DEF Answered, Fresh, RunAnswers, Alone
  <2> QED
    BY <2>1, <2>2
<1>5. ASSUME NEW g \in Click, FreshIdle(g), pc[g] = "toggle" PROVE Answered'
  BY <1>5 DEF Answered, FreshIdle, Alone
<1> QED
  BY <1>1, <1>2, <1>3, <1>4, <1>5 DEF StillAnswered, Answered

LEMMA ShownAnswered ==
    ASSUME Typed, QueueInv, NEW f \in Flow, Observe(f) \/ Prepare(f)
    PROVE  StillAnswered
<1>1. /\ UNCHANGED <<desired, current, pending>> /\ pc[f] \in {"observe", "prepare"}
      /\ Unanswered => UNCHANGED timer
  BY DEF Observe, Prepare, SetState, Show, screen, intent, queue, Unanswered
<1>2. \/ \E to \in {"caught", "returned", "adopt", "elevate", "attempt"} : Go(f, to)
      \/ \E l : GoWith(f, "start", l)
  BY DEF Observe, Prepare, SendStart, Return
<1>3. Alone(f)
  BY <1>2, GoMoves DEF Typed
<1> QED
  BY <1>1, <1>3, MovesAnswered DEF RunAnswers, EndsIt

\* The stop: what is not shown is the stop of a disconnect.
LEMMA StopAnswered ==
    ASSUME Typed, QueueInv, NEW f \in Flow, Stop(f)
    PROVE  StillAnswered
<1>1. UNCHANGED <<desired, current, pending>> /\ pc[f] = "stop"
  BY DEF Stop, intent, queue
<1>2. (\E to \in {"stopped", "unstopped"} : Go(f, to))
  BY DEF Stop
<1>3. Alone(f) /\ at'[f] = at[f]
  BY <1>2, GoMoves DEF Typed
<1>4. Unanswered => /\ at[f].ret \in {"first", "second", "third"} /\ UNCHANGED screen
                    /\ Go(f, "stopped")
  BY DEF Stop, SetState, Show, Unanswered
<1>5. Unanswered => pc'[f] = "stopped" /\ UNCHANGED timer
  BY <1>4, GoMoves DEF Typed, screen
<1> QED
  BY <1>1, <1>3, <1>4, <1>5, MovesAnswered DEF RunAnswers, EndsIt

\* What a click does once it has stopped.
LEMMA ClickStoppedAnswered ==
    ASSUME Typed, QueueInv, NEW f \in Click, ClickStopped(f) \/ Snapshot(f) \/ Release(f)
    PROVE  StillAnswered
<1> USE Names
<1>1. /\ UNCHANGED <<desired, current, pending>>
      /\ pc[f] \in {"stopped", "unstopped", "snapshot", "release"}
      /\ Unanswered => UNCHANGED timer
  BY DEF ClickStopped, Snapshot, Release, Finalize, SetState, Show, screen, intent, queue,
     Unanswered
<1>2. CASE ClickStopped(f)
  <2>1. \/ \E to \in {"returned", "resnapshot", "snapshot"} : Go(f, to)
        \/ \E l : GoWith(f, "wait", l)
    BY <1>2 DEF ClickStopped, Finalize, Return
  <2>2. Alone(f)
    BY <2>1, GoMoves DEF Typed
  <2>3. pc[f] = "stopped" /\ at[f].ret = "third" => Go(f, "resnapshot")
    BY <1>2 DEF ClickStopped
  <2>4. EndsIt(f) => EndsIt(f)'
    BY <1>2, <2>3, GoMoves DEF Typed, EndsIt, ClickStopped
  <2> QED
    BY <1>1, <2>2, <2>4, MovesAnswered
<1>3. CASE Snapshot(f)
  <2>1. (Return(f) /\ ui' = "cleanup_error") \/ CallShutDown(f, "third", FALSE) \/ Go(f, "release")
    BY <1>3 DEF Snapshot, SetState, Show
  <2>2. Alone(f)
    BY <2>1, GoMoves, CallMoves DEF Typed, Return
  <2>3. Unanswered => EndsIt(f)'
    BY <2>1, GoMoves, CallMoves DEF Typed, EndsIt, Unanswered
  <2> QED
    BY <1>1, <2>2, <2>3, MovesAnswered
<1>4. CASE Release(f)
  <2>1. Return(f) /\ (Unanswered => ui # "disconnecting")
    BY <1>4 DEF Release, Finalize, SetState, Show, Unanswered
  <2>2. Alone(f)
    BY <2>1, GoMoves DEF Typed, Return
  <2> QED
    BY <1>1, <2>1, <2>2, MovesAnswered
<1> QED
  BY <1>2, <1>3, <1>4

\* What is over answers for nothing.
LEMMA OverAnswered ==
    ASSUME Typed, QueueInv, NEW f \in Flow,
           \/ f \in Click /\ ClickReturned(f)
           \/ f \in Automation /\ (Completed(f) \/ Begun(f))
    PROVE  StillAnswered
<1> USE Names
<1>1. /\ UNCHANGED <<desired, pending, timer>> /\ f # Runner
      /\ pc[f] \in {"returned", "complete", "begin"}
      /\ current' \in {current, current \ {f}}
  BY DEF ClickReturned, Completed, Begun, intent, screen, queue
<1>2. Alone(f)
  BY GoMoves, BegunMoves DEF Typed, ClickReturned, Completed
<1>3. f \notin {"timer", "pending", Runner}
  BY <1>1, NetworkFlowAssumption DEF Flow
<1> QED
  BY <1>1, <1>2, <1>3, MovesAnswered DEF EndsIt

\* A run goes on, or arms the timer again, as long as its intent is current.
LEMMA RunningAnswered ==
    ASSUME Typed, QueueInv, TimerInv, Preserves, Marked,
           Run \/ RunBegins \/ Dispatch \/ PassGate \/ RunStopped \/ RunWaited
    PROVE  StillAnswered
<1> USE Names
<1>1. Alone(Runner)
  BY RunMoves DEF Typed
<1>2. /\ UNCHANGED <<desired, pending, ui>> /\ (need' => need) /\ (timer => timer')
      /\ \A h : h \in current => h \in current'
      /\ pc[Runner] \in {"run", "begin", "dispatch", "gate", "stopped", "unstopped", "wait"}
      /\ at[Runner].ret = "third" => pc[Runner] \notin {"stopped", "unstopped"}
  BY DEF Run, RunBegins, Dispatch, PassGate, RunStopped, RunWaited, RetryIf, TimerInv,
     intent, screen, queue, Typed, Marks
<1>3. ASSUME Unanswered, Fresh(Runner), RunAnswers
      PROVE  RunAnswers' \/ (Fresh("timer") /\ timer)'
  <2>1. need /\ ui \notin {"idle", "cleanup_error"}
    BY <1>2, <1>3 DEF Unanswered, Marked, NeedIsAnswered
  <2>2. CASE Run
    <3>1. \E to \in {"begin", "dispatch"}, l \in {[NoLocal EXCEPT !.tok = serving.tok,
                                                                  !.keep = latched]} :
             GoWith(Runner, to, l)
      BY <1>3, <2>1, <2>2 DEF Run
    <3> QED
      BY <3>1, GoMoves DEF Typed, RunAnswers
  <2>3. CASE RunBegins
    <3>1. CASE Grants("QualityRemediation")
      <4>1. \E l : GoWith(Runner, "dispatch", l)
        BY <2>3, <3>1 DEF RunBegins
      <4> QED
        BY <4>1, GoMoves DEF Typed, RunAnswers
    <3>2. CASE ~Grants("QualityRemediation")
      BY <1>3, <2>1, <2>3, <3>2 DEF RunBegins, RetryIf, Fresh
    <3> QED
      BY <3>1, <3>2
  <2>4. CASE Dispatch
    <3> DEFINE l == [at[Runner] EXCEPT !.ret = "old", !.late = barrier # NoFlow]
    <3>1. l.ret = "old"
      BY DEF Typed, Locals, Local
    <3>2. Go(Runner, "gate") \/ GoWith(Runner, "down", l)
      BY <1>3, <2>1, <2>4 DEF Dispatch, Typed, Named, Screens
    <3> HIDE DEF l
    <3> QED
      BY <3>1, <3>2, GoMoves DEF Typed, RunAnswers
  <2>5. CASE PassGate
    BY <1>3, <2>1, <2>5 DEF PassGate, GateOpen, Marked, GateIsShut
  <2>6. CASE RunStopped
    <3>1. CASE pc[Runner] = "unstopped"
      BY <1>3, <2>6, <3>1 DEF RunStopped, RunAnswers, RetryIf, Fresh
    <3>2. CASE pc[Runner] = "stopped"
      <4> DEFINE l == [at[Runner] EXCEPT !.await = barrier]
      <4>1. l.ret = at[Runner].ret
        BY DEF Typed, Locals, Local
      <4>2. GoWith(Runner, "wait", l) /\ at[Runner].ret \in {"old", "late"}
        BY <1>3, <2>6, <3>2 DEF RunStopped, Unanswered
      <4> HIDE DEF l
      <4> QED
        BY <4>1, <4>2, GoMoves DEF Typed, RunAnswers
    <3> QED
      BY <2>6, <3>1, <3>2 DEF RunStopped
  <2>7. CASE RunWaited
    <3>1. CallShutDown(Runner, "late", at[Runner].keep)
      BY <1>3, <2>7 DEF RunWaited
    <3> QED
      BY <3>1, CallMoves DEF Typed, RunAnswers
  <2> QED
    BY <2>2, <2>3, <2>4, <2>5, <2>6, <2>7
<1> QED
  BY <1>1, <1>2, <1>3, MovesAnswered DEF EndsIt

\* The run ends: the waiting request is run as long as it is wanted.
LEMMA RunEndsAnswered ==
    ASSUME Typed, QueueInv, RunReturned \/ RunCompleted
    PROVE  StillAnswered
<1> USE Names
<1>1. CASE RunEnds /\ pc[Runner] \in {"returned", "complete"}
  <2>1. /\ UNCHANGED <<desired, need, timer, ui>>
        /\ \A h \in {"timer"} \cup Click : h \in current => h \in current'
        /\ \A g \in Flow : g # Runner => /\ at'[g] = at[g]
                                         /\ pc[g] # "request" => pc'[g] = pc[g]
    BY <1>1, NetworkFlowAssumption DEF RunEnds, screen, QueueInv, Typed, Locals
  <2>2. Fresh("pending") /\ pending # NoRequest /\ need =>
           pc'[Runner] = "run" /\ Fresh(Runner)'
    BY <1>1, <2>1 DEF RunEnds, CanRun, Fresh, QueueInv
  <2>3. ~RunAnswers /\ ~EndsIt(Runner)
    BY <1>1 DEF RunAnswers, EndsIt
  <2>4. \A g \in Flow : EndsIt(g) => EndsIt(g)'
    BY <2>1, <2>3 DEF EndsIt
  <2>5. Answered /\ need => Answered'
    BY <2>1, <2>2, <2>3 DEF Answered, RunAnswers, Fresh, FreshIdle
  <2> QED
    BY <2>1, <2>4, <2>5 DEF StillAnswered, Unanswered
<1>2. CASE ~RunEnds
  <2>1. /\ UNCHANGED <<desired, current, pending, timer, ui>> /\ pc[Runner] = "returned"
        /\ Go(Runner, "complete")
    BY <1>2 DEF RunReturned, RunCompleted, screen, intent, queue
  <2>2. Alone(Runner)
    BY <2>1, GoMoves DEF Typed
  <2> QED
    BY <2>1, <2>2, MovesAnswered DEF RunAnswers, EndsIt
<1> QED
  BY <1>1, <1>2 DEF RunReturned, RunCompleted

\* The timer hands its epoch on.
LEMMA TimerAnswered ==
    ASSUME Typed, QueueInv, TimerInv, TimerFires
    PROVE  StillAnswered
<1> USE Names
<1>1. /\ UNCHANGED <<desired, need, ui, at>>
      /\ \A h \in Click : h \in current => h \in current'
      /\ \A g \in Flow : pc[g] \notin {"request", "idle"} => pc'[g] = pc[g]
  BY NetworkFlowAssumption DEF TimerFires, Enqueue, Queued, QueueInv
<1>2. Fresh("timer") => Answered'
  <2>1. CASE pc[Runner] = "idle"
    BY <2>1 DEF TimerFires, Enqueue, Queued, Fresh, Answered, RunAnswers, QueueInv
  <2>2. CASE pc[Runner] # "idle"
    BY <2>2 DEF TimerFires, Enqueue, Queued, Fresh, Answered, NoRequest, NoOp
  <2> QED
    BY <2>1, <2>2
<1>3. ~Fresh("pending")
  BY DEF TimerFires, TimerInv, Fresh
<1>4. Fresh(Runner) /\ RunAnswers => Answered'
  <2> SUFFICES ASSUME Fresh(Runner), RunAnswers PROVE Answered'
    OBVIOUS
  <2>1. pc[Runner] \notin {"request", "idle"}
    BY DEF RunAnswers
  <2>2. Runner \in current'
    BY <2>1, NetworkFlowAssumption DEF TimerFires, Queued, Fresh
  <2> QED
    BY <1>1, <2>1, <2>2 DEF Answered, RunAnswers, Fresh
<1>5. \A f \in Click : FreshIdle(f) /\ pc[f] = "toggle" => Answered'
  BY <1>1 DEF Answered, FreshIdle
<1>6. \A g \in Flow : EndsIt(g) => EndsIt(g)'
  BY <1>1 DEF EndsIt
<1> QED
  BY <1>2, <1>3, <1>4, <1>5, <1>6 DEF StillAnswered, Answered

LEMMA SegmentsAnswered ==
    ASSUME Typed, QueueInv, TimerInv, Alternate, Preserves, Marked, NEW f \in Flow,
           Connect(f) \/ Attempt(f) \/ Retreat(f) \/ Caught(f) \/ ConnectStopped(f)
    PROVE  StillAnswered
<1> USE Names DEF StillAnswered, Unanswered, Answered, RunAnswers, EndsIt, Fresh,
   FreshIdle, Wanted, Typed, Marks, Named, Locals, Local, NoLocal, QueueInv, Go,
   GoWith, Return, CallShutDown, screen, queue, aside, intent, session, backend,
   reconnect
<1>1. CASE Connect(f)
  BY <1>1 DEF Connect
<1>2. CASE Attempt(f)
  BY <1>2 DEF Attempt
<1>3. CASE Retreat(f)
  BY <1>3 DEF Retreat, SendStop
<1>4. CASE Caught(f)
  BY <1>4 DEF Caught
<1>5. CASE ConnectStopped(f)
  BY <1>5 DEF ConnectStopped, SetState, Show
<1> QED
  BY <1>1, <1>2, <1>3, <1>4, <1>5

LEMMA StartingAnswered ==
    ASSUME Typed, QueueInv, TimerInv, Alternate, Preserves, Marked, NEW f \in Flow,
           Adopt(f) \/ Elevate(f) \/ Start(f) \/ Topology(f) \/ Select(f)
    PROVE  StillAnswered
<1> USE Names DEF StillAnswered, Unanswered, Answered, RunAnswers, EndsIt, Fresh,
   FreshIdle, Wanted, Typed, Marks, Named, Locals, Local, NoLocal, QueueInv, Go,
   GoWith, Return, CallShutDown, screen, queue, aside, intent, session, backend,
   reconnect
<1>1. CASE Adopt(f)
  BY <1>1 DEF Adopt
<1>2. CASE Elevate(f)
  BY <1>2 DEF Elevate
<1>3. CASE Start(f)
  BY <1>3 DEF Start
<1>4. CASE Topology(f)
  BY <1>4 DEF Topology
<1>5. CASE Select(f)
  BY <1>5 DEF Select
<1> QED
  BY <1>1, <1>2, <1>3, <1>4, <1>5

LEMMA EndingAnswered ==
    ASSUME Typed, QueueInv, TimerInv, Alternate, Preserves, Marked, NEW f \in Flow,
           Proxy(f) \/ Arm(f) \/ Final(f) \/ Live(f) \/ Lift(f) \/ Undo(f)
    PROVE  StillAnswered
<1> USE Names DEF StillAnswered, Unanswered, Answered, RunAnswers, EndsIt, Fresh,
   FreshIdle, Wanted, Typed, Marks, Named, Locals, Local, NoLocal, QueueInv, Go,
   GoWith, Return, CallShutDown, screen, queue, aside, intent, session, backend,
   reconnect
<1>1. CASE Proxy(f)
  BY <1>1 DEF Proxy
<1>2. CASE Arm(f)
  BY <1>2 DEF Arm
<1>3. CASE Final(f)
  BY <1>3 DEF Final
<1>4. CASE Live(f)
  BY <1>4 DEF Live
<1>5. CASE Lift(f)
  BY <1>5 DEF Lift
<1>6. CASE Undo(f)
  BY <1>6 DEF Undo, StopAnswers
<1> QED
  BY <1>1, <1>2, <1>3, <1>4, <1>5, <1>6

LEMMA ClicksAnswered ==
    ASSUME Typed, QueueInv, TimerInv, Alternate, Preserves, Marked, NEW f \in Click,
           ClickAgain(f) \/ Toggle(f) \/ ClickWaited(f) \/ Resnapshot(f)
    PROVE  StillAnswered
<1> USE Names DEF StillAnswered, Unanswered, Answered, RunAnswers, EndsIt, Fresh,
   FreshIdle, Wanted, Typed, Marks, Named, Locals, Local, NoLocal, QueueInv, Go,
   GoWith, Return, CallShutDown, screen, queue, aside, intent, session, backend,
   reconnect
<1>1. CASE ClickAgain(f)
  BY <1>1 DEF ClickAgain, Disconnect
<1>2. CASE Toggle(f)
  BY <1>2 DEF Toggle, Disconnect
<1>3. CASE ClickWaited(f)
  BY <1>3 DEF ClickWaited
<1>4. CASE Resnapshot(f)
  BY <1>4 DEF Resnapshot, SetState, Show
<1> QED
  BY <1>1, <1>2, <1>3, <1>4

LEMMA AutomationAnswered ==
    ASSUME Typed, QueueInv, TimerInv, Alternate, Preserves, Marked, NEW f \in Automation,
           Begin(f) \/ WatchdogStopped(f) \/ AutoReturned(f)
    PROVE  StillAnswered
<1> USE Names DEF StillAnswered, Unanswered, Answered, RunAnswers, EndsIt, Fresh,
   FreshIdle, Wanted, Typed, Marks, Named, Locals, Local, NoLocal, QueueInv, Go,
   GoWith, Return, CallShutDown, screen, queue, aside, intent, session, backend,
   reconnect
<1>1. CASE Begin(f)
  BY <1>1 DEF Begin
<1>2. CASE WatchdogStopped(f)
  BY <1>2 DEF WatchdogStopped
<1>3. CASE AutoReturned(f)
  BY <1>3 DEF AutoReturned
<1> QED
  BY <1>1, <1>2, <1>3

LEMMA EventsAnswered ==
    ASSUME Typed, QueueInv, TimerInv, Alternate, Preserves, Marked,
           CoreDies
    PROVE  StillAnswered
<1> USE Names DEF StillAnswered, Unanswered, Answered, RunAnswers, EndsIt, Fresh,
   FreshIdle, Wanted, Typed, Marks, Named, Locals, Local, NoLocal, QueueInv, Go,
   GoWith, Return, CallShutDown, screen, queue, aside, intent, session, backend,
   reconnect
<1>1. CASE CoreDies
  BY <1>1 DEF CoreDies
<1> QED
  BY <1>1

\* shutdownCore: the guard is confirmed first, or the stop is sent.
LEMMA DownMarked ==
    ASSUME Typed, QueueInv, Preserves, Marked, NEW f \in Flow, Down(f) \/ Guard(f), ~StopCore(f)
    PROVE  Marked'
<1> USE Names
<1>1. /\ UNCHANGED <<ui, need, timer, desired, current, pending>>
      /\ \/ pc[f] = "down" /\ Go(f, "guard") /\ at[f].keep
         \/ pc[f] = "guard" /\ Go(f, "unstopped") /\ at[f].keep
  BY DEF Down, Guard, Preserves, intent, session, backend, queue
<1>2. /\ Alone(f) /\ at'[f] = at[f] /\ pc[f] \in {"down", "guard"} /\ at[f].keep
      /\ pc[f] = "down" => pc'[f] = "guard"
      /\ pc[f] = "guard" => pc'[f] = "unstopped"
  BY <1>1, GoMoves DEF Typed
<1>3. at[f].ret # "third"
  BY <1>2 DEF Preserves
<1>4. Steady
  BY <1>1, <1>2, MovesSteady DEF Connecting
<1>5. StillAnswered
  BY <1>1, <1>2, <1>3, MovesAnswered DEF RunAnswers, EndsIt
<1>6. FirstIsUnmarked'
  BY <1>1, <1>2, MovesFirst
<1> QED
  BY <1>4, <1>5, <1>6, SteadyKeeps

LEMMA StopCoreMarked ==
    ASSUME Typed, QueueInv, Preserves, Marked, NEW f \in Flow, Down(f) \/ Guard(f), StopCore(f)
    PROVE  Marked'
<1> USE Names
<1>1. /\ UNCHANGED <<need, desired, current>> /\ ui' = "disconnecting"
      /\ pc[f] = "down" \/ (pc[f] = "guard" /\ at[f].keep)
  BY DEF Down, Guard, StopCore, Preserves, intent
<1>2. Alone(f) /\ pc'[f] = "stop" /\ at'[f].ret = at[f].ret
  BY StopMoves DEF Typed
<1>3. need => at[f].ret \notin {"first", "second"}
  BY <1>1 DEF Marked, FirstIsUnmarked, Preserves
<1>4. need => EndsIt(f)'
  BY <1>2, <1>3 DEF EndsIt
<1>5. NeedIsAnswered'
  BY <1>1, <1>4 DEF NeedIsAnswered
<1>6. NobodyConnects'
  BY <1>1, <1>2 DEF Marked, NobodyConnects, Connecting, Alone
<1>7. ClicksAsk'
  BY <1>1, <1>2 DEF Marked, ClicksAsk, Alone
<1>8. GateIsShut'
  BY <1>1 DEF GateIsShut
<1>9. FirstIsUnmarked'
  BY <1>1, <1>2, MovesFirst
<1> QED
  BY <1>5, <1>6, <1>7, <1>8, <1>9 DEF Marked

\* A change asks for a reconnect: of the timer, or of the queue.
LEMMA EditMarked ==
    ASSUME Typed, QueueInv, Marked, Edit, ~SyncReady
    PROVE  Marked'
<1> USE Names
<1>1. /\ ui \in {"connected", "connecting"} /\ desired' = "connected" /\ current' = {"timer"}
      /\ timer' /\ UNCHANGED <<ui, pc, at>>
  BY DEF Edit
<1>2. NeedIsAnswered'
  BY <1>1 DEF NeedIsAnswered, Answered, Fresh
<1>3. \A g \in Flow : g \notin current'
  BY <1>1, NetworkFlowAssumption DEF Flow
<1>4. NobodyConnects' /\ GateIsShut' /\ ClicksAsk'
  BY <1>1, <1>3 DEF NobodyConnects, GateIsShut, ClicksAsk, Fresh
<1>5. FirstIsUnmarked'
  BY <1>1 DEF FirstIsUnmarked, SyncReady, SyncPC
<1> QED
  BY <1>2, <1>4, <1>5 DEF Marked

LEMMA SourceReconnectMarked ==
    ASSUME Typed, QueueInv, NEW by \in Automation \cup {NoFlow}, NEW tok,
           SourceReconnect(by, tok),
           ui \in {"connected", "connecting", "disconnecting"},
           \A g \in Flow : g # by => pc[g] # "down"
    PROVE  Marked'
<1> USE Names
<1>1. /\ desired' = "connected" /\ current' = {Queued} /\ UNCHANGED <<ui, at>>
      /\ by # Runner
  BY DEF SourceReconnect, Enqueue
<1>2. pc[Runner] = "idle" => pc'[Runner] = "run"
  BY <1>1 DEF SourceReconnect, Enqueue, QueueInv
<1>3. pc[Runner] # "idle" => pending' = [by |-> by, tok |-> tok]
  BY DEF SourceReconnect, Enqueue
<1>4. pc[Runner] # "idle" => pending' # NoRequest
  BY <1>1, <1>3 DEF NoRequest
<1>5. NeedIsAnswered'
  BY <1>1, <1>2, <1>4 DEF NeedIsAnswered, Answered, RunAnswers, Fresh, Queued
<1>6. /\ \A g \in Click \cup Automation : g \notin current'
      /\ Runner \in current' => pc'[Runner] = "run"
  BY <1>1, <1>2, NetworkFlowAssumption DEF Queued
<1>7. NobodyConnects' /\ ClicksAsk' /\ GateIsShut'
  BY <1>1, <1>6 DEF NobodyConnects, ClicksAsk, GateIsShut, Connecting, Fresh
<1>8. \A g \in Flow : pc'[g] \in {pc[g], "request", "run", "returned"} /\ (g = by => pc'[g] = "request")
  BY DEF SourceReconnect, Enqueue, QueueInv
<1>9. FirstIsUnmarked'
  BY <1>8 DEF FirstIsUnmarked
<1> QED
  BY <1>5, <1>7, <1>9 DEF Marked

LEMMA ReconnectMarked ==
    ASSUME Typed, QueueInv, Alternate, Marked, NEW f \in Flow, Reconnect(f)
    PROVE  Marked'
<1> USE Names
<1>1. pc[f] = "reconnect" /\ f \in Automation
  BY DEF Reconnect, QueueInv
<1>2. \A g \in Flow : g # f => pc[g] # "down"
  BY <1>1 DEF Alternate, OneSegment, SyncPC
<1>3. CASE desired = "connected" /\ ui \in {"connected", "connecting", "disconnecting"}
  <2>1. SourceReconnect(f, at[f].tok)
    BY <1>3 DEF Reconnect
  <2> QED
    BY <1>1, <1>2, <1>3, <2>1, SourceReconnectMarked
<1>4. CASE ~(desired = "connected" /\ ui \in {"connected", "connecting", "disconnecting"})
  <2>1. /\ UNCHANGED <<ui, need, timer, desired, pending>>
        /\ \/ ui = "idle" /\ current' = {f} /\ Go(f, "connect")
           \/ UNCHANGED current /\ Go(f, "complete")
    BY <1>4 DEF Reconnect, screen, queue
  <2>2. Alone(f) /\ pc'[f] \in {"connect", "complete"}
    BY <2>1, GoMoves DEF Typed
  <2>3. need => UNCHANGED current /\ pc'[f] = "complete"
    BY <2>1, GoMoves DEF Typed, Marked, NeedIsAnswered
  <2>4. FirstIsUnmarked'
    BY <2>1, <2>2, MovesFirst
  <2>5. Steady
    BY <1>1, <2>1, <2>2, <2>3, MovesSteady DEF Connecting
  <2>6. StillAnswered
    <3>1. Unanswered => UNCHANGED current
      BY <2>1, <2>3 DEF Unanswered
    <3> QED
      BY <1>1, <2>1, <2>2, <3>1, MovesAnswered DEF EndsIt
  <2> QED
    BY <2>4, <2>5, <2>6, SteadyKeeps
<1> QED
  BY <1>3, <1>4

\* A click asks first what to do.
LEMMA ClickFirstMarked ==
    ASSUME Typed, QueueInv, Marked, NEW f \in Click, ClickFirst(f)
    PROVE  Marked'
<1> USE Names
<1>1. /\ UNCHANGED <<ui, need>> /\ desired' = "idle" /\ current' = {f} /\ pc[f] = "idle"
      /\ Go(f, "toggle")
  BY DEF ClickFirst, screen
<1>2. Alone(f) /\ pc'[f] = "toggle"
  BY <1>1, GoMoves DEF Typed
<1>3. NeedIsAnswered'
  BY <1>1, <1>2 DEF Marked, NeedIsAnswered, Answered, FreshIdle
<1>4. NobodyConnects' /\ ClicksAsk' /\ GateIsShut'
  BY <1>1, <1>2 DEF NobodyConnects, ClicksAsk, GateIsShut, Fresh
<1>5. FirstIsUnmarked'
  BY <1>1, <1>2, MovesFirst
<1> QED
  BY <1>3, <1>4, <1>5 DEF Marked

LEMMA NextMarked ==
    ASSUME Typed, QueueInv, TimerInv, Alternate, Preserves, Marked, [Next]_vars
    PROVE  Marked'
<1> USE Names
<1>1. CASE UNCHANGED vars
  BY <1>1 DEF vars, Marked, NeedIsAnswered, NobodyConnects, ClicksAsk, GateIsShut,
     FirstIsUnmarked, Answered, RunAnswers, EndsIt, Fresh, FreshIdle, NoRequest, NoOp
<1>2. ASSUME NEW f \in Flow, Synchronous(f) PROVE Marked'
  <2>1. CASE Connect(f) \/ Attempt(f) \/ Retreat(f) \/ Caught(f) \/ (f = Runner /\ Dispatch)
    <3>1. FirstIsUnmarked'
      BY <2>1, SegmentsFirst, AttemptFirst, RunningFirst
    <3>2. Steady
      BY <2>1, SegmentsSteady, AttemptSteady, RunningSteady
    <3>3. StillAnswered
      BY <2>1, SegmentsAnswered, RunningAnswered
    <3> QED
      BY <3>1, <3>2, <3>3, SteadyKeeps
  <2> QED
    BY <1>2, <2>1, DownMarked, StopCoreMarked, ReconnectMarked DEF Synchronous
<1>3. ASSUME NEW f \in Flow, Micro(f) PROVE Marked'
  <2>1. FirstIsUnmarked'
    BY <1>3, SegmentsFirst, ClicksFirst, AutomationFirst, RunFirst, RunningFirst DEF Micro
  <2>2. Steady
    BY <1>3, SegmentsSteady, ClicksSteady, StoppedSteady, AutomationSteady, RunSteady,
       RunningSteady, RunEndsSteady DEF Micro
  <2>3. StillAnswered
    BY <1>3, SegmentsAnswered, ClicksAnswered, ClickStoppedAnswered, OverAnswered,
       AutomationAnswered, RunningAnswered, RunEndsAnswered DEF Micro
  <2> QED
    BY <2>1, <2>2, <2>3, SteadyKeeps
<1>4. ASSUME NEW f \in Flow, Answer(f) PROVE Marked'
  <2>1. CASE Guard(f)
    BY <2>1, DownMarked, StopCoreMarked
  <2>2. CASE ~Guard(f)
    <3>1. FirstIsUnmarked'
      BY <1>4, <2>2, StartingFirst, EndingFirst, ClicksFirst, AutomationFirst, RunFirst,
         AttemptFirst, SnapshotFirst, BegunFirst DEF Answer
    <3>2. Steady
      BY <1>4, <2>2, StartingSteady, EndingSteady, ClicksSteady, AutomationSteady,
         AttemptSteady, StoppedSteady, BegunSteady, RunningSteady, RunEndsSteady DEF Answer
    <3>3. StillAnswered
      BY <1>4, <2>2, StartingAnswered, EndingAnswered, ClicksAnswered, ShownAnswered,
         StopAnswered, ClickStoppedAnswered, OverAnswered, RunningAnswered, RunEndsAnswered
         DEF Answer
    <3> QED
      BY <3>1, <3>2, <3>3, SteadyKeeps
  <2> QED
    BY <2>1, <2>2
<1>5. ASSUME TimerFires \/ Event, ~SyncReady PROVE Marked'
  <2>1. CASE TimerFires \/ CoreDies
    <3>1. FirstIsUnmarked' /\ Steady /\ StillAnswered
      BY <2>1, EventsFirst, EventsSteady, EventsAnswered, TimerAnswered
    <3> QED
      BY <3>1, SteadyKeeps
  <2>2. ASSUME NEW f \in Click, ClickAgain(f) PROVE Marked'
    <3>1. FirstIsUnmarked' /\ Steady /\ StillAnswered
      BY <2>2, ClicksFirst, ClicksSteady, ClicksAnswered
    <3> QED
      BY <3>1, SteadyKeeps
  <2>3. ASSUME NEW f \in Automation, Begin(f) PROVE Marked'
    <3>1. FirstIsUnmarked' /\ Steady /\ StillAnswered
      BY <2>3, AutomationFirst, AutomationSteady, AutomationAnswered
    <3> QED
      BY <3>1, SteadyKeeps
  <2>4. CASE ModeChange
    <3>1. \A g \in Flow : pc[g] # "down"
      BY <1>5 DEF SyncReady, SyncPC
    <3> QED
      BY <2>4, <3>1, SourceReconnectMarked DEF ModeChange
  <2> QED
    BY <1>5, <2>1, <2>2, <2>3, <2>4, EditMarked, ClickFirstMarked DEF Event
<1> QED
  BY <1>1, <1>2, <1>3, <1>4, <1>5 DEF Next, Rest

LEMMA InitMarked == Init => Marked /\ Preserves
BY DEF Init, Marked, NeedIsAnswered, NobodyConnects, ClicksAsk, GateIsShut, FirstIsUnmarked,
   Preserves, NoLocal

\* A change that asks for a reconnect is not forgotten with its mark set: when all is
\* done the mark is gone or a failed cleanup is shown, for any clicks, edits and
\* automatic flows (scheduleAutoReconnect, main.js:1160-1167; performAutoReconnectOnce,
\* main.js:1179-1259).
THEOREM NoChangeIsForgotten == Spec => []ChangeIsApplied
<1> DEFINE Inv == FlowsInv /\ TimerInv /\ Preserves /\ Marked
<1>1. Init => Inv
  BY InitQueue, InitTyped, InitAlternate, InitEnded, InitTimer, InitMarked DEF FlowsInv
<1>2. Inv /\ [Next]_vars => Inv'
  BY NextQueue, NextTyped, NextAlternate, NextEnded, NextTimer, NextPreserves, NextMarked
     DEF FlowsInv, QueueSteps
<1>3. Inv => ChangeIsApplied
  <2> SUFFICES ASSUME Marked, \A f \in Flow : pc[f] = "idle", ~timer, need, QueueInv
               PROVE  ui = "cleanup_error"
    BY DEF FlowsInv, ChangeIsApplied, AtRest
  <2>1. pending = NoRequest
    BY Names DEF QueueInv
  <2>2. ~Answered
    BY <2>1, Names DEF Answered, RunAnswers
  <2>3. \A f \in Flow : ~EndsIt(f)
    BY DEF EndsIt
  <2> QED
    BY <2>2, <2>3 DEF Marked, NeedIsAnswered
<1> HIDE DEF Inv
<1>4. Spec => []Inv
  BY <1>1, <1>2, PTL DEF Spec
<1> QED
  BY <1>3, <1>4, PTL
=============================================================================
