---------------------------- MODULE GuardProofs ----------------------------
(***************************************************************************)
(* What the queue of reconciliations and those who ask it promise, however *)
(* many clicks and faults there are.                                       *)
(*                                                                         *)
(* LastWishIsApplied.  A reconciliation that was overtaken is never the    *)
(* last one of the queue (LastIsFresh): whoever overtakes it stands behind *)
(* it.  One that was not overtaken acts for the wish and the option of now *)
(* (FreshActsForNow), so that the last one to be confirmed leaves Windows  *)
(* as they want it.                                                        *)
(*                                                                         *)
(* QueueIsOfWhoWaits.  Every step moves one flow, and the queue with it:   *)
(* it stands in it exactly while its locals say that it waits (Holds).     *)
(*                                                                         *)
(* NothingStaysBlocked.  Behind a disconnect no flow is left that keeps a  *)
(* block without its latch, and only a rearm of the watchdog asks for a    *)
(* block (Kept).                                                           *)
(*                                                                         *)
(* StrictBlockIsKept.  Once connected, the strict tunnel is latched, the   *)
(* queue holds no wish to lift the block, and every flow that is to shut   *)
(* the core down is to keep it (MadeIsLatched); an attempt has all of that *)
(* before its last step (NearlyMade), because a stop of the watchdog that  *)
(* is to lift the block is answered before an attempt begins (DogFirst).   *)
(***************************************************************************)
EXTENDS Guard, TLAPS

\* What Windows is to block, and what a reconciliation arms for it.
Wanted == option /\ (wish.connected \/ wish.preserve)
Goal == IF strict /\ wish.connected /\ wish.phase = "connected" THEN "tunnel" ELSE "block"

Types ==
    /\ policy \in {"none", "block", "tunnel"}
    /\ queue \in Seq(Waiter)
    /\ run \in Run

Busy == run.step = "none" <=> queue = <<>>

LastIsFresh == Len(queue) = 1 => run.fresh

FreshActsForNow ==
    run.fresh =>
        /\ run.step \in {"disarm", "disarmed"} => ~Wanted
        /\ run.step = "disarmed" => policy = "none"
        /\ run.step \in {"active", "elevated", "arm", "confirm"} => Wanted
        /\ run.step = "active" => ~wish.connected
        /\ run.step = "arm" => run.to = Goal
        /\ run.step = "confirm" => policy \in {"none", Goal}

Inv == Types /\ Busy /\ LastIsFresh /\ FreshActsForNow /\ QuietMeansApplied

\* What Apply does to the queue q: nobody asks, or one does.
Silent(q, runs) ==
    /\ wish' = wish /\ queue' = q
    /\ run' = IF runs THEN run ELSE IF q = <<>> THEN NoRun ELSE Starts(wish', option')

Asked(q, runs) ==
    /\ \E who \in Waiter : queue' = Append(q, who)
    /\ run' = IF runs THEN [run EXCEPT !.fresh = FALSE] ELSE Starts(wish', option')

AskedFor(q, w, who, runs) ==
    /\ wish' = w /\ queue' = Append(q, who)
    /\ run' = IF runs THEN [run EXCEPT !.fresh = FALSE] ELSE Starts(wish', option')

LEMMA SilentApply ==
    ASSUME run \in Run, NEW q \in Seq(Waiter), NEW runs, Apply(q, <<>>, runs)
    PROVE  Silent(q, runs)
<1>1. q \o [i \in DOMAIN <<>> |-> <<>>[i].who] = q
  OBVIOUS
<1>2. [run EXCEPT !.fresh = @ /\ TRUE] = run
  BY DEF Run
<1> QED
  BY <1>1, <1>2 DEF Apply, Silent

LEMMA AskedForApply ==
    ASSUME NEW q \in Seq(Waiter), NEW runs, NEW w, NEW who \in Waiter, Apply(q, Call(w, who), runs)
    PROVE  AskedFor(q, w, who, runs)
<1> DEFINE calls == Call(w, who)
<1>1. /\ calls # <<>> /\ DOMAIN calls = 1 .. 1 /\ Len(calls) = 1
      /\ calls[1].who = who /\ calls[1].wish = w
  BY DEF Call
<1>2. [i \in DOMAIN calls |-> calls[i].who] = <<who>>
  BY <1>1
<1>3. queue' = q \o <<who>> /\ wish' = w
  BY <1>1, <1>2 DEF Apply
<1>4. queue' = Append(q, who) /\ queue' # <<>>
  BY <1>3
<1>5. [run EXCEPT !.fresh = @ /\ calls = <<>>] = [run EXCEPT !.fresh = FALSE]
  BY <1>1
<1> QED
  BY <1>3, <1>4, <1>5 DEF Apply, AskedFor

LEMMA AskedApply ==
    ASSUME NEW q \in Seq(Waiter), NEW runs, NEW w, NEW who \in Waiter, Apply(q, Call(w, who), runs)
    PROVE  Asked(q, runs)
BY AskedForApply DEF AskedFor, Asked

\* A reconciliation that starts acts for the wish and the option it starts with.
LEMMA StartsFresh ==
    ASSUME run' = Starts(wish', option')
    PROVE  run' \in Run /\ run'.step # "none" /\ run'.fresh /\ FreshActsForNow'
<1>1. /\ run'.fresh = TRUE
      /\ run'.step = IF ~option' \/ ~(wish'.connected \/ wish'.preserve) THEN "disarm"
                     ELSE IF wish'.connected THEN "elevated" ELSE "active"
  BY DEF Starts
<1>2. run' \in Run
  BY DEF Starts, Run
<1>3. FreshActsForNow'
  BY <1>1 DEF FreshActsForNow, Wanted
<1> QED
  BY <1>1, <1>2, <1>3

\* A step beside the reconciliations.
LEMMA BesideKeeps ==
    ASSUME Inv, Silent(queue, queue # <<>>) \/ Asked(queue, queue # <<>>),
           UNCHANGED <<strict, policy, settled, option>>
    PROVE  Inv'
<1> USE DEF Inv, Types
<1>1. CASE Silent(queue, queue # <<>>)
  <2>1. UNCHANGED <<wish, queue>> /\ (queue # <<>> => run' = run) /\ (queue = <<>> => run' = NoRun)
    BY <1>1 DEF Silent
  <2>2. CASE queue # <<>>
    BY <2>1, <2>2 DEF Busy, LastIsFresh, FreshActsForNow, Wanted, Goal, QuietMeansApplied
  <2>3. CASE queue = <<>>
    <3>1. queue' = <<>> /\ Len(queue') # 1 /\ run' = NoRun
      BY <2>1, <2>3
    <3>2. NoRun \in Run /\ NoRun.step = "none" /\ ~NoRun.fresh
      BY DEF NoRun, Run
    <3>3. QuietMeansApplied'
      BY <2>1, <2>3 DEF QuietMeansApplied
    <3> QED
      BY <2>3, <3>1, <3>2, <3>3 DEF Busy, LastIsFresh, FreshActsForNow
  <2> QED
    BY <2>2, <2>3
<1>2. CASE Asked(queue, queue # <<>>)
  <2>1. PICK who \in Waiter : queue' = Append(queue, who)
    BY <1>2 DEF Asked
  <2>2. queue' \in Seq(Waiter) /\ queue' # <<>> /\ Len(queue') = Len(queue) + 1
    BY <2>1
  <2>3. CASE queue # <<>>
    <3>1. run' = [run EXCEPT !.fresh = FALSE]
      BY <1>2, <2>3 DEF Asked
    <3>2. run' \in Run /\ run'.fresh = FALSE /\ run'.step = run.step
      BY <3>1 DEF Run
    <3>3. Len(queue') # 1
      BY <2>2, <2>3
    <3> QED
      BY <2>2, <2>3, <3>2, <3>3 DEF Busy, LastIsFresh, FreshActsForNow, QuietMeansApplied
  <2>4. CASE queue = <<>>
    BY <1>2, <2>2, <2>4, StartsFresh DEF Asked, Busy, LastIsFresh, QuietMeansApplied
  <2> QED
    BY <2>3, <2>4
<1> QED
  BY <1>1, <1>2

\* What goes on with a result: it asks the queue again, or leaves the option alone.
LEMMA ResolvesAs ==
    ASSUME Types, queue # <<>>, NEW ok, Resolves(ok)
    PROVE  /\ settled' = ok
           /\ \/ Silent(Tail(queue), FALSE) /\ option' = option
              \/ Asked(Tail(queue), FALSE)
<1> DEFINE q == Tail(queue)
<1>1. q \in Seq(Waiter) /\ run \in Run
  BY DEF Types
<1>2. {"conn", "disc", "dog", "toggle", "nobody"} \subseteq Waiter
  BY DEF Waiter, Flow
<1>3. settled' = ok
  BY DEF Resolves
<1>4. CASE option' = option /\ Silently(q, FALSE)
  BY <1>1, <1>3, <1>4, SilentApply DEF Silently
<1>5. CASE \E w : \E who \in Waiter : Apply(q, Call(w, who), FALSE)
  BY <1>1, <1>3, <1>5, AskedApply
<1>6. CASE ConnAnswered(ok, q)
  <2> HIDE DEF q
  <2>1. option' = option
    BY <1>6 DEF ConnAnswered
  <2>2. ASSUME NEW p, NEW r, ConnShuts(p, r, q, FALSE)
        PROVE  Silently(q, FALSE) \/ Apply(q, Call(Off(TRUE), "conn"), FALSE)
    BY <2>2 DEF ConnShuts
  <2>3. ASSUME ConnFails(q, FALSE)
        PROVE  Silently(q, FALSE) \/ Apply(q, Call(Off(TRUE), "conn"), FALSE)
    BY <2>2, <2>3 DEF ConnFails, ConnGivesUp
  <2>4. \/ Silently(q, FALSE) \/ Apply(q, Call(Off(TRUE), "conn"), FALSE)
        \/ Apply(q, Call(Off(TRUE), "nobody"), FALSE)
    <3>1. CASE conn.pc = "barrier"
      BY <1>6, <3>1 DEF ConnAnswered, ConnGivesUp, Ending
    <3>2. CASE conn.pc # "barrier"
      BY <1>6, <2>3, <3>2 DEF ConnAnswered, ConnGivesUp
    <3> QED
      BY <3>1, <3>2
  <2> QED
    BY <1>2, <1>4, <1>5, <2>1, <2>4
<1>7. CASE DiscAnswered(ok, q)
  BY <1>2, <1>5, <1>7 DEF DiscAnswered, Ending
<1>8. CASE DogAnswered(ok, q)
  <2> HIDE DEF q
  <2>1. option' = option
    BY <1>8 DEF DogAnswered
  <2>2. \/ Silently(q, FALSE) \/ Apply(q, Call(On("connected"), "dog"), FALSE)
        \/ Apply(q, Call(Off(FALSE), "dog"), FALSE)
    BY <1>8 DEF DogAnswered
  <2> QED
    BY <1>2, <1>4, <1>5, <2>1, <2>2
<1>9. CASE ToggleAnswered(ok, q)
  <2> HIDE DEF q
  <2>1. CASE toggle.pc = "apply" /\ ~ok
    <3>1. \/ Apply(q, Call(On("connected"), "toggle"), FALSE)
          \/ Apply(q, Call(Off(FALSE), "toggle"), FALSE)
      BY <1>9, <2>1 DEF ToggleAnswered
    <3> QED
      BY <1>2, <1>5, <3>1
  <2>2. CASE ~(toggle.pc = "apply" /\ ~ok)
    BY <1>4, <1>9, <2>2 DEF ToggleAnswered
  <2> QED
    BY <2>1, <2>2
<1> QED
  BY <1>4, <1>6, <1>7, <1>8, <1>9 DEF Resolves

\* A result that is confirmed for the last one in the queue is what is wanted now.
LEMMA ResolvesKeeps ==
    ASSUME Inv, queue # <<>>, NEW ok, Resolves(ok), UNCHANGED <<strict, policy>>,
           ok /\ run.fresh => policy \in IF ~Wanted THEN {"none"}
                                         ELSE IF wish.preserve THEN {"block", "tunnel"}
                                         ELSE {Goal}
    PROVE  Inv'
<1> USE DEF Inv, Types
<1>1. /\ settled' = ok
      /\ \/ Silent(Tail(queue), FALSE) /\ option' = option
         \/ Asked(Tail(queue), FALSE)
  BY ResolvesAs
<1>2. Tail(queue) \in Seq(Waiter) /\ (Tail(queue) = <<>> => Len(queue) = 1)
  <2>1. queue \in Seq(Waiter) /\ queue # <<>>
    OBVIOUS
  <2>3. Tail(queue) \in Seq(Waiter) /\ Len(Tail(queue)) = Len(queue) - 1 /\ Len(queue) \in Nat
    BY ONLY <2>1
  <2>2. Tail(queue) = <<>> => Len(Tail(queue)) = 0
    <3>1. Len(<<>>) = 0
      OBVIOUS
    <3> QED
      BY ONLY <3>1, Zenon
  <2> QED
    BY <2>2, <2>3
<1>3. CASE Asked(Tail(queue), FALSE)
  <2>1. PICK who \in Waiter : queue' = Append(Tail(queue), who)
    BY <1>3 DEF Asked
  <2>2. queue' \in Seq(Waiter) /\ queue' # <<>>
    BY <1>2, <2>1
  <2> QED
    BY <1>3, <2>2, StartsFresh DEF Asked, Busy, LastIsFresh, QuietMeansApplied
<1>4. CASE Silent(Tail(queue), FALSE) /\ Tail(queue) # <<>>
  BY <1>2, <1>4, StartsFresh DEF Silent, Busy, LastIsFresh, QuietMeansApplied
<1>5. CASE Silent(Tail(queue), FALSE) /\ option' = option /\ Tail(queue) = <<>>
  <2>1. run.fresh /\ UNCHANGED <<wish, option, strict, policy>> /\ queue' = <<>> /\ run' = NoRun
    BY <1>2, <1>5 DEF LastIsFresh, Silent
  <2>2. QuietMeansApplied'
    BY <1>1, <2>1 DEF QuietMeansApplied, Wanted, Goal
  <2> QED
    BY <2>1, <2>2 DEF NoRun, Run, Busy, LastIsFresh, FreshActsForNow
<1> QED
  BY <1>1, <1>3, <1>4, <1>5

\* The steps of a reconciliation.
LEMMA ReconcileKeeps ==
    ASSUME Inv, Reconcile \/ CommandFails
    PROVE  Inv'
<1> USE DEF Inv
<1>1. queue # <<>>
  BY DEF Reconcile, AskedActive, AskedElevated, Armed, Confirmed, Disarmed, DisarmAnswered,
     CommandFails, Busy
<1>2. UNCHANGED strict
  BY DEF Reconcile, AskedActive, AskedElevated, Armed, Confirmed, Disarmed, DisarmAnswered,
     CommandFails, World
<1>3. ASSUME NEW step \in {"elevated", "arm", "confirm", "disarmed"},
             NEW to \in {"none", "block", "tunnel"}, RunGoes(step, to)
      PROVE  /\ UNCHANGED <<wish, option, queue, strict>>
             /\ run' \in Run /\ run'.step = step /\ run'.to = to /\ run'.fresh = run.fresh
             /\ Busy' /\ LastIsFresh' /\ QuietMeansApplied'
             /\ (Wanted' <=> Wanted) /\ Goal' = Goal
  <2>1. UNCHANGED <<wish, option, queue, strict>>
    BY <1>2, <1>3 DEF RunGoes
  <2>2. run' \in Run /\ run'.step = step /\ run'.to = to /\ run'.fresh = run.fresh
    BY <1>3 DEF RunGoes, Types, Run
  <2>3. (Wanted' <=> Wanted) /\ Goal' = Goal
    BY <2>1 DEF Wanted, Goal
  <2> QED
    BY <1>1, <2>1, <2>2, <2>3 DEF Busy, LastIsFresh, QuietMeansApplied
<1>4. CASE AskedActive
  <2>1. CASE policy # "none"
    <3>1. run.fresh => Wanted /\ ~wish.connected
      BY <1>4 DEF AskedActive, FreshActsForNow
    <3>2. run.fresh => policy \in IF ~Wanted THEN {"none"}
                                  ELSE IF wish.preserve THEN {"block", "tunnel"} ELSE {Goal}
      BY <2>1, <3>1 DEF Wanted, Types
    <3> QED
      BY <1>1, <1>2, <1>4, <2>1, <3>2, ResolvesKeeps DEF AskedActive
  <2>2. CASE policy = "none"
    <3>1. RunGoes("elevated", "none") /\ UNCHANGED policy /\ run.step = "active"
      BY <1>4, <2>2 DEF AskedActive
    <3>2. FreshActsForNow'
      BY <1>3, <3>1 DEF FreshActsForNow, Wanted
    <3> QED
      BY <1>3, <3>1, <3>2 DEF Types
  <2> QED
    BY <2>1, <2>2
<1>5. CASE AskedElevated
  <2>1. CASE Resolves(FALSE)
    BY <1>1, <1>2, <1>5, <2>1, ResolvesKeeps DEF AskedElevated
  <2>2. CASE run.fresh /\ RunGoes("arm", Goal)
    <3>1. UNCHANGED policy /\ run.step = "elevated" /\ Goal \in {"none", "block", "tunnel"}
      BY <1>5 DEF AskedElevated, Goal
    <3>2. FreshActsForNow'
      BY <1>3, <2>2, <3>1 DEF FreshActsForNow
    <3> QED
      BY <1>3, <2>2, <3>1, <3>2 DEF Types
  <2> QED
    BY <1>5, <2>1, <2>2 DEF AskedElevated, Goal
<1>6. CASE Armed
  <2>1. RunGoes("confirm", "none") /\ policy' = run.to /\ run.step = "arm"
    BY <1>6 DEF Armed
  <2>2. policy' \in {"none", "block", "tunnel"}
    BY <2>1 DEF Types, Run
  <2>3. FreshActsForNow'
    BY <1>3, <2>1 DEF FreshActsForNow
  <2> QED
    BY <1>3, <2>1, <2>2, <2>3 DEF Types
<1>7. CASE Confirmed
  <2>1. run.fresh /\ policy # "none"
          => policy \in IF ~Wanted THEN {"none"}
                        ELSE IF wish.preserve THEN {"block", "tunnel"} ELSE {Goal}
    BY <1>7 DEF Confirmed, FreshActsForNow, Types
  <2> QED
    BY <1>1, <1>2, <1>7, <2>1, ResolvesKeeps DEF Confirmed
<1>8. CASE Disarmed
  <2>1. RunGoes("disarmed", "none") /\ policy' = "none" /\ run.step = "disarm"
    BY <1>8 DEF Disarmed
  <2>2. FreshActsForNow'
    BY <1>3, <2>1 DEF FreshActsForNow, Wanted
  <2> QED
    BY <1>3, <2>1, <2>2 DEF Types
<1>9. CASE DisarmAnswered
  <2>1. run.fresh => policy = "none" /\ ~Wanted
    BY <1>9 DEF DisarmAnswered, FreshActsForNow
  <2> QED
    BY <1>1, <1>2, <1>9, <2>1, ResolvesKeeps DEF DisarmAnswered
<1>10. CASE CommandFails
  BY <1>1, <1>2, <1>10, ResolvesKeeps DEF CommandFails
<1> QED
  BY <1>4, <1>5, <1>6, <1>7, <1>8, <1>9, <1>10 DEF Reconcile

\* What a step beside them does to the queue.
LEMMA BesideAs ==
    ASSUME Inv, UNCHANGED <<strict, policy, settled, option>>,
           \/ UNCHANGED <<wish, queue, run>>
           \/ Silently(queue, Now)
           \/ \E w : \E who \in Waiter : Apply(queue, Call(w, who), Now)
    PROVE  Inv'
<1>1. queue \in Seq(Waiter) /\ run \in Run
  BY DEF Inv, Types
<1>2. CASE UNCHANGED <<wish, queue, run>>
  BY <1>2 DEF Inv, Types, Busy, LastIsFresh, FreshActsForNow, Wanted, Goal, QuietMeansApplied
<1>3. CASE Silently(queue, Now)
  BY <1>1, <1>3, SilentApply, BesideKeeps DEF Silently, Now
<1>4. CASE \E w : \E who \in Waiter : Apply(queue, Call(w, who), Now)
  BY <1>1, <1>4, AskedApply, BesideKeeps DEF Now
<1> QED
  BY <1>2, <1>3, <1>4

LEMMA Beside ==
    ASSUME Inv, Connect \/ Reconnect \/ Connecting \/ Disconnect \/ Disconnects \/ Watching \/ Dies
    PROVE  Inv'
<1>1. {"conn", "disc", "dog", "nobody"} \subseteq Waiter
  BY DEF Waiter, Flow
<1>2. CASE Connect \/ Reconnect \/ Dies
  BY <1>2, BesideAs DEF Connect, Reconnect, Dies, Rests, World
<1>3. CASE Disconnect
  BY <1>3, BesideAs DEF Disconnect
<1>4. CASE Disconnects
  BY <1>1, <1>4, BesideAs DEF Disconnects, DiscStopped, Ending, Rests, World
<1>5. CASE Connecting
  <2>1. ASSUME NEW p, NEW r, ConnShuts(p, r, queue, Now)
        PROVE  Silently(queue, Now) \/ Apply(queue, Call(Off(TRUE), "conn"), Now)
    BY <2>1 DEF ConnShuts
  <2>2. ASSUME ConnFails(queue, Now)
        PROVE  Silently(queue, Now) \/ Apply(queue, Call(Off(TRUE), "conn"), Now)
    BY <2>1, <2>2 DEF ConnFails, ConnGivesUp
  <2>3. UNCHANGED <<strict, policy, settled, option>>
    BY <1>5 DEF Connecting, ConnClaimed, ConnStopped, Observed, NotObserved, Started,
       FinalSnapshot, Verified, Rests, World
  <2>4. ASSUME NEW ok \in BOOLEAN, ConnClaimed(ok)
        PROVE  Silently(queue, Now) \/ Apply(queue, Call(Off(TRUE), "conn"), Now)
    BY <2>1, <2>4 DEF ConnClaimed, ConnGivesUp
  <2>5. ASSUME NEW ok \in BOOLEAN, ConnStopped(ok)
        PROVE  \E w : Apply(queue, Call(w, "nobody"), Now)
    BY <2>5 DEF ConnStopped, Ending
  <2>6. ASSUME NEW ok \in BOOLEAN, Observed(ok)
        PROVE  Silently(queue, Now) \/ Apply(queue, Call(On("preconnect"), "conn"), Now)
    BY <2>6 DEF Observed, ConnGivesUp, Silently
  <2>7. CASE NotObserved
    BY <1>1, <2>3, <2>7, BesideAs DEF NotObserved, Ending
  <2>8. ASSUME NEW ok \in BOOLEAN, Started(ok) \/ FinalSnapshot(ok) \/ Verified(ok)
        PROVE  \/ Silently(queue, Now) \/ Apply(queue, Call(Off(TRUE), "conn"), Now)
               \/ Apply(queue, Call(On("connected"), "conn"), Now)
    <3>1. CASE Started(ok)
      BY <2>2, <3>1 DEF Started
    <3>2. CASE FinalSnapshot(ok)
      BY <2>2, <3>2 DEF FinalSnapshot
    <3>3. CASE Verified(ok)
      BY <2>2, <3>3 DEF Verified
    <3> QED
      BY <2>8, <3>1, <3>2, <3>3
  <2> QED
    BY <1>1, <1>5, <2>3, <2>4, <2>5, <2>6, <2>7, <2>8, BesideAs DEF Connecting
<1>6. CASE Watching
  <2>1. UNCHANGED <<strict, policy, settled, option>>
    BY <1>6 DEF Watching, Tick, HealthSnapshot, Examined, Restored, DogClaimed, DogStopped, Rests,
       World
  <2>2. CASE Tick \/ HealthSnapshot \/ Restored
    BY <2>1, <2>2, BesideAs DEF Tick, HealthSnapshot, Restored
  <2>3. CASE Examined
    <3>1. \/ Silently(queue, Now)
          \/ \E w : Apply(queue, Call(w, "dog"), Now)
      BY <2>3 DEF Examined
    <3> QED
      BY <1>1, <2>1, <3>1, BesideAs
  <2>4. ASSUME NEW ok \in BOOLEAN, DogClaimed(ok) PROVE Inv'
    <3>1. Silently(queue, Now) \/ Apply(queue, Call(Off(TRUE), "dog"), Now)
      BY <2>4 DEF DogClaimed
    <3> QED
      BY <1>1, <2>1, <3>1, BesideAs
  <2>5. ASSUME NEW ok \in BOOLEAN, NEW restores \in BOOLEAN, DogStopped(ok, restores) PROVE Inv'
    <3>1. \E w : Apply(queue, Call(w, "nobody"), Now)
      BY <2>5 DEF DogStopped, Ending
    <3> QED
      BY <1>1, <2>1, <3>1, BesideAs
  <2> QED
    BY <1>6, <2>2, <2>3, <2>4, <2>5 DEF Watching
<1> QED
  BY <1>2, <1>3, <1>4, <1>5, <1>6

\* The switch in the settings asks the queue along with every change.
LEMMA TurnKeeps == ASSUME Inv, Turn PROVE Inv'
<1> DEFINE q == [i \in DOMAIN queue |-> IF queue[i] = "toggle" THEN "nobody" ELSE queue[i]]
<1>1. queue \in Seq(Waiter) /\ run \in Run
  BY DEF Inv, Types
<1>2. q \in Seq(Waiter) /\ (q = <<>> <=> queue = <<>>) /\ Len(q) = Len(queue)
  BY <1>1 DEF Waiter, Flow
<1>3. PICK w : Apply(q, Call(w, "toggle"), Now)
  BY DEF Turn
<1>4. Asked(q, Now)
  <2> HIDE DEF q
  <2> QED
    BY <1>2, <1>3, AskedApply DEF Waiter, Flow
<1>5. UNCHANGED policy /\ settled' = FALSE
  BY DEF Turn
<1>6. queue' \in Seq(Waiter) /\ queue' # <<>> /\ Len(queue') = Len(queue) + 1
  <2>1. PICK who \in Waiter : queue' = Append(q, who)
    BY <1>4 DEF Asked
  <2> HIDE DEF q
  <2> QED
    BY <1>2, <2>1
<1>7. CASE queue # <<>>
  <2>1. run' = [run EXCEPT !.fresh = FALSE]
    BY <1>4, <1>7 DEF Asked, Now
  <2>2. run' \in Run /\ run'.fresh = FALSE /\ run'.step = run.step
    BY <1>1, <2>1 DEF Run
  <2>3. Len(queue') # 1
    BY <1>1, <1>6, <1>7
  <2> QED
    BY <1>5, <1>6, <1>7, <2>2, <2>3
       DEF Inv, Types, Busy, LastIsFresh, FreshActsForNow, QuietMeansApplied
<1>8. CASE queue = <<>>
  BY <1>4, <1>5, <1>6, <1>8, StartsFresh
     DEF Asked, Now, Inv, Types, Busy, LastIsFresh, QuietMeansApplied
<1> QED
  BY <1>7, <1>8

LEMMA NextKeeps == Inv /\ [Next]_vars => Inv'
<1> SUFFICES ASSUME Inv, [Next]_vars PROVE Inv'
  OBVIOUS
<1>1. CASE FiltersVanish
  BY <1>1 DEF FiltersVanish, World, Inv, Types, Busy, LastIsFresh, FreshActsForNow, Wanted, Goal,
     QuietMeansApplied
<1>2. CASE UNCHANGED vars
  BY <1>2, BesideAs DEF vars
<1> QED
  BY <1>1, <1>2, ReconcileKeeps, Beside, TurnKeeps DEF Next, Rest

LEMMA InitInv == Init => Inv
<1> SUFFICES ASSUME Init PROVE Inv
  OBVIOUS
<1>1. queue = <<>> /\ Len(queue) # 1 /\ queue \in Seq(Waiter)
  BY DEF Init
<1>2. run = NoRun /\ NoRun \in Run /\ NoRun.step = "none" /\ ~NoRun.fresh
  BY DEF Init, NoRun, Run
<1>3. policy = "none" /\ settled = FALSE
  BY DEF Init
<1> QED
  BY <1>1, <1>2, <1>3 DEF Inv, Types, Busy, LastIsFresh, FreshActsForNow, QuietMeansApplied

-----------------------------------------------------------------------------
\* The last confirmed reconciliation leaves what was asked for last, for any number
\* of clicks, changes of the option and faults: apply and reconcile,
\* kill-switch.js:54-142.
THEOREM LastWishIsApplied == Spec => []QuietMeansApplied
<1>1. Inv => QuietMeansApplied
  BY DEF Inv
<1> QED
  BY <1>1, InitInv, NextKeeps, PTL DEF Spec
-----------------------------------------------------------------------------
(* Who waits for the queue.  TypeOK says that a flow stands in it exactly while its
   own locals say so, and once: nobody is answered twice and nobody waits forever
   for an answer that was never asked for. *)

In(q, w) == \E i \in DOMAIN q : q[i] = w
Once(q, w) == \A i, j \in DOMAIN q : q[i] = w /\ q[j] = w => i = j

\* The flows whose locals say that they wait.
Waits ==
    {w \in Flow : \/ w = "dog" /\ dog.pc \in {"barrier", "rearm", "reconcile"}
                  \/ w = "conn" /\ conn.pc \in {"barrier", "preflight", "guard"}
                  \/ w = "disc" /\ disc = "release"
                  \/ w = "toggle" /\ toggle.pc # "off"}

\* The queue q has each flow of S once, and no other.
Holds(q, S) == q \in Seq(Waiter) /\ \A w \in Flow : Once(q, w) /\ (In(q, w) <=> w \in S)

Locals ==
    /\ {strict, elevated, option, up, latch, settled} \subseteq BOOLEAN
    /\ state \in {"idle", "connecting", "connected", "disconnecting", "cleanup_error"}
    /\ desired \in {"idle", "connected"}
    /\ wish \in Wish
    /\ dog \in Dog /\ conn \in Conn /\ toggle \in Toggle
    /\ disc \in {"off", "stopping", "release"}
    /\ stops \in Seq({"dog", "conn", "disc"}) /\ {made, late} \subseteq BOOLEAN
    /\ events \in 0 .. MaxEvents /\ faults \in 0 .. MaxFaults

\* The type invariant, in the parts that the proofs treat one by one.
LEMMA TypeParts == TypeOK <=> Locals /\ Types /\ Busy /\ Holds(queue, Waits)
<1>1. Holds(queue, Waits) <=>
        /\ queue \in Seq(Waiter)
        /\ \A w \in Flow : Once(queue, w)
        /\ In(queue, "dog") <=> dog.pc \in {"barrier", "rearm", "reconcile"}
        /\ In(queue, "conn") <=> conn.pc \in {"barrier", "preflight", "guard"}
        /\ In(queue, "disc") <=> disc = "release"
        /\ In(queue, "toggle") <=> toggle.pc # "off"
  BY DEF Holds, Waits, Flow
<1> QED
  BY <1>1 DEF TypeOK, Locals, Types, Busy, In, Once

LEMMA TypePartsNext == (Locals /\ Types /\ Busy /\ Holds(queue, Waits))' => TypeOK'
BY TypeParts, PTL

\* Somebody who does not wait goes behind the queue.
LEMMA AppendHolds ==
    ASSUME NEW S, NEW q, Holds(q, S), NEW who \in Waiter, who \notin S
    PROVE  Holds(Append(q, who), S \cup {who})
<1> DEFINE a == Append(q, who)
<1>1. q \in Seq(Waiter) /\ a \in Seq(Waiter) /\ Len(a) = Len(q) + 1
  BY DEF Holds
<1>2. /\ DOMAIN q = 1 .. Len(q) /\ DOMAIN a = 1 .. Len(q) + 1 /\ Len(q) \in Nat
      /\ \A i \in 1 .. Len(q) : a[i] = q[i]
      /\ a[Len(q) + 1] = who
  BY <1>1
<1> HIDE DEF a
<1>3. ASSUME NEW w \in Flow
      PROVE  (In(a, w) <=> In(q, w) \/ w = who)
  BY <1>2 DEF In
<1>4. ASSUME NEW w \in Flow PROVE Once(a, w)
  <2>1. Once(q, w) /\ (In(q, w) <=> w \in S)
    BY DEF Holds
  <2>2. w = who => \A i \in 1 .. Len(q) : q[i] # w
    BY <1>2, <2>1 DEF In
  <2> QED
    BY <1>2, <2>1, <2>2 DEF Once
<1> QED
  BY <1>1, <1>3, <1>4 DEF Holds, a

\* The first one is answered.
LEMMA TailHolds ==
    ASSUME NEW S, NEW q, Holds(q, S), q # <<>>
    PROVE  Holds(Tail(q), S \ {Head(q)}) /\ (Head(q) \in Flow => Head(q) \in S)
<1> DEFINE t == Tail(q)
<1>1. q \in Seq(Waiter) /\ t \in Seq(Waiter) /\ Len(t) = Len(q) - 1 /\ Len(q) \in Nat \ {0}
  BY DEF Holds
<1>2. /\ DOMAIN q = 1 .. Len(q) /\ DOMAIN t = 1 .. Len(q) - 1
      /\ Head(q) = q[1] /\ \A i \in 1 .. Len(q) - 1 : t[i] = q[i + 1]
  BY <1>1
<1> HIDE DEF t
<1>3. ASSUME NEW w \in Flow
      PROVE  Once(t, w) /\ (In(t, w) <=> w \in S /\ w # Head(q))
  <2>1. Once(q, w) /\ (In(q, w) <=> w \in S)
    BY DEF Holds
  <2>2. Once(t, w)
    <3> SUFFICES ASSUME NEW i \in 1 .. Len(q) - 1, NEW j \in 1 .. Len(q) - 1, t[i] = w, t[j] = w
                 PROVE  i = j
      BY <1>2 DEF Once
    <3>1. i + 1 \in 1 .. Len(q) /\ j + 1 \in 1 .. Len(q) /\ q[i + 1] = w /\ q[j + 1] = w
      BY <1>1, <1>2
    <3>2. i + 1 = j + 1
      BY <1>2, <2>1, <3>1 DEF Once
    <3> QED
      BY <3>2
  <2>3. In(t, w) => In(q, w) /\ w # Head(q)
    <3> SUFFICES ASSUME NEW i \in 1 .. Len(q) - 1, t[i] = w
                 PROVE  In(q, w) /\ w # Head(q)
      BY <1>2 DEF In
    <3>1. i + 1 \in 1 .. Len(q) /\ 1 \in 1 .. Len(q) /\ i + 1 # 1 /\ q[i + 1] = w
      BY <1>1, <1>2
    <3> QED
      BY <1>2, <2>1, <3>1 DEF In, Once
  <2>4. In(q, w) /\ w # Head(q) => In(t, w)
    <3> SUFFICES ASSUME NEW i \in 1 .. Len(q), q[i] = w, w # q[1]
                 PROVE  In(t, w)
      BY <1>2 DEF In
    <3>1. i - 1 \in 1 .. Len(q) - 1 /\ t[i - 1] = w
      BY <1>1, <1>2
    <3> QED
      BY <1>2, <3>1 DEF In
  <2> QED
    BY <2>1, <2>2, <2>3, <2>4
<1>4. Head(q) \in Flow => Head(q) \in S
  <2>1. 1 \in DOMAIN q /\ q[1] = Head(q)
    BY <1>1, <1>2
  <2> QED
    BY <2>1 DEF Holds, In
<1> QED
  BY <1>1, <1>3, <1>4 DEF Holds, t

\* What the flow f does to the queue q without it: it goes on alone, asks and waits,
\* or leaves behind a call that nobody waits for.
Moves(f, q, runs) ==
    \/ Silently(q, runs) /\ Waits' = Waits \ {f}
    \/ \E w \in Wish : Apply(q, Call(w, f), runs) /\ Waits' = Waits \cup {f}
    \/ \E w \in Wish : Apply(q, Call(w, "nobody"), runs) /\ Waits' = Waits \ {f}

LEMMA MovesKeeps ==
    ASSUME TypeOK, NEW f \in Flow, NEW q, Holds(q, Waits \ {f}), NEW runs, Moves(f, q, runs)
    PROVE  Holds(queue, Waits)' /\ wish' \in Wish
<1>1. q \in Seq(Waiter) /\ run \in Run /\ wish \in Wish /\ f \in Waiter /\ "nobody" \in Waiter
  BY DEF Holds, TypeOK, Waiter
<1>2. CASE Silently(q, runs) /\ Waits' = Waits \ {f}
  BY <1>1, <1>2, SilentApply DEF Silently, Silent, Holds
<1>3. ASSUME NEW w \in Wish, Apply(q, Call(w, f), runs), Waits' = Waits \cup {f}
      PROVE  Holds(queue, Waits)' /\ wish' \in Wish
  <2>1. queue' = Append(q, f) /\ wish' = w
    BY <1>1, <1>3, AskedForApply DEF AskedFor
  <2>2. Holds(Append(q, f), (Waits \ {f}) \cup {f})
    BY <1>1, AppendHolds
  <2>3. Waits' = (Waits \ {f}) \cup {f}
    BY <1>3
  <2> QED
    BY <2>1, <2>2, <2>3 DEF Holds
<1>4. ASSUME NEW w \in Wish, Apply(q, Call(w, "nobody"), runs), Waits' = Waits \ {f}
      PROVE  Holds(queue, Waits)' /\ wish' \in Wish
  <2>1. queue' = Append(q, "nobody") /\ wish' = w
    BY <1>1, <1>4, AskedForApply DEF AskedFor
  <2>2. "nobody" \notin Waits
    BY DEF Waits, Flow
  <2>3. Holds(Append(q, "nobody"), (Waits \ {f}) \cup {"nobody"})
    BY <1>1, <2>2, AppendHolds
  <2> QED
    BY <1>4, <2>1, <2>3 DEF Holds, Flow
<1> QED
  BY <1>2, <1>3, <1>4 DEF Moves

\* A flow that does not wait leaves the queue as it is before its own call.
LEMMA QueueWithout ==
    ASSUME TypeOK, NEW f, f \notin Waits
    PROVE  Holds(queue, Waits \ {f})
<1>1. Waits \ {f} = Waits
  OBVIOUS
<1> QED
  BY <1>1, TypeParts

LEMMA Wishes ==
    /\ On("connected") \in Wish /\ On("preconnect") \in Wish
    /\ \A preserve \in BOOLEAN : Off(preserve) \in Wish
    /\ Required \in BOOLEAN
BY DEF On, Off, Wish, Required

\* The timer of the watchdog is started and stopped beside what the watchdog awaits.
LEMMA TimerKeeps ==
    ASSUME NEW d \in Dog
    PROVE  /\ Watch(d) \in Dog /\ Watch(d).pc = d.pc /\ Watch(d).preserve = d.preserve
           /\ Unwatch(d) \in Dog /\ Unwatch(d).pc = d.pc /\ Unwatch(d).preserve = d.preserve
           /\ Synced(d) \in Dog /\ Synced(d).pc = d.pc /\ Synced(d).preserve = d.preserve
<1>1. /\ Watch(d) \in Dog /\ Watch(d).pc = d.pc /\ Watch(d).preserve = d.preserve
  BY DEF Dog, Watch
<1>2. /\ Unwatch(d) \in Dog /\ Unwatch(d).pc = d.pc /\ Unwatch(d).preserve = d.preserve
  BY DEF Dog, Unwatch
<1> QED
  BY <1>1, <1>2 DEF Synced

\* What is shown and sent stays in its types; d is the watchdog before its timer.
LEMMA ShownTypes ==
    ASSUME Locals, NEW d \in Dog, NEW preserve \in BOOLEAN
    PROVE  /\ \A who \in {"dog", "conn", "disc"} : Disconnecting(who, preserve, d) =>
                  /\ latch' \in BOOLEAN /\ dog' \in Dog /\ dog'.pc = d.pc /\ dog'.preserve = d.preserve
                  /\ state' = "disconnecting" /\ stops' \in Seq({"dog", "conn", "disc"})
           /\ \A how \in {"idle", "cleanup_error"} : Over(how, preserve, d) =>
                  /\ latch' \in BOOLEAN /\ dog' \in Dog /\ dog'.pc = d.pc /\ dog'.preserve = d.preserve
                  /\ state' = how
           /\ \A who \in {"dog", "conn", "disc"}, ok \in BOOLEAN : Stopped(who, ok, preserve, d) =>
                  /\ latch' \in BOOLEAN /\ dog' \in Dog /\ dog'.pc = d.pc /\ dog'.preserve = d.preserve
                  /\ state' \in {"idle", "cleanup_error"} /\ up' \in BOOLEAN
                  /\ stops' \in Seq({"dog", "conn", "disc"})
<1> USE TimerKeeps
<1>1. \A who \in {"dog", "conn", "disc"} : Append(stops, who) \in Seq({"dog", "conn", "disc"})
  BY DEF Locals
<1>2. stops # <<>> => Tail(stops) \in Seq({"dog", "conn", "disc"})
  BY DEF Locals
<1>3. \A who \in {"dog", "conn", "disc"} : Disconnecting(who, preserve, d) =>
                  /\ latch' \in BOOLEAN /\ dog' \in Dog /\ dog'.pc = d.pc /\ dog'.preserve = d.preserve
                  /\ state' = "disconnecting" /\ stops' \in Seq({"dog", "conn", "disc"})
  BY <1>1 DEF Disconnecting, Locals
<1>4. \A how \in {"idle", "cleanup_error"} : Over(how, preserve, d) =>
                  /\ latch' \in BOOLEAN /\ dog' \in Dog /\ dog'.pc = d.pc /\ dog'.preserve = d.preserve
                  /\ state' = how
  BY DEF Over, Locals
<1>5. \A who \in {"dog", "conn", "disc"}, ok \in BOOLEAN : Stopped(who, ok, preserve, d) =>
                  /\ latch' \in BOOLEAN /\ dog' \in Dog /\ dog'.pc = d.pc /\ dog'.preserve = d.preserve
                  /\ state' \in {"idle", "cleanup_error"} /\ up' \in BOOLEAN
                  /\ stops' \in Seq({"dog", "conn", "disc"})
  BY <1>2, <1>4 DEF Stopped, Locals
<1> QED
  BY <1>3, <1>4, <1>5

\* The types of what a flow may change, and what it does to the queue.
FlowGoes(f, q, runs) ==
    /\ latch' \in BOOLEAN /\ dog' \in Dog /\ conn' \in Conn
    /\ state' \in {"idle", "connecting", "connected", "disconnecting", "cleanup_error"}
    /\ stops' \in Seq({"dog", "conn", "disc"})
    /\ Moves(f, q, runs)

LEMMA ConnShutsTypes ==
    ASSUME TypeOK, NEW preserve \in BOOLEAN, NEW again \in BOOLEAN, NEW q, NEW runs,
           ConnShuts(preserve, again, q, runs), UNCHANGED <<disc, toggle>>
    PROVE  FlowGoes("conn", q, runs)
<1>1. Locals
  BY TypeParts
<1>2. conn' = [conn EXCEPT !.preserve = preserve, !.again = again,
                           !.pc = IF preserve THEN "barrier" ELSE "stopping"]
  BY DEF ConnShuts
<1>3. conn' \in Conn /\ conn'.pc = IF preserve THEN "barrier" ELSE "stopping"
  BY <1>1, <1>2 DEF Locals, Conn
<1>4. CASE preserve
  <2>1. Apply(q, Call(Off(TRUE), "conn"), runs) /\ UNCHANGED Shown
    BY <1>4 DEF ConnShuts
  <2>2. Waits' = Waits \cup {"conn"}
    BY <1>3, <1>4, <2>1 DEF Waits, Flow, Shown
  <2> QED
    BY <1>1, <1>3, <2>1, <2>2, Wishes DEF FlowGoes, Moves, Shown, Locals
<1>5. CASE ~preserve
  <2>1. Silently(q, runs) /\ Disconnecting("conn", FALSE, dog)
    BY <1>5 DEF ConnShuts
  <2>2. /\ latch' \in BOOLEAN /\ dog' \in Dog /\ dog'.pc = dog.pc
        /\ state' = "disconnecting" /\ stops' \in Seq({"dog", "conn", "disc"})
    BY <1>1, <2>1, ShownTypes DEF Locals
  <2>3. Waits' = Waits \ {"conn"}
    BY <1>3, <1>5, <2>2 DEF Waits, Flow
  <2> QED
    BY <1>3, <2>1, <2>2, <2>3 DEF FlowGoes, Moves
<1> QED
  BY <1>4, <1>5

LEMMA ConnGivesUpTypes ==
    ASSUME TypeOK, NEW q, NEW runs, ConnGivesUp(q, runs), UNCHANGED <<disc, toggle>>
    PROVE  FlowGoes("conn", q, runs)
<1>1. conn' = NoConn /\ Silently(q, runs) /\ UNCHANGED Shown
  BY DEF ConnGivesUp
<1>2. conn' \in Conn /\ conn'.pc = "off"
  BY <1>1 DEF NoConn, Conn
<1>3. Waits' = Waits \ {"conn"}
  BY <1>1, <1>2 DEF Waits, Flow, Shown
<1> QED
  BY <1>1, <1>2, <1>3 DEF FlowGoes, Moves, Shown, TypeOK

LEMMA ConnFailsTypes ==
    ASSUME TypeOK, NEW q, NEW runs, ConnFails(q, runs), UNCHANGED <<disc, toggle>>
    PROVE  FlowGoes("conn", q, runs)
<1>1. CASE conn.live
  BY <1>1, ConnShutsTypes, Wishes DEF ConnFails
<1>2. CASE ~conn.live
  BY <1>2, ConnGivesUpTypes DEF ConnFails
<1> QED
  BY <1>1, <1>2

\* Who stood first in the queue goes on with the result.
LEMMA ConnAnsweredTypes ==
    ASSUME TypeOK, NEW ok \in BOOLEAN, NEW q, ConnAnswered(ok, q)
    PROVE  FlowGoes("conn", q, FALSE) /\ UNCHANGED <<option, toggle, disc>>
<1> USE DEF TypeOK
<1>1. UNCHANGED <<option, disc, toggle>>
  BY DEF ConnAnswered
<1>2. ASSUME NEW pc \in {"stopping", "starting", "snapshot"}
      PROVE  [conn EXCEPT !.pc = pc] \in Conn /\ [conn EXCEPT !.pc = pc].pc = pc
  BY DEF Conn
<1>3. NoConn \in Conn /\ NoConn.pc = "off"
  BY DEF NoConn, Conn
<1>4. CASE conn.pc = "barrier" /\ ok
  <2>1. /\ conn' = [conn EXCEPT !.pc = "stopping"] /\ Disconnecting("conn", TRUE, dog)
        /\ Silently(q, FALSE)
    BY <1>4 DEF ConnAnswered
  <2>2. /\ latch' \in BOOLEAN /\ dog' \in Dog /\ dog'.pc = dog.pc
        /\ state' = "disconnecting" /\ stops' \in Seq({"dog", "conn", "disc"})
    BY <2>1, ShownTypes, TypeParts
  <2>3. Waits' = Waits \ {"conn"}
    BY <1>1, <1>2, <2>1, <2>2 DEF Waits, Flow
  <2> QED
    BY <1>1, <1>2, <2>1, <2>2, <2>3 DEF FlowGoes, Moves
<1>5. CASE conn.pc = "barrier" /\ ~ok /\ ~conn.again
  <2>1. /\ conn' = NoConn /\ Over("cleanup_error", TRUE, dog) /\ UNCHANGED stops
        /\ Apply(q, Call(Off(TRUE), "nobody"), FALSE)
    BY <1>5 DEF ConnAnswered, Ending
  <2>2. /\ latch' \in BOOLEAN /\ dog' \in Dog /\ dog'.pc = dog.pc /\ state' = "cleanup_error"
    BY <2>1, ShownTypes, TypeParts
  <2>3. Waits' = Waits \ {"conn"}
    BY <1>1, <1>3, <2>1, <2>2 DEF Waits, Flow
  <2> QED
    BY <1>1, <1>3, <2>1, <2>2, <2>3, Wishes DEF FlowGoes, Moves
<1>6. CASE conn.pc = "preflight" /\ ok
  <2>1. /\ conn' = [conn EXCEPT !.pc = "starting"] /\ latch' = TRUE /\ dog' = Watch(dog)
        /\ UNCHANGED <<state, stops>> /\ Silently(q, FALSE)
    BY <1>6 DEF ConnAnswered
  <2>2. Waits' = Waits \ {"conn"}
    BY <1>1, <1>2, <2>1, TimerKeeps DEF Waits, Flow
  <2> QED
    BY <1>1, <1>2, <2>1, <2>2, TimerKeeps DEF FlowGoes, Moves
<1>7. CASE conn.pc = "guard" /\ conn.live /\ ok
  <2>1. /\ conn' = [conn EXCEPT !.pc = "snapshot"] /\ latch' \in BOOLEAN
        /\ UNCHANGED <<state, dog, stops>> /\ Silently(q, FALSE)
    BY <1>7 DEF ConnAnswered
  <2>2. Waits' = Waits \ {"conn"}
    BY <1>1, <1>2, <2>1 DEF Waits, Flow
  <2> QED
    BY <1>1, <1>2, <2>1, <2>2 DEF FlowGoes, Moves
<1>8. CASE \/ conn.pc = "barrier" /\ ~ok /\ conn.again
           \/ conn.pc = "guard" /\ ~conn.live
  <2>1. ConnGivesUp(q, FALSE)
    BY <1>8 DEF ConnAnswered
  <2> QED
    BY <1>1, <2>1, ConnGivesUpTypes
<1>9. CASE \/ conn.pc \notin {"barrier", "preflight", "guard"}
           \/ conn.pc = "preflight" /\ ~ok
           \/ conn.pc = "guard" /\ conn.live /\ ~ok
  <2>1. ConnFails(q, FALSE)
    BY <1>9 DEF ConnAnswered
  <2> QED
    BY <1>1, <2>1, ConnFailsTypes
<1> QED
  BY <1>4, <1>5, <1>6, <1>7, <1>8, <1>9

LEMMA DiscAnsweredTypes ==
    ASSUME TypeOK, NEW ok \in BOOLEAN, NEW q, DiscAnswered(ok, q)
    PROVE  FlowGoes("disc", q, FALSE) /\ UNCHANGED <<option, toggle>> /\ disc' = "off"
<1> USE DEF TypeOK
<1> DEFINE keeps == ~ok /\ Required
<1>1. /\ UNCHANGED <<option, conn, toggle, stops>> /\ disc' = "off"
      /\ Over(IF ok THEN "idle" ELSE "cleanup_error", keeps, dog)
      /\ Apply(q, Call(Off(keeps), "nobody"), FALSE)
  BY DEF DiscAnswered, Ending
<1>2. keeps \in BOOLEAN /\ Off(keeps) \in Wish
  BY Wishes
<1> HIDE DEF keeps
<1>3. /\ latch' \in BOOLEAN /\ dog' \in Dog /\ dog'.pc = dog.pc
      /\ state' \in {"idle", "cleanup_error"}
  BY <1>1, <1>2, ShownTypes, TypeParts
<1>4. Waits' = Waits \ {"disc"}
  BY <1>1, <1>3 DEF Waits, Flow
<1> QED
  BY <1>1, <1>2, <1>3, <1>4 DEF FlowGoes, Moves

LEMMA DogAnsweredTypes ==
    ASSUME TypeOK, NEW ok \in BOOLEAN, NEW q, DogAnswered(ok, q)
    PROVE  FlowGoes("dog", q, FALSE) /\ UNCHANGED <<option, toggle, disc>>
<1> USE DEF TypeOK
<1>1. UNCHANGED <<option, conn, disc, toggle>>
  BY DEF DogAnswered
<1>2. ASSUME NEW pc \in {"stopping", "reconcile", "off"}
      PROVE  [dog EXCEPT !.pc = pc] \in Dog /\ [dog EXCEPT !.pc = pc].pc = pc
  BY DEF Dog
<1>3. CASE dog.pc = "barrier" /\ ok
  <2> DEFINE d == [dog EXCEPT !.pc = "stopping"]
  <2>1. Disconnecting("dog", TRUE, d) /\ Silently(q, FALSE)
    BY <1>3 DEF DogAnswered
  <2>2. d \in Dog /\ d.pc = "stopping"
    BY <1>2
  <2> HIDE DEF d
  <2>3. /\ latch' \in BOOLEAN /\ dog' \in Dog /\ dog'.pc = "stopping"
        /\ state' = "disconnecting" /\ stops' \in Seq({"dog", "conn", "disc"})
    BY <2>1, <2>2, ShownTypes, TypeParts
  <2>4. Waits' = Waits \ {"dog"}
    BY <1>1, <2>3 DEF Waits, Flow
  <2> QED
    BY <1>1, <2>1, <2>3, <2>4 DEF FlowGoes, Moves
<1>4. CASE dog.pc = "rearm" /\ ~Required
  <2> DEFINE w == IF state = "connected" THEN On("connected") ELSE Off(FALSE)
  <2>1. /\ dog' = [dog EXCEPT !.pc = "reconcile"] /\ UNCHANGED <<state, latch, stops>>
        /\ Apply(q, Call(w, "dog"), FALSE)
    BY <1>4 DEF DogAnswered
  <2>2. Waits' = Waits \cup {"dog"}
    BY <1>1, <1>2, <2>1 DEF Waits, Flow
  <2>3. w \in Wish
    BY Wishes
  <2> HIDE DEF w
  <2> QED
    BY <1>1, <1>2, <2>1, <2>2, <2>3 DEF FlowGoes, Moves
<1>5. CASE ~(dog.pc = "barrier" /\ ok) /\ ~(dog.pc = "rearm" /\ ~Required)
  <2>1. /\ dog' = [dog EXCEPT !.pc = "off"] /\ UNCHANGED <<state, latch, stops>>
        /\ Silently(q, FALSE)
    BY <1>5 DEF DogAnswered
  <2>2. Waits' = Waits \ {"dog"}
    BY <1>1, <1>2, <2>1 DEF Waits, Flow
  <2> QED
    BY <1>1, <1>2, <2>1, <2>2 DEF FlowGoes, Moves
<1> QED
  BY <1>1, <1>3, <1>4, <1>5

LEMMA ToggleAnsweredTypes ==
    ASSUME TypeOK, NEW ok \in BOOLEAN, NEW q, ToggleAnswered(ok, q)
    PROVE  /\ FlowGoes("toggle", q, FALSE) /\ UNCHANGED disc
           /\ option' \in BOOLEAN /\ toggle' \in Toggle
<1> USE DEF TypeOK
<1>1. UNCHANGED <<conn, disc, state, stops>>
  BY DEF ToggleAnswered
<1>2. ASSUME NEW pc \in {"revert", "off"}
      PROVE  [toggle EXCEPT !.pc = pc] \in Toggle /\ [toggle EXCEPT !.pc = pc].pc = pc
  BY DEF Toggle
<1>3. toggle.value \in BOOLEAN /\ toggle.arm \in BOOLEAN
  BY DEF Toggle
<1>4. CASE toggle.pc = "apply" /\ ~ok
  <2> DEFINE w == IF state = "connected" /\ ~toggle.value THEN On("connected") ELSE Off(FALSE)
  <2>1. /\ option' = ~toggle.value /\ toggle' = [toggle EXCEPT !.pc = "revert"]
        /\ UNCHANGED <<latch, dog>> /\ Apply(q, Call(w, "toggle"), FALSE)
    BY <1>4 DEF ToggleAnswered
  <2>2. Waits' = Waits \cup {"toggle"}
    BY <1>1, <1>2, <2>1 DEF Waits, Flow
  <2>3. w \in Wish
    BY Wishes
  <2> HIDE DEF w
  <2> QED
    BY <1>1, <1>2, <1>3, <2>1, <2>2, <2>3 DEF FlowGoes, Moves
<1>5. CASE ~(toggle.pc = "apply" /\ ~ok)
  <2>1. /\ UNCHANGED option /\ toggle' = [toggle EXCEPT !.pc = "off"]
        /\ dog' = Synced(dog) /\ Silently(q, FALSE)
    BY <1>5 DEF ToggleAnswered
  <2>2. latch' \in BOOLEAN
    BY <1>3, <1>5 DEF ToggleAnswered
  <2>3. Waits' = Waits \ {"toggle"}
    BY <1>1, <1>2, <2>1, TimerKeeps DEF Waits, Flow
  <2> QED
    BY <1>1, <1>2, <2>1, <2>2, <2>3, TimerKeeps DEF FlowGoes, Moves
<1> QED
  BY <1>4, <1>5

\* A flow that went on well leaves the type invariant to the rest of the state.
LEMMA FlowTypes ==
    ASSUME TypeOK, Inv', NEW f \in Flow, NEW q, Holds(q, Waits \ {f}), NEW runs,
           FlowGoes(f, q, runs),
           {strict', elevated', option', up', settled', made', late'} \subseteq BOOLEAN,
           desired' \in {"idle", "connected"}, toggle' \in Toggle,
           disc' \in {"off", "stopping", "release"},
           events' \in 0 .. MaxEvents, faults' \in 0 .. MaxFaults
    PROVE  TypeOK'
<1>1. Holds(queue, Waits)' /\ wish' \in Wish
  BY MovesKeeps DEF FlowGoes
<1>2. Locals'
  BY <1>1 DEF FlowGoes, Locals
<1>3. Types' /\ Busy'
  BY DEF Inv
<1> QED
  BY <1>1, <1>2, <1>3, TypePartsNext

\* The bounds count up to their limits.
LEMMA Counts ==
    ASSUME TypeOK, Event \/ Fault \/ Quiet
    PROVE  events' \in 0 .. MaxEvents /\ faults' \in 0 .. MaxFaults
BY GuardAssumption DEF TypeOK, Event, Fault, Quiet

LEMMA ResolvesTypes ==
    ASSUME TypeOK, Inv', queue # <<>>, NEW ok \in BOOLEAN, Resolves(ok), UNCHANGED World,
           Quiet \/ Fault
    PROVE  TypeOK'
<1> DEFINE q == Tail(queue)
           f == Head(queue)
<1>1. Holds(q, Waits \ {f}) /\ (f \in Flow => f \in Waits)
  BY TypeParts, TailHolds
<1>2. events' \in 0 .. MaxEvents /\ faults' \in 0 .. MaxFaults
  BY Counts
<1>3. settled' = ok /\ UNCHANGED <<up, desired, made>> /\ late' \in BOOLEAN
  BY DEF Resolves, TypeOK
<1>4. {strict', elevated', up', settled', made', late'} \subseteq BOOLEAN /\ desired' = desired
  BY <1>3 DEF TypeOK, World
<1>5. {"conn", "disc", "dog", "toggle"} \subseteq Flow
  BY DEF Flow
<1>6. CASE f = "nobody" /\ UNCHANGED <<option, Shown, conn, disc, toggle>> /\ Silently(q, FALSE)
  <2>1. Waits' = Waits /\ "nobody" \notin Waits
    BY <1>6 DEF Waits, Flow, Shown
  <2>2. Silent(q, FALSE)
    BY <1>1, <1>6, SilentApply DEF Silently, Holds, TypeOK
  <2>3. Holds(queue, Waits)'
    <3>1. Waits \ {f} = Waits
      BY <1>6, <2>1
    <3> QED
      BY <1>1, <2>1, <2>2, <3>1 DEF Silent, Holds
  <2>4. Locals'
    BY <1>2, <1>4, <1>6, <2>2 DEF Locals, TypeOK, Shown, Silent
  <2>5. Types' /\ Busy'
    BY DEF Inv
  <2> QED
    BY <2>3, <2>4, <2>5, TypePartsNext
<1> HIDE DEF q, f
<1>7. CASE f = "conn" /\ ConnAnswered(ok, q)
  <2>1. FlowGoes("conn", q, FALSE) /\ UNCHANGED <<option, toggle, disc>>
    BY <1>7, ConnAnsweredTypes
  <2> QED
    BY <1>1, <1>2, <1>4, <1>5, <1>7, <2>1, FlowTypes DEF TypeOK
<1>8. CASE f = "disc" /\ DiscAnswered(ok, q)
  <2>1. FlowGoes("disc", q, FALSE) /\ UNCHANGED <<option, toggle>> /\ disc' = "off"
    BY <1>8, DiscAnsweredTypes
  <2> QED
    BY <1>1, <1>2, <1>4, <1>5, <1>8, <2>1, FlowTypes DEF TypeOK
<1>9. CASE f = "dog" /\ DogAnswered(ok, q)
  <2>1. FlowGoes("dog", q, FALSE) /\ UNCHANGED <<option, toggle, disc>>
    BY <1>9, DogAnsweredTypes
  <2> QED
    BY <1>1, <1>2, <1>4, <1>5, <1>9, <2>1, FlowTypes DEF TypeOK
<1>10. CASE f = "toggle" /\ ToggleAnswered(ok, q)
  <2>1. /\ FlowGoes("toggle", q, FALSE) /\ UNCHANGED disc
        /\ option' \in BOOLEAN /\ toggle' \in Toggle
    BY <1>10, ToggleAnsweredTypes
  <2> QED
    BY <1>1, <1>2, <1>4, <1>5, <1>10, <2>1, FlowTypes DEF TypeOK
<1> QED
  BY <1>6, <1>7, <1>8, <1>9, <1>10 DEF Resolves, q, f

\* A step that leaves the queue alone.
LEMMA StillTypes ==
    ASSUME TypeOK, Inv', UNCHANGED queue, Waits' = Waits, Locals'
    PROVE  TypeOK'
<1>1. Holds(queue, Waits)'
  BY TypeParts DEF Holds
<1> QED
  BY <1>1, TypePartsNext DEF Inv

LEMMA ReconcileTypes == ASSUME TypeOK, Inv, Inv', Reconcile \/ CommandFails PROVE TypeOK'
<1>1. queue # <<>>
  BY DEF Reconcile, AskedActive, AskedElevated, Armed, Confirmed, Disarmed, DisarmAnswered,
     CommandFails, Inv, Busy
<1>2. UNCHANGED World /\ (Quiet \/ Fault)
  BY DEF Reconcile, AskedActive, AskedElevated, Armed, Confirmed, Disarmed, DisarmAnswered,
     CommandFails
<1>3. \/ \E ok \in BOOLEAN : Resolves(ok)
      \/ \E step, to : RunGoes(step, to)
  BY DEF Reconcile, AskedActive, AskedElevated, Armed, Confirmed, Disarmed, DisarmAnswered,
     CommandFails
<1>4. ASSUME NEW ok \in BOOLEAN, Resolves(ok) PROVE TypeOK'
  BY <1>1, <1>2, <1>4, ResolvesTypes
<1>5. ASSUME NEW step, NEW to, RunGoes(step, to) PROVE TypeOK'
  <2>1. events' \in 0 .. MaxEvents /\ faults' \in 0 .. MaxFaults
    BY <1>2, Counts
  <2>2. UNCHANGED queue /\ Waits' = Waits
    BY <1>5 DEF RunGoes, Waits
  <2>3. Locals'
    BY <1>2, <1>5, <2>1 DEF RunGoes, Locals, TypeOK, World
  <2> QED
    BY <2>2, <2>3, StillTypes
<1> QED
  BY <1>3, <1>4, <1>5

\* The steps that leave the queue alone.
LEMMA StillStepsTypes ==
    ASSUME TypeOK, Inv',
           \/ Connect \/ Reconnect \/ Tick \/ HealthSnapshot \/ Restored \/ FiltersVanish \/ Dies
           \/ UNCHANGED vars
    PROVE  TypeOK'
<1> USE DEF TypeOK
<1>1. CASE Connect \/ Reconnect
  <2>1. events' \in 0 .. MaxEvents /\ faults' \in 0 .. MaxFaults
    BY <1>1, Counts DEF Connect, Reconnect
  <2>2. conn.pc = "off" /\ conn' \in Conn /\ conn'.pc \in {"observe", "claim"}
    BY <1>1, Wishes DEF Connect, Reconnect, NoConn, Conn
  <2>3. UNCHANGED queue /\ Waits' = Waits
    BY <1>1, <2>2 DEF Connect, Reconnect, Waits, Flow
  <2>4. Locals'
    BY <1>1, <2>1, <2>2 DEF Connect, Reconnect, Locals, Rests, World
  <2> QED
    BY <2>3, <2>4, StillTypes
<1>2. CASE Tick \/ HealthSnapshot \/ Restored
  <2>1. events' \in 0 .. MaxEvents /\ faults' \in 0 .. MaxFaults
    BY <1>2, Counts DEF Tick, HealthSnapshot, Restored
  <2>2. /\ dog' \in Dog /\ dog.pc \in {"off", "asked", "restoring"}
        /\ dog'.pc \in {"asked", "read", "off"}
    BY <1>2 DEF Tick, HealthSnapshot, Restored, Dog
  <2>3. UNCHANGED queue /\ Waits' = Waits
    BY <1>2, <2>2 DEF Tick, HealthSnapshot, Restored, Waits, Flow
  <2>4. Locals'
    BY <1>2, <2>1, <2>2 DEF Tick, HealthSnapshot, Restored, Locals, Rests, World
  <2> QED
    BY <2>3, <2>4, StillTypes
<1>3. CASE FiltersVanish \/ Dies
  <2>1. events' \in 0 .. MaxEvents /\ faults' \in 0 .. MaxFaults
    BY <1>3, Counts DEF FiltersVanish, Dies
  <2>2. UNCHANGED queue /\ Waits' = Waits
    BY <1>3 DEF FiltersVanish, Dies, Waits, Flow, Shown
  <2>3. Locals'
    BY <1>3, <2>1 DEF FiltersVanish, Dies, Locals, World, Shown
  <2> QED
    BY <2>2, <2>3, StillTypes
<1>4. CASE UNCHANGED vars
  BY <1>4, StillTypes DEF vars, Waits, Locals
<1> QED
  BY <1>1, <1>2, <1>3, <1>4

\* What the connection flow does between its reconciliations.
LEMMA ConnTypes ==
    ASSUME TypeOK, Inv', Connecting
    PROVE  TypeOK'
<1> USE DEF TypeOK
<1>1. "conn" \in Flow
  BY DEF Flow
<1>2. SUFFICES /\ FlowGoes("conn", queue, Now) /\ conn.pc \notin {"barrier", "preflight", "guard"}
               /\ {strict', elevated', option', up', settled', made', late'} \subseteq BOOLEAN
               /\ UNCHANGED <<desired, toggle, disc>>
               /\ Quiet \/ Fault
  <2>1. "conn" \notin Waits
    BY <1>2 DEF Waits
  <2> QED
    BY <1>1, <1>2, <2>1, QueueWithout, FlowTypes, Counts
<1>3. /\ UNCHANGED <<option, desired, toggle, disc, World, settled, late>>
      /\ Quiet \/ Fault
      /\ conn.pc \in {"claim", "stopping", "observe", "starting", "snapshot", "verify"}
      /\ made' \in BOOLEAN
  BY DEF Connecting, ConnClaimed, ConnStopped, Observed, NotObserved, Started,
     FinalSnapshot, Verified, Rests
<1>4. {strict', elevated', option', settled', made', late'} \subseteq BOOLEAN
  BY <1>3 DEF World
<1>5. SUFFICES FlowGoes("conn", queue, Now) /\ up' \in BOOLEAN
  BY <1>3, <1>4
<1>6. ASSUME conn' \in Conn, conn'.pc \notin {"barrier", "preflight", "guard"},
             dog'.pc = dog.pc
      PROVE  Waits' = Waits \ {"conn"}
  BY <1>3, <1>6 DEF Waits, Flow
<1>7. NoConn \in Conn /\ NoConn.pc = "off"
  BY DEF NoConn, Conn
<1>8. ASSUME NEW ok \in BOOLEAN, ConnClaimed(ok)
      PROVE  FlowGoes("conn", queue, Now) /\ up' \in BOOLEAN
  <2>1. UNCHANGED <<up, disc, toggle>>
    BY <1>8 DEF ConnClaimed
  <2>2. CASE ConnGivesUp(queue, Now)
    BY <2>1, <2>2, ConnGivesUpTypes
  <2>3. CASE ConnShuts(conn.preserve, TRUE, queue, Now)
    <3>1. conn.preserve \in BOOLEAN
      BY DEF Conn
    <3> QED
      BY <2>1, <2>3, <3>1, ConnShutsTypes
  <2>4. CASE conn' = [conn EXCEPT !.pc = "observe"] /\ Silently(queue, Now) /\ UNCHANGED Shown
    <3>1. conn' \in Conn /\ conn'.pc = "observe"
      BY <2>4 DEF Conn
    <3>2. Waits' = Waits \ {"conn"}
      BY <1>6, <2>4, <3>1 DEF Shown
    <3> QED
      BY <2>1, <2>4, <3>1, <3>2 DEF FlowGoes, Moves, Shown
  <2>5. \/ ConnGivesUp(queue, Now) \/ ConnShuts(conn.preserve, TRUE, queue, Now)
        \/ conn' = [conn EXCEPT !.pc = "observe"] /\ Silently(queue, Now) /\ UNCHANGED Shown
    BY <1>8 DEF ConnClaimed
  <2> QED
    BY <2>2, <2>3, <2>4, <2>5
<1>9. ASSUME NEW ok \in BOOLEAN, ConnStopped(ok)
      PROVE  FlowGoes("conn", queue, Now) /\ up' \in BOOLEAN
  <2>1. /\ Stopped("conn", ok, conn.preserve, dog)
        /\ Apply(queue, Call(Off(conn.preserve), "nobody"), Now)
        /\ conn' = IF ok /\ conn.again /\ conn.live THEN [conn EXCEPT !.pc = "observe"] ELSE NoConn
    BY <1>9 DEF ConnStopped, Ending
  <2>2. conn.preserve \in BOOLEAN /\ Off(conn.preserve) \in Wish
    BY Wishes DEF Conn
  <2>3. conn' \in Conn /\ conn'.pc \in {"observe", "off"}
    BY <1>7, <2>1 DEF Conn
  <2>4. /\ latch' \in BOOLEAN /\ dog' \in Dog /\ dog'.pc = dog.pc
        /\ state' \in {"idle", "cleanup_error"} /\ up' \in BOOLEAN
        /\ stops' \in Seq({"dog", "conn", "disc"})
    BY <2>1, <2>2, ShownTypes, TypeParts
  <2>5. Waits' = Waits \ {"conn"}
    BY <1>6, <2>3, <2>4
  <2> QED
    BY <2>1, <2>2, <2>3, <2>4, <2>5 DEF FlowGoes, Moves
<1>10. ASSUME NEW ok \in BOOLEAN, Observed(ok)
       PROVE  FlowGoes("conn", queue, Now) /\ up' \in BOOLEAN
  <2>1. UNCHANGED <<up, disc, toggle>> /\ conn.pc = "observe"
    BY <1>10 DEF Observed
  <2>2. CASE ~conn.live
    BY <1>10, <2>1, <2>2, ConnGivesUpTypes DEF Observed
  <2>3. CASE conn.live
    <3>1. /\ latch' = (latch \/ ok) /\ state' = "connecting" /\ UNCHANGED stops
          /\ dog' = (IF ok THEN Watch(dog) ELSE dog)
          /\ conn' = [conn EXCEPT !.pc = IF strict THEN "preflight" ELSE "starting"]
          /\ Apply(queue, IF strict THEN Call(On("preconnect"), "conn") ELSE <<>>, Now)
      BY <1>10, <2>3 DEF Observed
    <3>2. conn' \in Conn /\ conn'.pc = IF strict THEN "preflight" ELSE "starting"
      BY <3>1 DEF Conn
    <3>3. latch' \in BOOLEAN /\ dog' \in Dog /\ dog'.pc = dog.pc
      BY <3>1, TimerKeeps
    <3>4. CASE strict
      <4>1. Waits' = Waits \cup {"conn"}
        BY <2>1, <3>2, <3>3, <3>4 DEF Waits, Flow
      <4> QED
        BY <2>1, <3>1, <3>2, <3>3, <3>4, <4>1, Wishes DEF FlowGoes, Moves
    <3>5. CASE ~strict
      <4>1. Waits' = Waits \ {"conn"}
        BY <1>6, <3>2, <3>3, <3>5
      <4> QED
        BY <2>1, <3>1, <3>2, <3>3, <3>5, <4>1 DEF FlowGoes, Moves, Silently
    <3> QED
      BY <3>4, <3>5
  <2> QED
    BY <2>2, <2>3
<1>11. CASE NotObserved
  <2>1. /\ conn' = NoConn /\ Over("cleanup_error", Required, dog) /\ UNCHANGED <<stops, up>>
        /\ Apply(queue, Call(Off(Required), "nobody"), Now)
    BY <1>11 DEF NotObserved, Ending
  <2>2. Required \in BOOLEAN /\ Off(Required) \in Wish
    BY Wishes
  <2>3. /\ latch' \in BOOLEAN /\ dog' \in Dog /\ dog'.pc = dog.pc /\ state' = "cleanup_error"
    BY <2>1, <2>2, ShownTypes, TypeParts
  <2>4. Waits' = Waits \ {"conn"}
    BY <1>6, <1>7, <2>1, <2>3
  <2> QED
    BY <1>7, <2>1, <2>2, <2>3, <2>4 DEF FlowGoes, Moves
<1>12. ASSUME NEW ok \in BOOLEAN, Started(ok)
       PROVE  FlowGoes("conn", queue, Now) /\ up' \in BOOLEAN
  <2>1. UNCHANGED <<disc, toggle>> /\ up' = (ok /\ conn.live)
    BY <1>12 DEF Started
  <2>2. CASE ok /\ conn.live
    <3>1. /\ conn' = [conn EXCEPT !.pc = "guard"] /\ UNCHANGED Shown
          /\ Apply(queue, Call(On("connected"), "conn"), Now)
      BY <1>12, <2>2 DEF Started
    <3>2. conn' \in Conn /\ conn'.pc = "guard"
      BY <3>1 DEF Conn
    <3>3. Waits' = Waits \cup {"conn"}
      BY <2>1, <3>1, <3>2 DEF Waits, Flow, Shown
    <3> QED
      BY <2>1, <2>2, <3>1, <3>2, <3>3, Wishes DEF FlowGoes, Moves, Shown
  <2>3. CASE ~(ok /\ conn.live)
    <3>1. ConnFails(queue, Now) /\ up' = FALSE
      BY <1>12, <2>3 DEF Started
    <3> QED
      BY <2>1, <3>1, ConnFailsTypes
  <2> QED
    BY <2>2, <2>3
<1>13. ASSUME NEW ok \in BOOLEAN, FinalSnapshot(ok)
       PROVE  FlowGoes("conn", queue, Now) /\ up' \in BOOLEAN
  <2>1. UNCHANGED <<up, disc, toggle>>
    BY <1>13 DEF FinalSnapshot
  <2>2. CASE ok
    <3>1. /\ conn' = [conn EXCEPT !.pc = "verify", !.armed = (policy # "none")]
          /\ Silently(queue, Now) /\ UNCHANGED Shown
      BY <1>13, <2>2 DEF FinalSnapshot
    <3>2. conn' \in Conn /\ conn'.pc = "verify"
      BY <3>1 DEF Conn
    <3>3. Waits' = Waits \ {"conn"}
      BY <1>6, <3>1, <3>2 DEF Shown
    <3> QED
      BY <2>1, <3>1, <3>2, <3>3 DEF FlowGoes, Moves, Shown
  <2>3. CASE ~ok
    BY <1>13, <2>1, <2>3, ConnFailsTypes DEF FinalSnapshot
  <2> QED
    BY <2>2, <2>3
<1>14. ASSUME NEW ok \in BOOLEAN, Verified(ok)
       PROVE  FlowGoes("conn", queue, Now) /\ up' \in BOOLEAN
  <2>1. UNCHANGED <<up, disc, toggle>>
    BY <1>14 DEF Verified
  <2>2. CASE ok /\ conn.live /\ conn.armed = option
    <3>1. /\ conn' = NoConn /\ latch' = (option /\ (strict \/ conn.armed)) /\ state' = "connected"
          /\ dog' = Watch(dog) /\ UNCHANGED stops /\ Silently(queue, Now)
      BY <1>14, <2>2 DEF Verified
    <3>2. latch' \in BOOLEAN /\ dog' \in Dog /\ dog'.pc = dog.pc
      BY <3>1, TimerKeeps DEF Conn
    <3>3. Waits' = Waits \ {"conn"}
      BY <1>6, <1>7, <3>1, <3>2
    <3> QED
      BY <1>7, <2>1, <3>1, <3>2, <3>3 DEF FlowGoes, Moves
  <2>3. CASE ~(ok /\ conn.live /\ conn.armed = option)
    BY <1>14, <2>1, <2>3, ConnFailsTypes DEF Verified
  <2> QED
    BY <2>2, <2>3
<1> QED
  BY <1>8, <1>9, <1>10, <1>11, <1>12, <1>13, <1>14 DEF Connecting

LEMMA DisconnectTypes ==
    ASSUME TypeOK, Inv', Disconnect \/ Disconnects
    PROVE  TypeOK'
<1> USE DEF TypeOK
<1>1. "disc" \in Flow
  BY DEF Flow
<1>2. /\ UNCHANGED <<option, toggle, strict, elevated, settled>>
      /\ Quiet \/ Event
      /\ disc \in {"off", "stopping"}
      /\ desired' \in {"idle", "connected"}
  BY DEF Disconnect, Disconnects, DiscStopped, Rests, World
<1>3. late' \in BOOLEAN /\ made' \in BOOLEAN
  BY DEF Disconnect, Disconnects, DiscStopped, Rests, Keeping
<1>4. Holds(queue, Waits \ {"disc"})
  <2>1. "disc" \notin Waits
    BY <1>2 DEF Waits
  <2> QED
    BY <2>1, QueueWithout
<1>5. SUFFICES /\ FlowGoes("disc", queue, Now) /\ up' \in BOOLEAN
               /\ disc' \in {"off", "stopping", "release"}
  BY <1>1, <1>2, <1>3, <1>4, FlowTypes, Counts
<1>6. CASE Disconnect
  <2>1. /\ conn' = [conn EXCEPT !.live = FALSE] /\ disc' = "stopping" /\ UNCHANGED up
        /\ Disconnecting("disc", FALSE, dog) /\ Silently(queue, Now)
    BY <1>6 DEF Disconnect
  <2>2. conn' \in Conn /\ conn'.pc = conn.pc
    BY <2>1 DEF Conn
  <2>3. /\ latch' \in BOOLEAN /\ dog' \in Dog /\ dog'.pc = dog.pc
        /\ state' = "disconnecting" /\ stops' \in Seq({"dog", "conn", "disc"})
    BY <2>1, ShownTypes, TypeParts
  <2>4. Waits' = Waits \ {"disc"}
    BY <1>2, <2>1, <2>2, <2>3 DEF Waits, Flow
  <2> QED
    BY <2>1, <2>2, <2>3, <2>4 DEF FlowGoes, Moves
<1>7. CASE DiscStopped(TRUE)
  <2>1. /\ stops # <<>> /\ stops' = Tail(stops) /\ up' = FALSE /\ disc' = "release"
        /\ Apply(queue, Call(Off(FALSE), "disc"), Now) /\ UNCHANGED <<state, latch, dog, conn>>
    BY <1>7 DEF DiscStopped
  <2>2. stops' \in Seq({"dog", "conn", "disc"})
    BY <2>1
  <2>3. Waits' = Waits \cup {"disc"}
    BY <1>2, <2>1 DEF Waits, Flow
  <2> QED
    BY <2>1, <2>2, <2>3, Wishes DEF FlowGoes, Moves
<1>8. CASE DiscStopped(FALSE)
  <2>1. /\ disc' = "off" /\ Stopped("disc", FALSE, FALSE, dog) /\ UNCHANGED conn
        /\ Apply(queue, Call(Off(FALSE), "nobody"), Now)
    BY <1>8 DEF DiscStopped, Ending
  <2>2. /\ latch' \in BOOLEAN /\ dog' \in Dog /\ dog'.pc = dog.pc
        /\ state' \in {"idle", "cleanup_error"} /\ up' \in BOOLEAN
        /\ stops' \in Seq({"dog", "conn", "disc"})
    BY <2>1, ShownTypes, TypeParts
  <2>3. Waits' = Waits \ {"disc"}
    BY <1>2, <2>1, <2>2 DEF Waits, Flow
  <2> QED
    BY <2>1, <2>2, <2>3, Wishes DEF FlowGoes, Moves
<1> QED
  BY <1>6, <1>7, <1>8 DEF Disconnects

LEMMA DogTypes ==
    ASSUME TypeOK, Inv', Watching
    PROVE  TypeOK'
<1> USE DEF TypeOK
<1>1. CASE Tick \/ HealthSnapshot \/ Restored
  BY <1>1, StillStepsTypes
<1>2. SUFFICES ASSUME \/ Examined
                      \/ \E ok, restores \in BOOLEAN : DogClaimed(ok) \/ DogStopped(ok, restores)
               PROVE  TypeOK'
  BY <1>1 DEF Watching
<1>3. /\ UNCHANGED <<option, toggle, disc, desired, strict, elevated, settled, made, late>>
      /\ Quiet
      /\ dog.pc \in {"read", "claim", "stopping"}
  BY <1>2 DEF Examined, DogClaimed, DogStopped, Rests, World
<1>4. "dog" \in Flow /\ Holds(queue, Waits \ {"dog"})
  <2>1. "dog" \notin Waits
    BY <1>3 DEF Waits
  <2> QED
    BY <2>1, QueueWithout DEF Flow
<1>5. SUFFICES FlowGoes("dog", queue, Now) /\ up' \in BOOLEAN
  BY <1>3, <1>4, FlowTypes, Counts
<1>6. ASSUME NEW pc \in {"off", "claim", "rearm"}
      PROVE  [dog EXCEPT !.pc = pc] \in Dog /\ [dog EXCEPT !.pc = pc].pc = pc
  BY DEF Dog
<1>7. CASE Examined
  <2>1. UNCHANGED <<up, state, latch, conn, stops>>
    BY <1>7 DEF Examined
  <2>2. ASSUME NEW pc \in {"off", "claim"}, dog' = [dog EXCEPT !.pc = pc], Silently(queue, Now)
        PROVE  FlowGoes("dog", queue, Now) /\ up' \in BOOLEAN
    <3>1. dog' \in Dog /\ dog'.pc = pc
      BY <1>6, <2>2
    <3>2. Waits' = Waits \ {"dog"}
      BY <1>3, <2>1, <3>1 DEF Waits, Flow
    <3> QED
      BY <2>1, <2>2, <3>1, <3>2 DEF FlowGoes, Moves
  <2>3. ASSUME NEW phase \in {"connected", "preconnect"}, dog' = [dog EXCEPT !.pc = "rearm"],
               Apply(queue, Call(On(phase), "dog"), Now)
        PROVE  FlowGoes("dog", queue, Now) /\ up' \in BOOLEAN
    <3>1. dog' \in Dog /\ dog'.pc = "rearm"
      BY <1>6, <2>3
    <3>2. Waits' = Waits \cup {"dog"}
      BY <1>3, <2>1, <3>1 DEF Waits, Flow
    <3>3. On(phase) \in Wish
      BY Wishes
    <3> QED
      BY <2>1, <2>3, <3>1, <3>2, <3>3 DEF FlowGoes, Moves
  <2>4. \/ \E pc \in {"off", "claim"} : dog' = [dog EXCEPT !.pc = pc] /\ Silently(queue, Now)
        \/ \E phase \in {"connected", "preconnect"} :
              dog' = [dog EXCEPT !.pc = "rearm"] /\ Apply(queue, Call(On(phase), "dog"), Now)
    BY <1>7 DEF Examined
  <2> QED
    BY <2>2, <2>3, <2>4
<1>8. ASSUME NEW ok \in BOOLEAN, DogClaimed(ok)
      PROVE  FlowGoes("dog", queue, Now) /\ up' \in BOOLEAN
  <2>1. UNCHANGED <<up, conn>>
    BY <1>8 DEF DogClaimed
  <2>2. CASE ~ok
    <3>1. dog' = [dog EXCEPT !.pc = "off"] /\ Silently(queue, Now) /\ UNCHANGED <<state, latch, stops>>
      BY <1>8, <2>2 DEF DogClaimed
    <3>2. Waits' = Waits \ {"dog"}
      BY <1>3, <1>6, <2>1, <3>1 DEF Waits, Flow
    <3> QED
      BY <1>6, <2>1, <3>1, <3>2 DEF FlowGoes, Moves
  <2>3. CASE ok /\ Required
    <3>1. /\ dog' = [dog EXCEPT !.pc = "barrier", !.preserve = TRUE]
          /\ Apply(queue, Call(Off(TRUE), "dog"), Now) /\ UNCHANGED <<state, latch, stops>>
      BY <1>8, <2>3 DEF DogClaimed
    <3>2. dog' \in Dog /\ dog'.pc = "barrier"
      BY <3>1 DEF Dog
    <3>3. Waits' = Waits \cup {"dog"}
      BY <1>3, <2>1, <3>1, <3>2 DEF Waits, Flow
    <3> QED
      BY <2>1, <3>1, <3>2, <3>3, Wishes DEF FlowGoes, Moves
  <2>4. CASE ok /\ ~Required
    <3> DEFINE d == [dog EXCEPT !.pc = "stopping", !.preserve = FALSE]
    <3>1. Disconnecting("dog", FALSE, d) /\ Silently(queue, Now)
      BY <1>8, <2>4 DEF DogClaimed
    <3>2. d \in Dog /\ d.pc = "stopping"
      BY DEF Dog
    <3> HIDE DEF d
    <3>3. /\ latch' \in BOOLEAN /\ dog' \in Dog /\ dog'.pc = "stopping"
          /\ state' = "disconnecting" /\ stops' \in Seq({"dog", "conn", "disc"})
      BY <3>1, <3>2, ShownTypes, TypeParts
    <3>4. Waits' = Waits \ {"dog"}
      BY <1>3, <2>1, <3>3 DEF Waits, Flow
    <3> QED
      BY <2>1, <3>1, <3>3, <3>4 DEF FlowGoes, Moves
  <2> QED
    BY <2>2, <2>3, <2>4
<1>9. ASSUME NEW ok \in BOOLEAN, NEW restores \in BOOLEAN, DogStopped(ok, restores)
      PROVE  FlowGoes("dog", queue, Now) /\ up' \in BOOLEAN
  <2> DEFINE d == [dog EXCEPT !.pc = IF restores THEN "restoring" ELSE "off"]
  <2>1. /\ Stopped("dog", ok, dog.preserve, d)
        /\ Apply(queue, Call(Off(dog.preserve), "nobody"), Now)
        /\ restores => conn.pc = "off"
        /\ conn' = IF restores THEN [NoConn EXCEPT !.live = TRUE, !.pc = "observe"] ELSE conn
    BY <1>9 DEF DogStopped, Ending
  <2>2. d \in Dog /\ d.pc \in {"restoring", "off"} /\ dog.preserve \in BOOLEAN
    BY DEF Dog
  <2> HIDE DEF d
  <2>3. /\ latch' \in BOOLEAN /\ dog' \in Dog /\ dog'.pc \in {"restoring", "off"}
        /\ state' \in {"idle", "cleanup_error"} /\ up' \in BOOLEAN
        /\ stops' \in Seq({"dog", "conn", "disc"})
    BY <2>1, <2>2, ShownTypes, TypeParts
  <2>4. conn' \in Conn /\ (conn' = conn \/ (conn.pc = "off" /\ conn'.pc = "observe"))
    <3>1. [NoConn EXCEPT !.live = TRUE, !.pc = "observe"] \in Conn
      BY DEF Conn, NoConn
    <3>2. [NoConn EXCEPT !.live = TRUE, !.pc = "observe"].pc = "observe"
      BY DEF NoConn
    <3>3. CASE restores
      <4>1. conn.pc = "off" /\ conn' = [NoConn EXCEPT !.live = TRUE, !.pc = "observe"]
        BY <2>1, <3>3
      <4> QED
        BY <3>1, <3>2, <4>1
    <3>4. CASE ~restores
      <4>1. conn' = conn
        BY <2>1, <3>4
      <4> QED
        BY <4>1
    <3> QED
      BY <3>3, <3>4
  <2>5. Waits' = Waits \ {"dog"}
    <3>1. conn'.pc \in {"barrier", "preflight", "guard"} <=> conn.pc \in {"barrier", "preflight", "guard"}
      BY <2>4
    <3>2. dog'.pc \notin {"barrier", "rearm", "reconcile"} /\ UNCHANGED <<disc, toggle>>
      BY <1>3, <2>3
    <3> QED
      BY ONLY <3>1, <3>2 DEF Waits, Flow
  <2>6. Off(dog.preserve) \in Wish
    BY <2>2, Wishes
  <2> QED
    BY <2>1, <2>3, <2>4, <2>5, <2>6 DEF FlowGoes, Moves
<1> QED
  BY <1>2, <1>7, <1>8, <1>9

\* The older turn of the switch loses its place in the queue, the newer one goes behind it.
LEMMA TurnTypes == ASSUME TypeOK, Inv', Turn PROVE TypeOK'
<1> USE DEF TypeOK
<1> DEFINE q == [i \in DOMAIN queue |-> IF queue[i] = "toggle" THEN "nobody" ELSE queue[i]]
           w == IF state = "connected" THEN On("connected") ELSE Off(FALSE)
<1>1. /\ option' = ~option /\ settled' = FALSE
      /\ toggle' = [pc |-> "apply", value |-> option', arm |-> (state = "connected")]
      /\ Apply(q, Call(w, "toggle"), Now)
      /\ UNCHANGED <<World, policy, up, Shown, desired, conn, disc, made, late>>
      /\ Event
  BY DEF Turn
<1>2. w \in Wish
  BY Wishes
<1>3. /\ q \in Seq(Waiter) /\ DOMAIN q = DOMAIN queue
      /\ \A i \in DOMAIN queue : q[i] = IF queue[i] = "toggle" THEN "nobody" ELSE queue[i]
  BY DEF Waiter
<1> HIDE DEF q, w
<1>4. Holds(q, Waits \ {"toggle"})
  <2>1. ASSUME NEW f \in Flow PROVE Once(q, f) /\ (In(q, f) <=> f \in Waits \ {"toggle"})
    <3>1. Once(queue, f) /\ (In(queue, f) <=> f \in Waits) /\ f # "nobody"
      BY TypeParts DEF Holds, Flow
    <3>2. \A i \in DOMAIN queue : q[i] = f <=> queue[i] = f /\ f # "toggle"
      BY <1>3, <3>1
    <3> QED
      BY <1>3, <3>1, <3>2 DEF Once, In
  <2> QED
    BY <1>3, <2>1 DEF Holds
<1>5. Waits' = Waits \cup {"toggle"}
  BY <1>1 DEF Waits, Flow, Shown
<1>6. FlowGoes("toggle", q, Now)
  BY <1>1, <1>2, <1>5 DEF FlowGoes, Moves, Shown
<1>7. toggle' \in Toggle
  BY <1>1 DEF Toggle
<1>8. events' \in 0 .. MaxEvents /\ faults' \in 0 .. MaxFaults
  BY <1>1, Counts
<1>9. "toggle" \in Flow
  BY DEF Flow
<1> QED
  BY <1>1, <1>4, <1>6, <1>7, <1>8, <1>9, FlowTypes DEF World

LEMMA InitTypes == Init => TypeOK
<1> SUFFICES ASSUME Init PROVE TypeOK
  OBVIOUS
<1>1. Types /\ Busy
  BY InitInv DEF Inv
<1>2. Locals
  <2>1. wish \in Wish /\ dog \in Dog /\ conn \in Conn /\ toggle \in Toggle
    BY DEF Init, Wish, Off, Dog, Conn, NoConn, Toggle
  <2>2. stops \in Seq({"dog", "conn", "disc"})
    BY DEF Init
  <2>3. {strict, elevated, option, up, latch, settled, made, late} \subseteq BOOLEAN
    BY DEF Init
  <2>4. events \in 0 .. MaxEvents /\ faults \in 0 .. MaxFaults
    BY GuardAssumption DEF Init
  <2>5. state = "idle" /\ desired = "idle" /\ disc = "off"
    BY DEF Init
  <2> QED
    BY <2>1, <2>2, <2>3, <2>4, <2>5 DEF Locals
<1>3. queue = <<>> /\ Waits = {}
  BY DEF Init, Waits, Flow, NoConn
<1>4. Holds(queue, Waits)
  BY <1>3 DEF Holds, Once, In
<1> QED
  BY <1>1, <1>2, <1>4, TypeParts

LEMMA NextTypes == Inv /\ TypeOK /\ [Next]_vars => TypeOK'
<1> SUFFICES ASSUME Inv, TypeOK, [Next]_vars PROVE TypeOK'
  OBVIOUS
<1>1. Inv'
  BY NextKeeps
<1> QED
  BY <1>1, ReconcileTypes, StillStepsTypes, ConnTypes, DisconnectTypes, DogTypes, TurnTypes
     DEF Next, Rest

-----------------------------------------------------------------------------
\* The types, and with them that a flow which waits for the queue of reconciliations
\* stands in it once, and one that does not wait does not: kill-switch.js:125-142.
THEOREM QueueIsOfWhoWaits == Spec => []TypeOK
<1>1. Init => Inv /\ TypeOK
  BY InitInv, InitTypes
<1>2. (Inv /\ TypeOK) /\ [Next]_vars => (Inv /\ TypeOK)'
  BY NextKeeps, NextTypes
<1> QED
  BY <1>1, <1>2, PTL DEF Spec

-----------------------------------------------------------------------------
(* What the intent of the user goes with.  An attempt that is under way and not cancelled
   is wanted; a disconnect and its stop are not. *)

LiveWants ==
    /\ conn.live => desired = "connected"
    /\ conn.pc # "off" /\ desired = "connected" => conn.live
DiscMeansIdle == disc # "off" => desired = "idle"
IdleIsNotShown == desired = "idle" => state # "connected"
BarrierKeeps == conn.pc = "barrier" => conn.preserve

Intent == LiveWants /\ DiscMeansIdle /\ IdleIsNotShown /\ BarrierKeeps

\* What the connection flow does goes with the intent as long as only a wanted attempt goes on.
LEMMA ConnIntent ==
    ASSUME TypeOK, Intent, UNCHANGED <<desired, disc>>,
           \/ conn' = NoConn
           \/ /\ conn'.live = conn.live /\ conn.pc # "off"
              /\ conn'.pc = "barrier" => conn'.preserve
           \/ UNCHANGED conn,
           state' = "connected" => state = "connected" \/ conn.live
    PROVE  Intent'
<1>1. NoConn.pc = "off" /\ NoConn.live = FALSE
  BY DEF NoConn
<1>2. LiveWants'
  BY <1>1 DEF Intent, LiveWants
<1>3. DiscMeansIdle' /\ IdleIsNotShown'
  BY DEF Intent, LiveWants, DiscMeansIdle, IdleIsNotShown
<1>4. BarrierKeeps'
  BY <1>1 DEF Intent, BarrierKeeps
<1> QED
  BY <1>2, <1>3, <1>4 DEF Intent

\* Only the last step of an attempt shows that it is connected.
LEMMA NotShown ==
    ASSUME NEW who, NEW how \in {"idle", "cleanup_error"}, NEW preserve, NEW d, NEW ok,
           \/ Disconnecting(who, preserve, d) \/ Over(how, preserve, d)
           \/ Stopped(who, ok, preserve, d) \/ UNCHANGED Shown
    PROVE  state' = "connected" => state = "connected"
BY DEF Disconnecting, Over, Stopped, Shown

LEMMA ConnShutsIntent ==
    ASSUME TypeOK, Intent, UNCHANGED <<desired, disc>>, conn.pc # "off",
           NEW preserve \in BOOLEAN, NEW again, NEW q, NEW runs, ConnShuts(preserve, again, q, runs)
    PROVE  Intent'
<1>1. conn' = [conn EXCEPT !.preserve = preserve, !.again = again,
                           !.pc = IF preserve THEN "barrier" ELSE "stopping"]
  BY DEF ConnShuts
<1>2. conn \in Conn
  BY DEF TypeOK
<1>3. conn'.live = conn.live /\ conn'.preserve = preserve
      /\ conn'.pc = IF preserve THEN "barrier" ELSE "stopping"
  BY <1>1, <1>2 DEF Conn
<1>4. state' = "connected" => state = "connected"
  BY NotShown DEF ConnShuts
<1> QED
  BY <1>3, <1>4, ConnIntent

LEMMA ConnFailsIntent ==
    ASSUME TypeOK, Intent, UNCHANGED <<desired, disc>>, conn.pc # "off",
           NEW q, NEW runs, ConnFails(q, runs)
    PROVE  Intent'
<1>1. CASE conn.live
  BY <1>1, ConnShutsIntent, Wishes DEF ConnFails
<1>2. CASE ~conn.live
  BY <1>2, ConnIntent DEF ConnFails, ConnGivesUp, Shown
<1> QED
  BY <1>1, <1>2

LEMMA ResolvesIntent ==
    ASSUME TypeOK, Intent, queue # <<>>, NEW ok \in BOOLEAN, Resolves(ok)
    PROVE  Intent'
<1> DEFINE q == Tail(queue)
<1>1. UNCHANGED desired
  BY DEF Resolves
<1>2. Head(queue) \in Flow => Head(queue) \in Waits
  BY TypeParts, TailHolds
<1>3. conn \in Conn
  BY DEF TypeOK
<1>4. CASE ConnAnswered(ok, q) /\ Head(queue) = "conn"
  <2>1. UNCHANGED disc /\ conn.pc \in {"barrier", "preflight", "guard"}
    BY <1>2, <1>4 DEF ConnAnswered, Waits, Flow
  <2>2. ASSUME NEW pc \in {"stopping", "starting", "snapshot"}, conn' = [conn EXCEPT !.pc = pc]
        PROVE  conn'.live = conn.live /\ conn'.pc # "barrier"
    BY <1>3, <2>2 DEF Conn
  <2>3. CASE ConnFails(q, FALSE)
    BY <1>1, <2>1, <2>3, ConnFailsIntent
  <2>4. CASE ConnGivesUp(q, FALSE)
    BY <1>1, <2>1, <2>4, ConnIntent DEF ConnGivesUp, Shown
  <2>5. CASE /\ conn' = [conn EXCEPT !.pc = "stopping"] /\ Disconnecting("conn", TRUE, dog)
    BY <1>1, <2>1, <2>2, <2>5, ConnIntent, NotShown
  <2>6. CASE conn' = NoConn /\ Over("cleanup_error", TRUE, dog)
    BY <1>1, <2>1, <2>6, ConnIntent, NotShown
  <2>7. CASE conn' = [conn EXCEPT !.pc = "starting"] /\ UNCHANGED state
    BY <1>1, <2>1, <2>2, <2>7, ConnIntent
  <2>8. CASE conn' = [conn EXCEPT !.pc = "snapshot"] /\ UNCHANGED state
    BY <1>1, <2>1, <2>2, <2>8, ConnIntent
  <2> HIDE DEF q
  <2> QED
    BY <1>4, <2>3, <2>4, <2>5, <2>6, <2>7, <2>8 DEF ConnAnswered
<1>5. CASE DiscAnswered(ok, q)
  <2>1. UNCHANGED conn /\ disc' = "off" /\ state' \in {"idle", "cleanup_error"}
    BY <1>5 DEF DiscAnswered, Over
  <2> QED
    BY <1>1, <2>1 DEF Intent, LiveWants, DiscMeansIdle, IdleIsNotShown, BarrierKeeps
<1>6. CASE DogAnswered(ok, q)
  <2>1. UNCHANGED <<conn, disc>> /\ (state' = "connected" => state = "connected")
    BY <1>6 DEF DogAnswered, Disconnecting
  <2> QED
    BY <1>1, <2>1, ConnIntent
<1>7. CASE UNCHANGED <<state, conn, disc>>
  BY <1>1, <1>7, ConnIntent
<1> QED
  BY <1>4, <1>5, <1>6, <1>7 DEF Resolves, ToggleAnswered, Shown

LEMMA ConnectingIntent == ASSUME TypeOK, Intent, Connecting PROVE Intent'
<1>1. UNCHANGED <<desired, disc>> /\ conn.pc # "off" /\ conn \in Conn
  BY DEF Connecting, ConnClaimed, ConnStopped, Observed, NotObserved, Started, FinalSnapshot,
     Verified, TypeOK
<1>2. ASSUME NEW pc \in {"observe", "preflight", "starting", "guard"}, conn' = [conn EXCEPT !.pc = pc]
      PROVE  conn'.live = conn.live /\ conn'.pc # "barrier"
  BY <1>1, <1>2 DEF Conn
<1>3. CASE ConnFails(queue, Now)
  BY <1>1, <1>3, ConnFailsIntent
<1>4. CASE ConnGivesUp(queue, Now)
  BY <1>1, <1>4, ConnIntent DEF ConnGivesUp, Shown
<1>5. ASSUME NEW ok \in BOOLEAN, ConnClaimed(ok) PROVE Intent'
  <2>1. CASE ConnShuts(conn.preserve, TRUE, queue, Now)
    <3>1. conn.preserve \in BOOLEAN
      BY <1>1 DEF Conn
    <3> QED
      BY <1>1, <2>1, <3>1, ConnShutsIntent
  <2>2. CASE conn' = [conn EXCEPT !.pc = "observe"] /\ UNCHANGED Shown
    BY <1>1, <1>2, <2>2, ConnIntent DEF Shown
  <2> QED
    BY <1>4, <1>5, <2>1, <2>2 DEF ConnClaimed
<1>6. ASSUME NEW ok \in BOOLEAN, ConnStopped(ok) PROVE Intent'
  <2>1. conn' = NoConn \/ conn' = [conn EXCEPT !.pc = "observe"]
    BY <1>6 DEF ConnStopped
  <2>2. state' = "connected" => state = "connected"
    BY <1>6, NotShown DEF ConnStopped
  <2> QED
    BY <1>1, <1>2, <2>1, <2>2, ConnIntent
<1>7. ASSUME NEW ok \in BOOLEAN, Observed(ok) PROVE Intent'
  <2>1. CASE conn.live
    <3>1. /\ state' = "connecting"
          /\ conn' = [conn EXCEPT !.pc = IF strict THEN "preflight" ELSE "starting"]
      BY <1>7, <2>1 DEF Observed
    <3> QED
      BY <1>1, <1>2, <3>1, ConnIntent
  <2> QED
    BY <1>4, <1>7, <2>1 DEF Observed
<1>8. CASE NotObserved
  <2>1. conn' = NoConn /\ state' = "cleanup_error"
    BY <1>8 DEF NotObserved, Over
  <2> QED
    BY <1>1, <2>1, ConnIntent
<1>9. ASSUME NEW ok \in BOOLEAN, Started(ok) PROVE Intent'
  <2>1. CASE ok /\ conn.live
    <3>1. conn' = [conn EXCEPT !.pc = "guard"] /\ UNCHANGED state
      BY <1>9, <2>1 DEF Started, Shown
    <3> QED
      BY <1>1, <1>2, <3>1, ConnIntent
  <2> QED
    BY <1>3, <1>9, <2>1 DEF Started
<1>10. ASSUME NEW ok \in BOOLEAN, FinalSnapshot(ok) PROVE Intent'
  <2>1. CASE ok
    <3>1. conn' = [conn EXCEPT !.pc = "verify", !.armed = (policy # "none")] /\ UNCHANGED state
      BY <1>10, <2>1 DEF FinalSnapshot, Shown
    <3>2. conn'.live = conn.live /\ conn'.pc # "barrier"
      BY <1>1, <3>1 DEF Conn
    <3> QED
      BY <1>1, <3>1, <3>2, ConnIntent
  <2> QED
    BY <1>3, <1>10, <2>1 DEF FinalSnapshot
<1>11. ASSUME NEW ok \in BOOLEAN, Verified(ok) PROVE Intent'
  <2>1. CASE ok /\ conn.live /\ conn.armed = option
    <3>1. conn' = NoConn /\ state' = "connected"
      BY <1>11, <2>1 DEF Verified
    <3> QED
      BY <1>1, <2>1, <3>1, ConnIntent
  <2> QED
    BY <1>3, <1>11, <2>1 DEF Verified
<1> QED
  BY <1>5, <1>6, <1>7, <1>8, <1>9, <1>10, <1>11 DEF Connecting

LEMMA NextIntent == TypeOK /\ Inv /\ Intent /\ [Next]_vars => Intent'
<1> SUFFICES ASSUME TypeOK, Inv, Intent, [Next]_vars PROVE Intent'
  OBVIOUS
<1>1. conn \in Conn
  BY DEF TypeOK
<1>2. CASE Reconcile \/ CommandFails
  <2>1. queue # <<>>
    BY <1>2 DEF Reconcile, AskedActive, AskedElevated, Armed, Confirmed, Disarmed, DisarmAnswered,
       CommandFails, Inv, Busy
  <2>2. \/ \E ok \in BOOLEAN : Resolves(ok)
        \/ \E step, to : RunGoes(step, to)
    BY <1>2 DEF Reconcile, AskedActive, AskedElevated, Armed, Confirmed, Disarmed, DisarmAnswered,
       CommandFails
  <2>3. ASSUME NEW step, NEW to, RunGoes(step, to) PROVE Intent'
    BY <2>3, ConnIntent DEF RunGoes
  <2> QED
    BY <2>1, <2>2, <2>3, ResolvesIntent
<1>3. CASE Connect
  <2>1. desired' = "connected" /\ conn'.live /\ conn'.pc = "observe" /\ disc' = "off"
    BY <1>3 DEF Connect, NoConn
  <2> QED
    BY <2>1 DEF Intent, LiveWants, DiscMeansIdle, IdleIsNotShown, BarrierKeeps
<1>4. CASE Reconnect
  <2>1. /\ desired' = "connected" /\ conn'.live /\ conn'.pc = "claim" /\ disc' = "off"
    BY <1>4 DEF Reconnect, NoConn
  <2> QED
    BY <2>1 DEF Intent, LiveWants, DiscMeansIdle, IdleIsNotShown, BarrierKeeps
<1>5. CASE Disconnect
  <2>1. conn' = [conn EXCEPT !.live = FALSE]
    BY <1>5 DEF Disconnect
  <2>2. conn'.live = FALSE /\ conn'.pc = conn.pc /\ conn'.preserve = conn.preserve
    BY <1>1, <2>1 DEF Conn
  <2>3. desired' = "idle" /\ state' = "disconnecting"
    BY <1>5 DEF Disconnect, Disconnecting
  <2> QED
    BY <2>2, <2>3 DEF Intent, LiveWants, DiscMeansIdle, IdleIsNotShown, BarrierKeeps
<1>6. CASE Disconnects
  <2>1. UNCHANGED <<desired, conn>> /\ (disc' = "off" \/ disc # "off")
        /\ (state' = "connected" => state = "connected")
    BY <1>6 DEF Disconnects, DiscStopped, Stopped, Over
  <2> QED
    BY <2>1 DEF Intent, LiveWants, DiscMeansIdle, IdleIsNotShown, BarrierKeeps
<1>7. CASE Watching
  <2>1. ASSUME NEW ok \in BOOLEAN, NEW restores \in BOOLEAN, DogStopped(ok, restores)
        PROVE  Intent'
    <3>1. UNCHANGED <<desired, disc>> /\ (state' = "connected" => state = "connected")
      BY <2>1 DEF DogStopped, Stopped, Over
    <3>2. CASE ~restores
      BY <2>1, <3>1, <3>2, ConnIntent DEF DogStopped
    <3>3. CASE restores
      <4>1. desired = "connected" /\ conn' = [NoConn EXCEPT !.live = TRUE, !.pc = "observe"]
        BY <2>1, <3>3 DEF DogStopped
      <4>2. conn'.live /\ conn'.pc = "observe"
        BY <4>1 DEF NoConn
      <4> QED
        BY <3>1, <4>1, <4>2 DEF Intent, LiveWants, DiscMeansIdle, IdleIsNotShown, BarrierKeeps
    <3> QED
      BY <3>2, <3>3
  <2>2. ASSUME \/ Tick \/ HealthSnapshot \/ Examined \/ Restored
               \/ \E ok \in BOOLEAN : DogClaimed(ok)
        PROVE  Intent'
    <3>1. UNCHANGED <<desired, disc, conn>> /\ (state' = "connected" => state = "connected")
      BY <2>2 DEF Tick, HealthSnapshot, Examined, Restored, DogClaimed, Disconnecting
    <3> QED
      BY <3>1, ConnIntent
  <2> QED
    BY <1>7, <2>1, <2>2 DEF Watching
<1>8. CASE Turn \/ FiltersVanish \/ Dies \/ UNCHANGED vars
  BY <1>8, ConnIntent DEF Turn, FiltersVanish, Dies, Shown, vars
<1> QED
  BY <1>2, <1>3, <1>4, <1>5, <1>6, <1>7, <1>8, ConnectingIntent DEF Next, Rest

LEMMA InitIntent == Init => Intent
BY DEF Init, NoConn, Intent, LiveWants, DiscMeansIdle, IdleIsNotShown, BarrierKeeps

-----------------------------------------------------------------------------
(* What is left behind a disconnect.  Nobody keeps a block without its latch once the
   intent is idle, except where a click crossed a shutdown. *)

CancelledEnds ==
    desired = "idle" /\ ~late => conn.pc # "barrier" /\ ~(conn.pc = "stopping" /\ conn.preserve)

DogKeeps ==
    desired = "idle" /\ ~late /\ dog.preserve /\ dog.pc \in {"barrier", "stopping"}
        => conn.pc = "off" /\ disc = "off" /\ latch

\* Only the watchdog asks for the block of a connection then, to rearm it.
OnByDog ==
    desired = "idle" /\ disc = "off" /\ queue # <<>> /\ wish.connected
        => queue[Len(queue)] = "dog" /\ dog.pc = "rearm"

KeptIsKnown ==
    desired = "idle" /\ disc = "off" /\ ~late /\ state = "idle" /\ Wanted
        => latch \/ dog.pc = "rearm"

Kept == CancelledEnds /\ DogKeeps /\ OnByDog /\ KeptIsKnown

LEMMA OffWants ==
    ASSUME NEW preserve \in BOOLEAN
    PROVE  Off(preserve).connected = FALSE /\ Off(preserve).preserve = preserve
BY DEF Off

\* The last one stays the last one when the first is answered.
LEMMA LastStays ==
    ASSUME NEW q \in Seq(Waiter), q # <<>>, Tail(q) # <<>>
    PROVE  /\ Tail(q)[Len(Tail(q))] = q[Len(q)]
           /\ Once(q, Head(q)) => q[Len(q)] # Head(q)
<1> DEFINE t == Tail(q)
<1>1. Len(q) \in Nat /\ Len(t) = Len(q) - 1 /\ Len(t) \in Nat /\ t \in Seq(Waiter)
  OBVIOUS
<1>2. Len(t) # 0
  <2>1. \A u \in Seq(Waiter) : Len(u) = 0 => u = <<>>
    OBVIOUS
  <2> QED
    BY <1>1, <2>1
<1>3. Len(q) \in Nat /\ Len(q) > 1 /\ Len(t) = Len(q) - 1
  BY <1>1, <1>2
<1>4. /\ \A i \in 1 .. Len(q) - 1 : t[i] = q[i + 1]
      /\ Head(q) = q[1] /\ DOMAIN q = 1 .. Len(q)
  BY <1>1
<1>5. t[Len(t)] = q[Len(q)]
  <2>1. Len(t) \in 1 .. Len(q) - 1 /\ Len(t) + 1 = Len(q)
    BY <1>3
  <2> HIDE DEF t
  <2> QED
    BY <1>4, <2>1
<1>6. Once(q, Head(q)) => q[Len(q)] # Head(q)
  <2>1. 1 \in DOMAIN q /\ Len(q) \in DOMAIN q /\ Len(q) # 1
    BY <1>3, <1>4
  <2> HIDE DEF t
  <2> QED
    BY ONLY <1>4, <2>1 DEF Once
<1> QED
  BY <1>5, <1>6

\* The queue goes on with the wish it had: the last one is the same.
LEMMA OnStays ==
    ASSUME TypeOK, OnByDog, queue # <<>>, UNCHANGED <<desired, disc, wish>>,
           queue' = Tail(queue), Head(queue) # "dog" => (dog.pc = "rearm" => dog'.pc = "rearm")
    PROVE  OnByDog'
<1> SUFFICES ASSUME desired = "idle", disc = "off", Tail(queue) # <<>>, wish.connected
             PROVE  Tail(queue)[Len(Tail(queue))] = "dog" /\ dog'.pc = "rearm"
  BY DEF OnByDog
<1>1. queue[Len(queue)] = "dog" /\ dog.pc = "rearm"
  BY DEF OnByDog
<1>2. queue \in Seq(Waiter) /\ Once(queue, "dog")
  BY TypeParts DEF Holds, Flow
<1>3. Tail(queue)[Len(Tail(queue))] = "dog" /\ Head(queue) # "dog"
  BY <1>1, <1>2, LastStays
<1> QED
  BY <1>1, <1>3

LEMMA ResolvesKept ==
    ASSUME TypeOK, Intent, Kept, queue # <<>>, NEW ok \in BOOLEAN, Resolves(ok)
    PROVE  Kept'
<1> DEFINE q == Tail(queue)
<1>1. UNCHANGED desired /\ (late => late')
  BY DEF Resolves
<1>2. SUFFICES ASSUME desired = "idle" PROVE Kept'
  BY <1>1, <1>2 DEF Kept, CancelledEnds, DogKeeps, OnByDog, KeptIsKnown
<1>3. q \in Seq(Waiter) /\ run \in Run /\ conn \in Conn /\ dog \in Dog /\ "nobody" \in Waiter
  BY DEF TypeOK, Waiter
<1>4. Head(queue) \in Flow => Head(queue) \in Waits
  BY TypeParts, TailHolds
<1>5. ~conn.live /\ state # "connected" /\ (conn.pc = "barrier" => conn.preserve)
  BY <1>2 DEF Intent, LiveWants, IdleIsNotShown, BarrierKeeps
<1>6. ASSUME Silently(q, FALSE) PROVE wish' = wish /\ queue' = q
  BY <1>3, <1>6, SilentApply DEF Silently, Silent
<1>7. ASSUME NEW preserve \in BOOLEAN, NEW who \in Waiter, Apply(q, Call(Off(preserve), who), FALSE)
      PROVE  ~wish'.connected /\ wish'.preserve = preserve
  BY <1>3, <1>7, AskedForApply, OffWants DEF AskedFor
<1> HIDE DEF q
<1>8. CASE Head(queue) = "nobody" /\ UNCHANGED <<option, Shown, conn, disc, toggle>> /\ Silently(q, FALSE)
  <2>1. UNCHANGED <<option, state, latch, dog, conn, disc, wish>> /\ queue' = q
    BY <1>6, <1>8 DEF Shown
  <2>2. OnByDog'
    BY <1>1, <2>1, OnStays DEF Kept, q
  <2> QED
    BY <1>1, <2>1, <2>2 DEF Kept, CancelledEnds, DogKeeps, KeptIsKnown, Wanted
<1>9. CASE Head(queue) = "conn" /\ ConnAnswered(ok, q)
  <2>1. UNCHANGED <<option, disc>> /\ conn.pc \in {"barrier", "preflight", "guard"}
    BY <1>4, <1>9 DEF ConnAnswered, Waits, Flow
  <2>2. CASE conn' = NoConn /\ Silently(q, FALSE) /\ UNCHANGED Shown
    <3>1. UNCHANGED <<state, latch, dog, wish>> /\ queue' = q /\ conn'.pc = "off"
      BY <1>6, <2>2 DEF Shown, NoConn
    <3>2. OnByDog'
      BY <1>1, <2>1, <3>1, OnStays DEF Kept, q
    <3> QED
      BY <1>1, <2>1, <3>1, <3>2 DEF Kept, CancelledEnds, DogKeeps, KeptIsKnown, Wanted
  <2>3. CASE /\ conn' = [conn EXCEPT !.pc = "starting"] /\ latch' = TRUE /\ dog' = Watch(dog)
             /\ UNCHANGED state /\ Silently(q, FALSE)
    <3>1. UNCHANGED <<state, wish>> /\ queue' = q /\ conn'.pc = "starting" /\ latch'
          /\ dog'.pc = dog.pc /\ dog'.preserve = dog.preserve
      BY <1>3, <1>6, <2>3, TimerKeeps DEF Conn
    <3>2. OnByDog'
      BY <1>1, <2>1, <3>1, OnStays DEF Kept, q
    <3> QED
      BY <1>1, <2>1, <3>1, <3>2 DEF Kept, CancelledEnds, DogKeeps, KeptIsKnown
  <2>4. CASE conn.pc = "barrier" /\ state' # "idle" /\ dog'.pc = dog.pc
             /\ (Silently(q, FALSE) \/ Apply(q, Call(Off(TRUE), "nobody"), FALSE))
    <3>1. late
      BY <1>2, <2>4 DEF Kept, CancelledEnds
    <3>2. OnByDog'
      <4>1. CASE Silently(q, FALSE)
        BY <1>1, <1>6, <2>1, <2>4, <4>1, OnStays DEF Kept, q
      <4>2. CASE Apply(q, Call(Off(TRUE), "nobody"), FALSE)
        BY <1>3, <1>7, <4>2 DEF OnByDog
      <4> QED
        BY <2>4, <4>1, <4>2
    <3> QED
      BY <1>1, <3>1, <3>2 DEF Kept, CancelledEnds, DogKeeps, KeptIsKnown
  <2>5. CASE conn.pc = "barrier"
    <3>1. CASE ok
      <4>1. Disconnecting("conn", TRUE, dog) /\ Silently(q, FALSE)
        BY <1>9, <2>5, <3>1 DEF ConnAnswered
      <4>2. state' # "idle" /\ dog'.pc = dog.pc
        BY <1>3, <4>1, TimerKeeps DEF Disconnecting
      <4> QED
        BY <2>4, <2>5, <4>1, <4>2
    <3>2. CASE ~ok /\ conn.again
      BY <1>9, <2>2, <2>5, <3>2 DEF ConnAnswered, ConnGivesUp
    <3>3. CASE ~ok /\ ~conn.again
      <4>1. Over("cleanup_error", TRUE, dog) /\ Apply(q, Call(Off(TRUE), "nobody"), FALSE)
        BY <1>9, <2>5, <3>3 DEF ConnAnswered, Ending
      <4>2. state' # "idle" /\ dog'.pc = dog.pc
        BY <1>3, <4>1, TimerKeeps DEF Over
      <4> QED
        BY <2>4, <2>5, <4>1, <4>2
    <3> QED
      BY <3>1, <3>2, <3>3
  <2>6. CASE conn.pc = "preflight" /\ ok
    BY <1>9, <2>3, <2>6 DEF ConnAnswered
  <2>7. CASE conn.pc = "guard" \/ (conn.pc = "preflight" /\ ~ok)
    <3>1. ConnGivesUp(q, FALSE)
      BY <1>5, <1>9, <2>7 DEF ConnAnswered, ConnFails
    <3> QED
      BY <2>2, <3>1 DEF ConnGivesUp
  <2> QED
    BY <2>1, <2>5, <2>6, <2>7
<1>10. CASE Head(queue) = "disc" /\ DiscAnswered(ok, q)
  <2> DEFINE keeps == ~ok /\ Required
  <2>1. /\ UNCHANGED <<option, conn>> /\ Apply(q, Call(Off(keeps), "nobody"), FALSE)
        /\ state' = (IF ok THEN "idle" ELSE "cleanup_error") /\ dog' = Synced(dog)
    BY <1>10 DEF DiscAnswered, Ending, Over
  <2>2. keeps \in BOOLEAN
    BY Wishes
  <2>3. ~wish'.connected /\ wish'.preserve = keeps
    <3> HIDE DEF keeps
    <3> QED
      BY <1>3, <1>7, <2>1, <2>2
  <2>4. dog'.pc = dog.pc /\ dog'.preserve = dog.preserve
    BY <1>3, <2>1, TimerKeeps
  <2>5. disc # "off"
    BY <1>4, <1>10 DEF Waits, Flow
  <2>6. state' = "idle" => ~Wanted'
    BY <2>1, <2>3 DEF Wanted
  <2> QED
    BY <1>1, <1>2, <2>1, <2>3, <2>4, <2>5, <2>6 DEF Kept, CancelledEnds, DogKeeps, OnByDog, KeptIsKnown
<1>11. CASE Head(queue) = "dog" /\ DogAnswered(ok, q)
  <2>1. UNCHANGED <<option, conn, disc>> /\ dog.pc \in {"barrier", "rearm", "reconcile"}
    BY <1>4, <1>11 DEF DogAnswered, Waits, Flow
  <2>2. CASE dog.pc = "barrier" /\ ok
    <3> DEFINE d == [dog EXCEPT !.pc = "stopping"]
    <3>1. Silently(q, FALSE) /\ state' = "disconnecting" /\ latch' = latch /\ dog' = Synced(d)
      BY <1>11, <2>2 DEF DogAnswered, Disconnecting
    <3>2. d \in Dog /\ d.pc = "stopping" /\ d.preserve = dog.preserve
      BY <1>3 DEF Dog
    <3>3. dog'.pc = "stopping" /\ dog'.preserve = dog.preserve
      <4> HIDE DEF d
      <4> QED
        BY <3>1, <3>2, TimerKeeps
    <3>4. OnByDog'
      BY <1>1, <1>6, <1>11, <2>1, <3>1, OnStays DEF Kept, q
    <3> QED
      BY <1>1, <2>1, <2>2, <3>1, <3>3, <3>4 DEF Kept, CancelledEnds, DogKeeps, KeptIsKnown
  <2>3. CASE dog.pc = "rearm" /\ ~Required
    <3>1. /\ dog' = [dog EXCEPT !.pc = "reconcile"] /\ UNCHANGED <<state, latch>>
          /\ Apply(q, Call(Off(FALSE), "dog"), FALSE)
      BY <1>5, <1>11, <2>3 DEF DogAnswered
    <3>2. dog'.pc = "reconcile"
      BY <1>3, <3>1 DEF Dog
    <3>3. ~wish'.connected /\ ~wish'.preserve
      BY <1>7, <3>1 DEF Waiter, Flow
    <3> QED
      BY <1>1, <2>1, <3>1, <3>2, <3>3
         DEF Kept, CancelledEnds, DogKeeps, OnByDog, KeptIsKnown, Wanted
  <2>4. CASE ~(dog.pc = "barrier" /\ ok) /\ ~(dog.pc = "rearm" /\ ~Required)
    <3>1. dog' = [dog EXCEPT !.pc = "off"] /\ UNCHANGED <<state, latch>> /\ Silently(q, FALSE)
      BY <1>11, <2>4 DEF DogAnswered
    <3>2. dog'.pc = "off"
      BY <1>3, <3>1 DEF Dog
    <3>3. UNCHANGED wish
      BY <1>6, <3>1
    <3>4. OnByDog'
      BY <1>1, <1>6, <1>11, <2>1, <3>1, OnStays DEF Kept, q
    <3>5. KeptIsKnown'
      BY <1>1, <2>1, <2>4, <3>1, <3>2, <3>3 DEF Kept, KeptIsKnown, Wanted, Required
    <3> QED
      BY <1>1, <2>1, <3>1, <3>2, <3>4, <3>5 DEF Kept, CancelledEnds, DogKeeps
  <2> QED
    BY <2>2, <2>3, <2>4
<1>12. CASE Head(queue) = "toggle" /\ ToggleAnswered(ok, q)
  <2>1. UNCHANGED <<conn, disc, state>>
    BY <1>12 DEF ToggleAnswered
  <2>2. CASE toggle.pc = "apply" /\ ~ok
    <3>1. UNCHANGED <<latch, dog>> /\ Apply(q, Call(Off(FALSE), "toggle"), FALSE)
      BY <1>5, <1>12, <2>2 DEF ToggleAnswered
    <3>2. ~wish'.connected /\ ~wish'.preserve
      BY <1>7, <3>1 DEF Waiter, Flow
    <3> QED
      BY <1>1, <2>1, <3>1, <3>2 DEF Kept, CancelledEnds, DogKeeps, OnByDog, KeptIsKnown, Wanted
  <2>3. CASE ~(toggle.pc = "apply" /\ ~ok)
    <3>1. /\ UNCHANGED option /\ latch' = FALSE /\ dog' = Synced(dog) /\ Silently(q, FALSE)
      BY <1>5, <1>12, <2>3 DEF ToggleAnswered
    <3>2. dog'.pc = dog.pc /\ dog'.preserve = dog.preserve
      BY <1>3, <3>1, TimerKeeps
    <3>3. UNCHANGED wish
      BY <1>6, <3>1
    <3>4. OnByDog'
      BY <1>1, <1>6, <2>1, <3>1, <3>2, OnStays DEF Kept, q
    <3>5. ~late' => ~late /\ (latch => ~wish.preserve /\ ~Keeping)
      BY <1>12, <3>1 DEF Resolves
    <3>6. dog.preserve /\ dog.pc \in {"barrier", "stopping"} => Keeping
      BY DEF Keeping
    <3>7. DogKeeps'
      BY <1>1, <2>1, <3>1, <3>2, <3>5, <3>6 DEF Kept, DogKeeps
    <3>8. KeptIsKnown'
      <4> SUFFICES ASSUME disc = "off", ~late', state = "idle", Wanted' PROVE dog'.pc = "rearm"
        BY <1>1, <2>1 DEF KeptIsKnown
      <4>1. Wanted /\ ~late
        BY <3>1, <3>3, <3>5 DEF Wanted
      <4>2. latch \/ dog.pc = "rearm"
        BY <1>2, <4>1 DEF Kept, KeptIsKnown
      <4>3. latch => dog.pc = "rearm"
        BY <1>2, <3>5, <4>1 DEF Wanted, Kept, OnByDog
      <4> QED
        BY <3>2, <4>2, <4>3
    <3> QED
      BY <1>1, <2>1, <3>4, <3>7, <3>8 DEF Kept, CancelledEnds
  <2> QED
    BY <2>2, <2>3
<1> QED
  BY <1>8, <1>9, <1>10, <1>11, <1>12 DEF Resolves, q

\* A step of the connection flow beside the reconciliations ends a cancelled attempt.
LEMMA ConnectingKept == ASSUME TypeOK, Intent, Kept, Connecting PROVE Kept'
<1>1. UNCHANGED <<option, desired, disc, late>> /\ conn.pc \notin {"off", "barrier"}
  BY DEF Connecting, ConnClaimed, ConnStopped, Observed, NotObserved, Started, FinalSnapshot,
     Verified, Rests
<1>2. SUFFICES ASSUME desired = "idle" PROVE Kept'
  BY <1>1, <1>2 DEF Kept, CancelledEnds, DogKeeps, OnByDog, KeptIsKnown
<1>3. queue \in Seq(Waiter) /\ run \in Run /\ conn \in Conn /\ dog \in Dog /\ "nobody" \in Waiter
  BY DEF TypeOK, Waiter
<1>4. ~conn.live
  BY <1>2 DEF Intent, LiveWants
<1>5. ASSUME Silently(queue, Now) PROVE wish' = wish /\ queue' = queue
  BY <1>3, <1>5, SilentApply DEF Silently, Silent
<1>6. ASSUME NEW preserve \in BOOLEAN, Apply(queue, Call(Off(preserve), "nobody"), Now)
      PROVE  ~wish'.connected /\ wish'.preserve = preserve
  BY <1>3, <1>6, AskedForApply, OffWants DEF AskedFor
<1>7. ASSUME conn'.pc \in {"off", "verify"}, Silently(queue, Now), UNCHANGED Shown
      PROVE  Kept'
  BY <1>1, <1>5, <1>7 DEF Kept, CancelledEnds, DogKeeps, OnByDog, KeptIsKnown, Wanted, Shown
<1>8. CASE ConnGivesUp(queue, Now)
  BY <1>7, <1>8 DEF ConnGivesUp, NoConn
<1>9. ASSUME NEW preserve \in BOOLEAN, conn' = NoConn, dog' = Synced(dog),
             Apply(queue, Call(Off(preserve), "nobody"), Now),
             state' = "idle" => (preserve => late)
      PROVE  Kept'
  <2>1. conn'.pc = "off" /\ dog'.pc = dog.pc /\ dog'.preserve = dog.preserve
    BY <1>3, <1>9, TimerKeeps DEF NoConn
  <2>2. ~wish'.connected /\ wish'.preserve = preserve
    BY <1>6, <1>9
  <2> QED
    BY <1>1, <1>2, <1>9, <2>1, <2>2
       DEF Kept, CancelledEnds, DogKeeps, OnByDog, KeptIsKnown, Wanted
<1>10. ASSUME NEW ok \in BOOLEAN, ConnStopped(ok) PROVE Kept'
  <2>1. /\ conn' = NoConn /\ dog' = Synced(dog) /\ conn.pc = "stopping"
        /\ Apply(queue, Call(Off(conn.preserve), "nobody"), Now)
    BY <1>4, <1>10 DEF ConnStopped, Stopped, Over, Ending
  <2>2. conn.preserve \in BOOLEAN /\ (conn.preserve => late)
    BY <1>2, <1>3, <2>1 DEF Kept, CancelledEnds, Conn
  <2> QED
    BY <1>9, <2>1, <2>2
<1>11. CASE NotObserved
  <2>1. /\ conn' = NoConn /\ dog' = Synced(dog) /\ state' = "cleanup_error"
        /\ Apply(queue, Call(Off(Required), "nobody"), Now)
    BY <1>11 DEF NotObserved, Over, Ending
  <2> QED
    BY <1>9, <2>1, Wishes
<1>12. ASSUME NEW ok \in BOOLEAN, FinalSnapshot(ok), ok PROVE Kept'
  <2>1. /\ conn' = [conn EXCEPT !.pc = "verify", !.armed = (policy # "none")]
        /\ Silently(queue, Now) /\ UNCHANGED Shown
    BY <1>12 DEF FinalSnapshot
  <2>2. conn'.pc = "verify"
    BY <1>3, <2>1 DEF Conn
  <2> QED
    BY <1>7, <2>1, <2>2
<1>13. ASSUME NEW ok \in BOOLEAN,
              \/ ConnClaimed(ok) \/ Observed(ok) \/ Started(ok) \/ (FinalSnapshot(ok) /\ ~ok)
              \/ Verified(ok)
       PROVE  ConnGivesUp(queue, Now)
  BY <1>4, <1>13 DEF ConnClaimed, Observed, Started, FinalSnapshot, Verified, ConnFails
<1> QED
  BY <1>8, <1>10, <1>11, <1>12, <1>13 DEF Connecting

LEMMA DisconnectKept ==
    ASSUME TypeOK, Intent, Kept, Disconnect \/ Disconnects
    PROVE  Kept'
<1>1. queue \in Seq(Waiter) /\ run \in Run /\ conn \in Conn /\ dog \in Dog
      /\ {"nobody", "disc"} \subseteq Waiter
  BY DEF TypeOK, Waiter, Flow
<1>2. CASE Disconnect
  <2>1. /\ conn' = [conn EXCEPT !.live = FALSE] /\ disc' = "stopping" /\ late' = Keeping
        /\ dog' = Unwatch(dog)
    BY <1>2 DEF Disconnect, Disconnecting
  <2>2. conn'.pc = conn.pc /\ conn'.preserve = conn.preserve /\ dog'.pc = dog.pc
        /\ dog'.preserve = dog.preserve
    BY <1>1, <2>1, TimerKeeps DEF Conn
  <2>3. conn.pc = "barrier" => conn.preserve
    BY DEF Intent, BarrierKeeps
  <2>4. ~late' =>
            /\ ~(conn.preserve /\ conn.pc \in {"barrier", "stopping"})
            /\ ~(dog.preserve /\ dog.pc \in {"barrier", "stopping"})
    BY <2>1 DEF Keeping
  <2> QED
    BY <2>1, <2>2, <2>3, <2>4 DEF Kept, CancelledEnds, DogKeeps, OnByDog, KeptIsKnown
<1>3. ASSUME NEW ok \in BOOLEAN, DiscStopped(ok) PROVE Kept'
  <2>1. /\ UNCHANGED <<option, desired, conn, late>> /\ disc = "stopping"
        /\ \E who \in Waiter : Apply(queue, Call(Off(FALSE), who), Now)
        /\ dog' = dog \/ dog' = Synced(dog)
    BY <1>1, <1>3 DEF DiscStopped, Stopped, Over, Rests, Ending
  <2>2. ~wish'.connected /\ ~wish'.preserve
    BY <1>1, <2>1, AskedForApply, OffWants DEF AskedFor
  <2>3. dog'.pc = dog.pc /\ dog'.preserve = dog.preserve
    BY <1>1, <2>1, TimerKeeps
  <2> QED
    BY <2>1, <2>2, <2>3 DEF Kept, CancelledEnds, DogKeeps, OnByDog, KeptIsKnown, Wanted
<1> QED
  BY <1>2, <1>3 DEF Disconnects

LEMMA WatchingKept == ASSUME TypeOK, Intent, Kept, Watching PROVE Kept'
<1>1. queue \in Seq(Waiter) /\ run \in Run /\ dog \in Dog /\ {"nobody", "dog"} \subseteq Waiter
  BY DEF TypeOK, Waiter, Flow
<1>2. UNCHANGED <<option, desired, disc, late>>
  BY DEF Watching, Tick, HealthSnapshot, Examined, Restored, DogClaimed, DogStopped, Rests
<1>3. SUFFICES ASSUME desired = "idle" PROVE Kept'
  BY <1>2, <1>3 DEF Kept, CancelledEnds, DogKeeps, OnByDog, KeptIsKnown
<1>4. ASSUME Silently(queue, Now) PROVE wish' = wish /\ queue' = queue
  BY <1>1, <1>4, SilentApply DEF Silently, Silent
<1>5. ASSUME NEW w, Apply(queue, Call(w, "dog"), Now)
      PROVE  wish' = w /\ queue' # <<>> /\ queue'[Len(queue')] = "dog"
  <2>1. queue' = Append(queue, "dog") /\ wish' = w
    BY <1>1, <1>5, AskedForApply DEF AskedFor
  <2> QED
    BY <1>1, <2>1
<1>6. ASSUME dog.pc \notin {"barrier", "rearm", "stopping"}, dog'.pc \notin {"barrier", "stopping"},
             UNCHANGED <<wish, queue, state, latch, conn>>
      PROVE  Kept'
  BY <1>2, <1>6 DEF Kept, CancelledEnds, DogKeeps, OnByDog, KeptIsKnown, Wanted
<1>7. CASE Tick \/ HealthSnapshot \/ Restored
  <2>1. dog.pc \in {"off", "asked", "restoring"} /\ dog'.pc \in {"asked", "read", "off"}
        /\ UNCHANGED <<wish, queue, state, latch, conn>>
    BY <1>1, <1>7 DEF Tick, HealthSnapshot, Restored, Dog
  <2> QED
    BY <1>6, <2>1
<1>8. CASE Examined
  <2>1. dog.pc = "read" /\ UNCHANGED <<state, latch, conn>>
    BY <1>8 DEF Examined
  <2>2. ASSUME NEW pc \in {"off", "claim"}, dog' = [dog EXCEPT !.pc = pc], Silently(queue, Now)
        PROVE  Kept'
    <3>1. dog'.pc = pc
      BY <1>1, <2>2 DEF Dog
    <3> QED
      BY <1>4, <1>6, <2>1, <2>2, <3>1
  <2>3. ASSUME NEW phase, dog' = [dog EXCEPT !.pc = "rearm"],
               Apply(queue, Call(On(phase), "dog"), Now)
        PROVE  Kept'
    <3>1. dog'.pc = "rearm"
      BY <1>1, <2>3 DEF Dog
    <3>2. queue'[Len(queue')] = "dog"
      BY <1>5, <2>3
    <3> QED
      BY <1>2, <2>1, <3>1, <3>2 DEF Kept, CancelledEnds, DogKeeps, OnByDog, KeptIsKnown
  <2>4. \/ \E pc \in {"off", "claim"} : dog' = [dog EXCEPT !.pc = pc] /\ Silently(queue, Now)
        \/ \E phase : dog' = [dog EXCEPT !.pc = "rearm"] /\ Apply(queue, Call(On(phase), "dog"), Now)
    BY <1>8 DEF Examined
  <2> QED
    BY <2>2, <2>3, <2>4
<1>9. ASSUME NEW ok \in BOOLEAN, DogClaimed(ok) PROVE Kept'
  <2>1. dog.pc = "claim" /\ UNCHANGED conn
    BY <1>9 DEF DogClaimed
  <2>2. CASE ~ok
    <3>1. dog' = [dog EXCEPT !.pc = "off"] /\ Silently(queue, Now) /\ UNCHANGED <<state, latch>>
      BY <1>9, <2>2 DEF DogClaimed
    <3>2. dog'.pc = "off"
      BY <1>1, <3>1 DEF Dog
    <3> QED
      BY <1>4, <1>6, <2>1, <3>1, <3>2
  <2>3. CASE ok /\ Required
    <3>1. /\ dog' = [dog EXCEPT !.pc = "barrier", !.preserve = TRUE] /\ UNCHANGED <<state, latch>>
          /\ Apply(queue, Call(Off(TRUE), "dog"), Now)
          /\ conn.pc = "off" /\ disc = "off" /\ latch
      BY <1>9, <2>3 DEF DogClaimed, Required
    <3>2. ~wish'.connected
      BY <1>5, <3>1, OffWants
    <3> QED
      BY <1>2, <2>1, <3>1, <3>2 DEF Kept, CancelledEnds, DogKeeps, OnByDog, KeptIsKnown
  <2>4. CASE ok /\ ~Required
    <3> DEFINE d == [dog EXCEPT !.pc = "stopping", !.preserve = FALSE]
    <3>1. state' = "disconnecting" /\ dog' = Unwatch(d) /\ Silently(queue, Now)
      BY <1>9, <2>4 DEF DogClaimed, Disconnecting
    <3>2. d \in Dog /\ d.preserve = FALSE /\ d.pc = "stopping"
      BY <1>1 DEF Dog
    <3>3. dog'.preserve = FALSE
      <4> HIDE DEF d
      <4> QED
        BY <3>1, <3>2, TimerKeeps
    <3> QED
      BY <1>2, <1>4, <2>1, <3>1, <3>3 DEF Kept, CancelledEnds, DogKeeps, OnByDog, KeptIsKnown
  <2> QED
    BY <2>2, <2>3, <2>4
<1>10. ASSUME NEW ok \in BOOLEAN, NEW restores \in BOOLEAN, DogStopped(ok, restores) PROVE Kept'
  <2> DEFINE d == [dog EXCEPT !.pc = IF restores THEN "restoring" ELSE "off"]
  <2>1. /\ dog.pc = "stopping" /\ UNCHANGED conn
        /\ latch' = (latch /\ dog.preserve) /\ dog' = Synced(d)
        /\ Apply(queue, Call(Off(dog.preserve), "nobody"), Now)
    BY <1>3, <1>10 DEF DogStopped, Stopped, Over, Ending
  <2>2. d \in Dog /\ d.pc \in {"restoring", "off"} /\ dog.preserve \in BOOLEAN
    BY <1>1 DEF Dog
  <2>3. dog'.pc \in {"restoring", "off"}
    <3> HIDE DEF d
    <3> QED
      BY <2>1, <2>2, TimerKeeps
  <2>4. ~wish'.connected /\ wish'.preserve = dog.preserve
    BY <1>1, <2>1, <2>2, AskedForApply, OffWants DEF AskedFor
  <2>5. ~late /\ dog.preserve => latch
    BY <1>3, <2>1 DEF Kept, DogKeeps
  <2> QED
    BY <1>2, <2>1, <2>3, <2>4, <2>5 DEF Kept, CancelledEnds, DogKeeps, OnByDog, KeptIsKnown, Wanted
<1> QED
  BY <1>7, <1>8, <1>9, <1>10 DEF Watching

LEMMA TurnKept == ASSUME TypeOK, Intent, Kept, Turn PROVE Kept'
<1> DEFINE q == [i \in DOMAIN queue |-> IF queue[i] = "toggle" THEN "nobody" ELSE queue[i]]
<1>1. UNCHANGED <<desired, disc, late, conn, Shown>>
  BY DEF Turn
<1>2. SUFFICES ASSUME desired = "idle" PROVE Kept'
  BY <1>1, <1>2 DEF Kept, CancelledEnds, DogKeeps, OnByDog, KeptIsKnown
<1>3. state # "connected"
  BY <1>2 DEF Intent, IdleIsNotShown
<1>4. Apply(q, Call(Off(FALSE), "toggle"), Now)
  BY <1>3 DEF Turn
<1>5. q \in Seq(Waiter) /\ "toggle" \in Waiter
  BY DEF TypeOK, Waiter, Flow
<1>6. ~wish'.connected /\ ~wish'.preserve
  <2> HIDE DEF q
  <2> QED
    BY <1>4, <1>5, AskedForApply, OffWants DEF AskedFor
<1> QED
  BY <1>1, <1>6 DEF Kept, CancelledEnds, DogKeeps, OnByDog, KeptIsKnown, Wanted, Shown

LEMMA NextKept == TypeOK /\ Inv /\ Intent /\ Kept /\ [Next]_vars => Kept'
<1> SUFFICES ASSUME TypeOK, Inv, Intent, Kept, [Next]_vars PROVE Kept'
  OBVIOUS
<1>1. CASE Reconcile \/ CommandFails
  <2>1. queue # <<>>
    BY <1>1 DEF Reconcile, AskedActive, AskedElevated, Armed, Confirmed, Disarmed, DisarmAnswered,
       CommandFails, Inv, Busy
  <2>2. \/ \E ok \in BOOLEAN : Resolves(ok)
        \/ \E step, to : RunGoes(step, to)
    BY <1>1 DEF Reconcile, AskedActive, AskedElevated, Armed, Confirmed, Disarmed, DisarmAnswered,
       CommandFails
  <2>3. ASSUME NEW step, NEW to, RunGoes(step, to) PROVE Kept'
    BY <2>3 DEF RunGoes, Kept, CancelledEnds, DogKeeps, OnByDog, KeptIsKnown, Wanted
  <2> QED
    BY <2>1, <2>2, <2>3, ResolvesKept
<1>2. CASE Connect \/ Reconnect
  <2>1. desired' = "connected"
    BY <1>2 DEF Connect, Reconnect
  <2> QED
    BY <2>1 DEF Kept, CancelledEnds, DogKeeps, OnByDog, KeptIsKnown
<1>3. CASE FiltersVanish \/ Dies \/ UNCHANGED vars
  BY <1>3 DEF FiltersVanish, Dies, Shown, vars, Kept, CancelledEnds, DogKeeps, OnByDog, KeptIsKnown,
     Wanted
<1> QED
  BY <1>1, <1>2, <1>3, ConnectingKept, DisconnectKept, WatchingKept, TurnKept DEF Next, Rest

LEMMA InitKept == Init => Kept
BY DEF Init, NoConn, Off, Kept, CancelledEnds, DogKeeps, OnByDog, KeptIsKnown, Wanted

-----------------------------------------------------------------------------
\* Once all rests and the user wants no connection, nothing is blocked that nobody
\* knows of, whatever was rearmed, restored or failed to shut down before, and however
\* often; main.js:3836.  A click that crossed a shutdown is left out.
THEOREM NothingStaysBlocked == Spec => []IdleIsOpen
<1> DEFINE All == Inv /\ TypeOK /\ Intent /\ Kept
<1>1. Init => All
  BY InitInv, InitTypes, InitIntent, InitKept
<1>2. All /\ [Next]_vars => All'
  BY NextKeeps, NextTypes, NextIntent, NextKept
<1>3. All => IdleIsOpen
  <2> SUFFICES ASSUME All, AtRest, state = "idle", desired = "idle", settled, ~late,
                      ~(policy = "none")
               PROVE  Required
    BY DEF IdleIsOpen
  <2>1. Wanted
    BY DEF Inv, QuietMeansApplied, Wanted, AtRest
  <2> QED
    BY <2>1 DEF Kept, KeptIsKnown, AtRest, Required, Wanted
<1> QED
  BY <1>1, <1>2, <1>3, PTL DEF Spec

-----------------------------------------------------------------------------
(* Whose stop is under way.  A stop of the watchdog that is to lift the block is the first
   one that is answered, and no connection attempt begins beside it. *)

Stopping ==
    {w \in Flow : \/ w = "dog" /\ dog.pc = "stopping"
                  \/ w = "conn" /\ conn.pc = "stopping"
                  \/ w = "disc" /\ disc = "stopping"}

StopsOfFlows == Holds(stops, Stopping)

DogFirst ==
    /\ dog.pc = "barrier" => dog.preserve
    /\ dog.pc = "stopping" /\ ~dog.preserve =>
           /\ stops # <<>> /\ Head(stops) = "dog"
           /\ state = "disconnecting" /\ conn.pc \in {"off", "claim"} /\ disc # "release"

\* The strict tunnel has no switch.
StrictIsOn == strict => option /\ toggle.pc = "off"

Sent == StopsOfFlows /\ DogFirst /\ StrictIsOn

LEMMA AppendHead ==
    ASSUME NEW q \in Seq(Waiter), q # <<>>, NEW who \in Waiter
    PROVE  Append(q, who) # <<>> /\ Head(Append(q, who)) = Head(q)
OBVIOUS

\* A flow sends its stop, or has the answer to it, or does neither.
LEMMA SendKeeps ==
    ASSUME Sent, NEW f \in Flow,
           \/ UNCHANGED stops /\ Stopping' = Stopping
           \/ stops' = Append(stops, f) /\ f \notin Stopping /\ Stopping' = Stopping \cup {f}
           \/ /\ stops # <<>> /\ Head(stops) = f /\ stops' = Tail(stops)
              /\ Stopping' = Stopping \ {f}
    PROVE  StopsOfFlows'
<1>1. Holds(stops, Stopping) /\ f \in Waiter
  BY DEF Sent, StopsOfFlows, Waiter
<1>2. CASE UNCHANGED stops /\ Stopping' = Stopping
  BY <1>1, <1>2 DEF StopsOfFlows, Holds
<1>3. CASE stops' = Append(stops, f) /\ f \notin Stopping /\ Stopping' = Stopping \cup {f}
  <2>1. Holds(Append(stops, f), Stopping \cup {f})
    BY <1>1, <1>3, AppendHolds
  <2> QED
    BY <1>3, <2>1 DEF StopsOfFlows, Holds
<1>4. CASE /\ stops # <<>> /\ Head(stops) = f /\ stops' = Tail(stops)
           /\ Stopping' = Stopping \ {f}
  <2>1. Holds(Tail(stops), Stopping \ {f})
    BY <1>1, <1>4, TailHolds
  <2> QED
    BY <1>4, <2>1 DEF StopsOfFlows, Holds
<1> QED
  BY <1>2, <1>3, <1>4

LEMMA FlowsSend == {"dog", "conn", "disc"} \subseteq Flow /\ {"dog", "conn", "disc"} \subseteq Waiter
BY DEF Flow, Waiter

\* What the connection flow does leaves a stop of the watchdog alone.
LEMMA ConnSent ==
    ASSUME TypeOK, Sent, UNCHANGED <<disc, strict, option, toggle>>,
           dog'.pc = dog.pc, dog'.preserve = dog.preserve,
           \/ conn.pc = "claim" /\ conn'.pc = "off" /\ UNCHANGED <<stops, state>>
           \/ /\ conn.pc \notin {"off", "claim"} \/ dog.pc # "stopping"
              /\ \/ UNCHANGED stops /\ conn.pc # "stopping" /\ conn'.pc # "stopping"
                 \/ stops' = Append(stops, "conn") /\ conn.pc # "stopping" /\ conn'.pc = "stopping"
                 \/ /\ stops # <<>> /\ Head(stops) = "conn" /\ stops' = Tail(stops)
                    /\ conn.pc = "stopping" /\ conn'.pc # "stopping"
    PROVE  Sent'
<1>1. StopsOfFlows'
  <2>1. CASE UNCHANGED stops /\ conn.pc # "stopping" /\ conn'.pc # "stopping"
    <3>1. Stopping' = Stopping
      BY <2>1 DEF Stopping
    <3> QED
      BY <2>1, <3>1, SendKeeps, FlowsSend
  <2>2. CASE stops' = Append(stops, "conn") /\ conn.pc # "stopping" /\ conn'.pc = "stopping"
    <3>1. "conn" \notin Stopping /\ Stopping' = Stopping \cup {"conn"}
      BY <2>2 DEF Stopping, Flow
    <3> QED
      BY <2>2, <3>1, SendKeeps, FlowsSend
  <2>3. CASE /\ stops # <<>> /\ Head(stops) = "conn" /\ stops' = Tail(stops)
             /\ conn.pc = "stopping" /\ conn'.pc # "stopping"
    <3>1. Stopping' = Stopping \ {"conn"}
      BY <2>3 DEF Stopping, Flow
    <3> QED
      BY <2>3, <3>1, SendKeeps, FlowsSend
  <2> QED
    BY <2>1, <2>2, <2>3
<1>2. DogFirst'
  BY DEF Sent, DogFirst
<1>3. StrictIsOn'
  BY DEF Sent, StrictIsOn
<1> QED
  BY <1>1, <1>2, <1>3 DEF Sent

LEMMA ConnShutsSent ==
    ASSUME TypeOK, Sent, UNCHANGED <<disc, strict, option, toggle>>,
           conn.pc \notin {"off", "claim"} \/ dog.pc # "stopping", conn.pc # "stopping",
           NEW preserve \in BOOLEAN, NEW again, NEW q, NEW runs, ConnShuts(preserve, again, q, runs)
    PROVE  Sent'
<1>1. conn \in Conn /\ dog \in Dog
  BY DEF TypeOK
<1>2. conn'.pc = IF preserve THEN "barrier" ELSE "stopping"
  BY <1>1 DEF ConnShuts, Conn
<1>3. CASE preserve
  BY <1>2, <1>3, ConnSent DEF ConnShuts, Shown
<1>4. CASE ~preserve
  <2>1. stops' = Append(stops, "conn") /\ dog' = Unwatch(dog)
    BY <1>4 DEF ConnShuts, Disconnecting
  <2>2. dog'.pc = dog.pc /\ dog'.preserve = dog.preserve
    BY <1>1, <2>1, TimerKeeps
  <2> QED
    BY <1>2, <1>4, <2>1, <2>2, ConnSent
<1> QED
  BY <1>3, <1>4

LEMMA ConnFailsSent ==
    ASSUME TypeOK, Sent, UNCHANGED <<disc, strict, option, toggle>>,
           conn.pc \notin {"off", "claim", "stopping"}, NEW q, NEW runs, ConnFails(q, runs)
    PROVE  Sent'
<1>1. CASE conn.live
  BY <1>1, ConnShutsSent, Wishes DEF ConnFails
<1>2. CASE ~conn.live
  <2>1. conn'.pc = "off" /\ UNCHANGED <<stops, state, dog>>
    BY <1>2 DEF ConnFails, ConnGivesUp, Shown, NoConn
  <2> QED
    BY <2>1, ConnSent
<1> QED
  BY <1>1, <1>2

LEMMA ResolvesSent ==
    ASSUME TypeOK, Sent, queue # <<>>, NEW ok \in BOOLEAN, Resolves(ok), UNCHANGED strict
    PROVE  Sent'
<1> DEFINE q == Tail(queue)
<1>1. Head(queue) \in Flow => Head(queue) \in Waits
  BY TypeParts, TailHolds
<1>2. conn \in Conn /\ dog \in Dog
  BY DEF TypeOK
<1>3. CASE UNCHANGED <<option, Shown, conn, disc, toggle>>
  <2>1. Stopping' = Stopping /\ UNCHANGED stops
    BY <1>3 DEF Stopping, Shown
  <2>2. StopsOfFlows'
    BY <2>1, SendKeeps, FlowsSend
  <2> QED
    BY <1>3, <2>2 DEF Sent, DogFirst, StrictIsOn, Shown
<1> HIDE DEF q
<1>4. CASE Head(queue) = "conn" /\ ConnAnswered(ok, q)
  <2>1. UNCHANGED <<option, disc, toggle>> /\ conn.pc \in {"barrier", "preflight", "guard"}
    BY <1>1, <1>4 DEF ConnAnswered, Waits, Flow
  <2>2. CASE ConnFails(q, FALSE)
    BY <2>1, <2>2, ConnFailsSent
  <2>3. CASE ConnGivesUp(q, FALSE)
    <3>1. conn'.pc = "off" /\ UNCHANGED <<stops, state, dog>>
      BY <2>3 DEF ConnGivesUp, Shown, NoConn
    <3> QED
      BY <2>1, <3>1, ConnSent
  <2>4. CASE conn' = [conn EXCEPT !.pc = "stopping"] /\ Disconnecting("conn", TRUE, dog)
    <3>1. conn'.pc = "stopping"
      BY <1>2, <2>4 DEF Conn
    <3>2. stops' = Append(stops, "conn") /\ dog'.pc = dog.pc /\ dog'.preserve = dog.preserve
      BY <1>2, <2>4, TimerKeeps DEF Disconnecting
    <3> QED
      BY <2>1, <3>1, <3>2, ConnSent
  <2>5. ASSUME conn'.pc \in {"off", "starting", "snapshot"}, UNCHANGED stops,
               dog' \in {dog, Watch(dog), Synced(dog)}
        PROVE  Sent'
    <3>1. dog'.pc = dog.pc /\ dog'.preserve = dog.preserve
      BY <1>2, <2>5, TimerKeeps
    <3> QED
      BY <2>1, <2>5, <3>1, ConnSent
  <2>6. CASE conn' = NoConn /\ Over("cleanup_error", TRUE, dog) /\ UNCHANGED stops
    BY <2>5, <2>6 DEF Over, NoConn
  <2>7. ASSUME NEW pc \in {"starting", "snapshot"}, conn' = [conn EXCEPT !.pc = pc], UNCHANGED stops,
               dog' \in {dog, Watch(dog)}
        PROVE  Sent'
    <3>1. conn'.pc = pc
      BY <1>2, <2>7 DEF Conn
    <3> QED
      BY <2>5, <2>7, <3>1
  <2>8. \/ ConnFails(q, FALSE) \/ ConnGivesUp(q, FALSE)
        \/ conn' = [conn EXCEPT !.pc = "stopping"] /\ Disconnecting("conn", TRUE, dog)
        \/ conn' = NoConn /\ Over("cleanup_error", TRUE, dog) /\ UNCHANGED stops
        \/ \E pc \in {"starting", "snapshot"} :
              conn' = [conn EXCEPT !.pc = pc] /\ UNCHANGED stops /\ dog' \in {dog, Watch(dog)}
    BY <1>4 DEF ConnAnswered
  <2> QED
    BY <2>2, <2>3, <2>4, <2>6, <2>7, <2>8
<1>5. CASE Head(queue) = "disc" /\ DiscAnswered(ok, q)
  <2>1. UNCHANGED <<option, conn, toggle, stops>> /\ disc = "release" /\ disc' = "off"
        /\ dog' = Synced(dog)
    BY <1>1, <1>5 DEF DiscAnswered, Over, Waits, Flow
  <2>2. dog'.pc = dog.pc /\ dog'.preserve = dog.preserve
    BY <1>2, <2>1, TimerKeeps
  <2>3. Stopping' = Stopping
    BY <2>1, <2>2 DEF Stopping
  <2>4. StopsOfFlows'
    BY <2>1, <2>3, SendKeeps, FlowsSend
  <2> QED
    BY <2>1, <2>2, <2>4 DEF Sent, DogFirst, StrictIsOn
<1>6. CASE Head(queue) = "dog" /\ DogAnswered(ok, q)
  <2>1. UNCHANGED <<option, conn, disc, toggle>> /\ dog.pc \in {"barrier", "rearm", "reconcile"}
    BY <1>1, <1>6 DEF DogAnswered, Waits, Flow
  <2>2. CASE dog.pc = "barrier" /\ ok
    <3> DEFINE d == [dog EXCEPT !.pc = "stopping"]
    <3>1. dog' = Synced(d) /\ stops' = Append(stops, "dog") /\ state' = "disconnecting"
      BY <1>6, <2>2 DEF DogAnswered, Disconnecting
    <3>2. d \in Dog /\ d.pc = "stopping" /\ d.preserve = dog.preserve
      BY <1>2 DEF Dog
    <3>3. dog'.pc = "stopping" /\ dog'.preserve = dog.preserve
      <4> HIDE DEF d
      <4> QED
        BY <3>1, <3>2, TimerKeeps
    <3>4. "dog" \notin Stopping /\ Stopping' = Stopping \cup {"dog"}
      BY <2>1, <2>2, <3>3 DEF Stopping, Flow
    <3>5. StopsOfFlows'
      BY <3>1, <3>4, SendKeeps, FlowsSend
    <3> QED
      BY <2>1, <2>2, <3>3, <3>5 DEF Sent, DogFirst, StrictIsOn
  <2>3. CASE ~(dog.pc = "barrier" /\ ok)
    <3>1. UNCHANGED stops /\ \E pc \in {"reconcile", "off"} : dog' = [dog EXCEPT !.pc = pc]
      BY <1>6, <2>3 DEF DogAnswered
    <3>2. dog'.pc \in {"reconcile", "off"}
      BY <1>2, <3>1 DEF Dog
    <3>3. Stopping' = Stopping
      BY <2>1, <3>2 DEF Stopping
    <3>4. StopsOfFlows'
      BY <3>1, <3>3, SendKeeps, FlowsSend
    <3> QED
      BY <2>1, <3>2, <3>4 DEF Sent, DogFirst, StrictIsOn
  <2> QED
    BY <2>2, <2>3
<1>7. CASE Head(queue) = "toggle" /\ ToggleAnswered(ok, q)
  <2>1. UNCHANGED <<conn, disc, state, stops>> /\ toggle.pc # "off"
        /\ dog' \in {dog, Synced(dog)}
    BY <1>1, <1>7 DEF ToggleAnswered, Waits, Flow
  <2>2. dog'.pc = dog.pc /\ dog'.preserve = dog.preserve
    BY <1>2, <2>1, TimerKeeps
  <2>3. Stopping' = Stopping
    BY <2>1, <2>2 DEF Stopping
  <2>4. StopsOfFlows'
    BY <2>1, <2>3, SendKeeps, FlowsSend
  <2> QED
    BY <2>1, <2>2, <2>4 DEF Sent, DogFirst, StrictIsOn
<1> QED
  BY <1>3, <1>4, <1>5, <1>6, <1>7 DEF Resolves, q

LEMMA ConnectingSent == ASSUME TypeOK, Sent, Connecting PROVE Sent'
<1>1. UNCHANGED <<disc, strict, option, toggle>>
      /\ conn.pc \in {"claim", "stopping", "observe", "starting", "snapshot", "verify"}
  BY DEF Connecting, ConnClaimed, ConnStopped, Observed, NotObserved, Started, FinalSnapshot,
     Verified, Rests, World
<1>2. conn \in Conn /\ dog \in Dog
  BY DEF TypeOK
<1>3. ASSUME conn.pc \notin {"off", "claim", "stopping"} \/ (conn.pc = "claim" /\ dog.pc # "stopping"),
             conn'.pc # "stopping", UNCHANGED stops, dog' \in {dog, Watch(dog), Synced(dog)}
      PROVE  Sent'
  <2>1. dog'.pc = dog.pc /\ dog'.preserve = dog.preserve
    BY <1>2, <1>3, TimerKeeps
  <2> QED
    BY <1>1, <1>3, <2>1, ConnSent
<1>4. CASE ConnFails(queue, Now) /\ conn.pc \notin {"claim", "stopping"}
  BY <1>1, <1>4, ConnFailsSent
<1>5. CASE ConnGivesUp(queue, Now) /\ conn.pc # "stopping"
  <2>1. conn'.pc = "off" /\ UNCHANGED <<stops, dog, state>>
    BY <1>5 DEF ConnGivesUp, NoConn, Shown
  <2>2. CASE conn.pc = "claim"
    BY <1>1, <2>1, <2>2, ConnSent
  <2>3. CASE conn.pc # "claim"
    BY <1>1, <1>3, <1>5, <2>1, <2>3
  <2> QED
    BY <2>2, <2>3
<1>6. ASSUME NEW ok \in BOOLEAN, ConnClaimed(ok) PROVE Sent'
  <2>1. conn.pc = "claim" /\ (ok => dog.pc # "stopping")
    BY <1>6 DEF ConnClaimed
  <2>2. CASE ConnShuts(conn.preserve, TRUE, queue, Now) /\ ok
    <3>1. conn.preserve \in BOOLEAN
      BY <1>2 DEF Conn
    <3> QED
      BY <1>1, <2>1, <2>2, <3>1, ConnShutsSent
  <2>3. CASE conn' = [conn EXCEPT !.pc = "observe"] /\ UNCHANGED Shown /\ ok
    <3>1. conn'.pc = "observe" /\ UNCHANGED <<stops, dog>>
      BY <1>2, <2>3 DEF Conn, Shown
    <3> QED
      BY <1>3, <2>1, <2>3, <3>1
  <2>4. \/ ConnGivesUp(queue, Now)
        \/ ConnShuts(conn.preserve, TRUE, queue, Now) /\ ok
        \/ conn' = [conn EXCEPT !.pc = "observe"] /\ UNCHANGED Shown /\ ok
    BY <1>6 DEF ConnClaimed
  <2> QED
    BY <1>5, <2>1, <2>2, <2>3, <2>4
<1>7. ASSUME NEW ok \in BOOLEAN, ConnStopped(ok) PROVE Sent'
  <2>1. /\ conn.pc = "stopping" /\ dog' = Synced(dog)
        /\ stops # <<>> /\ Head(stops) = "conn" /\ stops' = Tail(stops)
        /\ conn' = NoConn \/ conn' = [conn EXCEPT !.pc = "observe"]
    BY <1>7 DEF ConnStopped, Stopped, Over
  <2>2. conn'.pc \in {"off", "observe"}
    BY <1>2, <2>1 DEF Conn, NoConn
  <2>3. dog'.pc = dog.pc /\ dog'.preserve = dog.preserve
    BY <1>2, <2>1, TimerKeeps
  <2> QED
    BY <1>1, <2>1, <2>2, <2>3, ConnSent
<1>8. ASSUME NEW ok \in BOOLEAN, Observed(ok) PROVE Sent'
  <2>1. conn.pc = "observe"
    BY <1>8 DEF Observed
  <2>2. CASE conn.live
    <3>1. /\ conn' = [conn EXCEPT !.pc = IF strict THEN "preflight" ELSE "starting"]
          /\ UNCHANGED stops /\ dog' \in {dog, Watch(dog)}
      BY <1>8, <2>2 DEF Observed
    <3>2. conn'.pc \in {"preflight", "starting"}
      BY <1>2, <3>1 DEF Conn
    <3> QED
      BY <1>3, <2>1, <3>1, <3>2
  <2> QED
    BY <1>5, <1>8, <2>1, <2>2 DEF Observed
<1>9. CASE NotObserved
  <2>1. conn.pc = "observe" /\ conn'.pc = "off" /\ UNCHANGED stops /\ dog' = Synced(dog)
    BY <1>9 DEF NotObserved, Over, NoConn
  <2> QED
    BY <1>3, <2>1
<1>10. ASSUME NEW ok \in BOOLEAN, Started(ok) PROVE Sent'
  <2>1. conn.pc = "starting"
    BY <1>10 DEF Started
  <2>2. CASE ok /\ conn.live
    <3>1. conn' = [conn EXCEPT !.pc = "guard"] /\ UNCHANGED <<stops, dog>>
      BY <1>10, <2>2 DEF Started, Shown
    <3>2. conn'.pc = "guard"
      BY <1>2, <3>1 DEF Conn
    <3> QED
      BY <1>3, <2>1, <3>1, <3>2
  <2> QED
    BY <1>4, <1>10, <2>1, <2>2 DEF Started
<1>11. ASSUME NEW ok \in BOOLEAN, FinalSnapshot(ok) PROVE Sent'
  <2>1. conn.pc = "snapshot"
    BY <1>11 DEF FinalSnapshot
  <2>2. CASE ok
    <3>1. /\ conn' = [conn EXCEPT !.pc = "verify", !.armed = (policy # "none")]
          /\ UNCHANGED <<stops, dog>>
      BY <1>11, <2>2 DEF FinalSnapshot, Shown
    <3>2. conn'.pc = "verify"
      BY <1>2, <3>1 DEF Conn
    <3> QED
      BY <1>3, <2>1, <3>1, <3>2
  <2> QED
    BY <1>4, <1>11, <2>1, <2>2 DEF FinalSnapshot
<1>12. ASSUME NEW ok \in BOOLEAN, Verified(ok) PROVE Sent'
  <2>1. conn.pc = "verify"
    BY <1>12 DEF Verified
  <2>2. CASE ok /\ conn.live /\ conn.armed = option
    <3>1. conn'.pc = "off" /\ UNCHANGED stops /\ dog' = Watch(dog)
      BY <1>12, <2>2 DEF Verified, NoConn
    <3> QED
      BY <1>3, <2>1, <3>1
  <2> QED
    BY <1>4, <1>12, <2>1, <2>2 DEF Verified
<1> QED
  BY <1>6, <1>7, <1>8, <1>9, <1>10, <1>11, <1>12 DEF Connecting

LEMMA DisconnectSent == ASSUME TypeOK, Sent, Disconnect \/ Disconnects PROVE Sent'
<1>1. conn \in Conn /\ dog \in Dog
  BY DEF TypeOK
<1>2. stops \in Seq(Waiter)
  BY DEF Sent, StopsOfFlows, Holds
<1>3. CASE Disconnect
  <2>1. /\ conn' = [conn EXCEPT !.live = FALSE] /\ disc = "off" /\ disc' = "stopping"
        /\ dog' = Unwatch(dog) /\ stops' = Append(stops, "disc") /\ state' = "disconnecting"
        /\ UNCHANGED <<strict, option, toggle>>
    BY <1>3 DEF Disconnect, Disconnecting
  <2>2. conn'.pc = conn.pc /\ dog'.pc = dog.pc /\ dog'.preserve = dog.preserve
    BY <1>1, <2>1, TimerKeeps DEF Conn
  <2>3. "disc" \notin Stopping /\ Stopping' = Stopping \cup {"disc"}
    BY <2>1, <2>2 DEF Stopping, Flow
  <2>4. StopsOfFlows'
    BY <2>1, <2>3, SendKeeps, FlowsSend
  <2>5. DogFirst'
    BY <1>2, <2>1, <2>2, AppendHead, FlowsSend DEF Sent, DogFirst
  <2> QED
    BY <2>1, <2>4, <2>5 DEF Sent, StrictIsOn
<1>4. ASSUME NEW ok \in BOOLEAN, DiscStopped(ok) PROVE Sent'
  <2>1. /\ stops # <<>> /\ Head(stops) = "disc" /\ stops' = Tail(stops)
        /\ disc = "stopping" /\ disc' # "stopping" /\ dog' \in {dog, Synced(dog)}
        /\ UNCHANGED <<strict, option, toggle, conn>>
    BY <1>4 DEF DiscStopped, Stopped, Over, Rests, World
  <2>2. dog'.pc = dog.pc /\ dog'.preserve = dog.preserve
    BY <1>1, <2>1, TimerKeeps
  <2>3. Stopping' = Stopping \ {"disc"}
    BY <2>1, <2>2 DEF Stopping, Flow
  <2>4. StopsOfFlows'
    BY <2>1, <2>3, SendKeeps, FlowsSend
  <2> QED
    BY <2>1, <2>2, <2>4 DEF Sent, StrictIsOn, DogFirst
<1> QED
  BY <1>3, <1>4 DEF Disconnects

LEMMA WatchingSent == ASSUME TypeOK, Sent, Watching PROVE Sent'
<1>1. dog \in Dog
  BY DEF TypeOK
<1>2. UNCHANGED <<disc, strict, option, toggle>>
  BY DEF Watching, Tick, HealthSnapshot, Examined, Restored, DogClaimed, DogStopped, Rests, World
<1>3. ASSUME dog.pc # "stopping", dog'.pc # "stopping", dog'.pc = "barrier" => dog'.preserve,
             UNCHANGED <<stops, conn>>
      PROVE  Sent'
  <2>1. Stopping' = Stopping
    BY <1>2, <1>3 DEF Stopping
  <2>2. StopsOfFlows'
    BY <1>3, <2>1, SendKeeps, FlowsSend
  <2> QED
    BY <1>2, <1>3, <2>2 DEF Sent, DogFirst, StrictIsOn
<1>4. CASE Tick \/ HealthSnapshot \/ Restored
  <2>1. /\ dog.pc \in {"off", "asked", "restoring"} /\ dog'.pc \in {"asked", "read", "off"}
        /\ UNCHANGED <<stops, conn>>
    BY <1>1, <1>4 DEF Tick, HealthSnapshot, Restored, Dog
  <2> QED
    BY <1>3, <2>1
<1>5. CASE Examined
  <2>1. /\ dog.pc = "read" /\ UNCHANGED <<stops, conn>>
        /\ \E pc \in {"off", "claim", "rearm"} : dog' = [dog EXCEPT !.pc = pc]
    BY <1>5 DEF Examined
  <2>2. dog'.pc \in {"off", "claim", "rearm"}
    BY <1>1, <2>1 DEF Dog
  <2> QED
    BY <1>3, <2>1, <2>2
<1>6. ASSUME NEW ok \in BOOLEAN, DogClaimed(ok) PROVE Sent'
  <2>1. dog.pc = "claim" /\ UNCHANGED conn
    BY <1>6 DEF DogClaimed
  <2>2. CASE ~ok
    <3>1. dog' = [dog EXCEPT !.pc = "off"] /\ UNCHANGED stops
      BY <1>6, <2>2 DEF DogClaimed
    <3>2. dog'.pc = "off"
      BY <1>1, <3>1 DEF Dog
    <3> QED
      BY <1>3, <2>1, <3>1, <3>2
  <2>3. CASE ok /\ Required
    <3>1. dog' = [dog EXCEPT !.pc = "barrier", !.preserve = TRUE] /\ UNCHANGED stops
      BY <1>6, <2>3 DEF DogClaimed
    <3>2. dog'.pc = "barrier" /\ dog'.preserve
      BY <1>1, <3>1 DEF Dog
    <3> QED
      BY <1>3, <2>1, <3>1, <3>2
  <2>4. CASE ok /\ ~Required
    <3> DEFINE d == [dog EXCEPT !.pc = "stopping", !.preserve = FALSE]
    <3>1. /\ state' = "disconnecting" /\ dog' = Unwatch(d) /\ stops' = Append(stops, "dog")
          /\ conn.pc = "off" /\ disc = "off"
      BY <1>6, <2>4 DEF DogClaimed, Disconnecting
    <3>2. d \in Dog /\ d.pc = "stopping"
      BY <1>1 DEF Dog
    <3>3. dog'.pc = "stopping"
      <4> HIDE DEF d
      <4> QED
        BY <3>1, <3>2, TimerKeeps
    <3>4. Stopping = {} /\ Stopping' = {"dog"}
      BY <1>2, <2>1, <3>1, <3>3 DEF Stopping, Flow
    <3>5. StopsOfFlows'
      BY <3>1, <3>4, SendKeeps, FlowsSend
    <3>6. stops = <<>>
      <4>1. stops \in Seq(Waiter) /\ \A w \in Flow : ~In(stops, w)
        BY <3>4 DEF Sent, StopsOfFlows, Holds
      <4>2. stops \in Seq(Flow)
        BY DEF TypeOK, Flow
      <4>3. stops # <<>> => Len(stops) \in Nat /\ Len(stops) # 0
        BY <4>2
      <4>4. stops # <<>> => 1 \in DOMAIN stops /\ stops[1] \in Flow
        BY <4>2, <4>3
      <4> QED
        BY <4>1, <4>4 DEF In
    <3>7. stops' # <<>> /\ Head(stops') = "dog"
      BY <3>1, <3>6
    <3> QED
      BY <1>2, <2>1, <3>1, <3>3, <3>5, <3>7 DEF Sent, DogFirst, StrictIsOn
  <2> QED
    BY <2>2, <2>3, <2>4
<1>7. ASSUME NEW ok \in BOOLEAN, NEW restores \in BOOLEAN, DogStopped(ok, restores) PROVE Sent'
  <2> DEFINE d == [dog EXCEPT !.pc = IF restores THEN "restoring" ELSE "off"]
  <2>1. /\ dog.pc = "stopping" /\ dog' = Synced(d)
        /\ stops # <<>> /\ Head(stops) = "dog" /\ stops' = Tail(stops)
        /\ conn' = conn \/ (conn.pc = "off" /\ conn' = [NoConn EXCEPT !.live = TRUE, !.pc = "observe"])
    BY <1>7 DEF DogStopped, Stopped, Over
  <2>2. d \in Dog /\ d.pc \in {"restoring", "off"}
    BY <1>1 DEF Dog
  <2>3. dog'.pc \in {"restoring", "off"}
    <3> HIDE DEF d
    <3> QED
      BY <2>1, <2>2, TimerKeeps
  <2>4. conn'.pc = "stopping" <=> conn.pc = "stopping"
    BY <2>1 DEF NoConn
  <2>5. Stopping' = Stopping \ {"dog"}
    BY <1>2, <2>1, <2>3, <2>4 DEF Stopping, Flow
  <2>6. StopsOfFlows'
    BY <2>1, <2>5, SendKeeps, FlowsSend
  <2> QED
    BY <1>2, <2>3, <2>6 DEF Sent, DogFirst, StrictIsOn
<1> QED
  BY <1>4, <1>5, <1>6, <1>7 DEF Watching

LEMMA NextSent == TypeOK /\ Inv /\ Sent /\ [Next]_vars => Sent'
<1> SUFFICES ASSUME TypeOK, Inv, Sent, [Next]_vars PROVE Sent'
  OBVIOUS
<1>1. ASSUME UNCHANGED <<strict, option, toggle, stops, dog, disc, state>>, conn' = conn
      PROVE  Sent'
  <2>1. Stopping' = Stopping
    BY <1>1 DEF Stopping
  <2>2. StopsOfFlows'
    BY <1>1, <2>1, SendKeeps, FlowsSend
  <2> QED
    BY <1>1, <2>2 DEF Sent, DogFirst, StrictIsOn
<1>2. CASE Reconcile \/ CommandFails
  <2>1. queue # <<>> /\ UNCHANGED strict
    BY <1>2 DEF Reconcile, AskedActive, AskedElevated, Armed, Confirmed, Disarmed, DisarmAnswered,
       CommandFails, Inv, Busy, World
  <2>2. \/ \E ok \in BOOLEAN : Resolves(ok)
        \/ \E step, to : RunGoes(step, to)
    BY <1>2 DEF Reconcile, AskedActive, AskedElevated, Armed, Confirmed, Disarmed, DisarmAnswered,
       CommandFails
  <2>3. ASSUME NEW step, NEW to, RunGoes(step, to) PROVE Sent'
    BY <1>1, <2>1, <2>3 DEF RunGoes
  <2> QED
    BY <2>1, <2>2, <2>3, ResolvesSent
<1>3. CASE Connect \/ Reconnect
  <2>1. /\ conn.pc = "off" /\ UNCHANGED <<strict, option, toggle, stops, dog, disc, state>>
        /\ conn'.pc = "claim" \/ (conn'.pc = "observe" /\ state = "idle")
    BY <1>3 DEF Connect, Reconnect, NoConn, Rests, World
  <2>2. Stopping' = Stopping
    BY <2>1 DEF Stopping
  <2>3. StopsOfFlows'
    BY <2>1, <2>2, SendKeeps, FlowsSend
  <2> QED
    BY <2>1, <2>3 DEF Sent, DogFirst, StrictIsOn
<1>4. CASE Turn
  <2>1. ~strict /\ UNCHANGED <<strict, Shown, conn, disc>>
    BY <1>4 DEF Turn, World
  <2>2. Stopping' = Stopping
    BY <2>1 DEF Stopping, Shown
  <2>3. StopsOfFlows'
    BY <2>1, <2>2, SendKeeps, FlowsSend DEF Shown
  <2> QED
    BY <2>1, <2>3 DEF Sent, DogFirst, StrictIsOn, Shown
<1>5. CASE FiltersVanish \/ Dies \/ UNCHANGED vars
  BY <1>1, <1>5 DEF FiltersVanish, Dies, Shown, World, vars
<1> QED
  BY <1>2, <1>3, <1>4, <1>5, ConnectingSent, DisconnectSent, WatchingSent DEF Next, Rest

LEMMA InitSent == Init => Sent
<1> SUFFICES ASSUME Init PROVE Sent
  OBVIOUS
<1>1. stops = <<>> /\ Stopping = {} /\ dog.pc = "off"
  BY DEF Init, Stopping, Flow, NoConn
<1>2. StopsOfFlows
  BY <1>1 DEF StopsOfFlows, Holds, Once, In
<1> QED
  BY <1>1, <1>2 DEF Init, Sent, DogFirst, StrictIsOn

-----------------------------------------------------------------------------
(* The strict tunnel, from the moment it is connected until the user disconnects: its block
   is latched, and whoever asks the queue asks for a block. *)

Closed == wish.connected \/ wish.preserve

\* The queue is not about to lift the block.
Shut == (queue # <<>> => Closed) /\ run.step # "disarm"

MadeIsLatched ==
    strict /\ made =>
        /\ desired = "connected" /\ latch /\ Shut
        /\ conn.pc \in {"claim", "barrier", "stopping"} => conn.preserve
        /\ dog.pc = "stopping" => dog.preserve

\* An attempt has all of that before its last step.
NearlyMade ==
    strict /\ conn.live =>
        /\ conn.pc \in {"starting", "guard", "snapshot", "verify"} => latch
        /\ conn.pc = "guard" => Closed
        /\ conn.pc \in {"snapshot", "verify"} => Shut

ArmsSome == run.step = "arm" => run.to # "none"

Firm == strict /\ desired = "connected" /\ latch /\ (dog.pc = "stopping" => dog.preserve)

\* The queue goes on, or is asked for a block.
LEMMA ShutSilently ==
    ASSUME option' = TRUE, run \in Run, NEW q \in Seq(Waiter), NEW runs \in BOOLEAN,
           Silently(q, runs), q # <<>> => Closed, runs => run.step # "disarm"
    PROVE  Shut' /\ wish' = wish /\ (Closed => Closed')
<1>1. /\ wish' = wish /\ queue' = q
      /\ run' = IF runs THEN run ELSE IF q = <<>> THEN NoRun ELSE Starts(wish', option')
  BY SilentApply DEF Silently, Silent
<1>2. NoRun.step # "disarm"
  BY DEF NoRun
<1>3. Closed' => Starts(wish', option').step # "disarm"
  BY DEF Starts, Closed
<1> QED
  BY <1>1, <1>2, <1>3 DEF Shut, Closed

LEMMA ShutAsks ==
    ASSUME option' = TRUE, run \in Run, NEW q \in Seq(Waiter), NEW runs \in BOOLEAN,
           NEW w, NEW who \in Waiter, Apply(q, Call(w, who), runs),
           w.connected = TRUE \/ w.preserve = TRUE
    PROVE  Closed' /\ ((runs => run.step # "disarm") => Shut')
<1>1. /\ wish' = w
      /\ run' = IF runs THEN [run EXCEPT !.fresh = FALSE] ELSE Starts(wish', option')
  BY AskedForApply DEF AskedFor
<1>2. Closed'
  BY <1>1 DEF Closed
<1>3. Closed' => Starts(wish', option').step # "disarm"
  BY DEF Starts, Closed
<1>4. [run EXCEPT !.fresh = FALSE].step = run.step
  BY DEF Run
<1> QED
  BY <1>1, <1>2, <1>3, <1>4 DEF Shut

LEMMA OnCloses ==
    /\ \A phase : On(phase).connected = TRUE
    /\ Off(TRUE).preserve = TRUE
BY DEF On, Off

\* Neither the watchdog nor a call that nobody waits for lifts a firm block.
LEMMA WatchingFirm ==
    ASSUME TypeOK, Sent, Firm, Watching
    PROVE  Firm' /\ (Shut => Shut') /\ (Closed => Closed')
<1>1. /\ queue \in Seq(Waiter) /\ run \in Run /\ dog \in Dog /\ Now \in BOOLEAN
      /\ {"nobody", "dog"} \subseteq Waiter
  BY DEF TypeOK, Waiter, Flow, Now
<1>2. UNCHANGED <<option, desired, strict>> /\ option = TRUE
  BY DEF Watching, Tick, HealthSnapshot, Examined, Restored, DogClaimed, DogStopped, Rests, World,
     Sent, StrictIsOn, Firm, TypeOK
<1>3. Required
  BY <1>2 DEF Required, Firm
<1>4. ASSUME Silently(queue, Now) PROVE (Shut => Shut') /\ (Closed => Closed')
  <2>1. wish' = wish
    BY <1>1, <1>4, SilentApply DEF Silently, Silent
  <2>2. Shut => Shut'
    BY <1>1, <1>2, <1>4, ShutSilently DEF Shut
  <2> QED
    BY <2>1, <2>2 DEF Closed
<1>5. ASSUME NEW w, NEW who \in Waiter, Apply(queue, Call(w, who), Now),
             w.connected = TRUE \/ w.preserve = TRUE
      PROVE  (Shut => Shut') /\ (Closed => Closed')
  BY <1>1, <1>2, <1>5, ShutAsks DEF Shut
<1>6. ASSUME dog'.pc # "stopping", latch' = latch PROVE Firm'
  BY <1>2, <1>6 DEF Firm
<1>7. CASE Tick \/ HealthSnapshot \/ Restored
  <2>1. dog'.pc \in {"asked", "read", "off"} /\ UNCHANGED <<wish, queue, run, latch>>
    BY <1>1, <1>7 DEF Tick, HealthSnapshot, Restored, Dog
  <2> QED
    BY <1>6, <2>1 DEF Shut, Closed
<1>8. CASE Examined
  <2>1. /\ UNCHANGED latch
        /\ \E pc \in {"off", "claim", "rearm"} : dog' = [dog EXCEPT !.pc = pc]
        /\ Silently(queue, Now) \/ \E phase : Apply(queue, Call(On(phase), "dog"), Now)
    BY <1>8 DEF Examined
  <2>2. dog'.pc # "stopping"
    BY <1>1, <2>1 DEF Dog
  <2> QED
    BY <1>1, <1>4, <1>5, <1>6, <2>1, <2>2, OnCloses
<1>9. ASSUME NEW ok \in BOOLEAN, DogClaimed(ok)
      PROVE  Firm' /\ (Shut => Shut') /\ (Closed => Closed')
  <2>1. /\ UNCHANGED latch
        /\ \/ dog' = [dog EXCEPT !.pc = "off"] /\ Silently(queue, Now)
           \/ /\ dog' = [dog EXCEPT !.pc = "barrier", !.preserve = TRUE]
              /\ Apply(queue, Call(Off(TRUE), "dog"), Now)
    BY <1>3, <1>9 DEF DogClaimed
  <2>2. dog'.pc # "stopping"
    BY <1>1, <2>1 DEF Dog
  <2> QED
    BY <1>1, <1>4, <1>5, <1>6, <2>1, <2>2, OnCloses
<1>10. ASSUME NEW ok \in BOOLEAN, NEW restores \in BOOLEAN, DogStopped(ok, restores)
       PROVE  Firm' /\ (Shut => Shut') /\ (Closed => Closed')
  <2> DEFINE d == [dog EXCEPT !.pc = IF restores THEN "restoring" ELSE "off"]
  <2>1. dog.pc = "stopping" /\ dog.preserve = TRUE
    <3>1. dog.preserve \in BOOLEAN /\ dog.pc = "stopping"
      BY <1>1, <1>10 DEF DogStopped, Dog
    <3> QED
      BY <3>1 DEF Firm
  <2>2. /\ latch' = (latch /\ dog.preserve) /\ dog' = Synced(d)
        /\ Apply(queue, Call(Off(dog.preserve), "nobody"), Now)
    BY <1>10 DEF DogStopped, Stopped, Over, Ending
  <2>3. d \in Dog /\ d.pc \in {"restoring", "off"}
    BY <1>1 DEF Dog
  <2>4. dog'.pc # "stopping"
    <3> HIDE DEF d
    <3> QED
      BY <2>2, <2>3, TimerKeeps
  <2>5. Firm'
    BY <1>6, <2>1, <2>2, <2>4 DEF Firm
  <2> QED
    BY <1>1, <1>5, <2>1, <2>2, <2>5, OnCloses
<1> QED
  BY <1>7, <1>8, <1>9, <1>10 DEF Watching

LEMMA ResolvesFirm ==
    ASSUME TypeOK, Intent, Sent, Firm, queue # <<>>, NEW ok \in BOOLEAN, Resolves(ok),
           Head(queue) # "conn", UNCHANGED strict
    PROVE  Firm' /\ (Shut => Shut') /\ (Closed => Closed') /\ UNCHANGED conn
<1> DEFINE q == Tail(queue)
<1>1. /\ q \in Seq(Waiter) /\ run \in Run /\ dog \in Dog /\ FALSE \in BOOLEAN
      /\ {"nobody", "dog"} \subseteq Waiter
  BY DEF TypeOK, Waiter, Flow
<1>2. UNCHANGED desired
  BY DEF Resolves
<1>3. Head(queue) \in Flow => Head(queue) \in Waits
  BY TypeParts, TailHolds
<1>4. Head(queue) # "toggle"
  BY <1>3 DEF Sent, StrictIsOn, Firm, Waits, Flow
<1>5. Head(queue) # "disc"
  BY <1>3 DEF Intent, DiscMeansIdle, Firm, Waits, Flow
<1>6. option = TRUE
  BY DEF Sent, StrictIsOn, Firm, TypeOK
<1>7. ASSUME Silently(q, FALSE), option' = option
      PROVE  (Shut => Shut') /\ (Closed => Closed')
  <2> HIDE DEF q
  <2>1. wish' = wish
    BY <1>1, <1>7, SilentApply DEF Silently, Silent
  <2>2. Shut => Shut'
    BY <1>1, <1>6, <1>7, ShutSilently DEF Shut
  <2> QED
    BY <2>1, <2>2 DEF Closed
<1> HIDE DEF q
<1>8. CASE UNCHANGED <<option, Shown, conn, disc, toggle>> /\ Silently(q, FALSE)
  BY <1>2, <1>7, <1>8 DEF Firm, Shown
<1>9. CASE DogAnswered(ok, q) /\ Head(queue) = "dog"
  <2>1. UNCHANGED <<option, conn>> /\ dog.pc \in {"barrier", "rearm", "reconcile"} /\ Required
    BY <1>3, <1>6, <1>9 DEF DogAnswered, Waits, Flow, Required, Firm
  <2>2. Silently(q, FALSE) /\ latch' = latch
    BY <1>9, <2>1 DEF DogAnswered, Disconnecting
  <2>3. CASE dog.pc = "barrier" /\ ok
    <3> DEFINE d == [dog EXCEPT !.pc = "stopping"]
    <3>1. dog' = Synced(d)
      BY <1>9, <2>3 DEF DogAnswered, Disconnecting
    <3>2. d \in Dog /\ d.preserve = dog.preserve /\ dog.preserve
      BY <1>1, <2>3 DEF Dog, Sent, DogFirst
    <3>3. dog'.preserve = dog.preserve
      <4> HIDE DEF d
      <4> QED
        BY <3>1, <3>2, TimerKeeps
    <3> QED
      BY <1>2, <1>7, <2>1, <2>2, <3>2, <3>3 DEF Firm
  <2>4. CASE ~(dog.pc = "barrier" /\ ok)
    <3>1. dog' = [dog EXCEPT !.pc = "off"]
      BY <1>9, <2>1, <2>4 DEF DogAnswered
    <3>2. dog'.pc = "off"
      BY <1>1, <3>1 DEF Dog
    <3> QED
      BY <1>2, <1>7, <2>1, <2>2, <3>2 DEF Firm
  <2> QED
    BY <2>3, <2>4
<1> QED
  BY <1>4, <1>5, <1>8, <1>9 DEF Resolves, q

\* What a connection flow may leave behind while the block is firm.
ConnFirm ==
    /\ latch' /\ Shut'
    /\ conn'.pc \in {"claim", "barrier", "stopping"} => conn'.preserve

LEMMA ConnShutsFirm ==
    ASSUME TypeOK, latch, option' = TRUE, NEW q \in Seq(Waiter), NEW runs \in BOOLEAN, NEW again,
           runs => run.step # "disarm", ConnShuts(TRUE, again, q, runs)
    PROVE  ConnFirm /\ UNCHANGED dog
<1>1. conn \in Conn /\ run \in Run /\ "conn" \in Waiter
  BY DEF TypeOK, Waiter, Flow
<1>2. /\ conn' = [conn EXCEPT !.preserve = TRUE, !.again = again, !.pc = "barrier"]
      /\ Apply(q, Call(Off(TRUE), "conn"), runs) /\ UNCHANGED Shown
  BY DEF ConnShuts
<1>3. conn'.preserve = TRUE
  BY <1>1, <1>2 DEF Conn
<1> QED
  BY <1>1, <1>2, <1>3, ShutAsks, OnCloses DEF ConnFirm, Shown

LEMMA ConnSilentFirm ==
    ASSUME TypeOK, option' = TRUE, NEW q \in Seq(Waiter), NEW runs \in BOOLEAN,
           Silently(q, runs), q # <<>> => Closed, runs => run.step # "disarm",
           latch', conn'.pc \notin {"claim", "barrier", "stopping"}
    PROVE  ConnFirm
BY ShutSilently DEF ConnFirm, TypeOK

LEMMA ConnFailsFirm ==
    ASSUME TypeOK, strict, latch, option = TRUE, option' = TRUE, NEW q \in Seq(Waiter),
           NEW runs \in BOOLEAN,
           q # <<>> => Closed, runs => run.step # "disarm", ConnFails(q, runs)
    PROVE  ConnFirm /\ UNCHANGED dog
<1>1. Required = TRUE
  BY DEF Required, TypeOK
<1>2. CASE conn.live
  BY <1>1, <1>2, ConnShutsFirm DEF ConnFails
<1>3. CASE ~conn.live
  BY <1>3, ConnSilentFirm DEF ConnFails, ConnGivesUp, Shown, NoConn
<1> QED
  BY <1>2, <1>3

LEMMA ConnShutsPlace ==
    ASSUME conn \in Conn, NEW p \in BOOLEAN, NEW r, NEW q, NEW runs, ConnShuts(p, r, q, runs)
    PROVE  conn'.pc \in {"barrier", "stopping"}
<1>1. conn' = [conn EXCEPT !.preserve = p, !.again = r, !.pc = IF p THEN "barrier" ELSE "stopping"]
  BY DEF ConnShuts
<1>2. conn'.pc = IF p THEN "barrier" ELSE "stopping"
  BY <1>1 DEF Conn
<1> QED
  BY <1>2

LEMMA ConnAnsweredMade ==
    ASSUME TypeOK, Sent, MadeIsLatched, strict, made, queue # <<>>, NEW ok \in BOOLEAN,
           ConnAnswered(ok, Tail(queue))
    PROVE  ConnFirm
<1> DEFINE q == Tail(queue)
<1>1. /\ q \in Seq(Waiter) /\ conn \in Conn /\ "nobody" \in Waiter /\ FALSE \in BOOLEAN
      /\ run \in Run
  BY DEF TypeOK, Waiter
<1>2. option = TRUE /\ option' = TRUE /\ latch /\ Closed
  BY DEF ConnAnswered, Sent, StrictIsOn, MadeIsLatched, Shut, TypeOK
<1> HIDE DEF q
<1>3. CASE ConnFails(q, FALSE)
  BY <1>1, <1>2, <1>3, ConnFailsFirm
<1>4. ASSUME conn'.pc \notin {"claim", "barrier", "stopping"}, Silently(q, FALSE), latch'
      PROVE  ConnFirm
  BY <1>1, <1>2, <1>4, ConnSilentFirm
<1>5. CASE ConnGivesUp(q, FALSE)
  BY <1>2, <1>4, <1>5 DEF ConnGivesUp, NoConn, Shown
<1>6. CASE /\ conn.pc = "barrier" /\ conn' = [conn EXCEPT !.pc = "stopping"]
           /\ Disconnecting("conn", TRUE, dog) /\ Silently(q, FALSE)
  <2>1. conn'.preserve = conn.preserve /\ conn.preserve
    BY <1>1, <1>6 DEF Conn, MadeIsLatched
  <2>2. Shut' /\ latch' = latch
    BY <1>1, <1>2, <1>6, ShutSilently DEF Disconnecting
  <2> QED
    BY <1>2, <2>1, <2>2 DEF ConnFirm
<1>7. CASE /\ conn' = NoConn /\ Over("cleanup_error", TRUE, dog)
           /\ Apply(q, Call(Off(TRUE), "nobody"), FALSE)
  <2>1. conn'.pc = "off" /\ latch'
    BY <1>2, <1>7 DEF NoConn, Over
  <2>2. Shut'
    BY <1>1, <1>2, <1>7, ShutAsks, OnCloses
  <2> QED
    BY <2>1, <2>2 DEF ConnFirm
<1>8. CASE \E pc \in {"starting", "snapshot"} :
              conn' = [conn EXCEPT !.pc = pc] /\ latch' = TRUE /\ Silently(q, FALSE)
  <2>1. conn'.pc \in {"starting", "snapshot"}
    BY <1>1, <1>8 DEF Conn
  <2> QED
    BY <1>4, <1>8, <2>1
<1>9. \/ ConnFails(q, FALSE) \/ ConnGivesUp(q, FALSE)
      \/ /\ conn.pc = "barrier" /\ conn' = [conn EXCEPT !.pc = "stopping"]
         /\ Disconnecting("conn", TRUE, dog) /\ Silently(q, FALSE)
      \/ /\ conn' = NoConn /\ Over("cleanup_error", TRUE, dog)
         /\ Apply(q, Call(Off(TRUE), "nobody"), FALSE)
      \/ \E pc \in {"starting", "snapshot"} :
              conn' = [conn EXCEPT !.pc = pc] /\ latch' = TRUE /\ Silently(q, FALSE)
  BY <1>2 DEF ConnAnswered, Ending, TypeOK, q
<1> QED
  BY <1>3, <1>5, <1>6, <1>7, <1>8, <1>9

\* An attempt that is answered is a step nearer.
LEMMA ConnAnsweredNearly ==
    ASSUME TypeOK, Sent, Intent, NearlyMade, strict, queue # <<>>, NEW ok \in BOOLEAN,
           ConnAnswered(ok, Tail(queue)), UNCHANGED strict
    PROVE  NearlyMade'
<1> DEFINE q == Tail(queue)
<1>1. q \in Seq(Waiter) /\ conn \in Conn /\ FALSE \in BOOLEAN /\ run \in Run
  BY DEF TypeOK
<1>2. option = TRUE /\ option' = TRUE
  BY DEF ConnAnswered, Sent, StrictIsOn, TypeOK
<1> HIDE DEF q
<1>3. ASSUME conn'.pc \notin {"starting", "guard", "snapshot", "verify"} PROVE NearlyMade'
  BY <1>3 DEF NearlyMade
<1>4. CASE ConnFails(q, FALSE) \/ ConnGivesUp(q, FALSE)
  <2>1. conn' = NoConn \/ \E p \in BOOLEAN : \E r : ConnShuts(p, r, q, FALSE)
    BY <1>4, Wishes DEF ConnFails, ConnGivesUp
  <2>2. ASSUME NEW p \in BOOLEAN, NEW r, ConnShuts(p, r, q, FALSE)
        PROVE  conn'.pc \in {"barrier", "stopping"}
    BY <1>1, <2>2, ConnShutsPlace, Zenon
  <2>3. conn' = NoConn \/ conn'.pc \in {"barrier", "stopping"}
    BY <2>1, <2>2, Zenon
  <2>4. conn'.pc \in {"off", "barrier", "stopping"}
    BY <2>3 DEF NoConn
  <2> QED
    BY <1>3, <2>4
<1>5. CASE conn' = NoConn
  BY <1>3, <1>5 DEF NoConn
<1>6. CASE conn' = [conn EXCEPT !.pc = "stopping"]
  <2>1. conn'.pc = "stopping"
    BY <1>1, <1>6 DEF Conn
  <2> QED
    BY <1>3, <2>1
<1>7. CASE conn' = [conn EXCEPT !.pc = "starting"] /\ latch' = TRUE
  <2>1. conn'.pc = "starting"
    BY <1>1, <1>7 DEF Conn
  <2> QED
    BY <1>7, <2>1 DEF NearlyMade
<1>8. CASE /\ conn' = [conn EXCEPT !.pc = "snapshot"] /\ conn.pc = "guard" /\ conn.live
           /\ latch' = latch /\ Silently(q, FALSE)
  <2>1. conn'.pc = "snapshot" /\ latch /\ Closed
    BY <1>1, <1>8 DEF Conn, NearlyMade
  <2>2. Shut'
    BY <1>1, <1>2, <1>8, <2>1, ShutSilently
  <2> QED
    BY <1>8, <2>1, <2>2 DEF NearlyMade
<1>9. \/ ConnFails(q, FALSE) \/ ConnGivesUp(q, FALSE) \/ conn' = NoConn
      \/ conn' = [conn EXCEPT !.pc = "stopping"]
      \/ conn' = [conn EXCEPT !.pc = "starting"] /\ latch' = TRUE
      \/ /\ conn' = [conn EXCEPT !.pc = "snapshot"] /\ conn.pc = "guard" /\ conn.live
         /\ latch' = latch /\ Silently(q, FALSE)
  BY DEF ConnAnswered, q
<1> QED
  BY <1>4, <1>5, <1>6, <1>7, <1>8, <1>9

LEMMA ConnectingMade ==
    ASSUME TypeOK, Sent, Intent, MadeIsLatched, strict, made, Connecting
    PROVE  ConnFirm
<1>1. /\ queue \in Seq(Waiter) /\ conn \in Conn /\ {"nobody", "conn"} \subseteq Waiter
      /\ Now \in BOOLEAN /\ run \in Run
  BY DEF TypeOK, Waiter, Flow, Now
<1>2. /\ option = TRUE /\ option' = TRUE /\ latch = TRUE /\ (queue # <<>> => Closed)
      /\ run.step # "disarm"
      /\ conn.pc \in {"claim", "barrier", "stopping"} => conn.preserve = TRUE
  <2>1. conn.preserve \in BOOLEAN
    BY <1>1 DEF Conn
  <2> QED
    BY <2>1 DEF Connecting, ConnClaimed, ConnStopped, Observed, NotObserved, Started, FinalSnapshot,
       Verified, Sent, StrictIsOn, MadeIsLatched, Shut, TypeOK
<1>3. Required = TRUE
  BY <1>2 DEF Required
<1>4. CASE ConnFails(queue, Now)
  BY <1>1, <1>2, <1>4, ConnFailsFirm
<1>5. ASSUME conn'.pc \notin {"claim", "barrier", "stopping"}, Silently(queue, Now), latch'
      PROVE  ConnFirm
  BY <1>1, <1>2, <1>5, ConnSilentFirm
<1>6. CASE ConnGivesUp(queue, Now)
  BY <1>2, <1>5, <1>6 DEF ConnGivesUp, NoConn, Shown
<1>7. ASSUME NEW w, NEW who \in {"nobody", "conn"}, Apply(queue, Call(w, who), Now),
             w.connected = TRUE \/ w.preserve = TRUE, latch',
             conn'.pc \notin {"claim", "barrier", "stopping"}
      PROVE  ConnFirm
  BY <1>1, <1>2, <1>7, ShutAsks DEF ConnFirm
<1>8. ASSUME NEW ok \in BOOLEAN, ConnClaimed(ok) PROVE ConnFirm
  <2>1. CASE ConnShuts(TRUE, TRUE, queue, Now)
    BY <1>1, <1>2, <2>1, ConnShutsFirm
  <2>2. CASE conn' = [conn EXCEPT !.pc = "observe"] /\ Silently(queue, Now) /\ UNCHANGED Shown
    <3>1. conn'.pc = "observe"
      BY <1>1, <2>2 DEF Conn
    <3> QED
      BY <1>2, <1>5, <2>2, <3>1 DEF Shown
  <2>3. conn.pc = "claim" /\ conn.preserve = TRUE
    BY <1>2, <1>8 DEF ConnClaimed
  <2> QED
    BY <1>6, <1>8, <2>1, <2>2, <2>3 DEF ConnClaimed
<1>9. ASSUME NEW ok \in BOOLEAN, ConnStopped(ok) PROVE ConnFirm
  <2>1. conn.preserve = TRUE
    BY <1>2, <1>9 DEF ConnStopped
  <2>2. /\ conn' = NoConn \/ conn' = [conn EXCEPT !.pc = "observe"]
        /\ latch' = TRUE /\ Apply(queue, Call(Off(TRUE), "nobody"), Now)
    BY <1>2, <1>9, <2>1 DEF ConnStopped, Stopped, Over, Ending
  <2>3. conn'.pc \in {"off", "observe"}
    BY <1>1, <2>2 DEF Conn, NoConn
  <2> QED
    BY <1>7, <2>2, <2>3, OnCloses
<1>10. ASSUME NEW ok \in BOOLEAN, Observed(ok) PROVE ConnFirm
  <2>1. CASE conn.live
    <3>1. /\ conn' = [conn EXCEPT !.pc = "preflight"] /\ latch'
          /\ Apply(queue, Call(On("preconnect"), "conn"), Now)
      BY <1>2, <1>10, <2>1 DEF Observed
    <3>2. conn'.pc = "preflight"
      BY <1>1, <3>1 DEF Conn
    <3> QED
      BY <1>7, <3>1, <3>2, OnCloses
  <2> QED
    BY <1>6, <1>10, <2>1 DEF Observed
<1>11. CASE NotObserved
  <2>1. conn'.pc = "off" /\ latch' = TRUE /\ Apply(queue, Call(Off(TRUE), "nobody"), Now)
    BY <1>2, <1>3, <1>11 DEF NotObserved, Over, Ending, NoConn
  <2> QED
    BY <1>7, <2>1, OnCloses
<1>12. ASSUME NEW ok \in BOOLEAN, Started(ok) PROVE ConnFirm
  <2>1. CASE ok /\ conn.live
    <3>1. /\ conn' = [conn EXCEPT !.pc = "guard"] /\ UNCHANGED Shown
          /\ Apply(queue, Call(On("connected"), "conn"), Now)
      BY <1>12, <2>1 DEF Started
    <3>2. conn'.pc = "guard" /\ latch'
      BY <1>1, <1>2, <3>1 DEF Conn, Shown
    <3> QED
      BY <1>7, <3>1, <3>2, OnCloses
  <2> QED
    BY <1>4, <1>12, <2>1 DEF Started
<1>13. ASSUME NEW ok \in BOOLEAN, FinalSnapshot(ok) PROVE ConnFirm
  <2>1. CASE ok
    <3>1. /\ conn' = [conn EXCEPT !.pc = "verify", !.armed = (policy # "none")]
          /\ Silently(queue, Now) /\ UNCHANGED Shown
      BY <1>13, <2>1 DEF FinalSnapshot
    <3>2. conn'.pc = "verify" /\ latch'
      BY <1>1, <1>2, <3>1 DEF Conn, Shown
    <3> QED
      BY <1>5, <3>1, <3>2
  <2> QED
    BY <1>4, <1>13, <2>1 DEF FinalSnapshot
<1>14. ASSUME NEW ok \in BOOLEAN, Verified(ok) PROVE ConnFirm
  <2>1. CASE ok /\ conn.live /\ conn.armed = option
    <3>1. /\ conn' = NoConn /\ latch' = (option /\ (strict \/ conn.armed))
          /\ Silently(queue, Now)
      BY <1>14, <2>1 DEF Verified
    <3>2. conn'.pc = "off" /\ latch'
      BY <1>2, <3>1 DEF NoConn
    <3> QED
      BY <1>5, <3>1, <3>2
  <2> QED
    BY <1>4, <1>14, <2>1 DEF Verified
<1> QED
  BY <1>8, <1>9, <1>10, <1>11, <1>12, <1>13, <1>14 DEF Connecting

\* The attempt goes on, and its last step finds all that the connection is to have.
LEMMA ConnectingNearly ==
    ASSUME TypeOK, Sent, Intent, NearlyMade, strict, Connecting
    PROVE  /\ NearlyMade'
           /\ made' # made => ConnFirm /\ desired = "connected" /\ conn.pc = "verify"
                              /\ dog' = Watch(dog)
<1>1. /\ queue \in Seq(Waiter) /\ conn \in Conn /\ "conn" \in Waiter /\ Now \in BOOLEAN /\ run \in Run
  BY DEF TypeOK, Waiter, Flow, Now
<1>2. option = TRUE /\ option' = TRUE /\ UNCHANGED strict
  BY DEF Connecting, ConnClaimed, ConnStopped, Observed, NotObserved, Started, FinalSnapshot,
     Verified, Sent, StrictIsOn, TypeOK, Rests, World
<1>3. ASSUME conn'.pc \notin {"starting", "guard", "snapshot", "verify"} PROVE NearlyMade'
  BY <1>3 DEF NearlyMade
<1>4. ASSUME ConnFails(queue, Now) \/ ConnGivesUp(queue, Now) PROVE NearlyMade'
  <2>1. conn' = NoConn \/ \E p \in BOOLEAN : \E r : ConnShuts(p, r, queue, Now)
    BY <1>4, Wishes DEF ConnFails, ConnGivesUp
  <2>2. conn'.pc \in {"off", "barrier", "stopping"}
    BY <1>1, <2>1, ConnShutsPlace DEF NoConn
  <2> QED
    BY <1>3, <2>2
<1>5. ASSUME NEW ok \in BOOLEAN, ConnClaimed(ok) PROVE NearlyMade' /\ made' = made
  <2>1. \/ ConnGivesUp(queue, Now) \/ ConnShuts(conn.preserve, TRUE, queue, Now)
        \/ conn' = [conn EXCEPT !.pc = "observe"]
    BY <1>5 DEF ConnClaimed
  <2>2. conn.preserve \in BOOLEAN
    BY <1>1 DEF Conn
  <2>3. conn'.pc \in {"off", "barrier", "stopping", "observe"}
    <3>1. CASE ConnShuts(conn.preserve, TRUE, queue, Now)
      BY <1>1, <2>2, <3>1, ConnShutsPlace
    <3>2. CASE ConnGivesUp(queue, Now)
      BY <3>2 DEF ConnGivesUp, NoConn
    <3>3. CASE conn' = [conn EXCEPT !.pc = "observe"]
      BY <1>1, <3>3 DEF Conn
    <3> QED
      BY <2>1, <3>1, <3>2, <3>3
  <2> QED
    BY <1>3, <1>5, <2>3 DEF ConnClaimed, Rests
<1>6. ASSUME NEW ok \in BOOLEAN, ConnStopped(ok) PROVE NearlyMade' /\ made' = made
  <2>1. conn' = NoConn \/ conn' = [conn EXCEPT !.pc = "observe"]
    BY <1>6 DEF ConnStopped
  <2>2. conn'.pc \in {"off", "observe"}
    BY <1>1, <2>1 DEF NoConn, Conn
  <2> QED
    BY <1>3, <1>6, <2>2 DEF ConnStopped, Rests
<1>7. ASSUME NEW ok \in BOOLEAN, Observed(ok) PROVE NearlyMade' /\ made' = made
  <2>1. conn' = NoConn \/ conn' = [conn EXCEPT !.pc = "preflight"]
    BY <1>7 DEF Observed, ConnGivesUp
  <2>2. conn'.pc \in {"off", "preflight"}
    BY <1>1, <2>1 DEF NoConn, Conn
  <2> QED
    BY <1>3, <1>7, <2>2 DEF Observed, Rests
<1>8. CASE NotObserved
  BY <1>3, <1>8 DEF NotObserved, NoConn, Rests
<1>9. ASSUME NEW ok \in BOOLEAN, Started(ok) PROVE NearlyMade' /\ made' = made
  <2>1. CASE ok /\ conn.live
    <3>1. /\ conn' = [conn EXCEPT !.pc = "guard"] /\ UNCHANGED Shown /\ conn.pc = "starting"
          /\ Apply(queue, Call(On("connected"), "conn"), Now)
      BY <1>9, <2>1 DEF Started
    <3>2. conn'.pc = "guard" /\ latch'
      BY <1>1, <2>1, <3>1 DEF Conn, Shown, NearlyMade
    <3>3. Closed'
      BY <1>1, <1>2, <3>1, ShutAsks, OnCloses
    <3> QED
      BY <1>9, <3>2, <3>3 DEF NearlyMade, Started, Rests
  <2> QED
    BY <1>4, <1>9, <2>1 DEF Started, Rests
<1>10. ASSUME NEW ok \in BOOLEAN, FinalSnapshot(ok) PROVE NearlyMade' /\ made' = made
  <2>1. CASE ok
    <3>1. /\ conn' = [conn EXCEPT !.pc = "verify", !.armed = (policy # "none")]
          /\ Silently(queue, Now) /\ UNCHANGED Shown /\ conn.pc = "snapshot"
      BY <1>10, <2>1 DEF FinalSnapshot
    <3>2. conn'.pc = "verify" /\ conn'.live = conn.live
      BY <1>1, <3>1 DEF Conn
    <3>3. conn.live => latch' /\ Shut
      BY <3>1 DEF Shown, NearlyMade
    <3>4. Shut => Shut'
      BY <1>1, <1>2, <3>1, ShutSilently DEF Shut
    <3> QED
      BY <1>10, <3>2, <3>3, <3>4 DEF NearlyMade, FinalSnapshot, Rests
  <2> QED
    BY <1>4, <1>10, <2>1 DEF FinalSnapshot, Rests
<1>11. ASSUME NEW ok \in BOOLEAN, Verified(ok)
       PROVE  /\ NearlyMade'
              /\ made' # made => ConnFirm /\ desired = "connected" /\ conn.pc = "verify"
                                 /\ dog' = Watch(dog)
  <2>1. CASE ok /\ conn.live /\ conn.armed = option
    <3>0. /\ conn' = NoConn /\ latch' = (option /\ (strict \/ conn.armed))
          /\ Silently(queue, Now) /\ conn.pc = "verify" /\ dog' = Watch(dog)
      BY <1>11, <2>1 DEF Verified
    <3>1. /\ conn'.pc = "off" /\ latch' /\ Silently(queue, Now) /\ conn.pc = "verify"
          /\ dog' = Watch(dog)
      BY <1>2, <3>0 DEF NoConn
    <3>2. Shut /\ desired = "connected"
      BY <2>1, <3>1 DEF NearlyMade, Intent, LiveWants
    <3>3. ConnFirm
      BY <1>1, <1>2, <3>1, <3>2, ConnSilentFirm DEF Shut
    <3> QED
      BY <1>3, <3>1, <3>2, <3>3
  <2>2. CASE ~(ok /\ conn.live /\ conn.armed = option)
    BY <1>4, <1>11, <2>2 DEF Verified
  <2> QED
    BY <2>1, <2>2
<1> QED
  BY <1>5, <1>6, <1>7, <1>8, <1>9, <1>10, <1>11 DEF Connecting, NotObserved, Rests

Latched == MadeIsLatched /\ NearlyMade /\ ArmsSome

\* An attempt whose block is latched is firm: no stop of the watchdog can be about to lift it.
LEMMA NearlyFirm ==
    ASSUME TypeOK, Intent, Sent, Latched, strict, conn.live,
           conn.pc \in {"starting", "guard", "snapshot", "verify"}
    PROVE  Firm
BY DEF Latched, NearlyMade, Firm, Intent, LiveWants, Sent, DogFirst

\* A step that leaves the connection flow alone and what is firm firm.
LEMMA FirmLatched ==
    ASSUME TypeOK, Intent, Sent, Latched, UNCHANGED <<strict, desired, made>>,
           Firm => Firm' /\ (Shut => Shut') /\ (Closed => Closed'),
           \/ UNCHANGED conn
           \/ conn'.pc = "observe"
    PROVE  MadeIsLatched' /\ NearlyMade'
<1>1. MadeIsLatched'
  <2> SUFFICES ASSUME strict, made PROVE MadeIsLatched'
    BY DEF MadeIsLatched
  <2>1. Firm /\ Shut
    BY DEF Latched, MadeIsLatched, Firm
  <2>2. Firm' /\ Shut'
    BY <2>1
  <2> QED
    BY <2>2 DEF Latched, MadeIsLatched, Firm
<1>2. NearlyMade'
  <2>1. CASE conn'.pc = "observe"
    BY <2>1 DEF NearlyMade
  <2>2. CASE UNCHANGED conn
    <3> SUFFICES ASSUME strict, conn.live, conn.pc \in {"starting", "guard", "snapshot", "verify"}
                 PROVE  NearlyMade'
      BY <2>2 DEF NearlyMade
    <3>1. Firm
      BY NearlyFirm
    <3> QED
      BY <2>2, <3>1 DEF Latched, NearlyMade, Firm
  <2> QED
    BY <2>1, <2>2
<1> QED
  BY <1>1, <1>2

LEMMA ResolvesLatched ==
    ASSUME TypeOK, Intent, Sent, Latched, queue # <<>>, NEW ok \in BOOLEAN, Resolves(ok),
           UNCHANGED strict
    PROVE  MadeIsLatched' /\ NearlyMade'
<1>1. UNCHANGED <<desired, made>>
  BY DEF Resolves
<1>2. CASE Head(queue) # "conn" /\ Firm
  BY <1>1, <1>2, ResolvesFirm, FirmLatched
<1>3. CASE Head(queue) # "conn" /\ ~Firm
  <2>1. UNCHANGED conn
    BY <1>3 DEF Resolves, DiscAnswered, DogAnswered, ToggleAnswered
  <2> QED
    BY <1>1, <1>3, <2>1, FirmLatched
<1>4. CASE Head(queue) = "conn"
  <2>1. ConnAnswered(ok, Tail(queue)) \/ (UNCHANGED <<option, Shown, conn, disc, toggle>> /\ FALSE)
    BY <1>4 DEF Resolves
  <2>2. strict /\ made => ConnFirm /\ desired = "connected"
    BY <2>1, ConnAnsweredMade DEF Latched, MadeIsLatched
  <2>3. dog'.pc = dog.pc /\ dog'.preserve = dog.preserve
    <3>1. dog \in Dog
      BY DEF TypeOK
    <3>2. dog' \in {dog, Watch(dog), Unwatch(dog), Synced(dog)}
      BY <2>1 DEF ConnAnswered, ConnGivesUp, ConnFails, ConnShuts, Disconnecting, Over, Shown
    <3> QED
      BY <3>1, <3>2, TimerKeeps
  <2>4. MadeIsLatched'
    BY <1>1, <2>2, <2>3 DEF Latched, MadeIsLatched, ConnFirm
  <2>5. NearlyMade'
    <3>1. CASE strict
      BY <2>1, <3>1, ConnAnsweredNearly DEF Latched
    <3> QED
      BY <3>1 DEF NearlyMade
  <2> QED
    BY <2>4, <2>5
<1> QED
  BY <1>2, <1>3, <1>4

LEMMA ConnectingLatched ==
    ASSUME TypeOK, Intent, Sent, Latched, Connecting
    PROVE  MadeIsLatched' /\ NearlyMade'
<1>1. UNCHANGED <<strict, desired>>
  BY DEF Connecting, ConnClaimed, ConnStopped, Observed, NotObserved, Started, FinalSnapshot,
     Verified, Rests, World
<1>2. SUFFICES ASSUME strict PROVE MadeIsLatched' /\ NearlyMade'
  BY <1>1 DEF MadeIsLatched, NearlyMade
<1>3. dog'.pc = dog.pc /\ dog'.preserve = dog.preserve
  <2>1. dog \in Dog
    BY DEF TypeOK
  <2>2. ASSUME ConnGivesUp(queue, Now) \/ ConnFails(queue, Now)
               \/ ConnShuts(conn.preserve, TRUE, queue, Now)
        PROVE  dog' \in {dog, Watch(dog), Unwatch(dog), Synced(dog)}
    BY <2>2 DEF ConnGivesUp, ConnFails, ConnShuts, Disconnecting, Shown
  <2>3. dog' \in {dog, Watch(dog), Unwatch(dog), Synced(dog)}
    BY <2>2 DEF Connecting, ConnClaimed, ConnStopped, Observed, NotObserved, Started, FinalSnapshot,
       Verified, Stopped, Over, Shown
  <2> QED
    BY <2>1, <2>3, TimerKeeps
<1>4. /\ NearlyMade'
      /\ made' # made => ConnFirm /\ desired = "connected" /\ conn.pc = "verify"
                         /\ dog' = Watch(dog)
  BY <1>2, ConnectingNearly DEF Latched
<1>5. CASE made
  <2>1. ConnFirm /\ desired = "connected" /\ (dog.pc = "stopping" => dog.preserve)
    BY <1>2, <1>5, ConnectingMade DEF Latched, MadeIsLatched
  <2> QED
    BY <1>1, <1>3, <1>4, <2>1 DEF MadeIsLatched, ConnFirm
<1>6. CASE ~made
  <2>1. made' => ConnFirm /\ desired = "connected" /\ (dog.pc = "stopping" => dog.preserve)
    BY <1>4, <1>6 DEF Sent, DogFirst
  <2> QED
    BY <1>1, <1>3, <1>4, <2>1 DEF MadeIsLatched, ConnFirm
<1> QED
  BY <1>5, <1>6

\* A reconciliation is answered, or goes on, and only the answer about the rights lets it arm.
LEMMA ReconcileSteps ==
    ASSUME Reconcile \/ CommandFails
    PROVE  \/ \E ok \in BOOLEAN : Resolves(ok)
           \/ RunGoes("arm", "tunnel") \/ RunGoes("arm", "block")
           \/ \E step \in {"elevated", "confirm", "disarmed"} : RunGoes(step, "none")
<1>1. CASE AskedActive
  BY <1>1 DEF AskedActive
<1>2. CASE AskedElevated
  <2>1. Resolves(FALSE) \/ RunGoes("arm", "tunnel") \/ RunGoes("arm", "block")
    BY <1>2 DEF AskedElevated
  <2> QED
    BY <2>1
<1>3. CASE Armed \/ Disarmed
  BY <1>3 DEF Armed, Disarmed
<1>4. CASE Confirmed \/ DisarmAnswered \/ CommandFails
  <2>1. (policy # "none") \in BOOLEAN
    OBVIOUS
  <2>2. Resolves(policy # "none") \/ Resolves(TRUE) \/ Resolves(FALSE)
    BY <1>4 DEF Confirmed, DisarmAnswered, CommandFails
  <2> QED
    BY <2>1, <2>2
<1> QED
  BY <1>1, <1>2, <1>3, <1>4 DEF Reconcile

\* What an action arms is a block: only the answer about the rights starts to arm.
LEMMA NextArms == TypeOK /\ Inv /\ ArmsSome /\ [Next]_vars => ArmsSome'
<1> SUFFICES ASSUME TypeOK, Inv, ArmsSome, [Next]_vars PROVE ArmsSome'
  OBVIOUS
<1>1. run \in Run
  BY DEF TypeOK
<1>2. \A w, on : Starts(w, on).step # "arm"
  BY DEF Starts
<1>3. ASSUME NEW q, NEW calls, NEW runs, Apply(q, calls, runs) PROVE ArmsSome'
  <2>1. CASE runs
    <3>1. run' = [run EXCEPT !.fresh = @ /\ calls = <<>>]
      BY <1>3, <2>1 DEF Apply
    <3>2. run'.step = run.step /\ run'.to = run.to
      BY <1>1, <3>1 DEF Run
    <3> QED
      BY <3>2 DEF ArmsSome
  <2>2. CASE ~runs
    BY <1>2, <1>3, <2>2 DEF Apply, NoRun, ArmsSome
  <2> QED
    BY <2>1, <2>2
<1>4. ASSUME NEW q, NEW runs, ConnFails(q, runs) \/ ConnGivesUp(q, runs) PROVE ArmsSome'
  BY <1>3, <1>4 DEF ConnFails, ConnGivesUp, ConnShuts, Silently
<1>5. ASSUME NEW ok, Resolves(ok) PROVE ArmsSome'
  <2>1. CASE ConnAnswered(ok, Tail(queue))
    BY <1>3, <1>4, <2>1 DEF ConnAnswered, Silently
  <2>2. CASE DiscAnswered(ok, Tail(queue)) \/ DogAnswered(ok, Tail(queue))
             \/ ToggleAnswered(ok, Tail(queue)) \/ Silently(Tail(queue), FALSE)
    BY <1>3, <2>2 DEF DiscAnswered, DogAnswered, ToggleAnswered, Silently
  <2> QED
    BY <1>5, <2>1, <2>2 DEF Resolves
<1>6. ASSUME NEW step, NEW to, RunGoes(step, to), step = "arm" => to # "none" PROVE ArmsSome'
  <2>1. run'.step = step /\ run'.to = to
    BY <1>1, <1>6 DEF RunGoes, Run
  <2> QED
    BY <1>6, <2>1 DEF ArmsSome
<1>7. CASE Reconcile \/ CommandFails
  <2>1. RunGoes("arm", "tunnel") \/ RunGoes("arm", "block") => ArmsSome'
    BY <1>6
  <2>2. ASSUME NEW step \in {"elevated", "confirm", "disarmed"}, RunGoes(step, "none")
        PROVE  ArmsSome'
    BY <1>6, <2>2
  <2> QED
    BY <1>5, <1>7, <2>1, <2>2, ReconcileSteps
<1>8. CASE Connecting
  <2>1. ASSUME NEW ok \in BOOLEAN, ConnClaimed(ok) PROVE ArmsSome'
    BY <1>3, <1>4, <2>1 DEF ConnClaimed, ConnShuts, Silently
  <2>2. ASSUME NEW ok \in BOOLEAN, Started(ok) \/ FinalSnapshot(ok) \/ Verified(ok) PROVE ArmsSome'
    BY <1>3, <1>4, <2>2 DEF Started, FinalSnapshot, Verified, Silently
  <2>3. ASSUME NEW ok \in BOOLEAN, ConnStopped(ok) \/ Observed(ok) \/ NotObserved PROVE ArmsSome'
    BY <1>3, <1>4, <2>3 DEF ConnStopped, Observed, NotObserved
  <2> QED
    BY <1>8, <2>1, <2>2, <2>3 DEF Connecting
<1>9. CASE Disconnect \/ Disconnects \/ Turn
  BY <1>3, <1>9 DEF Disconnect, Disconnects, DiscStopped, Turn, Silently
<1>10. CASE Watching
  BY <1>3, <1>10 DEF Watching, Tick, HealthSnapshot, Examined, Restored, DogClaimed, DogStopped,
     Silently, ArmsSome
<1>11. CASE Connect \/ Reconnect \/ FiltersVanish \/ Dies \/ UNCHANGED vars
  BY <1>11 DEF Connect, Reconnect, FiltersVanish, Dies, vars, ArmsSome
<1> QED
  BY <1>7, <1>8, <1>9, <1>10, <1>11 DEF Next, Rest

LEMMA NextLatched == TypeOK /\ Inv /\ Intent /\ Sent /\ Latched /\ [Next]_vars => Latched'
<1> SUFFICES ASSUME TypeOK, Inv, Intent, Sent, Latched, [Next]_vars
             PROVE  MadeIsLatched' /\ NearlyMade'
  BY NextArms DEF Latched
<1>1. CASE Reconcile \/ CommandFails
  <2>1. queue # <<>> /\ UNCHANGED strict
    BY <1>1 DEF Reconcile, AskedActive, AskedElevated, Armed, Confirmed, Disarmed, DisarmAnswered,
       CommandFails, Inv, Busy, World
  <2>2. \/ \E ok \in BOOLEAN : Resolves(ok)
        \/ \E step \in {"arm", "elevated", "confirm", "disarmed"} : \E to : RunGoes(step, to)
    BY <1>1, ReconcileSteps
  <2>3. ASSUME NEW step \in {"arm", "elevated", "confirm", "disarmed"}, NEW to, RunGoes(step, to)
        PROVE  MadeIsLatched' /\ NearlyMade'
    <3>1. run'.step # "disarm"
      BY <2>3 DEF RunGoes, TypeOK, Run
    <3>2. (Shut => Shut') /\ (Closed => Closed') /\ (Firm => Firm')
      BY <2>1, <2>3, <3>1 DEF RunGoes, Shut, Closed, Firm
    <3>3. UNCHANGED <<strict, desired, made, conn>>
      BY <2>1, <2>3 DEF RunGoes
    <3> QED
      BY <3>2, <3>3, FirmLatched
  <2> QED
    BY <2>1, <2>2, <2>3, ResolvesLatched
<1>2. CASE Connect
  <2>1. conn.pc = "off" /\ conn'.pc = "observe"
        /\ UNCHANGED <<strict, latch, queue, wish, run, dog, made>> /\ desired' = "connected"
    BY <1>2 DEF Connect, Rests, World, NoConn
  <2> QED
    BY <2>1 DEF Latched, MadeIsLatched, NearlyMade, Shut, Closed
<1>3. CASE Reconnect
  <2>1. /\ conn'.pc = "claim" /\ conn'.preserve = Required
        /\ UNCHANGED <<strict, option, latch, queue, wish, run, dog, made, desired>>
    BY <1>3 DEF Reconnect, Rests, World, NoConn
  <2>2. strict /\ made => Required
    BY DEF Latched, MadeIsLatched, Sent, StrictIsOn, Required
  <2> QED
    BY <2>1, <2>2 DEF Latched, MadeIsLatched, NearlyMade, Shut, Closed
<1>4. CASE Disconnect
  <2>1. conn'.live = FALSE /\ made' = FALSE
    BY <1>4 DEF Disconnect, TypeOK, Conn
  <2> QED
    BY <2>1 DEF MadeIsLatched, NearlyMade
<1>5. CASE Disconnects
  <2>1. disc = "stopping" /\ UNCHANGED <<strict, desired, conn, made>>
    BY <1>5 DEF Disconnects, DiscStopped, Rests, World
  <2>2. desired = "idle"
    BY <2>1 DEF Intent, DiscMeansIdle
  <2>3. ~Firm
    BY <2>2 DEF Firm
  <2> QED
    BY <2>1, <2>3, FirmLatched
<1>6. CASE Watching
  <2>1. UNCHANGED <<strict, desired, made>> /\ (conn' = conn \/ conn'.pc = "observe")
    BY <1>6 DEF Watching, Tick, HealthSnapshot, Examined, Restored, DogClaimed, DogStopped, Rests,
       World, NoConn
  <2> QED
    BY <1>6, <2>1, WatchingFirm, FirmLatched
<1>7. CASE Turn
  BY <1>7 DEF Turn, World, MadeIsLatched, NearlyMade
<1>8. CASE FiltersVanish \/ Dies \/ UNCHANGED vars
  BY <1>8 DEF FiltersVanish, Dies, Shown, World, vars, Latched, MadeIsLatched, NearlyMade, Shut,
     Closed
<1> QED
  BY <1>1, <1>2, <1>3, <1>4, <1>5, <1>6, <1>7, <1>8, ConnectingLatched DEF Next, Rest

LEMMA InitLatched == Init => Latched
BY DEF Init, NoConn, NoRun, Latched, MadeIsLatched, NearlyMade, ArmsSome

-----------------------------------------------------------------------------
\* The block of the strict tunnel is not lifted by what the program does, from the moment
\* it is connected until the user disconnects: shutdownCore, main.js:1101, the watchdog,
\* health-watchdog.js:341, and reconcile, kill-switch.js:77-123.  It goes only when the
\* engine of Windows restarts, however many reconnects, deaths and failed stops there are.
THEOREM StrictBlockIsKept == Spec => GuardOutlivesRuntime
<1> DEFINE All == Inv /\ TypeOK /\ Intent /\ Sent /\ Latched
<1>1. Init => All
  BY InitInv, InitTypes, InitIntent, InitSent, InitLatched
<1>2. All /\ [Next]_vars => All'
  BY NextKeeps, NextTypes, NextIntent, NextSent, NextLatched
<1>3. All /\ [Next]_vars
        => [(strict /\ made /\ policy # "none" /\ policy' = "none") => faults' # faults]_vars
  <2> SUFFICES ASSUME All, [Next]_vars, strict, made, policy # "none", policy' = "none"
               PROVE  faults' # faults
    OBVIOUS
  <2>1. run.step # "disarm" /\ (run.step = "arm" => run.to # "none")
    BY DEF Latched, MadeIsLatched, Shut, ArmsSome
  <2>2. FiltersVanish
    BY <2>1 DEF Next, Reconcile, AskedActive, AskedElevated, Armed, Confirmed, Disarmed,
       DisarmAnswered, CommandFails, Connect, Reconnect, Connecting, ConnClaimed, ConnStopped,
       Observed, NotObserved, Started, FinalSnapshot, Verified, Disconnect, Disconnects,
       DiscStopped, Watching, Tick, HealthSnapshot, Examined, Restored, DogClaimed, DogStopped,
       Turn, Dies, Rest, Rests, vars
  <2>3. faults \in Nat
    BY GuardAssumption DEF TypeOK
  <2> QED
    BY <2>2, <2>3 DEF FiltersVanish, Fault
<1> QED
  BY <1>1, <1>2, <1>3, PTL DEF Spec, GuardOutlivesRuntime
=============================================================================
