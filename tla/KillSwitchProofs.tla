-------------------------- MODULE KillSwitchProofs --------------------------
(***************************************************************************)
(* What the kill switch guarantees for every number of threads and         *)
(* sessions: types, that no session is lost, that a rearm never touches a  *)
(* transition barrier and never leaves the machine without a live session  *)
(* it had, and that there is one barrier at most.                          *)
(***************************************************************************)
EXTENDS KillSwitch, FiniteSetTheorems, TLAPS

LEMMA NoTaskType == NoTask \in Task
BY DEF NoTask, Task

\* Every variable of the kill switch keeps its type.
THEOREM SwitchTypeCorrect == Spec => []TypeOK
<1>1. Init => TypeOK
  <2> SUFFICES ASSUME Init PROVE TypeOK
    OBVIOUS
  <2>1. task \in [Thread -> Task]
    BY NoTaskType DEF Init
  <2>2. QED
    BY <2>1 DEF Init, TypeOK, PC, Critical
<1>2. TypeOK /\ [Next]_vars => TypeOK'
  <2> SUFFICES ASSUME TypeOK, [Next]_vars
               PROVE  TypeOK'
    OBVIOUS
  <2> USE NoTaskType DEF TypeOK, PC, Critical
  <2>1. ASSUME NEW t \in Thread, NEW op \in Mutation, Begin(t, op)
        PROVE  TypeOK'
    <3>1. [NoTask EXCEPT !.op = op] \in Task
      BY DEF NoTask, Task
    <3>2. task' \in [Thread -> Task]
      BY <2>1, <3>1 DEF Begin
    <3>3. pc' \in [Thread -> PC]
      BY <2>1 DEF Begin, Go
    <3>4. QED
      BY <2>1, <3>2, <3>3 DEF Begin, BumpVersion
  <2>2. ASSUME NEW t \in Thread, Lock(t)
        PROVE  TypeOK'
    BY <2>2 DEF Lock, Go
  <2>3. ASSUME NEW t \in Thread, ArmPolicy(t)
        PROVE  TypeOK'
    BY <2>3 DEF ArmPolicy, Running, Opened
  <2>4. ASSUME NEW t \in Thread, ArmFails(t)
        PROVE  TypeOK'
    BY <2>4 DEF ArmFails, Return
  <2>5. ASSUME NEW t \in Thread, TransitionArm(t)
        PROVE  TypeOK'
    BY <2>5 DEF TransitionArm, Running, Opened, Return
  <2>6. ASSUME NEW t \in Thread, DisarmPolicy(t)
        PROVE  TypeOK'
    BY <2>6 DEF DisarmPolicy, Running
  <2>7. ASSUME NEW t \in Thread, TransitionRelease(t)
        PROVE  TypeOK'
    BY <2>7 DEF TransitionRelease, Running
  <2>8. ASSUME NEW t \in Thread, CloseOne(t)
        PROVE  TypeOK'
    BY <2>8 DEF CloseOne, Close, platform
  <2>9. ASSUME NEW t \in Thread, CloseDone(t)
        PROVE  TypeOK'
    BY <2>9 DEF CloseDone, Return
  <2>10. ASSUME NEW t \in Thread, ReadVersion(t)
        PROVE  TypeOK'
    BY <2>10 DEF ReadVersion, Go, NoTask, Task
  <2>11. ASSUME NEW t \in Thread, ReadCache(t)
        PROVE  TypeOK'
    BY <2>11 DEF ReadCache, Go
  <2>12. ASSUME NEW t \in Thread, Drain(t)
        PROVE  TypeOK'
    BY <2>12 DEF Drain, Go
  <2>13. ASSUME NEW t \in Thread, Examine(t)
        PROVE  TypeOK'
    <3>1. PICK h \in todo :
             /\ todo' = todo \ {h}
             /\ IF h \in live
                THEN leases' = leases \cup {h} /\ UNCHANGED platform
                ELSE Close(h)
             /\ task' = [task EXCEPT ![t].active = @ \/ h \in live,
                                     ![t].dropped = @ \/ h \notin leases']
      BY <2>13 DEF Examine
    <3>2. leases' \subseteq Handle /\ open' \subseteq Handle /\ live' \subseteq open'
      BY <3>1 DEF Close, platform
    <3>3. task' \in [Thread -> Task]
      <4> DEFINE active == task[t].active \/ h \in live
                 dropped == task[t].dropped \/ h \notin leases'
      <4>1. active \in BOOLEAN /\ dropped \in BOOLEAN
        BY Zenon
      <4>2. task' = [task EXCEPT ![t].active = active, ![t].dropped = dropped]
        BY <3>1
      <4> HIDE DEF active, dropped
      <4>3. task \in [Thread -> Task]
        BY DEF TypeOK
      <4>4. QED
        BY <4>1, <4>2, <4>3 DEF Task
    <3>4. QED
      BY <2>13, <3>1, <3>2, <3>3 DEF Examine
  <2>14. ASSUME NEW t \in Thread, Examined(t)
        PROVE  TypeOK'
    BY <2>14 DEF Examined, Go
  <2>15. ASSUME NEW t \in Thread, BumpAfterDrop(t)
        PROVE  TypeOK'
    BY <2>15 DEF BumpAfterDrop, Go, BumpVersion
  <2>16. ASSUME NEW t \in Thread, CheckVersion(t)
        PROVE  TypeOK'
    BY <2>16 DEF CheckVersion, Go
  <2>17. ASSUME NEW t \in Thread, StoreHealth(t)
        PROVE  TypeOK'
    BY <2>17 DEF StoreHealth, Go, Task
  <2>18. CASE BfeRestarts
    BY <2>18 DEF BfeRestarts
  <2>19. CASE CacheExpires
    BY <2>19 DEF CacheExpires
  <2>20. CASE UNCHANGED vars
    BY <2>20 DEF vars
  <2>21. QED
    BY <2>1, <2>2, <2>3, <2>4, <2>5, <2>6, <2>7, <2>8, <2>9, <2>10,
       <2>11, <2>12, <2>13, <2>14, <2>15, <2>16, <2>17, <2>18, <2>19, <2>20 DEF Next
<1>3. QED
  BY <1>1, <1>2, PTL DEF Spec

-----------------------------------------------------------------------------

\* The discipline of the mutex: only its holder is in a critical section, and
\* leases are in hand only in the loops that work them off.
Exclusive == \A t \in Thread : pc[t] \in Critical <=> lock = t
InHand == todo # {} => \E t \in Thread : pc[t] \in {"close", "examine"}
OpAtPc ==
    \A t \in Thread :
        /\ pc[t] \in {"enter", "close"} => task[t].op \in Mutation
        /\ pc[t] \in {"drain", "examine"} => task[t].op = "is_active"
        /\ pc[t] = "lock" => task[t].op \in Mutation
        /\ pc[t] \in {"cached", "lockProbe"} => task[t].op = "is_active"

LockInv == TypeOK /\ Exclusive /\ InHand /\ OpAtPc /\ NoLostHandle

LEMMA LockInvHolds == Spec => []LockInv
<1>1. Init => Exclusive /\ InHand /\ OpAtPc /\ NoLostHandle
  BY KillSwitchAssumption DEF Init, Exclusive, InHand, OpAtPc, NoLostHandle, Critical
<1>2. TypeOK' /\ LockInv /\ [Next]_vars => LockInv'
  <2> SUFFICES ASSUME TypeOK', LockInv, [Next]_vars
               PROVE  Exclusive' /\ InHand' /\ OpAtPc' /\ NoLostHandle'
    BY DEF LockInv
  <2> USE KillSwitchAssumption DEF LockInv, TypeOK, PC, Critical, Exclusive, InHand,
                                   OpAtPc, NoLostHandle, NoTask
  <2>1. ASSUME NEW t \in Thread, NEW op \in Mutation, Begin(t, op)
        PROVE  Exclusive' /\ InHand' /\ OpAtPc' /\ NoLostHandle'
    BY <2>1 DEF Begin, Go, BumpVersion
  <2>2. ASSUME NEW t \in Thread, Lock(t)
        PROVE  Exclusive' /\ InHand' /\ OpAtPc' /\ NoLostHandle'
    BY <2>2 DEF Lock, Go
  <2>3. ASSUME NEW t \in Thread, ArmPolicy(t)
        PROVE  Exclusive' /\ InHand' /\ OpAtPc' /\ NoLostHandle'
    BY <2>3 DEF ArmPolicy, Running, Opened
  <2>4. ASSUME NEW t \in Thread, ArmFails(t)
        PROVE  Exclusive' /\ InHand' /\ OpAtPc' /\ NoLostHandle'
    BY <2>4 DEF ArmFails, Return
  <2>5. ASSUME NEW t \in Thread, TransitionArm(t)
        PROVE  Exclusive' /\ InHand' /\ OpAtPc' /\ NoLostHandle'
    BY <2>5 DEF TransitionArm, Running, Opened, Return
  <2>6. ASSUME NEW t \in Thread, DisarmPolicy(t)
        PROVE  Exclusive' /\ InHand' /\ OpAtPc' /\ NoLostHandle'
    BY <2>6 DEF DisarmPolicy, Running
  <2>7. ASSUME NEW t \in Thread, TransitionRelease(t)
        PROVE  Exclusive' /\ InHand' /\ OpAtPc' /\ NoLostHandle'
    BY <2>7 DEF TransitionRelease, Running
  <2>8. ASSUME NEW t \in Thread, CloseOne(t)
        PROVE  Exclusive' /\ InHand' /\ OpAtPc' /\ NoLostHandle'
    BY <2>8 DEF CloseOne, Close, platform
  <2>9. ASSUME NEW t \in Thread, CloseDone(t)
        PROVE  Exclusive' /\ InHand' /\ OpAtPc' /\ NoLostHandle'
    BY <2>9 DEF CloseDone, Return
  <2>10. ASSUME NEW t \in Thread, ReadVersion(t)
        PROVE  Exclusive' /\ InHand' /\ OpAtPc' /\ NoLostHandle'
    BY <2>10 DEF ReadVersion, Go
  <2>11. ASSUME NEW t \in Thread, ReadCache(t)
        PROVE  Exclusive' /\ InHand' /\ OpAtPc' /\ NoLostHandle'
    BY <2>11 DEF ReadCache, Go
  <2>12. ASSUME NEW t \in Thread, Drain(t)
        PROVE  Exclusive' /\ InHand' /\ OpAtPc' /\ NoLostHandle'
    BY <2>12 DEF Drain, Go
  <2>13. ASSUME NEW t \in Thread, Examine(t)
        PROVE  Exclusive' /\ InHand' /\ OpAtPc' /\ NoLostHandle'
    BY <2>13 DEF Examine, Close, platform
  <2>14. ASSUME NEW t \in Thread, Examined(t)
        PROVE  Exclusive' /\ InHand' /\ OpAtPc' /\ NoLostHandle'
    BY <2>14 DEF Examined, Go
  <2>15. ASSUME NEW t \in Thread, BumpAfterDrop(t)
        PROVE  Exclusive' /\ InHand' /\ OpAtPc' /\ NoLostHandle'
    BY <2>15 DEF BumpAfterDrop, Go, BumpVersion
  <2>16. ASSUME NEW t \in Thread, CheckVersion(t)
        PROVE  Exclusive' /\ InHand' /\ OpAtPc' /\ NoLostHandle'
    BY <2>16 DEF CheckVersion, Go
  <2>17. ASSUME NEW t \in Thread, StoreHealth(t)
        PROVE  Exclusive' /\ InHand' /\ OpAtPc' /\ NoLostHandle'
    BY <2>17 DEF StoreHealth, Go
  <2>18. CASE BfeRestarts
    BY <2>18 DEF BfeRestarts
  <2>19. CASE CacheExpires
    BY <2>19 DEF CacheExpires
  <2>20. CASE UNCHANGED vars
    BY <2>20 DEF vars
  <2>21. QED
    BY <2>1, <2>2, <2>3, <2>4, <2>5, <2>6, <2>7, <2>8, <2>9, <2>10,
       <2>11, <2>12, <2>13, <2>14, <2>15, <2>16, <2>17, <2>18, <2>19, <2>20 DEF Next
<1>3. TypeOK /\ Init => LockInv
  BY <1>1 DEF LockInv
<1>4. QED
  BY <1>2, <1>3, SwitchTypeCorrect, PTL DEF Spec

\* Every session open in Windows is in the list or in the hands of the command
\* that runs: none is lost, however many closes fail.
THEOREM NoHandleIsLost == Spec => []NoLostHandle
<1>1. LockInv => NoLostHandle
  BY DEF LockInv
<1>2. QED
  BY <1>1, LockInvHolds, PTL

-----------------------------------------------------------------------------

\* A rearm closes no barrier and, while anything is live, keeps something
\* live that it will not close.
RearmKeeps ==
    \A t \in Thread :
        pc[t] = "close" /\ task[t].op = "arm_policy"
        => /\ todo \cap transition = {}
           /\ live # {} => live \ todo # {}
BarrierNeverCloses ==
    \A t \in Thread : pc[t] = "close" => task[t].op # "transition_arm"

RearmInv == LockInv /\ RearmKeeps /\ BarrierNeverCloses

LEMMA RearmInvHolds == Spec => []RearmInv
<1>1. Init => RearmKeeps /\ BarrierNeverCloses
  BY DEF Init, RearmKeeps, BarrierNeverCloses
<1>2. LockInv' /\ RearmInv /\ [Next]_vars => RearmInv'
  <2> SUFFICES ASSUME RearmInv, [Next]_vars
               PROVE  RearmKeeps' /\ BarrierNeverCloses'
    BY DEF RearmInv
  <2> USE DEF RearmInv, LockInv, TypeOK, PC, Critical, Exclusive, InHand, OpAtPc,
              NoLostHandle, NoTask, RearmKeeps, BarrierNeverCloses, Mutation
  <2>1. ASSUME NEW t \in Thread, NEW op \in Mutation, Begin(t, op)
        PROVE  RearmKeeps' /\ BarrierNeverCloses'
    BY <2>1 DEF Begin, Go, BumpVersion
  <2>2. ASSUME NEW t \in Thread, Lock(t)
        PROVE  RearmKeeps' /\ BarrierNeverCloses'
    BY <2>2 DEF Lock, Go
  <2>3. ASSUME NEW t \in Thread, ArmPolicy(t)
        PROVE  RearmKeeps' /\ BarrierNeverCloses'
    BY <2>3 DEF ArmPolicy, Running, Opened
  <2>4. ASSUME NEW t \in Thread, ArmFails(t)
        PROVE  RearmKeeps' /\ BarrierNeverCloses'
    BY <2>4 DEF ArmFails, Return
  <2>5. ASSUME NEW t \in Thread, TransitionArm(t)
        PROVE  RearmKeeps' /\ BarrierNeverCloses'
    BY <2>5 DEF TransitionArm, Running, Opened, Return
  <2>6. ASSUME NEW t \in Thread, DisarmPolicy(t)
        PROVE  RearmKeeps' /\ BarrierNeverCloses'
    BY <2>6 DEF DisarmPolicy, Running
  <2>7. ASSUME NEW t \in Thread, TransitionRelease(t)
        PROVE  RearmKeeps' /\ BarrierNeverCloses'
    BY <2>7 DEF TransitionRelease, Running
  <2>8. ASSUME NEW t \in Thread, CloseOne(t)
        PROVE  RearmKeeps' /\ BarrierNeverCloses'
    BY <2>8 DEF CloseOne, Close, platform
  <2>9. ASSUME NEW t \in Thread, CloseDone(t)
        PROVE  RearmKeeps' /\ BarrierNeverCloses'
    BY <2>9 DEF CloseDone, Return
  <2>10. ASSUME NEW t \in Thread, ReadVersion(t)
        PROVE  RearmKeeps' /\ BarrierNeverCloses'
    BY <2>10 DEF ReadVersion, Go
  <2>11. ASSUME NEW t \in Thread, ReadCache(t)
        PROVE  RearmKeeps' /\ BarrierNeverCloses'
    BY <2>11 DEF ReadCache, Go
  <2>12. ASSUME NEW t \in Thread, Drain(t)
        PROVE  RearmKeeps' /\ BarrierNeverCloses'
    BY <2>12 DEF Drain, Go
  <2>13. ASSUME NEW t \in Thread, Examine(t)
        PROVE  RearmKeeps' /\ BarrierNeverCloses'
    BY <2>13 DEF Examine, Close, platform
  <2>14. ASSUME NEW t \in Thread, Examined(t)
        PROVE  RearmKeeps' /\ BarrierNeverCloses'
    BY <2>14 DEF Examined, Go
  <2>15. ASSUME NEW t \in Thread, BumpAfterDrop(t)
        PROVE  RearmKeeps' /\ BarrierNeverCloses'
    BY <2>15 DEF BumpAfterDrop, Go, BumpVersion
  <2>16. ASSUME NEW t \in Thread, CheckVersion(t)
        PROVE  RearmKeeps' /\ BarrierNeverCloses'
    BY <2>16 DEF CheckVersion, Go
  <2>17. ASSUME NEW t \in Thread, StoreHealth(t)
        PROVE  RearmKeeps' /\ BarrierNeverCloses'
    BY <2>17 DEF StoreHealth, Go
  <2>18. CASE BfeRestarts
    BY <2>18 DEF BfeRestarts
  <2>19. CASE CacheExpires
    BY <2>19 DEF CacheExpires
  <2>20. CASE UNCHANGED vars
    BY <2>20 DEF vars
  <2>21. QED
    BY <2>1, <2>2, <2>3, <2>4, <2>5, <2>6, <2>7, <2>8, <2>9, <2>10,
       <2>11, <2>12, <2>13, <2>14, <2>15, <2>16, <2>17, <2>18, <2>19, <2>20 DEF Next
<1>3. LockInv /\ Init => RearmInv
  BY <1>1 DEF RearmInv
<1>4. QED
  BY <1>2, <1>3, LockInvHolds, PTL DEF Spec

\* arm_policy never closes a session that serves as a transition barrier.
THEOREM ArmSparesBarrier == Spec => BarrierSurvivesArm
<1> DEFINE Spared == (open \ open') \cap transition # {} => ~Runs({"arm_policy"})
<1>1. RearmInv /\ [Next]_vars => [Spared]_vars
  <2> SUFFICES ASSUME RearmInv, Next
               PROVE  Spared
    OBVIOUS
  <2> USE DEF RearmInv, LockInv, TypeOK, Critical, Exclusive, OpAtPc, RearmKeeps, Runs
  <2>1. ASSUME NEW t \in Thread, NEW op \in Mutation, Begin(t, op)
        PROVE  Spared
    BY <2>1 DEF Begin, Go, BumpVersion
  <2>2. ASSUME NEW t \in Thread, Lock(t)
        PROVE  Spared
    BY <2>2 DEF Lock, Go
  <2>3. ASSUME NEW t \in Thread, ArmPolicy(t)
        PROVE  Spared
    BY <2>3 DEF ArmPolicy, Running, Opened
  <2>4. ASSUME NEW t \in Thread, ArmFails(t)
        PROVE  Spared
    BY <2>4 DEF ArmFails, Return
  <2>5. ASSUME NEW t \in Thread, TransitionArm(t)
        PROVE  Spared
    BY <2>5 DEF TransitionArm, Running, Opened, Return
  <2>6. ASSUME NEW t \in Thread, DisarmPolicy(t)
        PROVE  Spared
    BY <2>6 DEF DisarmPolicy, Running
  <2>7. ASSUME NEW t \in Thread, TransitionRelease(t)
        PROVE  Spared
    BY <2>7 DEF TransitionRelease, Running
  <2>8. ASSUME NEW t \in Thread, CloseOne(t)
        PROVE  Spared
    BY <2>8 DEF CloseOne, Close, platform
  <2>9. ASSUME NEW t \in Thread, CloseDone(t)
        PROVE  Spared
    BY <2>9 DEF CloseDone, Return
  <2>10. ASSUME NEW t \in Thread, ReadVersion(t)
        PROVE  Spared
    BY <2>10 DEF ReadVersion, Go
  <2>11. ASSUME NEW t \in Thread, ReadCache(t)
        PROVE  Spared
    BY <2>11 DEF ReadCache, Go
  <2>12. ASSUME NEW t \in Thread, Drain(t)
        PROVE  Spared
    BY <2>12 DEF Drain, Go
  <2>13. ASSUME NEW t \in Thread, Examine(t)
        PROVE  Spared
    BY <2>13 DEF Examine, Close, platform
  <2>14. ASSUME NEW t \in Thread, Examined(t)
        PROVE  Spared
    BY <2>14 DEF Examined, Go
  <2>15. ASSUME NEW t \in Thread, BumpAfterDrop(t)
        PROVE  Spared
    BY <2>15 DEF BumpAfterDrop, Go, BumpVersion
  <2>16. ASSUME NEW t \in Thread, CheckVersion(t)
        PROVE  Spared
    BY <2>16 DEF CheckVersion, Go
  <2>17. ASSUME NEW t \in Thread, StoreHealth(t)
        PROVE  Spared
    BY <2>17 DEF StoreHealth, Go
  <2>18. CASE BfeRestarts
    BY <2>18 DEF BfeRestarts
  <2>19. CASE CacheExpires
    BY <2>19 DEF CacheExpires
  <2>20. QED
    BY <2>1, <2>2, <2>3, <2>4, <2>5, <2>6, <2>7, <2>8, <2>9, <2>10,
       <2>11, <2>12, <2>13, <2>14, <2>15, <2>16, <2>17, <2>18, <2>19 DEF Next
<1>2. QED
  BY <1>1, RearmInvHolds, PTL DEF Spec, BarrierSurvivesArm

\* No rearm, successful or failed, closes the last live session.
THEOREM RearmLeavesNoWindow == Spec => NoFailOpenWindow
<1> DEFINE Closed == live # {} /\ live' = {} /\ open' # open
                     => ~Runs({"arm_policy", "transition_arm"})
<1>1. RearmInv /\ [Next]_vars => [Closed]_vars
  <2> SUFFICES ASSUME RearmInv, Next
               PROVE  Closed
    OBVIOUS
  <2> USE DEF RearmInv, LockInv, TypeOK, Critical, Exclusive, OpAtPc, RearmKeeps,
              BarrierNeverCloses, Runs
  <2>1. ASSUME NEW t \in Thread, NEW op \in Mutation, Begin(t, op)
        PROVE  Closed
    BY <2>1 DEF Begin, Go, BumpVersion
  <2>2. ASSUME NEW t \in Thread, Lock(t)
        PROVE  Closed
    BY <2>2 DEF Lock, Go
  <2>3. ASSUME NEW t \in Thread, ArmPolicy(t)
        PROVE  Closed
    BY <2>3 DEF ArmPolicy, Running, Opened
  <2>4. ASSUME NEW t \in Thread, ArmFails(t)
        PROVE  Closed
    BY <2>4 DEF ArmFails, Return
  <2>5. ASSUME NEW t \in Thread, TransitionArm(t)
        PROVE  Closed
    BY <2>5 DEF TransitionArm, Running, Opened, Return
  <2>6. ASSUME NEW t \in Thread, DisarmPolicy(t)
        PROVE  Closed
    BY <2>6 DEF DisarmPolicy, Running
  <2>7. ASSUME NEW t \in Thread, TransitionRelease(t)
        PROVE  Closed
    BY <2>7 DEF TransitionRelease, Running
  <2>8. ASSUME NEW t \in Thread, CloseOne(t)
        PROVE  Closed
    BY <2>8 DEF CloseOne, Close, platform
  <2>9. ASSUME NEW t \in Thread, CloseDone(t)
        PROVE  Closed
    BY <2>9 DEF CloseDone, Return
  <2>10. ASSUME NEW t \in Thread, ReadVersion(t)
        PROVE  Closed
    BY <2>10 DEF ReadVersion, Go
  <2>11. ASSUME NEW t \in Thread, ReadCache(t)
        PROVE  Closed
    BY <2>11 DEF ReadCache, Go
  <2>12. ASSUME NEW t \in Thread, Drain(t)
        PROVE  Closed
    BY <2>12 DEF Drain, Go
  <2>13. ASSUME NEW t \in Thread, Examine(t)
        PROVE  Closed
    BY <2>13 DEF Examine, Close, platform
  <2>14. ASSUME NEW t \in Thread, Examined(t)
        PROVE  Closed
    BY <2>14 DEF Examined, Go
  <2>15. ASSUME NEW t \in Thread, BumpAfterDrop(t)
        PROVE  Closed
    BY <2>15 DEF BumpAfterDrop, Go, BumpVersion
  <2>16. ASSUME NEW t \in Thread, CheckVersion(t)
        PROVE  Closed
    BY <2>16 DEF CheckVersion, Go
  <2>17. ASSUME NEW t \in Thread, StoreHealth(t)
        PROVE  Closed
    BY <2>17 DEF StoreHealth, Go
  <2>18. CASE BfeRestarts
    BY <2>18 DEF BfeRestarts
  <2>19. CASE CacheExpires
    BY <2>19 DEF CacheExpires
  <2>20. QED
    BY <2>1, <2>2, <2>3, <2>4, <2>5, <2>6, <2>7, <2>8, <2>9, <2>10,
       <2>11, <2>12, <2>13, <2>14, <2>15, <2>16, <2>17, <2>18, <2>19 DEF Next
<1>2. QED
  BY <1>1, RearmInvHolds, PTL DEF Spec, NoFailOpenWindow

-----------------------------------------------------------------------------

\* One barrier at most, without counting.
Barriers == (leases \cup todo) \cap transition
BarrierUnique == \A x, y \in Barriers : x = y

LEMMA BarrierIsUnique == Spec => []BarrierUnique
<1>1. Init => BarrierUnique
  BY DEF Init, BarrierUnique, Barriers
<1>2. LockInv /\ BarrierUnique /\ [Next]_vars => BarrierUnique'
  <2> SUFFICES ASSUME LockInv, BarrierUnique, [Next]_vars
               PROVE  BarrierUnique'
    OBVIOUS
  <2> USE DEF LockInv, BarrierUnique, Barriers, Critical, platform
  <2>1. ASSUME NEW t \in Thread, NEW op \in Mutation, Begin(t, op)
        PROVE  BarrierUnique'
    BY <2>1 DEF Begin
  <2>2. ASSUME NEW t \in Thread, ArmFails(t)
        PROVE  BarrierUnique'
    BY <2>2 DEF ArmFails, Return
  <2>3. ASSUME NEW t \in Thread, CloseDone(t)
        PROVE  BarrierUnique'
    BY <2>3 DEF CloseDone, Return
  <2>4. ASSUME NEW t \in Thread, ReadVersion(t)
        PROVE  BarrierUnique'
    BY <2>4 DEF ReadVersion, Go
  <2>5. ASSUME NEW t \in Thread, ReadCache(t)
        PROVE  BarrierUnique'
    BY <2>5 DEF ReadCache, Go
  <2>6. ASSUME NEW t \in Thread, Examined(t)
        PROVE  BarrierUnique'
    BY <2>6 DEF Examined, Go
  <2>7. ASSUME NEW t \in Thread, BumpAfterDrop(t)
        PROVE  BarrierUnique'
    BY <2>7 DEF BumpAfterDrop, Go, BumpVersion
  <2>8. ASSUME NEW t \in Thread, CheckVersion(t)
        PROVE  BarrierUnique'
    BY <2>8 DEF CheckVersion, Go
  <2>9. ASSUME NEW t \in Thread, StoreHealth(t)
        PROVE  BarrierUnique'
    BY <2>9 DEF StoreHealth, Go
  <2>10. ASSUME NEW t \in Thread, Lock(t)
        PROVE  BarrierUnique'
    BY <2>10 DEF Lock, Go
  <2>11. ASSUME NEW t \in Thread, ArmPolicy(t)
        PROVE  BarrierUnique'
    BY <2>11 DEF ArmPolicy, Running, InHand, Exclusive
  <2>12. ASSUME NEW t \in Thread, TransitionArm(t)
        PROVE  BarrierUnique'
    BY <2>12 DEF TransitionArm, Running, Return, InHand, Exclusive
  <2>13. ASSUME NEW t \in Thread, DisarmPolicy(t)
        PROVE  BarrierUnique'
    BY <2>13 DEF DisarmPolicy, Running, InHand, Exclusive
  <2>14. ASSUME NEW t \in Thread, TransitionRelease(t)
        PROVE  BarrierUnique'
    BY <2>14 DEF TransitionRelease, Running, InHand, Exclusive
  <2>15. ASSUME NEW t \in Thread, CloseOne(t)
        PROVE  BarrierUnique'
    BY <2>15 DEF CloseOne, Close
  <2>16. ASSUME NEW t \in Thread, Drain(t)
        PROVE  BarrierUnique'
    BY <2>16 DEF Drain, Go, InHand, Exclusive
  <2>17. ASSUME NEW t \in Thread, Examine(t)
        PROVE  BarrierUnique'
    BY <2>17 DEF Examine, Close
  <2>18. CASE BfeRestarts
    BY <2>18 DEF BfeRestarts
  <2>19. CASE CacheExpires
    BY <2>19 DEF CacheExpires
  <2>20. CASE UNCHANGED vars
    BY <2>20 DEF vars
  <2>21. QED
    BY <2>1, <2>2, <2>3, <2>4, <2>5, <2>6, <2>7, <2>8, <2>9, <2>10,
       <2>11, <2>12, <2>13, <2>14, <2>15, <2>16, <2>17, <2>18, <2>19, <2>20 DEF Next
<1>3. QED
  BY <1>1, <1>2, LockInvHolds, PTL DEF Spec

\* However stops, rearms and probes overlap, there is never a second transition
\* barrier: transition_arm looks for one under the mutex, and no one holds a
\* barrier outside of the list while the mutex is free.
THEOREM BarrierIsAlone == Spec => []OneBarrier
<1>1. BarrierUnique => OneBarrier
  <2> SUFFICES ASSUME BarrierUnique
               PROVE  Cardinality(Barriers) <= 1
    BY DEF OneBarrier, Barriers
  <2>1. CASE Barriers = {}
    BY <2>1, FS_EmptySet
  <2>2. CASE Barriers # {}
    <3>1. PICK x : x \in Barriers
      BY <2>2
    <3>2. Barriers = {x}
      BY <3>1 DEF BarrierUnique
    <3>3. QED
      BY <3>2, FS_Singleton
  <2>3. QED
    BY <2>1, <2>2
<1>2. QED
  BY <1>1, BarrierIsUnique, PTL
=============================================================================
