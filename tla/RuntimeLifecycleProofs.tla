----------------------- MODULE RuntimeLifecycleProofs -----------------------
(***************************************************************************)
(* What the lifecycle of the runtime guarantees for every number of flows, *)
(* engines and generations.                                                *)
(***************************************************************************)
EXTENDS RuntimeLifecycle, TLAPS

LEMMA NoLocalType ==
    NoLocal \in Local /\ NoDebt \in Debt /\ NoDeaths = [s \in Slot |-> 0]
BY DEF NoLocal, Local, Slot, NoDebt, Debt, NoDeaths

LEMMA AbortLocal ==
    /\ [NoLocal EXCEPT !.debt = "Ours"] \in Local
    /\ [NoLocal EXCEPT !.debt = "Unproven"] \in Local
BY DEF NoLocal, Local, Slot

LEMMA MergeType ==
    ASSUME NEW old \in Debt, NEW procs \in SUBSET Proc, NEW portsToo \in BOOLEAN
    PROVE  Merge(old, procs, portsToo) \in Debt
<1>1. /\ (old.procs \cup procs # {} \/ old.ports \/ portsToo) \in BOOLEAN
      /\ (old.ports \/ portsToo) \in BOOLEAN
  BY Zenon
<1>2. old.procs \cup procs \in SUBSET Proc
  BY DEF Debt
<1>3. QED
  BY <1>1, <1>2 DEF Merge, Debt

\* The conjuncts of TypeOK about the shared state and the engines.
StateOK ==
    /\ owner \in Flow \cup {NoFlow}
    /\ epoch \in Flow \cup {NoFlow}
    /\ generation \in 0 .. MaxGeneration
    /\ expectedExit \in 0 .. generation
    /\ starting \in BOOLEAN
    /\ stopping \in BOOLEAN
    /\ stopLock \in Flow \cup {NoFlow}
    /\ child \in [Slot -> 0 .. generation]
    /\ runtime \in 0 .. generation
    /\ ports \in BOOLEAN
    /\ pending \in Debt
    /\ died \in [Slot -> 0 .. generation]
    /\ alive \subseteq Proc
    /\ killed \subseteq alive
    /\ monitor \in [Proc -> {"none", "watching", "reporting", "done"}]

\* No engine is of a generation yet to come.
GenOK ==
    \A p \in Proc :
        p \in alive \/ monitor[p] # "none" => p.generation <= generation

\* Types, and what they rest on: a start past the gate has a generation.
GenInv ==
    /\ StateOK
    /\ pc \in [Flow -> PC]
    /\ call \in [Flow -> Local]
    /\ \A f \in Flow : pc[f] \in StartingPC => generation # 0
    /\ GenOK

LEMMA TakeType ==
    ASSUME StateOK, call \in [Flow -> Local], NEW f \in Flow, TakeAndKill(f)
    PROVE  call' \in [Flow -> Local]
<1> DEFINE s == IF "core" \in call[f].todo THEN "core" ELSE FirstOf(call[f].todo)
           taken == IF child[s] = 0 THEN {} ELSE {Engine(child[s], s)}
<1>1. call[f].todo \subseteq Slot /\ call[f].procs \subseteq Proc
  BY DEF Local
<1>2. s \in Slot
  BY <1>1 DEF FirstOf, Slot
<1>3. taken \subseteq Proc
  <2>1. CASE child[s] = 0
    BY <2>1
  <2>2. CASE child[s] # 0
    <3>1. child[s] \in 1 .. MaxGeneration
      BY <1>2, <2>2, RuntimeLifecycleAssumption DEF StateOK
    <3>2. QED
      BY <1>2, <2>2, <3>1 DEF Engine, Proc
  <2>3. QED
    BY <2>1, <2>2
<1>4. call' = [call EXCEPT ![f].procs = @ \cup taken, ![f].todo = @ \ {s}]
  BY DEF TakeAndKill
<1> HIDE DEF s, taken
<1>5. QED
  BY <1>1, <1>2, <1>3, <1>4 DEF Local

LEMMA TakeState ==
    ASSUME StateOK, NEW f \in Flow, TakeAndKill(f)
    PROVE  /\ child' \in [Slot -> 0 .. generation]
           /\ alive' = alive /\ killed' \subseteq alive
<1> DEFINE s == IF "core" \in call[f].todo THEN "core" ELSE FirstOf(call[f].todo)
           taken == IF child[s] = 0 THEN {} ELSE {Engine(child[s], s)}
<1>1. /\ child' = [child EXCEPT ![s] = 0]
      /\ killed' = killed \cup (taken \cap alive)
      /\ alive' = alive
  BY DEF TakeAndKill
<1> HIDE DEF s, taken
<1>2. 0 \in 0 .. generation
  BY RuntimeLifecycleAssumption DEF StateOK
<1>3. QED
  BY <1>1, <1>2 DEF StateOK

LEMMA GenInvHolds == Spec => []GenInv
<1> USE RuntimeLifecycleAssumption
<1>1. Init => GenInv
  <2> SUFFICES ASSUME Init PROVE GenInv
    OBVIOUS
  <2>1. pc \in [Flow -> PC] /\ (\A f \in Flow : pc[f] \notin StartingPC)
    BY DEF Init, PC, StartingPC, AbortPC
  <2>2. call \in [Flow -> Local]
    BY NoLocalType DEF Init
  <2>3. generation = 0 /\ child \in [Slot -> 0 .. 0] /\ died \in [Slot -> 0 .. 0]
    BY DEF Init
  <2>4. monitor \in [Proc -> {"none", "watching", "reporting", "done"}]
    BY DEF Init
  <2>5. StateOK
    <3>1. 0 \in 0 .. 0 /\ 0 \in 0 .. MaxGeneration
      OBVIOUS
    <3>2. /\ expectedExit \in 0 .. generation /\ runtime \in 0 .. generation
          /\ child \in [Slot -> 0 .. generation] /\ died \in [Slot -> 0 .. generation]
          /\ generation \in 0 .. MaxGeneration
      BY <2>3, <3>1 DEF Init
    <3>3. QED
      BY <2>4, <3>2, NoLocalType DEF Init, StateOK
  <2>6. GenOK
    BY DEF Init, GenOK
  <2>7. QED
    BY <2>1, <2>2, <2>5, <2>6 DEF GenInv
<1>2. GenInv /\ [Next]_vars => GenInv'
  <2> SUFFICES ASSUME GenInv, [Next]_vars
               PROVE  GenInv'
    OBVIOUS
  <2>s. StateOK
    BY DEF GenInv
  <2>p. pc \in [Flow -> PC]
    BY DEF GenInv
  <2>t. call \in [Flow -> Local]
    BY DEF GenInv
  <2>n. \A f \in Flow : pc[f] \in StartingPC => generation # 0
    BY DEF GenInv
  <2>g. GenOK
    BY DEF GenInv
  <2>d. pending \in Debt
    BY DEF GenInv, StateOK
  <2> USE DEF StateOK, shared, engines, authority
  <2>1. ASSUME NEW f \in Flow, BeginStart(f)
        PROVE  GenInv'
    <3>1. pc' \in [Flow -> PC] /\ (\A g \in Flow : pc'[g] \in StartingPC => generation' # 0)
      BY <2>1, <2>p, <2>n, <2>s DEF BeginStart, Go, PC, StartingPC, AbortPC, StoppingPC
    <3>2. call' \in [Flow -> Local]
      BY <2>1, <2>t DEF BeginStart, Go
    <3>3. StateOK' /\ GenOK'
      BY <2>1, <2>s, <2>d, <2>g, NoLocalType DEF BeginStart, Go, GenOK
    <3>4. QED
      BY <3>1, <3>2, <3>3 DEF GenInv
  <2>2. ASSUME NEW f \in Flow, BeginStop(f)
        PROVE  GenInv'
    <3>1. pc' \in [Flow -> PC] /\ (\A g \in Flow : pc'[g] \in StartingPC => generation' # 0)
      BY <2>2, <2>p, <2>n, <2>s DEF BeginStop, Go, PC, StartingPC, AbortPC, StoppingPC
    <3>2. call' \in [Flow -> Local]
      BY <2>2, <2>t DEF BeginStop, Go
    <3>3. StateOK' /\ GenOK'
      BY <2>2, <2>s, <2>d, <2>g, NoLocalType DEF BeginStop, Go, GenOK
    <3>4. QED
      BY <3>1, <3>2, <3>3 DEF GenInv
  <2>3. ASSUME NEW f \in Flow, StopQueue(f)
        PROVE  GenInv'
    <3>1. pc' \in [Flow -> PC] /\ (\A g \in Flow : pc'[g] \in StartingPC => generation' # 0)
      BY <2>3, <2>p, <2>n, <2>s DEF StopQueue, Go, PC, StartingPC, AbortPC, StoppingPC
    <3>2. call' \in [Flow -> Local]
      BY <2>3, <2>t DEF StopQueue, Go
    <3>3. StateOK' /\ GenOK'
      BY <2>3, <2>s, <2>d, <2>g, NoLocalType DEF StopQueue, Go, GenOK
    <3>4. QED
      BY <3>1, <3>2, <3>3 DEF GenInv
  <2>4. ASSUME NEW f \in Flow, StartEntry(f)
        PROVE  GenInv'
    <3>1. pc' \in [Flow -> PC] /\ (\A g \in Flow : pc'[g] \in StartingPC => generation' # 0)
      BY <2>4, <2>p, <2>n, <2>s DEF StartEntry, Return, PC, StartingPC, AbortPC,
         StoppingPC
    <3>2. call' \in [Flow -> Local]
      BY <2>4, <2>t, NoLocalType DEF StartEntry, Return
    <3>3. StateOK' /\ GenOK'
      BY <2>4, <2>s, <2>d, <2>g, NoLocalType DEF StartEntry, Return, GenOK
    <3>4. QED
      BY <3>1, <3>2, <3>3 DEF GenInv
  <2>5. ASSUME NEW f \in Flow, StartRefused(f)
        PROVE  GenInv'
    <3>1. pc' \in [Flow -> PC] /\ (\A g \in Flow : pc'[g] \in StartingPC => generation' # 0)
      BY <2>5, <2>p, <2>n, <2>s DEF StartRefused, Return, PC, StartingPC, AbortPC,
         StoppingPC
    <3>2. call' \in [Flow -> Local]
      BY <2>5, <2>t, NoLocalType DEF StartRefused, Return
    <3>3. StateOK' /\ GenOK'
      BY <2>5, <2>s, <2>d, <2>g, NoLocalType DEF StartRefused, Return, GenOK
    <3>4. QED
      BY <3>1, <3>2, <3>3 DEF GenInv
  <2>6. ASSUME NEW f \in Flow, StartGate(f)
        PROVE  GenInv'
    <3>1. pc' \in [Flow -> PC] /\ (\A g \in Flow : pc'[g] \in StartingPC => generation' # 0)
      BY <2>6, <2>p, <2>n, <2>s DEF StartGate, Go, Refused, PC, StartingPC, AbortPC,
         StoppingPC
    <3>2. call' \in [Flow -> Local]
      BY <2>6, <2>t DEF StartGate, Go, Refused
    <3>3. StateOK' /\ GenOK'
      <4>1. generation' = generation + 1 /\ generation' \in 0 .. MaxGeneration
        BY <2>6, <2>s DEF StartGate, Refused
      <4>2. 0 \in 0 .. generation'
        BY <4>1
      <4>3. \A i \in 0 .. generation : i \in 0 .. generation'
        BY <2>s, <4>1
      <4>4. /\ child' \in [Slot -> 0 .. generation']
            /\ died' \in [Slot -> 0 .. generation']
        BY <2>6, <2>s, <4>2, <4>3, NoLocalType DEF StartGate
      <4>5. runtime' \in 0 .. generation' /\ expectedExit' \in 0 .. generation'
        BY <2>6, <2>s, <4>2, <4>3 DEF StartGate
      <4>6. GenOK'
        BY <2>6, <2>s, <2>g, <4>1 DEF StartGate, GenOK, Proc
      <4>7. QED
        BY <2>6, <2>s, <2>d, <4>1, <4>4, <4>5, <4>6 DEF StartGate
    <3>4. QED
      BY <3>1, <3>2, <3>3 DEF GenInv
  <2>7. ASSUME NEW f \in Flow, Prepare(f)
        PROVE  GenInv'
    <3>1. pc' \in [Flow -> PC] /\ (\A g \in Flow : pc'[g] \in StartingPC => generation' # 0)
      BY <2>7, <2>p, <2>n, <2>s DEF Prepare, Go, PC, StartingPC, AbortPC, StoppingPC
    <3>2. call' \in [Flow -> Local]
      <4>1. PICK bridges \in SUBSET Bridge :
               call' = [call EXCEPT ![f].todo = bridges \cup {"core"}]
        BY <2>7 DEF Prepare
      <4>2. bridges \cup {"core"} \in SUBSET Slot
        BY DEF Slot
      <4>3. QED
        BY <2>t, <4>1, <4>2 DEF Local
    <3>3. StateOK' /\ GenOK'
      BY <2>7, <2>s, <2>d, <2>g, NoLocalType DEF Prepare, Go, GenOK
    <3>4. QED
      BY <3>1, <3>2, <3>3 DEF GenInv
  <2>8. ASSUME NEW f \in Flow, PrepareFails(f)
        PROVE  GenInv'
    <3>1. pc' \in [Flow -> PC] /\ (\A g \in Flow : pc'[g] \in StartingPC => generation' # 0)
      BY <2>8, <2>p, <2>n, <2>s DEF PrepareFails, Return, PC, StartingPC, AbortPC,
         StoppingPC
    <3>2. call' \in [Flow -> Local]
      BY <2>8, <2>t, NoLocalType DEF PrepareFails, Return
    <3>3. StateOK' /\ GenOK'
      BY <2>8, <2>s, <2>d, <2>g, NoLocalType DEF PrepareFails, Return, GenOK
    <3>4. QED
      BY <3>1, <3>2, <3>3 DEF GenInv
  <2>9. ASSUME NEW f \in Flow, Spawn(f)
        PROVE  GenInv'
    <3>1. pc' \in [Flow -> PC] /\ (\A g \in Flow : pc'[g] \in StartingPC => generation' # 0)
      BY <2>9, <2>p, <2>n, <2>s DEF Spawn, Go, PC, StartingPC, AbortPC, StoppingPC
    <3>2. call' \in [Flow -> Local]
      <4>1. FirstOf(call[f].todo) \in Slot
        BY <2>t, <2>9 DEF Spawn, FirstOf, Slot, Local
      <4>2. call' = [call EXCEPT ![f].now = FirstOf(call[f].todo),
                                 ![f].todo = @ \ {FirstOf(call[f].todo)}]
        BY <2>9 DEF Spawn
      <4>3. [call[f] EXCEPT !.now = FirstOf(call[f].todo),
                            !.todo = @ \ {FirstOf(call[f].todo)}] \in Local
        BY <2>t, <4>1 DEF Local
      <4>4. call' = [call EXCEPT ![f] = [call[f] EXCEPT !.now = FirstOf(call[f].todo),
                                     !.todo = @ \ {FirstOf(call[f].todo)}]]
        BY <4>2
      <4>5. QED
        BY <2>t, <4>3, <4>4
    <3>3. StateOK' /\ GenOK'
      <4>1. /\ FirstOf(call[f].todo) \in Slot
            /\ generation \in 1 .. MaxGeneration
        BY <2>9, <2>t, <2>s, <2>n DEF Spawn, Go, FirstOf, Slot, Local, StartingPC
      <4>2. Engine(generation, FirstOf(call[f].todo)) \in Proc
        BY <4>1 DEF Engine, Proc
      <4>3. Engine(generation, FirstOf(call[f].todo)).generation = generation
        BY DEF Engine
      <4>4. QED
        BY <2>9, <2>s, <2>d, <2>g, <4>1, <4>2, <4>3 DEF Spawn, GenOK
    <3>4. QED
      BY <3>1, <3>2, <3>3 DEF GenInv
  <2>10. ASSUME NEW f \in Flow, SpawnFails(f)
        PROVE  GenInv'
    <3>1. pc' \in [Flow -> PC] /\ (\A g \in Flow : pc'[g] \in StartingPC => generation' # 0)
      BY <2>10, <2>p, <2>n, <2>s DEF SpawnFails, Abort, PC, StartingPC, AbortPC,
         StoppingPC
    <3>2. call' \in [Flow -> Local]
      BY <2>10, <2>t, AbortLocal DEF SpawnFails, Abort
    <3>3. StateOK' /\ GenOK'
      BY <2>10, <2>s, <2>d, <2>g, NoLocalType DEF SpawnFails, Abort, GenOK
    <3>4. QED
      BY <3>1, <3>2, <3>3 DEF GenInv
  <2>11. ASSUME NEW f \in Flow, Spawned(f)
        PROVE  GenInv'
    <3>1. pc' \in [Flow -> PC] /\ (\A g \in Flow : pc'[g] \in StartingPC => generation' # 0)
      BY <2>11, <2>p, <2>n, <2>s DEF Spawned, Go, PC, StartingPC, AbortPC, StoppingPC
    <3>2. call' \in [Flow -> Local]
      BY <2>11, <2>t DEF Spawned, Go
    <3>3. StateOK' /\ GenOK'
      <4>1. /\ call[f].now \in Slot
            /\ generation \in 1 .. MaxGeneration
        BY <2>11, <2>t, <2>s, <2>n DEF Spawned, Go, Local, StartingPC
      <4>2. Engine(generation, call[f].now) \in Proc
        BY <4>1 DEF Engine, Proc
      <4>3. Engine(generation, call[f].now).generation = generation
        BY DEF Engine
      <4>4. QED
        BY <2>11, <2>s, <2>d, <2>g, <4>1, <4>2, <4>3 DEF Spawned, GenOK
    <3>4. QED
      BY <3>1, <3>2, <3>3 DEF GenInv
  <2>12. ASSUME NEW f \in Flow, Settle(f)
        PROVE  GenInv'
    <3>1. pc' \in [Flow -> PC] /\ (\A g \in Flow : pc'[g] \in StartingPC => generation' # 0)
      BY <2>12, <2>p, <2>n, <2>s DEF Settle, Go, Abort, PC, StartingPC, AbortPC,
         StoppingPC
    <3>2. call' \in [Flow -> Local]
      BY <2>12, <2>t, AbortLocal DEF Settle, Go, Abort
    <3>3. StateOK' /\ GenOK'
      BY <2>12, <2>s, <2>d, <2>g, NoLocalType DEF Settle, Go, Abort, GenOK
    <3>4. QED
      BY <3>1, <3>2, <3>3 DEF GenInv
  <2>13. ASSUME NEW f \in Flow, Ensure(f)
        PROVE  GenInv'
    <3>1. pc' \in [Flow -> PC] /\ (\A g \in Flow : pc'[g] \in StartingPC => generation' # 0)
      BY <2>13, <2>p, <2>n, <2>s DEF Ensure, Abort, PC, StartingPC, AbortPC, StoppingPC
    <3>2. call' \in [Flow -> Local]
      BY <2>13, <2>t, AbortLocal DEF Ensure, Abort
    <3>3. StateOK' /\ GenOK'
      BY <2>13, <2>s, <2>d, <2>g, NoLocalType DEF Ensure, Abort, GenOK
    <3>4. QED
      BY <3>1, <3>2, <3>3 DEF GenInv
  <2>14. ASSUME NEW f \in Flow, Ready(f)
        PROVE  GenInv'
    <3>1. pc' \in [Flow -> PC] /\ (\A g \in Flow : pc'[g] \in StartingPC => generation' # 0)
      BY <2>14, <2>p, <2>n, <2>s DEF Ready, Go, Abort, PC, StartingPC, AbortPC,
         StoppingPC
    <3>2. call' \in [Flow -> Local]
      BY <2>14, <2>t, AbortLocal DEF Ready, Go, Abort
    <3>3. StateOK' /\ GenOK'
      BY <2>14, <2>s, <2>d, <2>g, NoLocalType DEF Ready, Go, Abort, GenOK
    <3>4. QED
      BY <3>1, <3>2, <3>3 DEF GenInv
  <2>15. ASSUME NEW f \in Flow, Owned(f)
        PROVE  GenInv'
    <3>1. pc' \in [Flow -> PC] /\ (\A g \in Flow : pc'[g] \in StartingPC => generation' # 0)
      BY <2>15, <2>p, <2>n, <2>s DEF Owned, Go, Abort, PC, StartingPC, AbortPC,
         StoppingPC
    <3>2. call' \in [Flow -> Local]
      BY <2>15, <2>t, AbortLocal DEF Owned, Go, Abort
    <3>3. StateOK' /\ GenOK'
      BY <2>15, <2>s, <2>d, <2>g, NoLocalType DEF Owned, Go, Abort, GenOK
    <3>4. QED
      BY <3>1, <3>2, <3>3 DEF GenInv
  <2>16. ASSUME NEW f \in Flow, Publish(f)
        PROVE  GenInv'
    <3>1. pc' \in [Flow -> PC] /\ (\A g \in Flow : pc'[g] \in StartingPC => generation' # 0)
      BY <2>16, <2>p, <2>n, <2>s DEF Publish, Go, PC, StartingPC, AbortPC, StoppingPC
    <3>2. call' \in [Flow -> Local]
      BY <2>16, <2>t DEF Publish, Go
    <3>3. StateOK' /\ GenOK'
      <4>1. generation \in 0 .. generation
        BY <2>s
      <4>2. QED
        BY <2>16, <2>s, <2>d, <2>g, <4>1 DEF Publish, GenOK
    <3>4. QED
      BY <3>1, <3>2, <3>3 DEF GenInv
  <2>17. ASSUME NEW f \in Flow, Finish(f)
        PROVE  GenInv'
    <3>1. pc' \in [Flow -> PC] /\ (\A g \in Flow : pc'[g] \in StartingPC => generation' # 0)
      BY <2>17, <2>p, <2>n, <2>s DEF Finish, Return, PC, StartingPC, AbortPC, StoppingPC
    <3>2. call' \in [Flow -> Local]
      BY <2>17, <2>t, NoLocalType DEF Finish, Return
    <3>3. StateOK' /\ GenOK'
      BY <2>17, <2>s, <2>d, <2>g, NoLocalType DEF Finish, Return, GenOK
    <3>4. QED
      BY <3>1, <3>2, <3>3 DEF GenInv
  <2>18. ASSUME NEW f \in Flow, AbortNothing(f)
        PROVE  GenInv'
    <3>1. pc' \in [Flow -> PC] /\ (\A g \in Flow : pc'[g] \in StartingPC => generation' # 0)
      BY <2>18, <2>p, <2>n, <2>s DEF AbortNothing, Return, PC, StartingPC, AbortPC,
         StoppingPC
    <3>2. call' \in [Flow -> Local]
      BY <2>18, <2>t, NoLocalType DEF AbortNothing, Return
    <3>3. StateOK' /\ GenOK'
      BY <2>18, <2>s, <2>d, <2>g, NoLocalType DEF AbortNothing, Return, GenOK
    <3>4. QED
      BY <3>1, <3>2, <3>3 DEF GenInv
  <2>19. ASSUME NEW f \in Flow, AbortBegin(f)
        PROVE  GenInv'
    <3>1. pc' \in [Flow -> PC] /\ (\A g \in Flow : pc'[g] \in StartingPC => generation' # 0)
      BY <2>19, <2>p, <2>n, <2>s DEF AbortBegin, Go, PC, StartingPC, AbortPC, StoppingPC
    <3>2. call' \in [Flow -> Local]
      BY <2>19, <2>t DEF AbortBegin, Local
    <3>3. StateOK' /\ GenOK'
      BY <2>19, <2>s, <2>d, <2>g, NoLocalType DEF AbortBegin, Go, GenOK
    <3>4. QED
      BY <3>1, <3>2, <3>3 DEF GenInv
  <2>20. ASSUME NEW f \in Flow, AbortTake(f)
        PROVE  GenInv'
    <3>1. pc' \in [Flow -> PC] /\ (\A g \in Flow : pc'[g] \in StartingPC => generation' # 0)
      BY <2>20, <2>p, <2>n, <2>s DEF AbortTake, TakeAndKill, PC, StartingPC, AbortPC,
         StoppingPC
    <3>2. call' \in [Flow -> Local]
      BY <2>20, <2>t, <2>s, TakeType DEF AbortTake, TakeAndKill
    <3>3. StateOK' /\ GenOK'
      <4>1. /\ child' \in [Slot -> 0 .. generation]
            /\ alive' = alive /\ killed' \subseteq alive
        BY <2>20, <2>s, TakeState DEF AbortTake
      <4>2. QED
        BY <2>20, <2>s, <2>d, <2>g, <4>1 DEF AbortTake, TakeAndKill, GenOK
    <3>4. QED
      BY <3>1, <3>2, <3>3 DEF GenInv
  <2>21. ASSUME NEW f \in Flow, AbortForget(f)
        PROVE  GenInv'
    <3>1. pc' \in [Flow -> PC] /\ (\A g \in Flow : pc'[g] \in StartingPC => generation' # 0)
      BY <2>21, <2>p, <2>n, <2>s DEF AbortForget, Go, PC, StartingPC, AbortPC,
         StoppingPC
    <3>2. call' \in [Flow -> Local]
      BY <2>21, <2>t, <2>s DEF AbortForget, Local
    <3>3. StateOK' /\ GenOK'
      <4>1. 0 \in 0 .. generation
        BY <2>s
      <4>2. QED
        BY <2>21, <2>s, <2>d, <2>g, <4>1 DEF AbortForget, GenOK
    <3>4. QED
      BY <3>1, <3>2, <3>3 DEF GenInv
  <2>22. ASSUME NEW f \in Flow, AbortWait(f)
        PROVE  GenInv'
    <3>1. pc' \in [Flow -> PC] /\ (\A g \in Flow : pc'[g] \in StartingPC => generation' # 0)
      BY <2>22, <2>p, <2>n, <2>s DEF AbortWait, Go, PC, StartingPC, AbortPC, StoppingPC
    <3>2. call' \in [Flow -> Local]
      <4>1. PICK v : v \in BOOLEAN /\ call' = [call EXCEPT ![f].confirmed = v]
        <5>1. PICK free \in BOOLEAN :
                 call' = [call EXCEPT ![f].confirmed =
                    call[f].procs \cap alive = {} /\
                    (free \/ ~call[f].ports \/ call[f].debt = "Unproven")]
          BY <2>22 DEF AbortWait
        <5>2. (call[f].procs \cap alive = {} /\
                    (free \/ ~call[f].ports \/ call[f].debt = "Unproven")) \in BOOLEAN
          BY Zenon
        <5>3. QED
          BY <5>1, <5>2, Zenon
      <4>2. QED
        BY <2>t, <4>1 DEF Local
    <3>3. StateOK' /\ GenOK'
      BY <2>22, <2>s, <2>d, <2>g, NoLocalType DEF AbortWait, Go, GenOK
    <3>4. QED
      BY <3>1, <3>2, <3>3 DEF GenInv
  <2>23. ASSUME NEW f \in Flow, AbortRecord(f)
        PROVE  GenInv'
    <3>1. pc' \in [Flow -> PC] /\ (\A g \in Flow : pc'[g] \in StartingPC => generation' # 0)
      BY <2>23, <2>p, <2>n, <2>s DEF AbortRecord, Return, PC, StartingPC, AbortPC,
         StoppingPC
    <3>2. call' \in [Flow -> Local]
      BY <2>23, <2>t, NoLocalType DEF AbortRecord, Return
    <3>3. StateOK' /\ GenOK'
      <4>1. pending' \in Debt
        <5>1. call[f].procs \cap alive \in SUBSET Proc
          BY <2>s
        <5>2. (call[f].ports /\ call[f].debt = "Ours") \in BOOLEAN
          BY Zenon
        <5>3. Merge(pending, call[f].procs \cap alive,
                    call[f].ports /\ call[f].debt = "Ours") \in Debt
          BY <2>d, <5>1, <5>2, MergeType
        <5>4. QED
          BY <2>23, <2>d, <5>3 DEF AbortRecord
      <4>2. died' \in [Slot -> 0 .. generation]
        BY <2>23, <2>s, NoLocalType DEF AbortRecord
      <4>3. QED
        BY <2>23, <2>s, <2>g, <4>1, <4>2 DEF AbortRecord, Return, GenOK
    <3>4. QED
      BY <3>1, <3>2, <3>3 DEF GenInv
  <2>24. ASSUME NEW f \in Flow, StopIntent(f)
        PROVE  GenInv'
    <3>1. pc' \in [Flow -> PC] /\ (\A g \in Flow : pc'[g] \in StartingPC => generation' # 0)
      BY <2>24, <2>p, <2>n, <2>s DEF StopIntent, Go, PC, StartingPC, AbortPC, StoppingPC
    <3>2. call' \in [Flow -> Local]
      BY <2>24, <2>t DEF StopIntent, Go
    <3>3. StateOK' /\ GenOK'
      BY <2>24, <2>s, <2>d, <2>g, NoLocalType DEF StopIntent, Go, GenOK
    <3>4. QED
      BY <3>1, <3>2, <3>3 DEF GenInv
  <2>24b. ASSUME NEW f \in Flow, StopBarrier(f)
        PROVE  GenInv'
    <3>1. pc' \in [Flow -> PC] /\ (\A g \in Flow : pc'[g] \in StartingPC => generation' # 0)
      BY <2>24b, <2>p, <2>n, <2>s DEF StopBarrier, Go, PC, StartingPC, AbortPC, StoppingPC
    <3>2. call' \in [Flow -> Local]
      BY <2>24b, <2>t DEF StopBarrier, Go
    <3>3. StateOK' /\ GenOK'
      BY <2>24b, <2>s, <2>d, <2>g, NoLocalType DEF StopBarrier, Go, GenOK
    <3>4. QED
      BY <3>1, <3>2, <3>3 DEF GenInv
  <2>25. ASSUME NEW f \in Flow, StopRefused(f)
        PROVE  GenInv'
    <3>1. pc' \in [Flow -> PC] /\ (\A g \in Flow : pc'[g] \in StartingPC => generation' # 0)
      BY <2>25, <2>p, <2>n, <2>s DEF StopRefused, Return, PC, StartingPC, AbortPC,
         StoppingPC
    <3>2. call' \in [Flow -> Local]
      BY <2>25, <2>t, NoLocalType DEF StopRefused, Return
    <3>3. StateOK' /\ GenOK'
      BY <2>25, <2>s, <2>d, <2>g, NoLocalType DEF StopRefused, Return, GenOK
    <3>4. QED
      BY <3>1, <3>2, <3>3 DEF GenInv
  <2>26. ASSUME NEW f \in Flow, StopCurrent(f)
        PROVE  GenInv'
    <3>1. pc' \in [Flow -> PC] /\ (\A g \in Flow : pc'[g] \in StartingPC => generation' # 0)
      BY <2>26, <2>p, <2>n, <2>s DEF StopCurrent, Go, PC, StartingPC, AbortPC,
         StoppingPC
    <3>2. call' \in [Flow -> Local]
      BY <2>26, <2>t DEF StopCurrent, Go
    <3>3. StateOK' /\ GenOK'
      BY <2>26, <2>s, <2>d, <2>g, NoLocalType DEF StopCurrent, Go, GenOK
    <3>4. QED
      BY <3>1, <3>2, <3>3 DEF GenInv
  <2>27. ASSUME NEW f \in Flow, StopGate(f)
        PROVE  GenInv'
    <3>1. pc' \in [Flow -> PC] /\ (\A g \in Flow : pc'[g] \in StartingPC => generation' # 0)
      BY <2>27, <2>p, <2>n, <2>s DEF StopGate, Go, PC, StartingPC, AbortPC, StoppingPC
    <3>2. call' \in [Flow -> Local]
      BY <2>27, <2>t DEF StopGate, Go
    <3>3. StateOK' /\ GenOK'
      BY <2>27, <2>s, <2>d, <2>g, NoLocalType DEF StopGate, Go, GenOK
    <3>4. QED
      BY <3>1, <3>2, <3>3 DEF GenInv
  <2>28. ASSUME NEW f \in Flow, StopTargets(f)
        PROVE  GenInv'
    <3>1. pc' \in [Flow -> PC] /\ (\A g \in Flow : pc'[g] \in StartingPC => generation' # 0)
      BY <2>28, <2>p, <2>n, <2>s DEF StopTargets, Go, PC, StartingPC, AbortPC,
         StoppingPC
    <3>2. call' \in [Flow -> Local]
      <4>1. /\ pending.procs \in SUBSET Proc
            /\ (ports \/ pending.ports) \in BOOLEAN
        BY <2>t, <2>d DEF Debt
      <4>2. call' = [call EXCEPT ![f] = [NoLocal EXCEPT !.todo = Slot,
                        !.procs = pending.procs, !.ports = ports \/ pending.ports]]
        BY <2>28 DEF StopTargets
      <4>3. [NoLocal EXCEPT !.todo = Slot, !.procs = pending.procs,
                            !.ports = ports \/ pending.ports] \in Local
        BY <4>1, NoLocalType DEF NoLocal, Local
      <4>4. QED
        BY <2>t, <4>2, <4>3
    <3>3. StateOK' /\ GenOK'
      BY <2>28, <2>s, <2>d, <2>g, NoLocalType DEF StopTargets, Go, GenOK
    <3>4. QED
      BY <3>1, <3>2, <3>3 DEF GenInv
  <2>29. ASSUME NEW f \in Flow, StopTake(f)
        PROVE  GenInv'
    <3>1. pc' \in [Flow -> PC] /\ (\A g \in Flow : pc'[g] \in StartingPC => generation' # 0)
      BY <2>29, <2>p, <2>n, <2>s DEF StopTake, TakeAndKill, PC, StartingPC, AbortPC,
         StoppingPC
    <3>2. call' \in [Flow -> Local]
      BY <2>29, <2>t, <2>s, TakeType DEF StopTake, TakeAndKill
    <3>3. StateOK' /\ GenOK'
      <4>1. /\ child' \in [Slot -> 0 .. generation]
            /\ alive' = alive /\ killed' \subseteq alive
        BY <2>29, <2>s, TakeState DEF StopTake
      <4>2. QED
        BY <2>29, <2>s, <2>d, <2>g, <4>1 DEF StopTake, TakeAndKill, GenOK
    <3>4. QED
      BY <3>1, <3>2, <3>3 DEF GenInv
  <2>30. ASSUME NEW f \in Flow, StopWait(f)
        PROVE  GenInv'
    <3>1. pc' \in [Flow -> PC] /\ (\A g \in Flow : pc'[g] \in StartingPC => generation' # 0)
      BY <2>30, <2>p, <2>n, <2>s DEF StopWait, Go, PC, StartingPC, AbortPC, StoppingPC
    <3>2. call' \in [Flow -> Local]
      <4>1. PICK v : v \in BOOLEAN /\ call' = [call EXCEPT ![f].confirmed = v]
        <5>1. PICK restored \in BOOLEAN :
                 call' = [call EXCEPT ![f].confirmed =
                    restored /\ call[f].procs \cap alive = {}]
          BY <2>30 DEF StopWait
        <5>2. (restored /\ call[f].procs \cap alive = {}) \in BOOLEAN
          BY Zenon
        <5>3. QED
          BY <5>1, <5>2, Zenon
      <4>2. QED
        BY <2>t, <4>1 DEF Local
    <3>3. StateOK' /\ GenOK'
      BY <2>30, <2>s, <2>d, <2>g, NoLocalType DEF StopWait, Go, GenOK
    <3>4. QED
      BY <3>1, <3>2, <3>3 DEF GenInv
  <2>31. ASSUME NEW f \in Flow, StopRecord(f)
        PROVE  GenInv'
    <3>1. pc' \in [Flow -> PC] /\ (\A g \in Flow : pc'[g] \in StartingPC => generation' # 0)
      BY <2>31, <2>p, <2>n, <2>s DEF StopRecord, Return, PC, StartingPC, AbortPC,
         StoppingPC
    <3>2. call' \in [Flow -> Local]
      BY <2>31, <2>t, NoLocalType DEF StopRecord, Return
    <3>3. StateOK' /\ GenOK'
      <4>1. pending' \in Debt
        <5>1. call[f].ports \in BOOLEAN
          BY <2>t DEF Local
        <5>2. call[f].procs \cap alive \in SUBSET Proc
          BY <2>s
        <5>3. [owed |-> TRUE, procs |-> call[f].procs \cap alive,
               ports |-> call[f].ports] \in Debt
          BY <5>1, <5>2 DEF Debt
        <5>4. QED
          BY <2>31, <5>3, NoLocalType DEF StopRecord
      <4>2. died' \in [Slot -> 0 .. generation] /\ runtime' \in 0 .. generation
        BY <2>31, <2>s, NoLocalType DEF StopRecord
      <4>3. ports' \in BOOLEAN
        BY <2>31, <2>s DEF StopRecord
      <4>4. QED
        BY <2>31, <2>s, <2>g, <4>1, <4>2, <4>3 DEF StopRecord, Return, GenOK
    <3>4. QED
      BY <3>1, <3>2, <3>3 DEF GenInv
  <2>32. ASSUME NEW p \in Proc, Exit(p)
        PROVE  GenInv'
    <3>1. StateOK' /\ GenOK'
      BY <2>32, <2>s, <2>g DEF Exit, Exit, GenOK, Proc
    <3>2. QED
      BY <2>32, <3>1, <2>p, <2>t, <2>n DEF Exit, GenInv
  <2>33. ASSUME NEW p \in Proc, MonitorDecides(p)
        PROVE  GenInv'
    <3>1. StateOK' /\ GenOK'
      BY <2>33, <2>s, <2>g DEF MonitorDecides, Exit, GenOK, Proc
    <3>2. QED
      BY <2>33, <3>1, <2>p, <2>t, <2>n DEF MonitorDecides, GenInv
  <2>34. ASSUME NEW p \in Proc, MonitorReports(p)
        PROVE  GenInv'
    <3>1. StateOK' /\ GenOK'
      BY <2>34, <2>s, <2>g DEF MonitorReports, Exit, GenOK, Proc
    <3>2. QED
      BY <2>34, <3>1, <2>p, <2>t, <2>n DEF MonitorReports, GenInv
  <2>35. CASE LoseOwnership
    BY <2>35, <2>s, <2>p, <2>t, <2>n, <2>g DEF LoseOwnership, GenInv, GenOK
  <2>36. CASE UNCHANGED vars
    BY <2>36, <2>s, <2>p, <2>t, <2>n, <2>g DEF vars, GenInv, GenOK
  <2>37. QED
    BY <2>1, <2>2, <2>3, <2>4, <2>5, <2>6, <2>7, <2>8, <2>9, <2>10,
       <2>11, <2>12, <2>13, <2>14, <2>15, <2>16, <2>17, <2>18, <2>19,
       <2>20, <2>21, <2>22, <2>23, <2>24, <2>24b, <2>25, <2>26, <2>27, <2>28,
       <2>29, <2>30, <2>31, <2>32, <2>33, <2>34, <2>35, <2>36 DEF Next,
       StartStep, AbortStep, StopStep
<1>3. QED
  BY <1>1, <1>2, PTL DEF Spec

\* Every variable of the lifecycle keeps its type.
THEOREM LifecycleTypeCorrect == Spec => []TypeOK
<1>1. GenInv => TypeOK
  BY DEF GenInv, StateOK, TypeOK
<1>2. QED
  BY <1>1, GenInvHolds, PTL

\* What keeps starts and stops apart, and where each call is.
CallInv == pc \in [Flow -> PC] /\ OneStartOneStop

LEMMA CallInvHolds == Spec => []CallInv
<1> USE RuntimeLifecycleAssumption
<1>1. Init => CallInv
  BY DEF Init, CallInv, OneStartOneStop, PC, StartingPC, AbortPC, StoppingPC
<1>2. CallInv /\ [Next]_vars => CallInv'
  <2> SUFFICES ASSUME CallInv, [Next]_vars
               PROVE  CallInv'
    OBVIOUS
  <2> USE DEF CallInv, OneStartOneStop, PC, StartingPC, AbortPC, StoppingPC,
              shared, engines, authority
  <2>1. ASSUME NEW f \in Flow, BeginStart(f)
        PROVE  CallInv'
    BY <2>1 DEF BeginStart, Go
  <2>2. ASSUME NEW f \in Flow, BeginStop(f)
        PROVE  CallInv'
    BY <2>2 DEF BeginStop, Go
  <2>3. ASSUME NEW f \in Flow, StopQueue(f)
        PROVE  CallInv'
    BY <2>3 DEF StopQueue, Go
  <2>4. ASSUME NEW f \in Flow, StartEntry(f)
        PROVE  CallInv'
    BY <2>4 DEF StartEntry, Return
  <2>5. ASSUME NEW f \in Flow, StartRefused(f)
        PROVE  CallInv'
    BY <2>5 DEF StartRefused, Return
  <2>6. ASSUME NEW f \in Flow, StartGate(f)
        PROVE  CallInv'
    BY <2>6 DEF StartGate, Go, Refused
  <2>7. ASSUME NEW f \in Flow, Prepare(f)
        PROVE  CallInv'
    BY <2>7 DEF Prepare, Go
  <2>8. ASSUME NEW f \in Flow, PrepareFails(f)
        PROVE  CallInv'
    BY <2>8 DEF PrepareFails, Return
  <2>9. ASSUME NEW f \in Flow, Spawn(f)
        PROVE  CallInv'
    BY <2>9 DEF Spawn, Go
  <2>10. ASSUME NEW f \in Flow, SpawnFails(f)
        PROVE  CallInv'
    BY <2>10 DEF SpawnFails, Abort
  <2>11. ASSUME NEW f \in Flow, Spawned(f)
        PROVE  CallInv'
    BY <2>11 DEF Spawned, Go
  <2>12. ASSUME NEW f \in Flow, Settle(f)
        PROVE  CallInv'
    BY <2>12 DEF Settle, Go, Abort
  <2>13. ASSUME NEW f \in Flow, Ensure(f)
        PROVE  CallInv'
    BY <2>13 DEF Ensure, Abort
  <2>14. ASSUME NEW f \in Flow, Ready(f)
        PROVE  CallInv'
    BY <2>14 DEF Ready, Go, Abort
  <2>15. ASSUME NEW f \in Flow, Owned(f)
        PROVE  CallInv'
    BY <2>15 DEF Owned, Go, Abort
  <2>16. ASSUME NEW f \in Flow, Publish(f)
        PROVE  CallInv'
    BY <2>16 DEF Publish, Go
  <2>17. ASSUME NEW f \in Flow, Finish(f)
        PROVE  CallInv'
    BY <2>17 DEF Finish, Return
  <2>18. ASSUME NEW f \in Flow, AbortNothing(f)
        PROVE  CallInv'
    BY <2>18 DEF AbortNothing, Return
  <2>19. ASSUME NEW f \in Flow, AbortBegin(f)
        PROVE  CallInv'
    BY <2>19 DEF AbortBegin, Go
  <2>20. ASSUME NEW f \in Flow, AbortTake(f)
        PROVE  CallInv'
    BY <2>20 DEF AbortTake, TakeAndKill
  <2>21. ASSUME NEW f \in Flow, AbortForget(f)
        PROVE  CallInv'
    BY <2>21 DEF AbortForget, Go
  <2>22. ASSUME NEW f \in Flow, AbortWait(f)
        PROVE  CallInv'
    BY <2>22 DEF AbortWait, Go
  <2>23. ASSUME NEW f \in Flow, AbortRecord(f)
        PROVE  CallInv'
    BY <2>23 DEF AbortRecord, Return
  <2>24. ASSUME NEW f \in Flow, StopIntent(f)
        PROVE  CallInv'
    BY <2>24 DEF StopIntent, Go
  <2>24b. ASSUME NEW f \in Flow, StopBarrier(f)
        PROVE  CallInv'
    BY <2>24b DEF StopBarrier, Go
  <2>25. ASSUME NEW f \in Flow, StopRefused(f)
        PROVE  CallInv'
    BY <2>25 DEF StopRefused, Return
  <2>26. ASSUME NEW f \in Flow, StopCurrent(f)
        PROVE  CallInv'
    BY <2>26 DEF StopCurrent, Go
  <2>27. ASSUME NEW f \in Flow, StopGate(f)
        PROVE  CallInv'
    BY <2>27 DEF StopGate, Go
  <2>28. ASSUME NEW f \in Flow, StopTargets(f)
        PROVE  CallInv'
    BY <2>28 DEF StopTargets, Go
  <2>29. ASSUME NEW f \in Flow, StopTake(f)
        PROVE  CallInv'
    BY <2>29 DEF StopTake, TakeAndKill
  <2>30. ASSUME NEW f \in Flow, StopWait(f)
        PROVE  CallInv'
    BY <2>30 DEF StopWait, Go
  <2>31. ASSUME NEW f \in Flow, StopRecord(f)
        PROVE  CallInv'
    BY <2>31 DEF StopRecord, Return
  <2>32. ASSUME NEW p \in Proc, Exit(p)
        PROVE  CallInv'
    BY <2>32 DEF Exit
  <2>33. ASSUME NEW p \in Proc, MonitorDecides(p)
        PROVE  CallInv'
    BY <2>33 DEF MonitorDecides
  <2>34. ASSUME NEW p \in Proc, MonitorReports(p)
        PROVE  CallInv'
    BY <2>34 DEF MonitorReports
  <2>35. CASE LoseOwnership
    BY <2>35 DEF LoseOwnership
  <2>36. CASE UNCHANGED vars
    BY <2>36 DEF vars
  <2>37. QED
    BY <2>1, <2>2, <2>3, <2>4, <2>5, <2>6, <2>7, <2>8, <2>9, <2>10,
       <2>11, <2>12, <2>13, <2>14, <2>15, <2>16, <2>17, <2>18, <2>19,
       <2>20, <2>21, <2>22, <2>23, <2>24, <2>24b, <2>25, <2>26, <2>27, <2>28,
       <2>29, <2>30, <2>31, <2>32, <2>33, <2>34, <2>35, <2>36 DEF Next,
       StartStep, AbortStep, StopStep
<1>3. QED
  BY <1>1, <1>2, PTL DEF Spec

\* However calls overlap, one start at most is between the sentinel and the end
\* of its cleanup (start_singbox_inner, abort_started_runtime), and one stop at
\* most between stop_lock and its verdict (stop_singbox_inner).
THEOREM StartsAndStopsAreAlone == Spec => []OneStartOneStop
BY CallInvHolds, PTL DEF CallInv

-----------------------------------------------------------------------------

\* A start between the creation of its first engine and the last look at its
\* epoch, or in its abort: it may still hold what a stop did not find.
SpawningPC == {"spawn", "spawned", "settle", "ensure", "ready"} \cup AbortPC

\* A start finds the slots empty and fills them with its own generation.
OwnKit ==
    \A f \in Flow : pc[f] \in StartingPC => \A s \in Slot : child[s] \in {0, generation}

\* A start whose epoch is current has met no stop.
StopEndsEpoch ==
    \A f \in Flow : pc[f] \in StartingPC /\ epoch = f => ~stopping

\* The core is spawned last.
CoreIsLast ==
    \A f \in Flow :
        /\ pc[f] = "spawn" => "core" \in call[f].todo
        /\ pc[f] \in {"spawned", "settle", "ensure"}
           => IF call[f].now = "core" THEN call[f].todo = {} ELSE "core" \in call[f].todo

\* A start that is still current has its core when it waits for the answer.
CoreIsUp ==
    \A f \in Flow :
        epoch = f /\ (\/ pc[f] \in {"settle", "ensure"} /\ call[f].now = "core"
                      \/ pc[f] = "ready")
        => child["core"] # 0

\* Sidecars stay behind without a core only where a stop is about to take them:
\* the gate of a start looks for the core alone.
SidecarsServed ==
    (~starting \/ \E f \in Flow : pc[f] \in {"owned", "publish", "published"})
    => \/ "sidecars" \in Slot => child["sidecars"] = 0
       \/ child["core"] # 0
       \/ \E g \in Flow : pc[g] = "stopTake" /\ "sidecars" \in call[g].todo

\* A stop takes the sidecars after the core.
StopOrder ==
    \A g \in Flow : pc[g] = "stopTake" /\ "core" \in call[g].todo /\ "sidecars" \in Slot
                    => "sidecars" \in call[g].todo

\* Before its first engine and after its abort a start has left every slot empty.
StartEmpties ==
    \A f \in Flow, s \in Slot :
        \/ pc[f] \in {"prepare", "abortWait", "abortRecord"}
        \/ pc[f] = "abortTake" /\ s \notin call[f].todo
        => child[s] = 0

\* So has a stop, unless a start that it has overtaken is still to abort.
StopEmpties ==
    \A g \in Flow, s \in Slot :
        \/ pc[g] = "stopRecord"
        \/ pc[g] = "stopTake" /\ s \notin call[g].todo
        => child[s] = 0 \/ \E f \in Flow : pc[f] \in SpawningPC

\* An engine in the state is published, or a start is about to publish it or to
\* take it down.
Published ==
    \A s \in Slot :
        child[s] # 0 => \/ runtime = child[s]
                        \/ \E f \in Flow : pc[f] \in StartingPC \ {"published"}

\* What is in the slots, by where the calls are.
KitInv ==
    /\ OwnKit
    /\ StopEndsEpoch
    /\ CoreIsLast
    /\ CoreIsUp
    /\ SidecarsServed
    /\ StopOrder
    /\ StartEmpties
    /\ StopEmpties
    /\ Published

LEMMA KitInvHolds == Spec => []KitInv
<1> USE RuntimeLifecycleAssumption DEF KitInv, PC, StartingPC, AbortPC, StoppingPC,
                                       SpawningPC
<1>1. Init => KitInv
  BY DEF Init, OwnKit, StopEndsEpoch, CoreIsLast, CoreIsUp, SidecarsServed, StopOrder,
         StartEmpties, StopEmpties, Published
<1>2. GenInv /\ CallInv /\ KitInv /\ [Next]_vars => KitInv'
  <2> SUFFICES ASSUME GenInv, CallInv, KitInv, [Next]_vars
               PROVE  KitInv'
    OBVIOUS
  <2> USE DEF GenInv, StateOK, CallInv, OneStartOneStop, shared, engines, authority,
              OwnKit, StopEndsEpoch, CoreIsLast, CoreIsUp, SidecarsServed, StopOrder,
              StartEmpties, StopEmpties, Published, Slot, Local
  <2>1. ASSUME NEW f \in Flow, BeginStart(f)
        PROVE  KitInv'
    BY <2>1 DEF BeginStart, Go
  <2>2. ASSUME NEW f \in Flow, BeginStop(f)
        PROVE  KitInv'
    BY <2>2 DEF BeginStop, Go
  <2>3. ASSUME NEW f \in Flow, StopQueue(f)
        PROVE  KitInv'
    BY <2>3 DEF StopQueue, Go
  <2>4. ASSUME NEW f \in Flow, StartEntry(f)
        PROVE  KitInv'
    BY <2>4 DEF StartEntry, Return
  <2>5. ASSUME NEW f \in Flow, StartRefused(f)
        PROVE  KitInv'
    BY <2>5 DEF StartRefused, Return
  <2>6. ASSUME NEW f \in Flow, StartGate(f)
        PROVE  KitInv'
    BY <2>6 DEF StartGate, Go, Refused, Occupied
  <2>7. ASSUME NEW f \in Flow, Prepare(f)
        PROVE  KitInv'
    BY <2>7 DEF Prepare, Go
  <2>8. ASSUME NEW f \in Flow, PrepareFails(f)
        PROVE  KitInv'
    BY <2>8 DEF PrepareFails, Return
  <2>9. ASSUME NEW f \in Flow, Spawn(f)
        PROVE  KitInv'
    BY <2>9 DEF Spawn, Go, FirstOf
  <2>10. ASSUME NEW f \in Flow, SpawnFails(f)
        PROVE  KitInv'
    BY <2>10 DEF SpawnFails, Abort
  <2>11. ASSUME NEW f \in Flow, Spawned(f)
        PROVE  KitInv'
    BY <2>11 DEF Spawned, Go
  <2>12. ASSUME NEW f \in Flow, Settle(f)
        PROVE  KitInv'
    BY <2>12 DEF Settle, Go, Abort
  <2>13. ASSUME NEW f \in Flow, Ensure(f)
        PROVE  KitInv'
    BY <2>13 DEF Ensure, Abort
  <2>14. ASSUME NEW f \in Flow, Ready(f)
        PROVE  KitInv'
    BY <2>14 DEF Ready, Go, Abort
  <2>15. ASSUME NEW f \in Flow, Owned(f)
        PROVE  KitInv'
    BY <2>15 DEF Owned, Go, Abort
  <2>16. ASSUME NEW f \in Flow, Publish(f)
        PROVE  KitInv'
    BY <2>16 DEF Publish, Go
  <2>17. ASSUME NEW f \in Flow, Finish(f)
        PROVE  KitInv'
    BY <2>17 DEF Finish, Return
  <2>18. ASSUME NEW f \in Flow, AbortNothing(f)
        PROVE  KitInv'
    BY <2>18 DEF AbortNothing, Return, NothingToAbort, NoDeaths
  <2>19. ASSUME NEW f \in Flow, AbortBegin(f)
        PROVE  KitInv'
    BY <2>19 DEF AbortBegin, Go
  <2>20. ASSUME NEW f \in Flow, AbortTake(f)
        PROVE  KitInv'
    <3> HIDE DEF OwnKit, StopEndsEpoch, CoreIsLast, CoreIsUp, SidecarsServed,
                 StopOrder, StartEmpties, StopEmpties, Published
    <3>1. OwnKit'
      BY <2>20 DEF AbortTake, TakeAndKill, FirstOf, OwnKit
    <3>2. StopEndsEpoch'
      BY <2>20 DEF AbortTake, TakeAndKill, FirstOf, StopEndsEpoch
    <3>3. CoreIsLast'
      BY <2>20 DEF AbortTake, TakeAndKill, FirstOf, CoreIsLast
    <3>4. CoreIsUp'
      BY <2>20 DEF AbortTake, TakeAndKill, FirstOf, CoreIsUp
    <3>5. SidecarsServed'
      BY <2>20 DEF AbortTake, TakeAndKill, FirstOf, SidecarsServed
    <3>6. StopOrder'
      BY <2>20 DEF AbortTake, TakeAndKill, FirstOf, StopOrder
    <3>7. StartEmpties'
      BY <2>20 DEF AbortTake, TakeAndKill, FirstOf, StartEmpties
    <3>8. StopEmpties'
      BY <2>20 DEF AbortTake, TakeAndKill, FirstOf, StopEmpties
    <3>9. Published'
      BY <2>20 DEF AbortTake, TakeAndKill, FirstOf, Published
    <3>10. QED
      BY <3>1, <3>2, <3>3, <3>4, <3>5, <3>6, <3>7, <3>8, <3>9
  <2>21. ASSUME NEW f \in Flow, AbortForget(f)
        PROVE  KitInv'
    BY <2>21 DEF AbortForget, Go
  <2>22. ASSUME NEW f \in Flow, AbortWait(f)
        PROVE  KitInv'
    BY <2>22 DEF AbortWait, Go
  <2>23. ASSUME NEW f \in Flow, AbortRecord(f)
        PROVE  KitInv'
    BY <2>23 DEF AbortRecord, Return
  <2>24. ASSUME NEW f \in Flow, StopIntent(f)
        PROVE  KitInv'
    BY <2>24 DEF StopIntent, Go
  <2>24b. ASSUME NEW f \in Flow, StopBarrier(f)
        PROVE  KitInv'
    BY <2>24b DEF StopBarrier, Go
  <2>25. ASSUME NEW f \in Flow, StopRefused(f)
        PROVE  KitInv'
    BY <2>25 DEF StopRefused, Return
  <2>26. ASSUME NEW f \in Flow, StopCurrent(f)
        PROVE  KitInv'
    BY <2>26 DEF StopCurrent, Go
  <2>27. ASSUME NEW f \in Flow, StopGate(f)
        PROVE  KitInv'
    BY <2>27 DEF StopGate, Go
  <2>28. ASSUME NEW f \in Flow, StopTargets(f)
        PROVE  KitInv'
    BY <2>28 DEF StopTargets, Go
  <2>29. ASSUME NEW f \in Flow, StopTake(f)
        PROVE  KitInv'
    <3> HIDE DEF OwnKit, StopEndsEpoch, CoreIsLast, CoreIsUp, SidecarsServed,
                 StopOrder, StartEmpties, StopEmpties, Published
    <3>1. OwnKit'
      BY <2>29 DEF StopTake, TakeAndKill, FirstOf, OwnKit
    <3>2. StopEndsEpoch'
      BY <2>29 DEF StopTake, TakeAndKill, FirstOf, StopEndsEpoch
    <3>3. CoreIsLast'
      BY <2>29 DEF StopTake, TakeAndKill, FirstOf, CoreIsLast
    <3>4. CoreIsUp'
      BY <2>29 DEF StopTake, TakeAndKill, FirstOf, CoreIsUp
    <3>5. SidecarsServed'
      BY <2>29 DEF StopTake, TakeAndKill, FirstOf, SidecarsServed, StopOrder
    <3>6. StopOrder'
      BY <2>29 DEF StopTake, TakeAndKill, FirstOf, StopOrder
    <3>7. StartEmpties'
      BY <2>29 DEF StopTake, TakeAndKill, FirstOf, StartEmpties
    <3>8. StopEmpties'
      BY <2>29 DEF StopTake, TakeAndKill, FirstOf, StopEmpties
    <3>9. Published'
      BY <2>29 DEF StopTake, TakeAndKill, FirstOf, Published
    <3>10. QED
      BY <3>1, <3>2, <3>3, <3>4, <3>5, <3>6, <3>7, <3>8, <3>9
  <2>30. ASSUME NEW f \in Flow, StopWait(f)
        PROVE  KitInv'
    BY <2>30 DEF StopWait, Go
  <2>31. ASSUME NEW f \in Flow, StopRecord(f)
        PROVE  KitInv'
    BY <2>31 DEF StopRecord, Return
  <2>32. ASSUME NEW p \in Proc, Exit(p)
        PROVE  KitInv'
    BY <2>32 DEF Exit
  <2>33. ASSUME NEW p \in Proc, MonitorDecides(p)
        PROVE  KitInv'
    BY <2>33 DEF MonitorDecides
  <2>34. ASSUME NEW p \in Proc, MonitorReports(p)
        PROVE  KitInv'
    BY <2>34 DEF MonitorReports
  <2>35. CASE LoseOwnership
    BY <2>35 DEF LoseOwnership
  <2>36. CASE UNCHANGED vars
    BY <2>36 DEF vars
  <2>37. QED
    BY <2>1, <2>2, <2>3, <2>4, <2>5, <2>6, <2>7, <2>8, <2>9, <2>10, <2>11, <2>12,
       <2>13, <2>14, <2>15, <2>16, <2>17, <2>18, <2>19, <2>20, <2>21, <2>22, <2>23,
       <2>24, <2>24b, <2>25, <2>26, <2>27, <2>28, <2>29, <2>30, <2>31, <2>32, <2>33, <2>34,
       <2>35, <2>36 DEF Next,
       StartStep, AbortStep, StopStep
<1>3. QED
  BY <1>1, <1>2, GenInvHolds, CallInvHolds, PTL DEF Spec

\* Every engine that runs and was never told to end is in a slot or in the hands
\* of the start that has just created it: a start stores its handles in slots
\* that are empty (start_singbox_inner), and whoever empties a slot kills what it
\* finds there (abort_started_runtime_scoped, stop_singbox_inner).
THEOREM NoEngineIsLost == Spec => []NoEngineLost
<1> USE RuntimeLifecycleAssumption DEF NoEngineLost, InState, JustSpawned
<1>1. Init => NoEngineLost
  BY DEF Init
<1>2. /\ GenInv /\ CallInv /\ OwnKit /\ NoEngineLost /\ [Next]_vars
      => NoEngineLost'
  <2> SUFFICES ASSUME GenInv, CallInv, OwnKit, NoEngineLost, [Next]_vars
               PROVE  NoEngineLost'
    OBVIOUS
  <2> USE DEF GenInv, StateOK, CallInv, OneStartOneStop, shared, engines, authority,
              Proc, Engine, PC, StartingPC, AbortPC
  <2>1. ASSUME NEW f \in Flow, BeginStart(f)
        PROVE  NoEngineLost'
    BY <2>1 DEF BeginStart, Go
  <2>2. ASSUME NEW f \in Flow, BeginStop(f)
        PROVE  NoEngineLost'
    BY <2>2 DEF BeginStop, Go
  <2>3. ASSUME NEW f \in Flow, StopQueue(f)
        PROVE  NoEngineLost'
    BY <2>3 DEF StopQueue, Go
  <2>4. ASSUME NEW f \in Flow, StartEntry(f)
        PROVE  NoEngineLost'
    BY <2>4 DEF StartEntry, Return
  <2>5. ASSUME NEW f \in Flow, StartRefused(f)
        PROVE  NoEngineLost'
    BY <2>5 DEF StartRefused, Return
  <2>6. ASSUME NEW f \in Flow, StartGate(f)
        PROVE  NoEngineLost'
    BY <2>6 DEF StartGate, Go, Refused
  <2>7. ASSUME NEW f \in Flow, Prepare(f)
        PROVE  NoEngineLost'
    BY <2>7 DEF Prepare, Go
  <2>8. ASSUME NEW f \in Flow, PrepareFails(f)
        PROVE  NoEngineLost'
    BY <2>8 DEF PrepareFails, Return
  <2>9. ASSUME NEW f \in Flow, Spawn(f)
        PROVE  NoEngineLost'
    BY <2>9 DEF Spawn, Go, FirstOf, Local, Slot
  <2>10. ASSUME NEW f \in Flow, SpawnFails(f)
        PROVE  NoEngineLost'
    BY <2>10 DEF SpawnFails, Abort
  <2>11. ASSUME NEW f \in Flow, Spawned(f)
        PROVE  NoEngineLost'
    <3> SUFFICES ASSUME NEW p \in alive \ killed
                 PROVE  InState(p)'
      BY <2>11 DEF Spawned
    <3> HIDE DEF InState
    <3>1. f \in Flow /\ pc[f] = "spawned" /\ call[f].now \in Slot
      BY <2>11 DEF Spawned, Go, Local
    <3>2. child' = [child EXCEPT ![call[f].now] = generation]
      BY <2>11 DEF Spawned
    <3>3. p \in Proc /\ p.slot \in Slot /\ p.generation # 0
      OBVIOUS
    <3>4. CASE child[p.slot] = p.generation
      <4>1. child[p.slot] = generation
        BY <3>1, <3>3, <3>4 DEF OwnKit
      <4>2. QED
        BY <3>1, <3>2, <3>3, <3>4, <4>1 DEF InState
    <3>5. CASE child[p.slot] # p.generation
      <4>1. PICK g \in Flow : pc[g] = "spawned" /\ p = Engine(generation, call[g].now)
        BY <3>5 DEF InState
      <4>2. g = f
        BY <3>1, <4>1
      <4>3. p.slot = call[f].now /\ p.generation = generation
        BY <4>1, <4>2
      <4>4. QED
        BY <3>1, <3>2, <4>3 DEF InState
    <3>6. QED
      BY <3>4, <3>5
  <2>12. ASSUME NEW f \in Flow, Settle(f)
        PROVE  NoEngineLost'
    BY <2>12 DEF Settle, Go, Abort
  <2>13. ASSUME NEW f \in Flow, Ensure(f)
        PROVE  NoEngineLost'
    BY <2>13 DEF Ensure, Abort
  <2>14. ASSUME NEW f \in Flow, Ready(f)
        PROVE  NoEngineLost'
    BY <2>14 DEF Ready, Go, Abort
  <2>15. ASSUME NEW f \in Flow, Owned(f)
        PROVE  NoEngineLost'
    BY <2>15 DEF Owned, Go, Abort
  <2>16. ASSUME NEW f \in Flow, Publish(f)
        PROVE  NoEngineLost'
    BY <2>16 DEF Publish, Go
  <2>17. ASSUME NEW f \in Flow, Finish(f)
        PROVE  NoEngineLost'
    BY <2>17 DEF Finish, Return
  <2>18. ASSUME NEW f \in Flow, AbortNothing(f)
        PROVE  NoEngineLost'
    BY <2>18 DEF AbortNothing, Return
  <2>19. ASSUME NEW f \in Flow, AbortBegin(f)
        PROVE  NoEngineLost'
    BY <2>19 DEF AbortBegin, Go
  <2>20. ASSUME NEW f \in Flow, AbortTake(f)
        PROVE  NoEngineLost'
    BY <2>20 DEF AbortTake, TakeAndKill, FirstOf, Local, Slot
  <2>21. ASSUME NEW f \in Flow, AbortForget(f)
        PROVE  NoEngineLost'
    BY <2>21 DEF AbortForget, Go
  <2>22. ASSUME NEW f \in Flow, AbortWait(f)
        PROVE  NoEngineLost'
    BY <2>22 DEF AbortWait, Go
  <2>23. ASSUME NEW f \in Flow, AbortRecord(f)
        PROVE  NoEngineLost'
    BY <2>23 DEF AbortRecord, Return
  <2>24. ASSUME NEW f \in Flow, StopIntent(f)
        PROVE  NoEngineLost'
    BY <2>24 DEF StopIntent, Go
  <2>24b. ASSUME NEW f \in Flow, StopBarrier(f)
        PROVE  NoEngineLost'
    BY <2>24b DEF StopBarrier, Go
  <2>25. ASSUME NEW f \in Flow, StopRefused(f)
        PROVE  NoEngineLost'
    BY <2>25 DEF StopRefused, Return
  <2>26. ASSUME NEW f \in Flow, StopCurrent(f)
        PROVE  NoEngineLost'
    BY <2>26 DEF StopCurrent, Go
  <2>27. ASSUME NEW f \in Flow, StopGate(f)
        PROVE  NoEngineLost'
    BY <2>27 DEF StopGate, Go
  <2>28. ASSUME NEW f \in Flow, StopTargets(f)
        PROVE  NoEngineLost'
    BY <2>28 DEF StopTargets, Go
  <2>29. ASSUME NEW f \in Flow, StopTake(f)
        PROVE  NoEngineLost'
    BY <2>29 DEF StopTake, TakeAndKill, FirstOf, Local, Slot
  <2>30. ASSUME NEW f \in Flow, StopWait(f)
        PROVE  NoEngineLost'
    BY <2>30 DEF StopWait, Go
  <2>31. ASSUME NEW f \in Flow, StopRecord(f)
        PROVE  NoEngineLost'
    BY <2>31 DEF StopRecord, Return
  <2>32. ASSUME NEW p \in Proc, Exit(p)
        PROVE  NoEngineLost'
    BY <2>32 DEF Exit
  <2>33. ASSUME NEW p \in Proc, MonitorDecides(p)
        PROVE  NoEngineLost'
    BY <2>33 DEF MonitorDecides
  <2>34. ASSUME NEW p \in Proc, MonitorReports(p)
        PROVE  NoEngineLost'
    BY <2>34 DEF MonitorReports
  <2>35. CASE LoseOwnership
    BY <2>35 DEF LoseOwnership
  <2>36. CASE UNCHANGED vars
    BY <2>36 DEF vars
  <2>37. QED
    BY <2>1, <2>2, <2>3, <2>4, <2>5, <2>6, <2>7, <2>8, <2>9, <2>10, <2>11, <2>12,
       <2>13, <2>14, <2>15, <2>16, <2>17, <2>18, <2>19, <2>20, <2>21, <2>22, <2>23,
       <2>24, <2>24b, <2>25, <2>26, <2>27, <2>28, <2>29, <2>30, <2>31, <2>32, <2>33, <2>34,
       <2>35, <2>36 DEF Next,
       StartStep, AbortStep, StopStep
<1>3. KitInv => OwnKit
  BY DEF KitInv
<1>4. QED
  BY <1>1, <1>2, <1>3, GenInvHolds, CallInvHolds, KitInvHolds, PTL DEF Spec

\* When no call is under way, every engine in the state is of the published
\* runtime: each way out of start_singbox_inner publishes what it has spawned or
\* takes it down, and a stop forgets the runtime only with its engines.
THEOREM NoRuntimeIsStray == Spec => []NoStrayRuntime
<1>1. KitInv => NoStrayRuntime
  BY DEF KitInv, Published, NoStrayRuntime, Quiet, StartingPC, AbortPC
<1>2. QED
  BY <1>1, KitInvHolds, PTL
=============================================================================
