------------------------- MODULE ProfileStoreProofs -------------------------
(***************************************************************************)
(* What ProfileStore promises, for any items and bounds.                   *)
(*                                                                         *)
(* The argument.  Only an erasure takes a readable store away: a rotation  *)
(* keeps what can be read, in the file or in its backup (LoadableIsKept).  *)
(* A command that succeeded has left a store behind (Written); between its *)
(* success and the answer an erasure cannot have run, because the chain    *)
(* runs one task at a time and because no erasure begins before the launch *)
(* is over (Erasing, OneClear, Migrating).  Once the store is erased no    *)
(* item of it is in memory (ErasedIsGone), so no save that is requested    *)
(* then can bring it back into the backup, and one that was requested      *)
(* before is void or is still to note the generation (BackupIsClean).  A   *)
(* restore that the backend refuses was not sent without it: with a store  *)
(* that is degraded it is skipped (Links).                                 *)
(*                                                                         *)
(* What is stored is what is shown: the last write that waits has what is  *)
(* in memory (LastIsMemory), a result that was not read is still in the    *)
(* file (HeadWritten), nothing overtakes a migration that has the lock     *)
(* (FirstToWrite), an erasure that is half way says so until it is         *)
(* answered (Sealed, HalfErased), and only a change during the erasure is  *)
(* chained behind it (AfterClear).                                         *)
(***************************************************************************)
EXTENDS ProfileStore, TLAPS

\* The types the argument needs.
AnyFile == [kind : {"store", "absent", "corrupt"}, items : SUBSET Item, rev : Nat]
Types ==
    /\ primary \in AnyFile /\ bak \in AnyFile
    /\ legacy \in Copy /\ backup \in Copy /\ snap \in Copy
    /\ saving \in Saving
    /\ mem \in SUBSET Item /\ prev \in SUBSET Item
    /\ erased \in SUBSET Item
    /\ revision \in Nat
    /\ degraded \in BOOLEAN
    /\ chain \in Seq(Task)
    /\ cmd \in [Who -> Command]

\* An erasure is under way after the launch only.
Erasing == erase # "no" => phase = "ready"

\* What is erased is not in memory, unless it was added again.
ErasedIsGone == erase \in {"again", "done"} => erased \cap mem = {}

\* Nor is it in the backup, or in one being saved, but for a save that came late.
BackupIsClean ==
    erase = "done" /\ ~late => /\ erased \cap backup.items = {}
                               /\ saving.step # "none" => erased \cap saving.items = {}

\* One erasure at a time is in the chain, and it is the one under way.
OneClear ==
    \A i \in 1 .. Len(chain) : chain[i].kind = "clear" =>
        /\ erase = "store"
        /\ \A j \in 1 .. Len(chain) : chain[j].kind = "clear" => j = i

\* A command belongs to a task, or to the migration.
Tasks == cmd["chain"].step # "none" => chain # <<>>
Migrating == cmd["migration"].step # "none" => phase = "migrating"

\* A command that succeeded left a store behind.
Written ==
    /\ cmd["migration"].step = "ok" => Loadable.kind = "store"
    /\ cmd["chain"].step = "ok" /\ Head(chain).kind # "clear" => Loadable.kind = "store"

ErasureInv == Erasing /\ ErasedIsGone /\ BackupIsClean
ChainInv == OneClear /\ Tasks /\ Migrating /\ Written
Inv == Types /\ ErasureInv /\ ChainInv

\* Copies are copies.
LEMMA Copies == NoCopy \in Copy /\ \A s \in SUBSET Item : CopyOf(s) \in Copy
BY DEF NoCopy, Copy, CopyOf

\* And short chains are chains.
LEMMA ShortChains ==
    /\ <<>> \in Seq(Task)
    /\ \A t \in Task : <<t>> \in Seq(Task) /\ <<t>> # <<>> /\ Len(<<t>>) = 1 /\ <<t>>[1] = t
OBVIOUS

\* The steps of a command but its erasure keep a store that can be read.
LEMMA LoadableIsKept ==
    ASSUME Next, Loadable.kind = "store", ~Clear
    PROVE  Loadable'.kind = "store"
<1>1. ASSUME NEW w \in Who, Rotate(w) \/ Replace(w) \/ Fail(w) PROVE Loadable'.kind = "store"
  BY <1>1 DEF Rotate, Replace, Fail, Loadable, Corrupt, Absent, files
<1>2. CASE Rot
  BY <1>2 DEF Rot, Loadable, Corrupt
<1>3. CASE UNCHANGED <<primary, bak>>
  BY <1>3 DEF Loadable
<1>4. CASE WriteAnswered \/ Launch \/ Ask \/ LoadFailed \/ Loaded \/ Missing \/ Migrated
             \/ Check \/ RestoreAnswered \/ Reload \/ Save \/ SaveBegins \/ Saved \/ Erase
             \/ EraseStore \/ StoreErased \/ EraseAgain \/ EraseFails \/ Crash \/ Rest
  BY <1>4, <1>3 DEF WriteAnswered, Launch, Ask, LoadFailed, Loaded, Missing, Migrated, Check,
     RestoreAnswered, Reload, Save, SaveBegins, Saved, Erase, EraseStore, StoreErased, EraseAgain,
     EraseFails, Crash, Rest, files, vars
<1>5. ASSUME NEW i \in Item, Change(i) PROVE UNCHANGED <<primary, bak>>
  BY <1>5 DEF Change
<1> QED
  BY <1>1, <1>2, <1>3, <1>4, <1>5 DEF Next

\* Only an erasure by the user takes away a store that can be read: see
\* profile_store.rs:248-267 for the rotation that must not.
THEOREM StoreIsNotLost == Spec => StoreIsNeverLost
<1>1. ASSUME [Next]_vars
      PROVE  [Loadable.kind = "store" /\ Loadable'.kind # "store"
                => cmd["chain"].step \in {"sent", "half"} /\ Head(chain).kind = "clear"]_vars
  <2>1. ASSUME Clear, Loadable.kind = "store", Loadable'.kind # "store"
        PROVE  cmd["chain"].step \in {"sent", "half"} /\ Head(chain).kind = "clear"
    BY <2>1 DEF Clear, Loadable
  <2>2. CASE UNCHANGED vars
    BY <2>2 DEF vars
  <2> QED
    BY <1>1, <2>1, <2>2, LoadableIsKept
<1> QED
  BY <1>1, PTL DEF Spec, StoreIsNeverLost

\* What is erased is out of memory before a save can pick it up again.
LEMMA ErasureStep ==
    ASSUME ErasureInv, OneClear, Types, [Next]_vars
    PROVE  ErasureInv'
<1> USE DEF ErasureInv, Erasing, ErasedIsGone, BackupIsClean
<1>1. ASSUME NEW w \in Who, Rotate(w) \/ Replace(w) \/ Fail(w) PROVE ErasureInv'
  BY <1>1 DEF Rotate, Replace, Fail, files, front, ghosts
<1>2. ASSUME NEW i \in Item, Change(i) PROVE ErasureInv'
  <2>1. UNCHANGED <<phase, erase, backup, saving, late>>
    BY <1>2 DEF Change
  <2>2. CASE mem' = mem \cup {i} /\ erased' = erased \ {i}
    BY <2>1, <2>2
  <2>3. CASE mem' = mem \ {i} /\ UNCHANGED erased
    BY <2>1, <2>3
  <2> QED
    BY <1>2, <2>2, <2>3 DEF Change, Publishes
<1>3. CASE Launch \/ Reload \/ Crash
  BY <1>3 DEF Launch, Reload, Crash, Loads
<1>4. CASE Ask \/ LoadFailed \/ Loaded \/ Missing \/ Migrated \/ Check \/ RestoreAnswered
  BY <1>4 DEF Ask, LoadFailed, Loaded, Missing, Migrated, Check, RestoreAnswered, Degrades, Begins
<1>5. CASE Save
  BY <1>5 DEF Save, files, front, ghosts
<1>6. CASE SaveBegins
  <2>1. saving.step = "sent" /\ saving'.items = saving.items
    BY <1>6 DEF SaveBegins, Types, Saving
  <2> QED
    BY <1>6, <2>1 DEF SaveBegins, files, front, ghosts
<1>10. CASE Saved
  <2>1. saving.step = "noted" /\ saving' = NoSaving /\ backup' \in {backup, CopyOf(saving.items)}
        /\ UNCHANGED <<phase, mem, erase, erased, late>>
    BY <1>10 DEF Saved, front, ghosts
  <2>2. backup'.items \in {backup.items, saving.items} /\ saving'.step = "none"
    BY <2>1 DEF CopyOf, NoSaving
  <2> QED
    BY <2>1, <2>2
<1>7. CASE Erase \/ EraseStore \/ EraseFails
  BY <1>7 DEF Erase, EraseStore, EraseFails, files, front
<1>11. CASE EraseAgain
  <2>1. /\ UNCHANGED <<phase, mem, erased>> /\ erase = "again" /\ erase' = "done"
        /\ backup' = NoCopy /\ late' = (saving.step = "sent")
        /\ saving' = IF saving.step = "noted" THEN NoSaving ELSE saving
    BY <1>11 DEF EraseAgain, ClearsBackup, front
  <2>2. ~late' => saving'.step = "none"
    BY <2>1 DEF Types, Saving, NoSaving
  <2> QED
    BY <2>1, <2>2 DEF NoCopy
<1>8. CASE StoreErased
  <2>1. erase = "store"
    <3>1. chain \in Seq(Task) /\ chain # <<>> /\ Head(chain).kind = "clear"
      BY <1>8 DEF StoreErased, Types
    <3> QED
      BY <3>1 DEF OneClear
  <2> QED
    BY <1>8, <2>1 DEF StoreErased
<1>9. CASE Clear \/ WriteAnswered \/ Rot \/ Rest \/ UNCHANGED vars
  BY <1>9 DEF Clear, WriteAnswered, Rot, Rest, vars, front, files, ghosts
<1> QED
  BY <1>1, <1>2, <1>3, <1>4, <1>5, <1>6, <1>7, <1>8, <1>9, <1>10, <1>11 DEF Next

\* A task that is chained, and the one that is settled.
LEMMA Chained ==
    ASSUME Types, OneClear, Tasks, NEW t \in Task, Chains(t),
           t.kind = "clear" => erase' = "store" /\ erase # "store",
           erase = "store" => erase' = "store"
    PROVE  /\ chain' \in Seq(Task) /\ OneClear' /\ Tasks'
           /\ cmd' \in [Who -> Command] /\ cmd'["migration"] = cmd["migration"]
           /\ chain # <<>> => Head(chain') = Head(chain) /\ cmd' = cmd
           /\ chain = <<>> => Head(chain') = t /\ cmd'["chain"].step # "ok"
<1>1. chain' = Append(chain, t) /\ chain' \in Seq(Task) /\ Len(chain') = Len(chain) + 1
  BY DEF Chains, Types
<1>2. /\ chain'[Len(chain')] = t
      /\ \A i \in 1 .. Len(chain) : chain'[i] = chain[i]
  BY <1>1 DEF Types
<1>3. OneClear'
  BY <1>1, <1>2 DEF OneClear, Types
<1>4. Sent(t, revision, degraded) \in Command
  BY DEF Types, Sent, Command, Results, Task
<1>5. chain # <<>> => Head(chain') = Head(chain) /\ cmd' = cmd
  BY <1>1, <1>2 DEF Chains, Types
<1>6. chain = <<>> => Head(chain') = t /\ cmd'["chain"] = Sent(t, revision, degraded)
  BY <1>1, <1>2 DEF Chains, Types, Who
<1> QED
  BY <1>1, <1>3, <1>4, <1>5, <1>6 DEF Chains, Types, Who, Tasks, Sent

LEMMA Unchained ==
    ASSUME Types, OneClear, chain # <<>>, NEW rev \in Nat, NEW alone \in BOOLEAN,
           Unchains(rev, alone), Head(chain).kind # "clear" => erase' = erase
    PROVE  /\ chain' \in Seq(Task) /\ OneClear' /\ Tasks'
           /\ cmd' \in [Who -> Command] /\ cmd'["migration"] = cmd["migration"]
           /\ cmd'["chain"].step # "ok"
<1>1. /\ chain' \in Seq(Task) /\ Len(chain') = Len(chain) - 1
      /\ \A i \in 1 .. Len(chain') : chain'[i] = chain[i + 1]
  BY DEF Types, Unchains
<1>2. OneClear'
  <2> SUFFICES ASSUME NEW i \in 1 .. Len(chain'), chain'[i].kind = "clear"
               PROVE  /\ erase' = "store"
                      /\ \A j \in 1 .. Len(chain') : chain'[j].kind = "clear" => j = i
    BY DEF OneClear
  <2>1. i + 1 \in 1 .. Len(chain) /\ 1 \in 1 .. Len(chain) /\ i + 1 # 1
    BY <1>1 DEF Types
  <2>2. erase = "store" /\ Head(chain).kind # "clear"
    BY <1>1, <2>1 DEF OneClear, Types
  <2>3. ASSUME NEW j \in 1 .. Len(chain'), chain'[j].kind = "clear" PROVE j = i
    <3>1. j + 1 \in 1 .. Len(chain)
      BY <1>1 DEF Types
    <3>2. chain[i + 1].kind = "clear" /\ chain[j + 1].kind = "clear"
      BY <1>1, <2>3
    <3>3. j + 1 = i + 1
      BY <2>1, <3>1, <3>2 DEF OneClear
    <3> QED
      BY <3>3
  <2> QED
    BY <2>2, <2>3
<1>3. CASE Len(chain) = 1
  BY <1>1, <1>2, <1>3 DEF Types, Unchains, NoCommand, Command, Who, Tasks
<1>4. CASE Len(chain) # 1
  <2>1. chain[2] \in Task /\ chain' # <<>>
    BY <1>1, <1>4 DEF Types
  <2>2. Sent(chain[2], rev, alone) \in Command
    BY <2>1 DEF Sent, Command, Results, Task
  <2> QED
    BY <1>1, <1>2, <1>4, <2>1, <2>2 DEF Types, Unchains, Who, Tasks, Sent
<1> QED
  BY <1>3, <1>4

\* A readable store stays while no erasure runs; a command that is not the
\* chain's own leaves what was written alone.
LEMMA Calm ==
    ASSUME Inv, Clear
    PROVE  cmd["migration"].step = "none" /\ Head(chain).kind = "clear" /\ chain # <<>>
<1>1. chain # <<>> /\ Head(chain).kind = "clear"
  BY DEF Clear, Inv, ChainInv, Tasks
<1>2. erase = "store"
  BY <1>1 DEF Inv, ChainInv, OneClear, Types
<1>3. phase = "ready"
  BY <1>2 DEF Inv, ErasureInv, Erasing
<1> QED
  BY <1>1, <1>3 DEF Inv, ChainInv, Migrating

\* What a step of the backend does to the commands: to one of them.
LEMMA Moved ==
    ASSUME Types, NEW w \in Who, Rotate(w) \/ Replace(w) \/ Fail(w)
    PROVE  /\ cmd' \in [Who -> Command]
           /\ \A v \in Who : v # w => cmd'[v] = cmd[v]
           /\ cmd[w].step \in {"sent"} \cup Started
           /\ w # "orphan" => /\ cmd'[w].items = cmd[w].items
                              /\ cmd'[w].expected = cmd[w].expected
                              /\ cmd'[w].step \in {"rotated", "ok", "failed"}
           /\ cmd'[w].step = "ok" => Replace(w)
           /\ cmd'[w].step \in Started =>
                /\ cmd'[w].step = "rotated" /\ Rotate(w) /\ ~Locked
                /\ w = "chain" => Head(chain).kind # "clear"
           /\ w = "orphan" => cmd'[w].step \in {"none", "rotated"}
<1> USE DEF Types
<1>1. cmd[w] \in Command /\ cmd[w].step \in {"sent"} \cup Started
  BY DEF Rotate, Replace, Fail, Started
<1>2. ASSUME NEW step \in {"ok", "failed"}, Settles(w, step)
      PROVE  /\ cmd' \in [Who -> Command]
             /\ \A v \in Who : v # w => cmd'[v] = cmd[v]
             /\ w # "orphan" => /\ cmd'[w].items = cmd[w].items
                                /\ cmd'[w].expected = cmd[w].expected /\ cmd'[w].step = step
             /\ w = "orphan" => cmd'[w].step = "none"
  <2>1. CASE w = "orphan"
    BY <1>2, <2>1 DEF Settles, NoCommand, Command
  <2>2. CASE w # "orphan"
    <3>1. cmd' = [cmd EXCEPT ![w] = [cmd[w] EXCEPT !.step = step]]
      BY <1>2, <2>2 DEF Settles
    <3>2. [cmd[w] EXCEPT !.step = step] \in Command
      BY <1>1 DEF Command, Results
    <3> QED
      BY <1>1, <2>2, <3>1, <3>2 DEF Command
  <2> QED
    BY <2>1, <2>2
<1>3. CASE Settles(w, "ok") /\ Replace(w)
  BY <1>1, <1>2, <1>3 DEF Started
<1>4. CASE Settles(w, "failed")
  BY <1>1, <1>2, <1>4 DEF Started
<1>5. CASE /\ Rotate(w) /\ ~Locked /\ (w = "chain" => Head(chain).kind # "clear")
           /\ cmd' = [cmd EXCEPT ![w].step = "rotated"]
  BY <1>1, <1>5 DEF Command, Started
<1> QED
  BY <1>3, <1>4, <1>5 DEF Rotate, Replace, Fail

\* The backend's steps.
LEMMA BackendStep ==
    ASSUME Inv, NEW w \in Who, Rotate(w) \/ Replace(w) \/ Fail(w)
    PROVE  Types' /\ ChainInv'
<1> USE DEF Inv, Types, ChainInv
<1>1. UNCHANGED <<legacy, backup, snap, saving, mem, prev, erased, revision, degraded, chain,
                  phase, erase>>
  BY DEF Rotate, Replace, Fail, files, front
<1>2. cmd' \in [Who -> Command]
  BY Moved
<1>3. primary' \in AnyFile /\ bak' \in AnyFile
  <2>1. CASE Replace(w)
    BY <2>1 DEF Replace, AnyFile, Command
  <2> QED
    BY <2>1 DEF Rotate, Fail, files
<1>4. \A v \in {"chain", "migration"} :
         /\ cmd'[v].step = "none" <=> cmd[v].step = "none"
         /\ cmd'[v].step = "ok" => cmd[v].step = "ok" \/ Replace(w)
  BY Moved DEF Who, Started
<1>5. OneClear' /\ Tasks' /\ Migrating'
  BY <1>1, <1>4 DEF OneClear, Tasks, Migrating
<1>6. Written'
  <2>1. CASE Replace(w)
    BY <2>1 DEF Replace, Loadable, Written
  <2>2. CASE Rotate(w) \/ Fail(w)
    <3>1. Loadable.kind = "store" => Loadable'.kind = "store"
      BY <2>2 DEF Rotate, Fail, Loadable, files
    <3>2. \A v \in Who : v # w => cmd'[v] = cmd[v]
      BY Moved
    <3>3. cmd'[w].step # "ok"
      BY <1>1, <2>2 DEF Rotate, Fail, Settles, NoCommand, Command
    <3> QED
      BY <1>1, <3>1, <3>2, <3>3 DEF Written, Who
  <2> QED
    BY <2>1, <2>2
<1> QED
  BY <1>1, <1>2, <1>3, <1>5, <1>6

\* What is chained by the steps that change neither files nor the migration.
LEMMA ChainsKeeps ==
    ASSUME Inv, NEW t \in Task, Chains(t),
           t.kind = "clear" => erase' = "store" /\ erase # "store",
           erase = "store" => erase' = "store",
           UNCHANGED <<primary, bak, degraded>>, phase' = phase \/ phase # "migrating"
    PROVE  ChainInv' /\ chain' \in Seq(Task) /\ cmd' \in [Who -> Command]
<1> USE DEF Inv, ChainInv
<1>1. /\ chain' \in Seq(Task) /\ OneClear' /\ Tasks'
      /\ cmd' \in [Who -> Command] /\ cmd'["migration"] = cmd["migration"]
      /\ chain # <<>> => Head(chain') = Head(chain) /\ cmd' = cmd
      /\ chain = <<>> => Head(chain') = t /\ cmd'["chain"].step # "ok"
  BY Chained
<1>2. Migrating'
  BY <1>1 DEF Migrating
<1>3. Loadable' = Loadable
  BY DEF Loadable
<1>4. Written'
  BY <1>1, <1>3 DEF Written, Tasks
<1> QED
  BY <1>1, <1>2, <1>4

\* And what is settled.
LEMMA UnchainsKeeps ==
    ASSUME Inv, chain # <<>>, NEW rev \in Nat, Unchains(rev, degraded),
           Head(chain).kind # "clear" => erase' = erase,
           UNCHANGED <<primary, bak, degraded>>, phase' = phase \/ phase # "migrating"
    PROVE  ChainInv' /\ chain' \in Seq(Task) /\ cmd' \in [Who -> Command]
<1> USE DEF Inv, ChainInv
<1>1. degraded \in BOOLEAN
  BY DEF Types
<1>2. /\ chain' \in Seq(Task) /\ OneClear' /\ Tasks'
      /\ cmd' \in [Who -> Command] /\ cmd'["migration"] = cmd["migration"]
      /\ cmd'["chain"].step # "ok"
  BY <1>1, Unchained
<1>3. Loadable' = Loadable
  BY DEF Loadable
<1> QED
  BY <1>2, <1>3 DEF Written, Migrating

\* The page is loaded, or the process is gone.
LEMMA LoadsKeeps ==
    ASSUME Inv, NEW left \in Command, left.step # "ok",
           cmd' = [w \in Who |-> IF w = "orphan" THEN left ELSE NoCommand],
           chain' = <<>>, saving' = NoSaving, snap' = NoCopy, erased' = {}, revision' = 0,
           degraded' = FALSE, mem' = {} \/ mem' = legacy'.items, legacy' \in Copy, prev' = {},
           UNCHANGED <<primary, bak, backup>>
    PROVE  Types' /\ ChainInv'
<1>1. /\ cmd' \in [Who -> Command]
      /\ cmd'["chain"].step = "none" /\ cmd'["migration"].step = "none"
  BY DEF NoCommand, Command, Who
<1>2. Types'
  <2>1. mem' \in SUBSET Item
    BY DEF Copy
  <2>2. saving' \in Saving
    BY DEF Saving, NoSaving
  <2> QED
    BY <1>1, <2>1, <2>2, Copies, ShortChains DEF Inv, Types
<1>3. ChainInv'
  BY <1>1 DEF ChainInv, OneClear, Tasks, Migrating, Written
<1> QED
  BY <1>2, <1>3

\* Nobody's command is one; nor is what a page leaves behind done.
LEMMA Left ==
    /\ NoCommand \in Command /\ NoCommand.step = "none"
    /\ [w \in Who |-> NoCommand] = [w \in Who |-> IF w = "orphan" THEN NoCommand ELSE NoCommand]
BY DEF NoCommand, Command

LEMMA ChangeKeeps ==
    ASSUME Inv, NEW i \in Item, Change(i)
    PROVE  Types' /\ ChainInv'
<1> USE DEF Inv, Types
<1>1. PICK s \in SUBSET Item : Publishes(s)
  BY DEF Change
<1>2. UNCHANGED <<primary, bak, backup, snap, saving, prev, revision, degraded, phase, erase>>
  BY DEF Change
<1>3. mem' \in SUBSET Item /\ erased' \in SUBSET Item /\ legacy' \in Copy
  <2>1. mem' \in SUBSET Item /\ legacy' \in Copy
    BY <1>1, Copies DEF Publishes
  <2>2. erased' \in SUBSET Item
    BY DEF Change
  <2> QED
    BY <2>1, <2>2
<1>4. CASE UNCHANGED <<chain, cmd>>
  BY <1>2, <1>3, <1>4 DEF ChainInv, OneClear, Tasks, Migrating, Written, Loadable
<1>5. CASE Chains([kind |-> "write", items |-> s])
  <2>1. [kind |-> "write", items |-> s] \in Task
    BY DEF Task
  <2> QED
    BY <1>2, <1>3, <1>5, <2>1, ChainsKeeps
<1> QED
  BY <1>1, <1>4, <1>5 DEF Publishes

\* The launch.
LEMMA LaunchKeeps ==
    ASSUME Inv, Launch \/ Ask \/ LoadFailed \/ Loaded \/ Missing \/ Migrated \/ Check
           \/ RestoreAnswered \/ Reload
    PROVE  Types' /\ ChainInv'
<1> USE DEF Inv, Types
<1>1. CASE Launch
  <2>1. legacy' \in Copy
    BY <1>1 DEF Launch, files
  <2> QED
    BY <1>1, <2>1, Left, LoadsKeeps DEF Launch, Loads, files
<1>2. CASE Reload
  <2>1. legacy' \in Copy /\ UNCHANGED <<primary, bak, backup>>
    BY <1>2 DEF Reload, files
  <2>2. PICK left \in Command : left.step # "ok" /\ Loads(TRUE, left)
    <3>1. cmd["chain"] \in Command
      BY DEF Who
    <3> QED
      BY <1>2, <3>1, Left DEF Reload
  <2> QED
    BY <2>1, <2>2, LoadsKeeps DEF Loads
<1>9. CASE RestoreAnswered
  <2>1. PICK rev \in Nat : Unchains(rev, degraded) /\ revision' = rev
    BY <1>9 DEF RestoreAnswered, Command, Who
  <2>2. /\ chain # <<>> /\ Head(chain).kind = "restore" /\ Head(chain) \in Task
        /\ phase = "restoring" /\ phase' = "restored"
        /\ UNCHANGED <<primary, bak, backup, degraded, snap, prev, saving, erase, erased>>
    BY <1>9 DEF RestoreAnswered
  <2>3. legacy' \in Copy /\ mem' \in SUBSET Item
    <3>1. CASE UNCHANGED mem
      BY <1>9, <2>2, <3>1, Copies DEF RestoreAnswered, Task
    <3>2. CASE mem' = prev
      BY <1>9, <2>2, <3>2, Copies DEF RestoreAnswered, Task
    <3> QED
      BY <1>9, <3>1, <3>2 DEF RestoreAnswered
  <2> QED
    BY <2>1, <2>2, <2>3, UnchainsKeeps
<1>3. CASE Ask
  BY <1>3 DEF Ask, files, Copy, ChainInv, OneClear, Tasks, Migrating, Written, Loadable
<1>4. CASE LoadFailed
  BY <1>4 DEF LoadFailed, Degrades, Begins, files, ChainInv, OneClear, Tasks, Migrating, Written,
     Loadable
<1>5. CASE Loaded
  <2>1. Loadable \in AnyFile
    BY <1>5 DEF Loaded, Loadable, Corrupt, Absent
  <2>2. mem' \in SUBSET Item /\ revision' \in Nat /\ legacy' \in Copy
    BY <1>5, <2>1 DEF Loaded, AnyFile, NoCopy, Copy
  <2>3. Loadable' = Loadable /\ Loadable.kind = "store"
    BY <1>5 DEF Loaded, Loadable
  <2>4. cmd["migration"].step = "none" /\ \A i \in 1 .. Len(chain) : chain[i].kind # "clear"
    BY <1>5 DEF Loaded, ChainInv, Migrating, OneClear, ErasureInv, Erasing, Command, Who
  <2>5. CASE UNCHANGED <<chain, cmd>>
    BY <1>5, <2>2, <2>3, <2>4, <2>5 DEF Loaded, ChainInv, OneClear, Tasks, Migrating, Written
  <2>6. CASE early
    <3> DEFINE t == [kind |-> "write", items |-> mem']
    <3>1. t \in Task /\ Sent(t, Loadable.rev, FALSE) \in Command
      BY <2>1, <2>2 DEF Task, Sent, Command, AnyFile
    <3>2. chain' = <<t>> /\ cmd' = [cmd EXCEPT !["chain"] = Sent(t, Loadable.rev, FALSE)]
      BY <1>5, <2>6 DEF Loaded
    <3>3. /\ chain' \in Seq(Task) /\ chain' # <<>> /\ cmd' \in [Who -> Command]
          /\ \A i \in 1 .. Len(chain') : chain'[i].kind # "clear"
      <4>1. chain' \in Seq(Task) /\ chain' # <<>> /\ Len(chain') = 1 /\ chain'[1] = t
        BY <3>1, <3>2, ShortChains
      <4>2. cmd' \in [Who -> Command]
        BY <3>1, <3>2
      <4>3. t.kind # "clear"
        OBVIOUS
      <4>4. ASSUME NEW i \in 1 .. Len(chain') PROVE chain'[i].kind # "clear"
        <5>1. i = 1
          BY <4>1
        <5> QED
          BY <4>1, <4>3, <5>1
      <4> QED
        BY <4>1, <4>2, <4>4
    <3>4. cmd'["migration"].step = "none"
      BY <2>4, <3>2 DEF Who
    <3> QED
      BY <1>5, <2>2, <2>3, <3>3, <3>4 DEF Loaded, ChainInv, OneClear, Tasks, Migrating, Written
  <2> QED
    BY <1>5, <2>5, <2>6 DEF Loaded
<1>6. CASE Missing
  <2>1. cmd["migration"].step = "none"
    BY <1>6 DEF Missing, ChainInv, Migrating, Command, Who
  <2>2. mem' \in SUBSET Item
    BY <1>6 DEF Missing, Copy
  <2>3. UNCHANGED <<primary, bak, legacy, backup, snap, prev, saving, erased, erase, revision,
                    degraded, chain>>
    BY <1>6 DEF Missing, files
  <2>4. CASE UNCHANGED cmd
    BY <2>1, <2>2, <2>3, <2>4 DEF ChainInv, OneClear, Tasks, Migrating, Written, Loadable
  <2>5. CASE snap.there
    <3> DEFINE k == [step |-> "sent", items |-> snap.items, expected |-> 0]
    <3>1. cmd' = [cmd EXCEPT !["migration"] = k] /\ phase' = "migrating"
      BY <1>6, <2>5 DEF Missing
    <3>2. k \in Command
      BY DEF Command, Copy
    <3>3. /\ cmd' \in [Who -> Command] /\ cmd'["chain"] = cmd["chain"]
          /\ cmd'["migration"].step = "sent"
      BY <3>1, <3>2 DEF Who
    <3> QED
      BY <2>2, <2>3, <3>1, <3>3 DEF ChainInv, OneClear, Tasks, Migrating, Written, Loadable
  <2> QED
    BY <1>6, <2>4, <2>5 DEF Missing
<1>7. CASE Migrated
  <2>1. /\ cmd' \in [Who -> Command] /\ cmd'["chain"] = cmd["chain"]
        /\ cmd'["migration"].step = "none"
    BY <1>7 DEF Migrated, NoCommand, Command, Who
  <2>2. legacy' \in Copy /\ revision' \in Nat /\ degraded' \in BOOLEAN /\ (degraded => degraded')
    <3>1. CASE cmd["migration"].step = "ok"
      BY <1>7, <3>1, Copies DEF Migrated
    <3>2. CASE cmd["migration"].step = "failed"
      BY <1>7, <3>2 DEF Migrated, Degrades
    <3> QED
      BY <1>7, <3>1, <3>2 DEF Migrated
  <2> QED
    BY <1>7, <2>1, <2>2 DEF Migrated, ChainInv, OneClear, Tasks, Migrating, Written, Loadable
<1>8. CASE Check
  <2>1. CASE UNCHANGED <<mem, prev, chain, cmd>>
    BY <1>8, <2>1 DEF Check, files, ChainInv, OneClear, Tasks, Migrating, Written, Loadable
  <2>2. CASE Chains([kind |-> "restore", items |-> backup.items]) /\ mem' = backup.items
    <3>1. [kind |-> "restore", items |-> backup.items] \in Task /\ backup.items \in SUBSET Item
      BY DEF Task, Copy
    <3> QED
      BY <1>8, <2>2, <3>1, ChainsKeeps DEF Check, files
  <2> QED
    BY <1>8, <2>1, <2>2 DEF Check
<1> QED
  BY <1>1, <1>2, <1>3, <1>4, <1>5, <1>6, <1>7, <1>8, <1>9

\* Using the store, and the end of the process.
LEMMA UseKeeps ==
    ASSUME Inv, \/ Clear \/ WriteAnswered \/ Save \/ SaveBegins \/ Saved \/ Erase \/ EraseStore
                \/ StoreErased \/ EraseAgain \/ EraseFails \/ Crash \/ Rot
    PROVE  Types' /\ ChainInv'
<1> USE DEF Inv, Types
<1>1. CASE Clear
  <2>1. /\ cmd' \in [Who -> Command] /\ cmd'["migration"] = cmd["migration"]
        /\ primary' \in AnyFile /\ bak' \in AnyFile
    <3>1. primary' \in {primary, Absent} /\ bak' \in {bak, Absent} /\ Absent \in AnyFile
      BY <1>1 DEF Clear, Absent, AnyFile
    <3>2. PICK step \in {"half", "whole", "ok"} : Settles("chain", step)
      BY <1>1 DEF Clear
    <3>3. cmd' = [cmd EXCEPT !["chain"] = [cmd["chain"] EXCEPT !.step = step]]
      BY <3>2 DEF Settles
    <3>4. [cmd["chain"] EXCEPT !.step = step] \in Command
      BY <3>2 DEF Command, Started, Results, Who
    <3> QED
      BY <3>1, <3>3, <3>4 DEF Who
  <2>2. cmd["migration"].step = "none" /\ Head(chain).kind = "clear" /\ chain # <<>>
    BY <1>1, Calm
  <2> QED
    BY <1>1, <2>1, <2>2 DEF Clear, front, ChainInv, OneClear, Tasks, Migrating, Written
<1>2. CASE WriteAnswered
  <2>1. PICK rev \in Nat : Unchains(rev, degraded) /\ revision' = rev
    BY <1>2 DEF WriteAnswered, Command, Who
  <2>2. legacy' \in Copy
    BY <1>2 DEF WriteAnswered, NoCopy, Copy
  <2> QED
    BY <1>2, <2>1, <2>2, UnchainsKeeps DEF WriteAnswered
<1>3. CASE Save \/ SaveBegins \/ Saved \/ Erase \/ EraseAgain \/ EraseFails
  <2>1. UNCHANGED <<primary, bak, legacy, snap, mem, prev, revision, degraded, chain, cmd, phase>>
    BY <1>3 DEF Save, SaveBegins, Saved, Erase, EraseAgain, EraseFails, files, front
  <2>2. backup' \in Copy
    <3>1. saving.items \in SUBSET Item
      BY DEF Saving
    <3> QED
      BY <1>3, <3>1, Copies DEF Save, SaveBegins, Saved, Erase, EraseAgain, EraseFails, files,
         ClearsBackup
  <2>3. erased' \in SUBSET Item
    <3>1. Loadable.items \in SUBSET Item
      BY DEF Loadable, AnyFile, Corrupt, Absent
    <3> QED
      BY <1>3, <3>1 DEF Save, SaveBegins, Saved, Erase, EraseAgain, EraseFails
  <2>4. erase = "store" => erase' = "store"
    BY <1>3 DEF Save, SaveBegins, Saved, Erase, EraseAgain, EraseFails
  <2>5. saving' \in Saving
    <3>1. NoSaving \in Saving /\ [step |-> "sent", items |-> mem] \in Saving
      BY DEF NoSaving, Saving
    <3>2. [saving EXCEPT !.step = "noted"] \in Saving
      BY DEF Saving
    <3> QED
      BY <1>3, <3>1, <3>2 DEF Save, SaveBegins, Saved, Erase, EraseAgain, EraseFails, ClearsBackup
  <2> QED
    BY <2>1, <2>2, <2>3, <2>4, <2>5 DEF ChainInv, OneClear, Tasks, Migrating, Written, Loadable
<1>4. CASE EraseStore
  <2>1. [kind |-> "clear", items |-> {}] \in Task
    BY DEF Task
  <2> QED
    BY <1>4, <2>1, ChainsKeeps DEF EraseStore, files, front
<1>5. CASE StoreErased
  <2>1. PICK rev \in Nat : Unchains(rev, degraded)
    BY <1>5 DEF StoreErased
  <2>2. legacy' \in Copy /\ mem' \in SUBSET Item /\ erased' \in SUBSET Item /\ revision' \in Nat
    BY <1>5, Copies DEF StoreErased
  <2> QED
    BY <1>5, <2>1, <2>2, UnchainsKeeps DEF StoreErased
<1>6. CASE Crash
  BY <1>6, Left, LoadsKeeps DEF Crash, files
<1>7. CASE Rot
  BY <1>7 DEF Rot, Corrupt, AnyFile, front, ChainInv, OneClear, Tasks, Migrating, Written, Loadable
<1> QED
  BY <1>1, <1>2, <1>3, <1>4, <1>5, <1>6, <1>7

LEMMA InitInv == Init => Inv
<1> SUFFICES ASSUME Init PROVE Inv
  OBVIOUS
<1>1. cmd \in [Who -> Command] /\ \A w \in Who : cmd[w].step = "none"
  BY DEF Init, NoCommand, Command
<1>2. Types
  <2>1. primary \in AnyFile /\ bak \in AnyFile
    BY DEF Init, AnyFile, Absent
  <2>2. legacy \in Copy /\ backup \in Copy
    BY Copies DEF Init
  <2> QED
    BY <1>1, <2>1, <2>2, Copies, ShortChains DEF Init, Types, NoSaving, Saving
<1>3. ErasureInv /\ ChainInv
  BY <1>1 DEF Init, ErasureInv, Erasing, ErasedIsGone, BackupIsClean, ChainInv, OneClear, Tasks,
     Migrating, Written, Who
<1> QED
  BY <1>2, <1>3 DEF Inv

LEMMA NextInv == Inv /\ [Next]_vars => Inv'
<1> SUFFICES ASSUME Inv, [Next]_vars PROVE Inv'
  OBVIOUS
<1>1. ErasureInv'
  BY ErasureStep DEF Inv, ChainInv
<1>2. CASE UNCHANGED vars
  BY <1>1, <1>2 DEF vars, Inv, Types, ChainInv, OneClear, Tasks, Migrating, Written, Loadable
<1>3. CASE Next
  BY <1>1, <1>2, <1>3, BackendStep, ChangeKeeps, LaunchKeeps, UseKeeps DEF Next, Rest, Inv
<1> QED
  BY <1>2, <1>3

LEMMA SpecInv == Spec => []Inv
BY InitInv, NextInv, PTL DEF Spec

\* An erased item is in no backup afterwards: onSensitiveDataClear, main.js:977-1005,
\* and the generation of a save, backup.rs:46-66.
THEOREM ErasedBackupStaysErased == Spec => []BackupStaysErased
<1>1. Inv => BackupStaysErased
  BY DEF Inv, ErasureInv, BackupIsClean, BackupStaysErased
<1> QED
  BY <1>1, SpecInv, PTL

\* The last readable copy in localStorage is given up for a sealed store only:
\* profile-store.js:242-258 and :377-399.
THEOREM LegacyIsKeptUntilSealed == Spec => LegacyOutlivesMigration
<1>1. ASSUME Inv, Next, legacy.there, ~legacy'.there
      PROVE  Loadable.kind = "store" \/ erase = "store"
  <2>1. ASSUME NEW w \in Who, Rotate(w) \/ Replace(w) \/ Fail(w) PROVE FALSE
    BY <1>1, <2>1 DEF Rotate, Replace, Fail, files
  <2>2. ASSUME NEW i \in Item, Change(i) PROVE FALSE
    BY <1>1, <2>2 DEF Change, Publishes, CopyOf
  <2>3. CASE WriteAnswered
    BY <1>1, <2>3 DEF WriteAnswered, Inv, ChainInv, Written
  <2>4. CASE RestoreAnswered
    BY <1>1, <2>4 DEF RestoreAnswered, Inv, ChainInv, Written, CopyOf
  <2>5. CASE Loaded
    BY <2>5 DEF Loaded
  <2>6. CASE Migrated
    BY <1>1, <2>6 DEF Migrated, Inv, ChainInv, Written
  <2>7. CASE StoreErased
    BY <1>1, <2>7 DEF StoreErased, Inv, ChainInv, OneClear, Types
  <2>8. CASE Clear \/ Launch \/ Ask \/ LoadFailed \/ Missing \/ Check \/ Reload \/ Save
               \/ SaveBegins \/ Saved \/ Erase \/ EraseStore \/ EraseAgain \/ EraseFails
               \/ Crash \/ Rot \/ Rest
    BY <1>1, <2>8 DEF Clear, Launch, Ask, LoadFailed, Missing, Check, Reload, Save, SaveBegins,
       Saved, Erase, EraseStore, EraseAgain, EraseFails, Crash, Rot, Rest, files, vars
  <2> QED
    BY <1>1, <2>1, <2>2, <2>3, <2>4, <2>5, <2>6, <2>7, <2>8 DEF Next
<1>2. ASSUME Inv, [Next]_vars
      PROVE  [legacy.there /\ ~legacy'.there => Loadable.kind = "store" \/ erase = "store"]_vars
  BY <1>1, <1>2
<1> QED
  BY <1>2, SpecInv, PTL DEF Spec, LegacyOutlivesMigration

-----------------------------------------------------------------------------
(* What the commands have to do with the chain. *)

\* What the argument above does not need of the types.
Flags ==
    /\ phase \in {"off", "launched", "loading", "migrating", "checking", "restoring", "restored",
                 "ready"}
    /\ attempted \in BOOLEAN /\ early \in BOOLEAN /\ persisted \in BOOLEAN
    /\ late \in BOOLEAN /\ unsaved \in BOOLEAN /\ raced \in BOOLEAN
    /\ erase \in {"no", "backup", "store", "again", "done"}
    /\ changes \in 0 .. MaxChanges
    /\ faults \in 0 .. MaxFaults

Waits(kind) == \E i \in 1 .. Len(chain) : chain[i].kind = kind

\* A file without a store has nothing in it, one with a store was written.
Formed(x) == IF x.kind = "store" THEN x.rev >= 1 ELSE x \in {Absent, Corrupt}

\* A command runs exactly where a task waits for it, with the payload of the task; the
\* lock is one command's; an erasure under way is in the chain, a restore only while
\* the launch waits for it, and not sent without the backend.
Links ==
    /\ Formed(primary) /\ Formed(bak)
    /\ cmd["chain"].step = "none" <=> chain = <<>>
    /\ chain = <<>> => cmd["chain"] = NoCommand
    /\ chain # <<>> => cmd["chain"].items = Head(chain).items
    /\ cmd["migration"].step # "none" <=> phase = "migrating"
    /\ phase # "migrating" => cmd["migration"] = NoCommand
    /\ cmd["migration"].expected = 0
    /\ cmd["orphan"].step \in {"none", "sent", "rotated"}
    /\ \A v, w \in Who : cmd[v].step \in Started /\ cmd[w].step \in Started => v = w
    /\ cmd["chain"].step = "rotated" => Head(chain).kind # "clear"
    /\ cmd["chain"].step \in {"half", "whole"} => Head(chain).kind = "clear"
    /\ phase \in {"off", "launched", "loading"} => chain = <<>> /\ revision = 0 /\ ~degraded
    /\ erase = "store" => Waits("clear")
    /\ Waits("restore") => phase \in {"restoring", "restored"}
    /\ chain # <<>> /\ degraded /\ Head(chain).kind = "restore" => cmd["chain"].step = "skipped"
    /\ cmd["chain"].step = "skipped" => degraded

LEMMA ChainsFacts ==
    ASSUME Types, NEW t \in Task, Chains(t)
    PROVE  /\ Len(chain) \in Nat /\ Len(chain') = Len(chain) + 1 /\ chain' # <<>>
           /\ \A i \in 1 .. Len(chain) : chain'[i] = chain[i]
           /\ chain'[Len(chain) + 1] = t
           /\ chain # <<>> => cmd' = cmd /\ Head(chain') = Head(chain)
           /\ chain = <<>> => Head(chain') = t /\ cmd'["chain"] = Sent(t, revision, degraded)
           /\ cmd'["migration"] = cmd["migration"] /\ cmd'["orphan"] = cmd["orphan"]
           /\ chain = <<>> <=> Len(chain) = 0
BY DEF Types, Chains, Who

LEMMA UnchainsFacts ==
    ASSUME Types, chain # <<>>, NEW rev \in Nat, NEW alone \in BOOLEAN, Unchains(rev, alone)
    PROVE  /\ Len(chain) \in Nat \ {0} /\ Len(chain') = Len(chain) - 1
           /\ \A i \in 1 .. Len(chain') : chain'[i] = chain[i + 1] /\ i + 1 \in 1 .. Len(chain)
           /\ Head(chain) = chain[1] /\ Head(chain) \in Task
           /\ chain' = <<>> => cmd'["chain"] = NoCommand /\ Len(chain) = 1
           /\ chain' # <<>> => /\ Len(chain) > 1 /\ Head(chain') = chain[2]
                               /\ cmd'["chain"] = Sent(chain[2], rev, alone)
           /\ cmd'["migration"] = cmd["migration"] /\ cmd'["orphan"] = cmd["orphan"]
<1>1. chain \in Seq(Task) /\ chain' = Tail(chain) /\ Len(chain) \in Nat \ {0}
  BY DEF Types, Unchains
<1>2. /\ Len(chain') = Len(chain) - 1 /\ Head(chain) = chain[1] /\ Head(chain) \in Task
      /\ chain' = <<>> <=> Len(chain) = 1
      /\ \A i \in 1 .. Len(chain') : chain'[i] = chain[i + 1] /\ i + 1 \in 1 .. Len(chain)
  <2>1. Len(chain') = Len(chain) - 1 /\ chain' \in Seq(Task)
    BY <1>1
  <2>2. \A i \in 1 .. Len(chain') : chain'[i] = chain[i + 1] /\ i + 1 \in 1 .. Len(chain)
    BY <1>1, <2>1
  <2>3. Head(chain) = chain[1] /\ Head(chain) \in Task
    BY <1>1
  <2>4. chain' = <<>> <=> Len(chain) = 1
    BY <2>1
  <2> QED
    BY <2>1, <2>2, <2>3, <2>4
<1>3. chain' # <<>> => Len(chain) > 1 /\ Head(chain') = chain[2]
  BY <1>1, <1>2
<1>4. /\ Len(chain) = 1 => cmd'["chain"] = NoCommand
      /\ Len(chain) # 1 => cmd'["chain"] = Sent(chain[2], rev, alone)
      /\ cmd'["migration"] = cmd["migration"] /\ cmd'["orphan"] = cmd["orphan"]
  BY DEF Types, Unchains, Who
<1> QED
  BY <1>1, <1>2, <1>3, <1>4

LEMMA FlagsStep == ASSUME Flags, Types, [Next]_vars PROVE Flags'
<1> USE ProfileStoreAssumption DEF Flags
<1>1. ASSUME NEW w \in Who, Rotate(w) \/ Replace(w) \/ Fail(w) PROVE Flags'
  <2>1. CASE Rotate(w)
    BY <2>1 DEF Rotate, files, front, ghosts, bounds
  <2>2. CASE Replace(w)
    <3>1. raced' \in BOOLEAN
      BY <2>2 DEF Replace
    <3> QED
      BY <2>2, <3>1 DEF Replace, front, bounds
  <2>3. CASE Fail(w)
    BY <2>3 DEF Fail, Fault, files, front, ghosts
  <2> QED
    BY <1>1, <2>1, <2>2, <2>3
<1>2. ASSUME NEW i \in Item, Change(i) PROVE Flags'
  <2>1. changes' \in 0 .. MaxChanges
    BY <1>2 DEF Change
  <2>2. early' \in BOOLEAN
    BY <1>2 DEF Change, Publishes
  <2>3. raced' \in BOOLEAN
    BY <1>2 DEF Change
  <2> QED
    BY <1>2, <2>1, <2>2, <2>3 DEF Change
<1>3. CASE Launch
  BY <1>3 DEF Launch, Loads, files, bounds
<1>4. CASE Reload
  BY <1>4 DEF Reload, Loads, bounds
<1>17. CASE RestoreAnswered
  <2>1. persisted' \in BOOLEAN
    BY <1>17 DEF RestoreAnswered
  <2> QED
    BY <1>17, <2>1 DEF RestoreAnswered, ghosts, bounds
<1>8. CASE Crash
  <2>1. faults' \in 0 .. MaxFaults /\ changes' = changes
    BY <1>8 DEF Crash, Fault
  <2> QED
    BY <1>8, <2>1 DEF Crash
<1>9. CASE Ask
  BY <1>9 DEF Ask, files, ghosts, bounds
<1>10. CASE LoadFailed
  BY <1>10 DEF LoadFailed, Degrades, Begins, Fault, files, ghosts
<1>11. CASE Loaded
  BY <1>11 DEF Loaded, ghosts, bounds
<1>12. CASE Missing
  BY <1>12 DEF Missing, Begins, files, ghosts, bounds
<1>13. CASE Migrated
  BY <1>13 DEF Migrated, Degrades, Begins, ghosts, bounds
<1>5. CASE Check \/ Save \/ SaveBegins \/ Saved \/ Erase \/ EraseStore
  BY <1>5 DEF Check, Save, SaveBegins, Saved, Erase, EraseStore, files, front, ghosts, bounds
<1>18. CASE EraseAgain
  <2>1. late' \in BOOLEAN
    BY <1>18 DEF EraseAgain
  <2> QED
    BY <1>18, <2>1 DEF EraseAgain, front, bounds
<1>19. CASE EraseFails
  BY <1>19 DEF EraseFails, Fault, front, ghosts
<1>6. CASE Clear
  BY <1>6 DEF Clear, front, ghosts, bounds
<1>14. CASE WriteAnswered
  <2>1. persisted' \in BOOLEAN /\ unsaved' \in BOOLEAN
    BY <1>14 DEF WriteAnswered
  <2> QED
    BY <1>14, <2>1 DEF WriteAnswered, bounds
<1>15. CASE StoreErased
  BY <1>15 DEF StoreErased, bounds
<1>16. CASE Rot
  BY <1>16 DEF Rot, Fault, front, ghosts
<1>7. CASE Rest \/ UNCHANGED vars
  BY <1>7 DEF Rest, vars
<1> QED
  BY <1>1, <1>2, <1>3, <1>4, <1>5, <1>6, <1>7, <1>8, <1>9, <1>10, <1>11, <1>12, <1>13,
     <1>14, <1>15, <1>16, <1>17, <1>18, <1>19 DEF Next

\* A task that is chained, apart from what the step does to the phase and the erasure.
LEMMA ChainsLinks ==
    ASSUME Inv, Flags, Links, NEW t \in Task, Chains(t),
           UNCHANGED <<primary, bak, degraded>>,
           phase' = "migrating" <=> phase = "migrating",
           phase' \notin {"off", "launched", "loading"},
           erase' = "store" => erase = "store" \/ t.kind = "clear",
           Waits("restore") \/ t.kind = "restore" => phase' \in {"restoring", "restored"}
    PROVE  Links'
<1> USE DEF Links
<1> USE ChainsFacts DEF Inv
<1>1. Formed(primary)' /\ Formed(bak)'
  BY DEF Formed, Absent, Corrupt
<1>2. \A k : Waits(k)' <=> Waits(k) \/ t.kind = k
  BY DEF Waits
<1>3. CASE chain # <<>>
  BY <1>1, <1>2, <1>3
<1>4. CASE chain = <<>>
  <2>1. ~Waits("clear") /\ ~Waits("restore")
    BY <1>4 DEF Waits
  <2>2. cmd'["chain"] = Sent(t, revision, degraded) /\ Head(chain') = t
    BY <1>4
  <2>3. /\ cmd'["chain"].step = IF degraded THEN "skipped" ELSE "sent"
        /\ cmd'["chain"].items = t.items
    BY <2>2 DEF Sent
  <2>4. \A v \in Who : cmd'[v].step \in Started => v # "chain" /\ cmd'[v] = cmd[v]
    BY <1>4, <2>3 DEF Who, Started
  <2> QED
    BY <1>1, <1>2, <1>4, <2>1, <2>2, <2>3, <2>4
<1> QED
  BY <1>3, <1>4

\* And one that is settled.
LEMMA UnchainsLinks ==
    ASSUME Inv, Flags, Links, chain # <<>>, NEW rev \in Nat, Unchains(rev, degraded),
           UNCHANGED <<primary, bak, degraded>>,
           phase' = phase \/ (phase = "restoring" /\ phase' = "restored"),
           erase' = "store" => erase = "store" /\ Head(chain).kind # "clear"
    PROVE  Links'
<1> USE DEF Links
<1>0. degraded \in BOOLEAN /\ Types
  BY DEF Inv, Types
<1> USE <1>0, UnchainsFacts
<1>1. Formed(primary)' /\ Formed(bak)'
  BY DEF Formed, Absent, Corrupt
<1>2. \A k : Waits(k)' => Waits(k)
  BY DEF Waits
<1>3. \A k : Waits(k) => Waits(k)' \/ Head(chain).kind = k
  <2> SUFFICES ASSUME NEW k, NEW i \in 1 .. Len(chain), chain[i].kind = k, i # 1
               PROVE  Waits(k)'
    BY DEF Waits
  <2>1. /\ Len(chain) \in Nat \ {0} /\ Len(chain') = Len(chain) - 1
        /\ \A j \in 1 .. Len(chain') : chain'[j] = chain[j + 1]
    OBVIOUS
  <2>2. i - 1 \in 1 .. Len(chain') /\ (i - 1) + 1 = i
    BY <2>1
  <2>3. chain'[i - 1] = chain[i]
    BY <2>1, <2>2
  <2> QED
    BY <2>2, <2>3 DEF Waits
<1>4. CASE chain' = <<>>
  <2>1. \A v \in Who : cmd'[v].step \in Started => v # "chain" /\ cmd'[v] = cmd[v]
    BY <1>4 DEF NoCommand, Who, Started
  <2>2. cmd'["chain"] = NoCommand /\ NoCommand.step = "none"
    BY <1>4 DEF NoCommand
  <2>3. ~Waits("clear")'
    BY <1>4 DEF Waits
  <2> QED
    BY <1>1, <1>2, <1>3, <1>4, <2>1, <2>2, <2>3
<1>5. CASE chain' # <<>>
  <2>1. /\ cmd'["chain"].step = IF degraded THEN "skipped" ELSE "sent"
        /\ cmd'["chain"].items = Head(chain').items
    <3>1. cmd'["chain"] = Sent(chain[2], rev, degraded) /\ Head(chain') = chain[2]
      BY <1>5
    <3> QED
      BY <3>1 DEF Sent
  <2>2. phase \notin {"off", "launched", "loading"}
    OBVIOUS
  <2>3. \A v \in Who : cmd'[v].step \in Started => v # "chain" /\ cmd'[v] = cmd[v]
    BY <2>1 DEF Who, Started
  <2> QED
    BY <1>1, <1>2, <1>3, <1>5, <2>1, <2>2, <2>3
<1> QED
  BY <1>4, <1>5

\* The page is loaded, or the process is gone.
LEMMA LoadsLinks ==
    ASSUME Links, chain' = <<>>, revision' = 0, ~degraded',
           NEW left, left.step \in {"none", "sent", "rotated"},
           cmd' = [w \in Who |-> IF w = "orphan" THEN left ELSE NoCommand],
           phase' \in {"off", "launched"}, erase' = "no", UNCHANGED <<primary, bak>>
    PROVE  Links'
<1>1. /\ cmd'["chain"] = NoCommand /\ cmd'["migration"] = NoCommand /\ cmd'["orphan"] = left
      /\ NoCommand.step = "none" /\ NoCommand.expected = 0
  BY DEF NoCommand, Who
<1>2. Formed(primary)' /\ Formed(bak)'
  BY DEF Links, Formed, Absent, Corrupt
<1>3. \A v \in Who : cmd'[v].step \in Started => v = "orphan"
  BY <1>1 DEF Who, Started
<1>4. \A k : ~Waits(k)'
  BY DEF Waits
<1> QED
  BY <1>1, <1>2, <1>3, <1>4 DEF Links

\* The rest of the steps leave the chain and the erasure of the store alone.
LEMMA StillLinks ==
    ASSUME Links, UNCHANGED <<primary, bak, chain, cmd, revision>>,
           phase' = phase \/ (phase \in {"launched", "loading", "checking"} /\ ~Waits("restore")
                              /\ phase' \in {"loading", "checking", "ready"}
                              /\ (phase' = "loading" => phase = "launched")),
           erase' = "store" => erase = "store",
           degraded' = degraded \/ (phase' \notin {"off", "launched", "loading"} /\ chain = <<>>)
    PROVE  Links'
BY DEF Links, Formed, Absent, Corrupt, Waits

LEMMA BackendLinks ==
    ASSUME Inv, Links, NEW w \in Who, Rotate(w) \/ Replace(w) \/ Fail(w)
    PROVE  Links'
<1> USE DEF Inv
<1>1. UNCHANGED <<chain, revision, phase, erase, degraded>>
  BY DEF Rotate, Replace, Fail, front
<1>2. /\ \A v \in Who : v # w => cmd'[v] = cmd[v]
      /\ cmd[w].step \in {"sent"} \cup Started
      /\ w # "orphan" => /\ cmd'[w].items = cmd[w].items
                         /\ cmd'[w].expected = cmd[w].expected
                         /\ cmd'[w].step \in {"rotated", "ok", "failed"}
      /\ cmd'[w].step \in Started =>
           /\ cmd'[w].step = "rotated" /\ Rotate(w) /\ ~Locked
           /\ w = "chain" => Head(chain).kind # "clear"
      /\ w = "orphan" => cmd'[w].step \in {"none", "rotated"}
  BY Moved
<1>3. Formed(primary)' /\ Formed(bak)'
  <2>1. CASE Replace(w)
    BY <2>1 DEF Replace, Links, Formed, Absent, Corrupt, Command, Types
  <2>2. CASE Rotate(w) \/ Fail(w)
    BY <2>2 DEF Rotate, Fail, files, Links, Formed, Absent, Corrupt
  <2> QED
    BY <2>1, <2>2
<1>4. \A k : Waits(k)' = Waits(k)
  BY <1>1 DEF Waits
<1>5. \A u, v \in Who : cmd'[u].step \in Started /\ cmd'[v].step \in Started => u = v
  <2>1. CASE cmd'[w].step \in Started
    BY <1>2, <2>1 DEF Locked
  <2>2. CASE cmd'[w].step \notin Started
    BY <1>2, <2>2 DEF Links
  <2> QED
    BY <2>1, <2>2
<1>6. cmd[w].step # "none" /\ cmd[w].step # "skipped"
  BY <1>2 DEF Started
<1>7. CASE w = "chain"
  <2>1. chain # <<>> /\ cmd'["migration"] = cmd["migration"] /\ cmd'["orphan"] = cmd["orphan"]
    BY <1>2, <1>6, <1>7 DEF Links, Who
  <2>2. /\ cmd'["chain"].items = cmd["chain"].items
        /\ cmd'["chain"].step \in {"rotated", "ok", "failed"}
        /\ cmd'["chain"].step = "rotated" => Head(chain).kind # "clear"
    BY <1>2, <1>7 DEF Started
  <2>3. ~(degraded /\ Head(chain).kind = "restore")
    BY <1>6, <1>7, <2>1 DEF Links
  <2> QED
    BY <1>1, <1>3, <1>4, <1>5, <2>1, <2>2, <2>3 DEF Links
<1>8. CASE w = "migration"
  <2>1. phase = "migrating" /\ cmd'["chain"] = cmd["chain"] /\ cmd'["orphan"] = cmd["orphan"]
    BY <1>2, <1>6, <1>8 DEF Links, Who
  <2>2. cmd'["migration"].expected = cmd["migration"].expected /\ cmd'["migration"].step # "none"
    BY <1>2, <1>8
  <2> QED
    BY <1>1, <1>3, <1>4, <1>5, <2>1, <2>2 DEF Links
<1>9. CASE w = "orphan"
  <2>1. cmd'["chain"] = cmd["chain"] /\ cmd'["migration"] = cmd["migration"]
    BY <1>2, <1>9 DEF Who
  <2> QED
    BY <1>1, <1>2, <1>3, <1>4, <1>5, <1>9, <2>1 DEF Links
<1> QED
  BY <1>7, <1>8, <1>9 DEF Who

LEMMA LaunchLinks ==
    ASSUME Inv, Flags, Links,
           \/ Launch \/ Ask \/ LoadFailed \/ Loaded \/ Missing \/ Migrated \/ Check
           \/ RestoreAnswered \/ Reload
    PROVE  Links'
<1> USE DEF Inv, Types
<1>1. CASE Launch
  <2>1. NoCommand.step = "none" /\ UNCHANGED <<primary, bak>>
    BY <1>1 DEF Launch, files, NoCommand
  <2> QED
    BY <1>1, <2>1, LoadsLinks DEF Launch, Loads
<1>2. CASE Reload
  <2>1. UNCHANGED <<primary, bak>>
    BY <1>2 DEF Reload, files
  <2>2. CASE cmd["chain"].step \in {"sent", "rotated"}
    <3>1. Loads(TRUE, cmd["chain"])
      BY <1>2, <2>2 DEF Reload
    <3> QED
      BY <2>1, <2>2, <3>1, LoadsLinks DEF Loads
  <2>3. CASE cmd["chain"].step \notin {"sent", "rotated"}
    <3>1. Loads(TRUE, NoCommand) /\ NoCommand.step = "none"
      BY <1>2, <2>3 DEF Reload, NoCommand
    <3> QED
      BY <2>1, <3>1, LoadsLinks DEF Loads
  <2> QED
    BY <2>2, <2>3
<1>9. CASE RestoreAnswered
  <2>1. PICK rev \in Nat : Unchains(rev, degraded)
    BY <1>9 DEF RestoreAnswered, Command, Who
  <2>2. /\ chain # <<>> /\ Head(chain).kind = "restore"
        /\ phase = "restoring" /\ phase' = "restored"
        /\ UNCHANGED <<primary, bak, degraded, erase>>
    BY <1>9 DEF RestoreAnswered
  <2> QED
    BY <2>1, <2>2, UnchainsLinks
<1>3. CASE Ask
  <2>1. ~Waits("restore")
    BY <1>3 DEF Ask, Links
  <2> QED
    BY <1>3, <2>1, StillLinks DEF Ask, files
<1>4. CASE LoadFailed
  <2>1. ~Waits("restore") /\ chain = <<>>
    BY <1>4 DEF LoadFailed, Links
  <2> QED
    BY <1>4, <2>1, StillLinks DEF LoadFailed, Degrades, Begins, files
<1>5. CASE Loaded
  <2>1. /\ chain = <<>> /\ phase = "loading" /\ phase' = "ready" /\ UNCHANGED <<primary, bak, erase>>
        /\ cmd["migration"] = NoCommand /\ cmd["chain"] = NoCommand /\ erase # "store"
    BY <1>5 DEF Loaded, Links, Waits
  <2>2. CASE ~early
    <3>1. UNCHANGED <<chain, cmd>>
      BY <1>5, <2>2 DEF Loaded
    <3> QED
      BY <2>1, <3>1 DEF Links, Formed, Absent, Corrupt, Waits, NoCommand
  <2>3. CASE early
    <3> DEFINE t == [kind |-> "write", items |-> mem']
    <3>1. chain' = <<t>> /\ cmd' = [cmd EXCEPT !["chain"] = Sent(t, Loadable.rev, FALSE)]
      BY <1>5, <2>3 DEF Loaded
    <3>2. cmd'["chain"].step = "sent" /\ cmd'["chain"].items = mem'
      BY <3>1 DEF Sent, Who
    <3>3. /\ cmd'["migration"] = NoCommand /\ cmd'["orphan"] = cmd["orphan"]
          /\ \A v \in Who : cmd'[v].step \in Started => v # "chain" /\ cmd'[v] = cmd[v]
      BY <2>1, <3>1, <3>2 DEF Who, Started
    <3>4. /\ chain' # <<>> /\ Head(chain').items = mem' /\ Len(chain') = 1 /\ chain'[1] = t
          /\ Head(chain').kind = "write"
      BY <3>1
    <3>5. ~Waits("restore")'
      BY <3>4 DEF Waits
    <3> QED
      BY <2>1, <3>2, <3>3, <3>4, <3>5 DEF Links, Formed, Absent, Corrupt, NoCommand
  <2> QED
    BY <2>2, <2>3
<1>6. CASE Missing
  <2>1. /\ chain = <<>> /\ UNCHANGED <<primary, bak, erase, chain, revision>>
        /\ cmd["migration"] = NoCommand /\ cmd["chain"] = NoCommand /\ erase # "store"
    BY <1>6 DEF Missing, Links, Waits, files
  <2>2. CASE ~snap.there
    BY <1>6, <2>1, <2>2 DEF Missing, Begins, Links, Formed, Absent, Corrupt, Waits, NoCommand
  <2>3. CASE snap.there
    <3>1. /\ phase' = "migrating" /\ cmd'["chain"] = NoCommand
          /\ cmd'["migration"] = [step |-> "sent", items |-> snap.items, expected |-> 0]
          /\ cmd'["orphan"] = cmd["orphan"]
      BY <1>6, <2>1, <2>3 DEF Missing, Who
    <3>2. \A v \in Who : cmd'[v].step \in Started => v = "orphan"
      BY <3>1 DEF NoCommand, Who, Started
    <3> QED
      BY <2>1, <3>1, <3>2 DEF Links, Formed, Absent, Corrupt, Waits, NoCommand
  <2> QED
    BY <2>2, <2>3
<1>7. CASE Migrated
  <2>1. /\ phase = "migrating" /\ phase' \in {"checking", "ready"} /\ (degraded => degraded')
        /\ UNCHANGED <<primary, bak, erase, chain>>
    BY <1>7 DEF Migrated, Degrades, Begins
  <2>2. /\ cmd'["chain"] = cmd["chain"] /\ cmd'["migration"] = NoCommand
        /\ cmd'["orphan"] = cmd["orphan"]
    BY <1>7 DEF Migrated, Who
  <2>3. \A v \in Who : cmd'[v].step \in Started => cmd'[v] = cmd[v]
    BY <2>2 DEF NoCommand, Who, Started
  <2>4. ~Waits("restore") /\ (chain # <<>> => Head(chain).kind # "restore")
    <3>1. ~Waits("restore")
      BY <2>1 DEF Links
    <3> QED
      BY <3>1 DEF Waits
  <2> QED
    BY <2>1, <2>2, <2>3, <2>4 DEF Links, Formed, Absent, Corrupt, Waits, NoCommand
<1>8. CASE Check
  <2>1. UNCHANGED <<primary, bak, revision, erase, degraded>> /\ phase = "checking"
    BY <1>8 DEF Check, files
  <2>2. CASE attempted \/ ~backup.there
    <3>1. ~Waits("restore")
      BY <2>1 DEF Links
    <3> QED
      BY <1>8, <2>1, <2>2, <3>1, StillLinks DEF Check
  <2>3. CASE ~(attempted \/ ~backup.there)
    <3> DEFINE t == [kind |-> "restore", items |-> backup.items]
    <3>1. t \in Task /\ Chains(t) /\ phase' = "restoring" /\ t.kind = "restore"
      BY <1>8, <2>3 DEF Check, Task, Copy
    <3> QED
      BY <2>1, <3>1, ChainsLinks
  <2> QED
    BY <2>2, <2>3
<1> QED
  BY <1>1, <1>2, <1>3, <1>4, <1>5, <1>6, <1>7, <1>8, <1>9

LEMMA UseLinks ==
    ASSUME Inv, Flags, Links,
           \/ Clear \/ WriteAnswered \/ Save \/ SaveBegins \/ Saved \/ Erase \/ EraseStore
           \/ StoreErased \/ EraseAgain \/ EraseFails \/ Crash \/ Rot
    PROVE  Links'
<1> USE DEF Inv, Types
<1>1. CASE Clear
  <2>1. PICK step \in {"half", "whole", "ok"} :
          Settles("chain", step) /\ (step = "half" => ~Locked) /\ (step = "whole" => cmd["chain"].step \in Started)
    BY <1>1 DEF Clear, Started
  <2>2. /\ chain # <<>> /\ Head(chain).kind = "clear"
        /\ UNCHANGED <<chain, phase, erase, revision, degraded>>
        /\ primary' \in {primary, Absent} /\ bak' \in {bak, Absent}
    BY <1>1 DEF Clear, front
  <2>3. /\ cmd'["migration"] = cmd["migration"] /\ cmd'["orphan"] = cmd["orphan"]
        /\ cmd'["chain"].step = step /\ cmd'["chain"].items = cmd["chain"].items
    BY <2>1 DEF Settles, Command, Who
  <2>4. \A u, v \in Who : cmd'[u].step \in Started /\ cmd'[v].step \in Started => u = v
    <3>1. \A v \in Who : v # "chain" => cmd'[v] = cmd[v]
      BY <2>3 DEF Who
    <3>2. CASE step = "ok"
      BY <2>3, <3>1, <3>2 DEF Links, Started
    <3>3. CASE step = "half"
      BY <2>1, <3>1, <3>3 DEF Locked
    <3>4. CASE step = "whole"
      BY <2>1, <3>1, <3>4 DEF Links, Who
    <3> QED
      BY <3>2, <3>3, <3>4
  <2>5. Formed(primary)' /\ Formed(bak)'
    BY <2>2 DEF Links, Formed, Absent, Corrupt
  <2> QED
    BY <2>2, <2>3, <2>4, <2>5 DEF Links, Waits
<1>2. CASE WriteAnswered
  <2>1. PICK rev \in Nat : Unchains(rev, degraded) /\ revision' = rev
    BY <1>2 DEF WriteAnswered, Command, Who
  <2> QED
    BY <1>2, <2>1, UnchainsLinks DEF WriteAnswered
<1>3. CASE Save \/ SaveBegins \/ Saved \/ Erase \/ EraseAgain \/ EraseFails
  BY <1>3, StillLinks DEF Save, SaveBegins, Saved, Erase, EraseAgain, EraseFails, files, front
<1>4. CASE EraseStore
  <2> DEFINE t == [kind |-> "clear", items |-> {}]
  <2>1. t \in Task /\ Chains(t) /\ phase = "ready" /\ t.kind = "clear"
    BY <1>4 DEF EraseStore, Task, ErasureInv, Erasing
  <2>2. ~Waits("restore")
    BY <2>1 DEF Links
  <2> QED
    BY <1>4, <2>1, <2>2, ChainsLinks DEF EraseStore, files, front
<1>5. CASE StoreErased
  <2>1. PICK rev \in Nat : Unchains(rev, degraded) /\ erase' # "store"
    BY <1>5 DEF StoreErased
  <2> QED
    BY <1>5, <2>1, UnchainsLinks DEF StoreErased
<1>6. CASE Crash
  <2>1. NoCommand.step = "none" /\ UNCHANGED <<primary, bak>>
    BY <1>6 DEF Crash, files, NoCommand
  <2> QED
    BY <1>6, <2>1, Left, LoadsLinks DEF Crash
<1>7. CASE Rot
  BY <1>7 DEF Rot, Corrupt, Links, Formed, front, Waits
<1> QED
  BY <1>1, <1>2, <1>3, <1>4, <1>5, <1>6, <1>7

LEMMA ChangeLinks == ASSUME Inv, Flags, Links, NEW i \in Item, Change(i) PROVE Links'
<1> USE DEF Inv, Types
<1>1. PICK s \in SUBSET Item : Publishes(s)
  BY DEF Change
<1>2. UNCHANGED <<primary, bak, revision, phase, erase, degraded>>
  BY DEF Change
<1>3. CASE UNCHANGED <<chain, cmd>>
  BY <1>2, <1>3, StillLinks
<1>4. CASE Initialized /\ Chains([kind |-> "write", items |-> s])
  <2> DEFINE t == [kind |-> "write", items |-> s]
  <2>1. t \in Task /\ t.kind = "write"
    BY DEF Task
  <2>2. Waits("restore") => phase \in {"restoring", "restored"}
    BY DEF Links
  <2> QED
    BY <1>2, <1>4, <2>1, <2>2, ChainsLinks DEF Initialized
<1> QED
  BY <1>1, <1>3, <1>4 DEF Publishes

LEMMA InitFlagsLinks == Init => Flags /\ Links
<1> SUFFICES ASSUME Init PROVE Flags /\ Links
  OBVIOUS
<1>1. Flags
  <2>1. changes = 0 /\ faults = 0 /\ phase = "off" /\ erase = "no"
    BY DEF Init
  <2>2. attempted \in BOOLEAN /\ early \in BOOLEAN /\ persisted \in BOOLEAN
        /\ late \in BOOLEAN /\ unsaved \in BOOLEAN /\ raced \in BOOLEAN
    BY DEF Init
  <2> QED
    BY <2>1, <2>2, ProfileStoreAssumption DEF Flags
<1>2. /\ cmd["chain"] = NoCommand /\ cmd["migration"] = NoCommand /\ chain = <<>>
      /\ phase = "off" /\ erase = "no" /\ revision = 0 /\ ~degraded /\ bak = Absent
      /\ cmd["orphan"] = NoCommand
  BY DEF Init, Who
<1>3. Formed(primary) /\ Formed(bak)
  BY DEF Init, Formed, Absent
<1>4. \A v \in Who : cmd[v].step \notin Started
  BY <1>2 DEF NoCommand, Who, Started
<1> QED
  BY <1>1, <1>2, <1>3, <1>4 DEF Links, NoCommand, Waits

LEMMA LinksStep == ASSUME Inv, Flags, Links, [Next]_vars PROVE Links'
<1>1. CASE UNCHANGED vars
  BY <1>1 DEF vars, Links, Formed, Absent, Corrupt, Waits
<1>2. CASE Next
  BY <1>1, <1>2, BackendLinks, ChangeLinks, LaunchLinks, UseLinks DEF Next, Rest
<1> QED
  BY <1>1, <1>2

Chain == Inv /\ Flags /\ Links

LEMMA SpecChain == Spec => []Chain
<1>1. Init => Chain
  BY InitInv, InitFlagsLinks DEF Chain
<1>2. Chain /\ [Next]_vars => Chain'
  BY NextInv, FlagsStep, LinksStep DEF Chain, Inv
<1> QED
  BY <1>1, <1>2, PTL DEF Spec

\* A file never has a revision without a store, a command runs exactly where a task
\* waits for it, and one that a page leaves behind is never another page's:
\* profile-store.js:219-262 and profile_store.rs:227-293.
THEOREM StoreIsWellFormed == Spec => []TypeOK
<1>1. ASSUME Chain PROVE TypeOK
  <2> USE <1>1 DEF Chain, Inv, Types
  <2>1. primary \in File /\ bak \in File
    <3>1. ASSUME NEW x \in AnyFile, Formed(x) PROVE x \in File
      BY <3>1 DEF AnyFile, Formed, File, Store
    <3> QED
      BY <3>1 DEF Links
  <2>2. /\ cmd["chain"].step = "none" <=> chain = <<>>
        /\ cmd["migration"].step # "none" <=> phase = "migrating"
        /\ cmd["orphan"].step \in {"none", "sent", "rotated"}
    BY DEF Links
  <2>3. {early, degraded, persisted, late, unsaved, raced} \subseteq BOOLEAN
    BY DEF Flags
  <2> QED
    BY <2>1, <2>2, <2>3 DEF TypeOK, Flags
<1> QED
  BY <1>1, SpecChain, PTL

\* After the launch one step writes profiles to localStorage: the answer of a restore that
\* the backend refused, state-backup.js:208-226.  No change does: publish,
\* profile-store.js:294-308.
THEOREM PlaintextStaysAway == Spec => NoPlaintextAgain
<1>1. ASSUME Chain, Next, Initialized, legacy' \notin {legacy, NoCopy}
      PROVE  /\ phase = "restoring" /\ ~degraded
             /\ cmd["chain"].step = "failed" /\ legacy' = CopyOf(Head(chain).items)
  <2>1. ASSUME NEW w \in Who, Rotate(w) \/ Replace(w) \/ Fail(w) PROVE legacy' = legacy
    BY <2>1 DEF Rotate, Replace, Fail, files
  <2>2. ASSUME NEW i \in Item, Change(i) PROVE legacy' = legacy
    BY <1>1, <2>2 DEF Change, Publishes
  <2>3. CASE RestoreAnswered
    <3>1. /\ phase = "restoring" /\ chain # <<>> /\ Head(chain).kind = "restore"
          /\ cmd["chain"].step = "failed" /\ legacy' = CopyOf(Head(chain).items)
      BY <1>1, <2>3 DEF RestoreAnswered
    <3> QED
      BY <1>1, <3>1 DEF Chain, Links
  <2>4. CASE Clear \/ WriteAnswered \/ Launch \/ Ask \/ LoadFailed \/ Loaded \/ Missing
               \/ Migrated \/ Check \/ Reload
    BY <1>1, <2>4 DEF Clear, WriteAnswered, Launch, Ask, LoadFailed, Loaded, Missing, Migrated,
       Check, Reload, files
  <2>5. CASE Save \/ SaveBegins \/ Saved \/ Erase \/ EraseStore \/ StoreErased \/ EraseAgain
               \/ EraseFails \/ Crash \/ Rot \/ Rest
    BY <1>1, <2>5 DEF Save, SaveBegins, Saved, Erase, EraseStore, StoreErased, EraseAgain,
       EraseFails, Crash, Rot, Rest, files, vars
  <2> QED
    BY <1>1, <2>1, <2>2, <2>3, <2>4, <2>5 DEF Next
<1>2. ASSUME Chain, [Next]_vars
      PROVE  [Initialized /\ legacy' \notin {legacy, NoCopy}
                => /\ phase = "restoring" /\ ~degraded
                   /\ cmd["chain"].step = "failed" /\ legacy' = CopyOf(Head(chain).items)]_vars
  BY <1>1, <1>2
<1> QED
  BY <1>2, SpecChain, PTL DEF Spec, NoPlaintextAgain

-----------------------------------------------------------------------------
(* What is stored is what is shown. *)

\* While the backend works and the launch neither loads nor restores.
Sealing == ~degraded /\ phase \in {"migrating", "checking", "ready"}

\* A change during an erasure is written although memory was emptied after it; a write
\* of a page that is gone is not what memory has.
Tracked == Sealing /\ ~raced

\* Only a change during the erasure is chained behind it.
AfterClear ==
    \A i, j \in 1 .. Len(chain) :
        i < j /\ chain[i].kind = "clear" /\ chain[j].kind = "write" => raced

\* A migration that has the lock found nothing stored.
FirstToWrite == cmd["migration"].step = "rotated" => Loadable = Absent

\* What an erasure under way has removed is not there.
HalfErased ==
    /\ cmd["chain"].step = "half" => primary = Absent
    /\ cmd["chain"].step = "whole" => primary = Absent /\ bak = Absent

\* A result that was not read is still in the file.
HeadWritten ==
    Tracked /\ cmd["chain"].step = "ok" =>
        IF Head(chain).kind = "clear" THEN Loadable = Absent
        ELSE Loadable.kind = "store" /\ Loadable.items = Head(chain).items

\* The last write that waits has what is in memory.
LastIsMemory ==
    \A i \in 1 .. Len(chain) :
        chain[i].kind = "write" /\ (\A j \in i + 1 .. Len(chain) : chain[j].kind # "write")
            => chain[i].items = mem

\* What is in memory is stored, or the migration is about to store it, or an erasure has
\* begun and is not answered.
Sealed ==
    \/ phase = "migrating" /\ Loadable.kind = "store" /\ Loadable.items = mem
    \/ phase = "migrating" /\ cmd["migration"].step # "ok" /\ cmd["migration"].items = mem
    \/ phase # "migrating" /\ Loadable.items = mem
    \/ cmd["chain"].step \in {"half", "whole", "ok", "failed"} /\ Head(chain).kind = "clear"

Current == Tracked => LastIsMemory /\ (Waits("write") \/ unsaved \/ Sealed)

Synced == AfterClear /\ FirstToWrite /\ HalfErased /\ HeadWritten /\ Current

\* The first task, and what it says about the rest.
LEMMA SealingHead ==
    ASSUME Chain, chain # <<>>
    PROVE  /\ Head(chain) \in Task /\ Head(chain) = chain[1] /\ 1 \in 1 .. Len(chain)
           /\ Len(chain) \in Nat \ {0}
           /\ Sealing => Head(chain).kind \in {"write", "clear"}
           /\ Head(chain).kind = "clear" => erase = "store" /\ phase = "ready"
<1>1. /\ Head(chain) \in Task /\ Head(chain) = chain[1] /\ 1 \in 1 .. Len(chain)
      /\ Len(chain) \in Nat \ {0}
  BY DEF Chain, Inv, Types
<1>2. Sealing => Head(chain).kind # "restore"
  BY <1>1 DEF Chain, Links, Waits, Sealing
<1>3. Head(chain).kind = "clear" => erase = "store" /\ phase = "ready"
  BY <1>1 DEF Chain, Inv, ChainInv, OneClear, ErasureInv, Erasing
<1> QED
  BY <1>1, <1>2, <1>3 DEF Task

\* An erasure that waits is the one under way.
LEMMA ClearWaits == ASSUME Chain, Waits("clear") PROVE erase = "store" /\ phase = "ready"
BY DEF Chain, Inv, ChainInv, OneClear, ErasureInv, Erasing, Waits

\* Nothing waits, and the launch has not come far.
LEMMA IdleSynced ==
    ASSUME ~Sealing', chain' = <<>>, cmd'["migration"].step # "rotated",
           cmd'["chain"].step = "none"
    PROVE  Synced'
BY DEF Synced, AfterClear, FirstToWrite, HalfErased, HeadWritten, Current, Tracked

\* What is stored and what waits is as it was.
LEMMA StillSynced ==
    ASSUME Synced, UNCHANGED <<primary, bak, chain, cmd, mem, unsaved>>,
           phase' = phase \/ (phase = "checking" /\ phase' = "ready"),
           UNCHANGED <<degraded, raced>>
    PROVE  Synced'
<1>1. Loadable' = Loadable /\ Waits("write")' = Waits("write")
  BY DEF Loadable, Waits
<1>2. Tracked' => Tracked
  BY DEF Sealing, Tracked
<1>3. AfterClear' /\ FirstToWrite' /\ HalfErased' /\ HeadWritten'
  BY <1>1, <1>2 DEF Synced, AfterClear, FirstToWrite, HalfErased, HeadWritten
<1>4. Current'
  BY <1>1, <1>2 DEF Synced, Current, LastIsMemory, Sealed
<1> QED
  BY <1>3, <1>4 DEF Synced

\* What a task that is chained does to the order, and one that is settled.
LEMMA ChainsAfter ==
    ASSUME Types, AfterClear, NEW t \in Task, Chains(t), raced => raced',
           t.kind = "write" /\ Waits("clear") => raced'
    PROVE  AfterClear'
<1> SUFFICES ASSUME NEW i \in 1 .. Len(chain'), NEW j \in 1 .. Len(chain'), i < j,
                    chain'[i].kind = "clear", chain'[j].kind = "write"
             PROVE  raced'
  BY DEF AfterClear
<1>1. /\ Len(chain) \in Nat /\ Len(chain') = Len(chain) + 1
      /\ \A k \in 1 .. Len(chain) : chain'[k] = chain[k]
      /\ chain'[Len(chain) + 1] = t
  BY ChainsFacts
<1>2. i \in 1 .. Len(chain) /\ chain[i].kind = "clear"
  BY <1>1
<1>3. CASE j = Len(chain) + 1
  BY <1>1, <1>2, <1>3 DEF Waits
<1>4. CASE j # Len(chain) + 1
  <2>1. j \in 1 .. Len(chain) /\ chain[j].kind = "write"
    BY <1>1, <1>4
  <2> QED
    BY <1>2, <2>1 DEF AfterClear
<1> QED
  BY <1>3, <1>4

LEMMA UnchainsAfter ==
    ASSUME Types, AfterClear, chain # <<>>, NEW rev \in Nat, Unchains(rev, degraded),
           raced' = raced \/ ~Waits("clear")'
    PROVE  AfterClear'
<1> SUFFICES ASSUME NEW i \in 1 .. Len(chain'), NEW j \in 1 .. Len(chain'), i < j,
                    chain'[i].kind = "clear", chain'[j].kind = "write"
             PROVE  raced'
  BY DEF AfterClear
<1>0. degraded \in BOOLEAN
  BY DEF Types
<1>1. /\ Len(chain) \in Nat \ {0} /\ Len(chain') = Len(chain) - 1
      /\ \A k \in 1 .. Len(chain') : chain'[k] = chain[k + 1] /\ k + 1 \in 1 .. Len(chain)
  BY <1>0, UnchainsFacts
<1>2. /\ i + 1 \in 1 .. Len(chain) /\ j + 1 \in 1 .. Len(chain) /\ i + 1 < j + 1
      /\ chain[i + 1].kind = "clear" /\ chain[j + 1].kind = "write"
  BY <1>1
<1>3. raced
  BY <1>2 DEF AfterClear
<1> QED
  BY <1>3 DEF Waits

\* The rest of the chain after its first task.
LEMMA UnchainsLast ==
    ASSUME Types, LastIsMemory, chain # <<>>, NEW rev \in Nat, Unchains(rev, degraded)
    PROVE  /\ mem' = mem => LastIsMemory'
           /\ Waits("write") => Waits("write")' \/ Head(chain).kind = "write"
           /\ Head(chain).kind = "write" /\ ~Waits("write")' => Head(chain).items = mem
<1>0. degraded \in BOOLEAN
  BY DEF Types
<1>1. /\ Len(chain) \in Nat \ {0} /\ Len(chain') = Len(chain) - 1
      /\ \A k \in 1 .. Len(chain') : chain'[k] = chain[k + 1] /\ k + 1 \in 1 .. Len(chain)
      /\ Head(chain) = chain[1]
  BY <1>0, UnchainsFacts
<1>2. \A k \in 2 .. Len(chain) : k - 1 \in 1 .. Len(chain') /\ chain'[k - 1] = chain[k]
  <2> SUFFICES ASSUME NEW k \in 2 .. Len(chain)
               PROVE  k - 1 \in 1 .. Len(chain') /\ chain'[k - 1] = chain[k]
    OBVIOUS
  <2>1. k - 1 \in 1 .. Len(chain') /\ (k - 1) + 1 = k
    BY <1>1
  <2> QED
    BY <1>1, <2>1
<1>3. ASSUME mem' = mem PROVE LastIsMemory'
  <2> SUFFICES ASSUME NEW i \in 1 .. Len(chain'), chain'[i].kind = "write",
                      \A j \in i + 1 .. Len(chain') : chain'[j].kind # "write"
               PROVE  chain'[i].items = mem
    BY <1>3 DEF LastIsMemory
  <2>1. i + 1 \in 1 .. Len(chain) /\ chain[i + 1] = chain'[i]
    BY <1>1
  <2>2. ASSUME NEW j \in (i + 1) + 1 .. Len(chain) PROVE chain[j].kind # "write"
    <3>1. j \in 2 .. Len(chain) /\ j - 1 \in i + 1 .. Len(chain')
      BY <1>1
    <3> QED
      BY <1>2, <3>1
  <2> QED
    BY <2>1, <2>2 DEF LastIsMemory
<1>4. ASSUME Waits("write"), Head(chain).kind # "write" PROVE Waits("write")'
  <2>1. PICK i \in 1 .. Len(chain) : chain[i].kind = "write"
    BY <1>4 DEF Waits
  <2>2. i \in 2 .. Len(chain)
    BY <1>1, <1>4, <2>1
  <2> QED
    BY <1>2, <2>1, <2>2 DEF Waits
<1>5. ASSUME Head(chain).kind = "write", ~Waits("write")' PROVE Head(chain).items = mem
  <2>1. \A j \in 1 + 1 .. Len(chain) : chain[j].kind # "write"
    BY <1>2, <1>5 DEF Waits
  <2>2. 1 \in 1 .. Len(chain)
    BY <1>1
  <2> QED
    BY <1>1, <1>5, <2>1, <2>2 DEF LastIsMemory
<1> QED
  BY <1>3, <1>4, <1>5

\* A command that asks, rotates or fails changes nothing that is loaded, and a migration
\* never rotates a store.
LEMMA BeforeSynced ==
    ASSUME Chain, Synced, NEW w \in Who, Rotate(w) \/ Fail(w)
    PROVE  Synced'
<1> USE DEF Inv
<1>1. UNCHANGED <<primary, chain, mem, phase, degraded, raced, unsaved>>
  BY DEF Rotate, Fail, files, front, ghosts
<1>2. /\ Tracked' = Tracked /\ Waits("write")' = Waits("write")
      /\ LastIsMemory' = LastIsMemory /\ AfterClear'
  BY <1>1 DEF Sealing, Tracked, Waits, LastIsMemory, AfterClear, Synced
<1>3. Loadable' = Loadable
  BY DEF Rotate, Fail, files, Loadable, Corrupt
<1>4. /\ \A v \in Who : v # w => cmd'[v] = cmd[v]
      /\ cmd[w].step \in {"sent"} \cup Started
      /\ w # "orphan" => /\ cmd'[w].items = cmd[w].items
                         /\ cmd'[w].step \in {"rotated", "ok", "failed"}
      /\ cmd'[w].step \in Started => cmd'[w].step = "rotated" /\ Rotate(w)
  BY Moved DEF Chain
<1>5. cmd'[w].step # "ok"
  BY DEF Rotate, Fail, Settles, NoCommand, Command, Types, Chain
<1>6. FirstToWrite'
  <2>1. ASSUME w = "migration", Rotate(w), cmd'[w].step = "rotated" PROVE Loadable = Absent
    <3>1. Loadable # Corrupt /\ Loadable.rev = cmd["migration"].expected
      <4>1. Settles(w, "failed") => cmd'[w].step = "failed"
        BY <2>1 DEF Settles, Chain, Types, Command
      <4> QED
        BY <2>1, <4>1 DEF Rotate
    <3>2. cmd["migration"].expected = 0 /\ Formed(primary) /\ Formed(bak)
      BY DEF Chain, Links
    <3> QED
      BY <3>1, <3>2 DEF Loadable, Formed, Absent, Corrupt
  <2>2. CASE w = "migration"
    BY <1>3, <1>4, <2>1, <2>2 DEF FirstToWrite, Started
  <2>3. CASE w # "migration"
    <3>1. cmd'["migration"] = cmd["migration"]
      BY <1>4, <2>3 DEF Who
    <3> QED
      BY <1>3, <3>1 DEF Synced, FirstToWrite
  <2> QED
    BY <2>2, <2>3
<1>7. cmd'["chain"].step \in {"half", "whole", "ok"} => cmd'["chain"] = cmd["chain"]
  BY <1>4, <1>5 DEF Who, Started
<1>8. HalfErased'
  <2>1. cmd'["chain"].step = "whole" => UNCHANGED bak
    <3>1. cmd'["chain"].step = "whole" /\ w # "chain" => cmd["chain"].step \in Started
      BY <1>4 DEF Who, Started
    <3>2. CASE Rotate(w)
      <4>1. cmd["chain"].step \in Started => UNCHANGED bak
        <5>1. cmd["chain"].step \in Started => Locked
          BY DEF Locked, Who
        <5> QED
          BY <3>2, <5>1 DEF Rotate
      <4> QED
        BY <1>7, <4>1 DEF Started
    <3>3. CASE Fail(w)
      BY <3>3 DEF Fail, files
    <3> QED
      BY <3>2, <3>3
  <2> QED
    BY <1>1, <1>7, <2>1 DEF Synced, HalfErased
<1>9. HeadWritten'
  BY <1>1, <1>2, <1>3, <1>7 DEF Synced, HeadWritten
<1>10. Tracked /\ Sealed => Sealed'
  <2>1. cmd'["migration"].items = cmd["migration"].items
    BY <1>4 DEF Who
  <2>2. cmd'["migration"].step = "ok" => cmd["migration"].step = "ok"
    BY <1>4, <1>5 DEF Who
  <2>3. cmd["chain"].step \in {"half", "whole", "ok", "failed"} /\ Head(chain).kind = "clear"
          => cmd'["chain"].step \in {"half", "whole", "ok", "failed"}
    <3>1. CASE w # "chain"
      BY <1>4, <3>1 DEF Who
    <3>2. CASE w = "chain"
      BY <1>4, <3>2 DEF Rotate, Started
    <3> QED
      BY <3>1, <3>2
  <2> QED
    BY <1>1, <1>3, <2>1, <2>2, <2>3 DEF Sealed
<1> QED
  BY <1>1, <1>2, <1>6, <1>8, <1>9, <1>10 DEF Synced, Current

\* A file that is replaced holds what was sent; the migration's was memory's.
LEMMA ReplaceSynced == ASSUME Chain, Synced, NEW w \in Who, Replace(w) PROVE Synced'
<1> USE DEF Inv
<1>1. /\ UNCHANGED <<bak, chain, mem, phase, degraded, unsaved>>
      /\ raced' = (raced \/ (w = "orphan" /\ phase \notin {"launched", "loading"}))
  BY DEF Replace, front
<1>2. /\ Loadable'.kind = "store" /\ Loadable'.items = cmd[w].items
      /\ cmd[w].step = "rotated" /\ Settles(w, "ok")
  BY DEF Replace, Loadable
<1>3. /\ Tracked' => Tracked /\ w # "orphan"
      /\ Waits("write")' = Waits("write") /\ LastIsMemory' = LastIsMemory /\ AfterClear'
  BY <1>1 DEF Sealing, Tracked, Waits, LastIsMemory, AfterClear, Synced
<1>4. /\ \A v \in Who : v # w => cmd'[v] = cmd[v]
      /\ w # "orphan" => cmd'[w].items = cmd[w].items
      /\ cmd'[w].step \notin Started
  <2>1. Rotate(w) => FALSE
    BY <1>2 DEF Rotate
  <2> QED
    BY <2>1, Moved DEF Chain
<1>5. \A v \in Who : cmd'[v].step \in Started => FALSE
  BY <1>2, <1>4 DEF Chain, Links, Started
<1>6. FirstToWrite' /\ HalfErased'
  BY <1>5 DEF FirstToWrite, HalfErased, Who, Started
<1>7. CASE w = "chain"
  <2>1. /\ chain # <<>> /\ cmd["chain"].items = Head(chain).items /\ Head(chain).kind # "clear"
    BY <1>2, <1>7 DEF Chain, Links
  <2>2. Tracked => Head(chain).kind = "write" /\ Waits("write")
    <3>1. Tracked => Head(chain).kind = "write"
      BY <2>1, SealingHead DEF Tracked
    <3> QED
      BY <2>1, <3>1, SealingHead DEF Waits
  <2>3. HeadWritten'
    BY <1>1, <1>2, <1>7, <2>1 DEF HeadWritten
  <2>4. Current'
    BY <1>3, <2>2 DEF Synced, Current
  <2> QED
    BY <1>3, <1>6, <2>3, <2>4 DEF Synced
<1>8. CASE w = "migration"
  <2>1. /\ Loadable = Absent /\ phase = "migrating"
        /\ cmd'["chain"] = cmd["chain"] /\ cmd["migration"].step = "rotated"
    BY <1>2, <1>4, <1>8 DEF Synced, FirstToWrite, Chain, Links, Who
  <2>2. cmd["chain"].step = "ok" /\ Tracked => FALSE
    <3>1. cmd["chain"].step = "ok" => chain # <<>>
      BY DEF Chain, Links
    <3>2. cmd["chain"].step = "ok" => Head(chain).kind # "clear"
      BY <2>1, <3>1, SealingHead
    <3> QED
      BY <2>1, <3>2 DEF Synced, HeadWritten, Absent
  <2>3. HeadWritten'
    BY <1>3, <2>1, <2>2 DEF HeadWritten
  <2>4. ~Waits("clear") /\ (chain # <<>> => Head(chain).kind # "clear")
    BY <2>1, ClearWaits, SealingHead
  <2>5. Tracked => LastIsMemory /\ (Waits("write") \/ unsaved \/ cmd["migration"].items = mem)
    <3>1. chain = <<>> => cmd["chain"].step = "none"
      BY DEF Chain, Links
    <3> QED
      BY <2>1, <2>4, <3>1 DEF Synced, Current, Sealed, Absent
  <2>6. Current'
    BY <1>1, <1>2, <1>3, <1>8, <2>1, <2>5 DEF Current, Sealed
  <2> QED
    BY <1>3, <1>6, <2>3, <2>6 DEF Synced
<1>9. CASE w = "orphan"
  BY <1>3, <1>6, <1>9 DEF Synced, HeadWritten, Current
<1> QED
  BY <1>7, <1>8, <1>9 DEF Who

\* A copy that is not there has nothing in it.
Whole == \A c \in {legacy, snap} : c.there \/ c.items = {}

LEMMA WholeStep == ASSUME Whole, [Next]_vars PROVE Whole'
<1> USE DEF Whole, NoCopy, CopyOf
<1>1. ASSUME NEW w \in Who, Rotate(w) \/ Replace(w) \/ Fail(w) PROVE Whole'
  BY <1>1 DEF Rotate, Replace, Fail, files, front
<1>2. ASSUME NEW i \in Item, Change(i) PROVE Whole'
  BY <1>2 DEF Change, Publishes
<1>3. CASE Launch \/ Reload \/ Crash
  BY <1>3 DEF Launch, Reload, Crash, Loads, files
<1>9. CASE RestoreAnswered
  <2>1. snap' = snap /\ (legacy' \in {legacy, NoCopy} \/ legacy'.there)
    BY <1>9 DEF RestoreAnswered
  <2> QED
    BY <2>1
<1>4. CASE Ask \/ LoadFailed \/ Missing \/ Check
  BY <1>4 DEF Ask, LoadFailed, Missing, Check, files
<1>7. CASE Loaded
  BY <1>7 DEF Loaded
<1>8. CASE Migrated
  <2>1. legacy' \in {legacy, NoCopy} /\ snap' = snap
    BY <1>8 DEF Migrated
  <2> QED
    BY <2>1
<1>5. CASE Clear \/ WriteAnswered \/ StoreErased
  BY <1>5 DEF Clear, WriteAnswered, StoreErased, front
<1>6. CASE \/ Save \/ SaveBegins \/ Saved \/ Erase \/ EraseStore \/ EraseAgain \/ EraseFails
            \/ Rot \/ Rest \/ UNCHANGED vars
  BY <1>6 DEF Save, SaveBegins, Saved, Erase, EraseStore, EraseAgain, EraseFails, Rot, Rest, vars,
     files, front
<1> QED
  BY <1>1, <1>2, <1>3, <1>4, <1>5, <1>6, <1>7, <1>8, <1>9 DEF Next

LEMMA LaunchSynced ==
    ASSUME Chain, Synced, Whole,
           \/ Launch \/ Ask \/ LoadFailed \/ Loaded \/ Missing \/ Migrated \/ Check
           \/ RestoreAnswered \/ Reload
    PROVE  Synced'
<1> USE DEF Inv, Types
<1>1. CASE Launch \/ Reload
  <2>1. /\ chain' = <<>> /\ cmd'["migration"] = NoCommand /\ cmd'["chain"] = NoCommand
        /\ phase' = "launched"
    BY <1>1 DEF Launch, Reload, Loads, Who
  <2> QED
    BY <2>1, IdleSynced DEF Sealing, NoCommand
<1>7. CASE RestoreAnswered
  <2>1. PICK rev \in Nat : Unchains(rev, degraded)
    BY <1>7 DEF RestoreAnswered, Command, Chain, Who
  <2>2. /\ chain # <<>> /\ phase = "restoring" /\ phase' = "restored"
        /\ UNCHANGED <<degraded, raced>>
    BY <1>7 DEF RestoreAnswered, ghosts
  <2>3. degraded \in BOOLEAN /\ Types /\ AfterClear
    BY DEF Chain, Synced
  <2>4. AfterClear'
    BY <2>1, <2>2, <2>3, UnchainsAfter
  <2>5. cmd'["migration"] = NoCommand /\ cmd'["chain"].step \notin {"half", "whole"}
    <3>1. /\ cmd'["migration"] = cmd["migration"]
          /\ chain' = <<>> => cmd'["chain"] = NoCommand
          /\ chain' # <<>> => cmd'["chain"] = Sent(chain[2], rev, degraded)
      BY <2>1, <2>2, <2>3, UnchainsFacts
    <3>2. cmd["migration"] = NoCommand
      BY <2>2 DEF Chain, Links
    <3> QED
      BY <3>1, <3>2 DEF NoCommand, Sent
  <2> QED
    BY <2>2, <2>4, <2>5 DEF Synced, FirstToWrite, HalfErased, HeadWritten, Current, Tracked,
       Sealing, NoCommand
<1>2. CASE Ask \/ LoadFailed
  <2>1. chain = <<>> /\ cmd["migration"] = NoCommand /\ cmd["chain"] = NoCommand
    BY <1>2 DEF Ask, LoadFailed, Chain, Links
  <2>2. UNCHANGED <<chain, cmd>>
    BY <1>2 DEF Ask, LoadFailed
  <2>3. ~Sealing'
    BY <1>2 DEF Ask, LoadFailed, Degrades, Sealing
  <2> QED
    BY <2>1, <2>2, <2>3, IdleSynced DEF NoCommand
<1>3. CASE Loaded
  <2>1. /\ chain = <<>> /\ phase' = "ready" /\ UNCHANGED <<primary, bak>>
        /\ cmd["migration"] = NoCommand /\ cmd["chain"] = NoCommand
    BY <1>3 DEF Loaded, Chain, Links
  <2>2. Loadable' = Loadable
    BY <2>1 DEF Loadable
  <2>3. CASE ~early
    <3>1. UNCHANGED <<chain, cmd>> /\ mem' = Loadable.items
      BY <1>3, <2>3 DEF Loaded
    <3> QED
      BY <2>1, <2>2, <3>1 DEF Synced, AfterClear, FirstToWrite, HalfErased, HeadWritten, Current,
         LastIsMemory, Sealed, NoCommand
  <2>4. CASE early
    <3> DEFINE t == [kind |-> "write", items |-> mem']
    <3>1. chain' = <<t>> /\ cmd' = [cmd EXCEPT !["chain"] = Sent(t, Loadable.rev, FALSE)]
      BY <1>3, <2>4 DEF Loaded
    <3>2. cmd'["chain"].step = "sent" /\ cmd'["migration"] = NoCommand
      BY <2>1, <3>1 DEF Chain, Sent, Who
    <3>3. Len(chain') = 1 /\ chain'[1] = t
      BY <3>1
    <3>4. AfterClear' /\ FirstToWrite' /\ HalfErased' /\ HeadWritten'
      BY <3>2, <3>3 DEF AfterClear, FirstToWrite, HalfErased, HeadWritten, NoCommand
    <3>5. LastIsMemory' /\ Waits("write")'
      BY <3>3 DEF LastIsMemory, Waits
    <3> QED
      BY <3>4, <3>5 DEF Synced, Current
  <2> QED
    BY <2>3, <2>4
<1>4. CASE Missing
  <2>1. /\ chain = <<>> /\ chain' = <<>> /\ cmd["chain"] = NoCommand
        /\ cmd["migration"] = NoCommand /\ mem' = snap.items
        /\ Loadable' = Loadable /\ Loadable.items = {}
    BY <1>4 DEF Missing, Chain, Links, files, Loadable, Absent
  <2>2. CASE snap.there
    <3>1. /\ phase' = "migrating" /\ cmd'["chain"] = NoCommand
          /\ cmd'["migration"] = [step |-> "sent", items |-> snap.items, expected |-> 0]
      BY <1>4, <2>1, <2>2 DEF Missing, Chain, Who
    <3> QED
      BY <2>1, <3>1 DEF Synced, AfterClear, FirstToWrite, HalfErased, HeadWritten, Current, LastIsMemory,
         Sealed, NoCommand
  <2>3. CASE ~snap.there
    <3>1. phase' = IF FALSE \/ {} # {} THEN "ready" ELSE "checking"
      BY <1>4, <2>3 DEF Missing, Begins
    <3>2. UNCHANGED cmd /\ phase' = "checking"
      BY <1>4, <2>3, <3>1 DEF Missing
    <3>3. mem' = {}
      BY <2>1, <2>3 DEF Whole
    <3> QED
      BY <2>1, <3>2, <3>3 DEF Synced, AfterClear, FirstToWrite, HalfErased, HeadWritten, Current,
         LastIsMemory, Sealed, NoCommand
  <2> QED
    BY <2>2, <2>3
<1>5. CASE Migrated
  <2>1. /\ UNCHANGED <<primary, bak, mem, chain, erase, unsaved, raced>>
        /\ phase = "migrating"
        /\ cmd'["chain"] = cmd["chain"] /\ cmd'["migration"] = NoCommand
    BY <1>5 DEF Migrated, Chain, ghosts, Who
  <2>2. Loadable' = Loadable /\ Waits("write")' = Waits("write")
    BY <2>1 DEF Loadable, Waits
  <2>3. AfterClear' /\ FirstToWrite' /\ HalfErased'
    BY <2>1 DEF Synced, AfterClear, FirstToWrite, HalfErased, NoCommand
  <2>4. CASE cmd["migration"].step = "failed"
    <3>1. ~Sealing'
      BY <1>5, <2>4 DEF Migrated, Degrades, Sealing
    <3> QED
      BY <2>3, <3>1 DEF Synced, HeadWritten, Current, Tracked
  <2>5. CASE cmd["migration"].step = "ok"
    <3>1. UNCHANGED degraded /\ phase' = "ready"
      BY <1>5, <2>5 DEF Migrated, Begins
    <3>2. (Sealing' => Sealing) /\ (Tracked' => Tracked)
      BY <2>1, <3>1 DEF Sealing, Tracked
    <3>3. HeadWritten'
      BY <2>1, <2>2, <3>2 DEF Synced, HeadWritten
    <3>4. Current'
      BY <2>1, <2>2, <2>5, <3>1, <3>2 DEF Synced, Current, LastIsMemory, Sealed
    <3> QED
      BY <2>3, <3>3, <3>4 DEF Synced
  <2> QED
    BY <1>5, <2>4, <2>5 DEF Migrated
<1>6. CASE Check
  <2>1. UNCHANGED <<primary, bak, degraded, unsaved, raced, erase>> /\ phase = "checking"
    BY <1>6 DEF Check, files, ghosts
  <2>2. CASE attempted \/ ~backup.there
    <3>1. UNCHANGED <<mem, chain, cmd>> /\ phase' = "ready"
      BY <1>6, <2>2 DEF Check
    <3> QED
      BY <2>1, <3>1, StillSynced
  <2>3. CASE ~(attempted \/ ~backup.there)
    <3> DEFINE t == [kind |-> "restore", items |-> backup.items]
    <3>1. t \in Task /\ Chains(t) /\ phase' = "restoring" /\ t.kind # "write"
      BY <1>6, <2>3 DEF Check, Task, Chain, Copy
    <3>2. AfterClear'
      BY <2>1, <3>1, ChainsAfter DEF Chain, Synced
    <3>3. /\ cmd'["migration"] = NoCommand
          /\ cmd'["chain"].step \in {"half", "whole"} => cmd' = cmd
      <4>1. cmd'["migration"] = cmd["migration"] /\ cmd["migration"] = NoCommand
        BY <2>1, <3>1, ChainsFacts DEF Chain, Links
      <4>2. /\ chain # <<>> => cmd' = cmd
            /\ chain = <<>> => cmd'["chain"] = Sent(t, revision, degraded)
        BY <3>1, ChainsFacts DEF Chain
      <4> QED
        BY <4>1, <4>2 DEF Sent
    <3> QED
      BY <2>1, <3>1, <3>2, <3>3 DEF Synced, FirstToWrite, HalfErased, HeadWritten, Current, Tracked,
         Sealing, NoCommand
  <2> QED
    BY <2>2, <2>3
<1> QED
  BY <1>1, <1>2, <1>3, <1>4, <1>5, <1>6, <1>7

\* A write is answered: it stored the memory, unless another one waits or it failed.
LEMMA WriteAnsweredSynced == ASSUME Chain, Synced, WriteAnswered PROVE Synced'
<1> USE DEF Inv, Types
<1>1. /\ chain # <<>> /\ Head(chain).kind = "write" /\ cmd["chain"].step \in Results
      /\ UNCHANGED <<primary, bak, mem, phase, degraded, erase, raced>>
      /\ unsaved' = (cmd["chain"].step # "ok")
  BY DEF WriteAnswered
<1>2. PICK rev \in Nat : Unchains(rev, degraded)
  BY DEF WriteAnswered, Chain, Command, Who
<1>3. /\ Sealing' = Sealing /\ Tracked' = Tracked /\ Loadable' = Loadable
      /\ Types /\ AfterClear /\ degraded \in BOOLEAN
  BY <1>1 DEF Sealing, Tracked, Loadable, Chain, Synced
<1>4. cmd'["migration"] = cmd["migration"] /\ cmd'["chain"].step \notin {"half", "whole", "ok"}
  <2>1. /\ cmd'["migration"] = cmd["migration"]
        /\ chain' = <<>> => cmd'["chain"] = NoCommand
        /\ chain' # <<>> => cmd'["chain"] = Sent(chain[2], rev, degraded)
    BY <1>1, <1>2, <1>3, UnchainsFacts
  <2> QED
    BY <2>1 DEF NoCommand, Sent
<1>5. AfterClear'
  BY <1>1, <1>2, <1>3, UnchainsAfter
<1>6. FirstToWrite' /\ HalfErased' /\ HeadWritten'
  BY <1>3, <1>4 DEF Synced, FirstToWrite, HalfErased, HeadWritten
<1>7. Current'
  <2> SUFFICES ASSUME Tracked PROVE LastIsMemory' /\ (Waits("write")' \/ unsaved' \/ Sealed')
    BY <1>3 DEF Current
  <2>1. LastIsMemory
    BY DEF Synced, Current
  <2>2. LastIsMemory' /\ (~Waits("write")' => Head(chain).items = mem)
    BY <1>1, <1>2, <1>3, <2>1, UnchainsLast
  <2>3. CASE cmd["chain"].step = "ok"
    <3>1. Loadable.kind = "store" /\ Loadable.items = Head(chain).items
      BY <1>1, <2>1, <2>3 DEF Synced, HeadWritten
    <3> QED
      BY <1>1, <1>3, <2>2, <3>1 DEF Sealed
  <2>4. CASE cmd["chain"].step # "ok"
    BY <1>1, <2>2, <2>4
  <2> QED
    BY <2>3, <2>4
<1> QED
  BY <1>5, <1>6, <1>7 DEF Synced

\* The store is erased, and so is memory.
LEMMA StoreErasedSynced == ASSUME Chain, Synced, OneClear', StoreErased PROVE Synced'
<1> USE DEF Inv, Types
<1>1. /\ chain # <<>> /\ Head(chain).kind = "clear" /\ cmd["chain"].step \in Results
      /\ UNCHANGED <<primary, bak, phase, degraded, raced>> /\ erase' # "store"
  BY DEF StoreErased
<1>2. erase = "store" /\ phase = "ready" /\ Head(chain) = chain[1] /\ 1 \in 1 .. Len(chain)
  BY <1>1, SealingHead
<1>3. PICK rev \in Nat : Unchains(rev, degraded)
  BY DEF StoreErased, Chain
<1>4. /\ Tracked' = Tracked /\ Loadable' = Loadable
      /\ Types /\ AfterClear /\ degraded \in BOOLEAN
  BY <1>1, <1>2 DEF Sealing, Tracked, Loadable, Chain, Synced
<1>5. cmd'["migration"] = cmd["migration"] /\ cmd'["chain"].step \notin {"half", "whole", "ok"}
  <2>1. /\ cmd'["migration"] = cmd["migration"]
        /\ chain' = <<>> => cmd'["chain"] = NoCommand
        /\ chain' # <<>> => cmd'["chain"] = Sent(chain[2], rev, degraded)
    BY <1>1, <1>3, <1>4, UnchainsFacts
  <2> QED
    BY <2>1 DEF NoCommand, Sent
<1>6. ~Waits("clear")'
  BY <1>1 DEF OneClear, Waits
<1>7. AfterClear'
  BY <1>6 DEF AfterClear, Waits
<1>8. FirstToWrite' /\ HalfErased' /\ HeadWritten'
  BY <1>4, <1>5 DEF Synced, FirstToWrite, HalfErased, HeadWritten
<1>9. Current'
  <2> SUFFICES ASSUME Tracked' PROVE LastIsMemory' /\ (Waits("write")' \/ unsaved' \/ Sealed')
    BY DEF Current
  <2>1. ~degraded /\ ~raced /\ Tracked /\ LastIsMemory
    BY <1>4 DEF Synced, Current, Tracked, Sealing
  <2>2. CASE cmd["chain"].step = "ok"
    <3>1. mem' = {}
      BY <2>2 DEF StoreErased
    <3>2. Loadable = Absent
      BY <1>1, <2>1, <2>2 DEF Synced, HeadWritten
    <3>3. ~Waits("write")'
      <4> SUFFICES ASSUME NEW k \in 1 .. Len(chain'), chain'[k].kind = "write" PROVE FALSE
        BY DEF Waits
      <4>1. k + 1 \in 1 .. Len(chain) /\ chain[k + 1].kind = "write" /\ 1 < k + 1
        BY <1>1, <1>3, <1>4, UnchainsFacts
      <4> QED
        BY <1>1, <1>2, <1>4, <2>1, <4>1 DEF AfterClear
    <3>4. LastIsMemory'
      BY <3>3 DEF LastIsMemory, Waits
    <3>5. Sealed'
      BY <1>1, <1>2, <1>4, <3>1, <3>2 DEF Sealed, Absent
    <3> QED
      BY <3>4, <3>5
  <2>3. CASE cmd["chain"].step = "failed"
    <3>1. mem' = mem /\ unsaved'
      BY <2>3 DEF StoreErased
    <3>2. LastIsMemory'
      BY <1>1, <1>3, <1>4, <2>1, <3>1, UnchainsLast
    <3> QED
      BY <3>1, <3>2
  <2>4. cmd["chain"].step # "skipped"
    BY <1>1, <2>1 DEF Chain, Links
  <2> QED
    BY <1>1, <2>2, <2>3, <2>4 DEF Results
<1> QED
  BY <1>7, <1>8, <1>9 DEF Synced

LEMMA UseSynced ==
    ASSUME Chain, Synced,
           \/ Clear \/ Save \/ SaveBegins \/ Saved \/ Erase \/ EraseStore \/ EraseAgain
           \/ EraseFails \/ Crash \/ Rot
    PROVE  Synced'
<1> USE DEF Inv, Types
<1>1. CASE Clear
  <2>1. /\ UNCHANGED <<chain, mem, phase, degraded, erase, raced, unsaved>>
        /\ chain # <<>> /\ Head(chain).kind = "clear" /\ phase = "ready"
    BY <1>1, SealingHead DEF Clear, front, ghosts
  <2>2. /\ Tracked' = Tracked /\ LastIsMemory' = LastIsMemory /\ AfterClear'
        /\ cmd["migration"] = NoCommand
    BY <2>1 DEF Sealing, Tracked, LastIsMemory, AfterClear, Synced, Chain, Links
  <2>3. /\ cmd'["migration"] = cmd["migration"]
        /\ cmd'["chain"].step \in {"half", "whole", "ok"}
        /\ cmd'["chain"].step = "half" => primary' = Absent
        /\ cmd'["chain"].step \in {"whole", "ok"} => primary' = Absent /\ bak' = Absent
    <3>1. \A step \in {"half", "whole", "ok"} : Settles("chain", step)
              => cmd'["migration"] = cmd["migration"] /\ cmd'["chain"].step = step
      BY DEF Settles, Chain, Types, Command, Who
    <3> QED
      BY <1>1, <3>1 DEF Clear, Synced, HalfErased
  <2>4. FirstToWrite' /\ HalfErased'
    BY <2>2, <2>3 DEF FirstToWrite, HalfErased, NoCommand
  <2>5. HeadWritten' /\ Sealed'
    BY <2>1, <2>3 DEF HeadWritten, Sealed, Loadable, Absent, Corrupt
  <2> QED
    BY <2>2, <2>4, <2>5 DEF Synced, Current
<1>2. CASE Save \/ SaveBegins \/ Saved \/ Erase \/ EraseAgain \/ EraseFails
  <2>1. UNCHANGED <<primary, bak, chain, cmd, mem, unsaved, phase, degraded, raced>>
    BY <1>2 DEF Save, SaveBegins, Saved, Erase, EraseAgain, EraseFails, files, front, ghosts
  <2> QED
    BY <2>1, StillSynced
<1>3. CASE EraseStore
  <2> DEFINE t == [kind |-> "clear", items |-> {}]
  <2>1. /\ t \in Task /\ Chains(t) /\ t.kind # "write" /\ erase = "backup" /\ erase' = "store"
        /\ UNCHANGED <<primary, bak, mem, unsaved, phase, degraded, raced>>
    BY <1>3 DEF EraseStore, Task, files, front, ghosts
  <2>2. Tracked' = Tracked /\ Loadable' = Loadable
    BY <2>1 DEF Sealing, Tracked, Loadable
  <2>3. AfterClear'
    BY <2>1, ChainsAfter DEF Chain, Synced
  <2>4. /\ Len(chain) \in Nat /\ Len(chain') = Len(chain) + 1
        /\ \A i \in 1 .. Len(chain) : chain'[i] = chain[i]
        /\ chain'[Len(chain) + 1] = t
        /\ chain # <<>> => cmd' = cmd /\ Head(chain') = Head(chain)
        /\ chain = <<>> => cmd'["chain"] = Sent(t, revision, degraded)
        /\ cmd'["migration"] = cmd["migration"]
    BY <2>1, ChainsFacts DEF Chain
  <2>5. chain = <<>> => cmd["chain"].step = "none"
    BY DEF Chain, Links
  <2>6. /\ cmd'["migration"] = cmd["migration"]
        /\ chain = <<>> => cmd'["chain"].step \in {"sent", "skipped"}
    BY <2>4 DEF Sent
  <2>7. FirstToWrite' /\ HalfErased' /\ HeadWritten'
    BY <2>1, <2>2, <2>4, <2>6 DEF Synced, FirstToWrite, HalfErased, HeadWritten
  <2>8. (Waits("write") => Waits("write")') /\ (LastIsMemory => LastIsMemory')
    <3>1. Waits("write") => Waits("write")'
      BY <2>4 DEF Waits
    <3>2. ASSUME LastIsMemory, NEW i \in 1 .. Len(chain'), chain'[i].kind = "write",
                 \A j \in i + 1 .. Len(chain') : chain'[j].kind # "write"
          PROVE  chain'[i].items = mem
      <4>1. i \in 1 .. Len(chain) /\ chain[i].kind = "write"
        BY <2>1, <2>4, <3>2
      <4>2. \A j \in i + 1 .. Len(chain) : chain[j].kind # "write"
        BY <2>4, <3>2
      <4> QED
        BY <2>4, <3>2, <4>1, <4>2 DEF LastIsMemory
    <3> QED
      BY <2>1, <3>1, <3>2 DEF LastIsMemory
  <2>9. Tracked /\ Sealed => Sealed'
    BY <2>1, <2>2, <2>4, <2>5, <2>6 DEF Sealed
  <2>10. Current'
    BY <2>1, <2>2, <2>8, <2>9 DEF Synced, Current
  <2> QED
    BY <2>3, <2>7, <2>10 DEF Synced
<1>4. CASE Crash
  <2>1. /\ chain' = <<>> /\ cmd'["migration"] = NoCommand /\ cmd'["chain"] = NoCommand
        /\ phase' = "off"
    BY <1>4 DEF Crash, Who
  <2> QED
    BY <2>1, IdleSynced DEF Sealing, NoCommand
<1>5. CASE Rot
  <2>1. /\ phase = "off" /\ UNCHANGED <<phase, chain, cmd>>
    BY <1>5 DEF Rot, front
  <2>2. chain = <<>> /\ cmd["migration"] = NoCommand /\ cmd["chain"] = NoCommand
    BY <2>1 DEF Chain, Links
  <2> QED
    BY <2>1, <2>2, IdleSynced DEF Sealing, NoCommand
<1> QED
  BY <1>1, <1>2, <1>3, <1>4, <1>5

\* A change is chained as the last write.
LEMMA ChangeSynced == ASSUME Chain, Synced, NEW i \in Item, Change(i) PROVE Synced'
<1> USE DEF Inv, Types
<1>1. PICK s \in SUBSET Item : Publishes(s)
  BY DEF Change, Chain
<1>2. /\ UNCHANGED <<primary, bak, phase, degraded, erase>> /\ mem' = s
      /\ raced' = (raced \/ erase = "store")
  BY <1>1 DEF Change, Publishes
<1>3. (Tracked' => Tracked) /\ Loadable' = Loadable
  BY <1>2 DEF Sealing, Tracked, Loadable
<1>4. CASE Initialized /\ ~degraded
  <2> DEFINE t == [kind |-> "write", items |-> s]
  <2>1. t \in Task /\ Chains(t) /\ t.kind = "write" /\ t.items = mem'
    BY <1>1, <1>2, <1>4 DEF Publishes, Task
  <2>2. AfterClear'
    BY <1>2, <2>1, ClearWaits, ChainsAfter DEF Chain, Synced
  <2>3. /\ Len(chain) \in Nat /\ Len(chain') = Len(chain) + 1
        /\ chain'[Len(chain) + 1] = t
        /\ chain # <<>> => cmd' = cmd /\ Head(chain') = Head(chain)
        /\ chain = <<>> => cmd'["chain"] = Sent(t, revision, degraded)
        /\ cmd'["migration"] = cmd["migration"]
    BY <2>1, ChainsFacts DEF Chain
  <2>4. chain = <<>> => cmd'["chain"].step \in {"sent", "skipped"}
    BY <2>3 DEF Sent
  <2>5. FirstToWrite' /\ HalfErased' /\ HeadWritten'
    BY <1>2, <1>3, <2>3, <2>4 DEF Synced, FirstToWrite, HalfErased, HeadWritten
  <2>6. Waits("write")'
    BY <2>1, <2>3 DEF Waits
  <2>7. LastIsMemory'
    <3> SUFFICES ASSUME NEW k \in 1 .. Len(chain'), chain'[k].kind = "write",
                        \A j \in k + 1 .. Len(chain') : chain'[j].kind # "write"
                 PROVE  chain'[k].items = mem'
      BY DEF LastIsMemory
    <3>1. k = Len(chain) + 1
      BY <2>1, <2>3
    <3> QED
      BY <2>1, <2>3, <3>1
  <2> QED
    BY <2>2, <2>5, <2>6, <2>7 DEF Synced, Current
<1>5. CASE ~(Initialized /\ ~degraded)
  <2>1. UNCHANGED <<chain, cmd>>
    BY <1>1, <1>5 DEF Publishes
  <2>2. ~Tracked'
    BY <1>2, <1>5 DEF Tracked, Sealing, Initialized
  <2> QED
    BY <1>2, <1>3, <2>1, <2>2 DEF Synced, AfterClear, FirstToWrite, HalfErased, HeadWritten, Current
<1> QED
  BY <1>4, <1>5

LEMMA SyncedStep == ASSUME Chain, Synced, Whole, [Next]_vars PROVE Synced'
<1>1. CASE UNCHANGED vars
  BY <1>1, StillSynced DEF vars
<1>2. OneClear'
  BY NextInv DEF Chain, Inv, ChainInv
<1>3. CASE Next
  BY <1>1, <1>2, <1>3, BeforeSynced, ReplaceSynced, LaunchSynced, WriteAnsweredSynced, StoreErasedSynced,
     UseSynced, ChangeSynced DEF Next, Rest
<1> QED
  BY <1>1, <1>3

\* With nothing waiting and no command that failed, the sealed store holds what the
\* application shows: the chain of writes, profile-store.js:264-308, the bootstrap,
\* profile-store.js:355-452, and the erasure in steps, profile_store.rs:387-414.
THEOREM StoreFollowsMemory == Spec => []StoreIsSynced
<1>1. Init => Synced /\ Whole
  <2>1. Init => Synced
    BY DEF Init, Synced, AfterClear, FirstToWrite, HalfErased, HeadWritten, Current, Tracked,
       Sealing, NoCommand, Who
  <2>2. Init => Whole
    BY DEF Init, Whole, NoCopy, CopyOf
  <2> QED
    BY <2>1, <2>2
<1>2. Chain /\ Synced /\ Whole /\ [Next]_vars => Synced' /\ Whole'
  BY SyncedStep, WholeStep
<1>3. ASSUME Chain, Synced PROVE StoreIsSynced
  <2> SUFFICES ASSUME phase = "ready", chain = <<>>, ~degraded, ~unsaved, ~raced
               PROVE  Loadable.items = mem
    BY DEF StoreIsSynced
  <2>1. Tracked /\ ~Waits("write")
    BY DEF Tracked, Sealing, Waits
  <2>2. cmd["chain"].step = "none"
    BY <1>3 DEF Chain, Links
  <2> QED
    BY <1>3, <2>1, <2>2 DEF Synced, Current, Sealed
<1> QED
  BY <1>1, <1>2, <1>3, SpecChain, PTL DEF Spec
=============================================================================
