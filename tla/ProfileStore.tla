---------------------------- MODULE ProfileStore ----------------------------
(***************************************************************************)
(* The store of profiles and subscriptions (src/lib/profile-store.js), its *)
(* sealed file in the backend (src-tauri/src/profile_store.rs), the backup *)
(* it is restored from (src/lib/state-backup.js, backup.rs), and the       *)
(* erasure of it all (src/main.js:977).                                    *)
(*                                                                         *)
(* A step of the frontend is what it does from the answer of one await to  *)
(* the next.  The backend serves one command of the store at a time; a     *)
(* replacement and an erasure are several steps, because the process may   *)
(* die between them and any of them may fail.                              *)
(*                                                                         *)
(* Abstractions.  A store is the set of its items: profiles, subscriptions,*)
(* the active source and the selections that go with them.  An item is     *)
(* there or not; a change of one is not kept apart.  The backend exists:   *)
(* the preview in a browser, which has none, is not modelled.  Settings,   *)
(* which are saved and restored along with the profiles, are there and     *)
(* left out.  Of the file's copies there is one, .bak.                     *)
(*                                                                         *)
(* An operator commented as a mistake is no part of the specification: it  *)
(* is what the definition after it must not be, and a property fails on it.*)
(***************************************************************************)
EXTENDS Naturals, Sequences, FiniteSets

CONSTANTS
    Item,
    MaxChanges,  \* a bound: changes by the user and by subscription refreshes
    MaxFaults    \* a bound: crashes, commands that fail and a file that rots

ASSUME ProfileStoreAssumption ==
    /\ IsFiniteSet(Item)
    /\ MaxChanges \in Nat
    /\ MaxFaults \in Nat

VARIABLES
    primary,    \* profile-store.v1
    bak,        \* profile-store.v1.bak
    legacy,     \* the keys of the profiles in localStorage
    backup,     \* the profiles in state-backup.json
    attempted,  \* ninety.restore.attempted in sessionStorage
    phase,      \* how far the launch has come
    mem,        \* state
    revision,   \* revision
    early,      \* pendingLocalMutation
    degraded,   \* backendDegraded
    persisted,  \* persistedStore
    snap,       \* the local `legacy` of initializeProfileStore
    prev,       \* the local `previous` of restoreProfileStoreFromBackup
    chain,      \* writeChain: the tasks that are not settled, the first one running
    cmd,        \* the commands under way: of the chain, and of the migration
    saving,     \* the backup that is being saved
    late,       \* the save requested before an erasure came to the backend after it
    erase,      \* how far onSensitiveDataClear has come
    erased,     \* what it is to erase and was not added since
    unsaved,    \* a command of the chain failed since the last one that did not
    raced,      \* a change during an erasure, or a write of a page that is gone
    changes, faults   \* bounds

files == <<primary, bak, legacy, backup>>
front == <<phase, mem, revision, early, degraded, persisted, snap, prev>>
ghosts == <<late, unsaved, raced>>
bounds == <<changes, faults>>
vars == <<primary, bak, legacy, backup, attempted, phase, mem, revision, early, degraded,
          persisted, snap, prev, chain, cmd, saving, late, erase, erased, unsaved, raced,
          changes, faults>>

\* Files: none, one that cannot be read, or one that holds a store.
Store == [kind : {"store"}, items : SUBSET Item, rev : Nat]
Absent == [kind |-> "absent", items |-> {}, rev |-> 0]
Corrupt == [kind |-> "corrupt", items |-> {}, rev |-> 0]
File == Store \cup {Absent, Corrupt}

\* The keys of localStorage and the backup: there or not, with items.
Copy == [there : BOOLEAN, items : SUBSET Item]
NoCopy == [there |-> FALSE, items |-> {}]
CopyOf(s) == [there |-> TRUE, items |-> s]

\* A command: who has not asked, waits for the backend, has rotated the backup,
\* has removed the file or its backup as well, or has the result, if it was not
\* skipped; with the payload and the revision it expects.  What the chain of a page
\* had sent when it was loaded again is an orphan: nobody has its result.
Who == {"chain", "migration", "orphan"}
Started == {"rotated", "half", "whole"}
Results == {"ok", "failed", "skipped"}
Command == [step : {"none", "sent"} \cup Started \cup Results, items : SUBSET Item,
            expected : Nat]
NoCommand == [step |-> "none", items |-> {}, expected |-> 0]

\* A save of the backup: requested, or under way with the generation noted.
Saving == [step : {"none", "sent", "noted"}, items : SUBSET Item]
NoSaving == [step |-> "none", items |-> {}]

Task == [kind : {"write", "restore", "clear"}, items : SUBSET Item]

TypeOK ==
    /\ primary \in File /\ bak \in File
    /\ legacy \in Copy /\ backup \in Copy
    /\ attempted \in BOOLEAN
    /\ phase \in {"off", "launched", "loading", "migrating", "checking", "restoring", "restored",
                 "ready"}
    /\ mem \in SUBSET Item
    /\ revision \in Nat
    /\ {early, degraded, persisted, late, unsaved, raced} \subseteq BOOLEAN
    /\ snap \in Copy
    /\ prev \in SUBSET Item
    /\ chain \in Seq(Task)
    /\ cmd \in [Who -> Command]
    /\ cmd["chain"].step = "none" <=> chain = <<>>
    /\ cmd["migration"].step # "none" <=> phase = "migrating"
    /\ cmd["orphan"].step \in {"none", "sent", "rotated"}
    /\ saving \in Saving
    /\ erase \in {"no", "backup", "store", "again", "done"}
    /\ erased \in SUBSET Item
    /\ changes \in 0 .. MaxChanges
    /\ faults \in 0 .. MaxFaults

\* The first launch after the store was introduced, or any later one.
Init ==
    /\ \/ /\ legacy \in {NoCopy} \cup {CopyOf(s) : s \in SUBSET Item \ {{}}}
          /\ primary = Absent
       \/ /\ primary \in [kind : {"store"}, items : SUBSET Item, rev : {1}]
          /\ legacy = NoCopy
    /\ bak = Absent
    /\ backup \in {NoCopy, CopyOf(Item)}
    /\ attempted = FALSE
    /\ phase = "off"
    /\ mem = {} /\ revision = 0
    /\ early = FALSE /\ degraded = FALSE /\ persisted = FALSE
    /\ snap = NoCopy /\ prev = {}
    /\ chain = <<>>
    /\ cmd = [w \in Who |-> NoCommand]
    /\ saving = NoSaving
    /\ erase = "no" /\ erased = {}
    /\ late = FALSE /\ unsaved = FALSE /\ raced = FALSE
    /\ changes = 0 /\ faults = 0

Fault == faults < MaxFaults /\ faults' = faults + 1

-----------------------------------------------------------------------------
(* The backend. *)

\* load_store: the file, or the backup in its place.
Loadable == IF primary.kind = "store" THEN primary
            ELSE IF bak.kind = "store" THEN bak
            ELSE IF Corrupt \in {primary, bak} THEN Corrupt
            ELSE Absent

Locked == \E w \in Who : cmd[w].step \in Started

\* The command of w has a result.
Settles(w, result) ==
    cmd' = [cmd EXCEPT ![w] = IF w = "orphan" THEN NoCommand ELSE [@ EXCEPT !.step = result]]

\* A mistake: whatever the file is, it becomes the backup.
RotateBlindly(w) ==
    /\ cmd[w].step = "sent" /\ ~Locked
    /\ w = "chain" => Head(chain).kind # "clear"
    /\ IF Loadable = Corrupt \/ Loadable.rev # cmd[w].expected
       THEN Settles(w, "failed") /\ UNCHANGED bak
       ELSE /\ bak' = IF primary.kind # "absent" THEN primary ELSE bak
            /\ cmd' = [cmd EXCEPT ![w].step = "rotated"]
    /\ UNCHANGED <<primary, legacy, backup, attempted, front, chain, saving, erase, erased,
                   ghosts, bounds>>

\* profile_store_replace, up to the rotation of the backup: a file that cannot
\* be read never takes the place of the backup.
Rotate(w) ==
    /\ cmd[w].step = "sent" /\ ~Locked
    /\ w = "chain" => Head(chain).kind # "clear"
    /\ IF Loadable = Corrupt \/ Loadable.rev # cmd[w].expected
       THEN Settles(w, "failed") /\ UNCHANGED bak
       ELSE /\ bak' = IF primary.kind = "store" THEN primary ELSE bak
            /\ cmd' = [cmd EXCEPT ![w].step = "rotated"]
    /\ UNCHANGED <<primary, legacy, backup, attempted, front, chain, saving, erase, erased,
                   ghosts, bounds>>

\* The file is replaced, in one piece; by an orphan perhaps after the page has read it.
Replace(w) ==
    /\ cmd[w].step = "rotated"
    /\ primary' = [kind |-> "store", items |-> cmd[w].items, rev |-> cmd[w].expected + 1]
    /\ Settles(w, "ok")
    /\ raced' = (raced \/ (w = "orphan" /\ phase \notin {"launched", "loading"}))
    /\ UNCHANGED <<bak, legacy, backup, attempted, front, chain, saving, erase, erased,
                   late, unsaved, bounds>>

\* profile_store_clear: the file, then its backup, then what else there is.
Clear ==
    /\ chain # <<>> /\ Head(chain).kind = "clear"
    /\ \/ /\ cmd["chain"].step = "sent" /\ ~Locked
          /\ primary' = Absent /\ UNCHANGED bak
          /\ Settles("chain", "half")
       \/ /\ cmd["chain"].step = "half"
          /\ bak' = Absent /\ UNCHANGED primary
          /\ Settles("chain", "whole")
       \/ /\ cmd["chain"].step = "whole"
          /\ UNCHANGED <<primary, bak>>
          /\ Settles("chain", "ok")
    /\ UNCHANGED <<legacy, backup, attempted, front, chain, saving, erase, erased, ghosts,
                   bounds>>

\* A command fails, wherever it is: it cannot read, seal, write or remove.
Fail(w) ==
    /\ cmd[w].step \in {"sent"} \cup Started /\ Fault
    /\ Settles(w, "failed")
    /\ UNCHANGED <<files, attempted, front, chain, saving, erase, erased, ghosts, changes>>

-----------------------------------------------------------------------------
(* The chain of writes. *)

\* What the chain runs: replaceBackend asks for the revision of this moment.
\* Without the backend, once it has failed, a task is settled at once.
Sent(task, rev, alone) ==
    [step |-> IF alone THEN "skipped" ELSE "sent", items |-> task.items, expected |-> rev]

\* A mistake: the newest payload goes first.
ChainsFirst(t) ==
    /\ chain' = IF chain = <<>> THEN <<t>> ELSE <<Head(chain), t>> \o Tail(chain)
    /\ cmd' = IF chain = <<>>
              THEN [cmd EXCEPT !["chain"] = Sent(t, revision, degraded)]
              ELSE cmd

\* The tasks t are chained, with the memory's payload of this moment.
Chains(t) ==
    /\ chain' = Append(chain, t)
    /\ cmd' = IF chain = <<>>
              THEN [cmd EXCEPT !["chain"] = Sent(t, revision, degraded)]
              ELSE cmd

\* A mistake: a failure is not caught, and what was chained behind it never runs.
UnchainsOnly(rev, alone) ==
    /\ chain' = Tail(chain)
    /\ cmd' = [cmd EXCEPT !["chain"] =
                 IF Len(chain) = 1 \/ cmd["chain"].step = "failed"
                 THEN NoCommand ELSE Sent(chain[2], rev, alone)]

\* The first task is settled, the next one asks with the revision there is then.
Unchains(rev, alone) ==
    /\ chain' = Tail(chain)
    /\ cmd' = [cmd EXCEPT !["chain"] =
                 IF Len(chain) = 1 THEN NoCommand ELSE Sent(chain[2], rev, alone)]

\* replaceBackend has its answer, or skipped the backend and wrote nothing.
WriteAnswered ==
    /\ chain # <<>> /\ Head(chain).kind = "write"
    /\ cmd["chain"].step \in Results
    /\ LET ok == cmd["chain"].step = "ok"
           rev == IF ok THEN cmd["chain"].expected + 1 ELSE revision
       IN  /\ revision' = rev
           /\ persisted' = (persisted \/ ok)
           /\ legacy' = IF ok THEN NoCopy ELSE legacy
           /\ unsaved' = ~ok
           /\ Unchains(rev, degraded)
    /\ UNCHANGED <<primary, bak, backup, attempted, phase, mem, early, degraded, snap, prev,
                   saving, late, erase, erased, raced, bounds>>

-----------------------------------------------------------------------------
(* Launching: initializeProfileStore, then restoreIfEmpty. *)

\* restoreIfEmpty begins when the store is initialized: with profiles, or a store
\* that is there, it has nothing to restore.
Begins(items, there) == phase' = IF there \/ items # {} THEN "ready" ELSE "checking"

\* The module is loaded: it reads the keys of localStorage.  left is what the page
\* before it had sent.
Loads(att, left) ==
    /\ phase' = "launched"
    /\ mem' = legacy'.items
    /\ revision' = 0
    /\ early' = FALSE /\ degraded' = FALSE /\ persisted' = FALSE
    /\ snap' = NoCopy /\ prev' = {}
    /\ chain' = <<>>
    /\ cmd' = [w \in Who |-> IF w = "orphan" THEN left ELSE NoCommand]
    /\ saving' = NoSaving
    /\ erase' = "no" /\ erased' = {}
    /\ late' = FALSE /\ unsaved' = FALSE /\ raced' = FALSE
    /\ attempted' = att

Launch ==
    /\ phase = "off"
    /\ UNCHANGED <<files, bounds>>
    /\ Loads(FALSE, NoCommand)

\* initializeProfileStore asks the backend.
Ask ==
    /\ phase = "launched"
    /\ phase' = "loading"
    /\ snap' = legacy
    /\ mem' = legacy.items
    /\ UNCHANGED <<files, attempted, revision, early, degraded, persisted, prev, chain, cmd,
                   saving, erase, erased, ghosts, bounds>>

\* There is no store that can be read: only memory is left.
Degrades ==
    /\ degraded' = TRUE
    /\ Begins(mem, FALSE)

LoadFailed ==
    /\ phase = "loading"
    /\ IF Loadable = Corrupt THEN UNCHANGED faults ELSE Fault
    /\ Degrades
    /\ UNCHANGED <<files, attempted, mem, revision, early, persisted, snap, prev, chain, cmd,
                   saving, erase, erased, ghosts, changes>>

\* The store is there.  What was added before is merged into it, and saved.
Loaded ==
    /\ phase = "loading" /\ Loadable.kind = "store"
    /\ phase' = "ready"
    /\ revision' = Loadable.rev
    /\ mem' = IF early THEN Loadable.items \cup mem ELSE Loadable.items
    /\ early' = FALSE
    /\ persisted' = TRUE
    /\ legacy' = NoCopy
    /\ IF early
       THEN LET t == [kind |-> "write", items |-> mem']
            IN  /\ chain' = <<t>>
                /\ cmd' = [cmd EXCEPT !["chain"] = Sent(t, Loadable.rev, FALSE)]
       ELSE UNCHANGED <<chain, cmd>>
    /\ UNCHANGED <<primary, bak, backup, attempted, degraded, snap, prev, saving, erase,
                   erased, ghosts, bounds>>

\* There is none: what localStorage held when it was asked for is migrated.
Missing ==
    /\ phase = "loading" /\ Loadable = Absent
    /\ mem' = snap.items
    /\ IF snap.there
       THEN /\ phase' = "migrating"
            /\ cmd' = [cmd EXCEPT !["migration"] =
                         [step |-> "sent", items |-> snap.items, expected |-> 0]]
       ELSE Begins({}, FALSE) /\ UNCHANGED cmd
    /\ UNCHANGED <<files, attempted, revision, early, degraded, persisted, snap, prev, chain,
                   saving, erase, erased, ghosts, bounds>>

\* The migration has its answer.
Migrated ==
    /\ phase = "migrating" /\ cmd["migration"].step \in {"ok", "failed"}
    /\ IF cmd["migration"].step = "ok"
       THEN /\ revision' = 1
            /\ persisted' = TRUE
            /\ legacy' = NoCopy
            /\ Begins(mem, TRUE)
            /\ UNCHANGED degraded
       ELSE Degrades /\ UNCHANGED <<revision, persisted, legacy>>
    /\ cmd' = [cmd EXCEPT !["migration"] = NoCommand]
    /\ UNCHANGED <<primary, bak, backup, attempted, mem, early, snap, prev, chain, saving,
                   erase, erased, ghosts, bounds>>

\* restoreIfEmpty has read the backup: once in a session of the page it takes the
\* place of what is in memory, and is chained.
Check ==
    /\ phase = "checking"
    /\ IF attempted \/ ~backup.there
       THEN phase' = "ready" /\ UNCHANGED <<mem, prev, chain, cmd>>
       ELSE /\ phase' = "restoring"
            /\ prev' = mem
            /\ mem' = backup.items
            /\ Chains([kind |-> "restore", items |-> backup.items])
    /\ UNCHANGED <<files, attempted, revision, early, degraded, persisted, snap, saving, erase,
                   erased, ghosts, bounds>>

\* The restored store is written; or it is not, and its keys go to localStorage.
RestoreAnswered ==
    /\ phase = "restoring"
    /\ chain # <<>> /\ Head(chain).kind = "restore"
    /\ cmd["chain"].step \in Results
    /\ LET rev == IF cmd["chain"].step = "ok" THEN cmd["chain"].expected + 1 ELSE revision
       IN  revision' = rev /\ Unchains(rev, degraded)
    /\ persisted' = (persisted \/ cmd["chain"].step = "ok")
    /\ \/ cmd["chain"].step = "ok" /\ legacy' = NoCopy /\ UNCHANGED mem
       \/ cmd["chain"].step = "skipped" /\ UNCHANGED <<legacy, mem>>
       \/ cmd["chain"].step = "failed" /\ legacy' = CopyOf(Head(chain).items) /\ mem' = prev
    /\ phase' = "restored"
    /\ attempted' = TRUE
    /\ UNCHANGED <<primary, bak, backup, early, degraded, snap, prev, saving, erase, erased,
                   ghosts, bounds>>

\* Either way the page is loaded again, and the backend goes on with what was sent.
Reload ==
    /\ phase = "restored"
    /\ UNCHANGED <<files, bounds>>
    /\ Loads(TRUE, IF cmd["chain"].step \in {"sent", "rotated"} THEN cmd["chain"] ELSE NoCommand)

-----------------------------------------------------------------------------
(* Using it. *)

Initialized == phase \in {"migrating", "checking", "restoring", "restored", "ready"}

\* A mistake: without the backend the change is mirrored.
PublishesMirrored(s) ==
    /\ mem' = s
    /\ IF ~Initialized
       THEN early' = TRUE /\ legacy' = CopyOf(s) /\ UNCHANGED <<chain, cmd>>
       ELSE /\ UNCHANGED early
            /\ IF degraded
               THEN legacy' = CopyOf(s) /\ UNCHANGED <<chain, cmd>>
               ELSE Chains([kind |-> "write", items |-> s]) /\ UNCHANGED legacy

\* publish: before the store is ready the change is mirrored in localStorage,
\* without the backend it stays in memory.
Publishes(s) ==
    /\ mem' = s
    /\ IF ~Initialized
       THEN early' = TRUE /\ legacy' = CopyOf(s) /\ UNCHANGED <<chain, cmd>>
       ELSE /\ UNCHANGED <<early, legacy>>
            /\ IF degraded THEN UNCHANGED <<chain, cmd>>
               ELSE Chains([kind |-> "write", items |-> s])

Change(i) ==
    /\ phase # "off" /\ changes < MaxChanges
    /\ changes' = changes + 1
    /\ \/ i \notin mem /\ Publishes(mem \cup {i}) /\ erased' = erased \ {i}
       \/ i \in mem /\ Publishes(mem \ {i}) /\ UNCHANGED erased
    /\ raced' = (raced \/ erase = "store")
    /\ UNCHANGED <<primary, bak, backup, attempted, phase, revision, degraded, persisted, snap,
                   prev, saving, late, erase, unsaved, faults>>

\* backupNow, one at a time and for a store that works.
Save ==
    /\ phase = "ready" /\ ~degraded /\ saving = NoSaving
    /\ saving' = [step |-> "sent", items |-> mem]
    /\ UNCHANGED <<files, attempted, front, chain, cmd, erase, erased, ghosts, bounds>>

\* state_backup_save has a thread and notes the generation.
SaveBegins ==
    /\ saving.step = "sent"
    /\ saving' = [saving EXCEPT !.step = "noted"]
    /\ UNCHANGED <<files, attempted, front, chain, cmd, erase, erased, ghosts, bounds>>

\* Its snapshot takes the place of the backup, or it fails.
Saved ==
    /\ saving.step = "noted"
    /\ backup' \in {backup, CopyOf(saving.items)}
    /\ saving' = NoSaving
    /\ UNCHANGED <<primary, bak, legacy, attempted, front, chain, cmd, erase, erased, ghosts,
                   bounds>>

\* A mistake: a save that has begun before is still written.
ClearsBackupOnly ==
    /\ backup' = NoCopy
    /\ UNCHANGED saving

\* state_backup_clear: a save that has noted the generation before is void.
ClearsBackup ==
    /\ backup' = NoCopy
    /\ saving' = IF saving.step = "noted" THEN NoSaving ELSE saving

\* onSensitiveDataClear, with the VPN stopped: the backup, the store, the keys
\* of localStorage, and the backup again.
Erase ==
    /\ phase = "ready" /\ erase \in {"no", "done"}
    /\ ClearsBackup
    /\ erase' = "backup"
    /\ erased' = mem \cup Loadable.items
    /\ UNCHANGED <<primary, bak, legacy, attempted, front, chain, cmd, ghosts, bounds>>

EraseStore ==
    /\ erase = "backup"
    /\ erase' = "store"
    /\ erased' = erased \cup mem
    /\ Chains([kind |-> "clear", items |-> {}])
    /\ UNCHANGED <<files, attempted, front, saving, ghosts, bounds>>

\* The store is erased; or it is not, or in part, and the user is told.
StoreErased ==
    /\ chain # <<>> /\ Head(chain).kind = "clear"
    /\ cmd["chain"].step \in Results
    /\ IF cmd["chain"].step # "failed"
       THEN /\ mem' = {}
            /\ persisted' = FALSE
            /\ revision' = 0
            /\ legacy' = NoCopy
            /\ erase' = "again"
            /\ Unchains(0, degraded)
            /\ UNCHANGED <<erased, unsaved, raced>>
       ELSE /\ erase' = "no" /\ erased' = {} /\ unsaved' = TRUE
            /\ Unchains(revision, degraded)
            /\ UNCHANGED <<mem, persisted, revision, legacy, raced>>
    /\ UNCHANGED <<primary, bak, backup, attempted, phase, early, degraded, snap, prev, saving,
                   late, bounds>>

\* A save that is requested and has not begun is not void.
EraseAgain ==
    /\ erase = "again"
    /\ ClearsBackup
    /\ late' = (saving.step = "sent")
    /\ erase' = "done"
    /\ attempted' = FALSE
    /\ UNCHANGED <<primary, bak, legacy, front, chain, cmd, erased, unsaved, raced, bounds>>

\* state_backup_clear fails, the first time or the second, and the user is told.
EraseFails ==
    /\ \/ phase = "ready" /\ erase \in {"no", "done"}
       \/ erase = "again"
    /\ Fault
    /\ backup' \in {backup, NoCopy}
    /\ saving' = IF saving.step = "noted" THEN NoSaving ELSE saving
    /\ erase' = "no" /\ erased' = {}
    /\ UNCHANGED <<primary, bak, legacy, attempted, front, chain, cmd, ghosts, changes>>

\* The process dies, at any moment.
Crash ==
    /\ phase # "off" /\ Fault
    /\ phase' = "off"
    /\ mem' = {} /\ revision' = 0
    /\ early' = FALSE /\ degraded' = FALSE /\ persisted' = FALSE
    /\ snap' = NoCopy /\ prev' = {}
    /\ chain' = <<>>
    /\ cmd' = [w \in Who |-> NoCommand]
    /\ saving' = NoSaving
    /\ erase' = "no" /\ erased' = {}
    /\ late' = FALSE /\ unsaved' = FALSE /\ raced' = FALSE
    /\ attempted' = FALSE
    /\ UNCHANGED <<files, changes>>

\* The file rots while a good copy of the store before it is kept.
Rot ==
    /\ phase = "off" /\ Fault
    /\ primary.kind = "store" /\ bak.kind = "store"
    /\ primary' = Corrupt
    /\ UNCHANGED <<bak, legacy, backup, attempted, front, chain, cmd, saving, erase, erased,
                   ghosts, changes>>

\* Nothing is left to do.
Rest ==
    /\ phase = "ready" /\ chain = <<>>
    /\ UNCHANGED vars

Next ==
    \/ \E w \in Who : Rotate(w) \/ Replace(w) \/ Fail(w)
    \/ Clear \/ WriteAnswered
    \/ Launch \/ Ask \/ LoadFailed \/ Loaded \/ Missing \/ Migrated \/ Check
    \/ RestoreAnswered \/ Reload
    \/ \E i \in Item : Change(i)
    \/ Save \/ SaveBegins \/ Saved
    \/ Erase \/ EraseStore \/ StoreErased \/ EraseAgain \/ EraseFails
    \/ Crash \/ Rot \/ Rest

Spec == Init /\ [][Next]_vars

-----------------------------------------------------------------------------
(* Properties *)

\* When everything is written and no command failed, the sealed store holds what the
\* application shows: whatever queues behind whatever, whatever was added before the
\* store was loaded (profile-store.js:264, :365), and after an erasure that stopped half
\* way (profile_store.rs:403): no later write passes as done over what it left.  A change
\* during an erasure is excepted (see EraseIsComplete and the README), and a write of the
\* page before a reload that comes after the new page has read the store.
StoreIsSynced ==
    phase = "ready" /\ chain = <<>> /\ ~degraded /\ ~unsaved /\ ~raced
        => Loadable.items = mem

\* Once there is a store there is always one that can be read, until the user erases
\* it: a crash between the rotation and the replacement, after a launch that had to
\* use the backup, does not cost it (profile_store.rs:259).
StoreIsNeverLost ==
    [][Loadable.kind = "store" /\ Loadable'.kind # "store"
         => cmd["chain"].step \in {"sent", "half"} /\ Head(chain).kind = "clear"]_vars

\* The last readable copy in localStorage is not given up before the sealed store
\* exists (profile-store.js:377).
LegacyOutlivesMigration ==
    [][legacy.there /\ ~legacy'.there => Loadable.kind = "store" \/ erase = "store"]_vars

\* Once the store is initialized credentials come back to localStorage in plain text in
\* one case only: the backend works and refuses what was restored from the backup
\* (state-backup.js:214), and it is what the backup held.  Above all no change comes
\* there when the backend fails (profile-store.js:163).
NoPlaintextAgain ==
    [][Initialized /\ legacy' \notin {legacy, NoCopy}
         => /\ phase = "restoring" /\ ~degraded
            /\ cmd["chain"].step = "failed" /\ legacy' = CopyOf(Head(chain).items)]_vars

\* An erased item is not in the backup afterwards, whatever save was under way
\* (main.js:997, backup.rs:53); a save that was requested and had not begun is excepted:
\* see BackupForgets.
BackupStaysErased ==
    erase = "done" /\ ~late => erased \cap backup.items = {}

-----------------------------------------------------------------------------
(* What the source says and the code does not do. *)

\* profile-store.js:355 and tests/profile-store-bootstrap-race.test.mjs:1: a profile
\* that is added before the store answers "used to be overwritten" and "the record
\* vanished without a trace".  Where there is no store yet, it still is.
EarlyChangeSurvives ==
    [][phase = "loading" /\ Initialized' /\ early /\ ~degraded' => mem \subseteq mem']_vars

\* main.js:989: the steps are ordered so that what the user asked to erase does not
\* come back with the next launch, and what was not erased "is visible at once".  With
\* a degraded store the sealed file is left where it is and the erasure reports
\* success; and a change that is chained behind an erasure writes its old payload.
EraseIsComplete ==
    erase = "done" => erased \cap Loadable.items = {}

\* backup.rs:53: an old request has no right to bring erased profiles back.  The
\* generation is noted when a thread takes the request up, so one that was sent before
\* the erasure and is taken up after it does bring them back.
BackupForgets ==
    erase = "done" => erased \cap backup.items = {}

\* docs/PROFILE_STORE_MIGRATION.md:164: a write that fails does not touch the copy in
\* localStorage.  When it is that of a restore, it does.
PlaintextStaysOut ==
    [][Initialized => legacy' \in {legacy, NoCopy}]_vars
=============================================================================
