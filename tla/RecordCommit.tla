---------------------------- MODULE RecordCommit ----------------------------
(***************************************************************************)
(* The record transactions of records.py, over the directory operations of *)
(* storage.Store: upsert, prune and remove commit under the brain's writer *)
(* lock, after recovering what an earlier writer left in memories/.pending *)
(* (linked originals and a manifest).  A step is one filesystem operation. *)
(* A writer may be killed between any two, an operation may fail, and the  *)
(* power may go: every directory entry that no fsync of its directory has  *)
(* made durable then holds any of the values it had since the last one.    *)
(***************************************************************************)
EXTENDS Naturals

CONSTANTS
    Record,   \* the record files of one source
    Value,    \* the bytes a record may hold
    Absent,   \* no such file
    Faults,   \* which of "kill", "error" and "power" happen
    MaxFaults \* how many of them

ASSUME FaultAssumption ==
    /\ Faults \subseteq {"kill", "error", "power"}
    /\ MaxFaults \in Nat

\* No file is no state of a manifest, and no directory.
ASSUME AbsentAssumption == Absent \notin {"open", "complete", "present"}

File(r) == <<"file", r>>       \* memories/SOURCE/SHA.json
Before(r) == <<"before", r>>   \* memories/.pending/NUMBER.before
Manifest == <<"manifest">>     \* memories/.pending/manifest.json
Pending == <<"pending">>       \* memories/.pending itself

Files == {File(r) : r \in Record}
Staged == {Before(r) : r \in Record} \cup {Manifest}
Entry == Files \cup Staged \cup {Pending}

VARIABLES
    now,       \* now[e]: what a process sees behind an entry
    disk,      \* disk[e]: what may be behind it after a power loss
    base, goal,\* the manifest's changes: records before and after them
    pc,        \* where the writer stands; "idle": the writer lock is free
    todo,      \* records the current step has yet to visit
    after,     \* what follows recover() or _clear()
    told,      \* what the caller of the last transaction was told
    faults, powered  \* history: how many faults, and whether the power went

vars == <<now, disk, base, goal, pc, todo, after, told, faults, powered>>
plan == <<base, goal>>
history == <<faults, powered>>
files == <<now, disk>>

Content == Value \cup {Absent}
Marker == {"open", "complete", Absent}
Committing == {"backup", "backupSync", "manifest", "manifestSync", "change",
               "sourceSync", "complete", "completeSync"}
Clearing == {"clear", "clearManifest", "rmdir", "rmdirSync"}
Recovering == {"recover", "restore", "restoreSync", "mark", "markSync"}
PC == Committing \cup Clearing \cup Recovering \cup {"idle", "plan", "return"}

Allowed(e) ==
    IF e = Manifest THEN Marker
    ELSE IF e = Pending THEN {"present", Absent} ELSE Content

TypeOK ==
    /\ \A e \in Entry : now[e] \in disk[e] /\ disk[e] \subseteq Allowed(e)
    /\ base \in [Record -> Content] /\ goal \in [Record -> Content]
    /\ pc \in PC
    /\ todo \in SUBSET Record
    /\ after \in {"plan", "ok", "landed", "signalled", "raise", "repair"}
    /\ told \in {"none", "ok", "failed"}
    /\ faults \in 0..MaxFaults /\ powered \in BOOLEAN

Records == [r \in Record |-> now[File(r)]]

Init ==
    /\ \E content \in [Record -> Content] :
          /\ base = content /\ goal = content
          /\ now = [e \in Entry |-> IF e \in Files THEN content[e[2]] ELSE Absent]
    /\ disk = [e \in Entry |-> {now[e]}]
    /\ pc = "idle"
    /\ todo = {}
    /\ after = "plan"
    /\ told = "none"
    /\ faults = 0 /\ powered = FALSE

-----------------------------------------------------------------------------
(* Directory operations.                                                   *)

\* Store.write, link or delete with durable=False.
Put(e, value) ==
    /\ now' = [now EXCEPT ![e] = value]
    /\ disk' = [disk EXCEPT ![e] = @ \cup {value}]

\* fsync of a directory: its entries, as they are.
Sync(entries) ==
    /\ disk' = [e \in Entry |-> IF e \in entries THEN {now[e]} ELSE disk[e]]
    /\ UNCHANGED now

-----------------------------------------------------------------------------
(* Control.                                                                *)

Goto(from, to) == pc = from /\ pc' = to

\* A loop over `todo`: one record, in whatever order, and on when none is left.
Visit(at, r) ==
    /\ pc = at /\ r \in todo
    /\ todo' = todo \ {r}
    /\ UNCHANGED <<pc, after, told, plan, history>>

Visited(at, to) ==
    /\ todo = {} /\ Goto(at, to)
    /\ UNCHANGED <<files, todo, after, told, plan, history>>

Changed == {r \in Record : goal[r] # base[r]}
Existed == {r \in Changed : base[r] # Absent}

-----------------------------------------------------------------------------
(* records._commit.                                                        *)

\* A writer takes the brain's lock, and recovers before it plans.
Begin ==
    /\ Goto("idle", "recover")
    /\ after' = "plan"
    /\ UNCHANGED <<files, plan, todo, told, history>>

\* The replacements of upsert, prune or remove; the first file to stage makes
\* Store.parent create memories/.pending and sync its parent.
Plan ==
    /\ Goto("plan", "backup")
    /\ base' = Records
    /\ goal' \in [Record -> Content] \ {Records}
    /\ todo' = {r \in Record : goal'[r] # base'[r] /\ base'[r] # Absent}
    /\ now' = [now EXCEPT ![Pending] = "present"]
    /\ disk' = [e \in Entry |-> IF e = Pending THEN {"present"}
                               ELSE IF e \in Staged THEN {Absent} ELSE disk[e]]
    /\ told' = "none"
    /\ UNCHANGED <<after, history>>

\* The original is linked, or copied.
Backup(r) == Visit("backup", r) /\ Put(Before(r), now[File(r)])

BackupsDone == Visited("backup", IF Existed = {} THEN "manifest" ELSE "backupSync")

Step(from, to) ==
    /\ Goto(from, to)
    /\ UNCHANGED <<plan, after, told, history>>

BackupSync == Step("backupSync", "manifest") /\ Sync(Staged) /\ UNCHANGED todo

\* Store.write renames the manifest into place, and then syncs its directory.
WriteManifest == Step("manifest", "manifestSync") /\ Put(Manifest, "open") /\ UNCHANGED todo

\* Mutant: records change before the manifest is durable.
ManifestUnsynced ==
    Step("manifestSync", "change") /\ UNCHANGED files /\ todo' = Changed

ManifestSync == Step("manifestSync", "change") /\ Sync(Staged) /\ todo' = Changed

Change(r) == Visit("change", r) /\ Put(File(r), goal[r])

Changes == Visited("change", "sourceSync")

\* Mutant: the commit completes before its records are durable.
SourceUnsynced == Step("sourceSync", "complete") /\ UNCHANGED <<files, todo>>

SourceSync == Step("sourceSync", "complete") /\ Sync(Files) /\ UNCHANGED todo

Complete == Step("complete", "completeSync") /\ Put(Manifest, "complete") /\ UNCHANGED todo

\* Mutant: the caller hears of a success that is not durable.
CompleteUnsynced ==
    /\ Goto("completeSync", "clear")
    /\ todo' = {r \in Record : now[Before(r)] # Absent}
    /\ after' = "ok"
    /\ UNCHANGED <<files, plan, told, history>>

\* The commit succeeded, whatever happens to _clear.
CompleteSync ==
    /\ Goto("completeSync", "clear")
    /\ Sync(Staged)
    /\ todo' = {r \in Record : now[Before(r)] # Absent}
    /\ after' = "ok"
    /\ UNCHANGED <<plan, told, history>>

-----------------------------------------------------------------------------
(* records.recover and records._clear.                                     *)

MissingBackup == \E r \in Existed : now[Before(r)] = Absent

\* Mutant: a directory without a manifest has to be repaired by the owner.
RecoverNeedsManifest ==
    /\ pc = "recover"
    /\ \/ now[Pending] = Absent /\ pc' = "return" /\ UNCHANGED <<todo, after>>
       \/ /\ now[Pending] # Absent /\ now[Manifest] = Absent
          /\ pc' = "return" /\ after' = "repair" /\ UNCHANGED todo
       \/ /\ now[Manifest] = "complete"
          /\ pc' = "clear" /\ todo' = {r \in Record : now[Before(r)] # Absent}
          /\ UNCHANGED after
       \/ /\ now[Manifest] = "open"
          /\ pc' = "restore" /\ todo' = Changed /\ UNCHANGED after
    /\ UNCHANGED <<files, plan, told, history>>

Recover ==
    /\ pc = "recover"
    /\ \/ /\ now[Pending] = Absent
          /\ pc' = "return" /\ UNCHANGED <<todo, after>>
       \/ /\ now[Pending] # Absent /\ now[Manifest] # "open"
          /\ pc' = "clear"
          /\ todo' = {r \in Record : now[Before(r)] # Absent}
          /\ UNCHANGED after
       \/ /\ now[Manifest] = "open" /\ ~MissingBackup
          /\ pc' = "restore" /\ todo' = Changed
          /\ UNCHANGED after
       \/ /\ now[Manifest] = "open" /\ MissingBackup
          /\ pc' = "return" /\ after' = "repair" /\ UNCHANGED todo
    /\ UNCHANGED <<files, plan, told, history>>

\* Mutant: records that the commit added stay.
RestoreOriginals(r) ==
    /\ Visit("restore", r)
    /\ IF base[r] = Absent THEN UNCHANGED files ELSE Put(File(r), now[Before(r)])

\* Only files the commit reached change back.
Restore(r) ==
    /\ Visit("restore", r)
    /\ LET original == IF base[r] = Absent THEN Absent ELSE now[Before(r)]
       IN IF now[File(r)] = original THEN UNCHANGED files ELSE Put(File(r), original)

Restored == Visited("restore", "restoreSync")

\* Mutant: the originals go while the manifest still asks for them.
RestoreUnmarked ==
    /\ Step("restoreSync", "clear")
    /\ Sync(Files)
    /\ todo' = {r \in Record : now[Before(r)] # Absent}

RestoreSync == Step("restoreSync", "mark") /\ Sync(Files) /\ UNCHANGED todo

\* Mutant: the marker of a rollback is not the one that readers know.
MarkRestored == Step("mark", "markSync") /\ Put(Manifest, "restored") /\ UNCHANGED todo

Mark == Step("mark", "markSync") /\ Put(Manifest, "complete") /\ UNCHANGED todo

MarkSync ==
    /\ Step("markSync", "clear")
    /\ Sync(Staged)
    /\ todo' = {r \in Record : now[Before(r)] # Absent}

Clear(r) == Visit("clear", r) /\ Put(Before(r), Absent)

Cleared == Visited("clear", "clearManifest")

ClearManifest == Step("clearManifest", "rmdir") /\ Put(Manifest, Absent) /\ UNCHANGED todo

Rmdir == Step("rmdir", "rmdirSync") /\ Put(Pending, Absent) /\ UNCHANGED todo

RmdirSync == Step("rmdirSync", "return") /\ Sync({Pending}) /\ UNCHANGED todo

\* The writer goes on with its transaction, or its lock goes with its call.
Return ==
    /\ Goto("return", IF after = "plan" THEN "plan" ELSE "idle")
    /\ told' = CASE after \in {"ok", "landed"} -> "ok"
                 [] after = "raise" -> "failed"
                 [] OTHER -> told
    /\ todo' = {}
    /\ UNCHANGED <<files, plan, after, history>>

-----------------------------------------------------------------------------
(* Faults.                                                                 *)

Fault(kind) ==
    /\ kind \in Faults /\ faults < MaxFaults
    /\ faults' = faults + 1
    /\ powered' = (powered \/ kind = "power")

\* An operation of _commit fails: recover at once.  The completion marker may
\* have landed before its directory sync failed: the commit then succeeded,
\* and only a signal is still raised.
CommitFails ==
    /\ Fault("error") /\ pc \in Committing
    /\ pc' = "recover"
    /\ after' \in IF pc = "completeSync" THEN {"landed", "signalled"} ELSE {"raise"}
    /\ todo' = {}
    /\ UNCHANGED <<files, plan, told>>

\* An operation of recover or _clear fails: the caller raises, except that a
\* cleanup failure cannot turn a durable commit into a failed one.
CleanupFails ==
    /\ Fault("error") /\ pc \in Recovering \cup Clearing
    /\ pc' = "return"
    /\ after' = IF after = "ok" THEN "ok" ELSE "repair"
    /\ todo' = {}
    /\ UNCHANGED <<files, plan, told>>

Stops == pc' = "idle" /\ todo' = {} /\ UNCHANGED <<plan, after>>

Kill ==
    /\ Fault("kill") /\ pc # "idle"
    /\ Stops
    /\ UNCHANGED <<files, told>>

Unsynced == {e \in Entry : disk[e] # {now[e]}}

PowerLoss ==
    /\ Fault("power")
    /\ \E survived \in [Unsynced -> UNION {disk[e] : e \in Unsynced}] :
          LET left == [e \in Entry |-> IF e \in Unsynced THEN survived[e] ELSE now[e]] IN
          /\ \A e \in Unsynced : survived[e] \in disk[e]
          /\ now' = [e \in Entry |-> IF e \in Staged /\ left[Pending] = Absent
                                     THEN Absent ELSE left[e]]
    /\ disk' = [e \in Entry |-> {now'[e]}]
    /\ Stops
    /\ UNCHANGED told

-----------------------------------------------------------------------------
Writer ==
    \/ Begin \/ Plan \/ BackupsDone \/ BackupSync \/ WriteManifest \/ ManifestSync
    \/ Changes \/ SourceSync \/ Complete \/ CompleteSync
    \/ Recover \/ Restored \/ RestoreSync \/ Mark \/ MarkSync
    \/ Cleared \/ ClearManifest \/ Rmdir \/ RmdirSync \/ Return
    \/ \E r \in Record : Backup(r) \/ Change(r) \/ Restore(r) \/ Clear(r)

Next == Writer \/ CommitFails \/ CleanupFails \/ Kill \/ PowerLoss

Spec == Init /\ [][Next]_vars
FairSpec == Spec /\ WF_vars(Writer)

-----------------------------------------------------------------------------
(* Properties.                                                             *)

\* What readers refuse: a pending directory without a completed manifest.
Interrupted == now[Pending] # Absent /\ now[Manifest] # "complete"

\* A manifest whose completion marker is not durable can come back incomplete,
\* and roll its transaction back.
Undoable == "present" \in disk[Pending] /\ "open" \in disk[Manifest]

Visible == IF now[Manifest] = "open" THEN base ELSE Records

Atomic == INSTANCE AtomicRecords WITH
    records <- Visible,
    previous <- IF Undoable THEN base ELSE Visible,
    intent <- goal

\* Readers see every transaction whole or not at all, through kills, failing
\* operations and power losses at any point of a commit or of a recovery.
ImplementsAtomicRecords == Atomic!Spec

\* A commit that returned to its caller is never rolled back, though its
\* journal's removal is not durable until the end; one that failed, and did not
\* ask for recovery, changed no record.
OutcomeTold ==
    /\ told = "ok" => Records = goal
    /\ told = "failed" => Records = base

\* The originals an open manifest names are there: recovery never has to ask
\* the owner to repair memories/.pending.
Repairable == now[Manifest] = "open" => ~MissingBackup
OriginalsKept == Repairable

\* No kill and no failing operation costs an open manifest its originals.
KillsKeepOriginals == powered \/ Repairable

\* Once faults end, the next writer recovers and readers are served again,
\* unless a power loss took originals that recovery needs.
RecoveryEnds == []<>(~Interrupted \/ (powered /\ ~Repairable))

=============================================================================
