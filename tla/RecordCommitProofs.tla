------------------------- MODULE RecordCommitProofs -------------------------
(***************************************************************************)
(* Proofs about RecordCommit, for any records, values and faults: readers  *)
(* see a transaction whole or not at all (the refinement of                *)
(* AtomicRecords), the caller is told what happened, and no kill and no    *)
(* failing operation costs an open manifest the originals it names.        *)
(***************************************************************************)
EXTENDS RecordCommit, TLAPS

-----------------------------------------------------------------------------
(* The inductive invariant.                                                *)

Tables ==
    /\ now = [e \in Entry |-> now[e]]
    /\ disk = [e \in Entry |-> disk[e]]

Typed == \A e \in Entry : now[e] \in disk[e] /\ disk[e] \subseteq Allowed(e)

\* Every record is durable as it is.
Settled == \A r \in Record : disk[File(r)] = {now[File(r)]}

\* The records that the manifest's changes start from, or lead to, are durable.
AtBase == \A r \in Record : disk[File(r)] = {base[r]}
AtGoal == \A r \in Record : disk[File(r)] = {goal[r]}

\* The originals of these records are staged.
Linked(records) == \A r \in records : now[Before(r)] = base[r]
Unlinked(records) == \A r \in records : now[Before(r)] = Absent

\* A file changes from its base to its goal or back, and a staged original is
\* the record's.
OldOrNew ==
    /\ \A r \in Record : disk[File(r)] \subseteq {base[r], goal[r]}
    /\ \A r \in Existed : disk[Before(r)] \subseteq {Absent, base[r]}

\* Files are in doubt only under an open manifest; the manifest was durable
\* before the first of them changed.
Journal ==
    /\ now[Pending] = Absent => \A e \in Staged : now[e] = Absent
    /\ now[Manifest] # "open" => Settled
    /\ now[Manifest] = "open" =>
          /\ disk[Manifest] \subseteq {Absent, "open"}
          /\ disk[Pending] = {"present"}
          /\ Absent \in disk[Manifest] => AtBase

\* Where a commit stands.
CommitPosition ==
    /\ pc = "plan" => now[Pending] = Absent
    /\ pc \in Committing => disk[Pending] = {"present"} /\ told = "none"
    /\ pc \in {"backup", "backupSync", "manifest"} => disk[Manifest] = {Absent} /\ AtBase
    /\ pc = "backup" => Linked(Existed \ todo)
    /\ pc \in {"backupSync", "manifest"} => Linked(Existed)
    /\ pc = "manifestSync" => now[Manifest] = "open" /\ AtBase
    /\ pc \in {"change", "sourceSync", "complete"} => disk[Manifest] = {"open"}
    /\ pc = "change" => \A r \in Changed \ todo : now[File(r)] = goal[r]
    /\ pc = "sourceSync" => \A r \in Record : now[File(r)] = goal[r]
    /\ pc \in {"complete", "completeSync"} => AtGoal
    /\ pc = "completeSync" => now[Manifest] = "complete"

\* Where a recovery or a cleanup stands.
RecoveryPosition ==
    /\ pc \in {"restore", "restoreSync", "mark"} => now[Manifest] = "open"
    /\ pc = "restore" => todo \subseteq Changed /\ Linked(Existed)
    /\ pc = "restore" => \A r \in Changed \ todo : now[File(r)] = base[r]
    /\ pc = "restoreSync" => \A r \in Record : now[File(r)] = base[r]
    /\ pc \in {"mark", "markSync"} => AtBase
    /\ pc = "markSync" => now[Manifest] = "complete"
    /\ pc \in Clearing => now[Manifest] # "open"
    /\ pc = "clear" => Unlinked(Record \ todo)
    /\ pc \in {"clearManifest", "rmdir"} => Unlinked(Record)
    /\ pc = "rmdir" => now[Manifest] = Absent
    /\ pc = "rmdirSync" => now[Pending] = Absent

Ending == pc \in Clearing \cup {"return"}

\* What is going to be told.
Outlook ==
    /\ pc = "return" /\ after = "plan" => now[Pending] = Absent
    /\ pc \in Recovering => after # "ok"
    /\ after = "ok" /\ Ending => AtGoal /\ ~Undoable
    /\ after = "landed" /\ pc \in Recovering => pc = "recover" /\ now[Manifest] = "complete"
    /\ after = "landed" /\ (pc = "recover" \/ Ending) => AtGoal
    /\ after = "landed" /\ pc = "return" => ~Undoable
    /\ after = "raise" /\ pc = "recover" /\ now[Manifest] # "open" => AtBase
    /\ after = "raise" /\ Ending => AtBase

\* What was told.
ToldDurably ==
    /\ told = "ok" => AtGoal /\ ~Undoable
    /\ told = "failed" => AtBase

IInv ==
    /\ TypeOK
    /\ Tables
    /\ OldOrNew
    /\ Journal
    /\ CommitPosition
    /\ RecoveryPosition
    /\ Outlook
    /\ ToldDurably
    /\ KillsKeepOriginals

-----------------------------------------------------------------------------
(* Entries, and what the directory operations do to them.                  *)

LEMMA Entries ==
    /\ \A r \in Record : File(r) \in Files /\ Before(r) \in Staged
    /\ Manifest \in Staged
    /\ \A e \in Files : \E r \in Record : e = File(r)
    /\ \A e \in Staged : e = Manifest \/ \E r \in Record : e = Before(r)
    /\ Files \subseteq Entry /\ Staged \subseteq Entry /\ Pending \in Entry
    /\ \A e \in Entry : e \in Files \/ e \in Staged \/ e = Pending
    /\ Files \cap Staged = {} /\ Pending \notin Files /\ Pending \notin Staged
    /\ \A r, s \in Record : File(r) = File(s) => r = s
    /\ \A r, s \in Record : Before(r) = Before(s) => r = s
    /\ \A r \in Record : Before(r) # Manifest
<1>1. \A r, s \in Record : File(r) = File(s) => r = s
  BY DEF File
<1>2. \A r, s \in Record : Before(r) = Before(s) => r = s
  BY DEF Before
<1>3. \A r, s \in Record : File(r) # Before(s)
  BY DEF File, Before
<1>4. \A r \in Record : File(r) # Manifest /\ Before(r) # Manifest
  BY DEF File, Before, Manifest
<1>5. \A r \in Record : File(r) # Pending /\ Before(r) # Pending
  BY DEF File, Before, Pending
<1>6. Manifest # Pending
  BY DEF Manifest, Pending
<1>. QED
  BY <1>1, <1>2, <1>3, <1>4, <1>5, <1>6 DEF Files, Staged, Entry

\* What an entry may hold.
LEMMA AllowedValues ==
    /\ \A r \in Record : Allowed(File(r)) = Content /\ Allowed(Before(r)) = Content
    /\ Allowed(Manifest) = Marker
    /\ Allowed(Pending) = {"present", Absent}
BY Entries DEF Allowed

LEMMA PutEntry ==
    ASSUME Tables, NEW e \in Entry, NEW value, Put(e, value)
    PROVE  /\ Tables'
           /\ now'[e] = value /\ disk'[e] = disk[e] \cup {value}
           /\ \A f \in Entry : f # e => now'[f] = now[f] /\ disk'[f] = disk[f]
BY DEF Tables, Put

LEMMA SyncEntries ==
    ASSUME Tables, NEW entries, Sync(entries)
    PROVE  /\ Tables'
           /\ \A f \in Entry : now'[f] = now[f]
           /\ \A f \in Entry : disk'[f] = IF f \in entries THEN {now[f]} ELSE disk[f]
BY DEF Tables, Sync

-----------------------------------------------------------------------------
(* What a state says of its files alone.                                   *)

\* Steps that leave the files and the manifest's changes as they are.
LEMMA FilesStay ==
    ASSUME UNCHANGED <<files, plan>>
    PROVE  /\ AtBase' <=> AtBase
           /\ AtGoal' <=> AtGoal
           /\ Undoable' <=> Undoable
           /\ Repairable' <=> Repairable
           /\ Tables' <=> Tables
           /\ OldOrNew' <=> OldOrNew
           /\ Journal' <=> Journal
           /\ Changed' = Changed /\ Existed' = Existed
<1>. USE DEF files, plan
<1>1. /\ AtBase' <=> AtBase
      /\ AtGoal' <=> AtGoal
      /\ Settled' <=> Settled
      /\ Changed' = Changed /\ Existed' = Existed
  BY DEF AtBase, AtGoal, Settled, Changed, Existed
<1>2. Undoable' <=> Undoable
  BY DEF Undoable
<1>3. Repairable' <=> Repairable
  BY <1>1 DEF Repairable, MissingBackup
<1>4. Tables' <=> Tables
  BY DEF Tables
<1>5. OldOrNew' <=> OldOrNew
  BY <1>1 DEF OldOrNew
<1>6. Journal' <=> Journal
  BY <1>1 DEF Journal
<1>. QED
  BY <1>1, <1>2, <1>3, <1>4, <1>5, <1>6

\* Changed records are those that a commit visits, with or without an original.
LEMMA ChangedRecords ==
    ASSUME TypeOK
    PROVE  /\ Existed \subseteq Changed /\ Changed \subseteq Record
           /\ \A r \in Changed \ Existed : base[r] = Absent
           /\ \A r \in Record \ Changed : goal[r] = base[r]
BY DEF TypeOK, Changed, Existed

\* An open manifest can be seen, and its transaction undone.
LEMMA OpenIsUndoable ==
    ASSUME TypeOK, Journal, now[Manifest] = "open"
    PROVE  Undoable
BY Entries DEF TypeOK, Journal, Undoable

\* The control of a step that changes no file: all but where the writer stands.
LEMMA ControlStep ==
    ASSUME IInv, UNCHANGED <<files, plan>>,
           pc' \in PC, todo' \in SUBSET Record, told' \in {"none", "ok", "failed"},
           after' \in {"plan", "ok", "landed", "signalled", "raise", "repair"},
           faults' \in 0..MaxFaults, powered' \in BOOLEAN, powered => powered',
           CommitPosition', RecoveryPosition', Outlook', ToldDurably'
    PROVE  IInv'
<1>1. TypeOK'
  BY DEF IInv, TypeOK, files, plan
<1>. QED
  BY <1>1, FilesStay DEF IInv, KillsKeepOriginals

-----------------------------------------------------------------------------
(* Steps that change no file.                                              *)

LEMMA BeginStep == ASSUME IInv, Begin PROVE IInv'
<1>1. CommitPosition' /\ RecoveryPosition'
  BY FilesStay DEF IInv, Begin, Goto, CommitPosition, RecoveryPosition, Committing, Clearing
<1>2. Outlook' /\ ToldDurably'
  BY FilesStay DEF IInv, Begin, Goto, Outlook, ToldDurably, Ending, Clearing
<1>. QED
  BY <1>1, <1>2, ControlStep
     DEF IInv, TypeOK, Begin, Goto, PC, Recovering, history

LEMMA BackupsDoneStep == ASSUME IInv, BackupsDone PROVE IInv'
<1>. USE DEF BackupsDone, Visited, Goto
<1>1. CommitPosition'
  BY FilesStay DEF IInv, CommitPosition, Linked, Committing, files, plan
<1>2. RecoveryPosition' /\ Outlook' /\ ToldDurably'
  BY FilesStay DEF IInv, RecoveryPosition, Outlook, ToldDurably, Ending, Clearing, Recovering
<1>. QED
  BY <1>1, <1>2, ControlStep DEF IInv, TypeOK, PC, Committing, history

LEMMA ChangesStep == ASSUME IInv, Changes PROVE IInv'
<1>. USE DEF Changes, Visited, Goto
<1>1. \A r \in Record : pc = "change" /\ todo = {} => now[File(r)] = goal[r]
  <2>1. \A r \in Record \ Changed : disk[File(r)] \subseteq {base[r], goal[r]} /\ goal[r] = base[r]
                                     /\ now[File(r)] \in disk[File(r)]
    BY ChangedRecords, Entries DEF IInv, OldOrNew, TypeOK
  <2>. QED
    BY <2>1 DEF IInv, CommitPosition
<1>2. CommitPosition'
  BY <1>1, FilesStay DEF IInv, CommitPosition, Committing, files, plan
<1>3. RecoveryPosition' /\ Outlook' /\ ToldDurably'
  BY FilesStay DEF IInv, RecoveryPosition, Outlook, ToldDurably, Ending, Clearing, Recovering
<1>. QED
  BY <1>2, <1>3, ControlStep DEF IInv, TypeOK, PC, Committing, history

LEMMA RestoredStep == ASSUME IInv, Restored PROVE IInv'
<1>. USE DEF Restored, Visited, Goto
<1>1. \A r \in Record : pc = "restore" /\ todo = {} => now[File(r)] = base[r]
  <2>1. \A r \in Record \ Changed : disk[File(r)] \subseteq {base[r], goal[r]} /\ goal[r] = base[r]
                                     /\ now[File(r)] \in disk[File(r)]
    BY ChangedRecords, Entries DEF IInv, OldOrNew, TypeOK
  <2>. QED
    BY <2>1 DEF IInv, RecoveryPosition
<1>2. RecoveryPosition'
  BY <1>1, FilesStay DEF IInv, RecoveryPosition, Clearing, files, plan
<1>3. CommitPosition' /\ Outlook' /\ ToldDurably'
  BY FilesStay DEF IInv, CommitPosition, Outlook, ToldDurably, Ending, Committing, Clearing, Recovering
<1>. QED
  BY <1>2, <1>3, ControlStep DEF IInv, TypeOK, PC, Recovering, history

LEMMA ClearedStep == ASSUME IInv, Cleared PROVE IInv'
<1>. USE DEF Cleared, Visited, Goto
<1>1. RecoveryPosition'
  BY FilesStay DEF IInv, RecoveryPosition, Unlinked, Clearing, files
<1>2. CommitPosition' /\ Outlook' /\ ToldDurably'
  BY FilesStay DEF IInv, CommitPosition, Outlook, ToldDurably, Ending, Committing, Clearing, Recovering
<1>. QED
  BY <1>1, <1>2, ControlStep DEF IInv, TypeOK, PC, Clearing, history

LEMMA RecoverStep == ASSUME IInv, Recover PROVE IInv'
<1>. USE DEF Recover
<1>1. pc' \in {"return", "clear", "restore"} /\ todo' \in SUBSET Record
  BY ChangedRecords DEF IInv, TypeOK
<1>2. CommitPosition'
  BY <1>1, FilesStay DEF CommitPosition, Committing
<1>3. pc' = "restore" => todo' \subseteq Changed /\ Linked(Existed)
  BY Entries, ChangedRecords DEF IInv, TypeOK, OldOrNew, Linked, MissingBackup
<1>4. RecoveryPosition'
  BY <1>1, <1>3, FilesStay DEF RecoveryPosition, Linked, Unlinked, Clearing, files, plan
<1>5. now[Pending] = Absent => now[Manifest] = Absent
  BY Entries DEF IInv, Journal
<1>6. Outlook'
  BY <1>5, FilesStay, AbsentAssumption DEF IInv, Outlook, Ending, Recovering, Clearing, files
<1>7. ToldDurably'
  BY FilesStay DEF IInv, ToldDurably
<1>. QED
  BY <1>1, <1>2, <1>4, <1>6, <1>7, ControlStep
     DEF IInv, TypeOK, PC, Clearing, Recovering, history

LEMMA ReturnStep == ASSUME IInv, Return PROVE IInv'
<1>. USE DEF Return, Goto
<1>1. CommitPosition' /\ RecoveryPosition'
  BY FilesStay DEF IInv, CommitPosition, RecoveryPosition, Outlook, Ending, Committing, Clearing, files
<1>2. Outlook' /\ ToldDurably'
  BY FilesStay DEF IInv, Outlook, ToldDurably, Ending, Clearing, Recovering
<1>. QED
  BY <1>1, <1>2, ControlStep DEF IInv, TypeOK, PC, history

LEMMA FaultCounted ==
    ASSUME TypeOK, NEW kind, Fault(kind)
    PROVE  /\ faults' \in 0..MaxFaults /\ powered' \in BOOLEAN
           /\ powered => powered'
BY FaultAssumption DEF TypeOK, Fault

LEMMA CommitFailsStep == ASSUME IInv, CommitFails PROVE IInv'
<1>. USE DEF CommitFails
<1>1. CommitPosition' /\ RecoveryPosition' /\ ToldDurably'
  BY FilesStay DEF IInv, CommitPosition, RecoveryPosition, ToldDurably, Committing, Clearing
<1>2. Outlook'
  <2>1. CASE pc = "completeSync"
    BY <2>1, FilesStay DEF IInv, Outlook, CommitPosition, Ending, Clearing, Recovering, files
  <2>2. CASE pc # "completeSync"
    <3>1. now[Manifest] # "open" => AtBase
      BY <2>2, Entries DEF IInv, TypeOK, CommitPosition, Committing
    <3>. QED
      BY <2>2, <3>1, FilesStay DEF Outlook, Ending, Clearing, Recovering, files
  <2>. QED
    BY <2>1, <2>2
<1>. QED
  BY <1>1, <1>2, FaultCounted, ControlStep DEF IInv, TypeOK, PC, Recovering

LEMMA CleanupFailsStep == ASSUME IInv, CleanupFails PROVE IInv'
<1>. USE DEF CleanupFails
<1>1. CommitPosition' /\ RecoveryPosition' /\ ToldDurably'
  BY FilesStay DEF IInv, CommitPosition, RecoveryPosition, ToldDurably, Committing, Clearing
<1>2. Outlook'
  BY FilesStay DEF IInv, Outlook, Ending, Clearing, Recovering
<1>. QED
  BY <1>1, <1>2, FaultCounted, ControlStep DEF IInv, TypeOK, PC

\* A stopped writer promises nothing but what was told.
LEMMA StopsStep ==
    ASSUME IInv, Stops
    PROVE  CommitPosition' /\ RecoveryPosition' /\ Outlook'
BY DEF Stops, CommitPosition, RecoveryPosition, Outlook, Ending, Committing, Clearing, Recovering

LEMMA KillStep == ASSUME IInv, Kill PROVE IInv'
<1>. USE DEF Kill, Stops
<1>1. ToldDurably'
  BY FilesStay DEF IInv, ToldDurably
<1>. QED
  BY <1>1, StopsStep, FaultCounted, ControlStep DEF IInv, TypeOK, PC

-----------------------------------------------------------------------------
(* Steps that change the staging directory alone.                          *)

Staging == Staged \cup {Pending}

LEMMA PutStaged ==
    ASSUME IInv, UNCHANGED plan,
           NEW e \in Staging, NEW value \in Allowed(e), Put(e, value),
           \A r \in Existed : e = Before(r) => value \in {Absent, base[r]}
    PROVE  /\ Tables' /\ Typed' /\ OldOrNew'
           /\ now'[e] = value /\ disk'[e] = disk[e] \cup {value}
           /\ \A f \in Entry : f # e => now'[f] = now[f] /\ disk'[f] = disk[f]
           /\ AtBase' <=> AtBase
           /\ AtGoal' <=> AtGoal
           /\ now[Manifest] # "open" => Settled'
           /\ Changed' = Changed /\ Existed' = Existed
<1>1. /\ Tables'
      /\ now'[e] = value /\ disk'[e] = disk[e] \cup {value}
      /\ \A f \in Entry : f # e => now'[f] = now[f] /\ disk'[f] = disk[f]
  BY PutEntry, Entries DEF IInv, Staging
<1>2. base' = base /\ goal' = goal /\ Changed' = Changed /\ Existed' = Existed
  BY DEF plan, Changed, Existed
<1>3. \A r \in Record : now'[File(r)] = now[File(r)] /\ disk'[File(r)] = disk[File(r)]
  <2>1. \A r \in Record : File(r) \in Entry /\ File(r) # e
    BY Entries DEF Staging
  <2>. QED
    BY <1>1, <2>1
<1>4. Typed'
  BY <1>1 DEF IInv, TypeOK, Typed
<1>5. OldOrNew'
  <2>1. \A r \in Existed : disk'[Before(r)] \subseteq {Absent, base[r]}
    BY <1>1, Entries, ChangedRecords DEF IInv, OldOrNew
  <2>2. \A r \in Record : disk'[File(r)] \subseteq {base[r], goal[r]}
    BY <1>3 DEF IInv, OldOrNew
  <2>. QED
    BY <1>2, <2>1, <2>2 DEF OldOrNew
<1>6. /\ AtBase' <=> AtBase
      /\ AtGoal' <=> AtGoal
      /\ now[Manifest] # "open" => Settled'
  BY <1>2, <1>3 DEF IInv, Journal, AtBase, AtGoal, Settled
<1>. QED
  BY <1>1, <1>2, <1>4, <1>5, <1>6

LEMMA SyncStaged ==
    ASSUME IInv, UNCHANGED plan, NEW entries \in SUBSET Staging, Sync(entries)
    PROVE  /\ Tables' /\ Typed' /\ OldOrNew'
           /\ \A f \in Entry : now'[f] = now[f]
           /\ \A f \in Entry : disk'[f] = IF f \in entries THEN {now[f]} ELSE disk[f]
           /\ AtBase' <=> AtBase
           /\ AtGoal' <=> AtGoal
           /\ now[Manifest] # "open" => Settled'
           /\ Changed' = Changed /\ Existed' = Existed
<1>1. /\ Tables'
      /\ \A f \in Entry : now'[f] = now[f]
      /\ \A f \in Entry : disk'[f] = IF f \in entries THEN {now[f]} ELSE disk[f]
  BY SyncEntries DEF IInv
<1>2. base' = base /\ goal' = goal /\ Changed' = Changed /\ Existed' = Existed
  BY DEF plan, Changed, Existed
<1>3. \A r \in Record : now'[File(r)] = now[File(r)] /\ disk'[File(r)] = disk[File(r)]
  <2>1. \A r \in Record : File(r) \in Entry /\ File(r) \notin entries
    BY Entries DEF Staging
  <2>. QED
    BY <1>1, <2>1
<1>4. Typed'
  BY <1>1 DEF IInv, TypeOK, Typed
<1>5. OldOrNew'
  <2>1. ASSUME NEW r \in Existed PROVE disk'[Before(r)] \subseteq {Absent, base[r]}
    <3>1. Before(r) \in Entry /\ disk[Before(r)] \subseteq {Absent, base[r]}
      BY Entries, ChangedRecords DEF IInv, OldOrNew
    <3>2. now[Before(r)] \in disk[Before(r)]
      BY <3>1 DEF IInv, TypeOK
    <3>. QED
      BY <1>1, <3>1, <3>2
  <2>2. \A r \in Record : disk'[File(r)] \subseteq {base[r], goal[r]}
    BY <1>3 DEF IInv, OldOrNew
  <2>. QED
    BY <1>2, <2>1, <2>2 DEF OldOrNew
<1>6. /\ AtBase' <=> AtBase
      /\ AtGoal' <=> AtGoal
      /\ now[Manifest] # "open" => Settled'
  BY <1>2, <1>3 DEF IInv, Journal, AtBase, AtGoal, Settled
<1>. QED
  BY <1>1, <1>2, <1>4, <1>5, <1>6

\* What is left to show of a step: everything but the types of the files.
LEMMA FileStep ==
    ASSUME IInv, UNCHANGED plan, Tables', Typed', OldOrNew',
           pc' \in PC, todo' \in SUBSET Record, told' \in {"none", "ok", "failed"},
           after' \in {"plan", "ok", "landed", "signalled", "raise", "repair"},
           UNCHANGED history,
           Journal', CommitPosition', RecoveryPosition', Outlook', ToldDurably', KillsKeepOriginals'
    PROVE  IInv'
BY DEF IInv, TypeOK, Typed, plan, history

LEMMA BackupStep ==
    ASSUME IInv, NEW r \in Record, Backup(r)
    PROVE  IInv'
<1>1. /\ pc = "backup" /\ pc' = "backup" /\ r \in todo /\ todo' = todo \ {r}
      /\ Put(Before(r), now[File(r)]) /\ UNCHANGED <<after, told, plan, history>>
  BY DEF Backup, Visit
<1>2. /\ AtBase /\ disk[Manifest] = {Absent} /\ disk[Pending] = {"present"} /\ told = "none"
      /\ Linked(Existed \ todo)
  BY <1>1 DEF IInv, CommitPosition, Committing
<1>3. now[File(r)] = base[r] /\ base[r] \in Allowed(Before(r)) /\ Before(r) \in Staging
  <2>1. now[File(r)] \in disk[File(r)] /\ disk[File(r)] = {base[r]}
    BY <1>2, Entries DEF IInv, TypeOK, AtBase
  <2>. QED
    BY <2>1, Entries, AllowedValues DEF IInv, TypeOK, Staging
<1>4. now[Manifest] = Absent /\ now[Pending] = "present"
  BY <1>2, Entries DEF IInv, TypeOK
<1>5. Put(Before(r), base[r]) /\ \A s \in Existed : Before(r) = Before(s) => base[r] = base[s]
  BY <1>1, <1>3, Entries, ChangedRecords DEF IInv
<1>6. /\ Tables' /\ Typed' /\ OldOrNew' /\ AtBase' /\ Settled' /\ Existed' = Existed
      /\ now'[Before(r)] = base[r]
      /\ \A f \in Entry : f # Before(r) => now'[f] = now[f] /\ disk'[f] = disk[f]
  BY <1>1, <1>2, <1>3, <1>4, <1>5, PutStaged, AbsentAssumption
<1>7. UNCHANGED <<now[Manifest], disk[Manifest], now[Pending], disk[Pending]>>
  BY <1>6, Entries
<1>8. Journal'
  BY <1>4, <1>6, <1>7, AbsentAssumption DEF Journal
<1>9. CommitPosition'
  <2>1. \A s \in Existed \ todo' : now'[Before(s)] = base[s]
    BY <1>1, <1>2, <1>6, Entries, ChangedRecords DEF IInv, Linked
  <2>. QED
    BY <1>1, <1>2, <1>6, <1>7, <2>1 DEF CommitPosition, Committing, Linked, plan
<1>10. RecoveryPosition' /\ Outlook' /\ ToldDurably' /\ KillsKeepOriginals'
  BY <1>1, <1>2, <1>4, <1>7, AbsentAssumption
     DEF RecoveryPosition, Outlook, ToldDurably, KillsKeepOriginals, Repairable, Ending, Clearing, Recovering
<1>. QED
  BY <1>1, <1>6, <1>8, <1>9, <1>10, FileStep DEF IInv, TypeOK

LEMMA BackupSyncStep == ASSUME IInv, BackupSync PROVE IInv'
<1>1. /\ pc = "backupSync" /\ pc' = "manifest" /\ Sync(Staged)
      /\ UNCHANGED <<todo, after, told, plan, history>>
  BY DEF BackupSync, Step, Goto
<1>2. /\ AtBase /\ disk[Manifest] = {Absent} /\ disk[Pending] = {"present"} /\ told = "none"
      /\ Linked(Existed)
  BY <1>1 DEF IInv, CommitPosition, Committing
<1>3. now[Manifest] = Absent /\ now[Pending] = "present"
  BY <1>2, Entries DEF IInv, TypeOK
<1>4. /\ Tables' /\ Typed' /\ OldOrNew' /\ AtBase' /\ Settled' /\ Existed' = Existed
      /\ \A f \in Entry : now'[f] = now[f]
      /\ \A f \in Entry : disk'[f] = IF f \in Staged THEN {now[f]} ELSE disk[f]
  BY <1>1, <1>2, <1>3, SyncStaged, AbsentAssumption DEF Staging
<1>5. UNCHANGED <<now[Manifest], disk[Manifest], now[Pending], disk[Pending]>>
  BY <1>2, <1>3, <1>4, Entries
<1>6. Journal'
  BY <1>3, <1>4, <1>5, AbsentAssumption DEF Journal
<1>7. CommitPosition'
  <2>1. \A s \in Existed : now'[Before(s)] = base[s]
    BY <1>2, <1>4, Entries, ChangedRecords DEF IInv, Linked
  <2>. QED
    BY <1>1, <1>2, <1>4, <1>5, <2>1 DEF CommitPosition, Committing, Linked, plan
<1>8. RecoveryPosition' /\ Outlook' /\ ToldDurably' /\ KillsKeepOriginals'
  BY <1>1, <1>2, <1>3, <1>5, AbsentAssumption
     DEF RecoveryPosition, Outlook, ToldDurably, KillsKeepOriginals, Repairable, Ending, Clearing, Recovering
<1>. QED
  BY <1>1, <1>4, <1>6, <1>7, <1>8, FileStep DEF IInv, TypeOK, PC, Committing

LEMMA WriteManifestStep == ASSUME IInv, WriteManifest PROVE IInv'
<1>1. /\ pc = "manifest" /\ pc' = "manifestSync" /\ Put(Manifest, "open")
      /\ UNCHANGED <<todo, after, told, plan, history>>
  BY DEF WriteManifest, Step, Goto
<1>2. /\ AtBase /\ disk[Manifest] = {Absent} /\ disk[Pending] = {"present"} /\ told = "none"
      /\ Linked(Existed)
  BY <1>1 DEF IInv, CommitPosition, Committing
<1>3. now[Pending] = "present"
  BY <1>2, Entries DEF IInv, TypeOK
<1>4. Manifest \in Staging /\ "open" \in Allowed(Manifest) /\ \A r \in Existed : Manifest # Before(r)
  BY Entries, AllowedValues, ChangedRecords DEF IInv, Staging, Marker
<1>5. /\ Tables' /\ Typed' /\ OldOrNew' /\ AtBase' /\ Existed' = Existed
      /\ now'[Manifest] = "open" /\ disk'[Manifest] = {Absent, "open"}
      /\ \A f \in Entry : f # Manifest => now'[f] = now[f] /\ disk'[f] = disk[f]
  BY <1>1, <1>2, <1>4, PutStaged
<1>6. UNCHANGED <<now[Pending], disk[Pending]>>
  BY <1>5, Entries
<1>7. Journal'
  BY <1>2, <1>3, <1>5, <1>6, AbsentAssumption DEF Journal
<1>8. CommitPosition' /\ RecoveryPosition' /\ Outlook' /\ ToldDurably'
  BY <1>1, <1>2, <1>5, <1>6
     DEF CommitPosition, RecoveryPosition, Outlook, ToldDurably, Ending, Committing, Clearing, Recovering
<1>9. KillsKeepOriginals'
  <2>1. \A r \in Existed : now'[Before(r)] # Absent
    BY <1>2, <1>4, <1>5, Entries, ChangedRecords DEF IInv, Linked, Existed
  <2>. QED
    BY <1>5, <2>1 DEF KillsKeepOriginals, Repairable, MissingBackup
<1>. QED
  BY <1>1, <1>5, <1>7, <1>8, <1>9, FileStep DEF IInv, TypeOK, PC, Committing

LEMMA ManifestSyncStep == ASSUME IInv, ManifestSync PROVE IInv'
<1>1. /\ pc = "manifestSync" /\ pc' = "change" /\ Sync(Staged) /\ todo' = Changed
      /\ UNCHANGED <<after, told, plan, history>>
  BY DEF ManifestSync, Step, Goto
<1>2. /\ AtBase /\ now[Manifest] = "open" /\ disk[Pending] = {"present"} /\ told = "none"
  BY <1>1 DEF IInv, CommitPosition, Committing
<1>3. /\ Tables' /\ Typed' /\ OldOrNew' /\ AtBase'
      /\ Existed' = Existed /\ Changed' = Changed
      /\ \A f \in Entry : now'[f] = now[f]
      /\ \A f \in Entry : disk'[f] = IF f \in Staged THEN {now[f]} ELSE disk[f]
  BY <1>1, <1>2, SyncStaged DEF Staging
<1>4. /\ now'[Manifest] = "open" /\ disk'[Manifest] = {"open"}
      /\ now'[Pending] = "present" /\ disk'[Pending] = {"present"}
  BY <1>2, <1>3, Entries DEF IInv, TypeOK
<1>5. Journal'
  BY <1>3, <1>4, AbsentAssumption DEF Journal
<1>6. CommitPosition' /\ RecoveryPosition' /\ Outlook' /\ ToldDurably'
  BY <1>1, <1>2, <1>3, <1>4
     DEF CommitPosition, RecoveryPosition, Outlook, ToldDurably, Ending, Committing, Clearing, Recovering
<1>7. KillsKeepOriginals'
  <2>1. \A r \in Existed : now'[Before(r)] = now[Before(r)]
    BY <1>3, Entries, ChangedRecords DEF IInv
  <2>. QED
    BY <1>1, <1>2, <1>3, <2>1 DEF IInv, KillsKeepOriginals, Repairable, MissingBackup, history
<1>. QED
  BY <1>1, <1>3, <1>5, <1>6, <1>7, ChangedRecords, FileStep DEF IInv, TypeOK, PC, Committing

LEMMA CompleteStep == ASSUME IInv, Complete PROVE IInv'
<1>1. /\ pc = "complete" /\ pc' = "completeSync" /\ Put(Manifest, "complete")
      /\ UNCHANGED <<todo, after, told, plan, history>>
  BY DEF Complete, Step, Goto
<1>2. AtGoal /\ disk[Manifest] = {"open"} /\ disk[Pending] = {"present"} /\ told = "none"
  BY <1>1 DEF IInv, CommitPosition, Committing
<1>3. now[Pending] = "present"
  BY <1>2, Entries DEF IInv, TypeOK
<1>4. Manifest \in Staging /\ "complete" \in Allowed(Manifest) /\ \A r \in Existed : Manifest # Before(r)
  BY Entries, AllowedValues, ChangedRecords DEF IInv, Staging, Marker
<1>5. /\ Tables' /\ Typed' /\ OldOrNew' /\ AtGoal' /\ now'[Manifest] = "complete"
      /\ \A f \in Entry : f # Manifest => now'[f] = now[f] /\ disk'[f] = disk[f]
  BY <1>1, <1>2, <1>4, PutStaged
<1>6. UNCHANGED <<now[Pending], disk[Pending]>>
  BY <1>5, Entries
<1>7. Settled'
  BY <1>5, Entries DEF Typed, AtGoal, Settled
<1>8. Journal' /\ KillsKeepOriginals'
  BY <1>3, <1>5, <1>6, <1>7, AbsentAssumption DEF Journal, KillsKeepOriginals, Repairable
<1>9. CommitPosition' /\ RecoveryPosition' /\ Outlook' /\ ToldDurably'
  BY <1>1, <1>2, <1>5, <1>6
     DEF CommitPosition, RecoveryPosition, Outlook, ToldDurably, Ending, Committing, Clearing, Recovering
<1>. QED
  BY <1>1, <1>5, <1>8, <1>9, FileStep DEF IInv, TypeOK, PC, Committing

LEMMA CompleteSyncStep == ASSUME IInv, CompleteSync PROVE IInv'
<1>1. /\ pc = "completeSync" /\ pc' = "clear" /\ Sync(Staged) /\ after' = "ok"
      /\ todo' = {r \in Record : now[Before(r)] # Absent}
      /\ UNCHANGED <<told, plan, history>>
  BY DEF CompleteSync, Goto
<1>2. AtGoal /\ now[Manifest] = "complete" /\ disk[Pending] = {"present"} /\ told = "none"
  BY <1>1 DEF IInv, CommitPosition, Committing
<1>3. /\ Tables' /\ Typed' /\ OldOrNew' /\ AtGoal' /\ Settled'
      /\ \A f \in Entry : now'[f] = now[f]
      /\ \A f \in Entry : disk'[f] = IF f \in Staged THEN {now[f]} ELSE disk[f]
  BY <1>1, <1>2, SyncStaged DEF Staging
<1>4. /\ now'[Manifest] = "complete" /\ disk'[Manifest] = {"complete"}
      /\ now'[Pending] = "present"
  BY <1>2, <1>3, Entries DEF IInv, TypeOK
<1>5. Journal' /\ KillsKeepOriginals' /\ ~Undoable'
  BY <1>3, <1>4, AbsentAssumption DEF Journal, KillsKeepOriginals, Repairable, Undoable
<1>6. RecoveryPosition'
  BY <1>1, <1>3, <1>4, Entries DEF RecoveryPosition, Unlinked, Clearing
<1>7. CommitPosition' /\ Outlook' /\ ToldDurably'
  BY <1>1, <1>2, <1>3, <1>5 DEF CommitPosition, Outlook, ToldDurably, Committing, Recovering
<1>. QED
  BY <1>1, <1>3, <1>5, <1>6, <1>7, FileStep DEF IInv, TypeOK, PC, Clearing

LEMMA MarkStep == ASSUME IInv, Mark PROVE IInv'
<1>1. /\ pc = "mark" /\ pc' = "markSync" /\ Put(Manifest, "complete")
      /\ UNCHANGED <<todo, after, told, plan, history>>
  BY DEF Mark, Step, Goto
<1>2. AtBase /\ now[Manifest] = "open" /\ disk[Pending] = {"present"}
  BY <1>1 DEF IInv, RecoveryPosition, Journal
<1>3. /\ now[Pending] = "present"
      /\ told # "ok" /\ after \notin {"ok", "landed"}
  BY <1>1, <1>2, Entries, OpenIsUndoable DEF IInv, TypeOK, ToldDurably, Outlook, Recovering
<1>4. Manifest \in Staging /\ "complete" \in Allowed(Manifest) /\ \A r \in Existed : Manifest # Before(r)
  BY Entries, AllowedValues, ChangedRecords DEF IInv, Staging, Marker
<1>5. /\ Tables' /\ Typed' /\ OldOrNew' /\ AtBase' /\ now'[Manifest] = "complete"
      /\ \A f \in Entry : f # Manifest => now'[f] = now[f] /\ disk'[f] = disk[f]
  BY <1>1, <1>2, <1>4, PutStaged
<1>6. UNCHANGED <<now[Pending], disk[Pending]>>
  BY <1>5, Entries
<1>7. Settled'
  BY <1>5, Entries DEF Typed, AtBase, Settled
<1>8. Journal' /\ KillsKeepOriginals'
  BY <1>3, <1>5, <1>6, <1>7, AbsentAssumption DEF Journal, KillsKeepOriginals, Repairable
<1>9. CommitPosition' /\ RecoveryPosition' /\ Outlook' /\ ToldDurably'
  BY <1>1, <1>3, <1>5
     DEF CommitPosition, RecoveryPosition, Outlook, ToldDurably, Ending, Committing, Clearing, Recovering
<1>. QED
  BY <1>1, <1>5, <1>8, <1>9, FileStep DEF IInv, TypeOK, PC, Recovering

LEMMA MarkSyncStep == ASSUME IInv, MarkSync PROVE IInv'
<1>1. /\ pc = "markSync" /\ pc' = "clear" /\ Sync(Staged)
      /\ todo' = {r \in Record : now[Before(r)] # Absent}
      /\ UNCHANGED <<after, told, plan, history>>
  BY DEF MarkSync, Step, Goto
<1>2. AtBase /\ now[Manifest] = "complete" /\ after \notin {"ok", "landed"}
  BY <1>1 DEF IInv, RecoveryPosition, Outlook, Recovering
<1>3. /\ Tables' /\ Typed' /\ OldOrNew' /\ AtBase' /\ Settled' /\ (AtGoal' <=> AtGoal)
      /\ \A f \in Entry : now'[f] = now[f]
      /\ \A f \in Entry : disk'[f] = IF f \in Staged THEN {now[f]} ELSE disk[f]
  BY <1>1, <1>2, SyncStaged DEF Staging
<1>4. /\ now'[Manifest] = "complete" /\ disk'[Manifest] = {"complete"}
      /\ now'[Pending] = now[Pending]
  BY <1>2, <1>3, Entries
<1>5. now[Pending] # Absent
  BY <1>2, Entries, AbsentAssumption DEF IInv, Journal
<1>6. Journal' /\ KillsKeepOriginals' /\ ~Undoable'
  BY <1>3, <1>4, <1>5, AbsentAssumption DEF Journal, KillsKeepOriginals, Repairable, Undoable
<1>7. RecoveryPosition'
  BY <1>1, <1>3, <1>4, Entries DEF RecoveryPosition, Unlinked, Clearing
<1>8. CommitPosition' /\ Outlook' /\ ToldDurably'
  BY <1>1, <1>2, <1>3, <1>6 DEF IInv, CommitPosition, Outlook, ToldDurably, Committing, Recovering
<1>. QED
  BY <1>1, <1>3, <1>6, <1>7, <1>8, FileStep DEF IInv, TypeOK, PC, Clearing

\* A cleanup writes nothing but absences, and cannot make a commit undoable.
LEMMA CleanupStep ==
    ASSUME IInv, pc \in Clearing, pc' \in Clearing, UNCHANGED <<after, told, plan, history>>,
           todo' \in SUBSET Record,
           NEW e \in Staging, Put(e, Absent), e = Pending => \A f \in Staged : now[f] = Absent,
           RecoveryPosition'
    PROVE  IInv'
<1>1. Absent \in Allowed(e)
  BY Entries, AllowedValues DEF Staging, Marker, Content
<1>2. /\ Tables' /\ Typed' /\ OldOrNew' /\ (AtBase' <=> AtBase) /\ (AtGoal' <=> AtGoal) /\ Settled'
      /\ now'[e] = Absent /\ disk'[e] = disk[e] \cup {Absent}
      /\ \A f \in Entry : f # e => now'[f] = now[f] /\ disk'[f] = disk[f]
  BY <1>1, PutStaged DEF IInv, RecoveryPosition
<1>3. now'[Manifest] # "open"
  BY <1>2, Entries, AbsentAssumption DEF IInv, RecoveryPosition
<1>4. Undoable' => Undoable
  BY <1>2, Entries, AbsentAssumption DEF Undoable
<1>5. now'[Pending] = Absent => \A f \in Staged : now'[f] = Absent
  <2>1. CASE e = Pending
    BY <1>2, <2>1, Entries
  <2>2. CASE e # Pending
    BY <1>2, <2>2, Entries DEF IInv, Journal
  <2>. QED
    BY <2>1, <2>2
<1>6. Journal' /\ KillsKeepOriginals'
  BY <1>2, <1>3, <1>5 DEF Journal, KillsKeepOriginals, Repairable
<1>7. CommitPosition' /\ Outlook' /\ ToldDurably'
  BY <1>2, <1>3, <1>4
     DEF IInv, CommitPosition, Outlook, ToldDurably, Ending, Committing, Clearing, Recovering
<1>. QED
  BY <1>2, <1>6, <1>7, FileStep DEF IInv, TypeOK, PC

LEMMA ClearStep ==
    ASSUME IInv, NEW r \in Record, Clear(r)
    PROVE  IInv'
<1>1. /\ pc = "clear" /\ pc' = "clear" /\ r \in todo /\ todo' = todo \ {r}
      /\ Put(Before(r), Absent) /\ UNCHANGED <<after, told, plan, history>>
  BY DEF Clear, Visit
<1>2. Before(r) \in Staging /\ Before(r) # Pending /\ Before(r) # Manifest /\ Before(r) \in Entry
  BY Entries DEF Staging
<1>3. RecoveryPosition'
  <2>1. /\ now'[Before(r)] = Absent
        /\ \A f \in Entry : f # Before(r) => now'[f] = now[f]
    BY <1>1, <1>2, PutEntry DEF IInv
  <2>2. \A s \in Record \ todo' : now'[Before(s)] = Absent
    BY <1>1, <2>1, Entries DEF IInv, RecoveryPosition, Unlinked
  <2>3. now'[Manifest] # "open"
    BY <1>1, <1>2, <2>1, Entries DEF IInv, RecoveryPosition, Clearing
  <2>. QED
    BY <1>1, <2>2, <2>3 DEF RecoveryPosition, Unlinked
<1>. QED
  BY <1>1, <1>2, <1>3, CleanupStep DEF IInv, TypeOK, Clearing

LEMMA ClearManifestStep == ASSUME IInv, ClearManifest PROVE IInv'
<1>1. /\ pc = "clearManifest" /\ pc' = "rmdir" /\ Put(Manifest, Absent)
      /\ UNCHANGED <<todo, after, told, plan, history>>
  BY DEF ClearManifest, Step, Goto
<1>2. Manifest \in Staging /\ Manifest # Pending /\ Manifest \in Entry
  BY Entries DEF Staging
<1>3. RecoveryPosition'
  <2>1. /\ now'[Manifest] = Absent
        /\ \A f \in Entry : f # Manifest => now'[f] = now[f]
    BY <1>1, <1>2, PutEntry DEF IInv
  <2>2. \A s \in Record : now'[Before(s)] = Absent
    BY <1>1, <2>1, Entries DEF IInv, RecoveryPosition, Unlinked
  <2>. QED
    BY <1>1, <2>1, <2>2, AbsentAssumption DEF RecoveryPosition, Unlinked
<1>. QED
  BY <1>1, <1>2, <1>3, CleanupStep DEF IInv, TypeOK, Clearing

LEMMA RmdirStep == ASSUME IInv, Rmdir PROVE IInv'
<1>1. /\ pc = "rmdir" /\ pc' = "rmdirSync" /\ Put(Pending, Absent)
      /\ UNCHANGED <<todo, after, told, plan, history>>
  BY DEF Rmdir, Step, Goto
<1>2. Pending \in Staging /\ Pending # Manifest /\ Pending \in Entry /\ Manifest \in Entry
  BY Entries DEF Staging
<1>3. now[Manifest] = Absent /\ \A f \in Staged : now[f] = Absent
  BY <1>1, Entries DEF IInv, RecoveryPosition, Unlinked
<1>4. RecoveryPosition'
  <2>1. now'[Pending] = Absent /\ now'[Manifest] = Absent
    BY <1>1, <1>2, <1>3, PutEntry DEF IInv
  <2>. QED
    BY <1>1, <2>1, AbsentAssumption DEF RecoveryPosition
<1>. QED
  BY <1>1, <1>2, <1>3, <1>4, CleanupStep DEF IInv, TypeOK, Clearing

LEMMA RmdirSyncStep == ASSUME IInv, RmdirSync PROVE IInv'
<1>1. /\ pc = "rmdirSync" /\ pc' = "return" /\ Sync({Pending})
      /\ UNCHANGED <<todo, after, told, plan, history>>
  BY DEF RmdirSync, Step, Goto
<1>2. now[Pending] = Absent /\ now[Manifest] # "open"
  BY <1>1 DEF IInv, RecoveryPosition, Clearing
<1>3. /\ Tables' /\ Typed' /\ OldOrNew' /\ (AtBase' <=> AtBase) /\ (AtGoal' <=> AtGoal) /\ Settled'
      /\ \A f \in Entry : now'[f] = now[f]
      /\ \A f \in Entry : disk'[f] = IF f \in {Pending} THEN {now[f]} ELSE disk[f]
  BY <1>1, <1>2, SyncStaged DEF Staging
<1>4. /\ now'[Pending] = Absent /\ disk'[Pending] = {Absent}
      /\ now'[Manifest] = now[Manifest] /\ \A f \in Staged : now'[f] = now[f]
  BY <1>2, <1>3, Entries
<1>5. Journal' /\ KillsKeepOriginals' /\ ~Undoable'
  BY <1>2, <1>3, <1>4, AbsentAssumption DEF IInv, Journal, KillsKeepOriginals, Repairable, Undoable
<1>6. CommitPosition' /\ RecoveryPosition' /\ ToldDurably'
  BY <1>1, <1>3, <1>5 DEF IInv, CommitPosition, RecoveryPosition, ToldDurably, Committing, Clearing
<1>7. Outlook'
  BY <1>1, <1>3, <1>4, <1>5 DEF IInv, Outlook, Ending, Clearing, Recovering
<1>. QED
  BY <1>1, <1>3, <1>5, <1>6, <1>7, FileStep DEF IInv, TypeOK, PC

-----------------------------------------------------------------------------
(* Steps that change records.                                              *)

\* A record takes its base or goal under an open manifest, durable unless
\* every record stays as it is.
LEMMA PutRecord ==
    ASSUME IInv, now[Manifest] = "open", UNCHANGED plan,
           NEW r \in Record, NEW value \in {base[r], goal[r]}, Put(File(r), value),
           Absent \in disk[Manifest] => value = base[r]
    PROVE  /\ Tables' /\ Typed' /\ OldOrNew' /\ Journal'
           /\ Changed' = Changed /\ Existed' = Existed
           /\ now'[File(r)] = value
           /\ \A s \in Record \ {r} : now'[File(s)] = now[File(s)]
           /\ \A f \in Entry \ Files : now'[f] = now[f] /\ disk'[f] = disk[f]
           /\ AtBase /\ value = base[r] => AtBase'
<1>1. File(r) \in Entry /\ value \in Allowed(File(r))
  BY Entries, AllowedValues DEF IInv, TypeOK
<1>2. /\ Tables'
      /\ now'[File(r)] = value /\ disk'[File(r)] = disk[File(r)] \cup {value}
      /\ \A f \in Entry : f # File(r) => now'[f] = now[f] /\ disk'[f] = disk[f]
  BY <1>1, PutEntry DEF IInv
<1>3. base' = base /\ goal' = goal /\ Changed' = Changed /\ Existed' = Existed
  BY DEF plan, Changed, Existed
<1>4. Typed'
  BY <1>1, <1>2 DEF IInv, TypeOK, Typed
<1>5. \A s \in Record \ {r} : now'[File(s)] = now[File(s)] /\ disk'[File(s)] = disk[File(s)]
  <2>1. \A s \in Record \ {r} : File(s) \in Entry /\ File(s) # File(r)
    BY Entries
  <2>. QED
    BY <1>2, <2>1
<1>6. \A f \in Entry \ Files : now'[f] = now[f] /\ disk'[f] = disk[f]
  BY <1>2, Entries
<1>7. OldOrNew'
  <2>1. \A s \in Existed : disk'[Before(s)] \subseteq {Absent, base[s]}
    BY <1>6, Entries, ChangedRecords DEF IInv, OldOrNew
  <2>2. \A s \in Record : disk'[File(s)] \subseteq {base[s], goal[s]}
    BY <1>2, <1>5 DEF IInv, OldOrNew
  <2>. QED
    BY <1>3, <2>1, <2>2 DEF OldOrNew
<1>8. AtBase /\ value = base[r] => AtBase'
  BY <1>2, <1>3, <1>5 DEF AtBase
<1>9. /\ now'[Manifest] = "open" /\ disk'[Manifest] = disk[Manifest]
      /\ now'[Pending] = now[Pending] /\ disk'[Pending] = disk[Pending]
      /\ \A f \in Staged : now'[f] = now[f]
  BY <1>6, Entries
<1>10. Journal'
  BY <1>8, <1>9 DEF IInv, Journal
<1>. QED
  BY <1>2, <1>3, <1>4, <1>5, <1>6, <1>7, <1>8, <1>10

LEMMA ChangeStep ==
    ASSUME IInv, NEW r \in Record, Change(r)
    PROVE  IInv'
<1>1. /\ pc = "change" /\ pc' = "change" /\ r \in todo /\ todo' = todo \ {r}
      /\ Put(File(r), goal[r]) /\ UNCHANGED <<after, told, plan, history>>
  BY DEF Change, Visit
<1>2. /\ disk[Manifest] = {"open"} /\ now[Manifest] = "open"
      /\ disk[Pending] = {"present"} /\ told = "none"
  BY <1>1, Entries DEF IInv, TypeOK, CommitPosition, Committing
<1>3. /\ Tables' /\ Typed' /\ OldOrNew' /\ Journal'
      /\ Changed' = Changed /\ Existed' = Existed
      /\ now'[File(r)] = goal[r]
      /\ \A s \in Record \ {r} : now'[File(s)] = now[File(s)]
      /\ \A f \in Entry \ Files : now'[f] = now[f] /\ disk'[f] = disk[f]
  BY <1>1, <1>2, PutRecord, AbsentAssumption
<1>4. /\ now'[Manifest] = "open" /\ disk'[Manifest] = {"open"} /\ disk'[Pending] = {"present"}
      /\ \A s \in Existed : now'[Before(s)] = now[Before(s)]
  BY <1>2, <1>3, Entries, ChangedRecords DEF IInv
<1>5. CommitPosition'
  <2>1. \A s \in Changed \ todo' : now'[File(s)] = goal[s]
    BY <1>1, <1>3, ChangedRecords DEF IInv, CommitPosition
  <2>. QED
    BY <1>1, <1>2, <1>3, <1>4, <2>1 DEF CommitPosition, Committing, plan
<1>6. RecoveryPosition' /\ Outlook' /\ ToldDurably'
  BY <1>1, <1>2 DEF RecoveryPosition, Outlook, ToldDurably, Ending, Clearing, Recovering
<1>7. KillsKeepOriginals'
  BY <1>1, <1>2, <1>3, <1>4 DEF IInv, KillsKeepOriginals, Repairable, MissingBackup, history
<1>. QED
  BY <1>1, <1>3, <1>5, <1>6, <1>7, FileStep DEF IInv, TypeOK

LEMMA RestoreStep ==
    ASSUME IInv, NEW r \in Record, Restore(r)
    PROVE  IInv'
<1>1. /\ pc = "restore" /\ pc' = "restore" /\ r \in todo /\ todo' = todo \ {r}
      /\ UNCHANGED <<after, told, plan, history>>
  BY DEF Restore, Visit
<1>2. /\ now[Manifest] = "open" /\ disk[Pending] = {"present"}
      /\ r \in Changed /\ Linked(Existed)
  BY <1>1 DEF IInv, RecoveryPosition, Journal
<1>3. told # "ok" /\ after \notin {"ok", "landed"}
  BY <1>1, <1>2, OpenIsUndoable DEF IInv, ToldDurably, Outlook, Recovering
<1>4. \/ UNCHANGED files /\ now[File(r)] = base[r]
      \/ Put(File(r), base[r])
  <2>1. (IF base[r] = Absent THEN Absent ELSE now[Before(r)]) = base[r]
    BY <1>2, ChangedRecords DEF IInv, Linked
  <2>. QED
    BY <2>1 DEF Restore
<1>5. /\ Tables' /\ Typed' /\ OldOrNew' /\ Journal'
      /\ Changed' = Changed /\ Existed' = Existed
      /\ now'[File(r)] = base[r]
      /\ \A s \in Record \ {r} : now'[File(s)] = now[File(s)]
      /\ \A f \in Entry \ Files : now'[f] = now[f] /\ disk'[f] = disk[f]
      /\ AtBase => AtBase'
  <2>1. CASE UNCHANGED files /\ now[File(r)] = base[r]
    <3>1. Typed'
      BY <2>1 DEF IInv, TypeOK, Typed, files
    <3>. QED
      BY <1>1, <2>1, <3>1, FilesStay DEF IInv, files
  <2>2. CASE Put(File(r), base[r])
    BY <1>1, <1>2, <2>2, PutRecord
  <2>. QED
    BY <1>4, <2>1, <2>2
<1>6. /\ now'[Manifest] = "open"
      /\ \A s \in Existed : now'[Before(s)] = now[Before(s)]
  BY <1>2, <1>5, Entries, ChangedRecords DEF IInv
<1>7. RecoveryPosition'
  <2>1. \A s \in Changed \ todo' : now'[File(s)] = base[s]
    BY <1>1, <1>5, ChangedRecords DEF IInv, RecoveryPosition
  <2>2. \A s \in Existed : now'[Before(s)] = base[s]
    BY <1>2, <1>6 DEF Linked
  <2>. QED
    BY <1>1, <1>2, <1>5, <1>6, <2>1, <2>2 DEF IInv, RecoveryPosition, Linked, Clearing, plan
<1>8. CommitPosition' /\ Outlook' /\ ToldDurably'
  BY <1>1, <1>3, <1>5
     DEF IInv, CommitPosition, Outlook, ToldDurably, Ending, Committing, Clearing, Recovering
<1>9. KillsKeepOriginals'
  BY <1>1, <1>2, <1>5, <1>6 DEF IInv, KillsKeepOriginals, Repairable, MissingBackup, history
<1>. QED
  BY <1>1, <1>5, <1>7, <1>8, <1>9, FileStep DEF IInv, TypeOK

\* The records that an fsync of their directory makes durable.
LEMMA SyncFiles ==
    ASSUME IInv, now[Manifest] = "open", UNCHANGED plan, Sync(Files)
    PROVE  /\ Tables' /\ Typed' /\ OldOrNew' /\ Settled'
           /\ Changed' = Changed /\ Existed' = Existed
           /\ \A f \in Entry : now'[f] = now[f]
           /\ \A f \in Entry \ Files : disk'[f] = disk[f]
           /\ AtBase => AtBase'
           /\ Journal'
<1>1. /\ Tables'
      /\ \A f \in Entry : now'[f] = now[f]
      /\ \A f \in Entry : disk'[f] = IF f \in Files THEN {now[f]} ELSE disk[f]
  BY SyncEntries DEF IInv
<1>2. base' = base /\ goal' = goal /\ Changed' = Changed /\ Existed' = Existed
  BY DEF plan, Changed, Existed
<1>3. Typed'
  BY <1>1 DEF IInv, TypeOK, Typed
<1>4. \A r \in Record :
        /\ now'[File(r)] = now[File(r)] /\ disk'[File(r)] = {now[File(r)]}
        /\ now[File(r)] \in disk[File(r)]
  BY <1>1, Entries DEF IInv, TypeOK
<1>5. Settled' /\ (AtBase => AtBase')
  BY <1>2, <1>4 DEF Settled, AtBase
<1>6. \A f \in Entry \ Files : disk'[f] = disk[f]
  BY <1>1
<1>7. OldOrNew'
  <2>1. \A s \in Existed : disk'[Before(s)] \subseteq {Absent, base[s]}
    BY <1>6, Entries, ChangedRecords DEF IInv, OldOrNew
  <2>2. \A s \in Record : disk'[File(s)] \subseteq {base[s], goal[s]}
    BY <1>4 DEF IInv, OldOrNew
  <2>. QED
    BY <1>2, <2>1, <2>2 DEF OldOrNew
<1>8. /\ now'[Manifest] = "open" /\ disk'[Manifest] = disk[Manifest]
      /\ now'[Pending] = now[Pending] /\ disk'[Pending] = disk[Pending]
      /\ \A f \in Staged : now'[f] = now[f]
  BY <1>1, Entries
<1>9. Journal'
  BY <1>5, <1>8 DEF IInv, Journal
<1>. QED
  BY <1>1, <1>2, <1>3, <1>5, <1>6, <1>7, <1>9

LEMMA SourceSyncStep == ASSUME IInv, SourceSync PROVE IInv'
<1>1. /\ pc = "sourceSync" /\ pc' = "complete" /\ Sync(Files)
      /\ UNCHANGED <<todo, after, told, plan, history>>
  BY DEF SourceSync, Step, Goto
<1>2. /\ disk[Manifest] = {"open"} /\ now[Manifest] = "open"
      /\ disk[Pending] = {"present"} /\ told = "none"
      /\ \A r \in Record : now[File(r)] = goal[r]
  BY <1>1, Entries DEF IInv, TypeOK, CommitPosition, Committing
<1>3. /\ Tables' /\ Typed' /\ OldOrNew' /\ Settled' /\ Journal' /\ Existed' = Existed
      /\ \A f \in Entry : now'[f] = now[f]
      /\ \A f \in Entry \ Files : disk'[f] = disk[f]
  BY <1>1, <1>2, SyncFiles
<1>4. AtGoal' /\ disk'[Manifest] = {"open"} /\ disk'[Pending] = {"present"}
  BY <1>1, <1>2, <1>3, Entries DEF Settled, AtGoal, plan
<1>5. CommitPosition' /\ RecoveryPosition' /\ Outlook' /\ ToldDurably'
  BY <1>1, <1>2, <1>4
     DEF CommitPosition, RecoveryPosition, Outlook, ToldDurably, Ending, Committing, Clearing, Recovering
<1>6. KillsKeepOriginals'
  <2>1. now'[Manifest] = now[Manifest] /\ \A s \in Existed : now'[Before(s)] = now[Before(s)]
    BY <1>3, Entries, ChangedRecords DEF IInv
  <2>. QED
    BY <1>1, <1>3, <2>1 DEF IInv, KillsKeepOriginals, Repairable, MissingBackup, history
<1>. QED
  BY <1>1, <1>3, <1>5, <1>6, FileStep DEF IInv, TypeOK, PC, Committing

LEMMA RestoreSyncStep == ASSUME IInv, RestoreSync PROVE IInv'
<1>1. /\ pc = "restoreSync" /\ pc' = "mark" /\ Sync(Files)
      /\ UNCHANGED <<todo, after, told, plan, history>>
  BY DEF RestoreSync, Step, Goto
<1>2. now[Manifest] = "open" /\ \A r \in Record : now[File(r)] = base[r]
  BY <1>1 DEF IInv, RecoveryPosition
<1>3. told # "ok" /\ after \notin {"ok", "landed"}
  BY <1>1, <1>2, OpenIsUndoable DEF IInv, ToldDurably, Outlook, Recovering
<1>4. /\ Tables' /\ Typed' /\ OldOrNew' /\ Settled' /\ Journal' /\ Existed' = Existed
      /\ \A f \in Entry : now'[f] = now[f]
  BY <1>1, <1>2, SyncFiles
<1>5. AtBase' /\ now'[Manifest] = "open"
  BY <1>1, <1>2, <1>4, Entries DEF Settled, AtBase, plan
<1>6. CommitPosition' /\ RecoveryPosition' /\ Outlook' /\ ToldDurably'
  BY <1>1, <1>3, <1>5
     DEF CommitPosition, RecoveryPosition, Outlook, ToldDurably, Ending, Committing, Clearing, Recovering
<1>7. KillsKeepOriginals'
  <2>1. now'[Manifest] = now[Manifest] /\ \A s \in Existed : now'[Before(s)] = now[Before(s)]
    BY <1>4, Entries, ChangedRecords DEF IInv
  <2>. QED
    BY <1>1, <1>4, <2>1 DEF IInv, KillsKeepOriginals, Repairable, MissingBackup, history
<1>. QED
  BY <1>1, <1>4, <1>6, <1>7, FileStep DEF IInv, TypeOK, PC, Recovering

-----------------------------------------------------------------------------
(* A new transaction, and a power loss.                                    *)

LEMMA PlanStep == ASSUME IInv, Plan PROVE IInv'
<1>1. /\ pc = "plan" /\ pc' = "backup"
      /\ base' = Records /\ goal' \in [Record -> Content]
      /\ todo' = {r \in Record : goal'[r] # base'[r] /\ base'[r] # Absent}
      /\ now' = [now EXCEPT ![Pending] = "present"]
      /\ disk' = [e \in Entry |-> IF e = Pending THEN {"present"}
                                  ELSE IF e \in Staged THEN {Absent} ELSE disk[e]]
      /\ told' = "none" /\ UNCHANGED <<after, history>>
  BY DEF Plan, Goto
<1>2. now[Pending] = Absent /\ \A e \in Staged : now[e] = Absent
  BY <1>1 DEF IInv, CommitPosition, Journal
<1>3. Settled
  BY <1>2, Entries, AbsentAssumption DEF IInv, Journal
<1>4. \A r \in Record : now[File(r)] \in Content
  <2>1. ASSUME NEW r \in Record PROVE File(r) \in Entry /\ Allowed(File(r)) = Content
    BY Entries, AllowedValues
  <2>. QED
    BY <2>1 DEF IInv, TypeOK
<1>5. base' \in [Record -> Content] /\ \A r \in Record : base'[r] = now[File(r)]
  BY <1>1, <1>4 DEF Records
<1>6. /\ Tables'
      /\ now'[Pending] = "present" /\ disk'[Pending] = {"present"}
      /\ \A e \in Staged : now'[e] = Absent /\ disk'[e] = {Absent}
      /\ \A e \in Files : now'[e] = now[e] /\ disk'[e] = disk[e]
  BY <1>1, <1>2, Entries DEF IInv, Tables
<1>7. AtBase' /\ Settled'
  BY <1>3, <1>5, <1>6, Entries DEF AtBase, Settled
<1>8. TypeOK'
  <2>1. ASSUME NEW e \in Entry PROVE now'[e] \in disk'[e] /\ disk'[e] \subseteq Allowed(e)
    <3>1. Absent \in Allowed(e) /\ (e = Pending => "present" \in Allowed(e))
      BY AllowedValues, Entries DEF Content, Marker, Allowed
    <3>2. now[e] \in disk[e] /\ disk[e] \subseteq Allowed(e)
      BY DEF IInv, TypeOK
    <3>. QED
      BY <1>6, <3>1, <3>2, Entries
  <2>. QED
    BY <1>1, <1>5, <2>1 DEF IInv, TypeOK, PC, Committing, history
<1>9. OldOrNew'
  BY <1>6, <1>7, Entries DEF OldOrNew, AtBase, Existed, Changed
<1>10. Journal' /\ KillsKeepOriginals'
  BY <1>6, <1>7, Entries, AbsentAssumption DEF Journal, KillsKeepOriginals, Repairable
<1>11. Existed' = todo'
  BY <1>1 DEF Existed, Changed
<1>12. CommitPosition'
  BY <1>1, <1>6, <1>7, <1>11, Entries DEF CommitPosition, Committing, Linked
<1>13. RecoveryPosition' /\ Outlook' /\ ToldDurably'
  BY <1>1 DEF RecoveryPosition, Outlook, ToldDurably, Ending, Clearing, Recovering
<1>. QED
  BY <1>6, <1>8, <1>9, <1>10, <1>12, <1>13 DEF IInv

\* After a power loss every entry is durable, with a value it may have had,
\* and a staging directory that went is empty.
LEMMA PowerLossFiles ==
    ASSUME IInv, PowerLoss
    PROVE  /\ Tables'
           /\ \A e \in Entry : disk'[e] = {now'[e]}
           /\ \A e \in Entry \ Staged : now'[e] \in disk[e]
           /\ \A e \in Staged : now'[e] \in disk[e] \/ now'[e] = Absent
           /\ now'[Pending] = Absent => \A e \in Staged : now'[e] = Absent
           /\ now'[Pending] # Absent => \A e \in Staged : now'[e] \in disk[e]
           /\ now'[Manifest] # Absent => now'[Manifest] \in disk[Manifest]
<1>1. PICK survived \in [Unsynced -> UNION {disk[e] : e \in Unsynced}] :
        LET left == [e \in Entry |-> IF e \in Unsynced THEN survived[e] ELSE now[e]] IN
        /\ \A e \in Unsynced : survived[e] \in disk[e]
        /\ now' = [e \in Entry |-> IF e \in Staged /\ left[Pending] = Absent
                                   THEN Absent ELSE left[e]]
  BY DEF PowerLoss
<1>. DEFINE left == [e \in Entry |-> IF e \in Unsynced THEN survived[e] ELSE now[e]]
<1>2. \A e \in Entry : left[e] \in disk[e]
  BY <1>1 DEF IInv, TypeOK, Unsynced
<1>3. now' = [e \in Entry |-> IF e \in Staged /\ left[Pending] = Absent THEN Absent ELSE left[e]]
  BY <1>1
<1>. HIDE DEF left
<1>4. disk' = [e \in Entry |-> {now'[e]}]
  BY DEF PowerLoss
<1>5. Tables'
  BY <1>3, <1>4 DEF Tables
<1>6. now'[Pending] = left[Pending]
  BY <1>3, Entries
<1>. QED
  BY <1>2, <1>3, <1>4, <1>5, <1>6, Entries

LEMMA PowerLossStep == ASSUME IInv, PowerLoss PROVE IInv'
<1>1. /\ Fault("power") /\ Stops /\ UNCHANGED <<plan, told>> /\ powered'
  BY DEF PowerLoss, Stops, Fault
<1>2. base' = base /\ goal' = goal /\ Changed' = Changed /\ Existed' = Existed
  BY <1>1 DEF plan, Changed, Existed
<1>3. \A r \in Record : now'[File(r)] \in disk[File(r)] /\ disk'[File(r)] = {now'[File(r)]}
  BY PowerLossFiles, Entries
<1>4. Settled' /\ (AtBase => AtBase') /\ (AtGoal => AtGoal')
  BY <1>2, <1>3 DEF Settled, AtBase, AtGoal
<1>5. now'[Pending] \in disk[Pending] /\ disk'[Pending] = {now'[Pending]} /\ disk'[Manifest] = {now'[Manifest]}
  BY PowerLossFiles, Entries
<1>6. TypeOK'
  <2>1. ASSUME NEW e \in Entry PROVE now'[e] \in disk'[e] /\ disk'[e] \subseteq Allowed(e)
    <3>1. Absent \in Allowed(e)
      BY AllowedValues, Entries DEF Content, Marker, Allowed
    <3>2. disk[e] \subseteq Allowed(e)
      BY DEF IInv, TypeOK
    <3>. QED
      BY <3>1, <3>2, PowerLossFiles
  <2>. QED
    BY <1>1, <1>2, <2>1, FaultCounted DEF IInv, TypeOK, PC, Stops
<1>7. OldOrNew'
  <2>1. ASSUME NEW r \in Existed PROVE disk'[Before(r)] \subseteq {Absent, base[r]}
    <3>1. Before(r) \in Staged /\ Before(r) \in Entry /\ disk[Before(r)] \subseteq {Absent, base[r]}
      BY Entries, ChangedRecords DEF IInv, OldOrNew
    <3>. QED
      BY <3>1, PowerLossFiles
  <2>2. \A r \in Record : disk'[File(r)] \subseteq {base[r], goal[r]}
    BY <1>3 DEF IInv, OldOrNew
  <2>. QED
    BY <1>2, <2>1, <2>2 DEF OldOrNew
<1>8. now'[Manifest] = "open" => Undoable /\ now'[Pending] = "present"
  BY <1>5, <1>6, PowerLossFiles, Entries, AllowedValues, AbsentAssumption DEF TypeOK, Undoable
<1>9. Undoable' => Undoable
  BY <1>5, <1>8 DEF Undoable
<1>10. Journal'
  BY <1>4, <1>5, <1>8, PowerLossFiles, AbsentAssumption DEF Journal
<1>11. ToldDurably'
  BY <1>1, <1>4, <1>9 DEF IInv, ToldDurably
<1>12. CommitPosition' /\ RecoveryPosition' /\ Outlook' /\ KillsKeepOriginals'
  BY <1>1, StopsStep DEF KillsKeepOriginals
<1>. QED
  BY <1>6, <1>7, <1>10, <1>11, <1>12, PowerLossFiles DEF IInv

-----------------------------------------------------------------------------
(* The theorems.                                                           *)

LEMMA Initially == Init => IInv /\ AtBase /\ AtGoal
<1>. SUFFICES ASSUME Init PROVE IInv /\ AtBase /\ AtGoal
  OBVIOUS
<1>. PICK content \in [Record -> Content] :
       /\ base = content /\ goal = content
       /\ now = [e \in Entry |-> IF e \in Files THEN content[e[2]] ELSE Absent]
  BY DEF Init
<1>1. \A r \in Record : now[File(r)] = content[r]
  <2>1. \A r \in Record : File(r) \in Files /\ File(r) \in Entry /\ File(r)[2] = r
    BY Entries DEF File
  <2>. QED
    BY <2>1
<1>2. \A e \in Entry \ Files : now[e] = Absent
  OBVIOUS
<1>3. \A e \in Entry : disk[e] = {now[e]}
  BY DEF Init
<1>4. TypeOK
  <2>1. ASSUME NEW e \in Entry PROVE now[e] \in disk[e] /\ disk[e] \subseteq Allowed(e)
    <3>1. now[e] \in Allowed(e)
      <4>1. CASE e \in Files
        <5>1. PICK r \in Record : e = File(r)
          BY <4>1, Entries
        <5>. QED
          BY <1>1, <5>1, AllowedValues
      <4>2. CASE e \notin Files
        BY <1>2, <4>2 DEF Allowed, Content, Marker
      <4>. QED
        BY <4>1, <4>2
    <3>. QED
      BY <1>3, <3>1
  <2>2. 0 \in 0..MaxFaults
    BY FaultAssumption
  <2>. QED
    BY <2>1, <2>2 DEF Init, TypeOK, PC
<1>5. Tables
  BY DEF Init, Tables
<1>6. AtBase /\ AtGoal /\ Settled /\ OldOrNew
  <2>1. \A r \in Record : disk[File(r)] = {content[r]}
    BY <1>1, <1>3, Entries
  <2>2. Existed = {}
    BY DEF Existed, Changed
  <2>. QED
    BY <1>1, <2>1, <2>2 DEF AtBase, AtGoal, Settled, OldOrNew
<1>7. Journal /\ KillsKeepOriginals
  BY <1>2, <1>6, Entries, AbsentAssumption DEF Journal, KillsKeepOriginals, Repairable
<1>8. CommitPosition /\ RecoveryPosition /\ Outlook /\ ToldDurably
  BY DEF Init, CommitPosition, RecoveryPosition, Outlook, ToldDurably, Ending, Committing,
         Clearing, Recovering
<1>. QED
  BY <1>4, <1>5, <1>6, <1>7, <1>8 DEF IInv

LEMMA StutterStep == ASSUME IInv, UNCHANGED vars PROVE IInv'
<1>. USE DEF vars
<1>1. CommitPosition' /\ RecoveryPosition'
  BY FilesStay DEF IInv, CommitPosition, RecoveryPosition, Linked, Unlinked, files, plan
<1>2. Outlook' /\ ToldDurably'
  BY FilesStay DEF IInv, Outlook, ToldDurably, Ending, files, plan
<1>. QED
  BY <1>1, <1>2, ControlStep DEF IInv, TypeOK, files, plan

\* The inductive invariant holds in every state.
THEOREM Invariance == Spec => []IInv
<1>1. IInv /\ [Next]_vars => IInv'
  <2>. SUFFICES ASSUME IInv, [Next]_vars PROVE IInv'
    OBVIOUS
  <2>1. CASE Writer
    <3>1. ASSUME NEW r \in Record, Backup(r) \/ Change(r) \/ Restore(r) \/ Clear(r)
          PROVE  IInv'
      BY <3>1, BackupStep, ChangeStep, RestoreStep, ClearStep
    <3>2. CASE Begin \/ Plan \/ BackupsDone \/ BackupSync \/ WriteManifest \/ ManifestSync
      BY <3>2, BeginStep, PlanStep, BackupsDoneStep, BackupSyncStep, WriteManifestStep,
         ManifestSyncStep
    <3>3. CASE Changes \/ SourceSync \/ Complete \/ CompleteSync
      BY <3>3, ChangesStep, SourceSyncStep, CompleteStep, CompleteSyncStep
    <3>4. CASE Recover \/ Restored \/ RestoreSync \/ Mark \/ MarkSync
      BY <3>4, RecoverStep, RestoredStep, RestoreSyncStep, MarkStep, MarkSyncStep
    <3>5. CASE Cleared \/ ClearManifest \/ Rmdir \/ RmdirSync \/ Return
      BY <3>5, ClearedStep, ClearManifestStep, RmdirStep, RmdirSyncStep, ReturnStep
    <3>. QED
      BY <2>1, <3>1, <3>2, <3>3, <3>4, <3>5 DEF Writer
  <2>2. CASE CommitFails \/ CleanupFails \/ Kill \/ PowerLoss
    BY <2>2, CommitFailsStep, CleanupFailsStep, KillStep, PowerLossStep
  <2>3. CASE UNCHANGED vars
    BY <2>3, StutterStep
  <2>. QED
    BY <2>1, <2>2, <2>3 DEF Next
<1>. QED
  BY <1>1, Initially, PTL DEF Spec

\* Every entry holds what it may, and so may come back after a power loss.
THEOREM TypeCorrect == Spec => []TypeOK
<1>1. IInv => TypeOK
  BY DEF IInv
<1>. QED
  BY <1>1, Invariance, PTL

LEMMA RecordsFrom ==
    ASSUME TypeOK
    PROVE  /\ AtBase => Records = base
           /\ AtGoal => Records = goal
<1>1. \A r \in Record : now[File(r)] \in disk[File(r)]
  BY Entries DEF TypeOK
<1>2. base = [r \in Record |-> base[r]] /\ goal = [r \in Record |-> goal[r]]
  BY DEF TypeOK
<1>3. AtBase => \A r \in Record : now[File(r)] = base[r]
  BY <1>1 DEF AtBase
<1>4. AtGoal => \A r \in Record : now[File(r)] = goal[r]
  BY <1>1 DEF AtGoal
<1>. QED
  BY <1>2, <1>3, <1>4 DEF Records

\* A commit that returned is never rolled back, and one that failed without
\* asking for recovery changed no record, whatever faults come later.
THEOREM OutcomesAreTold == Spec => []OutcomeTold
<1>1. IInv => OutcomeTold
  BY RecordsFrom DEF IInv, ToldDurably, OutcomeTold
<1>. QED
  BY <1>1, Invariance, PTL

\* No kill and no failing operation costs an open manifest its originals.
THEOREM OriginalsSurviveKills == Spec => []KillsKeepOriginals
<1>1. IInv => KillsKeepOriginals
  BY DEF IInv
<1>. QED
  BY <1>1, Invariance, PTL

-----------------------------------------------------------------------------
(* The refinement of AtomicRecords.                                        *)

Earlier == IF Undoable THEN base ELSE Visible

\* A step that readers do not see.
LEMMA UnseenStep ==
    ASSUME UNCHANGED plan, Visible' = Visible, Undoable' <=> Undoable
    PROVE  UNCHANGED Atomic!vars
BY DEF Atomic!vars, plan

LEMMA RecordsStay ==
    ASSUME \A r \in Record : now'[File(r)] = now[File(r)]
    PROVE  Records' = Records
BY DEF Records

LEMMA StagedStay ==
    ASSUME IInv,
           \/ \E value : Put(Manifest, value)
           \/ Sync(Staged) \/ Sync({Pending})
    PROVE  Records' = Records
<1>1. \A r \in Record : File(r) \in Entry /\ File(r) # Manifest /\ Manifest \in Entry
  BY Entries
<1>. QED
  BY <1>1, PutEntry, SyncEntries, RecordsStay DEF IInv

\* The steps that write or sync the staging directory, but for its markers.
LEMMA StagingUnseen ==
    ASSUME IInv,
           \/ \E r \in Record : Backup(r) \/ Clear(r)
           \/ BackupSync \/ ManifestSync \/ ClearManifest \/ Rmdir
    PROVE  UNCHANGED Atomic!vars
<1>1. ASSUME NEW r \in Record, NEW value, Put(Before(r), value), UNCHANGED plan
      PROVE  UNCHANGED Atomic!vars
  <2>1. /\ \A f \in Entry : f # Before(r) => now'[f] = now[f] /\ disk'[f] = disk[f]
        /\ \A s \in Record : File(s) \in Entry /\ File(s) # Before(r)
        /\ Manifest \in Entry /\ Manifest # Before(r) /\ Pending \in Entry /\ Pending # Before(r)
    BY <1>1, PutEntry, Entries DEF IInv
  <2>2. Visible' = Visible /\ (Undoable' <=> Undoable)
    BY <1>1, <2>1, RecordsStay DEF Visible, Undoable, plan
  <2>. QED
    BY <1>1, <2>2, UnseenStep
<1>2. ASSUME NEW r \in Record, Backup(r) \/ Clear(r) PROVE UNCHANGED Atomic!vars
  BY <1>1, <1>2 DEF Backup, Clear, Visit
<1>3. CASE BackupSync \/ ManifestSync
  <2>1. /\ Sync(Staged) /\ UNCHANGED plan /\ pc \in {"backupSync", "manifestSync"}
    BY <1>3 DEF BackupSync, ManifestSync, Step, Goto
  <2>2. /\ \A f \in Entry : now'[f] = now[f]
        /\ \A f \in Entry : disk'[f] = IF f \in Staged THEN {now[f]} ELSE disk[f]
    BY <2>1, SyncEntries DEF IInv
  <2>3. /\ \A s \in Record : now'[File(s)] = now[File(s)]
        /\ now'[Manifest] = now[Manifest] /\ disk'[Manifest] = {now[Manifest]}
        /\ disk'[Pending] = disk[Pending]
    BY <2>2, Entries
  <2>4. /\ pc = "backupSync" => disk[Manifest] = {Absent} /\ now[Manifest] = Absent
        /\ pc = "manifestSync" => now[Manifest] = "open" /\ "open" \in disk[Manifest]
    BY Entries DEF IInv, TypeOK, CommitPosition
  <2>5. Visible' = Visible /\ (Undoable' <=> Undoable)
    BY <2>1, <2>3, <2>4, RecordsStay, AbsentAssumption DEF Visible, Undoable, plan
  <2>. QED
    BY <2>1, <2>5, UnseenStep
<1>4. ASSUME NEW e \in {Manifest, Pending}, Put(e, Absent), now[Manifest] # "open", UNCHANGED plan
      PROVE  UNCHANGED Atomic!vars
  <2>1. /\ now'[e] = Absent /\ disk'[e] = disk[e] \cup {Absent}
        /\ \A f \in Entry : f # e => now'[f] = now[f] /\ disk'[f] = disk[f]
        /\ \A s \in Record : File(s) \in Entry /\ File(s) # e
        /\ Manifest \in Entry /\ Pending \in Entry
    BY <1>4, PutEntry, Entries DEF IInv
  <2>2. Visible' = Visible /\ (Undoable' <=> Undoable)
    BY <1>4, <2>1, RecordsStay, AbsentAssumption DEF Visible, Undoable, plan
  <2>. QED
    BY <1>4, <2>2, UnseenStep
<1>5. CASE ClearManifest \/ Rmdir
  <2>1. now[Manifest] # "open"
    BY <1>5 DEF IInv, RecoveryPosition, ClearManifest, Rmdir, Step, Goto, Clearing
  <2>. QED
    BY <1>4, <1>5, <2>1 DEF ClearManifest, Rmdir, Step
<1>. QED
  BY <1>2, <1>3, <1>5

\* The steps under an open manifest: readers are refused, and see the base.
LEMMA RecordsUnseen ==
    ASSUME IInv,
           SourceSync \/ RestoreSync \/ \E r \in Record : Change(r) \/ Restore(r)
    PROVE  UNCHANGED Atomic!vars
<1>1. /\ now[Manifest] = "open" /\ UNCHANGED plan
      /\ \/ UNCHANGED files \/ Sync(Files)
         \/ \E r \in Record : \E value \in {goal[r], now[Before(r)], Absent} : Put(File(r), value)
  <2>1. pc \in {"change", "sourceSync", "restore", "restoreSync"} /\ UNCHANGED plan
    BY DEF SourceSync, RestoreSync, Change, Restore, Step, Goto, Visit
  <2>2. now[Manifest] = "open"
    BY <2>1, Entries DEF IInv, TypeOK, CommitPosition, RecoveryPosition
  <2>. QED
    BY <2>1, <2>2 DEF SourceSync, RestoreSync, Change, Restore
<1>2. UNCHANGED <<now[Manifest], disk[Manifest], disk[Pending]>>
  <2>1. CASE UNCHANGED files
    BY <2>1 DEF files
  <2>2. CASE Sync(Files)
    BY <2>2, SyncEntries, Entries DEF IInv
  <2>3. ASSUME NEW r \in Record, NEW value, Put(File(r), value)
        PROVE  UNCHANGED <<now[Manifest], disk[Manifest], disk[Pending]>>
    <3>1. /\ File(r) \in Entry /\ Manifest \in Entry /\ Pending \in Entry
          /\ File(r) # Manifest /\ File(r) # Pending
      BY Entries
    <3>. QED
      BY <2>3, <3>1, PutEntry DEF IInv
  <2>. QED
    BY <1>1, <2>1, <2>2, <2>3
<1>. QED
  BY <1>1, <1>2, UnseenStep DEF Visible, Undoable, plan

\* The manifest appears over the base, and its marker over the base restored.
LEMMA ManifestUnseen ==
    ASSUME IInv, WriteManifest \/ Mark \/ MarkSync
    PROVE  UNCHANGED Atomic!vars
<1>1. UNCHANGED plan /\ AtBase /\ (Put(Manifest, "open") \/ Put(Manifest, "complete") \/ Sync(Staged))
  BY DEF IInv, WriteManifest, Mark, MarkSync, Step, Goto, CommitPosition, RecoveryPosition
<1>2. Records = base /\ Records' = Records
  BY <1>1, RecordsFrom, StagedStay DEF IInv
<1>3. Visible = base /\ Visible' = base
  BY <1>1, <1>2 DEF Visible, plan
<1>. QED
  BY <1>1, <1>3 DEF Atomic!vars, plan

LEMMA AtomicStep ==
    ASSUME IInv, [Next]_vars
    PROVE  Atomic!Next \/ UNCHANGED Atomic!vars
<1>1. CASE UNCHANGED <<files, plan>>
  BY <1>1, FilesStay, UnseenStep DEF Visible, Records, files, plan
<1>2. CASE \/ \E r \in Record : Backup(r) \/ Clear(r)
           \/ BackupSync \/ ManifestSync \/ ClearManifest \/ Rmdir
  BY <1>2, StagingUnseen
<1>3. CASE SourceSync \/ RestoreSync \/ \E r \in Record : Change(r) \/ Restore(r)
  BY <1>3, RecordsUnseen
<1>4. CASE WriteManifest \/ Mark \/ MarkSync
  BY <1>4, ManifestUnseen
<1>5. CASE Plan
  <2>1. /\ pc = "plan" /\ base' = Records /\ goal' \in [Record -> Content]
        /\ now' = [now EXCEPT ![Pending] = "present"]
        /\ disk' = [e \in Entry |-> IF e = Pending THEN {"present"}
                                    ELSE IF e \in Staged THEN {Absent} ELSE disk[e]]
    BY <1>5 DEF Plan, Goto
  <2>2. now[Manifest] = Absent
    BY <2>1, Entries DEF IInv, CommitPosition, Journal
  <2>3. now'[Manifest] = Absent /\ disk'[Manifest] = {Absent} /\ Records' = Records
    BY <2>1, <2>2, Entries, RecordsStay DEF IInv, Tables
  <2>4. Visible' = Visible /\ ~Undoable'
    BY <2>2, <2>3, AbsentAssumption DEF Visible, Undoable
  <2>. QED
    BY <2>1, <2>4 DEF Atomic!Next, Atomic!Begin, Atomic!Contents, Content
<1>6. CASE Complete
  <2>1. /\ pc = "complete" /\ Put(Manifest, "complete") /\ UNCHANGED plan
    BY <1>6 DEF Complete, Step, Goto
  <2>2. /\ AtGoal /\ disk[Manifest] = {"open"} /\ disk[Pending] = {"present"}
        /\ now[Manifest] = "open"
    BY <2>1, Entries DEF IInv, TypeOK, CommitPosition, Committing
  <2>3. Records' = goal
    BY <2>1, <2>2, StagedStay, RecordsFrom DEF IInv
  <2>4. now'[Manifest] = "complete" /\ "open" \in disk'[Manifest] /\ "present" \in disk'[Pending]
    BY <2>1, <2>2, PutEntry, Entries DEF IInv
  <2>5. Visible = base /\ Undoable /\ Visible' = goal /\ Undoable'
    BY <2>2, <2>3, <2>4 DEF Visible, Undoable
  <2>. QED
    BY <2>1, <2>5 DEF Atomic!Next, Atomic!Commit, plan
<1>7. CASE CompleteSync \/ RmdirSync
  <2>1. /\ UNCHANGED plan /\ now[Manifest] # "open"
        /\ \/ Sync(Staged) /\ now[Manifest] = "complete"
           \/ Sync({Pending}) /\ now[Pending] = Absent
    <3>1. CASE CompleteSync
      BY <3>1 DEF IInv, CompleteSync, Goto, CommitPosition
    <3>2. CASE RmdirSync
      BY <3>2 DEF IInv, RmdirSync, Step, Goto, RecoveryPosition, Clearing
    <3>. QED
      BY <1>7, <3>1, <3>2
  <2>2. /\ now'[Manifest] = now[Manifest] /\ Records' = Records
        /\ disk'[Manifest] = {"complete"} \/ disk'[Pending] = {Absent}
    BY <2>1, SyncEntries, StagedStay, Entries DEF IInv
  <2>3. Visible' = Visible /\ ~Undoable'
    BY <2>1, <2>2, AbsentAssumption DEF Visible, Undoable
  <2>. QED
    BY <2>1, <2>3 DEF Atomic!Next, Atomic!Settle, plan
<1>8. CASE PowerLoss
  <2>1. base' = base /\ goal' = goal
    BY <1>8 DEF PowerLoss, Stops, plan
  <2>2. /\ \A r \in Record : now'[File(r)] \in disk[File(r)]
        /\ disk'[Manifest] = {now'[Manifest]} /\ disk'[Pending] = {now'[Pending]}
        /\ now'[Pending] \in disk[Pending]
    BY <1>8, PowerLossFiles, Entries
  <2>3. now'[Manifest] = "open" => Undoable /\ Undoable'
    <3>1. now'[Pending] \in {"present", Absent}
      BY <2>2, Entries, AllowedValues DEF IInv, TypeOK
    <3>. QED
      BY <1>8, <2>2, <3>1, PowerLossFiles, Entries, AbsentAssumption DEF Undoable
  <2>4. CASE now'[Manifest] = "open"
    <3>1. Visible' = base /\ Undoable /\ Undoable'
      BY <2>1, <2>3, <2>4 DEF Visible
    <3>. QED
      BY <2>1, <3>1 DEF Atomic!Next, Atomic!Undo
  <2>5. CASE now'[Manifest] # "open"
    <3>1. ~Undoable' /\ Visible' = Records'
      BY <2>2, <2>5 DEF Undoable, Visible
    <3>2. Records' = Visible
      <4>1. CASE now[Manifest] # "open"
        <5>1. \A r \in Record : now'[File(r)] = now[File(r)]
          BY <2>2, <4>1 DEF IInv, Journal, Settled
        <5>. QED
          BY <4>1, <5>1, RecordsStay DEF Visible
      <4>2. CASE now[Manifest] = "open"
        <5>1. now'[Pending] = "present"
          BY <2>2, <4>2 DEF IInv, Journal
        <5>2. Absent \in disk[Manifest] /\ AtBase
          BY <1>8, <2>5, <4>2, <5>1, PowerLossFiles, AbsentAssumption, Entries DEF IInv, Journal
        <5>3. \A r \in Record : now'[File(r)] = now[File(r)]
          BY <2>2, <5>2, Entries DEF IInv, TypeOK, AtBase
        <5>. QED
          BY <4>2, <5>2, <5>3, RecordsStay, RecordsFrom DEF IInv, Visible
      <4>. QED
        BY <4>1, <4>2
    <3>. QED
      BY <2>1, <3>1, <3>2 DEF Atomic!Next, Atomic!Settle
  <2>. QED
    BY <2>4, <2>5
<1>. QED
  BY <1>1, <1>2, <1>3, <1>4, <1>5, <1>6, <1>7, <1>8
     DEF Next, Writer, Begin, BackupsDone, Changes, Restored, Cleared, Visited, Recover, Return,
         CommitFails, CleanupFails, Kill, Stops, vars, files, plan

\* Readers see every transaction whole or not at all, through kills, failing
\* operations and power losses at any point of a commit or of a recovery.
THEOREM Refinement == Spec => ImplementsAtomicRecords
<1>1. Init => Atomic!Init
  <2>. SUFFICES ASSUME Init PROVE Atomic!Init
    OBVIOUS
  <2>1. Records = base /\ goal = base /\ base \in [Record -> Content]
    BY Initially, RecordsFrom DEF IInv, TypeOK
  <2>. QED
    BY <2>1 DEF Visible, Atomic!Init, Atomic!Contents, Content
<1>. QED
  BY <1>1, AtomicStep, Invariance, PTL DEF Spec, ImplementsAtomicRecords, Atomic!Spec

=============================================================================
