----------------------------- MODULE FolderScan -----------------------------
(***************************************************************************)
(* How a freshness check avoids listing a source folder of memories/       *)
(* (index.py: _scan, _dirty, inputs; storage.py: Store.scan): a folder     *)
(* whose fingerprint is that of a trusted row answers from the cache.      *)
(* Files come and go, and permissions change, while a check lists it.      *)
(*                                                                         *)
(* A file stands for its fingerprint, which every new version changes; the *)
(* folder's own is the time of its last change.                            *)
(***************************************************************************)
EXTENDS Integers, FiniteSets

CONSTANTS
    File,        \* names of record files in the folder
    Settle,      \* _SETTLE
    Lag,         \* how far the time of a change may be behind the clock
    MaxTime, MaxChanges      \* bounds

\* What the constants must satisfy; the instances assume it.
FolderScanAssumption ==
    /\ IsFiniteSet(File) /\ "nested" \notin File
    /\ {Settle, Lag, MaxTime, MaxChanges} \subseteq Nat /\ Lag < Settle

VARIABLES
    clock,
    folder,    \* the source folder: time, versions of its files, and its nested folder
    changes,   \* versions so far
    cache,     \* the rows of its files, of a skipped entry, and its own
    check      \* where the check is, and its local variables

vars == <<clock, folder, changes, cache, check>>

Absent == 0
Never == 0 - 1
NoRow == [time |-> Never, trusted |-> FALSE]
Files == [File -> 0..MaxChanges]
NoFiles == [f \in File |-> Absent]
Idle == [at |-> "idle", started |-> 0, dirty |-> FALSE, time |-> Never, left |-> {},
         entries |-> 0, found |-> NoFiles, inner |-> Absent, skipped |-> Never]

\* A nested folder: its own time, one file, and whether bf may open it.
NoNested == [time |-> Never, inner |-> Absent, open |-> TRUE]
Nested == folder.nested # NoNested

TypeOK ==
    /\ clock \in 0..MaxTime /\ changes \in 0..MaxChanges
    /\ folder.time \in Never..MaxTime /\ folder.files \in Files
    /\ folder.nested.inner \in 0..MaxChanges
    /\ cache.files \in Files /\ cache.inner \in 0..MaxChanges
    /\ check.at \in {"idle", "stat", "list", "entries", "store"}

Init ==
    /\ clock = 0 /\ changes = 0
    /\ folder = [time |-> Never, files |-> NoFiles, nested |-> NoNested]
    /\ cache = [files |-> NoFiles, inner |-> Absent, skipped |-> Never, row |-> NoRow]
    /\ check = Idle

-----------------------------------------------------------------------------
(* _scan. *)

\* _dirty: a skipped entry of a trusted folder that changed in place.
Dirty == cache.row.trusted /\ cache.skipped # Never /\ cache.skipped # folder.nested.time

\* inputs takes the time before it states anything.
Begin ==
    /\ check.at = "idle"
    /\ check' = [Idle EXCEPT !.at = "stat", !.dirty = Dirty, !.started = clock]
    /\ UNCHANGED <<clock, folder, changes, cache>>

Reuses(time, dirty) == cache.row.trusted /\ cache.row.time = time /\ ~dirty

\* The folder is stated before it is listed; a reused one is not listed.
Stat ==
    /\ check.at = "stat"
    /\ check' = IF Reuses(folder.time, check.dirty) THEN Idle
                ELSE [check EXCEPT !.at = "list", !.time = folder.time]
    /\ UNCHANGED <<clock, folder, changes, cache>>

Present == {f \in File : folder.files[f] # Absent}

List ==
    /\ check.at = "list"
    /\ check' = [check EXCEPT !.at = "entries", !.left = Present \cup IF Nested THEN {"nested"} ELSE {},
                              !.entries = Cardinality(Present) + IF Nested THEN 1 ELSE 0]
    /\ UNCHANGED <<clock, folder, changes, cache>>

\* Each entry is stated when the listing gets to it; one that has gone by then
\* counts as an entry only.
StatFile(f) ==
    /\ check.at = "entries" /\ f \in check.left
    /\ check' = [check EXCEPT !.left = @ \ {f}, !.found[f] = folder.files[f]]
    /\ UNCHANGED <<clock, folder, changes, cache>>

\* A folder that cannot be opened is one skipped entry, with its fingerprint.
VisitNested ==
    /\ check.at = "entries" /\ "nested" \in check.left
    /\ check' = IF ~Nested \/ folder.nested.open
                THEN [check EXCEPT !.left = @ \ {"nested"}, !.inner = folder.nested.inner,
                                   !.entries = @ + IF folder.nested.inner = Absent THEN 0 ELSE 1]
                ELSE [check EXCEPT !.left = @ \ {"nested"}, !.skipped = folder.nested.time]
    /\ UNCHANGED <<clock, folder, changes, cache>>

Listed ==
    /\ check.at = "entries" /\ check.left = {}
    /\ check' = [check EXCEPT !.at = "store"]
    /\ UNCHANGED <<clock, folder, changes, cache>>

\* What the listing found: an entry per file, and per skipped entry.
Held ==
    Cardinality({f \in File : check.found[f] # Absent})
    + (IF check.inner # Absent THEN 1 ELSE 0) + (IF check.skipped # Never THEN 1 ELSE 0)

\* A mutant: a folder that just changed is settled.
TrustedNow == check.entries = Held

\* A row is trusted when the folder holds no other folder and did not change
\* for Settle before the check.
Trusted == check.time < check.started - Settle /\ check.entries = Held

\* The refresh stores what the check found.
Store ==
    /\ check.at = "store"
    /\ cache' = [files |-> check.found, inner |-> check.inner, skipped |-> check.skipped,
                 row |-> [time |-> check.time, trusted |-> Trusted]]
    /\ check' = Idle
    /\ UNCHANGED <<clock, folder, changes>>

\* Another check, or its refresh, fails or is killed first.
Abandon ==
    /\ check.at # "idle"
    /\ check' = Idle
    /\ UNCHANGED <<clock, folder, changes, cache>>

-----------------------------------------------------------------------------
(* The folder. *)

\* The filesystem dates a change a little in the past, but never before an
\* earlier change of the same folder.
Dated(last) == {t \in 0..clock : clock - Lag <= t /\ last <= t}

Version == changes + 1

\* A collection renames a record into place.
Put(f) ==
    /\ changes < MaxChanges
    /\ \E t \in Dated(folder.time) : folder' = [folder EXCEPT !.time = t, !.files[f] = Version]
    /\ changes' = Version
    /\ UNCHANGED <<clock, cache, check>>

Delete(f) ==
    /\ folder.files[f] # Absent
    /\ \E t \in Dated(folder.time) : folder' = [folder EXCEPT !.time = t, !.files[f] = Absent]
    /\ UNCHANGED <<clock, changes, cache, check>>

\* A person makes a nested folder, readable or not, with a file in it.
Nest ==
    /\ ~Nested /\ changes < MaxChanges
    /\ \E t \in Dated(folder.time), open \in BOOLEAN :
        folder' = [folder EXCEPT !.time = t, !.nested = [time |-> t, inner |-> Version, open |-> open]]
    /\ changes' = Version
    /\ UNCHANGED <<clock, cache, check>>

\* A change below the nested folder, or of its permissions, leaves the source
\* folder as it was; a person's changes of one entry are not within one Lag.
Within ==
    /\ Nested /\ changes < MaxChanges /\ folder.nested.time + Lag < clock
    /\ \E t \in Dated(folder.nested.time + 1) :
        \/ folder' = [folder EXCEPT !.nested.time = t, !.nested.inner = Version]
        \/ folder' = [folder EXCEPT !.nested.time = t, !.nested.open = ~@]
    /\ changes' = Version
    /\ UNCHANGED <<clock, cache, check>>

Tick ==
    /\ clock < MaxTime
    /\ clock' = clock + 1
    /\ UNCHANGED <<folder, changes, cache, check>>

Next ==
    \/ Begin \/ Stat \/ List \/ VisitNested \/ Listed \/ Store \/ Abandon
    \/ \E f \in File : StatFile(f) \/ Put(f) \/ Delete(f)
    \/ Nest \/ Within \/ Tick

Spec == Init /\ [][Next]_vars

-----------------------------------------------------------------------------

\* Files are committed and removed, folders appear and permissions change
\* before, between and after the steps of a check, and changes are dated late,
\* yet a folder that the next check would not list holds what the cache says.
NothingOverlooked ==
    Reuses(folder.time, Dirty) =>
        /\ cache.files = folder.files
        /\ folder.nested.open => cache.inner = folder.nested.inner

=============================================================================
