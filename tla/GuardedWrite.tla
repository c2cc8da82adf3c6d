---------------------------- MODULE GuardedWrite ----------------------------
(***************************************************************************)
(* Helpers that change one file of a brain only while it holds what they   *)
(* read (skills/bf-use/scripts/guarded-write.py: replace, lock, take),     *)
(* beside editors that save it without any lock.  A lock file is named     *)
(* after the inode of the file it guards; inodes are used again.           *)
(***************************************************************************)
EXTENDS Naturals

CONSTANTS
    Helper,                    \* runs of the helper, each with an edit of its own
    Editor,                    \* saves by programs that take no lock
    Inode,                     \* inodes of the brain's file system, as many as are free
    Leaf,                      \* inodes of the lock folder
    MaxKills, MaxReads         \* bounds

None == 0
Nobody == "nobody"

\* What the constants must satisfy; the instances assume it.
GuardedWriteAssumption ==
    /\ Helper \cap Editor = {} /\ Nobody \notin Helper
    /\ Inode # {} /\ None \notin Inode \cup Leaf

VARIABLES
    file,       \* its inode and content: the edits it holds
    temporary,  \* inodes of temporaries beside it
    leaf,       \* leaf[i]: the lock file named after inode i, or None
    holder,     \* holder[l]: who holds the lock on lock file l
    call,       \* one record per helper
    reads, kills,
    saved,      \* edits whose authors were told they are written
    raced       \* a save fell between a second check and its rename

vars == <<file, temporary, leaf, holder, call, reads, kills, saved, raced>>

Free == [at |-> "idle", expected |-> {}, target |-> None, leaf |-> None, held |-> FALSE,
         tried |-> FALSE, temporary |-> None, written |-> FALSE]
\* Steps at which a helper has its lock file open.
Opened == {"take", "held", "target", "read", "check", "rename", "leave", "close"}

TypeOK ==
    /\ file \in [inode : Inode, content : SUBSET (Helper \cup Editor)]
    /\ temporary \subseteq Inode
    /\ leaf \in [Inode -> Leaf \cup {None}]
    /\ holder \in [Leaf -> Helper \cup {Nobody}]
    /\ \A h \in Helper : call[h].at \in Opened \cup {"idle", "stat", "open", "done"}
    /\ saved \subseteq Helper \cup Editor /\ raced \in BOOLEAN

Init ==
    /\ file = [inode |-> CHOOSE i \in Inode : TRUE, content |-> {}]
    /\ temporary = {} /\ saved = {} /\ raced = FALSE
    /\ leaf = [i \in Inode |-> None] /\ holder = [l \in Leaf |-> Nobody]
    /\ call = [h \in Helper |-> Free]
    /\ reads = 0 /\ kills = 0

-----------------------------------------------------------------------------

At(h, step) == call[h].at = step
To(h, step) == call' = [call EXCEPT ![h].at = step]
Locks == <<leaf, holder>>
Files == <<file, temporary>>
Ghosts == <<saved, raced>>
Bounds == <<reads, kills>>

\* A new file gets any inode that none has: a step that creates one waits for it.
FreeInode == Inode \ ({file.inode} \cup temporary)
NewInode == CHOOSE i \in FreeInode : TRUE
\* An open lock file keeps its inode, removed or not.
FreeLeaf == Leaf \ ({leaf[i] : i \in Inode} \cup {call[h].leaf : h \in Helper})
NewLeaf == CHOOSE l \in FreeLeaf : TRUE

\* bf read, then the helper with the digest it returned; after a refusal the
\* author reads the file again.
Read(h) ==
    /\ At(h, "idle") /\ reads < MaxReads
    /\ reads' = reads + 1
    /\ call' = [call EXCEPT ![h] = [Free EXCEPT !.at = "stat", !.expected = file.content]]
    /\ UNCHANGED <<Files, Locks, kills, Ghosts>>

Stat(h) ==
    /\ At(h, "stat")
    /\ call' = [call EXCEPT ![h].at = "open", ![h].target = file.inode]
    /\ UNCHANGED <<Files, Locks, Bounds, Ghosts>>

Open(h) ==
    /\ At(h, "open")
    /\ leaf[call[h].target] # None \/ FreeLeaf # {}
    /\ LET t == call[h].target
           l == IF leaf[t] = None THEN NewLeaf ELSE leaf[t]
       IN  /\ leaf' = [leaf EXCEPT ![t] = l]
           /\ call' = [call EXCEPT ![h].at = "take", ![h].leaf = l]
    /\ UNCHANGED <<Files, holder, Bounds, Ghosts>>

Take(h) ==
    /\ At(h, "take")
    /\ holder[call[h].leaf] = Nobody
    /\ holder' = [holder EXCEPT ![call[h].leaf] = h]
    /\ To(h, "held")
    /\ UNCHANGED <<Files, leaf, Bounds, Ghosts>>

\* The lock file must still be the one locked ...
Held(h) ==
    /\ At(h, "held")
    /\ LET held == leaf[call[h].target] = call[h].leaf
       IN  call' = [call EXCEPT ![h].held = held, ![h].at = IF held THEN "target" ELSE "close"]
    /\ UNCHANGED <<Files, Locks, Bounds, Ghosts>>

\* ... and the file must still have the inode it is named after.
Target(h) ==
    /\ At(h, "target")
    /\ LET same == call[h].target = file.inode
       IN  call' = [call EXCEPT ![h].tried = same, ![h].at = IF same THEN "read" ELSE "leave"]
    /\ UNCHANGED <<Files, Locks, Bounds, Ghosts>>

\* replace: the first check and the temporary ...
Snapshot(h) ==
    /\ At(h, "read")
    /\ IF file.content # call[h].expected THEN To(h, "leave") /\ UNCHANGED temporary
       ELSE /\ FreeInode # {}
            /\ call' = [call EXCEPT ![h].at = "check", ![h].temporary = NewInode]
            /\ temporary' = temporary \cup {NewInode}
    /\ UNCHANGED <<file, Locks, Bounds, Ghosts>>

\* A mutant: the file is not compared again.
CheckAnyway(h) ==
    /\ At(h, "check") /\ To(h, "rename")
    /\ UNCHANGED <<Files, Locks, Bounds, Ghosts>>

\* ... the second check ...
Check(h) ==
    /\ At(h, "check")
    /\ IF file.content = call[h].expected THEN To(h, "rename") /\ UNCHANGED temporary
       ELSE /\ call' = [call EXCEPT ![h].at = "leave", ![h].temporary = None]
            /\ temporary' = temporary \ {call[h].temporary}
    /\ UNCHANGED <<file, Locks, Bounds, Ghosts>>

\* ... and the rename.
Rename(h) ==
    /\ At(h, "rename")
    /\ file' = [inode |-> call[h].temporary, content |-> call[h].expected \cup {h}]
    /\ temporary' = temporary \ {call[h].temporary}
    /\ call' = [call EXCEPT ![h].at = "leave", ![h].temporary = None, ![h].written = TRUE]
    /\ UNCHANGED <<Locks, Bounds, Ghosts>>

\* The lock file goes while it is still locked.
Leave(h) ==
    /\ At(h, "leave")
    /\ leaf' = [leaf EXCEPT ![call[h].target] = None]
    /\ To(h, "close")
    /\ UNCHANGED <<Files, holder, Bounds, Ghosts>>

\* The lock ends with the descriptor.  A helper whose lock was stale tries
\* again until its deadline; the others tell how it went.
Ended(h) ==
    IF call[h].written THEN {"done"} ELSE IF call[h].tried THEN {"idle"} ELSE {"stat", "idle"}

Close(h) ==
    /\ At(h, "close")
    /\ holder' = [holder EXCEPT ![call[h].leaf] = Nobody]
    /\ \E next \in Ended(h) :
        call' = [call EXCEPT ![h].at = next, ![h].leaf = None, ![h].target = None, ![h].held = FALSE]
    /\ saved' = saved \cup IF call[h].written THEN {h} ELSE {}
    /\ UNCHANGED <<Files, leaf, Bounds, raced>>

\* The deadline passes while another helper holds the lock.
Deadline(h) ==
    /\ At(h, "take") /\ holder[call[h].leaf] # Nobody
    /\ call' = [call EXCEPT ![h] = Free]
    /\ UNCHANGED <<Files, Locks, Bounds, Ghosts>>

\* An editor saves its change, in place or by a rename of its own.
Save(e) ==
    /\ e \notin saved
    /\ \E inode \in {file.inode} \cup {i \in FreeInode : i = NewInode} :
        file' = [inode |-> inode, content |-> file.content \cup {e}]
    /\ saved' = saved \cup {e}
    /\ raced' = (raced \/ \E h \in Helper : At(h, "rename"))
    /\ UNCHANGED <<temporary, Locks, call, Bounds>>

\* A killed helper leaves its temporary and its lock file behind.
Kill(h) ==
    /\ call[h].at \notin {"idle", "done"} /\ kills < MaxKills
    /\ kills' = kills + 1
    /\ holder' = [l \in Leaf |-> IF holder[l] = h THEN Nobody ELSE holder[l]]
    /\ call' = [call EXCEPT ![h] = Free]
    /\ UNCHANGED <<Files, leaf, reads, Ghosts>>

Next ==
    \/ \E h \in Helper :
        \/ Read(h) \/ Stat(h) \/ Open(h) \/ Take(h) \/ Held(h) \/ Target(h) \/ Snapshot(h) \/ Check(h)
        \/ Rename(h) \/ Leave(h) \/ Close(h) \/ Deadline(h) \/ Kill(h)
    \/ \E e \in Editor : Save(e)

Spec == Init /\ [][Next]_vars

-----------------------------------------------------------------------------

\* Helpers wait, lock, time out and die, editors save at any moment and inodes
\* are used again, yet whatever was told to be written is still in the file,
\* unless an editor saved between a helper's second check and its rename.
WrittenStays == saved \subseteq file.content \/ raced

=============================================================================
