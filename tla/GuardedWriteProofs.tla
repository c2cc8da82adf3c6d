------------------------- MODULE GuardedWriteProofs -------------------------
(***************************************************************************)
(* Proofs about GuardedWrite, for any helpers, editors, inodes and bounds: *)
(* two helpers that passed their checks never replace the file at once,    *)
(* although they may hold locks named after different inodes of it; and so *)
(* what was told to be written stays. Then about the other files that a    *)
(* person shares with brain-framework: registrations and names of brains   *)
(* (BrainSelection), actions of routines (Reports), installed skills       *)
(* (Installation) and the checkout of a release (Releases).                *)
(***************************************************************************)
EXTENDS GuardedWrite, FiniteSetTheorems, TLAPS

-----------------------------------------------------------------------------
(* The inductive invariant.                                                *)

Edits == Helper \cup Editor
Steps == Opened \cup {"idle", "stat", "open", "done"}
Calls == [at : Steps, expected : SUBSET Edits, target : Inode \cup {None}, leaf : Leaf \cup {None},
          held : BOOLEAN, tried : BOOLEAN, temporary : Inode \cup {None}, written : BOOLEAN]

Typed ==
    /\ file \in [inode : Inode, content : SUBSET Edits]
    /\ temporary \subseteq Inode
    /\ leaf \in [Inode -> Leaf \cup {None}]
    /\ holder \in [Leaf -> Helper \cup {Nobody}]
    /\ call \in [Helper -> Calls]
    /\ saved \subseteq Edits /\ raced \in BOOLEAN

\* A helper that found its lock file in place holds it there until it removes it.
Guarding == {"target", "read", "check", "rename", "leave"}
Replacing == {"read", "check", "rename"}

\* What a helper has once it named, opened and locked its lock file.
Placed(h) ==
    /\ call[h].at \in Opened \cup {"open"} => call[h].target \in Inode
    /\ call[h].at \in Opened => call[h].leaf \in Leaf
    /\ call[h].at \in {"check", "rename"} => call[h].temporary \in Inode
    /\ call[h].at \in Guarding \cup {"held", "close"} => holder[call[h].leaf] = h
    /\ call[h].at \in Guarding => leaf[call[h].target] = call[h].leaf

\* The file still has the inode the lock is named after, or it holds an edit
\* this helper has not read: the comparison before the rename will tell.
Told(h) ==
    call[h].at \in Replacing =>
        file.inode = call[h].target \/ ~(file.content \subseteq call[h].expected)

\* Between the second comparison and the rename nothing changed.
Current(h) ==
    call[h].at = "rename" =>
        file.inode = call[h].target /\ file.content = call[h].expected

\* An editor's change is in no content before it was saved.
Unsaved ==
    /\ file.content \cap Editor \subseteq saved
    /\ \A h \in Helper : call[h].expected \cap Editor \subseteq saved

Kept(h) == call[h].written => h \in file.content

\* What holds until a save falls between a comparison and its rename.
Safe ==
    /\ \A h \in Helper : Told(h) /\ Current(h) /\ Kept(h)
    /\ saved \subseteq file.content

IInv ==
    /\ Typed
    /\ \A h \in Helper : Placed(h)
    /\ Unsaved
    /\ raced \/ Safe

-----------------------------------------------------------------------------
(* Lemmas.                                                                 *)

LEMMA Apart ==
    ASSUME GuardedWriteAssumption
    PROVE  /\ Nobody \notin Helper /\ None \notin Inode /\ None \notin Leaf
           /\ Helper \cap Editor = {}
  BY DEF GuardedWriteAssumption

\* Two helpers do not replace the file at once while both hold the lock named
\* after the same inode.
LEMMA OneGuard ==
    ASSUME IInv, NEW g \in Helper, NEW h \in Helper, g # h,
           call[g].at \in Guarding, call[h].at \in Guarding
    PROVE  call[g].target # call[h].target
  BY DEF IInv, Placed

\* Free inodes and lock files are what their names say.
LEMMA FreeOnes ==
    /\ FreeInode # {} => NewInode \in Inode
    /\ FreeLeaf # {} => NewLeaf \in Leaf
<1>1. FreeInode # {} => NewInode \in FreeInode
  BY DEF NewInode
<1>2. FreeLeaf # {} => NewLeaf \in FreeLeaf
  BY DEF NewLeaf
<1> QED
  BY <1>1, <1>2 DEF FreeInode, FreeLeaf

\* A step of one helper that touches no file: the others keep what is known of
\* them if their locks stay.
LEMMA QuietStep ==
    ASSUME GuardedWriteAssumption, IInv, NEW h \in Helper, NEW c \in Calls,
           call' = [call EXCEPT ![h] = c],
           UNCHANGED <<file, saved, raced>>,
           temporary' \subseteq Inode,
           leaf' \in [Inode -> Leaf \cup {None}], holder' \in [Leaf -> Helper \cup {Nobody}],
           \A l \in Leaf : holder[l] \in Helper \ {h} => holder'[l] = holder[l],
           \A g \in Helper \ {h} : call[g].at \in Guarding => leaf'[call[g].target] = leaf[call[g].target],
           Placed(h)',
           c.expected \cap Editor \subseteq saved,
           Safe => Told(h)' /\ Current(h)' /\ (c.written => h \in file.content)
    PROVE  IInv'
<1>1. Typed /\ call \in [Helper -> Calls] /\ call'[h] = c /\ \A g \in Helper \ {h} : call'[g] = call[g]
  BY DEF IInv, Typed
<1>2. Typed'
  BY <1>1 DEF Typed
<1>3. ASSUME NEW g \in Helper
      PROVE  Placed(g)'
  <2>1. CASE g # h
    <3>1. call'[g] = call[g] /\ Placed(g)
      BY <1>1, <2>1 DEF IInv
    <3>2. holder[call[g].leaf] = g /\ call[g].leaf \in Leaf => holder'[call[g].leaf] = g
      BY <2>1
    <3> QED  BY <2>1, <3>1, <3>2 DEF Placed, Opened, Guarding
  <2> QED  BY <2>1
<1>4. Unsaved'
  BY <1>1 DEF IInv, Unsaved
<1>5. ASSUME Safe
      PROVE  Safe'
  <2>1. ASSUME NEW g \in Helper
        PROVE  (Told(g) /\ Current(g) /\ Kept(g))'
    <3>1. CASE g = h
      BY <1>1, <1>5, <3>1 DEF Kept
    <3>2. CASE g # h
      BY <1>1, <1>5, <3>2 DEF Safe, Told, Current, Kept
    <3> QED  BY <3>1, <3>2
  <2> QED  BY <1>5, <2>1 DEF Safe
<1> QED
  BY <1>2, <1>3, <1>4, <1>5 DEF IInv

LEMMA FreeIs ==
    /\ Free \in Calls /\ Free.at = "idle" /\ Free.expected = {} /\ ~Free.written
  BY DEF Free, Calls, Steps

\* What a step changes of a call.
LEMMA CallIs ==
    ASSUME IInv, NEW h \in Helper
    PROVE  call[h] \in Calls /\ call \in [Helper -> Calls] /\ Typed /\ Placed(h) /\ Unsaved
  BY DEF IInv, Typed

-----------------------------------------------------------------------------
(* The steps of a helper that leave the file alone.                        *)

LEMMA ReadKeeps ==
    ASSUME GuardedWriteAssumption, IInv, NEW h \in Helper, Read(h)
    PROVE  IInv'
<1> DEFINE c == [Free EXCEPT !.at = "stat", !.expected = file.content]
<1>1. Typed /\ Unsaved
  BY DEF IInv
<1>2. c \in Calls /\ c.at = "stat" /\ c.expected = file.content /\ ~c.written
  BY <1>1, FreeIs DEF Typed, Calls, Steps
<1>3. call' = [call EXCEPT ![h] = c] /\ call'[h] = c
      /\ UNCHANGED <<file, temporary, leaf, holder, saved, raced>>
  BY <1>1, CallIs DEF Read, Files, Locks, Ghosts
<1> HIDE DEF c
<1>4. Placed(h)' /\ Told(h)' /\ Current(h)'
  BY <1>2, <1>3 DEF Placed, Told, Current, Opened, Guarding, Replacing
<1>5. c.expected \cap Editor \subseteq saved
  BY <1>1, <1>2 DEF Unsaved
<1> QED
  BY <1>1, <1>2, <1>3, <1>4, <1>5, QuietStep DEF Typed

LEMMA StatKeeps ==
    ASSUME GuardedWriteAssumption, IInv, NEW h \in Helper, Stat(h)
    PROVE  IInv'
<1> DEFINE c == [call[h] EXCEPT !.at = "open", !.target = file.inode]
<1>1. Typed /\ Unsaved /\ call[h] \in Calls /\ call[h].at = "stat" /\ file.inode \in Inode
  BY CallIs DEF IInv, Typed, Stat, At
<1>2. /\ c \in Calls /\ c.at = "open" /\ c.target = file.inode /\ c.expected = call[h].expected
      /\ c.written = call[h].written
  BY <1>1 DEF Calls, Steps
<1>3. call' = [call EXCEPT ![h] = c] /\ call'[h] = c
      /\ UNCHANGED <<file, temporary, leaf, holder, saved, raced>>
  BY <1>1, CallIs DEF Stat, Files, Locks, Ghosts
<1> HIDE DEF c
<1>4. Placed(h)' /\ Told(h)' /\ Current(h)'
  BY <1>1, <1>2, <1>3 DEF Placed, Told, Current, Opened, Guarding, Replacing
<1>5. c.expected \cap Editor \subseteq saved
  BY <1>1, <1>2 DEF Unsaved
<1>6. Safe => (c.written => h \in file.content)
  BY <1>2 DEF Safe, Kept
<1> QED
  BY <1>1, <1>2, <1>3, <1>4, <1>5, <1>6, QuietStep DEF Typed

LEMMA OpenKeeps ==
    ASSUME GuardedWriteAssumption, IInv, NEW h \in Helper, Open(h)
    PROVE  IInv'
<1> DEFINE t == call[h].target
           l == IF leaf[t] = None THEN NewLeaf ELSE leaf[t]
           c == [call[h] EXCEPT !.at = "take", !.leaf = l]
<1>1. /\ Typed /\ Unsaved /\ Placed(h) /\ call[h] \in Calls /\ call[h].at = "open"
      /\ leaf[t] # None \/ FreeLeaf # {}
      /\ UNCHANGED <<file, temporary, holder, saved, raced>>
  BY CallIs DEF Open, At, Files, Ghosts
<1>2. t \in Inode /\ leaf[t] \in Leaf \cup {None}
  BY <1>1 DEF Placed, Typed
<1>3. l \in Leaf
  BY <1>1, <1>2, FreeOnes
<1>4. leaf' = [leaf EXCEPT ![t] = l] /\ call' = [call EXCEPT ![h].at = "take", ![h].leaf = l]
  BY DEF Open
<1>5. leaf[t] # None => l = leaf[t]
  OBVIOUS
<1> HIDE DEF l
<1>6. /\ c \in Calls /\ c.at = "take" /\ c.target = t /\ c.leaf = l /\ c.expected = call[h].expected
      /\ c.written = call[h].written
  BY <1>1, <1>3 DEF Calls, Steps, Opened
<1>7. call' = [call EXCEPT ![h] = c] /\ call'[h] = c
  BY <1>1, <1>4, CallIs
<1> HIDE DEF c, t
<1>8. leaf' \in [Inode -> Leaf \cup {None}]
  BY <1>1, <1>2, <1>3, <1>4 DEF Typed
<1>9. ASSUME NEW g \in Helper \ {h}, call[g].at \in Guarding
      PROVE  leaf'[call[g].target] = leaf[call[g].target]
  <2>1. call[g].target \in Inode /\ leaf[call[g].target] # None
    BY <1>9, Apart DEF IInv, Placed, Opened, Guarding
  <2> QED  BY <1>1, <1>2, <1>4, <1>5, <2>1 DEF Typed
<1>10. Placed(h)' /\ Told(h)' /\ Current(h)'
  BY <1>2, <1>3, <1>6, <1>7 DEF Placed, Told, Current, Opened, Guarding, Replacing
<1>11. c.expected \cap Editor \subseteq saved
  BY <1>1, <1>6 DEF Unsaved
<1>12. Safe => (c.written => h \in file.content)
  BY <1>6 DEF Safe, Kept
<1> QED
  BY <1>1, <1>6, <1>7, <1>8, <1>9, <1>10, <1>11, <1>12, QuietStep DEF Typed

\* A helper moves on to another step with its lock file.
LEMMA Moves ==
    ASSUME IInv, NEW h \in Helper, NEW at \in Steps, To(h, at)
    PROVE  LET c == [call[h] EXCEPT !.at = at]
           IN  /\ c \in Calls /\ call' = [call EXCEPT ![h] = c] /\ call'[h] = c
               /\ c.at = at /\ c.target = call[h].target /\ c.leaf = call[h].leaf
               /\ c.expected = call[h].expected /\ c.temporary = call[h].temporary
               /\ c.written = call[h].written
  BY CallIs DEF To, Calls

LEMMA TakeKeeps ==
    ASSUME GuardedWriteAssumption, IInv, NEW h \in Helper, Take(h)
    PROVE  IInv'
<1> DEFINE c == [call[h] EXCEPT !.at = "held"]
<1>1. /\ Typed /\ Unsaved /\ Placed(h) /\ call[h].at = "take" /\ holder[call[h].leaf] = Nobody
      /\ holder' = [holder EXCEPT ![call[h].leaf] = h]
      /\ UNCHANGED <<file, temporary, leaf, saved, raced>>
  BY CallIs DEF Take, At, Files, Ghosts
<1>2. /\ c \in Calls /\ call' = [call EXCEPT ![h] = c] /\ call'[h] = c
      /\ c.at = "held" /\ c.target = call[h].target /\ c.leaf = call[h].leaf
      /\ c.expected = call[h].expected /\ c.written = call[h].written
  <2>1. "held" \in Steps /\ To(h, "held")
    BY DEF Take, Steps, Opened
  <2> QED  BY <2>1, Moves
<1> HIDE DEF c
<1>3. call[h].leaf \in Leaf /\ call[h].target \in Inode
  BY <1>1 DEF Placed, Opened
<1>4. /\ holder' \in [Leaf -> Helper \cup {Nobody}] /\ holder'[call[h].leaf] = h
      /\ \A l \in Leaf : holder[l] \in Helper \ {h} => holder'[l] = holder[l]
  BY <1>1, <1>3, Apart DEF Typed
<1>5. Placed(h)' /\ Told(h)' /\ Current(h)'
  BY <1>2, <1>3, <1>4 DEF Placed, Told, Current, Opened, Guarding, Replacing
<1>6. c.expected \cap Editor \subseteq saved
  BY <1>1, <1>2 DEF Unsaved
<1>7. Safe => (c.written => h \in file.content)
  BY <1>2 DEF Safe, Kept
<1> QED
  BY <1>1, <1>2, <1>4, <1>5, <1>6, <1>7, QuietStep DEF Typed

LEMMA HeldKeeps ==
    ASSUME GuardedWriteAssumption, IInv, NEW h \in Helper, Held(h)
    PROVE  IInv'
<1> DEFINE here == leaf[call[h].target] = call[h].leaf
           at == IF here THEN "target" ELSE "close"
           c == [call[h] EXCEPT !.held = here, !.at = at]
<1>1. /\ Typed /\ Unsaved /\ Placed(h) /\ call[h].at = "held" /\ call[h] \in Calls
      /\ UNCHANGED <<file, temporary, leaf, holder, saved, raced>>
  BY CallIs DEF Held, At, Files, Locks, Ghosts
<1>2. here \in BOOLEAN /\ at \in {"target", "close"} /\ (at = "target" => here)
  OBVIOUS
<1>3. call' = [call EXCEPT ![h].held = here, ![h].at = at]
  BY DEF Held
<1> HIDE DEF here, at
<1>4. /\ c \in Calls /\ c.at = at /\ c.target = call[h].target /\ c.leaf = call[h].leaf
      /\ c.expected = call[h].expected /\ c.written = call[h].written
  BY <1>1, <1>2 DEF Calls, Steps, Opened
<1>5. call' = [call EXCEPT ![h] = c] /\ call'[h] = c
  BY <1>3, CallIs
<1>6. Placed(h)' /\ Told(h)' /\ Current(h)'
  <2>1. at = "target" => leaf[call[h].target] = call[h].leaf
    BY <1>2 DEF here
  <2> HIDE DEF c
  <2> QED
    BY <1>1, <1>2, <1>4, <1>5, <2>1 DEF Placed, Told, Current, Opened, Guarding, Replacing
<1> HIDE DEF c
<1>7. c.expected \cap Editor \subseteq saved
  BY <1>1, <1>4 DEF Unsaved
<1>8. Safe => (c.written => h \in file.content)
  BY <1>4 DEF Safe, Kept
<1> QED
  BY <1>1, <1>4, <1>5, <1>6, <1>7, <1>8, QuietStep DEF Typed

LEMMA TargetKeeps ==
    ASSUME GuardedWriteAssumption, IInv, NEW h \in Helper, Target(h)
    PROVE  IInv'
<1> DEFINE same == call[h].target = file.inode
           at == IF same THEN "read" ELSE "leave"
           c == [call[h] EXCEPT !.tried = same, !.at = at]
<1>1. /\ Typed /\ Unsaved /\ Placed(h) /\ call[h].at = "target" /\ call[h] \in Calls
      /\ UNCHANGED <<file, temporary, leaf, holder, saved, raced>>
  BY CallIs DEF Target, At, Files, Locks, Ghosts
<1>2. same \in BOOLEAN /\ at \in {"read", "leave"} /\ (at = "read" => call[h].target = file.inode)
  OBVIOUS
<1>3. call' = [call EXCEPT ![h].tried = same, ![h].at = at]
  BY DEF Target
<1> HIDE DEF same, at
<1>4. /\ c \in Calls /\ c.at = at /\ c.target = call[h].target /\ c.leaf = call[h].leaf
      /\ c.expected = call[h].expected /\ c.written = call[h].written
  BY <1>1, <1>2 DEF Calls, Steps, Opened
<1>5. call' = [call EXCEPT ![h] = c] /\ call'[h] = c
  BY <1>3, CallIs
<1> HIDE DEF c
<1>6. Placed(h)' /\ Told(h)' /\ Current(h)'
  BY <1>1, <1>2, <1>4, <1>5 DEF Placed, Told, Current, Opened, Guarding, Replacing
<1>7. c.expected \cap Editor \subseteq saved
  BY <1>1, <1>4 DEF Unsaved
<1>8. Safe => (c.written => h \in file.content)
  BY <1>4 DEF Safe, Kept
<1> QED
  BY <1>1, <1>4, <1>5, <1>6, <1>7, <1>8, QuietStep DEF Typed

LEMMA SnapshotKeeps ==
    ASSUME GuardedWriteAssumption, IInv, NEW h \in Helper, Snapshot(h)
    PROVE  IInv'
<1>1. /\ Typed /\ Unsaved /\ Placed(h) /\ call[h].at = "read" /\ call[h] \in Calls
      /\ UNCHANGED <<file, leaf, holder, saved, raced>>
  BY CallIs DEF Snapshot, At, Locks, Ghosts
<1>2. CASE file.content # call[h].expected
  <2> DEFINE c == [call[h] EXCEPT !.at = "leave"]
  <2>1. To(h, "leave") /\ temporary' = temporary /\ "leave" \in Steps
    BY <1>2 DEF Snapshot, Steps, Opened
  <2>2. /\ c \in Calls /\ call' = [call EXCEPT ![h] = c] /\ call'[h] = c
        /\ c.at = "leave" /\ c.target = call[h].target /\ c.leaf = call[h].leaf
        /\ c.expected = call[h].expected /\ c.written = call[h].written
    BY <2>1, Moves
  <2> HIDE DEF c
  <2>3. Placed(h)' /\ Told(h)' /\ Current(h)'
    BY <1>1, <2>2 DEF Placed, Told, Current, Opened, Guarding, Replacing
  <2>4. c.expected \cap Editor \subseteq saved
    BY <1>1, <2>2 DEF Unsaved
  <2>5. Safe => (c.written => h \in file.content)
    BY <2>2 DEF Safe, Kept
  <2> QED  BY <1>1, <2>1, <2>2, <2>3, <2>4, <2>5, QuietStep DEF Typed
<1>3. CASE file.content = call[h].expected
  <2> DEFINE c == [call[h] EXCEPT !.at = "check", !.temporary = NewInode]
  <2>1. NewInode \in Inode /\ temporary' = temporary \cup {NewInode}
        /\ call' = [call EXCEPT ![h].at = "check", ![h].temporary = NewInode]
    BY <1>3, FreeOnes DEF Snapshot
  <2>2. /\ c \in Calls /\ c.at = "check" /\ c.target = call[h].target /\ c.leaf = call[h].leaf
        /\ c.expected = call[h].expected /\ c.written = call[h].written /\ c.temporary = NewInode
    BY <1>1, <2>1 DEF Calls, Steps, Opened
  <2>3. call' = [call EXCEPT ![h] = c] /\ call'[h] = c
    BY <2>1, CallIs
  <2> HIDE DEF c
  <2>4. Placed(h)'
    BY <1>1, <2>1, <2>2, <2>3 DEF Placed, Opened, Guarding
  <2>5. Safe => Told(h)' /\ Current(h)'
    BY <1>1, <2>2, <2>3 DEF Safe, Told, Current, Replacing
  <2>6. c.expected \cap Editor \subseteq saved
    BY <1>1, <2>2 DEF Unsaved
  <2>7. Safe => (c.written => h \in file.content)
    BY <2>2 DEF Safe, Kept
  <2>8. temporary' \subseteq Inode
    BY <1>1, <2>1 DEF Typed
  <2> QED  BY <1>1, <2>2, <2>3, <2>4, <2>5, <2>6, <2>7, <2>8, QuietStep DEF Typed
<1> QED
  BY <1>2, <1>3

LEMMA CheckKeeps ==
    ASSUME GuardedWriteAssumption, IInv, NEW h \in Helper, Check(h)
    PROVE  IInv'
<1>1. /\ Typed /\ Unsaved /\ Placed(h) /\ call[h].at = "check" /\ call[h] \in Calls
      /\ UNCHANGED <<file, leaf, holder, saved, raced>>
  BY CallIs DEF Check, At, Locks, Ghosts
<1>2. CASE file.content = call[h].expected
  <2> DEFINE c == [call[h] EXCEPT !.at = "rename"]
  <2>1. To(h, "rename") /\ temporary' = temporary /\ "rename" \in Steps
    BY <1>2 DEF Check, Steps, Opened
  <2>2. /\ c \in Calls /\ call' = [call EXCEPT ![h] = c] /\ call'[h] = c
        /\ c.at = "rename" /\ c.target = call[h].target /\ c.leaf = call[h].leaf
        /\ c.expected = call[h].expected /\ c.written = call[h].written
        /\ c.temporary = call[h].temporary
    BY <2>1, Moves
  <2> HIDE DEF c
  <2>3. Placed(h)'
    BY <1>1, <2>2 DEF Placed, Opened, Guarding
  <2>4. Safe => file.inode = call[h].target
    BY <1>1, <1>2 DEF Safe, Told, Replacing
  <2>5. Safe => Told(h)' /\ Current(h)'
    BY <1>1, <1>2, <2>2, <2>4 DEF Told, Current
  <2>6. c.expected \cap Editor \subseteq saved
    BY <1>1, <2>2 DEF Unsaved
  <2>7. Safe => (c.written => h \in file.content)
    BY <2>2 DEF Safe, Kept
  <2> QED  BY <1>1, <2>1, <2>2, <2>3, <2>5, <2>6, <2>7, QuietStep DEF Typed
<1>3. CASE file.content # call[h].expected
  <2> DEFINE c == [call[h] EXCEPT !.at = "leave", !.temporary = None]
  <2>1. temporary' = temporary \ {call[h].temporary}
        /\ call' = [call EXCEPT ![h].at = "leave", ![h].temporary = None]
    BY <1>3 DEF Check
  <2>2. /\ c \in Calls /\ c.at = "leave" /\ c.target = call[h].target /\ c.leaf = call[h].leaf
        /\ c.expected = call[h].expected /\ c.written = call[h].written
    BY <1>1 DEF Calls, Steps, Opened
  <2>3. call' = [call EXCEPT ![h] = c] /\ call'[h] = c
    BY <2>1, CallIs
  <2> HIDE DEF c
  <2>4. Placed(h)' /\ Told(h)' /\ Current(h)'
    BY <1>1, <2>2, <2>3 DEF Placed, Told, Current, Opened, Guarding, Replacing
  <2>5. c.expected \cap Editor \subseteq saved
    BY <1>1, <2>2 DEF Unsaved
  <2>6. Safe => (c.written => h \in file.content)
    BY <2>2 DEF Safe, Kept
  <2>7. temporary' \subseteq Inode
    BY <1>1, <2>1 DEF Typed
  <2> QED  BY <1>1, <2>2, <2>3, <2>4, <2>5, <2>6, <2>7, QuietStep DEF Typed
<1> QED
  BY <1>2, <1>3

LEMMA LeaveKeeps ==
    ASSUME GuardedWriteAssumption, IInv, NEW h \in Helper, Leave(h)
    PROVE  IInv'
<1> DEFINE c == [call[h] EXCEPT !.at = "close"]
<1>1. /\ Typed /\ Unsaved /\ Placed(h) /\ call[h].at = "leave" /\ To(h, "close") /\ "close" \in Steps
      /\ leaf' = [leaf EXCEPT ![call[h].target] = None]
      /\ UNCHANGED <<file, temporary, holder, saved, raced>>
  BY CallIs DEF Leave, At, Files, Ghosts, Steps, Opened
<1>2. /\ c \in Calls /\ call' = [call EXCEPT ![h] = c] /\ call'[h] = c
      /\ c.at = "close" /\ c.target = call[h].target /\ c.leaf = call[h].leaf
      /\ c.expected = call[h].expected /\ c.written = call[h].written
  BY <1>1, Moves
<1> HIDE DEF c
<1>3. leaf' \in [Inode -> Leaf \cup {None}]
  BY <1>1 DEF Typed
<1>4. ASSUME NEW g \in Helper \ {h}, call[g].at \in Guarding
      PROVE  leaf'[call[g].target] = leaf[call[g].target]
  <2>1. call[g].target # call[h].target
    BY <1>1, <1>4, OneGuard DEF Guarding
  <2>2. call[g].target \in Inode
    BY <1>4 DEF IInv, Placed, Guarding, Opened
  <2> QED  BY <1>1, <2>1, <2>2 DEF Typed
<1>5. Placed(h)' /\ Told(h)' /\ Current(h)'
  BY <1>1, <1>2 DEF Placed, Told, Current, Opened, Guarding, Replacing
<1>6. c.expected \cap Editor \subseteq saved
  BY <1>1, <1>2 DEF Unsaved
<1>7. Safe => (c.written => h \in file.content)
  BY <1>2 DEF Safe, Kept
<1> QED
  BY <1>1, <1>2, <1>3, <1>4, <1>5, <1>6, <1>7, QuietStep DEF Typed

\* A command that is over, by its deadline or by a kill, holds nothing.
LEMMA NothingLeft ==
    ASSUME GuardedWriteAssumption, IInv, NEW h \in Helper,
           call' = [call EXCEPT ![h] = Free],
           UNCHANGED <<file, temporary, leaf, saved, raced>>,
           holder' \in [Leaf -> Helper \cup {Nobody}],
           \A l \in Leaf : holder[l] \in Helper \ {h} => holder'[l] = holder[l]
    PROVE  IInv'
<1>1. Typed /\ call'[h] = Free /\ Free \in Calls /\ Free.expected = {} /\ ~Free.written /\ Free.at = "idle"
  BY CallIs, FreeIs
<1> HIDE DEF Free
<1>2. Placed(h)' /\ Told(h)' /\ Current(h)'
  BY <1>1 DEF Placed, Told, Current, Opened, Guarding, Replacing
<1> QED
  BY <1>1, <1>2, QuietStep DEF Typed

LEMMA DeadlineKeeps ==
    ASSUME GuardedWriteAssumption, IInv, NEW h \in Helper, Deadline(h)
    PROVE  IInv'
<1>1. Typed /\ UNCHANGED <<file, temporary, leaf, holder, saved, raced>>
      /\ call' = [call EXCEPT ![h] = Free]
  BY CallIs DEF Deadline, Files, Locks, Ghosts
<1> QED
  BY <1>1, NothingLeft DEF Typed

LEMMA KillKeeps ==
    ASSUME GuardedWriteAssumption, IInv, NEW h \in Helper, Kill(h)
    PROVE  IInv'
<1>1. /\ Typed /\ UNCHANGED <<file, temporary, leaf, saved, raced>>
      /\ call' = [call EXCEPT ![h] = Free]
      /\ holder' = [l \in Leaf |-> IF holder[l] = h THEN Nobody ELSE holder[l]]
  BY CallIs DEF Kill, Files, Ghosts
<1>2. /\ holder' \in [Leaf -> Helper \cup {Nobody}]
      /\ \A l \in Leaf : holder[l] \in Helper \ {h} => holder'[l] = holder[l]
  BY <1>1 DEF Typed
<1> QED
  BY <1>1, <1>2, NothingLeft

-----------------------------------------------------------------------------
(* The steps that write, and the answer.                                   *)

\* What a helper replaces holds all the file held.
LEMMA RenameKeeps ==
    ASSUME GuardedWriteAssumption, IInv, NEW h \in Helper, Rename(h)
    PROVE  IInv'
<1> DEFINE c == [call[h] EXCEPT !.at = "leave", !.temporary = None, !.written = TRUE]
<1>1. /\ Typed /\ Unsaved /\ Placed(h) /\ call[h].at = "rename" /\ call[h] \in Calls
      /\ file' = [inode |-> call[h].temporary, content |-> call[h].expected \cup {h}]
      /\ temporary' = temporary \ {call[h].temporary}
      /\ call' = [call EXCEPT ![h].at = "leave", ![h].temporary = None, ![h].written = TRUE]
      /\ UNCHANGED <<leaf, holder, saved, raced>>
  BY CallIs DEF Rename, At, Locks, Ghosts
<1>2. /\ c \in Calls /\ c.at = "leave" /\ c.target = call[h].target /\ c.leaf = call[h].leaf
      /\ c.expected = call[h].expected /\ c.written = TRUE
  BY <1>1 DEF Calls, Steps, Opened
<1>3. call' = [call EXCEPT ![h] = c] /\ call'[h] = c /\ \A g \in Helper \ {h} : call'[g] = call[g]
  BY <1>1, CallIs
<1> HIDE DEF c
<1>4. /\ file'.inode = call[h].temporary /\ file'.content = call[h].expected \cup {h}
      /\ call[h].temporary \in Inode /\ call[h].expected \subseteq Edits /\ h \in Edits
  BY <1>1 DEF Placed, Calls, Edits
<1>5. Typed'
  BY <1>1, <1>2, <1>3, <1>4 DEF Typed
<1>6. ASSUME NEW g \in Helper
      PROVE  Placed(g)'
  <2>1. CASE g = h
    BY <1>1, <1>2, <1>3, <2>1 DEF Placed, Opened, Guarding
  <2>2. CASE g # h
    BY <1>1, <1>3, <2>2 DEF IInv, Placed
  <2> QED  BY <2>1, <2>2
<1>7. Unsaved'
  <2>1. h \notin Editor
    BY Apart
  <2>2. file'.content \cap Editor \subseteq saved
    BY <1>1, <1>4, <2>1 DEF Unsaved
  <2>3. ASSUME NEW g \in Helper
        PROVE  call'[g].expected \cap Editor \subseteq saved
    BY <1>1, <1>2, <1>3 DEF Unsaved
  <2> QED  BY <1>1, <2>2, <2>3 DEF Unsaved
<1>8. ASSUME Safe
      PROVE  Safe'
  <2>1. file.inode = call[h].target /\ file.content = call[h].expected
    BY <1>1, <1>8 DEF Safe, Current
  <2>2. file.content \subseteq file'.content /\ h \in file'.content
    BY <1>4, <2>1
  <2>3. ASSUME NEW g \in Helper \ {h}
        PROVE  (Told(g) /\ Current(g) /\ Kept(g))'
    <3>1. call'[g] = call[g] /\ Told(g) /\ Current(g) /\ Kept(g)
      BY <1>3, <1>8 DEF Safe
    <3>2. call[g].at \in Guarding => call[g].target # file.inode
      BY <1>1, <2>1, OneGuard DEF Guarding
    <3>3. Told(g)'
      BY <2>2, <3>1, <3>2 DEF Told, Replacing, Guarding
    <3>4. Current(g)'
      BY <3>1, <3>2 DEF Current, Guarding
    <3>5. Kept(g)'
      BY <2>2, <3>1 DEF Kept
    <3> QED  BY <3>3, <3>4, <3>5
  <2>4. (Told(h) /\ Current(h) /\ Kept(h))'
    BY <1>2, <1>3, <2>2 DEF Told, Current, Kept, Replacing
  <2>5. saved' \subseteq file'.content
    BY <1>1, <1>8, <2>2 DEF Safe
  <2> QED  BY <2>3, <2>4, <2>5 DEF Safe
<1> QED
  BY <1>1, <1>5, <1>6, <1>7, <1>8 DEF IInv

LEMMA CloseKeeps ==
    ASSUME GuardedWriteAssumption, IInv, NEW h \in Helper, Close(h)
    PROVE  IInv'
<1>1. /\ Typed /\ Unsaved /\ Placed(h) /\ call[h].at = "close" /\ call[h] \in Calls
      /\ holder' = [holder EXCEPT ![call[h].leaf] = Nobody]
      /\ saved' = saved \cup IF call[h].written THEN {h} ELSE {}
      /\ UNCHANGED <<file, temporary, leaf, raced>>
  BY CallIs DEF Close, At, Files
<1>2. PICK next \in Ended(h) :
        call' = [call EXCEPT ![h].at = next, ![h].leaf = None, ![h].target = None, ![h].held = FALSE]
  BY DEF Close
<1> DEFINE c == [call[h] EXCEPT !.at = next, !.leaf = None, !.target = None, !.held = FALSE]
<1>3. next \in {"done", "idle", "stat"}
  BY <1>2 DEF Ended
<1>4. c \in Calls /\ c.at = next /\ c.expected = call[h].expected /\ c.written = call[h].written
  BY <1>1, <1>3 DEF Calls, Steps
<1>5. call' = [call EXCEPT ![h] = c] /\ call'[h] = c /\ \A g \in Helper \ {h} : call'[g] = call[g]
  BY <1>2, CallIs
<1> HIDE DEF c
<1>6. call[h].leaf \in Leaf /\ holder[call[h].leaf] = h
  BY <1>1 DEF Placed, Opened
<1>7. /\ holder' \in [Leaf -> Helper \cup {Nobody}]
      /\ \A l \in Leaf : holder[l] \in Helper \ {h} => holder'[l] = holder[l]
  BY <1>1, <1>6 DEF Typed
<1>8. saved \subseteq saved' /\ saved' \subseteq Edits
  BY <1>1 DEF Typed, Edits
<1>9. Typed'
  BY <1>1, <1>4, <1>5, <1>7, <1>8 DEF Typed
<1>10. ASSUME NEW g \in Helper
       PROVE  Placed(g)'
  <2>1. CASE g = h
    BY <1>3, <1>4, <1>5, <2>1 DEF Placed, Opened, Guarding
  <2>2. CASE g # h
    <3>1. call'[g] = call[g] /\ Placed(g)
      BY <1>5, <2>2 DEF IInv
    <3>2. holder[call[g].leaf] = g /\ call[g].leaf \in Leaf => holder'[call[g].leaf] = g
      BY <1>7, <2>2
    <3> QED  BY <1>1, <3>1, <3>2 DEF Placed, Opened, Guarding
  <2> QED  BY <2>1, <2>2
<1>11. Unsaved'
  BY <1>1, <1>4, <1>5, <1>8 DEF Unsaved
<1>12. ASSUME Safe
       PROVE  Safe'
  <2>1. ASSUME NEW g \in Helper
        PROVE  (Told(g) /\ Current(g) /\ Kept(g))'
    <3>1. CASE g = h
      BY <1>1, <1>3, <1>4, <1>5, <1>12, <3>1 DEF Safe, Told, Current, Kept, Replacing
    <3>2. CASE g # h
      BY <1>1, <1>5, <1>12, <3>2 DEF Safe, Told, Current, Kept
    <3> QED  BY <3>1, <3>2
  <2>2. saved' \subseteq file.content
    BY <1>1, <1>12 DEF Safe, Kept
  <2> QED  BY <1>1, <2>1, <2>2 DEF Safe
<1> QED
  BY <1>1, <1>9, <1>10, <1>11, <1>12 DEF IInv

\* An editor's change is new to every helper that has not read it.
LEMMA SaveKeeps ==
    ASSUME GuardedWriteAssumption, IInv, NEW e \in Editor, Save(e)
    PROVE  IInv'
<1>1. /\ Typed /\ Unsaved /\ e \notin saved /\ saved' = saved \cup {e}
      /\ raced' = (raced \/ \E h \in Helper : At(h, "rename"))
      /\ UNCHANGED <<temporary, leaf, holder, call>>
  BY DEF IInv, Save, Locks
<1>2. PICK inode \in {file.inode} \cup {i \in FreeInode : i = NewInode} :
        file' = [inode |-> inode, content |-> file.content \cup {e}]
  BY DEF Save
<1>3. inode \in Inode
  BY <1>1, <1>2 DEF Typed, FreeInode
<1>4. Typed'
  <2>1. raced' \in BOOLEAN
    BY <1>1 DEF Typed
  <2>2. saved' \subseteq Edits /\ file' \in [inode : Inode, content : SUBSET Edits]
    BY <1>1, <1>2, <1>3 DEF Typed, Edits
  <2> QED  BY <1>1, <2>1, <2>2 DEF Typed
<1>5. \A h \in Helper : Placed(h)'
  BY <1>1 DEF IInv, Placed
<1>6. Unsaved'
  BY <1>1, <1>2 DEF Unsaved
<1>7. ASSUME ~raced'
      PROVE  Safe'
  <2>1. Safe /\ \A h \in Helper : call[h].at # "rename"
    BY <1>1, <1>7 DEF IInv, At
  <2>2. ASSUME NEW h \in Helper
        PROVE  (Told(h) /\ Current(h) /\ Kept(h))'
    <3>1. call'[h] = call[h] /\ e \notin call[h].expected /\ e \in file'.content
          /\ file.content \subseteq file'.content
      BY <1>1, <1>2 DEF Unsaved
    <3>2. Told(h)'
      BY <3>1 DEF Told
    <3>3. Current(h)'
      BY <2>1, <3>1 DEF Current
    <3>4. Kept(h)'
      BY <2>1, <3>1 DEF Safe, Kept
    <3> QED  BY <3>2, <3>3, <3>4
  <2>3. saved' \subseteq file'.content
    BY <1>1, <1>2, <2>1 DEF Safe
  <2> QED  BY <2>2, <2>3 DEF Safe
<1> QED
  BY <1>4, <1>5, <1>6, <1>7 DEF IInv

-----------------------------------------------------------------------------
(* Theorems.                                                               *)

LEMMA InitHolds ==
    ASSUME GuardedWriteAssumption, Init
    PROVE  IInv
<1>1. file.inode \in Inode /\ file.content = {}
  BY DEF GuardedWriteAssumption, Init
<1>2. Typed
  BY <1>1, FreeIs DEF Init, Typed
<1>3. ASSUME NEW h \in Helper
      PROVE  Placed(h) /\ Told(h) /\ Current(h) /\ Kept(h) /\ call[h].expected = {}
  <2>1. call[h] = Free
    BY DEF Init
  <2> QED
    BY <2>1, FreeIs DEF Placed, Told, Current, Kept, Opened, Guarding, Replacing
<1>4. saved = {}
  BY DEF Init
<1> QED
  BY <1>1, <1>2, <1>3, <1>4 DEF IInv, Unsaved, Safe

LEMMA NextKeeps ==
    ASSUME GuardedWriteAssumption, IInv, [Next]_vars
    PROVE  IInv'
<1>1. CASE UNCHANGED vars
  BY <1>1 DEF vars, IInv, Typed, Placed, Unsaved, Safe, Told, Current, Kept
<1> QED
  BY <1>1, ReadKeeps, StatKeeps, OpenKeeps, TakeKeeps, HeldKeeps, TargetKeeps, SnapshotKeeps,
     CheckKeeps, RenameKeeps, LeaveKeeps, CloseKeeps, DeadlineKeeps, KillKeeps, SaveKeeps
  DEF Next

\* The invariant holds throughout: a lock file that was found in place stays
\* its holder's until that holder removes it, and a helper about to rename has
\* the file's inode locked and its content read.
THEOREM Invariance ==
    ASSUME GuardedWriteAssumption
    PROVE  Spec => []IInv
<1>1. Init => IInv
  BY InitHolds
<1>2. IInv /\ [Next]_vars => IInv'
  BY NextKeeps
<1> QED
  BY <1>1, <1>2, PTL DEF Spec

\* Every variable of guarded-write.py's model keeps its type: lock files have
\* one holder at most, and the file always has an inode.
THEOREM TypeCorrect ==
    ASSUME GuardedWriteAssumption
    PROVE  Spec => []TypeOK
<1>1. IInv => TypeOK
  BY DEF IInv, Typed, TypeOK, Calls, Steps, Edits
<1> QED
  BY <1>1, Invariance, PTL

\* What guarded-write.py reported as written, and what editors saved, is in the
\* file, unless an editor saved between a helper's second check and its rename.
THEOREM WritesStay ==
    ASSUME GuardedWriteAssumption
    PROVE  Spec => []WrittenStays
<1>1. IInv => WrittenStays
  BY DEF IInv, Safe, WrittenStays
<1> QED
  BY <1>1, Invariance, PTL

-----------------------------------------------------------------------------
(* Registrations: what bf register told stays in the registry.             *)

CONSTANTS Process, Dir, Place, Name, FirstAt, Absent, Locked, Nowhere, NoProcess, MaxChanges

VARIABLES at, brain, registry, writer, registering, told, changes

Selecting == INSTANCE BrainSelection WITH
    Start <- FirstAt, Nobody <- NoProcess, holder <- writer, call <- registering

Entries == [Name -> Place \cup {Nowhere}]

\* Whoever read the registry holds its lock, and what it read is still there;
\* it leaves the registry alone only when it holds its path already.
Registering(p) ==
    /\ registering[p].step \in {"read", "write"} => writer = p
    /\ registering[p].step = "write" =>
          /\ registering[p].read = registry
          /\ ~registering[p].replaces => registry[registering[p].name] = registering[p].place

RegistryInv ==
    /\ Selecting!TypeOK
    /\ told = registry
    /\ \A p \in Process : Registering(p)

\* A step of one registration: what the others do is as it was.
LEMMA RegistrationSteps ==
    ASSUME Selecting!BrainSelectionAssumption, RegistryInv, NEW p \in Process, NEW new \in Selecting!Call,
           registering' = [registering EXCEPT ![p] = new],
           writer' = writer \/ (writer \in {p, NoProcess} /\ writer' \in {p, NoProcess}),
           registry' = registry \/ writer = p,
           \A q \in Process \ {p} : registry' # registry => registering[q].step # "write",
           at' = at, brain' = brain, changes' = changes, registry' \in Entries, told' = registry',
           new.step \in {"read", "write"} => writer' = p,
           new.step = "write" =>
              new.read = registry' /\ (~new.replaces => registry'[new.name] = new.place)
    PROVE  RegistryInv'
<1>1. registering' \in [Process -> Selecting!Call] /\ registering'[p] = new
      /\ \A q \in Process \ {p} : registering'[q] = registering[q]
  BY DEF RegistryInv, Selecting!TypeOK
<1>2. writer' \in Process \cup {NoProcess}
  BY DEF RegistryInv, Selecting!TypeOK
<1>3. Selecting!TypeOK'
  BY <1>1, <1>2 DEF RegistryInv, Selecting!TypeOK, Entries
<1>4. ASSUME NEW q \in Process PROVE Registering(q)'
  <2>1. CASE q = p
    BY <1>1, <2>1 DEF Registering
  <2>2. CASE q # p
    <3>1. registering'[q] = registering[q] /\ Registering(q)
      BY <1>1, <2>2 DEF RegistryInv
    <3>2. registering[q].step \in {"read", "write"} => writer' = q
      BY <3>1, <2>2 DEF Registering, Selecting!BrainSelectionAssumption
    <3>3. registering[q].step = "write" => registry' = registry
      BY <2>2
    <3> QED
      BY <3>1, <3>2, <3>3 DEF Registering
  <2> QED
    BY <2>1, <2>2
<1> QED
  BY <1>3, <1>4 DEF RegistryInv

LEMMA RegisterKeeps ==
    ASSUME Selecting!BrainSelectionAssumption, RegistryInv, NEW p \in Process, NEW place \in Place,
           Selecting!Register(p, place)
    PROVE  RegistryInv'
<1> DEFINE new == [step |-> "lock", place |-> place, dir |-> at[place], name |-> brain[at[place]].name,
                   read |-> Selecting!Unregistered, replaces |-> FALSE]
<1>1. brain[at[place]].name \in Name
  BY DEF Selecting!Register, RegistryInv, Selecting!TypeOK, Selecting!Brain
<1>2. new \in Selecting!Call
  BY <1>1 DEF Selecting!Register, Selecting!Call, Selecting!Unregistered
<1>3. registering' = [registering EXCEPT ![p] = new]
      /\ UNCHANGED <<at, brain, registry, writer, told, changes>>
  BY DEF Selecting!Register
<1>4. new.step = "lock"
  OBVIOUS
<1>5. told = registry /\ registry \in Entries
  BY DEF RegistryInv, Selecting!TypeOK, Entries
<1> HIDE DEF new
<1> QED
  BY <1>2, <1>3, <1>4, <1>5, RegistrationSteps

LEMMA LockRegistryKeeps ==
    ASSUME Selecting!BrainSelectionAssumption, RegistryInv, NEW p \in Process, Selecting!LockRegistry(p)
    PROVE  RegistryInv'
<1>1. registering[p] \in Selecting!Call /\ registering[p].step = "lock"
  BY DEF Selecting!LockRegistry, RegistryInv, Selecting!TypeOK
<1>2. UNCHANGED <<at, brain, registry, told, changes>>
  BY DEF Selecting!LockRegistry
<1>3. told = registry /\ registry \in Entries
  BY DEF RegistryInv, Selecting!TypeOK, Entries
<1>4. CASE writer = NoProcess /\ writer' = p /\ Selecting!Goto(p, "read")
  <2> DEFINE new == [registering[p] EXCEPT !.step = "read"]
  <2>1. new \in Selecting!Call /\ new.step = "read"
    BY <1>1 DEF Selecting!Call, Selecting!Idle, Selecting!Ended
  <2>2. registering' = [registering EXCEPT ![p] = new]
    BY <1>4 DEF Selecting!Goto
  <2> HIDE DEF new
  <2> QED
    BY <1>2, <1>3, <1>4, <2>1, <2>2, RegistrationSteps
<1>5. CASE writer # NoProcess /\ Selecting!End(p) /\ writer' = writer
  <2>1. Selecting!Ended \in Selecting!Call /\ Selecting!Ended.step = "ended"
    BY DEF Selecting!Call, Selecting!Ended
  <2>2. registering' = [registering EXCEPT ![p] = Selecting!Ended] /\ writer' = writer
    BY <1>5 DEF Selecting!End
  <2> QED
    BY <1>2, <1>3, <2>1, <2>2, RegistrationSteps
<1> QED
  BY <1>4, <1>5 DEF Selecting!LockRegistry

LEMMA ReadRegistryKeeps ==
    ASSUME Selecting!BrainSelectionAssumption, RegistryInv, NEW p \in Process, Selecting!ReadRegistry(p)
    PROVE  RegistryInv'
<1>1. registering[p] \in Selecting!Call /\ registering[p].step = "read" /\ writer = p
  BY DEF Selecting!ReadRegistry, RegistryInv, Selecting!TypeOK, Registering
<1>2. UNCHANGED <<at, brain, registry, told, changes>>
  BY DEF Selecting!ReadRegistry
<1>3. told = registry /\ registry \in Entries
  BY DEF RegistryInv, Selecting!TypeOK, Entries
<1>4. CASE Selecting!End(p) /\ writer' = NoProcess
  <2>1. Selecting!Ended \in Selecting!Call /\ Selecting!Ended.step = "ended"
    BY DEF Selecting!Call, Selecting!Ended
  <2>2. registering' = [registering EXCEPT ![p] = Selecting!Ended]
    BY <1>4 DEF Selecting!End
  <2> QED
    BY <1>1, <1>2, <1>3, <1>4, <2>1, <2>2, RegistrationSteps
<1>5. CASE /\ registering' = [registering EXCEPT ![p].step = "write", ![p].read = registry,
                                 ![p].replaces = registry[registering[p].name] # registering[p].place]
           /\ writer' = writer
  <2> DEFINE new == [registering[p] EXCEPT !.step = "write", !.read = registry,
                                 !.replaces = registry[registering[p].name] # registering[p].place]
  <2>1. /\ new \in Selecting!Call /\ new.step = "write" /\ new.read = registry
        /\ ~new.replaces => registry[new.name] = new.place
    <3>1. registering[p] \in [step : {"lock", "read", "write"}, place : Place, dir : Dir, name : Name,
                              read : Entries, replaces : BOOLEAN]
      BY <1>1 DEF Selecting!Call, Selecting!Idle, Selecting!Ended, Entries
    <3>2. new \in [step : {"lock", "read", "write"}, place : Place, dir : Dir, name : Name,
                   read : Entries, replaces : BOOLEAN]
      BY <1>3, <3>1
    <3>3. new.step = "write" /\ new.read = registry /\ (~new.replaces => registry[new.name] = new.place)
      BY <3>1
    <3> QED
      BY <3>2, <3>3 DEF Selecting!Call, Entries
  <2>2. registering' = [registering EXCEPT ![p] = new]
    BY <1>1, <1>5 DEF RegistryInv, Selecting!TypeOK
  <2> HIDE DEF new
  <2> QED
    BY <1>1, <1>2, <1>3, <1>5, <2>1, <2>2, RegistrationSteps
<1> QED
  BY <1>4, <1>5 DEF Selecting!ReadRegistry

LEMMA WriteRegistryKeeps ==
    ASSUME Selecting!BrainSelectionAssumption, RegistryInv, NEW p \in Process, Selecting!WriteRegistry(p)
    PROVE  RegistryInv'
<1>1. registering[p] \in Selecting!Call /\ registering[p].step = "write" /\ Registering(p)
  BY DEF Selecting!WriteRegistry, RegistryInv, Selecting!TypeOK
<1>2. registering[p].name \in Name /\ registering[p].place \in Place
  BY <1>1 DEF Selecting!Call, Selecting!Idle, Selecting!Ended
<1>3. told = registry /\ registry \in Entries
  BY DEF RegistryInv, Selecting!TypeOK, Entries
<1>4. told' = [registry EXCEPT ![registering[p].name] = registering[p].place] /\ told' = registry'
  BY <1>1, <1>2, <1>3 DEF Selecting!WriteRegistry, Registering, Entries
<1>5. told' \in Entries
  BY <1>2, <1>3, <1>4 DEF Entries
<1>6. \A q \in Process \ {p} : registering[q].step # "write"
  BY <1>1 DEF RegistryInv, Registering
<1>7. Selecting!Ended \in Selecting!Call /\ Selecting!Ended.step = "ended"
  BY DEF Selecting!Call, Selecting!Ended
<1>8. registering' = [registering EXCEPT ![p] = Selecting!Ended] /\ writer' = NoProcess
      /\ UNCHANGED <<at, brain, changes>>
  BY DEF Selecting!WriteRegistry, Selecting!End
<1>9. writer = p
  BY <1>1 DEF Registering
<1> QED
  BY <1>4, <1>5, <1>6, <1>7, <1>8, <1>9, RegistrationSteps

LEMMA RegistrationKillKeeps ==
    ASSUME Selecting!BrainSelectionAssumption, RegistryInv, NEW p \in Process, Selecting!Kill(p)
    PROVE  RegistryInv'
<1>1. writer = p
  BY DEF Selecting!Kill, RegistryInv, Registering
<1>2. Selecting!Ended \in Selecting!Call /\ Selecting!Ended.step = "ended"
  BY DEF Selecting!Call, Selecting!Ended
<1>3. registering' = [registering EXCEPT ![p] = Selecting!Ended] /\ writer' = NoProcess
      /\ UNCHANGED <<at, brain, registry, told, changes>>
  BY DEF Selecting!Kill, Selecting!End
<1>4. told = registry /\ registry \in Entries
  BY DEF RegistryInv, Selecting!TypeOK, Entries
<1> QED
  BY <1>1, <1>2, <1>3, <1>4, RegistrationSteps

\* Moves, links, locked folders and edits of bf.yaml leave the registry alone.
LEMMA WorldKeeps ==
    ASSUME Selecting!BrainSelectionAssumption, RegistryInv, UNCHANGED <<registry, writer, registering, told>>,
           at' \in [Place -> Dir \cup {Absent, Locked}], brain' \in [Dir -> Selecting!Brain],
           changes' \in 0..MaxChanges
    PROVE  RegistryInv'
BY DEF RegistryInv, Selecting!TypeOK, Registering

LEMMA WorldSteps ==
    ASSUME Selecting!BrainSelectionAssumption, RegistryInv,
           \/ \E from, to \in Place : Selecting!Move(from, to)
           \/ \E path \in Place, dir \in Dir : Selecting!Link(path, dir)
           \/ \E path \in Place : Selecting!Lock(path)
           \/ \E dir \in Dir : Selecting!Edit(dir)
    PROVE  RegistryInv'
<1>1. at \in [Place -> Dir \cup {Absent, Locked}] /\ brain \in [Dir -> Selecting!Brain] /\ changes \in 0..MaxChanges
  BY DEF RegistryInv, Selecting!TypeOK
<1>2. ASSUME Selecting!Change PROVE changes' \in 0..MaxChanges
  BY <1>1, <1>2 DEF Selecting!Change, Selecting!BrainSelectionAssumption
<1>3. ASSUME NEW from \in Place, NEW to \in Place, Selecting!Move(from, to) PROVE RegistryInv'
  <2>1. at' \in [Place -> Dir \cup {Absent, Locked}]
    BY <1>1, <1>3 DEF Selecting!Move
  <2> QED
    BY <1>1, <1>2, <1>3, <2>1, WorldKeeps DEF Selecting!Move
<1>4. ASSUME NEW path \in Place, NEW dir \in Dir, Selecting!Link(path, dir) PROVE RegistryInv'
  <2>1. at' \in [Place -> Dir \cup {Absent, Locked}]
    BY <1>1, <1>4 DEF Selecting!Link
  <2> QED
    BY <1>1, <1>2, <1>4, <2>1, WorldKeeps DEF Selecting!Link
<1>5. ASSUME NEW path \in Place, Selecting!Lock(path) PROVE RegistryInv'
  <2>1. at' \in [Place -> Dir \cup {Absent, Locked}]
    BY <1>1, <1>5 DEF Selecting!Lock
  <2> QED
    BY <1>1, <1>2, <1>5, <2>1, WorldKeeps DEF Selecting!Lock
<1>6. ASSUME NEW dir \in Dir, Selecting!Edit(dir) PROVE RegistryInv'
  <2>1. brain[dir] \in Selecting!Brain
    BY <1>1
  <2>2. ASSUME NEW name \in Name, NEW refs \in Selecting!Declared, NEW mine \in BOOLEAN
        PROVE  [state |-> "valid", name |-> name, refs |-> refs, mine |-> mine] \in Selecting!Brain
    BY DEF Selecting!Brain, Selecting!Declared
  <2>3. ASSUME NEW state \in {"invalid", "none"} PROVE [brain[dir] EXCEPT !.state = state] \in Selecting!Brain
    BY <2>1 DEF Selecting!Brain
  <2>4. brain' \in [Dir -> Selecting!Brain]
    <3>1. CASE \E name \in Name, refs \in Selecting!Declared, mine \in BOOLEAN :
            brain' = [brain EXCEPT ![dir] = [state |-> "valid", name |-> name, refs |-> refs, mine |-> mine]]
      <4> PICK name \in Name, refs \in Selecting!Declared, mine \in BOOLEAN :
            brain' = [brain EXCEPT ![dir] = [state |-> "valid", name |-> name, refs |-> refs, mine |-> mine]]
        BY <3>1
      <4> DEFINE new == [state |-> "valid", name |-> name, refs |-> refs, mine |-> mine]
      <4>1. new \in Selecting!Brain
        BY <2>2
      <4>2. brain' = [brain EXCEPT ![dir] = new]
        OBVIOUS
      <4> HIDE DEF new
      <4> QED
        BY <1>1, <4>1, <4>2
    <3>2. CASE \E state \in {"invalid", "none"} : brain' = [brain EXCEPT ![dir].state = state]
      <4> PICK state \in {"invalid", "none"} : brain' = [brain EXCEPT ![dir].state = state]
        BY <3>2
      <4> QED
        BY <1>1, <2>3
    <3> QED
      BY <1>6, <3>1, <3>2 DEF Selecting!Edit
  <2> QED
    BY <1>1, <1>2, <1>6, <2>4, WorldKeeps DEF Selecting!Edit
<1> QED
  BY <1>3, <1>4, <1>5, <1>6

\* Every variable of the registrations keeps its type, and what holds of them
\* between any two steps holds throughout: whoever writes holds the lock, and
\* writes what it read with its own name changed.
THEOREM RegistryInvariance ==
    ASSUME Selecting!BrainSelectionAssumption
    PROVE  Selecting!Spec => []RegistryInv
<1>1. Selecting!Init => RegistryInv
  <2> SUFFICES ASSUME Selecting!Init PROVE RegistryInv
    OBVIOUS
  <2>1. Selecting!TypeOK
    BY DEF Selecting!Init, Selecting!TypeOK, Selecting!BrainSelectionAssumption, Selecting!Unregistered, Selecting!Call
  <2>2. \A p \in Process : registering[p].step = "idle"
    BY DEF Selecting!Init, Selecting!Idle
  <2> QED
    BY <2>1, <2>2 DEF Selecting!Init, RegistryInv, Registering
<1>2. RegistryInv /\ [Selecting!Next]_Selecting!vars => RegistryInv'
  <2>1. ASSUME RegistryInv, Selecting!Next PROVE RegistryInv'
    BY <2>1, WorldSteps, RegisterKeeps, LockRegistryKeeps, ReadRegistryKeeps, WriteRegistryKeeps,
       RegistrationKillKeeps DEF Selecting!Next
  <2>2. ASSUME RegistryInv, UNCHANGED Selecting!vars PROVE RegistryInv'
    BY <2>2 DEF RegistryInv, Selecting!TypeOK, Registering, Selecting!vars
  <2> QED
    BY <2>1, <2>2
<1> QED
  BY <1>1, <1>2, PTL DEF Selecting!Spec

\* The registry (bf register, register of config.py) holds what each name was last
\* told to be registered at, however many registrations run at once and whatever
\* is killed.
THEOREM RegistrationsAreKept ==
    ASSUME Selecting!BrainSelectionAssumption
    PROVE  Selecting!Spec => []Selecting!RegistrationsStay
<1>1. RegistryInv => Selecting!RegistrationsStay
  BY DEF RegistryInv, Selecting!RegistrationsStay
<1> QED
  BY <1>1, RegistryInvariance, PTL

\* The count of directories is the one of the standard module.
LEMMA SelectingCounts == \A S : Selecting!Cardinality(S) = Cardinality(S)
BY Zenon DEF Selecting!Cardinality, Selecting!IsFiniteSet, Cardinality, IsFiniteSet

LEMMA OneAtMost ==
    ASSUME NEW S, NEW x, S \subseteq {x}
    PROVE  Selecting!Cardinality(S) <= 1
<1>1. S = {} \/ S = {x}
  OBVIOUS
<1> QED
  BY <1>1, FS_EmptySet, FS_Singleton, SelectingCounts

\* What a name, a claim or a reference stands for is one directory at most.
LEMMA OneDirectory ==
    ASSUME RegistryInv, NEW here, NEW name \in Name
    PROVE  /\ \A dir \in Dir : \E x : Selecting!References(dir, name) \subseteq {x} /\ Selecting!References(dir, name) \subseteq Dir
           /\ Selecting!Claims(here, name) # {} => here \in Dir
           /\ \E x : Selecting!Claims(here, name) \subseteq {x}
           /\ Selecting!Claims(here, name) # {} /\ brain[here].name = name =>
                Selecting!Claims(here, name) = {here} /\ brain[here].mine
<1>1. ASSUME NEW dir \in Dir
      PROVE  \E x : Selecting!References(dir, name) \subseteq {x} /\ Selecting!References(dir, name) \subseteq Dir
  BY DEF Selecting!References, Selecting!Valid
<1>2. Selecting!Claims(here, name) # {} => here \in Dir
  BY DEF Selecting!Claims, Selecting!Trusted, Selecting!Enclosing
<1> QED
  BY <1>1, <1>2 DEF Selecting!Claims, Selecting!Trusted

LEMMA LocatedIsSafe ==
    ASSUME RegistryInv, NEW here, NEW below, NEW name \in Name, NEW execute \in BOOLEAN
    PROVE  LET found == Selecting!Located(name, here, execute, below)
           IN  /\ Selecting!Cardinality(found) <= 1
               /\ registry[name] # Nowhere => found \subseteq {at[registry[name]]}
               /\ execute /\ registry[name] = Nowhere =>
                    found \subseteq {d \in Dir : d = here /\ brain[d].mine /\ brain[d].name = name}
<1> DEFINE found == Selecting!Located(name, here, execute, below)
<1>1. \A d : Selecting!Configured(d) \subseteq {d}
  BY DEF Selecting!Configured
<1>2. CASE registry[name] # Nowhere
  <2>1. found \subseteq {at[registry[name]]}
    BY <1>1, <1>2 DEF Selecting!Located
  <2> QED
    BY <1>2, <2>1, OneAtMost
<1>3. CASE registry[name] = Nowhere
  <2>1. found \in {{}, Selecting!Claims(here, name), Selecting!Configured(below)}
    BY <1>3 DEF Selecting!Located
  <2>2. \E x : found \subseteq {x}
    BY <1>1, <2>1, OneDirectory
  <2>3. Selecting!Cardinality(found) <= 1
    BY <2>2, OneAtMost
  <2>4. ASSUME execute, found # {}
        PROVE  found = Selecting!Claims(here, name) /\ found # {} /\ brain[here].name = name
    BY <1>3, <2>4 DEF Selecting!Located
  <2> QED
    BY <1>3, <2>3, <2>4, OneDirectory
<1> QED
  BY <1>2, <1>3

\* Two directories of one name are both claimed, and neither is searched.
LEMMA RelatedIsSafe ==
    ASSUME Selecting!BrainSelectionAssumption, RegistryInv, NEW roots \in SUBSET Dir,
           NEW d \in Selecting!Related(roots), NEW e \in Selecting!Related(roots),
           Selecting!Valid(d), Selecting!Valid(e), d # e
    PROVE  brain[d].name # brain[e].name
<1> SUFFICES ASSUME brain[d].name = brain[e].name PROVE FALSE
  OBVIOUS
<1> DEFINE name == brain[d].name
           claimants == Selecting!Claimants(roots, name)
<1>1. name \in Name
  BY DEF RegistryInv, Selecting!TypeOK, Selecting!Valid, Selecting!Brain
<1>2. ASSUME NEW x \in Selecting!Related(roots), Selecting!Valid(x)
      PROVE  x \in Selecting!Claimants(roots, brain[x].name)
  <2>1. x \in roots \/ \E n \in Name : x \in Selecting!Claimants(roots, n)
    BY <1>2 DEF Selecting!Related
  <2>2. ASSUME NEW n \in Name, x \in Selecting!Claimants(roots, n) PROVE brain[x].name = n
    BY <2>2 DEF Selecting!Claimants, Selecting!References
  <2> QED
    BY <1>2, <2>1, <2>2 DEF Selecting!Claimants
<1>3. d \in claimants /\ e \in claimants
  BY <1>2
<1>4. claimants \subseteq Dir
  BY <1>1, OneDirectory DEF Selecting!Claimants
<1>5. IsFiniteSet(Dir)
  BY Zenon DEF Selecting!BrainSelectionAssumption, Selecting!IsFiniteSet, IsFiniteSet
<1>6. Cardinality({d, e}) = 2 /\ IsFiniteSet(claimants)
  <2>1. IsFiniteSet({d}) /\ Cardinality({d}) = 1
    BY FS_Singleton
  <2>2. {d, e} = {d} \cup {e} /\ e \notin {d}
    OBVIOUS
  <2> HIDE DEF claimants, name
  <2> QED
    BY <1>4, <1>5, <2>1, <2>2, FS_AddElement, FS_Subset
<1>7. Cardinality(claimants) >= 2 /\ Cardinality(claimants) \in Nat
  <2>1. {d, e} \subseteq claimants
    BY <1>3
  <2> HIDE DEF claimants, name
  <2> QED
    BY <1>6, <2>1, FS_Subset, FS_CardinalityType
<1>8. Selecting!Cardinality(claimants) > 1
  <2> HIDE DEF claimants, name
  <2> QED
    BY <1>7, SelectingCounts
<1> QED
  BY <1>1, <1>3, <1>8 DEF Selecting!Related

\* A name selects one directory at most, a registered one its own, programs run
\* only of a registered brain or of the user's enclosing one, and a retrieval
\* searches no two directories of one name (config.py: select, resolve, related),
\* in every state that registrations, moves and edits reach.
THEOREM NamesStaySafe ==
    ASSUME Selecting!BrainSelectionAssumption
    PROVE  Selecting!Spec => []Selecting!NamesAreSafe
<1>1. RegistryInv => Selecting!NamesAreSafe
  <2> SUFFICES ASSUME RegistryInv,
                      NEW here \in Dir \cup {Absent}, NEW below \in Dir \cup {Absent}
      PROVE  /\ \A name \in Name, execute \in BOOLEAN :
                LET found == Selecting!Located(name, here, execute, below)
                IN  /\ Selecting!Cardinality(found) <= 1
                    /\ registry[name] # Nowhere => found \subseteq {at[registry[name]]}
                    /\ execute /\ registry[name] = Nowhere =>
                         found \subseteq {d \in Dir : d = here /\ brain[d].mine /\ brain[d].name = name}
             /\ \A d \in Selecting!Executed(here) : d = here /\ brain[d].mine
             /\ \A roots \in {Selecting!Selected(here), Selecting!Registered} \cup {{d} : d \in Dir} :
                  \A d, e \in Selecting!Related(roots) :
                      Selecting!Valid(d) /\ Selecting!Valid(e) /\ d # e => brain[d].name # brain[e].name
    BY DEF Selecting!NamesAreSafe
  <2>1. \A d \in Selecting!Executed(here) : d = here /\ brain[d].mine
    BY DEF Selecting!Executed, Selecting!Trusted
  <2>2. Selecting!Registered \subseteq Dir
    BY DEF Selecting!Registered
  <2>3. Selecting!Selected(here) \subseteq Dir
    BY <2>2 DEF Selecting!Selected, Selecting!Trusted, Selecting!Enclosing, Selecting!Configured
  <2>4. \A roots \in {Selecting!Selected(here), Selecting!Registered} \cup {{d} : d \in Dir} : roots \in SUBSET Dir
    BY <2>2, <2>3
  <2> QED
    BY <2>1, <2>4, LocatedIsSafe, RelatedIsSafe
<1> QED
  BY <1>1, RegistryInvariance, PTL

-----------------------------------------------------------------------------
(* Actions of a routine: a person's work on them.                          *)

CONSTANTS MaxDay, Keep, MaxEdits

VARIABLES today, folders, reports, routine, edited, racedActions, touches, routineKills

Reporting == INSTANCE Reports WITH
    run <- routine, raced <- racedActions, edits <- touches, kills <- routineKills

FolderType == [text : {"none", "report", "edited"}, others : BOOLEAN]
RunType == [at : {"idle", "ran", "locked", "pruning", "looked", "deleted", "putBack", "history"},
            day : {0} \cup Reporting!Day, left : SUBSET Reporting!Action, next : Reporting!Action \cup {<<0, 0>>}, keeps : SUBSET Reporting!Action]
Removing == {"looked", "deleted", "putBack"}

\* A person's work is an edited text or a file beside it.  Once a run looked
\* at an action, only a file beside it is work the run has to keep, since
\* the text held BF's bytes.
Work(a) ==
    /\ folders[a].text = "edited" \/ folders[a].others
    /\ folders[a].text = "none" => routine.at \in {"deleted", "putBack"} /\ routine.next = a
    /\ routine.at \in Removing /\ routine.next = a => folders[a].others

ReportInv ==
    /\ Reporting!TypeOK
    /\ folders \in [Reporting!Action -> FolderType] /\ routine \in RunType
    /\ routine.at \in Removing => routine.next \in Reporting!Action
    /\ routine.at = "ran" => routine.day \in Reporting!Day
    /\ routine.at = "looked" => folders[routine.next].text # "none"
    /\ \A a \in edited \ racedActions : Work(a)

\* What a step leaves of one folder decides whether the work in it stays.
LEMMA ReportSteps ==
    ASSUME Reporting!ReportsAssumption, ReportInv,
           \/ Reporting!Start \/ Reporting!Quiet \/ Reporting!Skip \/ Reporting!Remember \/ Reporting!NextDay \/ Reporting!RemoveFolder \/ Reporting!Kill
           \/ Reporting!PruningFails
           \/ \E a \in Reporting!Action : Reporting!Look(a)
    PROVE  ReportInv'
<1> DEFINE Keeps == /\ UNCHANGED <<folders, edited>>
                    /\ racedActions \subseteq racedActions' /\ racedActions' \subseteq edited
                    /\ reports' \subseteq Reporting!Action /\ routine' \in RunType
                    /\ today' \in Reporting!Day /\ touches' \in 0..MaxEdits /\ routineKills' \in 0..MaxKills
                    /\ routine'.at \in Removing => routine'.next \in Reporting!Action
                    /\ routine'.at = "ran" => routine'.day \in Reporting!Day
                    /\ routine'.at = "looked" => folders'[routine'.next].text # "none"
                    /\ \A a \in edited \ racedActions' : Work(a)'
<1>1. Keeps => ReportInv'
  BY DEF ReportInv, Reporting!TypeOK, RunType
<1>2. /\ folders \in [Reporting!Action -> FolderType] /\ routine \in RunType
      /\ edited \subseteq Reporting!Action /\ racedActions \subseteq edited /\ reports \subseteq Reporting!Action
      /\ today \in Reporting!Day /\ touches \in 0..MaxEdits /\ routineKills \in 0..MaxKills
      /\ routine.at \in Removing => routine.next \in Reporting!Action
      /\ routine.at = "ran" => routine.day \in Reporting!Day
      /\ routine.at = "looked" => folders[routine.next].text # "none"
      /\ \A a \in edited \ racedActions : Work(a)
  BY DEF ReportInv, Reporting!TypeOK
<1>3. Reporting!Idle \in RunType /\ Reporting!Idle.at = "idle"
  BY DEF Reporting!Idle, RunType
<1>4. CASE Reporting!Quiet \/ Reporting!Skip \/ Reporting!Remember
  <2>1. routine' = Reporting!Idle /\ UNCHANGED <<folders, edited, racedActions, today, touches, routineKills>>
        /\ reports' \subseteq Reporting!Action /\ routine.at \notin Removing
    BY <1>2, <1>4 DEF Reporting!Quiet, Reporting!Skip, Reporting!Remember, RunType, Removing
  <2>2. Keeps
    BY <1>2, <1>3, <2>1 DEF Work, Removing
  <2> QED
    BY <1>1, <2>2
<1>5. CASE Reporting!Start
  <2>1. routine' = [Reporting!Idle EXCEPT !.at = "ran", !.day = today]
        /\ UNCHANGED <<folders, edited, racedActions, reports, today, touches, routineKills>>
        /\ routine.at \notin Removing
    BY <1>5 DEF Reporting!Start, Removing
  <2>2. routine' \in RunType /\ routine'.at = "ran" /\ routine'.day \in Reporting!Day
    BY <1>2, <2>1 DEF RunType, Reporting!Idle, Reporting!Day, Reporting!ReportsAssumption
  <2>3. Keeps
    BY <1>2, <2>1, <2>2 DEF Work, Removing
  <2> QED
    BY <1>1, <2>3
<1>6. CASE Reporting!NextDay
  <2>1. Keeps
    BY <1>2, <1>6 DEF Reporting!NextDay, Work, Reporting!Day, Reporting!ReportsAssumption
  <2> QED
    BY <1>1, <2>1
<1>7. CASE Reporting!RemoveFolder
  <2>1. routine.next \in Reporting!Action /\ routine.at = "deleted" /\ UNCHANGED <<folders, edited, racedActions, reports, today, touches, routineKills>>
    BY <1>2, <1>7 DEF Reporting!RemoveFolder, Removing
  <2>2. CASE folders[routine.next] = Reporting!None /\ routine' = [routine EXCEPT !.at = "pruning"]
    <3>1. routine' \in RunType /\ routine'.at = "pruning"
      BY <1>2, <2>2 DEF RunType
    <3>2. routine.next \notin edited \ racedActions
      BY <1>2, <2>1, <2>2 DEF Work, Reporting!None, Removing
    <3>3. Keeps
      BY <1>2, <2>1, <3>1, <3>2 DEF Work, Removing
    <3> QED
      BY <1>1, <3>3
  <2>3. CASE routine' = [routine EXCEPT !.at = "putBack"]
    <3>1. routine' \in RunType /\ routine'.at = "putBack" /\ routine'.next = routine.next
      BY <1>2, <2>3 DEF RunType
    <3>2. Keeps
      BY <1>2, <2>1, <3>1 DEF Work, Removing
    <3> QED
      BY <1>1, <3>2
  <2> QED
    BY <1>7, <2>2, <2>3 DEF Reporting!RemoveFolder
<1>8. CASE Reporting!Kill
  <2>1. routine' = Reporting!Idle /\ UNCHANGED <<folders, edited, reports, today, touches>>
        /\ routineKills' \in 0..MaxKills
    BY <1>2, <1>8 DEF Reporting!Kill, Reporting!ReportsAssumption
  <2>2. racedActions' = racedActions \cup Reporting!Unfinished
    BY <1>8 DEF Reporting!Kill
  <2>3. Keeps
    BY <1>2, <1>3, <2>1, <2>2 DEF Work, Removing, Reporting!Unfinished
  <2> QED
    BY <1>1, <2>3
<1>10. CASE Reporting!PruningFails
  <2>1. routine' \in RunType /\ routine'.at = "pruning"
        /\ UNCHANGED <<folders, edited, reports, today, touches, routineKills>>
        /\ racedActions' = racedActions \cup Reporting!Unfinished
    BY <1>2, <1>10 DEF Reporting!PruningFails, RunType
  <2>2. Keeps
    BY <1>2, <2>1 DEF Work, Removing, Reporting!Unfinished
  <2> QED
    BY <1>1, <2>2
<1>9. ASSUME NEW a \in Reporting!Action, Reporting!Look(a) PROVE ReportInv'
  <2>1. UNCHANGED <<folders, edited, racedActions, reports, today, touches, routineKills>>
        /\ routine.at = "pruning"
    BY <1>9 DEF Reporting!Look
  <2>2. CASE Reporting!Disposable(a)
    <3>1. routine' \in RunType /\ routine'.at = "looked" /\ routine'.next = a
      BY <1>2, <1>9, <2>2 DEF Reporting!Look, RunType
    <3>2. a \notin edited \ racedActions
      BY <1>2, <2>2 DEF Work, Reporting!Disposable
    <3>4. folders[a].text = "report"
      BY <2>2 DEF Reporting!Disposable
    <3>3. Keeps
      BY <1>2, <2>1, <3>1, <3>2, <3>4 DEF Work, Removing
    <3> QED
      BY <1>1, <3>3
  <2>3. CASE ~Reporting!Disposable(a)
    <3>1. routine' \in RunType /\ routine'.at = "pruning"
      BY <1>2, <1>9, <2>3 DEF Reporting!Look, RunType
    <3>2. Keeps
      BY <1>2, <2>1, <3>1 DEF Work, Removing
    <3> QED
      BY <1>1, <3>2
  <2> QED
    BY <2>2, <2>3
<1> QED
  BY <1>4, <1>5, <1>6, <1>7, <1>8, <1>9, <1>10

\* A step that changes one folder, and what it has to keep.
FolderChange(a, new) ==
    /\ folders' = [folders EXCEPT ![a] = new]
    /\ edited' \subseteq Reporting!Action /\ racedActions' \subseteq edited'
    /\ (edited' \ racedActions') \ {a} \subseteq edited \ racedActions
    /\ UNCHANGED <<today, reports, routineKills>> /\ touches' \in 0..MaxEdits
    /\ routine' \in RunType
    /\ routine'.at \in Removing => routine'.next \in Reporting!Action
    /\ routine'.at = "ran" => routine'.day \in Reporting!Day
    /\ routine'.at = "looked" => folders'[routine'.next].text # "none"
    /\ \A b \in (edited \ racedActions) \ {a} : Work(b)'
    /\ a \in edited' \ racedActions' => Work(a)'

LEMMA FolderSteps ==
    ASSUME Reporting!ReportsAssumption, ReportInv,
           \/ Reporting!Write \/ Reporting!Delete \/ Reporting!PutBack
           \/ \E a \in Reporting!Action : Reporting!EditText(a) \/ Reporting!AddFile(a) \/ Reporting!RemoveAction(a)
           \/ \E day \in Reporting!Day : Reporting!Pull(day)
    PROVE  ReportInv'
<1>1. /\ folders \in [Reporting!Action -> FolderType] /\ routine \in RunType
      /\ edited \subseteq Reporting!Action /\ racedActions \subseteq edited /\ reports \subseteq Reporting!Action
      /\ today \in Reporting!Day /\ touches \in 0..MaxEdits /\ routineKills \in 0..MaxKills
      /\ routine.at \in Removing => routine.next \in Reporting!Action
      /\ routine.at = "ran" => routine.day \in Reporting!Day
      /\ routine.at = "looked" => folders[routine.next].text # "none"
      /\ \A a \in edited \ racedActions : Work(a)
  BY DEF ReportInv, Reporting!TypeOK
<1>2. ASSUME NEW a \in Reporting!Action, NEW new \in FolderType, FolderChange(a, new) PROVE ReportInv'
  <2>1. folders' \in [Reporting!Action -> FolderType]
    BY <1>1, <1>2 DEF FolderChange
  <2>2. Reporting!TypeOK'
    BY <1>1, <1>2, <2>1 DEF Reporting!TypeOK, RunType, FolderType, FolderChange
  <2>3. \A b \in edited' \ racedActions' : Work(b)'
    BY <1>2 DEF FolderChange
  <2> QED
    BY <1>2, <2>1, <2>2, <2>3 DEF ReportInv, FolderChange
<1>3. \A a \in Reporting!Action : folders[a] \in FolderType
  BY <1>1
<1>4. ASSUME NEW a \in Reporting!Action, NEW new \in FolderType, folders' = [folders EXCEPT ![a] = new]
      PROVE  folders'[a] = new /\ \A b \in Reporting!Action \ {a} : folders'[b] = folders[b]
  BY <1>1, <1>4
<1>5. CASE Reporting!Write
  <2>0. Reporting!Own(routine.day) \in Reporting!Action /\ routine.at = "ran"
    BY <1>1, <1>5 DEF Reporting!Write, Reporting!Own, Reporting!Action
  <2>1. PICK a \in Reporting!Action : a = Reporting!Own(routine.day)
    BY <2>0
  <2> DEFINE new == [folders[a] EXCEPT !.text = "report"]
  <2>2. new \in FolderType /\ new.text = "report" /\ new.others = folders[a].others
    BY <1>3, <2>1 DEF FolderType
  <2>3. folders' = [folders EXCEPT ![a] = new] /\ UNCHANGED <<today, reports, edited, racedActions, touches, routineKills>>
    BY <1>1, <1>5, <2>1 DEF Reporting!Write
  <2>4. routine' \in RunType /\ routine'.at = "pruning"
    <3>1. Reporting!Older({Reporting!Own(routine.day)}) \subseteq Reporting!Action
      BY <2>0 DEF Reporting!Older, Reporting!Actions
    <3> QED
      BY <1>1, <1>5, <2>0, <3>1 DEF Reporting!Write, RunType, Reporting!Actions
  <2>5. a[1] = routine.day
    BY <2>1 DEF Reporting!Own
  <2>6. a \notin Reporting!Actions
    BY <1>5, <2>5 DEF Reporting!Write
  <2>7. folders[a].text = "none"
    BY <2>1, <2>6 DEF Reporting!Actions, Reporting!Exists
  <2> HIDE DEF new
  <2>8. a \notin edited \ racedActions
    BY <1>1, <2>0, <2>7 DEF Work
  <2>9. FolderChange(a, new)
    BY <1>1, <1>4, <2>0, <2>2, <2>3, <2>4, <2>8 DEF FolderChange, Work, Removing
  <2> QED
    BY <1>2, <2>1, <2>2, <2>9
<1>6. CASE Reporting!Delete
  <2>0. routine.next \in Reporting!Action /\ routine.at = "looked"
    BY <1>1, <1>6 DEF Reporting!Delete, Removing
  <2>1. PICK a \in Reporting!Action : a = routine.next
    BY <2>0
  <2> DEFINE new == [folders[a] EXCEPT !.text = "none"]
  <2>2. new \in FolderType /\ new.text = "none" /\ new.others = folders[a].others
    BY <1>3, <2>1 DEF FolderType
  <2>3. folders' = [folders EXCEPT ![a] = new] /\ UNCHANGED <<today, reports, edited, racedActions, touches, routineKills>>
    BY <1>1, <1>6, <2>1 DEF Reporting!Delete
  <2>4. routine' \in RunType /\ routine'.at = "deleted" /\ routine'.next = a
    BY <1>1, <1>6, <2>1 DEF Reporting!Delete, RunType
  <2> HIDE DEF new
  <2>9. FolderChange(a, new)
    BY <1>1, <1>4, <2>0, <2>1, <2>2, <2>3, <2>4 DEF FolderChange, Work, Removing
  <2> QED
    BY <1>2, <2>1, <2>2, <2>9
<1>7. CASE Reporting!PutBack
  <2>0. routine.next \in Reporting!Action /\ routine.at = "putBack"
    BY <1>1, <1>7 DEF Reporting!PutBack, Removing
  <2>1. PICK a \in Reporting!Action : a = routine.next
    BY <2>0
  <2> DEFINE new == [folders[a] EXCEPT !.text = "report"]
  <2>2. new \in FolderType /\ new.text = "report" /\ new.others = folders[a].others
    BY <1>3, <2>1 DEF FolderType
  <2>3. folders' = [folders EXCEPT ![a] = new] /\ UNCHANGED <<today, reports, edited, racedActions, touches, routineKills>>
    BY <1>1, <1>7, <2>1 DEF Reporting!PutBack
  <2>4. routine' \in RunType /\ routine'.at = "pruning"
    BY <1>1, <1>7, <2>1 DEF Reporting!PutBack, RunType
  <2> HIDE DEF new
  <2>5. folders'[a] = new /\ \A b \in Reporting!Action \ {a} : folders'[b] = folders[b]
    BY <1>4, <2>1, <2>2, <2>3
  <2>6. a \in edited \ racedActions => new.others
    BY <1>1, <2>0, <2>1, <2>2 DEF Work, Removing
  <2>7. \A b \in (edited \ racedActions) \ {a} : Work(b)'
    BY <1>1, <2>0, <2>1, <2>4, <2>5 DEF Work, Removing
  <2>8. a \in edited \ racedActions => Work(a)'
    BY <2>2, <2>4, <2>5, <2>6 DEF Work, Removing
  <2>9. FolderChange(a, new)
    BY <1>1, <2>1, <2>3, <2>4, <2>7, <2>8 DEF FolderChange, Removing
  <2> QED
    BY <1>2, <2>1, <2>2, <2>9
<1>8. ASSUME NEW a \in Reporting!Action, Reporting!EditText(a) PROVE ReportInv'
  <2> DEFINE new == [folders[a] EXCEPT !.text = "edited"]
  <2>2. new \in FolderType /\ new.text = "edited" /\ new.others = folders[a].others
    BY <1>3 DEF FolderType
  <2>3. folders' = [folders EXCEPT ![a] = new] /\ UNCHANGED <<today, reports, routine, routineKills>>
        /\ edited' = edited \cup {a} /\ touches' \in 0..MaxEdits
    BY <1>1, <1>8 DEF Reporting!EditText, Reporting!ReportsAssumption
  <2>4. racedActions' = IF Reporting!Watched(a) THEN racedActions \cup {a} ELSE racedActions
    BY <1>8 DEF Reporting!EditText, Reporting!Races
  <2>5. a \in edited' \ racedActions' => ~(routine.at \in Removing /\ routine.next = a)
    BY <2>4 DEF Reporting!Watched, Removing
  <2> HIDE DEF new
  <2>6. a \in edited' \ racedActions' => Work(a)'
    BY <1>4, <2>2, <2>3, <2>5 DEF Work
  <2>7. \A b \in (edited \ racedActions) \ {a} : Work(b)'
    BY <1>1, <1>4, <2>2, <2>3 DEF Work
  <2>8. /\ edited' \subseteq Reporting!Action /\ racedActions' \subseteq edited'
        /\ (edited' \ racedActions') \ {a} \subseteq edited \ racedActions
    BY <1>1, <2>3, <2>4
  <2>10. routine.at = "looked" => folders'[routine.next].text # "none"
    BY <1>1, <1>4, <2>2, <2>3 DEF Removing
  <2>9. FolderChange(a, new)
    BY <1>1, <2>2, <2>3, <2>6, <2>7, <2>8, <2>10 DEF FolderChange
  <2> QED
    BY <1>2, <2>2, <2>9
<1>9. ASSUME NEW a \in Reporting!Action, Reporting!AddFile(a) PROVE ReportInv'
  <2> DEFINE new == [folders[a] EXCEPT !.others = TRUE]
  <2>2. new \in FolderType /\ new.text = folders[a].text /\ new.others
    BY <1>3 DEF FolderType
  <2>3. folders' = [folders EXCEPT ![a] = new] /\ UNCHANGED <<today, reports, routine, routineKills>>
        /\ edited' = edited \cup {a} /\ touches' \in 0..MaxEdits
    BY <1>1, <1>9 DEF Reporting!AddFile, Reporting!ReportsAssumption
  <2>4. racedActions' = IF routine.at = "putBack" /\ Reporting!Watched(a) THEN racedActions \cup {a} ELSE racedActions
    BY <1>9 DEF Reporting!AddFile
  <2>5. folders[a].text = "none" => routine.at \in {"deleted", "putBack"} /\ routine.next = a
    BY <1>1, <1>9 DEF Reporting!AddFile, Reporting!Exists, Reporting!Watched
  <2> HIDE DEF new
  <2>6. a \in edited' \ racedActions' => Work(a)'
    BY <1>4, <2>2, <2>3, <2>5 DEF Work, Removing
  <2>7. \A b \in (edited \ racedActions) \ {a} : Work(b)'
    BY <1>1, <1>4, <2>2, <2>3 DEF Work
  <2>8. /\ edited' \subseteq Reporting!Action /\ racedActions' \subseteq edited'
        /\ (edited' \ racedActions') \ {a} \subseteq edited \ racedActions
    BY <1>1, <2>3, <2>4
  <2>10. routine.at = "looked" => folders'[routine.next].text # "none"
    BY <1>1, <1>4, <2>2, <2>3 DEF Removing
  <2>9. FolderChange(a, new)
    BY <1>1, <2>2, <2>3, <2>6, <2>7, <2>8, <2>10 DEF FolderChange
  <2> QED
    BY <1>2, <2>2, <2>9
<1>10. ASSUME NEW a \in Reporting!Action, Reporting!RemoveAction(a) PROVE ReportInv'
  <2>1. folders' = [folders EXCEPT ![a] = Reporting!None] /\ UNCHANGED <<today, reports, routine, routineKills, touches>>
        /\ edited' = edited \ {a} /\ racedActions' = racedActions \ {a}
    BY <1>10 DEF Reporting!RemoveAction
  <2>2. Reporting!None \in FolderType
    BY DEF Reporting!None, FolderType
  <2>3. \A b \in (edited \ racedActions) \ {a} : Work(b)'
    BY <1>1, <1>4, <2>1, <2>2 DEF Work
  <2>5. routine.at = "looked" => folders'[routine.next].text # "none"
    BY <1>1, <1>4, <1>10, <2>1, <2>2 DEF Removing, Reporting!RemoveAction, Reporting!Watched
  <2>4. FolderChange(a, Reporting!None)
    BY <1>1, <2>1, <2>3, <2>5 DEF FolderChange
  <2> QED
    BY <1>2, <2>2, <2>4
<1>11. ASSUME NEW day \in Reporting!Day, Reporting!Pull(day) PROVE ReportInv'
  <2> DEFINE a == <<day, 1>>
             new == [folders[a] EXCEPT !.text = "report"]
  <2>1. a \in Reporting!Action
    BY DEF Reporting!Action
  <2>2. new \in FolderType /\ new.text = "report" /\ new.others = folders[a].others
    BY <1>3, <2>1 DEF FolderType
  <2>3. folders' = [folders EXCEPT ![a] = new]
        /\ UNCHANGED <<today, reports, routine, edited, racedActions, touches, routineKills>>
    BY <1>11 DEF Reporting!Pull
  <2>4. folders[a].text = "none"
    BY <1>11, <2>1 DEF Reporting!Pull, Reporting!Exists
  <2> HIDE DEF a, new
  <2>5. \A b \in edited \ racedActions : Work(b)'
    BY <1>1, <1>4, <2>1, <2>2, <2>3, <2>4 DEF Work
  <2>7. routine.at = "looked" => folders'[routine.next].text # "none"
    BY <1>1, <1>4, <2>1, <2>2, <2>3 DEF Removing
  <2>6. FolderChange(a, new)
    BY <1>1, <2>3, <2>5, <2>7 DEF FolderChange
  <2> QED
    BY <1>2, <2>1, <2>2, <2>6
<1> QED
  BY <1>5, <1>6, <1>7, <1>8, <1>9, <1>10, <1>11

\* Every variable of the routines' model keeps its type, and between any two of
\* its steps a person's work is in its folder, or beside a report put back soon.
THEOREM ReportInvariance ==
    ASSUME Reporting!ReportsAssumption
    PROVE  Reporting!Spec => []ReportInv
<1>1. Reporting!Init => ReportInv
  <2> SUFFICES ASSUME Reporting!Init PROVE ReportInv
    OBVIOUS
  <2>1. folders \in [Reporting!Action -> FolderType]
    BY DEF Reporting!Init, Reporting!None, FolderType
  <2>2. routine \in RunType /\ routine.at = "idle"
    BY DEF Reporting!Init, Reporting!Idle, RunType
  <2>3. MaxDay \in Nat \ {0} /\ MaxEdits \in Nat /\ MaxKills \in Nat
    BY DEF Reporting!ReportsAssumption
  <2>4. Reporting!TypeOK
    BY <2>1, <2>2, <2>3 DEF Reporting!Init, Reporting!TypeOK, FolderType, RunType, Reporting!Day, Reporting!ReportsAssumption
  <2> QED
    BY <2>1, <2>2, <2>4 DEF Reporting!Init, ReportInv, Removing
<1>2. ReportInv /\ [Reporting!Next]_Reporting!vars => ReportInv'
  <2>1. ASSUME ReportInv, Reporting!Next PROVE ReportInv'
    BY <2>1, ReportSteps, FolderSteps DEF Reporting!Next
  <2>2. ASSUME ReportInv, UNCHANGED Reporting!vars PROVE ReportInv'
    BY <2>2 DEF ReportInv, Reporting!TypeOK, Work, Reporting!vars
  <2> QED
    BY <2>1, <2>2
<1> QED
  BY <1>1, <1>2, PTL DEF Reporting!Spec

\* A routine with keep (_prune_reports of collect.py) leaves every action a person
\* changed, unless its text changed while a run removed that very action, or a run
\* was killed or failed before it put back what it had deleted: none is lost to a
\* later run, to a pull, or to a kill or a failure at another step.
THEOREM WorkStays ==
    ASSUME Reporting!ReportsAssumption
    PROVE  Reporting!Spec => []Reporting!WorkIsKept
<1>1. ReportInv => Reporting!WorkIsKept
  BY DEF ReportInv, Work, Reporting!WorkIsKept, Reporting!Exists, Reporting!Watched
<1> QED
  BY <1>1, ReportInvariance, PTL

-----------------------------------------------------------------------------
(* The skill folder: a person's edits of what releases install.            *)

CONSTANTS File, Ships

VARIABLES skill, manifest, stray, installation, skillEdits, installKills, begun, trampled, racedFiles

Installing == INSTANCE Installation WITH
    files <- skill, run <- installation, edits <- skillEdits, kills <- installKills,
    raced <- racedFiles

\* Nothing in the folder speaks against a run of this release: each of its files
\* and of the recorded ones has recorded or shipped bytes, or is missing where a
\* run of it may have removed or not yet written it.
Clean(v) ==
    /\ \A f \in DOMAIN manifest.files \cup DOMAIN Ships[v] :
          /\ f \in DOMAIN skill =>
                \/ f \in DOMAIN manifest.files /\ skill[f] = manifest.files[f]
                \/ f \in DOMAIN Ships[v] /\ skill[f] = Ships[v][f]
          /\ f \notin DOMAIN skill => f \notin DOMAIN manifest.files \cap DOMAIN Ships[v]
    /\ manifest = Installing!NoManifest => skill = Installing!Nothing

\* No manifest records bytes of a person.
Shipped(bytes) == DOMAIN bytes \subseteq File /\ \A f \in DOMAIN bytes : bytes[f] \in Installing!Bytes \ {"mine"}

Written(v) == \A f \in DOMAIN Ships[v] \ (IF installation.at = "copy" THEN installation.left ELSE {}) :
                    f \in DOMAIN skill /\ skill[f] = Ships[v][f]

\* What a run without edits beside it has to know of the folder, and what every
\* run knows of the files it has yet to write or to remove.
Installs ==
    LET v == installation.version IN
    /\ v \in Installing!Release /\ installation.force \in BOOLEAN
    /\ installation.recorded = manifest.files
    /\ begun # 0 => ~installation.force /\ begun = v
    /\ installation.at = "first" => installation.left = DOMAIN Ships[v] /\ manifest.files = Installing!Nothing
    /\ installation.at # "first" /\ ~installation.force => manifest # Installing!NoManifest
    /\ installation.at = "copy" => installation.left \subseteq DOMAIN Ships[v]
    /\ installation.at = "remove" =>
          installation.left \subseteq DOMAIN manifest.files \ DOMAIN Ships[v]
    /\ installation.at # "remove" => installation.checked = {}
    /\ installation.checked \subseteq installation.left
    /\ begun # 0 /\ installation.at \in {"copy", "remove", "record"} => Written(v)

Looked ==
    /\ installation.at \in {"first", "copy"} /\ ~installation.force =>
          \A f \in installation.left \ racedFiles : ~Installing!Mine(f)
    /\ \A f \in installation.checked \ racedFiles : ~Installing!Mine(f)

InstallInv ==
    /\ Installing!TypeOK
    /\ installation.at # "idle" => Installs /\ Looked
    /\ Shipped(manifest.files)
    /\ begun # 0 => Clean(begun)
    /\ ~trampled

\* Where bf.install sees no edit and a manifest or nothing, the folder is clean.
LEMMA CleanMeansUnedited ==
    ASSUME NEW v
    PROVE  Clean(v) <=> Installing!Edited(v) = {} /\ (manifest = Installing!NoManifest => skill = Installing!Nothing)
BY DEF Clean, Installing!Edited, Installing!In

LEMMA ShipsBytes ==
    ASSUME Installing!InstallationAssumption, NEW v \in Installing!Release
    PROVE  Shipped(Ships[v])
<1>1. DOMAIN Ships[v] \subseteq File /\ "mine" \notin Installing!Range(Ships[v])
  BY DEF Installing!InstallationAssumption
<1>2. ASSUME NEW f \in DOMAIN Ships[v] PROVE Ships[v][f] \in Installing!Range(Ships[v])
  BY DEF Installing!Range
<1>3. Installing!Range(Ships[v]) \subseteq Installing!Bytes
  BY DEF Installing!Bytes
<1> QED
  BY <1>1, <1>2, <1>3 DEF Shipped

LEMMA InstallStarts ==
    ASSUME Installing!InstallationAssumption, Installing!Init
    PROVE  InstallInv
<1>1. /\ DOMAIN skill \subseteq File /\ \A f \in DOMAIN skill : skill[f] = "mine"
  BY DEF Installing!Init, Installing!Nothing, Installing!InstallationAssumption
<1>2. DOMAIN Installing!Nothing = {}
  BY DEF Installing!Nothing
<1>3. Shipped(manifest.files)
  BY <1>2 DEF Installing!Init, Installing!NoManifest, Shipped
<1>4. Installing!TypeOK
  <2>1. Installing!Range(skill) \subseteq Installing!Bytes
    <3>1. "mine" \in Installing!Bytes
      BY DEF Installing!Bytes
    <3> QED
      BY <1>1, <3>1 DEF Installing!Range
  <2>2. manifest.version = 0 /\ installation.at = "idle" /\ installation.left = {} /\ installation.checked = {}
    BY DEF Installing!Init, Installing!NoManifest, Installing!NoRun
  <2>3. begun = 0 /\ stray = FALSE /\ trampled = FALSE /\ racedFiles = {}
    BY DEF Installing!Init
  <2> QED
    BY <1>1, <2>1, <2>2, <2>3 DEF Installing!TypeOK
<1> QED
  BY <1>3, <1>4 DEF Installing!Init, InstallInv, Installing!NoRun

LEMMA StartKeeps ==
    ASSUME Installing!InstallationAssumption, InstallInv, NEW v \in Installing!Release, Installing!Start(v)
    PROVE  InstallInv'
<1>1. PICK force \in BOOLEAN :
        /\ Installing!Status(v) \in {"missing", "outdated"} \cup IF force THEN Installing!Blocked ELSE {}
        /\ installation' = [at |-> IF Installing!Status(v) = "missing" THEN "first" ELSE "copy", version |-> v,
                            status |-> Installing!Status(v), force |-> force, left |-> DOMAIN Ships[v],
                            checked |-> {}, recorded |-> manifest.files]
        /\ begun' = IF force THEN 0 ELSE v
  BY DEF Installing!Start
<1>2. UNCHANGED <<skill, manifest, stray, skillEdits, installKills, trampled, racedFiles>>
  BY DEF Installing!Start
<1>3. Installing!Status(v) = "missing" => skill = Installing!Nothing /\ manifest = Installing!NoManifest
  BY DEF Installing!Status
<1>4. Installing!Status(v) = "outdated" => manifest # Installing!NoManifest /\ Installing!Edited(v) = {}
  BY DEF Installing!Status
<1>5. Installing!Status(v) = "missing" => DOMAIN manifest.files = {} /\ DOMAIN skill = {} /\ manifest.files = Installing!Nothing
  BY <1>3 DEF Installing!NoManifest, Installing!Nothing
<1>6. ~force => Clean(v)
  BY <1>1, <1>3, <1>4, <1>5, CleanMeansUnedited DEF Clean
<1>7. DOMAIN Ships[v] \subseteq File /\ v # 0
  BY ShipsBytes DEF Shipped, Installing!InstallationAssumption
<1>8. Installing!TypeOK'
  BY <1>1, <1>2, <1>7 DEF InstallInv, Installing!TypeOK
<1>9. Installs'
  <2>1. /\ installation'.at = (IF Installing!Status(v) = "missing" THEN "first" ELSE "copy")
        /\ installation'.version = v /\ installation'.force = force
        /\ installation'.left = DOMAIN Ships[v] /\ installation'.recorded = manifest.files
        /\ installation'.checked = {}
    BY <1>1
  <2>2. installation'.at # "first" => Written(v)'
    BY <2>1 DEF Written
  <2>3. ~force /\ Installing!Status(v) # "missing" => manifest # Installing!NoManifest
    BY <1>1, <1>4
  <2> QED
    BY <1>1, <1>2, <1>5, <2>1, <2>2, <2>3 DEF Installs
<1>10. (begun # 0 => Clean(begun))'
  BY <1>1, <1>2, <1>6, <1>7 DEF Clean
<1>11. Looked'
  <2>1. Shipped(Ships[v]) /\ Shipped(manifest.files)
    BY ShipsBytes DEF InstallInv
  <2>2. ~force => \A f \in DOMAIN Ships[v] : ~Installing!Mine(f)
    BY <1>6, <2>1 DEF Clean, Shipped, Installing!Mine
  <2> QED
    BY <1>1, <1>2, <2>2 DEF Looked, Installing!Mine
<1> QED
  BY <1>2, <1>8, <1>9, <1>10, <1>11 DEF InstallInv

LEMMA WriteFirstKeeps ==
    ASSUME Installing!InstallationAssumption, InstallInv, Installing!WriteFirst
    PROVE  InstallInv'
<1> DEFINE v == installation.version
<1>1. /\ installation.at = "first" /\ Installs /\ Looked /\ v \in Installing!Release /\ v # 0
  BY DEF Installing!WriteFirst, InstallInv, Installs, Installing!InstallationAssumption
<1>2. /\ manifest' = [version |-> v, files |-> Installing!Nothing]
      /\ installation' = [installation EXCEPT !.at = "copy"]
      /\ UNCHANGED <<skill, stray, skillEdits, installKills, begun, trampled, racedFiles>>
  BY DEF Installing!WriteFirst
<1>3. manifest'.files = manifest.files /\ manifest' # Installing!NoManifest
  BY <1>1, <1>2 DEF Installs, Installing!NoManifest
<1>4. /\ installation'.at = "copy" /\ installation'.version = v /\ installation'.left = installation.left
      /\ installation'.force = installation.force /\ installation'.recorded = installation.recorded
      /\ installation'.checked = installation.checked
  BY <1>1, <1>2 DEF InstallInv, Installing!TypeOK
<1>5. DOMAIN Ships[v] \subseteq File
  BY <1>1, ShipsBytes DEF Shipped
<1>6. Installing!TypeOK'
  BY <1>1, <1>2, <1>4, <1>5 DEF InstallInv, Installing!TypeOK, Installs
<1>7. Installs'
  BY <1>1, <1>2, <1>3, <1>4 DEF Installs, Written
<1>8. (begun # 0 => Clean(begun))'
  BY <1>2, <1>3 DEF InstallInv, Clean
<1>9. Looked'
  BY <1>1, <1>2, <1>4 DEF Looked, Installing!Mine
<1> QED
  BY <1>2, <1>3, <1>6, <1>7, <1>8, <1>9 DEF InstallInv

LEMMA CopyKeeps ==
    ASSUME Installing!InstallationAssumption, InstallInv, NEW f \in File, Installing!Copy(f)
    PROVE  InstallInv'
<1> PICK v \in Installing!Release : v = installation.version
  BY DEF Installing!Copy, InstallInv, Installs
<1> DEFINE left == installation.left \ {f}
           dropped == DOMAIN manifest.files \ DOMAIN Ships[v]
<1>1. /\ installation.at = "copy" /\ f \in installation.left /\ Installs /\ Looked /\ v # 0
      /\ f \in DOMAIN Ships[v] /\ Shipped(Ships[v]) /\ Shipped(manifest.files)
  BY ShipsBytes DEF Installing!Copy, InstallInv, Installs, Installing!InstallationAssumption
<1>2. /\ DOMAIN skill' = DOMAIN skill \cup {f} /\ skill'[f] = Ships[v][f]
      /\ \A g \in DOMAIN skill \ {f} : skill'[g] = skill[g]
      /\ UNCHANGED <<manifest, stray, skillEdits, installKills, begun>> /\ racedFiles' = racedFiles \ {f}
  BY DEF Installing!Copy
<1>3. installation' = IF left # {} THEN [installation EXCEPT !.left = left]
                      ELSE [installation EXCEPT !.left = dropped,
                                                !.at = IF dropped = {} THEN "record" ELSE "remove"]
  BY <1>1 DEF Installing!Copy, Installs
<1>4. /\ installation'.version = v /\ installation'.force = installation.force
      /\ installation'.recorded = manifest'.files /\ installation'.checked = {} /\ installation.checked = {}
      /\ \/ installation'.at = "copy" /\ installation'.left = left
         \/ installation'.at \in {"remove", "record"} /\ installation'.left = dropped /\ left = {}
  BY <1>1, <1>2, <1>3 DEF Installs
<1>5. ~trampled'
  <2>1. CASE installation.force
    BY <2>1 DEF InstallInv, Installing!Copy
  <2>2. CASE ~installation.force
    <3>1. ~(Installing!Mine(f) /\ f \notin racedFiles)
      BY <1>1, <2>2 DEF Looked
    <3>2. trampled' <=> (trampled \/ (Installing!Mine(f) /\ f \notin racedFiles))
      BY <2>2, Zenon DEF Installing!Copy, Installing!Tramples
    <3> QED
      BY <3>1, <3>2, Zenon DEF InstallInv
  <2> QED
    BY <2>1, <2>2
<1>6. begun # 0 => Written(v)'
  <2> SUFFICES ASSUME begun # 0 PROVE Written(v)'
    OBVIOUS
  <2>1. \A g \in DOMAIN Ships[v] \ installation.left : g \in DOMAIN skill /\ skill[g] = Ships[v][g]
    BY <1>1 DEF Installs, Written
  <2>2. \A g \in DOMAIN Ships[v] \ left : g \in DOMAIN skill' /\ skill'[g] = Ships[v][g]
    BY <1>2, <2>1
  <2> QED
    BY <1>4, <2>2 DEF Written
<1>7. Installs'
  BY <1>1, <1>2, <1>4, <1>6 DEF Installs
<1>8. (begun # 0 => Clean(begun))'
  <2> SUFFICES ASSUME begun # 0 PROVE Clean(begun)'
    BY <1>2
  <2>1. begun = v /\ Clean(v) /\ ~installation.force /\ manifest # Installing!NoManifest
    BY <1>1 DEF Installs, InstallInv
  <2> QED
    BY <1>1, <1>2, <2>1 DEF Clean
<1>9. Installing!TypeOK'
  <2>1. DOMAIN skill' \subseteq File /\ Installing!Range(skill') \subseteq Installing!Bytes
    <3>1. DOMAIN skill \subseteq File /\ \A g \in DOMAIN skill : skill[g] \in Installing!Bytes
      BY DEF InstallInv, Installing!TypeOK, Installing!Range
    <3>2. \A g \in DOMAIN skill' : skill'[g] \in Installing!Bytes
      BY <1>1, <1>2, <3>1 DEF Shipped
    <3> QED
      BY <1>2, <3>1, <3>2 DEF Installing!Range
  <2>2. installation'.left \subseteq File /\ installation'.at \in {"copy", "remove", "record"}
    BY <1>1, <1>4 DEF Installs, Shipped
  <2>3. trampled' \in BOOLEAN
    <3>1. trampled' = trampled \/ trampled' = (trampled \/ (Installing!Mine(f) /\ f \notin racedFiles))
      BY Zenon DEF Installing!Copy, Installing!Tramples
    <3> QED
      BY <3>1, Zenon DEF InstallInv, Installing!TypeOK
  <2>4. installation'.checked \subseteq File /\ racedFiles' \subseteq File
    BY <1>2, <1>4 DEF InstallInv, Installing!TypeOK
  <2> QED
    BY <1>2, <2>1, <2>2, <2>3, <2>4 DEF InstallInv, Installing!TypeOK
<1>10. Looked'
  <2>1. installation'.at = "copy" => installation'.left = left
    BY <1>4
  <2>2. \A g \in left : g # f /\ (Installing!Mine(g)' => Installing!Mine(g))
    BY <1>2 DEF Installing!Mine
  <2> QED
    BY <1>1, <1>2, <1>4, <2>1, <2>2 DEF Looked
<1> QED
  BY <1>1, <1>2, <1>5, <1>7, <1>8, <1>9, <1>10 DEF InstallInv

\* The next file of those this release no longer ships.
LEMMA PassedIs ==
    ASSUME InstallInv, installation.at = "remove", NEW f \in installation.left,
           installation' = Installing!Passed(f)
    PROVE  /\ installation'.version = installation.version /\ installation'.force = installation.force
           /\ installation'.recorded = installation.recorded /\ installation'.checked = {}
           /\ installation'.at \in {"remove", "record"} /\ installation'.left \subseteq installation.left
BY DEF Installing!Passed, InstallInv, Installs

LEMMA CheckFileKeeps ==
    ASSUME Installing!InstallationAssumption, InstallInv, NEW f \in File, Installing!Check(f)
    PROVE  InstallInv'
<1>1. /\ installation.at = "remove" /\ f \in installation.left /\ Installs /\ Looked
      /\ f \in DOMAIN manifest.files /\ Shipped(manifest.files)
      /\ UNCHANGED <<skill, manifest, stray, skillEdits, installKills, begun, trampled, racedFiles>>
  BY DEF Installing!Check, InstallInv, Installs
<1>2. CASE installation' = Installing!Passed(f)
  <2>1. /\ installation'.version = installation.version /\ installation'.force = installation.force
        /\ installation'.recorded = installation.recorded /\ installation'.checked = {}
        /\ installation'.at \in {"remove", "record"} /\ installation'.left \subseteq installation.left
    BY <1>1, <1>2, PassedIs
  <2> QED
    BY <1>1, <2>1 DEF InstallInv, Installing!TypeOK, Installs, Looked, Written, Clean
<1>3. CASE Installing!Holds(f, installation.recorded[f]) /\ installation' = [installation EXCEPT !.checked = {f}]
  <2>1. /\ installation'.version = installation.version /\ installation'.force = installation.force
        /\ installation'.recorded = installation.recorded /\ installation'.checked = {f}
        /\ installation'.at = "remove" /\ installation'.left = installation.left
    BY <1>1, <1>3 DEF InstallInv, Installs
  <2>2. ~Installing!Mine(f)
    BY <1>1, <1>3 DEF Installs, Installing!Holds, Installing!Mine, Shipped
  <2>3. Looked'
    BY <1>1, <2>1, <2>2 DEF Looked, Installing!Mine
  <2> QED
    BY <1>1, <2>1, <2>3 DEF InstallInv, Installing!TypeOK, Installs, Written, Clean
<1> QED
  BY <1>2, <1>3 DEF Installing!Check

LEMMA RemoveKeeps ==
    ASSUME Installing!InstallationAssumption, InstallInv, NEW f \in File, Installing!Remove(f)
    PROVE  InstallInv'
<1> PICK v \in Installing!Release : v = installation.version
  BY DEF Installing!Remove, InstallInv, Installs
<1>1. /\ installation.at = "remove" /\ f \in installation.checked /\ Installs /\ Looked /\ v # 0
      /\ Shipped(manifest.files)
  BY DEF Installing!Remove, InstallInv, Installs, Installing!InstallationAssumption
<1>2. /\ DOMAIN skill' = DOMAIN skill \ {f} /\ \A g \in DOMAIN skill' : skill'[g] = skill[g]
      /\ UNCHANGED <<manifest, stray, skillEdits, installKills, begun>> /\ ~trampled' /\ trampled' \in BOOLEAN
  <2>1. skill' = Installing!Restrict(skill, DOMAIN skill \ {f})
    BY DEF Installing!Remove
  <2>2. DOMAIN Installing!Restrict(skill, DOMAIN skill \ {f}) = DOMAIN skill \ {f}
        /\ \A g \in DOMAIN skill \ {f} : Installing!Restrict(skill, DOMAIN skill \ {f})[g] = skill[g]
    BY DEF Installing!Restrict
  <2>3. ~trampled' /\ trampled' \in BOOLEAN
    <3>1. ~(Installing!Mine(f) /\ f \notin racedFiles)
      BY <1>1 DEF Looked
    <3>2. trampled' = (trampled \/ (Installing!Mine(f) /\ f \notin racedFiles))
      BY Zenon DEF Installing!Remove, Installing!Tramples
    <3> QED
      BY <3>1, <3>2, Zenon DEF InstallInv
  <2> QED
    BY <2>1, <2>2, <2>3 DEF Installing!Remove
<1>3. f \in installation.left
  BY <1>1 DEF Installs
<1>4. f \in DOMAIN manifest.files \ DOMAIN Ships[v]
  BY <1>1, <1>3 DEF Installs
<1>5. (begun # 0 => Clean(begun))'
  <2> SUFFICES ASSUME begun # 0 PROVE Clean(begun)'
    BY <1>2
  <2>1. begun = v /\ Clean(v) /\ ~installation.force /\ manifest # Installing!NoManifest
    BY <1>1 DEF Installs, InstallInv
  <2> QED
    BY <1>2, <1>4, <2>1 DEF Clean
<1>6. DOMAIN skill' \subseteq File /\ Installing!Range(skill') \subseteq Installing!Bytes
  BY <1>2 DEF InstallInv, Installing!TypeOK, Installing!Range
<1>7. racedFiles \subseteq File
  BY DEF InstallInv, Installing!TypeOK
<1>8. CASE installation' = Installing!Passed(f) /\ racedFiles' = racedFiles \ {f}
  <2>1. /\ installation'.version = v /\ installation'.force = installation.force
        /\ installation'.recorded = installation.recorded /\ installation'.checked = {}
        /\ installation'.at \in {"remove", "record"} /\ installation'.left \subseteq installation.left
    BY <1>1, <1>3, <1>8, PassedIs
  <2>2. begun # 0 => Written(v)'
    BY <1>1, <1>2, <1>4, <2>1 DEF Installs, Written
  <2>3. Installs' /\ Looked'
    BY <1>1, <1>2, <2>1, <2>2 DEF Installs, Looked
  <2>4. Installing!TypeOK'
    BY <1>2, <1>6, <1>7, <1>8, <2>1 DEF InstallInv, Installing!TypeOK
  <2> QED
    BY <1>1, <1>2, <1>5, <2>3, <2>4 DEF InstallInv
<1>9. CASE installation' = Installing!NoRun /\ racedFiles' = {}
  <2>1. installation'.at = "idle" /\ installation'.left = {} /\ installation'.checked = {}
    BY <1>9 DEF Installing!NoRun
  <2>2. Installing!TypeOK'
    BY <1>2, <1>6, <1>9, <2>1 DEF InstallInv, Installing!TypeOK
  <2> QED
    BY <1>1, <1>2, <1>5, <2>1, <2>2 DEF InstallInv
<1> QED
  BY <1>8, <1>9 DEF Installing!Remove

LEMMA RecordKeeps ==
    ASSUME Installing!InstallationAssumption, InstallInv, Installing!Record
    PROVE  InstallInv'
<1> PICK v \in Installing!Release : v = installation.version
  BY DEF Installing!Record, InstallInv, Installs
<1>1. installation.at = "record" /\ Installs /\ v # 0 /\ Shipped(Ships[v]) /\ (begun # 0 => Written(v))
  BY ShipsBytes DEF Installing!Record, InstallInv, Installs, Installing!InstallationAssumption
<1>2. /\ manifest' = [version |-> v, files |-> Ships[v]] /\ installation' = Installing!NoRun
      /\ UNCHANGED <<skill, stray, skillEdits, installKills, begun, trampled>> /\ racedFiles' = {}
  BY DEF Installing!Record
<1>3. manifest'.version = v /\ manifest'.files = Ships[v] /\ manifest' # Installing!NoManifest
  BY <1>1, <1>2 DEF Installing!NoManifest
<1>4. (begun # 0 => Clean(begun))'
  <2> SUFFICES ASSUME begun # 0 PROVE Clean(begun)'
    BY <1>2
  <2>1. begun = v
    BY <1>1 DEF Installs
  <2> QED
    BY <1>1, <1>2, <1>3, <2>1 DEF Clean, Written
<1>5. installation'.at = "idle" /\ installation'.left = {} /\ installation'.checked = {}
  BY <1>2 DEF Installing!NoRun
<1>6. Installing!TypeOK'
  BY <1>2, <1>3, <1>5 DEF InstallInv, Installing!TypeOK
<1> QED
  BY <1>1, <1>2, <1>3, <1>4, <1>5, <1>6 DEF InstallInv

LEMMA InstallKillKeeps ==
    ASSUME Installing!InstallationAssumption, InstallInv, Installing!Kill
    PROVE  InstallInv'
<1>1. /\ installation' = Installing!NoRun /\ stray' \in {stray, TRUE}
      /\ UNCHANGED <<skill, manifest, skillEdits, begun, trampled>> /\ racedFiles' = {}
  BY DEF Installing!Kill
<1>2. installation'.at = "idle" /\ installation'.left = {} /\ installation'.checked = {}
  BY <1>1 DEF Installing!NoRun
<1>3. Installing!TypeOK'
  BY <1>1, <1>2 DEF InstallInv, Installing!TypeOK
<1> QED
  BY <1>1, <1>2, <1>3 DEF InstallInv, Clean

LEMMA EditKeeps ==
    ASSUME Installing!InstallationAssumption, InstallInv, NEW f \in File, Installing!Edit(f)
    PROVE  InstallInv'
<1>1. /\ begun' = 0 /\ racedFiles' = IF Installing!Watched(f) THEN racedFiles \cup {f} ELSE racedFiles
      /\ UNCHANGED <<manifest, stray, installation, installKills, trampled>>
  BY DEF Installing!Edit
<1>2. /\ DOMAIN skill' \subseteq DOMAIN skill \cup {f}
      /\ \A g \in DOMAIN skill' : skill'[g] = "mine" \/ (g \in DOMAIN skill /\ skill'[g] = skill[g])
  <2>1. CASE skill' = [x \in DOMAIN skill \cup {f} |-> IF x = f THEN "mine" ELSE skill[x]]
    BY <2>1
  <2>2. CASE skill' = Installing!Restrict(skill, DOMAIN skill \ {f})
    BY <2>2 DEF Installing!Restrict
  <2> QED
    BY <2>1, <2>2 DEF Installing!Edit
<1>3. DOMAIN skill' \subseteq File /\ Installing!Range(skill') \subseteq Installing!Bytes
  <2>1. "mine" \in Installing!Bytes
    BY DEF Installing!Bytes
  <2> QED
    BY <1>2, <2>1 DEF InstallInv, Installing!TypeOK, Installing!Range
<1>4. Installing!TypeOK'
  BY <1>1, <1>3 DEF InstallInv, Installing!TypeOK
<1>5. installation.at # "idle" => Installs'
  BY <1>1 DEF InstallInv, Installs
<1>6. installation.at # "idle" => Looked'
  <2>1. \A g \in File \ {f} : Installing!Mine(g)' => Installing!Mine(g)
    <3> SUFFICES ASSUME NEW g \in File \ {f}, Installing!Mine(g)' PROVE Installing!Mine(g)
      OBVIOUS
    <3>1. CASE skill' = [x \in DOMAIN skill \cup {f} |-> IF x = f THEN "mine" ELSE skill[x]]
      BY <3>1 DEF Installing!Mine
    <3>2. CASE skill' = Installing!Restrict(skill, DOMAIN skill \ {f})
      BY <3>2 DEF Installing!Restrict, Installing!Mine
    <3> QED
      BY <3>1, <3>2 DEF Installing!Edit
  <2>2. installation.left \subseteq File /\ installation.checked \subseteq File
    BY DEF InstallInv, Installing!TypeOK
  <2>3. /\ installation.at \in {"first", "copy"} /\ f \in installation.left => f \in racedFiles'
        /\ f \in installation.checked => f \in racedFiles'
        /\ racedFiles \subseteq racedFiles'
    BY <1>1 DEF Installing!Watched
  <2> QED
    BY <1>1, <2>1, <2>2, <2>3 DEF InstallInv, Looked
<1> QED
  BY <1>1, <1>4, <1>5, <1>6 DEF InstallInv

\* Between any two steps of installations and edits, what a run has yet to write
\* or to remove holds no bytes of a person that were there when it looked.
THEOREM InstallInvariance ==
    ASSUME Installing!InstallationAssumption
    PROVE  Installing!Spec => []InstallInv
<1>1. Installing!Init => InstallInv
  BY InstallStarts
<1>2. InstallInv /\ [Installing!Next]_Installing!vars => InstallInv'
  <2>1. ASSUME InstallInv, Installing!Next PROVE InstallInv'
    BY <2>1, StartKeeps, WriteFirstKeeps, CopyKeeps, CheckFileKeeps, RemoveKeeps, RecordKeeps,
       InstallKillKeeps, EditKeeps
    DEF Installing!Next
  <2>2. ASSUME InstallInv, UNCHANGED Installing!vars PROVE InstallInv'
    BY <2>2 DEF InstallInv, Installing!TypeOK, Installs, Looked, Installing!Mine, Written, Clean, Installing!vars
  <2> QED
    BY <2>1, <2>2
<1> QED
  BY <1>1, <1>2, PTL DEF Installing!Spec

\* bf install (install.py) replaces a person's bytes without --force, or removes
\* them, only where they came after that run looked at the file, whichever
\* releases run and die; and a run that died reads as one its release can finish
\* where nobody edited since, unless its first write left a temporary.
THEOREM EditsStay ==
    ASSUME Installing!InstallationAssumption
    PROVE  Installing!Spec => []Installing!EditsSurvive
<1>1. InstallInv => Installing!EditsSurvive
  <2> SUFFICES ASSUME InstallInv, installation.at = "idle", begun # 0,
                      ~(stray /\ manifest = Installing!NoManifest)
      PROVE  Installing!Status(begun) \in {"missing", "outdated", "current", "newer"}
    BY DEF InstallInv, Installing!EditsSurvive
  <2>1. Installing!Edited(begun) = {} /\ (manifest = Installing!NoManifest => skill = Installing!Nothing)
    BY CleanMeansUnedited DEF InstallInv
  <2> QED
    BY <2>1 DEF Installing!Status, InstallInv, Installing!TypeOK
<1> QED
  BY <1>1, InstallInvariance, PTL

-----------------------------------------------------------------------------
(* The checkout a release starts from: what other sessions change there.   *)

CONSTANTS Path, Named, MaxCommits

VARIABLES origin, ci, base, primary, clone, releaser, todo, theirs, racedChanges, sessionEdits

Releasing == INSTANCE Releases WITH
    at <- releaser, raced <- racedChanges, edits <- sessionEdits

Contents == 0..3 + sessionEdits
Trees == [Path -> Releasing!Content]
PrimaryType == [head : Releasing!Commit \cup {0, Releasing!Away}, files : Trees, staged : Trees]
CloneType == [head : Releasing!Commit \cup {Releasing!None, 0}, tag : Releasing!Commit \cup {Releasing!None}, copied : Trees, manifest : Trees]
OriginType == [main : Releasing!Commit \cup {0, Releasing!Away}, tag : Releasing!Commit \cup {Releasing!None}]

\* Other sessions' changes that did not fall between a look and a step.
OutOfHarm == theirs \ racedChanges

ReleaseTyped ==
    /\ Releasing!TypeOK
    /\ origin \in OriginType /\ primary \in PrimaryType /\ clone \in CloneType
    /\ theirs \subseteq Releasing!Place \X Path \X Releasing!Content
    /\ \A p \in Path : base[p] \in {Releasing!Nothing, Releasing!Base}

\* Contents are numbered as they are written, and a session's come after those
\* of the release.
Numbered ==
    /\ \A p \in Path : /\ primary.files[p] \in Contents /\ primary.staged[p] \in Contents
                       /\ clone.copied[p] \in Contents /\ clone.manifest[p] \in Contents
                       /\ p \notin Named => clone.copied[p] <= Releasing!Base
    /\ \A change \in theirs : change[3] \in Contents /\ change[3] > Releasing!Released

\* A session's file is known as its own, unless the release copied it.
Known ==
    \A p \in Path : primary.files[p] > Releasing!Released =>
        clone.copied[p] = primary.files[p] \/ <<"files", p, primary.files[p]>> \in theirs

\* Between copying and taking digests no safe change is in a file to release;
\* afterwards none is what the manifest names; and none is in a path that sync
\* is about to restore.
KeptClear ==
    /\ releaser = "digests" => \A change \in OutOfHarm : change[2] \in Named => change[3] # primary.files[change[2]]
    /\ releaser \notin {"idle", "copying", "digests"} =>
          \A change \in OutOfHarm : change[3] # clone.manifest[change[2]]
    /\ releaser = "restore" => \A change \in OutOfHarm : change[2] \notin todo

InPlace == \A change \in OutOfHarm : primary[change[1]][change[2]] = change[3]

\* The tag follows a success of CI, of that very commit.
Tested ==
    /\ releaser \in {"push", "wait", "tag"} => clone.head \in Releasing!Commit
    /\ releaser = "tag" => ci[clone.head] = "success"
    /\ releaser \in {"pushTag", "restore", "merge"} => clone.tag # Releasing!None
    /\ clone.tag # Releasing!None => ci[clone.tag] = "success"
    /\ origin.tag # Releasing!None => ci[origin.tag] = "success"

ReleaseInv == ReleaseTyped /\ Numbered /\ Known /\ KeptClear /\ InPlace /\ Tested

\* The constants' numbers.
LEMMA ReleaseNumbers ==
    ASSUME Releasing!ReleasesAssumption
    PROVE  /\ MaxCommits \in Nat /\ MaxCommits # 0 /\ MaxEdits \in Nat
           /\ Releasing!None = -1 /\ Releasing!Away = -2 /\ Releasing!Nothing = 0 /\ Releasing!Base = 1 /\ Releasing!Work = 2 /\ Releasing!Released = 3
           /\ Releasing!Commit = 1..MaxCommits /\ Releasing!Content = 0..3 + MaxEdits /\ Named \subseteq Path
           /\ Releasing!Place = {"files", "staged"}
BY DEF Releasing!ReleasesAssumption, Releasing!None, Releasing!Away, Releasing!Nothing, Releasing!Base, Releasing!Work, Releasing!Released, Releasing!Commit, Releasing!Content, Releasing!Place

LEMMA ReleaseStarts ==
    ASSUME Releasing!ReleasesAssumption, Releasing!Init
    PROVE  ReleaseInv
<1> USE ReleaseNumbers
<1>1. PICK staged \in {base, [p \in Path |-> IF p \in Named THEN Releasing!Work ELSE base[p]]} :
          primary = [head |-> 0, files |-> [p \in Path |-> IF p \in Named THEN Releasing!Work ELSE base[p]],
                     staged |-> staged]
  BY DEF Releasing!Init
<1>2. base \in [Path -> {0, 1}]
  BY DEF Releasing!Init
<1>3. /\ base \in Trees /\ staged \in Trees /\ primary.files \in Trees /\ primary.head = 0
      /\ \A p \in Path : base[p] \in 0..2 /\ primary.files[p] \in 0..2 /\ staged[p] \in 0..2
      /\ primary.staged = staged
  BY <1>1, <1>2 DEF Trees
<1>4. primary \in PrimaryType
  BY <1>1, <1>3 DEF PrimaryType
<1>5. clone \in CloneType /\ clone.copied = base /\ clone.manifest = base /\ clone.tag = Releasing!None
  BY <1>3 DEF Releasing!Init, CloneType
<1>6. origin \in OriginType /\ origin.tag = Releasing!None
  BY DEF Releasing!Init, OriginType
<1>7. sessionEdits = 0 /\ theirs = {} /\ racedChanges = {} /\ todo = {} /\ releaser = "idle"
      /\ ci \in [Releasing!Commit -> {"none", "success", "failure"}]
  BY DEF Releasing!Init
<1>8. Releasing!TypeOK
  BY <1>2, <1>3, <1>4, <1>5, <1>6, <1>7 DEF Releasing!TypeOK, PrimaryType, CloneType, OriginType, Trees
<1> QED
  BY <1>2, <1>3, <1>4, <1>5, <1>6, <1>7, <1>8
  DEF ReleaseInv, ReleaseTyped, Numbered, Known, KeptClear, InPlace, OutOfHarm, Tested, Contents

\* Steps that leave the primary checkout and the changes of others alone.
LEMMA ReleaserSteps ==
    ASSUME Releasing!ReleasesAssumption, ReleaseInv,
           UNCHANGED <<base, primary, theirs, racedChanges>>,
           origin' \in OriginType, clone' \in CloneType, ci' \in [Releasing!Commit -> {"none", "success", "failure"}],
           releaser' \in {"idle", "copying", "digests", "ready", "push", "wait", "tag", "pushTag", "cd",
                          "sync", "restore", "merge", "synced"},
           todo' \subseteq Path, sessionEdits' \in 0..MaxEdits, sessionEdits <= sessionEdits',
           UNCHANGED <<clone.copied, clone.manifest>>,
           releaser' = "digests" => releaser = "digests",
           releaser' \notin {"idle", "copying", "digests"} => releaser \notin {"idle", "copying", "digests"},
           releaser' = "restore" => \A change \in OutOfHarm : change[2] \notin todo',
           Tested'
    PROVE  ReleaseInv'
<1> USE ReleaseNumbers
<1>1. ReleaseTyped'
  BY SMTT(30) DEF ReleaseInv, ReleaseTyped, Releasing!TypeOK, OriginType, CloneType
<1>2. sessionEdits \in 0..MaxEdits
  BY DEF ReleaseInv, ReleaseTyped, Releasing!TypeOK
<1>3. Contents \subseteq Contents'
  BY <1>2 DEF Contents
<1>4. Numbered'
  BY <1>3 DEF ReleaseInv, Numbered
<1>5. Known' /\ InPlace'
  BY DEF ReleaseInv, Known, InPlace, OutOfHarm
<1>6. KeptClear'
  BY DEF ReleaseInv, KeptClear, OutOfHarm
<1> QED
  BY <1>1, <1>4, <1>5, <1>6 DEF ReleaseInv

\* The steps of prepare, publish and sync that change no file of the checkout.
LEMMA PublishSteps ==
    ASSUME Releasing!ReleasesAssumption, ReleaseInv,
           \/ Releasing!Prepare \/ Releasing!Commits \/ Releasing!Publish \/ Releasing!Push \/ Releasing!WaitForCI \/ Releasing!Tag \/ Releasing!PushTag
           \/ Releasing!PushTagFails \/ Releasing!Delivered \/ Releasing!SyncAgain
    PROVE  ReleaseInv'
<1> USE ReleaseNumbers
<1>1. /\ origin \in OriginType /\ clone \in CloneType /\ ci \in [Releasing!Commit -> {"none", "success", "failure"}]
      /\ todo \subseteq Path /\ sessionEdits \in 0..MaxEdits
      /\ KeptClear /\ Tested
  BY DEF ReleaseInv, ReleaseTyped, Releasing!TypeOK
<1>2. UNCHANGED <<base, primary, theirs, racedChanges, ci, todo, sessionEdits>>
  BY DEF Releasing!Prepare, Releasing!Commits, Releasing!Publish, Releasing!Push, Releasing!WaitForCI, Releasing!Waited, Releasing!Tag, Releasing!PushTag, Releasing!PushTagFails,
         Releasing!Delivered, Releasing!SyncAgain, Releasing!others
<1>3. /\ origin' \in OriginType /\ clone' \in CloneType /\ UNCHANGED <<clone.copied, clone.manifest>>
      /\ Tested'
  <2>1. CASE Releasing!Prepare
    <3>1. clone' = [clone EXCEPT !.head = 0] /\ origin' = origin /\ releaser' = "copying"
      BY <2>1 DEF Releasing!Prepare, Releasing!Goes
    <3>2. clone' \in CloneType /\ clone'.copied = clone.copied /\ clone'.manifest = clone.manifest
          /\ clone'.tag = clone.tag
      BY <1>1, <3>1 DEF CloneType
    <3> QED
      BY <1>1, <1>2, <3>1, <3>2 DEF Tested
  <2>2. CASE Releasing!Commits
    <3>1. clone' = [clone EXCEPT !.head = @ + 1] /\ origin' = origin /\ releaser' = "ready"
          /\ clone.head < MaxCommits
      BY <2>2 DEF Releasing!Commits
    <3>2. clone.head \in Int /\ clone.head + 1 \in Releasing!Commit \cup {0}
      BY <1>1, <3>1 DEF CloneType
    <3>3. clone' \in CloneType /\ clone'.copied = clone.copied /\ clone'.manifest = clone.manifest
          /\ clone'.tag = clone.tag
      BY <1>1, <3>1, <3>2 DEF CloneType
    <3> QED
      BY <1>1, <1>2, <3>1, <3>3 DEF Tested
  <2>3. CASE Releasing!Publish \/ Releasing!WaitForCI \/ Releasing!Delivered \/ Releasing!SyncAgain
    <3>1. UNCHANGED <<clone, origin>>
      BY <2>3 DEF Releasing!Publish, Releasing!WaitForCI, Releasing!Delivered, Releasing!SyncAgain
    <3> QED
      BY <1>1, <1>2, <2>3, <3>1 DEF Tested, Releasing!Publish, Releasing!WaitForCI, Releasing!Waited, Releasing!Delivered, Releasing!SyncAgain, Releasing!Goes
  <2>4. CASE Releasing!Push
    <3>1. origin' = [origin EXCEPT !.main = clone.head] /\ clone' = clone /\ releaser = "push" /\ releaser' = "wait"
      BY <2>4 DEF Releasing!Push, Releasing!Goes
    <3>2. origin' \in OriginType /\ origin'.tag = origin.tag
      BY <1>1, <3>1 DEF OriginType, Tested
    <3> QED
      BY <1>1, <1>2, <3>1, <3>2 DEF Tested
  <2>5. CASE Releasing!Tag
    <3>1. clone' = [clone EXCEPT !.tag = clone.head] /\ origin' = origin /\ releaser = "tag" /\ releaser' = "pushTag"
      BY <2>5 DEF Releasing!Tag, Releasing!Goes
    <3>2. clone.head \in Releasing!Commit /\ ci[clone.head] = "success" /\ clone.head # Releasing!None
      BY <1>1, <3>1 DEF Tested
    <3>3. clone' \in CloneType /\ clone'.copied = clone.copied /\ clone'.manifest = clone.manifest
          /\ clone'.tag = clone.head
      BY <1>1, <3>1, <3>2 DEF CloneType
    <3> QED
      BY <1>1, <1>2, <3>1, <3>2, <3>3 DEF Tested
  <2>6. CASE Releasing!PushTag
    <3>1. origin' = [origin EXCEPT !.tag = clone.tag] /\ clone' = clone /\ releaser = "pushTag" /\ releaser' = "cd"
      BY <2>6 DEF Releasing!PushTag, Releasing!Goes
    <3>2. origin' \in OriginType /\ origin'.tag = clone.tag
      BY <1>1, <3>1 DEF OriginType, CloneType
    <3> QED
      BY <1>1, <1>2, <3>1, <3>2 DEF Tested
  <2>7. CASE Releasing!PushTagFails
    <3>1. clone' = [clone EXCEPT !.tag = Releasing!None] /\ releaser = "pushTag" /\ releaser' = "ready"
          /\ origin' \in {origin, [origin EXCEPT !.tag = IF @ = Releasing!None THEN clone.tag ELSE @]}
      BY <2>7 DEF Releasing!PushTagFails, Releasing!Goes
    <3>2. origin' \in OriginType /\ origin'.tag \in {origin.tag, clone.tag}
      BY <1>1, <3>1 DEF OriginType, CloneType
    <3>3. clone' \in CloneType /\ clone'.copied = clone.copied /\ clone'.manifest = clone.manifest
          /\ clone'.tag = Releasing!None
      BY <1>1, <3>1 DEF CloneType
    <3> QED
      BY <1>1, <1>2, <3>1, <3>2, <3>3 DEF Tested
  <2> QED
    BY <2>1, <2>2, <2>3, <2>4, <2>5, <2>6, <2>7
<1>4. /\ releaser' \in {"idle", "copying", "digests", "ready", "push", "wait", "tag", "pushTag", "cd",
                        "sync", "restore", "merge", "synced"}
      /\ releaser' \notin {"digests", "restore"}
      /\ releaser' \notin {"idle", "copying", "digests"} => releaser \notin {"idle", "copying", "digests"}
  BY DEF Releasing!Prepare, Releasing!Commits, Releasing!Publish, Releasing!Push, Releasing!WaitForCI, Releasing!Waited, Releasing!Tag, Releasing!PushTag, Releasing!PushTagFails,
         Releasing!Delivered, Releasing!SyncAgain, Releasing!Goes
<1> QED
  BY <1>1, <1>2, <1>3, <1>4, ReleaserSteps

\* Compare finds no change of another session in any path, so nothing that is
\* safe is in one to restore.
LEMMA CompareKeeps ==
    ASSUME Releasing!ReleasesAssumption, ReleaseInv, Releasing!Compare
    PROVE  ReleaseInv'
<1> USE ReleaseNumbers
<1>1. /\ origin \in OriginType /\ clone \in CloneType /\ ci \in [Releasing!Commit -> {"none", "success", "failure"}]
      /\ sessionEdits \in 0..MaxEdits /\ theirs \subseteq Releasing!Place \X Path \X Releasing!Content
      /\ \A p \in Path : base[p] \in {0, 1}
      /\ KeptClear /\ Tested /\ Numbered /\ InPlace
  BY DEF ReleaseInv, ReleaseTyped, Releasing!TypeOK
<1>2. /\ UNCHANGED <<origin, ci, base, primary, clone, theirs, racedChanges, sessionEdits>>
      /\ releaser = "sync" /\ releaser' = "restore" /\ clone.tag # Releasing!None
      /\ todo' = {p \in Path : primary.files[p] # base[p]}
      /\ \A p \in Path : ~Releasing!Foreign(p)
  BY DEF Releasing!Compare, Releasing!Goes, Releasing!others
<1>3. ASSUME NEW change \in OutOfHarm PROVE FALSE
  <2>1. PICK place \in {"files", "staged"}, p \in Path, c \in Releasing!Content : change = <<place, p, c>>
    BY <1>1, <1>3 DEF OutOfHarm
  <2>2. c > 3 /\ c # clone.manifest[p] /\ primary[place][p] = c
    BY <1>1, <1>2, <1>3, <2>1 DEF Numbered, KeptClear, InPlace, OutOfHarm
  <2>3. /\ primary.files[p] \in {base[p], 3, clone.manifest[p]}
        /\ primary.staged[p] \in {base[p], primary.files[p]}
    BY <1>2 DEF Releasing!Foreign
  <2> QED
    BY <1>1, <2>2, <2>3
<1>4. Tested'
  BY <1>1, <1>2 DEF Tested
<1> QED
  BY <1>1, <1>2, <1>3, <1>4, ReleaserSteps

LEMMA OtherSteps ==
    ASSUME Releasing!ReleasesAssumption, ReleaseInv,
           Releasing!Restored \/ Releasing!Stop \/ Releasing!OtherPush \/ \E commit \in Releasing!Commit : Releasing!Test(commit)
    PROVE  ReleaseInv'
<1> USE ReleaseNumbers
<1>1. /\ origin \in OriginType /\ clone \in CloneType /\ ci \in [Releasing!Commit -> {"none", "success", "failure"}]
      /\ todo \subseteq Path /\ sessionEdits \in 0..MaxEdits
      /\ KeptClear /\ Tested
  BY DEF ReleaseInv, ReleaseTyped, Releasing!TypeOK
<1>2. releaser \in {"idle", "copying", "digests", "ready", "push", "wait", "tag", "pushTag", "cd",
                    "sync", "restore", "merge", "synced"}
  BY DEF ReleaseInv, ReleaseTyped, Releasing!TypeOK
<1>3. CASE Releasing!Restored
  <2>1. UNCHANGED <<origin, ci, base, primary, clone, todo, theirs, racedChanges, sessionEdits>>
        /\ releaser = "restore" /\ releaser' = "merge"
    BY <1>3 DEF Releasing!Restored, Releasing!Goes, Releasing!others
  <2>2. Tested'
    BY <1>1, <2>1 DEF Tested
  <2> QED
    BY <1>1, <2>1, <2>2, ReleaserSteps
<1>4. CASE Releasing!Stop
  <2>1. UNCHANGED <<origin, ci, base, primary, theirs, racedChanges, sessionEdits>> /\ todo' = {}
        /\ releaser \notin {"idle", "ready", "synced"}
    BY <1>4 DEF Releasing!Stop, Releasing!others
  <2>2. CASE releaser \in {"copying", "digests"}
    <3>1. releaser' = "idle" /\ clone' = [clone EXCEPT !.head = Releasing!None]
      BY <1>4, <2>2 DEF Releasing!Stop
    <3>2. clone' \in CloneType /\ clone'.copied = clone.copied /\ clone'.manifest = clone.manifest
          /\ clone'.tag = clone.tag
      BY <1>1, <3>1 DEF CloneType
    <3>3. Tested'
      BY <1>1, <2>1, <3>1, <3>2 DEF Tested
    <3> QED
      BY <1>1, <2>1, <3>1, <3>2, <3>3, ReleaserSteps
  <2>3. CASE releaser \notin {"copying", "digests"}
    <3>1. releaser' = "ready" /\ clone' = clone
      BY <1>4, <2>3 DEF Releasing!Stop
    <3>2. Tested'
      BY <1>1, <2>1, <3>1 DEF Tested
    <3> QED
      BY <1>1, <2>1, <2>3, <3>1, <3>2, ReleaserSteps
  <2> QED
    BY <2>2, <2>3
<1>5. CASE Releasing!OtherPush
  <2>1. UNCHANGED <<ci, base, primary, clone, releaser, todo, theirs, racedChanges>>
        /\ sessionEdits < MaxEdits /\ sessionEdits' = sessionEdits + 1
        /\ origin' = [origin EXCEPT !.main = Releasing!Away]
    BY <1>5 DEF Releasing!OtherPush
  <2>2. origin' \in OriginType /\ origin'.tag = origin.tag /\ sessionEdits' \in 0..MaxEdits
        /\ sessionEdits <= sessionEdits'
    BY <1>1, <2>1 DEF OriginType
  <2>3. Tested'
    BY <1>1, <2>1, <2>2 DEF Tested
  <2>4. releaser = "restore" => \A change \in OutOfHarm : change[2] \notin todo
    BY <1>1 DEF KeptClear
  <2> QED
    BY <1>1, <1>2, <2>1, <2>2, <2>3, <2>4, ReleaserSteps
<1>6. ASSUME NEW commit \in Releasing!Commit, Releasing!Test(commit) PROVE ReleaseInv'
  <2>1. PICK result \in {"success", "failure"} : ci' = [ci EXCEPT ![commit] = result]
    BY <1>6 DEF Releasing!Test
  <2>2. UNCHANGED <<origin, base, primary, clone, releaser, todo, theirs, racedChanges, sessionEdits>>
        /\ ci[commit] = "none"
    BY <1>6 DEF Releasing!Test, Releasing!others
  <2>3. ci' \in [Releasing!Commit -> {"none", "success", "failure"}]
        /\ \A c \in Releasing!Commit : ci[c] = "success" => ci'[c] = "success"
    BY <1>1, <2>1, <2>2
  <2>4. Tested'
    BY <1>1, <2>2, <2>3 DEF Tested, OriginType, CloneType
  <2>5. releaser = "restore" => \A change \in OutOfHarm : change[2] \notin todo
    BY <1>1 DEF KeptClear
  <2> QED
    BY <1>1, <1>2, <2>2, <2>3, <2>4, <2>5, ReleaserSteps
<1> QED
  BY <1>3, <1>4, <1>5, <1>6

\* What holds of the changes, spelled out, with the bounds of their contents.
LEMMA ChangesAre ==
    ASSUME Releasing!ReleasesAssumption, ReleaseInv
    PROVE  /\ base \in [Path -> {0, 1}] /\ sessionEdits \in 0..MaxEdits
           /\ primary \in PrimaryType /\ clone \in CloneType
           /\ primary.files \in Trees /\ primary.staged \in Trees
           /\ clone.copied \in Trees /\ clone.manifest \in Trees
           /\ theirs \subseteq Releasing!Place \X Path \X Releasing!Content
           /\ \A change \in theirs :
                 /\ change[1] \in {"files", "staged"} /\ change[2] \in Path
                 /\ change = <<change[1], change[2], change[3]>>
                 /\ change[3] \in Int /\ change[3] > 3 /\ change[3] <= 3 + sessionEdits
           /\ \A p \in Path : /\ primary.files[p] \in Int /\ primary.files[p] <= 3 + sessionEdits
                              /\ primary.staged[p] \in Int /\ primary.staged[p] <= 3 + sessionEdits
                              /\ clone.copied[p] \in Int /\ clone.copied[p] <= 3 + sessionEdits
                              /\ clone.manifest[p] \in Int /\ clone.manifest[p] <= 3 + sessionEdits
                              /\ p \notin Named => clone.copied[p] <= 1
           /\ \A change \in OutOfHarm :
                 /\ change[1] = "files" => primary.files[change[2]] = change[3]
                 /\ change[1] = "staged" => primary.staged[change[2]] = change[3]
<1> USE ReleaseNumbers
<1>1. /\ base \in [Path -> {0, 1}] /\ sessionEdits \in 0..MaxEdits
      /\ primary \in PrimaryType /\ clone \in CloneType
      /\ theirs \subseteq Releasing!Place \X Path \X Releasing!Content
  BY DEF ReleaseInv, ReleaseTyped, Releasing!TypeOK
<1>2. /\ primary.files \in Trees /\ primary.staged \in Trees
      /\ clone.copied \in Trees /\ clone.manifest \in Trees
  BY <1>1 DEF PrimaryType, CloneType
<1>3. ASSUME NEW change \in theirs
      PROVE  /\ change[1] \in {"files", "staged"} /\ change[2] \in Path
             /\ change = <<change[1], change[2], change[3]>>
             /\ change[3] \in Int /\ change[3] > 3 /\ change[3] <= 3 + sessionEdits
  BY <1>1 DEF ReleaseInv, Numbered, Contents
<1>4. ASSUME NEW p \in Path
      PROVE /\ primary.files[p] \in Int /\ primary.files[p] <= 3 + sessionEdits
            /\ primary.staged[p] \in Int /\ primary.staged[p] <= 3 + sessionEdits
            /\ clone.copied[p] \in Int /\ clone.copied[p] <= 3 + sessionEdits
            /\ clone.manifest[p] \in Int /\ clone.manifest[p] <= 3 + sessionEdits
            /\ p \notin Named => clone.copied[p] <= 1
  BY <1>1 DEF ReleaseInv, Numbered, Contents
<1>5. ASSUME NEW change \in OutOfHarm
      PROVE /\ change[1] = "files" => primary.files[change[2]] = change[3]
            /\ change[1] = "staged" => primary.staged[change[2]] = change[3]
  BY <1>5 DEF ReleaseInv, InPlace
<1> QED
  BY <1>1, <1>2, <1>3, <1>4, <1>5

\* What a step has to establish, in the same words.
LEMMA ChangesSuffice ==
    ASSUME Releasing!ReleasesAssumption, ReleaseInv,
           UNCHANGED <<origin, ci, base>>,
           primary' \in PrimaryType, clone' \in CloneType,
           clone'.head = clone.head, clone'.tag = clone.tag,
           todo' \subseteq Path, sessionEdits' \in 0..MaxEdits,
           theirs' \subseteq Releasing!Place \X Path \X Releasing!Content, racedChanges' \subseteq Releasing!Place \X Path \X Releasing!Content,
           \A change \in theirs' : change[3] > 3 /\ change[3] <= 3 + sessionEdits',
           \A p \in Path : /\ primary'.files[p] \in 0..3 + sessionEdits'
                           /\ primary'.staged[p] \in 0..3 + sessionEdits'
                           /\ clone'.copied[p] \in 0..3 + sessionEdits'
                           /\ clone'.manifest[p] \in 0..3 + sessionEdits'
                           /\ p \notin Named => clone'.copied[p] <= 1,
           \A change \in theirs' \ racedChanges' :
                 /\ change[1] = "files" => primary'.files[change[2]] = change[3]
                 /\ change[1] = "staged" => primary'.staged[change[2]] = change[3],
           Known', KeptClear',
           releaser' = releaser \/ releaser' \in {"digests", "ready", "synced"}
    PROVE  ReleaseInv'
<1> USE ReleaseNumbers
<1>1. \A change \in theirs' : change[1] \in {"files", "staged"} /\ change[3] \in Int
                              /\ change[3] \in 0..3 + sessionEdits'
  <2>1. ASSUME NEW change \in theirs' PROVE change[1] \in {"files", "staged"} /\ change[3] \in Int /\ change[3] >= 0
    OBVIOUS
  <2> QED
    BY <2>1
<1>2. InPlace'
  BY <1>1 DEF InPlace, OutOfHarm
<1>3. Numbered'
  BY <1>1 DEF Numbered, Contents
<1>4. Tested'
  BY DEF ReleaseInv, Tested
<1>5. ReleaseTyped'
  <2>1. origin \in OriginType /\ ci \in [Releasing!Commit -> {"none", "success", "failure"}] /\ base \in [Path -> {0, 1}]
        /\ releaser \in {"idle", "copying", "digests", "ready", "push", "wait", "tag", "pushTag", "cd",
                         "sync", "restore", "merge", "synced"}
    BY DEF ReleaseInv, ReleaseTyped, Releasing!TypeOK
  <2>2. origin' \in OriginType /\ ci' \in [Releasing!Commit -> {"none", "success", "failure"}] /\ base' \in [Path -> {0, 1}]
        /\ releaser' \in {"idle", "copying", "digests", "ready", "push", "wait", "tag", "pushTag", "cd",
                          "sync", "restore", "merge", "synced"}
    BY <2>1
  <2>3. Releasing!TypeOK'
    BY SMTT(40), <2>2 DEF Releasing!TypeOK, OriginType, PrimaryType, CloneType, Trees
  <2> QED
    BY <2>2, <2>3 DEF ReleaseTyped
<1> QED
  BY <1>2, <1>3, <1>4, <1>5 DEF ReleaseInv

LEMMA CopyFilesKeeps ==
    ASSUME Releasing!ReleasesAssumption, ReleaseInv, Releasing!Copy
    PROVE  ReleaseInv'
<1> USE ReleaseNumbers
<1> DEFINE copied == [p \in Path |-> IF p \in Named THEN primary.files[p] ELSE base[p]]
<1>1. /\ clone' = [clone EXCEPT !.copied = copied] /\ releaser' = "digests"
      /\ theirs' = {change \in theirs : change[2] \in Named => change[3] # primary.files[change[2]]}
      /\ UNCHANGED <<origin, ci, base, primary, todo, racedChanges, sessionEdits>>
  BY DEF Releasing!Copy, Releasing!Goes
<1>2. /\ \A p \in Path : copied[p] \in 0..3 + sessionEdits /\ (p \notin Named => copied[p] <= 1)
      /\ copied \in Trees
  <2>1. ASSUME NEW p \in Path PROVE copied[p] \in 0..3 + sessionEdits /\ (p \notin Named => copied[p] <= 1)
    BY ChangesAre DEF ReleaseInv, Numbered, Contents
  <2> QED
    BY <2>1, ChangesAre DEF Trees
<1>3. Known'
  <2> SUFFICES ASSUME NEW p \in Path, primary.files[p] > 3
      PROVE  clone'.copied[p] = primary.files[p] \/ <<"files", p, primary.files[p]>> \in theirs'
    BY <1>1 DEF Known
  <2>1. clone'.copied = copied
    BY <1>1, ChangesAre DEF CloneType
  <2>2. p \notin Named => clone.copied[p] # primary.files[p]
    BY ChangesAre
  <2>3. p \notin Named => <<"files", p, primary.files[p]>> \in theirs
    BY <2>2 DEF ReleaseInv, Known
  <2> QED
    BY <1>1, <2>1, <2>3
<1>4. KeptClear'
  BY <1>1 DEF KeptClear, OutOfHarm
<1> HIDE DEF copied
<1>5. /\ clone' \in CloneType /\ clone'.head = clone.head /\ clone'.tag = clone.tag /\ clone'.copied = copied
      /\ clone'.manifest = clone.manifest
  BY <1>1, <1>2, ChangesAre DEF CloneType
<1>6. \A p \in Path : primary.files[p] \in 0..3 + sessionEdits /\ primary.staged[p] \in 0..3 + sessionEdits
                      /\ clone.manifest[p] \in 0..3 + sessionEdits
  BY DEF ReleaseInv, Numbered, Contents
<1>7. theirs' \ racedChanges' \subseteq OutOfHarm /\ todo \subseteq Path
      /\ racedChanges \subseteq Releasing!Place \X Path \X Releasing!Content
  BY <1>1 DEF OutOfHarm, ReleaseInv, ReleaseTyped, Releasing!TypeOK
<1> QED
  BY <1>1, <1>2, <1>3, <1>4, <1>5, <1>6, <1>7, ChangesAre, ChangesSuffice

LEMMA DigestsKeeps ==
    ASSUME Releasing!ReleasesAssumption, ReleaseInv, Releasing!Digests
    PROVE  ReleaseInv'
<1> USE ReleaseNumbers
<1> DEFINE manifested == [p \in Path |-> IF p \in Named THEN primary.files[p] ELSE base[p]]
<1>1. /\ clone' = [clone EXCEPT !.manifest = manifested] /\ releaser = "digests" /\ releaser' = "ready"
      /\ UNCHANGED <<origin, ci, base, primary, todo, theirs, racedChanges, sessionEdits>>
  BY DEF Releasing!Digests, Releasing!Goes, Releasing!others
<1>2. \A p \in Path : manifested[p] \in 0..3 + sessionEdits
  BY ChangesAre DEF ReleaseInv, Numbered, Contents
<1>3. manifested \in Trees
  BY <1>2, ChangesAre DEF Trees
<1>4. ASSUME NEW change \in OutOfHarm PROVE change[3] # manifested[change[2]]
  <2>1. change[2] \in Path /\ change[3] > 3 /\ change[3] \in Int
    BY ChangesAre DEF OutOfHarm
  <2>2. change[2] \in Named => change[3] # primary.files[change[2]]
    BY <1>1 DEF ReleaseInv, KeptClear
  <2> QED
    BY <2>1, <2>2, ChangesAre
<1> HIDE DEF manifested
<1>5. /\ clone' \in CloneType /\ clone'.head = clone.head /\ clone'.tag = clone.tag
      /\ clone'.copied = clone.copied /\ clone'.manifest = manifested
  BY <1>1, <1>3, ChangesAre DEF CloneType
<1>6. KeptClear' /\ Known'
  BY <1>1, <1>4, <1>5 DEF KeptClear, OutOfHarm, ReleaseInv, Known
<1>7. \A p \in Path : primary.files[p] \in 0..3 + sessionEdits /\ primary.staged[p] \in 0..3 + sessionEdits
                      /\ clone.copied[p] \in 0..3 + sessionEdits
  BY DEF ReleaseInv, Numbered, Contents
<1>8. theirs' \ racedChanges' = OutOfHarm /\ todo \subseteq Path
      /\ racedChanges \subseteq Releasing!Place \X Path \X Releasing!Content
  BY <1>1 DEF OutOfHarm, ReleaseInv, ReleaseTyped, Releasing!TypeOK
<1> QED
  BY <1>1, <1>2, <1>5, <1>6, <1>7, <1>8, ChangesAre, ChangesSuffice

LEMMA RestoreKeeps ==
    ASSUME Releasing!ReleasesAssumption, ReleaseInv, NEW p \in Path, Releasing!Restore(p)
    PROVE  ReleaseInv'
<1> USE ReleaseNumbers
<1>1. /\ primary' = [primary EXCEPT !.files[p] = base[p], !.staged[p] = base[p]]
      /\ todo' = todo \ {p} /\ p \in todo /\ releaser = "restore" /\ releaser' = "restore"
      /\ UNCHANGED <<origin, ci, base, clone, theirs, racedChanges, sessionEdits>>
  BY DEF Releasing!Restore, Releasing!others
<1>2. base[p] \in {0, 1} /\ base[p] \in Releasing!Content
  BY ChangesAre
<1>3. /\ primary'.head = primary.head /\ primary' \in PrimaryType
      /\ primary'.files = [primary.files EXCEPT ![p] = base[p]]
      /\ primary'.staged = [primary.staged EXCEPT ![p] = base[p]]
  BY <1>1, <1>2, ChangesAre DEF PrimaryType, Trees
<1>4. /\ primary'.files[p] = base[p] /\ primary'.staged[p] = base[p]
      /\ \A q \in Path \ {p} : primary'.files[q] = primary.files[q] /\ primary'.staged[q] = primary.staged[q]
  BY <1>3, ChangesAre DEF Trees
<1>5. \A q \in Path : /\ primary'.files[q] \in 0..3 + sessionEdits /\ primary'.staged[q] \in 0..3 + sessionEdits
                      /\ clone.copied[q] \in 0..3 + sessionEdits /\ clone.manifest[q] \in 0..3 + sessionEdits
  <2>1. base[p] \in 0..3 + sessionEdits
    BY <1>2, ChangesAre
  <2>2. \A q \in Path : /\ primary.files[q] \in 0..3 + sessionEdits /\ primary.staged[q] \in 0..3 + sessionEdits
                        /\ clone.copied[q] \in 0..3 + sessionEdits /\ clone.manifest[q] \in 0..3 + sessionEdits
    BY DEF ReleaseInv, Numbered, Contents
  <2> QED
    BY <1>4, <2>1, <2>2
<1>6. Known'
  BY <1>1, <1>2, <1>4 DEF ReleaseInv, Known
<1>7. KeptClear'
  BY <1>1 DEF ReleaseInv, KeptClear, OutOfHarm
<1>8. \A change \in OutOfHarm : change[2] \in Path /\ change[2] # p
  BY <1>1, ChangesAre DEF ReleaseInv, KeptClear, OutOfHarm
<1>9. \A change \in theirs \ racedChanges :
          /\ change[1] = "files" => primary'.files[change[2]] = change[3]
          /\ change[1] = "staged" => primary'.staged[change[2]] = change[3]
  BY <1>4, <1>8, ChangesAre DEF OutOfHarm
<1>10. todo' \subseteq Path /\ racedChanges \subseteq Releasing!Place \X Path \X Releasing!Content
  BY <1>1 DEF ReleaseInv, ReleaseTyped, Releasing!TypeOK
<1> QED
  BY <1>1, <1>3, <1>5, <1>6, <1>7, <1>9, <1>10, ChangesAre, ChangesSuffice

\* The merge finds nothing but the base, so no change of others to overwrite.
LEMMA MergeKeeps ==
    ASSUME Releasing!ReleasesAssumption, ReleaseInv, Releasing!Merge
    PROVE  ReleaseInv'
<1> USE ReleaseNumbers
<1>1. /\ primary' = [head |-> clone.tag, files |-> [p \in Path |-> 3], staged |-> [p \in Path |-> 3]]
      /\ releaser = "merge" /\ releaser' = "synced"
      /\ \A p \in Path : primary.files[p] = base[p] /\ primary.staged[p] = base[p]
      /\ UNCHANGED <<origin, ci, base, clone, todo, theirs, racedChanges, sessionEdits>>
  BY DEF Releasing!Merge, Releasing!Goes, Releasing!others
<1>2. OutOfHarm = {}
  <2> SUFFICES ASSUME NEW change \in OutOfHarm PROVE FALSE
    OBVIOUS
  <2>1. change \in theirs
    BY DEF OutOfHarm
  <2> QED
    BY <1>1, <2>1, ChangesAre
<1>3. clone.tag \in Releasing!Commit
  BY <1>1, ChangesAre DEF ReleaseInv, Tested, CloneType
<1>4. 3 \in Releasing!Content
  BY ChangesAre
<1>5. primary' \in PrimaryType /\ \A p \in Path : primary'.files[p] = 3 /\ primary'.staged[p] = 3
  BY <1>1, <1>3, <1>4 DEF PrimaryType, Trees
<1>6. Known' /\ KeptClear'
  BY <1>1, <1>2, <1>5 DEF Known, KeptClear, OutOfHarm
<1>7. \A q \in Path : /\ primary'.files[q] \in 0..3 + sessionEdits /\ primary'.staged[q] \in 0..3 + sessionEdits
                      /\ clone.copied[q] \in 0..3 + sessionEdits /\ clone.manifest[q] \in 0..3 + sessionEdits
  BY <1>5, ChangesAre DEF ReleaseInv, Numbered, Contents
<1>8. todo \subseteq Path /\ racedChanges \subseteq Releasing!Place \X Path \X Releasing!Content /\ theirs \ racedChanges = {}
  BY <1>2 DEF ReleaseInv, ReleaseTyped, Releasing!TypeOK, OutOfHarm
<1> QED
  BY <1>1, <1>5, <1>6, <1>7, <1>8, ChangesAre, ChangesSuffice

LEMMA EditFileKeeps ==
    ASSUME Releasing!ReleasesAssumption, ReleaseInv, NEW p \in Path, Releasing!Edit(p)
    PROVE  ReleaseInv'
<1> USE ReleaseNumbers
<1> PICK c : c = 3 + sessionEdits'
  OBVIOUS
<1> DEFINE mine == <<"files", p, c>>
<1>1. /\ sessionEdits < MaxEdits /\ sessionEdits' = sessionEdits + 1
      /\ primary' = [primary EXCEPT !["files"][p] = c]
      /\ theirs' = {change \in theirs : <<change[1], change[2]>> # <<"files", p>>}
                     \cup {change \in {mine} : clone.copied[p] # c}
      /\ racedChanges' = IF Releasing!Unsafe(p) THEN racedChanges \cup {mine} ELSE racedChanges
      /\ UNCHANGED <<origin, ci, base, clone, releaser, todo>>
  BY DEF Releasing!Edit, Releasing!Puts
<1>2. c \in Int /\ c > 3 + sessionEdits /\ c > 3 /\ c \in Releasing!Content /\ sessionEdits' \in 0..MaxEdits
      /\ c <= 3 + sessionEdits'
  BY <1>1, ChangesAre
<1>3. /\ primary' \in PrimaryType /\ primary'.staged = primary.staged
      /\ primary'.files = [primary.files EXCEPT ![p] = c]
  BY <1>1, <1>2, ChangesAre DEF PrimaryType, Trees
<1>4. /\ primary'.files[p] = c
      /\ \A q \in Path \ {p} : primary'.files[q] = primary.files[q]
  BY <1>3, ChangesAre DEF Trees
<1>5. /\ mine \in theirs' /\ theirs' \subseteq theirs \cup {mine}
      /\ \A change \in theirs' \ {mine} : change \in theirs /\ ~(change[1] = "files" /\ change[2] = p)
      /\ \A change \in theirs : ~(change[1] = "files" /\ change[2] = p) => change \in theirs'
      /\ racedChanges \subseteq racedChanges' /\ racedChanges' \subseteq racedChanges \cup {mine}
      /\ Releasing!Unsafe(p) => mine \in racedChanges'
  <2>1. clone.copied[p] # c
    BY <1>2, ChangesAre
  <2> HIDE DEF mine
  <2> QED
    BY <1>1, <2>1
<1>6. mine[1] = "files" /\ mine[2] = p /\ mine[3] = c /\ mine \in Releasing!Place \X Path \X Releasing!Content
  BY <1>2
<1> HIDE DEF mine
<1>7. \A change \in theirs' \ racedChanges' : change = mine \/ change \in OutOfHarm
  BY <1>5 DEF OutOfHarm
<1>8. Known'
  <2> SUFFICES ASSUME NEW q \in Path, primary'.files[q] > 3
      PROVE  clone.copied[q] = primary'.files[q] \/ <<"files", q, primary'.files[q]>> \in theirs'
    BY <1>1 DEF Known
  <2>1. CASE q = p
    BY <1>4, <1>5, <2>1 DEF mine
  <2>2. CASE q # p
    <3>1. primary'.files[q] = primary.files[q]
      BY <1>4, <2>2
    <3>2. <<"files", q, primary.files[q]>> \in theirs => <<"files", q, primary.files[q]>> \in theirs'
      BY <1>5, <2>2
    <3> QED
      BY <3>1, <3>2 DEF ReleaseInv, Known
  <2> QED
    BY <2>1, <2>2
<1>9. KeptClear'
  <2>1. ASSUME releaser = "digests", NEW change \in OutOfHarm', change[2] \in Named
        PROVE  change[3] # primary'.files[change[2]]
    <3>1. change # mine
      BY <1>5, <2>1 DEF OutOfHarm, Releasing!Unsafe
    <3>2. change \in OutOfHarm
      BY <1>7, <2>1, <3>1 DEF OutOfHarm
    <3>3. change[3] # primary.files[change[2]] /\ change[3] # c /\ change[2] \in Path
      BY <1>2, <2>1, <3>2, ChangesAre DEF ReleaseInv, KeptClear, OutOfHarm
    <3> QED
      BY <1>4, <3>3
  <2>2. ASSUME releaser \notin {"idle", "copying", "digests"}, NEW change \in OutOfHarm'
        PROVE  change[3] # clone.manifest[change[2]]
    <3>1. CASE change = mine
      BY <1>2, <1>6, <3>1, ChangesAre
    <3>2. CASE change \in OutOfHarm
      BY <2>2, <3>2 DEF ReleaseInv, KeptClear
    <3> QED
      BY <1>7, <2>2, <3>1, <3>2 DEF OutOfHarm
  <2>3. ASSUME releaser = "restore", NEW change \in OutOfHarm' PROVE change[2] \notin todo
    <3>1. CASE change = mine
      BY <1>5, <1>6, <2>3, <3>1 DEF OutOfHarm, Releasing!Unsafe
    <3>2. CASE change \in OutOfHarm
      BY <2>3, <3>2 DEF ReleaseInv, KeptClear
    <3> QED
      BY <1>7, <2>3, <3>1, <3>2 DEF OutOfHarm
  <2> QED
    BY <1>1, <2>1, <2>2, <2>3 DEF KeptClear
<1>10. \A change \in theirs' \ racedChanges' :
          /\ change[1] = "files" => primary'.files[change[2]] = change[3]
          /\ change[1] = "staged" => primary'.staged[change[2]] = change[3]
  BY <1>3, <1>4, <1>5, <1>6, <1>7, ChangesAre DEF OutOfHarm
<1>11. \A q \in Path : /\ primary'.files[q] \in 0..3 + sessionEdits' /\ primary'.staged[q] \in 0..3 + sessionEdits'
                       /\ clone.copied[q] \in 0..3 + sessionEdits' /\ clone.manifest[q] \in 0..3 + sessionEdits'
  <2>1. 0..3 + sessionEdits \subseteq 0..3 + sessionEdits' /\ c \in 0..3 + sessionEdits'
    BY <1>1, <1>2, ChangesAre
  <2>2. \A q \in Path : /\ primary.files[q] \in 0..3 + sessionEdits /\ primary.staged[q] \in 0..3 + sessionEdits
                        /\ clone.copied[q] \in 0..3 + sessionEdits /\ clone.manifest[q] \in 0..3 + sessionEdits
    BY DEF ReleaseInv, Numbered, Contents
  <2> QED
    BY <1>3, <1>4, <2>1, <2>2
<1>12. \A change \in theirs' : change[3] > 3 /\ change[3] <= 3 + sessionEdits'
  BY <1>1, <1>2, <1>5, <1>6, ChangesAre
<1>13. todo \subseteq Path /\ racedChanges' \subseteq Releasing!Place \X Path \X Releasing!Content
       /\ theirs' \subseteq Releasing!Place \X Path \X Releasing!Content
  BY <1>5, <1>6 DEF ReleaseInv, ReleaseTyped, Releasing!TypeOK
<1> QED
  BY <1>1, <1>2, <1>3, <1>8, <1>9, <1>10, <1>11, <1>12, <1>13, ChangesAre, ChangesSuffice

LEMMA StageKeeps ==
    ASSUME Releasing!ReleasesAssumption, ReleaseInv, NEW p \in Path, Releasing!Stage(p)
    PROVE  ReleaseInv'
<1> USE ReleaseNumbers
<1> PICK c : c = primary.files[p]
  OBVIOUS
<1> DEFINE mine == <<"staged", p, c>>
<1>1. /\ c > 3 /\ primary' = [primary EXCEPT !["staged"][p] = c]
      /\ theirs' = {change \in theirs : <<change[1], change[2]>> # <<"staged", p>>}
                     \cup {change \in {mine} : clone.copied[p] # c}
      /\ racedChanges' = IF Releasing!Unsafe(p) \/ <<"files", p, c>> \in racedChanges
                         THEN racedChanges \cup {mine} ELSE racedChanges
      /\ UNCHANGED <<origin, ci, base, clone, releaser, todo, sessionEdits>>
  BY DEF Releasing!Stage, Releasing!Puts
<1>2. c \in Int /\ c \in Releasing!Content /\ c <= 3 + sessionEdits
  BY <1>1, ChangesAre
<1>3. /\ primary' \in PrimaryType /\ primary'.files = primary.files
      /\ primary'.staged = [primary.staged EXCEPT ![p] = c]
  BY <1>1, <1>2, ChangesAre DEF PrimaryType, Trees
<1>4. /\ primary'.staged[p] = c
      /\ \A q \in Path \ {p} : primary'.staged[q] = primary.staged[q]
  BY <1>3, ChangesAre DEF Trees
<1>5. /\ theirs' \subseteq theirs \cup {mine} /\ (mine \in theirs' => clone.copied[p] # c \/ mine[1] # "staged")
      /\ \A change \in theirs' \ {mine} : change \in theirs /\ ~(change[1] = "staged" /\ change[2] = p)
      /\ \A change \in theirs : ~(change[1] = "staged" /\ change[2] = p) => change \in theirs'
      /\ racedChanges \subseteq racedChanges' /\ racedChanges' \subseteq racedChanges \cup {mine}
      /\ Releasing!Unsafe(p) \/ <<"files", p, c>> \in racedChanges => mine \in racedChanges'
  <2>1. mine[1] = "staged" /\ mine[2] = p
    OBVIOUS
  <2> HIDE DEF mine
  <2> QED
    BY <1>1, <2>1
<1>6. mine[1] = "staged" /\ mine[2] = p /\ mine[3] = c /\ mine \in Releasing!Place \X Path \X Releasing!Content
  BY <1>2
<1> HIDE DEF mine
<1>7. \A change \in theirs' \ racedChanges' : change = mine \/ change \in OutOfHarm
  BY <1>5 DEF OutOfHarm
<1>8. Known'
  <2> SUFFICES ASSUME NEW q \in Path, primary'.files[q] > 3
      PROVE  clone.copied[q] = primary'.files[q] \/ <<"files", q, primary'.files[q]>> \in theirs'
    BY <1>1 DEF Known
  <2>1. <<"files", q, primary.files[q]>> \in theirs => <<"files", q, primary.files[q]>> \in theirs'
    BY <1>5
  <2> QED
    BY <1>3, <2>1 DEF ReleaseInv, Known
<1>9. mine \in theirs' \ racedChanges' => <<"files", p, c>> \in OutOfHarm
  <2>1. clone.copied[p] = c \/ <<"files", p, c>> \in theirs
    BY <1>1 DEF ReleaseInv, Known
  <2> QED
    BY <1>5, <1>6, <2>1 DEF OutOfHarm
<1>10. KeptClear'
  <2>1. ASSUME releaser = "digests", NEW change \in OutOfHarm', change[2] \in Named
        PROVE  change[3] # primary'.files[change[2]]
    <3>1. change # mine
      BY <1>5, <2>1 DEF OutOfHarm, Releasing!Unsafe
    <3>2. change \in OutOfHarm
      BY <1>7, <2>1, <3>1 DEF OutOfHarm
    <3> QED
      BY <1>3, <2>1, <3>2 DEF ReleaseInv, KeptClear
  <2>2. ASSUME releaser \notin {"idle", "copying", "digests"}, NEW change \in OutOfHarm'
        PROVE  change[3] # clone.manifest[change[2]]
    <3>1. CASE change = mine
      <4>1. <<"files", p, c>> \in OutOfHarm
        BY <1>9, <2>2, <3>1 DEF OutOfHarm
      <4>2. c # clone.manifest[p]
        BY <2>2, <4>1 DEF ReleaseInv, KeptClear
      <4> QED
        BY <1>6, <3>1, <4>2
    <3>2. CASE change \in OutOfHarm
      BY <2>2, <3>2 DEF ReleaseInv, KeptClear
    <3> QED
      BY <1>7, <2>2, <3>1, <3>2 DEF OutOfHarm
  <2>3. ASSUME releaser = "restore", NEW change \in OutOfHarm' PROVE change[2] \notin todo
    <3>1. CASE change = mine
      BY <1>5, <1>6, <2>3, <3>1 DEF OutOfHarm, Releasing!Unsafe
    <3>2. CASE change \in OutOfHarm
      BY <2>3, <3>2 DEF ReleaseInv, KeptClear
    <3> QED
      BY <1>7, <2>3, <3>1, <3>2 DEF OutOfHarm
  <2> QED
    BY <1>1, <2>1, <2>2, <2>3 DEF KeptClear
<1>11. \A change \in theirs' \ racedChanges' :
          /\ change[1] = "files" => primary'.files[change[2]] = change[3]
          /\ change[1] = "staged" => primary'.staged[change[2]] = change[3]
  BY <1>3, <1>4, <1>5, <1>6, <1>7, ChangesAre DEF OutOfHarm
<1>12. \A q \in Path : /\ primary'.files[q] \in 0..3 + sessionEdits /\ primary'.staged[q] \in 0..3 + sessionEdits
                       /\ clone.copied[q] \in 0..3 + sessionEdits /\ clone.manifest[q] \in 0..3 + sessionEdits
  <2>1. \A q \in Path : /\ primary.files[q] \in 0..3 + sessionEdits /\ primary.staged[q] \in 0..3 + sessionEdits
                        /\ clone.copied[q] \in 0..3 + sessionEdits /\ clone.manifest[q] \in 0..3 + sessionEdits
    BY DEF ReleaseInv, Numbered, Contents
  <2> QED
    BY <1>3, <1>4, <2>1
<1>13. \A change \in theirs' : change[3] > 3 /\ change[3] <= 3 + sessionEdits
  BY <1>1, <1>2, <1>5, <1>6, ChangesAre
<1>14. todo \subseteq Path /\ racedChanges' \subseteq Releasing!Place \X Path \X Releasing!Content
       /\ theirs' \subseteq Releasing!Place \X Path \X Releasing!Content
  BY <1>5, <1>6 DEF ReleaseInv, ReleaseTyped, Releasing!TypeOK
<1> QED
  BY <1>1, <1>3, <1>8, <1>10, <1>11, <1>12, <1>13, <1>14, ChangesAre, ChangesSuffice

LEMMA TakeBackKeeps ==
    ASSUME Releasing!ReleasesAssumption, ReleaseInv, NEW p \in Path, Releasing!TakeBack(p)
    PROVE  ReleaseInv'
<1> USE ReleaseNumbers
<1>1. /\ primary' = [primary EXCEPT !.files[p] = 2]
      /\ theirs' = {change \in theirs : <<change[1], change[2]>> # <<"files", p>>}
      /\ UNCHANGED <<origin, ci, base, clone, releaser, todo, racedChanges, sessionEdits>>
  BY DEF Releasing!TakeBack
<1>2. /\ primary' \in PrimaryType /\ primary'.staged = primary.staged
      /\ primary'.files = [primary.files EXCEPT ![p] = 2]
  <2>1. 2 \in Releasing!Content
    BY ChangesAre
  <2> QED
    BY <1>1, <2>1, ChangesAre DEF PrimaryType, Trees
<1>3. /\ primary'.files[p] = 2
      /\ \A q \in Path \ {p} : primary'.files[q] = primary.files[q]
  BY <1>2, ChangesAre DEF Trees
<1>4. /\ \A change \in theirs' : change \in theirs /\ ~(change[1] = "files" /\ change[2] = p)
      /\ \A change \in theirs : ~(change[1] = "files" /\ change[2] = p) => change \in theirs'
  BY <1>1
<1>5. \A change \in theirs' \ racedChanges' :
         change \in OutOfHarm /\ change[2] \in Path /\ ~(change[1] = "files" /\ change[2] = p)
         /\ change[3] \in Int /\ change[3] > 3
  BY <1>1, <1>4, ChangesAre DEF OutOfHarm
<1>6. Known'
  <2> SUFFICES ASSUME NEW q \in Path, primary'.files[q] > 3
      PROVE  clone.copied[q] = primary'.files[q] \/ <<"files", q, primary'.files[q]>> \in theirs'
    BY <1>1 DEF Known
  <2>1. q # p /\ primary'.files[q] = primary.files[q]
    BY <1>3
  <2>2. <<"files", q, primary.files[q]>> \in theirs => <<"files", q, primary.files[q]>> \in theirs'
    BY <1>4, <2>1
  <2> QED
    BY <2>1, <2>2 DEF ReleaseInv, Known
<1>7. KeptClear'
  <2>1. ASSUME releaser = "digests", NEW change \in OutOfHarm', change[2] \in Named
        PROVE  change[3] # primary'.files[change[2]]
    <3>1. change \in OutOfHarm /\ change[2] \in Path /\ change[3] \in Int /\ change[3] > 3
      BY <1>5, <2>1 DEF OutOfHarm
    <3>2. change[3] # primary.files[change[2]]
      BY <2>1, <3>1 DEF ReleaseInv, KeptClear
    <3> QED
      BY <1>3, <3>1, <3>2
  <2> QED
    BY <1>1, <1>5, <2>1 DEF ReleaseInv, KeptClear, OutOfHarm
<1>8. \A change \in theirs' \ racedChanges' :
          /\ change[1] = "files" => primary'.files[change[2]] = change[3]
          /\ change[1] = "staged" => primary'.staged[change[2]] = change[3]
  BY <1>2, <1>3, <1>5, ChangesAre
<1>9. \A q \in Path : /\ primary'.files[q] \in 0..3 + sessionEdits /\ primary'.staged[q] \in 0..3 + sessionEdits
                      /\ clone.copied[q] \in 0..3 + sessionEdits /\ clone.manifest[q] \in 0..3 + sessionEdits
  <2>1. \A q \in Path : /\ primary.files[q] \in 0..3 + sessionEdits /\ primary.staged[q] \in 0..3 + sessionEdits
                        /\ clone.copied[q] \in 0..3 + sessionEdits /\ clone.manifest[q] \in 0..3 + sessionEdits
    BY DEF ReleaseInv, Numbered, Contents
  <2>2. 2 \in 0..3 + sessionEdits
    BY ChangesAre
  <2> QED
    BY <1>2, <1>3, <2>1, <2>2
<1>10. \A change \in theirs' : change[3] > 3 /\ change[3] <= 3 + sessionEdits
  BY <1>1, <1>4, ChangesAre
<1>11. todo \subseteq Path /\ racedChanges \subseteq Releasing!Place \X Path \X Releasing!Content
       /\ theirs' \subseteq Releasing!Place \X Path \X Releasing!Content
  BY <1>4 DEF ReleaseInv, ReleaseTyped, Releasing!TypeOK
<1> QED
  BY <1>1, <1>2, <1>6, <1>7, <1>8, <1>9, <1>10, <1>11, ChangesAre, ChangesSuffice

LEMMA OtherCommitKeeps ==
    ASSUME Releasing!ReleasesAssumption, ReleaseInv, Releasing!OtherCommit
    PROVE  ReleaseInv'
<1> USE ReleaseNumbers
<1>1. /\ primary' = [primary EXCEPT !.head = Releasing!Away]
      /\ sessionEdits < MaxEdits /\ sessionEdits' = sessionEdits + 1
      /\ UNCHANGED <<origin, ci, base, clone, releaser, todo, theirs, racedChanges>>
  BY DEF Releasing!OtherCommit
<1>2. /\ primary' \in PrimaryType /\ primary'.files = primary.files /\ primary'.staged = primary.staged
  BY <1>1, ChangesAre DEF PrimaryType
<1>3. Known' /\ KeptClear'
  BY <1>1, <1>2 DEF ReleaseInv, Known, KeptClear, OutOfHarm
<1>4. sessionEdits' \in 0..MaxEdits /\ 0..3 + sessionEdits \subseteq 0..3 + sessionEdits'
  BY <1>1, ChangesAre
<1>5. \A q \in Path : /\ primary'.files[q] \in 0..3 + sessionEdits' /\ primary'.staged[q] \in 0..3 + sessionEdits'
                      /\ clone.copied[q] \in 0..3 + sessionEdits' /\ clone.manifest[q] \in 0..3 + sessionEdits'
  <2>1. \A q \in Path : /\ primary.files[q] \in 0..3 + sessionEdits /\ primary.staged[q] \in 0..3 + sessionEdits
                        /\ clone.copied[q] \in 0..3 + sessionEdits /\ clone.manifest[q] \in 0..3 + sessionEdits
    BY DEF ReleaseInv, Numbered, Contents
  <2> QED
    BY <1>2, <1>4, <2>1
<1>6. \A change \in theirs : change[3] > 3 /\ change[3] <= 3 + sessionEdits'
  BY <1>1, ChangesAre
<1>7. \A change \in theirs \ racedChanges :
          /\ change[1] = "files" => primary'.files[change[2]] = change[3]
          /\ change[1] = "staged" => primary'.staged[change[2]] = change[3]
  BY <1>2, ChangesAre DEF OutOfHarm
<1>8. todo \subseteq Path /\ racedChanges \subseteq Releasing!Place \X Path \X Releasing!Content
  BY DEF ReleaseInv, ReleaseTyped, Releasing!TypeOK
<1> QED
  BY <1>1, <1>2, <1>3, <1>4, <1>5, <1>6, <1>7, <1>8, ChangesAre, ChangesSuffice

\* What holds of the checkout, the clone and the remote between any two steps.
THEOREM ReleaseInvariance ==
    ASSUME Releasing!ReleasesAssumption
    PROVE  Releasing!Spec => []ReleaseInv
<1>1. Releasing!Init => ReleaseInv
  BY ReleaseStarts
<1>2. ReleaseInv /\ [Releasing!Next]_Releasing!vars => ReleaseInv'
  <2>1. ASSUME ReleaseInv, Releasing!Next PROVE ReleaseInv'
    BY <2>1, PublishSteps, CompareKeeps, OtherSteps, CopyFilesKeeps, DigestsKeeps, RestoreKeeps, MergeKeeps,
       EditFileKeeps, StageKeeps, TakeBackKeeps, OtherCommitKeeps DEF Releasing!Next
  <2>2. ASSUME ReleaseInv, UNCHANGED Releasing!vars PROVE ReleaseInv'
    BY <2>2 DEF ReleaseInv, ReleaseTyped, Releasing!TypeOK, Numbered, Known, KeptClear, InPlace, Tested, OutOfHarm, Contents, Releasing!vars
  <2> QED
    BY <2>1, <2>2
<1> QED
  BY <1>1, <1>2, PTL DEF Releasing!Spec

\* However often publish and sync of scripts/release.py stop and are run again,
\* what other sessions changed in the checkout stays in its file, or staged,
\* unless it came between a look at that file and the next step; and the tag
\* that push-and-tag.sh pushes names a commit CI found good.
THEOREM ReleasesStaySafe ==
    ASSUME Releasing!ReleasesAssumption
    PROVE  Releasing!Spec => []Releasing!ReleasesAreSafe
<1>1. ReleaseInv => Releasing!ReleasesAreSafe
  BY ReleaseNumbers DEF ReleaseInv, InPlace, OutOfHarm, Tested, Releasing!ReleasesAreSafe
<1> QED
  BY <1>1, ReleaseInvariance, PTL

=============================================================================
