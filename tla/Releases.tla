------------------------------ MODULE Releases ------------------------------
(***************************************************************************)
(* A release (scripts/release.py, scripts/push-and-tag.sh): prepare clones *)
(* HEAD with the named paths of the primary checkout, publish pushes the   *)
(* clone's commit, tags it once CI succeeded and waits for CD, and sync    *)
(* moves the primary checkout to it, beside other sessions that edit that  *)
(* checkout.  Every step of the releaser may fail or be its last; publish  *)
(* and sync are run again.                                                 *)
(*                                                                         *)
(* Commit 0 is the base; the clone's commits follow it.                    *)
(***************************************************************************)
EXTENDS Integers, FiniteSets

CONSTANTS
    Path, Named,     \* what the release changes, and of these what `prepare` was given
    MaxCommits, MaxEdits    \* bounds

\* What the constants must satisfy; the instances assume it.
ReleasesAssumption == Named \subseteq Path /\ MaxCommits \in Nat \ {0} /\ MaxEdits \in Nat

VARIABLES
    origin,    \* the remote: main, and the commit of the tag
    ci,        \* what CI says of each commit
    base,      \* the files of the base, which may not hold a path yet
    primary,   \* the primary checkout: HEAD, the files, what is staged
    clone,     \* the release clone: HEAD, the tag, what it copied, its manifest
    at,        \* where the releaser is
    todo,      \* the paths sync has yet to restore
    theirs,    \* other sessions' changes: the place, the path, what it holds
    raced,     \* those made between the releaser's look and its step
    edits

vars == <<origin, ci, base, primary, clone, at, todo, theirs, raced, edits>>

\* What a file holds: nothing, the base, the work to release, the release, or an
\* edit of another session.
Nothing == 0
Base == 1
Work == 2
Released == 3
Content == 0..3 + MaxEdits
None == 0 - 1        \* no commit
Away == 0 - 2        \* a commit that is not of this release
Commit == 1..MaxCommits
Place == {"files", "staged"}

TypeOK ==
    /\ origin.main \in Commit \cup {0, Away} /\ origin.tag \in Commit \cup {None}
    /\ ci \in [Commit -> {"none", "success", "failure"}]
    /\ base \in [Path -> {Nothing, Base}]
    /\ primary.head \in Commit \cup {0, Away}
    /\ \A place \in Place : primary[place] \in [Path -> Content]
    /\ clone.head \in Commit \cup {None, 0} /\ clone.tag \in Commit \cup {None}
    /\ {clone.copied, clone.manifest} \subseteq [Path -> Content]
    /\ at \in {"idle", "copying", "digests", "ready", "push", "wait", "tag", "pushTag", "cd",
               "sync", "restore", "merge", "synced"}
    /\ todo \subseteq Path /\ {theirs, raced} \subseteq SUBSET (Place \X Path \X Content)
    /\ edits \in 0..MaxEdits

Init ==
    /\ base \in [Path -> {Nothing, Base}] /\ \A p \in Path \ Named : base[p] = Base
    /\ origin = [main |-> 0, tag |-> None]
    /\ ci = [c \in Commit |-> "none"]
    /\ LET working == [p \in Path |-> IF p \in Named THEN Work ELSE base[p]] IN
       \E staged \in {base, working} : primary = [head |-> 0, files |-> working, staged |-> staged]
    /\ clone = [head |-> None, tag |-> None, copied |-> base, manifest |-> base]
    /\ at = "idle" /\ todo = {} /\ theirs = {} /\ raced = {} /\ edits = 0

others == <<theirs, raced, edits>>
Goes(from, to) == at = from /\ at' = to

-----------------------------------------------------------------------------
(* prepare. *)

\* HEAD holds what origin's main does, the tag is free, the clone is new.
Prepare ==
    /\ Goes("idle", "copying")
    /\ primary.head # Away /\ origin.main # Away /\ origin.tag = None
    /\ clone' = [clone EXCEPT !.head = 0]
    /\ UNCHANGED <<origin, ci, base, primary, todo, others>>

\* The named paths as they are in the working tree, or their deletion: whoever
\* wrote them, they are released.
Copy ==
    /\ Goes("copying", "digests")
    /\ clone' = [clone EXCEPT !.copied = [p \in Path |-> IF p \in Named THEN primary.files[p] ELSE base[p]]]
    /\ theirs' = {change \in theirs : change[2] \in Named => change[3] # primary.files[change[2]]}
    /\ UNCHANGED <<origin, ci, base, primary, todo, raced, edits>>

\* The manifest's digests are of the files as they are afterwards.
Digests ==
    /\ Goes("digests", "ready")
    /\ clone' = [clone EXCEPT !.manifest = [p \in Path |-> IF p \in Named THEN primary.files[p] ELSE base[p]]]
    /\ UNCHANGED <<origin, ci, base, primary, todo, others>>

\* The releaser commits the release, or a correction of it.
Commits ==
    /\ at = "ready" /\ clone.head < MaxCommits
    /\ clone' = [clone EXCEPT !.head = @ + 1]
    /\ UNCHANGED <<origin, ci, base, primary, at, todo, others>>

-----------------------------------------------------------------------------
(* publish and push-and-tag.sh. *)

\* A tag never moves; the one of an earlier attempt is not pushed again.
Publish ==
    /\ at = "ready" /\ clone.head \in Commit
    /\ \/ origin.tag = clone.head /\ at' = "cd"
       \/ origin.tag = None /\ clone.tag = None /\ at' = "push"
    /\ UNCHANGED <<origin, ci, base, primary, clone, todo, others>>

\* Nothing but a fast-forward of main.
Push ==
    /\ Goes("push", "wait") /\ origin.main \in 0..clone.head
    /\ origin' = [origin EXCEPT !.main = clone.head]
    /\ UNCHANGED <<ci, base, primary, clone, todo, others>>

\* A mutant: any run of CI will do.
WaitedForAny == Goes("wait", "tag") /\ ci[clone.head] # "none"

\* The CI run of that very commit.
Waited == Goes("wait", "tag") /\ ci[clone.head] = "success"

WaitForCI == Waited /\ UNCHANGED <<origin, ci, base, primary, clone, todo, others>>

Tag ==
    /\ Goes("tag", "pushTag")
    /\ clone' = [clone EXCEPT !.tag = clone.head]
    /\ UNCHANGED <<origin, ci, base, primary, todo, others>>

PushTag ==
    /\ Goes("pushTag", "cd") /\ origin.tag = None
    /\ origin' = [origin EXCEPT !.tag = clone.tag]
    /\ UNCHANGED <<ci, base, primary, clone, todo, others>>

\* The tag is deleted, whether or not it reached the remote.
PushTagFails ==
    /\ Goes("pushTag", "ready")
    /\ clone' = [clone EXCEPT !.tag = None]
    /\ origin' \in {origin, [origin EXCEPT !.tag = IF @ = None THEN clone.tag ELSE @]}
    /\ UNCHANGED <<ci, base, primary, todo, others>>

\* CD and verify-release.sh succeed.
Delivered == Goes("cd", "sync") /\ UNCHANGED <<origin, ci, base, primary, clone, todo, others>>

-----------------------------------------------------------------------------
(* sync. *)

SyncAgain == Goes("ready", "sync") /\ UNCHANGED <<origin, ci, base, primary, clone, todo, others>>

\* A mutant: what is staged is not looked at.
ForeignFiles(p) == primary.files[p] \notin {base[p], Released, clone.manifest[p]}

\* Neither the base, nor what was copied, nor the release; or staged otherwise.
Foreign(p) ==
    \/ primary.files[p] \notin {base[p], Released, clone.manifest[p]}
    \/ primary.staged[p] \notin {base[p], primary.files[p]}

\* Another session's work stops it before it changes anything.
Compare ==
    /\ Goes("sync", "restore")
    /\ clone.tag # None /\ primary.head = 0 /\ origin.main = clone.tag
    /\ \A p \in Path : ~Foreign(p)
    /\ todo' = {p \in Path : primary.files[p] # base[p]}
    /\ UNCHANGED <<origin, ci, base, primary, clone, others>>

\* git checkout of the base, or git rm and unlink.
Restore(p) ==
    /\ at = "restore" /\ p \in todo
    /\ todo' = todo \ {p}
    /\ primary' = [primary EXCEPT !.files[p] = base[p], !.staged[p] = base[p]]
    /\ UNCHANGED <<origin, ci, base, clone, at, others>>

Restored == todo = {} /\ Goes("restore", "merge") /\ UNCHANGED <<origin, ci, base, primary, clone, todo, others>>

\* git merge --ff-only refuses to overwrite a change.
Merge ==
    /\ Goes("merge", "synced") /\ primary.head = 0
    /\ \A p \in Path : primary.files[p] = base[p] /\ primary.staged[p] = base[p]
    /\ primary' = [head |-> clone.tag, files |-> [p \in Path |-> Released],
                   staged |-> [p \in Path |-> Released]]
    /\ UNCHANGED <<origin, ci, base, clone, todo, others>>

\* Any step may fail, or the session end: publish or sync is run again.  An
\* interrupted prepare leaves no clone.
Stop ==
    /\ at \notin {"idle", "ready", "synced"}
    /\ IF at \in {"copying", "digests"}
       THEN at' = "idle" /\ clone' = [clone EXCEPT !.head = None]
       ELSE at' = "ready" /\ clone' = clone
    /\ todo' = {}
    /\ UNCHANGED <<origin, ci, base, primary, others>>

-----------------------------------------------------------------------------
(* CI, the remote and other sessions. *)

Test(commit) ==
    /\ commit <= origin.main /\ ci[commit] = "none"
    /\ \E result \in {"success", "failure"} : ci' = [ci EXCEPT ![commit] = result]
    /\ UNCHANGED <<origin, base, primary, clone, at, todo, others>>

OtherPush ==
    /\ edits < MaxEdits /\ edits' = edits + 1
    /\ origin' = [origin EXCEPT !.main = Away]
    /\ UNCHANGED <<ci, base, primary, clone, at, todo, theirs, raced>>

Unsafe(p) == at = "digests" \/ (at \in {"restore", "merge"} /\ p \in todo)

\* What was copied is released, wherever it is.
Puts(place, p, content) ==
    /\ primary' = [primary EXCEPT ![place][p] = content]
    /\ theirs' = {change \in theirs : <<change[1], change[2]>> # <<place, p>>}
                \cup {change \in {<<place, p, content>>} : clone.copied[p] # content}

\* A session edits a file, or stages it.
Edit(p) ==
    /\ edits < MaxEdits /\ edits' = edits + 1 /\ at # "synced"
    /\ Puts("files", p, Released + edits')
    /\ raced' = IF Unsafe(p) THEN raced \cup {<<"files", p, Released + edits'>>} ELSE raced
    /\ UNCHANGED <<origin, ci, base, clone, at, todo>>

Stage(p) ==
    /\ primary.files[p] > Released /\ primary.staged[p] # primary.files[p] /\ at # "synced"
    /\ Puts("staged", p, primary.files[p])
    /\ raced' = IF Unsafe(p) \/ <<"files", p, primary.files[p]>> \in raced
                THEN raced \cup {<<"staged", p, primary.files[p]>>} ELSE raced
    /\ UNCHANGED <<origin, ci, base, clone, at, todo, edits>>

\* The file goes back to the work to release, and what was staged stays.
TakeBack(p) ==
    /\ primary.files[p] > Released /\ p \in Named /\ at # "synced"
    /\ primary' = [primary EXCEPT !.files[p] = Work]
    /\ theirs' = {change \in theirs : <<change[1], change[2]>> # <<"files", p>>}
    /\ UNCHANGED <<origin, ci, base, clone, at, todo, raced, edits>>

OtherCommit ==
    /\ edits < MaxEdits /\ edits' = edits + 1 /\ at # "synced"
    /\ primary' = [primary EXCEPT !.head = Away]
    /\ UNCHANGED <<origin, ci, base, clone, at, todo, theirs, raced>>

-----------------------------------------------------------------------------

Next ==
    \/ Prepare \/ Copy \/ Digests \/ Commits \/ Publish \/ Push \/ WaitForCI \/ Tag \/ PushTag
    \/ PushTagFails \/ Delivered \/ SyncAgain \/ Compare \/ Restored \/ Merge \/ Stop \/ OtherPush
    \/ OtherCommit
    \/ \E p \in Path : Restore(p) \/ Edit(p) \/ Stage(p) \/ TakeBack(p)
    \/ \E commit \in Commit : Test(commit)

Spec == Init /\ [][Next]_vars

-----------------------------------------------------------------------------

\* However often publish and sync fail and are run again, another session's
\* change stays where it is, in its file or staged, unless it came between the
\* releaser's look at that file and the next step; and a tag names a commit that
\* CI found good.
ReleasesAreSafe ==
    /\ \A change \in theirs \ raced : primary[change[1]][change[2]] = change[3]
    /\ origin.tag # None => ci[origin.tag] = "success"

=============================================================================
