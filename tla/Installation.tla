---------------------------- MODULE Installation ----------------------------
(***************************************************************************)
(* One skill folder that releases of bf install and update beside a        *)
(* person who edits it (install.py: skills, _state; storage.py: write).    *)
(* A file holds the bytes a release ships, or a person's own.              *)
(***************************************************************************)
EXTENDS Naturals, FiniteSets, Functions

CONSTANTS
    File,
    Ships,                  \* Ships[v]: the files release v ships, by name, with their bytes
    MaxEdits, MaxKills      \* bounds

Release == DOMAIN Ships
Bytes == {"mine"} \cup UNION {Range(Ships[v]) : v \in Release}

\* What the constants must satisfy; the instances assume it.
InstallationAssumption ==
    /\ IsFiniteSet(File) /\ File # {} /\ Release \subseteq Nat \ {0}
    /\ \A v \in Release : DOMAIN Ships[v] \subseteq File /\ "mine" \notin Range(Ships[v])

VARIABLES
    files,       \* the folder's files: a function from some names to their bytes
    manifest,    \* the release and files it records, or NoManifest
    stray,       \* a killed write left its temporary
    run,         \* the installation under way
    edits, kills,
    begun,       \* the release of the last run, unless it was forced or a person edited since
    trampled,    \* a run replaced or removed a person's file against its promise
    raced        \* files edited between the run's look at them and its write or removal

vars == <<files, manifest, stray, run, edits, kills, begun, trampled, raced>>

Nothing == [x \in {} |-> ""]
NoManifest == [version |-> 0, files |-> Nothing]
NoRun == [at |-> "idle", version |-> 0, status |-> "current", force |-> FALSE, left |-> {},
          checked |-> {}, recorded |-> Nothing]
Blocked == {"modified", "unmanaged", "newer"}

TypeOK ==
    /\ DOMAIN files \subseteq File /\ Range(files) \subseteq Bytes
    /\ manifest.version \in Release \cup {0}
    /\ run.at \in {"idle", "first", "copy", "remove", "record"}
    /\ run.left \subseteq File /\ run.checked \subseteq File /\ raced \subseteq File
    /\ begun \in Release \cup {0} /\ {stray, trampled} \subseteq BOOLEAN

Init ==
    /\ files \in {Nothing, [f \in {CHOOSE f \in File : TRUE} |-> "mine"]}
    /\ manifest = NoManifest /\ stray = FALSE
    /\ run = NoRun /\ edits = 0 /\ kills = 0
    /\ begun = 0 /\ trampled = FALSE /\ raced = {}

-----------------------------------------------------------------------------

Holds(f, bytes) == f \in DOMAIN files /\ files[f] = bytes
In(function, f) == IF f \in DOMAIN function THEN {function[f]} ELSE {}

\* A mutant: a file that the manifest does not record is nobody's.
EditedRecorded(v) ==
    {f \in DOMAIN manifest.files :
        IF f \in DOMAIN files THEN files[f] \notin In(manifest.files, f) \cup In(Ships[v], f)
        ELSE f \in DOMAIN Ships[v]}

\* _state: what release v makes of the folder.
Edited(v) ==
    LET recorded == manifest.files
    IN  {f \in DOMAIN recorded \cup DOMAIN Ships[v] :
            IF f \in DOMAIN files THEN files[f] \notin In(recorded, f) \cup In(Ships[v], f)
            ELSE f \in DOMAIN recorded \cap DOMAIN Ships[v]}

Status(v) ==
    IF files = Nothing /\ manifest = NoManifest /\ ~stray THEN "missing"
    ELSE IF manifest = NoManifest THEN "unmanaged"
    ELSE IF manifest.files # Ships[v] /\ manifest.version > v THEN "newer"
    ELSE IF Edited(v) # {} THEN "modified"
    ELSE IF manifest.files = Ships[v] THEN "current"
    ELSE "outdated"

Mine(f) == f \in DOMAIN files /\ files[f] = "mine"
Tramples(f) == trampled' = (trampled \/ (Mine(f) /\ f \notin raced))

Start(v) ==
    /\ run.at = "idle"
    /\ \E force \in BOOLEAN :
        /\ Status(v) \in {"missing", "outdated"} \cup IF force THEN Blocked ELSE {}
        /\ run' = [at |-> IF Status(v) = "missing" THEN "first" ELSE "copy", version |-> v,
                   status |-> Status(v), force |-> force, left |-> DOMAIN Ships[v],
                   checked |-> {}, recorded |-> manifest.files]
        /\ begun' = IF force THEN 0 ELSE v
    /\ UNCHANGED <<files, manifest, stray, edits, kills, trampled, raced>>

\* A manifest first: an interrupted first install then reads as outdated.
WriteFirst ==
    /\ run.at = "first"
    /\ manifest' = [version |-> run.version, files |-> Nothing]
    /\ run' = [run EXCEPT !.at = "copy"]
    /\ UNCHANGED <<files, stray, edits, kills, begun, trampled, raced>>

\* What _state found is not looked at again: an edit since then is written over.
Copy(f) ==
    /\ run.at = "copy" /\ f \in run.left
    /\ files' = [x \in DOMAIN files \cup {f} |-> IF x = f THEN Ships[run.version][f] ELSE files[x]]
    /\ LET left == run.left \ {f}
           dropped == DOMAIN run.recorded \ DOMAIN Ships[run.version]
       IN  run' = IF left # {} THEN [run EXCEPT !.left = left]
                  ELSE [run EXCEPT !.left = dropped, !.at = IF dropped = {} THEN "record" ELSE "remove"]
    /\ IF run.force THEN trampled' = trampled ELSE Tramples(f)
    /\ raced' = raced \ {f}
    /\ UNCHANGED <<manifest, stray, edits, kills, begun>>

Passed(f) == [run EXCEPT !.left = @ \ {f}, !.checked = {}, !.at = IF run.left = {f} THEN "record" ELSE "remove"]

\* _unedited: even a forced run keeps an edited file this release no longer ships.
Check(f) ==
    /\ run.at = "remove" /\ run.checked = {} /\ f \in run.left
    /\ run' = IF Holds(f, run.recorded[f]) THEN [run EXCEPT !.checked = {f}] ELSE Passed(f)
    /\ UNCHANGED <<files, manifest, stray, edits, kills, begun, trampled, raced>>

\* The run fails where the file is gone meanwhile.
Remove(f) ==
    /\ run.at = "remove" /\ f \in run.checked
    /\ files' = Restrict(files, DOMAIN files \ {f})
    /\ IF f \in DOMAIN files THEN run' = Passed(f) /\ raced' = raced \ {f} ELSE run' = NoRun /\ raced' = {}
    /\ Tramples(f)
    /\ UNCHANGED <<manifest, stray, edits, kills, begun>>

Record ==
    /\ run.at = "record"
    /\ manifest' = [version |-> run.version, files |-> Ships[run.version]]
    /\ run' = NoRun /\ raced' = {}
    /\ UNCHANGED <<files, stray, edits, kills, begun, trampled>>

\* The run dies, or fails, between two writes, or inside one, whose temporary stays.
Kill ==
    /\ run.at # "idle" /\ kills < MaxKills
    /\ kills' = kills + 1
    /\ stray' \in {stray, TRUE}
    /\ run' = NoRun /\ raced' = {}
    /\ UNCHANGED <<files, manifest, edits, begun, trampled>>

\* The run looked at the file and has not written or removed it yet.
Watched(f) == (run.at \in {"first", "copy"} /\ f \in run.left) \/ f \in run.checked

\* A person edits, adds or deletes a file, between runs or beside one.
Edit(f) ==
    /\ edits < MaxEdits
    /\ edits' = edits + 1
    /\ files' \in {[x \in DOMAIN files \cup {f} |-> IF x = f THEN "mine" ELSE files[x]],
                   Restrict(files, DOMAIN files \ {f})}
    /\ begun' = 0
    /\ raced' = IF Watched(f) THEN raced \cup {f} ELSE raced
    /\ UNCHANGED <<manifest, stray, run, kills, trampled>>

Next ==
    \/ \E v \in Release : Start(v)
    \/ \E f \in File : Copy(f) \/ Check(f) \/ Remove(f) \/ Edit(f)
    \/ WriteFirst \/ Record \/ Kill

Spec == Init /\ [][Next]_vars

-----------------------------------------------------------------------------

\* Releases install, update, downgrade and die half-way while a person edits
\* what they wrote, yet an unforced run never replaces, and no run removes, the
\* person's bytes, even those a forced run of another release kept, unless they
\* came after the run looked at that file; and a run that died is finished by the
\* next one of its release where nobody edited since, unless its very first write
\* left a temporary, or a newer manifest says otherwise.
EditsSurvive ==
    /\ ~trampled
    /\ run.at = "idle" /\ begun # 0 /\ ~(stray /\ manifest = NoManifest) =>
            Status(begun) \in {"missing", "outdated", "current", "newer"}

=============================================================================
