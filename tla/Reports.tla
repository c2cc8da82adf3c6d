------------------------------- MODULE Reports -------------------------------
(***************************************************************************)
(* The reports of an action routine with keep (collect.py: routine,        *)
(* _written, _prune_reports): a run writes the action of its local day and *)
(* removes its older actions that hold nothing but what BF wrote, beside a *)
(* person who edits them, adds files to them, or gets actions of another   *)
(* machine from a pull.                                                    *)
(*                                                                         *)
(* An action is named by its day and its machine, which is also the order  *)
(* of folder names.  The collecting lock admits one run; the person takes  *)
(* no lock.                                                                *)
(***************************************************************************)
EXTENDS Integers, FiniteSets

CONSTANTS
    MaxDay, Keep,
    MaxEdits, MaxKills    \* bounds

\* What the constants must satisfy; the instances assume it.
ReportsAssumption == {MaxDay, Keep, MaxEdits, MaxKills} \subseteq Nat /\ Keep > 0 /\ MaxDay > 0

VARIABLES
    today,
    folders,     \* [action -> what its folder holds]
    reports,     \* the actions the run history says this machine wrote
    run,         \* the routine's run
    edited,      \* actions a person changed and did not remove
    raced,       \* those changed between a run's look at them and its removal, or not put back
    edits, kills

vars == <<today, folders, reports, run, edited, raced, edits, kills>>

Day == 1..MaxDay
\* Within a day, the folder of this machine is the first in the order of names.
Action == Day \X {0, 1}
Own(day) == <<day, 0>>
Before(a, b) == a[1] < b[1] \/ (a[1] = b[1] /\ a[2] < b[2])

\* The text of an action: BF's, a person's, or none; and other files beside it.
None == [text |-> "none", others |-> FALSE]
Idle == [at |-> "idle", day |-> 0, left |-> {}, next |-> <<0, 0>>, keeps |-> {}]

Exists(a) == folders[a].text # "none"
Actions == {a \in Action : Exists(a)}

TypeOK ==
    /\ today \in Day /\ edits \in 0..MaxEdits /\ kills \in 0..MaxKills
    /\ \A a \in Action : folders[a].text \in {"none", "report", "edited"} /\ folders[a].others \in BOOLEAN
    /\ reports \subseteq Action /\ edited \subseteq Action /\ raced \subseteq edited
    /\ run.at \in {"idle", "ran", "locked", "pruning", "looked", "deleted", "putBack", "history"}
    /\ run.left \subseteq Action /\ run.keeps \subseteq Action
    /\ run.next \in Action \cup {<<0, 0>>}

Init ==
    /\ today = 1 /\ edits = 0 /\ kills = 0
    /\ folders = [a \in Action |-> None]
    /\ reports = {} /\ edited = {} /\ raced = {}
    /\ run = Idle

-----------------------------------------------------------------------------
(* routine. *)

\* The action is named for the day the run starts.
Start ==
    /\ run.at = "idle"
    /\ run' = [Idle EXCEPT !.at = "ran", !.day = today]
    /\ UNCHANGED <<today, folders, reports, edited, raced, edits, kills>>

\* Empty output leaves nothing to review, and a failure writes nothing.
Quiet ==
    /\ run.at = "ran"
    /\ run' = Idle
    /\ UNCHANGED <<today, folders, reports, edited, raced, edits, kills>>

\* _written: today's action of any machine, under the writer lock.
Skip ==
    /\ run.at = "ran" /\ \E a \in Actions : a[1] = run.day
    /\ run' = Idle
    /\ UNCHANGED <<today, folders, reports, edited, raced, edits, kills>>

\* All but the newest `keep` actions, where what this run wrote is the newest.
Older(wrote) ==
    LET newer(a) == {b \in Actions \cup wrote : b # a /\ (b \in wrote \/ Before(a, b)) /\ a \notin wrote}
    IN  {a \in Actions \cup wrote : Cardinality(newer(a)) >= Keep}

\* The listing; only an action of this machine can be a disposable report.
Write ==
    /\ run.at = "ran" /\ ~\E a \in Actions : a[1] = run.day
    /\ folders' = [folders EXCEPT ![Own(run.day)].text = "report"]
    /\ LET wrote == {Own(run.day)}
       IN  run' = [run EXCEPT !.at = "pruning", !.left = Older(wrote) \cap reports,
                              !.keeps = ((reports \cap Actions) \cup wrote) \ Older(wrote)]
    /\ UNCHANGED <<today, reports, edited, raced, edits, kills>>

Disposable(a) == folders[a] = [text |-> "report", others |-> FALSE]

\* Its folder holds its ACTION.md alone, with the bytes BF wrote.
Look(a) ==
    /\ run.at = "pruning" /\ a \in run.left
    /\ run' = [run EXCEPT !.left = @ \ {a}, !.next = a,
                          !.at = IF Disposable(a) THEN "looked" ELSE "pruning"]
    /\ UNCHANGED <<today, folders, reports, edited, raced, edits, kills>>

Delete ==
    /\ run.at = "looked"
    /\ folders' = [folders EXCEPT ![run.next].text = "none"]
    /\ run' = [run EXCEPT !.at = "deleted"]
    /\ UNCHANGED <<today, reports, edited, raced, edits, kills>>

\* A mutant: the folder is left without its report.
RemoveFolderAnyway ==
    /\ run.at = "deleted"
    /\ run' = [run EXCEPT !.at = "pruning"]
    /\ UNCHANGED <<today, folders, reports, edited, raced, edits, kills>>

\* An entry that appeared meanwhile keeps the folder, and its report; so does a
\* folder that cannot be removed.
RemoveFolder ==
    /\ run.at = "deleted"
    /\ \/ folders[run.next] = None /\ run' = [run EXCEPT !.at = "pruning"]
       \/ run' = [run EXCEPT !.at = "putBack"]
    /\ UNCHANGED <<today, folders, reports, edited, raced, edits, kills>>

PutBack ==
    /\ run.at = "putBack"
    /\ folders' = [folders EXCEPT ![run.next].text = "report"]
    /\ run' = [run EXCEPT !.at = "pruning"]
    /\ UNCHANGED <<today, reports, edited, raced, edits, kills>>

\* The work on an action that a failing step or a kill leaves without its text.
Unfinished == IF run.at \in {"deleted", "putBack"} THEN {run.next} \cap edited ELSE {}

\* A deletion or the write that puts back fails, which is logged and no more.
PruningFails ==
    /\ run.at \in {"looked", "deleted", "putBack"}
    /\ run' = [run EXCEPT !.at = "pruning"]
    /\ raced' = raced \cup Unfinished
    /\ UNCHANGED <<today, folders, reports, edited, edits, kills>>

\* The history: the reports that were listed and not looked at.
Remember ==
    /\ run.at = "pruning" /\ run.left = {}
    /\ reports' = run.keeps
    /\ run' = Idle
    /\ UNCHANGED <<today, folders, edited, raced, edits, kills>>

Kill ==
    /\ run.at # "idle" /\ kills < MaxKills
    /\ run' = Idle /\ kills' = kills + 1
    /\ raced' = raced \cup Unfinished
    /\ UNCHANGED <<today, folders, reports, edited, edits>>

-----------------------------------------------------------------------------
(* A person, another machine, and the calendar. *)

Watched(a) == run.at \in {"looked", "deleted", "putBack"} /\ run.next = a

Races(a) == raced' = IF Watched(a) THEN raced \cup {a} ELSE raced

EditText(a) ==
    /\ (Exists(a) \/ Watched(a)) /\ edits < MaxEdits
    /\ folders' = [folders EXCEPT ![a].text = "edited"]
    /\ edited' = edited \cup {a} /\ edits' = edits + 1 /\ Races(a)
    /\ UNCHANGED <<today, reports, run, kills>>

\* Only where the folder still is.
AddFile(a) ==
    /\ (Exists(a) \/ Watched(a)) /\ ~folders[a].others /\ edits < MaxEdits
    /\ folders' = [folders EXCEPT ![a].others = TRUE]
    /\ edited' = edited \cup {a} /\ edits' = edits + 1
    /\ raced' = IF run.at = "putBack" /\ Watched(a) THEN raced \cup {a} ELSE raced
    /\ UNCHANGED <<today, reports, run, kills>>

RemoveAction(a) ==
    /\ Exists(a) /\ ~Watched(a)
    /\ folders' = [folders EXCEPT ![a] = None]
    /\ edited' = edited \ {a} /\ raced' = raced \ {a}
    /\ UNCHANGED <<today, reports, run, edits, kills>>

\* The other machine may be a day ahead.
Pull(day) ==
    /\ day <= today + 1 /\ ~Exists(<<day, 1>>)
    /\ folders' = [folders EXCEPT ![<<day, 1>>].text = "report"]
    /\ UNCHANGED <<today, reports, run, edited, raced, edits, kills>>

NextDay ==
    /\ today < MaxDay
    /\ today' = today + 1
    /\ UNCHANGED <<folders, reports, run, edited, raced, edits, kills>>

Next ==
    \/ Start \/ Quiet \/ Skip \/ Write \/ Delete \/ RemoveFolder \/ PutBack \/ PruningFails \/ Remember
    \/ Kill
    \/ NextDay
    \/ \E a \in Action : Look(a) \/ EditText(a) \/ AddFile(a) \/ RemoveAction(a)
    \/ \E day \in Day : Pull(day)

Spec == Init /\ [][Next]_vars

-----------------------------------------------------------------------------

\* An action a person changed stays as it is, with its text, unless its text
\* changed while a run removed that very action, or the run was killed or failed
\* before it put back what it had deleted; a file added meanwhile keeps the
\* action's text beside it.
WorkIsKept ==
    \A a \in edited \ raced :
        \/ Exists(a)
        \/ Watched(a) /\ run.at \in {"deleted", "putBack"}

=============================================================================
