------------------------------ MODULE Reminders ------------------------------
(***************************************************************************)
(* What the home page and a note's read remind of (pages.py: _review,      *)
(* home; index.py: newer_links): notes not edited for too long, notes      *)
(* whose linked evidence happened or changed since their last edit, what   *)
(* happened lately and what comes next.  People edit notes, with clocks    *)
(* that may run ahead, and collections store what happened, early or late. *)
(***************************************************************************)
EXTENDS Integers, FiniteSets

CONSTANTS
    Note,            \* numbers, in the order of their refs
    Entry,           \* the notes that are not an action's or a project's files
    Starts,          \* the types and deadlines the notes may have first
    Records,         \* what collections may store
    Quiet,           \* those of low-priority sources
    Linked,          \* Linked[n]: the records that link to the note or that it links to
    REVIEW_DAYS, DAY, WEEK,
    Room,            \* how many projects a home page has room for
    Skew,            \* how far ahead of the clock an edit's time may be
    MaxTime, MaxEdits   \* bounds of the model

VARIABLES
    clock,
    notes,           \* each note's type, deadline, modification time and status
    records,         \* what is stored: record -> its event and update times, or Unknown
    edited,          \* when each note was last edited, in truth
    news,            \* news[n]: linked records that happened or changed since
    edits            \* so far

vars == <<clock, notes, records, edited, news, edits>>

Never == 0 - 1
Unknown == [time |-> Never, updated |-> Never]
Times == Never..(MaxTime + Skew)

RemindersAssumption ==
    /\ Note \subseteq Nat /\ IsFiniteSet(Note) /\ Entry \subseteq Note /\ Quiet \subseteq Records
    /\ \A start \in Starts, n \in Note : start[n] \in {"project", "note"} \X ({Never} \union 0..(MaxTime + Skew))
    /\ Linked \in [Note -> SUBSET Records] /\ {DAY, WEEK, Skew, Room, REVIEW_DAYS, MaxTime, MaxEdits} \subseteq Nat

TypeOK ==
    /\ clock \in 0..MaxTime /\ edits \in 0..MaxEdits
    /\ notes \in [Note -> [type : {"project", "note"}, stale : Times, mtime : 0..(MaxTime + Skew),
                           status : {"current", "deprecated"}]]
    /\ records \in [Records -> [time : Times, updated : Times]]
    /\ edited \in [Note -> 0..MaxTime] /\ news \in [Note -> SUBSET Records]

Init ==
    /\ clock = 0 /\ edits = 0
    /\ \E start \in Starts :
          notes = [n \in Note |-> [type |-> start[n][1], stale |-> start[n][2], mtime |-> 0, status |-> "current"]]
    /\ records = [r \in Records |-> Unknown]
    /\ edited = [n \in Note |-> 0] /\ news = [n \in Note |-> {}]

-----------------------------------------------------------------------------
(* What changes.                                                            *)

\* What a record tells of an instant, happening or changing then.
Tells(record, at) == record.time = at \/ record.updated = at

Tick ==
    /\ clock < MaxTime /\ clock' = clock + 1
    /\ news' = [n \in Note |-> news[n] \union
                  {r \in Linked[n] : Tells(records[r], clock + 1) /\ clock + 1 >= notes[n].mtime}]
    /\ UNCHANGED <<notes, records, edited, edits>>

\* An edit starts anew: what it may not know is what bears its own time.
Saved(n, note) ==
    /\ edits < MaxEdits /\ edits' = edits + 1
    /\ notes' = [notes EXCEPT ![n] = note]
    /\ edited' = [edited EXCEPT ![n] = clock]
    /\ news' = [news EXCEPT ![n] = {r \in Linked[n] : note.mtime <= clock /\ Tells(records[r], note.mtime)}]
    /\ UNCHANGED <<clock, records>>

Edit(n) ==
    \E ahead \in 0..Skew :
        LET note == [notes[n] EXCEPT !.mtime = clock + ahead]
        IN  \/ Saved(n, note)
            \/ Saved(n, [note EXCEPT !.status = "deprecated"])
            \/ Saved(n, [note EXCEPT !.stale = IF @ = Never THEN clock + 1 ELSE Never])

\* A first collection or a new revision; neither is news by itself.
Collect(r, time, updated) ==
    /\ updated \in {Never} \union 0..clock /\ records[r] # [time |-> time, updated |-> updated]
    /\ updated >= records[r].updated
    /\ records' = [records EXCEPT ![r] = [time |-> time, updated |-> updated]]
    /\ news' = [n \in Note |->
                  IF r \in Linked[n] /\ \E at \in notes[n].mtime..clock : Tells(records'[r], at)
                  THEN news[n] \union {r} ELSE news[n] \ {r}]
    /\ UNCHANGED <<clock, notes, edited, edits>>

Next ==
    \/ Tick
    \/ \E n \in Note : Edit(n)
    \/ \E r \in Records, time \in 0..MaxTime, updated \in {Never} \union 0..MaxTime : Collect(r, time, updated)

Spec == Init /\ [][Next]_vars

-----------------------------------------------------------------------------
(* What a page computes of it.                                              *)

Between(at, since, until) == since <= at /\ at <= until

\* A mutant: an event still to come counts.
NewerLinksToCome(n) == {r \in Linked[n] : records[r].time >= notes[n].mtime \/ Between(records[r].updated, notes[n].mtime, clock)}

\* The linked items whose event, or a record's change, lies between the edit and now.
NewerLinks(n) ==
    {r \in Linked[n] : \/ Between(records[r].time, notes[n].mtime, clock)
                       \/ Between(records[r].updated, notes[n].mtime, clock)}

\* Reminded are current projects and notes with a deadline.
Reminded(n) ==
    n \in Entry /\ notes[n].status # "deprecated" /\ (notes[n].type = "project" \/ notes[n].stale # Never)

ReviewDue(n) == IF notes[n].stale # Never THEN notes[n].stale ELSE notes[n].mtime + REVIEW_DAYS

Reasons(n) ==
    IF ~Reminded(n) THEN {}
    ELSE {reason \in {"future_modified", "due", "newer_evidence"} :
            \/ reason = "future_modified" /\ notes[n].mtime > clock
            \/ reason = "due" /\ ReviewDue(n) <= clock
            \/ reason = "newer_evidence" /\ NewerLinks(n) # {}}

Review(n) == Reasons(n) # {}

\* All current projects, and of them those that fit: first those to review,
\* each group in the order of their names.
Projects == {n \in Entry : notes[n].type = "project" /\ notes[n].status # "deprecated"}

ReviewedFirst(m, n) == \/ Review(m) /\ ~Review(n)
                       \/ Review(m) = Review(n) /\ m > n

Listed == {n \in Projects : Cardinality({m \in Projects : ReviewedFirst(m, n)}) < Room}

\* Events in the half-open days behind and before now.
Activity == {r \in Records : clock - DAY <= records[r].time /\ records[r].time < clock /\ records[r] # Unknown}
Upcoming == {r \in Records \ Quiet : clock <= records[r].time /\ records[r].time < clock + WEEK}

-----------------------------------------------------------------------------
(* What must be told.                                                       *)

\* A reminded note names exactly what happened or changed since its last edit,
\* however early or late it was collected, and until the next edit.
NewsIsTold ==
    \A n \in Note : Reminded(n) =>
        /\ NewerLinks(n) = news[n]
        /\ news[n] # {} => Review(n)

\* A project left alone is reviewed in the end: a clock ahead delays that by no
\* more than it was ahead.
NothingIsForgotten ==
    \A n \in Projects :
        /\ notes[n].stale = Never /\ clock >= edited[n] + Skew + REVIEW_DAYS => Review(n)
        /\ notes[n].stale # Never /\ clock >= notes[n].stale => Review(n)

\* A project that needs review never leaves its place to one that does not.
ReviewsComeFirst ==
    \A n \in Projects \ Listed :
        Cardinality(Listed) = Room /\ (Review(n) => \A m \in Listed : Review(m))

\* An event is upcoming until it happens and recent afterwards, never both.
EventsMoveOver ==
    \A r \in Records :
        LET at == records[r].time
        IN  /\ ~(r \in Activity /\ r \in Upcoming)
            /\ at # Never /\ clock - DAY <= at /\ at < clock + WEEK /\ r \notin Quiet => r \in Activity \union Upcoming

\* The reminders of the home page and of a note (pages.py: _review, home):
\* news since the last edit, reviews that come in time and first, and events
\* that are told before or after they happen.
RemindersAreRight == NewsIsTold /\ NothingIsForgotten /\ ReviewsComeFirst /\ EventsMoveOver

=============================================================================
