------------------------------- MODULE Dashboard -------------------------------
(***************************************************************************)
(* What bf watch shows (watch.py: snapshot, Sort, Dashboard.visible,       *)
(* select, replace_rows, key, render): each poll replaces the rows below   *)
(* the cursor of a person who moves, sorts and filters them, while         *)
(* programs run elsewhere and bf.yaml changes or cannot be read.           *)
(* Updates, their pause and their alerts are those of WatchLoop.           *)
(***************************************************************************)
EXTENDS Integers, FiniteSets, Sequences, SequencesExt

CONSTANTS
    Program,         \* numbers, in the order of their names
    Assistant,       \* those that are assistants
    Refresh, BACKOFF,
    Starts,          \* what bf.yaml and the history may hold of them first
    Room,            \* how many rows a screen may have place for
    MaxTime, MaxChanges   \* bounds of the model

VARIABLES
    clock,
    brain,           \* each program: enabled and scheduled, last run, success and failure
    readable,        \* bf.yaml and the history can be read
    rows,            \* the last snapshot
    cursor,
    view,            \* the filter, the sort and its direction
    chosen,          \* the program the person moved to, while it is shown; or None
    current,         \* the snapshot is of this instant
    changes          \* so far

vars == <<clock, brain, readable, rows, cursor, view, chosen, current, changes>>

Never == 0 - 1
None == 0

DashboardAssumption ==
    /\ Program \subseteq Nat \ {None} /\ IsFiniteSet(Program) /\ Assistant \subseteq Program
    /\ {Refresh, BACKOFF} \subseteq Nat \ {0} /\ BACKOFF <= Refresh
    /\ Room \subseteq Nat /\ {MaxTime, MaxChanges} \subseteq Nat

State == <<"failed", "never", "due", "fresh", "manual", "disabled">>
ATTENTION == {"failed", "never", "due"}
Sorts == <<"name", "updated", "state", "due">>
Descending(sort) == sort = "updated"

Times == Never..(MaxTime + 1)
Row == [program : Program, status : {State[k] : k \in 1..Len(State)}, success : Times, due : Never..(MaxTime + 1 + Refresh)]

TypeOK ==
    /\ clock \in 0..MaxTime /\ changes \in 0..MaxChanges /\ {readable, current} \subseteq BOOLEAN
    /\ brain \in [Program -> [enabled : BOOLEAN, scheduled : BOOLEAN, run : Times, success : Times, failed : BOOLEAN]]
    /\ rows \subseteq Row /\ cursor \in 0..Cardinality(Program)
    /\ view \in [attention : BOOLEAN, sort : {Sorts[k] : k \in 1..Len(Sorts)}, descending : BOOLEAN]
    /\ chosen \in Program \union {None}

-----------------------------------------------------------------------------
(* A snapshot of bf.yaml and the history.                                   *)

\* next_due: one refresh after the last success, or a backoff after a failed
\* run; at once when that lies in the future.  An assistant has no backoff.
NextDue(p) ==
    LET of == brain[p]
        backoff == of.failed /\ p \notin Assistant
        since == IF backoff THEN of.run ELSE of.success
    IN  IF ~of.enabled \/ ~of.scheduled THEN Never
        ELSE IF since = Never \/ since > clock THEN clock
        ELSE since + (IF backoff THEN BACKOFF ELSE Refresh)

\* A disabled program shows no failure, nor does a manual one that is no assistant.
Status(p) ==
    LET of == brain[p]
    IN  CASE ~of.enabled -> "disabled"
          [] of.enabled /\ of.failed /\ (of.scheduled \/ p \in Assistant) -> "failed"
          [] OTHER -> IF ~of.scheduled THEN "manual"
                      ELSE IF of.success = Never THEN "never"
                      ELSE IF NextDue(p) <= clock THEN "due"
                      ELSE "fresh"

snapshot == {[program |-> p, status |-> Status(p), success |-> brain[p].success, due |-> NextDue(p)] : p \in Program}

-----------------------------------------------------------------------------
(* What a person sees of the rows, and where the cursor stands.             *)

Value(row, sort) ==
    CASE sort = "name" -> row.program
      [] sort = "updated" -> row.success
      [] sort = "state" -> CHOOSE k \in 1..Len(State) : State[k] = row.status
      [] sort = "due" -> row.due

\* Unknown values stay last in either direction, ties in the order of names.
Visible(of, v) ==
    LET Before(a, b) ==
            LET x == Value(a, v.sort)
                y == Value(b, v.sort)
            IN  IF x = Never \/ y = Never \/ x = y
                THEN (y = Never /\ x # Never) \/ (x = y /\ a.program < b.program)
                ELSE IF v.descending THEN x > y ELSE x < y
    IN  SetToSortSeq({row \in of : v.attention => row.status \in ATTENTION}, Before)

Clamp(at, seen) ==
    IF Len(seen) = 0 \/ at < 0 THEN 0 ELSE IF at > Len(seen) - 1 THEN Len(seen) - 1 ELSE at

Selected(seen) == IF seen = <<>> THEN None ELSE seen[Clamp(cursor, seen) + 1].program

\* A mutant: the cursor stays in its place.
SelectPlace(program, seen) == Clamp(cursor, seen)

\* Where a program stands; or the cursor's place when it is no longer seen.
Select(program, seen) ==
    LET places == {k \in 1..Len(seen) : seen[k].program = program}
    IN  IF places = {} THEN Clamp(cursor, seen) ELSE (CHOOSE k \in places : TRUE) - 1

\* The lines of a screen with this room: those that end at the cursor, from the
\* first on when it is among them.
Shown(seen, limit) ==
    LET at == Clamp(cursor, seen)
        room == IF limit > 1 THEN limit ELSE 1
        offset == IF at > room - 1 THEN at - room + 1 ELSE 0
    IN  SubSeq(seen, offset + 1, IF offset + limit < Len(seen) THEN offset + limit ELSE Len(seen))

-----------------------------------------------------------------------------
(* Time, programs and editors.                                              *)

Init ==
    /\ clock = 0 /\ changes = 0 /\ readable = TRUE /\ brain \in Starts
    /\ rows = {} /\ cursor = 0 /\ chosen = None /\ current = FALSE
    /\ view = [attention |-> FALSE, sort |-> "name", descending |-> FALSE]

Changed(of) ==
    /\ changes < MaxChanges /\ changes' = changes + 1
    /\ brain' = of /\ current' = FALSE
    /\ UNCHANGED <<clock, rows, cursor, view, chosen>>

Tick ==
    /\ clock < MaxTime /\ clock' = clock + 1 /\ current' = FALSE
    /\ UNCHANGED <<brain, readable, rows, cursor, view, chosen, changes>>

Succeed(p) ==
    /\ brain[p].enabled
    /\ Changed([brain EXCEPT ![p].run = clock, ![p].success = clock, ![p].failed = FALSE])
    /\ UNCHANGED readable

Fail(p) ==
    /\ brain[p].enabled /\ Changed([brain EXCEPT ![p].run = clock, ![p].failed = TRUE])
    /\ UNCHANGED readable

Configure(p) ==
    /\ \/ Changed([brain EXCEPT ![p].enabled = ~@])
       \/ Changed([brain EXCEPT ![p].scheduled = ~@])
    /\ UNCHANGED readable

Break == readable /\ readable' = FALSE /\ Changed(brain)
Repair ==
    /\ ~readable /\ readable' = TRUE
    /\ UNCHANGED <<clock, brain, rows, cursor, view, chosen, current, changes>>

-----------------------------------------------------------------------------
(* The loop: polls and keys, with a frame after each of them.               *)

Remembered(seen, at) ==
    chosen' = IF \E k \in 1..Len(seen) : seen[k].program = chosen THEN chosen
              ELSE IF seen = <<>> THEN None ELSE seen[at + 1].program

\* replace_rows: the program under the cursor keeps it.
Poll ==
    /\ readable
    /\ LET seen == Visible(snapshot, view)
       IN  /\ rows' = snapshot /\ cursor' = Select(Selected(Visible(rows, view)), seen)
           /\ Remembered(seen, cursor')
    /\ current' = TRUE
    /\ UNCHANGED <<clock, brain, readable, view, changes>>

\* A snapshot that cannot be read leaves no rows, and the frame no cursor.
Unreadable ==
    /\ ~readable /\ rows' = {} /\ cursor' = 0 /\ chosen' = None /\ current' = FALSE
    /\ UNCHANGED <<clock, brain, readable, view, changes>>

Move(key) ==
    LET seen == Visible(rows, view)
        at == CASE key = "j" -> cursor + 1
                [] key = "k" -> cursor - 1
                [] key = "g" -> 0
                [] key = "G" -> Len(seen) - 1
    IN  /\ cursor' = Clamp(at, seen)
        /\ chosen' = IF seen = <<>> THEN None ELSE seen[cursor' + 1].program
        /\ UNCHANGED <<clock, brain, readable, rows, view, current, changes>>

\* Tab starts from the first row of the other list.
Tab ==
    LET seen == Visible(rows, [view EXCEPT !.attention = ~@])
    IN  /\ view' = [view EXCEPT !.attention = ~@] /\ cursor' = 0
        /\ chosen' = IF seen = <<>> THEN None ELSE seen[1].program
        /\ UNCHANGED <<clock, brain, readable, rows, current, changes>>

\* s, n, t: another order; r: the other direction.  The program keeps the cursor.
NextSort(sort) ==
    LET k == CHOOSE i \in 1..Len(Sorts) : Sorts[i] = sort
    IN  Sorts[(k % Len(Sorts)) + 1]

Reorder(to) ==
    LET seen == Visible(rows, to)
    IN  /\ view' = to /\ cursor' = Select(Selected(Visible(rows, view)), seen)
        /\ Remembered(seen, cursor')
        /\ UNCHANGED <<clock, brain, readable, rows, current, changes>>

Sorted(sort) == Reorder([view EXCEPT !.sort = sort, !.descending = Descending(sort)])
ReverseOrder == Reorder([view EXCEPT !.descending = ~@])

Press ==
    \/ \E key \in {"j", "k", "g", "G"} : Move(key)
    \/ Tab
    \/ \E sort \in {NextSort(view.sort), "name", "updated"} : Sorted(sort)
    \/ ReverseOrder

Next ==
    \/ Tick
    \/ \E p \in Program : Succeed(p) \/ Fail(p) \/ Configure(p)
    \/ Break
    \/ Repair
    \/ Poll
    \/ Unreadable
    \/ Press

Spec == Init /\ [][Next]_vars

-----------------------------------------------------------------------------
(* What the person may rely on.                                             *)

Programs(seen) == {seen[k].program : k \in 1..Len(seen)}

\* Polls and other orders never move the cursor off the program a person chose.
SelectionIsKept == Selected(Visible(rows, view)) = chosen

\* Whatever its room, a full screen of distinct programs shows that one.
SelectionIsShown ==
    LET seen == Visible(rows, view)
    IN \A limit \in Room \ {0} :
        LET shown == Shown(seen, limit)
        IN  /\ Len(shown) = IF limit < Len(seen) THEN limit ELSE Len(seen)
            /\ Cardinality(Programs(shown)) = Len(shown)
            /\ seen # <<>> => chosen \in Programs(shown)

\* What the next update would run, and every scheduled program whose last run
\* failed, is among what needs attention; a program that succeeded within its
\* refresh and is to run later is not.
AttentionIsWhole ==
    current =>
        LET needing == Programs(Visible(rows, [view EXCEPT !.attention = TRUE]))
        IN  \A p \in Program :
                LET of == brain[p]
                    scheduled == of.enabled /\ of.scheduled
                    fresh == of.success # Never /\ of.success <= clock /\ clock < of.success + Refresh
                IN  /\ scheduled /\ (of.failed \/ ~fresh) => p \in needing
                    /\ scheduled /\ ~of.failed /\ fresh => p \notin needing
                    /\ ~of.enabled => p \notin needing

\* The view of a watch (watch.py: Dashboard): the chosen program stays selected
\* and on the screen, and what needs attention is what the filter leaves.
ViewIsRight == SelectionIsKept /\ SelectionIsShown /\ AttentionIsWhole

=============================================================================
