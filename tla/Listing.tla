-------------------------------- MODULE Listing --------------------------------
(***************************************************************************)
(* A sensor that reads a paginated history while it changes                *)
(* (examples/sensors/github-history.py: page, record, collect).  Issues    *)
(* and pull requests come in the order of their last modification and move *)
(* to its end when they change; commits come newest first and appear at    *)
(* their date.  The run must print everything of its window or fail.       *)
(***************************************************************************)
EXTENDS Integers, FiniteSets, Sequences, TLC

CONSTANTS
    Item,            \* numbers: ties of the order are in theirs
    Pulls,           \* the items that are pull requests, when they are no commits
    Kinds,           \* what is collected: some of "commits", "issues", "pulls"
    Histories,       \* what the provider may hold first
    Since, Until,   \* the window, half open
    PerPage, MAX_PAGES,
    Now, MaxTime,    \* the first and the last instant of the clock
    MaxChanges       \* bound of the model

VARIABLES
    clock, kind,
    history,         \* when each item was modified, or None
    run,             \* the collection
    steady,          \* what has not changed since it started
    moved,           \* something it may have read left its place since its last page
    raced,           \* the same, between two pages that it read by their numbers
    changes          \* so far

vars == <<clock, kind, history, run, steady, moved, raced, changes>>

None == 0 - 1
Idle == [at |-> "idle", inclusive |-> FALSE, cursor |-> 0, number |-> 1, pages |-> 0, seen |-> <<>>, records |-> {}]

ListingAssumption ==
    /\ IsFiniteSet(Item) /\ Item = 1..Cardinality(Item) /\ Pulls \subseteq Item
    /\ Kinds \subseteq {"commits", "issues", "pulls"}
    /\ {Since, Until, PerPage, MAX_PAGES, Now, MaxTime, MaxChanges} \subseteq Nat
    /\ Since < Until /\ PerPage > 0 /\ Histories \subseteq [Item -> None..Now]

TypeOK ==
    /\ clock \in Now..MaxTime /\ kind \in Kinds /\ history \in [Item -> None..MaxTime]
    /\ run.at \in {"idle", "reading", "done", "failed"} /\ run.number \in 1..(MAX_PAGES + 1)
    /\ run.pages \in 0..MAX_PAGES /\ run.records \subseteq Item /\ run.cursor \in None..MaxTime
    /\ DOMAIN run.seen \subseteq Item /\ \A i \in DOMAIN run.seen : run.seen[i] \in 0..MaxTime
    /\ steady \subseteq Item /\ {moved, raced} \subseteq BOOLEAN /\ changes \in 0..MaxChanges

Init ==
    /\ clock = Now /\ kind \in Kinds /\ history \in Histories
    /\ run = Idle /\ steady = {} /\ moved = FALSE /\ raced = FALSE /\ changes = 0

-----------------------------------------------------------------------------
(* The provider.                                                            *)

Tick ==
    /\ clock < MaxTime /\ clock' = clock + 1
    /\ UNCHANGED <<kind, history, run, steady, moved, raced, changes>>

\* An issue that changes or is opened has the time of now; a commit that is
\* pushed keeps its own; what is deleted or rewritten leaves the history.
Modified(i, time) ==
    /\ changes < MaxChanges /\ changes' = changes + 1
    /\ history[i] # time /\ history' = [history EXCEPT ![i] = time]
    /\ steady' = steady \ {i}
    /\ moved' = (moved \/ history[i] # None)
    /\ UNCHANGED <<clock, kind, run, raced>>

Update(i) == kind # "commits" /\ Modified(i, clock)
Push(i, date) == kind = "commits" /\ history[i] = None /\ date <= clock /\ Modified(i, date)
Erase(i) == history[i] # None /\ Modified(i, None)

\* What a request lists: the provider's lower bound includes its own second, or
\* does not.
Listed(cursor, inclusive) ==
    LET items == {i \in Item : /\ history[i] # None
                               /\ history[i] > cursor \/ (inclusive /\ history[i] = cursor)
                               /\ kind = "commits" => history[i] <= Until}
        Oldest(i, j) == history[i] < history[j] \/ (history[i] = history[j] /\ i < j)
    IN  SortSeq(SelectSeq([i \in Item |-> i], LAMBDA i : i \in items),
                LAMBDA i, j : IF kind = "commits" THEN Oldest(j, i) ELSE Oldest(i, j))

Page(list, number) ==
    LET last == number * PerPage
    IN  SubSeq(list, (number - 1) * PerPage + 1, IF last < Len(list) THEN last ELSE Len(list))

-----------------------------------------------------------------------------
(* collect. *)

Start ==
    /\ run.at = "idle"
    /\ \E inclusive \in BOOLEAN :
          run' = [Idle EXCEPT !.at = "reading", !.cursor = Since - 1, !.inclusive = inclusive]
    /\ steady' = Item /\ moved' = FALSE /\ raced' = FALSE
    /\ UNCHANGED <<clock, kind, history, changes>>

\* A commit that was read before has moved; an issue that was has not, unless
\* it has another time.
Repeated(items) ==
    \E i \in items \intersect DOMAIN run.seen : kind = "commits" \/ run.seen[i] # history[i]

Wanted(i) == Since <= history[i] /\ (kind # "commits" => (i \in Pulls) = (kind = "pulls"))

\* A mutant: it restarts at the last second it read, which the provider may exclude.
FollowingSecond(items) == history[items[Len(items)]]

\* Where to restart: after the last modification read, less one second.
Following(items) == history[items[Len(items)]] - 1

\* What follows this page: the end, when there is no other page or the rest is
\* of later windows; a restart, unless the page lies within two seconds.
Advance(items, more, late, read) ==
    LET restart == kind # "commits" /\ history[items[1]] < Following(items)
    IN  IF ~more \/ (kind # "commits" /\ late) THEN [read EXCEPT !.at = "done"]
        ELSE IF read.pages = MAX_PAGES THEN [read EXCEPT !.at = "failed"]
        ELSE IF restart THEN [read EXCEPT !.cursor = Following(items), !.number = 1]
        ELSE [read EXCEPT !.number = @ + 1]

ReadPage ==
    /\ run.at = "reading"
    /\ LET list == Listed(run.cursor, run.inclusive)
           page == Page(list, run.number)
           items == {page[k] : k \in 1..Len(page)}
           of == {i \in items : history[i] < Until}
           read == [run EXCEPT !.pages = @ + 1,
                               !.seen = [i \in of |-> history[i]] @@ @,
                               !.records = @ \union {i \in of \ DOMAIN run.seen : Wanted(i)}]
       IN  run' = IF Repeated(of) THEN [run EXCEPT !.at = "failed"]
                  ELSE Advance(page, Len(list) > run.number * PerPage, of # items, read)
    /\ raced' = (raced \/ (moved /\ run.number > 1))
    /\ moved' = FALSE
    /\ UNCHANGED <<clock, kind, history, steady, changes>>

Next ==
    \/ Tick
    \/ \E i \in Item : Update(i) \/ Erase(i)
    \/ \E i \in Item, date \in 0..MaxTime : Push(i, date)
    \/ Start
    \/ ReadPage

Spec == Init /\ [][Next]_vars

-----------------------------------------------------------------------------
(* What a run that succeeded promises.                                      *)

\* It printed everything of its window that did not change meanwhile.  Only
\* what left its place between two pages read by their numbers may hide another.
WindowIsComplete ==
    run.at = "done" /\ ~raced =>
        \A i \in steady : history[i] # None /\ Wanted(i) /\ history[i] < Until => i \in run.records

\* It printed nothing else that did not change.
WindowIsExact ==
    \A i \in run.records \intersect steady : Wanted(i) /\ history[i] < Until

\* A run fails for what changed, or for a history of too many pages.
FailuresHaveCause ==
    run.at = "failed" => steady # Item \/ run.pages = MAX_PAGES

\* The GitHub sensor (github-history.py: collect) prints its window or fails.
PagesMakeTheWindow == WindowIsComplete /\ WindowIsExact /\ FailuresHaveCause

=============================================================================
