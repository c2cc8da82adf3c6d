------------------------------ MODULE Timeline ------------------------------
(***************************************************************************)
(* The pages of a time line (pages.py: period, timeline, memories, home;   *)
(* index.py: TIME, PERIOD_WITHIN, MODIFIED, activity): days, months and    *)
(* ranges of days in local time, whose previous and next links a reader    *)
(* follows while collections replace records, and the scopes that search   *)
(* takes in their place.                                                   *)
(***************************************************************************)
EXTENDS Integers, FiniteSets

CONSTANTS
    Item,          \* refs of notes and records
    Contents,      \* what a note or record may be
    LastDay,
    Midnight,      \* day -> the first instant of it; days differ in length
    Month,         \* day -> its month
    Span,          \* days of a range
    Hour,          \* instants of a trailing window
    Source, Low, Folder, Tag,
    MaxChanges     \* bound of the model

VARIABLES
    now,
    items,         \* item -> its contents
    walk,          \* the page a reader is about to read, or "done"
    seen,          \* item -> how often it was listed
    counted,       \* source -> its share of the pages read
    changes        \* items changed since the walk began

vars == <<now, items, walk, seen, counted, changes>>

None == 0 - 1
Any == "any"
Days == 0..LastDay
End == Midnight[LastDay + 1]

TimelineAssumption ==
    /\ IsFiniteSet(Item) /\ LastDay \in Nat
    /\ Midnight \in [0..(LastDay + 1) -> Nat] /\ Midnight[0] = 0
    /\ \A d \in Days : Midnight[d] + 1 < Midnight[d + 1]
    /\ Month \in [Days -> Nat]
    /\ \A d \in Days \ {0} : Month[d] \in {Month[d - 1], Month[d - 1] + 1}
    /\ Span \in 1..LastDay /\ (LastDay + 1) % Span = 0 /\ Hour \in Nat \ {0}
    /\ Low \subseteq Source /\ Source \intersect Folder = {} /\ Any \notin Source \union Folder \union Tag
    /\ \A c \in Contents :
          /\ c.kind \in {"note", "record"}
          /\ c.kind = "note" => c.date \in Days \union {None} /\ c.place \in Folder
          /\ c.kind = "record" => /\ c.place \in Source /\ c.updated \in Nat \union {None}
                                  /\ c.observed \in 0..(End - 1) /\ c.time \in 0..(End - 1) \union {None}
    /\ MaxChanges \in Nat

-----------------------------------------------------------------------------
(* Periods: first and last day, and the windows they are.                   *)

Window(p) == [since |-> Midnight[p.first], until |-> Midnight[p.last + 1]]

\* A window of so many hours, days or weeks that ends now has no neighbours.
Trailing == [since |-> now - Hour, until |-> now]

FirstOf(d) == CHOOSE e \in Days : Month[e] = Month[d] /\ \A f \in Days : Month[f] = Month[d] => e <= f
LastOf(d) == CHOOSE e \in Days : Month[e] = Month[d] /\ \A f \in Days : Month[f] = Month[d] => f <= e

DayPage(d) == [kind |-> "day", first |-> d, last |-> d]
RangePage(d, n) == [kind |-> "range", first |-> d, last |-> d + n - 1]
MonthPage(d) == [kind |-> "month", first |-> FirstOf(d), last |-> LastOf(d)]

Length(p) == p.last - p.first + 1

Following(p) ==
    CASE p.kind = "day" -> DayPage(p.last + 1)
      [] p.kind = "range" -> RangePage(p.last + 1, Length(p))
      [] p.kind = "month" -> MonthPage(p.last + 1)

Previous(p) ==
    CASE p.kind = "day" -> DayPage(p.first - 1)
      [] p.kind = "range" -> RangePage(p.first - Length(p), Length(p))
      [] p.kind = "month" -> MonthPage(p.first - 1)

Today == CHOOSE d \in Days : Midnight[d] <= now /\ now < Midnight[d + 1]

-----------------------------------------------------------------------------
(* Where an item falls.                                                     *)

Dated(d) == IF d = None THEN None ELSE Midnight[d]
Or(instant, other) == IF instant = None THEN other ELSE instant

\* The time of an event, its place in periods, and its last change.
Time(i) == IF items[i].kind = "note" THEN Dated(items[i].date) ELSE items[i].time
PeriodTime(i) ==
    IF items[i].kind = "note" THEN Dated(items[i].date) ELSE Or(items[i].time, items[i].observed)
Updated(i) ==
    IF items[i].kind = "note" THEN Dated(items[i].date) ELSE Or(items[i].updated, items[i].time)

In(instant, window) == instant # None /\ window.since <= instant /\ instant < window.until

Within(i, window) == In(Time(i), window)
\* A mutant: only what has a time of its own falls in a period.
PeriodWithinDated(i, window) == Within(i, window)

PeriodWithin(i, window) ==
    \/ Within(i, window)
    \/ /\ items[i].kind = "record" /\ items[i].time = None
       /\ In(items[i].observed, window)
Modified(i, window) == In(Updated(i), window)

\* Records of low-priority sources are only counted.
Loud(i) == ~(items[i].kind = "record" /\ items[i].place \in Low)

Listed(window) == {i \in Item : PeriodWithin(i, window) /\ Loud(i)}
Changed(window) == {i \in Item : Modified(i, window) /\ ~PeriodWithin(i, window) /\ Loud(i)}
OfSource(s) == {i \in Item : items[i].kind = "record" /\ items[i].place = s}
Activity(s, window) == Cardinality({i \in OfSource(s) : PeriodWithin(i, window)})

\* Home: what happened in the last day, and what comes in as long a time.
Upcoming == {i \in Item : Within(i, [since |-> now, until |-> now + Hour]) /\ Loud(i)}

\* A source's page, its pages of a period and its undated records; a folder of
\* notes; the notes with a tag.
SourcePage(s) == OfSource(s)
SourcePeriod(s, window) == {i \in OfSource(s) : PeriodWithin(i, window)}
SourceUndated(s) == {i \in OfSource(s) : items[i].time = None}
FolderPage(f) == {i \in Item : items[i].kind = "note" /\ items[i].place = f}
TagPage(t) == {i \in Item : items[i].kind = "note" /\ t \in items[i].tags}

-----------------------------------------------------------------------------
(* Scopes of a search: what a page's ref bounds it to (_scope, _FILTERS).   *)

Anywhere == [place |-> Any, since |-> None, until |-> None, undated |-> FALSE, tag |-> Any]

PeriodScope(window) == [Anywhere EXCEPT !.since = window.since, !.until = window.until]
PlaceScope(place) == [Anywhere EXCEPT !.place = place]
TagScope(t) == [Anywhere EXCEPT !.tag = t]
UndatedScope(s) == [Anywhere EXCEPT !.place = s, !.undated = TRUE]

\* A period, a space and another scope, which has no period of its own.
Combined(window, scope) == [scope EXCEPT !.since = window.since, !.until = window.until]

Filtered(scope) ==
    {i \in Item :
        /\ scope.since # None => PeriodTime(i) # None /\ PeriodTime(i) >= scope.since
        /\ scope.until # None => PeriodTime(i) # None /\ PeriodTime(i) < scope.until
        /\ scope.undated => Time(i) = None
        /\ scope.place # Any => items[i].place = scope.place
        /\ scope.tag # Any => items[i].kind = "note" /\ scope.tag \in items[i].tags}

-----------------------------------------------------------------------------

NoWalk == [kind |-> "none", first |-> 0, last |-> 0]
Done == [NoWalk EXCEPT !.kind = "done"]

Init ==
    /\ now \in {Midnight[d] + 1 : d \in Days}
    /\ items \in [Item -> Contents]
    /\ walk = NoWalk
    /\ seen = [i \in Item |-> 0] /\ counted = [s \in Source |-> 0] /\ changes = {}

Open(p) ==
    /\ walk = NoWalk /\ walk' = p
    /\ UNCHANGED <<now, items, seen, counted, changes>>

\* Read a page, and follow its link to the next one, up to the last day.
Turn ==
    /\ walk \notin {NoWalk, Done}
    /\ seen' = [i \in Item |-> seen[i] + IF i \in Listed(Window(walk)) THEN 1 ELSE 0]
    /\ counted' = [s \in Source |-> counted[s] + Activity(s, Window(walk))]
    /\ walk' = IF walk.last = LastDay THEN Done ELSE Following(walk)
    /\ UNCHANGED <<now, items, changes>>

\* A collection replaces a record, or a person edits a note.
Replace(i, contents) ==
    /\ Cardinality(changes) < MaxChanges
    /\ walk \notin {NoWalk, Done} /\ items[i].kind = contents.kind
    /\ items' = [items EXCEPT ![i] = contents]
    /\ changes' = changes \union {i}
    /\ UNCHANGED <<now, walk, seen, counted>>

Next ==
    \/ \E p \in {DayPage(0), RangePage(0, Span), MonthPage(0)} : Open(p)
    \/ Turn
    \/ \E i \in Item, contents \in Contents : Replace(i, contents)

Spec == Init /\ [][Next]_vars

-----------------------------------------------------------------------------

TypeOK ==
    /\ now \in 0..End /\ items \in [Item -> Contents]
    /\ walk.kind \in {"none", "done", "day", "range", "month"}
    /\ {walk.first, walk.last} \subseteq Days
    /\ seen \in [Item -> Nat] /\ counted \in [Source -> Nat] /\ changes \subseteq Item

Walking == walk \notin {NoWalk, Done}

(* A reader who follows the links to the next page reads each item that keeps *)
(* its date once, in its own period, and every record of a low-priority       *)
(* source only in its source's count; each page begins where the one before   *)
(* it ends.                                                                   *)
PeriodsTile ==
    /\ walk = Done =>
          /\ \A i \in Item \ changes :
                seen[i] = IF PeriodTime(i) # None /\ Loud(i) THEN 1 ELSE 0
          /\ changes = {} => \A s \in Source : counted[s] = Cardinality(OfSource(s))
    /\ Walking /\ walk.first > 0 =>
          /\ Window(Previous(walk)).until = Window(walk).since
          /\ Following(Previous(walk)) = walk

(* What a page says changed in its period is not among what it says happened  *)
(* in it, and nothing has both happened before now and is yet to come.        *)
SectionsAreApart ==
    /\ Walking => Changed(Window(walk)) \intersect Listed(Window(walk)) = {}
    /\ Listed(Trailing) \intersect Upcoming = {}
    /\ \A i \in Item : In(Time(i), [since |-> now - Hour, until |-> now + Hour]) /\ Loud(i) =>
          i \in Listed(Trailing) \union Upcoming

(* A search scoped by a page's ref searches what the page lists, and the      *)
(* low-priority records that a period page only counts.                       *)
ScopesAreThePages ==
    LET windows == {Trailing, Window(DayPage(Today))} \union {Window(p) : p \in IF Walking THEN {walk} ELSE {}}
    IN  /\ \A w \in windows :
              /\ Filtered(PeriodScope(w)) =
                    Listed(w) \union {i \in Item : PeriodWithin(i, w) /\ ~Loud(i)}
              /\ \A s \in Source : Filtered(Combined(w, PlaceScope(s))) = SourcePeriod(s, w)
        /\ \A s \in Source :
              /\ Filtered(PlaceScope(s)) = SourcePage(s)
              /\ Filtered(UndatedScope(s)) = SourceUndated(s)
        /\ \A f \in Folder : Filtered(PlaceScope(f)) = FolderPage(f)
        /\ \A t \in Tag : Filtered(TagScope(t)) = TagPage(t)

PagesAreRight == PeriodsTile /\ SectionsAreApart /\ ScopesAreThePages

=============================================================================
