------------------------------- MODULE Paging -------------------------------
(***************************************************************************)
(* Reading a long answer page by page (pages.py: _paged, brains, fitting;  *)
(* retrieve.py: _search, _tied, _exact_reply, _cut).  A page merges what   *)
(* the selected brains return up to its end and keeps what fits a reply;   *)
(* the reader asks for the next one at the offset the reply names.         *)
(***************************************************************************)
EXTENDS Integers, Sequences, FiniteSets, SequencesExt

CONSTANTS
    Lists,           \* what a brain may hold: ordered lists of [time, size]
    Texts,           \* texts, as lists of the bytes each character takes
    Break,           \* the size of a line end
    Limit, BUDGET,
    Room             \* what a first page and the later ones leave for text

Brain == {1, 2}

\* What the constants must satisfy; the instances assume it.
PagingAssumption ==
    /\ {Limit, BUDGET, Break} \subseteq Nat \ {0} /\ Room \subseteq Nat \ {0}
    /\ \A l \in Lists : \A i \in 2..Len(l) : l[i].time <= l[i - 1].time

VARIABLES
    kind,        \* "listing", "identity", "words" or "text"
    lists,       \* lists[b]: the matching items of brain b
    text,
    offset,      \* where the reader asks next, or Done
    seen,        \* what it read so far
    problems     \* a page came without a brain that could not be read

vars == <<kind, lists, text, offset, seen, problems>>

Done == 0 - 1

TypeOK ==
    /\ kind \in {"listing", "identity", "words", "text"}
    /\ lists \in [Brain -> Lists] /\ text \in Texts
    /\ offset >= Done /\ problems \in BOOLEAN

Init ==
    /\ \/ kind = "text" /\ text \in Texts /\ lists = [b \in Brain |-> <<>>]
       \/ kind \in {"listing", "identity", "words"} /\ lists \in [Brain -> Lists] /\ text = <<>>
    /\ offset = 0 /\ seen = <<>> /\ problems = FALSE

-----------------------------------------------------------------------------
(* Merging. *)

Row(b, i) == [brain |-> b, rank |-> i, time |-> lists[b][i].time, size |-> lists[b][i].size]
Rows(b, count) == {Row(b, i) : i \in 1..(IF Len(lists[b]) < count THEN Len(lists[b]) ELSE count)}

Later(r, s) == r.time > s.time
\* The whole order of a listing: newest first, then by address.
Before(r, s) == \/ Later(r, s)
                \/ r.time = s.time /\ (r.brain < s.brain \/ (r.brain = s.brain /\ r.rank < s.rank))
Merged(rows) == SetToSortSeq(rows, Before)

\* Words alternate by each brain's rank, one rank newest first.
Alternated(rows) ==
    LET ranks == {r.rank : r \in rows}
    IN  FlattenSeq([i \in 1..Cardinality(ranks) |-> SetToSortSeq({r \in rows : r.rank = i}, Before)])

Ordered(rows) == IF kind = "words" THEN Alternated(rows) ELSE Merged(rows)
From(list, skip, count) ==
    SubSeq(list, skip + 1, IF Len(list) < skip + count THEN Len(list) ELSE skip + count)

\* fitting: the leading items within the budget, at least one.
SizeOf(items) == FoldSeq(LAMBDA item, sum : item.size + sum, 0, items)
Fitting(items, budget) ==
    LET fits == {n \in 0..Len(items) : n <= 1 \/ SizeOf(SubSeq(items, 1, n)) <= budget}
    IN  SubSeq(items, 1, CHOOSE n \in fits : \A m \in fits : m <= n)

Continue(items, more) ==
    /\ seen' = seen \o items
    /\ offset' = IF more THEN offset + Len(items) ELSE Done

\* _paged: a brain read alone skips the offset itself; a summary takes part of
\* the budget.
Listing(up, reserved) ==
    LET skip == IF Cardinality(up) = 1 THEN offset ELSE 0
        rows == UNION {{r \in Rows(b, offset + Limit) : r.rank > skip} : b \in up}
        items == Fitting(From(Merged(rows), offset - skip, Limit), BUDGET - reserved)
        total == SizeOf([b \in 1..2 |-> [size |-> IF b \in up THEN Len(lists[b]) ELSE 0]])
    IN  Continue(items, offset + Len(items) < total)

\* A mutant: the item that tells of a next page is not asked for.
SearchExactly(up) ==
    LET rows == UNION {Rows(b, offset + Limit) : b \in up}
        window == From(Ordered(rows), offset, Limit)
        items == Fitting(window, BUDGET)
    IN  Continue(items, Len(items) < Len(window))

\* _search: one more item than the page tells whether it ends here.
Search(up) ==
    LET rows == UNION {Rows(b, offset + Limit + 1) : b \in up}
        window == From(Ordered(rows), offset, Limit + 1)
        items == Fitting(From(window, 0, Limit), BUDGET)
    IN  Continue(items, Len(items) < Len(window))

\* brains: one that cannot be read is a problem of the reply, unless it is all.
Page ==
    /\ kind # "text" /\ offset # Done
    /\ \E up \in SUBSET Brain \ {{}} :
        /\ \/ kind = "listing" /\ \E reserved \in 0..1 : Listing(up, reserved)
           \/ kind # "listing" /\ Search(up)
        /\ problems' = (problems \/ up # Brain)
    /\ UNCHANGED <<kind, lists, text>>

-----------------------------------------------------------------------------
(* One text. *)

\* The bytes of a serialized slice, its quotes included.
Serialized(start, end) == 2 + FoldSeq(+, 0, SubSeq(text, start + 1, end))

\* _cut: shrink the slice until it fits, then prefer a line end in its second
\* half.
Shrunk(start, room) ==
    LET shrink[end \in 0..Len(text)] ==
            LET size == Serialized(start, end)
                next == ((end - start) * room) \div size
            IN  IF end <= start + 1 \/ size <= room THEN end
                ELSE shrink[start + IF next < 1 THEN 1 ELSE next]
    IN  shrink[IF Len(text) < start + room THEN Len(text) ELSE start + room]

Cut(start, room) ==
    LET end == Shrunk(start, room)
        breaks == {i \in start + ((end - start) \div 2)..(end - 1) : text[i + 1] = Break}
    IN  IF end = Len(text) \/ breaks = {} THEN end
        ELSE 1 + CHOOSE i \in breaks : \A j \in breaks : j <= i

ReadText ==
    /\ kind = "text" /\ offset # Done /\ (offset > 0 => offset < Len(text))
    /\ \E room \in Room :
        LET end == Cut(offset, room)
        IN  /\ seen' = seen \o SubSeq(text, offset + 1, end)
            /\ offset' = IF end = Len(text) THEN Done ELSE end
    /\ UNCHANGED <<kind, lists, text, problems>>

Next == Page \/ ReadText

Spec == Init /\ [][Next]_vars

-----------------------------------------------------------------------------

\* A reader who follows the offsets reads everything once and in order: the
\* pages of several brains, cut by count, by budget and by each brain's own
\* window, make up the merged whole, and the slices of a text the text, each
\* of them advancing; only a page that reports a problem may break this.
Whole == IF kind = "text" THEN text ELSE Ordered(UNION {Rows(b, Len(lists[b])) : b \in Brain})
PagesAreTheWhole ==
    \/ problems
    \/ /\ IsPrefix(seen, Whole)
       /\ offset = IF seen = Whole /\ offset = Done THEN Done ELSE Len(seen)

=============================================================================
