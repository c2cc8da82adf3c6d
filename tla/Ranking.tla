------------------------------- MODULE Ranking -------------------------------
(***************************************************************************)
(* What a search returns, in which order and over which pages (index.py:   *)
(* search, _lexical, _identity, known, unmatched; retrieve.py: _search).   *)
(* Each brain ranks the passages that match any word, keeps a note's best  *)
(* one and one row per copy of a URL; the brains' rows alternate by rank.  *)
(* A text that some brain knows as a name is answered by names and links   *)
(* alone.                                                                  *)
(***************************************************************************)
EXTENDS Integers, Sequences, FiniteSets, SequencesExt

CONSTANTS
    Brain,       \* numbers, in the order of the selection
    Evidence,    \* what the brains may hold: brain -> set of passages
    Asks,        \* sets of words a query may have
    Low,         \* sources of low priority, and assistants
    Attention,   \* sources whose collection fails, is late or silent
    Notes,       \* in place of a source: a note's passage
    NoUrl,
    ALSO, SECTIONS, Limit

VARIABLES
    evidence,    \* what the brains hold
    query,       \* its words, its name's shape, and whether its scope is narrow
    offset,      \* where the next page begins, or Done
    shown,       \* the rows read so far
    reply        \* what the last page says beside its rows

vars == <<evidence, query, offset, shown, reply>>

Done == 0 - 1

RankingAssumption ==
    /\ Brain \subseteq Nat /\ IsFiniteSet(Brain) /\ ALSO \in Nat /\ SECTIONS \in Nat /\ Limit \in Nat \ {0}
    /\ \A e \in Evidence : \A b \in Brain : \A p \in e[b] :
          /\ p.item \in Nat /\ p.fragment \in Nat /\ p.time \in Nat /\ p.score \in Nat \ {0}
          /\ p.holds \in {"ref", "name", "link", "none"}
          /\ p.source # Notes => p.fragment = 0
          /\ p.url # NoUrl => p.source # Notes
          /\ \A q \in e[b] : q.item = p.item => q.source = p.source /\ q.url = p.url /\ q.holds = p.holds
                                                 /\ q.closed = p.closed /\ q.inside = p.inside
                                                 /\ (q.fragment = p.fragment => q = p)

Query == [words : Asks, shaped : BOOLEAN, scoped : BOOLEAN]

TypeOK ==
    /\ evidence \in Evidence /\ query \in Query /\ offset >= Done
    /\ reply.unknown \in BOOLEAN /\ reply.unmatched \in SUBSET UNION Asks

Init ==
    /\ evidence \in Evidence /\ query \in Query /\ offset = 0 /\ shown = <<>>
    /\ reply = [identity |-> FALSE, unknown |-> FALSE, unmatched |-> {}, sources |-> {}, omitted |-> 0]

-----------------------------------------------------------------------------
(* One brain's rows for words.                                              *)

\* Its words are in its headings or text, or only in its context: its tags,
\* or the titles above a section.
Hits(p) == (p.words \union p.context) \intersect query.words

\* A section that matches through its context alone repeats its note.
Matches(b) ==
    {p \in evidence[b] :
        /\ Hits(p) # {} /\ (query.scoped => p.inside)
        /\ p.fragment = 0 \/ p.words \intersect query.words # {}}

\* Every further word adds to a fifth of the score in all.
Score(p) ==
    LET more == Cardinality(query.words) - 1
    IN  p.score * (IF p.source \in Low THEN 1 ELSE 2)
        * (IF more = 0 THEN 5 ELSE 5 * more + Cardinality(Hits(p)) - 1)

\* Deprecated notes last, then by score, the newest first.
Better(p, q) ==
    \/ ~p.closed /\ q.closed
    \/ /\ p.closed = q.closed
       /\ \/ Score(p) > Score(q)
          \/ /\ Score(p) = Score(q)
             /\ \/ p.time > q.time
                \/ p.time = q.time /\ (p.fragment < q.fragment \/ (p.fragment = q.fragment /\ p.item < q.item))

\* The passages of a note, or the records of a URL.
Copies(b, p) == {q \in Matches(b) : IF p.url = NoUrl THEN q.item = p.item ELSE q.url = p.url}

Lead(b, p) == CHOOSE q \in Copies(b, p) : \A r \in Copies(b, p) \ {q} : Better(q, r)

\* A mutant: one record for a URL.
TopOnePerUrl(b) == {p \in Matches(b) : p = Lead(b, p)}

\* A note's best passage, and the records of one source per URL.
Top(b) == {p \in Matches(b) : p = Lead(b, p) \/ (p.url # NoUrl /\ p.source = Lead(b, p).source)}

First(list, count) == SubSeq(list, 1, IF Len(list) < count THEN Len(list) ELSE count)

\* The other sources' records of the URL, named by its best one.
Also(b, p) ==
    LET others == {q.item : q \in {r \in Copies(b, p) : r.source # p.source}}
    IN  IF p.url = NoUrl \/ p # Lead(b, p) THEN <<>> ELSE First(SetToSortSeq(others, <), ALSO)

\* The note's next best sections.
Sections(b, p) ==
    IF p.url # NoUrl THEN <<>>
    ELSE LET next == SetToSortSeq({q \in Copies(b, p) \ {p} : q.fragment # 0}, Better)
         IN  First([k \in 1..Len(next) |-> next[k].fragment], SECTIONS)

Row(b, p, also, sections) ==
    [brain |-> b, item |-> p.item, fragment |-> p.fragment, time |-> p.time, also |-> also, sections |-> sections]

Lexical(b, bound) ==
    LET top == First(SetToSortSeq(Top(b), Better), bound)
    IN  [k \in 1..Len(top) |-> Row(b, top[k], Also(b, top[k]), Sections(b, top[k]))]

-----------------------------------------------------------------------------
(* One brain's rows for a name, whatever words it shares.                   *)

Rank(p) == CASE p.holds = "ref" -> 3 [] p.holds = "name" -> 2 [] p.holds = "link" -> 1 [] OTHER -> 0

\* Whatever the scope.
Known(b) == query.shaped /\ \E p \in evidence[b] : Rank(p) > 0

\* One passage for each item.
Named(b) == {p \in evidence[b] : Rank(p) > 0 /\ (query.scoped => p.inside)
                                 /\ \A q \in evidence[b] : q.item = p.item => p.fragment <= q.fragment}

NamedBefore(x, y) ==
    \/ Rank(x[2]) > Rank(y[2])
    \/ Rank(x[2]) = Rank(y[2]) /\ x[2].time > y[2].time
    \/ Rank(x[2]) = Rank(y[2]) /\ x[2].time = y[2].time /\ x[2].item > y[2].item
    \/ Rank(x[2]) = Rank(y[2]) /\ x[2].time = y[2].time /\ x[2].item = y[2].item /\ x[1] < y[1]

Identity(b, bound) == First(SetToSortSeq({<<b, p>> : p \in Named(b)}, NamedBefore), bound)

-----------------------------------------------------------------------------
(* The brains' rows together.                                               *)

Concat(lists) == FoldLeft(LAMBDA a, b : a \o b, <<>>, lists)

\* One rank of several brains, newest first, then by ref.
Tied(x, y) ==
    \/ x.time > y.time
    \/ x.time = y.time /\ (x.item < y.item \/ (x.item = y.item /\ x.brain < y.brain))

\* Scores of different brains are not comparable: alternate by rank.
Alternated(rows) ==
    LET most == CHOOSE n \in {Len(rows[b]) : b \in Brain} : \A b \in Brain : Len(rows[b]) <= n
    IN  Concat([k \in 1..most |-> SetToSortSeq({rows[b][k] : b \in {c \in Brain : k <= Len(rows[c])}}, Tied)])

\* A brain that does not know the name ranks nothing beside those that do.
MergedNames(bound) ==
    LET found == UNION {LET list == Identity(b, bound) IN {list[k] : k \in 1..Len(list)} : b \in {c \in Brain : Known(c)}}
        order == SetToSortSeq(found, NamedBefore)
    IN  [k \in 1..Len(order) |-> Row(order[k][1], order[k][2], <<>>, <<>>)]

IsIdentity == \E b \in Brain : Known(b)

Merged(bound) == IF IsIdentity THEN MergedNames(bound) ELSE Alternated([b \in Brain |-> Lexical(b, bound)])

\* Words that no brain holds anywhere.
Unmatched == {word \in query.words : \A b \in Brain : \A p \in evidence[b] : word \notin p.words \union p.context}

\* The sources searched, in each brain.
Searched == UNION {{<<b, p.source>> : p \in {q \in evidence[b] : q.source # Notes}} : b \in Brain}

\* Those of the page's records and those that need attention; all for an empty one.
Coverage(page) ==
    LET returned == {<<page[k].brain, (CHOOSE p \in evidence[page[k].brain] : p.item = page[k].item).source>> : k \in 1..Len(page)}
    IN  {entry \in Searched : page = <<>> \/ entry \in returned \/ entry[2] \in Attention}

\* No brain can place more than the window's end and one item.
Search ==
    /\ offset # Done
    /\ LET merged == Merged(offset + Limit + 1)
           window == SubSeq(merged, offset + 1, IF Len(merged) < offset + Limit + 1 THEN Len(merged) ELSE offset + Limit + 1)
           page == First(window, Limit)
       IN  /\ shown' = shown \o page
           /\ offset' = IF Len(page) < Len(window) THEN offset + Len(page) ELSE Done
           /\ reply' = [identity |-> IsIdentity, unknown |-> query.shaped /\ ~IsIdentity,
                        unmatched |-> IF IsIdentity THEN {} ELSE Unmatched,
                        sources |-> Coverage(page), omitted |-> Cardinality(Searched \ Coverage(page))]
    /\ UNCHANGED <<evidence, query>>

Next == Search

Spec == Init /\ [][Next]_vars

-----------------------------------------------------------------------------
(* What the pages hold together.                                            *)

Shown == {shown[k] : k \in 1..Len(shown)}

\* The items that a search by words must give, in a brain: those of which a
\* passage holds a word itself, or the whole of which has it in its context.
Wanted(b) ==
    {p.item : p \in {q \in evidence[b] :
        /\ query.scoped => q.inside
        /\ \/ q.words \intersect query.words # {}
           \/ q.fragment = 0 /\ q.context \intersect query.words # {}}}

Of(b, item) == CHOOSE p \in evidence[b] : p.item = item

\* How often an item is named, by a row of its own or as a copy.
Own(b, item) == Cardinality({k \in 1..Len(shown) : shown[k].brain = b /\ shown[k].item = item})
Copied(b, item) ==
    Cardinality({k \in 1..Len(shown) : shown[k].brain = b /\ \E i \in 1..Len(shown[k].also) : shown[k].also[i] = item})

\* Each match is read once, by itself or as a copy of its URL, unless the URL
\* has more copies than a row names; nothing else is.
EveryMatchOnce ==
    \A b \in Brain :
        /\ \A item \in Wanted(b) :
              \/ Own(b, item) + Copied(b, item) = 1
              \/ /\ Own(b, item) + Copied(b, item) = 0 /\ Of(b, item).url # NoUrl
                 /\ \E r \in Shown : r.brain = b /\ Len(r.also) = ALSO /\ Of(b, r.item).url = Of(b, item).url
        /\ \A r \in Shown : r.brain = b =>
              /\ r.item \in Wanted(b) /\ \A i \in 1..Len(r.also) : r.also[i] \in Wanted(b)
              /\ \A i \in 1..Len(r.sections) : r.sections[i] # r.fragment

\* Within a brain no deprecated item precedes one in use, and one source's
\* records of a URL are never the copies of another's deprecated one.
ClosedLast ==
    \A i, j \in 1..Len(shown) :
        i < j /\ shown[i].brain = shown[j].brain /\ Of(shown[i].brain, shown[i].item).closed
            => Of(shown[j].brain, shown[j].item).closed

\* The answer to a known name holds all that bears or links to it and nothing
\* that merely shares its words; its owners come first.
NamesAlone ==
    /\ \A b \in Brain : \A p \in evidence[b] :
          p.holds # "none" /\ (query.scoped => p.inside) => Own(b, p.item) = 1
    /\ \A r \in Shown : Of(r.brain, r.item).holds # "none"
    /\ \A i, j \in 1..Len(shown) :
          i < j /\ Of(shown[i].brain, shown[i].item).holds = "link" => Of(shown[j].brain, shown[j].item).holds = "link"

\* The pages of a search, together (index.py: _lexical, retrieve.py: _search):
\* every match once whatever the page size, deprecated notes last, and a known
\* name is answered by its owners and links alone; a source in trouble is named
\* whatever ranks, and an empty answer means that no passage holds a word.
SearchIsWhole ==
    offset = Done =>
        /\ reply.identity = (query.shaped /\ \E b \in Brain : \E p \in evidence[b] : p.holds # "none")
        /\ IF reply.identity THEN NamesAlone ELSE EveryMatchOnce /\ ClosedLast
        /\ \A b \in Brain : \A p \in evidence[b] :
              p.source # Notes /\ (shown = <<>> \/ p.source \in Attention) => <<b, p.source>> \in reply.sources
        /\ ~reply.identity /\ shown = <<>> /\ ~query.scoped =>
              \A b \in Brain : \A p \in evidence[b] :
                  /\ p.words \intersect query.words = {}
                  /\ p.fragment = 0 => p.context \intersect query.words = {}

=============================================================================
