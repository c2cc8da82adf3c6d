------------------------------- MODULE Answers -------------------------------
(***************************************************************************)
(* One answer of several brains (retrieve.py: read, _lookup, _holders,     *)
(* _read, _related, _export; pages.py: brains, absent, identity;           *)
(* records.py: find).  A read visits the selected brains one after the     *)
(* other while people, collections and other readers change files and      *)
(* caches; a brain that fails is a problem of the answer.                  *)
(*                                                                         *)
(* Per brain, of the one thing asked for: its own file, the items that     *)
(* hold it as an alias, an unreadable file of its source, and whether      *)
(* something links to it.  The name's expansion is in Links.               *)
(***************************************************************************)
EXTENDS Naturals, FiniteSets, Sequences

CONSTANTS
    Stores,      \* the selected brains, in order
    Kind,        \* what is asked: "note", "name", "source" or "export"
    Starts,      \* the first contents: brain -> contents
    MaxChanges, MaxFailures   \* bounds of the model

VARIABLES
    content,     \* brain -> what its files hold
    cache,       \* brain -> what its cache holds of them
    loads,       \* the brains whose bf.yaml loads
    read,        \* the read in progress
    held,        \* what held all along the read, and at some time of it
    budget       \* changes and failures so far

vars == <<content, cache, loads, read, held, budget>>

Brain == {Stores[k] : k \in 1..Len(Stores)}
Content == [file : {"none", "whole", "broken"}, owners : 0..2, bad : BOOLEAN, links : BOOLEAN]
Facts == Brain \X {"file", "owner", "bad", "link"}

AnswersAssumption ==
    /\ Kind \subseteq {"note", "name", "source", "export"}
    /\ Starts \subseteq [Brain -> Content] /\ MaxChanges \in Nat /\ MaxFailures \in Nat

\* What is true of the files now.
True(files) ==
    {fact \in Facts :
        LET c == files[fact[1]]
        IN  \/ fact[2] = "file" /\ c.file # "none"
            \/ fact[2] = "owner" /\ c.owners > 0
            \/ fact[2] = "bad" /\ c.bad
            \/ fact[2] = "link" /\ c.links}

Idle == [at |-> "idle", kind |-> "note", named |-> "", rel |-> FALSE, scope |-> <<>>, spans |-> <<>>,
         todo |-> <<>>, states |-> [b \in Brain |-> ""], aliases |-> 0, complete |-> FALSE,
         unopened |-> FALSE, found |-> {}, failed |-> {}, parts |-> {}, linking |-> {},
         strict |-> FALSE, problems |-> FALSE, answer |-> "none"]

Answer == {"none", "exact", "identity", "listing", "absent", "ambiguous", "error"}

TypeOK ==
    /\ content \in [Brain -> Content] /\ cache \in [Brain -> Content] /\ loads \subseteq Brain
    /\ read.at \in {"idle", "open", "find", "owner", "resolve", "gather", "answered"}
    /\ read.kind \in Kind \union {"note"} /\ read.aliases \in 0..2 /\ read.answer \in Answer
    /\ read.states \in [Brain -> {"", "ready", "stale"}]
    /\ UNION {read.found, read.failed, read.parts, read.linking} \subseteq Brain
    /\ held \in [all : SUBSET Facts, some : SUBSET Facts]
    /\ budget \in [changes : 0..MaxChanges, failures : 0..MaxFailures]

Init ==
    /\ content \in Starts /\ cache = content
    /\ loads = Brain
    /\ read = Idle /\ held = [all |-> {}, some |-> {}]
    /\ budget = [changes |-> 0, failures |-> 0]

-----------------------------------------------------------------------------
(* What happens beside a read.                                              *)

Changed(files, loading) ==
    /\ budget.changes < MaxChanges /\ budget' = [budget EXCEPT !.changes = @ + 1]
    /\ content' = files /\ loads' = loading
    /\ held' = IF read.at = "idle" THEN held
                ELSE [all |-> held.all \intersect True(files), some |-> held.some \union True(files)]
    /\ UNCHANGED <<cache, read>>

\* A file of the brain is written, removed or spoilt.
Edit(b) ==
    \E change \in {[content[b] EXCEPT !.file = f] : f \in {"none", "whole", "broken"}}
               \union {[content[b] EXCEPT !.owners = n] : n \in 0..2}
               \union {[content[b] EXCEPT !.bad = ~@], [content[b] EXCEPT !.links = ~@]} :
        change # content[b] /\ Changed([content EXCEPT ![b] = change], loads)

Configure(b) == Changed(content, IF b \in loads THEN loads \ {b} ELSE loads \union {b})

\* Another reader, or bf update, brings the cache up to date.
Refresh(b) ==
    /\ cache[b] # content[b] /\ cache' = [cache EXCEPT ![b] = content[b]]
    /\ UNCHANGED <<content, loads, read, held, budget>>

-----------------------------------------------------------------------------
(* Parts of a step.                                                         *)

Step(r) == read' = r /\ UNCHANGED <<content, loads, held>>

Quiet == UNCHANGED <<cache, budget>>

Fault == budget.failures < MaxFailures /\ budget' = [budget EXCEPT !.failures = @ + 1]

\* One connection of a brain's cache: the first of a read compares the files,
\* unless another process builds the cache for too long.
Opened(b, status) ==
    \/ /\ read.states[b] = "" /\ status = "ready"
       /\ cache' = [cache EXCEPT ![b] = content[b]] /\ UNCHANGED budget
    \/ read.states[b] = "" /\ status = "stale" /\ Fault /\ UNCHANGED cache
    \/ read.states[b] = status /\ Quiet

Following(r) == [r EXCEPT !.at = IF Len(r.todo) > 1 THEN (IF r.kind = "note" THEN "find" ELSE "open") ELSE "resolve",
                      !.todo = Tail(@), !.aliases = 0, !.complete = FALSE, !.unopened = FALSE]
Holds(b, r) == Following([r EXCEPT !.found = @ \union {b}])
Lacks(r) == Following(r)
Ended(r, answer) == [r EXCEPT !.at = "answered", !.answer = answer]
Failed(b, r) == IF Len(r.scope) = 1 THEN Ended(r, "error") ELSE Following([r EXCEPT !.failed = @ \union {b}])

GatherOf(r, strict) == [r EXCEPT !.at = "gather", !.todo = r.spans, !.strict = strict, !.parts = {}, !.linking = {}]

Missing(r) == Ended(r, IF r.problems THEN "error" ELSE "absent")

-----------------------------------------------------------------------------
(* The read.                                                                *)

\* Without the brains whose bf.yaml does not load, unless it is the only one.
Configured ==
    LET loading(b) == b \in loads
    IN  IF Len(Stores) = 1 THEN Stores ELSE SelectSeq(Stores, loading)

\* For an address the one brain it names.
Scope(spans, named) ==
    LET chosen(b) == named \in {"", b}
    IN  SelectSeq(spans, chosen)

Beginning(r) ==
    /\ read.at = "idle" /\ read' = r
    /\ held' = [all |-> True(content), some |-> True(content)]
    /\ UNCHANGED <<content, cache, loads, budget>>

Begin(kind, rel, named) ==
    /\ kind \in Kind \intersect {"note", "name"} /\ (rel => kind = "name")
    /\ LET scope == Scope(Configured, named)
           r == [Idle EXCEPT !.kind = kind, !.named = named, !.rel = rel, !.scope = scope, !.spans = Configured,
                             !.todo = scope, !.problems = Len(Configured) < Len(Stores)]
       IN  Beginning(IF named # "" /\ scope = <<>> THEN Ended(r, "error")
                     ELSE [r EXCEPT !.at = IF scope = <<>> THEN "resolve" ELSE IF kind = "note" THEN "find" ELSE "open"])

\* A source's records, or an export, of every brain.
List(kind) ==
    /\ kind \in Kind \intersect {"source", "export"}
    /\ Beginning(GatherOf([Idle EXCEPT !.kind = kind, !.spans = Stores], TRUE))

\* The cache names the holders of an alias, and whether a missing record file
\* proves absence.
OpenNames ==
    /\ read.at = "open"
    /\ LET b == Head(read.todo)
           named(status, c) ==
               [read EXCEPT !.at = "find", !.aliases = c.owners, !.states[b] = status,
                            !.complete = status = "ready" /\ ~c.bad /\ c.file # "broken"]
       IN  IF b \notin loads THEN Step(Failed(b, read)) /\ Quiet
           ELSE \E status \in {"ready", "stale"} : Opened(b, status) /\ Step(named(status, cache'[b]))

\* The record's own file still answers without a cache.
OpenNamesFails ==
    /\ read.at = "open" /\ Head(read.todo) \in loads
    /\ Fault /\ Step([read EXCEPT !.at = "find", !.unopened = TRUE]) /\ UNCHANGED cache

\* What the aliases say once no file of its own answered.
ByAlias(b, r) ==
    IF r.unopened \/ r.aliases > 1 THEN Failed(b, r)
    ELSE IF r.aliases = 1 THEN [r EXCEPT !.at = "owner"] ELSE Lacks(r)

\* The file of a note, or of a record under the reader lock: a missing record is
\* absent only in a cache that read the whole source, or after reading it.
FindFile ==
    /\ read.at = "find"
    /\ LET b == Head(read.todo)
           c == content[b]
           known == read.complete \/ read.aliases > 0
       IN  Step(IF b \notin loads \/ c.file = "broken" THEN Failed(b, read)
                ELSE IF c.file = "whole" THEN Holds(b, read)
                ELSE IF read.kind = "note" THEN Lacks(read)
                ELSE IF ~known /\ c.bad THEN Failed(b, read)
                ELSE ByAlias(b, read))
    /\ Quiet

\* A writer keeps the brain too long: its whole files may be changing.  Or it
\* left an interrupted change.
FindFileBusy ==
    /\ read.at = "find" /\ read.kind = "name" /\ Fault
    /\ LET b == Head(read.todo)
       IN  \/ content[b].file = "whole" /\ Step(Holds(b, [read EXCEPT !.problems = TRUE]))
           \/ content[b].file = "none" /\ read.aliases > 0 /\ Step(ByAlias(b, read))
           \/ Step(Failed(b, read))
    /\ UNCHANGED cache

\* The alias's holder, from its own file; it may have dropped the alias since.
ReadOwner ==
    /\ read.at = "owner"
    /\ LET b == Head(read.todo)
       IN  \/ Step(Holds(b, read))
           \/ content[b].owners = 0 /\ Step(Lacks(read))
    /\ Quiet

\* What the brains' own answers come to; the listing of a relation is of the
\* whole selection, and the context of an exact read too.
Resolved(r, found, lacking) ==
    Step(IF r.found = {} /\ r.failed # {} THEN Ended(r, "error")
         ELSE IF Cardinality(r.found) > 1 THEN Ended(r, "ambiguous")
         ELSE IF r.found # {} THEN found ELSE lacking)

Partly(r) == [r EXCEPT !.problems = @ \/ r.failed # {}]

Resolve ==
    /\ read.at = "resolve" /\ ~read.rel /\ Quiet
    /\ LET r == Partly(read)
       IN  Resolved(r, GatherOf([r EXCEPT !.answer = "exact"], FALSE),
                    IF r.kind = "name" THEN GatherOf(r, FALSE) ELSE Missing(r))

ResolveRelated ==
    /\ read.at = "resolve" /\ read.rel /\ Quiet
    /\ LET r == Partly(read)
       IN  Resolved(r, GatherOf([r EXCEPT !.answer = "exact"], TRUE), GatherOf(r, TRUE))

-----------------------------------------------------------------------------
(* One part of the answer per brain: the context of an exact read, what     *)
(* links to a name, a listing or an export.                                 *)

Gathered(b, r, c) ==
    [r EXCEPT !.todo = Tail(@), !.parts = @ \union {b},
              !.problems = @ \/ c.bad \/ c.file = "broken" \/ r.states[b] = "stale",
              !.linking = IF c.links THEN @ \union {b} ELSE @]

\* A mutant: a brain that fails is left out without a word.
UnansweredQuietly(r) ==
    IF r.strict /\ Len(r.spans) = 1 THEN Ended(r, "error")
    ELSE [r EXCEPT !.todo = Tail(@)]

Unanswered(r) ==
    IF r.strict /\ Len(r.spans) = 1 THEN Ended(r, "error")
    ELSE [r EXCEPT !.todo = Tail(@), !.problems = TRUE]

Gather ==
    /\ read.at = "gather" /\ read.todo # <<>>
    /\ LET b == Head(read.todo)
       IN  IF b \notin loads THEN Step(Unanswered(read)) /\ Quiet
           ELSE \E status \in {"ready", "stale"} :
                    Opened(b, status) /\ Step(Gathered(b, [read EXCEPT !.states[b] = status], cache'[b]))

GatherFails ==
    /\ read.at = "gather" /\ read.todo # <<>> /\ Head(read.todo) \in loads
    /\ Fault /\ Step(Unanswered(read)) /\ UNCHANGED cache

Complete(r) == read.at = "gather" /\ read.todo = <<>> /\ Quiet /\ Step(r)

Unread == read.strict /\ read.parts = {}

\* A name that nothing holds reads as its links.
AnswerName ==
    /\ read.kind \in {"note", "name"}
    /\ Complete(IF Unread THEN Ended(read, "error")
                ELSE IF read.answer = "exact" THEN Ended(read, "exact")
                ELSE IF read.linking # {} THEN Ended(read, "identity") ELSE Missing(read))

\* A source no brain knows is missing; an export may be empty.
AnswerListing ==
    /\ read.kind \in {"source", "export"}
    /\ Complete(IF Unread THEN Ended(read, "error")
                ELSE IF read.kind = "export" \/ read.linking # {} THEN Ended(read, "listing") ELSE Missing(read))

Finish ==
    /\ read.at = "answered" /\ read' = Idle /\ held' = [all |-> {}, some |-> {}]
    /\ UNCHANGED <<content, cache, loads, budget>>

Next ==
    \/ \E b \in Brain : Edit(b) \/ Configure(b) \/ Refresh(b)
    \/ \E kind \in Kind, rel \in BOOLEAN, named \in Brain \union {""} : Begin(kind, rel, named)
    \/ \E kind \in Kind : List(kind)
    \/ OpenNames \/ OpenNamesFails \/ FindFile \/ FindFileBusy \/ ReadOwner
    \/ Resolve \/ ResolveRelated \/ Gather \/ GatherFails \/ AnswerName \/ AnswerListing \/ Finish

Spec == Init /\ [][Next]_vars

-----------------------------------------------------------------------------
(* What an answer says.                                                     *)

\* The brains in which the thing may be: all, or the one an address names.
Wanted == IF read.named = "" THEN Brain ELSE {read.named}

Holders(facts) == {b \in Wanted : <<b, "file">> \in facts \/ (read.kind = "name" /\ <<b, "owner">> \in facts)}

\* A brain whose cache lagged while it was read.
Lagged == \E b \in Brain : read.states[b] = "stale"

\* Nothing that was there all along is answered as absent, whichever brain fails,
\* lags or changes meanwhile.
AbsenceIsTrue ==
    read.answer = "absent" =>
        IF read.kind = "source" THEN \A b \in Brain : <<b, "link">> \notin held.all
        ELSE /\ Holders(held.all) = {}
             /\ read.kind = "name" =>
                   /\ \A b \in Wanted : <<b, "bad">> \notin held.all
                   /\ \A b \in Brain : <<b, "link">> \notin held.all

\* An answer that names no problem is the only one: of the one brain that has
\* it, or with the part of every brain.
AnswersAreWhole ==
    /\ read.answer = "exact" /\ read.at = "answered" /\ ~read.problems =>
          \E b \in Holders(held.some) : read.found = {b} /\ Holders(held.all) \subseteq {b}
    /\ read.answer = "ambiguous" /\ ~Lagged => Cardinality(Holders(held.some)) > 1
    /\ read.answer \in {"identity", "listing"} /\ ~read.problems =>
          \A b \in Brain :
              /\ <<b, "link">> \in held.all => b \in read.linking
              /\ b \in read.linking => <<b, "link">> \in held.some
              /\ read.answer = "identity" => b \notin Holders(held.all)

\* An answer over several brains, some of them failing, lagging or changing while
\* it is gathered (retrieve.py: _lookup; pages.py: brains, absent): what is there
\* all along is never called absent, and an answer without problems misses no
\* brain's part.
AnswersAreTrue == AbsenceIsTrue /\ AnswersAreWhole

=============================================================================
