-------------------------------- MODULE Links --------------------------------
(***************************************************************************)
(* Names, links and backlinks across the selected brains (graph.py,        *)
(* links.py, ontology.py, and the queries of index.py): a read expands an  *)
(* identity to the other names of its one owner, in two passes over the    *)
(* brains' caches while people edit their files, and then gathers what     *)
(* links to any of these names and what is claimed about them.             *)
(*                                                                         *)
(* A name is <<brain, path>>, a BF address, or <<Bare, path>>: the ref of  *)
(* a note or record, or an identity of another scheme.                     *)
(***************************************************************************)
EXTENDS Naturals, FiniteSets, Sequences

CONSTANTS
    Stores,      \* the selected brains, in order
    Note,        \* paths of notes
    Record,      \* the source:id of records
    Subject,     \* paths in a brain's namespace of no file
    External,    \* identities of other schemes
    Bare,        \* in place of a brain: no BF address
    Declared,    \* the relations bf.yaml declares, and cites
    Untyped,     \* the relation of a link that names none
    Contents,    \* what an edit may leave in a file: its names and links
    Nothing,     \* no such file
    Starts,      \* the first contents: brain -> item -> contents
    MaxEdits, MaxFailures   \* bounds of the model

VARIABLES
    files,       \* brain -> item -> its contents, or Nothing
    read,        \* the read in progress, of one name
    held,        \* <<brain, item, name>> that held all along the read, or at some time of it
    bounds       \* edits and failures so far, and whether a file was edited during the read

vars == <<files, read, held, bounds>>

Brain == {Stores[k] : k \in 1..Len(Stores)}
Item == Note \union Record
Name == (Brain \X (Item \union Subject)) \union ({Bare} \X (Item \union External))
Link == [relation : Declared \union {Untyped, "undeclared"}, target : Name,
         section : BOOLEAN, part : BOOLEAN]

NoName == <<Bare, "">>

\* What a file may state and a reader ask for: an address, a record, or another
\* identity, but no path of a note alone.
Identity == {name \in Name : name[1] = Bare => name[2] \notin Note}

LinksAssumption ==
    /\ Stores \in Seq(Brain) /\ Note \intersect Record = {} /\ Bare \notin Brain
    /\ IsFiniteSet(Item) /\ (Subject \union External) \intersect Item = {} /\ Subject \intersect External = {}
    /\ Untyped \notin Declared /\ "undeclared" \notin Declared /\ Nothing \notin Contents
    /\ \A content \in Contents :
          /\ content.entity \in Identity \union {NoName} /\ content.aliases \subseteq Identity
          /\ content.links \subseteq {link \in Link : link.section =>
                                         link.target[1] # Bare \/ link.target[2] \in Note}
    /\ Starts \subseteq [Brain -> [Item -> Contents \union {Nothing}]]
    /\ MaxEdits \in Nat /\ MaxFailures \in Nat

-----------------------------------------------------------------------------
(* What the cache of a brain holds of its files.                            *)

Address(b, item) == <<b, item>>
Ref(item) == <<Bare, item>>

\* The names a file states beside its own address.
Stated(content) == (content.aliases \union {content.entity}) \ {NoName}

\* A BF name is one of its own brain's namespace and of no other file; without
\* that the file is left out of the cache.
Reachable(b, content) ==
    \A name \in Stated(content) : name[1] # Bare => name[1] = b /\ name[2] \in Subject

Indexed(b) == {item \in Item : files[b][item] # Nothing /\ Reachable(b, files[b][item])}

Names(b, item) == {Address(b, item)} \union Stated(files[b][item])

\* The items with that name or ref.
Owners(b, name) == {item \in Indexed(b) : name \in Names(b, item) \union {Ref(item)}}

\* Names that exactly one other item, or none, holds.
Shared(b, name, item) == Owners(b, name) \ {item} # {}

\* Whom an item's claims are about.
About(b, item) ==
    IF files[b][item].entity # NoName THEN files[b][item].entity ELSE Address(b, item)

\* A relation bf.yaml does not declare is kept as an untyped link.
Claims(b, item) ==
    {[link EXCEPT !.relation = IF @ \in Declared THEN @ ELSE Untyped] : link \in files[b][item].links}

-----------------------------------------------------------------------------
(* The queries of one cache.                                                *)

\* The names whose sections a link may name instead: BF addresses and notes.
Sections(names) == {name \in names : name[1] # Bare \/ name[2] \in Note}

Reaches(link, names) == link.target \in IF link.section THEN Sections(names) ELSE names

\* The names, and the refs of items that alone hold one of the brain's own.
Local(b, names) ==
    names \union {Ref(item) : item \in {i \in Indexed(b) :
        \E name \in names :
            name[1] = b /\ {other \in Indexed(b) : name \in Names(b, other)} = {i}}}

Typed(b, names) ==
    UNION {{<<item, link.relation>> :
               link \in {l \in Claims(b, item) : l.relation # Untyped /\ Reaches(l, names)}} :
           item \in Indexed(b)}

\* Each item with the relations it links through, Untyped when there is none.
Incoming(b, names) ==
    Typed(b, names) \union
    {<<item, Untyped>> : item \in {i \in Indexed(b) :
        (\E link \in Claims(b, i) : Reaches(link, names)) /\ \A pair \in Typed(b, names) : pair[1] # i}}

\* Why an item is a backlink; an untyped link beside a typed one repeats it.
Explanations(b, item, names) ==
    {link \in Claims(b, item) :
        /\ Reaches(link, names)
        /\ link.relation = Untyped =>
              ~\E other \in Claims(b, item) :
                  other.relation # Untyped /\ [other EXCEPT !.relation = Untyped] = link}

\* What is claimed about the names, with the item that claims it.
Outgoing(b, names) ==
    UNION {{<<item, link>> : link \in {l \in Claims(b, item) : l.relation # Untyped}} :
           item \in {i \in Indexed(b) : About(b, i) \in names}}

\* The one local item a claim's target names, if any; sections are of notes.
Followed(b, link) ==
    LET owners == Owners(b, link.target)
    IN  {item \in owners : owners = {item} /\ (link.section => item \in Note)}

\* The items whose news a note's review counts: those that link to it, and the
\* records it links to.
Counted(b, note) ==
    LET own == {name \in Names(b, note) \union {Ref(note)} : ~Shared(b, name, note)}
        named(link, record) ==
            /\ ~link.section
            /\ \/ link.target = Ref(record)
               \/ link.target \in Names(b, record) /\ ~Shared(b, link.target, record)
    IN  {item \in Indexed(b) \ {note} :
            \/ \E link \in Claims(b, item) : Reaches(link, own)
            \/ item \in Record /\ \E link \in Claims(b, note) : named(link, item)}

\* What an exact read of a name opens in a brain: the file itself, or what the
\* cache resolves a name of no file to; several holders are an error.
Opened(b, name) ==
    IF name[1] \notin {Bare, b} THEN {}
    ELSE IF name[2] \in Item /\ files[b][name[2]] # Nothing THEN {name[2]}
    ELSE IF name[1] = b /\ name[2] \in Item THEN {}
    ELSE {item \in Indexed(b) : name \in Names(b, item)}

-----------------------------------------------------------------------------
(* The expansion of a name, one brain's cache at a time.                    *)

Idle == [at |-> "idle", name |-> NoName, todo |-> <<>>, failed |-> {}, matches |-> {},
         shared |-> {}, bare |-> FALSE, problems |-> FALSE, names |-> {}]

Holding ==
    UNION {UNION {{<<b, item, name>> : name \in Names(b, item) \union {Ref(item)}} : item \in Indexed(b)} :
           b \in Brain}

Init ==
    /\ files \in Starts
    /\ read = Idle
    /\ held = [always |-> {}, ever |-> {}]
    /\ bounds = [edits |-> 0, failures |-> 0, edited |-> FALSE]

Ask(name) ==
    /\ read.at = "idle"
    /\ read' = [Idle EXCEPT !.at = "match", !.name = name, !.todo = Stores]
    /\ held' = [always |-> Holding, ever |-> Holding]
    /\ bounds' = [bounds EXCEPT !.edited = FALSE]
    /\ UNCHANGED files

\* The first pass: who holds the name.  Only its own brain resolves an address.
Match ==
    /\ read.at = "match" /\ read.todo # <<>>
    /\ LET b == Head(read.todo)
           found == IF read.name[1] \in {Bare, b} THEN Owners(b, read.name) ELSE {}
       IN  read' = [read EXCEPT !.todo = Tail(@),
                       !.matches = @ \union {[brain |-> b, item |-> i, names |-> Names(b, i)] : i \in found}]
    /\ UNCHANGED <<files, held, bounds>>

\* One owner: look whether others hold its names.  Several: it stands for none.
Matched ==
    /\ read.at = "match" /\ read.todo = <<>>
    /\ read' = IF Cardinality(read.matches) = 1
               THEN [read EXCEPT !.at = "probe", !.todo = Stores,
                        !.bare = \A match \in read.matches : match.item \in Record]
               ELSE [read EXCEPT !.at = "done", !.names = {read.name},
                        !.problems = @ \/ read.matches # {}]
    /\ UNCHANGED <<files, held, bounds>>

Owner == CHOOSE match \in read.matches : TRUE

\* The names of the owner that the brain may share; another brain's name in the
\* owner's namespace is ignored.
Candidates(b) ==
    {name \in Owner.names \ {read.name} : b = Owner.brain \/ name[1] # Owner.brain}

\* A mutant: the other items of the owner's own brain are not asked.
ElsewhereOutside(b, name) == b # Owner.brain /\ Owners(b, name) # {}

\* Whether another item than the owner holds the name.
Elsewhere(b, name) ==
    \E item \in Owners(b, name) : b # Owner.brain \/ item # Owner.item

\* The second pass, of a snapshot of its own; a record's ref held elsewhere is
\* each brain's own copy.
Probe ==
    /\ read.at = "probe" /\ read.todo # <<>>
    /\ LET b == Head(read.todo)
           ref == Ref(Owner.item)
       IN  read' = IF b \in read.failed
                   THEN [read EXCEPT !.todo = Tail(@), !.bare = FALSE]
                   ELSE [read EXCEPT !.todo = Tail(@),
                            !.shared = @ \union {name \in Candidates(b) : Elsewhere(b, name)},
                            !.bare = @ /\ (ref = read.name \/ ~Elsewhere(b, ref))]
    /\ UNCHANGED <<files, held, bounds>>

Expand ==
    /\ read.at = "probe" /\ read.todo = <<>>
    /\ read' = [read EXCEPT !.at = "done", !.problems = @ \/ read.shared # {},
                   !.names = {read.name} \union (Owner.names \ read.shared)
                             \union IF read.bare THEN {Ref(Owner.item)} ELSE {}]
    /\ UNCHANGED <<files, held, bounds>>

\* A brain whose bf.yaml or cache does not load: a problem of the reply.
Fail ==
    /\ read.at \in {"match", "probe"} /\ read.todo # <<>> /\ bounds.failures < MaxFailures
    /\ read' = [read EXCEPT !.todo = Tail(@), !.problems = TRUE,
                   !.failed = IF read.at = "match" THEN @ \union {Head(read.todo)} ELSE @,
                   !.bare = FALSE]
    /\ bounds' = [bounds EXCEPT !.failures = @ + 1]
    /\ UNCHANGED <<files, held>>

\* A person writes, moves or removes a file, which the next query sees.
Edit(b, item, content) ==
    /\ read.at # "done" /\ bounds.edits < MaxEdits /\ files[b][item] # content
    /\ files' = [files EXCEPT ![b][item] = content]
    /\ bounds' = [bounds EXCEPT !.edits = @ + 1, !.edited = TRUE]
    /\ held' = [always |-> held.always \intersect Holding', ever |-> held.ever \union Holding']
    /\ UNCHANGED read

Next ==
    \/ \E name \in Identity : Ask(name)
    \/ Match \/ Matched \/ Probe \/ Expand \/ Fail
    \/ \E b \in Brain, item \in Item, content \in Contents \union {Nothing} : Edit(b, item, content)

Spec == Init /\ [][Next]_vars

-----------------------------------------------------------------------------

TypeOK ==
    /\ files \in [Brain -> [Item -> Contents \union {Nothing}]]
    /\ read.at \in {"idle", "match", "probe", "done"}
    /\ read.names \subseteq Name /\ read.shared \subseteq Name /\ read.failed \subseteq Brain
    /\ held.always \subseteq held.ever
    /\ bounds.edits \in 0..MaxEdits /\ bounds.failures \in 0..MaxFailures

Answered == read.at = "done"
Complete == Answered /\ ~read.problems
Quiet == Answered /\ ~bounds.edited

(* A name that another item held all along is never read as its owner's, and  *)
(* one that only the owner ever held always is, whatever is edited meanwhile; *)
(* only a brain that failed, which the reply reports, may hide another owner  *)
(* (graph.expand).                                                            *)
NamesNeverMerge ==
    Answered /\ Cardinality(read.matches) = 1 =>
        /\ \A name \in read.names \ {read.name} :
              ~\E claim \in held.always :
                  /\ claim[3] = name
                  /\ claim[1] # Owner.brain \/ claim[2] # Owner.item
                  /\ name[1] \in {Bare, claim[1]}
                  /\ bounds.failures = 0
        /\ \A claim \in held.always :
              (/\ claim[1] = Owner.brain /\ claim[2] = Owner.item
               /\ claim[3] # Ref(claim[2])
               /\ \A other \in held.ever :
                     other[3] = claim[3] => other[1] = claim[1] /\ other[2] = claim[2])
              => claim[3] \in read.names

(* Each name of an answer without problems opens the one owner, and nothing   *)
(* in another brain, unless a file the cache leaves out stands at the name.   *)
NamesOpenTheirOwner ==
    Complete /\ Quiet /\ Cardinality(read.matches) = 1 =>
        \A name \in read.names, b \in Brain :
            Opened(b, name) \subseteq Indexed(b) =>
                Opened(b, name) = {item \in Item : b = Owner.brain /\ item = Owner.item}

(* What is listed as a backlink is explained by a claim of that relation, a   *)
(* reader who follows a claim to an item finds the claimant among the item's  *)
(* backlinks, and a note's review counts every backlink that names it alone.  *)
BacklinksAgree ==
    Complete /\ Quiet =>
        \A b \in Brain :
            LET names == Local(b, read.names) IN
            /\ \A pair \in Incoming(b, names) :
                  \E link \in Explanations(b, pair[1], names) : link.relation = pair[2]
            /\ \A match \in read.matches : match.brain = b =>
                  /\ \A pair \in Outgoing(b, {About(b, item) : item \in Indexed(b)}) :
                        match.item \in Followed(b, pair[2]) =>
                            <<pair[1], pair[2].relation>> \in Incoming(b, names)
                  /\ match.item \in Note =>
                        \A pair \in Incoming(b, names) :
                            pair[1] # match.item => pair[1] \in Counted(b, match.item)

LinksAreRight == NamesNeverMerge /\ NamesOpenTheirOwner /\ BacklinksAgree

=============================================================================
