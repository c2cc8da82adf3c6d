----------------------------- MODULE SearchCache -----------------------------
(***************************************************************************)
(* The search cache of index.py: replies check that the live generation    *)
(* matches the brain (fresh), refresh it in place, or build another one    *)
(* beside it without the writer lock and rename it over the live one while *)
(* collections commit and bf.yaml changes.  The locks are storage.writer,  *)
(* reader, building and generation, whose gate closes before a replacement *)
(* waits for its readers.                                                  *)
(***************************************************************************)
EXTENDS Integers, FiniteSets

CONSTANTS
    Process,
    Path, Note, \* the files of the brain; notes change without its lock
    Does,       \* Does[p]: its calls, "serve", "update", "build" or "commit"
    MaxChanges, MaxEdits,\* bounds on the changes of a file and of bf.yaml
    MaxKills, MaxDamage   \* and on killed processes and damaged caches

ASSUME CacheAssumption ==
    /\ IsFiniteSet(Process) /\ Note \subseteq Path
    /\ Does \in [Process -> SUBSET {"serve", "update", "build", "commit"}]
    /\ MaxChanges \in Nat /\ MaxEdits \in Nat /\ MaxKills \in Nat /\ MaxDamage \in Nat

VARIABLES
    brain,     \* brain[f]: the version of a file, which its fingerprint tells
    signature, \* the signature of bf.yaml
    live,      \* the generation at .bf/cache.sqlite, or None
    draft,     \* the generation a build fills beside it, or None
    hold,      \* hold[l][p]: how a process holds a lock
    pc, my,    \* where a process stands, and the locals of its call
    conn,      \* the inode that a connection of the process opened, or Closed
    kills, damages \* history

history == <<kills, damages>>
vars == <<brain, signature, live, draft, hold, pc, my, conn, history>>

None == [signature |-> -1]  \* no generation, no scan
Lock == {"write", "build", "gate", "cache"}
Fresh == [Path -> 0..MaxChanges]
Inode == 1..(Cardinality(Process) + 2)
Closed == 0  \* no connection

\* A row keeps the fingerprint of the scan and the content read after it.
Generation ==
    [signature : 0..MaxEdits, inode : Inode, damaged : BOOLEAN,
     stamp : Fresh, content : Fresh]

TypeOK ==
    /\ brain \in Fresh /\ signature \in 0..MaxEdits
    /\ live \in Generation \cup {None} /\ draft \in Generation \cup {None}
    /\ hold \in [Lock -> [Process -> {"no", "shared", "own"}]]
    /\ \A l \in Lock, p, q \in Process :
          hold[l][p] = "own" /\ hold[l][q] # "no" => p = q
    /\ \A p \in Process : my[p].passes \in 1..2 /\ my[p].opens \in 0..2

\* compared: the scan a check passes on; opened: it found a usable generation;
\* passes and opens: of the loops of fresh and database; verdict: what fresh
\* returned, or why a generation is discarded; begun: the brain at the start;
\* raced: a generation was published between check and answer.
Call(t, files) ==
    [task |-> t, compared |-> None, opened |-> FALSE, passes |-> 1, opens |-> 0,
     verdict |-> "ready", begun |-> files, raced |-> FALSE]
NoCall == Call("none", [f \in Path |-> 0])

Init ==
    /\ brain = [f \in Path |-> 0]
    /\ signature = 0
    /\ live = None /\ draft = None
    /\ hold = [l \in Lock |-> [p \in Process |-> "no"]]
    /\ pc = [p \in Process |-> "idle"]
    /\ my = [p \in Process |-> NoCall]
    /\ conn = [p \in Process |-> Closed]
    /\ kills = 0 /\ damages = 0

-----------------------------------------------------------------------------
(* Locks, and the steps of a process.                                      *)

CanShare(l) == \A q \in Process : hold[l][q] # "own"
CanOwn(l) == \A q \in Process : hold[l][q] = "no"

Grab(p, l, mode) ==
    /\ IF mode = "own" THEN CanOwn(l) ELSE CanShare(l)
    /\ hold' = [hold EXCEPT ![l][p] = mode]

Without(p, ls) ==
    [l \in Lock |-> IF l \in ls THEN [hold[l] EXCEPT ![p] = "no"] ELSE hold[l]]
Drop(p, ls) == hold' = Without(p, ls)

files == <<brain, signature, live, draft>>

\* Go on with these locals; a call that ends leaves none.
Goto(p, to, locals) ==
    /\ pc' = [pc EXCEPT ![p] = to]
    /\ my' = [my EXCEPT ![p] = IF to = "idle" THEN NoCall ELSE locals]

\* Wait for a lock, as one step of a call.
Take(p, from, l, mode, to) ==
    /\ pc[p] = from /\ Goto(p, to, my[p]) /\ Grab(p, l, mode)
    /\ UNCHANGED <<files, conn, history>>

Opens(p) == conn' = [conn EXCEPT ![p] = live.inode]
Closes(p) == conn' = [conn EXCEPT ![p] = Closed]

\* _open: a generation of this configuration, in the file it was built in.
Compatible == live # None /\ live.signature = signature
Scan == [known |-> live.stamp, current |-> brain]
Unchanged(scan) == scan.known = scan.current

Begin(p, t, to) ==
    /\ t \in Does[p] /\ pc[p] = "idle"
    /\ Goto(p, to, Call(t, brain))
    /\ UNCHANGED <<files, hold, conn, history>>

Start(p) ==
    \/ Begin(p, "serve", "sweep") \/ Begin(p, "update", "read")
    \/ Begin(p, "build", "buildLock") \/ Begin(p, "commit", "commitLock")

After(p) ==
    CASE my[p].task # "serve" -> "idle"
      [] my[p].task = "serve" /\ ~my[p].opened /\ my[p].passes = 1 -> "check"
      [] OTHER -> "open"

\* A refresh or a build returns, and with it the locks it held; a freshness
\* check that had found no usable generation compares the one it built.
Return(p) ==
    /\ Goto(p, After(p), [my[p] EXCEPT !.compared = None, !.verdict = "ready", !.passes = 2])
    /\ Closes(p) /\ Drop(p, Lock)
    /\ UNCHANGED history

\* What follows a generation that cannot be refreshed in place.
Rebuild(p) == IF hold["build"][p] = "own" THEN "create" ELSE "buildLock"
Refresh(p) == IF my[p].opened THEN "write" ELSE "read"

\* Damage is discarded once per refresh; found again, it fails the call.
Damaged(p) ==
    /\ Compatible /\ live.damaged
    /\ Goto(p, IF my[p].verdict = "mended" THEN "idle" ELSE "discard",
            [my[p] EXCEPT !.verdict = "damaged"])
    /\ Closes(p) /\ Drop(p, Lock)
    /\ UNCHANGED <<files, history>>

-----------------------------------------------------------------------------
(* fresh and database: a reply.                                            *)

\* A build that no lock holder fills was abandoned.
Sweep(p) ==
    /\ pc[p] = "sweep" /\ Goto(p, "check", my[p])
    /\ draft' = IF CanOwn("build") THEN None ELSE draft
    /\ UNCHANGED <<brain, signature, live, hold, conn, history>>

Check(p) == Take(p, "check", "gate", "shared", "connect")

\* `with generation(...)`: the gate comes free once the cache lock is held.
Connect(p) ==
    /\ pc[p] = "connect" /\ CanShare("cache")
    /\ hold' = [Without(p, {"gate"}) EXCEPT !["cache"][p] = "shared"]
    /\ Goto(p, "compare", [my[p] EXCEPT !.opened = Compatible])
    /\ IF Compatible THEN Opens(p) ELSE UNCHANGED conn
    /\ UNCHANGED <<files, history>>

\* The reader lock is only tried: without it, a usable generation is served
\* under the verdict `busy`.
CompareOr(p, busy) ==
    /\ pc[p] = "compare"
    /\ LET usable == my[p].opened /\ ~live.damaged
           keep(scan, opened, verdict) ==
               [my[p] EXCEPT !.compared = scan, !.opened = opened, !.verdict = verdict]
       IN IF ~CanShare("write")
          THEN IF my[p].opened THEN Goto(p, "open", keep(None, TRUE, busy))
                               ELSE Goto(p, "read", keep(None, FALSE, "ready"))
          ELSE IF ~usable THEN Goto(p, "read", keep(None, FALSE, "ready"))
          ELSE IF Unchanged(Scan) THEN Goto(p, "open", keep(None, TRUE, "ready"))
          ELSE Goto(p, "write", keep(Scan, TRUE, "ready"))
    /\ Closes(p) /\ Drop(p, {"cache"})
    /\ UNCHANGED <<files, history>>

\* Mutant: the check waits for the writer while it holds the generation.
CompareWaits(p) == CanShare("write") /\ CompareOr(p, "busy")

\* Mutant: a generation that cannot be compared is served as ready.
CompareHopes(p) == CompareOr(p, "ready")

Compare(p) == CompareOr(p, "busy")

Open(p) == Take(p, "open", "gate", "shared", "serve")

\* database opens the generation it checked, or checks again, twice at most.
Serve(p) ==
    /\ pc[p] = "serve" /\ CanShare("cache")
    /\ IF Compatible
       THEN /\ Goto(p, "answer", my[p]) /\ Opens(p)
            /\ hold' = [Without(p, {"gate"}) EXCEPT !["cache"][p] = "shared"]
       ELSE /\ Goto(p, IF my[p].verdict = "busy" \/ my[p].opens = 2 THEN "idle" ELSE "sweep",
                    [Call("serve", my[p].begun) EXCEPT !.opens = my[p].opens + 1])
            /\ Drop(p, {"gate"}) /\ UNCHANGED conn
    /\ UNCHANGED <<files, history>>

\* A query that meets damage fails the reply, and discards the generation.
Answer(p) ==
    /\ pc[p] = "answer"
    /\ Goto(p, IF live.damaged THEN "discard" ELSE "idle",
            [my[p] EXCEPT !.verdict = "failed"])
    /\ Closes(p) /\ Drop(p, {"cache"})
    /\ UNCHANGED <<files, history>>

-----------------------------------------------------------------------------
(* _incremental: the live generation is updated in place.                  *)

\* The reader section: one look at the brain, its files kept stable.
Read(p) ==
    /\ pc[p] = "read" /\ CanShare("write")
    /\ \/ /\ ~Compatible
          /\ Goto(p, Rebuild(p), my[p])
          /\ UNCHANGED <<files, hold, conn, history>>
       \/ Damaged(p)
       \/ /\ Compatible /\ ~live.damaged
          /\ IF Unchanged(Scan) THEN Return(p)
             ELSE /\ Goto(p, "write", [my[p] EXCEPT !.compared = Scan])
                  /\ UNCHANGED <<hold, conn, history>>
          /\ UNCHANGED files

Write(p) == Take(p, "write", "write", "own", "scan")

\* A scan still applies while the cache holds what it compared.
Rescan(p) ==
    /\ pc[p] = "scan"
    /\ \/ /\ ~Compatible
          /\ Goto(p, Rebuild(p), [my[p] EXCEPT !.compared = None])
          /\ Drop(p, {"write"})
          /\ UNCHANGED <<files, conn, history>>
       \/ Damaged(p)
       \/ /\ Compatible /\ ~live.damaged
          /\ LET given == my[p].compared
             IN Goto(p, "fill", [my[p] EXCEPT !.compared =
                    IF given # None /\ given.known = live.stamp THEN given ELSE Scan])
          /\ Opens(p)
          /\ UNCHANGED <<files, hold, history>>

\* _fill: each changed file is read now, under the fingerprint it had then.
Filled(g, scan) ==
    [g EXCEPT
        !.stamp = scan.current,
        !.content = [f \in Path |-> IF scan.known[f] = scan.current[f] THEN @[f] ELSE brain[f]]]

Fill(p) ==
    /\ pc[p] = "fill"
    /\ live' = Filled(live, my[p].compared)
    /\ Return(p)
    /\ UNCHANGED <<brain, signature, draft>>

-----------------------------------------------------------------------------
(* _build and _publish: another generation replaces it.                    *)

BuildLock(p) ==
    Take(p, "buildLock", "build", "own",
         IF my[p].task = "build" THEN "recover" ELSE Refresh(p))

\* bf build first rolls back an interrupted transaction, as a writer.
Recover(p) ==
    /\ pc[p] = "recover" /\ CanOwn("write")
    /\ Goto(p, "create", my[p])
    /\ UNCHANGED <<files, hold, conn, history>>

\* Every file is fingerprinted first, and then read.
Create(p) ==
    /\ pc[p] = "create" /\ Goto(p, "index", my[p])
    /\ LET used == {conn[q] : q \in Process} \cup {g.inode : g \in {live} \ {None}}
       IN draft' = [signature |-> signature, damaged |-> FALSE,
                    stamp |-> brain, content |-> [f \in Path |-> 0],
                    inode |-> CHOOSE i \in Inode : i \notin used]
    /\ UNCHANGED <<brain, signature, live, hold, conn, history>>

\* Mutant: files are read first, and fingerprinted once they are stored.
IndexFirst(p) ==
    /\ pc[p] = "index" /\ Goto(p, "publish", my[p])
    /\ draft' = [draft EXCEPT !.stamp = brain, !.content = draft.stamp]
    /\ UNCHANGED <<brain, signature, live, hold, conn, history>>

Index(p) ==
    /\ pc[p] = "index" /\ Goto(p, "publish", my[p])
    /\ draft' = [draft EXCEPT !.content = brain]
    /\ UNCHANGED <<brain, signature, live, hold, conn, history>>

Publish(p) == Take(p, "publish", "write", "own", "close")
CloseGate(p) == Take(p, "close", "gate", "own", "drain")

\* Mutant: a replacement trusts the gate alone, and not who passed it before.
DrainGateOnly(p) ==
    /\ pc[p] = "drain" /\ Goto(p, "replace", my[p])
    /\ UNCHANGED <<files, hold, conn, history>>

Drain(p) == Take(p, "drain", "cache", "own", "replace")

Discarding(p) == my[p].verdict \in {"damaged", "failed"}

Replace(p) ==
    /\ pc[p] = "replace" /\ ~Discarding(p)
    /\ live' = draft /\ draft' = None
    /\ pc' = [pc EXCEPT ![p] = After(p)]
    /\ my' = [q \in Process |->
          IF q # p THEN [my[q] EXCEPT !.raced = @ \/ pc[q] \in {"open", "serve"}]
          ELSE IF After(p) = "idle" THEN NoCall
          ELSE [my[q] EXCEPT !.compared = None, !.verdict = "ready", !.passes = 2]]
    /\ Drop(p, Lock)
    /\ UNCHANGED <<brain, signature, conn, history>>

\* _discard: only a generation whose own check fails goes, and the refresh
\* starts over; the error may have come from a generation replaced since.
DiscardLock(p) == Take(p, "discard", "build", "own", "publish")

Discard(p) ==
    /\ pc[p] = "replace" /\ Discarding(p)
    /\ live' = IF live # None /\ live.damaged THEN None ELSE live
    /\ Goto(p, IF my[p].verdict = "failed" THEN "idle" ELSE Refresh(p),
            [my[p] EXCEPT !.verdict = "mended"])
    /\ Drop(p, Lock)
    /\ UNCHANGED <<brain, signature, draft, conn, history>>

-----------------------------------------------------------------------------
(* Locks that do not come: BusyError.                                      *)

Wanted(p) ==
    CASE pc[p] \in {"read", "write", "publish", "commitLock", "recover"} -> "write"
      [] pc[p] \in {"buildLock", "discard"} -> "build"
      [] pc[p] \in {"check", "open", "close"} -> "gate"
      [] pc[p] \in {"connect", "serve", "drain"} -> "cache"
      [] OTHER -> "none"

Blocked(p) ==
    /\ Wanted(p) # "none"
    /\ IF pc[p] \in {"check", "open", "connect", "serve", "read"}
       THEN ~CanShare(Wanted(p))
       ELSE ~CanOwn(Wanted(p))

\* A check that has a generation to serve never waits to refresh it, and a
\* discard leaves a running build alone.
NoWait(p) ==
    \/ pc[p] = "discard"
    \/ my[p].opened /\ pc[p] \in {"read", "write", "buildLock"}

\* The exception unwinds every lock: a check goes on to refresh, a discard to
\* its refresh, a reply to the generation it can serve, and the rest fail.
Busy(p) ==
    /\ Blocked(p)
    /\ LET call == my[p] IN
       IF pc[p] \in {"check", "connect"}
       THEN Goto(p, "read", [call EXCEPT !.opened = FALSE])
       ELSE IF call.verdict = "damaged"
       THEN Goto(p, Refresh(p), [call EXCEPT !.verdict = "mended"])
       ELSE IF call.task = "serve" /\ ~Discarding(p) /\ pc[p] \notin {"open", "serve"}
       THEN Goto(p, "open", [call EXCEPT !.verdict = "busy", !.compared = None])
       ELSE Goto(p, "idle", NoCall)
    /\ draft' = IF hold["build"][p] = "own" /\ ~Discarding(p) THEN None ELSE draft
    /\ Closes(p) /\ Drop(p, Lock)
    /\ UNCHANGED <<brain, signature, live, history>>

Expire(p) == ~NoWait(p) /\ Busy(p)

-----------------------------------------------------------------------------
(* The brain, and faults.                                                  *)

\* A collection commits under the writer lock; an editor takes none.
CommitLock(p) == Take(p, "commitLock", "write", "own", "commit")

Change(f) == brain[f] < MaxChanges /\ brain' = [brain EXCEPT ![f] = @ + 1]

Commit(p) ==
    /\ pc[p] = "commit" /\ Goto(p, "idle", NoCall)
    /\ UNCHANGED brain \/ \E f \in Path : Change(f)
    /\ Drop(p, Lock)
    /\ UNCHANGED <<signature, live, draft, conn, history>>

Edit ==
    /\ \E f \in Note : Change(f)
    /\ UNCHANGED <<signature, live, draft, hold, pc, my, conn, history>>

EditConfig ==
    /\ signature < MaxEdits /\ signature' = signature + 1
    /\ UNCHANGED <<brain, live, draft, hold, pc, my, conn, history>>

Damage ==
    /\ damages < MaxDamage /\ damages' = damages + 1
    /\ live # None /\ live' = [live EXCEPT !.damaged = TRUE]
    /\ UNCHANGED <<brain, signature, draft, hold, pc, my, conn, kills>>

Kill(p) ==
    /\ kills < MaxKills /\ kills' = kills + 1
    /\ pc[p] # "idle" /\ Goto(p, "idle", NoCall)
    /\ Closes(p) /\ Drop(p, Lock)
    /\ UNCHANGED <<files, damages>>

Step(p) ==
    \/ Sweep(p) \/ Check(p) \/ Connect(p) \/ Compare(p) \/ Open(p) \/ Serve(p)
    \/ Answer(p) \/ Read(p) \/ Write(p) \/ Rescan(p) \/ Fill(p)
    \/ BuildLock(p) \/ Recover(p) \/ Create(p) \/ Index(p) \/ Publish(p)
    \/ CloseGate(p) \/ Drain(p) \/ Replace(p) \/ DiscardLock(p) \/ Discard(p)
    \/ CommitLock(p) \/ Commit(p) \/ (NoWait(p) /\ Busy(p))

Next ==
    \/ \E p \in Process : Start(p) \/ Step(p) \/ Expire(p) \/ Kill(p)
    \/ Edit \/ EditConfig \/ Damage

Spec == Init /\ [][Next]_vars

-----------------------------------------------------------------------------
(* Properties.                                                             *)

\* SQLite finds a log by name: while a connection is open, the file it opened
\* is still the live cache, through builds, discards, kills and timeouts.
OneGeneration ==
    \A p \in Process : conn[p] # Closed => live # None /\ live.inode = conn[p]

\* A row whose fingerprint is that of its file holds the file's bytes, though
\* builds and refreshes read files that change meanwhile: nothing stays hidden
\* from every later check.
NothingHidden ==
    live # None => \A f \in Path : live.stamp[f] = brain[f] => live.content[f] = brain[f]

Answers(p) == pc[p] = "answer" /\ my[p].verdict = "ready"
Current(p) == \A f \in Path : live.content[f] >= my[p].begun[f]

\* A reply that says ready holds every change made before it began, unless a
\* build replaced the generation after it was compared.
ReadyIsFresh == \A p \in Process : Answers(p) => my[p].raced \/ Current(p)

\* index.database: "The fresh cache generation and its state".
AnswersAreFresh == \A p \in Process : Answers(p) => Current(p)

\* Processes retry their locks every 50 ms, and every step they are able to
\* take comes.  A reader passes the gate at once, so that it comes free of
\* them, though their connections overlap for ever.
Fairness ==
    /\ \A p \in Process : SF_vars(Step(p))
    /\ []<>(\A p \in Process : hold["gate"][p] # "shared")
FairSpec == Spec /\ Fairness

\* Every reply, refresh, build and commit ends without a timeout: no two wait
\* for each other, and no stream of readers keeps a publication waiting.
CallsEnd == \A p \in Process : pc[p] # "idle" ~> pc[p] = "idle"

=============================================================================
