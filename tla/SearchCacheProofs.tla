-------------------------- MODULE SearchCacheProofs --------------------------
(***************************************************************************)
(* Proofs about SearchCache, for any number of processes, files, changes,  *)
(* kills and damaged generations: a connection never sees its generation   *)
(* replaced, a row whose fingerprint is right holds the right bytes, and a *)
(* reply that says ready is as new as its call. Then about what is read    *)
(* from the cache and beside it: folders that a check does not read again  *)
(* (FolderScan), counts of the usage log (UsageLog), reminders and events  *)
(* (Reminders), the pages of a time line (Timeline), and names and links   *)
(* of several brains (Links).                                              *)
(***************************************************************************)
EXTENDS SearchCache, Sequences, FiniteSetTheorems, TLAPS

-----------------------------------------------------------------------------
(* The inductive invariant.                                                *)

Scans == [known : Fresh, current : Fresh]

PC ==
    {"idle", "sweep", "check", "connect", "compare", "open", "serve", "answer", "read",
     "write", "scan", "fill", "buildLock", "recover", "create", "index", "publish",
     "close", "drain", "replace", "discard", "commitLock", "commit"}

Locals ==
    [task : {"none", "serve", "update", "build", "commit"},
     compared : Scans \cup {None}, opened : BOOLEAN, passes : 1..2, opens : 0..2,
     verdict : {"ready", "busy", "damaged", "mended", "failed"},
     begun : Fresh, raced : BOOLEAN]

LocalsOK ==
    /\ pc \in [Process -> PC]
    /\ my \in [Process -> Locals]
    /\ conn \in [Process -> Inode \cup {Closed}]

\* Where a process stands tells which locks it holds.
LocksOf(p) ==
    /\ pc[p] \in {"recover", "create", "index", "publish", "close", "drain", "replace"}
          => hold["build"][p] = "own"
    /\ pc[p] \in {"scan", "fill", "close", "drain", "replace", "commit"}
          => hold["write"][p] = "own"
    /\ pc[p] = "replace" => hold["cache"][p] = "own"
    /\ pc[p] \in {"compare", "answer"} => hold["cache"][p] = "shared"

LocksFollowPC == \A p \in Process : LocksOf(p)

\* A connection is open while a reader has the cache lock, or a refresh the
\* writer's: a replacement waits for both.
ConnectionOf(p) ==
    /\ conn[p] # Closed => pc[p] \in {"compare", "answer", "fill"}
    /\ pc[p] \in {"answer", "fill"} => conn[p] # Closed
    /\ pc[p] = "compare" /\ my[p].opened => conn[p] # Closed

ConnectedUnderLock == \A p \in Process : ConnectionOf(p)

\* Rows a <= b, file by file: versions of a file only grow.
Upto(a, b) == \A f \in Path : a[f] <= b[f]

\* A stored fingerprint is never newer than the bytes stored with it.
LiveIsTrue ==
    live # None => Upto(live.stamp, live.content) /\ Upto(live.content, brain)

\* The build that will be published belongs to the holder of its lock, and was
\* fingerprinted before its files were read, and after the call began.
Building(p) ==
    \/ pc[p] = "index"
    \/ pc[p] \in {"publish", "close", "drain", "replace"} /\ ~Discarding(p)

DraftOf(p) == Building(p) =>
    /\ draft # None
    /\ Upto(my[p].begun, draft.stamp) /\ Upto(draft.stamp, brain)
    /\ pc[p] # "index" => Upto(draft.stamp, draft.content) /\ Upto(draft.content, brain)

DraftIsTrue == \A p \in Process : DraftOf(p)

\* A call began before the brain b, and compared it since.
CallOK(c, b) ==
    /\ c \in Locals
    /\ Upto(c.begun, b)
    /\ c.compared # None => Upto(c.begun, c.compared.current) /\ Upto(c.compared.current, b)

CallsOK == \A q \in Process : CallOK(my[q], brain)

\* A refresh applies a scan to the rows that it compared; only damage is
\* discarded.
ScanApplies ==
    \A p \in Process :
        /\ pc[p] = "fill" =>
              live # None /\ my[p].compared # None /\ my[p].compared.known = live.stamp
        /\ pc[p] = "discard" => Discarding(p)

\* What was found fresh stays so until the answer, unless it is replaced.
FoundOf(p) ==
    pc[p] \in {"open", "serve", "answer"} /\ my[p].verdict = "ready" =>
        my[p].raced \/ live = None \/ Upto(my[p].begun, live.content)

FoundFresh == \A p \in Process : FoundOf(p)

IInv ==
    /\ TypeOK /\ LocalsOK
    /\ LocksFollowPC
    /\ ConnectedUnderLock
    /\ OneGeneration
    /\ LiveIsTrue
    /\ DraftIsTrue
    /\ CallsOK
    /\ ScanApplies
    /\ FoundFresh

-----------------------------------------------------------------------------
(* The locals of calls.                                                    *)

Verdicts == {"ready", "busy", "damaged", "mended", "failed"}

LEMMA NewCalls ==
    ASSUME NEW t \in {"none", "serve", "update", "build", "commit"}, NEW a \in Fresh, NEW b,
           Upto(a, b)
    PROVE  CallOK(Call(t, a), b)
BY DEF Call, Locals, CallOK

\* No process has less to lose than one that is idle.
LEMMA NoCallOK == ASSUME brain \in Fresh PROVE CallOK(NoCall, brain)
<1>1. [f \in Path |-> 0] \in Fresh /\ Upto([f \in Path |-> 0], brain)
  BY CacheAssumption DEF Fresh, Upto
<1>. QED
  BY <1>1, NewCalls DEF NoCall

\* The updates of a call's locals keep what they tell of the brain, given a
\* scan of it that is not older than the call.
LEMMA UpdatedVerdict ==
    ASSUME NEW b, NEW c, CallOK(c, b), NEW v \in Verdicts
    PROVE  CallOK([c EXCEPT !.verdict = v], b)
BY DEF CallOK, Locals, Verdicts

LEMMA UpdatedOpened ==
    ASSUME NEW b, NEW c, CallOK(c, b), NEW o \in BOOLEAN
    PROVE  CallOK([c EXCEPT !.opened = o], b)
BY DEF CallOK, Locals

LEMMA UpdatedOpens ==
    ASSUME NEW b, NEW c, CallOK(c, b), NEW n \in 0..2
    PROVE  CallOK([c EXCEPT !.opens = n], b)
BY DEF CallOK, Locals

Compares(c, x, b) ==
    x \in Scans \cup {None} /\ (x # None => Upto(c.begun, x.current) /\ Upto(x.current, b))

LEMMA UpdatedScan ==
    ASSUME NEW b, NEW c, CallOK(c, b), NEW x, Compares(c, x, b)
    PROVE  CallOK([c EXCEPT !.compared = x], b)
BY DEF CallOK, Locals, Compares

LEMMA Kept ==
    ASSUME NEW b, NEW c, CallOK(c, b), NEW x, Compares(c, x, b), NEW o \in BOOLEAN,
           NEW v \in Verdicts
    PROVE  CallOK([c EXCEPT !.compared = x, !.opened = o, !.verdict = v], b)
BY DEF CallOK, Locals, Verdicts, Compares

LEMMA Forgotten ==
    ASSUME NEW b, NEW c, CallOK(c, b), NEW v \in Verdicts
    PROVE  CallOK([c EXCEPT !.verdict = v, !.compared = None], b)
BY DEF CallOK, Locals, Verdicts

LEMMA Returned ==
    ASSUME NEW b, NEW c, CallOK(c, b)
    PROVE  CallOK([c EXCEPT !.compared = None, !.verdict = "ready", !.passes = 2], b)
<1>1. 2 \in 1..2
  OBVIOUS
<1>. QED
  BY <1>1 DEF CallOK, Locals

LEMMA GotoCalls ==
    ASSUME TypeOK, LocalsOK, CallsOK, NEW p \in Process, NEW to, NEW c,
           to = "idle" \/ CallOK(c, brain), Goto(p, to, c)
    PROVE  my' \in [Process -> Locals] /\ \A q \in Process : CallOK(my'[q], brain)
<1>1. /\ \A q \in Process \ {p} : my'[q] = my[q]
      /\ to = "idle" => my'[p] = NoCall
      /\ to # "idle" => my'[p] = c
      /\ DOMAIN my' = Process /\ my' = [q \in Process |-> my'[q]]
  BY DEF Goto, LocalsOK
<1>2. CallOK(NoCall, brain)
  BY NoCallOK DEF TypeOK
<1>3. \A q \in Process : CallOK(my'[q], brain)
  BY <1>1, <1>2 DEF CallsOK
<1>. QED
  BY <1>1, <1>3 DEF CallOK

\* A scan of the brain, taken now.
LEMMA ScanOfNow ==
    ASSUME TypeOK, CallsOK, live # None, NEW p \in Process
    PROVE  /\ Scan \in Scans /\ Scan.current = brain /\ Scan.known = live.stamp
           /\ Upto(my[p].begun, Scan.current) /\ Upto(Scan.current, brain)
BY DEF TypeOK, Scan, Scans, Generation, CallsOK, CallOK, Upto, Fresh, Locals

\* Every step keeps the locals true.
LEMMA CallsNext ==
    ASSUME TypeOK, LocalsOK, CallsOK, ConnectedUnderLock, OneGeneration, [Next]_vars
    PROVE  my' \in [Process -> Locals] /\ \A q \in Process : CallOK(my'[q], brain)
<1>. DEFINE Goal == my' \in [Process -> Locals] /\ \A q \in Process : CallOK(my'[q], brain)
<1>0. ASSUME NEW p \in Process, NEW to, Goto(p, to, my[p]) PROVE Goal
  BY <1>0, GotoCalls DEF CallsOK
<1>1. ASSUME NEW p \in Process, Start(p) PROVE Goal
  <2>1. PICK t \in {"serve", "update", "build", "commit"}, to \in PC : Goto(p, to, Call(t, brain))
    BY <1>1 DEF Start, Begin, PC
  <2>2. CallOK(Call(t, brain), brain)
    BY NewCalls DEF TypeOK, Upto, Fresh
  <2>. QED
    BY <2>1, <2>2, GotoCalls
<1>2. ASSUME NEW p \in Process, Connect(p) PROVE Goal
  <2>1. CallOK([my[p] EXCEPT !.opened = Compatible], brain)
    <3>1. Compatible \in BOOLEAN /\ CallOK(my[p], brain)
      BY DEF CallsOK, Compatible
    <3>. QED
      BY <3>1, UpdatedOpened
  <2>. QED
    BY <1>2, <2>1, GotoCalls DEF Connect
<1>3. ASSUME NEW p \in Process, Compare(p) PROVE Goal
  <2>0. CallOK(my[p], brain)
    BY DEF CallsOK
  <2>1. ASSUME NEW to, NEW x, Compares(my[p], x, brain), NEW o \in BOOLEAN, NEW v \in Verdicts,
               Goto(p, to, [my[p] EXCEPT !.compared = x, !.opened = o, !.verdict = v])
        PROVE  Goal
    BY <2>0, <2>1, Kept, GotoCalls
  <2>2. Compares(my[p], None, brain)
    BY DEF Compares
  <2>3. my[p].opened => Compares(my[p], Scan, brain)
    <3>1. my[p].opened => live # None
      BY <1>3 DEF Compare, CompareOr, ConnectedUnderLock, ConnectionOf, OneGeneration
    <3>. QED
      BY <3>1, ScanOfNow DEF Compares
  <2>. DEFINE keep(x, o, v) == [my[p] EXCEPT !.compared = x, !.opened = o, !.verdict = v]
  <2>4. \/ \E to : Goto(p, to, keep(None, TRUE, "busy"))
        \/ \E to : Goto(p, to, keep(None, FALSE, "ready"))
        \/ \E to : Goto(p, to, keep(None, TRUE, "ready"))
        \/ \E to : Goto(p, to, keep(Scan, TRUE, "ready")) /\ my[p].opened
    BY <1>3 DEF Compare, CompareOr
  <2>5. CASE \E to : Goto(p, to, keep(None, TRUE, "busy"))
    BY <2>1, <2>2, <2>5 DEF Verdicts
  <2>6. CASE \E to : Goto(p, to, keep(None, FALSE, "ready"))
    BY <2>1, <2>2, <2>6 DEF Verdicts
  <2>7. CASE \E to : Goto(p, to, keep(None, TRUE, "ready"))
    BY <2>1, <2>2, <2>7 DEF Verdicts
  <2>8. CASE \E to : Goto(p, to, keep(Scan, TRUE, "ready")) /\ my[p].opened
    BY <2>1, <2>3, <2>8 DEF Verdicts
  <2>. QED
    BY <2>4, <2>5, <2>6, <2>7, <2>8
<1>4. ASSUME NEW p \in Process, Serve(p) PROVE Goal
  <2>1. CASE Goto(p, "answer", my[p])
    BY <2>1, <1>0
  <2>2. ASSUME NEW to, Goto(p, to, [Call("serve", my[p].begun) EXCEPT !.opens = my[p].opens + 1]),
               to = "idle" \/ my[p].opens # 2
        PROVE  Goal
    <3>1. CallOK(Call("serve", my[p].begun), brain)
      BY NewCalls DEF CallsOK, CallOK, Locals
    <3>2. to = "idle" \/ my[p].opens + 1 \in 0..2
      BY <2>2 DEF CallsOK, CallOK, Locals
    <3>3. to = "idle"
          \/ CallOK([Call("serve", my[p].begun) EXCEPT !.opens = my[p].opens + 1], brain)
      BY <3>1, <3>2, UpdatedOpens
    <3>. QED
      BY <2>2, <3>3, GotoCalls
  <2>. QED
    BY <1>4, <2>1, <2>2 DEF Serve
<1>5. ASSUME NEW p \in Process, NEW to, NEW v \in Verdicts,
             Goto(p, to, [my[p] EXCEPT !.verdict = v])
      PROVE  Goal
  BY <1>5, UpdatedVerdict, GotoCalls DEF CallsOK
<1>6. ASSUME NEW p \in Process, NEW to, NEW x, Compares(my[p], x, brain),
             Goto(p, to, [my[p] EXCEPT !.compared = x])
      PROVE  Goal
  BY <1>6, UpdatedScan, GotoCalls DEF CallsOK
<1>7. ASSUME NEW p \in Process, Return(p) PROVE Goal
  BY <1>7, Returned, GotoCalls DEF Return, CallsOK
<1>8. ASSUME NEW p \in Process, Damaged(p) PROVE Goal
  BY <1>5, <1>8 DEF Damaged, Verdicts
<1>9. ASSUME NEW p \in Process, Read(p) PROVE Goal
  <2>1. Compatible => Compares(my[p], Scan, brain)
    BY ScanOfNow DEF Compatible, Compares
  <2>. QED
    BY <1>0, <1>6, <1>7, <1>8, <1>9, <2>1 DEF Read
<1>10. ASSUME NEW p \in Process, Rescan(p) PROVE Goal
  <2>1. Compares(my[p], None, brain) /\ (Compatible => Compares(my[p], Scan, brain))
    BY ScanOfNow DEF Compatible, Compares
  <2>2. Compares(my[p], my[p].compared, brain)
    BY DEF CallsOK, CallOK, Locals, Compares
  <2>. QED
    BY <1>6, <1>8, <1>10, <2>1, <2>2 DEF Rescan
<1>11. ASSUME NEW p \in Process, Replace(p) PROVE Goal
  <2>. DEFINE mine == [my[p] EXCEPT !.compared = None, !.verdict = "ready", !.passes = 2]
  <2>1. CallOK(mine, brain) /\ CallOK(NoCall, brain)
    BY Returned, NoCallOK DEF CallsOK, TypeOK
  <2>2. ASSUME NEW q \in Process, q # p PROVE CallOK(my'[q], brain)
    <3>1. PICK o \in BOOLEAN : my'[q] = [my[q] EXCEPT !.raced = o]
      BY <1>11, <2>2 DEF Replace
    <3>. QED
      BY <3>1 DEF CallsOK, CallOK, Locals
  <2>3. CallOK(my'[p], brain)
    BY <1>11, <2>1 DEF Replace
  <2>. QED
    BY <1>11, <2>2, <2>3 DEF Replace, CallOK
<1>12. ASSUME NEW p \in Process, Busy(p) PROVE Goal
  <2>1. CASE Goto(p, "read", [my[p] EXCEPT !.opened = FALSE])
    BY <2>1, UpdatedOpened, GotoCalls DEF CallsOK
  <2>2. CASE Goto(p, Refresh(p), [my[p] EXCEPT !.verdict = "mended"])
    BY <1>5, <2>2 DEF Verdicts
  <2>3. CASE Goto(p, "open", [my[p] EXCEPT !.verdict = "busy", !.compared = None])
    BY <2>3, Forgotten, GotoCalls DEF CallsOK, Verdicts
  <2>4. CASE Goto(p, "idle", NoCall)
    BY <2>4, GotoCalls
  <2>. QED
    BY <1>12, <2>1, <2>2, <2>3, <2>4 DEF Busy
<1>13. ASSUME NEW p \in Process, Answer(p) \/ Discard(p) PROVE Goal
  BY <1>5, <1>13 DEF Answer, Discard, Verdicts
<1>14. ASSUME NEW p \in Process, Commit(p) \/ Kill(p) PROVE Goal
  BY <1>14, GotoCalls DEF Commit, Kill
<1>15. CASE my' = my
  BY <1>15 DEF LocalsOK, CallsOK
<1>16. ASSUME NEW p \in Process, Fill(p) PROVE Goal
  BY <1>7, <1>16 DEF Fill
<1>17. ASSUME NEW p \in Process,
              \/ Sweep(p) \/ Check(p) \/ Open(p) \/ Write(p) \/ BuildLock(p) \/ Recover(p)
              \/ Create(p) \/ Index(p) \/ Publish(p) \/ CloseGate(p) \/ Drain(p)
              \/ DiscardLock(p) \/ CommitLock(p)
       PROVE  Goal
  BY <1>0, <1>17 DEF Sweep, Check, Open, Write, BuildLock, Recover, Create, Index,
     Publish, CloseGate, Drain, DiscardLock, CommitLock, Take
<1>. QED
  BY <1>1, <1>2, <1>3, <1>4, <1>9, <1>10, <1>11, <1>12, <1>13, <1>14, <1>15, <1>16, <1>17
     DEF Next, Step, Expire, Edit, EditConfig, Damage, vars

-----------------------------------------------------------------------------
(* The steps that change files.                                            *)

Acts(p) == Start(p) \/ Step(p) \/ Expire(p) \/ Kill(p)

LEMMA FilesStay ==
    ASSUME NEW p \in Process, Acts(p),
           ~(Sweep(p) \/ Fill(p) \/ Create(p) \/ Index(p) \/ Replace(p) \/ Discard(p)),
           ~(Commit(p) \/ Busy(p))
    PROVE  UNCHANGED files
<1>1. CASE \/ Check(p) \/ Open(p) \/ Write(p) \/ BuildLock(p) \/ Publish(p)
           \/ CloseGate(p) \/ Drain(p) \/ DiscardLock(p) \/ CommitLock(p)
  BY <1>1 DEF Check, Open, Write, BuildLock, Publish, CloseGate, Drain, DiscardLock,
     CommitLock, Take
<1>2. CASE Start(p) \/ Kill(p) \/ Connect(p) \/ Compare(p) \/ Serve(p) \/ Answer(p)
           \/ Recover(p)
  BY <1>2 DEF Start, Begin, Kill, Connect, Compare, CompareOr, Serve, Answer, Recover
<1>3. CASE Read(p) \/ Rescan(p)
  BY <1>3 DEF Read, Rescan, Damaged
<1>. QED
  BY <1>1, <1>2, <1>3 DEF Acts, Step, Expire

\* Only these steps change the brain,
LEMMA BrainSteps ==
    ASSUME [Next]_vars
    PROVE  UNCHANGED <<brain, signature>> \/ Edit \/ EditConfig \/ \E p \in Process : Commit(p)
<1>1. ASSUME NEW p \in Process, Acts(p), ~Commit(p) PROVE UNCHANGED <<brain, signature>>
  BY <1>1, FilesStay DEF files, Sweep, Fill, Create, Index, Replace, Discard, Busy
<1>. QED
  BY <1>1 DEF Next, Acts, Damage, vars

\* only these the live generation,
LEMMA LiveSteps ==
    ASSUME [Next]_vars
    PROVE  \/ UNCHANGED live
           \/ Damage
           \/ \E p \in Process : Fill(p) \/ Replace(p) \/ Discard(p)
<1>1. ASSUME NEW p \in Process, Acts(p), ~(Fill(p) \/ Replace(p) \/ Discard(p))
      PROVE  UNCHANGED live
  BY <1>1, FilesStay DEF files, Sweep, Create, Index, Commit, Busy
<1>. QED
  BY <1>1 DEF Next, Acts, Edit, EditConfig, vars

\* and only these the build beside it.
LEMMA DraftSteps ==
    ASSUME [Next]_vars
    PROVE  \/ UNCHANGED draft
           \/ \E p \in Process : \/ Sweep(p) /\ CanOwn("build") /\ draft' = None
                                 \/ Create(p) \/ Index(p) \/ Replace(p)
                                 \/ Busy(p) /\ hold["build"][p] = "own" /\ draft' = None
<1>1. ASSUME NEW p \in Process, Acts(p), draft' # draft, ~(Create(p) \/ Index(p) \/ Replace(p))
      PROVE  \/ Sweep(p) /\ CanOwn("build") /\ draft' = None
             \/ Busy(p) /\ hold["build"][p] = "own" /\ draft' = None
  BY <1>1, FilesStay DEF files, Sweep, Fill, Discard, Commit, Busy
<1>. QED
  BY <1>1 DEF Next, Acts, Edit, EditConfig, Damage, vars

-----------------------------------------------------------------------------
(* Types.                                                                  *)

\* An inode that no connection and no generation uses exists.
LEMMA FreeInode ==
    ASSUME LocalsOK, live \in Generation \cup {None}
    PROVE  \E i \in Inode :
              i \notin {conn[q] : q \in Process} \cup {g.inode : g \in {live} \ {None}}
<1>. DEFINE open == {conn[q] : q \in Process}
            used == open \cup {g.inode : g \in {live} \ {None}}
<1>1. IsFiniteSet(Process) /\ Cardinality(Process) \in Nat
  BY CacheAssumption, FS_CardinalityType
<1>2. IsFiniteSet(open) /\ Cardinality(open) <= Cardinality(Process)
  <2>1. conn \in Surjection(Process, open)
    BY DEF LocalsOK, Surjection
  <2>. QED
    BY <1>1, <2>1, FS_Surjection
<1>. HIDE DEF open
<1>3. IsFiniteSet(used) /\ Cardinality(used) <= Cardinality(open) + 1
  <2>1. PICK x : used = open \/ used = open \cup {x}
    <3>1. used = open \/ used = open \cup {live.inode}
      OBVIOUS
    <3>. QED
      BY <3>1
  <2>. HIDE DEF used
  <2>2. Cardinality(open) \in Nat
    BY <1>2, FS_CardinalityType
  <2>3. IsFiniteSet(open \cup {x}) /\ Cardinality(open \cup {x}) <= Cardinality(open) + 1
    BY <1>2, <2>2, FS_AddElement
  <2>4. CASE used = open
    <3>1. Cardinality(used) = Cardinality(open)
      BY ONLY <2>4
    <3>. QED
      BY <1>2, <2>2, <2>4, <3>1
  <2>5. CASE used = open \cup {x}
    BY ONLY <2>3, <2>5
  <2>. QED
    BY <2>1, <2>4, <2>5
<1>. HIDE DEF used
<1>4. Cardinality(Inode) = Cardinality(Process) + 2
  <2>1. Cardinality(Process) + 2 \in Nat /\ 1 \in Int
    BY <1>1
  <2>. QED
    BY <1>1, <2>1, FS_Interval DEF Inode
<1>5. ~(Inode \subseteq used)
  <2>. SUFFICES ASSUME Inode \subseteq used PROVE FALSE
    OBVIOUS
  <2>1. Cardinality(Inode) <= Cardinality(used)
    BY <1>3, FS_Subset
  <2>. QED
    BY <1>1, <1>2, <1>3, <1>4, <2>1, FS_CardinalityType
<1>. QED
  BY <1>5 DEF used, open

HoldOK ==
    /\ hold \in [Lock -> [Process -> {"no", "shared", "own"}]]
    /\ \A l \in Lock, p, q \in Process :
          hold[l][p] = "own" /\ hold[l][q] # "no" => p = q

\* Versions of files only grow.
LEMMA BrainGrows ==
    ASSUME TypeOK, [Next]_vars
    PROVE  /\ brain' \in Fresh /\ Upto(brain, brain')
           /\ signature' \in 0..MaxEdits
<1>. USE CacheAssumption DEF TypeOK, Fresh, Upto
<1>1. CASE UNCHANGED <<brain, signature>>
  BY <1>1
<1>2. ASSUME NEW f \in Path, Change(f)
      PROVE  brain' \in Fresh /\ Upto(brain, brain')
  BY <1>2 DEF Change
<1>3. CASE Edit \/ EditConfig
  BY <1>2, <1>3 DEF Edit, EditConfig
<1>4. ASSUME NEW p \in Process, Commit(p)
      PROVE  /\ brain' \in Fresh /\ Upto(brain, brain')
             /\ signature' \in 0..MaxEdits
  BY <1>1, <1>2, <1>4 DEF Commit
<1>. QED
  BY <1>1, <1>3, <1>4, BrainSteps

LEMMA GenerationNext ==
    ASSUME TypeOK, LocalsOK, CallsOK, ConnectedUnderLock, ScanApplies, DraftIsTrue,
           [Next]_vars
    PROVE  live' \in Generation \cup {None} /\ draft' \in Generation \cup {None}
<1>. USE DEF TypeOK
<1>3. ASSUME NEW p \in Process, Fill(p) PROVE live' \in Generation
  <2>1. live \in Generation /\ my[p].compared \in Scans
    BY <1>3 DEF Fill, ScanApplies, CallsOK, CallOK, Locals
  <2>. QED
    BY <1>3, <2>1 DEF Fill, Filled, Generation, Scans, Fresh
<1>4. ASSUME NEW p \in Process, Create(p) PROVE draft' \in Generation
  <2>1. [f \in Path |-> 0] \in Fresh
    BY CacheAssumption DEF Fresh
  <2>. QED
    BY <1>4, <2>1, FreeInode DEF Create, Generation
<1>5. ASSUME NEW p \in Process, Index(p) PROVE draft' \in Generation \cup {None}
  <2>1. draft \in Generation
    BY <1>5 DEF Index, DraftIsTrue, DraftOf, Building
  <2>. QED
    BY <1>5, <2>1 DEF Index, Generation
<1>6. ASSUME NEW p \in Process, Replace(p) \/ Discard(p)
      PROVE  live' \in Generation \cup {None} /\ draft' \in Generation \cup {None}
  BY <1>6 DEF Replace, Discard
<1>7. CASE Damage
  BY <1>7 DEF Damage, Generation
<1>8. live' \in Generation \cup {None}
  BY <1>3, <1>6, <1>7, LiveSteps
<1>9. draft' \in Generation \cup {None}
  BY <1>4, <1>5, <1>6, DraftSteps
<1>. QED
  BY <1>8, <1>9

-----------------------------------------------------------------------------
(* The steps of one process, and what they leave to others.                *)

\* A step goes on somewhere in the program,
LEMMA Going ==
    ASSUME LocalsOK, NEW p \in Process, Acts(p), ~Replace(p)
    PROVE  \E c : \E to \in PC : Goto(p, to, c)
BY DEF Acts, Start, Begin, Step, Expire, Kill, Sweep, Check, Connect, Compare,
   CompareOr, Open, Serve, Answer, Read, Damaged, Return, After, Rebuild, Write,
   Rescan, Fill, BuildLock, Recover, Create, Index, Publish, CloseGate, Drain,
   DiscardLock, Discard, Refresh, CommitLock, Commit, Busy, Take, LocalsOK, PC

\* opens the live generation or closes it,
LEMMA Connecting ==
    ASSUME NEW p \in Process, Acts(p)
    PROVE  conn' = conn \/ Closes(p) \/ (Compatible /\ Opens(p))
BY DEF Acts, Start, Begin, Step, Expire, Kill, Sweep, Check, Connect, Compare,
   CompareOr, Open, Serve, Answer, Read, Damaged, Return, Write, Rescan, Fill,
   BuildLock, Recover, Create, Index, Publish, CloseGate, Drain, Replace,
   DiscardLock, Discard, CommitLock, Commit, Busy, Take

\* and takes a lock, or lets go of some.
Passes(p) == hold' = [Without(p, {"gate"}) EXCEPT !["cache"][p] = "shared"]

LEMMA Locking ==
    ASSUME NEW p \in Process, Acts(p)
    PROVE  \/ hold' = hold
           \/ \E ls : Drop(p, ls)
           \/ \E l \in Lock, mode \in {"shared", "own"} : Grab(p, l, mode)
           \/ CanShare("cache") /\ Passes(p)
<1>1. CASE \/ Check(p) \/ Open(p) \/ Write(p) \/ BuildLock(p) \/ Publish(p)
           \/ CloseGate(p) \/ Drain(p) \/ DiscardLock(p) \/ CommitLock(p)
  BY <1>1 DEF Check, Open, Write, BuildLock, Publish, CloseGate, Drain, DiscardLock,
     CommitLock, Take, Lock
<1>2. CASE Connect(p) \/ Serve(p)
  BY <1>2 DEF Connect, Serve, Passes
<1>. QED
  BY <1>1, <1>2 DEF Acts, Start, Begin, Step, Expire, Kill, Sweep, Compare, CompareOr,
     Answer, Read, Damaged, Return, Rescan, Fill, Recover, Create, Index, Replace,
     Discard, Commit, Busy

\* The steps that leave every process where it is.
LEMMA Elsewhere ==
    ASSUME [Next]_vars, ~\E p \in Process : Acts(p)
    PROVE  UNCHANGED <<hold, pc, my, conn, draft>>
BY DEF Next, Acts, Edit, EditConfig, Damage, vars

\* Two processes never hold a lock that one of them owns.
LEMMA HoldNext ==
    ASSUME HoldOK, [Next]_vars
    PROVE  HoldOK'
<1>1. ASSUME NEW p \in Process, Acts(p) PROVE HoldOK'
  <2>1. CASE hold' = hold
    BY <2>1 DEF HoldOK
  <2>2. CASE \E ls : Drop(p, ls)
    BY <2>2 DEF HoldOK, Drop, Without
  <2>3. CASE \E l \in Lock, mode \in {"shared", "own"} : Grab(p, l, mode)
    BY <2>3 DEF HoldOK, Grab, CanOwn, CanShare
  <2>4. CASE CanShare("cache") /\ Passes(p)
    BY <2>4 DEF HoldOK, Passes, Without, CanShare, Lock
  <2>. QED
    BY <1>1, <2>1, <2>2, <2>3, <2>4, Locking
<1>. QED
  BY <1>1, Elsewhere DEF HoldOK

\* A call stays in its program.
LEMMA ControlNext ==
    ASSUME TypeOK, LocalsOK, [Next]_vars
    PROVE  pc' \in [Process -> PC] /\ conn' \in [Process -> Inode \cup {Closed}]
<1>1. ASSUME NEW p \in Process, Acts(p) PROVE pc' \in [Process -> PC]
  <2>1. CASE Replace(p)
    BY <2>1 DEF Replace, After, LocalsOK, PC
  <2>2. CASE ~Replace(p)
    BY <1>1, <2>2, Going DEF Goto, LocalsOK
  <2>. QED
    BY <2>1, <2>2
<1>2. ASSUME NEW p \in Process, Acts(p) PROVE conn' \in [Process -> Inode \cup {Closed}]
  BY <1>2, Connecting DEF Closes, Opens, Compatible, Generation, TypeOK, LocalsOK
<1>. QED
  BY <1>1, <1>2, Elsewhere DEF LocalsOK

\* What another process holds, and where it stands, is its own.
LEMMA OthersStay ==
    ASSUME TypeOK, LocalsOK, NEW p \in Process, Acts(p), NEW q \in Process, q # p
    PROVE  /\ pc'[q] = pc[q] /\ conn'[q] = conn[q]
           /\ \A l \in Lock : hold'[l][q] = hold[l][q]
           /\ ~Replace(p) => my'[q] = my[q]
<1>1. conn'[q] = conn[q]
  BY Connecting DEF Closes, Opens, LocalsOK
<1>2. ASSUME NEW l \in Lock PROVE hold'[l][q] = hold[l][q]
  <2>1. CASE \E ls : Drop(p, ls)
    BY <2>1 DEF Drop, Without, TypeOK
  <2>2. CASE \E k \in Lock, mode \in {"shared", "own"} : Grab(p, k, mode)
    BY <2>2 DEF Grab, TypeOK
  <2>3. CASE Passes(p)
    BY <2>3 DEF Passes, Without, Lock, TypeOK
  <2>. QED
    BY <2>1, <2>2, <2>3, Locking
<1>3. CASE Replace(p)
  BY <1>1, <1>2, <1>3 DEF Replace, LocalsOK
<1>4. CASE ~Replace(p)
  <2>1. PICK c : \E to \in PC : Goto(p, to, c)
    BY <1>4, Going
  <2>2. pc'[q] = pc[q] /\ my'[q] = my[q]
    BY <2>1 DEF Goto, LocalsOK
  <2>. QED
    BY <1>1, <1>2, <2>2
<1>. QED
  BY <1>3, <1>4

\* Others only learn that a generation was published.
LEMMA OthersRaced ==
    ASSUME TypeOK, LocalsOK, NEW p \in Process, Acts(p), NEW q \in Process, q # p
    PROVE  /\ my'[q].compared = my[q].compared /\ my'[q].begun = my[q].begun
           /\ my'[q].verdict = my[q].verdict /\ my'[q].opened = my[q].opened
           /\ my[q].raced => my'[q].raced
           /\ Replace(p) /\ pc[q] \in {"open", "serve"} => my'[q].raced
<1>1. CASE Replace(p)
  <2>. DEFINE o == my[q].raced \/ pc[q] \in {"open", "serve"}
  <2>1. my[q] \in Locals /\ my'[q] = [my[q] EXCEPT !.raced = o]
    BY <1>1 DEF Replace, LocalsOK
  <2>2. o \in BOOLEAN
    BY <2>1 DEF Locals
  <2>3. my'[q].raced = o
    BY <2>1 DEF Locals
  <2>. QED
    BY <2>1, <2>3 DEF Locals
<1>2. CASE ~Replace(p)
  BY <1>2, OthersStay
<1>. QED
  BY <1>1, <1>2

-----------------------------------------------------------------------------
(* Locks and connections.                                                  *)

LEMMA GoesTo ==
    ASSUME LocalsOK, NEW p \in Process, NEW to, NEW c, Goto(p, to, c)
    PROVE  pc'[p] = to /\ (to # "idle" => my'[p] = c)
BY DEF Goto, LocalsOK

\* A check goes on to the generation it compared, or to a refresh of it.
LEMMA CompareGoes ==
    ASSUME LocalsOK, NEW p \in Process, Compare(p)
    PROVE  pc'[p] \in {"open", "read", "write"}
<1>1. ASSUME NEW c, Goto(p, "open", c) \/ Goto(p, "read", c) \/ Goto(p, "write", c)
      PROVE  pc'[p] \in {"open", "read", "write"}
  BY <1>1, GoesTo
<1>2. \/ \E c : Goto(p, "open", c)
      \/ \E c : Goto(p, "read", c)
      \/ \E c : Goto(p, "write", c)
  BY DEF Compare, CompareOr
<1>. QED
  BY <1>1, <1>2

\* A lock that does not come ends the call, or its refresh.
LEMMA BusyGoes ==
    ASSUME LocalsOK, NEW p \in Process, Busy(p)
    PROVE  pc'[p] \in {"open", "read", "write", "idle"}
<1>1. \/ Goto(p, "read", [my[p] EXCEPT !.opened = FALSE])
      \/ Goto(p, Refresh(p), [my[p] EXCEPT !.verdict = "mended"])
      \/ Goto(p, "open", [my[p] EXCEPT !.verdict = "busy", !.compared = None])
      \/ Goto(p, "idle", NoCall)
  BY DEF Busy
<1>. QED
  BY <1>1, GoesTo DEF Refresh

\* Every step that needs a lock comes after the one that takes it.
LEMMA LocksNext ==
    ASSUME TypeOK, LocalsOK, LocksFollowPC, [Next]_vars
    PROVE  LocksFollowPC'
<1>1. ASSUME NEW p \in Process, Acts(p) PROVE LocksOf(p)'
  <2>. USE DEF LocksOf, Goto, LocalsOK, TypeOK, Lock
  <2>0. LocksOf(p)
    BY DEF LocksFollowPC
  <2>1. CASE \/ Check(p) \/ Open(p) \/ Write(p) \/ Publish(p) \/ CloseGate(p) \/ Drain(p)
             \/ DiscardLock(p) \/ CommitLock(p)
    BY <2>0, <2>1 DEF Check, Open, Write, Publish, CloseGate, Drain, DiscardLock,
       CommitLock, Take, Grab
  <2>2. CASE BuildLock(p)
    BY <2>0, <2>2 DEF BuildLock, Take, Grab, Refresh
  <2>3. CASE Connect(p) \/ Serve(p)
    BY <2>0, <2>3 DEF Connect, Serve, Without, Drop
  <2>4. CASE Sweep(p) \/ Recover(p) \/ Create(p) \/ Index(p)
    BY <2>0, <2>4 DEF Sweep, Recover, Create, Index
  <2>5. CASE Compare(p)
    BY <2>5, CompareGoes
  <2>6. CASE Start(p) \/ Answer(p) \/ Commit(p) \/ Kill(p)
    BY <2>6 DEF Start, Begin, Answer, Commit, Kill
  <2>7. ASSUME Return(p) \/ Damaged(p) PROVE pc'[p] \in {"idle", "check", "open", "discard"}
    BY <2>7 DEF Return, After, Damaged
  <2>8. CASE Read(p)
    BY <2>0, <2>7, <2>8 DEF Read, Rebuild
  <2>9. CASE Rescan(p)
    BY <2>0, <2>7, <2>9 DEF Rescan, Rebuild, Drop, Without
  <2>10. CASE Fill(p)
    BY <2>7, <2>10 DEF Fill
  <2>11. CASE Replace(p)
    BY <2>11 DEF Replace, After
  <2>12. CASE Discard(p)
    BY <2>12 DEF Discard, Refresh
  <2>13. CASE Busy(p)
    BY <2>13, BusyGoes
  <2>. QED
    BY <1>1, <2>1, <2>2, <2>3, <2>4, <2>5, <2>6, <2>8, <2>9, <2>10, <2>11, <2>12, <2>13
       DEF Acts, Step, Expire
<1>2. ASSUME NEW p \in Process, Acts(p), NEW q \in Process, q # p PROVE LocksOf(q)'
  BY <1>2, OthersStay DEF LocksFollowPC, LocksOf, Lock
<1>3. CASE UNCHANGED <<pc, hold>>
  BY <1>3 DEF LocksFollowPC, LocksOf
<1>. QED
  BY <1>1, <1>2, <1>3, Elsewhere DEF LocksFollowPC

\* A connection is opened with its lock, and closed before the lock goes.
LEMMA ConnectionsNext ==
    ASSUME TypeOK, LocalsOK, ConnectedUnderLock, [Next]_vars
    PROVE  ConnectedUnderLock'
<1>1. ASSUME NEW p \in Process, Acts(p) PROVE ConnectionOf(p)'
  <2>. USE DEF ConnectionOf, LocalsOK
  <2>0. ConnectionOf(p)
    BY DEF ConnectedUnderLock
  <2>b. Closes(p) => conn'[p] = Closed
    BY DEF Closes
  <2>c. Compatible /\ Opens(p) => conn'[p] = live.inode /\ live.inode # Closed
    <3>1. Compatible => live \in Generation
      BY DEF Compatible, TypeOK
    <3>2. live \in Generation => live.inode \in Inode
      BY DEF Generation
    <3>3. 0 \notin Inode
      BY CacheAssumption, FS_CardinalityType DEF Inode
    <3>. QED
      BY <3>1, <3>2, <3>3 DEF Opens, Closed
  <2>1. CASE \/ Check(p) \/ Open(p) \/ Write(p) \/ Publish(p) \/ CloseGate(p) \/ Drain(p)
             \/ DiscardLock(p) \/ CommitLock(p) \/ BuildLock(p)
    BY <2>0, <2>1, GoesTo DEF Check, Open, Write, Publish, CloseGate, Drain, DiscardLock,
       CommitLock, BuildLock, Refresh, Take
  <2>2. CASE Connect(p)
    <3>1. pc'[p] = "compare" /\ my'[p].opened = Compatible
      BY <2>2, GoesTo DEF Connect, Locals
    <3>. QED
      BY <2>0, <2>2, <2>c, <3>1 DEF Connect
  <2>3. CASE Serve(p)
    BY <2>0, <2>3, GoesTo, <2>c DEF Serve
  <2>4. CASE Sweep(p) \/ Recover(p) \/ Create(p) \/ Index(p) \/ Start(p)
    BY <2>0, <2>4, GoesTo DEF Sweep, Recover, Create, Index, Start, Begin
  <2>5. CASE Compare(p)
    BY <2>5, <2>b, CompareGoes DEF Compare, CompareOr
  <2>6. CASE Answer(p) \/ Commit(p) \/ Kill(p)
    BY <2>0, <2>6, GoesTo, <2>b DEF Answer, Commit, Kill
  <2>7. ASSUME Return(p) \/ Damaged(p)
        PROVE  pc'[p] \in {"idle", "check", "open", "discard"} /\ conn'[p] = Closed
    BY <2>7, GoesTo, <2>b DEF Return, After, Damaged
  <2>8. CASE Read(p)
    BY <2>0, <2>7, <2>8, GoesTo DEF Read, Rebuild
  <2>9. CASE Rescan(p)
    BY <2>0, <2>7, <2>9, GoesTo, <2>c DEF Rescan, Rebuild
  <2>10. CASE Fill(p)
    BY <2>7, <2>10 DEF Fill
  <2>11. CASE Replace(p)
    BY <2>0, <2>11 DEF Replace, After
  <2>12. CASE Discard(p)
    BY <2>0, <2>12, GoesTo DEF Discard, Refresh
  <2>13. CASE Busy(p)
    BY <2>13, <2>b, BusyGoes DEF Busy
  <2>. QED
    BY <1>1, <2>1, <2>2, <2>3, <2>4, <2>5, <2>6, <2>8, <2>9, <2>10, <2>11, <2>12, <2>13
       DEF Acts, Step, Expire
<1>2. ASSUME NEW p \in Process, Acts(p), NEW q \in Process, q # p PROVE ConnectionOf(q)'
  BY <1>2, OthersStay, OthersRaced DEF ConnectedUnderLock, ConnectionOf
<1>3. CASE UNCHANGED <<pc, my, conn>>
  BY <1>3 DEF ConnectedUnderLock, ConnectionOf
<1>. QED
  BY <1>1, <1>2, <1>3, Elsewhere DEF ConnectedUnderLock

-----------------------------------------------------------------------------
(* Generations.                                                            *)

\* Two steps that need the same lock are not of two processes.
LEMMA OneOwner ==
    ASSUME TypeOK, NEW l \in Lock, NEW p \in Process, NEW q \in Process,
           hold[l][p] = "own", hold[l][q] # "no"
    PROVE  p = q
BY DEF TypeOK

\* A replacement or a discard is alone with the generation.
LEMMA AloneAtReplace ==
    ASSUME TypeOK, LocksFollowPC, ConnectedUnderLock, NEW p \in Process, pc[p] = "replace",
           NEW q \in Process
    PROVE  conn[q] = Closed /\ pc[q] \notin {"answer", "compare"} /\ (q # p => pc[q] # "fill")
<1>1. \A l \in {"write", "cache"} : hold[l][p] = "own"
  BY DEF LocksFollowPC, LocksOf
<1>2. ASSUME q # p PROVE hold["write"][q] = "no" /\ hold["cache"][q] = "no"
  BY <1>1, <1>2, OneOwner DEF Lock, TypeOK
<1>3. q # p => pc[q] \notin {"compare", "answer", "fill"}
  BY <1>2 DEF LocksFollowPC, LocksOf
<1>. QED
  BY <1>3 DEF ConnectedUnderLock, ConnectionOf

\* A refresh in place keeps the file of the generation and its place; so does
\* damage.
LEMMA SameInode ==
    ASSUME TypeOK, [Next]_vars, live # None,
           \A p \in Process : ~Replace(p) /\ ~Discard(p)
    PROVE  live' # None /\ live'.inode = live.inode
<1>. live \in Generation
  BY DEF TypeOK
<1>1. ASSUME NEW p \in Process, Fill(p) PROVE live' # None /\ live'.inode = live.inode
  <2>1. live'.inode = live.inode /\ "inode" \in DOMAIN live'
    BY <1>1 DEF Fill, Filled, Generation
  <2>. QED
    BY <2>1 DEF None
<1>2. CASE Damage
  <2>1. live'.inode = live.inode /\ "inode" \in DOMAIN live'
    BY <1>2 DEF Damage, Generation
  <2>. QED
    BY <2>1 DEF None
<1>. QED
  BY <1>1, <1>2, LiveSteps

\* A connection's generation stays live until it closes.
LEMMA GenerationStays ==
    ASSUME TypeOK, LocalsOK, LocksFollowPC, ConnectedUnderLock, OneGeneration, [Next]_vars
    PROVE  OneGeneration'
<1>. SUFFICES ASSUME NEW q \in Process, conn'[q] # Closed
              PROVE  live' # None /\ live'.inode = conn'[q]
  BY DEF OneGeneration
<1>1. ASSUME NEW p \in Process, Replace(p) \/ Discard(p) PROVE FALSE
  <2>1. conn' = conn /\ pc[p] = "replace"
    BY <1>1 DEF Replace, Discard
  <2>. QED
    BY <2>1, AloneAtReplace
<1>2. live # None => live' # None /\ live'.inode = live.inode
  BY <1>1, SameInode
<1>3. conn'[q] = conn[q] \/ (live # None /\ conn'[q] = live.inode)
  <2>1. ASSUME NEW p \in Process, Acts(p)
        PROVE  conn'[q] = conn[q] \/ (live # None /\ conn'[q] = live.inode)
    <3>1. CASE q = p
      BY <2>1, <3>1, Connecting DEF Closes, Opens, Compatible, LocalsOK
    <3>2. CASE q # p
      BY <2>1, <3>2, OthersStay
    <3>. QED
      BY <3>1, <3>2
  <2>. QED
    BY <2>1, Elsewhere
<1>. QED
  BY <1>2, <1>3 DEF OneGeneration

-----------------------------------------------------------------------------
(* What generations hold.                                                  *)

LEMMA UptoTransitive ==
    ASSUME NEW a \in Fresh, NEW b \in Fresh, NEW c \in Fresh, Upto(a, b), Upto(b, c)
    PROVE  Upto(a, c)
BY CacheAssumption DEF Fresh, Upto

\* A refresh reads a changed file after its fingerprint, and keeps the others.
LEMMA FillIsTrue ==
    ASSUME TypeOK, CallsOK, ScanApplies, LiveIsTrue, NEW p \in Process, Fill(p)
    PROVE  /\ live # None /\ live' \in Generation
           /\ Upto(live'.stamp, live'.content) /\ Upto(live'.content, brain)
           /\ Upto(live.content, live'.content) /\ Upto(my[p].begun, live'.content)
<1>. DEFINE scan == my[p].compared
<1>1. /\ live \in Generation /\ live # None /\ scan \in Scans /\ scan # None
      /\ scan.known = live.stamp /\ Upto(my[p].begun, scan.current) /\ Upto(scan.current, brain)
      /\ my[p].begun \in Fresh
  BY DEF Fill, ScanApplies, CallsOK, CallOK, Locals, TypeOK
<1>2. /\ live.content \in Fresh /\ scan.current \in Fresh /\ scan.known \in Fresh
      /\ brain \in Fresh
  BY <1>1 DEF Generation, Scans, TypeOK
<1>3. /\ live'.stamp = scan.current
      /\ live'.content = [f \in Path |->
            IF scan.known[f] = scan.current[f] THEN live.content[f] ELSE brain[f]]
      /\ live' \in Generation
  BY <1>1, <1>2 DEF Fill, Filled, Generation, Fresh
<1>. HIDE DEF scan
<1>4. Upto(live.stamp, live.content) /\ Upto(live.content, brain)
  BY <1>1 DEF LiveIsTrue
<1>5. Upto(live'.stamp, live'.content) /\ Upto(live'.content, brain)
      /\ Upto(live.content, live'.content)
  BY <1>1, <1>2, <1>3, <1>4, CacheAssumption DEF Upto, Fresh
<1>6. live'.content \in Fresh
  BY <1>3 DEF Generation
<1>7. Upto(my[p].begun, live'.content)
  BY <1>1, <1>2, <1>3, <1>5, <1>6, UptoTransitive
<1>. QED
  BY <1>1, <1>3, <1>5, <1>7

\* Stored fingerprints are never ahead of stored bytes.
LEMMA LiveNext ==
    ASSUME TypeOK, LocalsOK, CallsOK, ScanApplies, DraftIsTrue, LiveIsTrue, [Next]_vars
    PROVE  LiveIsTrue'
<1>0. /\ brain \in Fresh /\ brain' \in Fresh /\ Upto(brain, brain')
      /\ \A b \in Fresh : Upto(b, brain) => Upto(b, brain')
  BY BrainGrows, UptoTransitive DEF TypeOK
<1>1. ASSUME NEW g \in Generation, Upto(g.stamp, g.content), Upto(g.content, brain), live' = g
      PROVE  LiveIsTrue'
  BY <1>0, <1>1 DEF LiveIsTrue, Generation
<1>2. CASE live' = None
  BY <1>2 DEF LiveIsTrue
<1>3. CASE live' = live
  BY <1>1, <1>2, <1>3 DEF LiveIsTrue, TypeOK
<1>4. CASE Damage
  <2>1. /\ live \in Generation /\ live' \in Generation
        /\ live'.stamp = live.stamp /\ live'.content = live.content
    BY <1>4 DEF Damage, Generation, TypeOK
  <2>. QED
    BY <1>1, <1>4, <2>1 DEF Damage, LiveIsTrue
<1>5. ASSUME NEW p \in Process, Fill(p) PROVE LiveIsTrue'
  BY <1>1, <1>5, FillIsTrue
<1>6. ASSUME NEW p \in Process, Replace(p) PROVE LiveIsTrue'
  <2>1. Building(p) /\ pc[p] # "index" /\ live' = draft
    BY <1>6 DEF Replace, Building
  <2>. QED
    BY <1>1, <2>1 DEF DraftIsTrue, DraftOf, TypeOK
<1>7. ASSUME NEW p \in Process, Discard(p) PROVE LiveIsTrue'
  BY <1>2, <1>3, <1>7 DEF Discard
<1>. QED
  BY <1>3, <1>4, <1>5, <1>6, <1>7, LiveSteps

\* A build that is running is no one else's to touch.
LEMMA DraftStays ==
    ASSUME TypeOK, LocksFollowPC, [Next]_vars, NEW q \in Process, Building(q),
           ~(Create(q) \/ Index(q) \/ Replace(q) \/ Busy(q))
    PROVE  draft' = draft
<1>1. hold["build"][q] = "own"
  BY DEF Building, LocksFollowPC, LocksOf
<1>2. ~CanOwn("build")
  BY <1>1 DEF CanOwn
<1>3. ASSUME NEW p \in Process, Create(p) \/ Index(p) \/ Replace(p) PROVE p = q
  <2>1. hold["build"][p] = "own"
    BY <1>3 DEF Create, Index, Replace, LocksFollowPC, LocksOf
  <2>. QED
    BY <1>1, <2>1, OneOwner DEF Lock
<1>4. ASSUME NEW p \in Process, hold["build"][p] = "own" PROVE p = q
  BY <1>1, <1>4, OneOwner DEF Lock
<1>. QED
  BY <1>2, <1>3, <1>4, DraftSteps

\* What will be published is fingerprinted before it is read.
LEMMA DraftNext ==
    ASSUME TypeOK, LocalsOK, CallsOK, LocksFollowPC, ScanApplies, DraftIsTrue, [Next]_vars
    PROVE  DraftIsTrue'
<1>0. /\ brain \in Fresh /\ brain' \in Fresh /\ Upto(brain, brain')
      /\ \A b \in Fresh : Upto(b, brain) => Upto(b, brain')
  BY BrainGrows, UptoTransitive DEF TypeOK
<1>1. ASSUME NEW q \in Process, Building(q), draft' = draft,
             my'[q].begun = my[q].begun, pc'[q] = "index" => pc[q] = "index",
             pc[q] = "index" => pc'[q] = "index"
      PROVE  DraftOf(q)'
  <2>1. draft \in Generation
    BY <1>1 DEF DraftIsTrue, DraftOf, TypeOK
  <2>2. draft.stamp \in Fresh /\ draft.content \in Fresh
    BY <2>1 DEF Generation
  <2>. QED
    BY <1>0, <1>1, <2>2 DEF DraftIsTrue, DraftOf
<1>2. ASSUME NEW p \in Process, Acts(p), NEW q \in Process, q # p, Building(q)'
      PROVE  DraftOf(q)'
  <2>1. pc'[q] = pc[q] /\ my'[q].verdict = my[q].verdict /\ my'[q].begun = my[q].begun
    BY <1>2, OthersStay, OthersRaced
  <2>2. Building(q)
    BY <1>2, <2>1 DEF Building, Discarding
  <2>3. ~(Create(q) \/ Index(q) \/ Replace(q) \/ Busy(q))
    <3>1. CASE Create(q) \/ Index(q)
      BY <2>1, <3>1, GoesTo DEF Create, Index
    <3>2. CASE Replace(q)
      BY <2>1, <3>2 DEF Replace, After, LocalsOK
    <3>3. CASE Busy(q)
      BY <2>1, <2>2, <3>3, BusyGoes DEF Building
    <3>. QED
      BY <3>1, <3>2, <3>3
  <2>. QED
    BY <1>1, <2>1, <2>2, <2>3, DraftStays
<1>3. ASSUME NEW p \in Process, Acts(p), Building(p)' PROVE DraftOf(p)'
  <2>1. CASE Create(p)
    <3>1. /\ draft' # None /\ draft'.stamp = brain /\ pc'[p] = "index" /\ my'[p] = my[p]
          /\ brain' = brain
      BY <2>1, GoesTo DEF Create, None
    <3>2. Upto(my[p].begun, brain) /\ Upto(brain, brain)
      BY <1>0 DEF CallsOK, CallOK, Upto, Fresh
    <3>. QED
      BY <3>1, <3>2 DEF DraftOf
  <2>2. CASE Index(p)
    <3>1. draft \in Generation /\ DraftOf(p) /\ Building(p)
      BY <2>2 DEF Index, DraftIsTrue, DraftOf, Building, TypeOK
    <3>2. /\ draft'.stamp = draft.stamp /\ draft'.content = brain /\ "stamp" \in DOMAIN draft'
          /\ my'[p] = my[p] /\ brain' = brain
      BY <2>2, <3>1, GoesTo DEF Index, Generation
    <3>3. Upto(brain, brain) /\ draft' # None
      BY <1>0, <3>2 DEF Upto, Fresh, None
    <3>. QED
      BY <3>1, <3>2, <3>3 DEF DraftOf
  <2>3. CASE Publish(p) \/ CloseGate(p) \/ Drain(p)
    <3>1. /\ pc[p] \in {"publish", "close", "drain"} /\ pc'[p] \in {"close", "drain", "replace"}
          /\ my'[p] = my[p] /\ draft' = draft
      BY <2>3, GoesTo DEF Publish, CloseGate, Drain, Take, files
    <3>2. Building(p)
      BY <1>3, <3>1 DEF Building, Discarding
    <3>. QED
      BY <1>1, <3>1, <3>2
  <2>4. CASE DiscardLock(p)
    <3>1. pc'[p] = "publish" /\ my'[p] = my[p] /\ Discarding(p)
      BY <2>4, GoesTo DEF DiscardLock, Take, ScanApplies
    <3>. QED
      BY <1>3, <3>1 DEF Building, Discarding
  <2>5. CASE Start(p) \/ Kill(p) \/ Sweep(p) \/ Check(p) \/ Connect(p) \/ Open(p) \/ Serve(p)
             \/ Answer(p) \/ Write(p) \/ BuildLock(p) \/ Recover(p) \/ CommitLock(p) \/ Commit(p)
    BY <1>3, <2>5, GoesTo DEF Building, Start, Begin, Kill, Sweep, Check, Connect, Open, Serve,
       Answer, Write, BuildLock, Recover, CommitLock, Commit, Take, Refresh
  <2>6. CASE Compare(p) \/ Busy(p)
    BY <1>3, <2>6, CompareGoes, BusyGoes DEF Building
  <2>7. CASE Read(p) \/ Rescan(p) \/ Fill(p)
    BY <1>3, <2>7, GoesTo DEF Building, Read, Rescan, Fill, Rebuild, Return, After, Damaged
  <2>8. CASE Replace(p) \/ Discard(p)
    <3>1. Replace(p) => pc'[p] \in {"idle", "check", "open"}
      BY DEF Replace, After, LocalsOK
    <3>2. Discard(p) => pc'[p] \in {"idle", "write", "read"}
      BY GoesTo DEF Discard, Refresh
    <3>. QED
      BY <1>3, <2>8, <3>1, <3>2 DEF Building
  <2>. QED
    BY <1>3, <2>1, <2>2, <2>3, <2>4, <2>5, <2>6, <2>7, <2>8 DEF Acts, Step, Expire
<1>4. ASSUME UNCHANGED <<pc, my, draft>>, NEW q \in Process, Building(q)' PROVE DraftOf(q)'
  BY <1>1, <1>4 DEF Building, Discarding
<1>. QED
  BY <1>2, <1>3, <1>4, Elsewhere DEF DraftIsTrue, DraftOf

-----------------------------------------------------------------------------
(* What replies find.                                                      *)

\* A scan still describes the generation when it is applied: the writer lock
\* was taken before it was compared again.
LEMMA ScanNext ==
    ASSUME TypeOK, LocalsOK, CallsOK, LocksFollowPC, ScanApplies, [Next]_vars
    PROVE  ScanApplies'
<1>1. ASSUME NEW q \in Process, pc[q] = "fill", ~Fill(q)
      PROVE  live # None => live' # None /\ live'.stamp = live.stamp
  <2>1. hold["write"][q] = "own"
    BY <1>1 DEF LocksFollowPC, LocksOf
  <2>2. ASSUME NEW p \in Process, Fill(p) \/ Replace(p) \/ Discard(p) PROVE FALSE
    <3>1. hold["write"][p] = "own" /\ pc[p] \in {"fill", "replace"}
      BY <2>2 DEF Fill, Replace, Discard, LocksFollowPC, LocksOf
    <3>2. p = q
      BY <2>1, <3>1, OneOwner DEF Lock
    <3>. QED
      BY <1>1, <2>2, <3>2 DEF Replace, Discard
  <2>3. CASE Damage
    <3>1. live \in Generation
      BY <2>3 DEF Damage, TypeOK
    <3>2. live'.stamp = live.stamp /\ "stamp" \in DOMAIN live'
      BY <2>3, <3>1 DEF Damage, Generation
    <3>. QED
      BY <3>2 DEF None
  <2>. QED
    BY <2>2, <2>3, LiveSteps
<1>2. ASSUME NEW p \in Process, Acts(p), NEW q \in Process, q # p
      PROVE  /\ pc'[q] = "fill" =>
                   live' # None /\ my'[q].compared # None /\ my'[q].compared.known = live'.stamp
             /\ pc'[q] = "discard" => Discarding(q)'
  <2>1. /\ pc'[q] = pc[q] /\ my'[q].verdict = my[q].verdict
        /\ my'[q].compared = my[q].compared
    BY <1>2, OthersStay, OthersRaced
  <2>2. ~Fill(q) \/ pc'[q] # "fill"
    BY GoesTo DEF Fill, Return, After
  <2>. QED
    BY <1>1, <2>1, <2>2 DEF ScanApplies, Discarding
<1>3. ASSUME NEW p \in Process, Acts(p), pc'[p] = "fill"
      PROVE  live' # None /\ my'[p].compared # None /\ my'[p].compared.known = live'.stamp
  <2>1. Rescan(p) /\ Compatible
    <3>1. CASE Start(p) \/ Kill(p) \/ Sweep(p) \/ Check(p) \/ Connect(p) \/ Open(p) \/ Serve(p)
               \/ Answer(p) \/ Write(p) \/ BuildLock(p) \/ Recover(p) \/ CommitLock(p) \/ Commit(p)
      BY <1>3, <3>1, GoesTo DEF Start, Begin, Kill, Sweep, Check, Connect, Open, Serve,
         Answer, Write, BuildLock, Recover, CommitLock, Commit, Take, Refresh
    <3>2. CASE Create(p) \/ Index(p) \/ Publish(p) \/ CloseGate(p) \/ Drain(p) \/ DiscardLock(p)
      BY <1>3, <3>2, GoesTo DEF Create, Index, Publish, CloseGate, Drain, DiscardLock, Take
    <3>3. CASE Compare(p) \/ Busy(p)
      BY <1>3, <3>3, CompareGoes, BusyGoes
    <3>4. CASE Read(p) \/ Fill(p)
      BY <1>3, <3>4, GoesTo DEF Read, Fill, Rebuild, Return, After, Damaged
    <3>5. CASE Discard(p)
      BY <1>3, <3>5, GoesTo DEF Discard, Refresh
    <3>6. CASE Replace(p)
      BY <1>3, <3>6 DEF Replace, After, LocalsOK
    <3>7. CASE Rescan(p)
      BY <1>3, <3>7, GoesTo DEF Rescan, Rebuild, Damaged
    <3>. QED
      BY <1>3, <3>1, <3>2, <3>3, <3>4, <3>5, <3>6, <3>7 DEF Acts, Step, Expire
  <2>2. ASSUME NEW x, x # None, x.known = live.stamp, Goto(p, "fill", [my[p] EXCEPT !.compared = x])
        PROVE  my'[p].compared # None /\ my'[p].compared.known = live.stamp
    BY <2>2, GoesTo DEF CallsOK, CallOK, Locals
  <2>3. Scan # None /\ Scan.known = live.stamp
    BY DEF Scan, None
  <2>4. live' = live /\ live # None
    BY <2>1 DEF Rescan, Damaged, Compatible, files
  <2>5. \/ Goto(p, "fill", [my[p] EXCEPT !.compared = Scan])
        \/ /\ my[p].compared # None /\ my[p].compared.known = live.stamp
           /\ Goto(p, "fill", [my[p] EXCEPT !.compared = my[p].compared])
    BY <1>3, <2>1, GoesTo DEF Rescan, Damaged
  <2>. QED
    BY <2>2, <2>3, <2>4, <2>5
<1>4. ASSUME NEW p \in Process, Acts(p), pc'[p] = "discard" PROVE Discarding(p)'
  <2>1. my[p] \in Locals
    BY DEF LocalsOK
  <2>2. ASSUME NEW to, NEW v \in {"damaged", "failed"}, Goto(p, to, [my[p] EXCEPT !.verdict = v])
        PROVE  Discarding(p)'
    BY <1>4, <2>1, <2>2, GoesTo DEF Locals, Discarding
  <2>3. Damaged(p) \/ Answer(p)
    <3>1. CASE Start(p) \/ Kill(p) \/ Sweep(p) \/ Check(p) \/ Connect(p) \/ Open(p) \/ Serve(p)
               \/ Write(p) \/ BuildLock(p) \/ Recover(p) \/ CommitLock(p) \/ Commit(p)
      BY <1>4, <3>1, GoesTo DEF Start, Begin, Kill, Sweep, Check, Connect, Open, Serve,
         Write, BuildLock, Recover, CommitLock, Commit, Take, Refresh
    <3>2. CASE Create(p) \/ Index(p) \/ Publish(p) \/ CloseGate(p) \/ Drain(p) \/ DiscardLock(p)
      BY <1>4, <3>2, GoesTo DEF Create, Index, Publish, CloseGate, Drain, DiscardLock, Take
    <3>3. CASE Compare(p) \/ Busy(p)
      BY <1>4, <3>3, CompareGoes, BusyGoes
    <3>4. CASE Read(p) \/ Fill(p) \/ Rescan(p)
      BY <1>4, <3>4, GoesTo DEF Read, Fill, Rescan, Rebuild, Return, After
    <3>5. CASE Discard(p)
      BY <1>4, <3>5, GoesTo DEF Discard, Refresh
    <3>6. CASE Replace(p)
      BY <1>4, <3>6 DEF Replace, After, LocalsOK
    <3>. QED
      BY <1>4, <3>1, <3>2, <3>3, <3>4, <3>5, <3>6 DEF Acts, Step, Expire
  <2>. QED
    BY <2>2, <2>3 DEF Damaged, Answer
<1>5. CASE \E p \in Process : Acts(p)
  <2>1. PICK p \in Process : Acts(p)
    BY <1>5
  <2>. QED
    BY <1>2, <1>3, <1>4, <2>1 DEF ScanApplies
<1>6. CASE ~\E p \in Process : Acts(p)
  <2>1. UNCHANGED <<pc, my>>
    BY <1>6, Elsewhere
  <2>2. ASSUME NEW q \in Process, pc[q] = "fill" PROVE live' # None /\ live'.stamp = live.stamp
    BY <1>1, <1>6, <2>2 DEF Acts, Step, ScanApplies
  <2>. QED
    BY <2>1, <2>2 DEF ScanApplies, Discarding
<1>. QED
  BY <1>5, <1>6

\* A fingerprint that is right now, and was stored after the call began, means
\* that all the call may expect is there.
LEMMA UnchangedIsFresh ==
    ASSUME TypeOK, CallsOK, LiveIsTrue, NEW p \in Process, live # None, Unchanged(Scan)
    PROVE  Upto(my[p].begun, live.content)
<1>1. my[p].begun \in Fresh /\ Upto(my[p].begun, brain)
  BY DEF CallsOK, CallOK, Locals
<1>2. live.stamp = brain /\ Upto(live.stamp, live.content) /\ live.content \in Fresh
      /\ brain \in Fresh
  BY DEF Unchanged, Scan, LiveIsTrue, TypeOK, Generation
<1>. QED
  BY <1>1, <1>2, UptoTransitive

\* A reply goes to its generation after a comparison, a refresh or a build of
\* its own; until it answers, rows only become newer, unless another build
\* replaces them.
LEMMA FoundNext ==
    ASSUME IInv, [Next]_vars
    PROVE  FoundFresh'
<1>. USE DEF IInv
<1>1. ASSUME NEW q \in Process, FoundOf(q), pc'[q] \in {"open", "serve", "answer"},
             pc[q] \in {"open", "serve", "answer"}, my'[q].verdict = my[q].verdict,
             my'[q].begun = my[q].begun, my[q].raced => my'[q].raced,
             \A p \in Process : Replace(p) => p # q /\ my'[q].raced
      PROVE  FoundOf(q)'
  <2>1. my[q].begun \in Fresh
    BY DEF CallsOK, CallOK, Locals
  <2>2. CASE UNCHANGED live
    BY <1>1, <2>2 DEF FoundOf
  <2>3. CASE Damage
    <3>1. live \in Generation /\ live # None
      BY <2>3 DEF Damage, TypeOK
    <3>2. live'.content = live.content
      BY <2>3, <3>1 DEF Damage, Generation
    <3>. QED
      BY <1>1, <3>1, <3>2 DEF FoundOf
  <2>4. ASSUME NEW p \in Process, Fill(p) PROVE FoundOf(q)'
    <3>1. /\ live # None /\ Upto(live.content, live'.content)
          /\ live.content \in Fresh /\ live'.content \in Fresh
      BY <2>4, FillIsTrue DEF TypeOK, Generation
    <3>. QED
      BY <1>1, <2>1, <3>1, UptoTransitive DEF FoundOf
  <2>5. ASSUME NEW p \in Process, Replace(p) PROVE FoundOf(q)'
    BY <1>1, <2>5 DEF FoundOf
  <2>6. ASSUME NEW p \in Process, Discard(p) PROVE FoundOf(q)'
    BY <1>1, <2>6 DEF FoundOf, Discard
  <2>. QED
    BY <2>2, <2>3, <2>4, <2>5, <2>6, LiveSteps
<1>2. ASSUME NEW p \in Process, Acts(p), NEW q \in Process, q # p PROVE FoundOf(q)'
  <2>1. /\ pc'[q] = pc[q] /\ my'[q].verdict = my[q].verdict /\ my'[q].begun = my[q].begun
        /\ my[q].raced => my'[q].raced
    BY <1>2, OthersStay, OthersRaced
  <2>2. CASE pc[q] \notin {"open", "serve", "answer"}
    BY <2>1, <2>2 DEF FoundOf
  <2>3. CASE pc[q] \in {"open", "serve", "answer"}
    <3>1. ASSUME NEW r \in Process, Replace(r) PROVE r # q /\ my'[q].raced
      <4>1. pc[r] = "replace" /\ r # q /\ pc[q] # "answer"
        BY <2>3, <3>1, AloneAtReplace DEF Replace
      <4>2. Acts(r)
        BY <3>1 DEF Acts, Step
      <4>. QED
        BY <2>3, <3>1, <4>1, <4>2, OthersRaced
    <3>. QED
      BY <1>1, <2>1, <2>3, <3>1 DEF FoundFresh
  <2>. QED
    BY <2>2, <2>3
<1>3. ASSUME NEW p \in Process, Acts(p), pc'[p] \in {"open", "serve", "answer"} PROVE FoundOf(p)'
  <2>0. my[p] \in Locals
    BY DEF LocalsOK
  <2>1. CASE Open(p) \/ Serve(p)
    <3>1. pc[p] \in {"open", "serve"} /\ my'[p] = my[p] /\ live' = live
      BY <1>3, <2>1, GoesTo DEF Open, Serve, Take, files
    <3>. QED
      BY <3>1 DEF FoundFresh, FoundOf
  <2>2. CASE Compare(p)
    <3>1. live' = live
      BY <2>2 DEF Compare, CompareOr, files
    <3>2. my'[p].begun = my[p].begun /\ (my'[p].verdict = "ready" => my[p].opened /\ Unchanged(Scan))
      <4>. DEFINE keep(x, o, v) == [my[p] EXCEPT !.compared = x, !.opened = o, !.verdict = v]
      <4>1. \/ Goto(p, "open", keep(None, TRUE, "busy"))
            \/ Goto(p, "open", keep(None, TRUE, "ready")) /\ my[p].opened /\ Unchanged(Scan)
        BY <1>3, <2>2, GoesTo DEF Compare, CompareOr
      <4>2. my'[p] = keep(None, TRUE, "busy")
            \/ (my'[p] = keep(None, TRUE, "ready") /\ my[p].opened /\ Unchanged(Scan))
        BY <4>1, GoesTo
      <4>. QED
        BY <2>0, <4>2 DEF Locals
    <3>3. my[p].opened => live # None
      BY <2>2 DEF Compare, CompareOr, ConnectedUnderLock, ConnectionOf, OneGeneration
    <3>. QED
      BY <3>1, <3>2, <3>3, UnchangedIsFresh DEF FoundOf
  <2>3. CASE Fill(p)
    <3>1. my'[p].begun = my[p].begun
      <4>1. my'[p] = [my[p] EXCEPT !.compared = None, !.verdict = "ready", !.passes = 2]
        BY <1>3, <2>3, GoesTo DEF Fill, Return
      <4>. QED
        BY <2>0, <4>1 DEF Locals
    <3>. QED
      BY <2>3, <3>1, FillIsTrue DEF FoundOf
  <2>4. CASE Read(p)
    <3>1. Return(p) /\ Compatible /\ Unchanged(Scan) /\ live' = live
      BY <1>3, <2>4, GoesTo DEF Read, Rebuild, Damaged, files
    <3>2. my'[p].begun = my[p].begun
      <4>1. my'[p] = [my[p] EXCEPT !.compared = None, !.verdict = "ready", !.passes = 2]
        BY <1>3, <3>1, GoesTo DEF Return
      <4>. QED
        BY <2>0, <4>1 DEF Locals
    <3>. QED
      BY <3>1, <3>2, UnchangedIsFresh DEF FoundOf, Compatible
  <2>5. CASE Replace(p)
    <3>1. /\ live' = draft /\ Building(p) /\ pc[p] = "replace"
      BY <2>5 DEF Replace, Building
    <3>2. my'[p].begun = my[p].begun
      <4>1. pc'[p] = After(p)
        BY <2>5 DEF Replace, LocalsOK
      <4>2. my'[p] = [my[p] EXCEPT !.compared = None, !.verdict = "ready", !.passes = 2]
        BY <1>3, <2>5, <4>1 DEF Replace
      <4>. QED
        BY <2>0, <4>2 DEF Locals
    <3>3. draft \in Generation /\ Upto(my[p].begun, draft.stamp) /\ Upto(draft.stamp, draft.content)
      BY <3>1 DEF DraftIsTrue, DraftOf, TypeOK
    <3>4. my[p].begun \in Fresh /\ draft.stamp \in Fresh /\ draft.content \in Fresh
      BY <2>0, <3>3 DEF Locals, Generation
    <3>. QED
      BY <3>1, <3>2, <3>3, <3>4, UptoTransitive DEF FoundOf
  <2>6. CASE Busy(p)
    <3>1. Goto(p, "open", [my[p] EXCEPT !.verdict = "busy", !.compared = None])
      <4>1. Goto(p, Refresh(p), [my[p] EXCEPT !.verdict = "mended"]) => pc'[p] \in {"write", "read"}
        BY GoesTo DEF Refresh
      <4>. QED
        BY <1>3, <2>6, <4>1, GoesTo DEF Busy
    <3>2. my'[p].verdict = "busy"
      <4>1. my'[p] = [my[p] EXCEPT !.verdict = "busy", !.compared = None]
        BY <3>1, GoesTo
      <4>. QED
        BY <2>0, <4>1 DEF Locals
    <3>. QED
      BY <3>2 DEF FoundOf
  <2>7. CASE Start(p) \/ Kill(p) \/ Sweep(p) \/ Check(p) \/ Connect(p) \/ Answer(p) \/ Write(p)
             \/ BuildLock(p) \/ Recover(p) \/ CommitLock(p) \/ Commit(p)
    BY <1>3, <2>7, GoesTo DEF Start, Begin, Kill, Sweep, Check, Connect, Answer, Write,
       BuildLock, Recover, CommitLock, Commit, Take, Refresh
  <2>8. CASE Create(p) \/ Index(p) \/ Publish(p) \/ CloseGate(p) \/ Drain(p) \/ DiscardLock(p)
    BY <1>3, <2>8, GoesTo DEF Create, Index, Publish, CloseGate, Drain, DiscardLock, Take
  <2>9. CASE Rescan(p) \/ Discard(p)
    BY <1>3, <2>9, GoesTo DEF Rescan, Rebuild, Damaged, Discard, Refresh
  <2>. QED
    BY <1>3, <2>1, <2>2, <2>3, <2>4, <2>5, <2>6, <2>7, <2>8, <2>9 DEF Acts, Step, Expire
<1>4. CASE \E p \in Process : Acts(p)
  <2>1. PICK p \in Process : Acts(p)
    BY <1>4
  <2>2. pc'[p] \notin {"open", "serve", "answer"} => FoundOf(p)'
    BY DEF FoundOf
  <2>. QED
    BY <1>2, <1>3, <2>1, <2>2 DEF FoundFresh
<1>5. CASE ~\E p \in Process : Acts(p)
  <2>1. UNCHANGED <<pc, my>>
    BY <1>5, Elsewhere
  <2>2. ASSUME NEW p \in Process, Replace(p) PROVE FALSE
    BY <1>5, <2>2 DEF Acts, Step
  <2>3. ASSUME NEW q \in Process PROVE FoundOf(q)'
    <3>1. CASE pc[q] \in {"open", "serve", "answer"}
      BY <1>1, <2>1, <2>2, <3>1 DEF FoundFresh
    <3>. QED
      BY <2>1, <3>1 DEF FoundOf
  <2>. QED
    BY <2>3 DEF FoundFresh
<1>. QED
  BY <1>4, <1>5

-----------------------------------------------------------------------------
(* Theorems.                                                               *)

\* Every step keeps the types.
LEMMA TypeNext ==
    ASSUME IInv, [Next]_vars
    PROVE  TypeOK' /\ LocalsOK'
<1>1. /\ HoldOK' /\ brain' \in Fresh /\ signature' \in 0..MaxEdits
      /\ live' \in Generation \cup {None} /\ draft' \in Generation \cup {None}
  BY HoldNext, BrainGrows, GenerationNext DEF IInv, TypeOK, HoldOK
<1>2. my' \in [Process -> Locals]
  BY CallsNext DEF IInv
<1>3. \A p \in Process : my'[p].passes \in 1..2 /\ my'[p].opens \in 0..2
  BY <1>2 DEF Locals
<1>4. TypeOK'
  BY <1>1, <1>3 DEF TypeOK, HoldOK
<1>. QED
  BY <1>2, <1>4, ControlNext DEF IInv, LocalsOK

\* The inductive invariant holds through concurrent replies, refreshes, builds,
\* commits, edits, kills, timeouts and damage.
THEOREM Invariance == Spec => []IInv
<1>1. Init => IInv
  <2>. SUFFICES ASSUME Init PROVE IInv
    OBVIOUS
  <2>1. /\ brain \in Fresh /\ signature = 0 /\ live = None /\ draft = None
        /\ \A p \in Process : pc[p] = "idle" /\ my[p] = NoCall /\ conn[p] = Closed
    BY CacheAssumption DEF Init, Fresh
  <2>2. CallOK(NoCall, brain)
    BY <2>1, NoCallOK
  <2>3. CallsOK /\ my \in [Process -> Locals]
    BY <2>1, <2>2 DEF CallsOK, CallOK, Init
  <2>4. TypeOK
    BY <2>1, <2>3, CacheAssumption DEF TypeOK, Init, Locals
  <2>5. LocalsOK
    BY <2>3 DEF LocalsOK, Init, PC
  <2>6. LocksFollowPC /\ ConnectedUnderLock /\ OneGeneration /\ LiveIsTrue
    BY <2>1 DEF LocksFollowPC, LocksOf, ConnectedUnderLock, ConnectionOf, OneGeneration,
       LiveIsTrue
  <2>7. DraftIsTrue /\ ScanApplies /\ FoundFresh
    BY <2>1 DEF DraftIsTrue, DraftOf, Building, ScanApplies, FoundFresh, FoundOf
  <2>. QED
    BY <2>3, <2>4, <2>5, <2>6, <2>7 DEF IInv
<1>2. IInv /\ [Next]_vars => IInv'
  <2>. SUFFICES ASSUME IInv, [Next]_vars PROVE IInv'
    OBVIOUS
  <2>1. TypeOK' /\ LocalsOK'
    BY TypeNext
  <2>2. CallsOK'
    <3>1. \A p \in Process : CallOK(my'[p], brain)
      BY CallsNext DEF IInv
    <3>2. brain \in Fresh /\ brain' \in Fresh /\ Upto(brain, brain')
      BY BrainGrows DEF IInv, TypeOK
    <3>3. ASSUME NEW b \in Fresh, Upto(b, brain) PROVE Upto(b, brain')
      BY <3>2, <3>3, UptoTransitive
    <3>4. ASSUME NEW p \in Process PROVE CallOK(my'[p], brain')
      BY <3>1, <3>3 DEF CallOK, Locals, Scans
    <3>. QED
      BY <3>4 DEF CallsOK
  <2>3. LocksFollowPC' /\ ConnectedUnderLock' /\ OneGeneration'
    BY LocksNext, ConnectionsNext, GenerationStays DEF IInv
  <2>4. LiveIsTrue' /\ DraftIsTrue' /\ ScanApplies' /\ FoundFresh'
    BY LiveNext, DraftNext, ScanNext, FoundNext DEF IInv
  <2>. QED
    BY <2>1, <2>2, <2>3, <2>4 DEF IInv
<1>. QED
  BY <1>1, <1>2, PTL DEF Spec

\* Types; in particular a build finds an inode that nothing else uses.
THEOREM TypeCorrect == Spec => []TypeOK
BY Invariance, PTL DEF IInv

\* While a connection is open, the file it opened is the live cache.
THEOREM ConnectionsSeeOneGeneration == Spec => []OneGeneration
BY Invariance, PTL DEF IInv

\* A row whose fingerprint is that of its file holds the file's bytes.
THEOREM FingerprintsAreTrue == Spec => []NothingHidden
<1>1. IInv => NothingHidden
  <2>. SUFFICES ASSUME IInv, live # None, NEW f \in Path, live.stamp[f] = brain[f]
                PROVE  live.content[f] = brain[f]
    BY DEF NothingHidden
  <2>1. live.content \in Fresh /\ brain \in Fresh
    BY DEF IInv, TypeOK, Generation
  <2>2. live.stamp[f] <= live.content[f] /\ live.content[f] <= brain[f]
    BY DEF IInv, LiveIsTrue, Upto
  <2>. QED
    BY <2>1, <2>2, CacheAssumption DEF Fresh
<1>. QED
  BY <1>1, Invariance, PTL

\* A reply that says ready holds every change made before it began, unless a
\* build replaced the generation after it was compared: then it may not, as the
\* run CacheStale shows (index.py: database).
THEOREM ReadyMeansFresh == Spec => []ReadyIsFresh
<1>1. IInv => ReadyIsFresh
  <2>. SUFFICES ASSUME IInv, NEW p \in Process, Answers(p), ~my[p].raced
                PROVE  Current(p)
    BY DEF ReadyIsFresh
  <2>1. live # None
    BY DEF IInv, Answers, ConnectedUnderLock, ConnectionOf, OneGeneration
  <2>2. Upto(my[p].begun, live.content)
    BY <2>1 DEF IInv, Answers, FoundFresh, FoundOf
  <2>3. my[p].begun \in Fresh /\ live.content \in Fresh
    BY <2>1 DEF IInv, CallsOK, CallOK, Locals, TypeOK, Generation
  <2>. QED
    BY <2>2, <2>3, CacheAssumption DEF Current, Upto, Fresh
<1>. QED
  BY <1>1, Invariance, PTL

-----------------------------------------------------------------------------
(* Freshness checks that take a folder from the cache.                     *)

CONSTANTS File, Settle, Lag, MaxTime

VARIABLES clock, sourceFolder, versions, folderCache, freshness

Scanning == INSTANCE FolderScan WITH
    folder <- sourceFolder, changes <- versions, cache <- folderCache, check <- freshness

FolderOK ==
    /\ clock \in Nat /\ versions \in Nat
    /\ sourceFolder \in [time : Int, files : [File -> Nat],
                         nested : [time : Int, inner : Nat, open : BOOLEAN]]
    /\ Scanning!Nested => sourceFolder.nested.time >= 0 /\ sourceFolder.nested.inner # 0

ScanTypes ==
    /\ folderCache \in [files : [File -> Nat], inner : Nat, skipped : Int,
                        row : [time : Int, trusted : BOOLEAN]]
    /\ freshness \in [at : {"idle", "stat", "list", "entries", "store"},
                      started : Nat, dirty : BOOLEAN, time : Int, left : SUBSET (File \cup {"nested"}),
                      entries : Nat, found : [File -> Nat], inner : Nat, skipped : Int]

\* A nested folder that was skipped, and was closed unless it has changed since.
Hidden(skipped) ==
    /\ skipped # -1 /\ skipped <= sourceFolder.nested.time
    /\ skipped = sourceFolder.nested.time => ~sourceFolder.nested.open

One(P) == IF P THEN 1 ELSE 0

\* What a check found so far, if the folder is as it was when it was listed.
FoundTrue ==
    /\ \A f \in File : IF f \in freshness.left THEN freshness.found[f] = 0 /\ sourceFolder.files[f] # 0
                       ELSE freshness.found[f] = sourceFolder.files[f]
    /\ "nested" \in freshness.left => Scanning!Nested
    /\ IF Scanning!Nested /\ "nested" \notin freshness.left
       THEN \/ freshness.inner # 0 /\ freshness.skipped = -1
            \/ freshness.inner = 0 /\ Hidden(freshness.skipped)
       ELSE freshness.inner = 0 /\ freshness.skipped = -1
    /\ freshness.entries = Cardinality(Scanning!Present) + One(Scanning!Nested) + One(freshness.inner # 0)

\* No change since the stat: one would have a later time.
Unmoved == freshness.time = sourceFolder.time /\ freshness.time < freshness.started - Settle

CheckTrue ==
    /\ freshness.at # "idle" => freshness.started <= clock
    /\ freshness.at \in {"stat", "list"} =>
          freshness.found = Scanning!NoFiles /\ freshness.inner = 0 /\ freshness.skipped = -1
    /\ freshness.at \in {"list", "entries", "store"} => freshness.time <= sourceFolder.time
    /\ freshness.at \in {"entries", "store"} /\ Unmoved => FoundTrue
    /\ freshness.at = "store" => freshness.left = {}

\* What the cache holds of the folder, if it is as it was.
CacheHolds ==
    /\ folderCache.files = sourceFolder.files
    /\ IF Scanning!Nested THEN Hidden(folderCache.skipped) ELSE folderCache.inner = 0

CacheTrue ==
    folderCache.row.trusted =>
        /\ folderCache.row.time < clock - Settle /\ folderCache.row.time <= sourceFolder.time
        /\ folderCache.row.time = sourceFolder.time => CacheHolds

ScanInv == FolderOK /\ ScanTypes /\ CheckTrue /\ CacheTrue

\* The count of entries is the one of the standard module.
LEMMA ScanningCounts == \A S : Scanning!Cardinality(S) = Cardinality(S) /\ Scanning!IsFiniteSet(S) = IsFiniteSet(S)
<1>1. \A S : Scanning!Cardinality(S) = Cardinality(S)
  BY Zenon DEF Scanning!Cardinality, Scanning!IsFiniteSet, Cardinality, IsFiniteSet
<1>2. \A S : Scanning!IsFiniteSet(S) = IsFiniteSet(S)
  BY Zenon DEF Scanning!IsFiniteSet, IsFiniteSet
<1> QED
  BY <1>1, <1>2

LEMMA FilesCount ==
    ASSUME Scanning!FolderScanAssumption, NEW S \in SUBSET File
    PROVE  Scanning!Cardinality(S) \in Nat /\ Scanning!Cardinality(S) = Cardinality(S)
BY ScanningCounts, FS_Subset, FS_CardinalityType DEF Scanning!FolderScanAssumption

LEMMA ScanInit == ASSUME Scanning!FolderScanAssumption, Scanning!Init PROVE ScanInv
<1>1. FolderOK
  BY DEF Scanning!Init, FolderOK, Scanning!NoFiles, Scanning!NoNested, Scanning!Never, Scanning!Absent, Scanning!Nested
<1>2. ScanTypes
  BY DEF Scanning!Init, ScanTypes, Scanning!NoFiles, Scanning!NoRow, Scanning!Idle, Scanning!Never, Scanning!Absent
<1>3. CheckTrue /\ CacheTrue
  BY DEF Scanning!Init, CheckTrue, CacheTrue, Scanning!NoRow, Scanning!Idle
<1> QED
  BY <1>1, <1>2, <1>3 DEF ScanInv

-----------------------------------------------------------------------------
(* Changes of the folder.                                                  *)

\* A dated change of the folder makes its time a new one to every row and check
\* that may trust it.
LEMMA FolderMoves ==
    ASSUME Scanning!FolderScanAssumption, ScanInv, FolderOK', UNCHANGED <<clock, folderCache, freshness>>,
           sourceFolder'.time >= clock - Lag, sourceFolder'.time >= sourceFolder.time
    PROVE  ScanInv'
<1> USE DEF ScanInv
<1>1. /\ clock \in Nat /\ Lag \in Nat /\ Settle \in Nat /\ Lag < Settle
      /\ sourceFolder.time \in Int /\ sourceFolder'.time \in Int
  BY DEF FolderOK, Scanning!FolderScanAssumption
<1>2. ScanTypes'
  BY DEF ScanTypes
<1>3. CheckTrue'
  <2>1. freshness.at \in {"list", "entries", "store"} => freshness.time <= sourceFolder'.time
    BY <1>1 DEF CheckTrue, ScanTypes
  <2>2. freshness.at \in {"entries", "store"} => ~Unmoved'
    BY <1>1 DEF CheckTrue, ScanTypes, Unmoved
  <2> QED
    BY <2>1, <2>2 DEF CheckTrue, Scanning!NoFiles
<1>4. CacheTrue'
  BY <1>1 DEF CacheTrue, ScanTypes
<1> QED
  BY <1>2, <1>3, <1>4

LEMMA ScanPut ==
    ASSUME Scanning!FolderScanAssumption, ScanInv, NEW f \in File, Scanning!Put(f) \/ Scanning!Delete(f)
    PROVE  ScanInv'
<1> USE DEF ScanInv
<1>1. PICK t \in Scanning!Dated(sourceFolder.time), version \in Nat :
        /\ sourceFolder' = [sourceFolder EXCEPT !.time = t, !.files[f] = version]
        /\ versions' \in Nat
  <2>1. CASE Scanning!Put(f)
    <3>1. PICK t \in Scanning!Dated(sourceFolder.time) :
            sourceFolder' = [sourceFolder EXCEPT !.time = t, !.files[f] = Scanning!Version]
      BY <2>1 DEF Scanning!Put
    <3>2. versions' = Scanning!Version
      BY Zenon, <2>1 DEF Scanning!Put
    <3>3. Scanning!Version \in Nat
      BY DEF Scanning!Version, FolderOK
    <3> QED
      BY <3>1, <3>2, <3>3
  <2>2. CASE Scanning!Delete(f)
    BY <2>2 DEF Scanning!Delete, Scanning!Absent, FolderOK
  <2> QED
    BY <2>1, <2>2
<1>2. t \in Nat /\ clock - Lag <= t /\ sourceFolder.time <= t
  BY DEF Scanning!Dated, FolderOK
<1>3. /\ sourceFolder'.time = t /\ sourceFolder'.nested = sourceFolder.nested
      /\ sourceFolder' \in [time : Int, files : [File -> Nat],
                            nested : [time : Int, inner : Nat, open : BOOLEAN]]
  <2>1. PICK new : new = [sourceFolder.files EXCEPT ![f] = version]
    OBVIOUS
  <2>2. new \in [File -> Nat]
    BY <1>1, <2>1 DEF FolderOK
  <2>3. sourceFolder' = [sourceFolder EXCEPT !.time = t, !.files = new]
    BY <1>1, <2>1 DEF FolderOK
  <2>4. sourceFolder'.time = t /\ sourceFolder'.nested = sourceFolder.nested
    BY <2>3 DEF FolderOK
  <2>5. sourceFolder.nested \in [time : Int, inner : Nat, open : BOOLEAN] /\ t \in Int
    BY <1>2 DEF FolderOK
  <2> QED
    BY <2>2, <2>3, <2>4, <2>5 DEF FolderOK
<1>4. UNCHANGED <<clock, folderCache, freshness>>
  BY DEF Scanning!Put, Scanning!Delete
<1>5. FolderOK'
  BY <1>1, <1>3, <1>4 DEF FolderOK, Scanning!Nested
<1> QED
  BY <1>2, <1>3, <1>4, <1>5, FolderMoves

LEMMA ScanNest ==
    ASSUME Scanning!FolderScanAssumption, ScanInv, Scanning!Nest
    PROVE  ScanInv'
<1> USE DEF ScanInv
<1>1. PICK t \in Scanning!Dated(sourceFolder.time), open \in BOOLEAN :
        sourceFolder' = [sourceFolder EXCEPT !.time = t,
                            !.nested = [time |-> t, inner |-> Scanning!Version, open |-> open]]
  BY DEF Scanning!Nest
<1>2. t \in Nat /\ clock - Lag <= t /\ sourceFolder.time <= t
  BY DEF Scanning!Dated, FolderOK
<1>3. Scanning!Version \in Nat \ {0} /\ versions' \in Nat /\ UNCHANGED <<clock, folderCache, freshness>>
  BY DEF Scanning!Nest, Scanning!Version, FolderOK
<1>4. /\ sourceFolder'.time = t /\ sourceFolder'.nested = [time |-> t, inner |-> Scanning!Version, open |-> open]
      /\ sourceFolder' \in [time : Int, files : [File -> Nat],
                            nested : [time : Int, inner : Nat, open : BOOLEAN]]
  <2>1. PICK new : new = [time |-> t, inner |-> Scanning!Version, open |-> open]
    OBVIOUS
  <2>2. new \in [time : Int, inner : Nat, open : BOOLEAN]
    BY <1>2, <1>3, <2>1
  <2>3. sourceFolder' = [sourceFolder EXCEPT !.time = t, !.nested = new]
    BY <1>1, <2>1
  <2> QED
    BY <1>2, <2>1, <2>2, <2>3 DEF FolderOK
<1>5. FolderOK'
  BY <1>2, <1>3, <1>4 DEF FolderOK
<1> QED
  BY <1>2, <1>3, <1>4, <1>5, FolderMoves

\* A change below the nested folder leaves the folder's own time, and makes that
\* of the nested one a new one.
LEMMA ScanWithin ==
    ASSUME Scanning!FolderScanAssumption, ScanInv, Scanning!Within
    PROVE  ScanInv'
<1> USE DEF ScanInv
<1>1. PICK t \in Scanning!Dated(sourceFolder.nested.time + 1) :
        \/ sourceFolder' = [sourceFolder EXCEPT !.nested.time = t, !.nested.inner = Scanning!Version]
        \/ sourceFolder' = [sourceFolder EXCEPT !.nested.time = t, !.nested.open = ~@]
  BY DEF Scanning!Within
<1>2. t \in Nat /\ sourceFolder.nested.time + 1 <= t /\ sourceFolder.nested.time \in Int
  BY DEF Scanning!Dated, FolderOK
<1>3. /\ Scanning!Nested /\ Scanning!Version \in Nat \ {0} /\ versions' \in Nat
      /\ UNCHANGED <<clock, folderCache, freshness>>
  BY DEF Scanning!Within, Scanning!Version, FolderOK
<1>4. /\ sourceFolder'.time = sourceFolder.time /\ sourceFolder'.files = sourceFolder.files
      /\ sourceFolder'.nested.time = t /\ sourceFolder'.nested.inner \in Nat \ {0}
      /\ sourceFolder' \in [time : Int, files : [File -> Nat],
                            nested : [time : Int, inner : Nat, open : BOOLEAN]]
  <2>1. sourceFolder.nested \in [time : Int, inner : Nat, open : BOOLEAN] /\ sourceFolder.nested.inner # 0
    BY <1>3 DEF FolderOK
  <2>2. ASSUME NEW new \in [time : Int, inner : Nat, open : BOOLEAN],
               sourceFolder' = [sourceFolder EXCEPT !.nested = new], new.time = t, new.inner # 0
        PROVE  /\ sourceFolder'.time = sourceFolder.time /\ sourceFolder'.files = sourceFolder.files
               /\ sourceFolder'.nested.time = t /\ sourceFolder'.nested.inner \in Nat \ {0}
               /\ sourceFolder' \in [time : Int, files : [File -> Nat],
                                     nested : [time : Int, inner : Nat, open : BOOLEAN]]
    BY <2>2 DEF FolderOK
  <2>3. CASE sourceFolder' = [sourceFolder EXCEPT !.nested.time = t, !.nested.inner = Scanning!Version]
    <3>1. PICK new : new = [sourceFolder.nested EXCEPT !.time = t, !.inner = Scanning!Version]
      OBVIOUS
    <3>2. sourceFolder' = [sourceFolder EXCEPT !.nested = new]
      BY <2>3, <3>1 DEF FolderOK
    <3>3. new.time = t /\ new.inner = Scanning!Version
      BY <2>1, <3>1
    <3>4. new \in [time : Int, inner : Nat, open : BOOLEAN]
      <4>1. t \in Int /\ Scanning!Version \in Nat
        BY <1>2, <1>3
      <4> QED
        BY ONLY <2>1, <3>1, <4>1
    <3> QED
      BY <1>3, <2>2, <3>2, <3>3, <3>4
  <2>4. CASE sourceFolder' = [sourceFolder EXCEPT !.nested.time = t, !.nested.open = ~@]
    <3>1. PICK new : new = [sourceFolder.nested EXCEPT !.time = t, !.open = ~@]
      OBVIOUS
    <3>2. sourceFolder' = [sourceFolder EXCEPT !.nested = new]
      BY <2>4, <3>1 DEF FolderOK
    <3>3. new.time = t /\ new.inner = sourceFolder.nested.inner
      BY <2>1, <3>1
    <3>4. new \in [time : Int, inner : Nat, open : BOOLEAN]
      <4>1. t \in Int /\ (~sourceFolder.nested.open) \in BOOLEAN
        BY <1>2
      <4> QED
        BY ONLY <2>1, <3>1, <4>1
    <3> QED
      BY <2>1, <2>2, <3>2, <3>3, <3>4
  <2> QED
    BY <1>1, <2>3, <2>4
<1>5. FolderOK' /\ Scanning!Nested'
  <2>1. Scanning!Nested'
    BY <1>2, <1>4 DEF Scanning!Nested, Scanning!NoNested, Scanning!Never
  <2> QED
    BY <1>2, <1>3, <1>4, <2>1 DEF FolderOK
<1>6. \A skipped \in Int : Hidden(skipped) => Hidden(skipped)'
  BY <1>2, <1>4 DEF Hidden
<1>7. FoundTrue => FoundTrue'
  <2>1. Scanning!Present' = Scanning!Present
    BY <1>4 DEF Scanning!Present
  <2> QED
    BY <1>3, <1>4, <1>5, <1>6, <2>1 DEF FoundTrue, ScanTypes
<1>8. CheckTrue'
  BY <1>3, <1>4, <1>7 DEF CheckTrue, Unmoved, Scanning!NoFiles
<1>9. CacheTrue'
  BY <1>3, <1>4, <1>5, <1>6 DEF CacheTrue, CacheHolds, ScanTypes
<1> QED
  BY <1>3, <1>5, <1>8, <1>9 DEF ScanTypes

-----------------------------------------------------------------------------
(* The steps of a check.                                                   *)

LEMMA ScanBegin ==
    ASSUME Scanning!FolderScanAssumption, ScanInv, Scanning!Begin \/ Scanning!Abandon
    PROVE  ScanInv'
<1> USE DEF ScanInv
<1>1. UNCHANGED <<clock, sourceFolder, versions, folderCache>>
  BY DEF Scanning!Begin, Scanning!Abandon
<1>2. /\ freshness'.at \in {"idle", "stat"}
      /\ freshness'.at = "stat" => freshness'.started <= clock
      /\ freshness'.found = Scanning!NoFiles /\ freshness'.inner = 0 /\ freshness'.skipped = -1
  <2>1. ASSUME NEW dirty, freshness' = [Scanning!Idle EXCEPT !.at = "stat", !.dirty = dirty, !.started = clock]
        PROVE  /\ freshness'.at = "stat" /\ freshness'.started = clock
               /\ freshness'.found = Scanning!NoFiles /\ freshness'.inner = 0 /\ freshness'.skipped = -1
    BY <2>1 DEF Scanning!Idle, Scanning!Absent, Scanning!Never
  <2>2. CASE Scanning!Begin
    <3>1. PICK dirty \in BOOLEAN : dirty = Scanning!Dirty
      BY DEF Scanning!Dirty, ScanTypes
    <3>2. freshness' = [Scanning!Idle EXCEPT !.at = "stat", !.dirty = dirty, !.started = clock]
      BY <2>2, <3>1 DEF Scanning!Begin
    <3>3. clock <= clock
      BY DEF FolderOK
    <3> QED
      BY <2>1, <3>2, <3>3
  <2>3. CASE Scanning!Abandon
    BY <2>3 DEF Scanning!Abandon, Scanning!Idle, Scanning!Absent, Scanning!Never
  <2> QED
    BY <2>2, <2>3
<1>3. Scanning!NoFiles \in [File -> Nat] /\ Scanning!Dirty \in BOOLEAN
  BY DEF Scanning!NoFiles, Scanning!Absent, Scanning!Dirty, ScanTypes
<1>4. ScanTypes'
  <2>1. CASE Scanning!Begin
    <3>1. PICK dirty \in BOOLEAN : freshness' = [Scanning!Idle EXCEPT !.at = "stat", !.dirty = dirty, !.started = clock]
      BY <1>3, <2>1 DEF Scanning!Begin
    <3>2. clock \in Nat
      BY DEF FolderOK
    <3>3. freshness' = [at |-> "stat", started |-> clock, dirty |-> dirty, time |-> Scanning!Never, left |-> {},
                        entries |-> 0, found |-> Scanning!NoFiles, inner |-> Scanning!Absent, skipped |-> Scanning!Never]
      BY <3>1 DEF Scanning!Idle
    <3>4. Scanning!Never \in Int /\ Scanning!Absent \in Nat
      BY DEF Scanning!Never, Scanning!Absent
    <3> QED
      BY <1>1, <1>3, <3>2, <3>3, <3>4 DEF ScanTypes
  <2>2. CASE Scanning!Abandon
    BY <1>1, <1>3, <2>2 DEF Scanning!Abandon, Scanning!Idle, Scanning!Never, Scanning!Absent, ScanTypes
  <2> QED
    BY <2>1, <2>2
<1>5. FolderOK' /\ CacheTrue'
  BY <1>1 DEF FolderOK, CacheTrue, CacheHolds, Hidden, Scanning!Nested
<1>6. CheckTrue'
  BY <1>1, <1>2 DEF CheckTrue, Scanning!NoFiles
<1> QED
  BY <1>4, <1>5, <1>6

LEMMA ScanStat ==
    ASSUME Scanning!FolderScanAssumption, ScanInv, Scanning!Stat
    PROVE  ScanInv'
<1> USE DEF ScanInv
<1>1. UNCHANGED <<clock, sourceFolder, versions, folderCache>> /\ freshness.at = "stat"
  BY DEF Scanning!Stat
<1>2. FolderOK' /\ CacheTrue' /\ Scanning!NoFiles' = Scanning!NoFiles
  BY <1>1 DEF FolderOK, CacheTrue, CacheHolds, Hidden, Scanning!Nested, Scanning!NoFiles
<1>3. CASE freshness' = Scanning!Idle
  BY <1>1, <1>2, <1>3 DEF Scanning!Idle, Scanning!NoFiles, Scanning!Never, Scanning!Absent, ScanTypes, CheckTrue
<1>4. CASE freshness' = [freshness EXCEPT !.at = "list", !.time = sourceFolder.time]
  <2>1. ScanTypes'
    BY <1>1, <1>4 DEF ScanTypes, FolderOK
  <2>2. CheckTrue'
    BY <1>1, <1>2, <1>4 DEF ScanTypes, CheckTrue, FolderOK
  <2> QED
    BY <1>2, <2>1, <2>2
<1> QED
  BY <1>3, <1>4 DEF Scanning!Stat

LEMMA ScanList ==
    ASSUME Scanning!FolderScanAssumption, ScanInv, Scanning!List
    PROVE  ScanInv'
<1> USE DEF ScanInv
<1>1. /\ UNCHANGED <<clock, sourceFolder, versions, folderCache>> /\ freshness.at = "list"
      /\ freshness' = [freshness EXCEPT !.at = "entries",
                          !.left = Scanning!Present \cup IF Scanning!Nested THEN {"nested"} ELSE {},
                          !.entries = Scanning!Cardinality(Scanning!Present) + IF Scanning!Nested THEN 1 ELSE 0]
  BY DEF Scanning!List
<1>2. FolderOK' /\ CacheTrue' /\ Scanning!NoFiles' = Scanning!NoFiles /\ Scanning!Nested' = Scanning!Nested /\ Scanning!Present' = Scanning!Present
  BY <1>1 DEF FolderOK, CacheTrue, CacheHolds, Hidden, Scanning!Nested, Scanning!NoFiles, Scanning!Present
<1>3. Scanning!Present \subseteq File /\ Scanning!Cardinality(Scanning!Present) \in Nat /\ Scanning!Cardinality(Scanning!Present) = Cardinality(Scanning!Present)
  BY FilesCount DEF Scanning!Present
<1>4. PICK left, entries :
        /\ left = Scanning!Present \cup IF Scanning!Nested THEN {"nested"} ELSE {}
        /\ entries = Scanning!Cardinality(Scanning!Present) + IF Scanning!Nested THEN 1 ELSE 0
  OBVIOUS
<1>5. left \in SUBSET (File \cup {"nested"}) /\ entries \in Nat
  BY <1>3, <1>4
<1>6. freshness' = [freshness EXCEPT !.at = "entries", !.left = left, !.entries = entries]
  BY <1>1, <1>4
<1>7. ScanTypes'
  BY <1>1, <1>5, <1>6 DEF ScanTypes
<1>8. FoundTrue'
  <2>1. freshness.found = Scanning!NoFiles /\ freshness.inner = 0 /\ freshness.skipped = -1
    BY <1>1 DEF CheckTrue
  <2>2. /\ freshness'.left = left /\ freshness'.entries = entries
        /\ freshness'.found = Scanning!NoFiles /\ freshness'.inner = 0 /\ freshness'.skipped = -1
    BY <1>6, <2>1 DEF ScanTypes
  <2>3. \A f \in File : f \in left <=> sourceFolder.files[f] # 0
    BY <1>4 DEF Scanning!Present, Scanning!Absent, Scanning!FolderScanAssumption
  <2>4. "nested" \in left <=> Scanning!Nested
    BY <1>3, <1>4 DEF Scanning!FolderScanAssumption
  <2>5. entries = Cardinality(Scanning!Present) + One(Scanning!Nested) + One(freshness'.inner # 0)
    BY <1>3, <1>4, <2>2 DEF One
  <2> QED
    BY <1>1, <1>2, <2>2, <2>3, <2>4, <2>5 DEF FoundTrue, Scanning!NoFiles, Scanning!Absent
<1>9. CheckTrue'
  BY <1>1, <1>2, <1>6, <1>8 DEF CheckTrue, ScanTypes
<1> QED
  BY <1>2, <1>7, <1>9

LEMMA ScanFile ==
    ASSUME Scanning!FolderScanAssumption, ScanInv, NEW f \in File, Scanning!StatFile(f)
    PROVE  ScanInv'
<1> USE DEF ScanInv
<1>1. /\ UNCHANGED <<clock, sourceFolder, versions, folderCache>>
      /\ freshness.at = "entries" /\ f \in freshness.left
      /\ freshness' = [freshness EXCEPT !.left = @ \ {f}, !.found[f] = sourceFolder.files[f]]
  BY DEF Scanning!StatFile
<1>2. FolderOK' /\ CacheTrue' /\ Scanning!NoFiles' = Scanning!NoFiles /\ Scanning!Nested' = Scanning!Nested /\ Scanning!Present' = Scanning!Present
  BY <1>1 DEF FolderOK, CacheTrue, CacheHolds, Hidden, Scanning!Nested, Scanning!NoFiles, Scanning!Present
<1>3. PICK found : found = [freshness.found EXCEPT ![f] = sourceFolder.files[f]]
  OBVIOUS
<1>4. freshness' = [freshness EXCEPT !.left = @ \ {f}, !.found = found]
  BY <1>1, <1>3 DEF ScanTypes
<1>5. found \in [File -> Nat]
  <2>1. freshness.found \in [File -> Nat] /\ sourceFolder.files[f] \in Nat
    BY DEF ScanTypes, FolderOK
  <2> QED
    BY <1>3, <2>1
<1>6. ScanTypes'
  <2>1. PICK left : left = freshness.left \ {f}
    OBVIOUS
  <2>2. left \in SUBSET (File \cup {"nested"})
    BY <2>1 DEF ScanTypes
  <2>3. freshness' = [freshness EXCEPT !.left = left, !.found = found]
    BY <1>4, <2>1
  <2> QED
    BY <1>1, <1>5, <2>2, <2>3 DEF ScanTypes
<1>7. /\ freshness'.left = freshness.left \ {f} /\ freshness'.found = found
      /\ freshness'.inner = freshness.inner /\ freshness'.skipped = freshness.skipped
      /\ freshness'.entries = freshness.entries /\ freshness'.at = "entries"
      /\ freshness'.time = freshness.time /\ freshness'.started = freshness.started
  BY <1>1, <1>4 DEF ScanTypes
<1>8. ASSUME FoundTrue PROVE FoundTrue'
  <2>1. f # "nested"
    BY DEF Scanning!FolderScanAssumption
  <2>2. \A g \in File : found[g] = IF g = f THEN sourceFolder.files[f] ELSE freshness.found[g]
    BY <1>3 DEF ScanTypes
  <2> QED
    BY <1>1, <1>2, <1>7, <1>8, <2>1, <2>2 DEF FoundTrue, Hidden
<1>9. CheckTrue'
  BY <1>1, <1>7, <1>8 DEF CheckTrue, Unmoved
<1> QED
  BY <1>2, <1>6, <1>9

LEMMA ScanVisit ==
    ASSUME Scanning!FolderScanAssumption, ScanInv, Scanning!VisitNested
    PROVE  ScanInv'
<1> USE DEF ScanInv
<1>1. /\ UNCHANGED <<clock, sourceFolder, versions, folderCache>>
      /\ freshness.at = "entries" /\ "nested" \in freshness.left
  BY DEF Scanning!VisitNested
<1>2. FolderOK' /\ CacheTrue' /\ Scanning!NoFiles' = Scanning!NoFiles /\ Scanning!Nested' = Scanning!Nested /\ Scanning!Present' = Scanning!Present
  BY <1>1 DEF FolderOK, CacheTrue, CacheHolds, Hidden, Scanning!Nested, Scanning!NoFiles, Scanning!Present
<1>3. sourceFolder.nested.inner \in Nat /\ sourceFolder.nested.time \in Int
  BY DEF FolderOK
<1>4. PICK inner \in Nat, skipped \in Int, more \in Nat :
        /\ freshness' = [freshness EXCEPT !.left = @ \ {"nested"}, !.inner = inner, !.skipped = skipped,
                                          !.entries = @ + more]
        /\ IF ~Scanning!Nested \/ sourceFolder.nested.open
           THEN /\ inner = sourceFolder.nested.inner /\ skipped = freshness.skipped
                /\ more = One(inner # 0)
           ELSE inner = freshness.inner /\ skipped = sourceFolder.nested.time /\ more = 0
  <2>1. CASE ~Scanning!Nested \/ sourceFolder.nested.open
    <3>1. freshness' = [freshness EXCEPT !.left = @ \ {"nested"}, !.inner = sourceFolder.nested.inner,
                                         !.entries = @ + One(sourceFolder.nested.inner # 0)]
      BY <2>1 DEF Scanning!VisitNested, One, Scanning!Absent
    <3>2. freshness' = [freshness EXCEPT !.left = @ \ {"nested"}, !.inner = sourceFolder.nested.inner,
                                         !.skipped = freshness.skipped,
                                         !.entries = @ + One(sourceFolder.nested.inner # 0)]
      BY <3>1 DEF ScanTypes
    <3>3. freshness.skipped \in Int /\ One(sourceFolder.nested.inner # 0) \in Nat
      BY DEF ScanTypes, One
    <3> QED
      BY <1>3, <2>1, <3>2, <3>3
  <2>2. CASE ~(~Scanning!Nested \/ sourceFolder.nested.open)
    <3>1. freshness' = [freshness EXCEPT !.left = @ \ {"nested"}, !.skipped = sourceFolder.nested.time]
      BY <2>2 DEF Scanning!VisitNested
    <3>3. freshness.inner \in Nat /\ freshness.entries + 0 = freshness.entries
      BY DEF ScanTypes
    <3>2. freshness' = [freshness EXCEPT !.left = @ \ {"nested"}, !.inner = freshness.inner,
                                         !.skipped = sourceFolder.nested.time, !.entries = @ + 0]
      BY <3>1, <3>3 DEF ScanTypes
    <3> QED
      BY <1>3, <2>2, <3>2, <3>3
  <2> QED
    BY <2>1, <2>2
<1>5. ScanTypes'
  <2>1. PICK left, entries : left = freshness.left \ {"nested"} /\ entries = freshness.entries + more
    OBVIOUS
  <2>2. left \in SUBSET (File \cup {"nested"}) /\ entries \in Nat
    BY <2>1 DEF ScanTypes
  <2>3. freshness' = [freshness EXCEPT !.left = left, !.inner = inner, !.skipped = skipped, !.entries = entries]
    BY <1>4, <2>1 DEF ScanTypes
  <2> QED
    BY <1>1, <2>2, <2>3 DEF ScanTypes
<1>6. /\ freshness'.left = freshness.left \ {"nested"} /\ freshness'.found = freshness.found
      /\ freshness'.inner = inner /\ freshness'.skipped = skipped
      /\ freshness'.entries = freshness.entries + more /\ freshness'.at = "entries"
      /\ freshness'.time = freshness.time /\ freshness'.started = freshness.started
  BY <1>1, <1>4 DEF ScanTypes
<1>7. ASSUME FoundTrue PROVE FoundTrue'
  <2>1. /\ Scanning!Nested /\ freshness.inner = 0 /\ freshness.skipped = -1
        /\ freshness.entries = Cardinality(Scanning!Present) + One(Scanning!Nested) + 0
        /\ sourceFolder.nested.time >= 0 /\ sourceFolder.nested.inner # 0
    BY <1>1, <1>7 DEF FoundTrue, FolderOK, One
  <2>2. \A f \in File : f \in freshness'.left <=> f \in freshness.left
    BY <1>6 DEF Scanning!FolderScanAssumption
  <2>3. \/ inner # 0 /\ skipped = -1 /\ more = 1
        \/ inner = 0 /\ Hidden(skipped) /\ more = 0
    BY <1>3, <1>4, <2>1 DEF Hidden, One
  <2>4. Hidden(skipped) => Hidden(skipped)'
    BY <1>1 DEF Hidden
  <2>5. Cardinality(Scanning!Present) \in Nat
    BY FilesCount DEF Scanning!Present
  <2>6. freshness'.entries = Cardinality(Scanning!Present) + One(Scanning!Nested) + One(inner # 0)
    BY <1>6, <2>1, <2>3, <2>5 DEF One
  <2>7. \A f \in File : IF f \in freshness'.left THEN freshness'.found[f] = 0 /\ sourceFolder'.files[f] # 0
                        ELSE freshness'.found[f] = sourceFolder'.files[f]
    BY <1>1, <1>6, <1>7, <2>2 DEF FoundTrue
  <2>8. "nested" \notin freshness'.left /\ Scanning!Nested'
    BY <1>2, <1>6, <2>1
  <2>9. freshness'.entries = Cardinality(Scanning!Present)' + One(Scanning!Nested)' + One(freshness'.inner # 0)
    BY <1>2, <1>6, <2>6
  <2>10. \/ freshness'.inner # 0 /\ freshness'.skipped = -1
         \/ freshness'.inner = 0 /\ Hidden(freshness.skipped)'
    BY <1>1, <1>6, <2>3, <2>4 DEF Hidden
  <2> QED
    BY <2>7, <2>8, <2>9, <2>10 DEF FoundTrue
<1>8. CheckTrue'
  BY <1>1, <1>6, <1>7 DEF CheckTrue, Unmoved
<1> QED
  BY <1>2, <1>5, <1>8

LEMMA ScanListed ==
    ASSUME Scanning!FolderScanAssumption, ScanInv, Scanning!Listed
    PROVE  ScanInv'
<1> USE DEF ScanInv
<1>1. /\ UNCHANGED <<clock, sourceFolder, versions, folderCache>>
      /\ freshness.at = "entries" /\ freshness.left = {}
      /\ freshness' = [freshness EXCEPT !.at = "store"]
  BY DEF Scanning!Listed
<1>2. FolderOK' /\ CacheTrue' /\ Scanning!Nested' = Scanning!Nested /\ Scanning!Present' = Scanning!Present
  BY <1>1 DEF FolderOK, CacheTrue, CacheHolds, Hidden, Scanning!Nested, Scanning!Present
<1>3. ScanTypes'
  BY <1>1 DEF ScanTypes
<1>4. /\ freshness'.left = {} /\ freshness'.found = freshness.found
      /\ freshness'.inner = freshness.inner /\ freshness'.skipped = freshness.skipped
      /\ freshness'.entries = freshness.entries /\ freshness'.at = "store"
      /\ freshness'.time = freshness.time /\ freshness'.started = freshness.started
  BY <1>1 DEF ScanTypes
<1>5. FoundTrue => FoundTrue'
  BY <1>1, <1>2, <1>4 DEF FoundTrue, Hidden
<1>6. CheckTrue'
  BY <1>1, <1>4, <1>5 DEF CheckTrue, Unmoved
<1> QED
  BY <1>2, <1>3, <1>6

\* A folder whose entries were all files, or skipped, is stored as it was listed.
LEMMA ScanStore ==
    ASSUME Scanning!FolderScanAssumption, ScanInv, Scanning!Store
    PROVE  ScanInv'
<1> USE DEF ScanInv
<1>1. /\ UNCHANGED <<clock, sourceFolder, versions>>
      /\ freshness.at = "store" /\ freshness.left = {} /\ freshness' = Scanning!Idle
      /\ folderCache' = [files |-> freshness.found, inner |-> freshness.inner, skipped |-> freshness.skipped,
                         row |-> [time |-> freshness.time, trusted |-> Scanning!Trusted]]
  BY DEF Scanning!Store, CheckTrue
<1>2. FolderOK' /\ Scanning!Nested' = Scanning!Nested
  BY <1>1 DEF FolderOK, Scanning!Nested
<1>3. ScanTypes'
  <2>1. Scanning!Trusted \in BOOLEAN
    BY DEF Scanning!Trusted
  <2>2. Scanning!Idle \in [at : {"idle", "stat", "list", "entries", "store"},
                   started : Nat, dirty : BOOLEAN, time : Int, left : SUBSET (File \cup {"nested"}),
                   entries : Nat, found : [File -> Nat], inner : Nat, skipped : Int]
    BY DEF Scanning!Idle, Scanning!NoFiles, Scanning!Never, Scanning!Absent
  <2> QED
    BY <1>1, <2>1, <2>2 DEF ScanTypes
<1>4. CheckTrue'
  BY <1>1 DEF CheckTrue, Scanning!Idle
<1>5. /\ folderCache'.files = freshness.found /\ folderCache'.inner = freshness.inner
      /\ folderCache'.skipped = freshness.skipped /\ folderCache'.row.time = freshness.time
      /\ folderCache'.row.trusted = Scanning!Trusted
  BY <1>1
<1>6. ASSUME Scanning!Trusted
      PROVE  /\ freshness.time < clock - Settle /\ freshness.time <= sourceFolder.time
             /\ freshness.time = sourceFolder.time => CacheHolds'
  <2>1. freshness.time < freshness.started - Settle /\ freshness.entries = Scanning!Held
    BY <1>6 DEF Scanning!Trusted
  <2>2. /\ freshness.started <= clock /\ freshness.time <= sourceFolder.time
        /\ freshness.started \in Nat /\ freshness.time \in Int /\ clock \in Nat /\ Settle \in Nat
    BY <1>1 DEF CheckTrue, ScanTypes, FolderOK, Scanning!FolderScanAssumption
  <2>3. ASSUME freshness.time = sourceFolder.time PROVE CacheHolds'
    <3>1. FoundTrue
      BY <1>1, <2>1, <2>3 DEF CheckTrue, Unmoved
    <3>2. freshness.found = sourceFolder.files
      BY <1>1, <3>1 DEF FoundTrue, ScanTypes, FolderOK
    <3>3. Cardinality(Scanning!Present) \in Nat /\ Scanning!Cardinality(Scanning!Present) = Cardinality(Scanning!Present)
      BY FilesCount DEF Scanning!Present
    <3>4. Scanning!Held = Cardinality(Scanning!Present) + One(freshness.inner # 0) + One(freshness.skipped # -1)
      <4>1. {f \in File : freshness.found[f] # Scanning!Absent} = Scanning!Present
        BY <3>2 DEF Scanning!Present
      <4>2. Scanning!Held = Scanning!Cardinality({f \in File : freshness.found[f] # Scanning!Absent})
                        + (IF freshness.inner # 0 THEN 1 ELSE 0) + (IF freshness.skipped # -1 THEN 1 ELSE 0)
        BY DEF Scanning!Held, Scanning!Absent, Scanning!Never
      <4> QED
        BY <3>3, <4>1, <4>2 DEF One
    <3>5. freshness.entries = Cardinality(Scanning!Present) + One(Scanning!Nested) + One(freshness.inner # 0)
      BY <3>1 DEF FoundTrue
    <3>6. CASE Scanning!Nested
      <4>1. freshness.skipped # -1
        BY <2>1, <3>3, <3>4, <3>5, <3>6 DEF One
      <4>2. Hidden(freshness.skipped)
        BY <1>1, <3>1, <3>6, <4>1 DEF FoundTrue
      <4>3. Hidden(folderCache.skipped)'
        BY <1>1, <1>5, <4>2 DEF Hidden
      <4> QED
        BY <1>1, <1>2, <1>5, <3>2, <3>6, <4>3 DEF CacheHolds
    <3>7. CASE ~Scanning!Nested
      BY <1>1, <1>2, <1>5, <3>1, <3>2, <3>7 DEF CacheHolds, FoundTrue
    <3> QED
      BY <3>6, <3>7
  <2> QED
    BY <2>1, <2>2, <2>3
<1>7. CacheTrue'
  BY <1>1, <1>5, <1>6 DEF CacheTrue
<1> QED
  BY <1>2, <1>3, <1>4, <1>7

LEMMA ScanTick ==
    ASSUME Scanning!FolderScanAssumption, ScanInv, Scanning!Tick
    PROVE  ScanInv'
<1> USE DEF ScanInv
<1>1. UNCHANGED <<sourceFolder, versions, folderCache, freshness>> /\ clock' = clock + 1 /\ clock \in Nat
  BY DEF Scanning!Tick, FolderOK
<1>2. FolderOK' /\ ScanTypes'
  BY <1>1 DEF FolderOK, ScanTypes, Scanning!Nested
<1>3. FoundTrue' = FoundTrue /\ Unmoved' = Unmoved
  BY <1>1 DEF FoundTrue, Unmoved, Hidden, Scanning!Nested, Scanning!Present
<1>4. CheckTrue'
  BY <1>1, <1>3 DEF CheckTrue, ScanTypes, Scanning!NoFiles
<1>5. CacheTrue'
  <2>1. CacheHolds' = CacheHolds
    BY <1>1 DEF CacheHolds, Hidden, Scanning!Nested
  <2>2. Settle \in Nat /\ (folderCache.row.trusted => folderCache.row.time \in Int)
    BY DEF Scanning!FolderScanAssumption, ScanTypes
  <2> QED
    BY <1>1, <2>1, <2>2 DEF CacheTrue
<1> QED
  BY <1>2, <1>4, <1>5

LEMMA ScanStep ==
    ASSUME Scanning!FolderScanAssumption
    PROVE  ScanInv /\ [Scanning!Next]_Scanning!vars => ScanInv'
<1>1. ASSUME ScanInv, UNCHANGED Scanning!vars PROVE ScanInv'
  BY <1>1 DEF Scanning!vars, ScanInv, FolderOK, ScanTypes, CheckTrue, CacheTrue, FoundTrue, Unmoved, CacheHolds,
     Hidden, Scanning!Nested, Scanning!Present, Scanning!NoFiles
<1>2. ASSUME ScanInv, Scanning!Next PROVE ScanInv'
  BY <1>2, ScanBegin, ScanStat, ScanList, ScanVisit, ScanListed, ScanStore, ScanFile, ScanPut, ScanNest,
     ScanWithin, ScanTick DEF Scanning!Next
<1> QED
  BY <1>1, <1>2

\* In every reachable state a check that saw the folder as it is found what is
\* there, and a trusted row with the time of its folder holds its files; nested
\* folders that hide from it are closed or have changed.
THEOREM ScanInvariance ==
    ASSUME Scanning!FolderScanAssumption
    PROVE  Scanning!Spec => []ScanInv
<1>1. Scanning!Init => ScanInv
  BY ScanInit
<1>2. ScanInv /\ [Scanning!Next]_Scanning!vars => ScanInv'
  BY ScanStep
<1> QED
  BY <1>1, <1>2, PTL DEF Scanning!Spec

\* A folder that the next check would take from the cache holds what the cache
\* says, whatever was committed, removed, nested or closed before, between and
\* after the steps of checks, and however late the filesystem dates it within Lag
\* (index.py: _scan, inputs; storage.py: Store.scan).
THEOREM FoldersAreSeen ==
    ASSUME Scanning!FolderScanAssumption
    PROVE  Scanning!Spec => []Scanning!NothingOverlooked
<1>1. ASSUME ScanInv PROVE Scanning!NothingOverlooked
  <2> SUFFICES ASSUME Scanning!Reuses(sourceFolder.time, Scanning!Dirty)
               PROVE  /\ folderCache.files = sourceFolder.files
                      /\ sourceFolder.nested.open => folderCache.inner = sourceFolder.nested.inner
    BY DEF Scanning!NothingOverlooked
  <2>1. CacheHolds /\ ~Scanning!Dirty /\ folderCache.row.trusted
    BY <1>1 DEF ScanInv, CacheTrue, Scanning!Reuses
  <2>2. CASE Scanning!Nested
    BY <2>1, <2>2 DEF CacheHolds, Hidden, Scanning!Dirty, Scanning!Never
  <2>3. CASE ~Scanning!Nested
    BY <2>1, <2>3 DEF CacheHolds, Scanning!Nested, Scanning!NoNested, Scanning!Absent
  <2> QED
    BY <2>2, <2>3, <2>1 DEF CacheHolds
<1> QED
  BY <1>1, ScanInvariance, PTL

-----------------------------------------------------------------------------
(* Usage counts of one brain.                                              *)

CONSTANTS Event, LIMIT, KEEP, Window, MaxDay

VARIABLES today, logs, noted, counting, excused

Counting == INSTANCE UsageLog WITH files <- logs, call <- counting

Dates == Nat \ {0}
UsageLine == [day : Dates, events : SUBSET Event, summed : BOOLEAN]
Newest == Counting!Current

UsageTypes ==
    /\ today \in Dates
    /\ Newest \in Dates /\ DOMAIN logs = 1..Newest
    /\ \A i \in 1..Newest : logs[i] \subseteq UsageLine
    /\ noted \in [Event -> Nat] /\ excused \subseteq Event
    /\ counting \in [Process -> [at : {"idle", "open", "append", "read", "write"}, today : Dates,
                                 event : Event \cup {"none"}, file : Nat, lines : SUBSET UsageLine]]

\* Each event of some lines is in one of them, which has its day.
TrueLines(lines) ==
    \A l \in lines : \A e \in l.events : noted[e] = l.day /\ \A k \in lines : e \in k.events => k = l

\* A call's clock is not ahead, its event is new until it is appended, and the
\* lines it read were true.
CountsOf(p) ==
    LET c == counting[p] IN
    /\ c.at # "idle" => c.today <= today
    /\ c.at \in {"open", "append"} =>
          /\ c.event \in Event /\ noted[c.event] = 0
          /\ \A q \in Process \ {p} : counting[q].event # c.event
    /\ c.at \in {"append", "read", "write"} => c.file \in 1..Newest
    /\ c.at = "write" => TrueLines(c.lines)

\* An event of the window that nobody overtook is in the newest file.
Noted(e) == e \notin excused /\ noted[e] # 0 /\ noted[e] >= Counting!First(today) =>
              \E l \in logs[Newest] : e \in l.events

UsageInv ==
    /\ UsageTypes
    /\ \A i \in 1..Newest : TrueLines(logs[i])
    /\ \A p \in Process : CountsOf(p)
    /\ \A e \in Event : noted[e] <= today /\ Noted(e)

\* The count of files is the one of the standard module.
LEMMA FilesAreCounted == \A n \in Nat : Counting!Cardinality(1..n) = n
<1>1. \A S : Counting!Cardinality(S) = Cardinality(S)
  BY Zenon DEF Counting!Cardinality, Counting!IsFiniteSet, Cardinality, IsFiniteSet
<1>2. \A n \in Nat : Cardinality(1..n) = n
  BY FS_Interval
<1> QED
  BY <1>1, <1>2

LEMMA InEvents == ASSUME NEW lines, NEW e PROVE e \in Counting!EventsOf(lines) <=> \E l \in lines : e \in l.events
BY DEF Counting!EventsOf

Summed(S, C) == {Counting!Sum(d, S) : d \in {l.day : l \in S}} \cup C

\* What summing a part of true lines by day leaves, beside another part.
LEMMA SumsAreTrue ==
    ASSUME UsageTypes, NEW lines \in SUBSET UsageLine, TrueLines(lines),
           NEW S \in SUBSET lines, NEW C \in SUBSET lines, S \cap C = {}
    PROVE  /\ Summed(S, C) \subseteq UsageLine /\ TrueLines(Summed(S, C))
           /\ \A l \in S \cup C : \A e \in l.events : \E k \in Summed(S, C) : e \in k.events
<1>. PICK R : R = Summed(S, C)
  OBVIOUS
<1>0. R = {Counting!Sum(d, S) : d \in {l.day : l \in S}} \cup C
  BY DEF Summed
<1>1. ASSUME NEW d \in {l.day : l \in S}
      PROVE  /\ Counting!Sum(d, S) \in UsageLine /\ Counting!Sum(d, S).day = d
             /\ \A e : e \in Counting!Sum(d, S).events <=> \E l \in S : l.day = d /\ e \in l.events
  <2>1. \A e : e \in Counting!EventsOf({l \in S : l.day = d}) <=> \E l \in S : l.day = d /\ e \in l.events
    BY InEvents
  <2>2. Counting!EventsOf({l \in S : l.day = d}) \in SUBSET Event /\ d \in Dates
    BY <2>1 DEF UsageLine
  <2> QED
    BY <2>1, <2>2 DEF Counting!Sum, UsageLine
<1>2. R \subseteq UsageLine
  BY <1>0, <1>1
<1>3. ASSUME NEW l \in R, NEW e \in l.events
      PROVE  noted[e] = l.day /\ \A k \in R : e \in k.events => k = l
  <2>1. ASSUME NEW k \in R, e \in k.events
        PROVE  \/ k \in C /\ noted[e] = k.day
               \/ /\ noted[e] = k.day /\ k = Counting!Sum(noted[e], S)
                  /\ \E m \in S : e \in m.events
    <3>1. CASE k \in C
      BY <2>1, <3>1 DEF TrueLines
    <3>2. ASSUME NEW d \in {m.day : m \in S}, k = Counting!Sum(d, S)
          PROVE  noted[e] = k.day /\ k = Counting!Sum(noted[e], S) /\ \E m \in S : e \in m.events
      <4>1. PICK m \in S : m.day = d /\ e \in m.events
        BY <1>1, <2>1, <3>2
      <4> QED
        BY <1>1, <3>2, <4>1 DEF TrueLines
    <3> QED
      BY <1>0, <2>1, <3>1, <3>2
  <2>2. ASSUME NEW k \in R, e \in k.events PROVE k = l
    <3>1. \A m \in S, n \in C : e \in m.events => e \notin n.events
      BY DEF TrueLines
    <3>2. \A m, n \in C : e \in m.events /\ e \in n.events => m = n
      BY DEF TrueLines
    <3> QED
      BY <2>1, <2>2, <3>1, <3>2
  <2> QED
    BY <2>1, <2>2
<1>4. ASSUME NEW l \in S \cup C, NEW e \in l.events PROVE \E k \in R : e \in k.events
  <2>1. CASE l \in C
    BY <1>0, <2>1
  <2>2. CASE l \in S
    <3>1. e \in Counting!Sum(l.day, S).events
      BY <1>1, <2>2
    <3> QED
      BY <1>0, <2>2, <3>1
  <2> QED
    BY <2>1, <2>2
<1> QED
  BY <1>2, <1>3, <1>4 DEF TrueLines

\* _rotate drops no event of its window, and counts each of them as before.
LEMMA RotateIsTrue ==
    ASSUME UsageTypes, NEW lines \in SUBSET UsageLine, TrueLines(lines), NEW day \in Dates
    PROVE  /\ Counting!Rotate(lines, day) \subseteq UsageLine /\ TrueLines(Counting!Rotate(lines, day))
           /\ \A l \in lines : Counting!First(day) <= l.day /\ l.day <= day =>
                \A e \in l.events : \E k \in Counting!Rotate(lines, day) : e \in k.events
<1>1. PICK seen : seen = {l \in lines : Counting!First(day) <= l.day /\ l.day <= day}
  OBVIOUS
<1>2. PICK current : current = {l \in seen : l.day = day /\ ~l.summed}
  OBVIOUS
<1>3. PICK days : days = {Counting!Sum(d, seen \ current) : d \in {l.day : l \in seen \ current}}
  OBVIOUS
<1>4. \/ Counting!Rotate(lines, day) = days \cup current
      \/ Counting!Rotate(lines, day) = {Counting!Sum(d, seen) : d \in {l.day : l \in seen}} \cup {}
  BY <1>1, <1>2, <1>3 DEF Counting!Rotate
<1>5. seen \in SUBSET lines /\ current \in SUBSET lines /\ (seen \ current) \in SUBSET lines
  BY <1>1, <1>2
<1>6. CASE Counting!Rotate(lines, day) = days \cup current
  <2>1. PICK S : S = seen \ current
    OBVIOUS
  <2>2. Counting!Rotate(lines, day) = {Counting!Sum(d, S) : d \in {l.day : l \in S}} \cup current
    BY <1>3, <1>6, <2>1
  <2>3. S \in SUBSET lines /\ S \cap current = {} /\ S \cup current = seen
    BY <1>2, <1>5, <2>1
  <2>4. Counting!Rotate(lines, day) = Summed(S, current)
    BY <2>2 DEF Summed
  <2>5. /\ Summed(S, current) \subseteq UsageLine /\ TrueLines(Summed(S, current))
        /\ \A l \in S \cup current : \A e \in l.events : \E k \in Summed(S, current) : e \in k.events
    BY <1>5, <2>3, SumsAreTrue
  <2> QED
    BY <1>1, <2>3, <2>4, <2>5
<1>7. CASE Counting!Rotate(lines, day) = {Counting!Sum(d, seen) : d \in {l.day : l \in seen}} \cup {}
  <2>1. PICK none : none = {}
    OBVIOUS
  <2>2. Counting!Rotate(lines, day) = {Counting!Sum(d, seen) : d \in {l.day : l \in seen}} \cup none
    BY <1>7, <2>1
  <2>3. none \in SUBSET lines /\ seen \cap none = {} /\ seen \cup none = seen
    BY <2>1
  <2>4. Counting!Rotate(lines, day) = Summed(seen, none)
    BY <2>2 DEF Summed
  <2>5. /\ Summed(seen, none) \subseteq UsageLine /\ TrueLines(Summed(seen, none))
        /\ \A l \in seen \cup none : \A e \in l.events : \E k \in Summed(seen, none) : e \in k.events
    BY <1>5, <2>3, SumsAreTrue
  <2> QED
    BY <1>1, <2>3, <2>4, <2>5
<1> QED
  BY <1>4, <1>6, <1>7

LEMMA FirstGrows ==
    ASSUME Counting!UsageLogAssumption, NEW d \in Dates, NEW t \in Dates, d <= t
    PROVE  Counting!First(d) \in Dates /\ Counting!First(d) <= Counting!First(t)
BY DEF Counting!First, Counting!UsageLogAssumption, Dates

LEMMA UsageInit == ASSUME Counting!UsageLogAssumption, Counting!Init PROVE UsageInv
<1>1. DOMAIN logs = 1..1 /\ logs[1] = {}
  BY DEF Counting!Init
<1>2. Newest = 1
  BY <1>1, FilesAreCounted DEF Newest, Counting!Current
<1>3. UsageTypes
  BY <1>1, <1>2 DEF UsageTypes, Counting!Init, Counting!Idle, Counting!Never, Dates
<1>4. \A p \in Process : CountsOf(p)
  BY DEF Counting!Init, Counting!Idle, CountsOf
<1>5. \A e \in Event : noted[e] = 0 /\ today = 1
  BY DEF Counting!Init, Counting!Never
<1> QED
  BY <1>1, <1>2, <1>3, <1>4, <1>5 DEF UsageInv, TrueLines, Noted

\* A step that moves the call of one process, and neither files nor days.
LEMMA CountMoves ==
    ASSUME Counting!UsageLogAssumption, UsageInv, UNCHANGED <<today, logs, noted, excused>>,
           NEW p \in Process, NEW c \in [at : {"idle", "open", "append", "read", "write"}, today : Dates,
                                         event : Event \cup {"none"}, file : Nat, lines : SUBSET UsageLine],
           counting' = [counting EXCEPT ![p] = c],
           c.event = counting[p].event \/ c.event = "none"
             \/ (c.event \in Event /\ \A q \in Process : counting[q].event # c.event),
           CountsOf(p)'
    PROVE  UsageInv'
<1>1. counting'[p] = c /\ \A q \in Process \ {p} : counting'[q] = counting[q]
  BY DEF UsageInv, UsageTypes
<1>2. Newest' = Newest
  BY DEF Newest, Counting!Current
<1>3. UsageTypes'
  BY <1>2 DEF UsageInv, UsageTypes
<1>4. ASSUME NEW q \in Process, q # p PROVE CountsOf(q)'
  <2>1. CountsOf(q) /\ counting'[q] = counting[q]
    BY <1>1, <1>4 DEF UsageInv
  <2>2. counting[q].at \in {"open", "append"} => \A r \in Process \ {q} : counting'[r].event # counting[q].event
    <3>1. ASSUME counting[q].at \in {"open", "append"} PROVE c.event # counting[q].event
      BY <1>4, <2>1, <3>1 DEF CountsOf, Counting!UsageLogAssumption
    <3> QED
      BY <1>1, <1>4, <2>1, <3>1 DEF CountsOf
  <2> QED
    BY <1>2, <2>1, <2>2 DEF CountsOf, TrueLines
<1>5. \A i \in 1..Newest : TrueLines(logs[i])'
  BY DEF UsageInv, TrueLines
<1>6. \A e \in Event : noted'[e] <= today' /\ Noted(e)'
  BY <1>2 DEF UsageInv, Noted, Counting!First
<1> QED
  BY <1>2, <1>3, <1>4, <1>5, <1>6 DEF UsageInv

LEMMA UsageCalls ==
    ASSUME Counting!UsageLogAssumption, UsageInv, NEW p \in Process,
           (\E e \in Event : Counting!Note(p, e)) \/ Counting!Open(p) \/ Counting!ReadLines(p) \/ Counting!Drop(p)
    PROVE  UsageInv'
<1> DEFINE Calls == [at : {"idle", "open", "append", "read", "write"}, today : Dates,
                     event : Event \cup {"none"}, file : Nat, lines : SUBSET UsageLine]
<1>1. /\ UNCHANGED <<today, logs, noted, excused>> /\ counting[p] \in Calls /\ CountsOf(p)
      /\ today \in Dates /\ Newest \in Dates /\ Newest' = Newest
      /\ counting \in [Process -> Calls]
  BY DEF Counting!Note, Counting!Open, Counting!ReadLines, Counting!Drop, UsageInv, UsageTypes, Newest, Counting!Current
<1>2. Counting!Idle \in Calls /\ Counting!Idle.at = "idle" /\ Counting!Idle.event = "none"
  BY DEF Counting!Idle, Dates
<1>3. ASSUME NEW e \in Event, Counting!Note(p, e)
      PROVE  UsageInv'
  <2>1. PICK c : c = [Counting!Idle EXCEPT !.at = "open", !.today = today, !.event = e]
    OBVIOUS
  <2>2. c \in Calls /\ c.at = "open" /\ c.today = today /\ c.event = e
    BY <1>1, <2>1 DEF Counting!Idle, Dates
  <2>3. /\ counting' = [counting EXCEPT ![p] = c] /\ noted[e] = 0
        /\ \A q \in Process : counting[q].event # e
        /\ counting[p].at = "idle"
    BY <1>3, <2>1 DEF Counting!Note, Counting!Never
  <2>4. CountsOf(p)'
    <3>1. counting'[p] = c /\ \A q \in Process \ {p} : counting'[q] = counting[q]
      BY <1>1, <2>3
    <3>2. today <= today
      BY <1>1 DEF Dates
    <3> QED
      BY <1>1, <2>2, <2>3, <3>1, <3>2 DEF CountsOf
  <2> HIDE DEF Calls
  <2> QED
    BY <1>1, <2>2, <2>3, <2>4, CountMoves DEF Calls
<1>4. CASE Counting!Open(p)
  <2>1. PICK c : c = [counting[p] EXCEPT !.at = "append", !.file = Newest]
    OBVIOUS
  <2>2. /\ counting' = [counting EXCEPT ![p] = c] /\ counting[p].at = "open"
    BY <1>1, <1>4, <2>1 DEF Counting!Open, Newest
  <2>3. /\ c \in Calls /\ c.at = "append" /\ c.today = counting[p].today /\ c.event = counting[p].event
        /\ c.file = Newest
    BY <1>1, <2>1 DEF Dates
  <2>4. CountsOf(p)'
    <3>1. counting'[p] = c /\ \A q \in Process \ {p} : counting'[q] = counting[q]
      BY <1>1, <2>2
    <3>2. Newest \in 1..Newest
      BY <1>1 DEF Dates
    <3> QED
      BY <1>1, <2>2, <2>3, <3>1, <3>2 DEF CountsOf
  <2> HIDE DEF Calls
  <2> QED
    BY <1>1, <2>2, <2>3, <2>4, CountMoves DEF Calls
<1>5. CASE Counting!ReadLines(p)
  <2>1. PICK c : c = [counting[p] EXCEPT !.at = "write", !.lines = logs[counting[p].file]]
    OBVIOUS
  <2>2. /\ counting' = [counting EXCEPT ![p] = c] /\ counting[p].at = "read"
    BY <1>1, <1>5, <2>1 DEF Counting!ReadLines
  <2>3. counting[p].file \in 1..Newest /\ logs[counting[p].file] \in SUBSET UsageLine
        /\ TrueLines(logs[counting[p].file])
    BY <1>1, <2>2 DEF CountsOf, UsageInv, UsageTypes
  <2>4. /\ c \in Calls /\ c.at = "write" /\ c.today = counting[p].today /\ c.event = counting[p].event
        /\ c.file = counting[p].file /\ c.lines = logs[counting[p].file]
    BY <1>1, <2>1, <2>3
  <2>5. CountsOf(p)'
    <3>1. counting'[p] = c
      BY <1>1, <2>2
    <3> QED
      BY <1>1, <2>2, <2>3, <2>4, <3>1 DEF CountsOf, TrueLines
  <2> HIDE DEF Calls
  <2> QED
    BY <1>1, <2>2, <2>4, <2>5, CountMoves DEF Calls
<1>6. CASE Counting!Drop(p)
  <2>1. PICK c : c = Counting!Idle
    OBVIOUS
  <2>2. counting' = [counting EXCEPT ![p] = c] /\ c \in Calls /\ c.at = "idle" /\ c.event = "none"
    BY <1>2, <1>6, <2>1 DEF Counting!Drop
  <2>3. CountsOf(p)'
    BY <1>1, <2>2 DEF CountsOf
  <2> HIDE DEF Calls
  <2> QED
    BY <1>1, <2>2, <2>3, CountMoves DEF Calls
<1> QED
  BY <1>3, <1>4, <1>5, <1>6

LEMMA UsageAppend ==
    ASSUME Counting!UsageLogAssumption, UsageInv, NEW p \in Process, Counting!Append(p)
    PROVE  UsageInv'
<1>1. PICK c \in [at : {"idle", "open", "append", "read", "write"}, today : Dates,
                  event : Event \cup {"none"}, file : Nat, lines : SUBSET UsageLine] :
        c = counting[p] /\ c.at = "append" /\ c.event \in Event /\ noted[c.event] = 0 /\ c.today <= today
        /\ c.file \in 1..Newest /\ \A q \in Process \ {p} : counting[q].event # c.event
  BY DEF Counting!Append, UsageInv, UsageTypes, CountsOf
<1>2. PICK line \in UsageLine : line = [day |-> c.today, events |-> {c.event}, summed |-> FALSE]
  BY <1>1 DEF UsageLine
<1>3. PICK lines : lines = logs[c.file] \cup {line}
  OBVIOUS
<1>4. /\ logs' = [logs EXCEPT ![c.file] = lines]
      /\ noted' = [noted EXCEPT ![c.event] = c.today]
      /\ excused' = (IF c.file = Newest THEN excused ELSE excused \cup {c.event})
      /\ today' = today
      /\ \/ counting' = [counting EXCEPT ![p] = Counting!Idle]
         \/ counting' = [counting EXCEPT ![p].at = "read"]
  BY <1>1, <1>2, <1>3 DEF Counting!Append, Newest
<1>5. /\ today \in Dates /\ Newest \in Dates /\ DOMAIN logs = 1..Newest
      /\ noted \in [Event -> Nat] /\ c.today \in Dates /\ logs[c.file] \in SUBSET UsageLine
  BY <1>1 DEF UsageInv, UsageTypes
<1>6. Newest' = Newest /\ DOMAIN logs' = 1..Newest
  BY <1>4, <1>5 DEF Newest, Counting!Current
<1>7. /\ logs'[c.file] = lines
      /\ \A i \in 1..Newest : i # c.file => logs'[i] = logs[i]
  BY <1>1, <1>4, <1>5
<1>8. \A e \in Event : noted'[e] = IF e = c.event THEN c.today ELSE noted[e]
  BY <1>1, <1>4, <1>5
<1>9. PICK new \in [at : {"idle", "read"}, today : Dates,
                    event : Event \cup {"none"}, file : Nat, lines : SUBSET UsageLine] :
        /\ counting' = [counting EXCEPT ![p] = new]
        /\ new.event \in {"none", c.event} /\ (new.at = "read" => new.file = c.file /\ new.today = c.today)
  <2>1. CASE counting' = [counting EXCEPT ![p] = Counting!Idle]
    <3>1. PICK new : new = Counting!Idle
      OBVIOUS
    <3>2. /\ new \in [at : {"idle", "read"}, today : Dates,
                      event : Event \cup {"none"}, file : Nat, lines : SUBSET UsageLine]
          /\ new.event = "none" /\ new.at = "idle"
      BY <3>1 DEF Counting!Idle, Dates
    <3> QED
      BY <2>1, <3>1, <3>2
  <2>2. CASE counting' = [counting EXCEPT ![p].at = "read"]
    <3>1. PICK new : new = [c EXCEPT !.at = "read"]
      OBVIOUS
    <3>2. counting' = [counting EXCEPT ![p] = new]
      BY <1>1, <2>2, <3>1 DEF UsageInv, UsageTypes
    <3>3. /\ new \in [at : {"idle", "read"}, today : Dates,
                      event : Event \cup {"none"}, file : Nat, lines : SUBSET UsageLine]
          /\ new.event = c.event /\ new.at = "read" /\ new.file = c.file /\ new.today = c.today
      BY <1>1, <3>1
    <3> QED
      BY <3>2, <3>3
  <2> QED
    BY <1>4, <2>1, <2>2
<1>10. counting'[p] = new /\ \A q \in Process \ {p} : counting'[q] = counting[q]
  BY <1>9 DEF UsageInv, UsageTypes
<1>11. UsageTypes'
  <2>1. \A i \in 1..Newest : logs'[i] \subseteq UsageLine
    BY <1>1, <1>3, <1>5, <1>7 DEF UsageInv, UsageTypes
  <2>2. noted' \in [Event -> Nat] /\ excused' \subseteq Event
    BY <1>1, <1>4, <1>5 DEF UsageInv, UsageTypes, Dates
  <2>3. counting' \in [Process -> [at : {"idle", "open", "append", "read", "write"}, today : Dates,
                                   event : Event \cup {"none"}, file : Nat, lines : SUBSET UsageLine]]
    <3>1. new \in [at : {"idle", "open", "append", "read", "write"}, today : Dates,
                   event : Event \cup {"none"}, file : Nat, lines : SUBSET UsageLine]
      OBVIOUS
    <3> QED
      BY <1>9, <3>1 DEF UsageInv, UsageTypes
  <2> QED
    BY <1>4, <1>5, <1>6, <2>1, <2>2, <2>3 DEF UsageTypes
<1>12. ASSUME NEW old \in SUBSET UsageLine, TrueLines(old)
       PROVE  TrueLines(old)' /\ \A l \in old : c.event \notin l.events
  <2>1. \A l \in old : l.day \in Dates /\ l.events \subseteq Event
    BY DEF UsageLine
  <2>2. \A l \in old : c.event \notin l.events
    BY <1>1, <1>12, <2>1 DEF TrueLines, Dates
  <2> QED
    BY <1>8, <1>12, <2>1, <2>2 DEF TrueLines
<1>13. \A i \in 1..Newest : TrueLines(logs[i])'
  <2>1. ASSUME NEW i \in 1..Newest, i # c.file PROVE TrueLines(logs[i])'
    <3>1. logs[i] \in SUBSET UsageLine /\ TrueLines(logs[i])
      BY DEF UsageInv, UsageTypes
    <3>2. PICK old : old = logs[i]
      OBVIOUS
    <3>3. TrueLines(old)' /\ logs'[i] = old
      BY <1>7, <1>12, <2>1, <3>1, <3>2
    <3> QED
      BY <3>3 DEF TrueLines
  <2>2. TrueLines(logs[c.file])'
    <3>1. PICK old : old = logs[c.file]
      OBVIOUS
    <3>2. TrueLines(old)' /\ \A l \in old : c.event \notin l.events
      BY <1>1, <1>5, <1>12, <3>1 DEF UsageInv
    <3>3. logs'[c.file] = old \cup {line} /\ line.events = {c.event} /\ line.day = c.today
      BY <1>2, <1>3, <1>7, <3>1
    <3> QED
      BY <1>1, <1>8, <3>2, <3>3 DEF TrueLines
  <2> QED
    BY <2>1, <2>2
<1>14. ASSUME NEW q \in Process PROVE CountsOf(q)'
  <2>1. CASE q = p
    BY <1>1, <1>4, <1>6, <1>9, <1>10, <2>1 DEF CountsOf
  <2>2. CASE q # p
    <3>1. CountsOf(q) /\ counting'[q] = counting[q] /\ counting[q].lines \in SUBSET UsageLine
      BY <1>10, <2>2 DEF UsageInv, UsageTypes
    <3>2. counting[q].at = "write" => TrueLines(counting[q].lines)'
      <4>1. PICK old : old = counting[q].lines
        OBVIOUS
      <4>2. counting[q].at = "write" => TrueLines(old)'
        BY <1>12, <3>1, <4>1 DEF CountsOf
      <4> QED
        BY <3>1, <4>1, <4>2 DEF TrueLines
    <3>3. counting[q].at \in {"open", "append"} =>
            /\ noted'[counting[q].event] = 0
            /\ \A r \in Process \ {q} : counting'[r].event # counting[q].event
      <4>1. counting[q].at \in {"open", "append"} => counting[q].event \in Event /\ counting[q].event # c.event
        BY <1>1, <2>2, <3>1 DEF CountsOf
      <4>2. "none" \notin Event
        BY DEF Counting!UsageLogAssumption
      <4> QED
        BY <1>8, <1>9, <1>10, <3>1, <4>1, <4>2 DEF CountsOf
    <3> QED
      BY <1>4, <1>6, <3>1, <3>2, <3>3 DEF CountsOf
  <2> QED
    BY <2>1, <2>2
<1>15. ASSUME NEW e \in Event PROVE noted'[e] <= today' /\ Noted(e)'
  <2>1. noted'[e] <= today'
    BY <1>1, <1>4, <1>8 DEF UsageInv
  <2>2. CASE e = c.event
    <3>1. c.file # Newest => e \in excused'
      BY <1>4, <2>2
    <3>2. c.file = Newest => line \in logs'[Newest] /\ e \in line.events
      BY <1>2, <1>3, <1>7, <2>2
    <3>3. Noted(e)'
      BY <1>6, <3>1, <3>2 DEF Noted
    <3> QED
      BY <2>1, <3>3
  <2>3. CASE e # c.event
    <3>1. Noted(e) /\ noted'[e] = noted[e] /\ (e \notin excused' => e \notin excused)
      BY <1>4, <1>8, <2>3 DEF UsageInv
    <3>2. \A l \in logs[Newest] : l \in logs'[Newest]
      BY <1>3, <1>5, <1>7 DEF Dates
    <3>3. Counting!First(today)' = Counting!First(today)
      BY <1>4 DEF Counting!First
    <3>4. e \notin excused' /\ noted'[e] # 0 /\ noted'[e] >= Counting!First(today)' =>
             \E l \in logs[Newest] : e \in l.events
      BY <3>1, <3>3 DEF Noted
    <3>5. Noted(e)'
      BY <1>6, <3>2, <3>4 DEF Noted
    <3> QED
      BY <2>1, <3>5
  <2> QED
    BY <2>1, <2>2, <2>3
<1> QED
  BY <1>6, <1>11, <1>13, <1>14, <1>15 DEF UsageInv

\* The file that replaces the current one: what was written beside it is excused.
LEMMA UsageWrite ==
    ASSUME Counting!UsageLogAssumption, UsageInv, NEW p \in Process, Counting!Write(p)
    PROVE  UsageInv'
<1>1. PICK c \in [at : {"idle", "open", "append", "read", "write"}, today : Dates,
                  event : Event \cup {"none"}, file : Nat, lines : SUBSET UsageLine] :
        c = counting[p] /\ c.at = "write" /\ c.today <= today /\ TrueLines(c.lines)
  BY DEF Counting!Write, UsageInv, UsageTypes, CountsOf
<1>2. PICK lines \in SUBSET UsageLine :
        /\ lines = Counting!Rotate(c.lines, c.today) /\ TrueLines(lines)
        /\ \A l \in c.lines : Counting!First(c.today) <= l.day /\ l.day <= c.today =>
              \A e \in l.events : \E k \in lines : e \in k.events
  BY <1>1, RotateIsTrue DEF UsageInv
<1>3. /\ logs' = [i \in 1..Newest + 1 |-> IF i <= Newest THEN logs[i] ELSE lines]
      /\ excused' = excused \cup (Counting!EventsOf(logs[Newest]) \ Counting!EventsOf(c.lines))
                            \cup Counting!EventsOf({l \in c.lines : l.day > c.today})
      /\ counting' = [counting EXCEPT ![p] = Counting!Idle]
      /\ today' = today /\ noted' = noted
  BY <1>1, <1>2 DEF Counting!Write, Newest
<1>4. today \in Dates /\ Newest \in Dates /\ DOMAIN logs = 1..Newest
  BY DEF UsageInv, UsageTypes
<1>5. Newest' = Newest + 1
  <2>1. DOMAIN logs' = 1..Newest + 1 /\ Newest + 1 \in Nat
    BY <1>3, <1>4 DEF Dates
  <2> QED
    BY <2>1, FilesAreCounted DEF Newest, Counting!Current
<1>6. /\ logs'[Newest + 1] = lines /\ \A i \in 1..Newest : logs'[i] = logs[i]
      /\ Newest + 1 \in Dates
      /\ \A i \in 1..Newest + 1 : i \in 1..Newest \/ i = Newest + 1
  BY <1>3, <1>4 DEF Dates
<1>7. Counting!Idle.at = "idle" /\ Counting!Idle.event = "none"
      /\ Counting!Idle \in [at : {"idle", "open", "append", "read", "write"}, today : Dates,
                    event : Event \cup {"none"}, file : Nat, lines : SUBSET UsageLine]
  BY DEF Counting!Idle, Dates
<1>8. counting'[p] = Counting!Idle /\ \A q \in Process \ {p} : counting'[q] = counting[q]
  BY <1>3 DEF UsageInv, UsageTypes
<1>9. UsageTypes'
  <2>1. excused' \subseteq Event
    <3>1. \A l \in logs[Newest] : l.events \subseteq Event
      BY <1>4 DEF UsageInv, UsageTypes, UsageLine, Dates
    <3>2. \A l \in c.lines : l.events \subseteq Event
      BY DEF UsageLine
    <3> QED
      BY <1>3, <3>1, <3>2, InEvents DEF UsageInv, UsageTypes
  <2>2. counting' \in [Process -> [at : {"idle", "open", "append", "read", "write"}, today : Dates,
                                   event : Event \cup {"none"}, file : Nat, lines : SUBSET UsageLine]]
    BY <1>3, <1>7 DEF UsageInv, UsageTypes
  <2>3. DOMAIN logs' = 1..Newest' /\ \A i \in 1..Newest' : logs'[i] \subseteq UsageLine
    BY <1>3, <1>5, <1>6 DEF UsageInv, UsageTypes
  <2> QED
    BY <1>3, <1>4, <1>5, <1>6, <2>1, <2>2, <2>3 DEF UsageInv, UsageTypes
<1>10. ASSUME NEW i \in 1..Newest' PROVE TrueLines(logs[i])'
  <2>1. TrueLines(logs'[i])
    BY <1>2, <1>5, <1>6 DEF UsageInv
  <2>2. PICK L : L = logs'[i]
    OBVIOUS
  <2> QED
    BY <1>3, <2>1 DEF TrueLines
<1>11. ASSUME NEW q \in Process PROVE CountsOf(q)'
  <2>1. CASE q = p
    BY <1>7, <1>8, <2>1 DEF CountsOf
  <2>2. CASE q # p
    <3>1. CountsOf(q) /\ counting'[q] = counting[q]
      BY <1>8, <2>2 DEF UsageInv
    <3>2. counting[q].at \in {"append", "read", "write"} => counting[q].file \in 1..Newest'
      BY <1>4, <1>5, <3>1 DEF CountsOf, Dates
    <3>3. counting[q].at \in {"open", "append"} =>
             \A r \in Process \ {q} : counting'[r].event # counting[q].event
      BY <1>7, <1>8, <3>1 DEF CountsOf, Counting!UsageLogAssumption
    <3> QED
      BY <1>3, <3>1, <3>2, <3>3 DEF CountsOf, TrueLines
  <2> QED
    BY <2>1, <2>2
<1>12. ASSUME NEW e \in Event PROVE noted'[e] <= today' /\ Noted(e)'
  <2>1. Noted(e) /\ noted'[e] <= today'
    BY <1>3 DEF UsageInv
  <2>2. ASSUME e \notin excused', noted[e] # 0, noted[e] >= Counting!First(today)
        PROVE  \E k \in lines : e \in k.events
    <3>1. PICK m \in logs[Newest] : e \in m.events
      BY <1>3, <2>1, <2>2 DEF Noted
    <3>2. e \in Counting!EventsOf(logs[Newest])
      BY <3>1, InEvents
    <3>3. PICK l \in c.lines : e \in l.events
      BY <1>3, <2>2, <3>2, InEvents
    <3>4. ~(l.day > c.today)
      BY <1>3, <2>2, <3>3, InEvents
    <3>5. noted[e] = l.day /\ l.day \in Dates /\ c.today \in Dates
      BY <1>1, <3>3 DEF TrueLines, UsageLine
    <3>6. Counting!First(c.today) <= Counting!First(today) /\ Counting!First(c.today) \in Dates /\ Counting!First(today) \in Dates
      BY <1>1, <1>4, FirstGrows DEF Dates
    <3>7. Counting!First(c.today) <= l.day /\ l.day <= c.today
      BY <2>2, <3>4, <3>5, <3>6 DEF Dates
    <3> QED
      BY <1>2, <3>3, <3>7
  <2>3. Counting!First(today)' = Counting!First(today)
    BY <1>3 DEF Counting!First
  <2>4. e \notin excused' /\ noted'[e] # 0 /\ noted'[e] >= Counting!First(today)' =>
            \E k \in logs'[Newest'] : e \in k.events
    BY <1>3, <1>5, <1>6, <2>2, <2>3
  <2>5. Noted(e)'
    BY <2>4 DEF Noted
  <2> QED
    BY <2>1, <2>5
<1> QED
  BY <1>9, <1>10, <1>11, <1>12 DEF UsageInv

LEMMA UsageMidnight ==
    ASSUME Counting!UsageLogAssumption, UsageInv, Counting!Midnight
    PROVE  UsageInv'
<1>1. today' = today + 1 /\ UNCHANGED <<logs, noted, counting, excused>> /\ today \in Dates /\ Newest' = Newest
  BY DEF Counting!Midnight, UsageInv, UsageTypes, Newest, Counting!Current
<1>2. UsageTypes'
  BY <1>1 DEF UsageInv, UsageTypes, Dates
<1>3. \A i \in 1..Newest' : TrueLines(logs[i])'
  BY <1>1 DEF UsageInv, TrueLines
<1>4. ASSUME NEW q \in Process PROVE CountsOf(q)'
  <2>1. CountsOf(q) /\ counting[q].today \in Dates
    BY DEF UsageInv, UsageTypes
  <2>2. counting[q].at # "idle" => counting[q].today <= today + 1
    BY <1>1, <2>1 DEF CountsOf, Dates
  <2> QED
    BY <1>1, <2>1, <2>2 DEF CountsOf, TrueLines
<1>5. ASSUME NEW e \in Event PROVE noted'[e] <= today' /\ Noted(e)'
  <2>1. noted[e] \in Nat /\ noted[e] <= today /\ Noted(e)
    BY DEF UsageInv, UsageTypes
  <2>2. Counting!First(today) <= Counting!First(today') /\ Counting!First(today) \in Dates /\ Counting!First(today') \in Dates
    BY <1>1, FirstGrows DEF Dates
  <2>3. Counting!First(today)' = Counting!First(today')
    BY DEF Counting!First
  <2>4. noted'[e] <= today'
    BY <1>1, <2>1 DEF Dates
  <2>5. e \notin excused' /\ noted'[e] # 0 /\ noted'[e] >= Counting!First(today)' =>
            \E k \in logs'[Newest'] : e \in k.events
    BY <1>1, <2>1, <2>2, <2>3 DEF Noted, Dates
  <2>6. Noted(e)'
    BY <2>5 DEF Noted
  <2> QED
    BY <2>4, <2>6
<1> QED
  BY <1>2, <1>3, <1>4, <1>5 DEF UsageInv

LEMMA UsageStep ==
    ASSUME Counting!UsageLogAssumption
    PROVE  UsageInv /\ [Counting!Next]_Counting!vars => UsageInv'
<1>1. ASSUME UsageInv, UNCHANGED Counting!vars PROVE UsageInv'
  BY <1>1 DEF Counting!vars, UsageInv, UsageTypes, CountsOf, TrueLines, Noted, Newest, Counting!Current, Counting!First
<1>2. ASSUME UsageInv, Counting!Next PROVE UsageInv'
  BY <1>2, UsageCalls, UsageAppend, UsageWrite, UsageMidnight DEF Counting!Next
<1> QED
  BY <1>1, <1>2

\* In every reachable state each event of a file is in one of its lines, on its
\* day, and one that was not overtaken is in the newest file while its day is in
\* the window.
THEOREM UsageInvariance ==
    ASSUME Counting!UsageLogAssumption
    PROVE  Counting!Spec => []UsageInv
<1>1. Counting!Init => UsageInv
  BY UsageInit
<1>2. UsageInv /\ [Counting!Next]_Counting!vars => UsageInv'
  BY UsageStep
<1> QED
  BY <1>1, <1>2, PTL DEF Counting!Spec

\* Whatever processes append, rotate, overtake one another and die, and however
\* many days pass, an event counts once at most, on its day, and counts for the
\* whole window unless it was written beside a rotation (usage.py: note, _rotate,
\* summary).
THEOREM CountsStayTrue ==
    ASSUME Counting!UsageLogAssumption
    PROVE  Counting!Spec => []Counting!CountsAreTrue
<1>1. ASSUME UsageInv PROVE Counting!CountsAreTrue
  <2>1. Counting!Counted = {l \in logs[Newest] : Counting!First(today) <= l.day /\ l.day <= today}
    BY DEF Counting!Counted, Newest
  <2>2. TrueLines(logs[Newest]) /\ Newest \in Dates /\ today \in Dates /\ noted \in [Event -> Nat]
    BY <1>1 DEF UsageInv, UsageTypes, Dates
  <2>3. \A l \in Counting!Counted : \A e \in l.events : noted[e] = l.day /\ \A k \in Counting!Counted : e \in k.events => k = l
    BY <2>1, <2>2 DEF TrueLines
  <2>4. ASSUME NEW e \in Event \ excused, noted[e] >= Counting!First(today)
        PROVE  e \in Counting!EventsOf(Counting!Counted)
    <3>1. Counting!First(today) \in Dates
      BY <2>2, FirstGrows DEF Dates
    <3>2. noted[e] # 0 /\ noted[e] <= today /\ Noted(e) /\ noted[e] \in Nat
      BY <1>1, <2>2, <2>4, <3>1 DEF UsageInv, Dates
    <3>3. PICK l \in logs[Newest] : e \in l.events
      BY <2>4, <3>2 DEF Noted
    <3>4. l \in Counting!Counted
      BY <2>1, <2>2, <2>4, <3>2, <3>3 DEF TrueLines
    <3> QED
      BY <3>3, <3>4, InEvents
  <2> QED
    BY <2>3, <2>4 DEF Counting!CountsAreTrue
<1> QED
  BY <1>1, UsageInvariance, PTL

-----------------------------------------------------------------------------
(* Reminders of the home page.                                             *)

CONSTANTS Topic, Entry, Starts, Records, Quiet, Linked, REVIEW_DAYS, DAY, WEEK, Room, Skew

VARIABLES notes, records, edited, news, edits

Reminding == INSTANCE Reminders WITH Note <- Topic

TopicNote == [type : {"project", "note"}, stale : Int, mtime : Nat, status : {"current", "deprecated"}]

ReminderTypes ==
    /\ clock \in Nat
    /\ notes \in [Topic -> TopicNote]
    /\ records \in [Records -> [time : Int, updated : Int]]
    /\ edited \in [Topic -> Nat] /\ news \in [Topic -> SUBSET Records]

\* News is what a page would find, and an edit's time is no more than Skew ahead.
NewsTrue == \A n \in Topic : news[n] = Reminding!NewerLinks(n)
EditsTrue == \A n \in Topic : notes[n].mtime <= edited[n] + Skew

ReminderInv == ReminderTypes /\ NewsTrue /\ EditsTrue

LEMMA ReminderConstants ==
    ASSUME Reminding!RemindersAssumption
    PROVE  /\ Topic \subseteq Nat /\ IsFiniteSet(Topic) /\ Entry \subseteq Topic
           /\ Linked \in [Topic -> SUBSET Records]
           /\ {DAY, WEEK, Skew, Room, REVIEW_DAYS, MaxTime} \subseteq Nat
           /\ \A start \in Starts, n \in Topic : start[n] \in {"project", "note"} \X ({-1} \union 0..(MaxTime + Skew))
<1>1. Reminding!IsFiniteSet(Topic) = IsFiniteSet(Topic)
  BY Zenon DEF Reminding!IsFiniteSet, IsFiniteSet
<1> QED
  BY <1>1 DEF Reminding!RemindersAssumption, Reminding!Never

LEMMA ReminderInit == ASSUME Reminding!RemindersAssumption, Reminding!Init PROVE ReminderInv
<1>1. PICK start \in Starts :
        notes = [n \in Topic |-> [type |-> start[n][1], stale |-> start[n][2], mtime |-> 0, status |-> "current"]]
  BY DEF Reminding!Init
<1>2. ASSUME NEW n \in Topic PROVE start[n][1] \in {"project", "note"} /\ start[n][2] \in Int
  BY ReminderConstants
<1>3. notes \in [Topic -> TopicNote]
  BY <1>1, <1>2 DEF TopicNote
<1>4. /\ clock = 0 /\ records = [r \in Records |-> [time |-> -1, updated |-> -1]]
      /\ edited = [n \in Topic |-> 0] /\ news = [n \in Topic |-> {}]
  BY DEF Reminding!Init, Reminding!Unknown, Reminding!Never
<1>5. ReminderTypes
  BY <1>3, <1>4 DEF ReminderTypes
<1>6. NewsTrue
  BY <1>1, <1>4, ReminderConstants DEF NewsTrue, Reminding!NewerLinks, Reminding!Between
<1>7. EditsTrue
  BY <1>1, <1>4, ReminderConstants DEF EditsTrue
<1> QED
  BY <1>5, <1>6, <1>7 DEF ReminderInv

LEMMA ReminderTick == ASSUME Reminding!RemindersAssumption, ReminderInv, Reminding!Tick PROVE ReminderInv'
<1>1. /\ clock \in Nat /\ clock' = clock + 1
      /\ UNCHANGED <<notes, records, edited>>
      /\ news' = [n \in Topic |-> news[n] \union
                    {r \in Linked[n] : Reminding!Tells(records[r], clock + 1) /\ clock + 1 >= notes[n].mtime}]
  BY DEF Reminding!Tick, ReminderInv, ReminderTypes
<1>2. ReminderTypes'
  BY <1>1, ReminderConstants DEF ReminderInv, ReminderTypes
<1>3. ASSUME NEW n \in Topic PROVE news'[n] = Reminding!NewerLinks(n)'
  <2>1. notes[n].mtime \in Nat /\ \A r \in Linked[n] : records[r].time \in Int /\ records[r].updated \in Int
    BY ReminderConstants DEF ReminderInv, ReminderTypes, TopicNote
  <2>2. PICK m : m = notes[n].mtime
    OBVIOUS
  <2>3. \A r : r \in news'[n] <=>
            (r \in Reminding!NewerLinks(n) \/ (r \in Linked[n] /\ Reminding!Tells(records[r], clock + 1) /\ clock + 1 >= m))
    BY <1>1, <2>2 DEF ReminderInv, NewsTrue
  <2>4. \A r : r \in Reminding!NewerLinks(n) <=>
            (r \in Linked[n] /\ ((m <= records[r].time /\ records[r].time <= clock) \/ (m <= records[r].updated /\ records[r].updated <= clock)))
    BY <2>2 DEF Reminding!NewerLinks, Reminding!Between
  <2>5. \A r : r \in Reminding!NewerLinks(n)' <=>
            (r \in Linked[n] /\ ((m <= records[r].time /\ records[r].time <= clock + 1) \/ (m <= records[r].updated /\ records[r].updated <= clock + 1)))
    BY <1>1, <2>2 DEF Reminding!NewerLinks, Reminding!Between
  <2>6. ASSUME NEW at \in Int
        PROVE  m <= at /\ at <= clock + 1 <=> (m <= at /\ at <= clock) \/ (at = clock + 1 /\ clock + 1 >= m)
    BY <1>1, <2>1, <2>2
  <2>7. \A r : r \in news'[n] <=> r \in Reminding!NewerLinks(n)'
    BY <2>1, <2>3, <2>4, <2>5, <2>6 DEF Reminding!Tells
  <2>8. news'[n] \in SUBSET Records /\ Reminding!NewerLinks(n)' \subseteq Linked[n]
    BY <1>2 DEF ReminderTypes, Reminding!NewerLinks
  <2> QED
    BY Zenon, <2>7
<1>4. NewsTrue'
  BY <1>3 DEF NewsTrue
<1>5. EditsTrue'
  BY <1>1 DEF ReminderInv, EditsTrue
<1> QED
  BY <1>2, <1>4, <1>5 DEF ReminderInv

LEMMA ReminderSaved ==
    ASSUME Reminding!RemindersAssumption, ReminderInv, NEW n \in Topic, NEW note \in TopicNote,
           clock <= note.mtime, note.mtime <= clock + Skew, Reminding!Saved(n, note)
    PROVE  ReminderInv'
<1>1. /\ clock \in Nat /\ clock' = clock /\ records' = records
      /\ notes' = [notes EXCEPT ![n] = note]
      /\ edited' = [edited EXCEPT ![n] = clock]
      /\ news' = [news EXCEPT ![n] = {r \in Linked[n] : note.mtime <= clock /\ Reminding!Tells(records[r], note.mtime)}]
  BY DEF Reminding!Saved, ReminderInv, ReminderTypes
<1>2. ReminderTypes'
  BY <1>1, ReminderConstants DEF ReminderInv, ReminderTypes
<1>3. ASSUME NEW k \in Topic PROVE news'[k] = Reminding!NewerLinks(k)'
  <2>1. CASE k # n
    BY <1>1, <2>1 DEF ReminderInv, ReminderTypes, NewsTrue, Reminding!NewerLinks, Reminding!Between
  <2>2. CASE k = n
    <3>1. note.mtime \in Nat /\ \A r \in Linked[n] : records[r].time \in Int /\ records[r].updated \in Int
      BY ReminderConstants DEF ReminderInv, ReminderTypes, TopicNote
    <3>2. news'[n] = {r \in Linked[n] : note.mtime <= clock /\ Reminding!Tells(records[r], note.mtime)}
      BY <1>1 DEF ReminderInv, ReminderTypes
    <3>3. notes'[n] = note
      BY <1>1 DEF ReminderInv, ReminderTypes
    <3>4. \A r : r \in Reminding!NewerLinks(n)' <=>
              (r \in Linked[n] /\ ((note.mtime <= records[r].time /\ records[r].time <= clock) \/ (note.mtime <= records[r].updated /\ records[r].updated <= clock)))
      BY <1>1, <3>3 DEF Reminding!NewerLinks, Reminding!Between
    <3>5. ASSUME NEW at \in Int
          PROVE  note.mtime <= at /\ at <= clock <=> note.mtime <= clock /\ at = note.mtime
      BY <1>1, <3>1
    <3>6. \A r : r \in news'[n] <=> r \in Reminding!NewerLinks(n)'
      BY <3>1, <3>2, <3>4, <3>5 DEF Reminding!Tells
    <3>7. news'[n] = Reminding!NewerLinks(n)'
      BY Zenon, <3>6
    <3> QED
      BY <2>2, <3>7 DEF Reminding!NewerLinks, Reminding!Between
  <2> QED
    BY <2>1, <2>2
<1>4. NewsTrue'
  BY <1>3 DEF NewsTrue
<1>5. EditsTrue'
  <2>1. ASSUME NEW k \in Topic PROVE notes'[k].mtime <= edited'[k] + Skew
    <3>1. CASE k = n
      BY <1>1, <3>1 DEF ReminderInv, ReminderTypes
    <3>2. CASE k # n
      BY <1>1, <3>2 DEF ReminderInv, ReminderTypes, EditsTrue
    <3> QED
      BY <3>1, <3>2
  <2> QED
    BY <2>1 DEF EditsTrue
<1> QED
  BY <1>2, <1>4, <1>5 DEF ReminderInv

LEMMA ReminderEdit == ASSUME Reminding!RemindersAssumption, ReminderInv, NEW n \in Topic, Reminding!Edit(n) PROVE ReminderInv'
<1>1. PICK ahead \in 0..Skew :
        LET note == [notes[n] EXCEPT !.mtime = clock + ahead]
        IN  \/ Reminding!Saved(n, note)
            \/ Reminding!Saved(n, [note EXCEPT !.status = "deprecated"])
            \/ Reminding!Saved(n, [note EXCEPT !.stale = IF @ = Reminding!Never THEN clock + 1 ELSE Reminding!Never])
  BY DEF Reminding!Edit
<1>2. PICK at \in Nat : at = clock + ahead /\ clock <= at /\ at <= clock + Skew
  BY ReminderConstants DEF ReminderInv, ReminderTypes
<1>3. PICK old \in TopicNote : old = notes[n]
  BY DEF ReminderInv, ReminderTypes
<1>4. PICK s \in Int : s = IF old.stale = Reminding!Never THEN clock + 1 ELSE Reminding!Never
  BY DEF ReminderInv, ReminderTypes, Reminding!Never
<1>5. CASE Reminding!Saved(n, [old EXCEPT !.mtime = at])
  <2>0. [old EXCEPT !.mtime = at] \in TopicNote /\ [old EXCEPT !.mtime = at].mtime = at
    BY DEF TopicNote
  <2>1. PICK note \in TopicNote : note = [old EXCEPT !.mtime = at] /\ note.mtime = at
    BY <2>0
  <2> QED
    BY <1>2, <1>5, <2>1, ReminderSaved
<1>6. CASE Reminding!Saved(n, [old EXCEPT !.mtime = at, !.status = "deprecated"])
  <2>0. [old EXCEPT !.mtime = at, !.status = "deprecated"] \in TopicNote /\ [old EXCEPT !.mtime = at, !.status = "deprecated"].mtime = at
    BY DEF TopicNote
  <2>1. PICK note \in TopicNote : note = [old EXCEPT !.mtime = at, !.status = "deprecated"] /\ note.mtime = at
    BY <2>0
  <2> QED
    BY <1>2, <1>6, <2>1, ReminderSaved
<1>7. CASE Reminding!Saved(n, [old EXCEPT !.mtime = at, !.stale = s])
  <2>0. [old EXCEPT !.mtime = at, !.stale = s] \in TopicNote /\ [old EXCEPT !.mtime = at, !.stale = s].mtime = at
    BY DEF TopicNote
  <2>1. PICK note \in TopicNote : note = [old EXCEPT !.mtime = at, !.stale = s] /\ note.mtime = at
    BY <2>0
  <2> QED
    BY <1>2, <1>7, <2>1, ReminderSaved
<1>8. /\ [[old EXCEPT !.mtime = at] EXCEPT !.status = "deprecated"] = [old EXCEPT !.mtime = at, !.status = "deprecated"]
      /\ [[old EXCEPT !.mtime = at] EXCEPT !.stale = IF @ = Reminding!Never THEN clock + 1 ELSE Reminding!Never]
            = [old EXCEPT !.mtime = at, !.stale = s]
  BY <1>4 DEF TopicNote
<1> QED
  BY <1>1, <1>2, <1>3, <1>5, <1>6, <1>7, <1>8

LEMMA ReminderCollect ==
    ASSUME Reminding!RemindersAssumption, ReminderInv, NEW r \in Records, NEW time \in 0..MaxTime,
           NEW updated \in {Reminding!Never} \union 0..MaxTime, Reminding!Collect(r, time, updated)
    PROVE  ReminderInv'
<1>1. /\ clock \in Nat /\ UNCHANGED <<clock, notes, edited>>
      /\ records' = [records EXCEPT ![r] = [time |-> time, updated |-> updated]]
      /\ news' = [n \in Topic |->
                    IF r \in Linked[n] /\ \E at \in notes[n].mtime..clock : Reminding!Tells(records'[r], at)
                    THEN news[n] \union {r} ELSE news[n] \ {r}]
  BY DEF Reminding!Collect, ReminderInv, ReminderTypes
<1>2. time \in Int /\ updated \in Int
  BY ReminderConstants DEF Reminding!Never
<1>3. records' \in [Records -> [time : Int, updated : Int]]
  BY <1>1, <1>2 DEF ReminderInv, ReminderTypes
<1>4. news' \in [Topic -> SUBSET Records]
  BY <1>1 DEF ReminderInv, ReminderTypes
<1>5. ReminderTypes'
  BY <1>1, <1>3, <1>4 DEF ReminderInv, ReminderTypes
<1>6. ASSUME NEW n \in Topic PROVE news'[n] = Reminding!NewerLinks(n)'
  <2>1. PICK m \in Nat : m = notes[n].mtime
    BY DEF ReminderInv, ReminderTypes, TopicNote
  <2>2. PICK new \in [Records -> [time : Int, updated : Int]] :
          new = records' /\ new[r] = [time |-> time, updated |-> updated] /\ \A q \in Records : q # r => new[q] = records[q]
    BY <1>1, <1>3 DEF ReminderInv, ReminderTypes
  <2>3. \A q : q \in Reminding!NewerLinks(n)' <=>
            (q \in Linked[n] /\ ((m <= new[q].time /\ new[q].time <= clock) \/ (m <= new[q].updated /\ new[q].updated <= clock)))
    BY <1>1, <2>1, <2>2 DEF Reminding!NewerLinks, Reminding!Between
  <2>4. \A q : q \in news[n] <=>
            (q \in Linked[n] /\ ((m <= records[q].time /\ records[q].time <= clock) \/ (m <= records[q].updated /\ records[q].updated <= clock)))
    BY <2>1 DEF ReminderInv, NewsTrue, Reminding!NewerLinks, Reminding!Between
  <2>5. (\E at \in m..clock : Reminding!Tells(new[r], at))
          <=> \/ m <= new[r].time /\ new[r].time <= clock
              \/ m <= new[r].updated /\ new[r].updated <= clock
    BY SMTT(30), <1>1, <1>2, <2>2 DEF Reminding!Tells
  <2>6. news'[n] = IF r \in Linked[n] /\ \E at \in m..clock : Reminding!Tells(new[r], at)
                   THEN news[n] \union {r} ELSE news[n] \ {r}
    BY <1>1, <2>1, <2>2
  <2>7. Linked[n] \subseteq Records
    BY ReminderConstants
  <2>8. \A q \in Linked[n] : q # r => new[q] = records[q]
    BY <2>2, <2>7
  <2>9. \A q : q \in news'[n] <=> q \in Reminding!NewerLinks(n)'
    BY <2>3, <2>4, <2>5, <2>6, <2>8
  <2> QED
    BY Zenon, <2>9
<1>7. NewsTrue'
  BY <1>6 DEF NewsTrue
<1>8. EditsTrue'
  BY <1>1 DEF ReminderInv, EditsTrue
<1> QED
  BY <1>5, <1>7, <1>8 DEF ReminderInv

LEMMA ReminderStep ==
    ASSUME Reminding!RemindersAssumption
    PROVE  ReminderInv /\ [Reminding!Next]_Reminding!vars => ReminderInv'
<1>1. ASSUME ReminderInv, UNCHANGED Reminding!vars PROVE ReminderInv'
  BY <1>1 DEF Reminding!vars, ReminderInv, ReminderTypes, NewsTrue, EditsTrue, Reminding!NewerLinks, Reminding!Between
<1>2. ASSUME ReminderInv, Reminding!Next PROVE ReminderInv'
  BY <1>2, ReminderTick, ReminderEdit, ReminderCollect DEF Reminding!Next
<1> QED
  BY <1>1, <1>2

\* The first k of a set by a strict total order R, a set of pairs.
Orders(R, S) ==
    /\ \A x \in S : <<x, x>> \notin R
    /\ \A x, y \in S : x # y => <<x, y>> \in R \/ <<y, x>> \in R
    /\ \A x, y, z \in S : <<x, y>> \in R /\ <<y, z>> \in R => <<x, z>> \in R

Ahead(R, S, x) == {y \in S : <<y, x>> \in R}
FirstOf(R, S, k) == {x \in S : Cardinality(Ahead(R, S, x)) < k}

\* Induction over the subsets of a finite set.
LEMMA SubsetInduction ==
    ASSUME NEW S, IsFiniteSet(S), NEW Good,
           \A T \in SUBSET S : (\A U \in SUBSET T : U # T => U \in Good) => T \in Good
    PROVE  SUBSET S \subseteq Good
<1> DEFINE Bad == (SUBSET S) \ Good
<1>1. SUFFICES ASSUME Bad # {} PROVE FALSE
  OBVIOUS
<1>2. IsWellFoundedOn(StrictSubsetOrdering(S), SUBSET S)
  BY FS_StrictSubsetOrderingWellFounded, FS_FiniteSubsetsOfFinite
<1>3. \E T \in Bad : \A U \in Bad : ~ (<<U, T>> \in StrictSubsetOrdering(S))
  <2>1. Bad \subseteq SUBSET S
    OBVIOUS
  <2> HIDE DEF Bad
  <2> QED
    BY <1>1, <1>2, <2>1, WFMin
<1>4. PICK T \in Bad : \A U \in Bad : ~ (<<U, T>> \in StrictSubsetOrdering(S))
  BY <1>3
<1>5. \A U \in SUBSET T : U # T => U \in Good
  BY <1>4 DEF StrictSubsetOrdering
<1>6. T \in SUBSET S /\ T \notin Good
  OBVIOUS
<1>7. T \in Good
  BY Zenon, <1>5, <1>6
<1> QED
  BY <1>6, <1>7

\* A set that is not empty has a last element.
LEMMA LastOne ==
    ASSUME NEW S, IsFiniteSet(S), NEW R, Orders(R, S)
    PROVE  \A T \in SUBSET S : T # {} => \E x \in T : \A y \in T \ {x} : <<y, x>> \in R
<1> DEFINE Good == {T \in SUBSET S : T # {} => \E x \in T : \A y \in T \ {x} : <<y, x>> \in R}
<1>1. ASSUME NEW T \in SUBSET S, \A U \in SUBSET T : U # T => U \in Good PROVE T \in Good
  <2> SUFFICES ASSUME T # {} PROVE \E x \in T : \A y \in T \ {x} : <<y, x>> \in R
    OBVIOUS
  <2>1. PICK z \in T : TRUE
    OBVIOUS
  <2>2. CASE T \ {z} = {}
    BY <2>2
  <2>3. CASE T \ {z} # {}
    <3>1. T \ {z} \in Good
      BY <1>1
    <3>2. PICK x \in T \ {z} : \A y \in (T \ {z}) \ {x} : <<y, x>> \in R
      BY <2>3, <3>1
    <3>3. CASE <<z, x>> \in R
      BY <3>2, <3>3
    <3>4. CASE <<x, z>> \in R
      <4>1. ASSUME NEW y \in T \ {z} PROVE <<y, z>> \in R
        <5>1. CASE y = x
          BY <3>4, <5>1
        <5>2. CASE y # x
          BY <3>2, <3>4, <5>2 DEF Orders
        <5> QED
          BY <5>1, <5>2
      <4> QED
        BY <4>1
    <3> QED
      BY <3>3, <3>4 DEF Orders
  <2> QED
    BY <2>2, <2>3
<1>2. SUBSET S \subseteq Good
  <2> HIDE DEF Good
  <2> QED
    BY <1>1, SubsetInduction
<1> QED
  BY <1>2

\* The first k are k, if there are so many.
LEMMA FirstsCount ==
    ASSUME NEW S, IsFiniteSet(S), NEW R, Orders(R, S)
    PROVE  \A T \in SUBSET S : \A k \in 0..Cardinality(T) : Cardinality(FirstOf(R, T, k)) = k
<1> DEFINE Good == {T \in SUBSET S : \A k \in 0..Cardinality(T) : Cardinality(FirstOf(R, T, k)) = k}
<1>1. ASSUME NEW T \in SUBSET S, \A U \in SUBSET T : U # T => U \in Good PROVE T \in Good
  <2>0. IsFiniteSet(T)
    BY FS_Subset
  <2> SUFFICES ASSUME NEW k \in 0..Cardinality(T) PROVE Cardinality(FirstOf(R, T, k)) = k
    OBVIOUS
  <2>1. CASE T = {}
    <3>1. FirstOf(R, T, k) = {} /\ k = 0
      BY <2>1, FS_EmptySet DEF FirstOf
    <3> QED
      BY <3>1, FS_EmptySet
  <2>2. CASE T # {}
    <3>1. PICK x \in T : \A y \in T \ {x} : <<y, x>> \in R
      BY <2>2, LastOne
    <3>2. PICK U \in SUBSET T : U = T \ {x}
      OBVIOUS
    <3>3. U \in Good /\ IsFiniteSet(U)
      BY <1>1, <2>0, <3>2, FS_Subset
    <3>4. PICK c \in Nat : c = Cardinality(U) /\ Cardinality(T) = c + 1
      BY <2>0, <3>2, <3>3, FS_RemoveElement, FS_CardinalityType
    <3>5. ASSUME NEW y \in U PROVE Ahead(R, T, y) = Ahead(R, U, y)
      BY <3>1, <3>2 DEF Ahead, Orders
    <3>6. Ahead(R, T, x) = U
      BY <3>1, <3>2 DEF Ahead, Orders
    <3>7. CASE k <= c
      <4>1. FirstOf(R, T, k) = FirstOf(R, U, k)
        BY <3>2, <3>4, <3>5, <3>6, <3>7 DEF FirstOf
      <4>2. k \in 0..Cardinality(U)
        BY <3>4, <3>7
      <4> QED
        BY <3>3, <4>1, <4>2
    <3>8. CASE k = c + 1
      <4>1. ASSUME NEW y \in T PROVE Cardinality(Ahead(R, T, y)) < c + 1
        <5>1. y \notin Ahead(R, T, y) /\ Ahead(R, T, y) \subseteq T \ {y}
          BY DEF Ahead, Orders
        <5>2. IsFiniteSet(T \ {y}) /\ Cardinality(T \ {y}) = c
          BY <2>0, <3>4, FS_RemoveElement
        <5>3. Cardinality(Ahead(R, T, y)) <= c /\ Cardinality(Ahead(R, T, y)) \in Nat
          BY <5>1, <5>2, FS_Subset, FS_CardinalityType
        <5> QED
          BY <5>3
      <4>2. FirstOf(R, T, k) = T
        BY <3>8, <4>1 DEF FirstOf
      <4> QED
        BY <3>4, <3>8, <4>2
    <3> QED
      BY <3>4, <3>7, <3>8
  <2> QED
    BY <2>1, <2>2
<1>2. SUBSET S \subseteq Good
  <2> HIDE DEF Good
  <2> QED
    BY <1>1, SubsetInduction
<1> QED
  BY <1>2

\* An element that is not among the first k has k before it.
LEMMA FirstsFilled ==
    ASSUME NEW S, IsFiniteSet(S), NEW R, Orders(R, S), NEW k \in Nat, NEW x \in S, x \notin FirstOf(R, S, k)
    PROVE  /\ Cardinality(FirstOf(R, S, k)) = k
           /\ \A y \in FirstOf(R, S, k) : <<y, x>> \in R
<1>1. ASSUME NEW y \in S PROVE IsFiniteSet(Ahead(R, S, y)) /\ Cardinality(Ahead(R, S, y)) \in Nat
                            /\ Cardinality(Ahead(R, S, y)) <= Cardinality(S)
  <2>1. Ahead(R, S, y) \subseteq S
    BY DEF Ahead
  <2> QED
    BY <2>1, FS_Subset, FS_CardinalityType
<1>2. k <= Cardinality(Ahead(R, S, x))
  BY <1>1 DEF FirstOf
<1>3. k \in 0..Cardinality(S)
  BY <1>1, <1>2, FS_CardinalityType
<1>4. ASSUME NEW y \in FirstOf(R, S, k) PROVE <<y, x>> \in R
  <2>1. y \in S /\ Cardinality(Ahead(R, S, y)) < k /\ y # x
    BY DEF FirstOf
  <2>2. ASSUME <<x, y>> \in R PROVE FALSE
    <3>1. Ahead(R, S, x) \subseteq Ahead(R, S, y)
      BY <2>1, <2>2 DEF Ahead, Orders
    <3>2. Cardinality(Ahead(R, S, x)) <= Cardinality(Ahead(R, S, y))
      BY <1>1, <2>1, <3>1, FS_Subset
    <3> QED
      BY <1>1, <1>2, <2>1, <3>2
  <2> QED
    BY <2>1, <2>2 DEF Orders
<1> QED
  BY <1>3, <1>4, FirstsCount

ReviewOrder == {p \in Topic \X Topic : Reminding!ReviewedFirst(p[1], p[2])}

LEMMA ReviewsAreOrdered ==
    ASSUME Reminding!RemindersAssumption
    PROVE  Orders(ReviewOrder, Reminding!Projects) /\ IsFiniteSet(Reminding!Projects) /\ Reminding!Projects \subseteq Topic
<1>1. Reminding!Projects \subseteq Topic /\ IsFiniteSet(Reminding!Projects)
  BY ReminderConstants, FS_Subset DEF Reminding!Projects
<1>2. \A m, n \in Reminding!Projects : <<m, n>> \in ReviewOrder <=> Reminding!ReviewedFirst(m, n)
  BY <1>1 DEF ReviewOrder
<1>3. \A n \in Reminding!Projects : Reminding!Review(n) \in BOOLEAN /\ n \in Nat
  BY <1>1, ReminderConstants DEF Reminding!Review
<1>4. \A m, n \in Reminding!Projects : Reminding!ReviewedFirst(m, n) <=> (Reminding!Review(m) /\ ~Reminding!Review(n)) \/ ((Reminding!Review(m) <=> Reminding!Review(n)) /\ m > n)
  BY <1>3 DEF Reminding!ReviewedFirst
<1>5. \A m \in Reminding!Projects : <<m, m>> \notin ReviewOrder
  BY <1>2, <1>3, <1>4
<1>6. \A m, n \in Reminding!Projects : m # n => <<m, n>> \in ReviewOrder \/ <<n, m>> \in ReviewOrder
  BY <1>2, <1>3, <1>4
<1>7. \A m, n, l \in Reminding!Projects : <<m, n>> \in ReviewOrder /\ <<n, l>> \in ReviewOrder => <<m, l>> \in ReviewOrder
  BY <1>2, <1>3, <1>4
<1> QED
  BY <1>1, <1>5, <1>6, <1>7 DEF Orders

\* Every reason tells.
LEMMA ReasonsTell ==
    ASSUME NEW n, Reminding!Reminded(n)
    PROVE  (Reminding!ReviewDue(n) <= clock \/ Reminding!NewerLinks(n) # {}) => Reminding!Review(n)
BY DEF Reminding!Review, Reminding!Reasons

LEMMA ReviewsFirst == ASSUME Reminding!RemindersAssumption PROVE Reminding!ReviewsComeFirst
<1>1. Orders(ReviewOrder, Reminding!Projects) /\ IsFiniteSet(Reminding!Projects) /\ Reminding!Projects \subseteq Topic
  BY ReviewsAreOrdered
<1>2. Reminding!Listed = FirstOf(ReviewOrder, Reminding!Projects, Room)
  <2>1. \A n \in Reminding!Projects : {m \in Reminding!Projects : Reminding!ReviewedFirst(m, n)} = Ahead(ReviewOrder, Reminding!Projects, n)
    BY <1>1 DEF Ahead, ReviewOrder
  <2>2. \A T : Reminding!Cardinality(T) = Cardinality(T)
    BY Zenon DEF Reminding!Cardinality, Cardinality, Reminding!IsFiniteSet, IsFiniteSet
  <2> QED
    BY <2>1, <2>2 DEF Reminding!Listed, FirstOf
<1>3. ASSUME NEW n \in Reminding!Projects \ Reminding!Listed
      PROVE  /\ Cardinality(Reminding!Listed) = Room
             /\ Reminding!Review(n) => \A m \in Reminding!Listed : Reminding!Review(m)
  <2>1. Cardinality(Reminding!Listed) = Room /\ \A m \in Reminding!Listed : <<m, n>> \in ReviewOrder
    BY <1>1, <1>2, <1>3, FirstsFilled, ReminderConstants
  <2>2. \A m \in Reminding!Listed : Reminding!ReviewedFirst(m, n)
    BY <2>1 DEF ReviewOrder
  <2> QED
    BY <2>1, <2>2 DEF Reminding!ReviewedFirst
<1>4. Reminding!Cardinality(Reminding!Listed) = Cardinality(Reminding!Listed)
  BY Zenon DEF Reminding!Cardinality, Cardinality, Reminding!IsFiniteSet, IsFiniteSet
<1> QED
  BY <1>3, <1>4 DEF Reminding!ReviewsComeFirst

\* In every reachable state the news of a note are the linked records that a
\* page finds by their times.
THEOREM ReminderInvariance ==
    ASSUME Reminding!RemindersAssumption
    PROVE  Reminding!Spec => []ReminderInv
<1>1. Reminding!Init => ReminderInv
  BY ReminderInit
<1>2. ReminderInv /\ [Reminding!Next]_Reminding!vars => ReminderInv'
  BY ReminderStep
<1> QED
  BY <1>1, <1>2, PTL DEF Reminding!Spec

\* However early or late records are collected, and whatever clocks edits bear,
\* a reminded note names the news since its last edit, a project left alone is
\* reviewed in time, projects to review come first, and an event is upcoming
\* until it happens and recent afterwards (pages.py: _review, home).
THEOREM RemindersStayRight ==
    ASSUME Reminding!RemindersAssumption
    PROVE  Reminding!Spec => []Reminding!RemindersAreRight
<1>1. ASSUME ReminderInv PROVE Reminding!RemindersAreRight
  <2>1. Reminding!NewsIsTold
    <3>1. ASSUME NEW n \in Topic, Reminding!Reminded(n)
          PROVE  Reminding!NewerLinks(n) = news[n] /\ (news[n] # {} => Reminding!Review(n))
      BY <1>1, <3>1, ReasonsTell DEF ReminderInv, NewsTrue
    <3> QED
      BY <3>1 DEF Reminding!NewsIsTold
  <2>2. Reminding!NothingIsForgotten
    <3>1. ASSUME NEW n \in Reminding!Projects
          PROVE  /\ notes[n].stale = Reminding!Never /\ clock >= edited[n] + Skew + REVIEW_DAYS => Reminding!Review(n)
                 /\ notes[n].stale # Reminding!Never /\ clock >= notes[n].stale => Reminding!Review(n)
      <4>1. n \in Topic /\ Reminding!Reminded(n)
        BY ReminderConstants DEF Reminding!Projects, Reminding!Reminded
      <4>2. /\ clock \in Nat /\ notes[n].mtime \in Nat /\ edited[n] \in Nat /\ Skew \in Nat /\ REVIEW_DAYS \in Nat
            /\ notes[n].mtime <= edited[n] + Skew /\ notes[n].stale \in Int
        BY <1>1, <4>1, ReminderConstants DEF ReminderInv, ReminderTypes, TopicNote, EditsTrue
      <4>3. CASE notes[n].stale = Reminding!Never
        <5>1. Reminding!ReviewDue(n) = notes[n].mtime + REVIEW_DAYS
          BY <4>3 DEF Reminding!ReviewDue
        <5> QED
          BY <4>1, <4>2, <4>3, <5>1, ReasonsTell
      <4>4. CASE notes[n].stale # Reminding!Never
        <5>1. Reminding!ReviewDue(n) = notes[n].stale
          BY <4>4 DEF Reminding!ReviewDue
        <5> QED
          BY <4>1, <4>2, <4>4, <5>1, ReasonsTell
      <4> QED
        BY <4>3, <4>4
    <3> QED
      BY <3>1 DEF Reminding!NothingIsForgotten
  <2>3. Reminding!EventsMoveOver
    <3>1. ASSUME NEW r \in Records
          PROVE  LET at == records[r].time
                 IN  /\ ~(r \in Reminding!Activity /\ r \in Reminding!Upcoming)
                     /\ at # Reminding!Never /\ clock - DAY <= at /\ at < clock + WEEK /\ r \notin Quiet
                           => r \in Reminding!Activity \union Reminding!Upcoming
      <4>1. PICK at \in Int : at = records[r].time
        BY <1>1 DEF ReminderInv, ReminderTypes
      <4>2. clock \in Nat /\ DAY \in Nat /\ WEEK \in Nat
        BY <1>1, ReminderConstants DEF ReminderInv, ReminderTypes
      <4>3. at # Reminding!Never => records[r] # Reminding!Unknown
        BY <4>1 DEF Reminding!Unknown
      <4> QED
        BY <4>1, <4>2, <4>3 DEF Reminding!Activity, Reminding!Upcoming
    <3> QED
      BY <3>1 DEF Reminding!EventsMoveOver
  <2> QED
    BY <2>1, <2>2, <2>3, ReviewsFirst DEF Reminding!RemindersAreRight
<1> QED
  BY <1>1, ReminderInvariance, PTL

-----------------------------------------------------------------------------
(* The pages of a time line.                                               *)

CONSTANTS Item, Contents, LastDay, Midnight, Month, Span, Hour, Source, Low, Folder, Tag

VARIABLES now, items, walk, seen, counted, changes

Browsing == INSTANCE Timeline

\* The pages of a walk: whole days, whole ranges and whole months.
PageOf(p) ==
    /\ p \in [kind : {"day", "range", "month"}, first : 0..LastDay, last : 0..LastDay]
    /\ p.first <= p.last
    /\ p.kind = "day" => p.last = p.first
    /\ p.kind = "range" => p.last = p.first + Span - 1 /\ \E n \in Nat : LastDay - p.last = n * Span
    /\ p.kind = "month" => Browsing!FirstOf(p.first) = p.first /\ Browsing!LastOf(p.first) = p.last

\* The first day that no page read so far holds.
Reached == IF walk = Browsing!Done THEN LastDay + 1 ELSE walk.first

BrowseTypes ==
    /\ \E d \in 0..LastDay : now = Midnight[d] + 1
    /\ items \in [Item -> Contents]
    /\ seen \in [Item -> Nat] /\ counted \in [Source -> Nat]
    /\ walk \in {Browsing!NoWalk, Browsing!Done} \/ PageOf(walk)

\* What was listed and counted is what fell before the first day not read.
SeenBefore ==
    \A i \in Item \ changes :
        seen[i] = IF Browsing!PeriodTime(i) # -1 /\ Browsing!PeriodTime(i) < Midnight[Reached] /\ Browsing!Loud(i) THEN 1 ELSE 0
CountedBefore ==
    changes = {} => \A s \in Source :
        counted[s] = Cardinality({i \in Browsing!OfSource(s) : Browsing!PeriodTime(i) < Midnight[Reached]})

BrowseInv == BrowseTypes /\ SeenBefore /\ CountedBefore

LEMMA BrowseConstants ==
    ASSUME Browsing!TimelineAssumption
    PROVE  /\ IsFiniteSet(Item) /\ LastDay \in Nat /\ Span \in Nat /\ Span > 0 /\ Hour \in Nat /\ Hour > 0
           /\ Midnight \in [0..(LastDay + 1) -> Nat] /\ Midnight[0] = 0
           /\ \A d \in 0..LastDay : Midnight[d] + 1 < Midnight[d + 1]
           /\ Month \in [0..LastDay -> Nat]
           /\ \A d \in 0..LastDay : d # 0 => Month[d] = Month[d - 1] \/ Month[d] = Month[d - 1] + 1
           /\ Source \intersect Folder = {} /\ "any" \notin Source /\ "any" \notin Folder /\ "any" \notin Tag
<1>1. Browsing!IsFiniteSet(Item) = IsFiniteSet(Item)
  BY Zenon DEF Browsing!IsFiniteSet, IsFiniteSet
<1>2. Span \in Nat /\ Span > 0
  BY DEF Browsing!TimelineAssumption
<1> QED
  BY SMTT(30), <1>1, <1>2 DEF Browsing!TimelineAssumption, Browsing!Days, Browsing!Any

LEMMA BrowseContents ==
    ASSUME Browsing!TimelineAssumption, NEW c \in Contents
    PROVE  /\ c.kind \in {"note", "record"}
           /\ c.kind = "note" => c.date \in 0..LastDay \union {-1} /\ c.place \in Folder
           /\ c.kind = "record" =>
                 /\ c.place \in Source /\ c.updated \in Nat \union {-1}
                 /\ c.observed \in 0..(Midnight[LastDay + 1] - 1)
                 /\ c.time \in 0..(Midnight[LastDay + 1] - 1) \union {-1}
BY DEF Browsing!TimelineAssumption, Browsing!Days, Browsing!None, Browsing!End

-----------------------------------------------------------------------------
(* Days and months.                                                        *)

\* A set of days has a first one and a last one.
LEMMA Extremes ==
    ASSUME NEW n \in Nat, NEW T \in SUBSET (0..n), T # {}
    PROVE  /\ \E x \in T : \A y \in T : x <= y
           /\ \E x \in T : \A y \in T : y <= x
<1> DEFINE S == 0..n
           Down == {p \in S \X S : p[1] > p[2]}
           Up == {p \in S \X S : p[1] < p[2]}
<1>1. IsFiniteSet(S)
  BY FS_Interval
<1>2. Orders(Down, S) /\ Orders(Up, S)
  BY DEF Orders
<1>3. (\E x \in T : \A y \in T \ {x} : <<y, x>> \in Down) /\ \E x \in T : \A y \in T \ {x} : <<y, x>> \in Up
  <2> HIDE DEF Down, Up, S
  <2>1. \A U \in SUBSET S : U # {} => \E x \in U : \A y \in U \ {x} : <<y, x>> \in Down
    BY <1>1, <1>2, LastOne
  <2>2. \A U \in SUBSET S : U # {} => \E x \in U : \A y \in U \ {x} : <<y, x>> \in Up
    BY <1>1, <1>2, LastOne
  <2>3. T \in SUBSET S
    BY DEF S
  <2> QED
    BY Zenon, <2>1, <2>2, <2>3
<1>4. PICK x \in T : \A y \in T \ {x} : y > x
  BY <1>3
<1>5. PICK z \in T : \A y \in T \ {z} : y < z
  BY <1>3
<1>6. (\A y \in T : x <= y) /\ \A y \in T : y <= z
  BY <1>4, <1>5
<1> QED
  BY <1>6

\* What no step lowers, no days lower.
LEMMA Climbs ==
    ASSUME NEW n \in Nat, NEW f \in [0..n -> Nat], \A d \in 0..n : d # 0 => f[d - 1] <= f[d],
           NEW d \in 0..n, NEW e \in 0..n, d <= e
    PROVE  f[d] <= f[e]
<1> DEFINE Lower == {k \in 0..n : d <= k /\ f[k] < f[d]}
<1>0. f[d] \in Nat /\ f[e] \in Nat
  OBVIOUS
<1> SUFFICES ASSUME ~ (f[d] <= f[e]) PROVE FALSE
  OBVIOUS
<1>a. e \in Lower
  BY <1>0
<1>1. PICK k \in Lower : \A j \in Lower : k <= j
  <2>1. Lower \in SUBSET (0..n) /\ Lower # {}
    BY <1>a
  <2> HIDE DEF Lower
  <2> QED
    BY <2>1, Extremes
<1>2. k # d /\ k - 1 \in 0..n /\ k - 1 \notin Lower
  BY <1>1
<1>3. f[d] <= f[k - 1] /\ f[k - 1] <= f[k]
  BY <1>1, <1>2
<1> QED
  BY <1>1, <1>2, <1>3

LEMMA DaysClimb ==
    ASSUME Browsing!TimelineAssumption, NEW d \in 0..(LastDay + 1), NEW e \in 0..(LastDay + 1), d <= e
    PROVE  Midnight[d] <= Midnight[e] /\ Midnight[d] \in Nat /\ Midnight[e] \in Nat
<1>1. \A k \in 0..(LastDay + 1) : k # 0 => Midnight[k - 1] <= Midnight[k]
  <2> SUFFICES ASSUME NEW k \in 0..(LastDay + 1), k # 0 PROVE Midnight[k - 1] <= Midnight[k]
    OBVIOUS
  <2>1. k - 1 \in 0..LastDay /\ (k - 1) + 1 = k
    BY BrowseConstants
  <2>2. Midnight[k - 1] \in Nat /\ Midnight[k] \in Nat
    BY <2>1, BrowseConstants
  <2>3. Midnight[k - 1] + 1 < Midnight[k]
    BY <2>1, BrowseConstants
  <2> QED
    BY <2>2, <2>3
<1>2. LastDay + 1 \in Nat /\ Midnight \in [0..(LastDay + 1) -> Nat]
  BY BrowseConstants
<1> QED
  BY <1>1, <1>2, Climbs

LEMMA MonthsClimb ==
    ASSUME Browsing!TimelineAssumption, NEW d \in 0..LastDay, NEW e \in 0..LastDay, d <= e
    PROVE  Month[d] <= Month[e]
<1>1. \A k \in 0..LastDay : k # 0 => Month[k - 1] <= Month[k]
  <2> SUFFICES ASSUME NEW k \in 0..LastDay, k # 0 PROVE Month[k - 1] <= Month[k]
    OBVIOUS
  <2>0. k - 1 \in 0..LastDay
    BY BrowseConstants
  <2>1. Month[k - 1] \in Nat
    BY <2>0, BrowseConstants
  <2>2. Month[k] = Month[k - 1] \/ Month[k] = Month[k - 1] + 1
    BY BrowseConstants
  <2> QED
    BY <2>1, <2>2
<1> QED
  BY <1>1, BrowseConstants, Climbs

LEMMA MonthEnds ==
    ASSUME Browsing!TimelineAssumption, NEW d \in 0..LastDay
    PROVE  /\ Browsing!FirstOf(d) \in 0..LastDay /\ Month[Browsing!FirstOf(d)] = Month[d] /\ Browsing!FirstOf(d) <= d
           /\ \A f \in 0..LastDay : Month[f] = Month[d] => Browsing!FirstOf(d) <= f
           /\ Browsing!LastOf(d) \in 0..LastDay /\ Month[Browsing!LastOf(d)] = Month[d] /\ d <= Browsing!LastOf(d)
           /\ \A f \in 0..LastDay : Month[f] = Month[d] => f <= Browsing!LastOf(d)
<1> DEFINE T == {e \in 0..LastDay : Month[e] = Month[d]}
<1>1. LastDay \in Nat /\ T \in SUBSET (0..LastDay) /\ T # {}
  BY BrowseConstants
<1>2. (\E x \in T : \A y \in T : x <= y) /\ (\E x \in T : \A y \in T : y <= x)
  <2> HIDE DEF T
  <2> QED
    BY <1>1, Extremes
<1>3. \E e \in Browsing!Days : Month[e] = Month[d] /\ \A f \in Browsing!Days : Month[f] = Month[d] => e <= f
  BY <1>2 DEF Browsing!Days
<1>4. \E e \in Browsing!Days : Month[e] = Month[d] /\ \A f \in Browsing!Days : Month[f] = Month[d] => f <= e
  BY <1>2 DEF Browsing!Days
<1>5. Browsing!FirstOf(d) \in Browsing!Days /\ Month[Browsing!FirstOf(d)] = Month[d]
        /\ \A f \in Browsing!Days : Month[f] = Month[d] => Browsing!FirstOf(d) <= f
  BY <1>3 DEF Browsing!FirstOf
<1>6. Browsing!LastOf(d) \in Browsing!Days /\ Month[Browsing!LastOf(d)] = Month[d]
        /\ \A f \in Browsing!Days : Month[f] = Month[d] => f <= Browsing!LastOf(d)
  BY <1>4 DEF Browsing!LastOf
<1> QED
  BY <1>5, <1>6 DEF Browsing!Days

\* The day after the last of a month is the first of the next.
LEMMA NextMonth ==
    ASSUME Browsing!TimelineAssumption, NEW d \in 0..LastDay, d # 0
    PROVE  Browsing!LastOf(d - 1) = d - 1 <=> Browsing!FirstOf(d) = d
<1>0. d - 1 \in 0..LastDay
  BY BrowseConstants
<1>1. d - 1 \in 0..LastDay /\ Month[d] \in Nat /\ Month[d - 1] \in Nat
  BY <1>0, BrowseConstants
<1>2. CASE Month[d] = Month[d - 1]
  BY <1>1, <1>2, MonthEnds
<1>3. CASE Month[d] = Month[d - 1] + 1
  <2>1. Browsing!LastOf(d - 1) = d - 1
    <3>1. PICK e \in 0..LastDay : e = Browsing!LastOf(d - 1) /\ Month[e] = Month[d - 1] /\ d - 1 <= e
      BY <1>1, MonthEnds
    <3>2. ASSUME d <= e PROVE FALSE
      BY <1>1, <1>3, <3>1, <3>2, MonthsClimb
    <3> QED
      BY <3>1, <3>2
  <2>2. Browsing!FirstOf(d) = d
    <3>1. PICK e \in 0..LastDay : e = Browsing!FirstOf(d) /\ Month[e] = Month[d] /\ e <= d
      BY MonthEnds
    <3>2. ASSUME e <= d - 1 PROVE FALSE
      BY <1>1, <1>3, <3>1, <3>2, MonthsClimb
    <3> QED
      BY <3>1, <3>2
  <2> QED
    BY <2>1, <2>2
<1> QED
  BY <1>2, <1>3, BrowseConstants

\* The days of a month have the same ends.
LEMMA OneMonth ==
    ASSUME Browsing!TimelineAssumption, NEW d \in 0..LastDay, NEW e \in 0..LastDay, Month[d] = Month[e]
    PROVE  Browsing!FirstOf(d) = Browsing!FirstOf(e) /\ Browsing!LastOf(d) = Browsing!LastOf(e)
BY MonthEnds

-----------------------------------------------------------------------------
(* Walks.                                                                  *)

LEMMA PageDays ==
    ASSUME Browsing!TimelineAssumption, NEW p, PageOf(p)
    PROVE  /\ p # Browsing!NoWalk /\ p # Browsing!Done
           /\ p.first \in 0..LastDay /\ p.last \in 0..LastDay /\ p.first <= p.last
           /\ p.last + 1 \in 0..(LastDay + 1)
<1>1. p.kind # "none" /\ p.kind # "done"
  BY DEF PageOf
<1>2. p # Browsing!NoWalk /\ p # Browsing!Done
  BY <1>1 DEF Browsing!NoWalk, Browsing!Done
<1> QED
  BY <1>2, BrowseConstants DEF PageOf

\* Where a walk may begin.
LEMMA FirstPages ==
    ASSUME Browsing!TimelineAssumption, NEW p \in {Browsing!DayPage(0), Browsing!RangePage(0, Span), Browsing!MonthPage(0)}
    PROVE  PageOf(p) /\ p.first = 0
<1>0. LastDay \in Nat /\ 0 \in 0..LastDay
  BY BrowseConstants
<1>1. CASE p = Browsing!DayPage(0)
  BY <1>0, <1>1 DEF PageOf, Browsing!DayPage
<1>2. CASE p = Browsing!RangePage(0, Span)
  <2>1. p = [kind |-> "range", first |-> 0, last |-> Span - 1]
    BY <1>2, BrowseConstants DEF Browsing!RangePage
  <2>2. Span \in 1..LastDay /\ (LastDay + 1) % Span = 0
    BY DEF Browsing!TimelineAssumption
  <2>3. \E n \in Nat : LastDay - (Span - 1) = n * Span
    <3>1. PICK q \in Int : LastDay + 1 = q * Span
      BY <1>0, <2>2
    <3>2. q >= 1
      BY <1>0, <2>2, <3>1
    <3>3. LastDay - (Span - 1) = (q - 1) * Span
      BY <1>0, <2>2, <3>1
    <3> QED
      BY <3>2, <3>3
  <2> QED
    BY <1>0, <2>1, <2>2, <2>3 DEF PageOf
<1>3. CASE p = Browsing!MonthPage(0)
  <2>1. Browsing!FirstOf(0) = 0 /\ Browsing!LastOf(0) \in 0..LastDay
    BY <1>0, MonthEnds
  <2> QED
    BY <1>0, <1>3, <2>1 DEF PageOf, Browsing!MonthPage
<1> QED
  BY <1>1, <1>2, <1>3

\* The next page begins where the page ends, and is a page.
LEMMA NextPages ==
    ASSUME Browsing!TimelineAssumption, NEW p, PageOf(p), p.last # LastDay
    PROVE  PageOf(Browsing!Following(p)) /\ Browsing!Following(p).first = p.last + 1
<1>0. /\ LastDay \in Nat /\ p.first \in 0..LastDay /\ p.last \in 0..LastDay /\ p.first <= p.last
      /\ p.last + 1 \in 0..LastDay /\ p.kind \in {"day", "range", "month"}
  BY BrowseConstants DEF PageOf
<1>1. CASE p.kind = "day"
  <2>1. Browsing!Following(p) = [kind |-> "day", first |-> p.last + 1, last |-> p.last + 1]
    BY <1>1 DEF Browsing!Following, Browsing!DayPage
  <2> QED
    BY <1>0, <2>1 DEF PageOf
<1>2. CASE p.kind = "range"
  <2>1. PICK n \in Nat : LastDay - p.last = n * Span
    BY <1>2 DEF PageOf
  <2>2. p.last = p.first + Span - 1 /\ Span \in Nat /\ Span > 0
    BY <1>2, BrowseConstants DEF PageOf
  <2>3. Browsing!Following(p) = [kind |-> "range", first |-> p.last + 1, last |-> p.last + Span]
    BY <1>0, <1>2, <2>2 DEF Browsing!Following, Browsing!RangePage, Browsing!Length
  <2>4. n # 0
    BY <1>0, <2>1, <2>2
  <2>5. LastDay - (p.last + Span) = (n - 1) * Span
    BY <1>0, <2>1, <2>2
  <2>6. (n - 1) * Span \in Nat /\ n - 1 \in Nat
    BY <2>2, <2>4
  <2>7. p.last + Span \in 0..LastDay
    BY <1>0, <2>2, <2>5, <2>6
  <2>8. \E m \in Nat : LastDay - (p.last + Span) = m * Span
    BY <2>5, <2>6
  <2>9. p.last + 1 <= p.last + Span /\ p.last + Span = (p.last + 1) + Span - 1
    BY <1>0, <2>2
  <2> QED
    BY <1>0, <2>3, <2>7, <2>8, <2>9 DEF PageOf
<1>3. CASE p.kind = "month"
  <2>1. Browsing!FirstOf(p.first) = p.first /\ Browsing!LastOf(p.first) = p.last
    BY <1>3 DEF PageOf
  <2>2. Month[p.last] = Month[p.first]
    BY <1>0, <2>1, MonthEnds
  <2>3. Browsing!LastOf(p.last) = p.last
    BY <1>0, <2>1, <2>2, OneMonth
  <2>4. PICK d \in 0..LastDay : d = p.last + 1 /\ d # 0 /\ d - 1 = p.last
    BY <1>0
  <2>5. Browsing!FirstOf(d) = d
    BY <2>3, <2>4, NextMonth
  <2>6. Browsing!LastOf(d) \in 0..LastDay /\ d <= Browsing!LastOf(d)
    BY MonthEnds
  <2>7. Browsing!Following(p) = [kind |-> "month", first |-> d, last |-> Browsing!LastOf(d)]
    BY <1>3, <2>4, <2>5 DEF Browsing!Following, Browsing!MonthPage
  <2> QED
    BY <2>4, <2>5, <2>6, <2>7 DEF PageOf
<1> QED
  BY <1>0, <1>1, <1>2, <1>3

\* The link back leads to the page whose link leads here.
LEMMA PagesMeet ==
    ASSUME Browsing!TimelineAssumption, NEW p, PageOf(p), p.first > 0
    PROVE  /\ Browsing!Window(Browsing!Previous(p)).until = Browsing!Window(p).since
           /\ Browsing!Following(Browsing!Previous(p)) = p
<1>0. /\ LastDay \in Nat /\ p.first \in 0..LastDay /\ p.last \in 0..LastDay /\ p.first <= p.last
      /\ p.kind \in {"day", "range", "month"} /\ p.first - 1 \in 0..LastDay
      /\ p = [kind |-> p.kind, first |-> p.first, last |-> p.last]
  BY BrowseConstants DEF PageOf
<1>1. Browsing!Window(p).since = Midnight[p.first]
  BY DEF Browsing!Window
<1>2. CASE p.kind = "day"
  <2>1. Browsing!Previous(p) = [kind |-> "day", first |-> p.first - 1, last |-> p.first - 1]
    BY <1>2 DEF Browsing!Previous, Browsing!DayPage
  <2>2. Browsing!Window(Browsing!Previous(p)).until = Midnight[p.first]
    BY <1>0, <2>1 DEF Browsing!Window
  <2>3. p.last = p.first /\ Browsing!Following(Browsing!Previous(p)) = [kind |-> "day", first |-> p.first, last |-> p.first]
    BY <1>0, <1>2, <2>1 DEF Browsing!Following, Browsing!DayPage, PageOf
  <2> QED
    BY <1>0, <1>1, <1>2, <2>2, <2>3
<1>3. CASE p.kind = "range"
  <2>1. p.last = p.first + Span - 1 /\ Span \in Nat
    BY <1>3, BrowseConstants DEF PageOf
  <2>2. Browsing!Previous(p) = [kind |-> "range", first |-> p.first - Span, last |-> p.first - 1]
    BY <1>0, <1>3, <2>1 DEF Browsing!Previous, Browsing!RangePage, Browsing!Length
  <2>3. Browsing!Window(Browsing!Previous(p)).until = Midnight[p.first]
    BY <1>0, <2>2 DEF Browsing!Window
  <2>4. Browsing!Following(Browsing!Previous(p)) = [kind |-> "range", first |-> p.first, last |-> p.first + Span - 1]
    BY <1>0, <2>1, <2>2 DEF Browsing!Following, Browsing!RangePage, Browsing!Length
  <2> QED
    BY <1>0, <1>1, <1>3, <2>1, <2>3, <2>4
<1>4. CASE p.kind = "month"
  <2>1. Browsing!FirstOf(p.first) = p.first /\ Browsing!LastOf(p.first) = p.last
    BY <1>4 DEF PageOf
  <2>2. PICK d \in 0..LastDay : d = p.first - 1 /\ d + 1 = p.first
    BY <1>0
  <2>3. Browsing!LastOf(d) = d
    BY <1>0, <2>1, <2>2, NextMonth
  <2>4. Browsing!Previous(p) = [kind |-> "month", first |-> Browsing!FirstOf(d), last |-> d]
    BY <1>4, <2>2, <2>3 DEF Browsing!Previous, Browsing!MonthPage
  <2>5. Browsing!Window(Browsing!Previous(p)).until = Midnight[p.first]
    BY <2>2, <2>4 DEF Browsing!Window
  <2>6. Browsing!Following(Browsing!Previous(p)) = [kind |-> "month", first |-> p.first, last |-> p.last]
    BY <2>1, <2>2, <2>4 DEF Browsing!Following, Browsing!MonthPage
  <2> QED
    BY <1>0, <1>1, <1>4, <2>5, <2>6
<1> QED
  BY <1>0, <1>2, <1>3, <1>4

-----------------------------------------------------------------------------
(* What falls in a window.                                                 *)

LEMMA ItemTimes ==
    ASSUME Browsing!TimelineAssumption, items \in [Item -> Contents], NEW i \in Item
    PROVE  /\ Browsing!PeriodTime(i) \in Nat \union {-1} /\ Browsing!Time(i) \in Nat \union {-1}
           /\ Browsing!PeriodTime(i) < Midnight[LastDay + 1]
           /\ items[i].kind \in {"note", "record"}
           /\ items[i].kind = "record" => Browsing!PeriodTime(i) # -1 /\ items[i].place \in Source
           /\ items[i].kind = "note" => items[i].place \in Folder
           /\ Browsing!Time(i) # -1 => Browsing!PeriodTime(i) = Browsing!Time(i)
           /\ Browsing!Time(i) = -1 => Browsing!PeriodTime(i) = IF items[i].kind = "record" THEN items[i].observed ELSE -1
<1>1. PICK c \in Contents : c = items[i]
  OBVIOUS
<1>2. /\ LastDay \in Nat /\ Midnight[LastDay + 1] \in Nat /\ Midnight[LastDay + 1] > 0
      /\ \A d \in 0..LastDay : Midnight[d] \in Nat /\ Midnight[d] < Midnight[LastDay + 1]
  <2>1. LastDay \in Nat /\ Midnight[LastDay + 1] \in Nat
    BY BrowseConstants
  <2>2. ASSUME NEW d \in 0..LastDay PROVE Midnight[d] \in Nat /\ Midnight[d] < Midnight[LastDay + 1]
    <3>1. d \in 0..(LastDay + 1) /\ d + 1 \in 0..(LastDay + 1) /\ LastDay + 1 \in 0..(LastDay + 1) /\ d + 1 <= LastDay + 1
      BY <2>1
    <3>2. Midnight[d] \in Nat /\ Midnight[d + 1] \in Nat /\ Midnight[d + 1] <= Midnight[LastDay + 1]
      BY <3>1, DaysClimb
    <3>3. Midnight[d] + 1 < Midnight[d + 1]
      BY BrowseConstants
    <3> QED
      BY <2>1, <3>2, <3>3
  <2>3. 0 \in 0..LastDay
    BY <2>1
  <2> QED
    BY <2>1, <2>2, <2>3
<1>3. CASE c.kind = "note"
  <2>1. c.date \in 0..LastDay \union {-1} /\ c.place \in Folder
    BY <1>3, BrowseContents
  <2>2. Browsing!PeriodTime(i) = Browsing!Time(i) /\ Browsing!Time(i) = IF c.date = -1 THEN -1 ELSE Midnight[c.date]
    BY <1>1, <1>3 DEF Browsing!PeriodTime, Browsing!Time, Browsing!Dated, Browsing!None
  <2> QED
    BY <1>1, <1>2, <1>3, <2>1, <2>2
<1>4. CASE c.kind = "record"
  <2>1. /\ c.place \in Source /\ c.observed \in 0..(Midnight[LastDay + 1] - 1)
        /\ c.time \in 0..(Midnight[LastDay + 1] - 1) \union {-1}
    BY <1>4, BrowseContents
  <2>2. Browsing!Time(i) = c.time /\ Browsing!PeriodTime(i) = IF c.time = -1 THEN c.observed ELSE c.time
    BY <1>1, <1>4 DEF Browsing!PeriodTime, Browsing!Time, Browsing!Or, Browsing!None
  <2> QED
    BY <1>1, <1>2, <1>4, <2>1, <2>2
<1> QED
  BY <1>1, <1>3, <1>4, BrowseContents

\* A page lists what its place in periods puts there.
LEMMA WithinPeriods ==
    ASSUME Browsing!TimelineAssumption, items \in [Item -> Contents], NEW i \in Item, NEW w
    PROVE  Browsing!PeriodWithin(i, w) <=> Browsing!In(Browsing!PeriodTime(i), w)
<1>1. Browsing!Time(i) # -1 => Browsing!PeriodTime(i) = Browsing!Time(i)
  BY ItemTimes
<1>2. Browsing!Time(i) = -1 => Browsing!PeriodTime(i) = IF items[i].kind = "record" THEN items[i].observed ELSE -1
  BY ItemTimes
<1>3. items[i].kind = "record" => Browsing!Time(i) = items[i].time
  BY DEF Browsing!Time
<1>4. items[i].kind = "note" => Browsing!PeriodTime(i) = Browsing!Time(i)
  BY DEF Browsing!PeriodTime, Browsing!Time
<1>5. items[i].kind \in {"note", "record"}
  BY ItemTimes
<1> QED
  BY <1>1, <1>2, <1>3, <1>4, <1>5 DEF Browsing!PeriodWithin, Browsing!Within, Browsing!In, Browsing!None

-----------------------------------------------------------------------------
(* The invariant of walks.                                                 *)

LEMMA BrowseInit == ASSUME Browsing!TimelineAssumption, Browsing!Init PROVE BrowseInv
<1>1. /\ \E d \in 0..LastDay : now = Midnight[d] + 1
      /\ items \in [Item -> Contents] /\ walk = Browsing!NoWalk /\ changes = {}
      /\ seen = [i \in Item |-> 0] /\ counted = [s \in Source |-> 0]
  BY DEF Browsing!Init, Browsing!Days
<1>2. BrowseTypes
  BY <1>1 DEF BrowseTypes
<1>3. Midnight[Reached] = 0
  BY <1>1, BrowseConstants DEF Reached, Browsing!NoWalk, Browsing!Done
<1>4. SeenBefore
  BY <1>1, <1>3, ItemTimes DEF SeenBefore
<1>5. ASSUME NEW s \in Source PROVE counted[s] = Cardinality({i \in Browsing!OfSource(s) : Browsing!PeriodTime(i) < Midnight[Reached]})
  <2>1. {i \in Browsing!OfSource(s) : Browsing!PeriodTime(i) < Midnight[Reached]} = {}
    <3>1. ASSUME NEW i \in Browsing!OfSource(s) PROVE ~ (Browsing!PeriodTime(i) < 0)
      <4>1. i \in Item /\ items[i].kind = "record"
        BY DEF Browsing!OfSource
      <4>2. Browsing!PeriodTime(i) \in Nat
        BY <1>1, <4>1, ItemTimes
      <4> QED
        BY <4>2
    <3> QED
      BY <1>3, <3>1
  <2> QED
    BY <1>1, <2>1, FS_EmptySet
<1> QED
  BY <1>2, <1>4, <1>5 DEF BrowseInv, CountedBefore

LEMMA BrowseOpen ==
    ASSUME Browsing!TimelineAssumption, BrowseInv,
           NEW p \in {Browsing!DayPage(0), Browsing!RangePage(0, Span), Browsing!MonthPage(0)}, Browsing!Open(p)
    PROVE  BrowseInv'
<1>1. walk = Browsing!NoWalk /\ walk' = p /\ UNCHANGED <<now, items, seen, counted, changes>>
  BY DEF Browsing!Open
<1>2. PageOf(p) /\ p.first = 0 /\ p # Browsing!Done
  BY FirstPages, PageDays
<1>3. Reached = 0 /\ Reached' = 0
  BY <1>1, <1>2 DEF Reached, Browsing!NoWalk, Browsing!Done
<1>4. BrowseTypes'
  BY <1>1, <1>2 DEF BrowseInv, BrowseTypes, PageOf, Browsing!FirstOf, Browsing!LastOf, Browsing!Days
<1>5. SeenBefore' /\ CountedBefore'
  BY <1>1, <1>3 DEF BrowseInv, SeenBefore, CountedBefore, Browsing!PeriodTime, Browsing!Loud, Browsing!OfSource, Browsing!Dated, Browsing!Or
<1> QED
  BY <1>4, <1>5 DEF BrowseInv

LEMMA BrowseReplace ==
    ASSUME Browsing!TimelineAssumption, BrowseInv, NEW i \in Item, NEW contents \in Contents, Browsing!Replace(i, contents)
    PROVE  BrowseInv'
<1>1. /\ items' = [items EXCEPT ![i] = contents] /\ changes' = changes \union {i}
      /\ UNCHANGED <<now, walk, seen, counted>>
  BY DEF Browsing!Replace
<1>2. items \in [Item -> Contents] /\ items' \in [Item -> Contents]
  BY <1>1 DEF BrowseInv, BrowseTypes
<1>3. BrowseTypes'
  BY <1>1, <1>2 DEF BrowseInv, BrowseTypes, PageOf, Browsing!FirstOf, Browsing!LastOf, Browsing!Days
<1>4. ASSUME NEW j \in Item \ changes'
      PROVE  /\ j \in Item \ changes
             /\ Browsing!PeriodTime(j)' = Browsing!PeriodTime(j) /\ (Browsing!Loud(j)' <=> Browsing!Loud(j))
  <2>1. j \in Item \ changes /\ items'[j] = items[j]
    BY <1>1, <1>2
  <2> QED
    BY <2>1 DEF Browsing!PeriodTime, Browsing!Loud, Browsing!Dated, Browsing!Or
<1>5. Reached' = Reached
  BY <1>1 DEF Reached
<1>6. SeenBefore'
  BY <1>1, <1>4, <1>5 DEF BrowseInv, SeenBefore
<1>7. CountedBefore'
  BY <1>1 DEF CountedBefore
<1> QED
  BY <1>3, <1>6, <1>7 DEF BrowseInv

LEMMA BrowseTurn == ASSUME Browsing!TimelineAssumption, BrowseInv, Browsing!Turn PROVE BrowseInv'
<1> DEFINE w == Browsing!Window(walk)
<1>1. /\ seen' = [i \in Item |-> seen[i] + IF i \in Browsing!Listed(w) THEN 1 ELSE 0]
      /\ counted' = [s \in Source |-> counted[s] + Browsing!Activity(s, w)]
      /\ walk' = IF walk.last = LastDay THEN Browsing!Done ELSE Browsing!Following(walk)
      /\ UNCHANGED <<now, items, changes>> /\ walk # Browsing!NoWalk /\ walk # Browsing!Done
  BY DEF Browsing!Turn
<1>2. PageOf(walk) /\ items \in [Item -> Contents] /\ seen \in [Item -> Nat] /\ counted \in [Source -> Nat]
  BY <1>1 DEF BrowseInv, BrowseTypes
<1>3. /\ walk.first \in 0..LastDay /\ walk.last \in 0..LastDay /\ walk.first <= walk.last
      /\ walk.last + 1 \in 0..(LastDay + 1) /\ walk.first \in 0..(LastDay + 1) /\ LastDay \in Nat
  BY <1>2, PageDays, BrowseConstants
<1>4. Reached = walk.first
  BY <1>1 DEF Reached
<1>5. Reached' = walk.last + 1 /\ (walk' = Browsing!Done \/ PageOf(walk'))
  <2>1. CASE walk.last = LastDay
    BY <1>1, <2>1 DEF Reached
  <2>2. CASE walk.last # LastDay
    <3>1. walk' = Browsing!Following(walk) /\ PageOf(walk') /\ walk'.first = walk.last + 1
      BY <1>1, <1>2, <2>2, NextPages
    <3> QED
      BY <3>1, PageDays DEF Reached
  <2> QED
    BY <2>1, <2>2
<1>6. PICK since \in Nat, until \in Nat :
        /\ since = Midnight[walk.first] /\ until = Midnight[walk.last + 1] /\ since <= until
        /\ w = [since |-> since, until |-> until]
  <2>1. walk.first <= walk.last + 1
    BY <1>3
  <2>2. Midnight[walk.first] \in Nat /\ Midnight[walk.last + 1] \in Nat /\ Midnight[walk.first] <= Midnight[walk.last + 1]
    BY <1>3, <2>1, DaysClimb
  <2> QED
    BY <2>2 DEF Browsing!Window
<1>7. Midnight[Reached] = since /\ Midnight[Reached]' = until
  BY <1>4, <1>5, <1>6
<1>8. ASSUME NEW i \in Item
      PROVE  /\ Browsing!PeriodTime(i)' = Browsing!PeriodTime(i) /\ (Browsing!Loud(i)' <=> Browsing!Loud(i))
             /\ Browsing!PeriodTime(i) \in Nat \union {-1}
             /\ Browsing!PeriodWithin(i, w) <=> since <= Browsing!PeriodTime(i) /\ Browsing!PeriodTime(i) < until
  <2>1. Browsing!PeriodTime(i)' = Browsing!PeriodTime(i) /\ (Browsing!Loud(i)' <=> Browsing!Loud(i))
    BY <1>1 DEF Browsing!PeriodTime, Browsing!Loud, Browsing!Dated, Browsing!Or
  <2>2. Browsing!PeriodTime(i) \in Nat \union {-1}
    BY <1>2, ItemTimes
  <2>3. Browsing!PeriodWithin(i, w) <=> Browsing!In(Browsing!PeriodTime(i), w)
    BY <1>2, WithinPeriods
  <2> QED
    BY <1>6, <2>1, <2>2, <2>3 DEF Browsing!In, Browsing!None
<1>9. SeenBefore'
  <2>1. ASSUME NEW i \in Item \ changes
        PROVE  seen'[i] = IF Browsing!PeriodTime(i) # -1 /\ Browsing!PeriodTime(i) < until /\ Browsing!Loud(i) THEN 1 ELSE 0
    <3>1. seen'[i] = seen[i] + IF Browsing!PeriodWithin(i, w) /\ Browsing!Loud(i) THEN 1 ELSE 0
      BY <1>1 DEF Browsing!Listed
    <3>2. seen[i] = IF Browsing!PeriodTime(i) # -1 /\ Browsing!PeriodTime(i) < since /\ Browsing!Loud(i) THEN 1 ELSE 0
      BY <1>7 DEF BrowseInv, SeenBefore
    <3> QED
      BY <1>6, <1>8, <3>1, <3>2
  <2> QED
    BY <1>1, <1>7, <1>8, <2>1 DEF SeenBefore
<1>10. CountedBefore'
  <2> SUFFICES ASSUME changes = {}, NEW s \in Source
               PROVE  counted'[s] = Cardinality({i \in Browsing!OfSource(s) : Browsing!PeriodTime(i) < until})
    <3>1. \A s \in Source : Browsing!OfSource(s)' = Browsing!OfSource(s) /\ Browsing!OfSource(s) \subseteq Item
      BY <1>1 DEF Browsing!OfSource
    <3>2. \A s \in Source : {i \in Browsing!OfSource(s)' : Browsing!PeriodTime(i)' < until} = {i \in Browsing!OfSource(s) : Browsing!PeriodTime(i) < until}
      BY <1>8, <3>1
    <3> QED
      BY <1>1, <1>7, <3>2 DEF CountedBefore
  <2> DEFINE A == {i \in Browsing!OfSource(s) : Browsing!PeriodTime(i) < since}
             B == {i \in Browsing!OfSource(s) : Browsing!PeriodWithin(i, w)}
  <2>1. counted[s] = Cardinality(A)
    BY <1>7 DEF BrowseInv, CountedBefore
  <2>2. Browsing!Activity(s, w) = Cardinality(B)
    <3>1. Browsing!Cardinality(B) = Cardinality(B)
      BY Zenon DEF Browsing!Cardinality, Cardinality
    <3> QED
      BY Zenon, <3>1 DEF Browsing!Activity
  <2>3. Browsing!OfSource(s) \subseteq Item /\ \A i \in Browsing!OfSource(s) : Browsing!PeriodTime(i) \in Nat
    BY <1>2, ItemTimes DEF Browsing!OfSource
  <2>4. IsFiniteSet(A) /\ IsFiniteSet(B)
    BY <2>3, BrowseConstants, FS_Subset
  <2>5. A \intersect B = {}
    BY <1>6, <1>8, <2>3
  <2>6. A \union B = {i \in Browsing!OfSource(s) : Browsing!PeriodTime(i) < until}
    BY <1>6, <1>8, <2>3
  <2>7. Cardinality(A \union B) = Cardinality(A) + Cardinality(B)
    <3>1. Cardinality(A \intersect B) = 0
      BY Zenon, <2>5, FS_EmptySet
    <3>2. Cardinality(A) \in Nat /\ Cardinality(B) \in Nat
      BY <2>4, FS_CardinalityType
    <3>3. Cardinality(A \union B) = Cardinality(A) + Cardinality(B) - Cardinality(A \intersect B)
      <4> HIDE DEF A, B
      <4> QED
        BY <2>4, FS_Union
    <3> HIDE DEF A, B
    <3> QED
      BY <3>1, <3>2, <3>3
  <2>8. counted'[s] = counted[s] + Browsing!Activity(s, w)
    BY <1>1
  <2> HIDE DEF A, B, w
  <2> QED
    BY <2>1, <2>2, <2>6, <2>7, <2>8
<1>11. BrowseTypes'
  <2>1. seen' \in [Item -> Nat]
    BY <1>1, <1>2
  <2>2. counted' \in [Source -> Nat]
    <3>1. ASSUME NEW s \in Source PROVE Browsing!Activity(s, w) \in Nat
      <4>1. PICK B : B = {i \in Browsing!OfSource(s) : Browsing!PeriodWithin(i, w)}
        OBVIOUS
      <4>2. B \subseteq Item
        BY <4>1 DEF Browsing!OfSource
      <4>3. Browsing!Cardinality(B) = Cardinality(B)
        BY Zenon DEF Browsing!Cardinality, Cardinality
      <4>4. Cardinality(B) \in Nat
        BY <4>2, BrowseConstants, FS_Subset, FS_CardinalityType
      <4>5. Browsing!Activity(s, w) = Browsing!Cardinality(B)
        BY Zenon, <4>1 DEF Browsing!Activity
      <4> QED
        BY <4>3, <4>4, <4>5
    <3> QED
      BY <1>1, <1>2, <3>1
  <2>3. walk' \in {Browsing!NoWalk, Browsing!Done} \/ PageOf(walk)'
    BY <1>5 DEF PageOf, Browsing!FirstOf, Browsing!LastOf, Browsing!Days
  <2>4. (\E d \in 0..LastDay : now' = Midnight[d] + 1) /\ items' \in [Item -> Contents]
    BY <1>1 DEF BrowseInv, BrowseTypes
  <2> QED
    BY <2>1, <2>2, <2>3, <2>4 DEF BrowseTypes
<1> QED
  BY <1>9, <1>10, <1>11 DEF BrowseInv

LEMMA BrowseStep ==
    ASSUME Browsing!TimelineAssumption
    PROVE  BrowseInv /\ [Browsing!Next]_Browsing!vars => BrowseInv'
<1>1. ASSUME BrowseInv, UNCHANGED Browsing!vars PROVE BrowseInv'
  BY <1>1 DEF Browsing!vars, BrowseInv, BrowseTypes, SeenBefore, CountedBefore, Reached, PageOf,
              Browsing!FirstOf, Browsing!LastOf, Browsing!Days, Browsing!PeriodTime, Browsing!Loud, Browsing!OfSource, Browsing!Dated, Browsing!Or
<1>2. ASSUME BrowseInv, Browsing!Next PROVE BrowseInv'
  BY <1>2, BrowseOpen, BrowseTurn, BrowseReplace DEF Browsing!Next
<1> QED
  BY <1>1, <1>2

LEMMA PeriodsAreTiled == ASSUME Browsing!TimelineAssumption, BrowseInv PROVE Browsing!PeriodsTile
<1>1. items \in [Item -> Contents]
  BY DEF BrowseInv, BrowseTypes
<1>2. ASSUME walk = Browsing!Done
      PROVE  /\ \A i \in Item \ changes :
                   seen[i] = IF Browsing!PeriodTime(i) # Browsing!None /\ Browsing!Loud(i) THEN 1 ELSE 0
             /\ changes = {} => \A s \in Source : counted[s] = Browsing!Cardinality(Browsing!OfSource(s))
  <2>1. Reached = LastDay + 1
    BY <1>2 DEF Reached
  <2>2. \A i \in Item : Browsing!PeriodTime(i) < Midnight[Reached]
    BY <1>1, <2>1, ItemTimes
  <2>3. \A i \in Item \ changes : seen[i] = IF Browsing!PeriodTime(i) # Browsing!None /\ Browsing!Loud(i) THEN 1 ELSE 0
    BY <2>2 DEF BrowseInv, SeenBefore, Browsing!None
  <2>4. ASSUME changes = {}, NEW s \in Source PROVE counted[s] = Browsing!Cardinality(Browsing!OfSource(s))
    <3>1. {i \in Browsing!OfSource(s) : Browsing!PeriodTime(i) < Midnight[Reached]} = Browsing!OfSource(s)
      BY <2>2 DEF Browsing!OfSource
    <3>2. Browsing!Cardinality(Browsing!OfSource(s)) = Cardinality(Browsing!OfSource(s))
      BY Zenon DEF Browsing!Cardinality, Cardinality
    <3>3. counted[s] = Cardinality({i \in Browsing!OfSource(s) : Browsing!PeriodTime(i) < Midnight[Reached]})
      BY <2>4 DEF BrowseInv, CountedBefore
    <3> QED
      BY Zenon, <3>1, <3>2, <3>3
  <2> QED
    BY <2>3, <2>4
<1>3. ASSUME Browsing!Walking, walk.first > 0
      PROVE  /\ Browsing!Window(Browsing!Previous(walk)).until = Browsing!Window(walk).since
             /\ Browsing!Following(Browsing!Previous(walk)) = walk
  <2>1. PageOf(walk)
    BY <1>3 DEF Browsing!Walking, BrowseInv, BrowseTypes
  <2> QED
    BY <1>3, <2>1, PagesMeet
<1> QED
  BY <1>2, <1>3 DEF Browsing!PeriodsTile

LEMMA SectionsStayApart == ASSUME Browsing!TimelineAssumption, BrowseInv PROVE Browsing!SectionsAreApart
<1>1. now \in Nat /\ Hour \in Nat /\ Hour > 0
  <2>1. PICK d \in 0..LastDay : now = Midnight[d] + 1
    BY DEF BrowseInv, BrowseTypes
  <2>2. d \in 0..(LastDay + 1)
    BY BrowseConstants
  <2> QED
    BY <2>1, <2>2, BrowseConstants
<1>2. Browsing!Walking => Browsing!Changed(Browsing!Window(walk)) \intersect Browsing!Listed(Browsing!Window(walk)) = {}
  BY DEF Browsing!Changed, Browsing!Listed
<1>3. items \in [Item -> Contents]
  BY DEF BrowseInv, BrowseTypes
<1>4. ASSUME NEW i \in Item
      PROVE  /\ Browsing!Time(i) \in Nat \union {-1} /\ Browsing!PeriodTime(i) \in Nat \union {-1}
             /\ Browsing!Time(i) # -1 => Browsing!PeriodTime(i) = Browsing!Time(i)
             /\ i \in Browsing!Listed(Browsing!Trailing) <=>
                   (Browsing!PeriodTime(i) # -1 /\ now - Hour <= Browsing!PeriodTime(i) /\ Browsing!PeriodTime(i) < now /\ Browsing!Loud(i))
             /\ i \in Browsing!Upcoming <=> (Browsing!Time(i) # -1 /\ now <= Browsing!Time(i) /\ Browsing!Time(i) < now + Hour /\ Browsing!Loud(i))
  <2>1. Browsing!PeriodWithin(i, Browsing!Trailing) <=> Browsing!In(Browsing!PeriodTime(i), Browsing!Trailing)
    BY <1>3, WithinPeriods
  <2>2. i \in Browsing!Listed(Browsing!Trailing) <=>
          (Browsing!PeriodTime(i) # -1 /\ now - Hour <= Browsing!PeriodTime(i) /\ Browsing!PeriodTime(i) < now /\ Browsing!Loud(i))
    BY <2>1 DEF Browsing!Listed, Browsing!In, Browsing!Trailing, Browsing!None
  <2>3. i \in Browsing!Upcoming <=> (Browsing!Time(i) # -1 /\ now <= Browsing!Time(i) /\ Browsing!Time(i) < now + Hour /\ Browsing!Loud(i))
    BY DEF Browsing!Upcoming, Browsing!Within, Browsing!In, Browsing!None
  <2> QED
    BY <1>3, <2>2, <2>3, ItemTimes
<1>5. Browsing!Listed(Browsing!Trailing) \intersect Browsing!Upcoming = {}
  <2>1. ASSUME NEW i \in Browsing!Listed(Browsing!Trailing), i \in Browsing!Upcoming PROVE FALSE
    <3>1. i \in Item
      BY DEF Browsing!Listed
    <3> QED
      BY <1>1, <1>4, <2>1, <3>1
  <2> QED
    BY <2>1
<1>6. ASSUME NEW i \in Item, Browsing!In(Browsing!Time(i), [since |-> now - Hour, until |-> now + Hour]), Browsing!Loud(i)
      PROVE  i \in Browsing!Listed(Browsing!Trailing) \union Browsing!Upcoming
  <2>1. Browsing!Time(i) # -1 /\ now - Hour <= Browsing!Time(i) /\ Browsing!Time(i) < now + Hour
    BY <1>6 DEF Browsing!In, Browsing!None
  <2> QED
    BY <1>1, <1>4, <1>6, <2>1
<1> QED
  BY <1>2, <1>5, <1>6 DEF Browsing!SectionsAreApart

\* A scope of a window holds what falls in the window.
LEMMA ScopeIsWindow ==
    ASSUME Browsing!TimelineAssumption, items \in [Item -> Contents], NEW i \in Item,
           NEW since \in Int, NEW until \in Nat
    PROVE  /\ since # Browsing!None => Browsing!PeriodTime(i) # Browsing!None /\ Browsing!PeriodTime(i) >= since
           /\ until # Browsing!None => Browsing!PeriodTime(i) # Browsing!None /\ Browsing!PeriodTime(i) < until
           <=> Browsing!PeriodWithin(i, [since |-> since, until |-> until])
<1>1. Browsing!PeriodTime(i) \in Nat \union {-1}
  BY ItemTimes
<1>2. Browsing!PeriodWithin(i, [since |-> since, until |-> until]) <=> Browsing!In(Browsing!PeriodTime(i), [since |-> since, until |-> until])
  BY WithinPeriods
<1> QED
  BY <1>1, <1>2 DEF Browsing!In, Browsing!None

\* What the scopes of pages bound.
LEMMA ScopeFields ==
    ASSUME NEW place, NEW t, NEW w, NEW since, NEW until, w = [since |-> since, until |-> until]
    PROVE  /\ LET o == Browsing!PeriodScope(w)
              IN  o.place = "any" /\ o.since = since /\ o.until = until /\ ~o.undated /\ o.tag = "any"
           /\ LET o == Browsing!PlaceScope(place)
              IN  o.place = place /\ o.since = -1 /\ o.until = -1 /\ ~o.undated /\ o.tag = "any"
           /\ LET o == Browsing!Combined(w, Browsing!PlaceScope(place))
              IN  o.place = place /\ o.since = since /\ o.until = until /\ ~o.undated /\ o.tag = "any"
           /\ LET o == Browsing!UndatedScope(place)
              IN  o.place = place /\ o.since = -1 /\ o.until = -1 /\ o.undated /\ o.tag = "any"
           /\ LET o == Browsing!TagScope(t)
              IN  o.place = "any" /\ o.since = -1 /\ o.until = -1 /\ ~o.undated /\ o.tag = t
<1>0. Browsing!Anywhere = [place |-> "any", since |-> -1, until |-> -1, undated |-> FALSE, tag |-> "any"]
  BY DEF Browsing!Anywhere, Browsing!Any, Browsing!None
<1>1. PICK a : a = Browsing!Anywhere
  OBVIOUS
<1>2. /\ a.place = "any" /\ a.since = -1 /\ a.until = -1 /\ ~a.undated /\ a.tag = "any"
      /\ DOMAIN a = {"place", "since", "until", "undated", "tag"}
  BY <1>0, <1>1
<1>3. PICK q : q = [a EXCEPT !.place = place]
  OBVIOUS
<1>4. /\ q.place = place /\ q.since = -1 /\ q.until = -1 /\ ~q.undated /\ q.tag = "any"
      /\ DOMAIN q = {"place", "since", "until", "undated", "tag"}
  BY <1>2, <1>3
<1>5. q = Browsing!PlaceScope(place)
  BY Zenon, <1>1, <1>3 DEF Browsing!PlaceScope
<1>6. PICK c : c = [q EXCEPT !.since = w.since, !.until = w.until]
  OBVIOUS
<1>7. c.place = place /\ c.since = since /\ c.until = until /\ ~c.undated /\ c.tag = "any"
  BY <1>4, <1>6
<1>8. c = Browsing!Combined(w, Browsing!PlaceScope(place))
  BY Zenon, <1>5, <1>6 DEF Browsing!Combined
<1>9. PICK p : p = [a EXCEPT !.since = w.since, !.until = w.until]
  OBVIOUS
<1>10. p.place = "any" /\ p.since = since /\ p.until = until /\ ~p.undated /\ p.tag = "any"
  BY <1>2, <1>9
<1>11. p = Browsing!PeriodScope(w)
  BY Zenon, <1>1, <1>9 DEF Browsing!PeriodScope
<1>12. PICK u : u = [a EXCEPT !.place = place, !.undated = TRUE]
  OBVIOUS
<1>13. u.place = place /\ u.since = -1 /\ u.until = -1 /\ u.undated /\ u.tag = "any"
  BY <1>2, <1>12
<1>14. u = Browsing!UndatedScope(place)
  BY Zenon, <1>1, <1>12 DEF Browsing!UndatedScope
<1>15. PICK g : g = [a EXCEPT !.tag = t]
  OBVIOUS
<1>16. g.place = "any" /\ g.since = -1 /\ g.until = -1 /\ ~g.undated /\ g.tag = t
  BY <1>2, <1>15
<1>17. g = Browsing!TagScope(t)
  BY Zenon, <1>1, <1>15 DEF Browsing!TagScope
<1> QED
  BY <1>4, <1>5, <1>7, <1>8, <1>10, <1>11, <1>13, <1>14, <1>16, <1>17

LEMMA ScopesHoldPages == ASSUME Browsing!TimelineAssumption, BrowseInv PROVE Browsing!ScopesAreThePages
<1>0. PICK window : window = [since |-> 0, until |-> 0]
  OBVIOUS
<1>1. items \in [Item -> Contents] /\ (\E d \in 0..LastDay : now = Midnight[d] + 1)
        /\ (walk \in {Browsing!NoWalk, Browsing!Done} \/ PageOf(walk))
  BY DEF BrowseInv, BrowseTypes
<1>2. /\ LastDay \in Nat /\ \A d \in 0..(LastDay + 1) : Midnight[d] \in Nat
      /\ "any" \notin Source /\ "any" \notin Folder /\ "any" \notin Tag /\ Source \intersect Folder = {}
  BY BrowseConstants
<1>3. PICK day \in 0..LastDay : now = Midnight[day] + 1
  BY <1>1
<1>4. now \in Nat /\ Midnight[day + 1] \in Nat /\ Midnight[day] <= now /\ now < Midnight[day + 1]
  <2>1. day \in 0..(LastDay + 1) /\ day + 1 \in 0..(LastDay + 1)
    BY <1>2
  <2> QED
    <3>1. Midnight[day] \in Nat /\ Midnight[day + 1] \in Nat
      BY <1>2, <2>1
    <3>2. Midnight[day] + 1 < Midnight[day + 1]
      BY BrowseConstants
    <3> QED
      BY <1>3, <3>1, <3>2
<1>5. Browsing!Today \in 0..LastDay
  <2>1. \E d \in Browsing!Days : Midnight[d] <= now /\ now < Midnight[d + 1]
    BY <1>4 DEF Browsing!Days
  <2>2. Browsing!Today \in Browsing!Days
    BY <2>1 DEF Browsing!Today
  <2> QED
    BY <2>2 DEF Browsing!Days
<1>6. ASSUME NEW w \in {Browsing!Trailing, Browsing!Window(Browsing!DayPage(Browsing!Today))} \union {Browsing!Window(p) : p \in IF Browsing!Walking THEN {walk} ELSE {}}
      PROVE  \E since \in Int, until \in Nat : w = [since |-> since, until |-> until]
  <2>1. CASE w = Browsing!Trailing
    BY <1>4, <2>1, BrowseConstants DEF Browsing!Trailing
  <2>2. CASE w = Browsing!Window(Browsing!DayPage(Browsing!Today))
    <3>1. Browsing!Today \in 0..(LastDay + 1) /\ Browsing!Today + 1 \in 0..(LastDay + 1)
      BY <1>2, <1>5
    <3>2. w = [since |-> Midnight[Browsing!Today], until |-> Midnight[Browsing!Today + 1]]
      BY <2>2 DEF Browsing!Window, Browsing!DayPage
    <3> QED
      BY <1>2, <3>1, <3>2
  <2>3. CASE Browsing!Walking /\ w = Browsing!Window(walk)
    <3>1. PageOf(walk)
      BY <1>1, <2>3 DEF Browsing!Walking
    <3>2. walk.first \in 0..(LastDay + 1) /\ walk.last + 1 \in 0..(LastDay + 1)
      BY <1>2, <3>1, PageDays
    <3>3. w = [since |-> Midnight[walk.first], until |-> Midnight[walk.last + 1]]
      BY <2>3 DEF Browsing!Window
    <3>4. Midnight[walk.first] \in Int /\ Midnight[walk.last + 1] \in Nat
      BY <1>2, <3>2
    <3> QED
      BY <3>3, <3>4
  <2> QED
    BY <2>1, <2>2, <2>3
<1>7. ASSUME NEW w \in {Browsing!Trailing, Browsing!Window(Browsing!DayPage(Browsing!Today))} \union {Browsing!Window(p) : p \in IF Browsing!Walking THEN {walk} ELSE {}}
      PROVE  /\ Browsing!Filtered(Browsing!PeriodScope(w)) =
                   Browsing!Listed(w) \union {i \in Item : Browsing!PeriodWithin(i, w) /\ ~Browsing!Loud(i)}
             /\ \A s \in Source : Browsing!Filtered(Browsing!Combined(w, Browsing!PlaceScope(s))) = Browsing!SourcePeriod(s, w)
  <2>1. PICK since \in Int, until \in Nat : w = [since |-> since, until |-> until]
    BY <1>6
  <2>2. ASSUME NEW i \in Item
        PROVE  i \in Browsing!Filtered(Browsing!PeriodScope(w)) <=> Browsing!PeriodWithin(i, w)
    <3>1. PICK o : o = Browsing!PeriodScope(w) /\ o.place = "any" /\ o.since = since /\ o.until = until /\ ~o.undated /\ o.tag = "any"
      BY <2>1, ScopeFields
    <3>2. i \in Browsing!Filtered(Browsing!PeriodScope(w)) <=>
            /\ since # Browsing!None => Browsing!PeriodTime(i) # Browsing!None /\ Browsing!PeriodTime(i) >= since
            /\ until # Browsing!None => Browsing!PeriodTime(i) # Browsing!None /\ Browsing!PeriodTime(i) < until
      BY <3>1 DEF Browsing!Filtered, Browsing!Any
    <3> QED
      BY <1>1, <2>1, <3>2, ScopeIsWindow
  <2>3. Browsing!Filtered(Browsing!PeriodScope(w)) = Browsing!Listed(w) \union {i \in Item : Browsing!PeriodWithin(i, w) /\ ~Browsing!Loud(i)}
    BY <2>2 DEF Browsing!Filtered, Browsing!Listed
  <2>4. ASSUME NEW s \in Source PROVE Browsing!Filtered(Browsing!Combined(w, Browsing!PlaceScope(s))) = Browsing!SourcePeriod(s, w)
    <3>1. PICK o : o = Browsing!Combined(w, Browsing!PlaceScope(s)) /\ o.place = s /\ o.since = since /\ o.until = until /\ ~o.undated /\ o.tag = "any"
      BY <2>1, ScopeFields
    <3>2. ASSUME NEW i \in Item PROVE i \in Browsing!Filtered(Browsing!Combined(w, Browsing!PlaceScope(s))) <=> i \in Browsing!SourcePeriod(s, w)
      <4>1. i \in Browsing!Filtered(Browsing!Combined(w, Browsing!PlaceScope(s))) <=>
              /\ since # Browsing!None => Browsing!PeriodTime(i) # Browsing!None /\ Browsing!PeriodTime(i) >= since
              /\ until # Browsing!None => Browsing!PeriodTime(i) # Browsing!None /\ Browsing!PeriodTime(i) < until
              /\ items[i].place = s
        BY <1>2, <3>1 DEF Browsing!Filtered, Browsing!Any
      <4>2. items[i].place = s => items[i].kind = "record"
        BY <1>1, <1>2, ItemTimes
      <4> QED
        BY <1>1, <2>1, <4>1, <4>2, ScopeIsWindow DEF Browsing!SourcePeriod, Browsing!OfSource
    <3>3. Browsing!Filtered(Browsing!Combined(w, Browsing!PlaceScope(s))) \subseteq Item /\ Browsing!SourcePeriod(s, w) \subseteq Item
      BY DEF Browsing!Filtered, Browsing!SourcePeriod, Browsing!OfSource
    <3> QED
      BY <3>2, <3>3
  <2> QED
    BY <2>3, <2>4
<1>8. ASSUME NEW s \in Source
      PROVE  Browsing!Filtered(Browsing!PlaceScope(s)) = Browsing!SourcePage(s) /\ Browsing!Filtered(Browsing!UndatedScope(s)) = Browsing!SourceUndated(s)
  <2>1. \A i \in Item : items[i].place = s => items[i].kind = "record"
    BY <1>1, <1>2, ItemTimes
  <2>2. PICK o : o = Browsing!PlaceScope(s) /\ o.place = s /\ o.since = -1 /\ o.until = -1 /\ ~o.undated /\ o.tag = "any"
    BY <1>0, ScopeFields
  <2>3. PICK u : u = Browsing!UndatedScope(s) /\ u.place = s /\ u.since = -1 /\ u.until = -1 /\ u.undated /\ u.tag = "any"
    BY <1>0, ScopeFields
  <2>4. Browsing!Filtered(Browsing!PlaceScope(s)) = {i \in Item : items[i].place = s}
    BY <1>2, <2>2 DEF Browsing!Filtered, Browsing!Any, Browsing!None
  <2>5. Browsing!Filtered(Browsing!UndatedScope(s)) = {i \in Item : Browsing!Time(i) = -1 /\ items[i].place = s}
    BY <1>2, <2>3 DEF Browsing!Filtered, Browsing!Any, Browsing!None
  <2>6. \A i \in Item : items[i].kind = "record" => Browsing!Time(i) = items[i].time
    BY DEF Browsing!Time
  <2>7. Browsing!SourcePage(s) = {i \in Item : items[i].place = s}
    BY <2>1 DEF Browsing!SourcePage, Browsing!OfSource
  <2>8. Browsing!SourceUndated(s) = {i \in Item : Browsing!Time(i) = -1 /\ items[i].place = s}
    BY <2>1, <2>6 DEF Browsing!SourceUndated, Browsing!OfSource, Browsing!None
  <2> QED
    BY Zenon, <2>4, <2>5, <2>7, <2>8
<1>9. ASSUME NEW f \in Folder PROVE Browsing!Filtered(Browsing!PlaceScope(f)) = Browsing!FolderPage(f)
  <2>1. \A i \in Item : items[i].place = f => items[i].kind = "note"
    BY <1>1, <1>2, ItemTimes
  <2>2. PICK o : o = Browsing!PlaceScope(f) /\ o.place = f /\ o.since = -1 /\ o.until = -1 /\ ~o.undated /\ o.tag = "any"
    BY <1>0, ScopeFields
  <2>3. Browsing!Filtered(Browsing!PlaceScope(f)) = {i \in Item : items[i].place = f}
    BY <1>2, <2>2 DEF Browsing!Filtered, Browsing!Any, Browsing!None
  <2> QED
    BY <2>1, <2>3 DEF Browsing!FolderPage
<1>10. ASSUME NEW t \in Tag PROVE Browsing!Filtered(Browsing!TagScope(t)) = Browsing!TagPage(t)
  <2>1. PICK o : o = Browsing!TagScope(t) /\ o.place = "any" /\ o.since = -1 /\ o.until = -1 /\ ~o.undated /\ o.tag = t
    BY <1>0, ScopeFields
  <2> QED
    BY <1>2, <2>1 DEF Browsing!Filtered, Browsing!Any, Browsing!None, Browsing!TagPage
<1> QED
  BY <1>7, <1>8, <1>9, <1>10 DEF Browsing!ScopesAreThePages

(* The pages of a walk are whole days, ranges or months, and what was listed  *)
(* and counted is what fell before the first day not read (pages.py).         *)
THEOREM BrowseInvariance ==
    ASSUME Browsing!TimelineAssumption
    PROVE  Browsing!Spec => []BrowseInv
<1>1. Browsing!Init => BrowseInv
  BY BrowseInit
<1>2. BrowseInv /\ [Browsing!Next]_Browsing!vars => BrowseInv'
  BY BrowseStep
<1> QED
  BY <1>1, <1>2, PTL DEF Browsing!Spec

(* A reader of the pages of a time line reads each item that keeps its date   *)
(* once, the sections of a page are apart, and a search scoped by a page      *)
(* searches what the page lists (pages.py, index.py).                         *)
THEOREM PagesStayRight ==
    ASSUME Browsing!TimelineAssumption
    PROVE  Browsing!Spec => []Browsing!PagesAreRight
<1>1. BrowseInv => Browsing!PagesAreRight
  BY PeriodsAreTiled, SectionsStayApart, ScopesHoldPages DEF Browsing!PagesAreRight
<1> QED
  BY <1>1, BrowseInvariance, PTL

-----------------------------------------------------------------------------
(* Names and links across brains.                                          *)

CONSTANTS Stores, Authored, Record, Subject, External, Bare, Declared, Untyped, Content, Nothing, Opening,
          MaxFailures

VARIABLES texts, reading, holders, spent

Linking == INSTANCE Links WITH
    Note <- Authored, Contents <- Content, Starts <- Opening,
    files <- texts, read <- reading, held <- holders, bounds <- spent

Found == [brain : Linking!Brain, item : Linking!Item, names : SUBSET Linking!Identity]

LinkTypes ==
    /\ texts \in [Linking!Brain -> [Linking!Item -> Content \union {Nothing}]]
    /\ reading \in [at : {"idle", "match", "probe", "done"}, name : {reading.name}, todo : Seq(Linking!Brain),
                    failed : SUBSET Linking!Brain, matches : SUBSET Found, shared : SUBSET Linking!Identity,
                    bare : BOOLEAN, problems : BOOLEAN, names : {reading.names}]
    /\ reading.at # "idle" => reading.name \in Linking!Identity
    /\ IsFiniteSet(reading.matches)
    /\ spent \in [edits : Nat, failures : Nat, edited : BOOLEAN]
    /\ (spent.failures = 0 \/ ~reading.problems) => reading.failed = {}

\* The brains the pass has yet to ask.
Waiting(b) == \E k \in 1..Len(reading.todo) : reading.todo[k] = b

\* A claim of another item than o, and whether one holds the name in brain b.
OfOther(o, claim) == claim[1] # o.brain \/ claim[2] # o.item
ElsewhereOf(o, b, name) == \E item \in Linking!Owners(b, name) : b # o.brain \/ item # o.item
MayShare(o, b, name) == b = o.brain \/ name[1] # o.brain

\* What held all along holds now, and what holds now held at some time.
HoldersTrue ==
    reading.at # "idle" => holders.always \subseteq Linking!Holding /\ Linking!Holding \subseteq holders.ever

\* A match has every name that its item held all along.
NamesTold ==
    reading.at # "idle" =>
        \A m \in reading.matches, claim \in holders.always :
            claim[1] = m.brain /\ claim[2] = m.item /\ claim[3] # Linking!Ref(claim[2]) => claim[3] \in m.names

\* Another item's lasting claim is heard of once its brain was asked.
HeardOf ==
    reading.at = "probe" /\ spent.failures = 0 =>
        \A o : reading.matches = {o} =>
            \A claim \in holders.always :
                OfOther(o, claim) /\ ~Waiting(claim[1]) =>
                    /\ (claim[3] \in o.names /\ claim[3] # reading.name /\ claim[3][1] \in {Bare, claim[1]})
                          => claim[3] \in reading.shared
                    /\ claim[3] = Linking!Ref(o.item) /\ claim[3] # reading.name => ~reading.bare

\* A name is shared only as another item held it.
SharedTold ==
    /\ reading.at \in {"idle", "match"} => reading.shared = {}
    /\ reading.at = "probe" =>
        \A o : reading.matches = {o} =>
            \A name \in reading.shared : \E claim \in holders.ever : claim[3] = name /\ OfOther(o, claim)

\* While no file is edited, the matches are the owners of the name.
MatchesTrue ==
    reading.at # "idle" /\ ~spent.edited =>
        /\ \A m \in reading.matches :
              /\ m.item \in Linking!Owners(m.brain, reading.name) /\ m.names = Linking!Names(m.brain, m.item)
              /\ reading.name[1] \in {Bare, m.brain}
        /\ ~reading.problems =>
              \A b \in Linking!Brain : ~(reading.at = "match" /\ Waiting(b)) /\ reading.name[1] \in {Bare, b} =>
                  \A i \in Linking!Owners(b, reading.name) : \E m \in reading.matches : m.brain = b /\ m.item = i

ProbesTrue ==
    reading.at = "probe" =>
        /\ \E o : reading.matches = {o}
        /\ \A o : reading.matches = {o} =>
            /\ reading.bare => o.item \in Record
            /\ ~spent.edited /\ ~reading.problems =>
                  \A b \in Linking!Brain : ~Waiting(b) =>
                      /\ \A name \in o.names \ {reading.name} :
                            MayShare(o, b, name) /\ ElsewhereOf(o, b, name) => name \in reading.shared
                      /\ reading.bare => Linking!Ref(o.item) = reading.name \/ ~ElsewhereOf(o, b, Linking!Ref(o.item))

\* The answer, whatever was edited, and without edits and problems.
NeverMerged ==
    reading.at = "done" =>
        \A o : reading.matches = {o} =>
            /\ spent.failures = 0 =>
                  \A name \in reading.names \ {reading.name}, claim \in holders.always :
                      ~(claim[3] = name /\ OfOther(o, claim) /\ name[1] \in {Bare, claim[1]})
            /\ \A claim \in holders.always :
                  (/\ ~OfOther(o, claim) /\ claim[3] # Linking!Ref(claim[2])
                   /\ \A other \in holders.ever : other[3] = claim[3] => other[1] = claim[1] /\ other[2] = claim[2])
                  => claim[3] \in reading.names
Expanded ==
    reading.at = "done" /\ ~spent.edited /\ ~reading.problems =>
        /\ reading.matches = {} => reading.names = {reading.name}
        /\ reading.matches # {} => \E o : reading.matches = {o}
        /\ \A o : reading.matches = {o} =>
              /\ reading.names = {reading.name} \union o.names
                                 \union IF reading.bare THEN {Linking!Ref(o.item)} ELSE {}
              /\ \A b \in Linking!Brain, name \in o.names \ {reading.name} :
                    MayShare(o, b, name) => ~ElsewhereOf(o, b, name)
              /\ reading.bare =>
                    /\ o.item \in Record
                    /\ Linking!Ref(o.item) = reading.name \/ \A b \in Linking!Brain : ~ElsewhereOf(o, b, Linking!Ref(o.item))

LinkInv ==
    /\ LinkTypes /\ HoldersTrue /\ NamesTold /\ HeardOf /\ SharedTold /\ MatchesTrue /\ ProbesTrue
    /\ NeverMerged /\ Expanded

LEMMA LinkConstants ==
    ASSUME Linking!LinksAssumption
    PROVE  /\ Stores \in Seq(Linking!Brain) /\ Bare \notin Linking!Brain /\ IsFiniteSet(Linking!Item)
           /\ Authored \intersect Record = {} /\ Subject \intersect Linking!Item = {} /\ External \intersect Linking!Item = {}
           /\ Untyped \notin Declared
<1>1. Linking!IsFiniteSet(Linking!Item) = IsFiniteSet(Linking!Item)
  BY Zenon DEF Linking!IsFiniteSet, IsFiniteSet
<1> QED
  BY <1>1 DEF Linking!LinksAssumption

\* The names of an item: its own address, and others of no file.
LEMMA NamesAre ==
    ASSUME Linking!LinksAssumption, texts \in [Linking!Brain -> [Linking!Item -> Content \union {Nothing}]],
           NEW b \in Linking!Brain, NEW i \in Linking!Indexed(b)
    PROVE  /\ i \in Linking!Item /\ Linking!Address(b, i) = <<b, i>> /\ Linking!Ref(i) = <<Bare, i>>
           /\ Linking!Address(b, i) \in Linking!Names(b, i) /\ Linking!Names(b, i) \subseteq Linking!Identity
           /\ \A name \in Linking!Names(b, i) :
                 name[1] = Bare \/ (name[1] = b /\ (name = Linking!Address(b, i) \/ name[2] \in Subject))
<1>1. i \in Linking!Item /\ texts[b][i] # Nothing /\ Linking!Reachable(b, texts[b][i])
  BY DEF Linking!Indexed
<1>2. PICK content \in Content : content = texts[b][i]
  <2>1. texts[b] \in [Linking!Item -> Content \union {Nothing}]
    OBVIOUS
  <2>2. texts[b][i] \in Content \union {Nothing}
    BY <1>1, <2>1
  <2> QED
    BY <1>1, <2>2
<1>3. content.entity \in Linking!Identity \union {Linking!NoName} /\ content.aliases \subseteq Linking!Identity
  BY DEF Linking!LinksAssumption
<1>4. Linking!Stated(content) \subseteq Linking!Identity
  BY <1>3 DEF Linking!Stated
<1>5. <<b, i>> \in Linking!Identity
  BY <1>1, LinkConstants DEF Linking!Identity, Linking!Name
<1>6. \A name \in Linking!Stated(content) : name[1] # Bare => name[1] = b /\ name[2] \in Subject
  BY <1>1, <1>2 DEF Linking!Reachable
<1>7. Linking!Names(b, i) = {<<b, i>>} \union Linking!Stated(content)
  BY <1>2 DEF Linking!Names, Linking!Address
<1> QED
  BY <1>1, <1>4, <1>5, <1>6, <1>7 DEF Linking!Address, Linking!Ref

LEMMA HoldingIs ==
    \A claim : claim \in Linking!Holding <=>
        \E b \in Linking!Brain : \E i \in Linking!Indexed(b) : \E name \in Linking!Names(b, i) \union {Linking!Ref(i)} : claim = <<b, i, name>>
<1> DEFINE Of(b, i) == {<<b, i, name>> : name \in Linking!Names(b, i) \union {Linking!Ref(i)}}
           In(b) == UNION {Of(b, i) : i \in Linking!Indexed(b)}
<1>1. Linking!Holding = UNION {In(b) : b \in Linking!Brain}
  BY Zenon DEF Linking!Holding
<1>2. \A b, i, claim : claim \in Of(b, i) <=> \E name \in Linking!Names(b, i) \union {Linking!Ref(i)} : claim = <<b, i, name>>
  OBVIOUS
<1>3. \A b, claim : claim \in In(b) <=> \E i \in Linking!Indexed(b) : claim \in Of(b, i)
  <2> HIDE DEF Of
  <2> QED
    OBVIOUS
<1>4. \A claim : claim \in Linking!Holding <=> \E b \in Linking!Brain : claim \in In(b)
  <2> HIDE DEF In
  <2> QED
    BY <1>1
<1> HIDE DEF Of, In
<1>5. \A claim : claim \in Linking!Holding <=> \E b \in Linking!Brain : \E i \in Linking!Indexed(b) : claim \in Of(b, i)
  BY <1>3, <1>4
<1> QED
  BY <1>2, <1>5

\* Whoever holds a name in a brain owns it there.
LEMMA HoldersOwn ==
    \A claim \in Linking!Holding :
        /\ claim[1] \in Linking!Brain /\ claim[2] \in Linking!Indexed(claim[1])
        /\ claim[3] \in Linking!Names(claim[1], claim[2]) \union {Linking!Ref(claim[2])}
        /\ claim[2] \in Linking!Owners(claim[1], claim[3])
<1> SUFFICES ASSUME NEW claim \in Linking!Holding
             PROVE  /\ claim[1] \in Linking!Brain /\ claim[2] \in Linking!Indexed(claim[1])
                    /\ claim[3] \in Linking!Names(claim[1], claim[2]) \union {Linking!Ref(claim[2])}
                    /\ claim[2] \in Linking!Owners(claim[1], claim[3])
  OBVIOUS
<1>1. PICK b \in Linking!Brain : \E i \in Linking!Indexed(b) : \E name \in Linking!Names(b, i) \union {Linking!Ref(i)} : claim = <<b, i, name>>
  BY Zenon, HoldingIs
<1>2. PICK i \in Linking!Indexed(b) : \E name \in Linking!Names(b, i) \union {Linking!Ref(i)} : claim = <<b, i, name>>
  BY Zenon, <1>1
<1>3. PICK name \in Linking!Names(b, i) \union {Linking!Ref(i)} : claim = <<b, i, name>>
  BY Zenon, <1>2
<1>4. claim[1] = b /\ claim[2] = i /\ claim[3] = name
  BY <1>3
<1>5. i \in Linking!Owners(b, name)
  BY DEF Linking!Owners
<1> QED
  BY <1>4, <1>5

LEMMA OwnersHold ==
    ASSUME NEW b \in Linking!Brain, NEW name, NEW i \in Linking!Owners(b, name)
    PROVE  <<b, i, name>> \in Linking!Holding /\ i \in Linking!Indexed(b)
<1>1. i \in Linking!Indexed(b) /\ name \in Linking!Names(b, i) \union {Linking!Ref(i)}
  BY DEF Linking!Owners
<1> QED
  BY Zenon, <1>1, HoldingIs

\* What files say stays as they do.
LEMMA SameFiles ==
    ASSUME texts' = texts
    PROVE  /\ Linking!Holding' = Linking!Holding
           /\ \A b : Linking!Indexed(b)' = Linking!Indexed(b)
           /\ \A b, i : Linking!Names(b, i)' = Linking!Names(b, i)
           /\ \A b, name : Linking!Owners(b, name)' = Linking!Owners(b, name)
BY DEF Linking!Holding, Linking!Indexed, Linking!Reachable, Linking!Names, Linking!Stated, Linking!Owners, Linking!Address, Linking!Ref

LEMMA TailWaits ==
    ASSUME NEW S, NEW s \in Seq(S), s # <<>>
    PROVE  /\ Head(s) \in S /\ Tail(s) \in Seq(S)
           /\ \A b : b # Head(s) /\ (\E k \in 1..Len(s) : s[k] = b) =>
                 \E k \in 1..Len(Tail(s)) : Tail(s)[k] = b
<1>1. Head(s) \in S /\ Tail(s) \in Seq(S) /\ Len(s) \in Nat /\ Len(s) # 0 /\ Len(Tail(s)) = Len(s) - 1 /\ Head(s) = s[1]
  OBVIOUS
<1>2. ASSUME NEW b, b # Head(s), NEW k \in 1..Len(s), s[k] = b PROVE \E j \in 1..Len(Tail(s)) : Tail(s)[j] = b
  <2>1. k # 1 /\ k - 1 \in 1..Len(Tail(s))
    BY <1>1, <1>2
  <2>2. Tail(s)[k - 1] = s[k]
    BY <1>1, <2>1
  <2> QED
    BY <1>2, <2>1, <2>2
<1> QED
  BY <1>1, <1>2

\* One owner is the owner.
LEMMA OneOwnerOnly ==
    ASSUME LinkTypes
    PROVE  /\ Linking!Cardinality(reading.matches) = 1 <=> \E o : reading.matches = {o}
           /\ \A o : reading.matches = {o} => Linking!Owner = o /\ o \in Found
<1>1. Linking!Cardinality(reading.matches) = Cardinality(reading.matches)
  BY Zenon DEF Linking!Cardinality, Cardinality
<1>2. IsFiniteSet(reading.matches)
  BY DEF LinkTypes
<1>3. Cardinality(reading.matches) = 1 <=> \E o : reading.matches = {o}
  BY <1>2, FS_Singleton, FS_CardinalityType
<1>4. ASSUME NEW o, reading.matches = {o} PROVE Linking!Owner = o /\ o \in Found
  BY <1>4 DEF Linking!Owner, LinkTypes
<1> QED
  BY <1>1, <1>3, <1>4

-----------------------------------------------------------------------------
(* The steps of an expansion.                                              *)

LEMMA LinkInit == ASSUME Linking!LinksAssumption, Linking!Init PROVE LinkInv
<1>1. /\ texts \in [Linking!Brain -> [Linking!Item -> Content \union {Nothing}]]
      /\ reading = [at |-> "idle", name |-> Linking!NoName, todo |-> <<>>, failed |-> {}, matches |-> {},
                    shared |-> {}, bare |-> FALSE, problems |-> FALSE, names |-> {}]
      /\ spent = [edits |-> 0, failures |-> 0, edited |-> FALSE]
  BY DEF Linking!Init, Linking!Idle, Linking!LinksAssumption
<1>2. LinkTypes
  BY <1>1, FS_EmptySet DEF LinkTypes
<1>3. reading.at = "idle" /\ reading.shared = {}
  BY <1>1
<1> QED
  BY <1>2, <1>3 DEF LinkInv, HoldersTrue, NamesTold, HeardOf, SharedTold, MatchesTrue, ProbesTrue, NeverMerged, Expanded

LEMMA LinkAsk == ASSUME Linking!LinksAssumption, LinkInv, NEW name \in Linking!Identity, Linking!Ask(name) PROVE LinkInv'
<1>1. /\ reading' = [Linking!Idle EXCEPT !.at = "match", !.name = name, !.todo = Stores]
      /\ holders' = [always |-> Linking!Holding, ever |-> Linking!Holding]
      /\ spent' = [spent EXCEPT !.edited = FALSE]
      /\ texts' = texts /\ LinkTypes
  BY DEF Linking!Ask, LinkInv
<1>2. Linking!Idle = [at |-> "idle", name |-> Linking!NoName, todo |-> <<>>, failed |-> {}, matches |-> {},
              shared |-> {}, bare |-> FALSE, problems |-> FALSE, names |-> {}]
  BY DEF Linking!Idle
<1>3. reading' = [at |-> "match", name |-> name, todo |-> Stores, failed |-> {}, matches |-> {},
                  shared |-> {}, bare |-> FALSE, problems |-> FALSE, names |-> {}]
  BY <1>1, <1>2
<1>4. LinkTypes'
  <2>1. spent' \in [edits : Nat, failures : Nat, edited : BOOLEAN]
    BY <1>1 DEF LinkTypes
  <2>2. texts' \in [Linking!Brain -> [Linking!Item -> Content \union {Nothing}]]
    BY <1>1 DEF LinkTypes
  <2> QED
    BY <1>3, <2>1, <2>2, LinkConstants, FS_EmptySet DEF LinkTypes
<1>5. HoldersTrue'
  BY <1>1, SameFiles DEF HoldersTrue
<1>6. NamesTold' /\ MatchesTrue'
  <2>1. \A b \in Linking!Brain : Waiting(b)'
    BY <1>3 DEF Waiting, Linking!Brain
  <2> QED
    BY <1>3, <2>1 DEF NamesTold, MatchesTrue
<1>7. HeardOf' /\ SharedTold' /\ ProbesTrue' /\ NeverMerged' /\ Expanded'
  BY <1>3 DEF HeardOf, SharedTold, ProbesTrue, NeverMerged, Expanded
<1> QED
  BY <1>4, <1>5, <1>6, <1>7 DEF LinkInv

\* A step that changes only what a read knows.
LEMMA ReadingMoves ==
    ASSUME HoldersTrue, texts' = texts, holders' = holders, reading.at # "idle"
    PROVE  HoldersTrue'
BY SameFiles DEF HoldersTrue

LEMMA LinkMatch == ASSUME Linking!LinksAssumption, LinkInv, Linking!Match PROVE LinkInv'
<1> DEFINE b == Head(reading.todo)
           found == IF reading.name[1] \in {Bare, b} THEN Linking!Owners(b, reading.name) ELSE {}
           new == {[brain |-> b, item |-> i, names |-> Linking!Names(b, i)] : i \in found}
<1>1. /\ reading.at = "match" /\ reading.todo # <<>> /\ LinkTypes
      /\ reading' = [reading EXCEPT !.todo = Tail(reading.todo), !.matches = reading.matches \union new]
      /\ texts' = texts /\ holders' = holders /\ spent' = spent
  BY DEF Linking!Match, LinkInv
<1>2. /\ b \in Linking!Brain /\ Tail(reading.todo) \in Seq(Linking!Brain)
      /\ \A c : c # b /\ (\E k \in 1..Len(reading.todo) : reading.todo[k] = c) =>
            \E k \in 1..Len(Tail(reading.todo)) : Tail(reading.todo)[k] = c
  <2>1. reading.todo \in Seq(Linking!Brain)
    BY <1>1 DEF LinkTypes
  <2> QED
    BY <1>1, <2>1, TailWaits
<1>3. \A i \in found : i \in Linking!Indexed(b) /\ i \in Linking!Item /\ i \in Linking!Owners(b, reading.name)
                       /\ reading.name[1] \in {Bare, b}
  BY DEF Linking!Owners, Linking!Indexed
<1>4. new \subseteq Found /\ IsFiniteSet(new)
  <2>1. texts \in [Linking!Brain -> [Linking!Item -> Content \union {Nothing}]]
    BY <1>1 DEF LinkTypes
  <2>2. \A i \in found : Linking!Names(b, i) \subseteq Linking!Identity
    BY <1>2, <1>3, <2>1, NamesAre
  <2>3. found \subseteq Linking!Item /\ IsFiniteSet(found)
    BY <1>3, LinkConstants, FS_Subset
  <2>4. new \subseteq Found
    BY <1>2, <2>2, <2>3 DEF Found
  <2> HIDE DEF found, b
  <2>5. PICK f : f = [i \in found |-> [brain |-> b, item |-> i, names |-> Linking!Names(b, i)]]
    OBVIOUS
  <2>6. f \in Surjection(found, new)
    BY <2>5 DEF Surjection
  <2> QED
    BY <2>3, <2>4, <2>6, FS_Surjection
<1> HIDE DEF new
<1>5. /\ reading'.at = "match" /\ reading'.name = reading.name /\ reading'.todo = Tail(reading.todo)
      /\ reading'.matches = reading.matches \union new /\ reading'.problems = reading.problems
      /\ reading'.failed = reading.failed /\ reading'.shared = reading.shared
  BY <1>1 DEF LinkTypes
<1>6. LinkTypes'
  <2>1. reading' \in [at : {"idle", "match", "probe", "done"}, name : {reading'.name}, todo : Seq(Linking!Brain),
                      failed : SUBSET Linking!Brain, matches : SUBSET Found, shared : SUBSET Linking!Identity,
                      bare : BOOLEAN, problems : BOOLEAN, names : {reading'.names}]
    BY <1>1, <1>2, <1>4 DEF LinkTypes
  <2>2. IsFiniteSet(reading'.matches)
    BY <1>1, <1>4, <1>5, FS_Union DEF LinkTypes
  <2> QED
    BY <1>1, <1>5, <2>1, <2>2 DEF LinkTypes
<1>7. HoldersTrue'
  BY <1>1, ReadingMoves DEF LinkInv
<1>8. NamesTold'
  <2>1. ASSUME NEW m \in reading'.matches, NEW claim \in holders.always,
               claim[1] = m.brain, claim[2] = m.item, claim[3] # Linking!Ref(claim[2])
        PROVE  claim[3] \in m.names
    <3>1. CASE m \in reading.matches
      BY <1>1, <2>1, <3>1 DEF LinkInv, NamesTold
    <3>2. CASE m \in new
      <4>1. PICK i \in found : m = [brain |-> b, item |-> i, names |-> Linking!Names(b, i)]
        BY <3>2 DEF new
      <4>2. m.brain = b /\ m.item = i /\ m.names = Linking!Names(b, i)
        BY <4>1
      <4>3. claim \in Linking!Holding
        BY <1>1 DEF LinkInv, HoldersTrue
      <4>4. claim[3] \in Linking!Names(claim[1], claim[2]) \union {Linking!Ref(claim[2])}
        BY <4>3, HoldersOwn
      <4> QED
        BY <2>1, <4>2, <4>4
    <3> QED
      BY <1>5, <2>1, <3>1, <3>2
  <2> QED
    BY <1>1, <2>1 DEF NamesTold, Linking!Ref
<1>9. MatchesTrue'
  <2> SUFFICES ASSUME ~spent.edited
               PROVE  /\ \A m \in reading'.matches :
                            /\ m.item \in Linking!Owners(m.brain, reading.name) /\ m.names = Linking!Names(m.brain, m.item)
                            /\ reading.name[1] \in {Bare, m.brain}
                      /\ ~reading.problems =>
                            \A c \in Linking!Brain : ~Waiting(c)' /\ reading.name[1] \in {Bare, c} =>
                                \A i \in Linking!Owners(c, reading.name) :
                                    \E m \in reading'.matches : m.brain = c /\ m.item = i
    BY <1>1, <1>5, SameFiles DEF MatchesTrue
  <2>1. ASSUME NEW m \in new
        PROVE  /\ m.item \in Linking!Owners(m.brain, reading.name) /\ m.names = Linking!Names(m.brain, m.item)
               /\ reading.name[1] \in {Bare, m.brain}
    <3>1. PICK i \in found : m = [brain |-> b, item |-> i, names |-> Linking!Names(b, i)]
      BY DEF new
    <3>2. m.brain = b /\ m.item = i /\ m.names = Linking!Names(b, i)
      BY <3>1
    <3> QED
      BY <1>3, <3>1, <3>2
  <2>2. ASSUME NEW m \in reading.matches
        PROVE  /\ m.item \in Linking!Owners(m.brain, reading.name) /\ m.names = Linking!Names(m.brain, m.item)
               /\ reading.name[1] \in {Bare, m.brain}
    BY <1>1 DEF LinkInv, MatchesTrue
  <2>3. ASSUME ~reading.problems, NEW c \in Linking!Brain, ~Waiting(c)', reading.name[1] \in {Bare, c},
               NEW i \in Linking!Owners(c, reading.name)
        PROVE  \E m \in reading'.matches : m.brain = c /\ m.item = i
    <3>1. CASE c = b
      <4>1. i \in found
        BY <2>3, <3>1
      <4>2. PICK m : m = [brain |-> b, item |-> i, names |-> Linking!Names(b, i)]
        OBVIOUS
      <4>3. m \in new /\ m.brain = c /\ m.item = i
        BY <3>1, <4>1, <4>2 DEF new
      <4> QED
        BY <1>5, <4>3
    <3>2. CASE c # b
      <4>1. ~Waiting(c)
        BY <1>2, <1>5, <2>3, <3>2 DEF Waiting
      <4>2. \E m \in reading.matches : m.brain = c /\ m.item = i
        BY <1>1, <2>3, <4>1 DEF LinkInv, MatchesTrue
      <4> QED
        BY <1>5, <4>2
    <3> QED
      BY <3>1, <3>2
  <2> QED
    BY <1>5, <2>1, <2>2, <2>3
<1>10. HeardOf' /\ SharedTold' /\ ProbesTrue' /\ NeverMerged' /\ Expanded'
  BY <1>1, <1>5 DEF LinkInv, HeardOf, SharedTold, ProbesTrue, NeverMerged, Expanded
<1> QED
  BY <1>6, <1>7, <1>8, <1>9, <1>10 DEF LinkInv

LEMMA LinkMatched == ASSUME Linking!LinksAssumption, LinkInv, Linking!Matched PROVE LinkInv'
<1>1. /\ reading.at = "match" /\ reading.todo = <<>> /\ LinkTypes
      /\ texts' = texts /\ holders' = holders /\ spent' = spent
  BY DEF Linking!Matched, LinkInv
<1>2. HoldersTrue'
  BY <1>1, ReadingMoves DEF LinkInv
<1>3. \A b : ~Waiting(b)
  BY <1>1 DEF Waiting
<1>4. CASE \E o : reading.matches = {o}
  <2>1. PICK bare \in BOOLEAN : bare = \A match \in reading.matches : match.item \in Record
    OBVIOUS
  <2>2. reading' = [reading EXCEPT !.at = "probe", !.todo = Stores, !.bare = bare]
    BY Zenon, <1>1, <1>4, <2>1, OneOwnerOnly DEF Linking!Matched
  <2>3. /\ reading'.at = "probe" /\ reading'.name = reading.name /\ reading'.todo = Stores
        /\ reading'.matches = reading.matches /\ reading'.problems = reading.problems
        /\ reading'.failed = reading.failed /\ reading'.shared = reading.shared /\ reading'.bare = bare
    BY <1>1, <2>2 DEF LinkTypes
  <2>4. LinkTypes'
    <3>1. reading' \in [at : {"idle", "match", "probe", "done"}, name : {reading'.name}, todo : Seq(Linking!Brain),
                        failed : SUBSET Linking!Brain, matches : SUBSET Found, shared : SUBSET Linking!Identity,
                        bare : BOOLEAN, problems : BOOLEAN, names : {reading'.names}]
      BY <1>1, <2>2, LinkConstants DEF LinkTypes
    <3> QED
      BY <1>1, <2>3, <3>1 DEF LinkTypes
  <2>5. \A b \in Linking!Brain : Waiting(b)'
    BY <2>3 DEF Waiting, Linking!Brain
  <2>6. \A claim \in holders.always : claim[1] \in Linking!Brain
    BY <1>1, HoldersOwn DEF LinkInv, HoldersTrue
  <2>7. NamesTold'
    BY <1>1, <2>3 DEF LinkInv, NamesTold, Linking!Ref
  <2>8. HeardOf'
    BY <1>1, <2>5, <2>6 DEF HeardOf
  <2>9. SharedTold'
    BY <1>1, <2>3 DEF LinkInv, SharedTold
  <2>10. MatchesTrue'
    BY <1>1, <1>3, <2>3, SameFiles DEF LinkInv, MatchesTrue
  <2>11. ProbesTrue'
    BY <1>4, <2>1, <2>3, <2>5 DEF ProbesTrue
  <2>12. NeverMerged' /\ Expanded'
    BY <2>3 DEF NeverMerged, Expanded
  <2> QED
    BY <1>2, <2>4, <2>7, <2>8, <2>9, <2>10, <2>11, <2>12 DEF LinkInv
<1>5. CASE ~ \E o : reading.matches = {o}
  <2>1. PICK problems \in BOOLEAN : problems = (reading.problems \/ reading.matches # {})
    OBVIOUS
  <2>2. reading' = [reading EXCEPT !.at = "done", !.names = {reading.name}, !.problems = problems]
    BY Zenon, <1>1, <1>5, <2>1, OneOwnerOnly DEF Linking!Matched
  <2>3. /\ reading'.at = "done" /\ reading'.name = reading.name /\ reading'.names = {reading.name}
        /\ reading'.matches = reading.matches /\ reading'.problems = problems
        /\ reading'.failed = reading.failed
    BY <1>1, <2>2 DEF LinkTypes
  <2>4. LinkTypes'
    <3>1. reading' \in [at : {"idle", "match", "probe", "done"}, name : {reading'.name}, todo : Seq(Linking!Brain),
                        failed : SUBSET Linking!Brain, matches : SUBSET Found, shared : SUBSET Linking!Identity,
                        bare : BOOLEAN, problems : BOOLEAN, names : {reading'.names}]
      BY <1>1, <2>2 DEF LinkTypes
    <3> QED
      BY <1>1, <2>1, <2>3, <3>1 DEF LinkTypes
  <2>5. NamesTold'
    BY <1>1, <2>3 DEF LinkInv, NamesTold, Linking!Ref
  <2>6. HeardOf' /\ SharedTold' /\ ProbesTrue'
    BY <2>3 DEF HeardOf, SharedTold, ProbesTrue
  <2>7. MatchesTrue'
    <3>1. ~problems => ~reading.problems
      BY <2>1
    <3> QED
      BY <1>1, <1>3, <2>3, <3>1, SameFiles DEF LinkInv, MatchesTrue
  <2>8. NeverMerged' /\ Expanded'
    BY <1>5, <2>1, <2>3 DEF NeverMerged, Expanded
  <2> QED
    BY <1>2, <2>4, <2>5, <2>6, <2>7, <2>8 DEF LinkInv
<1> QED
  BY <1>4, <1>5

LEMMA LinkProbe == ASSUME Linking!LinksAssumption, LinkInv, Linking!Probe PROVE LinkInv'
<1> DEFINE b == Head(reading.todo)
<1>1. /\ reading.at = "probe" /\ reading.todo # <<>> /\ LinkTypes
      /\ texts' = texts /\ holders' = holders /\ spent' = spent
  BY DEF Linking!Probe, LinkInv
<1>2. /\ b \in Linking!Brain /\ Tail(reading.todo) \in Seq(Linking!Brain)
      /\ \A c : c # b /\ (\E k \in 1..Len(reading.todo) : reading.todo[k] = c) =>
            \E k \in 1..Len(Tail(reading.todo)) : Tail(reading.todo)[k] = c
  <2>1. reading.todo \in Seq(Linking!Brain)
    BY <1>1 DEF LinkTypes
  <2> QED
    BY <1>1, <2>1, TailWaits
<1>3. PICK o : reading.matches = {o} /\ o \in Found /\ Linking!Owner = o
  BY <1>1, OneOwnerOnly DEF LinkInv, ProbesTrue
<1>4. HoldersTrue'
  BY <1>1, ReadingMoves DEF LinkInv
<1>5. CASE b \in reading.failed
  <2>1. reading' = [reading EXCEPT !.todo = Tail(reading.todo), !.bare = FALSE]
    BY <1>5 DEF Linking!Probe
  <2>2. /\ reading'.at = "probe" /\ reading'.name = reading.name /\ reading'.todo = Tail(reading.todo)
        /\ reading'.matches = reading.matches /\ reading'.problems = reading.problems
        /\ reading'.failed = reading.failed /\ reading'.shared = reading.shared /\ ~reading'.bare
    BY <1>1, <2>1 DEF LinkTypes
  <2>3. spent.failures # 0 /\ reading.problems
    BY <1>1, <1>5 DEF LinkTypes
  <2>4. LinkTypes'
    <3>1. reading' \in [at : {"idle", "match", "probe", "done"}, name : {reading'.name}, todo : Seq(Linking!Brain),
                        failed : SUBSET Linking!Brain, matches : SUBSET Found, shared : SUBSET Linking!Identity,
                        bare : BOOLEAN, problems : BOOLEAN, names : {reading'.names}]
      BY <1>1, <1>2, <2>1 DEF LinkTypes
    <3> QED
      BY <1>1, <2>2, <3>1 DEF LinkTypes
  <2>5. NamesTold' /\ SharedTold'
    BY <1>1, <2>2 DEF LinkInv, NamesTold, SharedTold, OfOther, Linking!Ref
  <2>6. HeardOf' /\ ProbesTrue' /\ NeverMerged' /\ Expanded'
    BY <1>1, <1>3, <2>2, <2>3 DEF HeardOf, ProbesTrue, NeverMerged, Expanded
  <2>7. MatchesTrue'
    BY <1>1, <2>2, <2>3, SameFiles DEF LinkInv, MatchesTrue
  <2> QED
    BY <1>4, <2>4, <2>5, <2>6, <2>7 DEF LinkInv
<1>6. CASE b \notin reading.failed
  <2>1. PICK heard, bare :
          /\ heard = {name \in Linking!Candidates(b) : Linking!Elsewhere(b, name)}
          /\ bare = (reading.bare /\ (Linking!Ref(Linking!Owner.item) = reading.name \/ ~Linking!Elsewhere(b, Linking!Ref(Linking!Owner.item))))
          /\ reading' = [reading EXCEPT !.todo = Tail(reading.todo), !.shared = reading.shared \union heard, !.bare = bare]
    BY <1>6 DEF Linking!Probe
  <2>2. bare \in BOOLEAN /\ (bare <=> reading.bare /\ (Linking!Ref(o.item) = reading.name \/ ~ElsewhereOf(o, b, Linking!Ref(o.item))))
    BY Zenon, <1>3, <2>1 DEF Linking!Elsewhere, ElsewhereOf
  <2>3. \A name : name \in heard <=>
          name \in o.names /\ name # reading.name /\ MayShare(o, b, name) /\ ElsewhereOf(o, b, name)
    BY <1>3, <2>1 DEF Linking!Candidates, Linking!Elsewhere, ElsewhereOf, MayShare
  <2>4. o.brain \in Linking!Brain /\ o.item \in Linking!Item /\ o.names \subseteq Linking!Identity /\ heard \subseteq Linking!Identity
    BY <1>3, <2>3 DEF Found
  <2>5. /\ reading'.at = "probe" /\ reading'.name = reading.name /\ reading'.todo = Tail(reading.todo)
        /\ reading'.matches = reading.matches /\ reading'.problems = reading.problems
        /\ reading'.failed = reading.failed /\ reading'.shared = reading.shared \union heard
        /\ reading'.bare = bare
    BY <1>1, <2>1 DEF LinkTypes
  <2>6. LinkTypes'
    <3>1. reading' \in [at : {"idle", "match", "probe", "done"}, name : {reading'.name}, todo : Seq(Linking!Brain),
                        failed : SUBSET Linking!Brain, matches : SUBSET Found, shared : SUBSET Linking!Identity,
                        bare : BOOLEAN, problems : BOOLEAN, names : {reading'.names}]
      BY <1>1, <1>2, <2>1, <2>2, <2>4 DEF LinkTypes
    <3> QED
      BY <1>1, <2>5, <3>1 DEF LinkTypes
  <2>7. NamesTold'
    BY <1>1, <2>5 DEF LinkInv, NamesTold, Linking!Ref
  <2>8. \A c : c # b /\ ~Waiting(c)' => ~Waiting(c)
    BY <1>2, <2>5 DEF Waiting
  <2>9. HeardOf'
    <3> SUFFICES ASSUME spent.failures = 0, NEW claim \in holders.always, OfOther(o, claim), ~Waiting(claim[1])'
                 PROVE  /\ (claim[3] \in o.names /\ claim[3] # reading.name /\ claim[3][1] \in {Bare, claim[1]})
                              => claim[3] \in reading.shared \union heard
                        /\ claim[3] = Linking!Ref(o.item) /\ claim[3] # reading.name => ~bare
      BY <1>1, <1>3, <2>5 DEF HeardOf, OfOther, Linking!Ref
    <3>1. CASE claim[1] # b
      <4>1. ~Waiting(claim[1])
        BY <2>8, <3>1
      <4> QED
        BY <1>1, <1>3, <2>2, <4>1 DEF LinkInv, HeardOf
    <3>2. CASE claim[1] = b
      <4>1. claim \in Linking!Holding
        BY <1>1 DEF LinkInv, HoldersTrue
      <4>2. claim[2] \in Linking!Owners(b, claim[3])
        BY <3>2, <4>1, HoldersOwn
      <4>3. ElsewhereOf(o, b, claim[3])
        BY <3>2, <4>2 DEF ElsewhereOf, OfOther
      <4>4. claim[3][1] \in {Bare, b} => MayShare(o, b, claim[3])
        BY <2>4, LinkConstants DEF MayShare
      <4> QED
        BY <2>2, <2>3, <3>2, <4>3, <4>4
    <3> QED
      BY <3>1, <3>2
  <2>10. SharedTold'
    <3>1. ASSUME NEW name \in heard PROVE \E claim \in holders.ever : claim[3] = name /\ OfOther(o, claim)
      <4>1. PICK item \in Linking!Owners(b, name) : b # o.brain \/ item # o.item
        BY <2>3 DEF ElsewhereOf
      <4>2. <<b, item, name>> \in holders.ever
        BY <1>1, <1>2, OwnersHold DEF LinkInv, HoldersTrue
      <4> QED
        BY <4>1, <4>2 DEF OfOther
    <3>2. ASSUME NEW name \in reading.shared PROVE \E claim \in holders.ever : claim[3] = name /\ OfOther(o, claim)
      BY <1>1, <1>3 DEF LinkInv, SharedTold
    <3> QED
      BY <1>1, <1>3, <2>5, <3>1, <3>2 DEF SharedTold, OfOther
  <2>11. MatchesTrue'
    BY <1>1, <2>5, SameFiles DEF LinkInv, MatchesTrue
  <2>12. ProbesTrue'
    <3>1. bare => o.item \in Record
      BY <1>1, <1>3, <2>2 DEF LinkInv, ProbesTrue
    <3>2. ASSUME ~spent.edited, ~reading.problems, NEW c \in Linking!Brain, ~Waiting(c)'
          PROVE  /\ \A name \in o.names \ {reading.name} :
                       MayShare(o, c, name) /\ ElsewhereOf(o, c, name) => name \in reading.shared \union heard
                 /\ bare => Linking!Ref(o.item) = reading.name \/ ~ElsewhereOf(o, c, Linking!Ref(o.item))
      <4>1. CASE c = b
        BY <2>2, <2>3, <4>1
      <4>2. CASE c # b
        <5>1. ~Waiting(c)
          BY <2>8, <3>2, <4>2
        <5> QED
          BY <1>1, <1>3, <2>2, <3>2, <5>1 DEF LinkInv, ProbesTrue
      <4> QED
        BY <4>1, <4>2
    <3>3. \A c, name : (ElsewhereOf(o, c, name)' <=> ElsewhereOf(o, c, name)) /\ (MayShare(o, c, name)' <=> MayShare(o, c, name))
      BY <1>1, SameFiles DEF ElsewhereOf, MayShare
    <3>4. ASSUME NEW q, reading'.matches = {q} PROVE q = o
      BY <1>3, <2>5, <3>4
    <3> QED
      BY <1>1, <1>3, <2>5, <3>1, <3>2, <3>3, <3>4 DEF ProbesTrue, Linking!Ref
  <2>13. NeverMerged' /\ Expanded'
    BY <2>5 DEF NeverMerged, Expanded
  <2> QED
    BY <1>4, <2>6, <2>7, <2>9, <2>10, <2>11, <2>12, <2>13 DEF LinkInv
<1> QED
  BY <1>5, <1>6

LEMMA LinkExpand == ASSUME Linking!LinksAssumption, LinkInv, Linking!Expand PROVE LinkInv'
<1>1. /\ reading.at = "probe" /\ reading.todo = <<>> /\ LinkTypes
      /\ texts' = texts /\ holders' = holders /\ spent' = spent
  BY DEF Linking!Expand, LinkInv
<1>2. PICK o : reading.matches = {o} /\ o \in Found /\ Linking!Owner = o
  BY <1>1, OneOwnerOnly DEF LinkInv, ProbesTrue
<1>3. \A b : ~Waiting(b)
  BY <1>1 DEF Waiting
<1>4. PICK names, problems :
        /\ names = {reading.name} \union (o.names \ reading.shared) \union IF reading.bare THEN {Linking!Ref(o.item)} ELSE {}
        /\ problems = (reading.problems \/ reading.shared # {})
        /\ reading' = [reading EXCEPT !.at = "done", !.problems = problems, !.names = names]
  BY <1>2 DEF Linking!Expand
<1>5. problems \in BOOLEAN /\ (problems <=> reading.problems \/ reading.shared # {})
  BY Zenon, <1>4
<1>6. /\ reading'.at = "done" /\ reading'.name = reading.name /\ reading'.names = names
      /\ reading'.matches = reading.matches /\ reading'.problems = problems
      /\ reading'.failed = reading.failed /\ reading'.bare = reading.bare
  BY <1>1, <1>4 DEF LinkTypes
<1>7. LinkTypes'
  <2>1. reading' \in [at : {"idle", "match", "probe", "done"}, name : {reading'.name}, todo : Seq(Linking!Brain),
                      failed : SUBSET Linking!Brain, matches : SUBSET Found, shared : SUBSET Linking!Identity,
                      bare : BOOLEAN, problems : BOOLEAN, names : {reading'.names}]
    BY <1>1, <1>4, <1>5 DEF LinkTypes
  <2>2. ~problems => ~reading.problems
    BY <1>5
  <2> QED
    BY <1>1, <1>6, <2>1, <2>2 DEF LinkTypes
<1>8. HoldersTrue' /\ NamesTold'
  BY <1>1, <1>6, ReadingMoves DEF LinkInv, NamesTold, Linking!Ref
<1>9. HeardOf' /\ SharedTold' /\ ProbesTrue'
  BY <1>6 DEF HeardOf, SharedTold, ProbesTrue
<1>10. MatchesTrue'
  <2>1. ~problems => ~reading.problems
    BY <1>5
  <2> QED
    BY <1>1, <1>6, <2>1, SameFiles DEF LinkInv, MatchesTrue
<1>11. NeverMerged'
  <2>1. ASSUME spent.failures = 0, NEW name \in names \ {reading.name}, NEW claim \in holders.always,
               claim[3] = name, OfOther(o, claim), name[1] \in {Bare, claim[1]}
        PROVE  FALSE
    <3>1. /\ name \in o.names => name \in reading.shared
          /\ name = Linking!Ref(o.item) => ~reading.bare
      BY <1>1, <1>2, <1>3, <2>1 DEF LinkInv, HeardOf
    <3> QED
      BY <1>4, <2>1, <3>1
  <2>2. ASSUME NEW claim \in holders.always, ~OfOther(o, claim), claim[3] # Linking!Ref(claim[2]),
               \A other \in holders.ever : other[3] = claim[3] => other[1] = claim[1] /\ other[2] = claim[2]
        PROVE  claim[3] \in names
    <3>1. claim[3] \in o.names
      BY <1>1, <1>2, <2>2 DEF LinkInv, NamesTold, OfOther
    <3>2. ASSUME claim[3] \in reading.shared PROVE FALSE
      <4>1. PICK other \in holders.ever : other[3] = claim[3] /\ OfOther(o, other)
        BY <1>1, <1>2, <3>2 DEF LinkInv, SharedTold
      <4> QED
        BY <2>2, <4>1 DEF OfOther
    <3> QED
      BY <1>4, <3>1, <3>2
  <2>3. ASSUME NEW q, reading'.matches = {q} PROVE q = o
    BY <1>2, <1>6, <2>3
  <2> QED
    BY <1>1, <1>6, <2>1, <2>2, <2>3 DEF NeverMerged, OfOther, Linking!Ref
<1>12. Expanded'
  <2> SUFFICES ASSUME ~spent.edited, ~problems
               PROVE  /\ names = {reading.name} \union o.names \union IF reading.bare THEN {Linking!Ref(o.item)} ELSE {}
                      /\ \A b \in Linking!Brain, name \in o.names \ {reading.name} :
                            MayShare(o, b, name) => ~ElsewhereOf(o, b, name)
                      /\ reading.bare =>
                            /\ o.item \in Record
                            /\ Linking!Ref(o.item) = reading.name \/ \A b \in Linking!Brain : ~ElsewhereOf(o, b, Linking!Ref(o.item))
    <3>1. ASSUME NEW q, reading'.matches = {q} PROVE q = o
      BY <1>2, <1>6, <3>1
    <3>2. \A c, name : (ElsewhereOf(o, c, name)' <=> ElsewhereOf(o, c, name)) /\ (MayShare(o, c, name)' <=> MayShare(o, c, name))
      BY <1>1, SameFiles DEF ElsewhereOf, MayShare
    <3> QED
      <4>1. reading'.matches # {} /\ reading'.matches = {o}
        BY <1>2, <1>6
      <4>2. /\ spent'.edited = spent.edited /\ reading'.problems = problems /\ reading'.names = names
            /\ reading'.name = reading.name /\ reading'.bare = reading.bare
        BY <1>1, <1>6
      <4> QED
        BY <3>1, <3>2, <4>1, <4>2 DEF Expanded, Linking!Ref
  <2>1. ~reading.problems /\ reading.shared = {}
    BY <1>5
  <2>2. names = {reading.name} \union o.names \union IF reading.bare THEN {Linking!Ref(o.item)} ELSE {}
    BY <1>4, <2>1
  <2>3. /\ reading.bare => o.item \in Record
        /\ \A b \in Linking!Brain :
              /\ \A name \in o.names \ {reading.name} : MayShare(o, b, name) => ~ElsewhereOf(o, b, name)
              /\ reading.bare => Linking!Ref(o.item) = reading.name \/ ~ElsewhereOf(o, b, Linking!Ref(o.item))
    BY <1>1, <1>2, <1>3, <2>1 DEF LinkInv, ProbesTrue
  <2> QED
    BY <2>2, <2>3
<1> QED
  BY <1>7, <1>8, <1>9, <1>10, <1>11, <1>12 DEF LinkInv

LEMMA LinkFail == ASSUME Linking!LinksAssumption, LinkInv, Linking!Fail PROVE LinkInv'
<1>1. /\ reading.at \in {"match", "probe"} /\ reading.todo # <<>> /\ LinkTypes
      /\ texts' = texts /\ holders' = holders
      /\ spent' = [spent EXCEPT !.failures = spent.failures + 1]
  BY DEF Linking!Fail, LinkInv
<1>2. Head(reading.todo) \in Linking!Brain /\ Tail(reading.todo) \in Seq(Linking!Brain)
  BY <1>1, TailWaits DEF LinkTypes
<1>3. PICK failed \in SUBSET Linking!Brain :
        reading' = [reading EXCEPT !.todo = Tail(reading.todo), !.problems = TRUE, !.failed = failed, !.bare = FALSE]
  <2>1. (IF reading.at = "match" THEN reading.failed \union {Head(reading.todo)} ELSE reading.failed) \in SUBSET Linking!Brain
    BY <1>1, <1>2 DEF LinkTypes
  <2> QED
    BY <2>1 DEF Linking!Fail
<1>4. /\ reading'.at = reading.at /\ reading'.name = reading.name
      /\ reading'.matches = reading.matches /\ reading'.problems
      /\ reading'.shared = reading.shared /\ ~reading'.bare
  BY <1>1, <1>3 DEF LinkTypes
<1>5. spent' \in [edits : Nat, failures : Nat, edited : BOOLEAN] /\ spent'.failures # 0 /\ spent'.edited = spent.edited
  BY <1>1 DEF LinkTypes
<1>6. LinkTypes'
  <2>1. reading' \in [at : {"idle", "match", "probe", "done"}, name : {reading'.name}, todo : Seq(Linking!Brain),
                      failed : SUBSET Linking!Brain, matches : SUBSET Found, shared : SUBSET Linking!Identity,
                      bare : BOOLEAN, problems : BOOLEAN, names : {reading'.names}]
    BY <1>1, <1>2, <1>3 DEF LinkTypes
  <2> QED
    BY <1>1, <1>4, <1>5, <2>1 DEF LinkTypes
<1>7. HoldersTrue' /\ NamesTold' /\ SharedTold'
  BY <1>1, <1>4, ReadingMoves DEF LinkInv, NamesTold, SharedTold, OfOther, Linking!Ref
<1>8. HeardOf' /\ ProbesTrue' /\ NeverMerged' /\ Expanded'
  BY <1>1, <1>4, <1>5 DEF LinkInv, HeardOf, ProbesTrue, NeverMerged, Expanded
<1>9. MatchesTrue'
  BY <1>1, <1>4, <1>5, SameFiles DEF LinkInv, MatchesTrue
<1> QED
  BY <1>6, <1>7, <1>8, <1>9 DEF LinkInv

\* An edit leaves the count of failures alone.
LEMMA EditSpent ==
    ASSUME NEW old \in [edits : Nat, failures : Nat, edited : BOOLEAN],
           NEW new, new = [old EXCEPT !.edits = old.edits + 1, !.edited = TRUE]
    PROVE  new \in [edits : Nat, failures : Nat, edited : BOOLEAN] /\ new.failures = old.failures /\ new.edited
<1>1. /\ new = [f \in DOMAIN old |-> new[f]] /\ DOMAIN new = DOMAIN old
      /\ new.failures = old.failures /\ new.edits = old.edits + 1 /\ new.edited = TRUE
  BY Zenon
<1>2. new.edits \in Nat /\ new.failures \in Nat
  BY <1>1
<1> QED
  BY Zenon, <1>1, <1>2

LEMMA LinkEdit ==
    ASSUME Linking!LinksAssumption, LinkInv, NEW b \in Linking!Brain, NEW item \in Linking!Item,
           NEW content \in Content \union {Nothing}, Linking!Edit(b, item, content)
    PROVE  LinkInv'
<1>0. texts' = [texts EXCEPT ![b][item] = content]
  BY DEF Linking!Edit
<1>1. /\ reading.at # "done" /\ LinkTypes /\ reading' = reading
      /\ holders' = [always |-> holders.always \intersect Linking!Holding', ever |-> holders.ever \union Linking!Holding']
  BY DEF Linking!Edit, LinkInv
<1>2. /\ spent' \in [edits : Nat, failures : Nat, edited : BOOLEAN] /\ spent'.failures = spent.failures /\ spent'.edited
  <2>1. spent' = [spent EXCEPT !.edits = spent.edits + 1, !.edited = TRUE]
    BY DEF Linking!Edit
  <2>2. spent \in [edits : Nat, failures : Nat, edited : BOOLEAN]
    BY <1>1 DEF LinkTypes
  <2> QED
    BY <2>1, <2>2, EditSpent
<1>3. texts' \in [Linking!Brain -> [Linking!Item -> Content \union {Nothing}]]
  <2>1. PICK old \in [Linking!Item -> Content \union {Nothing}] : old = texts[b]
    BY <1>1 DEF LinkTypes
  <2>2. [old EXCEPT ![item] = content] \in [Linking!Item -> Content \union {Nothing}]
    OBVIOUS
  <2>3. texts' = [texts EXCEPT ![b] = [old EXCEPT ![item] = content]]
    BY Zenon, <1>0, <2>1
  <2> QED
    BY <1>1, <2>2, <2>3 DEF LinkTypes
<1>4. LinkTypes'
  BY <1>1, <1>2, <1>3 DEF LinkTypes
<1>5. /\ holders'.always = holders.always \intersect Linking!Holding' /\ holders'.ever = holders.ever \union Linking!Holding'
  BY <1>1
<1>6. HoldersTrue'
  BY <1>5 DEF HoldersTrue
<1>7. NamesTold' /\ HeardOf' /\ SharedTold'
  BY <1>1, <1>2, <1>5 DEF LinkInv, NamesTold, HeardOf, SharedTold, OfOther, Waiting, Linking!Ref
<1>8. MatchesTrue' /\ ProbesTrue' /\ NeverMerged' /\ Expanded'
  BY <1>1, <1>2 DEF LinkInv, MatchesTrue, ProbesTrue, NeverMerged, Expanded
<1> QED
  BY <1>4, <1>6, <1>7, <1>8 DEF LinkInv

LEMMA LinkStep ==
    ASSUME Linking!LinksAssumption
    PROVE  LinkInv /\ [Linking!Next]_Linking!vars => LinkInv'
<1>1. ASSUME LinkInv, UNCHANGED Linking!vars PROVE LinkInv'
  <2>1. texts' = texts /\ reading' = reading /\ holders' = holders /\ spent' = spent
    BY <1>1 DEF Linking!vars
  <2>2. LinkTypes' /\ HoldersTrue' /\ NamesTold' /\ HeardOf' /\ SharedTold'
    BY <1>1, <2>1, SameFiles DEF LinkInv, LinkTypes, HoldersTrue, NamesTold, HeardOf, SharedTold, OfOther, Waiting, Linking!Ref
  <2>3. \A o, c, name : (ElsewhereOf(o, c, name)' <=> ElsewhereOf(o, c, name)) /\ (MayShare(o, c, name)' <=> MayShare(o, c, name))
                         /\ (Waiting(c)' <=> Waiting(c))
    BY <2>1, SameFiles DEF ElsewhereOf, MayShare, Waiting
  <2>4. MatchesTrue' /\ NeverMerged'
    BY <1>1, <2>1, <2>3, SameFiles DEF LinkInv, MatchesTrue, NeverMerged, OfOther, Linking!Ref
  <2>5. ProbesTrue' /\ Expanded'
    BY ZenonT(60), <1>1, <2>1, <2>3 DEF LinkInv, ProbesTrue, Expanded, Linking!Ref
  <2> QED
    BY <2>2, <2>4, <2>5 DEF LinkInv
<1>2. ASSUME LinkInv, Linking!Next PROVE LinkInv'
  BY <1>2, LinkAsk, LinkMatch, LinkMatched, LinkProbe, LinkExpand, LinkFail, LinkEdit DEF Linking!Next
<1> QED
  BY <1>1, <1>2

-----------------------------------------------------------------------------
(* What an answer means.                                                   *)

LEMMA NamesAreApart == ASSUME Linking!LinksAssumption, LinkInv PROVE Linking!NamesNeverMerge
<1> SUFFICES ASSUME reading.at = "done", Linking!Cardinality(reading.matches) = 1
             PROVE  /\ \A name \in reading.names \ {reading.name} :
                          ~\E claim \in holders.always :
                              /\ claim[3] = name
                              /\ claim[1] # Linking!Owner.brain \/ claim[2] # Linking!Owner.item
                              /\ name[1] \in {Bare, claim[1]}
                              /\ spent.failures = 0
                    /\ \A claim \in holders.always :
                          (/\ claim[1] = Linking!Owner.brain /\ claim[2] = Linking!Owner.item
                           /\ claim[3] # Linking!Ref(claim[2])
                           /\ \A other \in holders.ever :
                                 other[3] = claim[3] => other[1] = claim[1] /\ other[2] = claim[2])
                          => claim[3] \in reading.names
  BY DEF Linking!NamesNeverMerge, Linking!Answered
<1>1. PICK o : reading.matches = {o} /\ Linking!Owner = o
  BY OneOwnerOnly DEF LinkInv
<1>2. PICK owner : owner = Linking!Owner
  OBVIOUS
<1>3. reading.matches = {owner}
  BY <1>1, <1>2
<1> QED
  BY <1>2, <1>3 DEF LinkInv, NeverMerged, OfOther

\* The names of an answer are held in each brain asked by its owner alone.
LEMMA AnswerOwned ==
    ASSUME Linking!LinksAssumption, LinkInv, Linking!Complete, Linking!Quiet, NEW o, reading.matches = {o}
    PROVE  /\ o.brain \in Linking!Brain /\ o.item \in Linking!Indexed(o.brain) /\ o.names = Linking!Names(o.brain, o.item)
           /\ \A name \in reading.names :
                 /\ name \in Linking!Identity \union {Linking!Ref(o.item)} /\ name[1] \in {Bare, o.brain}
                 /\ o.item \in Authored => name \in Linking!Identity
                 /\ o.item \in Linking!Owners(o.brain, name)
                 /\ \A b \in Linking!Brain : name[1] \in {Bare, b} =>
                       \A i \in Linking!Owners(b, name) : b = o.brain /\ i = o.item
           /\ Linking!Names(o.brain, o.item) \subseteq reading.names
<1>1. LinkTypes /\ reading.at = "done" /\ ~reading.problems /\ ~spent.edited
  BY DEF Linking!Complete, Linking!Quiet, Linking!Answered, LinkInv
<1>2. o \in Found /\ o.brain \in Linking!Brain /\ o.item \in Linking!Item /\ o.names \subseteq Linking!Identity
  BY <1>1, OneOwnerOnly DEF Found
<1>3. /\ o.item \in Linking!Owners(o.brain, reading.name) /\ o.names = Linking!Names(o.brain, o.item)
      /\ reading.name[1] \in {Bare, o.brain}
  BY <1>1 DEF LinkInv, MatchesTrue
<1>4. o.item \in Linking!Indexed(o.brain)
  BY <1>3 DEF Linking!Owners
<1>5. /\ reading.names = {reading.name} \union o.names \union IF reading.bare THEN {Linking!Ref(o.item)} ELSE {}
      /\ \A b \in Linking!Brain, name \in o.names \ {reading.name} : MayShare(o, b, name) => ~ElsewhereOf(o, b, name)
      /\ reading.bare => /\ o.item \in Record
                         /\ Linking!Ref(o.item) = reading.name \/ \A b \in Linking!Brain : ~ElsewhereOf(o, b, Linking!Ref(o.item))
  BY <1>1 DEF LinkInv, Expanded
<1>6. \A b \in Linking!Brain : reading.name[1] \in {Bare, b} =>
          \A i \in Linking!Owners(b, reading.name) : b = o.brain /\ i = o.item
  BY <1>1 DEF LinkInv, MatchesTrue
<1>7. /\ Linking!Ref(o.item) = <<Bare, o.item>>
      /\ \A name \in Linking!Names(o.brain, o.item) : name[1] \in {Bare, o.brain}
  BY <1>1, <1>2, <1>4, NamesAre DEF LinkTypes
<1>8. ASSUME NEW name \in reading.names
      PROVE  /\ name \in Linking!Identity \union {Linking!Ref(o.item)} /\ name[1] \in {Bare, o.brain}
             /\ o.item \in Authored => name \in Linking!Identity
             /\ o.item \in Linking!Owners(o.brain, name)
             /\ \A b \in Linking!Brain : name[1] \in {Bare, b} =>
                   \A i \in Linking!Owners(b, name) : b = o.brain /\ i = o.item
  <2>1. CASE name = reading.name
    BY <1>1, <1>3, <1>6, <2>1 DEF LinkTypes
  <2>2. CASE name # reading.name /\ name \in o.names
    <3>1. o.item \in Linking!Owners(o.brain, name)
      BY <1>3, <1>4, <2>2 DEF Linking!Owners
    <3>2. name[1] \in {Bare, o.brain}
      BY <1>3, <1>7, <2>2
    <3>3. \A b \in Linking!Brain : name[1] \in {Bare, b} => MayShare(o, b, name)
      BY <1>2, LinkConstants DEF MayShare
    <3>4. \A b \in Linking!Brain : name[1] \in {Bare, b} => ~ElsewhereOf(o, b, name)
      BY <1>5, <2>2, <3>3
    <3> QED
      BY <1>2, <2>2, <3>1, <3>2, <3>4 DEF ElsewhereOf
  <2>3. CASE name # reading.name /\ name = Linking!Ref(o.item) /\ reading.bare
    <3>1. o.item \in Linking!Owners(o.brain, name)
      BY <1>4, <2>3 DEF Linking!Owners
    <3>2. o.item \notin Authored
      BY <1>5, <2>3, LinkConstants
    <3> QED
      BY <1>5, <1>7, <2>3, <3>1, <3>2 DEF ElsewhereOf
  <2> QED
    BY <1>5, <2>1, <2>2, <2>3
<1> QED
  BY <1>2, <1>3, <1>4, <1>5, <1>8

LEMMA NamesOpen == ASSUME Linking!LinksAssumption, LinkInv PROVE Linking!NamesOpenTheirOwner
<1> SUFFICES ASSUME Linking!Complete, Linking!Quiet, Linking!Cardinality(reading.matches) = 1, NEW name \in reading.names, NEW b \in Linking!Brain,
                    Linking!Opened(b, name) \subseteq Linking!Indexed(b)
             PROVE  Linking!Opened(b, name) = {item \in Linking!Item : b = Linking!Owner.brain /\ item = Linking!Owner.item}
  BY DEF Linking!NamesOpenTheirOwner
<1>1. PICK o : reading.matches = {o} /\ Linking!Owner = o
  BY OneOwnerOnly DEF LinkInv
<1>2. /\ o.brain \in Linking!Brain /\ o.item \in Linking!Indexed(o.brain)
      /\ name[1] \in {Bare, o.brain} /\ o.item \in Linking!Owners(o.brain, name)
      /\ name[1] \in {Bare, b} => \A i \in Linking!Owners(b, name) : b = o.brain /\ i = o.item
  BY <1>1, AnswerOwned
<1>3. o.item \in Linking!Item /\ texts \in [Linking!Brain -> [Linking!Item -> Content \union {Nothing}]]
  BY <1>2 DEF Linking!Indexed, LinkInv, LinkTypes
<1>4. {item \in Linking!Item : b = Linking!Owner.brain /\ item = Linking!Owner.item} = IF b = o.brain THEN {o.item} ELSE {}
  BY <1>1, <1>3
<1>5. Bare \notin Linking!Brain /\ Subject \intersect Linking!Item = {}
  BY LinkConstants
<1>6. \A i \in Linking!Indexed(b) :
        /\ Linking!Address(b, i) = <<b, i>> /\ Linking!Ref(i) = <<Bare, i>> /\ i \in Linking!Item /\ texts[b][i] # Nothing
        /\ \A n \in Linking!Names(b, i) : n[1] = Bare \/ (n[1] = b /\ (n = Linking!Address(b, i) \/ n[2] \in Subject))
  BY <1>3, NamesAre DEF Linking!Indexed
<1>7. CASE name[1] \notin {Bare, b}
  BY <1>2, <1>4, <1>7 DEF Linking!Opened
<1>8. CASE name[1] \in {Bare, b} /\ name[2] \in Linking!Item /\ texts[b][name[2]] # Nothing
  <2>1. Linking!Opened(b, name) = {name[2]} /\ name[2] \in Linking!Indexed(b)
    BY <1>8 DEF Linking!Opened
  <2>2. name = <<name[1], name[2]>>
    BY <1>1, AnswerOwned DEF Linking!Identity, Linking!Name, Linking!Ref
  <2>3. name \in Linking!Names(b, name[2]) \union {Linking!Ref(name[2])}
    <3>1. Linking!Address(b, name[2]) \in Linking!Names(b, name[2])
      BY <1>3, <2>1, NamesAre
    <3> QED
      BY <1>6, <1>8, <2>1, <2>2, <3>1
  <2>4. name[2] \in Linking!Owners(b, name)
    BY <2>1, <2>3 DEF Linking!Owners
  <2> QED
    BY <1>2, <1>4, <1>8, <2>1, <2>4
<1>9. CASE name[1] = b /\ name[2] \in Linking!Item /\ texts[b][name[2]] = Nothing
  <2>1. Linking!Opened(b, name) = {}
    BY <1>9 DEF Linking!Opened
  <2>2. ASSUME NEW i \in Linking!Owners(b, name) PROVE FALSE
    <3>1. i \in Linking!Indexed(b) /\ name \in Linking!Names(b, i) \union {Linking!Ref(i)}
      BY DEF Linking!Owners
    <3>2. Linking!Ref(i)[1] = Bare
      BY DEF Linking!Ref
    <3>3. name = Linking!Address(b, i)
      BY <1>5, <1>6, <1>9, <3>1, <3>2
    <3>4. name[2] = i
      BY <1>6, <3>1, <3>3
    <3> QED
      BY <1>6, <1>9, <3>1, <3>4
  <2>3. b # o.brain
    BY <1>2, <2>2
  <2> QED
    BY <1>4, <2>1, <2>3
<1>10. CASE /\ name[1] \in {Bare, b} /\ ~(name[2] \in Linking!Item /\ texts[b][name[2]] # Nothing)
            /\ ~(name[1] = b /\ name[2] \in Linking!Item)
  <2>1. Linking!Opened(b, name) = {item \in Linking!Indexed(b) : name \in Linking!Names(b, item)}
    BY <1>10 DEF Linking!Opened
  <2>2. \A i \in Linking!Indexed(b) : name # Linking!Ref(i)
    BY <1>6, <1>10 DEF Linking!Ref
  <2>3. Linking!Opened(b, name) = Linking!Owners(b, name)
    BY <2>1, <2>2 DEF Linking!Owners
  <2>4. Linking!Owners(b, name) = IF b = o.brain THEN {o.item} ELSE {}
    BY <1>2, <1>10
  <2> QED
    BY <1>4, <2>3, <2>4
<1> QED
  BY <1>7, <1>8, <1>9, <1>10

LEMMA LinksOfItems ==
    ASSUME Linking!LinksAssumption, LinkInv, NEW b \in Linking!Brain, NEW i \in Linking!Indexed(b), NEW link \in Linking!Claims(b, i)
    PROVE  /\ link \in Linking!Link
           /\ link.section => link.target[1] # Bare \/ link.target[2] \in Authored
<1>1. i \in Linking!Item /\ texts[b][i] # Nothing
  BY DEF Linking!Indexed
<1>2. PICK content \in Content : content = texts[b][i]
  <2>1. texts[b] \in [Linking!Item -> Content \union {Nothing}]
    BY DEF LinkInv, LinkTypes
  <2>2. texts[b][i] \in Content \union {Nothing}
    BY <1>1, <2>1
  <2> QED
    BY <1>1, <2>2
<1>3. \A l \in content.links : l \in Linking!Link /\ (l.section => l.target[1] # Bare \/ l.target[2] \in Authored)
  BY DEF Linking!LinksAssumption
<1>4. PICK l \in content.links : link = [l EXCEPT !.relation = IF l.relation \in Declared THEN l.relation ELSE Untyped]
  BY <1>2 DEF Linking!Claims
<1>5. l \in Linking!Link
  BY <1>3
<1>6. link \in Linking!Link /\ link.target = l.target /\ link.section = l.section
  BY <1>4, <1>5 DEF Linking!Link
<1> QED
  BY <1>3, <1>6

\* The names by which links reach the owner in its own brain.
LEMMA LocalNames ==
    ASSUME Linking!LinksAssumption, LinkInv, Linking!Complete, Linking!Quiet, NEW o, reading.matches = {o}
    PROVE  /\ Linking!Names(o.brain, o.item) \union {Linking!Ref(o.item)} \subseteq Linking!Local(o.brain, reading.names)
           /\ Linking!Local(o.brain, reading.names) \subseteq reading.names \union {Linking!Ref(o.item)}
           /\ \A name \in reading.names : name \in Linking!Names(o.brain, o.item) \union {Linking!Ref(o.item)}
<1> DEFINE b == o.brain
<1>1. /\ b \in Linking!Brain /\ o.item \in Linking!Indexed(b)
      /\ Linking!Names(b, o.item) \subseteq reading.names
      /\ \A name \in reading.names :
            /\ o.item \in Linking!Owners(b, name)
            /\ name[1] \in {Bare, b} => \A i \in Linking!Owners(b, name) : i = o.item
  BY AnswerOwned
<1>2. \A name \in reading.names : name \in Linking!Names(b, o.item) \union {Linking!Ref(o.item)}
  BY <1>1 DEF Linking!Owners
<1>3. \A i \in Linking!Indexed(b) :
        /\ Linking!Address(b, i) = <<b, i>> /\ Linking!Ref(i) = <<Bare, i>> /\ Linking!Address(b, i) \in Linking!Names(b, i)
        /\ \A n \in Linking!Names(b, i) : n[1] = Bare \/ (n[1] = b /\ (n = Linking!Address(b, i) \/ n[2] \in Subject))
  BY <1>1, NamesAre DEF LinkInv, LinkTypes
<1>4. \A i \in Linking!Indexed(b) : (\E name \in reading.names :
          name[1] = b /\ {other \in Linking!Indexed(b) : name \in Linking!Names(b, other)} = {i}) <=> i = o.item
  <2>1. ASSUME NEW i \in Linking!Indexed(b), NEW name \in reading.names, name[1] = b,
               {other \in Linking!Indexed(b) : name \in Linking!Names(b, other)} = {i}
        PROVE  i = o.item
    <3>1. name \in Linking!Names(b, i)
      BY <2>1
    <3>2. i \in Linking!Owners(b, name)
      BY <3>1 DEF Linking!Owners
    <3> QED
      BY <1>1, <2>1, <3>2
  <2>2. \E name \in reading.names : name[1] = b /\ {other \in Linking!Indexed(b) : name \in Linking!Names(b, other)} = {o.item}
    <3>1. PICK name : name = Linking!Address(b, o.item) /\ name \in Linking!Names(b, o.item) /\ name \in reading.names /\ name[1] = b
      BY <1>1, <1>3
    <3>2. ASSUME NEW other \in Linking!Indexed(b), name \in Linking!Names(b, other) PROVE other = o.item
      <4>1. other \in Linking!Owners(b, name)
        BY <3>2 DEF Linking!Owners
      <4> QED
        BY <1>1, <3>1, <4>1
    <3>3. {other \in Linking!Indexed(b) : name \in Linking!Names(b, other)} = {o.item}
      BY <1>1, <3>1, <3>2
    <3> QED
      BY <3>1, <3>3
  <2> QED
    BY <2>1, <2>2
<1>5. Linking!Local(b, reading.names) = reading.names \union {Linking!Ref(o.item)}
  <2>1. Linking!Local(b, reading.names) = reading.names \union
            {Linking!Ref(i) : i \in {j \in Linking!Indexed(b) : \E name \in reading.names :
                name[1] = b /\ {other \in Linking!Indexed(b) : name \in Linking!Names(b, other)} = {j}}}
    BY Zenon DEF Linking!Local
  <2>2. {j \in Linking!Indexed(b) : \E name \in reading.names :
                name[1] = b /\ {other \in Linking!Indexed(b) : name \in Linking!Names(b, other)} = {j}} = {o.item}
    BY <1>1, <1>4
  <2>3. {Linking!Ref(i) : i \in {o.item}} = {Linking!Ref(o.item)}
    OBVIOUS
  <2> QED
    BY Zenon, <2>1, <2>2, <2>3
<1> QED
  BY <1>1, <1>2, <1>5

LEMMA BacklinksMatch == ASSUME Linking!LinksAssumption, LinkInv PROVE Linking!BacklinksAgree
<1> SUFFICES ASSUME Linking!Complete, Linking!Quiet, NEW b \in Linking!Brain
             PROVE  LET names == Linking!Local(b, reading.names) IN
                    /\ \A pair \in Linking!Incoming(b, names) :
                          \E link \in Linking!Explanations(b, pair[1], names) : link.relation = pair[2]
                    /\ \A match \in reading.matches : match.brain = b =>
                          /\ \A pair \in Linking!Outgoing(b, {Linking!About(b, item) : item \in Linking!Indexed(b)}) :
                                match.item \in Linking!Followed(b, pair[2]) =>
                                    <<pair[1], pair[2].relation>> \in Linking!Incoming(b, names)
                          /\ match.item \in Authored =>
                                \A pair \in Linking!Incoming(b, names) :
                                    pair[1] # match.item => pair[1] \in Linking!Counted(b, match.item)
  BY DEF Linking!BacklinksAgree
<1>1. PICK names : names = Linking!Local(b, reading.names)
  OBVIOUS
\* What is listed as a backlink.
<1>2. \A item, relation : <<item, relation>> \in Linking!Typed(b, names) <=>
          item \in Linking!Indexed(b) /\ \E link \in Linking!Claims(b, item) :
              link.relation # Untyped /\ Linking!Reaches(link, names) /\ relation = link.relation
  <2> DEFINE Of(item) == {<<item, link.relation>> :
                             link \in {l \in Linking!Claims(b, item) : l.relation # Untyped /\ Linking!Reaches(l, names)}}
  <2>1. Linking!Typed(b, names) = UNION {Of(item) : item \in Linking!Indexed(b)}
    BY Zenon DEF Linking!Typed
  <2>2. \A j, item, relation : <<item, relation>> \in Of(j) <=>
            item = j /\ \E link \in Linking!Claims(b, j) : link.relation # Untyped /\ Linking!Reaches(link, names) /\ relation = link.relation
    OBVIOUS
  <2>3. \A pair : pair \in Linking!Typed(b, names) <=> \E j \in Linking!Indexed(b) : pair \in Of(j)
    <3> HIDE DEF Of
    <3> QED
      BY <2>1
  <2>4. ASSUME NEW item, NEW relation
        PROVE  <<item, relation>> \in Linking!Typed(b, names) <=>
                   item \in Linking!Indexed(b) /\ \E link \in Linking!Claims(b, item) :
                       link.relation # Untyped /\ Linking!Reaches(link, names) /\ relation = link.relation
    <3> HIDE DEF Of
    <3>1. <<item, relation>> \in Linking!Typed(b, names) <=> \E j \in Linking!Indexed(b) : <<item, relation>> \in Of(j)
      BY Zenon, <2>3
    <3>2. \A j : <<item, relation>> \in Of(j) <=>
              item = j /\ \E link \in Linking!Claims(b, j) :
                  link.relation # Untyped /\ Linking!Reaches(link, names) /\ relation = link.relation
      BY Zenon, <2>2
    <3> QED
      BY Zenon, <3>1, <3>2
  <2> QED
    BY Zenon, <2>4
<1>3. \A pair \in Linking!Typed(b, names) : pair = <<pair[1], pair[2]>>
  BY DEF Linking!Typed
<1>4. \A pair : pair \in Linking!Incoming(b, names) <=>
          \/ pair \in Linking!Typed(b, names)
          \/ \E i \in Linking!Indexed(b) :
                /\ pair = <<i, Untyped>> /\ \E link \in Linking!Claims(b, i) : Linking!Reaches(link, names)
                /\ \A p \in Linking!Typed(b, names) : p[1] # i
  BY DEF Linking!Incoming
<1>5. ASSUME NEW pair \in Linking!Incoming(b, names)
      PROVE  /\ pair[1] \in Linking!Indexed(b)
             /\ \E link \in Linking!Explanations(b, pair[1], names) : link.relation = pair[2]
  <2>1. CASE pair \in Linking!Typed(b, names)
    <3>1. pair[1] \in Linking!Indexed(b) /\ \E link \in Linking!Claims(b, pair[1]) :
              link.relation # Untyped /\ Linking!Reaches(link, names) /\ pair[2] = link.relation
      BY <1>2, <1>3, <2>1
    <3> QED
      BY <3>1 DEF Linking!Explanations
  <2>2. CASE pair \notin Linking!Typed(b, names)
    <3>1. PICK i \in Linking!Indexed(b) :
            /\ pair = <<i, Untyped>> /\ \E link \in Linking!Claims(b, i) : Linking!Reaches(link, names)
            /\ \A p \in Linking!Typed(b, names) : p[1] # i
      BY <1>4, <2>2
    <3>2. pair[1] = i /\ pair[2] = Untyped
      BY <3>1
    <3>3. PICK link \in Linking!Claims(b, i) : Linking!Reaches(link, names)
      BY <3>1
    <3>4. \A other \in Linking!Claims(b, i) : Linking!Reaches(other, names) => other.relation = Untyped
      <4>1. ASSUME NEW other \in Linking!Claims(b, i), Linking!Reaches(other, names), other.relation # Untyped PROVE FALSE
        <5>1. <<i, other.relation>> \in Linking!Typed(b, names)
          BY <1>2, <4>1
        <5>2. <<i, other.relation>>[1] = i
          OBVIOUS
        <5> QED
          BY <3>1, <5>1, <5>2
      <4> QED
        BY <4>1
    <3>5. ASSUME NEW other \in Linking!Claims(b, i), other.relation # Untyped, [other EXCEPT !.relation = Untyped] = link
          PROVE  FALSE
      <4>1. other \in Linking!Link
        BY LinksOfItems
      <4>2. link.target = other.target /\ link.section = other.section
        BY <3>5, <4>1 DEF Linking!Link
      <4>3. Linking!Reaches(other, names)
        BY <3>3, <4>2 DEF Linking!Reaches
      <4> QED
        BY <3>4, <3>5, <4>3
    <3>6. link \in Linking!Explanations(b, i, names) /\ link.relation = Untyped
      BY <3>3, <3>4, <3>5 DEF Linking!Explanations
    <3> QED
      BY <3>2, <3>6
  <2> QED
    BY <2>1, <2>2
<1>6. ASSUME NEW o \in reading.matches, o.brain = b
      PROVE  /\ \A pair \in Linking!Outgoing(b, {Linking!About(b, item) : item \in Linking!Indexed(b)}) :
                   o.item \in Linking!Followed(b, pair[2]) => <<pair[1], pair[2].relation>> \in Linking!Incoming(b, names)
             /\ o.item \in Authored =>
                   \A pair \in Linking!Incoming(b, names) : pair[1] # o.item => pair[1] \in Linking!Counted(b, o.item)
  <2>1. reading.matches = {o}
    BY <1>6 DEF LinkInv, Expanded, Linking!Complete, Linking!Quiet, Linking!Answered
  <2>2. /\ Linking!Names(b, o.item) \union {Linking!Ref(o.item)} \subseteq names
        /\ names \subseteq reading.names \union {Linking!Ref(o.item)}
        /\ \A name \in reading.names : name \in Linking!Names(b, o.item) \union {Linking!Ref(o.item)}
    BY <1>1, <1>6, <2>1, LocalNames
  <2>3. /\ o.item \in Linking!Indexed(b)
        /\ \A name \in reading.names :
              /\ name[1] \in {Bare, b} /\ (o.item \in Authored => name \in Linking!Identity)
              /\ \A i \in Linking!Owners(b, name) : i = o.item
    BY <1>6, <2>1, AnswerOwned
  <2>4. Linking!Names(b, o.item) \subseteq Linking!Identity /\ Linking!Address(b, o.item) = <<b, o.item>>
        /\ Linking!Ref(o.item) = <<Bare, o.item>> /\ o.item \in Linking!Item
    BY <2>3, NamesAre DEF LinkInv, LinkTypes
  <2>5. ASSUME NEW item \in Linking!Indexed(b), NEW link \in Linking!Claims(b, item), link.relation # Untyped,
               o.item \in Linking!Followed(b, link)
        PROVE  <<item, link.relation>> \in Linking!Incoming(b, names)
    <3>1. o.item \in Linking!Owners(b, link.target) /\ (link.section => o.item \in Authored)
      BY <2>5 DEF Linking!Followed
    <3>2. link.target \in Linking!Names(b, o.item) \union {Linking!Ref(o.item)}
      BY <3>1 DEF Linking!Owners
    <3>3. link.section => link.target[1] # Bare \/ link.target[2] \in Authored
      BY LinksOfItems
    <3>4. Linking!Reaches(link, names)
      BY <2>2, <3>2, <3>3 DEF Linking!Reaches, Linking!Sections
    <3>5. <<item, link.relation>> \in Linking!Typed(b, names)
      BY <1>2, <2>5, <3>4
    <3> QED
      BY <1>4, <3>5
  <2>6. ASSUME NEW pair \in Linking!Outgoing(b, {Linking!About(b, item) : item \in Linking!Indexed(b)}), o.item \in Linking!Followed(b, pair[2])
        PROVE  <<pair[1], pair[2].relation>> \in Linking!Incoming(b, names)
    <3>1. PICK item \in Linking!Indexed(b) : pair \in {<<item, link>> : link \in {l \in Linking!Claims(b, item) : l.relation # Untyped}}
      BY DEF Linking!Outgoing
    <3>2. PICK link \in Linking!Claims(b, item) : link.relation # Untyped /\ pair = <<item, link>>
      BY <3>1
    <3>3. pair[1] = item /\ pair[2] = link
      BY <3>2
    <3> QED
      BY <2>5, <2>6, <3>2, <3>3
  <2>7. ASSUME o.item \in Authored, NEW pair \in Linking!Incoming(b, names), pair[1] # o.item
        PROVE  pair[1] \in Linking!Counted(b, o.item)
    <3> DEFINE own == {name \in Linking!Names(b, o.item) \union {Linking!Ref(o.item)} : ~Linking!Shared(b, name, o.item)}
    <3>1. PICK link \in Linking!Explanations(b, pair[1], names) : link.relation = pair[2]
      BY <1>5
    <3>2. link \in Linking!Claims(b, pair[1]) /\ Linking!Reaches(link, names) /\ pair[1] \in Linking!Indexed(b) \ {o.item}
      BY <1>5, <2>7, <3>1 DEF Linking!Explanations
    <3>3. ASSUME NEW i \in Linking!Owners(b, Linking!Ref(o.item)) PROVE i = o.item
      <4>1. i \in Linking!Indexed(b) /\ Linking!Ref(o.item) \in Linking!Names(b, i) \union {Linking!Ref(i)}
        BY DEF Linking!Owners
      <4>2. Linking!Names(b, i) \subseteq Linking!Identity /\ Linking!Ref(i) = <<Bare, i>>
        BY <4>1, NamesAre DEF LinkInv, LinkTypes
      <4>3. Linking!Ref(o.item) \notin Linking!Identity
        BY <2>4, <2>7 DEF Linking!Identity
      <4> QED
        BY <2>4, <4>1, <4>2, <4>3
    <3>4. \A name \in names : ~Linking!Shared(b, name, o.item)
      BY <2>2, <2>3, <3>3 DEF Linking!Shared
    <3>5. names \subseteq own
      BY <2>2, <3>4
    <3>6. Linking!Reaches(link, own)
      BY <3>2, <3>5 DEF Linking!Reaches, Linking!Sections
    <3> HIDE DEF own
    <3>7. \E l \in Linking!Claims(b, pair[1]) : Linking!Reaches(l, own)
      BY <3>2, <3>6
    <3> QED
      BY <3>2, <3>7 DEF Linking!Counted, own
  <2> QED
    BY <2>6, <2>7
<1> QED
  BY <1>1, <1>5, <1>6

(* An expansion knows the owners of the name it was asked, and what it has    *)
(* heard of the others that hold one of theirs (graph.expand).                *)
THEOREM LinkInvariance ==
    ASSUME Linking!LinksAssumption
    PROVE  Linking!Spec => []LinkInv
<1>1. Linking!Init => LinkInv
  BY LinkInit
<1>2. LinkInv /\ [Linking!Next]_Linking!vars => LinkInv'
  BY LinkStep
<1> QED
  BY <1>1, <1>2, PTL DEF Linking!Spec

(* Names of two items are never read as one, each name of an answer without   *)
(* problems opens its one owner, and backlinks, links and the news of a       *)
(* review agree (graph.py, links.py, index.py).                               *)
THEOREM LinksStayRight ==
    ASSUME Linking!LinksAssumption
    PROVE  Linking!Spec => []Linking!LinksAreRight
<1>1. LinkInv => Linking!LinksAreRight
  BY NamesAreApart, NamesOpen, BacklinksMatch DEF Linking!LinksAreRight
<1> QED
  BY <1>1, LinkInvariance, PTL

=============================================================================
