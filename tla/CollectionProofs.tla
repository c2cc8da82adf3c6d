-------------------------- MODULE CollectionProofs --------------------------
(***************************************************************************)
(* Proofs about Collection, for any programs, settings and bounds: the run *)
(* history claims only what was stored, whatever fails, dies or overlaps;  *)
(* a resume point jumps over no stretch; a routine has one action per day; *)
(* and a cycle never runs from a stale list. Then about what a collection  *)
(* keeps (Retention): what the owner forgot stays away and no older        *)
(* revision replaces a newer one; and about the fields of records          *)
(* (Reprojection): a reprojection that ended left those of its mappings.   *)
(***************************************************************************)
EXTENDS Collection, FiniteSetTheorems, TLAPS

-----------------------------------------------------------------------------
(* The inductive invariant.                                                *)

Days == {DayOf(t) : t \in Time}
Entries == [run : {Unset} \cup Time, success : {Unset} \cup Time,
            start : {Unset} \cup Instant, end : {Unset} \cup Time,
            reconciled : {Unset} \cup Time, failures : 0..MaxFailures]
Windows == {w \in [name : Program, start : Instant, end : Time, revisit : BOOLEAN] : w.start < w.end}
Calls == [at : {"idle", "cycle", "next", "lock", "run", "remember", "failed"},
          now : Int, todo : SUBSET Windows, cycle : BOOLEAN, name : Program \cup {NoOne},
          start : Int, end : Int, revisit : BOOLEAN, skipped : BOOLEAN]

Typed ==
    /\ clock \in Time
    /\ history \in [Program -> Entries]
    /\ collected \in [Program -> SUBSET Instant]
    /\ written \in [Routine -> [Days -> 0..1]]
    /\ held \in [Locks -> Process \cup {NoOne}]
    /\ call \in [Process -> Calls]
    /\ since \in [Process -> SUBSET Program]

Holding == {"run", "remember", "failed"}

\* What a call knows: a cycle its list, dated when it was made, and a run its
\* window.
Placed(p) ==
    /\ call[p].at \in {"idle", "cycle", "next"} => call[p].name = NoOne
    /\ call[p].at \in {"idle", "cycle"} => call[p].todo = {}
    /\ call[p].at = "idle" => ~call[p].cycle
    /\ call[p].at \in {"cycle", "next"} => call[p].cycle
    /\ call[p].at \notin {"idle", "cycle"} =>
          call[p].now \in Time /\ \A w \in call[p].todo : w.end = call[p].now
    /\ call[p].at \in Holding \cup {"lock"} =>
          /\ call[p].name \in Program
          /\ call[p].start \in Instant /\ call[p].end \in Time /\ call[p].start < call[p].end
          /\ call[p].name \in Routine => call[p].end = call[p].now

\* A run holds its program's lock, and a cycle that listed what is due the
\* cycle lock: nobody else's cycle began anything since.
Locking(p) ==
    /\ call[p].at \in Holding => held[call[p].name] = p
    /\ call[p].cycle /\ call[p].at # "cycle" => held[".update"] = p /\ since[p] = {}

\* What a run is about to claim was stored.
Storing(p) ==
    /\ call[p].at = "failed" => history[call[p].name].failures < MaxFailures
    /\ call[p].at = "remember" /\ call[p].name \in Sensor => ~call[p].skipped
    /\ call[p].at = "remember" /\ ~call[p].skipped =>
          \A t \in Instant :
             call[p].start <= t /\ t < Smaller(call[p].end, call[p].now) => t \in collected[call[p].name]

\* The interval a history claims is not empty, and some run proved it.
Claims ==
    \A x \in Program :
        history[x].end # Unset => history[x].start < history[x].end /\ history[x].run # Unset

IInv ==
    /\ Typed
    /\ \A p \in Process : Placed(p) /\ Locking(p) /\ Storing(p)
    /\ Claims
    /\ HistoryIsTrue


-----------------------------------------------------------------------------
(* Operators.                                                              *)

\* What the assumption says of the instants and the settings.
LEMMA Facts ==
    ASSUME CollectionAssumption
    PROVE  /\ Time \subseteq Nat /\ Time \subseteq Instant /\ Instant \subseteq Int
           /\ Unset \in Int /\ Unset \notin Time
           /\ NoOne \notin Process /\ NoOne \notin Program
           /\ ".update" \notin Program /\ "writer" \notin Program
           /\ Snapshots \subseteq Sensor /\ Sensor \cap Routine = {}
           /\ CatchUp \in Nat /\ CatchUp > 0 /\ Lookback \in Nat /\ Lookback > 0
           /\ Overlap \in Nat /\ MaxFailures \in Nat
           /\ Reconcile.lookback \in Nat /\ Reconcile.lookback > 0
           /\ Refresh \in [Program -> Nat]
  BY DEF CollectionAssumption, Time, Instant, Unset

\* Smaller and Larger are what their names say.
LEMMA SmallerIs ==
    ASSUME NEW a \in Int, NEW b \in Int
    PROVE  Smaller(a, b) = IF a <= b THEN a ELSE b
<1> DEFINE m == IF a <= b THEN a ELSE b
<1>1. m \in {a, b} /\ \A y \in {a, b} : m <= y
  OBVIOUS
<1>2. \A x \in {a, b} : (\A y \in {a, b} : x <= y) => x = m
  OBVIOUS
<1> QED
  BY <1>1, <1>2 DEF Smaller, Min

LEMMA LargerIs ==
    ASSUME NEW a \in Int, NEW b \in Int
    PROVE  Larger(a, b) = IF a >= b THEN a ELSE b
<1> DEFINE m == IF a >= b THEN a ELSE b
<1>1. m \in {a, b} /\ \A y \in {a, b} : m >= y
  OBVIOUS
<1>2. \A x \in {a, b} : (\A y \in {a, b} : x >= y) => x = m
  OBVIOUS
<1> QED
  BY <1>1, <1>2 DEF Larger, Max

\* The least of three is one of them, and none is less.
LEMMA LeastOfThree ==
    ASSUME NEW a \in Int, NEW b \in Int, NEW c \in Int
    PROVE  /\ Min({a, b, c}) \in {a, b, c}
           /\ Min({a, b, c}) <= a /\ Min({a, b, c}) <= b /\ Min({a, b, c}) <= c
<1> DEFINE m == IF a <= b /\ a <= c THEN a ELSE IF b <= c THEN b ELSE c
<1>1. m \in {a, b, c} /\ \A y \in {a, b, c} : m <= y
  OBVIOUS
<1>2. Min({a, b, c}) \in {a, b, c} /\ \A y \in {a, b, c} : Min({a, b, c}) <= y
  BY <1>1 DEF Min
<1> QED
  BY <1>2

\* The windows of a list are not empty, and reach back no further than the
\* settings allow.
LEMMA WindowsAreGiven ==
    ASSUME CollectionAssumption, Typed, NEW x \in Program
    PROVE  Window(x, clock) \in Windows
<1> USE Facts
<1> DEFINE e == history[x].end
<1>1. clock \in Time /\ clock \in Int /\ e \in Int /\ (e = Unset \/ e \in Time)
  BY DEF Typed, Entries
<1>2. \A t \in Int : StartTime - CatchUp - Lookback - Reconcile.lookback <= t /\ t <= clock => t \in Instant
  BY <1>1 DEF Instant, Time, CollectionAssumption
<1>3. StartTime \in Int /\ StartTime <= clock
  BY <1>1 DEF Time, CollectionAssumption
<1>4. RoutineStart(x, clock) \in Instant /\ RoutineStart(x, clock) < clock
  <2>1. CASE e # Unset /\ e < clock
    BY <1>1, <2>1 DEF RoutineStart
  <2>2. CASE ~(e # Unset /\ e < clock)
    <3>1. clock - Lookback \in Int /\ clock - Lookback < clock
          /\ StartTime - CatchUp - Lookback - Reconcile.lookback <= clock - Lookback
      BY <1>1, <1>3
    <3>2. RoutineStart(x, clock) = clock - Lookback
      BY <2>2 DEF RoutineStart
    <3> QED  BY <1>1, <1>2, <3>1, <3>2
  <2> QED  BY <2>1, <2>2
<1>5. SensorStart(x, clock) \in Instant /\ SensorStart(x, clock) < clock
  <2> DEFINE floor == clock - CatchUp
             resumed == Larger(e, floor) - Overlap
             plain == IF x \notin Snapshots /\ e # Unset /\ resumed < clock
                      THEN Larger(resumed, floor) ELSE clock - Lookback
             lower == StartTime - CatchUp - Lookback - Reconcile.lookback
  <2>1. floor \in Int /\ floor < clock /\ floor >= lower
    BY <1>1, <1>3
  <2>2. resumed \in Int
    BY <1>1, <2>1, LargerIs
  <2>3. resumed < clock => Larger(resumed, floor) \in Int /\ Larger(resumed, floor) < clock
                           /\ Larger(resumed, floor) >= lower
    <3> HIDE DEF floor, resumed, lower
    <3>1. lower \in Int
      BY <1>3 DEF lower
    <3> QED  BY <1>1, <2>1, <2>2, <3>1, LargerIs
  <2>4. clock - Lookback \in Int /\ clock - Lookback < clock /\ clock - Lookback >= lower
    BY <1>1, <1>3
  <2>5. plain \in Int /\ plain < clock /\ plain >= lower
    <3> HIDE DEF floor, resumed, lower
    <3> QED  BY <2>3, <2>4
  <2>6. clock - Reconcile.lookback \in Int /\ clock - Reconcile.lookback < clock
        /\ clock - Reconcile.lookback >= lower
    BY <1>1, <1>3
  <2>7. SensorStart(x, clock) \in {plain, Smaller(plain, clock - Reconcile.lookback)}
    BY DEF SensorStart
  <2>8. Smaller(plain, clock - Reconcile.lookback) \in {plain, clock - Reconcile.lookback}
    <3> HIDE DEF plain
    <3> QED  BY <2>5, <2>6, SmallerIs
  <2>9. SensorStart(x, clock) \in Int /\ SensorStart(x, clock) < clock /\ SensorStart(x, clock) >= lower
    <3> HIDE DEF plain, lower
    <3> QED  BY <2>5, <2>6, <2>7, <2>8
  <2> QED
    BY <1>1, <1>2, <2>9
<1>6. Revisit(x, clock) \in BOOLEAN
  BY DEF Revisit
<1> QED
  BY <1>1, <1>4, <1>5, <1>6 DEF Window, Windows

-----------------------------------------------------------------------------
(* Coverage.                                                               *)

\* What a run adds to the interval a sensor's history claims: never an instant
\* that neither the history claimed nor the run collected; and, while the last
\* run the history names is not older than its resume point, the resume point
\* jumps over nothing this run did not collect.
LEMMA CoverageClaims ==
    ASSUME CollectionAssumption, NEW s \in Sensor, NEW last \in Entries,
           last.end # Unset => last.start < last.end /\ last.run # Unset,
           NEW start \in Instant, NEW end \in Time, start < end, NEW observed \in Time
    PROVE  LET new == Coverage(s, last, start, end, observed)
           IN  /\ new.claim.start \in {Unset} \cup Instant
               /\ new.claim.end \in {Unset} \cup Time
               /\ new.claim.end # Unset => new.claim.start < new.claim.end
               /\ \A t \in Instant :
                     new.claim.start <= t /\ t < new.claim.end =>
                     \/ last.start <= t /\ t < last.end
                     \/ start <= t /\ t < Smaller(end, observed)
               /\ Refresh[s] > 0 /\ s \notin Snapshots /\ last.end # Unset /\ last.end <= last.run =>
                     \A t \in Instant :
                        Larger(last.end, observed - CatchUp) <= t /\ t < new.claim.end =>
                        start <= t /\ t < Smaller(end, observed)
<1> DEFINE covered == Smaller(end, observed)
           proved == Min({last.end, last.run, observed})
           known == last.end # Unset /\ last.start < proved
           resumes == s \notin Snapshots /\ Refresh[s] > 0
           contiguous ==
               \/ ~known
               \/ /\ covered >= proved
                  /\ ~resumes \/ start <= Larger(proved, observed - CatchUp)
           claim == Coverage(s, last, start, end, observed).claim
           horizon == observed - CatchUp
<1>1. /\ last.end \in {Unset} \cup Time /\ last.run \in {Unset} \cup Time
      /\ last.start \in {Unset} \cup Instant
      /\ last.end \in Int /\ last.run \in Int /\ last.start \in Int
      /\ start \in Int /\ end \in Int /\ observed \in Int /\ horizon \in Int
  BY Facts DEF Entries
<1>2. covered \in Time /\ covered \in Int /\ covered <= end /\ covered <= observed
  <2>1. covered = IF end <= observed THEN end ELSE observed
    BY ONLY <1>1, SmallerIs
  <2> QED  BY <1>1, <2>1
<1>3. proved \in {last.end, last.run, observed} /\ proved <= last.end /\ proved <= last.run
      /\ proved <= observed /\ proved \in Int
  <2>1. /\ Min({last.end, last.run, observed}) \in {last.end, last.run, observed}
        /\ Min({last.end, last.run, observed}) <= last.end
        /\ Min({last.end, last.run, observed}) <= last.run
        /\ Min({last.end, last.run, observed}) <= observed
    BY ONLY <1>1, LeastOfThree
  <2> QED  BY ONLY <1>1, <2>1
<1>4. known => proved \in Time
  BY <1>1, <1>3
<1>5. \/ /\ start >= covered /\ known
         /\ claim.start = last.start /\ claim.end = proved
      \/ /\ start >= covered /\ ~known
         /\ claim.start = last.start /\ claim.end = last.end
      \/ /\ start < covered /\ known /\ start <= proved /\ covered >= last.start
         /\ claim.start = Smaller(start, last.start) /\ claim.end = Larger(covered, proved)
      \/ /\ start < covered /\ ~(known /\ start <= proved /\ covered >= last.start) /\ contiguous
         /\ claim.start = start /\ claim.end = covered
      \/ /\ start < covered /\ ~(known /\ start <= proved /\ covered >= last.start) /\ ~contiguous
         /\ claim.start = last.start /\ claim.end = proved
  <2>1. covered \in Int
    BY <1>2
  <2> QED  BY SMTT(30), <1>1, <2>1 DEF Coverage
<1> HIDE DEF covered, claim, proved, horizon
<1>6. horizon <= observed
  BY <1>1, Facts DEF horizon
<1>7. known => Smaller(start, last.start) = (IF start <= last.start THEN start ELSE last.start)
               /\ Larger(covered, proved) = (IF covered >= proved THEN covered ELSE proved)
  BY <1>1, <1>2, <1>3, SmallerIs, LargerIs
<1>8. Larger(last.end, horizon) = (IF last.end >= horizon THEN last.end ELSE horizon)
      /\ Larger(proved, horizon) = (IF proved >= horizon THEN proved ELSE horizon)
  BY <1>1, <1>3, LargerIs
<1>a. Time \subseteq Instant /\ Instant \subseteq Int /\ Unset \notin Time
  BY Facts
<1>9. claim.start \in {Unset} \cup Instant /\ claim.end \in {Unset} \cup Time
  BY <1>1, <1>2, <1>4, <1>5, <1>7, <1>a
<1>b. claim.start \in Int /\ claim.end \in Int
  BY <1>1, <1>2, <1>3, <1>5, <1>7
<1>10. claim.end # Unset => claim.start < claim.end
  BY <1>1, <1>2, <1>3, <1>5, <1>7
<1>11. ASSUME NEW t \in Instant, claim.start <= t, t < claim.end
       PROVE  (last.start <= t /\ t < last.end) \/ (start <= t /\ t < covered)
  <2>1. t \in Int
    BY <1>a
  <2> HIDE DEF known, contiguous
  <2>3. CASE known /\ start <= proved /\ covered >= last.start /\ start < covered
    <3>1. claim.start = (IF start <= last.start THEN start ELSE last.start)
          /\ claim.end = (IF covered >= proved THEN covered ELSE proved)
      BY ONLY <1>1, <1>2, <1>5, <1>7, <2>3
    <3> QED  BY ONLY <1>1, <1>2, <1>3, <1>11, <2>1, <2>3, <3>1
  <2>4. CASE ~(known /\ start <= proved /\ covered >= last.start /\ start < covered)
    <3>1. \/ claim.start = last.start /\ claim.end = proved
          \/ claim.start = last.start /\ claim.end = last.end
          \/ claim.start = start /\ claim.end = covered
      BY ONLY <1>5, <2>4
    <3> QED  BY ONLY <1>1, <1>2, <1>3, <1>11, <2>1, <3>1
  <2> QED  BY <2>3, <2>4
<1>12. ASSUME Refresh[s] > 0, s \notin Snapshots, last.end # Unset, last.end <= last.run,
              NEW t \in Instant, Larger(last.end, horizon) <= t, t < claim.end
       PROVE  start <= t /\ t < covered
  <2>1. t \in Int /\ last.end <= t /\ horizon <= t
    BY <1>1, <1>8, <1>12, <1>a
  <2>2. proved \in {last.end, observed}
    BY <1>1, <1>3, <1>12
  <2>3. resumes
    BY <1>12
  <2>4. CASE known
    <3>1. contiguous => covered >= proved /\ start <= Larger(proved, horizon)
      BY <2>3, <2>4 DEF horizon
    <3>2. start <= Larger(proved, horizon) => start <= t
      BY <1>1, <1>3, <1>8, <2>1
    <3> HIDE DEF known, contiguous
    <3> QED  BY ONLY <1>1, <1>2, <1>3, <1>5, <1>7, <1>12, <2>1, <2>4, <3>1, <3>2
  <2>5. CASE ~known
    <3>1. last.start >= proved /\ last.start < last.end
      BY <1>1, <1>3, <1>12, <2>5
    <3>2. observed < last.end
      BY <1>1, <1>3, <2>2, <3>1
    <3> QED  BY <1>1, <1>2, <1>5, <1>12, <2>1, <2>5, <3>2
  <2> QED  BY <2>4, <2>5
<1> QED
  BY <1>9, <1>10, <1>11, <1>12 DEF claim, covered, horizon

-----------------------------------------------------------------------------
(* What a step leaves alone.                                               *)

\* A step that leaves a process its call, its locks, the history behind them
\* and what is stored leaves what is known of it.
LEMMA Others ==
    ASSUME CollectionAssumption, Typed, NEW q \in Process,
           Placed(q), Locking(q), Storing(q),
           call'[q] = call[q],
           \A l \in Locks : held[l] = q => held'[l] = q,
           since'[q] = since[q] \/ ~call[q].cycle \/ call[q].at = "cycle",
           \A x \in Program : held[x] = q => history'[x] = history[x],
           \A x \in Program : collected[x] \subseteq collected'[x]
    PROVE  Placed(q)' /\ Locking(q)' /\ Storing(q)'
<1>1. Placed(q)'
  BY DEF Placed
<1>2. Locking(q)'
  <2>1. call[q].at \in Holding => call[q].name \in Program
    BY DEF Placed
  <2>2. Program \subseteq Locks /\ ".update" \in Locks
    BY DEF Locks
  <2> QED  BY <2>1, <2>2 DEF Locking
<1>3. Storing(q)'
  <2>1. call[q].at \in {"remember", "failed"} =>
           call[q].name \in Program /\ history'[call[q].name] = history[call[q].name]
    BY DEF Placed, Locking, Holding
  <2> QED  BY <2>1 DEF Storing
<1> QED
  BY <1>1, <1>2, <1>3

\* While the history stays and evidence only grows, what it claims stays true.
LEMMA HistoryStays ==
    ASSUME Claims, HistoryIsTrue, history' = history,
           \A x \in Program : collected[x] \subseteq collected'[x]
    PROVE  Claims' /\ HistoryIsTrue'
  BY DEF Claims, HistoryIsTrue

\* A step that keeps what is stored and remembered, and all but one call.
LEMMA QuietStep ==
    ASSUME CollectionAssumption, IInv, NEW p \in Process, NEW c \in Calls,
           NEW h \in [Locks -> Process \cup {NoOne}],
           call' = [call EXCEPT ![p] = c], held' = h,
           UNCHANGED <<clock, history, collected, written>>,
           since' \in [Process -> SUBSET Program],
           \A q \in Process \ {p} :
              \/ since'[q] = since[q] \/ ~call[q].cycle \/ call[q].at = "cycle",
           \A l \in Locks : held[l] # p /\ held[l] # NoOne => h[l] = held[l],
           (Placed(p) /\ Locking(p) /\ Storing(p))'
    PROVE  IInv'
<1>1. Typed'
  BY DEF IInv, Typed
<1>2. ASSUME NEW q \in Process
      PROVE  (Placed(q) /\ Locking(q) /\ Storing(q))'
  <2>1. CASE q = p
    BY <2>1
  <2>2. CASE q # p
    <3>1. call'[q] = call[q]
      BY <2>2 DEF IInv, Typed
    <3>2. q # NoOne
      BY Facts
    <3> QED  BY <2>2, <3>1, <3>2, Others DEF IInv
  <2> QED  BY <2>1, <2>2
<1>3. Claims' /\ HistoryIsTrue'
  BY HistoryStays DEF IInv
<1> QED
  BY <1>1, <1>2, <1>3 DEF IInv

-----------------------------------------------------------------------------
(* Commands begin, and cycles list what is due.                            *)

LEMMA TypedCall ==
    ASSUME Typed, NEW p \in Process
    PROVE  /\ call[p] \in Calls /\ call \in [Process -> Calls]
           /\ held \in [Locks -> Process \cup {NoOne}]
           /\ since \in [Process -> SUBSET Program]
  BY DEF Typed

LEMMA IdleIsACall ==
    ASSUME CollectionAssumption
    PROVE  /\ Idle \in Calls
           /\ [Idle EXCEPT !.at = "cycle", !.cycle = TRUE] \in Calls
<1>1. Idle \in Calls
  <2>1. {} \in SUBSET Windows /\ 0 \in Int
    OBVIOUS
  <2> QED  BY <2>1 DEF Idle, Calls
<1>2. [Idle EXCEPT !.at = "cycle", !.cycle = TRUE] \in Calls
  BY <1>1 DEF Calls
<1> QED
  BY <1>1, <1>2

LEMMA UpdateKeeps ==
    ASSUME CollectionAssumption, IInv, NEW p \in Process, Update(p)
    PROVE  IInv'
<1> DEFINE c == [Idle EXCEPT !.at = "cycle", !.cycle = TRUE]
<1>1. Typed
  BY DEF IInv
<1>2. c \in Calls /\ c.at = "cycle" /\ c.cycle /\ c.name = NoOne /\ c.todo = {}
  BY IdleIsACall DEF Idle
<1>3. call' = [call EXCEPT ![p] = c] /\ call'[p] = c
  BY <1>1, TypedCall DEF Update
<1> HIDE DEF c
<1>4. (Placed(p) /\ Locking(p) /\ Storing(p))'
  BY <1>2, <1>3 DEF Placed, Locking, Storing, Holding
<1> QED
  BY <1>1, <1>2, <1>3, <1>4, QuietStep, TypedCall DEF Update

LEMMA EnterCycleKeeps ==
    ASSUME CollectionAssumption, IInv, NEW p \in Process, EnterCycle(p)
    PROVE  IInv'
<1> DEFINE list == {Window(x, clock) : x \in {y \in Program : Due(y, clock)}}
           c == [call[p] EXCEPT !.at = "next", !.now = clock, !.todo = list]
           h == [held EXCEPT ![".update"] = p]
<1>1. Typed /\ Placed(p) /\ Locking(p) /\ clock \in Time /\ clock \in Int
  BY Facts DEF IInv, Typed
<1>2. list \subseteq Windows
  BY <1>1, WindowsAreGiven
<1>3. \A w \in list : w.end = clock
  BY DEF Window
<1> HIDE DEF list
<1>4. c \in Calls /\ c.at = "next" /\ c.cycle = call[p].cycle /\ c.name = call[p].name /\ c.todo = list
      /\ c.now = clock
  BY <1>1, <1>2, TypedCall DEF Calls
<1>5. call' = [call EXCEPT ![p] = c] /\ call'[p] = c
  BY <1>1, TypedCall DEF EnterCycle, list
<1>6. h \in [Locks -> Process \cup {NoOne}] /\ held' = h /\ h[".update"] = p
      /\ held[".update"] = NoOne /\ \A l \in Locks : held[l] # NoOne => h[l] = held[l]
  BY <1>1, TypedCall DEF EnterCycle, Locks
<1>7. since' \in [Process -> SUBSET Program] /\ since'[p] = {} /\ \A q \in Process \ {p} : since'[q] = since[q]
  BY <1>1, TypedCall DEF EnterCycle
<1>8. call[p].name = NoOne /\ call[p].cycle
  BY <1>1 DEF EnterCycle, Placed
<1> HIDE DEF c, h
<1>9. (Placed(p) /\ Locking(p) /\ Storing(p))'
  <2>1. Placed(p)'
    BY <1>1, <1>3, <1>4, <1>5, <1>8 DEF Placed, Holding
  <2>2. Locking(p)'
    BY <1>4, <1>5, <1>6, <1>7 DEF Locking, Holding
  <2>3. Storing(p)'
    BY <1>4, <1>5 DEF Storing
  <2> QED  BY <2>1, <2>2, <2>3
<1> QED
  BY SMTT(30), <1>1, <1>4, <1>5, <1>6, <1>7, <1>9, QuietStep DEF EnterCycle

\* A command that is over holds nothing.
LEMMA NothingLeft ==
    ASSUME CollectionAssumption, IInv, NEW p \in Process,
           call' = [call EXCEPT ![p] = Idle], NEW h \in [Locks -> Process \cup {NoOne}], held' = h,
           \A l \in Locks : held[l] # p /\ held[l] # NoOne => h[l] = held[l],
           since' = [since EXCEPT ![p] = {}],
           UNCHANGED <<clock, history, collected, written>>
    PROVE  IInv'
<1>1. Typed
  BY DEF IInv
<1>2. call'[p] = Idle /\ Idle \in Calls
  BY <1>1, TypedCall, IdleIsACall
<1>3. Idle.at = "idle" /\ ~Idle.cycle /\ Idle.name = NoOne /\ Idle.todo = {}
  BY DEF Idle
<1>4. (Placed(p) /\ Locking(p) /\ Storing(p))'
  BY <1>2, <1>3 DEF Placed, Locking, Storing, Holding
<1>5. since' \in [Process -> SUBSET Program] /\ \A q \in Process \ {p} : since'[q] = since[q]
  BY <1>1, TypedCall
<1> HIDE DEF Idle
<1> QED
  BY <1>1, <1>2, <1>4, <1>5, QuietStep

\* Freeing the locks of a process frees no one else's.
LEMMA FreesOwn ==
    ASSUME CollectionAssumption, Typed, NEW p \in Process, NEW L
    PROVE  /\ Frees(p, L) \in [Locks -> Process \cup {NoOne}]
           /\ \A l \in Locks : held[l] # p => Frees(p, L)[l] = held[l]
           /\ \A l \in Locks : l \notin L => Frees(p, L)[l] = held[l]
  BY TypedCall DEF Frees

LEMMA CycleBusyKeeps ==
    ASSUME CollectionAssumption, IInv, NEW p \in Process, CycleBusy(p)
    PROVE  IInv'
<1>1. Typed
  BY DEF IInv
<1> QED
  BY <1>1, TypedCall, NothingLeft DEF CycleBusy

LEMMA CycleEndsKeeps ==
    ASSUME CollectionAssumption, IInv, NEW p \in Process, CycleEnds(p)
    PROVE  IInv'
<1>1. Typed
  BY DEF IInv
<1> QED
  <2> DEFINE h == Frees(p, {".update"})
  <2>1. /\ call' = [call EXCEPT ![p] = Idle] /\ held' = h /\ since' = [since EXCEPT ![p] = {}]
        /\ UNCHANGED <<clock, history, collected, written>>
    BY DEF CycleEnds
  <2>2. h \in [Locks -> Process \cup {NoOne}]
        /\ \A l \in Locks : held[l] # p /\ held[l] # NoOne => h[l] = held[l]
    BY <1>1, FreesOwn
  <2> HIDE DEF h, Idle
  <2> QED  BY <2>1, <2>2, NothingLeft

LEMMA KillKeeps ==
    ASSUME CollectionAssumption, IInv, NEW p \in Process, Kill(p)
    PROVE  IInv'
<1>1. Typed
  BY DEF IInv
<1> QED
  <2> DEFINE h == Frees(p, Locks)
  <2>1. /\ call' = [call EXCEPT ![p] = Idle] /\ held' = h /\ since' = [since EXCEPT ![p] = {}]
        /\ UNCHANGED <<clock, history, collected, written>>
    BY DEF Kill
  <2>2. h \in [Locks -> Process \cup {NoOne}]
        /\ \A l \in Locks : held[l] # p /\ held[l] # NoOne => h[l] = held[l]
    BY <1>1, FreesOwn
  <2> HIDE DEF h, Idle
  <2> QED  BY <2>1, <2>2, NothingLeft

LEMMA NextProgramKeeps ==
    ASSUME CollectionAssumption, IInv, NEW p \in Process, NextProgram(p)
    PROVE  IInv'
<1>1. Typed /\ Placed(p) /\ Locking(p)
  BY DEF IInv
<1>2. PICK w \in call[p].todo :
        call' = [call EXCEPT ![p].at = "lock", ![p].todo = @ \ {w}, ![p].name = w.name,
                             ![p].start = w.start, ![p].end = w.end, ![p].revisit = w.revisit]
  BY DEF NextProgram
<1>3. w \in Windows /\ call[p] \in Calls /\ w.start \in Int /\ w.end \in Int
  BY <1>1, TypedCall, Facts DEF Calls, Windows
<1> DEFINE c == [call[p] EXCEPT !.at = "lock", !.todo = @ \ {w}, !.name = w.name,
                             !.start = w.start, !.end = w.end, !.revisit = w.revisit]
<1>4. c \in Calls
  BY <1>3 DEF Calls, Windows
<1>5. /\ c.at = "lock" /\ c.cycle = call[p].cycle /\ c.name = w.name /\ c.todo \subseteq call[p].todo
      /\ c.start = w.start /\ c.end = w.end /\ c.now = call[p].now
  BY <1>3 DEF Calls
<1>6. call' = [call EXCEPT ![p] = c] /\ call'[p] = c
  BY <1>1, <1>2, TypedCall
<1> HIDE DEF c
<1>7. /\ w.name \in Program /\ w.start \in Instant /\ w.end \in Time /\ w.start < w.end
      /\ call[p].now \in Time /\ w.end = call[p].now
      /\ \A v \in call[p].todo : v.end = call[p].now
  BY <1>1, <1>3 DEF Windows, Placed, NextProgram
<1>8. (Placed(p) /\ Locking(p) /\ Storing(p))'
  <2>1. Placed(p)'
    BY <1>5, <1>6, <1>7 DEF Placed, Holding
  <2>2. Locking(p)'
    BY <1>1, <1>5, <1>6 DEF Locking, Holding, NextProgram
  <2>3. Storing(p)'
    BY <1>5, <1>6 DEF Storing
  <2> QED  BY <2>1, <2>2, <2>3
<1> QED
  BY <1>1, <1>4, <1>6, <1>8, QuietStep, TypedCall DEF NextProgram

LEMMA RunRoutineKeeps ==
    ASSUME CollectionAssumption, IInv, NEW p \in Process, NEW r \in Routine, RunRoutine(p, r)
    PROVE  IInv'
<1> DEFINE c == [Idle EXCEPT !.at = "lock", !.now = clock, !.name = r,
                             !.start = RoutineStart(r, clock), !.end = clock]
<1>1. Typed /\ clock \in Time /\ clock \in Int /\ r \in Program /\ r \notin Sensor
  BY Facts DEF IInv, Typed, Program
<1>2. Window(r, clock) \in Windows /\ Window(r, clock).start = RoutineStart(r, clock)
      /\ Window(r, clock).end = clock
  BY <1>1, WindowsAreGiven DEF Window
<1>3. RoutineStart(r, clock) \in Instant /\ RoutineStart(r, clock) < clock /\ RoutineStart(r, clock) \in Int
  BY <1>2, Facts DEF Windows
<1>4. c \in Calls /\ c.at = "lock" /\ ~c.cycle /\ c.name = r /\ c.todo = {} /\ c.now = clock
      /\ c.start = RoutineStart(r, clock) /\ c.end = clock
  BY <1>1, <1>3 DEF Idle, Calls
<1>5. call' = [call EXCEPT ![p] = c] /\ call'[p] = c
  BY <1>1, TypedCall DEF RunRoutine
<1> HIDE DEF c
<1>6. (Placed(p) /\ Locking(p) /\ Storing(p))'
  BY <1>1, <1>3, <1>4, <1>5 DEF Placed, Locking, Storing, Holding
<1> QED
  BY <1>1, <1>4, <1>5, <1>6, QuietStep, TypedCall DEF RunRoutine

LEMMA CollectKeeps ==
    ASSUME CollectionAssumption, IInv, NEW p \in Process, NEW s \in Sensor,
           NEW start \in Time, NEW end \in Time, Collect(p, s, start, end)
    PROVE  IInv'
<1> DEFINE c == [Idle EXCEPT !.at = "run", !.now = clock, !.name = s, !.start = start, !.end = end]
           h == [held EXCEPT ![s] = p]
<1>1. /\ Typed /\ clock \in Time /\ clock \in Int /\ s \in Program /\ s \notin Routine /\ s \in Locks
      /\ start \in Int /\ end \in Int /\ start \in Instant /\ start < end
  BY Facts DEF IInv, Typed, Program, Locks, Collect
<1>2. c \in Calls /\ c.at = "run" /\ ~c.cycle /\ c.name = s /\ c.todo = {} /\ c.now = clock
      /\ c.start = start /\ c.end = end
  BY <1>1 DEF Idle, Calls
<1>3. call' = [call EXCEPT ![p] = c] /\ call'[p] = c
  BY <1>1, TypedCall DEF Collect
<1>4. h \in [Locks -> Process \cup {NoOne}] /\ held' = h /\ h[s] = p
      /\ \A l \in Locks : held[l] # NoOne => h[l] = held[l]
  BY <1>1, TypedCall DEF Collect
<1> HIDE DEF c, h
<1>5. (Placed(p) /\ Locking(p) /\ Storing(p))'
  BY <1>1, <1>2, <1>3, <1>4 DEF Placed, Locking, Storing, Holding
<1> QED
  <2>1. UNCHANGED <<clock, history, collected, written>> /\ since' = since
    BY DEF Collect
  <2>2. since \in [Process -> SUBSET Program] /\ c \in Calls
    BY <1>1, <1>2, TypedCall
  <2>3. \A q \in Process \ {p} : since'[q] = since[q]
    BY <2>1
  <2>4. \A l \in Locks : held[l] # p /\ held[l] # NoOne => h[l] = held[l]
    BY <1>4
  <2>5. since' \in [Process -> SUBSET Program] /\ held' = h /\ h \in [Locks -> Process \cup {NoOne}]
        /\ call' = [call EXCEPT ![p] = c]
    BY <1>3, <1>4, <2>1, <2>2
  <2> QED  BY ONLY CollectionAssumption, IInv, p \in Process, <1>5, <2>1, <2>2, <2>3, <2>4, <2>5, QuietStep

-----------------------------------------------------------------------------
(* One run.                                                                *)

\* When a run ends, its cycle goes on with the rest of its list, or nothing is
\* left of the command.
LEMMA EndsIs ==
    ASSUME CollectionAssumption, Typed, NEW p \in Process, Placed(p),
           call[p].at \in Holding \cup {"lock"}, Ends(p)
    PROVE  \E c \in Calls :
              /\ call' = [call EXCEPT ![p] = c] /\ call'[p] = c
              /\ c.at \in {"idle", "next"} /\ c.cycle = call[p].cycle
              /\ Placed(p)'
<1>1. CASE call[p].cycle
  <2> DEFINE c == [Idle EXCEPT !.at = "next", !.now = call[p].now, !.todo = call[p].todo, !.cycle = TRUE]
  <2>1. c \in Calls
    <3>1. Idle \in Calls /\ call[p] \in Calls
      BY IdleIsACall, TypedCall
    <3> QED  BY <3>1 DEF Calls
  <2>2. c.at = "next" /\ c.now = call[p].now /\ c.todo = call[p].todo /\ c.cycle = TRUE /\ c.name = NoOne
    BY DEF Idle
  <2>3. call' = [call EXCEPT ![p] = c] /\ call'[p] = c
    BY <1>1, TypedCall DEF Ends
  <2> HIDE DEF c
  <2>4. call[p].now \in Time /\ \A w \in call[p].todo : w.end = call[p].now
    BY DEF Placed, Holding
  <2>5. Placed(p)'
    BY <2>2, <2>3, <2>4 DEF Placed, Holding
  <2> QED  BY <1>1, <2>1, <2>2, <2>3, <2>5
<1>2. CASE ~call[p].cycle
  <2>1. call' = [call EXCEPT ![p] = Idle] /\ call'[p] = Idle
    BY <1>2, TypedCall DEF Ends
  <2>2. Idle \in Calls /\ call[p] \in Calls
    BY IdleIsACall, TypedCall
  <2>3. Idle.at = "idle" /\ Idle.cycle = FALSE /\ Idle.name = NoOne /\ Idle.todo = {}
    BY DEF Idle
  <2> HIDE DEF Idle
  <2>4. Placed(p)'
    BY <2>1, <2>3 DEF Placed, Holding
  <2>5. call[p].cycle = FALSE
    BY <1>2, <2>2 DEF Calls
  <2> QED  BY <2>1, <2>2, <2>3, <2>4, <2>5
<1> QED
  BY <1>1, <1>2

\* Moving on changes nothing else of a call.
LEMMA ToIs ==
    ASSUME Typed, NEW p \in Process,
           NEW at \in {"idle", "cycle", "next", "lock", "run", "remember", "failed"}, To(p, at)
    PROVE  LET c == [call[p] EXCEPT !.at = at]
           IN  /\ c \in Calls /\ call' = [call EXCEPT ![p] = c] /\ call'[p] = c
               /\ c.at = at /\ c.now = call[p].now /\ c.todo = call[p].todo /\ c.cycle = call[p].cycle
               /\ c.name = call[p].name /\ c.start = call[p].start /\ c.end = call[p].end
               /\ c.skipped = call[p].skipped
<1>1. call[p] \in Calls
  BY TypedCall
<1> QED
  BY <1>1, TypedCall DEF To, Calls

LEMMA LockKeeps ==
    ASSUME CollectionAssumption, IInv, NEW p \in Process, Lock(p)
    PROVE  IInv'
<1>1. Typed /\ Placed(p) /\ Locking(p) /\ call[p].at = "lock"
  BY DEF IInv, Lock
<1>2. UNCHANGED <<clock, history, collected, written>>
  BY DEF Lock
<1>3. CASE held[call[p].name] = NoOne
  <2> DEFINE h == [held EXCEPT ![call[p].name] = p]
             c == [call[p] EXCEPT !.at = "run"]
  <2>1. held' = h /\ To(p, "run")
        /\ since' = [q \in Process |-> IF call[p].cycle /\ q # p /\ call[q].cycle
                                       THEN since[q] \cup {call[p].name} ELSE since[q]]
    BY <1>3 DEF Lock
  <2>2. call[p].name \in Program /\ call[p].name \in Locks /\ call[p].name # ".update"
    BY <1>1, Facts DEF Placed, Locks
  <2>3. h \in [Locks -> Process \cup {NoOne}] /\ h[call[p].name] = p /\ h[".update"] = held[".update"]
        /\ \A l \in Locks : held[l] # NoOne => h[l] = held[l]
    BY <1>1, <1>3, <2>2, TypedCall DEF Locks
  <2>4. /\ c \in Calls /\ call' = [call EXCEPT ![p] = c] /\ call'[p] = c
        /\ c.at = "run" /\ c.now = call[p].now /\ c.todo = call[p].todo /\ c.cycle = call[p].cycle
        /\ c.name = call[p].name /\ c.start = call[p].start /\ c.end = call[p].end
    BY <1>1, <2>1, ToIs
  <2>5. since' \in [Process -> SUBSET Program]
    BY <1>1, <2>1, <2>2, TypedCall
  <2>6. since'[p] = since[p]
    BY <2>1
  <2>7. ASSUME NEW q \in Process \ {p}
        PROVE  since'[q] = since[q] \/ ~call[q].cycle \/ call[q].at = "cycle"
    <3>1. Locking(q)
      BY DEF IInv
    <3>2. call[p].cycle => held[".update"] = p
      BY <1>1 DEF Locking
    <3>3. call[q].cycle /\ call[q].at # "cycle" => held[".update"] = q
      BY <3>1 DEF Locking
    <3> QED  BY <2>1, <3>2, <3>3
  <2> HIDE DEF h, c
  <2>8. Placed(p)'
    BY <1>1, <2>4 DEF Placed, Holding
  <2>9. Locking(p)'
    BY <1>1, <2>1, <2>3, <2>4, <2>6 DEF Locking
  <2>10. Storing(p)'
    BY <2>4 DEF Storing
  <2> QED  BY <1>2, <2>1, <2>3, <2>4, <2>5, <2>7, <2>8, <2>9, <2>10, QuietStep
<1>4. CASE held[call[p].name] # NoOne
  <2>1. Ends(p) /\ held' = held /\ since' = since
    BY <1>4 DEF Lock
  <2>2. PICK c \in Calls :
           /\ call' = [call EXCEPT ![p] = c] /\ call'[p] = c
           /\ c.at \in {"idle", "next"} /\ c.cycle = call[p].cycle
           /\ Placed(p)'
    BY <1>1, <2>1, EndsIs
  <2>3. Locking(p)'
    BY <1>1, <2>1, <2>2 DEF Locking, Holding
  <2>4. Storing(p)'
    BY <2>2 DEF Storing
  <2> QED  BY <1>1, <1>2, <2>1, <2>2, <2>3, <2>4, QuietStep, TypedCall
<1> QED
  BY <1>3, <1>4

LEMMA FailsKeeps ==
    ASSUME CollectionAssumption, IInv, NEW p \in Process, Fails(p)
    PROVE  IInv'
<1> DEFINE c == [call[p] EXCEPT !.at = "failed"]
<1>1. Typed /\ Placed(p) /\ Locking(p) /\ call[p].at = "run"
      /\ history[call[p].name].failures < MaxFailures /\ To(p, "failed")
      /\ UNCHANGED <<clock, history, collected, written, held, since>>
  BY DEF IInv, Fails
<1>2. /\ c \in Calls /\ call' = [call EXCEPT ![p] = c] /\ call'[p] = c
      /\ c.at = "failed" /\ c.now = call[p].now /\ c.todo = call[p].todo /\ c.cycle = call[p].cycle
      /\ c.name = call[p].name /\ c.start = call[p].start /\ c.end = call[p].end
  BY <1>1, ToIs
<1> HIDE DEF c
<1>3. Placed(p)'
  BY <1>1, <1>2 DEF Placed, Holding
<1>4. Locking(p)'
  BY <1>1, <1>2 DEF Locking, Holding
<1>5. Storing(p)'
  BY <1>1, <1>2 DEF Storing
<1> QED
  BY <1>1, <1>2, <1>3, <1>4, <1>5, QuietStep, TypedCall

LEMMA ForgetsKeeps ==
    ASSUME CollectionAssumption, IInv, NEW p \in Process, Forgets(p)
    PROVE  IInv'
<1> DEFINE c == [call[p] EXCEPT !.at = "failed"]
           h == Frees(p, {"writer"})
<1>1. Typed /\ Placed(p) /\ Locking(p) /\ call[p].at = "remember"
      /\ history[call[p].name].failures < MaxFailures /\ To(p, "failed") /\ held' = h
      /\ UNCHANGED <<clock, history, collected, written, since>>
  BY DEF IInv, Forgets
<1>2. /\ c \in Calls /\ call' = [call EXCEPT ![p] = c] /\ call'[p] = c
      /\ c.at = "failed" /\ c.now = call[p].now /\ c.todo = call[p].todo /\ c.cycle = call[p].cycle
      /\ c.name = call[p].name /\ c.start = call[p].start /\ c.end = call[p].end
  BY <1>1, ToIs
<1>3. /\ h \in [Locks -> Process \cup {NoOne}]
      /\ \A l \in Locks : held[l] # p => h[l] = held[l]
      /\ \A l \in Locks : l # "writer" => h[l] = held[l]
  BY <1>1, FreesOwn
<1>4. call[p].name \in Locks /\ call[p].name # "writer" /\ ".update" \in Locks /\ ".update" # "writer"
  BY <1>1, Facts DEF Placed, Holding, Locks
<1> HIDE DEF c, h
<1>5. Placed(p)'
  BY <1>1, <1>2 DEF Placed, Holding
<1>6. Locking(p)'
  BY <1>1, <1>2, <1>3, <1>4 DEF Locking, Holding
<1>7. Storing(p)'
  BY <1>1, <1>2 DEF Storing
<1> QED
  BY <1>1, <1>2, <1>3, <1>5, <1>6, <1>7, QuietStep, TypedCall

LEMMA StoreKeeps ==
    ASSUME CollectionAssumption, IInv, NEW p \in Process, Store(p)
    PROVE  IInv'
<1>1. /\ Typed /\ Placed(p) /\ Locking(p) /\ call[p].at = "run" /\ held["writer"] = NoOne
      /\ held' = [held EXCEPT !["writer"] = p]
      /\ UNCHANGED <<clock, history, since, budget>>
  BY DEF IInv, Store
<1>2. PICK text \in (IF call[p].name \in Routine THEN BOOLEAN ELSE {FALSE}) :
         LET x == call[p].name
             day == DayOf(call[p].now)
             skips == text /\ written[x][day] > 0
         IN  /\ call' = [call EXCEPT ![p].at = "remember", ![p].skipped = skips]
             /\ written' = IF text /\ ~skips
                           THEN [written EXCEPT ![x][day] = @ + 1] ELSE written
             /\ collected' = IF skips THEN collected
                             ELSE [collected EXCEPT ![x] =
                                     @ \cup (call[p].start..(Smaller(call[p].end, call[p].now) - 1))]
  BY DEF Store
<1> DEFINE x == call[p].name
           day == DayOf(call[p].now)
           skips == text /\ written[x][day] > 0
           c == [call[p] EXCEPT !.at = "remember", !.skipped = skips]
           covered == Smaller(call[p].end, call[p].now)
<1>3. /\ x \in Program /\ x # "writer" /\ x # ".update" /\ x \in Locks /\ ".update" \in Locks
      /\ "writer" \in Locks /\ held[x] = p
      /\ call[p].start \in Instant /\ call[p].end \in Time /\ call[p].now \in Time /\ call[p] \in Calls
  BY <1>1, Facts, TypedCall DEF Placed, Holding, Locks, Locking
<1>4. day \in Days
  BY <1>3 DEF Days
<1>5. text \in BOOLEAN /\ (x \notin Routine => ~text) /\ skips \in BOOLEAN
  BY <1>2
<1>6. /\ c \in Calls /\ c.at = "remember" /\ c.skipped = skips
      /\ c.now = call[p].now /\ c.todo = call[p].todo /\ c.cycle = call[p].cycle
      /\ c.name = call[p].name /\ c.start = call[p].start /\ c.end = call[p].end
  <2> HIDE DEF skips, x
  <2> QED  BY <1>3, <1>5 DEF Calls
<1>7. call' = [call EXCEPT ![p] = c] /\ call'[p] = c /\ \A q \in Process \ {p} : call'[q] = call[q]
  BY <1>1, <1>2, TypedCall
<1>8. covered \in Time /\ covered \in Int
  <2>1. call[p].end \in Int /\ call[p].now \in Int
    BY <1>3, Facts
  <2> QED  BY <1>3, <2>1, SmallerIs
<1>9. call[p].start..(covered - 1) \subseteq Instant
  <2>1. ASSUME NEW t \in call[p].start..(covered - 1)
        PROVE  t \in Instant
    <3> HIDE DEF covered
    <3> QED  BY <1>3, <1>8, Facts DEF Instant, Time, CollectionAssumption
  <2> QED  BY <2>1
<1>10. /\ \A y \in Program : collected[y] \subseteq collected'[y]
       /\ collected' \in [Program -> SUBSET Instant]
       /\ ~skips => call[p].start..(covered - 1) \subseteq collected'[x]
  <2>1. collected \in [Program -> SUBSET Instant]
    BY <1>1 DEF Typed
  <2>2. collected' = IF skips THEN collected
                     ELSE [collected EXCEPT ![x] = @ \cup (call[p].start..(covered - 1))]
    BY <1>2
  <2> HIDE DEF skips, x, covered
  <2> QED  BY <1>3, <1>9, <2>1, <2>2
<1>11. written' \in [Routine -> [Days -> 0..1]]
  <2>1. written \in [Routine -> [Days -> 0..1]]
    BY <1>1 DEF Typed
  <2>2. CASE text /\ ~skips
    <3>1. written' = [written EXCEPT ![x][day] = @ + 1]
      BY <1>2, <2>2
    <3>2. x \in Routine
      BY <1>5, <2>2
    <3>3. written[x] \in [Days -> 0..1] /\ written[x][day] = 0
      BY <1>4, <2>1, <2>2, <3>2
    <3>4. [written[x] EXCEPT ![day] = @ + 1] \in [Days -> 0..1]
      BY <1>4, <3>3
    <3>5. written' = [written EXCEPT ![x] = [written[x] EXCEPT ![day] = @ + 1]]
      BY <2>1, <3>1, <3>2
    <3> HIDE DEF x, day
    <3> QED  BY <2>1, <3>2, <3>4, <3>5
  <2>3. CASE ~(text /\ ~skips)
    BY <1>2, <2>1, <2>3
  <2> QED  BY <2>2, <2>3
<1>12. held' \in [Locks -> Process \cup {NoOne}]
       /\ \A l \in Locks : held[l] # NoOne => held'[l] = held[l]
  BY <1>1, <1>3, TypedCall
<1> HIDE DEF c, covered, skips, day
<1>13. Typed'
  BY <1>1, <1>6, <1>7, <1>10, <1>11, <1>12 DEF Typed
<1>14. Placed(p)'
  BY <1>1, <1>6, <1>7 DEF Placed, Holding
<1>15. Locking(p)'
  BY <1>1, <1>3, <1>6, <1>7, <1>12, Facts DEF Locking, Holding
<1>16. Storing(p)'
  <2>1. x \in Sensor => ~skips
    BY <1>5, Facts DEF skips
  <2>2. ASSUME NEW t \in Instant, ~skips, call[p].start <= t, t < covered
        PROVE  t \in collected'[x]
    <3>1. t \in Int /\ call[p].start \in Int
      BY <1>3, Facts
    <3>2. t \in call[p].start..(covered - 1)
      BY <1>8, <2>2, <3>1
    <3> QED  BY <1>10, <2>2, <3>2
  <2>3. \A t \in Instant : c.start <= t /\ t < Smaller(c.end, c.now) /\ ~skips => t \in collected'[c.name]
    BY <1>6, <2>2 DEF covered
  <2> QED  BY <1>6, <1>7, <2>1, <2>3 DEF Storing
<1>17. ASSUME NEW q \in Process
       PROVE  (Placed(q) /\ Locking(q) /\ Storing(q))'
  <2>1. CASE q # p
    <3>1. q # NoOne /\ Placed(q) /\ Locking(q) /\ Storing(q) /\ call'[q] = call[q]
      BY <1>7, <2>1, Facts DEF IInv
    <3> QED  BY <1>1, <1>10, <1>12, <3>1, Others
  <2> QED  BY <1>14, <1>15, <1>16, <2>1
<1>18. Claims' /\ HistoryIsTrue'
  BY <1>1, <1>10, HistoryStays DEF IInv
<1> QED
  BY <1>13, <1>17, <1>18 DEF IInv

-----------------------------------------------------------------------------
(* The run history.                                                        *)

\* A run that ends with a new entry of its program in the history.
LEMMA RunEnds ==
    ASSUME CollectionAssumption, IInv, NEW p \in Process,
           call[p].at \in Holding, Finished(p), NEW entry \in Entries,
           history' = [history EXCEPT ![call[p].name] = entry],
           entry.end # Unset => entry.start < entry.end /\ entry.run # Unset,
           \A t \in Instant :
              entry.start <= t /\ t < entry.end => t \in collected[call[p].name],
           UNCHANGED <<clock, collected, written, since>>
    PROVE  IInv'
<1> DEFINE h == Frees(p, {call[p].name, "writer"})
<1>1. Typed /\ Placed(p) /\ Locking(p) /\ Claims /\ HistoryIsTrue /\ held' = h /\ Ends(p)
  BY DEF IInv, Finished
<1>2. PICK c \in Calls :
         /\ call' = [call EXCEPT ![p] = c] /\ call'[p] = c
         /\ c.at \in {"idle", "next"} /\ c.cycle = call[p].cycle
         /\ Placed(p)'
  BY <1>1, EndsIs
<1>3. /\ h \in [Locks -> Process \cup {NoOne}]
      /\ \A l \in Locks : held[l] # p => h[l] = held[l]
      /\ h[".update"] = held[".update"]
  <2>1. call[p].name # ".update" /\ ".update" \in Locks
    BY <1>1, Facts DEF Placed, Locks
  <2> QED  BY <1>1, <2>1, FreesOwn
<1> HIDE DEF h
<1>4. call[p].name \in Program /\ held[call[p].name] = p
  BY <1>1 DEF Placed, Locking
<1>5. history \in [Program -> Entries] /\ history' \in [Program -> Entries]
      /\ history'[call[p].name] = entry
      /\ \A y \in Program \ {call[p].name} : history'[y] = history[y]
  BY <1>1, <1>4 DEF Typed
<1>6. Typed'
  BY <1>1, <1>2, <1>3, <1>5 DEF Typed
<1>7. Locking(p)'
  BY <1>1, <1>2, <1>3 DEF Locking, Holding
<1>8. Storing(p)'
  BY <1>2 DEF Storing
<1>9. ASSUME NEW q \in Process
      PROVE  (Placed(q) /\ Locking(q) /\ Storing(q))'
  <2>1. CASE q # p
    <3>1. Placed(q) /\ Locking(q) /\ Storing(q)
      BY DEF IInv
    <3>2. call'[q] = call[q]
      BY <1>1, <1>2, <2>1, TypedCall
    <3>3. \A l \in Locks : held[l] = q => held'[l] = q
      BY <1>1, <1>3, <2>1
    <3>4. \A y \in Program : held[y] = q => history'[y] = history[y]
      BY <1>4, <1>5, <2>1
    <3> QED  BY <1>1, <3>1, <3>2, <3>3, <3>4, Others
  <2> QED  BY <1>2, <1>7, <1>8, <2>1
<1>10. Claims'
  BY <1>1, <1>5 DEF Claims
<1>11. HistoryIsTrue'
  BY <1>1, <1>5 DEF HistoryIsTrue
<1> QED
  BY <1>6, <1>9, <1>10, <1>11 DEF IInv

\* What the history says of a sensor's run: a claim whose every instant was
\* stored, and no jump over what was not.
LEMMA SensorEntryIs ==
    ASSUME CollectionAssumption, IInv, NEW p \in Process,
           call[p].at = "remember", call[p].name \in Sensor
    PROVE  LET x == call[p].name
               entry == SensorEntry(p)
           IN  /\ entry \in Entries
               /\ entry.end # Unset => entry.start < entry.end /\ entry.run # Unset
               /\ \A t \in Instant : entry.start <= t /\ t < entry.end => t \in collected[x]
               /\ Resumes(x) /\ history[x].end <= history[x].run =>
                     \A t \in Instant :
                        Larger(history[x].end, entry.run - CatchUp) <= t /\ t < entry.end =>
                        t \in collected[x]
<1> DEFINE x == call[p].name
           last == history[x]
           new == Coverage(x, last, call[p].start, call[p].end, call[p].now)
           entry == SensorEntry(p)
<1>1. /\ Typed /\ Placed(p) /\ Storing(p) /\ Claims /\ HistoryIsTrue /\ x \in Program /\ last \in Entries
      /\ call[p] \in Calls
  BY TypedCall DEF IInv, Typed, Program
<1>2. /\ call[p].start \in Instant /\ call[p].end \in Time /\ call[p].now \in Time
      /\ call[p].start < call[p].end
  BY <1>1 DEF Placed, Holding
<1>3. last.end # Unset => last.start < last.end /\ last.run # Unset
  BY <1>1 DEF Claims
<1>4. /\ new.claim.start \in {Unset} \cup Instant
      /\ new.claim.end \in {Unset} \cup Time
      /\ new.claim.end # Unset => new.claim.start < new.claim.end
      /\ \A t \in Instant :
            new.claim.start <= t /\ t < new.claim.end =>
            \/ last.start <= t /\ t < last.end
            \/ call[p].start <= t /\ t < Smaller(call[p].end, call[p].now)
      /\ Refresh[x] > 0 /\ x \notin Snapshots /\ last.end # Unset /\ last.end <= last.run =>
            \A t \in Instant :
               Larger(last.end, call[p].now - CatchUp) <= t /\ t < new.claim.end =>
               call[p].start <= t /\ t < Smaller(call[p].end, call[p].now)
  <2> HIDE DEF x, last
  <2> SUFFICES LET new2 == Coverage(x, last, call[p].start, call[p].end, call[p].now)
               IN  /\ new2.claim.start \in {Unset} \cup Instant
                   /\ new2.claim.end \in {Unset} \cup Time
                   /\ new2.claim.end # Unset => new2.claim.start < new2.claim.end
                   /\ \A t \in Instant :
                         new2.claim.start <= t /\ t < new2.claim.end =>
                         \/ last.start <= t /\ t < last.end
                         \/ call[p].start <= t /\ t < Smaller(call[p].end, call[p].now)
                   /\ Refresh[x] > 0 /\ x \notin Snapshots /\ last.end # Unset /\ last.end <= last.run =>
                         \A t \in Instant :
                            Larger(last.end, call[p].now - CatchUp) <= t /\ t < new2.claim.end =>
                            call[p].start <= t /\ t < Smaller(call[p].end, call[p].now)
    OBVIOUS
  <2>1. x \in Sensor
    BY DEF x
  <2> QED  BY ONLY CollectionAssumption, <1>1, <1>2, <1>3, <2>1, CoverageClaims
<1>5. entry = [last EXCEPT !.run = call[p].now, !.failures = 0,
                           !.start = new.claim.start, !.end = new.claim.end,
                           !.success = IF new.latest THEN call[p].now ELSE @,
                           !.reconciled = IF call[p].revisit /\ new.latest THEN call[p].now ELSE @]
  BY DEF SensorEntry
<1> HIDE DEF entry, new
<1>6. /\ entry \in Entries /\ entry.run = call[p].now
      /\ entry.start = new.claim.start /\ entry.end = new.claim.end
  <2>1. MaxFailures \in Nat /\ 0 \in 0..MaxFailures
    BY Facts
  <2>2. last \in Entries /\ call[p].now \in Time
    BY <1>1, <1>2
  <2> DEFINE a == IF new.latest THEN call[p].now ELSE last.success
             b == IF call[p].revisit /\ new.latest THEN call[p].now ELSE last.reconciled
  <2>3. a \in {Unset} \cup Time /\ b \in {Unset} \cup Time
    BY <2>2 DEF Entries
  <2>4. entry = [last EXCEPT !.run = call[p].now, !.failures = 0,
                             !.start = new.claim.start, !.end = new.claim.end,
                             !.success = a, !.reconciled = b]
    BY <1>5, <2>2 DEF Entries
  <2> HIDE DEF a, b, last
  <2> QED  BY <1>4, <2>1, <2>2, <2>3, <2>4 DEF Entries
<1>7. call[p].skipped = FALSE
  BY <1>1 DEF Storing, Calls
<1>8. \A t \in Instant :
         call[p].start <= t /\ t < Smaller(call[p].end, call[p].now) => t \in collected[x]
  BY <1>1, <1>7 DEF Storing
<1>9. \A t \in Instant : last.start <= t /\ t < last.end => t \in collected[x]
  BY <1>1 DEF HistoryIsTrue
<1>10. \A t \in Instant : entry.start <= t /\ t < entry.end => t \in collected[x]
  BY <1>4, <1>6, <1>8, <1>9
<1>11. entry.end # Unset => entry.start < entry.end /\ entry.run # Unset
  BY <1>2, <1>4, <1>6, Facts
<1>12. ASSUME Resumes(x), last.end <= last.run, NEW t \in Instant,
              Larger(last.end, entry.run - CatchUp) <= t, t < entry.end
       PROVE  t \in collected[x]
  <2>1. Refresh[x] > 0 /\ x \notin Snapshots /\ last.end # Unset
    BY <1>12 DEF Resumes
  <2> QED  BY <1>4, <1>6, <1>8, <1>12, <2>1
<1> QED
  BY <1>6, <1>10, <1>11, <1>12 DEF entry

\* What it says of a routine's run.
LEMMA RoutineEntryIs ==
    ASSUME CollectionAssumption, IInv, NEW p \in Process,
           call[p].at = "remember", call[p].name \in Routine
    PROVE  LET x == call[p].name
               entry == RoutineEntry(p)
           IN  /\ entry \in Entries
               /\ entry.end # Unset => entry.start < entry.end /\ entry.run # Unset
               /\ \A t \in Instant : entry.start <= t /\ t < entry.end => t \in collected[x]
<1> DEFINE x == call[p].name
           last == history[x]
           entry == RoutineEntry(p)
           c == call[p]
<1>1. /\ Typed /\ Placed(p) /\ Storing(p) /\ Claims /\ HistoryIsTrue /\ x \in Program /\ last \in Entries
      /\ call[p] \in Calls
  BY TypedCall DEF IInv, Typed, Program
<1>2. c.start \in Instant /\ c.end \in Time /\ c.now \in Time /\ c.start < c.end /\ c.end = c.now
  BY <1>1 DEF Placed, Holding
<1>3. entry = [last EXCEPT !.run = c.now, !.success = c.now, !.failures = 0,
                           !.start = IF c.skipped THEN @ ELSE c.start,
                           !.end = IF c.skipped THEN @ ELSE c.end]
  BY DEF RoutineEntry
<1> HIDE DEF entry
<1>4. /\ entry \in Entries /\ entry.run = c.now
      /\ entry.start = (IF c.skipped THEN last.start ELSE c.start)
      /\ entry.end = (IF c.skipped THEN last.end ELSE c.end)
  <2>1. MaxFailures \in Nat /\ 0 \in 0..MaxFailures
    BY Facts
  <2>2. last \in Entries
    BY <1>1
  <2> HIDE DEF last, c
  <2> QED  BY <1>2, <1>3, <2>1, <2>2 DEF Entries
<1>5. Smaller(c.end, c.now) = c.end
  BY <1>2, Facts, SmallerIs
<1>6. \A t \in Instant : ~c.skipped /\ c.start <= t /\ t < c.end => t \in collected[x]
  BY <1>1, <1>5 DEF Storing
<1>7. \A t \in Instant : last.start <= t /\ t < last.end => t \in collected[x]
  BY <1>1 DEF HistoryIsTrue
<1>8. \A t \in Instant : entry.start <= t /\ t < entry.end => t \in collected[x]
  BY <1>4, <1>6, <1>7
<1>9. entry.end # Unset => entry.start < entry.end /\ entry.run # Unset
  BY <1>1, <1>2, <1>4, Facts DEF Claims
<1> QED
  BY <1>4, <1>8, <1>9 DEF entry

LEMMA RememberKeeps ==
    ASSUME CollectionAssumption, IInv, NEW p \in Process, Remember(p)
    PROVE  IInv'
<1>1. /\ call[p].at = "remember" /\ call[p].at \in Holding /\ Finished(p)
      /\ UNCHANGED <<clock, collected, written, since>>
  BY DEF Remember, Holding
<1>2. call[p].name \in Program
  BY <1>1 DEF IInv, Placed
<1>3. CASE call[p].name \in Sensor
  <2>1. history' = [history EXCEPT ![call[p].name] = SensorEntry(p)]
    BY <1>3 DEF Remember
  <2> QED  BY <1>1, <1>3, <2>1, SensorEntryIs, RunEnds
<1>4. CASE call[p].name \notin Sensor
  <2>1. history' = [history EXCEPT ![call[p].name] = RoutineEntry(p)]
    BY <1>4 DEF Remember
  <2>2. call[p].name \in Routine
    BY <1>2, <1>4 DEF Program
  <2> QED  BY <1>1, <2>1, <2>2, RoutineEntryIs, RunEnds
<1> QED
  BY <1>3, <1>4

LEMMA FailedKeeps ==
    ASSUME CollectionAssumption, IInv, NEW p \in Process, Failed(p)
    PROVE  IInv'
<1> DEFINE x == call[p].name
<1>1. /\ Typed /\ Placed(p) /\ Storing(p) /\ Claims /\ HistoryIsTrue
      /\ call[p].at = "failed" /\ call[p].at \in Holding /\ Finished(p)
      /\ UNCHANGED <<clock, collected, written, since>>
      /\ (\/ history' = [history EXCEPT ![x].run = call[p].now, ![x].failures = @ + 1]
          \/ history' = history)
  BY DEF IInv, Failed, Holding
<1>2. x \in Program /\ call[p].now \in Time /\ history[x] \in Entries
      /\ history[x].failures < MaxFailures /\ history \in [Program -> Entries]
  BY <1>1 DEF Placed, Storing, Typed
<1>3. /\ \A t \in Instant : history[x].start <= t /\ t < history[x].end => t \in collected[x]
      /\ history[x].end # Unset => history[x].start < history[x].end /\ history[x].run # Unset
  BY <1>1, <1>2 DEF HistoryIsTrue, Claims
<1>4. CASE history' = [history EXCEPT ![x].run = call[p].now, ![x].failures = @ + 1]
  <2> DEFINE entry == [history[x] EXCEPT !.run = call[p].now, !.failures = @ + 1]
  <2>1. MaxFailures \in Nat /\ call[p].now # Unset
    BY <1>2, Facts
  <2>2. /\ entry \in Entries /\ entry.run = call[p].now
        /\ entry.start = history[x].start /\ entry.end = history[x].end
    <3> HIDE DEF x
    <3>1. history[x].failures \in 0..MaxFailures
      BY <1>2 DEF Entries
    <3>2. history[x].failures + 1 \in 0..MaxFailures
      BY <1>2, <2>1, <3>1
    <3> QED  BY <1>2, <2>1, <3>2 DEF Entries
  <2>3. history' = [history EXCEPT ![x] = entry]
    <3> HIDE DEF x
    <3> QED  BY <1>2, <1>4
  <2> HIDE DEF entry
  <2> QED  BY <1>1, <1>3, <2>1, <2>2, <2>3, RunEnds
<1>5. CASE history' = history
  <2>1. history' = [history EXCEPT ![x] = history[x]]
    <3> HIDE DEF x
    <3> QED  BY <1>2, <1>5
  <2> QED  BY <1>1, <1>2, <1>3, <2>1, RunEnds
<1> QED
  BY <1>1, <1>4, <1>5

-----------------------------------------------------------------------------
(* Every step.                                                             *)

LEMMA InitHolds ==
    ASSUME CollectionAssumption, Init
    PROVE  IInv
<1>1. StartTime \in Time /\ StartTime \in Nat
  BY DEF CollectionAssumption, Time
<1>2. NoEntry \in Entries /\ NoEntry.end = Unset /\ NoEntry.start = Unset
  BY Facts DEF NoEntry, Entries
<1>3. Idle \in Calls /\ Idle.at = "idle" /\ ~Idle.cycle /\ Idle.name = NoOne /\ Idle.todo = {}
  BY IdleIsACall DEF Idle
<1>4. written \in [Routine -> [Days -> 0..1]]
  BY DEF Init, Days
<1> HIDE DEF NoEntry, Idle
<1>5. Typed
  BY <1>1, <1>2, <1>3, <1>4 DEF Init, Typed
<1>6. ASSUME NEW p \in Process
      PROVE  Placed(p) /\ Locking(p) /\ Storing(p)
  <2>1. call[p] = Idle
    BY DEF Init
  <2> QED  BY <1>3, <2>1 DEF Placed, Locking, Storing, Holding
<1>7. Claims
  BY <1>2 DEF Init, Claims
<1>8. HistoryIsTrue
  <2>1. ASSUME NEW x \in Program, NEW t \in Instant, Unset <= t, t < Unset
        PROVE  FALSE
    BY <2>1, Facts DEF Unset
  <2> QED  BY <1>2, <2>1 DEF Init, HistoryIsTrue
<1> QED
  BY <1>5, <1>6, <1>7, <1>8 DEF IInv

LEMMA ClockKeeps ==
    ASSUME CollectionAssumption, IInv, Tick \/ Correct
    PROVE  IInv'
<1>1. UNCHANGED <<history, collected, written, held, call, since>> /\ clock' \in Time
  BY DEF Tick, Correct, IInv, Typed, Time, CollectionAssumption
<1>2. Typed'
  BY <1>1 DEF IInv, Typed
<1>3. ASSUME NEW p \in Process
      PROVE  (Placed(p) /\ Locking(p) /\ Storing(p))'
  BY <1>1 DEF IInv, Placed, Locking, Storing
<1> QED
  BY <1>1, <1>2, <1>3, HistoryStays DEF IInv

LEMMA NothingHappens ==
    ASSUME CollectionAssumption, IInv, UNCHANGED vars
    PROVE  IInv'
<1>1. UNCHANGED <<clock, history, collected, written, held, call, since>>
  BY DEF vars
<1>2. Typed'
  BY <1>1 DEF IInv, Typed
<1>3. ASSUME NEW p \in Process
      PROVE  (Placed(p) /\ Locking(p) /\ Storing(p))'
  BY <1>1 DEF IInv, Placed, Locking, Storing
<1> QED
  BY <1>1, <1>2, <1>3, HistoryStays DEF IInv

LEMMA NextKeeps ==
    ASSUME CollectionAssumption, IInv, [Next]_vars
    PROVE  IInv'
  BY ClockKeeps, UpdateKeeps, EnterCycleKeeps, CycleBusyKeeps, NextProgramKeeps,
     CycleEndsKeeps, CollectKeeps, RunRoutineKeeps, LockKeeps, FailsKeeps, StoreKeeps,
     RememberKeeps, ForgetsKeeps, FailedKeeps, KillKeeps, NothingHappens
  DEF Next

\* A step that moves no resume point jumps over nothing.
LEMMA StaysPut ==
    ASSUME CollectionAssumption, IInv,
           \A s \in Sensor : history'[s].end = history[s].end,
           \A s \in Sensor : history'[s].run \in Int
    PROVE  SkipsNothing
<1> SUFFICES ASSUME NEW s \in Sensor, Resumes(s), NEW t \in Jumped(s)
             PROVE  FALSE
  BY DEF SkipsNothing
<1>1. s \in Program /\ history[s] \in Entries /\ history[s].end \in Int
  BY Facts DEF IInv, Typed, Program, Entries
<1>2. t \in Int /\ Larger(history[s].end, history'[s].run - CatchUp) <= t /\ t < history[s].end
  BY Facts DEF Jumped
<1>3. history'[s].run - CatchUp \in Int
  BY Facts
<1>4. Larger(history[s].end, history'[s].run - CatchUp) >= history[s].end
      /\ Larger(history[s].end, history'[s].run - CatchUp) \in Int
  BY <1>1, <1>3, LargerIs
<1> HIDE DEF Larger
<1> QED
  BY <1>1, <1>2, <1>4

LEMMA RemembersSkipNothing ==
    ASSUME CollectionAssumption, IInv, NEW p \in Process, Remember(p)
    PROVE  SkipsNothing
<1> DEFINE x == call[p].name
<1>1. /\ call[p].at = "remember" /\ collected' = collected /\ x \in Program
      /\ history \in [Program -> Entries]
      /\ history' = [history EXCEPT ![x] = IF x \in Sensor THEN SensorEntry(p) ELSE RoutineEntry(p)]
  BY DEF Remember, IInv, Typed, Placed, Holding
<1> SUFFICES ASSUME NEW s \in Sensor, Resumes(s), history[s].end <= history[s].run,
                    NEW t \in Jumped(s)
             PROVE  t \in collected'[s]
  BY DEF SkipsNothing
<1>2. s \in Program /\ history[s].end \in Int /\ history[s].run \in Int
  BY <1>1, Facts DEF Program, Entries
<1>3. t \in Instant /\ Larger(history[s].end, history'[s].run - CatchUp) <= t /\ t < history'[s].end
  BY DEF Jumped
<1>4. CASE s = x
  <2>1. history'[s] = SensorEntry(p)
    BY <1>1, <1>4
  <2>2. x \in Sensor
    BY <1>4
  <2>3. \A u \in Instant :
           Larger(history[x].end, SensorEntry(p).run - CatchUp) <= u /\ u < SensorEntry(p).end =>
           u \in collected[x]
    BY <1>1, <1>4, <2>2, SensorEntryIs
  <2> QED  BY <1>1, <1>3, <1>4, <2>1, <2>3
<1>5. CASE s # x
  <2>1. history'[s] = history[s]
    BY <1>1, <1>2, <1>5
  <2>2. t \in Int /\ history[s].run - CatchUp \in Int
    BY <1>2, <1>3, Facts
  <2>3. Larger(history[s].end, history[s].run - CatchUp) >= history[s].end
        /\ Larger(history[s].end, history[s].run - CatchUp) \in Int
    BY <1>2, <2>2, LargerIs
  <2>4. Larger(history[s].end, history[s].run - CatchUp) <= t /\ t < history[s].end
    BY <1>3, <2>1
  <2> QED  BY ONLY <1>2, <2>2, <2>3, <2>4
<1> QED
  BY <1>4, <1>5

LEMMA StepSkipsNothing ==
    ASSUME CollectionAssumption, IInv, [Next]_vars
    PROVE  SkipsNothing
<1>1. history \in [Program -> Entries] /\ Sensor \subseteq Program
  BY DEF IInv, Typed, Program
<1>2. \A s \in Sensor : history[s].run \in Int
  BY <1>1, Facts DEF Entries
<1>3. CASE history' = history
  BY <1>2, <1>3, StaysPut
<1>4. ASSUME NEW p \in Process, Failed(p)
      PROVE  SkipsNothing
  <2> DEFINE x == call[p].name
  <2>1. x \in Program /\ call[p].now \in Int
    BY <1>4, Facts DEF IInv, Placed, Failed, Holding
  <2>2. CASE history' = [history EXCEPT ![x].run = call[p].now, ![x].failures = @ + 1]
    <3> HIDE DEF x
    <3>1. ASSUME NEW s \in Sensor
          PROVE  history'[s].end = history[s].end /\ history'[s].run \in Int
      BY <1>1, <1>2, <2>1, <2>2 DEF Entries
    <3> QED  BY <3>1, StaysPut
  <2> QED  BY <1>3, <1>4, <2>2 DEF Failed
<1>5. CASE \E p \in Process : Remember(p)
  BY <1>5, RemembersSkipNothing
<1>6. CASE ~\E p \in Process : Remember(p) \/ Failed(p)
  <2>1. history' = history
    <3>1. Tick \/ Correct \/ UNCHANGED vars => history' = history
      BY DEF Tick, Correct, vars
    <3>2. \A p \in Process : Update(p) \/ EnterCycle(p) \/ CycleBusy(p) => history' = history
      BY DEF Update, EnterCycle, CycleBusy
    <3>3. \A p \in Process : NextProgram(p) \/ CycleEnds(p) => history' = history
      BY DEF NextProgram, CycleEnds
    <3>4. \A p \in Process, s \in Sensor, start \in Time, end \in Time :
             Collect(p, s, start, end) => history' = history
      BY DEF Collect
    <3>5. \A p \in Process, r \in Routine : RunRoutine(p, r) => history' = history
      BY DEF RunRoutine
    <3>6. \A p \in Process : Lock(p) \/ Fails(p) \/ Store(p) \/ Forgets(p) => history' = history
      BY DEF Lock, Fails, Store, Forgets
    <3>7. \A p \in Process : Kill(p) => history' = history
      BY DEF Kill
    <3> QED  BY <1>6, <3>1, <3>2, <3>3, <3>4, <3>5, <3>6, <3>7 DEF Next
  <2> QED  BY <1>3, <2>1
<1> QED
  BY <1>4, <1>5, <1>6

-----------------------------------------------------------------------------
(* Theorems.                                                               *)

\* The invariant holds throughout: a run holds its program's lock while it may
\* change its history, and what it is about to claim was stored.
THEOREM Invariance ==
    ASSUME CollectionAssumption
    PROVE  Spec => []IInv
<1>1. Init => IInv
  BY InitHolds
<1>2. IInv /\ [Next]_vars => IInv'
  BY NextKeeps
<1> QED
  BY <1>1, <1>2, PTL DEF Spec

\* Every variable keeps its type (update.py, history.py): a run's window is
\* never empty, and failures are counted to their bound.
THEOREM TypeCorrect ==
    ASSUME CollectionAssumption
    PROVE  Spec => []TypeOK
<1>1. IInv => TypeOK
  <2> SUFFICES ASSUME IInv
               PROVE  TypeOK
    OBVIOUS
  <2>1. Typed
    BY DEF IInv
  <2>2. history \in [Program -> [run : {Unset} \cup Time, success : {Unset} \cup Time,
                                 start : {Unset} \cup Instant, end : {Unset} \cup Instant,
                                 reconciled : {Unset} \cup Time, failures : 0..MaxFailures]]
    BY <2>1, Facts DEF Typed, Entries
  <2>3. ASSUME NEW p \in Process
        PROVE  /\ call[p].at \in {"idle", "cycle", "next", "lock", "run", "remember", "failed"}
               /\ call[p].name # NoOne => call[p].start < call[p].end
    <3>1. Placed(p) /\ call[p] \in Calls
      BY <2>1, TypedCall DEF IInv
    <3> QED  BY <3>1 DEF Placed, Holding, Calls
  <2> QED  BY <2>1, <2>2, <2>3 DEF Typed, TypeOK
<1> QED
  BY <1>1, Invariance, PTL

\* Evidence is stored before the history claims it (collect.py, history.py):
\* every instant of the interval a program's history claims was covered by a
\* run whose output was stored.
THEOREM HistoryTold ==
    ASSUME CollectionAssumption
    PROVE  Spec => []HistoryIsTrue
<1>1. IInv => HistoryIsTrue
  BY DEF IInv
<1> QED
  BY <1>1, Invariance, PTL

\* A routine has at most one action per local day (collect.py), although runs
\* by hand overlap cycles and a process may die after it wrote one.
THEOREM ActionsAreDaily ==
    ASSUME CollectionAssumption
    PROVE  Spec => []OneActionPerDay
<1>1. IInv => OneActionPerDay
  BY DEF IInv, Typed, OneActionPerDay
<1> QED
  BY <1>1, Invariance, PTL

\* What a cycle runs was not begun by another cycle since it listed what is
\* due (update.py).
THEOREM ListIsFresh ==
    ASSUME CollectionAssumption
    PROVE  Spec => []DueListIsFresh
<1>1. IInv => DueListIsFresh
  BY DEF IInv, Locking, DueListIsFresh
<1> QED
  BY <1>1, Invariance, PTL

\* A scheduled sensor's resume point never jumps over a stretch inside the
\* catch-up horizon that nothing covered, while the last run the history names
\* is not older than the resume point (_coverage of collect.py); the run
\* CollectionGap shows the gap that may come otherwise.
THEOREM ResumesWhereItEnded ==
    ASSUME CollectionAssumption
    PROVE  Spec => NothingSkipped
<1>1. IInv /\ [Next]_vars => [SkipsNothing]_vars
  BY StepSkipsNothing
<1> QED
  BY <1>1, Invariance, PTL DEF Spec, NothingSkipped

-----------------------------------------------------------------------------
(* Which records a source keeps.                                           *)

CONSTANTS Record, Modes, ExpireAfter, SHRINK_FLOOR, Revisions, LastInstant, MaxFaults

VARIABLES instant, mode, stored, hidden, collector, forgetting, faults

Retaining == INSTANCE Retention WITH MaxTime <- LastInstant, clock <- instant

Places == {"idle", "run", "printed", "remove", "upsert", "history", "failed"}
Reports(records) == UNION {[s -> Revisions] : s \in SUBSET records}

CollectorType == [at : Places, started : Nat, allow : BOOLEAN, printed : Reports(Record),
                  kept : Reports(Record), wrote : BOOLEAN]

KeepingTyped ==
    /\ instant \in Nat /\ mode \in Modes
    /\ stored \in [Record -> [time : Nat \cup {-1}, updated : Nat \cup {-1}, observed : Nat \cup {-1}]]
    /\ hidden \subseteq Record /\ forgetting \subseteq Record
    /\ collector \in CollectorType

\* The writer lock: no collection is between its transactions while bf forget
\* is between its list and its removal, and what that removes is listed.
Alone ==
    /\ forgetting \subseteq hidden
    /\ collector.at \in {"remove", "upsert", "history"} => forgetting = {}

\* Between the two transactions: nothing listed is stored or about to be, what
\* is stored and not kept was not printed, and a snapshot that keeps nothing
\* has nothing to remove, or may.
Between ==
    collector.at = "upsert" =>
        /\ \A r \in hidden : ~Retaining!Has(r) /\ r \notin DOMAIN collector.kept
        /\ \A r \in Record \ DOMAIN collector.kept : Retaining!Has(r) => r \notin Retaining!Printed
        /\ mode = "snapshot" /\ ~collector.allow =>
              \/ DOMAIN collector.kept # {}
              \/ \A r \in Record : ~Retaining!Has(r)

After == collector.at = "history" => \A r \in hidden : ~Retaining!Has(r)

Decided == KeepingTyped /\ Alone /\ Between /\ After

LEMMA RetentionStarts ==
    ASSUME Retaining!RetentionAssumption, Retaining!Init
    PROVE  Decided
<1>1. Retaining!Nothing \in Reports(Record)
  <2>1. {} \in SUBSET Record /\ Retaining!Nothing \in [{} -> Revisions]
    BY DEF Retaining!Nothing
  <2> QED
    BY <2>1 DEF Reports
<1>2. KeepingTyped
  BY <1>1 DEF Retaining!Init, KeepingTyped, CollectorType, Retaining!Idle, Retaining!Missing, Retaining!Undated, Places
<1> QED
  BY <1>2 DEF Retaining!Init, Decided, Alone, Between, After, Retaining!Idle

\* The instance counts as this module does.
LEMMA RetainingCounts ==
    ASSUME NEW S
    PROVE  Retaining!Cardinality(S) = Cardinality(S) /\ (Retaining!IsFiniteSet(S) <=> IsFiniteSet(S))
<1>1. Retaining!Cardinality(S) = Cardinality(S)
  BY Zenon DEF Retaining!Cardinality, Cardinality
<1>2. Retaining!IsFiniteSet(S) <=> IsFiniteSet(S)
  BY Zenon DEF Retaining!IsFiniteSet, IsFiniteSet
<1> QED
  BY <1>1, <1>2

\* What the first transaction leaves: no listed record, and of the others
\* those that are kept or were not printed.
LEMMA RemovalDecides ==
    ASSUME Retaining!RetentionAssumption, Decided, Retaining!Remove
    PROVE  Between'
<1> DEFINE K == DOMAIN Retaining!Kept
<1>1. /\ collector.at = "remove" /\ ~Retaining!Shrinks /\ hidden' = hidden /\ mode' = mode
      /\ stored' = [r \in Record |-> IF r \in Retaining!Removals THEN Retaining!Missing ELSE stored[r]]
      /\ collector'.kept = Retaining!Kept /\ collector'.printed = collector.printed
      /\ collector'.allow = collector.allow
  BY DEF Retaining!Remove, Decided, KeepingTyped, CollectorType
<1>2. K = Retaining!Printed \ (hidden \cup Retaining!Expired) /\ Retaining!Expired \subseteq Retaining!Printed \ hidden
  BY DEF Retaining!Kept, Retaining!Expired
<1>3. \A r \in Record : Retaining!Has(r)' <=> Retaining!Has(r) /\ r \notin Retaining!Removals
  BY <1>1 DEF Retaining!Has
<1>4. \A r \in hidden : ~Retaining!Has(r)' /\ r \notin K
  BY <1>2, <1>3 DEF Retaining!Removals, Decided, KeepingTyped, CollectorType
<1>5. \A r \in Record \ K : Retaining!Has(r)' => r \notin Retaining!Printed
  BY <1>2, <1>3 DEF Retaining!Removals
<1>6. ASSUME mode = "snapshot", ~collector.allow, K = {}
      PROVE  \A r \in Record : ~Retaining!Has(r)'
  <2> DEFINE existing == {r \in Record : Retaining!Has(r)} \ Retaining!Removals
             left == existing \ K
  <2>1. ~(Cardinality(left) > 0)
    <3>1. ~(Retaining!Cardinality(left) > 0)
      BY <1>1, <1>6, Zenon DEF Retaining!Shrinks
    <3> QED
      BY <3>1, RetainingCounts
  <2>2. IsFiniteSet(left)
    <3>1. IsFiniteSet(Record) /\ left \subseteq Record
      BY RetainingCounts DEF Retaining!RetentionAssumption
    <3> QED
      BY <3>1, FS_Subset
  <2>3. left = {}
    BY <2>1, <2>2, FS_CardinalityType, FS_EmptySet
  <2> QED
    BY <1>3, <1>6, <2>3
<1> QED
  BY <1>1, <1>4, <1>5, <1>6 DEF Between, Retaining!Printed

\* A report is a function on some of the records.
LEMMA ReportIs ==
    ASSUME NEW f \in Reports(Record)
    PROVE  DOMAIN f \subseteq Record /\ \A r \in DOMAIN f : f[r] \in Revisions
<1>1. PICK s \in SUBSET Record : f \in [s -> Revisions]
  BY DEF Reports
<1> QED
  BY <1>1

LEMMA KeptIs ==
    ASSUME KeepingTyped
    PROVE  /\ Retaining!Kept \in Reports(Record) /\ DOMAIN Retaining!Kept = Retaining!Printed \ (hidden \cup Retaining!Expired)
           /\ collector.printed \in Reports(Record) /\ collector.kept \in Reports(Record)
<1>1. collector.printed \in Reports(Record) /\ collector.kept \in Reports(Record)
  BY DEF KeepingTyped, CollectorType
<1> DEFINE D == Retaining!Printed \ (hidden \cup Retaining!Expired)
<1>2. D \in SUBSET Record /\ \A r \in D : collector.printed[r] \in Revisions
  BY <1>1, ReportIs DEF Retaining!Printed
<1>3. Retaining!Kept \in [D -> Revisions]
  BY <1>2 DEF Retaining!Kept
<1>4. [D -> Revisions] \subseteq Reports(Record)
  BY <1>2 DEF Reports
<1>5. Retaining!Kept \in Reports(Record) /\ DOMAIN Retaining!Kept = D
  BY <1>3, <1>4
<1> QED
  BY <1>1, <1>5

LEMMA RetentionTypes ==
    ASSUME Retaining!RetentionAssumption, Decided, Retaining!Next
    PROVE  KeepingTyped'
<1> DEFINE Dates == Nat \cup {-1}
           Stores == [Record -> [time : Dates, updated : Dates, observed : Dates]]
<1>t. /\ instant \in Nat /\ mode \in Modes /\ stored \in Stores
      /\ hidden \subseteq Record /\ forgetting \subseteq Record /\ collector \in CollectorType
  BY DEF Decided, KeepingTyped, CollectorType
<1>g. (/\ instant \in Nat /\ mode \in Modes /\ stored \in Stores
       /\ hidden \subseteq Record /\ forgetting \subseteq Record /\ collector \in CollectorType)' => KeepingTyped'
  BY DEF KeepingTyped, CollectorType
<1>n. Retaining!Nothing \in Reports(Record) /\ Retaining!Missing \in [time : Dates, updated : Dates, observed : Dates]
  <2>1. Retaining!Nothing \in [{} -> Revisions] /\ {} \in SUBSET Record
    BY DEF Retaining!Nothing
  <2>2. [{} -> Revisions] \subseteq Reports(Record)
    BY <2>1 DEF Reports
  <2>3. Retaining!Missing \in [time : Dates, updated : Dates, observed : Dates]
    BY DEF Retaining!Missing, Retaining!Undated
  <2> QED
    BY <2>1, <2>2, <2>3
<1>i. Retaining!Idle \in CollectorType
  BY <1>n DEF Retaining!Idle, Places, CollectorType
<1> HIDE DEF Stores
<1>1. ASSUME NEW allow \in BOOLEAN, Retaining!Start(allow) PROVE KeepingTyped'
  <2>1. collector' \in CollectorType
    BY <1>1, <1>i, <1>t DEF Retaining!Start, Places, CollectorType
  <2> QED
    BY <1>1, <1>t, <1>g, <2>1 DEF Retaining!Start
<1>2. CASE Retaining!Printing
  <2>1. PICK printed \in Reports(Record) :
           collector' = [collector EXCEPT !.at = "printed", !.printed = printed]
    BY <1>2 DEF Retaining!Printing, Reports
  <2>3. collector' \in CollectorType
    BY <1>t, <2>1 DEF Places, CollectorType
  <2> QED
    BY <1>2, <1>t, <1>g, <2>3 DEF Retaining!Printing
<1>3. CASE Retaining!Lock \/ Retaining!Refuse \/ Retaining!Finish \/ Retaining!Fail \/ Retaining!Kill
  <2>1. collector' \in CollectorType
    BY <1>3, <1>t, <1>i DEF Retaining!Lock, Retaining!Refuse, Retaining!Finish, Retaining!Fail, Retaining!Kill, Retaining!Fails, Places, CollectorType
  <2> QED
    BY <1>3, <1>t, <1>g, <2>1 DEF Retaining!Lock, Retaining!Refuse, Retaining!Finish, Retaining!Fail, Retaining!Kill, Retaining!Fails
<1>4. CASE Retaining!Remove
  <2>1. collector' \in CollectorType
    BY <1>4, <1>t, KeptIs DEF Retaining!Remove, Places, Decided, KeepingTyped, CollectorType
  <2>2. stored' \in Stores
    BY <1>4, <1>t, <1>n DEF Retaining!Remove, Stores
  <2> QED
    BY <1>4, <1>t, <1>g, <2>1, <2>2 DEF Retaining!Remove
<1>5. CASE Retaining!Upsert
  <2>1. collector' \in CollectorType
    BY <1>5, <1>t DEF Retaining!Upsert, Places, CollectorType
  <2>2. ASSUME NEW r \in Record PROVE Retaining!Planned(r) \in [time : Dates, updated : Dates, observed : Dates]
    <3>1. stored[r] \in [time : Dates, updated : Dates, observed : Dates]
      BY <1>t DEF Stores
    <3>2. ASSUME r \in DOMAIN collector.kept
          PROVE  collector.kept[r] \in [time : Dates, updated : Dates]
      <4>1. collector.kept \in Reports(Record)
        BY <1>t DEF CollectorType
      <4>2. collector.kept[r] \in Revisions
        BY <3>2, <4>1, ReportIs
      <4> QED
        BY <4>2 DEF Retaining!RetentionAssumption
    <3>3. collector.started \in Nat
      BY <1>t DEF CollectorType
    <3>4. CASE r \in DOMAIN collector.kept /\ ~Retaining!Stays(r)
      BY <3>2, <3>3, <3>4 DEF Retaining!Planned
    <3>5. CASE ~(r \in DOMAIN collector.kept /\ ~Retaining!Stays(r))
      BY <1>n, <3>1, <3>5 DEF Retaining!Planned
    <3> QED
      BY <3>4, <3>5
  <2>3. stored' \in Stores
    BY <1>5, <2>2 DEF Retaining!Upsert, Stores
  <2> QED
    BY <1>5, <1>t, <1>g, <2>1, <2>3 DEF Retaining!Upsert
<1>6. CASE (\E records \in SUBSET Record : Retaining!ForgetList(records)) \/ \E r \in Record : Retaining!Recall(r)
  BY <1>6, <1>t, <1>g DEF Retaining!ForgetList, Retaining!Recall
<1>7. CASE Retaining!ForgetRemove
  <2>1. stored' \in Stores
    BY <1>7, <1>t, <1>n DEF Retaining!ForgetRemove, Stores
  <2> QED
    BY <1>7, <1>t, <1>g, <2>1 DEF Retaining!ForgetRemove
<1>8. CASE Retaining!ForgetKilled \/ Retaining!Tick
  BY <1>8, <1>t, <1>g DEF Retaining!ForgetKilled, Retaining!Tick
<1> QED
  BY <1>1, <1>2, <1>3, <1>4, <1>5, <1>6, <1>7, <1>8 DEF Retaining!Next

LEMMA RetentionDecides ==
    ASSUME Retaining!RetentionAssumption, Decided, Retaining!Next
    PROVE  Alone' /\ Between' /\ After'
<1>t. KeepingTyped
  BY DEF Decided
<1> USE DEF Decided, Alone, After, Retaining!Locked
<1>1. CASE (\E allow \in BOOLEAN : Retaining!Start(allow)) \/ Retaining!Printing \/ Retaining!Refuse \/ Retaining!Finish \/ Retaining!Fail \/ Retaining!Kill
  <2>1. collector'.at \in {"idle", "run", "printed", "failed"}
    <3>1. CASE \E allow \in BOOLEAN : Retaining!Start(allow)
      BY <3>1 DEF Retaining!Start, Retaining!Idle
    <3>2. CASE Retaining!Printing
      <4>1. PICK printed : collector' = [collector EXCEPT !.at = "printed", !.printed = printed]
        BY <3>2 DEF Retaining!Printing
      <4> QED
        BY <1>t, <4>1 DEF KeepingTyped, CollectorType
    <3>3. CASE Retaining!Refuse \/ Retaining!Finish \/ Retaining!Fail \/ Retaining!Kill
      BY <1>t, <3>3 DEF Retaining!Refuse, Retaining!Finish, Retaining!Fail, Retaining!Kill, Retaining!Fails, Retaining!Idle, KeepingTyped, CollectorType
    <3> QED
      BY <1>1, <3>1, <3>2, <3>3
  <2>2. UNCHANGED <<hidden, forgetting>>
    BY <1>1 DEF Retaining!Start, Retaining!Printing, Retaining!Refuse, Retaining!Finish, Retaining!Fail, Retaining!Kill
  <2> QED
    BY <2>1, <2>2 DEF Between
<1>2. CASE Retaining!Lock
  BY <1>2, <1>t DEF Retaining!Lock, KeepingTyped, CollectorType, Between
<1>3. CASE Retaining!Remove
  <2>1. collector'.at = "upsert" /\ collector.at = "remove" /\ UNCHANGED <<hidden, forgetting>>
    BY <1>3, <1>t DEF Retaining!Remove, KeepingTyped, CollectorType
  <2> QED
    BY <1>3, <2>1, RemovalDecides
<1>4. CASE Retaining!Upsert
  <2>1. collector'.at = "history" /\ collector.at = "upsert" /\ UNCHANGED <<hidden, forgetting>>
    BY <1>4, <1>t DEF Retaining!Upsert, KeepingTyped, CollectorType
  <2>2. ASSUME NEW r \in hidden PROVE ~Retaining!Has(r)'
    <3>1. ~Retaining!Has(r) /\ r \notin DOMAIN collector.kept /\ r \in Record
      BY <1>t, <2>1 DEF Between, KeepingTyped, CollectorType
    <3>2. stored'[r] = Retaining!Planned(r)
      BY <1>4, <3>1 DEF Retaining!Upsert
    <3> QED
      BY <3>1, <3>2 DEF Retaining!Planned, Retaining!Has
  <2> QED
    BY <2>1, <2>2 DEF Between
<1>5. CASE \E records \in SUBSET Record : Retaining!ForgetList(records)
  BY <1>5 DEF Retaining!ForgetList, Between
<1>6. CASE Retaining!ForgetRemove \/ Retaining!ForgetKilled
  BY <1>6 DEF Retaining!ForgetRemove, Retaining!ForgetKilled, Between
<1>7. CASE \E r \in Record : Retaining!Recall(r)
  BY <1>7 DEF Retaining!Recall, Between, Retaining!Has, Retaining!Printed
<1>8. CASE Retaining!Tick
  BY <1>8 DEF Retaining!Tick, Between, Retaining!Has, Retaining!Printed
<1> QED
  BY <1>1, <1>2, <1>3, <1>4, <1>5, <1>6, <1>7, <1>8 DEF Retaining!Next

\* Each step of a collection, of bf forget or of the owner keeps what was decided.
LEMMA StepKeepsDecisions ==
    ASSUME Retaining!RetentionAssumption, Decided, [Retaining!Next]_Retaining!vars
    PROVE  Retaining!KeepsDecisions
<1>t. KeepingTyped
  BY DEF Decided
<1>1. CASE Retaining!Remove
  <2> SUFFICES ASSUME NEW r \in Record
      PROVE  /\ Retaining!Has(r)' => Retaining!Has(r) /\ stored'[r] = stored[r]
             /\ Retaining!Has(r) /\ ~Retaining!Has(r)' => r \in Retaining!Removals
             /\ collector'.at # "history"
    <3>1. \A r \in Record : stored[r].updated >= stored[r].updated
      BY <1>t DEF KeepingTyped
    <3> QED
      BY <3>1 DEF Retaining!KeepsDecisions, Retaining!Removals
  <2>1. stored'[r] = IF r \in Retaining!Removals THEN Retaining!Missing ELSE stored[r]
    BY <1>1 DEF Retaining!Remove
  <2>2. collector'.at = "upsert"
    BY <1>1, <1>t DEF Retaining!Remove, KeepingTyped, CollectorType
  <2> QED
    BY <2>1, <2>2 DEF Retaining!Has
<1>2. CASE Retaining!Upsert
  <2>1. collector.at = "upsert" /\ Between
    BY <1>2 DEF Retaining!Upsert, Decided
  <2>2. ASSUME NEW r \in Record
        PROVE  /\ stored[r] \in [time : Nat \cup {-1}, updated : Nat \cup {-1}, observed : Nat \cup {-1}]
               /\ r \in DOMAIN collector.kept =>
                     collector.kept[r] \in [time : Nat \cup {-1}, updated : Nat \cup {-1}]
    <3>1. collector.kept \in Reports(Record)
      BY <1>t DEF KeepingTyped, CollectorType
    <3> QED
      BY <1>t, <3>1, ReportIs DEF KeepingTyped, CollectorType, Retaining!RetentionAssumption
  <2> SUFFICES ASSUME NEW r \in Record
      PROVE  /\ ~Retaining!Has(r) /\ Retaining!Has(r)' => r \notin hidden
             /\ Retaining!Has(r) /\ ~Retaining!Has(r)' =>
                   /\ mode = "snapshot" /\ r \notin Retaining!Printed
                   /\ collector.allow \/ DOMAIN collector.kept # {}
             /\ Retaining!Has(r) /\ Retaining!Has(r)' /\ Retaining!Reliable(r) /\ stored'[r].updated # Retaining!Undated =>
                   stored'[r].updated >= stored[r].updated
             /\ Retaining!Has(r)' => r \notin hidden
    BY DEF Retaining!KeepsDecisions
  <2>3. stored'[r] = Retaining!Planned(r)
    BY <1>2 DEF Retaining!Upsert
  <2>4. CASE r \in DOMAIN collector.kept
    <3>1. r \notin hidden
      BY <2>1, <2>4 DEF Between
    <3>2. CASE Retaining!Stays(r)
      <4>1. stored'[r] = stored[r]
        BY <2>3, <2>4, <3>2 DEF Retaining!Planned
      <4>2. stored[r].updated >= stored[r].updated
        BY <2>2
      <4> QED
        BY <3>1, <4>1, <4>2 DEF Retaining!Has
    <3>3. CASE ~Retaining!Stays(r)
      <4>1. /\ stored'[r] = [time |-> collector.kept[r].time, updated |-> collector.kept[r].updated,
                             observed |-> collector.started]
            /\ collector.started \in Nat
        BY <1>t, <2>3, <2>4, <3>3 DEF Retaining!Planned, KeepingTyped, CollectorType
      <4>2. Retaining!Has(r)'
        BY <4>1 DEF Retaining!Has, Retaining!Missing, Retaining!Undated
      <4>3. Retaining!Has(r) /\ Retaining!Reliable(r) /\ stored'[r].updated # Retaining!Undated => stored'[r].updated >= stored[r].updated
        BY <2>2, <2>4, <3>3, <4>1 DEF Retaining!Stays, Retaining!Undated
      <4> QED
        BY <3>1, <4>2, <4>3
    <3> QED
      BY <3>2, <3>3
  <2>5. CASE r \notin DOMAIN collector.kept
    <3>1. Retaining!Has(r) => r \notin Retaining!Printed /\ r \notin hidden
      BY <2>1, <2>5 DEF Between
    <3>2. stored'[r] = IF mode = "snapshot" THEN Retaining!Missing ELSE stored[r]
      BY <2>3, <2>5 DEF Retaining!Planned
    <3>3. stored[r].updated >= stored[r].updated
      BY <2>2
    <3>4. Retaining!Has(r) /\ mode = "snapshot" => collector.allow \/ DOMAIN collector.kept # {}
      BY <2>1 DEF Between
    <3> QED
      BY <3>1, <3>2, <3>3, <3>4 DEF Retaining!Has
  <2> QED
    BY <2>4, <2>5
<1>3. CASE Retaining!ForgetRemove
  <2> SUFFICES ASSUME NEW r \in Record
      PROVE  /\ Retaining!Has(r)' => Retaining!Has(r) /\ stored'[r] = stored[r]
             /\ Retaining!Has(r) /\ ~Retaining!Has(r)' => r \in hidden
             /\ Retaining!Has(r)' /\ r \in hidden => collector'.at # "history"
    <3>1. \A r \in Record : stored[r].updated >= stored[r].updated
      BY <1>t DEF KeepingTyped
    <3> QED
      BY <3>1 DEF Retaining!KeepsDecisions
  <2>1. stored'[r] = (IF r \in forgetting THEN Retaining!Missing ELSE stored[r]) /\ collector' = collector
    BY <1>3 DEF Retaining!ForgetRemove
  <2> QED
    BY <2>1 DEF Retaining!Has, Decided, Alone, After
<1>4. CASE UNCHANGED stored
  <2> SUFFICES ASSUME NEW r \in hidden, r \in Record, Retaining!Has(r)
      PROVE  collector'.at # "history"
    <3>1. \A r \in Record : Retaining!Has(r)' <=> Retaining!Has(r)
      BY <1>4 DEF Retaining!Has
    <3>2. \A r \in Record : stored'[r].updated >= stored[r].updated
      BY <1>t, <1>4 DEF KeepingTyped, CollectorType
    <3> QED
      BY <3>1, <3>2 DEF Retaining!KeepsDecisions
  <2>1. collector.at # "history" /\ collector.at # "upsert"
    BY DEF Decided, After, Between
  <2> QED
    <3>1. CASE \E allow \in BOOLEAN : Retaining!Start(allow)
      BY <3>1 DEF Retaining!Start, Retaining!Idle
    <3>6. CASE Retaining!Lock \/ Retaining!Refuse \/ Retaining!Finish \/ Retaining!Fail \/ Retaining!Kill
      BY <1>t, <3>6 DEF Retaining!Lock, Retaining!Refuse, Retaining!Finish, Retaining!Fail, Retaining!Kill, Retaining!Fails, Retaining!Idle, KeepingTyped, CollectorType
    <3>2. CASE Retaining!Printing
      <4>1. PICK printed : collector' = [collector EXCEPT !.at = "printed", !.printed = printed]
        BY <3>2 DEF Retaining!Printing
      <4> QED
        BY <1>t, <4>1 DEF KeepingTyped, CollectorType
    <3>3. CASE Retaining!Remove
      BY <1>t, <3>3 DEF Retaining!Remove, KeepingTyped, CollectorType
    <3>4. CASE Retaining!Upsert
      BY <2>1, <3>4 DEF Retaining!Upsert
    <3>5. CASE \/ UNCHANGED Retaining!vars \/ Retaining!ForgetRemove \/ Retaining!ForgetKilled \/ Retaining!Tick
               \/ \E records \in SUBSET Record : Retaining!ForgetList(records)
               \/ \E x \in Record : Retaining!Recall(x)
      BY <2>1, <3>5 DEF Retaining!vars, Retaining!ForgetList, Retaining!ForgetRemove, Retaining!ForgetKilled, Retaining!Recall, Retaining!Tick
    <3> QED
      BY <3>1, <3>2, <3>3, <3>4, <3>5, <3>6 DEF Retaining!Next
<1> QED
  BY <1>1, <1>2, <1>3, <1>4 DEF Retaining!Next, Retaining!vars, Retaining!Start, Retaining!Printing, Retaining!Lock, Retaining!Refuse, Retaining!Finish, Retaining!Fail, Retaining!Kill,
                                Retaining!ForgetList, Retaining!ForgetKilled, Retaining!Recall, Retaining!Tick

\* Whatever a sensor prints, fails or is killed at (retention, plan and upsert
\* of records.py, collect of collect.py), what the owner listed is not stored
\* again, a record leaves only for a reason, and no older revision replaces a
\* newer one.
THEOREM DecisionsAreKept ==
    ASSUME Retaining!RetentionAssumption
    PROVE  Retaining!Spec => Retaining!DecisionsStay
<1>1. Retaining!Init => Decided
  BY RetentionStarts
<1>2. Decided /\ [Retaining!Next]_Retaining!vars => Decided'
  <2>1. ASSUME Decided, Retaining!Next PROVE Decided'
    BY <2>1, RetentionTypes, RetentionDecides DEF Decided
  <2>2. ASSUME Decided, UNCHANGED Retaining!vars PROVE Decided'
    BY <2>2 DEF Decided, KeepingTyped, Alone, Between, After, Retaining!vars, Retaining!Has, Retaining!Printed
  <2> QED
    BY <2>1, <2>2
<1>3. Decided /\ [Retaining!Next]_Retaining!vars => [Retaining!KeepsDecisions]_Retaining!vars
  BY StepKeepsDecisions
<1> QED
  BY <1>1, <1>2, <1>3, PTL DEF Retaining!Spec, Retaining!DecisionsStay

-----------------------------------------------------------------------------
(* The fields of a sensor's records.                                       *)

CONSTANTS Field, Path, Configs, Documents, NoPath, Literal, Absent, Tangled, REPROJECT, MaxEdits

VARIABLES config, files, collection, reprojection, sensorLock, settled, edits

Mapping == INSTANCE Reprojection WITH stored <- files

FileType == [printed : Documents, fields : Mapping!Fields] \cup {Mapping!Nothing}
CountType == [changed : Nat, unchanged : Nat, failed : Nat]
Loaded(steps) == [at : steps, bf : Configs, late : BOOLEAN]
Documented == UNION {[s -> Documents] : s \in SUBSET Record}
PrintedType == [at : {"printed"}, bf : Configs, late : BOOLEAN, records : Documented]
Rewriting == [at : {"files"}, bf : Configs, todo : SUBSET Record, changed : SUBSET Record,
              count : CountType, before : [Record -> FileType]]

MappingTyped ==
    /\ config \in Configs /\ files \in [Record -> FileType]
    /\ collection \in {Mapping!None} \cup Loaded({"loaded", "running"}) \cup PrintedType
    /\ reprojection \in {Mapping!None} \cup Loaded({"loaded", "locked"}) \cup Rewriting
    /\ sensorLock \in {"free", "collection", "reprojection"} /\ settled \in BOOLEAN
    /\ edits \in 0..MaxEdits /\ faults \in 0..MaxFaults

\* The sensor's lock is that of the run it says.
SensorHeld ==
    /\ sensorLock = "collection" <=> collection.at \in {"running", "printed"}
    /\ sensorLock = "reprojection" <=> reprojection.at \in {"locked", "files"}

\* What a collection is about to store is not rejected; and a collection that
\* read bf.yaml before a reprojection that settled the records knows it.
Collecting ==
    /\ collection.at = "printed" =>
          \A r \in DOMAIN collection.records : ~Mapping!Rejected(collection.bf, collection.records[r])
    /\ settled /\ collection.at # "none" /\ ~collection.late => collection.bf = config

\* While a reprojection goes through the records, the ones it has to visit or to
\* commit are as they were, what it has to commit will change, the ones it has
\* done are as its mappings say, and it counted them.
Before == {r \in Record : reprojection.before[r] # Mapping!Nothing}
Differ == {r \in Before : r \in reprojection.changed \/ files[r] # reprojection.before[r]}

Visiting ==
    LET now == reprojection
    IN  /\ now.todo \subseteq Before /\ now.changed \subseteq Before \ now.todo
        /\ \A r \in now.todo \cup now.changed : files[r] = now.before[r]
        /\ \A r \in now.changed : /\ ~Mapping!Rejected(now.bf, files[r].printed)
                                  /\ files[r].fields # Mapping!Project(now.bf, files[r].printed)
        /\ \A r \in Mapping!Records \ (now.todo \cup now.changed) :
              \/ Mapping!Rejected(now.bf, files[r].printed)
              \/ files[r].fields = Mapping!Project(now.bf, files[r].printed)
        /\ Mapping!Records \subseteq Before
        /\ \A r \in Before : files[r].printed = now.before[r].printed
        /\ now.count.changed + now.count.unchanged + now.count.failed = Cardinality(Before \ now.todo)
        /\ now.count.changed = Cardinality(Differ)

MappingInv ==
    /\ MappingTyped /\ SensorHeld /\ Collecting /\ Mapping!FieldsAreWhole /\ Mapping!MappingsAreApplied
    /\ reprojection.at = "files" => Visiting

\* The instance counts as this module does.
LEMMA MappingCounts ==
    ASSUME NEW S
    PROVE  Mapping!Cardinality(S) = Cardinality(S) /\ (Mapping!IsFiniteSet(S) <=> IsFiniteSet(S))
<1>1. Mapping!Cardinality(S) = Cardinality(S)
  BY Zenon DEF Mapping!Cardinality, Cardinality
<1>2. Mapping!IsFiniteSet(S) <=> IsFiniteSet(S)
  BY Zenon DEF Mapping!IsFiniteSet, IsFiniteSet
<1> QED
  BY <1>1, <1>2

\* What is not rejected gives fields of their types.
LEMMA ProjectionTyped ==
    ASSUME Mapping!ReprojectionAssumption, NEW bf \in Configs, NEW document \in Documents,
           ~Mapping!Rejected(bf, document)
    PROVE  Mapping!Stored(bf, document) \in FileType
<1> DEFINE D == {f \in Field : Mapping!Mapped(bf[f], document) # Absent}
<1>1. ASSUME NEW f \in D PROVE Mapping!Mapped(bf[f], document) \in Mapping!Values \cup {Literal}
  <2>1. Mapping!Mapped(bf[f], document) \in bf[f].accepts
    BY DEF Mapping!Rejected
  <2>2. bf[f].accepts \subseteq Mapping!Values \cup {Literal}
    BY DEF Mapping!ReprojectionAssumption
  <2> QED
    BY <2>1, <2>2
<1>2. Mapping!Project(bf, document) \in [D -> Mapping!Values \cup {Literal}]
  BY <1>1 DEF Mapping!Project
<1>3. [D -> Mapping!Values \cup {Literal}] \subseteq Mapping!Fields
  BY DEF Mapping!Fields
<1> QED
  BY <1>2, <1>3 DEF Mapping!Stored, FileType

LEMMA MappingStarts ==
    ASSUME Mapping!ReprojectionAssumption, Mapping!Init
    PROVE  MappingInv
<1>1. MappingTyped
  <2>1. MaxEdits \in Nat /\ MaxFaults \in Nat
    BY DEF Mapping!ReprojectionAssumption
  <2>2. files \in [Record -> FileType] /\ config \in Configs
    BY DEF Mapping!Init, FileType
  <2>3. edits \in 0..MaxEdits /\ faults \in 0..MaxFaults
    BY <2>1 DEF Mapping!Init
  <2> QED
    BY <2>2, <2>3 DEF Mapping!Init, MappingTyped
<1>2. SensorHeld /\ Collecting /\ reprojection.at # "files"
  BY DEF Mapping!Init, SensorHeld, Collecting, Mapping!None
<1>3. Mapping!FieldsAreWhole /\ Mapping!MappingsAreApplied
  BY DEF Mapping!Init, Mapping!FieldsAreWhole, Mapping!MappingsAreApplied, Mapping!Records
<1> QED
  BY <1>1, <1>2, <1>3 DEF MappingInv

\* The steps that leave the files and the reprojection alone.
LEMMA ConfigSteps ==
    ASSUME Mapping!ReprojectionAssumption, MappingInv, Mapping!Edit \/ Mapping!Load \/ Mapping!Take \/ Mapping!Printing
    PROVE  MappingInv'
<1>t. MappingTyped /\ SensorHeld /\ Collecting /\ Mapping!FieldsAreWhole /\ Mapping!MappingsAreApplied
  BY DEF MappingInv
<1>1. UNCHANGED <<files, reprojection, faults>>
  BY DEF Mapping!Edit, Mapping!Load, Mapping!Take, Mapping!Printing
<1>2. (reprojection.at = "files" => Visiting)' /\ Mapping!FieldsAreWhole'
  BY <1>1 DEF MappingInv, Visiting, Before, Differ, Mapping!FieldsAreWhole, Mapping!Records
<1>3. Mapping!MappingsAreApplied'
  BY <1>1, <1>t DEF Mapping!MappingsAreApplied, Mapping!Records, Mapping!Edit, Mapping!Load, Mapping!Take, Mapping!Printing
<1>4. MappingTyped'
  <2>1. CASE Mapping!Edit
    <3>1. MaxEdits \in Nat
      BY DEF Mapping!ReprojectionAssumption
    <3>2. edits' \in 0..MaxEdits /\ config' \in Configs
      BY <1>t, <2>1, <3>1 DEF Mapping!Edit, MappingTyped
    <3>3. settled' = FALSE /\ UNCHANGED <<collection, sensorLock>>
      BY <2>1 DEF Mapping!Edit
    <3> QED
      BY <1>1, <1>t, <3>2, <3>3 DEF MappingTyped
  <2>2. CASE Mapping!Load
    BY <1>t, <2>2 DEF Mapping!Load, MappingTyped, Mapping!Reading, Loaded
  <2>3. CASE Mapping!Take
    <3>1. collection \in Loaded({"loaded", "running"})
      BY <1>t, <2>3 DEF Mapping!Take, MappingTyped, Mapping!None, PrintedType
    <3>2. collection' \in {Mapping!None} \cup Loaded({"loaded", "running"})
      BY <2>3, <3>1 DEF Mapping!Take, Loaded
    <3> QED
      BY <1>t, <2>3, <3>2 DEF Mapping!Take, MappingTyped
  <2>4. CASE Mapping!Printing
    <3>1. collection \in Loaded({"loaded", "running"})
      BY <1>t, <2>4 DEF Mapping!Printing, MappingTyped, Mapping!None, PrintedType
    <3>2. collection' \in {Mapping!None} \cup PrintedType
      <4>1. PICK printed \in Documented :
              \/ collection' = Mapping!None
              \/ collection' = [at |-> "printed", bf |-> collection.bf, late |-> collection.late, records |-> printed]
        BY <2>4 DEF Mapping!Printing, Documented
      <4> QED
        BY <3>1, <4>1 DEF Loaded, PrintedType
    <3> QED
      BY <1>t, <2>4, <3>2 DEF Mapping!Printing, MappingTyped
  <2> QED
    BY <2>1, <2>2, <2>3, <2>4
<1>5. SensorHeld' /\ Collecting'
  <2>1. CASE Mapping!Edit \/ Mapping!Load
    BY <1>t, <2>1 DEF Mapping!Edit, Mapping!Load, Mapping!Reading, SensorHeld, Collecting
  <2>2. CASE Mapping!Take
    <3>1. collection \in Loaded({"loaded", "running"})
      BY <1>t, <2>2 DEF Mapping!Take, MappingTyped, Mapping!None, PrintedType
    <3> QED
      BY <1>t, <2>2, <3>1 DEF Mapping!Take, Mapping!None, Loaded, SensorHeld, Collecting
  <2>3. CASE Mapping!Printing
    <3>0. PICK of \in SUBSET Record : \E printed \in [of -> Documents] :
            IF \E r \in of : Mapping!Rejected(collection.bf, printed[r])
            THEN collection' = Mapping!None /\ sensorLock' = "free"
            ELSE /\ collection' = [at |-> "printed", bf |-> collection.bf, late |-> collection.late, records |-> printed]
                 /\ UNCHANGED sensorLock
      BY Zenon, <2>3 DEF Mapping!Printing
    <3>1. PICK printed \in [of -> Documents] :
            IF \E r \in of : Mapping!Rejected(collection.bf, printed[r])
            THEN collection' = Mapping!None /\ sensorLock' = "free"
            ELSE /\ DOMAIN printed = of
                 /\ collection' = [at |-> "printed", bf |-> collection.bf, late |-> collection.late, records |-> printed]
                 /\ UNCHANGED sensorLock
      BY <3>0
    <3>2. collection.at = "running" /\ UNCHANGED <<config, settled, reprojection>>
      BY <2>3 DEF Mapping!Printing
    <3>3. CASE collection' = Mapping!None /\ sensorLock' = "free"
      BY <1>t, <3>2, <3>3 DEF Mapping!None, SensorHeld, Collecting
    <3>4. CASE ~\E r \in of : Mapping!Rejected(collection.bf, printed[r])
      BY <1>t, <3>1, <3>2, <3>4 DEF SensorHeld, Collecting
    <3> QED
      BY <3>1, <3>3, <3>4
  <2> QED
    BY <2>1, <2>2, <2>3
<1> QED
  BY <1>2, <1>3, <1>4, <1>5 DEF MappingInv

\* The steps that leave the files and the collection alone.
LEMMA LockSteps ==
    ASSUME Mapping!ReprojectionAssumption, MappingInv, Mapping!LoadMappings \/ Mapping!TakeSensor \/ Mapping!TakeWriter
    PROVE  MappingInv'
<1>t. MappingTyped /\ SensorHeld /\ Collecting /\ Mapping!FieldsAreWhole /\ Mapping!MappingsAreApplied
  BY DEF MappingInv
<1>1. UNCHANGED <<config, files, collection, settled, edits, faults>>
  BY DEF Mapping!LoadMappings, Mapping!TakeSensor, Mapping!TakeWriter
<1>2. Mapping!FieldsAreWhole' /\ Mapping!MappingsAreApplied' /\ Collecting'
  BY <1>1, <1>t DEF Mapping!FieldsAreWhole, Mapping!MappingsAreApplied, Collecting, Mapping!Records
<1>3. CASE Mapping!LoadMappings
  <2>1. reprojection' = Mapping!Reading(config, FALSE) /\ sensorLock' = sensorLock /\ reprojection.at = "none"
    BY <1>3 DEF Mapping!LoadMappings
  <2>2. reprojection'.at = "loaded" /\ reprojection' \in Loaded({"loaded", "locked"})
    BY <1>t, <2>1 DEF Mapping!Reading, Loaded, MappingTyped
  <2> QED
    BY <1>t, <1>1, <1>2, <2>1, <2>2 DEF MappingInv, MappingTyped, SensorHeld
<1>4. CASE Mapping!TakeSensor
  <2>1. reprojection \in Loaded({"loaded", "locked"}) /\ reprojection.at = "loaded"
    BY <1>t, <1>4 DEF Mapping!TakeSensor, MappingTyped, Mapping!None, Rewriting
  <2>2. \/ /\ sensorLock = "free" /\ sensorLock' = "reprojection"
           /\ reprojection' \in Loaded({"loaded", "locked"}) /\ reprojection'.at = "locked"
        \/ sensorLock' = sensorLock /\ reprojection' = Mapping!None
    BY <1>4, <2>1 DEF Mapping!TakeSensor, Loaded
  <2>3. reprojection'.at # "files" /\ MappingTyped' /\ SensorHeld'
    BY <1>t, <1>1, <2>1, <2>2 DEF MappingTyped, SensorHeld, Mapping!None
  <2> QED
    BY <1>2, <2>3 DEF MappingInv
<1>5. CASE Mapping!TakeWriter
  <2>1. reprojection \in Loaded({"loaded", "locked"}) /\ reprojection.at = "locked" /\ sensorLock' = sensorLock
    BY <1>t, <1>5 DEF Mapping!TakeWriter, MappingTyped, Mapping!None, Rewriting
  <2>2. reprojection' = [at |-> "files", bf |-> reprojection.bf, todo |-> Mapping!Records, changed |-> {},
                         count |-> [changed |-> 0, unchanged |-> 0, failed |-> 0], before |-> files]
    BY <1>5 DEF Mapping!TakeWriter, Mapping!Start
  <2>3. reprojection' \in Rewriting
    BY <1>t, <2>1, <2>2 DEF MappingTyped, Rewriting, CountType, Mapping!Records, Loaded
  <2>4. MappingTyped' /\ SensorHeld'
    BY <1>t, <1>1, <2>1, <2>2, <2>3 DEF MappingTyped, SensorHeld
  <2>5. Before' = Mapping!Records /\ Mapping!Records' = Mapping!Records
    BY <1>1, <2>2 DEF Before, Mapping!Records
  <2>6. Differ' = {}
    BY <1>1, <2>2 DEF Differ
  <2>7. Mapping!Records \ Mapping!Records = {} /\ Cardinality({}) = 0
    BY FS_EmptySet
  <2>8. Visiting'
    BY <1>1, <2>2, <2>5, <2>6, <2>7 DEF Visiting
  <2> QED
    BY <1>2, <2>4, <2>8 DEF MappingInv
<1> QED
  BY <1>3, <1>4, <1>5

\* A collection stores whole records, of the mappings it read.
LEMMA CommitStep ==
    ASSUME Mapping!ReprojectionAssumption, MappingInv, Mapping!Commit
    PROVE  MappingInv'
<1>t. MappingTyped /\ SensorHeld /\ Collecting /\ Mapping!FieldsAreWhole /\ Mapping!MappingsAreApplied
  BY DEF MappingInv
<1> DEFINE bf == collection.bf
           P == collection.records
<1>1. /\ collection.at = "printed" /\ reprojection.at # "files" /\ collection' = Mapping!None /\ sensorLock' = "free"
      /\ files' = [r \in Record |-> IF r \in DOMAIN P THEN Mapping!Stored(bf, P[r]) ELSE files[r]]
      /\ settled' = (settled /\ ~collection.late) /\ UNCHANGED <<config, reprojection, edits, faults>>
  BY DEF Mapping!Commit
<1>2. collection \in PrintedType
  BY <1>t, <1>1 DEF MappingTyped, Loaded, Mapping!None
<1>3. bf \in Configs /\ \A r \in DOMAIN P : P[r] \in Documents /\ ~Mapping!Rejected(bf, P[r])
  <2>1. PICK s \in SUBSET Record : P \in [s -> Documents]
    BY <1>2 DEF PrintedType, Documented
  <2> QED
    BY <1>t, <1>1, <1>2, <2>1 DEF Collecting, PrintedType
<1> HIDE DEF bf, P
<1>4. \A r \in DOMAIN P : /\ Mapping!Stored(bf, P[r]) \in FileType /\ Mapping!Stored(bf, P[r]).printed = P[r]
                          /\ Mapping!Stored(bf, P[r]).fields = Mapping!Project(bf, P[r])
  BY <1>3, ProjectionTyped DEF Mapping!Stored
<1>5. MappingTyped'
  <2>1. files' \in [Record -> FileType]
    BY <1>t, <1>1, <1>4 DEF MappingTyped
  <2> QED
    BY <1>t, <1>1, <2>1 DEF MappingTyped
<1>6. SensorHeld' /\ Collecting'
  BY <1>t, <1>1 DEF SensorHeld, Collecting, Mapping!None
<1>7. Mapping!FieldsAreWhole'
  <2> SUFFICES ASSUME NEW r \in Record, files'[r] # Mapping!Nothing
      PROVE  \E c \in Configs : ~Mapping!Rejected(c, files'[r].printed) /\ files'[r].fields = Mapping!Project(c, files'[r].printed)
    BY DEF Mapping!FieldsAreWhole, Mapping!Records
  <2>1. CASE r \in DOMAIN P
    BY <1>1, <1>3, <1>4, <2>1
  <2>2. CASE r \notin DOMAIN P
    BY <1>t, <1>1, <2>2 DEF Mapping!FieldsAreWhole, Mapping!Records
  <2> QED
    BY <2>1, <2>2
<1>8. Mapping!MappingsAreApplied'
  <2> SUFFICES ASSUME settled, ~collection.late, NEW r \in Record, files'[r] # Mapping!Nothing
      PROVE  \/ files'[r].fields = Mapping!Project(config, files'[r].printed)
             \/ Mapping!Rejected(config, files'[r].printed)
    BY <1>1 DEF Mapping!MappingsAreApplied, Mapping!Records
  <2>1. bf = config
    BY <1>t, <1>1 DEF Collecting, bf
  <2>2. CASE r \in DOMAIN P
    BY <1>1, <1>4, <2>1, <2>2
  <2>3. CASE r \notin DOMAIN P
    BY <1>t, <1>1, <2>3 DEF Mapping!MappingsAreApplied, Mapping!Records
  <2> QED
    BY <2>2, <2>3
<1> QED
  BY <1>1, <1>5, <1>6, <1>7, <1>8 DEF MappingInv

\* A kill leaves the files, and none of the locks.
LEMMA StopStep ==
    ASSUME Mapping!ReprojectionAssumption, MappingInv, Mapping!Stop
    PROVE  MappingInv'
<1>t. MappingTyped /\ SensorHeld /\ Collecting /\ Mapping!FieldsAreWhole /\ Mapping!MappingsAreApplied
  BY DEF MappingInv
<1>1. UNCHANGED <<config, files, settled, edits>> /\ faults' = faults + 1 /\ faults < MaxFaults
  BY DEF Mapping!Stop
<1>2. \/ /\ reprojection' = Mapping!None /\ collection' = collection
         /\ sensorLock' = IF sensorLock = "reprojection" THEN "free" ELSE sensorLock
      \/ /\ collection' = Mapping!None /\ reprojection' = reprojection
         /\ sensorLock' = IF sensorLock = "collection" THEN "free" ELSE sensorLock
  BY DEF Mapping!Stop
<1>3. MaxFaults \in Nat
  BY DEF Mapping!ReprojectionAssumption
<1>4. faults' \in 0..MaxFaults
  BY <1>t, <1>1, <1>3 DEF MappingTyped
<1>5. MappingTyped'
  BY <1>t, <1>1, <1>2, <1>4 DEF MappingTyped
<1>6. SensorHeld' /\ Collecting'
  BY <1>t, <1>1, <1>2 DEF SensorHeld, Collecting, Mapping!None
<1>7. Mapping!FieldsAreWhole' /\ Mapping!MappingsAreApplied'
  BY <1>t, <1>1 DEF Mapping!FieldsAreWhole, Mapping!MappingsAreApplied, Mapping!Records
<1>8. (reprojection.at = "files" => Visiting)'
  <2>1. CASE reprojection' = Mapping!None
    BY <2>1 DEF Mapping!None
  <2>2. CASE reprojection' = reprojection
    BY <1>1, <2>2 DEF MappingInv, Visiting, Before, Differ, Mapping!Records
  <2> QED
    BY <1>2, <2>1, <2>2
<1> QED
  BY <1>5, <1>6, <1>7, <1>8 DEF MappingInv

\* A transaction leaves whole records, with the fields of one bf.yaml.
LEMMA TransactionStep ==
    ASSUME Mapping!ReprojectionAssumption, files \in [Record -> FileType], Mapping!FieldsAreWhole,
           NEW C \in SUBSET Record, NEW bf \in Configs,
           \A x \in C : files[x] # Mapping!Nothing /\ ~Mapping!Rejected(bf, files[x].printed),
           files' = [x \in Record |-> IF x \in C THEN Mapping!Stored(bf, files[x].printed) ELSE files[x]]
    PROVE  /\ files' \in [Record -> FileType] /\ Mapping!FieldsAreWhole'
           /\ \A x \in C : /\ files'[x].printed = files[x].printed
                           /\ files'[x].fields = Mapping!Project(bf, files[x].printed)
<1>1. \A x \in C : /\ files'[x].printed = files[x].printed /\ files'[x].fields = Mapping!Project(bf, files[x].printed)
                  /\ files'[x] = Mapping!Stored(bf, files[x].printed)
  BY DEF Mapping!Stored
<1>2. ASSUME NEW x \in Record PROVE files'[x] \in FileType
  <2>1. CASE x \in C
    <3>1. files[x].printed \in Documents
      BY <2>1 DEF FileType
    <3> QED
      BY <1>1, <2>1, <3>1, ProjectionTyped
  <2>2. CASE x \notin C
    BY <2>2
  <2> QED
    BY <2>1, <2>2
<1>3. files' \in [Record -> FileType]
  BY <1>2
<1>4. Mapping!FieldsAreWhole'
  <2> SUFFICES ASSUME NEW x \in Record, files'[x] # Mapping!Nothing
      PROVE  \E c \in Configs : ~Mapping!Rejected(c, files'[x].printed) /\ files'[x].fields = Mapping!Project(c, files'[x].printed)
    BY DEF Mapping!FieldsAreWhole, Mapping!Records
  <2>1. CASE x \in C
    BY <1>1, <2>1
  <2>2. CASE x \notin C
    BY <2>2 DEF Mapping!FieldsAreWhole, Mapping!Records
  <2> QED
    BY <2>1, <2>2
<1> QED
  BY <1>1, <1>3, <1>4

\* A record of the list: it fails, it stays, it joins the next transaction, or
\* that one is committed with it.
LEMMA ReprojectStep ==
    ASSUME Mapping!ReprojectionAssumption, MappingInv, NEW r \in Record, Mapping!Reproject(r)
    PROVE  MappingInv'
<1>t. MappingTyped /\ SensorHeld /\ Collecting /\ Mapping!FieldsAreWhole /\ Mapping!MappingsAreApplied
  BY DEF MappingInv
<1> DEFINE R == reprojection
           rest == R.todo \ {r}
           document == files[r].printed
           joined == R.changed \union {r}
           failed == [R.count EXCEPT !.failed = @ + 1]
           unchanged == [R.count EXCEPT !.unchanged = @ + 1]
           changed == [R.count EXCEPT !.changed = @ + 1]
<1>1. /\ R.at = "files" /\ r \in R.todo /\ settled' = FALSE
      /\ UNCHANGED <<config, collection, sensorLock, edits, faults>>
  BY DEF Mapping!Reproject
<1>2. R \in Rewriting /\ Visiting
  BY <1>t, <1>1 DEF MappingTyped, MappingInv, Loaded, Mapping!None
<1>3. R.bf \in Configs /\ R.todo \subseteq Record /\ R.changed \subseteq Record /\ R.before \in [Record -> FileType]
      /\ R.count \in CountType
  BY <1>2 DEF Rewriting
<1>4. \/ /\ Mapping!Rejected(R.bf, document) /\ files' = files
         /\ reprojection' = [R EXCEPT !.todo = rest, !.count = failed]
      \/ /\ ~Mapping!Rejected(R.bf, document) /\ Mapping!Project(R.bf, document) = files[r].fields /\ files' = files
         /\ reprojection' = [R EXCEPT !.todo = rest, !.count = unchanged]
      \/ /\ ~Mapping!Rejected(R.bf, document) /\ Mapping!Project(R.bf, document) # files[r].fields /\ files' = files
         /\ reprojection' = [R EXCEPT !.todo = rest, !.changed = joined, !.count = changed]
      \/ /\ ~Mapping!Rejected(R.bf, document) /\ Mapping!Project(R.bf, document) # files[r].fields
         /\ reprojection' = [R EXCEPT !.todo = rest, !.changed = {}, !.count = changed]
         /\ files' = [x \in Record |-> IF x \in joined THEN Mapping!Stored(R.bf, files[x].printed) ELSE files[x]]
  BY <1>2, <1>3 DEF Mapping!Reproject, Mapping!Counted, Mapping!Transaction, Rewriting, CountType
<1>31. /\ {failed, unchanged, changed} \subseteq CountType
       /\ failed.changed = R.count.changed /\ unchanged.changed = R.count.changed
       /\ changed.changed = R.count.changed + 1
       /\ \A c \in {failed, unchanged, changed} :
             c.changed + c.unchanged + c.failed = R.count.changed + R.count.unchanged + R.count.failed + 1
  BY <1>3 DEF CountType
<1> HIDE DEF failed, unchanged, changed
<1>5. /\ reprojection' \in Rewriting /\ reprojection'.at = "files" /\ reprojection'.bf = R.bf
      /\ reprojection'.todo = rest /\ reprojection'.before = R.before
  <2>1. reprojection'.at = "files" /\ reprojection'.bf = R.bf /\ reprojection'.todo = rest
        /\ reprojection'.before = R.before
    BY <1>2, <1>4 DEF Rewriting
  <2>2. reprojection' \in Rewriting
    <3>1. rest \in SUBSET Record /\ joined \in SUBSET Record /\ {} \in SUBSET Record
      BY <1>3
    <3> HIDE DEF rest, joined
    <3>2. PICK C \in SUBSET Record, c \in CountType :
            \/ reprojection' = [R EXCEPT !.todo = rest, !.changed = C, !.count = c]
            \/ reprojection' = [R EXCEPT !.todo = rest, !.count = c]
      BY <1>4, <1>31, <3>1
    <3> QED
      BY <1>2, <3>1, <3>2 DEF Rewriting
  <2> QED
    BY <2>1, <2>2
<1>6. Before' = Before /\ IsFiniteSet(Before) /\ r \in Before /\ rest \subseteq Before /\ R.changed \subseteq Before \ R.todo
      /\ files[r] = R.before[r] /\ \A x \in R.changed : files[x] = R.before[x]
  <2>1. IsFiniteSet(Record)
    BY MappingCounts DEF Mapping!ReprojectionAssumption
  <2>2. IsFiniteSet(Before)
    BY <2>1, FS_Subset DEF Before
  <2> QED
    BY <1>1, <1>2, <1>5, <2>2 DEF Before, Visiting
<1>7. Cardinality(Before \ rest) = Cardinality(Before \ R.todo) + 1
  <2>1. Before \ rest = (Before \ R.todo) \cup {r} /\ r \notin Before \ R.todo
    BY <1>1, <1>6
  <2>2. IsFiniteSet(Before \ R.todo)
    BY <1>6, FS_Subset
  <2> QED
    BY <2>1, <2>2, FS_AddElement
<1>8. IsFiniteSet(Differ) /\ r \notin Differ
  BY <1>1, <1>6, FS_Subset DEF Differ
<1>9. Cardinality(Before \ R.todo) \in Nat /\ Cardinality(Differ) \in Nat
  <2>1. IsFiniteSet(Before \ R.todo)
    BY <1>6, FS_Subset
  <2> QED
    BY <1>8, <2>1, FS_CardinalityType
<1>10. SensorHeld' /\ Collecting' /\ Mapping!MappingsAreApplied'
  BY <1>1, <1>5, <1>t DEF SensorHeld, Collecting, Mapping!MappingsAreApplied
<1> HIDE DEF rest, document, joined
<1>11. CASE files' = files /\ reprojection'.changed = R.changed
  <2>1. \/ Mapping!Rejected(R.bf, files[r].printed) \/ Mapping!Project(R.bf, files[r].printed) = files[r].fields
    <3>1. r \in joined /\ r \notin R.changed
      BY <1>1, <1>6 DEF joined
    <3>2. R.changed # {} => reprojection'.changed # {}
      BY <1>11
    <3>3. ASSUME ~Mapping!Rejected(R.bf, document), Mapping!Project(R.bf, document) # files[r].fields PROVE FALSE
      <4>1. CASE reprojection' = [R EXCEPT !.todo = rest, !.changed = joined, !.count = changed]
        BY <1>2, <1>11, <3>1, <4>1 DEF Rewriting
      <4>2. CASE files' = [x \in Record |-> IF x \in joined THEN Mapping!Stored(R.bf, files[x].printed) ELSE files[x]]
        <5>1. files'[r] = Mapping!Stored(R.bf, document)
          BY <3>1, <4>2 DEF document
        <5> QED
          BY <1>11, <3>3, <5>1 DEF Mapping!Stored
      <4> QED
        BY <1>4, <3>3, <4>1, <4>2
    <3> QED
      BY <3>3 DEF document
  <2>2. /\ reprojection'.count.changed = R.count.changed
        /\ reprojection'.count.changed + reprojection'.count.unchanged + reprojection'.count.failed
              = R.count.changed + R.count.unchanged + R.count.failed + 1
    <3>1. reprojection'.count \in {failed, unchanged}
      BY <1>2, <1>4, <2>1 DEF Rewriting, document
    <3> QED
      BY <1>31, <3>1
  <2>3. Differ' = Differ /\ Mapping!Records' = Mapping!Records
    BY <1>5, <1>6, <1>11 DEF Differ, Mapping!Records
  <2>4. Visiting'
    BY <1>2, <1>3, <1>5, <1>6, <1>7, <1>9, <1>11, <2>1, <2>2, <2>3 DEF Visiting, rest, CountType
  <2>5. MappingTyped' /\ Mapping!FieldsAreWhole'
    BY <1>1, <1>t, <1>5, <1>11 DEF MappingTyped, Mapping!FieldsAreWhole, Mapping!Records
  <2> QED
    BY <1>10, <2>4, <2>5 DEF MappingInv
<1>12. ASSUME ~Mapping!Rejected(R.bf, document), Mapping!Project(R.bf, document) # files[r].fields PROVE MappingInv'
  <2>1. /\ reprojection'.count.changed = R.count.changed + 1
        /\ reprojection'.count.changed + reprojection'.count.unchanged + reprojection'.count.failed
              = R.count.changed + R.count.unchanged + R.count.failed + 1
    <3>1. reprojection'.count = changed
      BY <1>2, <1>4, <1>12 DEF Rewriting, document
    <3> QED
      BY <1>31, <3>1
  <2>2. \A x \in joined : /\ files[x] = R.before[x] /\ x \in Before /\ files[x] # Mapping!Nothing /\ x \in Record
                          /\ ~Mapping!Rejected(R.bf, files[x].printed) /\ files[x].fields # Mapping!Project(R.bf, files[x].printed)
    BY <1>2, <1>6, <1>12 DEF joined, document, Visiting, Before
  <2>3. Cardinality(Differ \cup {r}) = Cardinality(Differ) + 1
    BY <1>8, FS_AddElement
  <2>4. CASE files' = files /\ reprojection'.changed = joined
    <3>1. Differ' = Differ \cup {r} /\ Mapping!Records' = Mapping!Records
      BY <1>5, <1>6, <2>4 DEF Differ, joined, Mapping!Records
    <3>2. Visiting'
      BY <1>1, <1>2, <1>3, <1>5, <1>6, <1>7, <1>9, <2>1, <2>2, <2>3, <2>4, <3>1 DEF Visiting, rest, joined, CountType
    <3>3. MappingTyped' /\ Mapping!FieldsAreWhole'
      BY <1>1, <1>t, <1>5, <2>4 DEF MappingTyped, Mapping!FieldsAreWhole, Mapping!Records
    <3> QED
      BY <1>10, <3>2, <3>3 DEF MappingInv
  <2>5. CASE /\ files' = [x \in Record |-> IF x \in joined THEN Mapping!Stored(R.bf, files[x].printed) ELSE files[x]]
             /\ reprojection'.changed = {}
    <3>1. /\ files' \in [Record -> FileType] /\ Mapping!FieldsAreWhole'
          /\ \A x \in joined : /\ files'[x].printed = files[x].printed
                               /\ files'[x].fields = Mapping!Project(R.bf, files[x].printed)
      <4>1. joined \in SUBSET Record /\ files \in [Record -> FileType]
        BY <1>t, <2>2 DEF MappingTyped
      <4> QED
        BY <1>t, <1>3, <2>2, <2>5, <4>1, TransactionStep
    <3>2. \A x \in Record \ joined : files'[x] = files[x]
      BY <2>5
    <3>3. Differ' = Differ \cup {r}
      <4>1. \A x \in joined : files'[x] # R.before[x]
        BY <2>2, <3>1
      <4> QED
        BY <1>5, <1>6, <2>5, <3>2, <4>1 DEF Differ, joined, Before
    <3>4. Mapping!Records' \subseteq Before /\ \A x \in Before : files'[x].printed = R.before[x].printed
      BY <1>2, <2>2, <3>1, <3>2 DEF Visiting, Mapping!Records, Before
    <3>5. \A x \in Mapping!Records' \ rest : \/ Mapping!Rejected(R.bf, files'[x].printed)
                                       \/ files'[x].fields = Mapping!Project(R.bf, files'[x].printed)
      BY <1>2, <2>2, <3>1, <3>2 DEF Visiting, Mapping!Records, joined, rest
    <3>6. \A x \in rest : files'[x] = R.before[x]
      BY <1>2, <1>3, <1>6, <3>2 DEF Visiting, rest, joined
    <3>7. Visiting'
      BY ZenonT(60), <1>2, <1>3, <1>5, <1>6, <1>7, <1>9, <2>1, <2>3, <2>5, <3>3, <3>4, <3>5, <3>6 DEF Visiting, CountType
    <3>8. MappingTyped'
      BY <1>1, <1>t, <1>5, <3>1 DEF MappingTyped
    <3> QED
      BY <1>10, <3>1, <3>7, <3>8 DEF MappingInv
  <2> QED
    BY <1>2, <1>4, <1>12, <2>4, <2>5 DEF Rewriting
<1> QED
  BY <1>2, <1>4, <1>11, <1>12 DEF Rewriting, document

\* The last transaction: every record is as its mappings say, or rejected.
LEMMA FinishStep ==
    ASSUME Mapping!ReprojectionAssumption, MappingInv, Mapping!Finish
    PROVE  MappingInv'
<1>t. MappingTyped /\ SensorHeld /\ Collecting /\ Mapping!FieldsAreWhole /\ Mapping!MappingsAreApplied
  BY DEF MappingInv
<1> DEFINE R == reprojection
<1>1. /\ R.at = "files" /\ R.todo = {} /\ settled' = (R.bf = config)
      /\ collection' = IF collection.at = "loaded" THEN Mapping!Reading(collection.bf, collection.bf # config) ELSE collection
      /\ reprojection' = Mapping!None /\ sensorLock' = IF sensorLock = "reprojection" THEN "free" ELSE sensorLock
      /\ UNCHANGED <<config, edits, faults>>
      /\ files' = [x \in Record |-> IF x \in R.changed THEN Mapping!Stored(R.bf, files[x].printed) ELSE files[x]]
  BY DEF Mapping!Finish, Mapping!Transaction
<1>2. R \in Rewriting /\ Visiting
  BY <1>t, <1>1 DEF MappingTyped, MappingInv, Loaded, Mapping!None
<1>3. \A x \in R.changed : files[x] # Mapping!Nothing /\ ~Mapping!Rejected(R.bf, files[x].printed)
  BY <1>2 DEF Visiting, Before
<1>4. /\ files' \in [Record -> FileType] /\ Mapping!FieldsAreWhole'
      /\ \A x \in R.changed : /\ files'[x].printed = files[x].printed
                              /\ files'[x].fields = Mapping!Project(R.bf, files[x].printed)
  <2>1. R.changed \in SUBSET Record /\ R.bf \in Configs /\ files \in [Record -> FileType]
    BY <1>t, <1>2 DEF MappingTyped, Rewriting
  <2> QED
    BY <1>t, <1>1, <1>3, <2>1, TransactionStep
<1>5. collection.at \in {"none", "loaded"} /\ sensorLock = "reprojection"
  BY <1>t, <1>1 DEF SensorHeld, MappingTyped, Loaded, PrintedType, Mapping!None
<1>6. \/ collection' = Mapping!None
      \/ /\ collection' \in Loaded({"loaded", "running"}) /\ collection'.at = "loaded"
         /\ ~collection'.late => collection'.bf = config
  <2>1. CASE collection.at = "loaded"
    <3>1. collection \in Loaded({"loaded", "running"}) /\ config \in Configs
      BY <1>t, <2>1 DEF MappingTyped, PrintedType, Mapping!None
    <3>2. collection' = [at |-> "loaded", bf |-> collection.bf, late |-> collection.bf # config]
      BY <1>1, <2>1 DEF Mapping!Reading
    <3>3. collection.bf \in Configs /\ (collection.bf # config) \in BOOLEAN
      BY <3>1 DEF Loaded
    <3>4. collection' \in Loaded({"loaded", "running"})
      BY <3>2, <3>3 DEF Loaded
    <3> QED
      BY <3>2, <3>4
  <2>2. CASE collection.at = "none"
    BY <1>t, <1>1, <2>2 DEF MappingTyped, Loaded, PrintedType, Mapping!None
  <2> QED
    BY <1>5, <2>1, <2>2
<1>7. MappingTyped'
  BY <1>t, <1>1, <1>4, <1>5, <1>6 DEF MappingTyped
<1>8. SensorHeld' /\ Collecting'
  BY <1>1, <1>5, <1>6 DEF SensorHeld, Collecting, Mapping!None
<1>9. Mapping!MappingsAreApplied'
  <2> SUFFICES ASSUME R.bf = config, NEW x \in Record, files'[x] # Mapping!Nothing
      PROVE  \/ files'[x].fields = Mapping!Project(config, files'[x].printed) \/ Mapping!Rejected(config, files'[x].printed)
    BY <1>1 DEF Mapping!MappingsAreApplied, Mapping!Records
  <2>1. CASE x \in R.changed
    BY <1>4, <2>1
  <2>2. CASE x \notin R.changed
    BY <1>1, <1>2, <2>2 DEF Visiting, Mapping!Records
  <2> QED
    BY <2>1, <2>2
<1> QED
  BY <1>1, <1>4, <1>7, <1>8, <1>9 DEF MappingInv, Mapping!None

\* What holds of the records and of both runs, between any two of their steps.
THEOREM MappingInvariance ==
    ASSUME Mapping!ReprojectionAssumption
    PROVE  Mapping!Spec => []MappingInv
<1>1. Mapping!Init => MappingInv
  BY MappingStarts
<1>2. MappingInv /\ [Mapping!Next]_Mapping!vars => MappingInv'
  <2>1. ASSUME MappingInv, Mapping!Next PROVE MappingInv'
    BY <2>1, ConfigSteps, LockSteps, CommitStep, StopStep, ReprojectStep, FinishStep DEF Mapping!Next
  <2>2. ASSUME MappingInv, UNCHANGED Mapping!vars PROVE MappingInv'
    BY <2>2 DEF MappingInv, MappingTyped, SensorHeld, Collecting, Visiting, Before, Differ, Mapping!vars, Mapping!Records,
                Mapping!FieldsAreWhole, Mapping!MappingsAreApplied
  <2> QED
    BY <2>1, <2>2
<1> QED
  BY <1>1, <1>2, PTL DEF Mapping!Spec

\* However collections, edits of bf.yaml and kills fall between the transactions
\* of bf build --reproject (reproject of collect.py), no record is a mixture of
\* two mappings, a reprojection that ended left every record with those of its
\* bf.yaml, and its reply counts what it changed.
THEOREM FieldsStayRight ==
    ASSUME Mapping!ReprojectionAssumption
    PROVE  Mapping!Spec => []Mapping!FieldsAreRight
<1>1. MappingInv => Mapping!FieldsAreRight
  <2> SUFFICES ASSUME MappingInv, reprojection.at = "files", reprojection.todo = {}
      PROVE  LET count == reprojection.count
             IN  /\ count.changed + count.unchanged + count.failed = Cardinality(Before)
                 /\ count.changed = Cardinality(Differ)
                 /\ \A r \in Before : files[r].printed = reprojection.before[r].printed
    BY MappingCounts DEF MappingInv, Mapping!FieldsAreRight, Mapping!RepliesAreTrue, Before, Differ
  <2>1. Visiting /\ Before \ {} = Before
    BY DEF MappingInv
  <2> QED
    BY <2>1 DEF Visiting
<1> QED
  BY <1>1, MappingInvariance, PTL

=============================================================================
