----------------------------- MODULE Collection -----------------------------
(***************************************************************************)
(* Updates and manual runs of one brain's sensors and routines (update.py, *)
(* collect.py, history.py): which programs are due, the window each one    *)
(* covers, the locks a run takes, what it stores, and the run history that *)
(* the next window is computed from.  Stored evidence and the history are  *)
(* two files: a process may die or fail between them.                      *)
(*                                                                         *)
(* Time is counted in units of the smallest setting; an instant t stands   *)
(* for the items of [t, t+1).  Committing records is one step here: module *)
(* RecordCommit has its parts.                                             *)
(***************************************************************************)
EXTENDS Integers, FiniteSets, FiniteSetsExt

CONSTANTS
    Process,
    Does,            \* process |-> the commands it may be: update, collect, run
    Sensor,
    Routine,
    Snapshots,       \* the sensors whose mode is snapshot
    Refresh,         \* program |-> its refresh, 0 when only run by hand
    Lookback,
    Overlap,
    Reconcile,       \* the refresh and the lookback of a reconciliation
    CatchUp,         \* CATCH_UP
    Backoff,         \* BACKOFF
    Day,             \* units of a local day
    StartTime, MaxTime, MaxCorrections, MaxFailures, MaxKills,   \* bounds
    NoOne

Program == Sensor \cup Routine

\* What the constants must satisfy; the instances assume it.
CollectionAssumption ==
    /\ Refresh \in [Program -> Nat]
    /\ {Lookback, CatchUp, Backoff, Day} \subseteq Nat \ {0}
    /\ Reconcile \in [refresh : Nat \ {0}, lookback : Nat \ {0}]
    /\ {Overlap, StartTime, MaxTime, MaxFailures} \subseteq Nat /\ StartTime <= MaxTime
    /\ Snapshots \subseteq Sensor /\ Sensor \cap Routine = {}
    /\ NoOne \notin Process \cup Program /\ {".update", "writer"} \cap Program = {}

VARIABLES
    clock,
    history,      \* program |-> its entry of the run history
    collected,    \* program |-> the instants its stored output covers
    written,      \* routine |-> the days of its actions, with how many
    held,         \* lock |-> the process that holds it
    call,         \* process |-> what it does
    since,        \* process |-> what other cycles began since it listed what is due
    budget        \* corrections of the clock and kills so far

vars == <<clock, history, collected, written, held, call, since, budget>>

Unset == -1
Time == StartTime..MaxTime
Instant == (StartTime - CatchUp - Lookback - Reconcile.lookback)..MaxTime
DayOf(t) == t \div Day
Locks == Program \cup {".update", "writer"}
Smaller(a, b) == Min({a, b})
Larger(a, b) == Max({a, b})

NoEntry == [run |-> Unset, success |-> Unset, start |-> Unset, end |-> Unset,
            reconciled |-> Unset, failures |-> 0]
Idle == [at |-> "idle", now |-> 0, todo |-> {}, cycle |-> FALSE, name |-> NoOne,
         start |-> 0, end |-> 0, revisit |-> FALSE, skipped |-> FALSE]

TypeOK ==
    /\ clock \in Time
    /\ history \in [Program -> [run : {Unset} \cup Time, success : {Unset} \cup Time,
                                start : {Unset} \cup Instant, end : {Unset} \cup Instant,
                                reconciled : {Unset} \cup Time, failures : 0..MaxFailures]]
    /\ collected \in [Program -> SUBSET Instant]
    /\ DOMAIN written = Routine
    /\ held \in [Locks -> Process \cup {NoOne}]
    /\ \A p \in Process :
        /\ call[p].at \in {"idle", "cycle", "next", "lock", "run", "remember", "failed"}
        /\ call[p].name # NoOne => call[p].start < call[p].end
    /\ since \in [Process -> SUBSET Program]

Init ==
    /\ clock = StartTime
    /\ history = [x \in Program |-> NoEntry]
    /\ collected = [x \in Program |-> {}]
    /\ written = [x \in Routine |-> [d \in {DayOf(t) : t \in Time} |-> 0]]
    /\ held = [l \in Locks |-> NoOne]
    /\ call = [p \in Process |-> Idle]
    /\ since = [p \in Process |-> {}]
    /\ budget = [corrections |-> 0, kills |-> 0]

-----------------------------------------------------------------------------
(* What is due, and the window of each run. *)

\* next_due: one refresh after the last success, or a backoff after failures.
Delay(x, last) ==
    IF last.failures = 0 THEN Refresh[x]
    ELSE Smaller(Refresh[x], Backoff * 2 ^ (last.failures - 1))

Due(x, now) ==
    LET last == history[x]
        anchor == IF last.failures = 0 THEN last.success ELSE last.run
    IN  /\ Refresh[x] # 0
        /\ anchor = Unset \/ anchor > now \/ anchor + Delay(x, last) <= now

Revisit(s, now) ==
    LET at == history[s].reconciled
    IN  at = Unset \/ now < at \/ now - at >= Reconcile.refresh

\* due: a window sensor resumes, with overlap, where its coverage ends, but at
\* most CatchUp ago; a reconciliation reaches back further.
SensorStart(s, now) ==
    LET floor == now - CatchUp
        resumed == Larger(history[s].end, floor) - Overlap
        plain == IF s \notin Snapshots /\ history[s].end # Unset /\ resumed < now
                 THEN Larger(resumed, floor)
                 ELSE now - Lookback
    IN  IF Revisit(s, now) THEN Smaller(plain, now - Reconcile.lookback) ELSE plain

\* window: a routine resumes after its last reviewed window.
RoutineStart(r, now) ==
    IF history[r].end # Unset /\ history[r].end < now THEN history[r].end ELSE now - Lookback

Window(x, now) ==
    IF x \in Sensor
    THEN [name |-> x, start |-> SensorStart(x, now), end |-> now, revisit |-> Revisit(x, now)]
    ELSE [name |-> x, start |-> RoutineStart(x, now), end |-> now, revisit |-> FALSE]

\* A mutant: the claim reaches the end of the window, collected or not.
CoverageToItsEnd(s, last, start, end, observed) ==
    [claim |-> [start |-> IF last.end = Unset THEN start ELSE Smaller(start, last.start), end |-> end],
     latest |-> s \in Snapshots \/ end >= observed]

\* A mutant: a later run is contiguous although it leaves a gap.
CoverageOverGaps(s, last, start, end, observed) ==
    LET covered == Smaller(end, observed)
    IN  [claim |-> IF last.end # Unset /\ covered < last.end
                   THEN [start |-> last.start, end |-> last.end] ELSE [start |-> start, end |-> covered],
         latest |-> TRUE]

\* _coverage: the contiguous interval a sensor's history claims after a run
\* over [start, end), and whether the run makes its evidence fresh.
Coverage(s, last, start, end, observed) ==
    LET covered == Smaller(end, observed)
        proved == Min({last.end, last.run, observed})
        known == last.end # Unset /\ last.start < proved
        before == [start |-> last.start, end |-> proved]
        resumes == s \notin Snapshots /\ Refresh[s] > 0
        contiguous ==
            \/ ~known
            \/ /\ covered >= before.end
               /\ ~resumes \/ start <= Larger(before.end, observed - CatchUp)
        interval ==
            IF known /\ start <= before.end /\ covered >= before.start
            THEN [start |-> Smaller(start, before.start), end |-> Larger(covered, before.end)]
            ELSE IF contiguous THEN [start |-> start, end |-> covered] ELSE before
    IN  IF start >= covered
        THEN [claim |-> IF known THEN before ELSE [start |-> last.start, end |-> last.end],
              latest |-> FALSE]
        ELSE [claim |-> interval, latest |-> contiguous /\ (s \in Snapshots \/ end >= observed)]

-----------------------------------------------------------------------------
(* Locks. *)

Frees(p, locks) == [l \in Locks |-> IF l \in locks /\ held[l] = p THEN NoOne ELSE held[l]]
To(p, at) == call' = [call EXCEPT ![p].at = at]

\* A run is over: the cycle goes on, or the command ends.
Ends(p) ==
    IF call[p].cycle
    THEN call' = [call EXCEPT ![p] = [Idle EXCEPT !.at = "next", !.now = call[p].now,
                                      !.todo = call[p].todo, !.cycle = TRUE]]
    ELSE call' = [call EXCEPT ![p] = Idle]

Finished(p) == held' = Frees(p, {call[p].name, "writer"}) /\ Ends(p)

-----------------------------------------------------------------------------
(* Commands. *)

Update(p) ==
    /\ "update" \in Does[p]
    /\ call[p].at = "idle"
    /\ call' = [call EXCEPT ![p] = [Idle EXCEPT !.at = "cycle", !.cycle = TRUE]]
    /\ UNCHANGED <<clock, history, collected, written, held, since, budget>>

\* A mutant: what is due is listed before the wait for the cycle lock.
EnterCycleListed(p) ==
    /\ call[p].at = "cycle"
    /\ IF call[p].todo = {} THEN UNCHANGED held
       ELSE held[".update"] = NoOne /\ held' = [held EXCEPT ![".update"] = p]
    /\ call' = [call EXCEPT ![p].at = IF call[p].todo = {} THEN "cycle" ELSE "next", ![p].now = clock,
                            ![p].todo = IF call[p].todo = {}
                                        THEN {Window(x, clock) : x \in {y \in Program : Due(y, clock)}}
                                        ELSE @]
    /\ since' = IF call[p].todo = {} THEN [since EXCEPT ![p] = {}] ELSE since
    /\ UNCHANGED <<clock, history, collected, written, budget>>

\* _cycle, and the due list dated and computed inside it.
EnterCycle(p) ==
    /\ call[p].at = "cycle"
    /\ held[".update"] = NoOne
    /\ held' = [held EXCEPT ![".update"] = p]
    /\ call' = [call EXCEPT ![p].at = "next", ![p].now = clock,
                            ![p].todo = {Window(x, clock) : x \in {y \in Program : Due(y, clock)}}]
    /\ since' = [since EXCEPT ![p] = {}]
    /\ UNCHANGED <<clock, history, collected, written, budget>>

\* Another update is still active when the wait ends.
CycleBusy(p) ==
    /\ call[p].at = "cycle"
    /\ held[".update"] # NoOne
    /\ call' = [call EXCEPT ![p] = Idle]
    /\ since' = [since EXCEPT ![p] = {}]
    /\ UNCHANGED <<clock, history, collected, written, held, budget>>

\* Sensors run in any order, in a pool; routines after them.
NextProgram(p) ==
    /\ call[p].at = "next"
    /\ \E w \in call[p].todo :
        /\ w.name \in Routine => \A v \in call[p].todo : v.name \notin Sensor
        /\ call' = [call EXCEPT ![p].at = "lock", ![p].todo = @ \ {w}, ![p].name = w.name,
                                ![p].start = w.start, ![p].end = w.end, ![p].revisit = w.revisit]
    /\ UNCHANGED <<clock, history, collected, written, held, since, budget>>

CycleEnds(p) ==
    /\ call[p].at = "next"
    /\ call[p].todo = {}
    /\ held' = Frees(p, {".update"})
    /\ call' = [call EXCEPT ![p] = Idle]
    /\ since' = [since EXCEPT ![p] = {}]
    /\ UNCHANGED <<clock, history, collected, written, budget>>

\* bf collect over any window, outside the cycle lock; it is dated once it has
\* the sensor's own lock.
Collect(p, s, start, end) ==
    /\ "collect" \in Does[p]
    /\ call[p].at = "idle"
    /\ start < end
    /\ held[s] = NoOne
    /\ held' = [held EXCEPT ![s] = p]
    /\ call' = [call EXCEPT ![p] = [Idle EXCEPT !.at = "run", !.now = clock, !.name = s,
                                    !.start = start, !.end = end]]
    /\ UNCHANGED <<clock, history, collected, written, since, budget>>

\* bf run of a routine: dated, and its window computed, before any lock.
RunRoutine(p, r) ==
    /\ "run" \in Does[p]
    /\ call[p].at = "idle"
    /\ call' = [call EXCEPT ![p] = [Idle EXCEPT !.at = "lock", !.now = clock, !.name = r,
                                    !.start = RoutineStart(r, clock), !.end = clock]]
    /\ UNCHANGED <<clock, history, collected, written, held, since, budget>>

-----------------------------------------------------------------------------
(* One run of a sensor or a routine. *)

Lock(p) ==
    /\ call[p].at = "lock"
    /\ IF held[call[p].name] = NoOne
       THEN /\ held' = [held EXCEPT ![call[p].name] = p]
            /\ To(p, "run")
            /\ since' = [q \in Process |-> IF call[p].cycle /\ q # p /\ call[q].cycle
                                           THEN since[q] \cup {call[p].name} ELSE since[q]]
       ELSE Ends(p) /\ UNCHANGED <<held, since>>
    /\ UNCHANGED <<clock, history, collected, written, budget>>

\* The program fails or prints something invalid, a snapshot would shrink too
\* much, or the writer stays busy: nothing is written.
Fails(p) ==
    /\ call[p].at = "run"
    /\ history[call[p].name].failures < MaxFailures
    /\ To(p, "failed")
    /\ UNCHANGED <<clock, history, collected, written, held, since, budget>>

\* A mutant: a routine writes its action although it has today's.
StoreAgain(p) ==
    /\ call[p].at = "run"
    /\ held["writer"] = NoOne
    /\ \E text \in (IF call[p].name \in Routine THEN BOOLEAN ELSE {FALSE}) :
       LET x == call[p].name
       IN  /\ call' = [call EXCEPT ![p].at = "remember"]
           /\ written' = IF text THEN [written EXCEPT ![x][DayOf(call[p].now)] = @ + 1] ELSE written
           /\ collected' = [collected EXCEPT ![x] =
                               @ \cup (call[p].start..(Smaller(call[p].end, call[p].now) - 1))]
    /\ held' = [held EXCEPT !["writer"] = p]
    /\ UNCHANGED <<clock, history, since, budget>>

\* The program ran and its output is valid: it is stored in the writer lock.
\* A routine may have printed nothing; one that already has today's action
\* skips.  The action is dated when its run started.
Store(p) ==
    /\ call[p].at = "run"
    /\ held["writer"] = NoOne
    /\ \E text \in (IF call[p].name \in Routine THEN BOOLEAN ELSE {FALSE}) :
       LET x == call[p].name
           day == DayOf(call[p].now)
           skips == text /\ written[x][day] > 0
       IN  /\ call' = [call EXCEPT ![p].at = "remember", ![p].skipped = skips]
           /\ written' = IF text /\ ~skips
                         THEN [written EXCEPT ![x][day] = @ + 1] ELSE written
           /\ collected' = IF skips THEN collected
                           ELSE [collected EXCEPT ![x] =
                                   @ \cup (call[p].start..(Smaller(call[p].end, call[p].now) - 1))]
    /\ held' = [held EXCEPT !["writer"] = p]
    /\ UNCHANGED <<clock, history, since, budget>>

\* remember, still in the writer lock: what the history then says of the run.
SensorEntry(p) ==
    LET c == call[p]
        last == history[c.name]
        new == Coverage(c.name, last, c.start, c.end, c.now)
    IN  [last EXCEPT !.run = c.now, !.failures = 0,
                     !.start = new.claim.start, !.end = new.claim.end,
                     !.success = IF new.latest THEN c.now ELSE @,
                     !.reconciled = IF c.revisit /\ new.latest THEN c.now ELSE @]

RoutineEntry(p) ==
    LET c == call[p]
    IN  [history[c.name] EXCEPT !.run = c.now, !.success = c.now, !.failures = 0,
                                !.start = IF c.skipped THEN @ ELSE c.start,
                                !.end = IF c.skipped THEN @ ELSE c.end]

Remember(p) ==
    /\ call[p].at = "remember"
    /\ history' = [history EXCEPT ![call[p].name] =
                     IF call[p].name \in Sensor THEN SensorEntry(p) ELSE RoutineEntry(p)]
    /\ Finished(p)
    /\ UNCHANGED <<clock, collected, written, since, budget>>

\* The history cannot be saved although the output was.
Forgets(p) ==
    /\ call[p].at = "remember"
    /\ history[call[p].name].failures < MaxFailures
    /\ held' = Frees(p, {"writer"})
    /\ To(p, "failed")
    /\ UNCHANGED <<clock, history, collected, written, since, budget>>

\* _failed: the failure is remembered if the writer and the disk allow it.
Failed(p) ==
    /\ call[p].at = "failed"
    /\ LET x == call[p].name
       IN  \/ /\ held["writer"] = NoOne
              /\ history' = [history EXCEPT ![x].run = call[p].now, ![x].failures = @ + 1]
           \/ UNCHANGED history
    /\ Finished(p)
    /\ UNCHANGED <<clock, collected, written, since, budget>>

-----------------------------------------------------------------------------
(* The machine. *)

Tick ==
    /\ clock < MaxTime
    /\ clock' = clock + 1
    /\ UNCHANGED <<history, collected, written, held, call, since, budget>>

Correct ==
    /\ budget.corrections < MaxCorrections
    /\ clock > StartTime
    /\ clock' = clock - 1
    /\ budget' = [budget EXCEPT !.corrections = @ + 1]
    /\ UNCHANGED <<history, collected, written, held, call, since>>

Kill(p) ==
    /\ call[p].at # "idle"
    /\ budget.kills < MaxKills
    /\ budget' = [budget EXCEPT !.kills = @ + 1]
    /\ held' = Frees(p, Locks)
    /\ call' = [call EXCEPT ![p] = Idle]
    /\ since' = [since EXCEPT ![p] = {}]
    /\ UNCHANGED <<clock, history, collected, written>>

Next ==
    \/ Tick \/ Correct
    \/ \E p \in Process :
        \/ Update(p) \/ EnterCycle(p) \/ CycleBusy(p) \/ NextProgram(p) \/ CycleEnds(p)
        \/ \E s \in Sensor, start, end \in Time : Collect(p, s, start, end)
        \/ \E r \in Routine : RunRoutine(p, r)
        \/ Lock(p) \/ Fails(p) \/ Store(p) \/ Remember(p) \/ Forgets(p) \/ Failed(p)
        \/ Kill(p)

Spec == Init /\ [][Next]_vars

-----------------------------------------------------------------------------
(* Properties. *)

\* Evidence is stored before the history claims it: whatever runs fail, die or
\* overlap, and however the clock is corrected, every instant of the interval
\* a program's history claims was covered by a run whose output was stored.
HistoryIsTrue ==
    \A x \in Program : \A t \in Instant :
        history[x].start <= t /\ t < history[x].end => t \in collected[x]

\* The stretch the resume point of a sensor jumps over when a run is remembered.
Jumped(s) ==
    {t \in Instant : Larger(history[s].end, history'[s].run - CatchUp) <= t /\ t < history'[s].end}

Resumes(s) == Refresh[s] > 0 /\ s \notin Snapshots /\ history[s].end # Unset

\* A scheduled sensor's resume point never jumps over a stretch nothing
\* covered: a run that leaves a gap does not move it, and only what lies
\* CatchUp ago may be given up.  That is so while the last run that the
\* history names is not older than the resume point: after a clock correction,
\* or when a cycle that was dated earlier fails last, the history proves less.
SkipsNothing ==
    \A s \in Sensor :
        Resumes(s) /\ history[s].end <= history[s].run => Jumped(s) \subseteq collected'[s]

NothingSkipped == [][SkipsNothing]_vars

\* The same whatever ran last, as the docstring of _coverage has it: a later
\* run that leaves a gap inside the catch-up horizon is not contiguous, so the
\* next update still fills the gap.
FillsGaps == \A s \in Sensor : Resumes(s) => Jumped(s) \subseteq collected'[s]

\* A routine has at most one action per local day, although runs by hand
\* overlap cycles and a process may die after it wrote the action and before
\* the history says so.
OneActionPerDay == \A r \in Routine : \A d \in DOMAIN written[r] : written[r][d] <= 1

\* Watch and timers never repeat a stale due list: what a cycle runs was not
\* begun by another cycle since it listed what is due.
DueListIsFresh ==
    \A p \in Process :
        call[p].cycle /\ call[p].at \in {"run", "remember", "failed"}
        => call[p].name \notin since[p]

=============================================================================
