------------------------------- MODULE Health -------------------------------
(***************************************************************************)
(* `bf status` of one brain (health.py: report): it reads bf.yaml, the     *)
(* cache, the run history and the queue one after the other, each at an    *)
(* instant of its own, while programs run and work fails and is resolved,  *)
(* and says what needs attention.  One bf.yaml, as first read, decides.    *)
(***************************************************************************)
EXTENDS Integers, FiniteSets

CONSTANTS
    Program,          \* sensors and routines
    Sensor,           \* those that fall silent
    Refresh, SilentAfter,
    Every, At, Days, Day,    \* the schedule of the one assistant, as in Schedules
    Configured,       \* what bf.yaml may say: owner -> "active", "manual", "disabled" or "absent"
    MaxTime, MaxChanges      \* bounds of the model

VARIABLES
    clock,
    settings,    \* bf.yaml, as the report read it
    history,     \* run history: the last success and whether the last run failed
    changed,     \* when a source last gained a record
    queue,       \* unresolved work, and health the dispatcher recorded
    cache,       \* whether the cache answers and indexed every file
    report,      \* the report in progress
    held         \* troubles all along the report, or at some time of it

vars == <<clock, settings, history, changed, queue, cache, report, held>>

Assistant == "assistant"
Channel == "channel"
Cache == "cache"
Never == 0 - 1
Owner == Program \union {Assistant}
Time == 0..MaxTime

HealthAssumption ==
    /\ Sensor \subseteq Program /\ Assistant \notin Program
    /\ {Refresh, SilentAfter, Every} \subseteq Nat
    /\ Configured \subseteq [Owner -> {"active", "manual", "disabled", "absent"}]
    /\ {MaxTime, MaxChanges} \subseteq Nat

\* When a schedule is due next.
Timer == INSTANCE Schedules WITH
    Lookback <- 1, Delay <- {}, MaxJobs <- 0, MaxWakes <- 0, clock <- 0, wake <- 0,
    asked <- 0, progress <- 0, jobs <- 0, reader <- 0, worker <- 0

-----------------------------------------------------------------------------
(* What a report makes of what it read at one instant.                      *)

Scheduled(state) == state = "active"

Freshness(success, now) ==
    IF success = Never THEN "never"
    ELSE IF now - success \in 0..(2 * Refresh) THEN "fresh" ELSE "overdue"

\* A source without a record, or without a success, is not silent.
Silent(p, success, news, now) ==
    p \in Sensor /\ success # Never /\ news # Never /\ now - news > SilentAfter

\* A wall-clock schedule, or one of some days, may be one period late.
ScheduleFreshness(success, now) ==
    IF success = Never THEN "never"
    ELSE IF (IF At # Timer!Anytime \/ Days # 0..(Timer!Week - 1)
             THEN now <= Timer!NextDue(now, success) + Every
             ELSE now - success \in 0..(2 * Every))
    THEN "fresh" ELSE "overdue"

Late(freshness) == freshness \in {"never", "overdue"}

ProgramNeedsAttention(p, state, entry, news, now) ==
    Scheduled(state) /\ (entry.failed \/ Late(Freshness(entry.success, now))
                         \/ Silent(p, entry.success, news, now))

\* Failed and uncertain jobs count; a queue nobody can read is a failure too.
AssistantNeedsAttention(state, q, now) ==
    /\ state \in {"active", "manual"}
    /\ \/ ~q.readable \/ q.failing
       \/ state = "active" /\ Late(ScheduleFreshness(q.success, now))

\* A mutant: only the configured assistants' work counts.
FailingJobsActive(state, q) == q.failing /\ state \in {"active", "manual"}

\* A paused assistant's work alerts no one, a removed one's does.
FailingJobs(state, q) == q.failing /\ state # "disabled"

\* A schedule the queue refused, and a stream or read that fails.
Refusing(state, q) == q.refused /\ state \in {"active", "manual"}
Deaf(state, q) == q.deaf /\ state \in {"active", "manual"}

-----------------------------------------------------------------------------

\* Who needs attention now, and for which reason (docs/schedule.md).
Old(success, period) == success = Never \/ clock \notin success..(success + 2 * period)

Enabled(o) == settings[o] \in {"active", "manual"}

Troubles ==
    {trouble \in Program \X {"failed", "late", "silent"} :
        /\ settings[trouble[1]] = "active"
        /\ LET entry == history[trouble[1]] news == changed[trouble[1]]
           IN  CASE trouble[2] = "failed" -> entry.failed
                 [] trouble[2] = "late" -> Old(entry.success, Refresh)
                 [] OTHER -> /\ trouble[1] \in Sensor /\ entry.success # Never
                             /\ news # Never /\ clock > news + SilentAfter}
    \union {trouble \in {Assistant} \X {"failed", "refused", "late", "unread"} :
        CASE trouble[2] = "failed" -> queue.failing /\ settings[Assistant] # "disabled"
          [] trouble[2] = "refused" -> queue.refused /\ Enabled(Assistant)
          [] trouble[2] = "late" -> settings[Assistant] = "active" /\ Old(queue.success, Every)
          [] OTHER -> ~queue.readable /\ Enabled(Assistant)}
    \union {trouble \in {Channel} \X {"undelivered", "deaf"} :
        IF trouble[2] = "deaf" THEN queue.deaf /\ Enabled(Assistant) ELSE queue.undelivered}
    \union {trouble \in {<<Cache, "skipped">>} : ~cache}

Read == [at |-> "none", now |-> 0, news |-> changed, alerts |-> {},
         problem |-> FALSE, refusing |-> FALSE, deaf |-> FALSE, raced |-> {}]

\* Programs ran or never did, and work may have failed.
Init ==
    /\ clock \in 0..(MaxTime - 1) /\ cache = TRUE
    /\ settings \in Configured
    /\ history \in [Program -> [success : {Never, 0}, failed : BOOLEAN]]
    /\ changed \in [Program -> {0}]
    /\ queue \in [failing : BOOLEAN, undelivered : {FALSE}, refused : {FALSE}, deaf : {FALSE},
                  readable : {TRUE}, success : {Never, 0}, changes : {0}]
    /\ report = Read /\ held = [always |-> {}, ever |-> {}]

\* bf.yaml, then the cache; the clock is read once.
Begin ==
    /\ report.at = "none"
    /\ report' = [Read EXCEPT !.at = "cache", !.now = clock]
    /\ held' = [always |-> Troubles, ever |-> Troubles]
    /\ UNCHANGED <<clock, settings, history, changed, queue, cache>>

\* A freshness check, which may index first, and each source's newest record;
\* a skipped file is a problem.
ReadCache ==
    /\ report.at = "cache"
    /\ report' = [report EXCEPT !.at = "programs", !.problem = ~cache, !.news = changed]
    /\ UNCHANGED <<clock, settings, history, changed, queue, cache, held>>

\* The sensors' and routines' history.
ReadPrograms ==
    /\ report.at = "programs"
    /\ report' = [report EXCEPT !.at = "assistants",
                     !.alerts = {p \in Program :
                         ProgramNeedsAttention(p, settings[p], history[p], report.news[p], report.now)}]
    /\ UNCHANGED <<clock, settings, history, changed, queue, cache, held>>

\* A queue that does not open is the assistants' error.
ReadAssistants ==
    /\ report.at = "assistants"
    /\ report' = [report EXCEPT !.at = "queue",
                     !.alerts = @ \union {a \in {Assistant} :
                         AssistantNeedsAttention(settings[a], queue, report.now)}]
    /\ UNCHANGED <<clock, settings, history, changed, queue, cache, held>>

\* Queue.report, a transaction of its own: the recorded health.
ReadHealth ==
    /\ report.at = "queue"
    /\ report' = IF queue.readable
                 THEN [report EXCEPT !.at = "failing",
                          !.refusing = Refusing(settings[Assistant], queue),
                          !.deaf = Deaf(settings[Assistant], queue)]
                 ELSE [report EXCEPT !.at = "done", !.problem = TRUE]
    /\ UNCHANGED <<clock, settings, history, changed, queue, cache, held>>

\* Queue.failing, another: what only a retry or a cancellation resolves.
ReadFailing ==
    /\ report.at = "failing"
    /\ report' = IF queue.readable
                 THEN [report EXCEPT !.at = "done",
                          !.alerts = @ \union {a \in {Assistant} :
                                 FailingJobs(settings[a], queue) \/ report.refusing}
                              \union {c \in {Channel} : queue.undelivered \/ report.deaf}]
                 ELSE [report EXCEPT !.at = "done", !.problem = TRUE]
    /\ UNCHANGED <<clock, settings, history, changed, queue, cache, held>>

Healthy == report.alerts = {} /\ ~report.problem

-----------------------------------------------------------------------------
(* The brain meanwhile.                                                     *)

Happens ==
    /\ report.at \notin {"none", "done"} /\ queue.changes < MaxChanges
    /\ held' = [always |-> held.always \intersect Troubles', ever |-> held.ever \union Troubles']

Counted(q) == [q EXCEPT !.changes = @ + 1]

\* A run ends: the history is written, and what it found is indexed.
Ran(p, failed, news) ==
    /\ settings[p] # "absent"
    /\ history' = [history EXCEPT ![p] = [success |-> IF failed THEN @.success ELSE clock, failed |-> failed]]
    /\ changed' = [changed EXCEPT ![p] = IF news THEN clock ELSE @]
    /\ queue' = Counted(queue)
    /\ report' = [report EXCEPT !.raced = @ \union IF clock > report.now /\ ~failed THEN {p} ELSE {}]
    /\ UNCHANGED <<clock, settings, cache>> /\ Happens

\* A scheduled run completes.
Scheduling ==
    /\ settings[Assistant] = "active"
    /\ queue' = Counted([queue EXCEPT !.success = clock])
    /\ report' = [report EXCEPT !.raced = @ \union IF clock > report.now THEN {Assistant} ELSE {}]
    /\ UNCHANGED <<clock, settings, history, changed, cache>> /\ Happens

\* Work fails or is resolved, an admission or a transport fails or works again,
\* and the queue cannot be read or can.
Work ==
    /\ \E part \in {"failing", "undelivered", "refused", "deaf", "readable"} :
          queue' = Counted([queue EXCEPT ![part] = ~@])
    /\ UNCHANGED <<clock, settings, history, changed, cache, report>> /\ Happens

Skip ==
    /\ cache' = ~cache /\ queue' = Counted(queue)
    /\ UNCHANGED <<clock, settings, history, changed, report>> /\ Happens

Tick ==
    /\ clock < MaxTime /\ report.at \notin {"none", "done"} /\ clock' = clock + 1
    /\ UNCHANGED <<settings, history, changed, queue, cache, report>>
    /\ held' = [always |-> held.always \intersect Troubles', ever |-> held.ever \union Troubles']

Next ==
    \/ Begin \/ ReadCache \/ ReadPrograms \/ ReadAssistants \/ ReadHealth \/ ReadFailing
    \/ \E p \in Program, failed, news \in BOOLEAN : Ran(p, failed, news)
    \/ Scheduling \/ Work \/ Skip \/ Tick

Spec == Init /\ [][Next]_vars

-----------------------------------------------------------------------------

TypeOK ==
    /\ clock \in Time /\ report.now \in 0..clock
    /\ settings \in Configured
    /\ \A p \in Program : history[p].success \in {Never} \union Time
    /\ changed \in [Program -> Time \union {Never}]
    /\ report.at \in {"none", "cache", "programs", "assistants", "queue", "failing", "done"}
    /\ report.alerts \subseteq Owner \union {Channel}
    /\ held.always \subseteq held.ever

Who(troubles) == {trouble[1] : trouble \in troubles}

(* What needs attention all along a report is in it and makes it unhealthy,   *)
(* unless the queue cannot be read, which is a problem of the reply; and what *)
(* it reports needed attention at some time of it.  What succeeds during the  *)
(* report is set aside: by the report's clock that success is not yet.        *)
TroubleIsTold ==
    report.at = "done" =>
        /\ held.always # {} => ~Healthy
        /\ Who(held.always) \subseteq report.alerts \union IF report.problem THEN {Assistant, Channel, Cache} ELSE {}
        /\ report.alerts \subseteq Who(held.ever) \union report.raced

(* bf status names an enabled assistant whose schedule last succeeded more    *)
(* than twice its period ago (docs/schedule.md: overdue).                     *)
LatenessIsTold ==
    (/\ report.at = "done" /\ settings[Assistant] = "active"
     /\ queue.changes = 0 /\ queue.success # Never /\ clock - queue.success > 2 * Every /\ clock = report.now)
    => Assistant \in report.alerts \/ report.problem

=============================================================================
