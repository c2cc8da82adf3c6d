------------------------------ MODULE Schedules ------------------------------
(***************************************************************************)
(* One schedule of an assistant and the wakes its runs ask for             *)
(* (assistants.py: due_schedules, schedule; models.py:                     *)
(* AssistantSchedule.next_due; runtime.py: enqueue_wake, finish, retry).   *)
(* The dispatcher computes what is due and queues it in transactions of    *)
(* their own, while a worker finishes runs and the owner cancels them.     *)
(***************************************************************************)
EXTENDS Integers, FiniteSets, FiniteSetsExt

CONSTANTS
    Every,       \* the period of the schedule
    At,          \* its wall-clock time of day, or Anytime
    Days,        \* the days of a week it may run on
    Day,         \* length of a day
    Lookback,
    Delay,       \* how far ahead a run may ask for a wake
    MaxTime, MaxJobs, MaxWakes     \* bounds

Anytime == 0 - 1
Unset == 0 - 1
Week == 7
Nobody == 0
Time == 0..MaxTime
Job == 1..MaxJobs

\* What the constants must satisfy; the instances assume it.
SchedulesAssumption ==
    /\ {Every, Day, Lookback} \subseteq Nat \ {0}
    /\ At \in {Anytime} \cup 0..(Day - 1)
    /\ Days \subseteq 0..(Week - 1) /\ Days # {}
    /\ Delay \subseteq Nat

VARIABLES
    clock,
    wake,        \* the pending wake: which request, when due, and the job that took it
    asked,       \* wakes asked for so far
    progress,    \* the schedule's checkpoint: end of its last window, its success
    jobs,        \* the queue, in the order of admission
    reader,      \* where the dispatcher is in schedule()
    worker       \* the run a worker holds

vars == <<clock, wake, asked, progress, jobs, reader, worker>>

NoWake == [id |-> 0, due |-> 0, set |-> 0, job |-> Nobody]
NoJob == [slot |-> "none", state |-> "none", start |-> 0, end |-> 0, wake |-> 0]
Away == [at |-> "idle", now |-> 0, wake |-> NoWake, due |-> {}, progress |-> [end |-> Unset, success |-> Unset]]

States == {"none", "pending", "running", "failed", "complete", "cancelled"}

TypeOK ==
    /\ clock \in Time /\ asked \in 0..MaxWakes
    /\ wake.id \in 0..asked /\ wake.job \in {Nobody} \cup Job
    /\ \A j \in Job : jobs[j].slot \in {"none", "schedule", "wake"} /\ jobs[j].state \in States
    /\ reader.at \in {"idle", "wake", "schedule", "list", "queue"}
    /\ worker \in {Nobody} \cup Job

\* It is new, or its last run covered everything up to now.
Init ==
    /\ clock = 0 /\ asked = 0 /\ wake = NoWake
    /\ \E t \in {Unset, 0} : progress = [end |-> t, success |-> t]
    /\ jobs = [j \in Job |-> NoJob]
    /\ reader = Away /\ worker = Nobody

-----------------------------------------------------------------------------
(* next_due: a period after the last success, or the next slot of an        *)
(* allowed day.                                                             *)

DayOf(t) == t \div Day
Allowed(d) == d % Week \in Days
FirstAllowed(d) == Min({e \in d..(d + Week) : Allowed(e)})

NextDue(now, success) ==
    LET today == DayOf(now)
        slot == today * Day + At
        due == IF success = Unset THEN now ELSE success + Every
    IN  IF At = Anytime
        THEN IF Allowed(DayOf(due)) THEN due ELSE FirstAllowed(DayOf(due)) * Day
        ELSE IF Allowed(today) /\ (now < slot \/ success = Unset \/ success < slot) THEN slot
        ELSE FirstAllowed(today + 1) * Day + At

Active(slot) == \E j \in Job : jobs[j].slot = slot /\ jobs[j].state \notin {"none", "complete", "cancelled"}

-----------------------------------------------------------------------------
(* The dispatcher: due_schedules, one transaction per read, then schedule. *)

ReadWake ==
    /\ reader.at = "idle"
    /\ reader' = [Away EXCEPT !.at = "wake", !.now = clock, !.wake = wake]
    /\ UNCHANGED <<clock, wake, asked, progress, jobs, worker>>

\* A wake taken by a job, even a cancelled one, never starts again.
CheckWake ==
    /\ reader.at = "wake"
    /\ LET w == reader.wake
           due == w.id # 0 /\ w.job = Nobody /\ w.due <= reader.now /\ ~Active("wake")
           item == [slot |-> "wake", start |-> Min({w.set, reader.now}), end |-> reader.now]
       IN  reader' = [reader EXCEPT !.at = "schedule", !.due = IF due THEN {item} ELSE {},
                                    !.wake = NoWake, !.progress = progress]
    /\ UNCHANGED <<clock, wake, asked, progress, jobs, worker>>

CheckSchedule ==
    /\ reader.at = "schedule"
    /\ LET last == reader.progress
           due == NextDue(reader.now, last.success) <= reader.now /\ ~Active("schedule")
           start == IF last.end = Unset \/ last.end >= reader.now THEN reader.now - Lookback ELSE last.end
           item == [slot |-> "schedule", start |-> start, end |-> reader.now]
           list == reader.due \cup (IF due THEN {item} ELSE {})
       IN  reader' = IF list = {} THEN Away
                     ELSE [Away EXCEPT !.at = "list", !.now = reader.now, !.due = list]
    /\ UNCHANGED <<clock, wake, asked, progress, jobs, worker>>

\* The wake comes first, and its checkpoint is read again for its reason.
NextItem ==
    /\ reader.at = "list"
    /\ IF reader.due = {} THEN reader' = Away
       ELSE \E item \in reader.due :
            /\ item.slot = "schedule" => \A other \in reader.due : other.slot # "wake"
            /\ reader' = [reader EXCEPT !.at = "queue", !.wake = IF item.slot = "wake" THEN wake ELSE NoWake]
    /\ UNCHANGED <<clock, wake, asked, progress, jobs, worker>>

Free == {j \in Job : jobs[j].slot = "none"}
Put(item, request) ==
    jobs' = [jobs EXCEPT ![Min(Free)] = [slot |-> item.slot, state |-> "pending", start |-> item.start,
                                         end |-> item.end, wake |-> request]]
Queued(item) == reader' = [reader EXCEPT !.at = "list", !.due = @ \ {item}, !.wake = NoWake]

\* enqueue_wake: only the wake that was read, in one transaction.
EnqueueWake ==
    /\ reader.at = "queue"
    /\ Free # {}
    /\ \E item \in {i \in reader.due : i.slot = "wake"} :
        /\ Queued(item)
        /\ IF wake = reader.wake /\ wake.id # 0 /\ wake.job = Nobody
           THEN Put(item, wake.id) /\ wake' = [wake EXCEPT !.job = Min(Free)]
           ELSE UNCHANGED <<jobs, wake>>
    /\ UNCHANGED <<clock, asked, progress, worker>>

EnqueueSchedule ==
    /\ reader.at = "queue"
    /\ Free # {}
    /\ \A i \in reader.due : i.slot = "schedule"
    /\ \E item \in reader.due : Queued(item) /\ Put(item, 0)
    /\ UNCHANGED <<clock, wake, asked, progress, worker>>

\* Its prompt is missing or the queue refuses it: it and the assistant's other
\* items stay due.
Refused ==
    /\ reader.at = "queue"
    /\ reader' = Away
    /\ UNCHANGED <<clock, wake, asked, progress, jobs, worker>>

-----------------------------------------------------------------------------
(* The worker of proactive work, and the owner. *)

Take(j) ==
    /\ worker = Nobody
    /\ jobs[j].state = "pending"
    /\ \A i \in Job : i < j /\ jobs[i].slot = jobs[j].slot => jobs[i].state \in {"complete", "cancelled"}
    /\ worker' = j
    /\ UNCHANGED <<clock, wake, asked, progress, jobs, reader>>

Claim ==
    /\ worker # Nobody
    /\ jobs[worker].state = "pending"
    /\ jobs' = [jobs EXCEPT ![worker].state = "running"]
    /\ UNCHANGED <<clock, wake, asked, progress, reader, worker>>

\* The owner cancelled it first.
Lost ==
    /\ worker # Nobody
    /\ jobs[worker].state \notin {"pending", "running"}
    /\ worker' = Nobody
    /\ UNCHANGED <<clock, wake, asked, progress, jobs, reader>>

Advance(j) ==
    progress' = IF jobs[j].slot # "schedule" THEN progress ELSE [end |-> jobs[j].end, success |-> clock]

\* A mutant: every run that finishes drops the pending wake.
DroppedAlways(j) == NoWake

\* The wake that job j took, and not a newer one.
Dropped(j) == IF wake.job = j THEN NoWake ELSE wake

\* finish: a pending job when its gate found no event, else a run; a wake it
\* asks for replaces the pending one.
Finish ==
    /\ worker # Nobody
    /\ jobs[worker].state \in {"pending", "running"}
    /\ jobs' = [jobs EXCEPT ![worker].state = "complete"]
    /\ Advance(worker)
    /\ worker' = Nobody
    /\ LET left == IF jobs[worker].slot = "wake" THEN Dropped(worker) ELSE wake
       IN  \/ wake' = left /\ UNCHANGED asked
           \/ /\ jobs[worker].state = "running" /\ asked < MaxWakes
              /\ asked' = asked + 1
              /\ \E d \in Delay :
                   wake' = [id |-> asked', due |-> clock + d, set |-> jobs[worker].end, job |-> Nobody]
    /\ UNCHANGED <<clock, reader>>

Fail ==
    /\ worker # Nobody
    /\ jobs[worker].state = "running"
    /\ jobs' = [jobs EXCEPT ![worker].state = "failed"]
    /\ worker' = Nobody
    /\ UNCHANGED <<clock, wake, asked, progress, reader>>

Retry(j) ==
    /\ jobs[j].state = "failed"
    /\ jobs' = [jobs EXCEPT ![j].state = "pending"]
    /\ UNCHANGED <<clock, wake, asked, progress, reader, worker>>

Cancel(j) ==
    /\ jobs[j].state \in {"failed", "pending"}
    /\ jobs' = [jobs EXCEPT ![j].state = "cancelled"]
    /\ wake' = Dropped(j)
    /\ Advance(j)
    /\ UNCHANGED <<clock, asked, reader, worker>>

Tick ==
    /\ clock < MaxTime
    /\ clock' = clock + 1
    /\ UNCHANGED <<wake, asked, progress, jobs, reader, worker>>

Next ==
    \/ ReadWake \/ CheckWake \/ CheckSchedule \/ NextItem \/ EnqueueWake \/ EnqueueSchedule \/ Refused
    \/ Claim \/ Lost \/ Finish \/ Fail \/ Tick
    \/ \E j \in Job : Take(j) \/ Retry(j) \/ Cancel(j)

Spec == Init /\ [][Next]_vars

-----------------------------------------------------------------------------
(* Properties. *)

\* Runs finish and the owner cancels between the transactions that compute and
\* queue what is due, yet a wake starts at most one run, and the newest
\* request is pending or has its run.
RequestsAreKept ==
    /\ \A i, j \in Job : jobs[i].wake # 0 /\ jobs[i].wake = jobs[j].wake => i = j
    /\ asked > 0 => wake.id = asked \/ \E j \in Job : jobs[j].wake = asked

=============================================================================
