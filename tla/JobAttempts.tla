----------------------------- MODULE JobAttempts -----------------------------
(***************************************************************************)
(* Assistant jobs: the `jobs` table of runtime.Queue and the processes     *)
(* that change it.  assistants.execute resumes a job from its last durable *)
(* boundary under the job's lock file; recover_attempts records attempts   *)
(* whose process ended; retry is `bf queue --retry | --cancel`; manual is  *)
(* `bf run`.  Every action is one SQLite transaction, one lock operation   *)
(* or one effect outside the queue, so any of them may interleave, and a   *)
(* process may die between any two.                                        *)
(***************************************************************************)
EXTENDS LockFile

CONSTANTS
    Input,        \* jobs of incoming messages
    Manual,       \* jobs of `bf run`; the others belong to schedules and wakes
    Gated,        \* scheduled jobs whose schedule has a gate
    Repeatable,   \* jobs whose assistant is idempotent for their kind
    Routed,       \* jobs with a channel to post to
    Slot,         \* Slot[j]: the slot whose work runs in order
    MaxAttempts,  \* runtime.MAX_ATTEMPTS
    CancelMayFail, \* SQLite may refuse the cancellation of a withdrawn bf run
    MaxKills, MaxRetries  \* bounds on process deaths and explicit retries

Job == Key

ASSUME JobAssumption ==
    /\ Input \subseteq Job /\ Manual \subseteq Job /\ Gated \subseteq Job
    /\ Input \cap Manual = {} /\ Gated \cap (Input \cup Manual) = {}
    /\ Repeatable \subseteq Job /\ Routed \subseteq Job
    /\ DOMAIN Slot = Job
    /\ MaxAttempts \in Nat \ {0}
    /\ CancelMayFail \in BOOLEAN
    /\ MaxKills \in Nat /\ MaxRetries \in Nat

\* Each bf run is its own slot.
ASSUME SlotAssumption ==
    \A j \in Manual, i \in Job : Slot[i] = Slot[j] => i = j

VARIABLES
    jobs,     \* jobs[j]: the state column, "absent" before admission
    saved,    \* the raw and prepared columns: "none", "answer" or "prepared"
    tries,    \* attempts of the retry:JOB checkpoint
    waiting,  \* the retry:JOB checkpoint's due time is still ahead
    gate,     \* the gate:JOB checkpoint
    out,      \* the job's delivery: "none", "open", or "settled"
    earlier,  \* earlier[j]: jobs of its slot admitted before it
    record,   \* jobs whose record is stored in memories/
    pc, task, \* where a process stands, and the call it makes
    seen,     \* the job's state as the process last read it
    error,    \* the exception a call is handling
    starts, retries, kills, withdrawn \* history

queueVars == <<jobs, saved, tries, waiting, gate, out, earlier>>
lockVars == <<path, key, fd, held>>
procVars == <<pc, task, seen, error>>
ghostVars == <<starts, retries, kills, withdrawn>>
vars == <<queueVars, record, lockVars, procVars, ghostVars>>

JobState == {"absent", "pending", "running", "answered", "prepared",
             "complete", "failed", "uncertain", "cancelled"}
Terminal == {"complete", "cancelled"}
Runnable == {"pending", "answered", "prepared"}
Live == {"harness", "save"}  \* a started attempt that has not been recorded
\* Inside execute's inner try: a signal there reaches queue.interrupted.
Trying == {"current", "gate", "saveGate", "claim", "launch", "harness", "save",
           "reply", "quiet", "commit", "finish"}
PC == Trying \cup {"idle", "open", "flock", "read", "failing", "fail", "leave",
                   "close", "enqueue", "withdraw", "interrupted", "resolve",
                   "unlink"}
Task == {"execute", "manual", "recover", "retry", "cancel", "forget"}
Failure == {"none", "plain", "gate", "busy", "full", "notStarted"}

QueueTypeOK ==
    /\ jobs \in [Job -> JobState]
    /\ saved \in [Job -> {"none", "answer", "prepared"}]
    /\ tries \in [Job -> 0..(MaxAttempts - 1)]
    /\ waiting \in [Job -> BOOLEAN]
    /\ gate \in [Job -> {"none", "quiet", "events"}]
    /\ out \in [Job -> {"none", "open", "settled"}]
    /\ earlier \in [Job -> SUBSET Job]

ProcTypeOK ==
    /\ pc \in [Process -> PC]
    /\ task \in [Process -> Task]
    /\ seen \in [Process -> JobState]
    /\ error \in [Process -> Failure]

GhostTypeOK ==
    /\ starts \in [Job -> Nat]
    /\ retries \in [Job -> 0..MaxRetries]
    /\ kills \in 0..MaxKills
    /\ withdrawn \in SUBSET Job

TypeOK ==
    /\ LockTypeOK /\ QueueTypeOK /\ ProcTypeOK /\ GhostTypeOK
    /\ record \in SUBSET Job

Init ==
    /\ LockInit
    /\ jobs = [j \in Job |-> "absent"]
    /\ saved = [j \in Job |-> "none"]
    /\ tries = [j \in Job |-> 0]
    /\ waiting = [j \in Job |-> FALSE]
    /\ gate = [j \in Job |-> "none"]
    /\ out = [j \in Job |-> "none"]
    /\ earlier = [j \in Job |-> {}]
    /\ record = {}
    /\ pc = [p \in Process |-> "idle"]
    /\ task = [p \in Process |-> "execute"]
    /\ seen = [p \in Process |-> "absent"]
    /\ error = [p \in Process |-> "none"]
    /\ starts = [j \in Job |-> 0]
    /\ retries = [j \in Job |-> 0]
    /\ kills = 0
    /\ withdrawn = {}

-----------------------------------------------------------------------------
(* Steps of the queue and of a process.                                    *)

Goto(p, from, to) ==
    /\ pc[p] = from
    /\ pc' = [pc EXCEPT ![p] = to]

Raise(p, e) ==
    /\ pc' = [pc EXCEPT ![p] = "failing"]
    /\ error' = [error EXCEPT ![p] = e]
    /\ UNCHANGED <<task, seen>>

Continue(p, to) ==
    /\ pc' = [pc EXCEPT ![p] = to]
    /\ UNCHANGED <<task, seen, error>>

Forgotten(j) ==
    /\ tries' = [tries EXCEPT ![j] = 0]
    /\ waiting' = [waiting EXCEPT ![j] = FALSE]

\* What a guarded UPDATE leaves: finished rows stay.
Unless(j, s) == [jobs EXCEPT ![j] = IF @ \in Terminal THEN @ ELSE s]

\* Mutant: the policy never stops retrying.
RetryAttemptEndless(j) ==
    /\ tries' = [tries EXCEPT ![j] = @ + 1]
    /\ waiting' = [waiting EXCEPT ![j] = TRUE]
    /\ jobs' = Unless(j, "pending")

\* _retry_attempt and retry_policy(True, True, attempts): back off, or stop
\* retrying.
RetryAttempt(j) ==
    \/ /\ tries[j] + 1 < MaxAttempts
       /\ tries' = [tries EXCEPT ![j] = @ + 1]
       /\ waiting' = [waiting EXCEPT ![j] = TRUE]
       /\ jobs' = Unless(j, "pending")
    \/ /\ tries[j] + 1 >= MaxAttempts
       /\ Forgotten(j)
       /\ jobs' = Unless(j, "failed")

\* Mutants: an ended attempt runs again whatever its assistant, is not counted,
\* or is left running.
RecordEndedRepeats(j) ==
    IF jobs[j] = "running" THEN RetryAttempt(j) ELSE UNCHANGED <<jobs, tries, waiting>>

RecordEndedUncounted(j) ==
    /\ jobs' = [jobs EXCEPT ![j] = IF @ = "running" THEN "pending" ELSE @]
    /\ UNCHANGED <<tries, waiting>>

RecordEndedLeaves(j) == UNCHANGED <<jobs, tries, waiting>>

\* Queue.interrupted(job=j): an attempt that ended without being recorded.
RecordEnded(j) ==
    \/ /\ jobs[j] = "running" /\ j \in Repeatable
       /\ RetryAttempt(j)
    \/ /\ jobs[j] = "running" /\ j \notin Repeatable
       /\ jobs' = [jobs EXCEPT ![j] = "uncertain"]
       /\ UNCHANGED <<tries, waiting>>
    \/ /\ jobs[j] # "running"
       /\ UNCHANGED <<jobs, tries, waiting>>

\* Mutant: a cancellation during the gate is overwritten.
FinishCancelledJob(j) ==
    /\ jobs' = [jobs EXCEPT ![j] = "complete"]
    /\ gate' = [gate EXCEPT ![j] = "none"]
    /\ Forgotten(j)

\* Queue.finish: complete unless a cancellation came first.
FinishJob(j) ==
    /\ jobs' = [jobs EXCEPT ![j] = IF @ = "cancelled" THEN @ ELSE "complete"]
    /\ gate' = [gate EXCEPT ![j] = "none"]
    /\ Forgotten(j)

\* Mutants: work that waits for the owner does not hold its slot; a settled
\* delivery holds it for ever.
UnblockedByReview(j) ==
    \A e \in earlier[j] : jobs[e] \in Terminal \cup {"failed", "uncertain"}

UnblockedUnrouted(j) ==
    \A e \in earlier[j] : jobs[e] \in Terminal /\ out[e] = "none"

\* Earlier work of the slot is resolved: see the NOT EXISTS of Queue.next.
Unblocked(j) ==
    \A e \in earlier[j] : jobs[e] \in Terminal /\ out[e] # "open"

-----------------------------------------------------------------------------
(* Admission, and the environment of a job.                                *)

Admitted(j) == earlier' = [earlier EXCEPT ![j] =
                 {e \in Job : jobs[e] # "absent" /\ Slot[e] = Slot[j]}]

\* Queue.put, for a message, a schedule or a wake; a message too large for
\* its prompt is stored failed.
Admit(j) ==
    /\ jobs[j] = "absent" /\ j \notin Manual
    /\ \/ jobs' = [jobs EXCEPT ![j] = "pending"]
       \/ j \in Input /\ jobs' = [jobs EXCEPT ![j] = "failed"]
    /\ Admitted(j)
    /\ UNCHANGED <<saved, tries, waiting, gate, out, record, lockVars, procVars,
                   ghostVars>>

\* Queue.delivered: a receipt reveals that a pending input was our own message.
EchoCancel(j) ==
    /\ j \in Input /\ jobs[j] = "pending"
    /\ jobs' = [jobs EXCEPT ![j] = "cancelled"]
    /\ UNCHANGED <<saved, tries, waiting, gate, out, earlier, record, lockVars,
                   procVars, ghostVars>>

\* The job's delivery is delivered, failed for good, or cancelled.
SettleDelivery(j) ==
    /\ jobs[j] = "complete" /\ out[j] = "open"
    /\ out' = [out EXCEPT ![j] = "settled"]
    /\ UNCHANGED <<jobs, saved, tries, waiting, gate, earlier, record, lockVars,
                   procVars, ghostVars>>

\* The due time of the retry checkpoint passes.
BackoffElapses(j) ==
    /\ waiting[j]
    /\ waiting' = [waiting EXCEPT ![j] = FALSE]
    /\ UNCHANGED <<jobs, saved, tries, gate, out, earlier, record, lockVars,
                   procVars, ghostVars>>

-----------------------------------------------------------------------------
(* Starting a call: what a process read before it opens the lock file.     *)

Begin(p, t, j, to) ==
    /\ Goto(p, "idle", to)
    /\ key' = [key EXCEPT ![p] = j]
    /\ task' = [task EXCEPT ![p] = t]
    /\ UNCHANGED <<path, fd, held, seen, error>>

\* Queue.next picks a job, which a worker executes later.
Next_(j) ==
    /\ jobs[j] \in Runnable
    /\ jobs[j] = "pending" => ~waiting[j]
    /\ Unblocked(j)

Pick(p, j) ==
    /\ Next_(j)
    /\ Begin(p, "execute", j, "open")
    /\ UNCHANGED <<queueVars, record, ghostVars>>

\* `bf run` locks the key of the job it is about to create.
Run(p, j) ==
    /\ j \in Manual /\ jobs[j] = "absent" /\ j \notin withdrawn
    /\ \A q \in Process : pc[q] # "idle" => key[q] # j
    /\ Begin(p, "manual", j, "open")
    /\ UNCHANGED <<queueVars, record, ghostVars>>

\* recover_attempts lists the running jobs, then visits each.
Recover(p, j) ==
    /\ jobs[j] = "running"
    /\ Begin(p, "recover", j, "open")
    /\ UNCHANGED <<queueVars, record, ghostVars>>

\* `bf queue J --retry | --cancel` first records an attempt that has ended.
Resolve(p, j) ==
    /\ jobs[j] # "absent"
    /\ \E t \in {"retry", "cancel"} :
          /\ t = "retry" => retries[j] < MaxRetries
          /\ Begin(p, t, j, IF jobs[j] = "running" THEN "open" ELSE "resolve")
    /\ UNCHANGED <<queueVars, record, ghostVars>>

-----------------------------------------------------------------------------
(* The lock file around a call: storage.collecting.                        *)

Open(p) ==
    /\ Goto(p, "open", "flock")
    /\ OpenLock(p)
    /\ UNCHANGED <<queueVars, record, task, seen, error, ghostVars>>

AfterLock(t) ==
    CASE t = "execute" -> "read"
      [] t = "manual" -> "enqueue"
      [] t = "forget" -> "unlink"
      [] OTHER -> "interrupted"

Flock(p) ==
    /\ Goto(p, "flock", AfterLock(task[p]))
    /\ TakeLock(p)
    /\ UNCHANGED <<queueVars, record, task, seen, error, ghostVars>>

\* retry suppresses BusyError while it records an ended attempt.
AfterClose(t) == IF t \in {"retry", "cancel"} THEN "resolve" ELSE "idle"

\* A call that ends forgets its locals.
Ended(t) == IF t \in {"retry", "cancel"} THEN t ELSE "execute"

\* BusyError: the caller leaves with nothing changed.
FlockBusy(p) ==
    /\ Goto(p, "flock", AfterClose(task[p]))
    /\ ~LockFree(p)
    /\ CloseLock(p)
    /\ task' = [task EXCEPT ![p] = Ended(@)]
    /\ UNCHANGED <<queueVars, record, seen, error, ghostVars>>

Close(p) ==
    /\ Goto(p, "close", AfterClose(task[p]))
    /\ CloseLock(p)
    /\ task' = [task EXCEPT ![p] = Ended(@)]
    /\ seen' = [seen EXCEPT ![p] = "absent"]
    /\ error' = [error EXCEPT ![p] = "none"]
    /\ UNCHANGED <<queueVars, record, ghostVars>>

\* Mutant: the lock file goes whether or not the job is finished.
LeaveForgets(p) ==
    /\ Goto(p, "leave", IF task[p] = "manual" /\ error[p] = "full"
                        THEN "withdraw" ELSE "close")
    /\ UnlinkLock(p)
    /\ UNCHANGED <<queueVars, record, task, seen, error, ghostVars>>

\* execute's finally: a finished job's lock file goes with its lock.
Leave(p) ==
    /\ Goto(p, "leave", IF task[p] = "manual" /\ error[p] = "full"
                        THEN "withdraw" ELSE "close")
    /\ IF jobs[key[p]] \in Terminal THEN UnlinkLock(p) ELSE UNCHANGED lockVars
    /\ UNCHANGED <<queueVars, record, task, seen, error, ghostVars>>

\* A crash, or SIGKILL, anywhere.
Kill(p) ==
    /\ pc[p] # "idle" /\ kills < MaxKills
    /\ pc' = [pc EXCEPT ![p] = "idle"]
    /\ CloseLock(p)
    /\ task' = [task EXCEPT ![p] = "execute"]
    /\ seen' = [seen EXCEPT ![p] = "absent"]
    /\ error' = [error EXCEPT ![p] = "none"]
    /\ kills' = kills + 1
    /\ UNCHANGED <<queueVars, record, starts, retries, withdrawn>>

-----------------------------------------------------------------------------
(* assistants.execute, under the job's lock.                               *)

Enqueue(p) ==
    /\ pc[p] = "enqueue"
    /\ \/ /\ jobs' = [jobs EXCEPT ![key[p]] = "pending"]
          /\ Admitted(key[p])
          /\ Continue(p, "read")
          /\ UNCHANGED withdrawn
       \/ /\ Continue(p, "unlink")  \* QueueFullError: no job exists
          /\ withdrawn' = withdrawn \cup {key[p]}
          /\ UNCHANGED <<jobs, earlier>>
    /\ UNCHANGED <<saved, tries, waiting, gate, out, record, lockVars, starts,
                   retries, kills>>

\* Queue.get, and the branches on the state it returns.
Read(p) ==
    /\ Goto(p, "read", IF jobs[key[p]] \in Runnable THEN "current" ELSE "leave")
    /\ seen' = [seen EXCEPT ![p] = jobs[key[p]]]
    /\ UNCHANGED <<queueVars, record, lockVars, task, error, ghostVars>>

\* Mutant: a job that is already prepared resumes after its commit.
CurrentSkipsCommit(p) ==
    /\ pc[p] = "current"
    /\ \/ Continue(p, CASE seen[p] = "pending" -> "gate"
                        [] seen[p] = "answered" -> "reply"
                        [] OTHER -> "finish")
       \/ Raise(p, "busy")
    /\ UNCHANGED <<queueVars, record, lockVars, ghostVars>>

\* _current: bf.yaml may not load, or may no longer describe this job.
Current(p) ==
    /\ pc[p] = "current"
    /\ \/ Continue(p, CASE seen[p] = "pending" -> "gate"
                        [] seen[p] = "answered" -> "reply"
                        [] OTHER -> "commit")
       \/ Raise(p, "busy")
       \/ Raise(p, "plain")
    /\ UNCHANGED <<queueVars, record, lockVars, ghostVars>>

Gated_(events) == IF events = "quiet" THEN "quiet" ELSE "claim"

\* The saved events of the gate, or its program run now.
Gate(p) ==
    /\ pc[p] = "gate"
    /\ \/ gate[key[p]] # "none" /\ Continue(p, Gated_(gate[key[p]]))
       \/ key[p] \notin Gated /\ Continue(p, "claim")
       \/ /\ gate[key[p]] = "none" /\ key[p] \in Gated
          /\ Continue(p, "saveGate") \/ Raise(p, "gate")
    /\ UNCHANGED <<queueVars, record, lockVars, ghostVars>>

\* Queue.save_gate: only while the job is still pending.
SaveGate(p) ==
    /\ pc[p] = "saveGate"
    /\ \/ /\ jobs[key[p]] = "pending"
          /\ \E events \in {"quiet", "events"} :
                /\ gate' = [gate EXCEPT ![key[p]] = events]
                /\ Continue(p, Gated_(events))
       \/ /\ jobs[key[p]] # "pending"
          /\ Raise(p, "plain")
          /\ UNCHANGED gate
    /\ UNCHANGED <<jobs, saved, tries, waiting, out, earlier, record, lockVars,
                   ghostVars>>

\* Queue.claim, which may lack answer space; expanded may refuse the prompt.
Claim(p) ==
    /\ pc[p] = "claim"
    /\ \/ /\ jobs[key[p]] = "pending"
          /\ jobs' = [jobs EXCEPT ![key[p]] = "running"]
          /\ Continue(p, "launch")
       \/ /\ jobs[key[p]] = "pending" /\ Raise(p, "full")
          /\ UNCHANGED jobs
       \/ Raise(p, "plain") /\ UNCHANGED jobs
    /\ UNCHANGED <<saved, tries, waiting, gate, out, earlier, record, lockVars,
                   ghostVars>>

\* The harness starts, never starts, or its lifecycle event cannot be written.
Launch(p) ==
    /\ pc[p] = "launch"
    /\ \/ /\ starts' = [starts EXCEPT ![key[p]] = @ + 1]
          /\ Continue(p, "harness")
       \/ (Raise(p, "notStarted") \/ Raise(p, "plain")) /\ UNCHANGED starts
    /\ UNCHANGED <<queueVars, record, lockVars, retries, kills, withdrawn>>

\* The harness exits with an answer that parses, or the attempt fails.
HarnessEnds(p) ==
    /\ pc[p] = "harness"
    /\ Continue(p, "save") \/ Raise(p, "plain")
    /\ UNCHANGED <<queueVars, record, lockVars, ghostVars>>

\* Queue.answer: refused when the attempt no longer owns its job.
Save(p) ==
    /\ pc[p] = "save"
    /\ \/ /\ jobs[key[p]] = "running"
          /\ jobs' = [jobs EXCEPT ![key[p]] = "answered"]
          /\ saved' = [saved EXCEPT ![key[p]] = "answer"]
          /\ Continue(p, "reply")
       \/ /\ jobs[key[p]] # "running"
          /\ Raise(p, "plain")
          /\ UNCHANGED <<jobs, saved>>
    /\ UNCHANGED <<tries, waiting, gate, out, earlier, record, lockVars, ghostVars>>

\* Queue.prepare: the state is overwritten whatever it is, and the deliveries
\* are inserted unless they exist.
Prepare(p) ==
    /\ jobs' = [jobs EXCEPT ![key[p]] = "prepared"]
    /\ saved' = [saved EXCEPT ![key[p]] = "prepared"]
    /\ \/ /\ key[p] \in Routed /\ out[key[p]] = "none"
          /\ out' = [out EXCEPT ![key[p]] = "open"]
       \/ UNCHANGED out
    /\ Continue(p, "commit")

\* The saved answer becomes a record and deliveries, completes a scheduled job
\* quietly, or cannot be used.
Reply(p) ==
    /\ pc[p] = "reply"
    /\ \/ Prepare(p)
       \/ /\ key[p] \notin Input \cup Manual /\ Continue(p, "quiet")
          /\ UNCHANGED <<jobs, saved, out>>
       \/ Raise(p, "plain") /\ UNCHANGED <<jobs, saved, out>>
    /\ UNCHANGED <<tries, waiting, gate, earlier, record, lockVars, ghostVars>>

\* _quiet: nothing to record; the writer lock may stay busy.
Quiet(p) ==
    /\ pc[p] = "quiet"
    /\ \/ FinishJob(key[p]) /\ Continue(p, "leave")
       \/ Raise(p, "busy") /\ UNCHANGED <<jobs, tries, waiting, gate>>
    /\ UNCHANGED <<saved, out, earlier, record, lockVars, ghostVars>>

\* Under the writer lock: the record is upserted, before the job completes.
Commit(p) ==
    /\ pc[p] = "commit"
    /\ \/ record' = record \cup {key[p]} /\ Continue(p, "finish")
       \/ (Raise(p, "busy") \/ Raise(p, "plain")) /\ UNCHANGED record
    /\ UNCHANGED <<queueVars, lockVars, ghostVars>>

Finish(p) ==
    /\ pc[p] = "finish"
    /\ \/ FinishJob(key[p]) /\ Continue(p, "leave")
       \/ Raise(p, "plain") /\ UNCHANGED <<jobs, tries, waiting, gate>>
    /\ UNCHANGED <<saved, out, earlier, record, lockVars, ghostVars>>

-----------------------------------------------------------------------------
(* Failures, signals, recovery and the owner's decisions.                  *)

\* The except clause reads the job again: busy and waiting work keeps its
\* durable state unless its attempt started.
Failing(p) ==
    LET state == jobs[key[p]] IN
    /\ Goto(p, "failing",
            IF \/ error[p] \in {"busy", "full"} /\ state # "running"
               \/ state \in Terminal
            THEN "leave" ELSE "fail")
    /\ seen' = [seen EXCEPT ![p] = state]
    /\ UNCHANGED <<queueVars, record, lockVars, task, error, ghostVars>>

\* Queue.fail, in a later transaction, with what `seen` says of the attempt.
Fail(p) ==
    LET j == key[p]
        uncertain == seen[p] = "running" /\ error[p] # "notStarted"
        again == error[p] = "gate" \/ (uncertain /\ j \in Repeatable)
    IN
    /\ Goto(p, "fail", "leave")
    /\ \/ /\ again
          /\ RetryAttempt(j)
       \/ /\ ~again
          /\ jobs' = Unless(j, IF uncertain THEN "uncertain" ELSE "failed")
          /\ UNCHANGED <<tries, waiting>>
    /\ UNCHANGED <<saved, gate, out, earlier, record, lockVars, task, seen, error,
                   ghostVars>>

\* Ctrl-C or SIGTERM: the call records its own attempt before it ends.
Signal(p) ==
    /\ pc[p] \in Trying /\ kills < MaxKills
    /\ RecordEnded(key[p])
    /\ Continue(p, "leave")
    /\ kills' = kills + 1
    /\ UNCHANGED <<saved, gate, out, earlier, record, lockVars, starts, retries,
                   withdrawn>>

\* recover_attempts, holding the job's lock.
Interrupted(p) ==
    /\ Goto(p, "interrupted", "close")
    /\ RecordEnded(key[p])
    /\ UNCHANGED <<saved, gate, out, earlier, record, lockVars, task, seen, error,
                   ghostVars>>

\* Mutant: the owner may resolve a job that runs.
ResolvableRunning(j) == jobs[j] \in {"failed", "uncertain", "pending", "running"}

Resolvable(j) == jobs[j] \in {"failed", "uncertain", "pending"}

CancelJob(j) ==
    /\ jobs' = [jobs EXCEPT ![j] = "cancelled"]
    /\ gate' = [gate EXCEPT ![j] = "none"]
    /\ out' = [out EXCEPT ![j] = IF @ = "open" THEN "settled" ELSE @]
    /\ Forgotten(j)

\* Mutant: a retry always starts over.
RetryJobOver(j) ==
    /\ jobs' = [jobs EXCEPT ![j] = "pending"]
    /\ Forgotten(j)
    /\ UNCHANGED <<gate, out>>

\* A retry resumes from what the job saved.
RetryJob(j) ==
    /\ jobs' = [jobs EXCEPT ![j] = CASE saved[j] = "prepared" -> "prepared"
                                     [] saved[j] = "answer" -> "answered"
                                     [] OTHER -> "pending"]
    /\ Forgotten(j)
    /\ UNCHANGED <<gate, out>>

\* Queue.retry's transaction; it refuses running, saved and finished work, and
\* a saved answer that finds no space.
ResolveJob(p) ==
    /\ \/ /\ Goto(p, "resolve", "idle")
          /\ Resolvable(key[p]) => task[p] = "retry" /\ saved[key[p]] = "answer"
          /\ task' = [task EXCEPT ![p] = "execute"]
          /\ UNCHANGED <<jobs, tries, waiting, gate, out, retries>>
       \/ /\ Goto(p, "resolve", "idle")
          /\ task[p] = "retry" /\ Resolvable(key[p]) /\ retries[key[p]] < MaxRetries
          /\ RetryJob(key[p])
          /\ retries' = [retries EXCEPT ![key[p]] = @ + 1]
          /\ task' = [task EXCEPT ![p] = "execute"]
       \/ /\ Goto(p, "resolve", "open")
          /\ task[p] = "cancel" /\ Resolvable(key[p])
          /\ CancelJob(key[p])
          /\ task' = [task EXCEPT ![p] = "forget"]
          /\ UNCHANGED retries
    /\ UNCHANGED <<saved, earlier, record, lockVars, seen, error, starts, kills,
                   withdrawn>>

\* Mutant: the job whose run was withdrawn is not cancelled.
WithdrawKeepsJob(p) ==
    /\ Goto(p, "withdraw", "unlink")
    /\ withdrawn' = withdrawn \cup {key[p]}
    /\ UNCHANGED <<jobs, gate, out, tries, waiting, saved, earlier, record, lockVars,
                   task, seen, error, starts, retries, kills>>

\* bf run found no answer space: it cancels its job and tells its caller, also
\* when the cancellation itself failed (suppress(Error)).
Withdraw(p) ==
    /\ Goto(p, "withdraw", "unlink")
    /\ \/ Resolvable(key[p]) /\ CancelJob(key[p])
       \/ /\ CancelMayFail \/ ~Resolvable(key[p])
          /\ UNCHANGED <<jobs, gate, out, tries, waiting>>
    /\ withdrawn' = withdrawn \cup {key[p]}
    /\ UNCHANGED <<saved, earlier, record, lockVars, task, seen, error, starts,
                   retries, kills>>

Unlink(p) ==
    /\ Goto(p, "unlink", "close")
    /\ UnlinkLock(p)
    /\ UNCHANGED <<queueVars, record, task, seen, error, ghostVars>>

-----------------------------------------------------------------------------
Call(p) ==
    \/ Open(p) \/ Flock(p) \/ FlockBusy(p) \/ Close(p) \/ Leave(p)
    \/ Enqueue(p) \/ Read(p) \/ Current(p) \/ Gate(p) \/ SaveGate(p) \/ Claim(p)
    \/ Launch(p) \/ HarnessEnds(p) \/ Save(p) \/ Reply(p) \/ Quiet(p) \/ Commit(p)
    \/ Finish(p) \/ Failing(p) \/ Fail(p) \/ Interrupted(p) \/ ResolveJob(p)
    \/ Withdraw(p) \/ Unlink(p)

Next ==
    \/ \E p \in Process : Call(p) \/ Kill(p) \/ Signal(p)
    \/ \E p \in Process, j \in Job :
          Pick(p, j) \/ Run(p, j) \/ Recover(p, j) \/ Resolve(p, j)
    \/ \E j \in Job :
          Admit(j) \/ EchoCancel(j) \/ SettleDelivery(j) \/ BackoffElapses(j)

Spec == Init /\ [][Next]_vars

-----------------------------------------------------------------------------
(* Safety.                                                                 *)

\* A harness that is not idempotent starts once, and once more for each time
\* the owner asked for it: no crash, signal, retry or recovery replays it.
HarnessBudget ==
    \A j \in Job \ Repeatable : starts[j] <= 1 + retries[j]

\* An idempotent harness retries by itself at most MAX_ATTEMPTS times for each
\* time the owner asked for it, counting the attempts cut short by a crash.
AttemptsBounded ==
    \A j \in Repeatable : starts[j] <= MaxAttempts * (1 + retries[j])

\* While an attempt lives, the queue says so: nobody else records it as ended,
\* restarts it or cancels it (recover_attempts, retry, forgotten lock files).
LiveAttemptOwnsJob ==
    \A p \in Process : pc[p] \in Live => jobs[key[p]] = "running"

\* No two processes attempt one job, though lock files are removed and created
\* again while others wait for them.
OneAttempt ==
    \A p, q \in Process :
        pc[p] \in Live /\ pc[q] \in Live /\ key[p] = key[q] => p = q

\* A job is complete with a saved reply only once its record is stored.
CompleteIsRecorded ==
    \A j \in Job : jobs[j] = "complete" /\ saved[j] = "prepared" => j \in record

\* While a job's harness runs, every earlier job of its slot is finished.
SlotOrder ==
    \A p \in Process : pc[p] \in Live =>
        \A e \in earlier[key[p]] : jobs[e] \in Terminal

\* Complete and cancelled are final, although prepare overwrites the state
\* column and every failure is recorded from an earlier read.
FinishedStays ==
    [][\A j \in Job : jobs[j] \in Terminal => jobs'[j] = jobs[j]]_vars

\* A saved answer never invokes the harness again, and is never lost.
AnswerIsKept ==
    [][\A j \in Job : saved[j] # "none" => starts'[j] = starts[j] /\ saved'[j] # "none"]_vars

\* bf run told its caller that the run was cancelled: it never starts later
\* unless the owner retries it.
WithdrawnNeverStarts ==
    [][\A j \in withdrawn : retries[j] = 0 => starts'[j] = starts[j]]_vars

-----------------------------------------------------------------------------
(* Liveness.  A call runs to its end unless its process dies.  The         *)
(* dispatcher picks runnable jobs every second and recovers abandoned      *)
(* attempts every minute, so both happen again and again while they are    *)
(* possible; bf.yaml loads, answer space and the writer lock come free, and *)
(* a delivery is resolved, in the end.                                     *)

Proceeds(A, p) == A /\ error'[p] \notin {"busy", "full"}

Fairness ==
    /\ \A p \in Process :
          /\ WF_vars(Call(p))
          /\ SF_vars(Flock(p))
          /\ SF_vars(Proceeds(Current(p), p))
          /\ SF_vars(Proceeds(Claim(p), p))
          /\ SF_vars(Proceeds(Quiet(p) \/ Commit(p), p))
    /\ \A j \in Job :
          /\ SF_vars(\E p \in Process : Pick(p, j))
          /\ SF_vars(\E p \in Process : Recover(p, j))
          /\ WF_vars(BackoffElapses(j))
          /\ WF_vars(SettleDelivery(j))

FairSpec == Spec /\ Fairness

Reviewed(j) == jobs[j] \in {"failed", "uncertain"}

\* Every admitted job is completed, cancelled or brought to the owner, unless
\* an earlier job of its slot waits for the owner: no abandoned attempt, lock
\* file, backoff or busy writer keeps it for ever.
JobsResolve ==
    \A j \in Job : jobs[j] # "absent"
        ~> \/ jobs[j] \in Terminal \/ Reviewed(j)
           \/ \E e \in earlier[j] : Reviewed(e)

=============================================================================
