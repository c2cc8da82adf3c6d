----------------------------- MODULE Deliveries -----------------------------
(***************************************************************************)
(* Outgoing messages: the `deliveries` table of runtime.Queue and the      *)
(* processes that send from it.  assistants.deliver reads the next due row *)
(* before it takes the delivery's lock file, marks it sending, runs the    *)
(* channel's send command, and records its receipt or its failure with the *)
(* attempt count it read at first.  recover_attempts and retry are the     *)
(* delivery branches of the same functions that JobAttempts models.        *)
(***************************************************************************)
EXTENDS LockFile, FiniteSets

CONSTANTS
    Repeatable,   \* deliveries whose send command is idempotent
    Owned,        \* deliveries of a job; the others come from `bf channel send`
    MaxAttempts,  \* runtime.MAX_ATTEMPTS
    MaxKills, MaxRetries  \* bounds on process deaths and explicit retries

Delivery == Key

ASSUME DeliveryAssumption ==
    /\ Repeatable \subseteq Delivery /\ Owned \subseteq Delivery
    /\ MaxAttempts \in Nat \ {0}
    /\ MaxKills \in Nat /\ MaxRetries \in Nat

VARIABLES
    state,     \* the state column, "absent" before the insertion
    attempts,  \* the attempts column
    waiting,   \* the due column lies ahead
    committed, \* deliveries whose job is complete
    pc, task,  \* where a process stands, and the call it makes
    read,      \* read[p]: the attempts of the row p selected
    error,     \* the exception a call is handling
    effects,   \* sends that reached the channel: it may have acted on them
    retries, kills \* history

rowVars == <<state, attempts, waiting, committed>>
lockVars == <<path, key, fd, held>>
procVars == <<pc, task, read, error>>
ghostVars == <<effects, retries, kills>>
vars == <<rowVars, lockVars, procVars, ghostVars>>

State == {"absent", "pending", "sending", "delivered", "failed", "uncertain",
          "cancelled"}
Settled == {"delivered", "cancelled"}
Live == {"launch", "send", "receipt", "failed"}  \* an attempt not recorded yet
PC == Live \cup {"idle", "open", "flock", "current", "mark", "leave", "close",
                 "interrupted", "resolve", "unlink"}
Task == {"deliver", "recover", "retry", "cancel", "forget"}

TypeOK ==
    /\ LockTypeOK
    /\ state \in [Delivery -> State]
    /\ attempts \in [Delivery -> Nat]
    /\ waiting \in [Delivery -> BOOLEAN]
    /\ committed \in SUBSET Owned
    /\ pc \in [Process -> PC]
    /\ task \in [Process -> Task]
    /\ read \in [Process -> Nat]
    /\ error \in [Process -> {"none", "plain", "notStarted"}]
    /\ effects \in [Delivery -> Nat]
    /\ retries \in [Delivery -> 0..MaxRetries]
    /\ kills \in 0..MaxKills

Init ==
    /\ LockInit
    /\ state = [d \in Delivery |-> "absent"]
    /\ attempts = [d \in Delivery |-> 0]
    /\ waiting = [d \in Delivery |-> FALSE]
    /\ committed = {}
    /\ pc = [p \in Process |-> "idle"]
    /\ task = [p \in Process |-> "deliver"]
    /\ read = [p \in Process |-> 0]
    /\ error = [p \in Process |-> "none"]
    /\ effects = [d \in Delivery |-> 0]
    /\ retries = [d \in Delivery |-> 0]
    /\ kills = 0

-----------------------------------------------------------------------------
(* Steps of a row and of a process.                                        *)

Goto(p, from, to) ==
    /\ pc[p] = from
    /\ pc' = [pc EXCEPT ![p] = to]

SetRow(d, s, wait) ==
    /\ state' = [state EXCEPT ![d] = s]
    /\ waiting' = [waiting EXCEPT ![d] = wait]

\* Mutants: attempts are not counted; a failing delivery gets a state that no
\* query selects.
OutcomeEndless(idempotent, owned, count) ==
    IF ~idempotent THEN "uncertain" ELSE IF owned THEN "pending" ELSE "failed"

OutcomeUnknown(idempotent, owned, count) ==
    IF idempotent THEN "pending" ELSE "unknown"

\* retry_policy: the state an attempt leaves, and whether it backs off.
Outcome(idempotent, owned, count) ==
    CASE ~idempotent -> "uncertain"
      [] idempotent /\ ~owned -> "failed"
      [] idempotent /\ owned /\ count >= MaxAttempts -> "failed"
      [] OTHER -> "pending"

Attempted(d, idempotent, count) ==
    LET s == Outcome(idempotent, d \in Owned, count) IN SetRow(d, s, s = "pending")

\* Mutants: an ended send runs again whatever its channel, or is left sending.
RecordEndedRepeats(d) ==
    IF state[d] = "sending" THEN SetRow(d, "pending", TRUE) ELSE UNCHANGED <<state, waiting>>

RecordEndedLeaves(d) == UNCHANGED <<state, waiting>>

\* Queue.interrupted(delivery=d): it counts with the row's own attempts.
RecordEnded(d) ==
    \/ state[d] = "sending" /\ Attempted(d, d \in Repeatable, attempts[d])
    \/ state[d] # "sending" /\ UNCHANGED <<state, waiting>>

-----------------------------------------------------------------------------
(* The environment of a delivery.                                          *)

\* Queue.prepare inserts an assistant's delivery before its job is complete;
\* Queue.send inserts a standalone one.
Insert(d) ==
    /\ state[d] = "absent"
    /\ state' = [state EXCEPT ![d] = "pending"]
    /\ UNCHANGED <<attempts, waiting, committed, lockVars, procVars, ghostVars>>

\* Queue.finish: the job's record is stored, so its deliveries may start.
CommitJob(d) ==
    /\ d \in Owned \ committed /\ state[d] = "pending"
    /\ committed' = committed \cup {d}
    /\ UNCHANGED <<state, attempts, waiting, lockVars, procVars, ghostVars>>

\* Cancelling a job that failed to commit cancels its pending deliveries.
CancelWithJob(d) ==
    /\ d \in Owned \ committed /\ state[d] = "pending"
    /\ state' = [state EXCEPT ![d] = "cancelled"]
    /\ UNCHANGED <<attempts, waiting, committed, lockVars, procVars, ghostVars>>

BackoffElapses(d) ==
    /\ waiting[d]
    /\ waiting' = [waiting EXCEPT ![d] = FALSE]
    /\ UNCHANGED <<state, attempts, committed, lockVars, procVars, ghostVars>>

-----------------------------------------------------------------------------
(* Starting a call: what a process reads before it opens the lock file.    *)

Begin(p, t, d, to) ==
    /\ Goto(p, "idle", to)
    /\ key' = [key EXCEPT ![p] = d]
    /\ task' = [task EXCEPT ![p] = t]
    /\ UNCHANGED <<path, fd, held, error>>

\* Mutant: a delivery starts although its job is not complete.
DueUncommitted(d) == state[d] = "pending" /\ ~waiting[d]

Due(d) ==
    /\ state[d] = "pending" /\ ~waiting[d]
    /\ d \in Owned => d \in committed

\* Queue.delivery: the row, attempts included, that deliver goes on with.
Pick(p, d) ==
    /\ Due(d)
    /\ Begin(p, "deliver", d, "open")
    /\ read' = [read EXCEPT ![p] = attempts[d]]
    /\ UNCHANGED <<rowVars, ghostVars>>

Recover(p, d) ==
    /\ state[d] = "sending"
    /\ Begin(p, "recover", d, "open")
    /\ UNCHANGED <<rowVars, read, ghostVars>>

Resolve(p, d) ==
    /\ state[d] # "absent"
    /\ \E t \in {"retry", "cancel"} :
          /\ t = "retry" => retries[d] < MaxRetries
          /\ Begin(p, t, d, IF state[d] = "sending" THEN "open" ELSE "resolve")
    /\ UNCHANGED <<rowVars, read, ghostVars>>

-----------------------------------------------------------------------------
(* The lock file around a call: storage.collecting.                        *)

Open(p) ==
    /\ Goto(p, "open", "flock")
    /\ OpenLock(p)
    /\ UNCHANGED <<rowVars, task, read, error, ghostVars>>

AfterLock(t) ==
    CASE t = "deliver" -> "current"
      [] t = "forget" -> "unlink"
      [] OTHER -> "interrupted"

Flock(p) ==
    /\ Goto(p, "flock", AfterLock(task[p]))
    /\ TakeLock(p)
    /\ UNCHANGED <<rowVars, task, read, error, ghostVars>>

\* retry suppresses BusyError while it records an ended attempt.
AfterClose(t) == IF t \in {"retry", "cancel"} THEN "resolve" ELSE "idle"

\* A call that ends forgets its locals.
Forget(p) ==
    /\ task' = [task EXCEPT ![p] = "deliver"]
    /\ read' = [read EXCEPT ![p] = 0]
    /\ error' = [error EXCEPT ![p] = "none"]

Return(p, from) ==
    LET to == AfterClose(task[p]) IN
    /\ Goto(p, from, to)
    /\ CloseLock(p)
    /\ IF to = "idle" THEN Forget(p) ELSE UNCHANGED <<task, read, error>>

FlockBusy(p) ==
    /\ ~LockFree(p)
    /\ Return(p, "flock")
    /\ UNCHANGED <<rowVars, ghostVars>>

Close(p) ==
    /\ Return(p, "close")
    /\ UNCHANGED <<rowVars, ghostVars>>

\* Mutant: the lock file goes whether or not the delivery is finished.
LeaveForgets(p) ==
    /\ Goto(p, "leave", "close")
    /\ UnlinkLock(p)
    /\ UNCHANGED <<rowVars, task, read, error, ghostVars>>

\* deliver's finally: a finished delivery's lock file goes with its lock.
Leave(p) ==
    /\ Goto(p, "leave", "close")
    /\ IF state[key[p]] \in Settled THEN UnlinkLock(p) ELSE UNCHANGED lockVars
    /\ UNCHANGED <<rowVars, task, read, error, ghostVars>>

\* A crash, or SIGKILL, anywhere.
Kill(p) ==
    /\ pc[p] # "idle" /\ kills < MaxKills
    /\ pc' = [pc EXCEPT ![p] = "idle"]
    /\ CloseLock(p)
    /\ Forget(p)
    /\ kills' = kills + 1
    /\ UNCHANGED <<rowVars, effects, retries>>

-----------------------------------------------------------------------------
(* assistants.deliver, under the delivery's lock.                          *)

\* Mutant: a failure overwrites a row that the owner cancelled.
DeliveryFailedAnyway(d, s) == SetRow(d, s, s = "pending")

\* Queue.delivery_failed, guarded against settled rows.
DeliveryFailed(d, s) ==
    IF state[d] \in Settled THEN UNCHANGED <<state, waiting>>
    ELSE SetRow(d, s, s = "pending")

\* bf.yaml describes the channel as queued, describes it otherwise, or does
\* not load.
Current(p) ==
    /\ pc[p] = "current"
    /\ \/ Goto(p, "current", "mark") /\ UNCHANGED <<state, waiting>>
       \/ Goto(p, "current", "leave") /\ DeliveryFailed(key[p], "uncertain")
       \/ Goto(p, "current", "leave") /\ UNCHANGED <<state, waiting>>
    /\ UNCHANGED <<attempts, committed, lockVars, task, read, error, ghostVars>>

\* Queue.sending looks at the state alone, not at the due time or at the
\* attempts that the process has read.
Mark(p) ==
    LET d == key[p] IN
    /\ \/ /\ state[d] = "pending"
          /\ Goto(p, "mark", "launch")
          /\ state' = [state EXCEPT ![d] = "sending"]
          /\ attempts' = [attempts EXCEPT ![d] = @ + 1]
       \/ /\ state[d] # "pending"
          /\ Goto(p, "mark", "leave")
          /\ UNCHANGED <<state, attempts>>
    /\ UNCHANGED <<waiting, committed, lockVars, task, read, error, effects,
                   retries, kills>>

Raise(p, from, e) ==
    /\ Goto(p, from, "failed")
    /\ error' = [error EXCEPT ![p] = e]

\* The send command starts, and may act from then on; or it never starts.
Launch(p) ==
    /\ \/ /\ Goto(p, "launch", "send")
          /\ effects' = [effects EXCEPT ![key[p]] = @ + 1]
          /\ UNCHANGED error
       \/ Raise(p, "launch", "notStarted") /\ UNCHANGED effects
    /\ UNCHANGED <<rowVars, lockVars, task, read, retries, kills>>

Send(p) ==
    /\ \/ Goto(p, "send", "receipt") /\ UNCHANGED error
       \/ Raise(p, "send", "plain")
    /\ UNCHANGED <<rowVars, lockVars, task, read, ghostVars>>

\* Queue.delivered overwrites the state, whatever it is; the queue may refuse
\* the receipt of a message that was sent.
Receipt(p) ==
    /\ \/ /\ Goto(p, "receipt", "leave")
          /\ SetRow(key[p], "delivered", FALSE)
          /\ UNCHANGED error
       \/ Raise(p, "receipt", "plain") /\ UNCHANGED <<state, waiting>>
    /\ UNCHANGED <<attempts, committed, lockVars, task, read, ghostVars>>

\* Mutant: every failed send counts as one that never started.
FailedRetries(p) ==
    /\ Goto(p, "failed", "leave")
    /\ DeliveryFailed(key[p], Outcome(TRUE, key[p] \in Owned, read[p] + 1))
    /\ UNCHANGED <<attempts, committed, lockVars, task, read, error, ghostVars>>

\* The retry policy, with the attempts the process read before it locked.
Failed(p) ==
    LET d == key[p]
        idempotent == d \in Repeatable \/ error[p] = "notStarted"
    IN
    /\ Goto(p, "failed", "leave")
    /\ DeliveryFailed(d, Outcome(idempotent, d \in Owned, read[p] + 1))
    /\ UNCHANGED <<attempts, committed, lockVars, task, read, error, ghostVars>>

\* Ctrl-C or SIGTERM: the call records its own attempt before it ends.
Signal(p) ==
    /\ pc[p] \in Live \ {"failed"} /\ kills < MaxKills
    /\ pc' = [pc EXCEPT ![p] = "leave"]
    /\ RecordEnded(key[p])
    /\ kills' = kills + 1
    /\ UNCHANGED <<attempts, committed, lockVars, task, read, error, effects, retries>>

-----------------------------------------------------------------------------
(* Recovery and the owner's decisions.                                     *)

\* recover_attempts, holding the delivery's lock.
Interrupted(p) ==
    /\ Goto(p, "interrupted", "close")
    /\ RecordEnded(key[p])
    /\ UNCHANGED <<attempts, committed, lockVars, task, read, error, ghostVars>>

\* Mutant: the owner may resolve a delivery that is being sent.
ResolvableSending(d) == state[d] \in {"uncertain", "failed", "pending", "sending"}

Resolvable(d) == state[d] \in {"uncertain", "failed", "pending"}

\* Queue.retry's transaction: either decision starts the count over.
ResolveDelivery(p) ==
    LET d == key[p]
        retry == task[p] = "retry"
    IN
    /\ \/ /\ Goto(p, "resolve", "idle")
          /\ ~Resolvable(d)
          /\ Forget(p)
          /\ UNCHANGED <<state, attempts, waiting, retries>>
       \/ /\ Goto(p, "resolve", IF retry THEN "idle" ELSE "open")
          /\ Resolvable(d) /\ (retry => retries[d] < MaxRetries)
          /\ SetRow(d, IF retry THEN "pending" ELSE "cancelled", FALSE)
          /\ attempts' = [attempts EXCEPT ![d] = 0]
          /\ retries' = [retries EXCEPT ![d] = IF retry THEN @ + 1 ELSE @]
          /\ IF retry THEN Forget(p)
             ELSE task' = [task EXCEPT ![p] = "forget"] /\ UNCHANGED <<read, error>>
    /\ UNCHANGED <<committed, lockVars, effects, kills>>

Unlink(p) ==
    /\ Goto(p, "unlink", "close")
    /\ UnlinkLock(p)
    /\ UNCHANGED <<rowVars, task, read, error, ghostVars>>

Call(p) ==
    \/ Open(p) \/ Flock(p) \/ FlockBusy(p) \/ Close(p) \/ Leave(p)
    \/ Current(p) \/ Mark(p) \/ Launch(p) \/ Send(p) \/ Receipt(p) \/ Failed(p)
    \/ Interrupted(p) \/ ResolveDelivery(p) \/ Unlink(p)

Next ==
    \/ \E p \in Process : Call(p) \/ Kill(p) \/ Signal(p)
    \/ \E p \in Process, d \in Delivery : Pick(p, d) \/ Recover(p, d) \/ Resolve(p, d)
    \/ \E d \in Delivery :
          Insert(d) \/ CommitJob(d) \/ CancelWithJob(d) \/ BackoffElapses(d)

Spec == Init /\ [][Next]_vars

-----------------------------------------------------------------------------
(* Safety.                                                                 *)

\* A message whose send is not idempotent reaches its channel once, and once
\* more for each time the owner asked for it.
SendBudget ==
    \A d \in Delivery \ Repeatable : effects[d] <= 1 + retries[d]

\* While an attempt lives, its row says sending: nobody else records it as
\* ended, sends it again, or cancels it.
LiveSendOwnsRow ==
    \A p \in Process : pc[p] \in Live => state[key[p]] = "sending"

\* No two processes send one delivery at once, though its lock file is removed
\* while others wait for it.
OneSend ==
    \A p, q \in Process :
        pc[p] \in Live /\ pc[q] \in Live /\ key[p] = key[q] => p = q

\* An assistant's message leaves only after the record that answers it is
\* stored and its job is complete.
CommitBeforeSend ==
    \A d \in Owned : effects[d] > 0 => d \in committed

\* Delivered and cancelled are final, although a receipt overwrites the state
\* column and every failure is recorded from an earlier read.
KeepsSettled == \A d \in Delivery : state[d] \in Settled => state'[d] = state[d]

SettledStays == [][KeepsSettled]_vars

\* Automatic attempts end: each process that read an older count may add one
\* attempt beyond MAX_ATTEMPTS, and no more.
AttemptsBounded ==
    \A d \in Owned : attempts[d] <= MaxAttempts + Cardinality(Process) - 1

-----------------------------------------------------------------------------
(* What the comments say of retries, and concurrent senders break.         *)

\* runtime.py: past MAX_ATTEMPTS a delivery waits for an explicit retry or
\* cancellation.
StopsAtMaxAttempts ==
    \A d \in Owned : attempts[d] <= MaxAttempts

-----------------------------------------------------------------------------
(* Liveness.  A call runs to its end unless its process dies; the          *)
(* dispatcher looks for due deliveries every second and recovers abandoned *)
(* sends every minute; bf.yaml loads in the end.                           *)

Fairness ==
    /\ \A p \in Process :
          /\ WF_vars(Call(p)) /\ SF_vars(Flock(p))
          /\ SF_vars(Current(p) /\ pc'[p] = "mark")
    /\ \A d \in Delivery :
          /\ SF_vars(\E p \in Process : Pick(p, d))
          /\ SF_vars(\E p \in Process : Recover(p, d))
          /\ WF_vars(BackoffElapses(d))

FairSpec == Spec /\ Fairness

\* Once its job is complete, every delivery is delivered, cancelled or brought
\* to the owner: no abandoned send or backoff keeps it for ever.
DeliveriesResolve ==
    \A d \in Owned : d \in committed
        ~> state[d] \in {"delivered", "cancelled", "failed", "uncertain"}

=============================================================================
