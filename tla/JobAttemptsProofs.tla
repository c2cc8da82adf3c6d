-------------------------- MODULE JobAttemptsProofs --------------------------
(***************************************************************************)
(* Proofs about JobAttempts, for any number of processes and jobs. Type    *)
(* correctness needs no assumption; exclusion of attempts needs one:       *)
(* SQLite never refuses the cancellation of a withdrawn bf run, for when   *)
(* it does, forget removes the lock file of a job that is still pending.   *)
(* Then about where a queue is kept when brains move and filesystems are   *)
(* renumbered (QueueFolders), and about the room of a queue, for jobs and  *)
(* rows of any sizes (QueueSpace).                                         *)
(***************************************************************************)
EXTENDS JobAttempts, FiniteSetTheorems, TLAPS

-----------------------------------------------------------------------------
(* Type correctness: what each helper leaves, and then each action.        *)

\* A process that moves on to a known step leaves a well-typed program counter.
LEMMA GotoType ==
    ASSUME ProcTypeOK, NEW p \in Process, NEW from, NEW to \in PC, Goto(p, from, to)
    PROVE  pc' \in [Process -> PC]
  BY DEF ProcTypeOK, Goto

\* An exception inside the attempt leaves the process fields well typed.
LEMMA RaiseType ==
    ASSUME ProcTypeOK, NEW p \in Process, NEW e \in Failure, Raise(p, e)
    PROVE  ProcTypeOK'
  BY DEF ProcTypeOK, Raise, PC

\* The next step of an attempt leaves the process fields well typed.
LEMMA ContinueType ==
    ASSUME ProcTypeOK, NEW p \in Process, NEW to \in PC, Continue(p, to)
    PROVE  ProcTypeOK'
  BY DEF ProcTypeOK, Continue

\* What the queue's transactions on a job's attempts may change.
AttemptTypeOK ==
    /\ jobs \in [Job -> JobState]
    /\ tries \in [Job -> 0..(MaxAttempts - 1)]
    /\ waiting \in [Job -> BOOLEAN]

\* A change that keeps a resolved job leaves a job state.
LEMMA UnlessType ==
    ASSUME QueueTypeOK, NEW j \in Job, NEW s \in JobState
    PROVE  Unless(j, s) \in [Job -> JobState]
  BY DEF QueueTypeOK, Unless

\* The retry policy of queue.retry_attempt counts up to its limit only.
LEMMA RetryAttemptType ==
    ASSUME QueueTypeOK, NEW j \in Job, RetryAttempt(j)
    PROVE  AttemptTypeOK'
<1>1. Unless(j, "pending") \in [Job -> JobState] /\ Unless(j, "failed") \in [Job -> JobState]
  BY UnlessType DEF JobState
<1>2. 0 \in 0..(MaxAttempts - 1)
  BY JobAssumption
<1>3. CASE tries[j] + 1 < MaxAttempts
  <2>1. tries[j] + 1 \in 0..(MaxAttempts - 1) /\ ~(tries[j] + 1 >= MaxAttempts)
    BY <1>3, JobAssumption DEF QueueTypeOK
  <2>. QED
    BY <1>1, <2>1 DEF RetryAttempt, QueueTypeOK, AttemptTypeOK
<1>4. CASE ~(tries[j] + 1 < MaxAttempts)
  <2>1. Forgotten(j) /\ jobs' = Unless(j, "failed")
    BY <1>4 DEF RetryAttempt
  <2>. QED
    BY <1>1, <1>2, <2>1 DEF Forgotten, QueueTypeOK, AttemptTypeOK
<1>. QED
  BY <1>3, <1>4

\* record_ended leaves the attempt columns well typed, counted or not.
LEMMA RecordEndedType ==
    ASSUME QueueTypeOK, NEW j \in Job, RecordEnded(j)
    PROVE  AttemptTypeOK'
<1>1. CASE RetryAttempt(j)
  BY <1>1, RetryAttemptType
<1>2. CASE ~RetryAttempt(j)
  BY <1>2 DEF RecordEnded, QueueTypeOK, AttemptTypeOK, JobState
<1>. QED
  BY <1>1, <1>2

\* finish leaves the attempt and gate columns well typed.
LEMMA FinishJobType ==
    ASSUME QueueTypeOK, NEW j \in Job, FinishJob(j)
    PROVE  AttemptTypeOK' /\ gate' \in [Job -> {"none", "quiet", "events"}]
<1>1. 0 \in 0..(MaxAttempts - 1)
  BY JobAssumption
<1>. QED
  BY <1>1 DEF FinishJob, Forgotten, QueueTypeOK, AttemptTypeOK, JobState

\* The cancellation of a job leaves the columns it writes well typed.
LEMMA CancelJobType ==
    ASSUME QueueTypeOK, NEW j \in Job, CancelJob(j)
    PROVE  /\ AttemptTypeOK' /\ gate' \in [Job -> {"none", "quiet", "events"}]
           /\ out' \in [Job -> {"none", "open", "settled"}]
<1>1. 0 \in 0..(MaxAttempts - 1)
  BY JobAssumption
<1>. QED
  BY <1>1 DEF CancelJob, Forgotten, QueueTypeOK, AttemptTypeOK, JobState

\* The retry of a job by its owner leaves the columns it writes well typed.
LEMMA RetryJobType ==
    ASSUME QueueTypeOK, NEW j \in Job, RetryJob(j)
    PROVE  /\ AttemptTypeOK' /\ gate' \in [Job -> {"none", "quiet", "events"}]
           /\ out' \in [Job -> {"none", "open", "settled"}]
<1>1. 0 \in 0..(MaxAttempts - 1)
  BY JobAssumption
<1>2. (CASE saved[j] = "prepared" -> "prepared" [] saved[j] = "answer" -> "answered"
         [] OTHER -> "pending") \in JobState
  BY DEF JobState
<1>. QED
  BY <1>1, <1>2 DEF RetryJob, Forgotten, QueueTypeOK, AttemptTypeOK

\* Every step of the queue, the workers and the owner keeps the type invariant.
LEMMA TypeNext == TypeOK /\ [Next]_vars => TypeOK'
<1>. SUFFICES ASSUME TypeOK, [Next]_vars PROVE TypeOK'
  OBVIOUS
<1>1. ASSUME NEW j \in Job, Admit(j) PROVE TypeOK'
  <2>1. QueueTypeOK'
    BY <1>1 DEF Admit, TypeOK, QueueTypeOK, LockTypeOK, Job, Admitted, JobState
  <2>. QED
    BY <1>1, <2>1, JobAssumption DEF TypeOK, Admit, LockTypeOK, QueueTypeOK, ProcTypeOK,
       GhostTypeOK, lockVars, queueVars, procVars, ghostVars, Job
<1>2. ASSUME NEW j \in Job, EchoCancel(j) PROVE TypeOK'
  <2>1. QueueTypeOK'
    BY <1>2 DEF EchoCancel, TypeOK, QueueTypeOK, LockTypeOK, Job, JobState
  <2>. QED
    BY <1>2, <2>1, JobAssumption DEF TypeOK, EchoCancel, LockTypeOK, QueueTypeOK,
       ProcTypeOK, GhostTypeOK, lockVars, queueVars, procVars, ghostVars, Job
<1>3. ASSUME NEW j \in Job, SettleDelivery(j) PROVE TypeOK'
  <2>1. QueueTypeOK'
    BY <1>3 DEF SettleDelivery, TypeOK, QueueTypeOK, LockTypeOK, Job
  <2>. QED
    BY <1>3, <2>1, JobAssumption DEF TypeOK, SettleDelivery, LockTypeOK, QueueTypeOK,
       ProcTypeOK, GhostTypeOK, lockVars, queueVars, procVars, ghostVars, Job
<1>4. ASSUME NEW j \in Job, BackoffElapses(j) PROVE TypeOK'
  <2>1. QueueTypeOK'
    BY <1>4 DEF BackoffElapses, TypeOK, QueueTypeOK, LockTypeOK, Job
  <2>. QED
    BY <1>4, <2>1, JobAssumption DEF TypeOK, BackoffElapses, LockTypeOK, QueueTypeOK,
       ProcTypeOK, GhostTypeOK, lockVars, queueVars, procVars, ghostVars, Job
<1>5. ASSUME NEW p \in Process, NEW j \in Job, Pick(p, j) PROVE TypeOK'
  <2>1. ProcTypeOK'
    BY <1>5 DEF Pick, TypeOK, PC, Trying, ProcTypeOK, Goto, Begin, Task
  <2>2. LockTypeOK'
    BY <1>5 DEF Pick, TypeOK, LockTypeOK, Begin, Job
  <2>. QED
    BY <1>5, <2>1, <2>2, JobAssumption DEF TypeOK, Pick, LockTypeOK, QueueTypeOK,
       ProcTypeOK, GhostTypeOK, lockVars, queueVars, procVars, ghostVars, Job
<1>6. ASSUME NEW p \in Process, NEW j \in Job, Run(p, j) PROVE TypeOK'
  <2>1. ProcTypeOK'
    BY <1>6 DEF Run, TypeOK, PC, Trying, ProcTypeOK, Goto, Begin, Task
  <2>2. LockTypeOK'
    BY <1>6 DEF Run, TypeOK, LockTypeOK, Begin, Job
  <2>. QED
    BY <1>6, <2>1, <2>2, JobAssumption DEF TypeOK, Run, LockTypeOK, QueueTypeOK,
       ProcTypeOK, GhostTypeOK, lockVars, queueVars, procVars, ghostVars, Job
<1>7. ASSUME NEW p \in Process, NEW j \in Job, Recover(p, j) PROVE TypeOK'
  <2>1. ProcTypeOK'
    BY <1>7 DEF Recover, TypeOK, PC, Trying, ProcTypeOK, Goto, Begin, Task
  <2>2. LockTypeOK'
    BY <1>7 DEF Recover, TypeOK, LockTypeOK, Begin, Job
  <2>. QED
    BY <1>7, <2>1, <2>2, JobAssumption DEF TypeOK, Recover, LockTypeOK, QueueTypeOK,
       ProcTypeOK, GhostTypeOK, lockVars, queueVars, procVars, ghostVars, Job
<1>8. ASSUME NEW p \in Process, NEW j \in Job, Resolve(p, j) PROVE TypeOK'
  <2>1. ProcTypeOK'
    BY <1>8 DEF Resolve, TypeOK, PC, Trying, ProcTypeOK, Goto, Begin, Task
  <2>2. LockTypeOK'
    BY <1>8 DEF Resolve, TypeOK, LockTypeOK, Begin, Job
  <2>. QED
    BY <1>8, <2>1, <2>2, JobAssumption DEF TypeOK, Resolve, LockTypeOK, QueueTypeOK,
       ProcTypeOK, GhostTypeOK, lockVars, queueVars, procVars, ghostVars, Job
<1>9. ASSUME NEW p \in Process, Open(p) PROVE TypeOK'
  <2>1. ProcTypeOK'
    BY <1>9 DEF Open, TypeOK, PC, Trying, ProcTypeOK, Goto, QueueTypeOK, LockTypeOK, Job
  <2>2. LockTypeOK'
    BY <1>9, InodeAssumption DEF Open, TypeOK, LockTypeOK, lockVars, OpenLock, NewInode,
       Unused
  <2>. QED
    BY <1>9, <2>1, <2>2, JobAssumption DEF TypeOK, Open, LockTypeOK, QueueTypeOK,
       ProcTypeOK, GhostTypeOK, lockVars, queueVars, procVars, ghostVars, Job
<1>10. ASSUME NEW p \in Process, Flock(p) PROVE TypeOK'
  <2>1. ProcTypeOK'
    BY <1>10 DEF Flock, TypeOK, PC, Trying, ProcTypeOK, Goto, QueueTypeOK, LockTypeOK,
       Job, AfterLock
  <2>2. LockTypeOK'
    BY <1>10, InodeAssumption DEF Flock, TypeOK, LockTypeOK, lockVars, TakeLock
  <2>. QED
    BY <1>10, <2>1, <2>2, JobAssumption DEF TypeOK, Flock, LockTypeOK, QueueTypeOK,
       ProcTypeOK, GhostTypeOK, lockVars, queueVars, procVars, ghostVars, Job
<1>11. ASSUME NEW p \in Process, FlockBusy(p) PROVE TypeOK'
  <2>1. ProcTypeOK'
    BY <1>11 DEF FlockBusy, Ended, Task, TypeOK, PC, Trying, ProcTypeOK, Goto,
       QueueTypeOK, LockTypeOK, Job, AfterClose
  <2>2. LockTypeOK'
    BY <1>11, InodeAssumption DEF FlockBusy, Ended, TypeOK, LockTypeOK, lockVars,
       CloseLock
  <2>. QED
    BY <1>11, <2>1, <2>2, JobAssumption DEF TypeOK, FlockBusy, LockTypeOK, QueueTypeOK,
       ProcTypeOK, GhostTypeOK, lockVars, queueVars, procVars, ghostVars, Job
<1>12. ASSUME NEW p \in Process, Close(p) PROVE TypeOK'
  <2>1. ProcTypeOK'
    BY <1>12 DEF Close, Ended, Task, TypeOK, PC, Trying, ProcTypeOK, Goto, QueueTypeOK,
       LockTypeOK, Job, AfterClose, Failure, JobState
  <2>2. LockTypeOK'
    BY <1>12, InodeAssumption DEF Close, Ended, TypeOK, LockTypeOK, lockVars, CloseLock
  <2>. QED
    BY <1>12, <2>1, <2>2, JobAssumption DEF TypeOK, Close, LockTypeOK, QueueTypeOK,
       ProcTypeOK, GhostTypeOK, lockVars, queueVars, procVars, ghostVars, Job
<1>13. ASSUME NEW p \in Process, Leave(p) PROVE TypeOK'
  <2>1. ProcTypeOK'
    BY <1>13 DEF Leave, TypeOK, PC, Trying, ProcTypeOK, Goto, QueueTypeOK, LockTypeOK, Job
  <2>2. LockTypeOK'
    BY <1>13, InodeAssumption DEF Leave, TypeOK, LockTypeOK, lockVars, UnlinkLock
  <2>. QED
    BY <1>13, <2>1, <2>2, JobAssumption DEF TypeOK, Leave, LockTypeOK, QueueTypeOK,
       ProcTypeOK, GhostTypeOK, lockVars, queueVars, procVars, ghostVars, Job
<1>14. ASSUME NEW p \in Process, Kill(p) PROVE TypeOK'
  <2>1. ProcTypeOK'
    BY <1>14 DEF Kill, Task, TypeOK, PC, Trying, ProcTypeOK, Failure, JobState
  <2>2. LockTypeOK'
    BY <1>14, InodeAssumption DEF Kill, TypeOK, LockTypeOK, lockVars, CloseLock
  <2>. QED
    BY <1>14, <2>1, <2>2, JobAssumption DEF TypeOK, Kill, LockTypeOK, QueueTypeOK,
       ProcTypeOK, GhostTypeOK, lockVars, queueVars, procVars, ghostVars, Job
<1>15. ASSUME NEW p \in Process, Enqueue(p) PROVE TypeOK'
  <2>1. ProcTypeOK'
    BY <1>15, ContinueType DEF Enqueue, TypeOK, PC, Trying
  <2>2. QueueTypeOK'
    BY <1>15 DEF Enqueue, TypeOK, QueueTypeOK, LockTypeOK, Job, Admitted, JobState
  <2>. QED
    BY <1>15, <2>1, <2>2, JobAssumption DEF TypeOK, Enqueue, LockTypeOK, QueueTypeOK,
       ProcTypeOK, GhostTypeOK, lockVars, queueVars, procVars, ghostVars, Job
<1>16. ASSUME NEW p \in Process, Read(p) PROVE TypeOK'
  <2>1. ProcTypeOK'
    BY <1>16 DEF Read, TypeOK, PC, Trying, ProcTypeOK, Goto, QueueTypeOK, LockTypeOK, Job
  <2>. QED
    BY <1>16, <2>1, JobAssumption DEF TypeOK, Read, LockTypeOK, QueueTypeOK, ProcTypeOK,
       GhostTypeOK, lockVars, queueVars, procVars, ghostVars, Job
<1>17. ASSUME NEW p \in Process, Current(p) PROVE TypeOK'
  <2>1. ProcTypeOK'
    BY <1>17, ContinueType, RaiseType DEF Current, TypeOK, PC, Trying, Failure
  <2>. QED
    BY <1>17, <2>1, JobAssumption DEF TypeOK, Current, LockTypeOK, QueueTypeOK,
       ProcTypeOK, GhostTypeOK, lockVars, queueVars, procVars, ghostVars, Job
<1>18. ASSUME NEW p \in Process, Gate(p) PROVE TypeOK'
  <2>1. ProcTypeOK'
    BY <1>18, ContinueType, RaiseType DEF Gate, TypeOK, PC, Trying, Failure, Gated_
  <2>. QED
    BY <1>18, <2>1, JobAssumption DEF TypeOK, Gate, LockTypeOK, QueueTypeOK, ProcTypeOK,
       GhostTypeOK, lockVars, queueVars, procVars, ghostVars, Job
<1>19. ASSUME NEW p \in Process, SaveGate(p) PROVE TypeOK'
  <2>1. ProcTypeOK'
    BY <1>19, ContinueType, RaiseType DEF SaveGate, TypeOK, PC, Trying, Failure, Gated_
  <2>2. QueueTypeOK'
    BY <1>19 DEF SaveGate, TypeOK, QueueTypeOK, LockTypeOK, Job
  <2>. QED
    BY <1>19, <2>1, <2>2, JobAssumption DEF TypeOK, SaveGate, LockTypeOK, QueueTypeOK,
       ProcTypeOK, GhostTypeOK, lockVars, queueVars, procVars, ghostVars, Job
<1>20. ASSUME NEW p \in Process, Claim(p) PROVE TypeOK'
  <2>1. ProcTypeOK'
    BY <1>20, ContinueType, RaiseType DEF Claim, TypeOK, PC, Trying, Failure
  <2>2. QueueTypeOK'
    BY <1>20 DEF Claim, TypeOK, QueueTypeOK, LockTypeOK, Job, JobState
  <2>. QED
    BY <1>20, <2>1, <2>2, JobAssumption DEF TypeOK, Claim, LockTypeOK, QueueTypeOK,
       ProcTypeOK, GhostTypeOK, lockVars, queueVars, procVars, ghostVars, Job
<1>21. ASSUME NEW p \in Process, Launch(p) PROVE TypeOK'
  <2>1. ProcTypeOK'
    BY <1>21, ContinueType, RaiseType DEF Launch, TypeOK, PC, Trying, Failure
  <2>2. GhostTypeOK'
    BY <1>21 DEF Launch, TypeOK, GhostTypeOK, LockTypeOK, Job, ghostVars
  <2>3. LockTypeOK' /\ QueueTypeOK' /\ record' = record
    BY <1>21 DEF Launch, TypeOK, LockTypeOK, QueueTypeOK, lockVars, queueVars
  <2>. QED
    BY <2>1, <2>2, <2>3 DEF TypeOK
<1>22. ASSUME NEW p \in Process, HarnessEnds(p) PROVE TypeOK'
  <2>1. ProcTypeOK'
    BY <1>22, ContinueType, RaiseType DEF HarnessEnds, TypeOK, PC, Trying, Failure
  <2>. QED
    BY <1>22, <2>1, JobAssumption DEF TypeOK, HarnessEnds, LockTypeOK, QueueTypeOK,
       ProcTypeOK, GhostTypeOK, lockVars, queueVars, procVars, ghostVars, Job
<1>23. ASSUME NEW p \in Process, Save(p) PROVE TypeOK'
  <2>1. ProcTypeOK'
    BY <1>23, ContinueType, RaiseType DEF Save, TypeOK, PC, Trying, Failure
  <2>2. QueueTypeOK'
    BY <1>23 DEF Save, TypeOK, QueueTypeOK, LockTypeOK, Job, JobState
  <2>3. LockTypeOK' /\ GhostTypeOK' /\ record' = record
    BY <1>23 DEF Save, TypeOK, LockTypeOK, GhostTypeOK, lockVars, ghostVars
  <2>. QED
    BY <2>1, <2>2, <2>3 DEF TypeOK
<1>24. ASSUME NEW p \in Process, Reply(p) PROVE TypeOK'
  <2>1. ProcTypeOK'
    BY <1>24, ContinueType, RaiseType DEF Reply, TypeOK, PC, Trying, Failure, Prepare
  <2>2. QueueTypeOK'
    <3>1. jobs' \in [Job -> JobState] /\ saved' \in [Job -> {"none", "answer", "prepared"}]
      BY <1>24 DEF Reply, TypeOK, QueueTypeOK, Prepare, JobState
    <3>2. out' \in [Job -> {"none", "open", "settled"}]
      BY <1>24 DEF Reply, TypeOK, QueueTypeOK, Prepare
    <3>. QED
      BY <1>24, <3>1, <3>2 DEF Reply, TypeOK, QueueTypeOK
  <2>3. LockTypeOK' /\ GhostTypeOK' /\ record' = record
    BY <1>24 DEF Reply, TypeOK, LockTypeOK, GhostTypeOK, lockVars, ghostVars
  <2>. QED
    BY <2>1, <2>2, <2>3 DEF TypeOK
<1>25. ASSUME NEW p \in Process, Quiet(p) PROVE TypeOK'
  <2>1. ProcTypeOK'
    BY <1>25, ContinueType, RaiseType DEF Quiet, TypeOK, PC, Trying, Failure
  <2>2. QueueTypeOK'
    BY <1>25, FinishJobType DEF Quiet, TypeOK, QueueTypeOK, LockTypeOK, Job, AttemptTypeOK
  <2>. QED
    BY <1>25, <2>1, <2>2, JobAssumption DEF TypeOK, Quiet, LockTypeOK, QueueTypeOK,
       ProcTypeOK, GhostTypeOK, lockVars, queueVars, procVars, ghostVars, Job
<1>26. ASSUME NEW p \in Process, Commit(p) PROVE TypeOK'
  <2>1. ProcTypeOK'
    BY <1>26, ContinueType, RaiseType DEF Commit, TypeOK, PC, Trying, Failure
  <2>. QED
    BY <1>26, <2>1, JobAssumption DEF TypeOK, Commit, LockTypeOK, QueueTypeOK, ProcTypeOK,
       GhostTypeOK, lockVars, queueVars, procVars, ghostVars, Job
<1>27. ASSUME NEW p \in Process, Finish(p) PROVE TypeOK'
  <2>1. ProcTypeOK'
    BY <1>27, ContinueType, RaiseType DEF Finish, TypeOK, PC, Trying, Failure
  <2>2. QueueTypeOK'
    BY <1>27, FinishJobType DEF Finish, TypeOK, QueueTypeOK, LockTypeOK, Job,
       AttemptTypeOK
  <2>. QED
    BY <1>27, <2>1, <2>2, JobAssumption DEF TypeOK, Finish, LockTypeOK, QueueTypeOK,
       ProcTypeOK, GhostTypeOK, lockVars, queueVars, procVars, ghostVars, Job
<1>28. ASSUME NEW p \in Process, Failing(p) PROVE TypeOK'
  <2>1. ProcTypeOK'
    BY <1>28 DEF Failing, TypeOK, PC, Trying, ProcTypeOK, Goto, QueueTypeOK, LockTypeOK,
       Job
  <2>. QED
    BY <1>28, <2>1, JobAssumption DEF TypeOK, Failing, LockTypeOK, QueueTypeOK,
       ProcTypeOK, GhostTypeOK, lockVars, queueVars, procVars, ghostVars, Job
<1>29. ASSUME NEW p \in Process, Fail(p) PROVE TypeOK'
  <2>1. ProcTypeOK'
    BY <1>29 DEF Fail, TypeOK, PC, Trying, ProcTypeOK, Goto, QueueTypeOK, LockTypeOK, Job
  <2>2. QueueTypeOK'
    BY <1>29, RetryAttemptType, UnlessType DEF Fail, TypeOK, QueueTypeOK, LockTypeOK, Job,
       AttemptTypeOK, JobState
  <2>. QED
    BY <1>29, <2>1, <2>2, JobAssumption DEF TypeOK, Fail, LockTypeOK, QueueTypeOK,
       ProcTypeOK, GhostTypeOK, lockVars, queueVars, procVars, ghostVars, Job
<1>30. ASSUME NEW p \in Process, Signal(p) PROVE TypeOK'
  <2>1. ProcTypeOK'
    BY <1>30, ContinueType DEF Signal, TypeOK, PC, Trying
  <2>2. QueueTypeOK'
    BY <1>30, RecordEndedType DEF Signal, TypeOK, QueueTypeOK, LockTypeOK, Job,
       AttemptTypeOK
  <2>. QED
    BY <1>30, <2>1, <2>2, JobAssumption DEF TypeOK, Signal, LockTypeOK, QueueTypeOK,
       ProcTypeOK, GhostTypeOK, lockVars, queueVars, procVars, ghostVars, Job
<1>31. ASSUME NEW p \in Process, Interrupted(p) PROVE TypeOK'
  <2>1. ProcTypeOK'
    BY <1>31 DEF Interrupted, TypeOK, PC, Trying, ProcTypeOK, Goto, QueueTypeOK,
       LockTypeOK, Job
  <2>2. QueueTypeOK'
    BY <1>31, RecordEndedType DEF Interrupted, TypeOK, QueueTypeOK, LockTypeOK, Job,
       AttemptTypeOK
  <2>. QED
    BY <1>31, <2>1, <2>2, JobAssumption DEF TypeOK, Interrupted, LockTypeOK, QueueTypeOK,
       ProcTypeOK, GhostTypeOK, lockVars, queueVars, procVars, ghostVars, Job
<1>32. ASSUME NEW p \in Process, ResolveJob(p) PROVE TypeOK'
  <2>1. ProcTypeOK'
    BY <1>32 DEF ResolveJob, TypeOK, PC, Trying, ProcTypeOK, Goto, QueueTypeOK,
       LockTypeOK, Job, Task
  <2>2. QueueTypeOK'
    BY <1>32, CancelJobType, RetryJobType DEF ResolveJob, TypeOK, QueueTypeOK, LockTypeOK,
       Job, AttemptTypeOK
  <2>3. retries' \in [Job -> 0..MaxRetries]
    <3>1. CASE retries[key[p]] < MaxRetries
      <4>1. retries[key[p]] + 1 \in 0..MaxRetries
        BY <3>1, JobAssumption DEF TypeOK, LockTypeOK, GhostTypeOK, Job
      <4>. QED
        BY <1>32, <4>1 DEF ResolveJob, TypeOK, GhostTypeOK
    <3>2. CASE ~(retries[key[p]] < MaxRetries)
      BY <1>32, <3>2 DEF ResolveJob, TypeOK, GhostTypeOK
    <3>. QED
      BY <3>1, <3>2
  <2>. QED
    BY <1>32, <2>1, <2>2, <2>3 DEF TypeOK, ResolveJob, LockTypeOK, GhostTypeOK, lockVars
<1>33. ASSUME NEW p \in Process, Withdraw(p) PROVE TypeOK'
  <2>1. ProcTypeOK'
    BY <1>33 DEF Withdraw, TypeOK, PC, Trying, ProcTypeOK, Goto, QueueTypeOK, LockTypeOK,
       Job
  <2>2. QueueTypeOK'
    BY <1>33, CancelJobType DEF Withdraw, TypeOK, QueueTypeOK, LockTypeOK, Job,
       AttemptTypeOK
  <2>. QED
    BY <1>33, <2>1, <2>2, JobAssumption DEF TypeOK, Withdraw, LockTypeOK, QueueTypeOK,
       ProcTypeOK, GhostTypeOK, lockVars, queueVars, procVars, ghostVars, Job
<1>34. ASSUME NEW p \in Process, Unlink(p) PROVE TypeOK'
  <2>1. ProcTypeOK'
    BY <1>34 DEF Unlink, TypeOK, PC, Trying, ProcTypeOK, Goto, QueueTypeOK, LockTypeOK,
       Job
  <2>2. LockTypeOK'
    BY <1>34, InodeAssumption DEF Unlink, TypeOK, LockTypeOK, lockVars, UnlinkLock
  <2>. QED
    BY <1>34, <2>1, <2>2, JobAssumption DEF TypeOK, Unlink, LockTypeOK, QueueTypeOK,
       ProcTypeOK, GhostTypeOK, lockVars, queueVars, procVars, ghostVars, Job
<1>35. CASE UNCHANGED vars
  BY <1>35 DEF TypeOK, LockTypeOK, QueueTypeOK, ProcTypeOK, GhostTypeOK, vars, lockVars,
     queueVars, procVars, ghostVars
<1>. QED
  BY <1>1, <1>2, <1>3, <1>4, <1>5, <1>6, <1>7, <1>8, <1>9, <1>10, <1>11, <1>12, <1>13,
     <1>14, <1>15, <1>16, <1>17, <1>18, <1>19, <1>20, <1>21, <1>22, <1>23, <1>24, <1>25,
     <1>26, <1>27, <1>28, <1>29, <1>30, <1>31, <1>32, <1>33, <1>34, <1>35 DEF Next, Call

-----------------------------------------------------------------------------
(* The inductive invariant.                                                *)

Closed == {"idle", "open", "resolve"}

\* Where a process stands decides whether it has the lock file open, and
\* whether it holds its lock.
LockFollowsPC ==
    \A p \in Process :
        /\ fd[p] # NoInode <=> pc[p] \notin Closed
        /\ held[p] <=> pc[p] \notin Closed \cup {"flock"}

\* flock: one holder for each open inode of a key.
OneHolder ==
    \A p, q \in Process :
        held[p] /\ held[q] /\ key[p] = key[q] /\ fd[p] = fd[q] => p = q

Unfinished(j) == jobs[j] \notin Terminal \cup {"absent"}

\* While a job is unfinished, its lock file is never removed: all who opened it
\* have the inode behind its name.
SameFile ==
    \A p \in Process :
        Unfinished(key[p]) /\ fd[p] # NoInode => fd[p] = path[key[p]]

Creating(p) == task[p] = "manual" /\ pc[p] \in {"open", "flock", "enqueue"}

\* bf run works alone on the job it creates.
AloneBeforeCreation ==
    \A p \in Process :
        /\ task[p] = "manual" /\ pc[p] # "idle" => key[p] \in Manual
        /\ pc[p] = "enqueue" => task[p] = "manual"
        /\ Creating(p) => jobs[key[p]] = "absent" /\ key[p] \notin withdrawn
        /\ jobs[key[p]] = "absent" /\ pc[p] # "idle" =>
              /\ Creating(p) \/ (task[p] = "manual" /\ pc[p] \in {"unlink", "close"})
              /\ fd[p] # NoInode /\ Creating(p) => fd[p] = path[key[p]]
              /\ \A q \in Process : key[q] = key[p] /\ pc[q] # "idle" => q = p

\* What a process does under the lock agrees with the job's state, although the
\* owner may resolve the job without the lock meanwhile.
StateFollowsPC ==
    \A p \in Process :
        /\ pc[p] = "current" => seen[p] \in Runnable
        /\ pc[p] = "current" /\ seen[p] # "pending" => jobs[key[p]] = seen[p]
        /\ pc[p] = "current" /\ seen[p] = "pending" => jobs[key[p]] \in {"pending", "cancelled"}
        /\ pc[p] \in {"gate", "saveGate", "claim"} => jobs[key[p]] \in {"pending", "cancelled"}
        /\ pc[p] \in {"launch", "harness", "save"} => jobs[key[p]] = "running"
        /\ pc[p] = "reply" => jobs[key[p]] = "answered"
        /\ pc[p] = "quiet" => jobs[key[p]] \in {"pending", "cancelled", "answered"}
        /\ pc[p] \in {"commit", "finish"} => jobs[key[p]] = "prepared"
        /\ pc[p] = "finish" => key[p] \in record
        /\ pc[p] = "fail" /\ seen[p] = "running" => jobs[key[p]] = "running"
        /\ pc[p] \in {"failing", "fail"} /\ error[p] = "gate" =>
              jobs[key[p]] \in {"pending", "cancelled"}

\* Answer space runs out only before the attempt starts.
FullBeforeStart ==
    \A p \in Process :
        /\ error[p] = "full" => pc[p] \in {"failing", "leave", "withdraw", "unlink", "close"}
        /\ pc[p] \in {"failing", "leave", "withdraw"} /\ error[p] = "full" =>
              jobs[key[p]] \in {"pending", "cancelled"}
        /\ pc[p] = "withdraw" => error[p] = "full"

\* The saved columns agree with the state column, so that a retry resumes from
\* the boundary the job reached.
SavedFollowsState ==
    \A j \in Job :
        /\ jobs[j] \in {"absent", "pending", "running"} => saved[j] = "none"
        /\ jobs[j] = "answered" => saved[j] = "answer"
        /\ jobs[j] = "prepared" => saved[j] = "prepared"

\* A job that may start again without being asked has not started yet.
StartsFollowState ==
    /\ HarnessBudget
    /\ \A j \in Job \ Repeatable :
          jobs[j] \in {"absent", "pending"} => starts[j] <= retries[j]
    /\ \A p \in Process :
          pc[p] = "launch" /\ key[p] \notin Repeatable => starts[key[p]] <= retries[key[p]]

\* Only the lock file of a job that is finished, or was never created, goes.
UnlinkedIsFinished ==
    \A p \in Process :
        /\ task[p] = "forget" /\ pc[p] # "idle" => jobs[key[p]] \in Terminal
        /\ pc[p] = "unlink" /\ task[p] # "forget" => ~Unfinished(key[p])
        /\ jobs[key[p]] = "absent" /\ pc[p] = "unlink" => key[p] \in withdrawn

IInv ==
    /\ TypeOK
    /\ LockFollowsPC
    /\ OneHolder
    /\ SameFile
    /\ AloneBeforeCreation
    /\ StateFollowsPC
    /\ FullBeforeStart
    /\ SavedFollowsState
    /\ StartsFollowState
    /\ CompleteIsRecorded
    /\ UnlinkedIsFinished

\* Hence no two processes hold the lock of an unfinished job.
Alone ==
    \A p, q \in Process :
        /\ pc[p] \notin Closed \cup {"flock"} /\ pc[q] \notin Closed \cup {"flock"}
        /\ key[p] = key[q] /\ jobs[key[p]] \notin Terminal
        => p = q

\* Under the inductive invariant, no two processes hold the lock of an
\* unfinished job: they would hold one inode, and flock has one holder.
LEMMA AloneAtWork == IInv => Alone
<1>. SUFFICES ASSUME IInv, NEW p \in Process, NEW q \in Process,
                     pc[p] \notin Closed \cup {"flock"}, pc[q] \notin Closed \cup {"flock"},
                     key[p] = key[q], jobs[key[p]] \notin Terminal
              PROVE  p = q
  BY DEF Alone
<1>1. CASE jobs[key[p]] = "absent"
  BY <1>1 DEF IInv, AloneBeforeCreation, Closed
<1>2. CASE jobs[key[p]] # "absent"
  <2>1. Unfinished(key[p])
    BY <1>2 DEF Unfinished
  <2>2. held[p] /\ held[q] /\ fd[p] # NoInode /\ fd[q] # NoInode
    BY DEF IInv, LockFollowsPC
  <2>3. fd[p] = fd[q]
    BY <2>1, <2>2 DEF IInv, SameFile
  <2>. QED
    BY <2>2, <2>3 DEF IInv, OneHolder
<1>. QED
  BY <1>1, <1>2

\* A process that works on an unfinished job alone, under its lock, leaves the
\* other processes' view of their jobs alone.
LEMMA OthersKeepState ==
    ASSUME IInv, Alone, NEW p \in Process,
           pc[p] \notin Closed \cup {"flock"},
           key' = key, record' = record,
           jobs' = jobs \/ jobs[key[p]] \notin Terminal,
           \A j \in Job \ {key[p]} : jobs'[j] = jobs[j],
           \A q \in Process \ {p} : pc'[q] = pc[q] /\ seen'[q] = seen[q] /\ error'[q] = error[q],
           pc'[p] \in {"leave", "close", "reply", "quiet", "commit", "failing"},
           pc'[p] = "reply" => jobs'[key[p]] = "answered",
           pc'[p] = "quiet" => jobs'[key[p]] \in {"pending", "cancelled", "answered"},
           pc'[p] = "commit" => jobs'[key[p]] = "prepared",
           pc'[p] = "failing" => error'[p] # "gate"
    PROVE StateFollowsPC'
<1>1. \A q \in Process \ {p} : pc[q] \in Closed \cup {"flock"} \/ jobs'[key[q]] = jobs[key[q]]
  BY DEF Alone, IInv, TypeOK, LockTypeOK, Job
<1>2. \A q \in Process \ {p} : pc'[q] \in Closed \cup {"flock"} \/ jobs'[key'[q]] = jobs[key[q]]
  BY <1>1
<1>. QED
  BY <1>2 DEF IInv, StateFollowsPC, Closed

\* Every step keeps the inductive invariant, one action after the other.
LEMMA InvNext ==
    ASSUME ~CancelMayFail, IInv, TypeOK', Next PROVE IInv'
<1>0. Alone
  BY AloneAtWork
<1>1. ASSUME NEW j \in Job, Admit(j) PROVE IInv'
  <2>1. SameFile'
    BY <1>0, <1>1 DEF Admit, IInv, SameFile, LockFollowsPC, AloneBeforeCreation, Creating,
       StateFollowsPC, UnlinkedIsFinished, Alone, Unfinished, TypeOK, LockTypeOK,
       ProcTypeOK, QueueTypeOK, Job, Closed, Terminal, Admitted, lockVars, procVars,
       ghostVars
  <2>2. AloneBeforeCreation'
    BY <1>0, <1>1 DEF Admit, IInv, AloneBeforeCreation, Creating, LockFollowsPC,
       StateFollowsPC, UnlinkedIsFinished, FullBeforeStart, TypeOK, LockTypeOK,
       ProcTypeOK, QueueTypeOK, Job, Closed, Terminal, Admitted, lockVars, procVars,
       ghostVars
  <2>3. StateFollowsPC'
    BY <1>0, <1>1 DEF Admit, IInv, StateFollowsPC, FullBeforeStart, SavedFollowsState,
       LockFollowsPC, Alone, Runnable, AloneBeforeCreation, Creating, TypeOK, LockTypeOK,
       ProcTypeOK, QueueTypeOK, Job, Closed, Terminal, Admitted, lockVars, procVars,
       ghostVars
  <2>4. FullBeforeStart'
    BY <1>0, <1>1 DEF Admit, IInv, FullBeforeStart, StateFollowsPC, Alone, TypeOK,
       LockTypeOK, ProcTypeOK, QueueTypeOK, Job, Closed, Terminal, Admitted, lockVars,
       procVars, ghostVars
  <2>5. SavedFollowsState'
    BY <1>1 DEF Admit, IInv, SavedFollowsState, StateFollowsPC, TypeOK, LockTypeOK,
       ProcTypeOK, QueueTypeOK, Job, Closed, Terminal, Admitted, lockVars, procVars,
       ghostVars
  <2>6. StartsFollowState'
    BY <1>0, <1>1, JobAssumption DEF Admit, IInv, StartsFollowState, HarnessBudget,
       StateFollowsPC, Alone, TypeOK, LockTypeOK, ProcTypeOK, QueueTypeOK, GhostTypeOK,
       Job, Closed, Terminal, Admitted, lockVars, procVars, ghostVars
  <2>7. CompleteIsRecorded'
    BY <1>1 DEF Admit, IInv, CompleteIsRecorded, SavedFollowsState, StateFollowsPC,
       TypeOK, LockTypeOK, ProcTypeOK, QueueTypeOK, Job, Closed, Terminal, Admitted,
       lockVars, procVars, ghostVars
  <2>8. UnlinkedIsFinished'
    BY <1>0, <1>1 DEF Admit, IInv, UnlinkedIsFinished, AloneBeforeCreation, Creating,
       StateFollowsPC, FullBeforeStart, Unfinished, Alone, TypeOK, LockTypeOK, ProcTypeOK,
       QueueTypeOK, Job, Closed, Terminal, Admitted, lockVars, procVars, ghostVars
  <2>9. LockFollowsPC' /\ OneHolder'
    BY <1>1 DEF Admit, IInv, LockFollowsPC, OneHolder, Admitted, lockVars, procVars,
       ghostVars, Creating, Unfinished
  <2>. QED
    BY <2>1, <2>2, <2>3, <2>4, <2>5, <2>6, <2>7, <2>8, <2>9 DEF IInv
<1>2. ASSUME NEW j \in Job, EchoCancel(j) PROVE IInv'
  <2>1. SameFile'
    BY <1>0, <1>2 DEF EchoCancel, IInv, SameFile, LockFollowsPC, AloneBeforeCreation,
       Creating, StateFollowsPC, UnlinkedIsFinished, Alone, Unfinished, TypeOK,
       LockTypeOK, ProcTypeOK, QueueTypeOK, Job, Closed, Terminal, lockVars, procVars,
       ghostVars
  <2>2. AloneBeforeCreation'
    BY <1>0, <1>2 DEF EchoCancel, IInv, AloneBeforeCreation, Creating, LockFollowsPC,
       StateFollowsPC, UnlinkedIsFinished, FullBeforeStart, TypeOK, LockTypeOK,
       ProcTypeOK, QueueTypeOK, Job, Closed, Terminal, lockVars, procVars, ghostVars
  <2>3. StateFollowsPC'
    BY <1>0, <1>2 DEF EchoCancel, IInv, StateFollowsPC, FullBeforeStart,
       SavedFollowsState, LockFollowsPC, Alone, Runnable, AloneBeforeCreation, Creating,
       TypeOK, LockTypeOK, ProcTypeOK, QueueTypeOK, Job, Closed, Terminal, lockVars,
       procVars, ghostVars
  <2>4. FullBeforeStart'
    BY <1>0, <1>2 DEF EchoCancel, IInv, FullBeforeStart, StateFollowsPC, Alone, TypeOK,
       LockTypeOK, ProcTypeOK, QueueTypeOK, Job, Closed, Terminal, lockVars, procVars,
       ghostVars
  <2>5. SavedFollowsState'
    BY <1>2 DEF EchoCancel, IInv, SavedFollowsState, StateFollowsPC, TypeOK, LockTypeOK,
       ProcTypeOK, QueueTypeOK, Job, Closed, Terminal, lockVars, procVars, ghostVars
  <2>6. StartsFollowState'
    BY <1>0, <1>2, JobAssumption DEF EchoCancel, IInv, StartsFollowState, HarnessBudget,
       StateFollowsPC, Alone, TypeOK, LockTypeOK, ProcTypeOK, QueueTypeOK, GhostTypeOK,
       Job, Closed, Terminal, lockVars, procVars, ghostVars
  <2>7. CompleteIsRecorded'
    BY <1>2 DEF EchoCancel, IInv, CompleteIsRecorded, SavedFollowsState, StateFollowsPC,
       TypeOK, LockTypeOK, ProcTypeOK, QueueTypeOK, Job, Closed, Terminal, lockVars,
       procVars, ghostVars
  <2>8. UnlinkedIsFinished'
    BY <1>0, <1>2 DEF EchoCancel, IInv, UnlinkedIsFinished, Unfinished, StateFollowsPC,
       TypeOK, LockTypeOK, ProcTypeOK, QueueTypeOK, Job, Closed, Terminal, lockVars,
       procVars, ghostVars
  <2>9. LockFollowsPC' /\ OneHolder'
    BY <1>2 DEF EchoCancel, IInv, LockFollowsPC, OneHolder, lockVars, procVars, ghostVars,
       Creating, Unfinished
  <2>. QED
    BY <2>1, <2>2, <2>3, <2>4, <2>5, <2>6, <2>7, <2>8, <2>9 DEF IInv
<1>3. ASSUME NEW j \in Job, SettleDelivery(j) PROVE IInv'
  <2>1. LockFollowsPC' /\ OneHolder' /\ SameFile' /\ AloneBeforeCreation' /\
        StateFollowsPC' /\ FullBeforeStart' /\ SavedFollowsState' /\ StartsFollowState' /\
        CompleteIsRecorded' /\ UnlinkedIsFinished'
    BY <1>3 DEF SettleDelivery, IInv, LockFollowsPC, OneHolder, SameFile,
       AloneBeforeCreation, StateFollowsPC, FullBeforeStart, SavedFollowsState,
       StartsFollowState, CompleteIsRecorded, UnlinkedIsFinished, lockVars, procVars,
       ghostVars, Creating, Unfinished, HarnessBudget
  <2>. QED
    BY <2>1 DEF IInv
<1>4. ASSUME NEW j \in Job, BackoffElapses(j) PROVE IInv'
  <2>1. LockFollowsPC' /\ OneHolder' /\ SameFile' /\ AloneBeforeCreation' /\
        StateFollowsPC' /\ FullBeforeStart' /\ SavedFollowsState' /\ StartsFollowState' /\
        CompleteIsRecorded' /\ UnlinkedIsFinished'
    BY <1>4 DEF BackoffElapses, IInv, LockFollowsPC, OneHolder, SameFile,
       AloneBeforeCreation, StateFollowsPC, FullBeforeStart, SavedFollowsState,
       StartsFollowState, CompleteIsRecorded, UnlinkedIsFinished, lockVars, procVars,
       ghostVars, Creating, Unfinished, HarnessBudget
  <2>. QED
    BY <2>1 DEF IInv
<1>5. ASSUME NEW p \in Process, NEW j \in Job, Pick(p, j) PROVE IInv'
  <2>1. LockFollowsPC'
    BY <1>5 DEF Pick, IInv, LockFollowsPC, TypeOK, LockTypeOK, ProcTypeOK, QueueTypeOK,
       Job, Closed, Terminal, Begin, Goto, Next_, queueVars, ghostVars, Runnable
  <2>2. OneHolder'
    BY <1>5 DEF Pick, IInv, OneHolder, LockFollowsPC, TypeOK, LockTypeOK, ProcTypeOK,
       QueueTypeOK, Job, Closed, Terminal, Begin, Goto, Next_, queueVars, ghostVars,
       Runnable
  <2>3. SameFile'
    BY <1>0, <1>5 DEF Pick, IInv, SameFile, LockFollowsPC, AloneBeforeCreation, Creating,
       StateFollowsPC, UnlinkedIsFinished, Alone, Unfinished, TypeOK, LockTypeOK,
       ProcTypeOK, QueueTypeOK, Job, Closed, Terminal, Begin, Goto, Next_, queueVars,
       ghostVars, Runnable
  <2>4. AloneBeforeCreation'
    BY <1>0, <1>5 DEF Pick, IInv, AloneBeforeCreation, Creating, LockFollowsPC,
       StateFollowsPC, UnlinkedIsFinished, FullBeforeStart, TypeOK, LockTypeOK,
       ProcTypeOK, QueueTypeOK, Job, Closed, Terminal, Begin, Goto, Next_, queueVars,
       ghostVars, Runnable
  <2>5. StateFollowsPC'
    BY <1>0, <1>5 DEF Pick, IInv, StateFollowsPC, Runnable, TypeOK, LockTypeOK,
       ProcTypeOK, QueueTypeOK, Job, Closed, Terminal, Begin, Goto, Next_, queueVars,
       ghostVars
  <2>6. FullBeforeStart'
    BY <1>0, <1>5 DEF Pick, IInv, FullBeforeStart, TypeOK, LockTypeOK, ProcTypeOK,
       QueueTypeOK, Job, Closed, Terminal, Begin, Goto, Next_, queueVars, ghostVars,
       Runnable
  <2>7. StartsFollowState'
    BY <1>0, <1>5, JobAssumption DEF Pick, IInv, StartsFollowState, HarnessBudget,
       StateFollowsPC, Alone, TypeOK, LockTypeOK, ProcTypeOK, QueueTypeOK, GhostTypeOK,
       Job, Closed, Terminal, Begin, Goto, Next_, queueVars, ghostVars, Runnable
  <2>8. UnlinkedIsFinished'
    BY <1>0, <1>5 DEF Pick, IInv, UnlinkedIsFinished, AloneBeforeCreation, Creating,
       StateFollowsPC, FullBeforeStart, Unfinished, Alone, TypeOK, LockTypeOK, ProcTypeOK,
       QueueTypeOK, Job, Closed, Terminal, Begin, Goto, Next_, queueVars, ghostVars,
       Runnable
  <2>9. SavedFollowsState' /\ CompleteIsRecorded'
    BY <1>5 DEF Pick, IInv, SavedFollowsState, CompleteIsRecorded, Begin, Goto, Next_,
       queueVars, ghostVars, Runnable, Creating, Unfinished
  <2>. QED
    BY <2>1, <2>2, <2>3, <2>4, <2>5, <2>6, <2>7, <2>8, <2>9 DEF IInv
<1>6. ASSUME NEW p \in Process, NEW j \in Job, Run(p, j) PROVE IInv'
  <2>1. LockFollowsPC'
    BY <1>6 DEF Run, IInv, LockFollowsPC, TypeOK, LockTypeOK, ProcTypeOK, QueueTypeOK,
       Job, Closed, Terminal, Begin, Goto, queueVars, ghostVars
  <2>2. OneHolder'
    BY <1>6 DEF Run, IInv, OneHolder, LockFollowsPC, TypeOK, LockTypeOK, ProcTypeOK,
       QueueTypeOK, Job, Closed, Terminal, Begin, Goto, queueVars, ghostVars
  <2>3. SameFile'
    BY <1>0, <1>6 DEF Run, IInv, SameFile, LockFollowsPC, AloneBeforeCreation, Creating,
       StateFollowsPC, UnlinkedIsFinished, Alone, Unfinished, TypeOK, LockTypeOK,
       ProcTypeOK, QueueTypeOK, Job, Closed, Terminal, Begin, Goto, queueVars, ghostVars
  <2>4. AloneBeforeCreation'
    BY <1>0, <1>6 DEF Run, IInv, AloneBeforeCreation, Creating, LockFollowsPC,
       StateFollowsPC, UnlinkedIsFinished, FullBeforeStart, TypeOK, LockTypeOK,
       ProcTypeOK, QueueTypeOK, Job, Closed, Terminal, Begin, Goto, queueVars, ghostVars
  <2>5. StateFollowsPC'
    BY <1>0, <1>6 DEF Run, IInv, StateFollowsPC, Runnable, TypeOK, LockTypeOK, ProcTypeOK,
       QueueTypeOK, Job, Closed, Terminal, Begin, Goto, queueVars, ghostVars
  <2>6. FullBeforeStart'
    BY <1>0, <1>6 DEF Run, IInv, FullBeforeStart, TypeOK, LockTypeOK, ProcTypeOK,
       QueueTypeOK, Job, Closed, Terminal, Begin, Goto, queueVars, ghostVars
  <2>7. StartsFollowState'
    BY <1>0, <1>6, JobAssumption DEF Run, IInv, StartsFollowState, HarnessBudget,
       StateFollowsPC, Alone, TypeOK, LockTypeOK, ProcTypeOK, QueueTypeOK, GhostTypeOK,
       Job, Closed, Terminal, Begin, Goto, queueVars, ghostVars
  <2>8. UnlinkedIsFinished'
    BY <1>0, <1>6 DEF Run, IInv, UnlinkedIsFinished, AloneBeforeCreation, Creating,
       StateFollowsPC, FullBeforeStart, Unfinished, Alone, TypeOK, LockTypeOK, ProcTypeOK,
       QueueTypeOK, Job, Closed, Terminal, Begin, Goto, queueVars, ghostVars
  <2>9. SavedFollowsState' /\ CompleteIsRecorded'
    BY <1>6 DEF Run, IInv, SavedFollowsState, CompleteIsRecorded, Begin, Goto, queueVars,
       ghostVars, Creating, Unfinished
  <2>. QED
    BY <2>1, <2>2, <2>3, <2>4, <2>5, <2>6, <2>7, <2>8, <2>9 DEF IInv
<1>7. ASSUME NEW p \in Process, NEW j \in Job, Recover(p, j) PROVE IInv'
  <2>1. LockFollowsPC'
    BY <1>7 DEF Recover, IInv, LockFollowsPC, TypeOK, LockTypeOK, ProcTypeOK, QueueTypeOK,
       Job, Closed, Terminal, Begin, Goto, queueVars, ghostVars
  <2>2. OneHolder'
    BY <1>7 DEF Recover, IInv, OneHolder, LockFollowsPC, TypeOK, LockTypeOK, ProcTypeOK,
       QueueTypeOK, Job, Closed, Terminal, Begin, Goto, queueVars, ghostVars
  <2>3. SameFile'
    BY <1>0, <1>7 DEF Recover, IInv, SameFile, LockFollowsPC, AloneBeforeCreation,
       Creating, StateFollowsPC, UnlinkedIsFinished, Alone, Unfinished, TypeOK,
       LockTypeOK, ProcTypeOK, QueueTypeOK, Job, Closed, Terminal, Begin, Goto, queueVars,
       ghostVars
  <2>4. AloneBeforeCreation'
    BY <1>0, <1>7 DEF Recover, IInv, AloneBeforeCreation, Creating, LockFollowsPC,
       StateFollowsPC, UnlinkedIsFinished, FullBeforeStart, TypeOK, LockTypeOK,
       ProcTypeOK, QueueTypeOK, Job, Closed, Terminal, Begin, Goto, queueVars, ghostVars
  <2>5. StateFollowsPC'
    BY <1>0, <1>7 DEF Recover, IInv, StateFollowsPC, Runnable, TypeOK, LockTypeOK,
       ProcTypeOK, QueueTypeOK, Job, Closed, Terminal, Begin, Goto, queueVars, ghostVars
  <2>6. FullBeforeStart'
    BY <1>0, <1>7 DEF Recover, IInv, FullBeforeStart, TypeOK, LockTypeOK, ProcTypeOK,
       QueueTypeOK, Job, Closed, Terminal, Begin, Goto, queueVars, ghostVars
  <2>7. StartsFollowState'
    BY <1>0, <1>7, JobAssumption DEF Recover, IInv, StartsFollowState, HarnessBudget,
       StateFollowsPC, Alone, TypeOK, LockTypeOK, ProcTypeOK, QueueTypeOK, GhostTypeOK,
       Job, Closed, Terminal, Begin, Goto, queueVars, ghostVars
  <2>8. UnlinkedIsFinished'
    BY <1>0, <1>7 DEF Recover, IInv, UnlinkedIsFinished, AloneBeforeCreation, Creating,
       StateFollowsPC, FullBeforeStart, Unfinished, Alone, TypeOK, LockTypeOK, ProcTypeOK,
       QueueTypeOK, Job, Closed, Terminal, Begin, Goto, queueVars, ghostVars
  <2>9. SavedFollowsState' /\ CompleteIsRecorded'
    BY <1>7 DEF Recover, IInv, SavedFollowsState, CompleteIsRecorded, Begin, Goto,
       queueVars, ghostVars, Creating, Unfinished
  <2>. QED
    BY <2>1, <2>2, <2>3, <2>4, <2>5, <2>6, <2>7, <2>8, <2>9 DEF IInv
<1>8. ASSUME NEW p \in Process, NEW j \in Job, Resolve(p, j) PROVE IInv'
  <2>1. LockFollowsPC'
    BY <1>8 DEF Resolve, IInv, LockFollowsPC, TypeOK, LockTypeOK, ProcTypeOK, QueueTypeOK,
       Job, Closed, Terminal, Begin, Goto, queueVars, ghostVars
  <2>2. OneHolder'
    BY <1>8 DEF Resolve, IInv, OneHolder, LockFollowsPC, TypeOK, LockTypeOK, ProcTypeOK,
       QueueTypeOK, Job, Closed, Terminal, Begin, Goto, queueVars, ghostVars
  <2>3. SameFile'
    BY <1>0, <1>8 DEF Resolve, IInv, SameFile, LockFollowsPC, AloneBeforeCreation,
       Creating, StateFollowsPC, UnlinkedIsFinished, Alone, Unfinished, TypeOK,
       LockTypeOK, ProcTypeOK, QueueTypeOK, Job, Closed, Terminal, Begin, Goto, queueVars,
       ghostVars
  <2>4. AloneBeforeCreation'
    BY <1>0, <1>8 DEF Resolve, IInv, AloneBeforeCreation, Creating, LockFollowsPC,
       StateFollowsPC, UnlinkedIsFinished, FullBeforeStart, TypeOK, LockTypeOK,
       ProcTypeOK, QueueTypeOK, Job, Closed, Terminal, Begin, Goto, queueVars, ghostVars
  <2>5. StateFollowsPC'
    BY <1>0, <1>8 DEF Resolve, IInv, StateFollowsPC, Runnable, TypeOK, LockTypeOK,
       ProcTypeOK, QueueTypeOK, Job, Closed, Terminal, Begin, Goto, queueVars, ghostVars
  <2>6. FullBeforeStart'
    BY <1>0, <1>8 DEF Resolve, IInv, FullBeforeStart, TypeOK, LockTypeOK, ProcTypeOK,
       QueueTypeOK, Job, Closed, Terminal, Begin, Goto, queueVars, ghostVars
  <2>7. StartsFollowState'
    BY <1>0, <1>8, JobAssumption DEF Resolve, IInv, StartsFollowState, HarnessBudget,
       StateFollowsPC, Alone, TypeOK, LockTypeOK, ProcTypeOK, QueueTypeOK, GhostTypeOK,
       Job, Closed, Terminal, Begin, Goto, queueVars, ghostVars
  <2>8. UnlinkedIsFinished'
    BY <1>0, <1>8 DEF Resolve, IInv, UnlinkedIsFinished, AloneBeforeCreation, Creating,
       StateFollowsPC, FullBeforeStart, Unfinished, Alone, TypeOK, LockTypeOK, ProcTypeOK,
       QueueTypeOK, Job, Closed, Terminal, Begin, Goto, queueVars, ghostVars
  <2>9. SavedFollowsState' /\ CompleteIsRecorded'
    BY <1>8 DEF Resolve, IInv, SavedFollowsState, CompleteIsRecorded, Begin, Goto,
       queueVars, ghostVars, Creating, Unfinished
  <2>. QED
    BY <2>1, <2>2, <2>3, <2>4, <2>5, <2>6, <2>7, <2>8, <2>9 DEF IInv
<1>9. ASSUME NEW p \in Process, Open(p) PROVE IInv'
  <2>1. LockFollowsPC'
    BY <1>9, InodeAssumption DEF Open, IInv, LockFollowsPC, TypeOK, LockTypeOK,
       ProcTypeOK, QueueTypeOK, Job, Closed, Terminal, Goto, OpenLock, NewInode, Unused,
       queueVars, ghostVars
  <2>2. OneHolder'
    BY <1>9, InodeAssumption DEF Open, IInv, OneHolder, LockFollowsPC, TypeOK, LockTypeOK,
       ProcTypeOK, QueueTypeOK, Job, Closed, Terminal, Goto, OpenLock, NewInode, Unused,
       queueVars, ghostVars
  <2>3. SameFile'
    BY <1>0, <1>9, InodeAssumption, SMTT(30) DEF Open, IInv, SameFile, LockFollowsPC,
       AloneBeforeCreation, Creating, StateFollowsPC, UnlinkedIsFinished, Alone,
       Unfinished, TypeOK, LockTypeOK, ProcTypeOK, QueueTypeOK, Job, Closed, Terminal,
       Goto, OpenLock, NewInode, Unused, queueVars, ghostVars
  <2>4. AloneBeforeCreation'
    BY <1>0, <1>9, InodeAssumption DEF Open, IInv, AloneBeforeCreation, Creating,
       LockFollowsPC, StateFollowsPC, UnlinkedIsFinished, FullBeforeStart, TypeOK,
       LockTypeOK, ProcTypeOK, QueueTypeOK, Job, Closed, Terminal, Goto, OpenLock,
       NewInode, Unused, queueVars, ghostVars
  <2>5. StateFollowsPC'
    BY <1>0, <1>9, InodeAssumption DEF Open, IInv, StateFollowsPC, Runnable, TypeOK,
       LockTypeOK, ProcTypeOK, QueueTypeOK, Job, Closed, Terminal, Goto, OpenLock,
       NewInode, Unused, queueVars, ghostVars
  <2>6. FullBeforeStart'
    BY <1>0, <1>9, InodeAssumption DEF Open, IInv, FullBeforeStart, TypeOK, LockTypeOK,
       ProcTypeOK, QueueTypeOK, Job, Closed, Terminal, Goto, OpenLock, NewInode, Unused,
       queueVars, ghostVars
  <2>7. StartsFollowState'
    BY <1>0, <1>9, JobAssumption, InodeAssumption DEF Open, IInv, StartsFollowState,
       HarnessBudget, StateFollowsPC, Alone, TypeOK, LockTypeOK, ProcTypeOK, QueueTypeOK,
       GhostTypeOK, Job, Closed, Terminal, Goto, OpenLock, NewInode, Unused, queueVars,
       ghostVars
  <2>8. UnlinkedIsFinished'
    BY <1>0, <1>9, InodeAssumption DEF Open, IInv, UnlinkedIsFinished,
       AloneBeforeCreation, Creating, StateFollowsPC, FullBeforeStart, Unfinished, Alone,
       TypeOK, LockTypeOK, ProcTypeOK, QueueTypeOK, Job, Closed, Terminal, Goto, OpenLock,
       NewInode, Unused, queueVars, ghostVars
  <2>9. SavedFollowsState' /\ CompleteIsRecorded'
    BY <1>9 DEF Open, IInv, SavedFollowsState, CompleteIsRecorded, Goto, OpenLock,
       NewInode, Unused, queueVars, ghostVars, Creating, Unfinished
  <2>. QED
    BY <2>1, <2>2, <2>3, <2>4, <2>5, <2>6, <2>7, <2>8, <2>9 DEF IInv
<1>10. ASSUME NEW p \in Process, Flock(p) PROVE IInv'
  <2>1. LockFollowsPC'
    BY <1>10 DEF Flock, IInv, LockFollowsPC, TypeOK, LockTypeOK, ProcTypeOK, QueueTypeOK,
       Job, Closed, Terminal, Goto, TakeLock, LockFree, AfterLock, queueVars, ghostVars
  <2>2. OneHolder'
    BY <1>10 DEF Flock, TakeLock, LockFree, IInv, OneHolder, TypeOK, LockTypeOK
  <2>3. AloneBeforeCreation'
    BY <1>0, <1>10 DEF Flock, IInv, AloneBeforeCreation, Creating, LockFollowsPC,
       StateFollowsPC, UnlinkedIsFinished, FullBeforeStart, TypeOK, LockTypeOK,
       ProcTypeOK, QueueTypeOK, Job, Closed, Terminal, Goto, TakeLock, LockFree,
       AfterLock, queueVars, ghostVars
  <2>4. StateFollowsPC'
    BY <1>0, <1>10 DEF Flock, IInv, StateFollowsPC, Runnable, TypeOK, LockTypeOK,
       ProcTypeOK, QueueTypeOK, Job, Closed, Terminal, Goto, TakeLock, LockFree,
       AfterLock, queueVars, ghostVars
  <2>5. FullBeforeStart'
    BY <1>0, <1>10 DEF Flock, IInv, FullBeforeStart, TypeOK, LockTypeOK, ProcTypeOK,
       QueueTypeOK, Job, Closed, Terminal, Goto, TakeLock, LockFree, AfterLock, queueVars,
       ghostVars
  <2>6. StartsFollowState'
    BY <1>0, <1>10, JobAssumption DEF Flock, IInv, StartsFollowState, HarnessBudget,
       StateFollowsPC, Alone, TypeOK, LockTypeOK, ProcTypeOK, QueueTypeOK, GhostTypeOK,
       Job, Closed, Terminal, Goto, TakeLock, LockFree, AfterLock, queueVars, ghostVars
  <2>7. UnlinkedIsFinished'
    BY <1>0, <1>10 DEF Flock, IInv, UnlinkedIsFinished, AloneBeforeCreation, Creating,
       StateFollowsPC, FullBeforeStart, Unfinished, Alone, TypeOK, LockTypeOK, ProcTypeOK,
       QueueTypeOK, Job, Closed, Terminal, Goto, TakeLock, LockFree, AfterLock, queueVars,
       ghostVars
  <2>8. SameFile' /\ SavedFollowsState' /\ CompleteIsRecorded'
    BY <1>10 DEF Flock, IInv, SameFile, SavedFollowsState, CompleteIsRecorded, Goto,
       TakeLock, LockFree, AfterLock, queueVars, ghostVars, Creating, Unfinished
  <2>. QED
    BY <2>1, <2>2, <2>3, <2>4, <2>5, <2>6, <2>7, <2>8 DEF IInv
<1>11. ASSUME NEW p \in Process, FlockBusy(p) PROVE IInv'
  <2>1. LockFollowsPC'
    BY <1>11 DEF FlockBusy, Ended, IInv, LockFollowsPC, TypeOK, LockTypeOK, ProcTypeOK,
       QueueTypeOK, Job, Closed, Terminal, Goto, CloseLock, AfterClose, queueVars,
       ghostVars
  <2>2. OneHolder'
    BY <1>11 DEF FlockBusy, Ended, IInv, OneHolder, LockFollowsPC, TypeOK, LockTypeOK,
       ProcTypeOK, QueueTypeOK, Job, Closed, Terminal, Goto, CloseLock, AfterClose,
       queueVars, ghostVars
  <2>3. SameFile'
    BY <1>0, <1>11 DEF FlockBusy, Ended, IInv, SameFile, LockFollowsPC,
       AloneBeforeCreation, Creating, StateFollowsPC, UnlinkedIsFinished, Alone,
       Unfinished, TypeOK, LockTypeOK, ProcTypeOK, QueueTypeOK, Job, Closed, Terminal,
       Goto, CloseLock, AfterClose, queueVars, ghostVars
  <2>4. AloneBeforeCreation'
    BY <1>0, <1>11 DEF FlockBusy, Ended, IInv, AloneBeforeCreation, Creating,
       LockFollowsPC, StateFollowsPC, UnlinkedIsFinished, FullBeforeStart, TypeOK,
       LockTypeOK, ProcTypeOK, QueueTypeOK, Job, Closed, Terminal, Goto, CloseLock,
       AfterClose, queueVars, ghostVars
  <2>5. StateFollowsPC'
    BY <1>0, <1>11 DEF FlockBusy, Ended, IInv, StateFollowsPC, Runnable, TypeOK,
       LockTypeOK, ProcTypeOK, QueueTypeOK, Job, Closed, Terminal, Goto, CloseLock,
       AfterClose, queueVars, ghostVars
  <2>6. FullBeforeStart'
    BY <1>0, <1>11 DEF FlockBusy, Ended, IInv, FullBeforeStart, TypeOK, LockTypeOK,
       ProcTypeOK, QueueTypeOK, Job, Closed, Terminal, Goto, CloseLock, AfterClose,
       queueVars, ghostVars
  <2>7. StartsFollowState'
    BY <1>0, <1>11, JobAssumption DEF FlockBusy, Ended, IInv, StartsFollowState,
       HarnessBudget, StateFollowsPC, Alone, TypeOK, LockTypeOK, ProcTypeOK, QueueTypeOK,
       GhostTypeOK, Job, Closed, Terminal, Goto, CloseLock, AfterClose, queueVars,
       ghostVars
  <2>8. UnlinkedIsFinished'
    BY <1>0, <1>11 DEF FlockBusy, Ended, IInv, UnlinkedIsFinished, AloneBeforeCreation,
       Creating, StateFollowsPC, FullBeforeStart, Unfinished, Alone, TypeOK, LockTypeOK,
       ProcTypeOK, QueueTypeOK, Job, Closed, Terminal, Goto, CloseLock, AfterClose,
       queueVars, ghostVars
  <2>9. SavedFollowsState' /\ CompleteIsRecorded'
    BY <1>11 DEF FlockBusy, Ended, IInv, SavedFollowsState, CompleteIsRecorded, Goto,
       CloseLock, AfterClose, queueVars, ghostVars, Creating, Unfinished
  <2>. QED
    BY <2>1, <2>2, <2>3, <2>4, <2>5, <2>6, <2>7, <2>8, <2>9 DEF IInv
<1>12. ASSUME NEW p \in Process, Close(p) PROVE IInv'
  <2>1. LockFollowsPC'
    BY <1>12 DEF Close, Ended, IInv, LockFollowsPC, TypeOK, LockTypeOK, ProcTypeOK,
       QueueTypeOK, Job, Closed, Terminal, Goto, CloseLock, AfterClose, queueVars,
       ghostVars
  <2>2. OneHolder'
    BY <1>12 DEF Close, Ended, IInv, OneHolder, LockFollowsPC, TypeOK, LockTypeOK,
       ProcTypeOK, QueueTypeOK, Job, Closed, Terminal, Goto, CloseLock, AfterClose,
       queueVars, ghostVars
  <2>3. SameFile'
    BY <1>0, <1>12 DEF Close, Ended, IInv, SameFile, LockFollowsPC, AloneBeforeCreation,
       Creating, StateFollowsPC, UnlinkedIsFinished, Alone, Unfinished, TypeOK,
       LockTypeOK, ProcTypeOK, QueueTypeOK, Job, Closed, Terminal, Goto, CloseLock,
       AfterClose, queueVars, ghostVars
  <2>4. AloneBeforeCreation'
    BY <1>0, <1>12 DEF Close, Ended, IInv, AloneBeforeCreation, Creating, LockFollowsPC,
       StateFollowsPC, UnlinkedIsFinished, FullBeforeStart, TypeOK, LockTypeOK,
       ProcTypeOK, QueueTypeOK, Job, Closed, Terminal, Goto, CloseLock, AfterClose,
       queueVars, ghostVars
  <2>5. StateFollowsPC'
    BY <1>0, <1>12 DEF Close, Ended, IInv, StateFollowsPC, Runnable, TypeOK, LockTypeOK,
       ProcTypeOK, QueueTypeOK, Job, Closed, Terminal, Goto, CloseLock, AfterClose,
       queueVars, ghostVars
  <2>6. FullBeforeStart'
    BY <1>0, <1>12 DEF Close, Ended, IInv, FullBeforeStart, TypeOK, LockTypeOK,
       ProcTypeOK, QueueTypeOK, Job, Closed, Terminal, Goto, CloseLock, AfterClose,
       queueVars, ghostVars
  <2>7. StartsFollowState'
    BY <1>0, <1>12, JobAssumption DEF Close, Ended, IInv, StartsFollowState,
       HarnessBudget, StateFollowsPC, Alone, TypeOK, LockTypeOK, ProcTypeOK, QueueTypeOK,
       GhostTypeOK, Job, Closed, Terminal, Goto, CloseLock, AfterClose, queueVars,
       ghostVars
  <2>8. UnlinkedIsFinished'
    BY <1>0, <1>12 DEF Close, Ended, IInv, UnlinkedIsFinished, AloneBeforeCreation,
       Creating, StateFollowsPC, FullBeforeStart, Unfinished, Alone, TypeOK, LockTypeOK,
       ProcTypeOK, QueueTypeOK, Job, Closed, Terminal, Goto, CloseLock, AfterClose,
       queueVars, ghostVars
  <2>9. SavedFollowsState' /\ CompleteIsRecorded'
    BY <1>12 DEF Close, Ended, IInv, SavedFollowsState, CompleteIsRecorded, Goto,
       CloseLock, AfterClose, queueVars, ghostVars, Creating, Unfinished
  <2>. QED
    BY <2>1, <2>2, <2>3, <2>4, <2>5, <2>6, <2>7, <2>8, <2>9 DEF IInv
<1>13. ASSUME NEW p \in Process, Leave(p) PROVE IInv'
  <2>1. LockFollowsPC'
    BY <1>13, InodeAssumption DEF Leave, IInv, LockFollowsPC, TypeOK, LockTypeOK,
       ProcTypeOK, QueueTypeOK, Job, Closed, Terminal, Goto, UnlinkLock, queueVars,
       ghostVars, lockVars
  <2>2. SameFile'
    BY <1>0, <1>13, InodeAssumption DEF Leave, IInv, SameFile, LockFollowsPC,
       AloneBeforeCreation, Creating, StateFollowsPC, UnlinkedIsFinished, Alone,
       Unfinished, TypeOK, LockTypeOK, ProcTypeOK, QueueTypeOK, Job, Closed, Terminal,
       Goto, UnlinkLock, queueVars, ghostVars, lockVars
  <2>3. AloneBeforeCreation'
    BY <1>0, <1>13, InodeAssumption DEF Leave, IInv, AloneBeforeCreation, Creating,
       LockFollowsPC, StateFollowsPC, UnlinkedIsFinished, FullBeforeStart, TypeOK,
       LockTypeOK, ProcTypeOK, QueueTypeOK, Job, Closed, Terminal, Goto, UnlinkLock,
       queueVars, ghostVars, lockVars
  <2>4. StateFollowsPC'
    BY <1>0, <1>13, InodeAssumption DEF Leave, IInv, StateFollowsPC, Runnable, TypeOK,
       LockTypeOK, ProcTypeOK, QueueTypeOK, Job, Closed, Terminal, Goto, UnlinkLock,
       queueVars, ghostVars, lockVars
  <2>5. FullBeforeStart'
    BY <1>0, <1>13, InodeAssumption DEF Leave, IInv, FullBeforeStart, TypeOK, LockTypeOK,
       ProcTypeOK, QueueTypeOK, Job, Closed, Terminal, Goto, UnlinkLock, queueVars,
       ghostVars, lockVars
  <2>6. StartsFollowState'
    BY <1>0, <1>13, JobAssumption, InodeAssumption DEF Leave, IInv, StartsFollowState,
       HarnessBudget, StateFollowsPC, Alone, TypeOK, LockTypeOK, ProcTypeOK, QueueTypeOK,
       GhostTypeOK, Job, Closed, Terminal, Goto, UnlinkLock, queueVars, ghostVars,
       lockVars
  <2>7. UnlinkedIsFinished'
    BY <1>0, <1>13, InodeAssumption DEF Leave, IInv, UnlinkedIsFinished,
       AloneBeforeCreation, Creating, StateFollowsPC, FullBeforeStart, Unfinished, Alone,
       TypeOK, LockTypeOK, ProcTypeOK, QueueTypeOK, Job, Closed, Terminal, Goto,
       UnlinkLock, queueVars, ghostVars, lockVars
  <2>8. OneHolder' /\ SavedFollowsState' /\ CompleteIsRecorded'
    BY <1>13 DEF Leave, IInv, OneHolder, SavedFollowsState, CompleteIsRecorded, Goto,
       UnlinkLock, queueVars, ghostVars, lockVars, Creating, Unfinished
  <2>. QED
    BY <2>1, <2>2, <2>3, <2>4, <2>5, <2>6, <2>7, <2>8 DEF IInv
<1>14. ASSUME NEW p \in Process, Kill(p) PROVE IInv'
  <2>1. LockFollowsPC'
    BY <1>14 DEF Kill, IInv, LockFollowsPC, TypeOK, LockTypeOK, ProcTypeOK, QueueTypeOK,
       Job, Closed, Terminal, CloseLock, queueVars
  <2>2. OneHolder'
    BY <1>14 DEF Kill, IInv, OneHolder, LockFollowsPC, TypeOK, LockTypeOK, ProcTypeOK,
       QueueTypeOK, Job, Closed, Terminal, CloseLock, queueVars
  <2>3. SameFile'
    BY <1>0, <1>14 DEF Kill, IInv, SameFile, LockFollowsPC, AloneBeforeCreation, Creating,
       StateFollowsPC, UnlinkedIsFinished, Alone, Unfinished, TypeOK, LockTypeOK,
       ProcTypeOK, QueueTypeOK, Job, Closed, Terminal, CloseLock, queueVars
  <2>4. AloneBeforeCreation'
    BY <1>0, <1>14 DEF Kill, IInv, AloneBeforeCreation, Creating, LockFollowsPC,
       StateFollowsPC, UnlinkedIsFinished, FullBeforeStart, TypeOK, LockTypeOK,
       ProcTypeOK, QueueTypeOK, Job, Closed, Terminal, CloseLock, queueVars
  <2>5. StateFollowsPC'
    BY <1>0, <1>14 DEF Kill, IInv, StateFollowsPC, Runnable, TypeOK, LockTypeOK,
       ProcTypeOK, QueueTypeOK, Job, Closed, Terminal, CloseLock, queueVars
  <2>6. FullBeforeStart'
    BY <1>0, <1>14 DEF Kill, IInv, FullBeforeStart, TypeOK, LockTypeOK, ProcTypeOK,
       QueueTypeOK, Job, Closed, Terminal, CloseLock, queueVars
  <2>7. StartsFollowState'
    BY <1>0, <1>14, JobAssumption DEF Kill, IInv, StartsFollowState, HarnessBudget,
       StateFollowsPC, Alone, TypeOK, LockTypeOK, ProcTypeOK, QueueTypeOK, GhostTypeOK,
       Job, Closed, Terminal, CloseLock, queueVars
  <2>8. UnlinkedIsFinished'
    BY <1>0, <1>14 DEF Kill, IInv, UnlinkedIsFinished, AloneBeforeCreation, Creating,
       StateFollowsPC, FullBeforeStart, Unfinished, Alone, TypeOK, LockTypeOK, ProcTypeOK,
       QueueTypeOK, Job, Closed, Terminal, CloseLock, queueVars
  <2>9. SavedFollowsState' /\ CompleteIsRecorded'
    BY <1>14 DEF Kill, IInv, SavedFollowsState, CompleteIsRecorded, CloseLock, queueVars,
       Creating, Unfinished
  <2>. QED
    BY <2>1, <2>2, <2>3, <2>4, <2>5, <2>6, <2>7, <2>8, <2>9 DEF IInv
<1>15. ASSUME NEW p \in Process, Enqueue(p) PROVE IInv'
  <2>1. LockFollowsPC'
    BY <1>15 DEF Enqueue, IInv, LockFollowsPC, TypeOK, LockTypeOK, ProcTypeOK,
       QueueTypeOK, Job, Closed, Terminal, Admitted, Continue, lockVars
  <2>2. SameFile'
    BY <1>0, <1>15 DEF Enqueue, IInv, SameFile, LockFollowsPC, AloneBeforeCreation,
       Creating, StateFollowsPC, UnlinkedIsFinished, Alone, Unfinished, TypeOK,
       LockTypeOK, ProcTypeOK, QueueTypeOK, Job, Closed, Terminal, Admitted, Continue,
       lockVars
  <2>3. AloneBeforeCreation'
    BY <1>0, <1>15 DEF Enqueue, IInv, AloneBeforeCreation, Creating, LockFollowsPC,
       StateFollowsPC, UnlinkedIsFinished, FullBeforeStart, TypeOK, LockTypeOK,
       ProcTypeOK, QueueTypeOK, Job, Closed, Terminal, Admitted, Continue, lockVars
  <2>4. StateFollowsPC'
    BY <1>0, <1>15 DEF Enqueue, IInv, StateFollowsPC, FullBeforeStart, SavedFollowsState,
       LockFollowsPC, Alone, Runnable, AloneBeforeCreation, Creating, TypeOK, LockTypeOK,
       ProcTypeOK, QueueTypeOK, Job, Closed, Terminal, Admitted, Continue, lockVars
  <2>5. FullBeforeStart'
    BY <1>0, <1>15 DEF Enqueue, IInv, FullBeforeStart, StateFollowsPC, Alone,
       AloneBeforeCreation, Creating, TypeOK, LockTypeOK, ProcTypeOK, QueueTypeOK, Job,
       Closed, Terminal, Admitted, Continue, lockVars
  <2>6. SavedFollowsState'
    BY <1>15 DEF Enqueue, IInv, SavedFollowsState, StateFollowsPC, AloneBeforeCreation,
       Creating, TypeOK, LockTypeOK, ProcTypeOK, QueueTypeOK, Job, Closed, Terminal,
       Admitted, Continue, lockVars
  <2>7. StartsFollowState'
    BY <1>0, <1>15, JobAssumption DEF Enqueue, IInv, StartsFollowState, HarnessBudget,
       StateFollowsPC, Alone, AloneBeforeCreation, Creating, TypeOK, LockTypeOK,
       ProcTypeOK, QueueTypeOK, GhostTypeOK, Job, Closed, Terminal, Admitted, Continue,
       lockVars
  <2>8. CompleteIsRecorded'
    BY <1>15 DEF Enqueue, IInv, CompleteIsRecorded, SavedFollowsState, StateFollowsPC,
       AloneBeforeCreation, Creating, TypeOK, LockTypeOK, ProcTypeOK, QueueTypeOK, Job,
       Closed, Terminal, Admitted, Continue, lockVars
  <2>9. UnlinkedIsFinished'
    BY <1>0, <1>15 DEF Enqueue, IInv, UnlinkedIsFinished, AloneBeforeCreation, Creating,
       StateFollowsPC, FullBeforeStart, Unfinished, Alone, TypeOK, LockTypeOK, ProcTypeOK,
       QueueTypeOK, Job, Closed, Terminal, Admitted, Continue, lockVars
  <2>10. OneHolder'
    BY <1>15 DEF Enqueue, IInv, OneHolder, Admitted, Continue, lockVars, Creating,
       Unfinished
  <2>. QED
    BY <2>1, <2>2, <2>3, <2>4, <2>5, <2>6, <2>7, <2>8, <2>9, <2>10 DEF IInv
<1>16. ASSUME NEW p \in Process, Read(p) PROVE IInv'
  <2>1. LockFollowsPC'
    BY <1>16 DEF Read, IInv, LockFollowsPC, TypeOK, LockTypeOK, ProcTypeOK, QueueTypeOK,
       Job, Closed, Terminal, Goto, queueVars, lockVars, ghostVars, Runnable
  <2>2. AloneBeforeCreation'
    BY <1>0, <1>16 DEF Read, IInv, AloneBeforeCreation, Creating, LockFollowsPC,
       StateFollowsPC, UnlinkedIsFinished, FullBeforeStart, TypeOK, LockTypeOK,
       ProcTypeOK, QueueTypeOK, Job, Closed, Terminal, Goto, queueVars, lockVars,
       ghostVars, Runnable
  <2>3. StateFollowsPC'
    BY <1>0, <1>16 DEF Read, IInv, StateFollowsPC, Runnable, TypeOK, LockTypeOK,
       ProcTypeOK, QueueTypeOK, Job, Closed, Terminal, Goto, queueVars, lockVars,
       ghostVars
  <2>4. FullBeforeStart'
    BY <1>0, <1>16 DEF Read, IInv, FullBeforeStart, TypeOK, LockTypeOK, ProcTypeOK,
       QueueTypeOK, Job, Closed, Terminal, Goto, queueVars, lockVars, ghostVars, Runnable
  <2>5. StartsFollowState'
    BY <1>0, <1>16, JobAssumption DEF Read, IInv, StartsFollowState, HarnessBudget,
       StateFollowsPC, Alone, TypeOK, LockTypeOK, ProcTypeOK, QueueTypeOK, GhostTypeOK,
       Job, Closed, Terminal, Goto, queueVars, lockVars, ghostVars, Runnable
  <2>6. UnlinkedIsFinished'
    BY <1>0, <1>16 DEF Read, IInv, UnlinkedIsFinished, AloneBeforeCreation, Creating,
       StateFollowsPC, FullBeforeStart, Unfinished, Alone, TypeOK, LockTypeOK, ProcTypeOK,
       QueueTypeOK, Job, Closed, Terminal, Goto, queueVars, lockVars, ghostVars, Runnable
  <2>7. OneHolder' /\ SameFile' /\ SavedFollowsState' /\ CompleteIsRecorded'
    BY <1>16 DEF Read, IInv, OneHolder, SameFile, SavedFollowsState, CompleteIsRecorded,
       Goto, queueVars, lockVars, ghostVars, Runnable, Creating, Unfinished
  <2>. QED
    BY <2>1, <2>2, <2>3, <2>4, <2>5, <2>6, <2>7 DEF IInv
<1>17. ASSUME NEW p \in Process, Current(p) PROVE IInv'
  <2>1. LockFollowsPC'
    BY <1>17 DEF Current, IInv, LockFollowsPC, TypeOK, LockTypeOK, ProcTypeOK,
       QueueTypeOK, Job, Closed, Terminal, Continue, Raise, queueVars, lockVars,
       ghostVars, Runnable
  <2>2. AloneBeforeCreation'
    BY <1>0, <1>17 DEF Current, IInv, AloneBeforeCreation, Creating, LockFollowsPC,
       StateFollowsPC, UnlinkedIsFinished, FullBeforeStart, TypeOK, LockTypeOK,
       ProcTypeOK, QueueTypeOK, Job, Closed, Terminal, Continue, Raise, queueVars,
       lockVars, ghostVars, Runnable
  <2>3. StateFollowsPC'
    BY <1>0, <1>17 DEF Current, IInv, StateFollowsPC, Runnable, TypeOK, LockTypeOK,
       ProcTypeOK, QueueTypeOK, Job, Closed, Terminal, Continue, Raise, queueVars,
       lockVars, ghostVars
  <2>4. FullBeforeStart'
    BY <1>0, <1>17 DEF Current, IInv, FullBeforeStart, TypeOK, LockTypeOK, ProcTypeOK,
       QueueTypeOK, Job, Closed, Terminal, Continue, Raise, queueVars, lockVars,
       ghostVars, Runnable
  <2>5. StartsFollowState'
    BY <1>0, <1>17, JobAssumption DEF Current, IInv, StartsFollowState, HarnessBudget,
       StateFollowsPC, Alone, TypeOK, LockTypeOK, ProcTypeOK, QueueTypeOK, GhostTypeOK,
       Job, Closed, Terminal, Continue, Raise, queueVars, lockVars, ghostVars, Runnable
  <2>6. UnlinkedIsFinished'
    BY <1>0, <1>17 DEF Current, IInv, UnlinkedIsFinished, AloneBeforeCreation, Creating,
       StateFollowsPC, FullBeforeStart, Unfinished, Alone, TypeOK, LockTypeOK, ProcTypeOK,
       QueueTypeOK, Job, Closed, Terminal, Continue, Raise, queueVars, lockVars,
       ghostVars, Runnable
  <2>7. OneHolder' /\ SameFile' /\ SavedFollowsState' /\ CompleteIsRecorded'
    BY <1>17 DEF Current, IInv, OneHolder, SameFile, SavedFollowsState,
       CompleteIsRecorded, Continue, Raise, queueVars, lockVars, ghostVars, Runnable,
       Creating, Unfinished
  <2>. QED
    BY <2>1, <2>2, <2>3, <2>4, <2>5, <2>6, <2>7 DEF IInv
<1>18. ASSUME NEW p \in Process, Gate(p) PROVE IInv'
  <2>1. LockFollowsPC'
    BY <1>18 DEF Gate, IInv, LockFollowsPC, TypeOK, LockTypeOK, ProcTypeOK, QueueTypeOK,
       Job, Closed, Terminal, Continue, Raise, Gated_, queueVars, lockVars, ghostVars
  <2>2. AloneBeforeCreation'
    BY <1>0, <1>18 DEF Gate, IInv, AloneBeforeCreation, Creating, LockFollowsPC,
       StateFollowsPC, UnlinkedIsFinished, FullBeforeStart, TypeOK, LockTypeOK,
       ProcTypeOK, QueueTypeOK, Job, Closed, Terminal, Continue, Raise, Gated_, queueVars,
       lockVars, ghostVars
  <2>3. StateFollowsPC'
    BY <1>0, <1>18 DEF Gate, IInv, StateFollowsPC, Runnable, TypeOK, LockTypeOK,
       ProcTypeOK, QueueTypeOK, Job, Closed, Terminal, Continue, Raise, Gated_, queueVars,
       lockVars, ghostVars
  <2>4. FullBeforeStart'
    BY <1>0, <1>18 DEF Gate, IInv, FullBeforeStart, TypeOK, LockTypeOK, ProcTypeOK,
       QueueTypeOK, Job, Closed, Terminal, Continue, Raise, Gated_, queueVars, lockVars,
       ghostVars
  <2>5. StartsFollowState'
    BY <1>0, <1>18, JobAssumption DEF Gate, IInv, StartsFollowState, HarnessBudget,
       StateFollowsPC, Alone, TypeOK, LockTypeOK, ProcTypeOK, QueueTypeOK, GhostTypeOK,
       Job, Closed, Terminal, Continue, Raise, Gated_, queueVars, lockVars, ghostVars
  <2>6. UnlinkedIsFinished'
    BY <1>0, <1>18 DEF Gate, IInv, UnlinkedIsFinished, AloneBeforeCreation, Creating,
       StateFollowsPC, FullBeforeStart, Unfinished, Alone, TypeOK, LockTypeOK, ProcTypeOK,
       QueueTypeOK, Job, Closed, Terminal, Continue, Raise, Gated_, queueVars, lockVars,
       ghostVars
  <2>7. OneHolder' /\ SameFile' /\ SavedFollowsState' /\ CompleteIsRecorded'
    BY <1>18 DEF Gate, IInv, OneHolder, SameFile, SavedFollowsState, CompleteIsRecorded,
       Continue, Raise, Gated_, queueVars, lockVars, ghostVars, Creating, Unfinished
  <2>. QED
    BY <2>1, <2>2, <2>3, <2>4, <2>5, <2>6, <2>7 DEF IInv
<1>19. ASSUME NEW p \in Process, SaveGate(p) PROVE IInv'
  <2>1. LockFollowsPC'
    BY <1>19 DEF SaveGate, IInv, LockFollowsPC, TypeOK, LockTypeOK, ProcTypeOK,
       QueueTypeOK, Job, Closed, Terminal, Continue, Raise, Gated_, lockVars, ghostVars
  <2>2. AloneBeforeCreation'
    BY <1>0, <1>19 DEF SaveGate, IInv, AloneBeforeCreation, Creating, LockFollowsPC,
       StateFollowsPC, UnlinkedIsFinished, FullBeforeStart, TypeOK, LockTypeOK,
       ProcTypeOK, QueueTypeOK, Job, Closed, Terminal, Continue, Raise, Gated_, lockVars,
       ghostVars
  <2>3. StateFollowsPC'
    BY <1>0, <1>19 DEF SaveGate, IInv, StateFollowsPC, Runnable, TypeOK, LockTypeOK,
       ProcTypeOK, QueueTypeOK, Job, Closed, Terminal, Continue, Raise, Gated_, lockVars,
       ghostVars
  <2>4. FullBeforeStart'
    BY <1>0, <1>19 DEF SaveGate, IInv, FullBeforeStart, TypeOK, LockTypeOK, ProcTypeOK,
       QueueTypeOK, Job, Closed, Terminal, Continue, Raise, Gated_, lockVars, ghostVars
  <2>5. StartsFollowState'
    BY <1>0, <1>19, JobAssumption DEF SaveGate, IInv, StartsFollowState, HarnessBudget,
       StateFollowsPC, Alone, TypeOK, LockTypeOK, ProcTypeOK, QueueTypeOK, GhostTypeOK,
       Job, Closed, Terminal, Continue, Raise, Gated_, lockVars, ghostVars
  <2>6. UnlinkedIsFinished'
    BY <1>0, <1>19 DEF SaveGate, IInv, UnlinkedIsFinished, AloneBeforeCreation, Creating,
       StateFollowsPC, FullBeforeStart, Unfinished, Alone, TypeOK, LockTypeOK, ProcTypeOK,
       QueueTypeOK, Job, Closed, Terminal, Continue, Raise, Gated_, lockVars, ghostVars
  <2>7. OneHolder' /\ SameFile' /\ SavedFollowsState' /\ CompleteIsRecorded'
    BY <1>19 DEF SaveGate, IInv, OneHolder, SameFile, SavedFollowsState,
       CompleteIsRecorded, Continue, Raise, Gated_, lockVars, ghostVars, Creating,
       Unfinished
  <2>. QED
    BY <2>1, <2>2, <2>3, <2>4, <2>5, <2>6, <2>7 DEF IInv
<1>20. ASSUME NEW p \in Process, Claim(p) PROVE IInv'
  <2>0. jobs[key[p]] \notin Terminal =>
          \A q \in Process \ {p} : key[q] = key[p] => pc[q] \in Closed \cup {"flock"}
    BY <1>0, <1>20 DEF Claim, Alone, Closed, Goto
  <2>1. LockFollowsPC'
    BY <1>20 DEF Claim, IInv, LockFollowsPC, TypeOK, LockTypeOK, ProcTypeOK, QueueTypeOK,
       Job, Closed, Terminal, Continue, Raise, lockVars, ghostVars
  <2>2. SameFile'
    BY <1>0, <1>20 DEF Claim, IInv, SameFile, LockFollowsPC, AloneBeforeCreation,
       Creating, StateFollowsPC, UnlinkedIsFinished, Alone, Unfinished, TypeOK,
       LockTypeOK, ProcTypeOK, QueueTypeOK, Job, Closed, Terminal, Continue, Raise,
       lockVars, ghostVars
  <2>3. AloneBeforeCreation'
    BY <1>0, <1>20 DEF Claim, IInv, AloneBeforeCreation, Creating, LockFollowsPC,
       StateFollowsPC, UnlinkedIsFinished, FullBeforeStart, TypeOK, LockTypeOK,
       ProcTypeOK, QueueTypeOK, Job, Closed, Terminal, Continue, Raise, lockVars,
       ghostVars
  <2>4. StateFollowsPC'
    BY <1>20, <2>0, SMTT(30) DEF Claim, IInv, StateFollowsPC, FullBeforeStart,
       SavedFollowsState, LockFollowsPC, Runnable, AloneBeforeCreation, Creating, TypeOK,
       LockTypeOK, ProcTypeOK, QueueTypeOK, Job, Closed, Terminal, Continue, Raise,
       lockVars, ghostVars
  <2>5. FullBeforeStart'
    <3>1. key' = key /\ \A q \in Process \ {p} : pc'[q] = pc[q] /\ error'[q] = error[q]
      BY <1>20 DEF Claim, Continue, Raise, IInv, TypeOK, ProcTypeOK, lockVars
    <3>2. /\ pc'[p] # "withdraw"
          /\ error'[p] = "full" => pc'[p] = "failing" /\ jobs'[key[p]] \in {"pending", "cancelled"}
      BY <1>20 DEF Claim, Continue, Raise, IInv, FullBeforeStart, TypeOK, ProcTypeOK
    <3>3. \A q \in Process \ {p} : pc[q] \notin Closed \cup {"flock"} => jobs'[key[q]] =
          jobs[key[q]]
      BY <1>20, <2>0 DEF Claim, Continue, Raise, IInv, TypeOK, LockTypeOK, QueueTypeOK,
         Job, Terminal, Closed
    <3>. QED
      BY <1>20, <3>1, <3>2, <3>3 DEF IInv, FullBeforeStart, Closed
  <2>6. SavedFollowsState'
    BY <1>20 DEF Claim, IInv, SavedFollowsState, StateFollowsPC, TypeOK, LockTypeOK,
       ProcTypeOK, QueueTypeOK, Job, Closed, Terminal, Continue, Raise, lockVars,
       ghostVars
  <2>7. StartsFollowState'
    BY <1>0, <1>20, JobAssumption DEF Claim, IInv, StartsFollowState, HarnessBudget,
       StateFollowsPC, Alone, TypeOK, LockTypeOK, ProcTypeOK, QueueTypeOK, GhostTypeOK,
       Job, Closed, Terminal, Continue, Raise, lockVars, ghostVars
  <2>8. CompleteIsRecorded'
    BY <1>20 DEF Claim, IInv, CompleteIsRecorded, SavedFollowsState, StateFollowsPC,
       TypeOK, LockTypeOK, ProcTypeOK, QueueTypeOK, Job, Closed, Terminal, Continue,
       Raise, lockVars, ghostVars
  <2>9. UnlinkedIsFinished'
    BY <1>0, <1>20 DEF Claim, IInv, UnlinkedIsFinished, Unfinished, StateFollowsPC,
       TypeOK, LockTypeOK, ProcTypeOK, QueueTypeOK, Job, Closed, Terminal, Continue,
       Raise, lockVars, ghostVars
  <2>10. OneHolder'
    BY <1>20 DEF Claim, IInv, OneHolder, Continue, Raise, lockVars, ghostVars, Creating,
       Unfinished
  <2>. QED
    BY <2>1, <2>2, <2>3, <2>4, <2>5, <2>6, <2>7, <2>8, <2>9, <2>10 DEF IInv
<1>21. ASSUME NEW p \in Process, Launch(p) PROVE IInv'
  <2>1. LockFollowsPC'
    BY <1>21 DEF Launch, IInv, LockFollowsPC, TypeOK, LockTypeOK, ProcTypeOK, QueueTypeOK,
       Job, Closed, Terminal, Continue, Raise, queueVars, lockVars
  <2>2. AloneBeforeCreation'
    BY <1>0, <1>21 DEF Launch, IInv, AloneBeforeCreation, Creating, LockFollowsPC,
       StateFollowsPC, UnlinkedIsFinished, FullBeforeStart, TypeOK, LockTypeOK,
       ProcTypeOK, QueueTypeOK, Job, Closed, Terminal, Continue, Raise, queueVars,
       lockVars
  <2>3. StateFollowsPC'
    BY <1>0, <1>21 DEF Launch, IInv, StateFollowsPC, Runnable, TypeOK, LockTypeOK,
       ProcTypeOK, QueueTypeOK, Job, Closed, Terminal, Continue, Raise, queueVars,
       lockVars
  <2>4. FullBeforeStart'
    BY <1>0, <1>21 DEF Launch, IInv, FullBeforeStart, TypeOK, LockTypeOK, ProcTypeOK,
       QueueTypeOK, Job, Closed, Terminal, Continue, Raise, queueVars, lockVars
  <2>5. StartsFollowState'
    <3>1. starts[key[p]] \in Nat /\ retries[key[p]] \in Nat
      BY JobAssumption DEF IInv, TypeOK, LockTypeOK, GhostTypeOK, Job
    <3>2. jobs[key[p]] = "running" /\ key[p] \in Job
      BY <1>21 DEF Launch, IInv, StateFollowsPC, TypeOK, LockTypeOK, Job
    <3>3. key[p] \notin Repeatable => starts[key[p]] + 1 <= 1 + retries[key[p]]
      BY <1>21, <3>1 DEF Launch, IInv, StartsFollowState
    <3>4. \/ starts' = starts
          \/ starts' = [starts EXCEPT ![key[p]] = @ + 1]
      BY <1>21 DEF Launch
    <3>5. HarnessBudget'
      BY <1>21, <3>3, <3>4 DEF Launch, HarnessBudget, IInv, StartsFollowState, TypeOK,
         GhostTypeOK
    <3>6. pc'[p] # "launch" /\ \A q \in Process \ {p} : pc'[q] = pc[q]
      BY <1>21 DEF Launch, Continue, Raise, IInv, TypeOK, ProcTypeOK
    <3>7. \A q \in Process \ {p} : pc[q] = "launch" => key[q] # key[p]
      BY <1>0, <3>2, <1>21 DEF Launch, Alone, Closed, Terminal
    <3>8. \A j \in Job \ Repeatable : jobs'[j] \in {"absent", "pending"} => starts'[j] <=
          retries'[j]
      BY <1>21, <3>2, <3>4 DEF Launch, IInv, StartsFollowState, TypeOK, GhostTypeOK,
         queueVars
    <3>9. \A q \in Process : pc'[q] = "launch" /\ key[q] \notin Repeatable
                            => starts'[key[q]] <= retries'[key[q]]
      BY <1>21, <3>4, <3>6, <3>7 DEF Launch, IInv, StartsFollowState, TypeOK, GhostTypeOK,
         LockTypeOK, Job
    <3>. QED
      BY <1>21, <3>5, <3>8, <3>9 DEF Launch, StartsFollowState, lockVars
  <2>6. UnlinkedIsFinished'
    BY <1>0, <1>21 DEF Launch, IInv, UnlinkedIsFinished, AloneBeforeCreation, Creating,
       StateFollowsPC, FullBeforeStart, Unfinished, Alone, TypeOK, LockTypeOK, ProcTypeOK,
       QueueTypeOK, Job, Closed, Terminal, Continue, Raise, queueVars, lockVars
  <2>7. OneHolder' /\ SameFile' /\ SavedFollowsState' /\ CompleteIsRecorded'
    BY <1>21 DEF Launch, IInv, OneHolder, SameFile, SavedFollowsState, CompleteIsRecorded,
       Continue, Raise, queueVars, lockVars, Creating, Unfinished
  <2>. QED
    BY <2>1, <2>2, <2>3, <2>4, <2>5, <2>6, <2>7 DEF IInv
<1>22. ASSUME NEW p \in Process, HarnessEnds(p) PROVE IInv'
  <2>1. LockFollowsPC'
    BY <1>22 DEF HarnessEnds, IInv, LockFollowsPC, TypeOK, LockTypeOK, ProcTypeOK,
       QueueTypeOK, Job, Closed, Terminal, Continue, Raise, queueVars, lockVars, ghostVars
  <2>2. AloneBeforeCreation'
    BY <1>0, <1>22 DEF HarnessEnds, IInv, AloneBeforeCreation, Creating, LockFollowsPC,
       StateFollowsPC, UnlinkedIsFinished, FullBeforeStart, TypeOK, LockTypeOK,
       ProcTypeOK, QueueTypeOK, Job, Closed, Terminal, Continue, Raise, queueVars,
       lockVars, ghostVars
  <2>3. StateFollowsPC'
    BY <1>0, <1>22 DEF HarnessEnds, IInv, StateFollowsPC, Runnable, TypeOK, LockTypeOK,
       ProcTypeOK, QueueTypeOK, Job, Closed, Terminal, Continue, Raise, queueVars,
       lockVars, ghostVars
  <2>4. FullBeforeStart'
    BY <1>0, <1>22 DEF HarnessEnds, IInv, FullBeforeStart, TypeOK, LockTypeOK, ProcTypeOK,
       QueueTypeOK, Job, Closed, Terminal, Continue, Raise, queueVars, lockVars, ghostVars
  <2>5. StartsFollowState'
    BY <1>0, <1>22, JobAssumption DEF HarnessEnds, IInv, StartsFollowState, HarnessBudget,
       StateFollowsPC, Alone, TypeOK, LockTypeOK, ProcTypeOK, QueueTypeOK, GhostTypeOK,
       Job, Closed, Terminal, Continue, Raise, queueVars, lockVars, ghostVars
  <2>6. UnlinkedIsFinished'
    BY <1>0, <1>22 DEF HarnessEnds, IInv, UnlinkedIsFinished, AloneBeforeCreation,
       Creating, StateFollowsPC, FullBeforeStart, Unfinished, Alone, TypeOK, LockTypeOK,
       ProcTypeOK, QueueTypeOK, Job, Closed, Terminal, Continue, Raise, queueVars,
       lockVars, ghostVars
  <2>7. OneHolder' /\ SameFile' /\ SavedFollowsState' /\ CompleteIsRecorded'
    BY <1>22 DEF HarnessEnds, IInv, OneHolder, SameFile, SavedFollowsState,
       CompleteIsRecorded, Continue, Raise, queueVars, lockVars, ghostVars, Creating,
       Unfinished
  <2>. QED
    BY <2>1, <2>2, <2>3, <2>4, <2>5, <2>6, <2>7 DEF IInv
<1>23. ASSUME NEW p \in Process, Save(p) PROVE IInv'
  <2>0. jobs[key[p]] \notin Terminal =>
          \A q \in Process \ {p} : key[q] = key[p] => pc[q] \in Closed \cup {"flock"}
    BY <1>0, <1>23 DEF Save, Alone, Closed, Goto
  <2>1. LockFollowsPC'
    BY <1>23 DEF Save, IInv, LockFollowsPC, TypeOK, LockTypeOK, ProcTypeOK, QueueTypeOK,
       Job, Closed, Terminal, Continue, Raise, lockVars, ghostVars
  <2>2. SameFile'
    BY <1>0, <1>23, SMTT(30) DEF Save, IInv, SameFile, LockFollowsPC, AloneBeforeCreation,
       Creating, StateFollowsPC, UnlinkedIsFinished, Alone, Unfinished, TypeOK,
       LockTypeOK, ProcTypeOK, QueueTypeOK, Job, Closed, Terminal, Continue, Raise,
       lockVars, ghostVars
  <2>3. AloneBeforeCreation'
    BY <1>0, <1>23 DEF Save, IInv, AloneBeforeCreation, Creating, LockFollowsPC,
       StateFollowsPC, UnlinkedIsFinished, FullBeforeStart, TypeOK, LockTypeOK,
       ProcTypeOK, QueueTypeOK, Job, Closed, Terminal, Continue, Raise, lockVars,
       ghostVars
  <2>4. StateFollowsPC'
    <3>1. /\ key' = key /\ record' = record
          /\ pc[p] \notin Closed \cup {"flock"}
          /\ \A q \in Process \ {p} :
                pc'[q] = pc[q] /\ seen'[q] = seen[q] /\ error'[q] = error[q]
      BY <1>23 DEF Save, Continue, Raise, IInv, TypeOK, ProcTypeOK, lockVars, Closed
    <3>2. /\ jobs' = jobs \/ jobs[key[p]] \notin Terminal
          /\ \A j \in Job \ {key[p]} : jobs'[j] = jobs[j]
      BY <1>23 DEF Save, Continue, Raise, IInv, TypeOK, LockTypeOK, QueueTypeOK,
         StateFollowsPC, Terminal, Job
    <3>3. /\ pc'[p] \in {"leave", "close", "reply", "quiet", "commit", "failing"}
          /\ pc'[p] = "reply" => jobs'[key[p]] = "answered"
          /\ pc'[p] = "quiet" => jobs'[key[p]] \in {"pending", "cancelled", "answered"}
          /\ pc'[p] = "commit" => jobs'[key[p]] = "prepared"
          /\ pc'[p] = "failing" => error'[p] # "gate"
      BY <1>23 DEF Save, Continue, Raise, IInv, TypeOK, LockTypeOK, QueueTypeOK,
         ProcTypeOK,
         StateFollowsPC, Job
    <3>. QED
      BY <1>0, <3>1, <3>2, <3>3, OthersKeepState
  <2>5. FullBeforeStart'
    <3>1. key' = key /\ \A q \in Process \ {p} : pc'[q] = pc[q] /\ error'[q] = error[q]
      BY <1>23 DEF Save, Continue, Raise, IInv, TypeOK, ProcTypeOK, lockVars
    <3>2. /\ pc'[p] # "withdraw"
          /\ error'[p] = "full" => pc'[p] = "failing" /\ jobs'[key[p]] \in {"pending", "cancelled"}
      BY <1>23 DEF Save, Continue, Raise, IInv, FullBeforeStart, TypeOK, ProcTypeOK
    <3>3. \A q \in Process \ {p} : pc[q] \notin Closed \cup {"flock"} => jobs'[key[q]] =
          jobs[key[q]]
      BY <1>23, <2>0 DEF Save, Continue, Raise, IInv, TypeOK, LockTypeOK, QueueTypeOK,
         Job, Terminal, Closed
    <3>. QED
      BY <1>23, <3>1, <3>2, <3>3 DEF IInv, FullBeforeStart, Closed
  <2>6. SavedFollowsState'
    BY <1>23 DEF Save, IInv, SavedFollowsState, StateFollowsPC, TypeOK, LockTypeOK,
       ProcTypeOK, QueueTypeOK, Job, Closed, Terminal, Continue, Raise, lockVars,
       ghostVars
  <2>7. StartsFollowState'
    BY <1>0, <1>23, JobAssumption DEF Save, IInv, StartsFollowState, HarnessBudget,
       StateFollowsPC, Alone, TypeOK, LockTypeOK, ProcTypeOK, QueueTypeOK, GhostTypeOK,
       Job, Closed, Terminal, Continue, Raise, lockVars, ghostVars
  <2>8. CompleteIsRecorded'
    BY <1>23 DEF Save, IInv, CompleteIsRecorded, SavedFollowsState, StateFollowsPC,
       TypeOK, LockTypeOK, ProcTypeOK, QueueTypeOK, Job, Closed, Terminal, Continue,
       Raise, lockVars, ghostVars
  <2>9. UnlinkedIsFinished'
    BY <1>0, <1>23 DEF Save, IInv, UnlinkedIsFinished, Unfinished, StateFollowsPC, TypeOK,
       LockTypeOK, ProcTypeOK, QueueTypeOK, Job, Closed, Terminal, Continue, Raise,
       lockVars, ghostVars
  <2>10. OneHolder'
    BY <1>23 DEF Save, IInv, OneHolder, Continue, Raise, lockVars, ghostVars, Creating,
       Unfinished
  <2>. QED
    BY <2>1, <2>2, <2>3, <2>4, <2>5, <2>6, <2>7, <2>8, <2>9, <2>10 DEF IInv
<1>24. ASSUME NEW p \in Process, Reply(p) PROVE IInv'
  <2>0. jobs[key[p]] \notin Terminal =>
          \A q \in Process \ {p} : key[q] = key[p] => pc[q] \in Closed \cup {"flock"}
    BY <1>0, <1>24 DEF Reply, Alone, Closed, Goto
  <2>1. LockFollowsPC'
    BY <1>24 DEF Reply, IInv, LockFollowsPC, TypeOK, LockTypeOK, ProcTypeOK, QueueTypeOK,
       Job, Closed, Terminal, Prepare, Continue, Raise, lockVars, ghostVars
  <2>2. SameFile'
    BY <1>0, <1>24 DEF Reply, IInv, SameFile, LockFollowsPC, AloneBeforeCreation,
       Creating, StateFollowsPC, UnlinkedIsFinished, Alone, Unfinished, TypeOK,
       LockTypeOK, ProcTypeOK, QueueTypeOK, Job, Closed, Terminal, Prepare, Continue,
       Raise, lockVars, ghostVars
  <2>3. AloneBeforeCreation'
    BY <1>0, <1>24 DEF Reply, IInv, AloneBeforeCreation, Creating, LockFollowsPC,
       StateFollowsPC, UnlinkedIsFinished, FullBeforeStart, TypeOK, LockTypeOK,
       ProcTypeOK, QueueTypeOK, Job, Closed, Terminal, Prepare, Continue, Raise, lockVars,
       ghostVars
  <2>4. StateFollowsPC'
    <3>1. /\ key' = key /\ record' = record
          /\ pc[p] \notin Closed \cup {"flock"}
          /\ \A q \in Process \ {p} :
                pc'[q] = pc[q] /\ seen'[q] = seen[q] /\ error'[q] = error[q]
      BY <1>24 DEF Reply, Prepare, Continue, Raise, IInv, TypeOK, ProcTypeOK, lockVars,
         Closed
    <3>2. /\ jobs' = jobs \/ jobs[key[p]] \notin Terminal
          /\ \A j \in Job \ {key[p]} : jobs'[j] = jobs[j]
      BY <1>24 DEF Reply, Prepare, Continue, Raise, IInv, TypeOK, LockTypeOK, QueueTypeOK,
         StateFollowsPC, Terminal, Job
    <3>3. /\ pc'[p] \in {"leave", "close", "reply", "quiet", "commit", "failing"}
          /\ pc'[p] = "reply" => jobs'[key[p]] = "answered"
          /\ pc'[p] = "quiet" => jobs'[key[p]] \in {"pending", "cancelled", "answered"}
          /\ pc'[p] = "commit" => jobs'[key[p]] = "prepared"
          /\ pc'[p] = "failing" => error'[p] # "gate"
      BY <1>24 DEF Reply, Prepare, Continue, Raise, IInv, TypeOK, LockTypeOK, QueueTypeOK,
         ProcTypeOK, StateFollowsPC, Job
    <3>. QED
      BY <1>0, <3>1, <3>2, <3>3, OthersKeepState
  <2>5. FullBeforeStart'
    BY <1>24, <2>0, SMTT(30) DEF Reply, IInv, FullBeforeStart, StateFollowsPC, TypeOK,
       LockTypeOK, ProcTypeOK, QueueTypeOK, Job, Closed, Terminal, Prepare, Continue,
       Raise, lockVars, ghostVars
  <2>6. SavedFollowsState'
    BY <1>24 DEF Reply, IInv, SavedFollowsState, StateFollowsPC, TypeOK, LockTypeOK,
       ProcTypeOK, QueueTypeOK, Job, Closed, Terminal, Prepare, Continue, Raise, lockVars,
       ghostVars
  <2>7. StartsFollowState'
    BY <1>0, <1>24, JobAssumption DEF Reply, IInv, StartsFollowState, HarnessBudget,
       StateFollowsPC, Alone, TypeOK, LockTypeOK, ProcTypeOK, QueueTypeOK, GhostTypeOK,
       Job, Closed, Terminal, Prepare, Continue, Raise, lockVars, ghostVars
  <2>8. CompleteIsRecorded'
    BY <1>24 DEF Reply, IInv, CompleteIsRecorded, SavedFollowsState, StateFollowsPC,
       TypeOK, LockTypeOK, ProcTypeOK, QueueTypeOK, Job, Closed, Terminal, Prepare,
       Continue, Raise, lockVars, ghostVars
  <2>9. UnlinkedIsFinished'
    BY <1>0, <1>24 DEF Reply, IInv, UnlinkedIsFinished, Unfinished, StateFollowsPC,
       TypeOK, LockTypeOK, ProcTypeOK, QueueTypeOK, Job, Closed, Terminal, Prepare,
       Continue, Raise, lockVars, ghostVars
  <2>10. OneHolder'
    BY <1>24 DEF Reply, IInv, OneHolder, Prepare, Continue, Raise, lockVars, ghostVars,
       Creating, Unfinished
  <2>. QED
    BY <2>1, <2>2, <2>3, <2>4, <2>5, <2>6, <2>7, <2>8, <2>9, <2>10 DEF IInv
<1>25. ASSUME NEW p \in Process, Quiet(p) PROVE IInv'
  <2>0. jobs[key[p]] \notin Terminal =>
          \A q \in Process \ {p} : key[q] = key[p] => pc[q] \in Closed \cup {"flock"}
    BY <1>0, <1>25 DEF Quiet, Alone, Closed, Goto
  <2>1. LockFollowsPC'
    BY <1>25 DEF Quiet, IInv, LockFollowsPC, TypeOK, LockTypeOK, ProcTypeOK, QueueTypeOK,
       Job, Closed, Terminal, FinishJob, Forgotten, Continue, Raise, lockVars, ghostVars
  <2>2. SameFile'
    BY <1>0, <1>25 DEF Quiet, IInv, SameFile, LockFollowsPC, AloneBeforeCreation,
       Creating, StateFollowsPC, UnlinkedIsFinished, Alone, Unfinished, TypeOK,
       LockTypeOK, ProcTypeOK, QueueTypeOK, Job, Closed, Terminal, FinishJob, Forgotten,
       Continue, Raise, lockVars, ghostVars
  <2>3. AloneBeforeCreation'
    BY <1>0, <1>25 DEF Quiet, IInv, AloneBeforeCreation, Creating, LockFollowsPC,
       StateFollowsPC, UnlinkedIsFinished, FullBeforeStart, TypeOK, LockTypeOK,
       ProcTypeOK, QueueTypeOK, Job, Closed, Terminal, FinishJob, Forgotten, Continue,
       Raise, lockVars, ghostVars
  <2>4. StateFollowsPC'
    BY <1>25, <2>0 DEF Quiet, IInv, StateFollowsPC, FullBeforeStart, SavedFollowsState,
       LockFollowsPC, Runnable, AloneBeforeCreation, Creating, TypeOK, LockTypeOK,
       ProcTypeOK, QueueTypeOK, Job, Closed, Terminal, FinishJob, Forgotten, Continue,
       Raise, lockVars, ghostVars
  <2>5. FullBeforeStart'
    <3>1. key' = key /\ \A q \in Process \ {p} : pc'[q] = pc[q] /\ error'[q] = error[q]
      BY <1>25 DEF Quiet, FinishJob, Continue, Raise, IInv, TypeOK, ProcTypeOK, lockVars
    <3>2. /\ pc'[p] # "withdraw"
          /\ error'[p] = "full" => pc'[p] = "failing" /\ jobs'[key[p]] \in {"pending", "cancelled"}
      BY <1>25 DEF Quiet, FinishJob, Continue, Raise, IInv, FullBeforeStart, TypeOK,
         ProcTypeOK
    <3>3. \A q \in Process \ {p} : pc[q] \notin Closed \cup {"flock"} => jobs'[key[q]] =
          jobs[key[q]]
      BY <1>25, <2>0 DEF Quiet, FinishJob, Continue, Raise, StateFollowsPC, IInv, TypeOK,
         LockTypeOK, QueueTypeOK, Job, Terminal, Closed
    <3>. QED
      BY <1>25, <3>1, <3>2, <3>3 DEF IInv, FullBeforeStart, Closed
  <2>6. SavedFollowsState'
    BY <1>25 DEF Quiet, IInv, SavedFollowsState, StateFollowsPC, TypeOK, LockTypeOK,
       ProcTypeOK, QueueTypeOK, Job, Closed, Terminal, FinishJob, Forgotten, Continue,
       Raise, lockVars, ghostVars
  <2>7. StartsFollowState'
    BY <1>0, <1>25, JobAssumption DEF Quiet, IInv, StartsFollowState, HarnessBudget,
       StateFollowsPC, Alone, TypeOK, LockTypeOK, ProcTypeOK, QueueTypeOK, GhostTypeOK,
       Job, Closed, Terminal, FinishJob, Forgotten, Continue, Raise, lockVars, ghostVars
  <2>8. CompleteIsRecorded'
    BY <1>25 DEF Quiet, IInv, CompleteIsRecorded, SavedFollowsState, StateFollowsPC,
       TypeOK, LockTypeOK, ProcTypeOK, QueueTypeOK, Job, Closed, Terminal, FinishJob,
       Forgotten, Continue, Raise, lockVars, ghostVars
  <2>9. UnlinkedIsFinished'
    BY <1>0, <1>25 DEF Quiet, IInv, UnlinkedIsFinished, Unfinished, StateFollowsPC,
       TypeOK, LockTypeOK, ProcTypeOK, QueueTypeOK, Job, Closed, Terminal, FinishJob,
       Forgotten, Continue, Raise, lockVars, ghostVars
  <2>10. OneHolder'
    BY <1>25 DEF Quiet, IInv, OneHolder, FinishJob, Forgotten, Continue, Raise, lockVars,
       ghostVars, Creating, Unfinished
  <2>. QED
    BY <2>1, <2>2, <2>3, <2>4, <2>5, <2>6, <2>7, <2>8, <2>9, <2>10 DEF IInv
<1>26. ASSUME NEW p \in Process, Commit(p) PROVE IInv'
  <2>1. LockFollowsPC'
    BY <1>26 DEF Commit, IInv, LockFollowsPC, TypeOK, LockTypeOK, ProcTypeOK, QueueTypeOK,
       Job, Closed, Terminal, Continue, Raise, queueVars, lockVars, ghostVars
  <2>2. AloneBeforeCreation'
    BY <1>0, <1>26 DEF Commit, IInv, AloneBeforeCreation, Creating, LockFollowsPC,
       StateFollowsPC, UnlinkedIsFinished, FullBeforeStart, TypeOK, LockTypeOK,
       ProcTypeOK, QueueTypeOK, Job, Closed, Terminal, Continue, Raise, queueVars,
       lockVars, ghostVars
  <2>3. StateFollowsPC'
    BY <1>0, <1>26 DEF Commit, IInv, StateFollowsPC, Runnable, TypeOK, LockTypeOK,
       ProcTypeOK, QueueTypeOK, Job, Closed, Terminal, Continue, Raise, queueVars,
       lockVars, ghostVars
  <2>4. FullBeforeStart'
    BY <1>0, <1>26 DEF Commit, IInv, FullBeforeStart, TypeOK, LockTypeOK, ProcTypeOK,
       QueueTypeOK, Job, Closed, Terminal, Continue, Raise, queueVars, lockVars, ghostVars
  <2>5. StartsFollowState'
    BY <1>0, <1>26, JobAssumption DEF Commit, IInv, StartsFollowState, HarnessBudget,
       StateFollowsPC, Alone, TypeOK, LockTypeOK, ProcTypeOK, QueueTypeOK, GhostTypeOK,
       Job, Closed, Terminal, Continue, Raise, queueVars, lockVars, ghostVars
  <2>6. CompleteIsRecorded'
    BY <1>26 DEF Commit, IInv, CompleteIsRecorded, SavedFollowsState, StateFollowsPC,
       TypeOK, LockTypeOK, ProcTypeOK, QueueTypeOK, Job, Closed, Terminal, Continue,
       Raise, queueVars, lockVars, ghostVars
  <2>7. UnlinkedIsFinished'
    BY <1>0, <1>26 DEF Commit, IInv, UnlinkedIsFinished, AloneBeforeCreation, Creating,
       StateFollowsPC, FullBeforeStart, Unfinished, Alone, TypeOK, LockTypeOK, ProcTypeOK,
       QueueTypeOK, Job, Closed, Terminal, Continue, Raise, queueVars, lockVars, ghostVars
  <2>8. OneHolder' /\ SameFile' /\ SavedFollowsState'
    BY <1>26 DEF Commit, IInv, OneHolder, SameFile, SavedFollowsState, Continue, Raise,
       queueVars, lockVars, ghostVars, Creating, Unfinished
  <2>. QED
    BY <2>1, <2>2, <2>3, <2>4, <2>5, <2>6, <2>7, <2>8 DEF IInv
<1>27. ASSUME NEW p \in Process, Finish(p) PROVE IInv'
  <2>1. LockFollowsPC'
    BY <1>27 DEF Finish, IInv, LockFollowsPC, TypeOK, LockTypeOK, ProcTypeOK, QueueTypeOK,
       Job, Closed, Terminal, FinishJob, Forgotten, Continue, Raise, lockVars, ghostVars
  <2>2. SameFile'
    BY <1>0, <1>27 DEF Finish, IInv, SameFile, LockFollowsPC, AloneBeforeCreation,
       Creating, StateFollowsPC, UnlinkedIsFinished, Alone, Unfinished, TypeOK,
       LockTypeOK, ProcTypeOK, QueueTypeOK, Job, Closed, Terminal, FinishJob, Forgotten,
       Continue, Raise, lockVars, ghostVars
  <2>3. AloneBeforeCreation'
    BY <1>0, <1>27 DEF Finish, IInv, AloneBeforeCreation, Creating, LockFollowsPC,
       StateFollowsPC, UnlinkedIsFinished, FullBeforeStart, TypeOK, LockTypeOK,
       ProcTypeOK, QueueTypeOK, Job, Closed, Terminal, FinishJob, Forgotten, Continue,
       Raise, lockVars, ghostVars
  <2>4. StateFollowsPC'
    <3>1. /\ key' = key /\ record' = record
          /\ pc[p] \notin Closed \cup {"flock"}
          /\ \A q \in Process \ {p} :
                pc'[q] = pc[q] /\ seen'[q] = seen[q] /\ error'[q] = error[q]
      BY <1>27 DEF Finish, FinishJob, Forgotten, Continue, Raise, IInv, TypeOK,
         ProcTypeOK, lockVars, Closed
    <3>2. /\ jobs' = jobs \/ jobs[key[p]] \notin Terminal
          /\ \A j \in Job \ {key[p]} : jobs'[j] = jobs[j]
      BY <1>27 DEF Finish, FinishJob, Forgotten, Continue, Raise, IInv, TypeOK,
         LockTypeOK, QueueTypeOK, StateFollowsPC, Terminal, Job
    <3>3. /\ pc'[p] \in {"leave", "close", "reply", "quiet", "commit", "failing"}
          /\ pc'[p] = "reply" => jobs'[key[p]] = "answered"
          /\ pc'[p] = "quiet" => jobs'[key[p]] \in {"pending", "cancelled", "answered"}
          /\ pc'[p] = "commit" => jobs'[key[p]] = "prepared"
          /\ pc'[p] = "failing" => error'[p] # "gate"
      BY <1>27 DEF Finish, FinishJob, Forgotten, Continue, Raise, IInv, TypeOK,
         LockTypeOK, QueueTypeOK, ProcTypeOK, StateFollowsPC, Job
    <3>. QED
      BY <1>0, <3>1, <3>2, <3>3, OthersKeepState
  <2>5. FullBeforeStart'
    BY <1>0, <1>27 DEF Finish, IInv, FullBeforeStart, StateFollowsPC, Alone, TypeOK,
       LockTypeOK, ProcTypeOK, QueueTypeOK, Job, Closed, Terminal, FinishJob, Forgotten,
       Continue, Raise, lockVars, ghostVars
  <2>6. SavedFollowsState'
    BY <1>27 DEF Finish, IInv, SavedFollowsState, StateFollowsPC, TypeOK, LockTypeOK,
       ProcTypeOK, QueueTypeOK, Job, Closed, Terminal, FinishJob, Forgotten, Continue,
       Raise, lockVars, ghostVars
  <2>7. StartsFollowState'
    BY <1>0, <1>27, JobAssumption DEF Finish, IInv, StartsFollowState, HarnessBudget,
       StateFollowsPC, Alone, TypeOK, LockTypeOK, ProcTypeOK, QueueTypeOK, GhostTypeOK,
       Job, Closed, Terminal, FinishJob, Forgotten, Continue, Raise, lockVars, ghostVars
  <2>8. CompleteIsRecorded'
    BY <1>27 DEF Finish, IInv, CompleteIsRecorded, SavedFollowsState, StateFollowsPC,
       TypeOK, LockTypeOK, ProcTypeOK, QueueTypeOK, Job, Closed, Terminal, FinishJob,
       Forgotten, Continue, Raise, lockVars, ghostVars
  <2>9. UnlinkedIsFinished'
    BY <1>0, <1>27 DEF Finish, IInv, UnlinkedIsFinished, Unfinished, StateFollowsPC,
       TypeOK, LockTypeOK, ProcTypeOK, QueueTypeOK, Job, Closed, Terminal, FinishJob,
       Forgotten, Continue, Raise, lockVars, ghostVars
  <2>10. OneHolder'
    BY <1>27 DEF Finish, IInv, OneHolder, FinishJob, Forgotten, Continue, Raise, lockVars,
       ghostVars, Creating, Unfinished
  <2>. QED
    BY <2>1, <2>2, <2>3, <2>4, <2>5, <2>6, <2>7, <2>8, <2>9, <2>10 DEF IInv
<1>28. ASSUME NEW p \in Process, Failing(p) PROVE IInv'
  <2>1. LockFollowsPC'
    BY <1>28 DEF Failing, IInv, LockFollowsPC, TypeOK, LockTypeOK, ProcTypeOK,
       QueueTypeOK, Job, Closed, Terminal, Goto, queueVars, lockVars, ghostVars
  <2>2. AloneBeforeCreation'
    BY <1>0, <1>28 DEF Failing, IInv, AloneBeforeCreation, Creating, LockFollowsPC,
       StateFollowsPC, UnlinkedIsFinished, FullBeforeStart, TypeOK, LockTypeOK,
       ProcTypeOK, QueueTypeOK, Job, Closed, Terminal, Goto, queueVars, lockVars,
       ghostVars
  <2>3. StateFollowsPC'
    BY <1>0, <1>28 DEF Failing, IInv, StateFollowsPC, Runnable, TypeOK, LockTypeOK,
       ProcTypeOK, QueueTypeOK, Job, Closed, Terminal, Goto, queueVars, lockVars,
       ghostVars
  <2>4. FullBeforeStart'
    BY <1>0, <1>28 DEF Failing, IInv, FullBeforeStart, StateFollowsPC, TypeOK, LockTypeOK,
       ProcTypeOK, QueueTypeOK, Job, Closed, Terminal, Goto, queueVars, lockVars,
       ghostVars
  <2>5. StartsFollowState'
    BY <1>0, <1>28, JobAssumption DEF Failing, IInv, StartsFollowState, HarnessBudget,
       StateFollowsPC, Alone, TypeOK, LockTypeOK, ProcTypeOK, QueueTypeOK, GhostTypeOK,
       Job, Closed, Terminal, Goto, queueVars, lockVars, ghostVars
  <2>6. UnlinkedIsFinished'
    BY <1>0, <1>28 DEF Failing, IInv, UnlinkedIsFinished, AloneBeforeCreation, Creating,
       StateFollowsPC, FullBeforeStart, Unfinished, Alone, TypeOK, LockTypeOK, ProcTypeOK,
       QueueTypeOK, Job, Closed, Terminal, Goto, queueVars, lockVars, ghostVars
  <2>7. OneHolder' /\ SameFile' /\ SavedFollowsState' /\ CompleteIsRecorded'
    BY <1>28 DEF Failing, IInv, OneHolder, SameFile, SavedFollowsState,
       CompleteIsRecorded, Goto, queueVars, lockVars, ghostVars, Creating, Unfinished
  <2>. QED
    BY <2>1, <2>2, <2>3, <2>4, <2>5, <2>6, <2>7 DEF IInv
<1>29. ASSUME NEW p \in Process, Fail(p) PROVE IInv'
  <2>0. jobs[key[p]] \notin Terminal =>
          \A q \in Process \ {p} : key[q] = key[p] => pc[q] \in Closed \cup {"flock"}
    BY <1>0, <1>29 DEF Fail, Alone, Closed, Goto
  <2>1. LockFollowsPC'
    BY <1>29 DEF Fail, IInv, LockFollowsPC, TypeOK, LockTypeOK, ProcTypeOK, QueueTypeOK,
       Job, Closed, Terminal, Goto, RetryAttempt, Unless, Forgotten, lockVars, ghostVars
  <2>2. SameFile'
    BY <1>0, <1>29 DEF Fail, IInv, SameFile, LockFollowsPC, AloneBeforeCreation, Creating,
       StateFollowsPC, UnlinkedIsFinished, Alone, Unfinished, TypeOK, LockTypeOK,
       ProcTypeOK, QueueTypeOK, Job, Closed, Terminal, Goto, RetryAttempt, Unless,
       Forgotten, lockVars, ghostVars
  <2>3. AloneBeforeCreation'
    BY <1>0, <1>29 DEF Fail, IInv, AloneBeforeCreation, Creating, LockFollowsPC,
       StateFollowsPC, UnlinkedIsFinished, FullBeforeStart, TypeOK, LockTypeOK,
       ProcTypeOK, QueueTypeOK, Job, Closed, Terminal, Goto, RetryAttempt, Unless,
       Forgotten, lockVars, ghostVars
  <2>4. StateFollowsPC'
    BY <1>29, <2>0 DEF Fail, IInv, StateFollowsPC, FullBeforeStart, SavedFollowsState,
       LockFollowsPC, Runnable, AloneBeforeCreation, Creating, TypeOK, LockTypeOK,
       ProcTypeOK, QueueTypeOK, Job, Closed, Terminal, Goto, RetryAttempt, Unless,
       Forgotten, lockVars, ghostVars
  <2>5. FullBeforeStart'
    <3>1. key' = key /\ \A q \in Process \ {p} : pc'[q] = pc[q] /\ error'[q] = error[q]
      BY <1>29 DEF Fail, Goto, RetryAttempt, Unless, IInv, TypeOK, ProcTypeOK, lockVars
    <3>2. /\ pc'[p] # "withdraw"
          /\ error'[p] = "full" => pc'[p] = "failing" /\ jobs'[key[p]] \in {"pending", "cancelled"}
      BY <1>29 DEF Fail, Goto, RetryAttempt, Unless, IInv, FullBeforeStart, TypeOK,
         ProcTypeOK
    <3>3. \A q \in Process \ {p} : pc[q] \notin Closed \cup {"flock"} => jobs'[key[q]] =
          jobs[key[q]]
      BY <1>29, <2>0 DEF Fail, Goto, RetryAttempt, Unless, IInv, TypeOK, LockTypeOK,
         QueueTypeOK, Job, Terminal, Closed
    <3>. QED
      BY <1>29, <3>1, <3>2, <3>3 DEF IInv, FullBeforeStart, Closed
  <2>6. SavedFollowsState'
    BY <1>29 DEF Fail, IInv, SavedFollowsState, StateFollowsPC, TypeOK, LockTypeOK,
       ProcTypeOK, QueueTypeOK, Job, Closed, Terminal, Goto, RetryAttempt, Unless,
       Forgotten, lockVars, ghostVars
  <2>7. StartsFollowState'
    BY <1>0, <1>29, JobAssumption DEF Fail, IInv, StartsFollowState, HarnessBudget,
       StateFollowsPC, Alone, TypeOK, LockTypeOK, ProcTypeOK, QueueTypeOK, GhostTypeOK,
       Job, Closed, Terminal, Goto, RetryAttempt, Unless, Forgotten, lockVars, ghostVars
  <2>8. CompleteIsRecorded'
    BY <1>29 DEF Fail, IInv, CompleteIsRecorded, SavedFollowsState, StateFollowsPC,
       TypeOK, LockTypeOK, ProcTypeOK, QueueTypeOK, Job, Closed, Terminal, Goto,
       RetryAttempt, Unless, Forgotten, lockVars, ghostVars
  <2>9. UnlinkedIsFinished'
    BY <1>0, <1>29 DEF Fail, IInv, UnlinkedIsFinished, AloneBeforeCreation, Creating,
       StateFollowsPC, FullBeforeStart, Unfinished, Alone, TypeOK, LockTypeOK, ProcTypeOK,
       QueueTypeOK, Job, Closed, Terminal, Goto, RetryAttempt, Unless, Forgotten,
       lockVars, ghostVars
  <2>10. OneHolder'
    BY <1>29 DEF Fail, IInv, OneHolder, Goto, RetryAttempt, Unless, Forgotten, lockVars,
       ghostVars, Creating, Unfinished
  <2>. QED
    BY <2>1, <2>2, <2>3, <2>4, <2>5, <2>6, <2>7, <2>8, <2>9, <2>10 DEF IInv
<1>30. ASSUME NEW p \in Process, Signal(p) PROVE IInv'
  <2>1. LockFollowsPC'
    BY <1>30 DEF Signal, IInv, LockFollowsPC, TypeOK, LockTypeOK, ProcTypeOK, QueueTypeOK,
       Job, Closed, Terminal, RecordEnded, RetryAttempt, Unless, Forgotten, Continue,
       lockVars, Trying
  <2>2. SameFile'
    BY <1>0, <1>30 DEF Signal, IInv, SameFile, LockFollowsPC, AloneBeforeCreation,
       Creating, StateFollowsPC, UnlinkedIsFinished, Alone, Unfinished, TypeOK,
       LockTypeOK, ProcTypeOK, QueueTypeOK, Job, Closed, Terminal, RecordEnded,
       RetryAttempt, Unless, Forgotten, Continue, lockVars, Trying
  <2>3. AloneBeforeCreation'
    BY <1>0, <1>30 DEF Signal, IInv, AloneBeforeCreation, Creating, LockFollowsPC,
       StateFollowsPC, UnlinkedIsFinished, FullBeforeStart, TypeOK, LockTypeOK,
       ProcTypeOK, QueueTypeOK, Job, Closed, Terminal, RecordEnded, RetryAttempt, Unless,
       Forgotten, Continue, lockVars, Trying
  <2>4. StateFollowsPC'
    <3>1. /\ key' = key /\ record' = record
          /\ pc[p] \notin Closed \cup {"flock"}
          /\ \A q \in Process \ {p} :
                pc'[q] = pc[q] /\ seen'[q] = seen[q] /\ error'[q] = error[q]
      BY <1>30 DEF Signal, RecordEnded, RetryAttempt, Unless, Forgotten, Continue, Trying,
         IInv, TypeOK, ProcTypeOK, lockVars, Closed
    <3>2. /\ jobs' = jobs \/ jobs[key[p]] \notin Terminal
          /\ \A j \in Job \ {key[p]} : jobs'[j] = jobs[j]
      BY <1>30 DEF Signal, RecordEnded, RetryAttempt, Unless, Forgotten, Continue, Trying,
         IInv, TypeOK, LockTypeOK, QueueTypeOK, StateFollowsPC, Terminal, Job
    <3>3. /\ pc'[p] \in {"leave", "close", "reply", "quiet", "commit", "failing"}
          /\ pc'[p] = "reply" => jobs'[key[p]] = "answered"
          /\ pc'[p] = "quiet" => jobs'[key[p]] \in {"pending", "cancelled", "answered"}
          /\ pc'[p] = "commit" => jobs'[key[p]] = "prepared"
          /\ pc'[p] = "failing" => error'[p] # "gate"
      BY <1>30 DEF Signal, RecordEnded, RetryAttempt, Unless, Forgotten, Continue, Trying,
         IInv, TypeOK, LockTypeOK, QueueTypeOK, ProcTypeOK, StateFollowsPC, Job
    <3>. QED
      BY <1>0, <3>1, <3>2, <3>3, OthersKeepState
  <2>5. FullBeforeStart'
    BY <1>0, <1>30 DEF Signal, IInv, FullBeforeStart, StateFollowsPC, Alone, TypeOK,
       LockTypeOK, ProcTypeOK, QueueTypeOK, Job, Closed, Terminal, RecordEnded,
       RetryAttempt, Unless, Forgotten, Continue, lockVars, Trying
  <2>6. SavedFollowsState'
    BY <1>30 DEF Signal, IInv, SavedFollowsState, StateFollowsPC, TypeOK, LockTypeOK,
       ProcTypeOK, QueueTypeOK, Job, Closed, Terminal, RecordEnded, RetryAttempt, Unless,
       Forgotten, Continue, lockVars, Trying
  <2>7. StartsFollowState'
    BY <1>0, <1>30, JobAssumption DEF Signal, IInv, StartsFollowState, HarnessBudget,
       StateFollowsPC, Alone, TypeOK, LockTypeOK, ProcTypeOK, QueueTypeOK, GhostTypeOK,
       Job, Closed, Terminal, RecordEnded, RetryAttempt, Unless, Forgotten, Continue,
       lockVars, Trying
  <2>8. CompleteIsRecorded'
    BY <1>30 DEF Signal, IInv, CompleteIsRecorded, SavedFollowsState, StateFollowsPC,
       TypeOK, LockTypeOK, ProcTypeOK, QueueTypeOK, Job, Closed, Terminal, RecordEnded,
       RetryAttempt, Unless, Forgotten, Continue, lockVars, Trying
  <2>9. UnlinkedIsFinished'
    BY <1>0, <1>30 DEF Signal, IInv, UnlinkedIsFinished, Unfinished, StateFollowsPC,
       TypeOK, LockTypeOK, ProcTypeOK, QueueTypeOK, Job, Closed, Terminal, RecordEnded,
       RetryAttempt, Unless, Forgotten, Continue, lockVars, Trying
  <2>10. OneHolder'
    BY <1>30 DEF Signal, IInv, OneHolder, RecordEnded, RetryAttempt, Unless, Forgotten,
       Continue, lockVars, Creating, Unfinished
  <2>. QED
    BY <2>1, <2>2, <2>3, <2>4, <2>5, <2>6, <2>7, <2>8, <2>9, <2>10 DEF IInv
<1>31. ASSUME NEW p \in Process, Interrupted(p) PROVE IInv'
  <2>1. LockFollowsPC'
    BY <1>31 DEF Interrupted, IInv, LockFollowsPC, TypeOK, LockTypeOK, ProcTypeOK,
       QueueTypeOK, Job, Closed, Terminal, Goto, RecordEnded, RetryAttempt, Unless,
       Forgotten, lockVars, ghostVars
  <2>2. SameFile'
    BY <1>0, <1>31 DEF Interrupted, IInv, SameFile, LockFollowsPC, AloneBeforeCreation,
       Creating, StateFollowsPC, UnlinkedIsFinished, Alone, Unfinished, TypeOK,
       LockTypeOK, ProcTypeOK, QueueTypeOK, Job, Closed, Terminal, Goto, RecordEnded,
       RetryAttempt, Unless, Forgotten, lockVars, ghostVars
  <2>3. AloneBeforeCreation'
    BY <1>0, <1>31 DEF Interrupted, IInv, AloneBeforeCreation, Creating, LockFollowsPC,
       StateFollowsPC, UnlinkedIsFinished, FullBeforeStart, TypeOK, LockTypeOK,
       ProcTypeOK, QueueTypeOK, Job, Closed, Terminal, Goto, RecordEnded, RetryAttempt,
       Unless, Forgotten, lockVars, ghostVars
  <2>4. StateFollowsPC'
    <3>1. /\ key' = key /\ record' = record
          /\ pc[p] \notin Closed \cup {"flock"}
          /\ \A q \in Process \ {p} :
                pc'[q] = pc[q] /\ seen'[q] = seen[q] /\ error'[q] = error[q]
      BY <1>31 DEF Interrupted, RecordEnded, RetryAttempt, Unless, Forgotten, Goto, IInv,
         TypeOK, ProcTypeOK, lockVars, Closed
    <3>2. /\ jobs' = jobs \/ jobs[key[p]] \notin Terminal
          /\ \A j \in Job \ {key[p]} : jobs'[j] = jobs[j]
      BY <1>31 DEF Interrupted, RecordEnded, RetryAttempt, Unless, Forgotten, Goto, IInv,
         TypeOK, LockTypeOK, QueueTypeOK, StateFollowsPC, Terminal, Job
    <3>3. /\ pc'[p] \in {"leave", "close", "reply", "quiet", "commit", "failing"}
          /\ pc'[p] = "reply" => jobs'[key[p]] = "answered"
          /\ pc'[p] = "quiet" => jobs'[key[p]] \in {"pending", "cancelled", "answered"}
          /\ pc'[p] = "commit" => jobs'[key[p]] = "prepared"
          /\ pc'[p] = "failing" => error'[p] # "gate"
      BY <1>31 DEF Interrupted, RecordEnded, RetryAttempt, Unless, Forgotten, Goto, IInv,
         TypeOK, LockTypeOK, QueueTypeOK, ProcTypeOK, StateFollowsPC, Job
    <3>. QED
      BY <1>0, <3>1, <3>2, <3>3, OthersKeepState
  <2>5. FullBeforeStart'
    BY <1>0, <1>31 DEF Interrupted, IInv, FullBeforeStart, StateFollowsPC, Alone, TypeOK,
       LockTypeOK, ProcTypeOK, QueueTypeOK, Job, Closed, Terminal, Goto, RecordEnded,
       RetryAttempt, Unless, Forgotten, lockVars, ghostVars
  <2>6. SavedFollowsState'
    BY <1>31 DEF Interrupted, IInv, SavedFollowsState, StateFollowsPC, TypeOK, LockTypeOK,
       ProcTypeOK, QueueTypeOK, Job, Closed, Terminal, Goto, RecordEnded, RetryAttempt,
       Unless, Forgotten, lockVars, ghostVars
  <2>7. StartsFollowState'
    BY <1>0, <1>31, JobAssumption DEF Interrupted, IInv, StartsFollowState, HarnessBudget,
       StateFollowsPC, Alone, TypeOK, LockTypeOK, ProcTypeOK, QueueTypeOK, GhostTypeOK,
       Job, Closed, Terminal, Goto, RecordEnded, RetryAttempt, Unless, Forgotten,
       lockVars, ghostVars
  <2>8. CompleteIsRecorded'
    BY <1>31 DEF Interrupted, IInv, CompleteIsRecorded, SavedFollowsState, StateFollowsPC,
       TypeOK, LockTypeOK, ProcTypeOK, QueueTypeOK, Job, Closed, Terminal, Goto,
       RecordEnded, RetryAttempt, Unless, Forgotten, lockVars, ghostVars
  <2>9. UnlinkedIsFinished'
    BY <1>0, <1>31 DEF Interrupted, IInv, UnlinkedIsFinished, Unfinished, StateFollowsPC,
       TypeOK, LockTypeOK, ProcTypeOK, QueueTypeOK, Job, Closed, Terminal, Goto,
       RecordEnded, RetryAttempt, Unless, Forgotten, lockVars, ghostVars
  <2>10. OneHolder'
    BY <1>31 DEF Interrupted, IInv, OneHolder, Goto, RecordEnded, RetryAttempt, Unless,
       Forgotten, lockVars, ghostVars, Creating, Unfinished
  <2>. QED
    BY <2>1, <2>2, <2>3, <2>4, <2>5, <2>6, <2>7, <2>8, <2>9, <2>10 DEF IInv
<1>32. ASSUME NEW p \in Process, ResolveJob(p) PROVE IInv'
  <2>1. LockFollowsPC'
    BY <1>32 DEF ResolveJob, IInv, LockFollowsPC, TypeOK, LockTypeOK, ProcTypeOK,
       QueueTypeOK, Job, Closed, Terminal, Goto, CancelJob, RetryJob, Forgotten,
       Resolvable, lockVars
  <2>2. SameFile'
    BY <1>0, <1>32 DEF ResolveJob, IInv, SameFile, LockFollowsPC, AloneBeforeCreation,
       Creating, StateFollowsPC, UnlinkedIsFinished, Alone, Unfinished, TypeOK,
       LockTypeOK, ProcTypeOK, QueueTypeOK, Job, Closed, Terminal, Goto, CancelJob,
       RetryJob, Forgotten, Resolvable, lockVars
  <2>3. AloneBeforeCreation'
    BY <1>0, <1>32 DEF ResolveJob, IInv, AloneBeforeCreation, Creating, LockFollowsPC,
       StateFollowsPC, UnlinkedIsFinished, FullBeforeStart, TypeOK, LockTypeOK,
       ProcTypeOK, QueueTypeOK, Job, Closed, Terminal, Goto, CancelJob, RetryJob,
       Forgotten, Resolvable, lockVars
  <2>4. StateFollowsPC'
    BY <1>0, <1>32 DEF ResolveJob, IInv, StateFollowsPC, FullBeforeStart,
       SavedFollowsState, LockFollowsPC, Alone, Runnable, AloneBeforeCreation, Creating,
       TypeOK, LockTypeOK, ProcTypeOK, QueueTypeOK, Job, Closed, Terminal, Goto,
       CancelJob, RetryJob, Forgotten, Resolvable, lockVars
  <2>5. FullBeforeStart'
    BY <1>0, <1>32 DEF ResolveJob, IInv, FullBeforeStart, SavedFollowsState, TypeOK,
       LockTypeOK, ProcTypeOK, QueueTypeOK, Job, Closed, Terminal, Goto, CancelJob,
       RetryJob, Forgotten, Resolvable, lockVars
  <2>6. SavedFollowsState'
    BY <1>32 DEF ResolveJob, IInv, SavedFollowsState, StateFollowsPC, TypeOK, LockTypeOK,
       ProcTypeOK, QueueTypeOK, Job, Closed, Terminal, Goto, CancelJob, RetryJob,
       Forgotten, Resolvable, lockVars
  <2>7. StartsFollowState'
    <3>1. \A j \in Job : starts[j] \in Nat /\ retries[j] \in Nat
      BY JobAssumption DEF IInv, TypeOK, GhostTypeOK
    <3>2. key[p] \in Job
      BY DEF IInv, TypeOK, LockTypeOK, Job
    <3>3. \/ retries' = retries /\ (jobs' = jobs \/ jobs' = [jobs EXCEPT ![key[p]] = "cancelled"])
          \/ /\ retries' = [retries EXCEPT ![key[p]] = @ + 1]
             /\ \A j \in Job \ {key[p]} : jobs'[j] = jobs[j]
      BY <1>32 DEF ResolveJob, CancelJob, RetryJob, IInv, TypeOK, QueueTypeOK
    <3>4. HarnessBudget'
      BY <1>32, <3>1, <3>2, <3>3 DEF ResolveJob, HarnessBudget, IInv, StartsFollowState,
         TypeOK, GhostTypeOK
    <3>5. \A j \in Job \ Repeatable : jobs'[j] \in {"absent", "pending"} => starts'[j] <=
          retries'[j]
      BY <1>32, <3>1, <3>2, <3>3 DEF ResolveJob, HarnessBudget, IInv, StartsFollowState,
         TypeOK,
         GhostTypeOK, QueueTypeOK
    <3>6. \A q \in Process : pc'[q] = "launch" /\ key[q] \notin Repeatable
                            => starts'[key[q]] <= retries'[key[q]]
      BY <1>32, <3>1, <3>2, <3>3 DEF ResolveJob, Goto, IInv, StartsFollowState, TypeOK,
         GhostTypeOK, ProcTypeOK, LockTypeOK, Job
    <3>. QED
      BY <1>32, <3>4, <3>5, <3>6 DEF ResolveJob, StartsFollowState, lockVars
  <2>8. CompleteIsRecorded'
    BY <1>32 DEF ResolveJob, IInv, CompleteIsRecorded, SavedFollowsState, StateFollowsPC,
       TypeOK, LockTypeOK, ProcTypeOK, QueueTypeOK, Job, Closed, Terminal, Goto,
       CancelJob, RetryJob, Forgotten, Resolvable, lockVars
  <2>9. UnlinkedIsFinished'
    BY <1>0, <1>32 DEF ResolveJob, IInv, UnlinkedIsFinished, AloneBeforeCreation,
       Creating, StateFollowsPC, FullBeforeStart, Unfinished, Alone, TypeOK, LockTypeOK,
       ProcTypeOK, QueueTypeOK, Job, Closed, Terminal, Goto, CancelJob, RetryJob,
       Forgotten, Resolvable, lockVars
  <2>10. OneHolder'
    BY <1>32 DEF ResolveJob, IInv, OneHolder, Goto, CancelJob, RetryJob, Forgotten,
       Resolvable, lockVars, Creating, Unfinished
  <2>. QED
    BY <2>1, <2>2, <2>3, <2>4, <2>5, <2>6, <2>7, <2>8, <2>9, <2>10 DEF IInv
<1>33. ASSUME NEW p \in Process, Withdraw(p) PROVE IInv'
  <2>1. LockFollowsPC'
    BY <1>33 DEF Withdraw, IInv, LockFollowsPC, TypeOK, LockTypeOK, ProcTypeOK,
       QueueTypeOK, Job, Closed, Terminal, Goto, CancelJob, Forgotten, Resolvable,
       lockVars
  <2>2. SameFile'
    BY <1>0, <1>33 DEF Withdraw, IInv, SameFile, LockFollowsPC, AloneBeforeCreation,
       Creating, StateFollowsPC, UnlinkedIsFinished, Alone, Unfinished, TypeOK,
       LockTypeOK, ProcTypeOK, QueueTypeOK, Job, Closed, Terminal, Goto, CancelJob,
       Forgotten, Resolvable, lockVars
  <2>3. AloneBeforeCreation'
    BY <1>0, <1>33 DEF Withdraw, IInv, AloneBeforeCreation, Creating, LockFollowsPC,
       StateFollowsPC, UnlinkedIsFinished, FullBeforeStart, TypeOK, LockTypeOK,
       ProcTypeOK, QueueTypeOK, Job, Closed, Terminal, Goto, CancelJob, Forgotten,
       Resolvable, lockVars
  <2>4. StateFollowsPC'
    BY <1>0, <1>33 DEF Withdraw, IInv, StateFollowsPC, FullBeforeStart, SavedFollowsState,
       LockFollowsPC, Alone, Runnable, AloneBeforeCreation, Creating, TypeOK, LockTypeOK,
       ProcTypeOK, QueueTypeOK, Job, Closed, Terminal, Goto, CancelJob, Forgotten,
       Resolvable, lockVars
  <2>5. FullBeforeStart'
    BY <1>0, <1>33 DEF Withdraw, IInv, FullBeforeStart, StateFollowsPC, Alone, TypeOK,
       LockTypeOK, ProcTypeOK, QueueTypeOK, Job, Closed, Terminal, Goto, CancelJob,
       Forgotten, Resolvable, lockVars
  <2>6. SavedFollowsState'
    BY <1>33 DEF Withdraw, IInv, SavedFollowsState, StateFollowsPC, TypeOK, LockTypeOK,
       ProcTypeOK, QueueTypeOK, Job, Closed, Terminal, Goto, CancelJob, Forgotten,
       Resolvable, lockVars
  <2>7. StartsFollowState'
    BY <1>0, <1>33, JobAssumption DEF Withdraw, IInv, StartsFollowState, HarnessBudget,
       StateFollowsPC, Alone, TypeOK, LockTypeOK, ProcTypeOK, QueueTypeOK, GhostTypeOK,
       Job, Closed, Terminal, Goto, CancelJob, Forgotten, Resolvable, lockVars
  <2>8. CompleteIsRecorded'
    BY <1>33 DEF Withdraw, IInv, CompleteIsRecorded, SavedFollowsState, StateFollowsPC,
       TypeOK, LockTypeOK, ProcTypeOK, QueueTypeOK, Job, Closed, Terminal, Goto,
       CancelJob, Forgotten, Resolvable, lockVars
  <2>9. UnlinkedIsFinished'
    BY <1>0, <1>33 DEF Withdraw, IInv, UnlinkedIsFinished, AloneBeforeCreation, Creating,
       StateFollowsPC, FullBeforeStart, Unfinished, Alone, TypeOK, LockTypeOK, ProcTypeOK,
       QueueTypeOK, Job, Closed, Terminal, Goto, CancelJob, Forgotten, Resolvable,
       lockVars
  <2>10. OneHolder'
    BY <1>33 DEF Withdraw, IInv, OneHolder, Goto, CancelJob, Forgotten, Resolvable,
       lockVars, Creating, Unfinished
  <2>. QED
    BY <2>1, <2>2, <2>3, <2>4, <2>5, <2>6, <2>7, <2>8, <2>9, <2>10 DEF IInv
<1>34. ASSUME NEW p \in Process, Unlink(p) PROVE IInv'
  <2>1. LockFollowsPC'
    BY <1>34, InodeAssumption DEF Unlink, IInv, LockFollowsPC, TypeOK, LockTypeOK,
       ProcTypeOK, QueueTypeOK, Job, Closed, Terminal, Goto, UnlinkLock, queueVars,
       ghostVars
  <2>2. SameFile'
    BY <1>0, <1>34, InodeAssumption DEF Unlink, IInv, SameFile, LockFollowsPC,
       AloneBeforeCreation, Creating, StateFollowsPC, UnlinkedIsFinished, Alone,
       Unfinished, TypeOK, LockTypeOK, ProcTypeOK, QueueTypeOK, Job, Closed, Terminal,
       Goto, UnlinkLock, queueVars, ghostVars
  <2>3. AloneBeforeCreation'
    BY <1>0, <1>34, InodeAssumption DEF Unlink, IInv, AloneBeforeCreation, Creating,
       LockFollowsPC, StateFollowsPC, UnlinkedIsFinished, FullBeforeStart, TypeOK,
       LockTypeOK, ProcTypeOK, QueueTypeOK, Job, Closed, Terminal, Goto, UnlinkLock,
       queueVars, ghostVars
  <2>4. StateFollowsPC'
    BY <1>0, <1>34, InodeAssumption DEF Unlink, IInv, StateFollowsPC, Runnable, TypeOK,
       LockTypeOK, ProcTypeOK, QueueTypeOK, Job, Closed, Terminal, Goto, UnlinkLock,
       queueVars, ghostVars
  <2>5. FullBeforeStart'
    BY <1>0, <1>34, InodeAssumption DEF Unlink, IInv, FullBeforeStart, TypeOK, LockTypeOK,
       ProcTypeOK, QueueTypeOK, Job, Closed, Terminal, Goto, UnlinkLock, queueVars,
       ghostVars
  <2>6. StartsFollowState'
    BY <1>0, <1>34, JobAssumption, InodeAssumption DEF Unlink, IInv, StartsFollowState,
       HarnessBudget, StateFollowsPC, Alone, TypeOK, LockTypeOK, ProcTypeOK, QueueTypeOK,
       GhostTypeOK, Job, Closed, Terminal, Goto, UnlinkLock, queueVars, ghostVars
  <2>7. UnlinkedIsFinished'
    BY <1>0, <1>34, InodeAssumption DEF Unlink, IInv, UnlinkedIsFinished,
       AloneBeforeCreation, Creating, StateFollowsPC, FullBeforeStart, Unfinished, Alone,
       TypeOK, LockTypeOK, ProcTypeOK, QueueTypeOK, Job, Closed, Terminal, Goto,
       UnlinkLock, queueVars, ghostVars
  <2>8. OneHolder' /\ SavedFollowsState' /\ CompleteIsRecorded'
    BY <1>34 DEF Unlink, IInv, OneHolder, SavedFollowsState, CompleteIsRecorded, Goto,
       UnlinkLock, queueVars, ghostVars, Creating, Unfinished
  <2>. QED
    BY <2>1, <2>2, <2>3, <2>4, <2>5, <2>6, <2>7, <2>8 DEF IInv
<1>. QED
  BY <1>1, <1>2, <1>3, <1>4, <1>5, <1>6, <1>7, <1>8, <1>9, <1>10, <1>11, <1>12, <1>13,
     <1>14, <1>15, <1>16, <1>17, <1>18, <1>19, <1>20, <1>21, <1>22, <1>23, <1>24, <1>25,
     <1>26, <1>27, <1>28, <1>29, <1>30, <1>31, <1>32, <1>33, <1>34 DEF Next, Call

-----------------------------------------------------------------------------
(* Theorems.                                                               *)

\* The program starts well typed.
LEMMA TypeInit == Init => TypeOK
<1>. SUFFICES ASSUME Init PROVE TypeOK
  OBVIOUS
<1>1. 0 \in 0..(MaxAttempts - 1) /\ 0 \in 0..MaxRetries /\ 0 \in 0..MaxKills
  BY JobAssumption
<1>2. LockTypeOK
  BY DEF Init, LockInit, LockTypeOK
<1>3. QueueTypeOK
  BY <1>1 DEF Init, QueueTypeOK, JobState, Job
<1>4. ProcTypeOK
  BY DEF Init, ProcTypeOK, PC, Task, JobState, Failure
<1>. QED
  BY <1>1, <1>2, <1>3, <1>4 DEF Init, TypeOK, GhostTypeOK, Job

\* Every state of the queue and of the processes has its type: the states that
\* the schema's CHECKs and execute's branches allow, and no others.
THEOREM TypeCorrect == Spec => []TypeOK
<1>1. Init => TypeOK
  BY TypeInit
<1>2. TypeOK /\ [Next]_vars => TypeOK'
  BY TypeNext
<1>. QED
  BY <1>1, <1>2, PTL DEF Spec

\* The inductive invariant holds when the program starts.
LEMMA InvInit == Init => IInv
<1>. SUFFICES ASSUME Init PROVE IInv
  OBVIOUS
<1>1. TypeOK
  BY TypeInit
<1>2. LockFollowsPC /\ OneHolder /\ SameFile
  BY <1>1 DEF Init, LockInit, LockFollowsPC, OneHolder, SameFile, Closed, TypeOK,
     LockTypeOK
<1>3. AloneBeforeCreation /\ StateFollowsPC /\ FullBeforeStart /\ UnlinkedIsFinished
  BY <1>1 DEF Init, AloneBeforeCreation, Creating, StateFollowsPC, FullBeforeStart,
     UnlinkedIsFinished, TypeOK, ProcTypeOK
<1>4. SavedFollowsState /\ CompleteIsRecorded
  BY DEF Init, SavedFollowsState, CompleteIsRecorded
<1>5. StartsFollowState
  <2>1. \A j \in Job : starts[j] = 0 /\ retries[j] = 0
    BY DEF Init
  <2>. QED
    BY <2>1 DEF Init, StartsFollowState, HarnessBudget
<1>. QED
  BY <1>1, <1>2, <1>3, <1>4, <1>5 DEF IInv

\* The inductive invariant survives a step or a stutter.
LEMMA InvStep == ASSUME ~CancelMayFail PROVE IInv /\ [Next]_vars => IInv'
<1>. SUFFICES ASSUME IInv, [Next]_vars PROVE IInv'
  OBVIOUS
<1>1. TypeOK'
  BY TypeNext DEF IInv
<1>2. CASE Next
  BY <1>1, <1>2, InvNext
<1>3. CASE UNCHANGED vars
  BY <1>1, <1>3 DEF vars, lockVars, queueVars, procVars, ghostVars, IInv, LockFollowsPC,
     OneHolder, SameFile, Unfinished, AloneBeforeCreation, Creating, StateFollowsPC,
     FullBeforeStart, SavedFollowsState, StartsFollowState, HarnessBudget,
     CompleteIsRecorded, UnlinkedIsFinished
<1>. QED
  BY <1>2, <1>3

\* The inductive invariant: locks, queue and program counters agree in every
\* reachable state, as long as SQLite refuses no cancellation of bf run, which the
\* theorems below assume as well.
THEOREM Invariance == ~CancelMayFail => (Spec => []IInv)
<1>. SUFFICES ASSUME ~CancelMayFail PROVE Spec => []IInv
  OBVIOUS
<1>1. Init => IInv
  BY InvInit
<1>2. IInv /\ [Next]_vars => IInv'
  BY InvStep
<1>. QED
  BY <1>1, <1>2, PTL DEF Spec

\* However many processes execute, recover, retry and cancel jobs, and wherever
\* they die: an attempt that lives owns its job in the queue.
THEOREM AttemptOwnsJob == ~CancelMayFail => (Spec => []LiveAttemptOwnsJob)
<1>1. IInv => LiveAttemptOwnsJob
  BY DEF IInv, StateFollowsPC, LiveAttemptOwnsJob, Live
<1>. QED
  BY <1>1, Invariance, PTL

\* No two processes attempt one job, although its lock file's name may lead to
\* another inode than the one a process waits for.
THEOREM ExclusiveAttempt == ~CancelMayFail => (Spec => []OneAttempt)
<1>1. IInv => OneAttempt
  <2>. SUFFICES ASSUME IInv, NEW p \in Process, NEW q \in Process,
                       pc[p] \in Live, pc[q] \in Live, key[p] = key[q]
                PROVE  p = q
    BY DEF OneAttempt
  <2>1. jobs[key[p]] \notin Terminal
    BY DEF IInv, StateFollowsPC, Live, Terminal
  <2>. QED
    BY <2>1, AloneAtWork DEF Alone, Live, Closed
<1>. QED
  BY <1>1, Invariance, PTL

\* A harness that is not idempotent starts at most once for each time the owner
\* asked for it.
THEOREM BudgetKept == ~CancelMayFail => (Spec => []HarnessBudget)
<1>1. IInv => HarnessBudget
  BY DEF IInv, StartsFollowState
<1>. QED
  BY <1>1, Invariance, PTL

\* A job that completes with a saved reply has its record in memories/.
THEOREM RecordedBeforeComplete == ~CancelMayFail => (Spec => []CompleteIsRecorded)
<1>1. IInv => CompleteIsRecorded
  BY DEF IInv
<1>. QED
  BY <1>1, Invariance, PTL

\* No single step takes a job out of a terminal state.
LEMMA FinishedStep ==
    ASSUME IInv, Next, NEW j \in Job
    PROVE  jobs[j] \in Terminal => jobs'[j] = jobs[j]
<1>1. ASSUME NEW i \in Job, Admit(i) PROVE jobs[j] \in Terminal => jobs'[j] = jobs[j]
  BY <1>1 DEF Admit, IInv, StateFollowsPC, AloneBeforeCreation, Creating, Terminal,
     TypeOK, QueueTypeOK, Admitted
<1>2. ASSUME NEW i \in Job, EchoCancel(i) PROVE jobs[j] \in Terminal => jobs'[j] = jobs[j]
  BY <1>2 DEF EchoCancel, IInv, StateFollowsPC, AloneBeforeCreation, Creating, Terminal,
     TypeOK, QueueTypeOK
<1>3. ASSUME NEW p \in Process, Enqueue(p) PROVE jobs[j] \in Terminal => jobs'[j] = jobs[j]
  BY <1>3 DEF Enqueue, IInv, StateFollowsPC, AloneBeforeCreation, Creating, Terminal,
     TypeOK, QueueTypeOK, Admitted, Continue
<1>4. ASSUME NEW p \in Process, Claim(p) PROVE jobs[j] \in Terminal => jobs'[j] = jobs[j]
  BY <1>4 DEF Claim, IInv, StateFollowsPC, AloneBeforeCreation, Creating, Terminal,
     TypeOK, QueueTypeOK, Continue, Raise
<1>5. ASSUME NEW p \in Process, Save(p) PROVE jobs[j] \in Terminal => jobs'[j] = jobs[j]
  BY <1>5 DEF Save, IInv, StateFollowsPC, AloneBeforeCreation, Creating, Terminal, TypeOK,
     QueueTypeOK, Continue, Raise
<1>6. ASSUME NEW p \in Process, Reply(p) PROVE jobs[j] \in Terminal => jobs'[j] = jobs[j]
  BY <1>6 DEF Reply, IInv, StateFollowsPC, AloneBeforeCreation, Creating, Terminal,
     TypeOK, QueueTypeOK, Prepare, Continue, Raise
<1>7. ASSUME NEW p \in Process, Quiet(p) PROVE jobs[j] \in Terminal => jobs'[j] = jobs[j]
  BY <1>7 DEF Quiet, IInv, StateFollowsPC, AloneBeforeCreation, Creating, Terminal,
     TypeOK, QueueTypeOK, FinishJob, Forgotten, Continue, Raise
<1>8. ASSUME NEW p \in Process, Finish(p) PROVE jobs[j] \in Terminal => jobs'[j] = jobs[j]
  BY <1>8 DEF Finish, IInv, StateFollowsPC, AloneBeforeCreation, Creating, Terminal,
     TypeOK, QueueTypeOK, FinishJob, Forgotten, Continue, Raise
<1>9. ASSUME NEW p \in Process, Fail(p) PROVE jobs[j] \in Terminal => jobs'[j] = jobs[j]
  BY <1>9 DEF Fail, IInv, StateFollowsPC, AloneBeforeCreation, Creating, Terminal, TypeOK,
     QueueTypeOK, Goto, RetryAttempt, Unless, Forgotten
<1>10. ASSUME NEW p \in Process, Signal(p) PROVE jobs[j] \in Terminal => jobs'[j] = jobs[j]
  BY <1>10 DEF Signal, IInv, StateFollowsPC, AloneBeforeCreation, Creating, Terminal,
     TypeOK, QueueTypeOK, RecordEnded, RetryAttempt, Unless, Forgotten, Continue, Trying
<1>11. ASSUME NEW p \in Process, Interrupted(p) PROVE jobs[j] \in Terminal => jobs'[j] = jobs[j]
  BY <1>11 DEF Interrupted, IInv, StateFollowsPC, AloneBeforeCreation, Creating, Terminal,
     TypeOK, QueueTypeOK, Goto, RecordEnded, RetryAttempt, Unless, Forgotten
<1>12. ASSUME NEW p \in Process, ResolveJob(p) PROVE jobs[j] \in Terminal => jobs'[j] = jobs[j]
  BY <1>12 DEF ResolveJob, IInv, StateFollowsPC, AloneBeforeCreation, Creating, Terminal,
     TypeOK, QueueTypeOK, Goto, CancelJob, RetryJob, Forgotten, Resolvable
<1>13. ASSUME NEW p \in Process, Withdraw(p) PROVE jobs[j] \in Terminal => jobs'[j] = jobs[j]
  BY <1>13 DEF Withdraw, IInv, StateFollowsPC, AloneBeforeCreation, Creating, Terminal,
     TypeOK, QueueTypeOK, Goto, CancelJob, Forgotten, Resolvable
<1>14. ASSUME NEW p \in Process,
            Open(p) \/ Flock(p) \/ FlockBusy(p) \/ Close(p) \/ Leave(p) \/ Kill(p) \/
               Read(p) \/ Current(p) \/ Gate(p) \/ SaveGate(p) \/ Launch(p) \/
               HarnessEnds(p) \/ Commit(p) \/ Failing(p) \/ Unlink(p)
     PROVE  jobs' = jobs
  BY <1>14 DEF Open, Flock, FlockBusy, Close, Leave, Kill, Read, Current, Gate, SaveGate,
     Launch, HarnessEnds, Commit, Failing, Unlink, queueVars, ghostVars, procVars
<1>15. ASSUME NEW p \in Process, NEW i \in Job,
            Pick(p, i) \/ Run(p, i) \/ Recover(p, i) \/ Resolve(p, i)
     PROVE  jobs' = jobs
  BY <1>15 DEF Pick, Run, Recover, Resolve, queueVars, ghostVars, procVars
<1>16. ASSUME NEW i \in Job,
            SettleDelivery(i) \/ BackoffElapses(i)
     PROVE  jobs' = jobs
  BY <1>16 DEF SettleDelivery, BackoffElapses, queueVars, ghostVars, procVars
<1>. QED
  BY <1>1, <1>2, <1>3, <1>4, <1>5, <1>6, <1>7, <1>8, <1>9, <1>10, <1>11, <1>12, <1>13,
     <1>14, <1>15, <1>16 DEF Next, Call

\* Complete and cancelled are final: no overwrite, stale failure, retry or
\* recovery brings a finished job back.
THEOREM FinishedForGood == ~CancelMayFail => (Spec => FinishedStays)
<1>. SUFFICES ASSUME ~CancelMayFail PROVE Spec => FinishedStays
  OBVIOUS
<1>1. IInv /\ [Next]_vars => [\A j \in Job : jobs[j] \in Terminal => jobs'[j] = jobs[j]]_vars
  BY FinishedStep
<1>. QED
  BY <1>1, Invariance, PTL DEF Spec, FinishedStays

\* No single step starts a job whose answer is saved, or drops the answer.
LEMMA AnswerStep ==
    ASSUME IInv, Next, NEW j \in Job
    PROVE  saved[j] # "none" => starts'[j] = starts[j] /\ saved'[j] # "none"
<1>1. ASSUME NEW p \in Process, Launch(p)
           PROVE saved[j] # "none" => starts'[j] = starts[j] /\ saved'[j] # "none"
  BY <1>1 DEF Launch, IInv, StateFollowsPC, SavedFollowsState, TypeOK, LockTypeOK,
     QueueTypeOK, GhostTypeOK, Job, Continue, Raise, queueVars, ghostVars
<1>2. ASSUME NEW p \in Process, Save(p)
           PROVE saved[j] # "none" => starts'[j] = starts[j] /\ saved'[j] # "none"
  BY <1>2 DEF Save, IInv, StateFollowsPC, SavedFollowsState, TypeOK, LockTypeOK,
     QueueTypeOK, GhostTypeOK, Job, Continue, Raise, ghostVars
<1>3. ASSUME NEW p \in Process, Reply(p)
           PROVE saved[j] # "none" => starts'[j] = starts[j] /\ saved'[j] # "none"
  BY <1>3 DEF Reply, IInv, StateFollowsPC, SavedFollowsState, TypeOK, LockTypeOK,
     QueueTypeOK, GhostTypeOK, Job, Prepare, Continue, Raise, ghostVars
<1>4. ASSUME NEW p \in Process,
            Open(p) \/ Flock(p) \/ FlockBusy(p) \/ Close(p) \/ Leave(p) \/ Kill(p) \/
               Enqueue(p) \/ Read(p) \/ Current(p) \/ Gate(p) \/ SaveGate(p) \/ Claim(p)
               \/ HarnessEnds(p) \/ Quiet(p) \/ Commit(p) \/ Finish(p) \/ Failing(p) \/
               Fail(p) \/ Signal(p) \/ Interrupted(p) \/ ResolveJob(p) \/ Withdraw(p) \/
               Unlink(p)
     PROVE  saved' = saved /\ starts' = starts
  BY <1>4 DEF Open, Flock, FlockBusy, Close, Leave, Kill, Enqueue, Read, Current, Gate,
     SaveGate, Claim, HarnessEnds, Quiet, Commit, Finish, Failing, Fail, Signal,
     Interrupted, ResolveJob, Withdraw, Unlink, queueVars, ghostVars, procVars
<1>5. ASSUME NEW p \in Process, NEW i \in Job,
            Pick(p, i) \/ Run(p, i) \/ Recover(p, i) \/ Resolve(p, i)
     PROVE  saved' = saved /\ starts' = starts
  BY <1>5 DEF Pick, Run, Recover, Resolve, queueVars, ghostVars, procVars
<1>6. ASSUME NEW i \in Job,
            Admit(i) \/ EchoCancel(i) \/ SettleDelivery(i) \/ BackoffElapses(i)
     PROVE  saved' = saved /\ starts' = starts
  BY <1>6 DEF Admit, EchoCancel, SettleDelivery, BackoffElapses, queueVars, ghostVars,
     procVars
<1>. QED
  BY <1>1, <1>2, <1>3, <1>4, <1>5, <1>6 DEF Next, Call

\* A saved answer is never lost, and never invokes the harness again.
THEOREM AnswerForGood == ~CancelMayFail => (Spec => AnswerIsKept)
<1>. SUFFICES ASSUME ~CancelMayFail PROVE Spec => AnswerIsKept
  OBVIOUS
<1>1. IInv /\ [Next]_vars =>
        [\A j \in Job : saved[j] # "none" => starts'[j] = starts[j] /\ saved'[j] # "none"]_vars
  BY AnswerStep
<1>. QED
  BY <1>1, Invariance, PTL DEF Spec, AnswerIsKept

-----------------------------------------------------------------------------
(* The order of a slot.                                                    *)

\* A worker's job has nothing unfinished before it, from the moment the queue
\* offered it; bf run has a slot of its own; nobody else runs a harness.
SlotInv ==
    /\ \A p \in Process : task[p] = "execute" /\ pc[p] # "idle" =>
          \A e \in earlier[key[p]] : jobs[e] \in Terminal
    /\ \A j \in Manual : earlier[j] = {}
    /\ \A p \in Process : pc[p] \in Trying \cup {"read"} => task[p] \in {"execute", "manual"}

Ordered(j) == \A e \in earlier[j] : jobs[e] \in Terminal

Workers(p) ==
    \/ Open(p) \/ Flock(p) \/ Leave(p) \/ Enqueue(p) \/ Read(p) \/ Current(p) \/ Gate(p)
    \/ SaveGate(p) \/ Claim(p) \/ Launch(p) \/ HarnessEnds(p) \/ Save(p) \/ Reply(p)
    \/ Quiet(p) \/ Commit(p) \/ Finish(p) \/ Failing(p) \/ Fail(p) \/ Interrupted(p)
    \/ Withdraw(p) \/ Unlink(p) \/ Signal(p)

\* The jobs before a job are those of its slot at its admission.
LEMMA EarlierStep ==
    ASSUME IInv, Next, NEW j \in Job
    PROVE  \/ earlier'[j] = earlier[j]
           \/ /\ jobs[j] = "absent"
              /\ earlier'[j] = {e \in Job : jobs[e] # "absent" /\ Slot[e] = Slot[j]}
<1>1. ASSUME NEW i \in Job, Admit(i)
      PROVE  jobs[i] = "absent" /\ Admitted(i)
  BY <1>1 DEF Admit
<1>2. ASSUME NEW p \in Process, Enqueue(p)
      PROVE  earlier' = earlier \/ (key[p] \in Job /\ jobs[key[p]] = "absent" /\ Admitted(key[p]))
  BY <1>2 DEF Enqueue, IInv, AloneBeforeCreation, Creating, TypeOK, LockTypeOK, Job
<1>3. ASSUME NEW p \in Process, Call(p) \/ Kill(p) \/ Signal(p), ~Enqueue(p)
      PROVE  earlier' = earlier
  BY <1>3 DEF Call, Open, Flock, FlockBusy, Close, Leave, Kill, Read, Current, Gate,
     SaveGate, Claim, Launch, HarnessEnds, Save, Reply, Quiet, Commit, Finish, Failing,
     Fail, Signal, Interrupted, ResolveJob, Withdraw, Unlink, queueVars
<1>4. ASSUME NEW p \in Process, NEW i \in Job,
             Pick(p, i) \/ Run(p, i) \/ Recover(p, i) \/ Resolve(p, i)
      PROVE  earlier' = earlier
  BY <1>4 DEF Pick, Run, Recover, Resolve, queueVars
<1>5. ASSUME NEW i \in Job, EchoCancel(i) \/ SettleDelivery(i) \/ BackoffElapses(i)
      PROVE  earlier' = earlier
  BY <1>5 DEF EchoCancel, SettleDelivery, BackoffElapses
<1>6. ASSUME NEW i \in Job, jobs[i] = "absent", Admitted(i)
      PROVE  \/ earlier'[j] = earlier[j]
             \/ /\ jobs[j] = "absent"
                /\ earlier'[j] = {e \in Job : jobs[e] # "absent" /\ Slot[e] = Slot[j]}
  BY <1>6 DEF Admitted, IInv, TypeOK, QueueTypeOK
<1>. QED
  BY <1>1, <1>2, <1>3, <1>4, <1>5, <1>6 DEF Next

\* A worker goes on with the job the queue offered it, or starts one that the
\* queue offers now.
LEMMA WorkerStep ==
    ASSUME IInv, Next, NEW p \in Process, task'[p] = "execute", pc'[p] # "idle"
    PROVE  \/ task[p] = "execute" /\ pc[p] # "idle" /\ key'[p] = key[p]
           \/ jobs[key'[p]] # "absent" /\ Ordered(key'[p])
<1>1. ASSUME NEW q \in Process, Workers(q)
      PROVE  task' = task /\ key' = key /\ pc[q] # "idle" /\ \A r \in Process \ {q} : pc'[r] = pc[r]
  BY <1>1 DEF Workers, Open, Flock, Leave, Enqueue, Read, Current, Gate, SaveGate, Claim,
     Launch, HarnessEnds, Save, Reply, Quiet, Commit, Finish, Failing, Fail, Interrupted,
     Withdraw, Unlink, Signal, Goto, Continue, Raise, Prepare, Trying, IInv, TypeOK,
     ProcTypeOK, lockVars, OpenLock, TakeLock, UnlinkLock, RecordEnded
<1>2. ASSUME NEW q \in Process, FlockBusy(q) \/ Close(q) \/ Kill(q) \/ ResolveJob(q)
      PROVE  /\ key' = key /\ pc[q] # "idle"
             /\ \A r \in Process \ {q} : pc'[r] = pc[r] /\ task'[r] = task[r]
             /\ pc'[q] = "idle" \/ task'[q] # "execute"
  BY <1>2 DEF FlockBusy, Close, Kill, ResolveJob, Goto, AfterClose, Ended, CloseLock,
     IInv,
     TypeOK, ProcTypeOK, lockVars, Task
<1>3. ASSUME NEW q \in Process, NEW i \in Job, Run(q, i) \/ Recover(q, i) \/ Resolve(q, i)
      PROVE  /\ \A r \in Process \ {q} : pc'[r] = pc[r] /\ task'[r] = task[r] /\ key'[r] = key[r]
             /\ task'[q] # "execute"
  BY <1>3 DEF Run, Recover, Resolve, Begin, Goto, IInv, TypeOK, LockTypeOK, ProcTypeOK
<1>4. ASSUME NEW q \in Process, NEW i \in Job, Pick(q, i)
      PROVE  /\ \A r \in Process \ {q} : pc'[r] = pc[r] /\ task'[r] = task[r] /\ key'[r] = key[r]
             /\ key'[q] = i /\ jobs[i] # "absent" /\ Ordered(i)
  BY <1>4 DEF Pick, Next_, Runnable, Unblocked, Ordered, Begin, Goto, IInv, TypeOK,
     LockTypeOK, ProcTypeOK
<1>5. ASSUME NEW i \in Job, Admit(i) \/ EchoCancel(i) \/ SettleDelivery(i) \/ BackoffElapses(i)
      PROVE  pc' = pc /\ task' = task /\ key' = key
  BY <1>5 DEF Admit, EchoCancel, SettleDelivery, BackoffElapses, procVars, lockVars
<1>6. CASE \E q \in Process : Workers(q)
  BY <1>1, <1>6
<1>7. CASE \E q \in Process : FlockBusy(q) \/ Close(q) \/ Kill(q) \/ ResolveJob(q)
  BY <1>2, <1>7
<1>8. CASE \E q \in Process, i \in Job : Run(q, i) \/ Recover(q, i) \/ Resolve(q, i)
  BY <1>3, <1>8
<1>9. CASE \E q \in Process, i \in Job : Pick(q, i)
  BY <1>4, <1>9
<1>10. CASE \E i \in Job : Admit(i) \/ EchoCancel(i) \/ SettleDelivery(i) \/ BackoffElapses(i)
  BY <1>5, <1>10
<1>. QED
  BY <1>6, <1>7, <1>8, <1>9, <1>10 DEF Next, Call, Workers

\* Only a worker and bf run enter the attempt.
LEMMA TryingStep ==
    ASSUME IInv, Next, SlotInv, NEW p \in Process, pc'[p] \in Trying \cup {"read"}
    PROVE  task'[p] \in {"execute", "manual"}
<1>1. ASSUME NEW q \in Process, q # p, Call(q) \/ Kill(q) \/ Signal(q)
      PROVE  pc'[p] = pc[p] /\ task'[p] = task[p]
  <2>1. CASE Workers(q)
    BY <1>1, <2>1 DEF Workers, Open, Flock, Leave, Enqueue, Read, Current, Gate, SaveGate,
       Claim, Launch, HarnessEnds, Save, Reply, Quiet, Commit, Finish, Failing, Fail,
       Interrupted, Withdraw, Unlink, Signal, Goto, Continue, Raise, Prepare, IInv, TypeOK,
       ProcTypeOK
  <2>2. CASE FlockBusy(q) \/ Close(q) \/ Kill(q) \/ ResolveJob(q)
    BY <1>1, <2>2 DEF FlockBusy, Close, Kill, ResolveJob, Goto, IInv, TypeOK, ProcTypeOK
  <2>. QED
    BY <1>1, <2>1, <2>2 DEF Call, Workers
<1>2. CASE Open(p) \/ Leave(p) \/ Interrupted(p) \/ Withdraw(p) \/ Unlink(p)
  BY <1>2 DEF Open, Leave, Interrupted, Withdraw, Unlink, Goto, Trying, IInv, TypeOK,
     ProcTypeOK
<1>3. CASE FlockBusy(p) \/ Close(p) \/ Kill(p) \/ ResolveJob(p)
  BY <1>3 DEF FlockBusy, Close, Kill, ResolveJob, AfterClose, Goto, Trying, IInv, TypeOK,
     ProcTypeOK
<1>4. CASE Flock(p)
  <2>1. task' = task /\ task[p] \in Task /\ AfterLock(task[p]) \in Trying \cup {"read"}
    BY <1>4 DEF Flock, Goto, IInv, TypeOK, ProcTypeOK
  <2>. QED
    BY <2>1 DEF AfterLock, Task, Trying
<1>5. CASE Enqueue(p)
  BY <1>5 DEF Enqueue, Continue, IInv, AloneBeforeCreation
<1>6. CASE Failing(p) \/ Fail(p)
  BY <1>6 DEF Failing, Fail, Goto, Trying, IInv, TypeOK, ProcTypeOK
<1>7. CASE Read(p) \/ Current(p) \/ Gate(p) \/ SaveGate(p) \/ Claim(p) \/ Launch(p)
           \/ HarnessEnds(p) \/ Save(p) \/ Reply(p) \/ Quiet(p) \/ Commit(p) \/ Finish(p)
           \/ Signal(p)
  <2>1. pc[p] \in Trying \cup {"read"} /\ task' = task
    BY <1>7 DEF Read, Current, Gate, SaveGate, Claim, Launch, HarnessEnds, Save, Reply,
       Quiet, Commit, Finish, Signal, Goto, Continue, Raise, Prepare, Trying
  <2>. QED
    BY <2>1 DEF SlotInv
<1>8. ASSUME NEW q \in Process, NEW i \in Job,
             Pick(q, i) \/ Run(q, i) \/ Recover(q, i) \/ Resolve(q, i)
      PROVE  task'[p] \in {"execute", "manual"}
  <2>1. q # p
    BY <1>8 DEF Pick, Run, Recover, Resolve, Begin, Goto, Trying, IInv, TypeOK, ProcTypeOK
  <2>2. pc'[p] = pc[p] /\ task'[p] = task[p]
    BY <1>8, <2>1 DEF Pick, Run, Recover, Resolve, Begin, Goto, IInv, TypeOK, ProcTypeOK
  <2>. QED
    BY <2>2 DEF SlotInv
<1>9. CASE \E i \in Job : Admit(i) \/ EchoCancel(i) \/ SettleDelivery(i) \/ BackoffElapses(i)
  BY <1>9 DEF Admit, EchoCancel, SettleDelivery, BackoffElapses, procVars, SlotInv
<1>10. CASE \E q \in Process \ {p} : Call(q) \/ Kill(q) \/ Signal(q)
  BY <1>1, <1>10 DEF SlotInv
<1>11. CASE Call(p) \/ Kill(p) \/ Signal(p)
  BY <1>2, <1>3, <1>4, <1>5, <1>6, <1>7, <1>11 DEF Call
<1>. QED
  BY <1>8, <1>9, <1>10, <1>11 DEF Next

\* Every step keeps the order of the slots.
LEMMA SlotStep == IInv /\ SlotInv /\ [Next]_vars => SlotInv'
<1>. SUFFICES ASSUME IInv, SlotInv, [Next]_vars PROVE SlotInv'
  OBVIOUS
<1>1. ASSUME Next, NEW p \in Process, task'[p] = "execute", pc'[p] # "idle"
      PROVE  \A e \in earlier'[key'[p]] : jobs'[e] \in Terminal
  <2>. DEFINE j == key'[p]
  <2>1. j \in Job /\ jobs[j] # "absent" /\ Ordered(j)
    <3>1. CASE task[p] = "execute" /\ pc[p] # "idle" /\ key'[p] = key[p]
      BY <3>1 DEF SlotInv, Ordered, IInv, AloneBeforeCreation, Creating, TypeOK,
         LockTypeOK, Job
    <3>2. CASE jobs[key'[p]] # "absent" /\ Ordered(key'[p])
      BY <1>1, <3>2, TypeNext DEF IInv, TypeOK, LockTypeOK, Job
    <3>. QED
      BY <1>1, <3>1, <3>2, WorkerStep
  <2>2. earlier'[j] = earlier[j] /\ earlier[j] \subseteq Job
    BY <1>1, <2>1, EarlierStep DEF IInv, TypeOK, QueueTypeOK
  <2>3. ASSUME NEW e \in earlier[j] PROVE jobs'[e] \in Terminal
    BY <1>1, <2>1, <2>2, <2>3, FinishedStep DEF Ordered
  <2>. QED
    BY <2>2, <2>3
<1>2. ASSUME Next, NEW j \in Manual
      PROVE  earlier'[j] = {}
  <2>1. j \in Job /\ \A i \in Job : Slot[i] = Slot[j] => i = j
    BY JobAssumption, SlotAssumption
  <2>. QED
    BY <1>2, <2>1, EarlierStep DEF SlotInv
<1>3. ASSUME UNCHANGED vars
      PROVE  SlotInv'
  BY <1>3 DEF vars, lockVars, queueVars, procVars, SlotInv
<1>. QED
  BY <1>1, <1>2, <1>3, TryingStep DEF SlotInv

\* While a job's harness runs, every job of its slot that came before it is
\* finished: the queue offers work in order, an attempt keeps what it was
\* offered, and bf run needs no order.
THEOREM SlotKept == ~CancelMayFail => (Spec => []SlotOrder)
<1>. SUFFICES ASSUME ~CancelMayFail PROVE Spec => []SlotOrder
  OBVIOUS
<1>1. Init => SlotInv
  BY JobAssumption DEF Init, SlotInv, Trying
<1>2. IInv /\ SlotInv /\ [Next]_vars => SlotInv'
  BY SlotStep
<1>3. IInv /\ SlotInv => SlotOrder
  <2>. SUFFICES ASSUME IInv, SlotInv, NEW p \in Process, pc[p] \in Live
                PROVE  \A e \in earlier[key[p]] : jobs[e] \in Terminal
    BY DEF SlotOrder
  <2>1. task[p] \in {"execute", "manual"} /\ pc[p] # "idle"
    BY DEF SlotInv, Live, Trying
  <2>. QED
    BY <2>1 DEF SlotInv, IInv, AloneBeforeCreation
<1>. QED
  BY <1>1, <1>2, <1>3, Invariance, PTL DEF Spec

-----------------------------------------------------------------------------
(* A withdrawn bf run.                                                     *)

\* bf run withdraws only its own job, which is cancelled then or was never created.
WithdrawnInv ==
    /\ withdrawn \subseteq Manual
    /\ \A j \in withdrawn : jobs[j] \in {"absent", "cancelled"}
    /\ \A p \in Process : pc[p] = "withdraw" => task[p] = "manual"

\* A job of bf run comes into being only by the bf run that was not withdrawn.
LEMMA AbsentStep ==
    ASSUME IInv, Next, NEW j \in Job, jobs[j] = "absent", j \in Manual, j \in withdrawn
    PROVE  jobs'[j] = "absent"
<1>1. ASSUME NEW i \in Job, Admit(i) \/ EchoCancel(i) \/ SettleDelivery(i) \/ BackoffElapses(i)
      PROVE  jobs'[j] = "absent"
  BY <1>1 DEF Admit, EchoCancel, SettleDelivery, BackoffElapses, IInv, TypeOK, QueueTypeOK
<1>2. ASSUME NEW p \in Process, NEW i \in Job, Pick(p, i) \/ Run(p, i) \/ Recover(p, i) \/ Resolve(p, i)
      PROVE  jobs'[j] = "absent"
  BY <1>2 DEF Pick, Run, Recover, Resolve, queueVars
<1>3. ASSUME NEW p \in Process, Open(p) \/ Flock(p) \/ FlockBusy(p) \/ Close(p) \/ Leave(p) \/ Kill(p)
                                \/ Read(p) \/ Current(p) \/ Gate(p) \/ SaveGate(p) \/ Launch(p)
                                \/ HarnessEnds(p) \/ Commit(p) \/ Failing(p) \/ Unlink(p)
      PROVE  jobs'[j] = "absent"
  BY <1>3 DEF Open, Flock, FlockBusy, Close, Leave, Kill, Read, Current, Gate, SaveGate,
     Launch, HarnessEnds, Commit, Failing, Unlink, queueVars
<1>4. ASSUME NEW p \in Process, key[p] # j,
             Enqueue(p) \/ Claim(p) \/ Save(p) \/ Reply(p) \/ Quiet(p) \/ Finish(p) \/ Fail(p)
             \/ Signal(p) \/ Interrupted(p) \/ ResolveJob(p) \/ Withdraw(p)
      PROVE  jobs'[j] = "absent"
  BY <1>4 DEF Enqueue, Claim, Save, Reply, Prepare, Quiet, Finish, FinishJob, Fail, Signal,
     RecordEnded, RetryAttempt, Unless, Interrupted, ResolveJob, CancelJob, RetryJob, Withdraw,
     IInv, TypeOK, QueueTypeOK
<1>5. ASSUME NEW p \in Process, key[p] = j, pc[p] # "idle"
      PROVE  pc[p] \in {"unlink", "close"}
  BY <1>5 DEF IInv, AloneBeforeCreation
<1>6. ASSUME NEW p \in Process,
             Enqueue(p) \/ Claim(p) \/ Save(p) \/ Reply(p) \/ Quiet(p) \/ Finish(p) \/ Fail(p)
             \/ Signal(p) \/ Interrupted(p) \/ ResolveJob(p) \/ Withdraw(p)
      PROVE  pc[p] \notin {"unlink", "close", "idle"}
  BY <1>6 DEF Enqueue, Claim, Save, Reply, Quiet, Finish, Fail, Signal, Trying, Interrupted,
     ResolveJob, Withdraw, Goto
<1>. QED
  BY <1>1, <1>2, <1>3, <1>4, <1>5, <1>6 DEF Next, Call

\* Only bf run comes to withdraw its job.
LEMMA LeaveStep ==
    ASSUME IInv, WithdrawnInv, Next, NEW p \in Process, pc'[p] = "withdraw"
    PROVE  task'[p] = "manual"
<1>1. ASSUME NEW q \in Process, Call(q) \/ Kill(q) \/ Signal(q), ~Leave(q)
      PROVE  /\ pc'[q] # "withdraw"
             /\ \A r \in Process \ {q} : pc'[r] = pc[r] /\ task'[r] = task[r]
  <2>1. CASE Workers(q)
    BY <1>1, <2>1 DEF Workers, Open, Flock, AfterLock, Enqueue, Read, Current, Gate, Gated_, SaveGate,
       Claim, Launch, HarnessEnds, Save, Reply, Quiet, Commit, Finish, Failing, Fail,
       Interrupted, Withdraw, Unlink, Signal, Goto, Continue, Raise, Prepare, IInv, TypeOK,
       ProcTypeOK
  <2>2. CASE FlockBusy(q) \/ Close(q) \/ Kill(q) \/ ResolveJob(q)
    BY <1>1, <2>2 DEF FlockBusy, Close, Kill, ResolveJob, AfterClose, Goto, IInv, TypeOK, ProcTypeOK
  <2>. QED
    BY <1>1, <2>1, <2>2 DEF Call, Workers
<1>2. ASSUME NEW q \in Process, Leave(q)
      PROVE  /\ pc'[q] = "withdraw" => task'[q] = "manual"
             /\ \A r \in Process \ {q} : pc'[r] = pc[r] /\ task'[r] = task[r]
  BY <1>2 DEF Leave, Goto, IInv, TypeOK, ProcTypeOK
<1>3. ASSUME NEW q \in Process, NEW i \in Job,
             Pick(q, i) \/ Run(q, i) \/ Recover(q, i) \/ Resolve(q, i)
      PROVE  /\ pc'[q] # "withdraw"
             /\ \A r \in Process \ {q} : pc'[r] = pc[r] /\ task'[r] = task[r]
  BY <1>3 DEF Pick, Run, Recover, Resolve, Begin, Goto, IInv, TypeOK, ProcTypeOK
<1>4. ASSUME NEW i \in Job, Admit(i) \/ EchoCancel(i) \/ SettleDelivery(i) \/ BackoffElapses(i)
      PROVE  pc' = pc /\ task' = task
  BY <1>4 DEF Admit, EchoCancel, SettleDelivery, BackoffElapses, procVars
<1>5. pc[p] = "withdraw" => task[p] = "manual"
  BY DEF WithdrawnInv
<1>. QED
  BY <1>1, <1>2, <1>3, <1>4, <1>5 DEF Next

\* Every step keeps withdrawn runs out of the queue.
LEMMA WithdrawnStep ==
    ASSUME ~CancelMayFail
    PROVE  IInv /\ WithdrawnInv /\ [Next]_vars => WithdrawnInv'
<1>. SUFFICES ASSUME IInv, WithdrawnInv, [Next]_vars PROVE WithdrawnInv'
  OBVIOUS
<1>1. CASE UNCHANGED vars
  BY <1>1 DEF vars, queueVars, procVars, ghostVars, WithdrawnInv
<1>2. CASE Next
  <2>1. ASSUME NEW j \in withdrawn
        PROVE  j \in Manual /\ jobs'[j] \in {"absent", "cancelled"}
    <3>1. j \in Job /\ j \in Manual /\ jobs[j] \in {"absent", "cancelled"}
      BY JobAssumption DEF WithdrawnInv
    <3>2. CASE jobs[j] = "absent"
      BY <1>2, <3>1, <3>2, AbsentStep
    <3>3. CASE jobs[j] = "cancelled"
      BY <1>2, <3>1, <3>3, FinishedStep DEF Terminal
    <3>. QED
      BY <3>1, <3>2, <3>3
  <2>2. ASSUME NEW p \in Process, Enqueue(p)
        PROVE  WithdrawnInv'
    <3>1. key[p] \in Manual /\ jobs[key[p]] = "absent"
      BY <2>2 DEF Enqueue, IInv, AloneBeforeCreation, Creating
    <3>2. withdrawn' = withdrawn \/ (withdrawn' = withdrawn \cup {key[p]} /\ jobs' = jobs)
      BY <2>2 DEF Enqueue
    <3>. QED
      BY <1>2, <2>1, <3>1, <3>2, LeaveStep DEF WithdrawnInv
  <2>3. ASSUME NEW p \in Process, Withdraw(p)
        PROVE  WithdrawnInv'
    <3>1. key[p] \in Job /\ pc[p] = "withdraw" /\ jobs[key[p]] \in {"pending", "cancelled"}
      BY <2>3 DEF Withdraw, Goto, IInv, FullBeforeStart, TypeOK, LockTypeOK, Job
    <3>2. jobs'[key[p]] = "cancelled"
      BY <2>3, <3>1 DEF Withdraw, Resolvable, CancelJob, IInv, TypeOK, QueueTypeOK
    <3>3. key[p] \in Manual
      BY <3>1 DEF WithdrawnInv, IInv, AloneBeforeCreation
    <3>. QED
      BY <1>2, <2>1, <2>3, <3>2, <3>3, LeaveStep DEF Withdraw, WithdrawnInv
  <2>4. ASSUME NEW p \in Process, Call(p) \/ Kill(p) \/ Signal(p), ~Enqueue(p), ~Withdraw(p)
        PROVE  withdrawn' = withdrawn
    BY <2>4 DEF Call, Open, Flock, FlockBusy, Close, Leave, Kill, Read, Current, Gate,
       SaveGate, Claim, Launch, HarnessEnds, Save, Reply, Quiet, Commit, Finish, Failing,
       Fail, Signal, Interrupted, ResolveJob, Unlink, ghostVars
  <2>5. ASSUME NEW p \in Process, NEW i \in Job,
               Pick(p, i) \/ Run(p, i) \/ Recover(p, i) \/ Resolve(p, i)
        PROVE  withdrawn' = withdrawn
    BY <2>5 DEF Pick, Run, Recover, Resolve, ghostVars
  <2>6. ASSUME NEW i \in Job, Admit(i) \/ EchoCancel(i) \/ SettleDelivery(i) \/ BackoffElapses(i)
        PROVE  withdrawn' = withdrawn
    BY <2>6 DEF Admit, EchoCancel, SettleDelivery, BackoffElapses, ghostVars
  <2>7. withdrawn' = withdrawn => WithdrawnInv'
    BY <1>2, <2>1, LeaveStep DEF WithdrawnInv
  <2>. QED
    BY <1>2, <2>2, <2>3, <2>4, <2>5, <2>6, <2>7 DEF Next
<1>. QED
  BY <1>1, <1>2

\* What bf run reported as cancelled never starts, if SQLite refuses no such
\* cancellation, whatever the owner, the dispatcher and other processes do
\* afterwards: not even a retry takes it up.
THEOREM WithdrawnForGood == ~CancelMayFail => (Spec => WithdrawnNeverStarts)
<1>. SUFFICES ASSUME ~CancelMayFail PROVE Spec => WithdrawnNeverStarts
  OBVIOUS
<1>1. Init => WithdrawnInv
  BY DEF Init, WithdrawnInv
<1>2. IInv /\ WithdrawnInv /\ [Next]_vars => WithdrawnInv'
  BY WithdrawnStep
<1>3. IInv /\ WithdrawnInv /\ [Next]_vars
        => [\A j \in withdrawn : retries[j] = 0 => starts'[j] = starts[j]]_vars
  <2>. SUFFICES ASSUME IInv, WithdrawnInv, Next, NEW j \in withdrawn PROVE starts'[j] = starts[j]
    OBVIOUS
  <2>1. ASSUME NEW p \in Process, Launch(p)
        PROVE  starts'[j] = starts[j]
    <3>1. j # key[p] /\ j \in Job
      BY <2>1, JobAssumption DEF Launch, IInv, StateFollowsPC, WithdrawnInv
    <3>. QED
      BY <2>1, <3>1 DEF Launch, IInv, TypeOK, GhostTypeOK
  <2>2. ASSUME NEW p \in Process, Call(p) \/ Kill(p) \/ Signal(p), ~Launch(p)
        PROVE  starts' = starts
    BY <2>2 DEF Call, Open, Flock, FlockBusy, Close, Leave, Kill, Enqueue, Read, Current, Gate,
       SaveGate, Claim, HarnessEnds, Save, Reply, Quiet, Commit, Finish, Failing, Fail, Signal,
       Interrupted, ResolveJob, Withdraw, Unlink, ghostVars
  <2>3. ASSUME NEW p \in Process, NEW i \in Job,
               Pick(p, i) \/ Run(p, i) \/ Recover(p, i) \/ Resolve(p, i)
        PROVE  starts' = starts
    BY <2>3 DEF Pick, Run, Recover, Resolve, ghostVars
  <2>4. ASSUME NEW i \in Job, Admit(i) \/ EchoCancel(i) \/ SettleDelivery(i) \/ BackoffElapses(i)
        PROVE  starts' = starts
    BY <2>4 DEF Admit, EchoCancel, SettleDelivery, BackoffElapses, ghostVars
  <2>. QED
    BY <2>1, <2>2, <2>3, <2>4 DEF Next
<1>. QED
  BY <1>1, <1>2, <1>3, Invariance, PTL DEF Spec, WithdrawnNeverStarts

-----------------------------------------------------------------------------
(* Queues of brains whose devices are numbered anew.                       *)

CONSTANTS Brain, Path, Device, Nobody, Home, MaxBoots, MaxMoves, MaxEvents

VARIABLES place, runtime, renumberLock, naming, shared, changes

Renumbering == INSTANCE QueueFolders WITH
    renumber <- renumberLock, call <- naming, bounds <- changes

Own(b) == place[b].device
BoundHere(b, d) == \E bound \in runtime[d].bound : bound.path = place[b].path
Elsewhere(b) == {d \in Device \ {Own(b)} : BoundHere(b, d)}

\* Brains are at different places, and a queue has work only of its binding.
Apart == \A b, c \in Brain : b # c => Own(b) # Own(c) /\ place[b].path # place[c].path
Whole == \A d \in Device : /\ runtime[d].work \subseteq runtime[d].bound
                           /\ ~runtime[d].exists => runtime[d].bound = {}

\* A call is about its brain's present folder, and renames under the lock.
CalledOf(p) == /\ naming[p] # Renumbering!Idle => naming[p].device = Own(naming[p].brain)
               /\ naming[p].step = "rename" => renumberLock = p /\ naming[p].from # naming[p].device
Called == \A p \in Process : CalledOf(p)

Opening(b) == \E p \in Process : naming[p].step = "open" /\ naming[p].brain = b

\* Until a number or a path comes to an old folder, the brain's own folder and the
\* folders bound to its path are bound to the brain, and there is one in all: its
\* own once a call of the brain uses the queue, else the one a call renames.
Kept(b) ==
    /\ \A d \in Device : \A bound \in runtime[d].bound :
          bound.path = place[b].path \/ d = Own(b) => bound.name = b
    /\ runtime[Own(b)].exists \/ Opening(b) => Elsewhere(b) = {}
    /\ \A p \in Process : naming[p].step = "rename" /\ naming[p].brain = b => Elsewhere(b) = {naming[p].from}

QueueInv ==
    /\ Renumbering!TypeOK
    /\ Apart /\ Whole /\ Called
    /\ shared = {} => \A b \in Brain : Kept(b)

LEMMA QueueInit == ASSUME Renumbering!QueueFoldersAssumption, Renumbering!Init PROVE QueueInv
<1>1. Renumbering!TypeOK
  BY DEF Renumbering!QueueFoldersAssumption, Renumbering!Init, Renumbering!TypeOK, Renumbering!Folder, Renumbering!NoFolder, Renumbering!Call
<1>2. Apart /\ Whole /\ Called
  BY DEF Renumbering!QueueFoldersAssumption, Renumbering!Init, Apart, Whole, Called, CalledOf, Own, Renumbering!NoFolder, Renumbering!Idle
<1>3. ASSUME NEW b \in Brain PROVE Kept(b)
  <2>1. Own(b) \in Device /\ \A d \in Device : runtime[d].bound = {} /\ ~runtime[d].exists
    BY DEF Renumbering!QueueFoldersAssumption, Renumbering!Init, Own, Renumbering!NoFolder
  <2>2. \A p \in Process : naming[p].step = "idle"
    BY DEF Renumbering!Init, Renumbering!Idle
  <2> QED
    BY <2>1, <2>2 DEF Kept, Elsewhere, BoundHere, Opening
<1> QED
  BY <1>1, <1>2, <1>3 DEF QueueInv

\* The fields of a call in progress.
LEMMA CallFields ==
    ASSUME Renumbering!TypeOK, NEW p \in Process, naming[p].step # "idle"
    PROVE  /\ naming[p] # Renumbering!Idle
           /\ naming[p].brain \in Brain /\ naming[p].device \in Device /\ naming[p].from \in Device
           /\ naming[p].uses \in {"queue", "program"}
           /\ naming[p].step \in {"scan", "rename", "open"}
BY DEF Renumbering!TypeOK, Renumbering!Call, Renumbering!Idle

LEMMA IdleStep == ASSUME Renumbering!TypeOK, NEW p \in Process
    PROVE (naming[p].step = "idle") <=> (naming[p] = Renumbering!Idle)
BY DEF Renumbering!TypeOK, Renumbering!Call, Renumbering!Idle

LEMMA QueueBoot ==
    ASSUME Renumbering!QueueFoldersAssumption, QueueInv, Renumbering!Boot
    PROVE  QueueInv'
<1> USE DEF QueueInv
<1>1. PICK devices \in [Brain -> Device] :
        /\ \A b, c \in Brain : b # c => devices[b] # devices[c]
        /\ place' = [b \in Brain |-> [place[b] EXCEPT !.device = devices[b]]]
        /\ shared' = shared \cup {b \in Brain : /\ devices[b] # place[b].device
                                                /\ runtime[devices[b]].exists}
  BY DEF Renumbering!Boot
<1>2. \A b \in Brain : place'[b].device = devices[b] /\ place'[b].path = place[b].path /\ devices[b] \in Device
  BY <1>1 DEF Renumbering!TypeOK
<1>3. Renumbering!TypeOK'
  <2>1. place' \in [Brain -> [device : Device, path : Path]]
    BY <1>1 DEF Renumbering!TypeOK
  <2>2. changes' \in [boots : 0..MaxBoots, moves : 0..MaxMoves, kills : 0..MaxKills]
    <3>1. changes.boots < MaxBoots /\ changes' = [changes EXCEPT !.boots = @ + 1]
      BY DEF Renumbering!Boot
    <3>2. changes.boots \in Nat /\ MaxBoots \in Nat
      BY DEF Renumbering!TypeOK, Renumbering!QueueFoldersAssumption
    <3>3. changes.boots + 1 \in 0..MaxBoots
      BY <3>1, <3>2
    <3> QED
      BY <3>1, <3>3 DEF Renumbering!TypeOK
  <2> QED
    BY <1>1, <2>1, <2>2 DEF Renumbering!Boot, Renumbering!TypeOK, Renumbering!Call
<1>4. \A p \in Process : naming'[p] = Renumbering!Idle /\ naming'[p].step = "idle"
  BY DEF Renumbering!Boot, Renumbering!Idle
<1>5. Apart' /\ Whole' /\ Called'
  BY <1>1, <1>2, <1>4 DEF Renumbering!Boot, Apart, Whole, Called, CalledOf, Own
<1>6. ASSUME shared' = {}, NEW b \in Brain PROVE Kept(b)'
  <2>1. shared = {} /\ Kept(b)
    BY <1>1, <1>6
  <2>2. devices[b] = Own(b) \/ ~runtime[devices[b]].exists
    BY <1>1, <1>6 DEF Own
  <2>3. runtime' = runtime
    BY DEF Renumbering!Boot
  <2>4. CASE devices[b] = Own(b)
    BY <1>2, <1>4, <2>1, <2>3, <2>4 DEF Kept, Elsewhere, BoundHere, Opening, Own
  <2>5. CASE ~runtime[devices[b]].exists
    BY <1>2, <1>4, <2>1, <2>3, <2>5 DEF Kept, Elsewhere, BoundHere, Opening, Own, Whole
  <2> QED
    BY <2>2, <2>4, <2>5
<1> QED
  BY <1>3, <1>5, <1>6

LEMMA QueueMove ==
    ASSUME Renumbering!QueueFoldersAssumption, QueueInv, NEW b \in Brain, NEW to \in Path, Renumbering!Move(b, to)
    PROVE  QueueInv'
<1> USE DEF QueueInv
<1>1. /\ place' = [place EXCEPT ![b].path = to] /\ runtime' = runtime /\ naming' = naming
      /\ renumberLock' = renumberLock
      /\ \A c \in Brain : place[c].path # to
      /\ \A p \in Process : naming[p] # Renumbering!Idle => naming[p].brain # b
  BY DEF Renumbering!Move
<1>2. /\ place'[b].path = to
      /\ \A c \in Brain : place'[c].device = place[c].device /\ (c # b => place'[c].path = place[c].path)
  BY <1>1 DEF Renumbering!TypeOK
<1>3. Renumbering!TypeOK'
  <2>1. place' \in [Brain -> [device : Device, path : Path]]
    BY <1>1 DEF Renumbering!TypeOK
  <2>2. changes' \in [boots : 0..MaxBoots, moves : 0..MaxMoves, kills : 0..MaxKills]
    BY DEF Renumbering!Move, Renumbering!TypeOK, Renumbering!QueueFoldersAssumption
  <2>3. shared' \in SUBSET Brain
    BY DEF Renumbering!Move, Renumbering!TypeOK
  <2> QED
    BY <1>1, <2>1, <2>2, <2>3 DEF Renumbering!TypeOK
<1>4. Apart' /\ Whole'
  BY <1>1, <1>2 DEF Apart, Whole, Own
<1>5. ASSUME NEW p \in Process PROVE CalledOf(p)'
  <2>1. naming[p] # Renumbering!Idle => naming[p].brain \in Brain
    BY CallFields, IdleStep
  <2> QED
    BY <1>1, <1>2, <2>1 DEF Called, CalledOf, Own
<1>6. ASSUME shared' = {}, NEW c \in Brain PROVE Kept(c)'
  <2>1. shared = {} /\ ~\E d \in Device \ {place[b].device} : \E bound \in runtime[d].bound : bound.path = to
    BY <1>6 DEF Renumbering!Move
  <2>2. Kept(c)
    BY <2>1
  <2>3. CASE c # b
    BY <1>1, <1>2, <2>2, <2>3 DEF Kept, Elsewhere, BoundHere, Opening, Own
  <2>4. CASE c = b
    <3>1. Elsewhere(b)' = {}
      BY <1>1, <1>2, <2>1 DEF Elsewhere, BoundHere, Own
    <3>2. \A p \in Process : naming[p].step = "rename" => naming[p].brain # b
      BY <1>1, IdleStep DEF Renumbering!Idle
    <3>3. \A d \in Device : \A bound \in runtime[d].bound :
             bound.path = to \/ d = Own(b) => bound.name = b
      BY <2>1, <2>2, <2>4 DEF Kept, Own
    <3> QED
      BY <1>1, <1>2, <2>4, <3>1, <3>2, <3>3 DEF Kept, Own
  <2> QED
    BY <2>3, <2>4
<1> QED
  BY <1>3, <1>4, <1>5, <1>6 DEF Called

\* A step that only moves the call of one process, and not to a rename.
LEMMA CallMoves ==
    ASSUME Renumbering!QueueFoldersAssumption, QueueInv, Renumbering!TypeOK', NEW p \in Process, NEW c,
           place' = place, runtime' = runtime, shared' = shared,
           naming' = [naming EXCEPT ![p] = c],
           c # Renumbering!Idle => c.device = Own(c.brain),
           c.step # "rename",
           c.step = "open" /\ shared = {} => Elsewhere(c.brain) = {},
           renumberLock' = renumberLock \/ naming[p].step = "rename"
                       \/ renumberLock = Nobody \/ renumberLock = p
    PROVE  QueueInv'
<1> USE DEF QueueInv
<1>1. naming'[p] = c /\ \A q \in Process \ {p} : naming'[q] = naming[q]
  BY DEF Renumbering!TypeOK
<1>2. ASSUME NEW q \in Process PROVE CalledOf(q)'
  BY <1>1 DEF Called, CalledOf, Own, Renumbering!QueueFoldersAssumption
<1>3. ASSUME shared' = {}, NEW b \in Brain PROVE Kept(b)'
  <2>1. Kept(b) /\ Own(b)' = Own(b) /\ Elsewhere(b)' = Elsewhere(b)
    BY <1>3 DEF Own, Elsewhere, BoundHere
  <2>2. Opening(b)' => Opening(b) \/ (c.step = "open" /\ c.brain = b)
    BY <1>1 DEF Opening
  <2> QED
    BY <1>1, <1>3, <2>1, <2>2 DEF Kept
<1> QED
  BY <1>2, <1>3 DEF Apart, Whole, Called, Own

LEMMA CallEnds ==
    ASSUME Renumbering!QueueFoldersAssumption, QueueInv, Renumbering!TypeOK', NEW p \in Process,
           place' = place, runtime' = runtime, shared' = shared,
           naming' = [naming EXCEPT ![p] = Renumbering!Idle],
           renumberLock' = renumberLock \/ naming[p].step = "rename"
                       \/ renumberLock = Nobody \/ renumberLock = p
    PROVE  QueueInv'
<1>1. PICK c : c = Renumbering!Idle
  OBVIOUS
<1>2. c.step = "idle"
  BY <1>1 DEF Renumbering!Idle
<1> QED
  BY <1>1, <1>2, CallMoves

LEMMA QueueStart ==
    ASSUME Renumbering!QueueFoldersAssumption, QueueInv, NEW p \in Process, NEW b \in Brain,
           NEW uses \in {"queue", "program"}, Renumbering!Start(p, b, uses)
    PROVE  QueueInv'
<1> USE DEF QueueInv
<1>1. PICK step \in {"scan", "open"} :
        /\ naming' = [naming EXCEPT ![p] = [step |-> step, brain |-> b, device |-> place[b].device,
                                            uses |-> uses, from |-> place[b].device]]
        /\ step = "open" => runtime[Own(b)].exists
  BY DEF Renumbering!Start, Own
<1>2. UNCHANGED <<place, runtime, renumberLock, shared, changes>>
  BY DEF Renumbering!Start
<1> DEFINE c == [step |-> step, brain |-> b, device |-> place[b].device, uses |-> uses, from |-> place[b].device]
<1>3. c \in Renumbering!Call
  BY DEF Renumbering!Call, Renumbering!TypeOK
<1>4. Renumbering!TypeOK'
  BY <1>1, <1>2, <1>3 DEF Renumbering!TypeOK
<1>5. /\ c.step = step /\ c.brain = b /\ c.device = Own(b)
      /\ step = "open" /\ shared = {} => Elsewhere(b) = {}
  BY <1>1 DEF Kept, Own
<1>6. naming' = [naming EXCEPT ![p] = c]
  BY <1>1
<1> HIDE DEF c
<1> QED
  BY <1>2, <1>4, <1>5, <1>6, CallMoves

\* What a kill leaves: the folders as they are, or a journal in one of them.
LEMMA QueueKill ==
    ASSUME Renumbering!QueueFoldersAssumption, QueueInv, NEW p \in Process, Renumbering!Kill(p)
    PROVE  QueueInv'
<1> USE DEF QueueInv
<1>1. /\ naming' = [naming EXCEPT ![p] = Renumbering!Idle] /\ naming[p] # Renumbering!Idle
      /\ place' = place /\ shared' = shared
  BY DEF Renumbering!Kill
<1>2. renumberLock' = IF renumberLock = p THEN Nobody ELSE renumberLock
  BY DEF Renumbering!Kill, Renumbering!Release
<1>3. /\ runtime' \in [Device -> Renumbering!Folder]
      /\ \A d \in Device : /\ runtime'[d].bound = runtime[d].bound /\ runtime'[d].work = runtime[d].work
                           /\ runtime'[d].exists = runtime[d].exists
  <2>1. CASE runtime' = runtime
    BY <2>1 DEF Renumbering!TypeOK
  <2>2. CASE runtime' = [runtime EXCEPT ![naming[p].device].hot = TRUE]
    BY <2>2 DEF Renumbering!TypeOK, Renumbering!Folder
  <2> QED
    BY <2>1, <2>2 DEF Renumbering!Kill
<1>4. changes' \in [boots : 0..MaxBoots, moves : 0..MaxMoves, kills : 0..MaxKills]
  BY DEF Renumbering!Kill, Renumbering!TypeOK, Renumbering!QueueFoldersAssumption
<1>5. Renumbering!TypeOK'
  BY <1>1, <1>2, <1>3, <1>4 DEF Renumbering!TypeOK, Renumbering!Call
<1>6. naming'[p] = Renumbering!Idle /\ \A q \in Process \ {p} : naming'[q] = naming[q]
  BY <1>1 DEF Renumbering!TypeOK
<1>7. ASSUME NEW q \in Process PROVE CalledOf(q)'
  BY <1>1, <1>2, <1>6 DEF Called, CalledOf, Own, Renumbering!Idle
<1>8. ASSUME shared' = {}, NEW b \in Brain PROVE Kept(b)'
  <2>1. Kept(b) /\ Own(b)' = Own(b) /\ Own(b) \in Device
    BY <1>1, <1>8 DEF Own, Renumbering!TypeOK
  <2>2. Elsewhere(b)' = Elsewhere(b)
    BY <1>1, <1>3 DEF Own, Elsewhere, BoundHere
  <2>3. Opening(b)' => Opening(b)
    BY <1>6 DEF Opening, Renumbering!Idle
  <2> QED
    BY <1>1, <1>3, <1>6, <2>1, <2>2, <2>3 DEF Kept, Renumbering!Idle
<1>9. Apart' /\ Whole'
  BY <1>1, <1>3 DEF Apart, Whole, Own
<1> QED
  BY <1>5, <1>7, <1>8, <1>9 DEF Called

\* The count of folders is the one of the standard module.
LEMMA RenumberingFinite == \A S : Renumbering!IsFiniteSet(S) = IsFiniteSet(S)
BY Zenon DEF Renumbering!IsFiniteSet, IsFiniteSet

LEMMA RenumberingCounts == \A S : Renumbering!Cardinality(S) = Cardinality(S)
BY Zenon DEF Renumbering!Cardinality, Renumbering!IsFiniteSet, Cardinality, IsFiniteSet

LEMMA QueueScan ==
    ASSUME Renumbering!QueueFoldersAssumption, QueueInv, NEW p \in Process, Renumbering!Scan(p)
    PROVE  QueueInv'
<1> USE DEF QueueInv
<1> DEFINE c == naming[p]
<1>1. /\ c.step = "scan" /\ renumberLock = Nobody
      /\ UNCHANGED <<place, runtime, shared, changes>>
  BY DEF Renumbering!Scan
<1>2. /\ c # Renumbering!Idle /\ c.brain \in Brain /\ c.device = Own(c.brain) /\ c.device \in Device
      /\ c \in Renumbering!Call
  BY <1>1, CallFields DEF Called, CalledOf, Renumbering!TypeOK
<1>3. CASE ~runtime[c.device].exists /\ Renumbering!Cardinality(Renumbering!Found(c)) = 1 /\ Renumbering!Unread = {}
  <2>1. PICK from : Renumbering!Found(c) = {from}
    <3>1. IsFiniteSet(Renumbering!Found(c))
      BY FS_Subset, RenumberingFinite DEF Renumbering!Found, Renumbering!QueueFoldersAssumption
    <3> QED
      BY <1>3, <3>1, FS_Singleton, RenumberingCounts
  <2>2. from \in Device /\ from = CHOOSE d \in Renumbering!Found(c) : TRUE
    BY <2>1 DEF Renumbering!Found
  <2>3. /\ naming' = [naming EXCEPT ![p].step = "rename", ![p].from = from]
        /\ renumberLock' = p
    BY <1>3, <2>2 DEF Renumbering!Scan
  <2>4. /\ naming'[p] = [c EXCEPT !.step = "rename", !.from = from]
        /\ \A q \in Process \ {p} : naming'[q] = naming[q]
    BY <2>3 DEF Renumbering!TypeOK
  <2>5. /\ naming'[p].step = "rename" /\ naming'[p].from = from
        /\ naming'[p].brain = c.brain /\ naming'[p].device = c.device /\ naming'[p] \in Renumbering!Call
    BY <1>1, <1>2, <2>2, <2>4 DEF Renumbering!Call, Renumbering!Idle
  <2>6. Renumbering!TypeOK'
    <3>1. naming' \in [Process -> Renumbering!Call]
      BY <2>3, <2>4, <2>5 DEF Renumbering!TypeOK
    <3> QED
      BY <1>1, <2>3, <3>1 DEF Renumbering!TypeOK
  <2>7. BoundHere(c.brain, from) /\ from # c.device
    <3>1. BoundHere(c.brain, from)
      BY <2>1 DEF Renumbering!Found, BoundHere
    <3>2. runtime[c.device].bound = {}
      BY <1>2, <1>3 DEF Whole
    <3> QED
      BY <3>1, <3>2 DEF BoundHere
  <2>8. Elsewhere(c.brain) = {from}
    <3>1. ASSUME NEW d \in Elsewhere(c.brain) PROVE d = from
      <4>1. d \in Device /\ ~runtime[d].hot
        BY <1>3, <3>1 DEF Elsewhere, Renumbering!Unread
      <4>2. d \in Renumbering!Found(c)
        BY <3>1, <4>1 DEF Elsewhere, BoundHere, Renumbering!Found
      <4> QED
        BY <2>1, <4>2
    <3> QED
      BY <1>2, <2>2, <2>7, <3>1 DEF Elsewhere
  <2>9. ASSUME NEW q \in Process PROVE CalledOf(q)'
    <3>1. CASE q = p
      BY <1>1, <1>2, <2>3, <2>5, <2>7, <3>1 DEF CalledOf, Own
    <3>2. CASE q # p
      <4>1. naming[q].step # "rename"
        BY <1>1 DEF Called, CalledOf, Renumbering!QueueFoldersAssumption
      <4> QED
        BY <1>1, <2>4, <3>2, <4>1 DEF Called, CalledOf, Own
    <3> QED
      BY <3>1, <3>2
  <2>10. ASSUME shared' = {}, NEW b \in Brain PROVE Kept(b)'
    <3>1. Kept(b) /\ Own(b)' = Own(b) /\ Elsewhere(b)' = Elsewhere(b)
      BY <1>1, <2>10 DEF Own, Elsewhere, BoundHere
    <3>2. Opening(b)' => Opening(b)
      BY <2>4, <2>5 DEF Opening
    <3>3. ASSUME NEW q \in Process, naming'[q].step = "rename", naming'[q].brain = b
          PROVE  Elsewhere(b)' = {naming'[q].from}
      <4>1. CASE q = p
        <5>1. b = c.brain /\ naming'[q].from = from
          BY <2>5, <3>3, <4>1
        <5> QED
          BY <2>8, <3>1, <5>1
      <4>2. CASE q # p
        <5>1. naming'[q] = naming[q]
          BY <2>4, <4>2
        <5> QED
          BY <3>1, <3>3, <5>1 DEF Kept
      <4> QED
        BY <4>1, <4>2
    <3>4. /\ \A d \in Device : \A bound \in runtime'[d].bound :
                bound.path = place'[b].path \/ d = Own(b)' => bound.name = b
          /\ runtime'[Own(b)'].exists \/ Opening(b)' => Elsewhere(b)' = {}
      BY <1>1, <3>1, <3>2 DEF Kept
    <3> QED
      BY ONLY <3>3, <3>4 DEF Kept
  <2> QED
    BY <1>1, <2>6, <2>9, <2>10 DEF Apart, Whole, Called, Own
<1>4. CASE ~(~runtime[c.device].exists /\ Renumbering!Cardinality(Renumbering!Found(c)) = 1 /\ Renumbering!Unread = {})
  <2>1. /\ renumberLock' = renumberLock
        /\ \/ /\ naming' = [naming EXCEPT ![p].step = "open"]
              /\ runtime[c.device].exists \/ (Renumbering!Found(c) = {} /\ Renumbering!Unread = {})
           \/ naming' = [naming EXCEPT ![p] = Renumbering!Idle]
    BY <1>4, CallFields, <1>1 DEF Renumbering!Scan, Renumbering!Continue, Renumbering!Goto, Renumbering!End
  <2>2. CASE naming' = [naming EXCEPT ![p] = Renumbering!Idle]
    <3>1. Renumbering!TypeOK'
      BY <1>1, <2>1, <2>2 DEF Renumbering!TypeOK, Renumbering!Call
    <3> QED
      BY <1>1, <2>1, <2>2, <3>1, CallEnds
  <2>3. CASE /\ naming' = [naming EXCEPT ![p].step = "open"]
             /\ runtime[c.device].exists \/ (Renumbering!Found(c) = {} /\ Renumbering!Unread = {})
    <3>1. PICK new : new = [c EXCEPT !.step = "open"]
      OBVIOUS
    <3>2. /\ naming' = [naming EXCEPT ![p] = new]
          /\ new \in Renumbering!Call /\ new.step = "open" /\ new.brain = c.brain /\ new.device = c.device
      BY <1>1, <1>2, <2>3, <3>1 DEF Renumbering!TypeOK, Renumbering!Call, Renumbering!Idle
    <3>3. Renumbering!TypeOK'
      BY <1>1, <2>1, <3>2 DEF Renumbering!TypeOK
    <3>4. ASSUME shared = {} PROVE Elsewhere(c.brain) = {}
      <4>1. CASE runtime[c.device].exists
        BY <1>2, <3>4, <4>1 DEF Kept
      <4>2. CASE Renumbering!Found(c) = {} /\ Renumbering!Unread = {}
        BY <4>2 DEF Elsewhere, BoundHere, Renumbering!Found, Renumbering!Unread
      <4> QED
        BY <2>3, <4>1, <4>2
    <3> HIDE DEF c
    <3> QED
      BY <1>1, <1>2, <2>1, <3>2, <3>3, <3>4, CallMoves
  <2> QED
    BY <2>1, <2>2, <2>3
<1> QED
  BY <1>3, <1>4

LEMMA QueueRename ==
    ASSUME Renumbering!QueueFoldersAssumption, QueueInv, NEW p \in Process, Renumbering!RenameRuntime(p)
    PROVE  QueueInv'
<1> USE DEF QueueInv
<1> DEFINE c == naming[p]
<1>1. /\ c.step = "rename" /\ renumberLock = p /\ renumberLock' = Nobody
      /\ UNCHANGED <<place, shared, changes>>
  BY DEF Renumbering!RenameRuntime, Called, CalledOf
<1>2. /\ c # Renumbering!Idle /\ c.brain \in Brain /\ c.device = Own(c.brain) /\ c.device \in Device
      /\ c.from \in Device /\ c.from # c.device /\ c \in Renumbering!Call
  BY <1>1, CallFields DEF Called, CalledOf, Renumbering!TypeOK
<1>3. CASE runtime[c.device].exists
  <2>1. runtime' = runtime /\ naming' = [naming EXCEPT ![p] = Renumbering!Idle]
    BY <1>3 DEF Renumbering!RenameRuntime, Renumbering!End
  <2>2. Renumbering!TypeOK'
    BY <1>1, <2>1 DEF Renumbering!TypeOK, Renumbering!Call
  <2> QED
    BY <1>1, <2>1, <2>2, CallEnds
<1>4. CASE ~runtime[c.device].exists
  <2>1. runtime' = [runtime EXCEPT ![c.device] = runtime[c.from], ![c.from] = Renumbering!NoFolder]
    BY <1>4 DEF Renumbering!RenameRuntime
  <2>2. /\ runtime'[c.device] = runtime[c.from] /\ runtime'[c.from] = Renumbering!NoFolder
        /\ \A d \in Device \ {c.device, c.from} : runtime'[d] = runtime[d]
        /\ runtime' \in [Device -> Renumbering!Folder]
    BY <1>2, <2>1 DEF Renumbering!TypeOK, Renumbering!Folder, Renumbering!NoFolder
  <2>3. PICK new : /\ naming' = [naming EXCEPT ![p] = new]
                   /\ new \in Renumbering!Call /\ new.step \in {"open", "idle"}
                   /\ new # Renumbering!Idle => new.brain = c.brain /\ new.device = c.device
    <3>1. CASE naming' = [naming EXCEPT ![p].step = "open"]
      <4>1. PICK new : new = [c EXCEPT !.step = "open"]
        OBVIOUS
      <4>2. /\ naming' = [naming EXCEPT ![p] = new]
            /\ new \in Renumbering!Call /\ new.step = "open" /\ new.brain = c.brain /\ new.device = c.device
        BY <1>1, <1>2, <3>1, <4>1 DEF Renumbering!TypeOK, Renumbering!Call, Renumbering!Idle
      <4> QED
        BY <4>2
    <3>2. CASE naming' = [naming EXCEPT ![p] = Renumbering!Idle]
      <4>1. Renumbering!Idle \in Renumbering!Call /\ Renumbering!Idle.step = "idle"
        BY DEF Renumbering!Idle, Renumbering!Call
      <4> QED
        BY <3>2, <4>1
    <3> QED
      BY <1>4, <3>1, <3>2 DEF Renumbering!RenameRuntime, Renumbering!Continue, Renumbering!Goto, Renumbering!End
  <2> HIDE DEF c
  <2>4. naming'[p] = new /\ \A q \in Process \ {p} : naming'[q] = naming[q]
    BY <2>3 DEF Renumbering!TypeOK
  <2>5. Renumbering!TypeOK'
    BY <1>1, <2>2, <2>3 DEF Renumbering!TypeOK
  <2>6. Apart'
    BY <1>1 DEF Apart, Own
  <2>7. ASSUME NEW d \in Device
        PROVE  /\ runtime'[d].work \subseteq runtime'[d].bound
               /\ ~runtime'[d].exists => runtime'[d].bound = {}
    BY <1>2, <2>2 DEF Whole, Renumbering!NoFolder
  <2>8. ASSUME NEW q \in Process PROVE CalledOf(q)'
    <3>1. CASE q = p
      BY <1>1, <1>2, <2>3, <2>4, <3>1 DEF CalledOf, Own
    <3>2. CASE q # p
      BY <1>1, <2>4, <3>2 DEF Called, CalledOf, Own
    <3> QED
      BY <3>1, <3>2
  <2>9. ASSUME shared' = {}, NEW b \in Brain PROVE Kept(b)'
    <3>1. shared = {} /\ Kept(b) /\ Kept(c.brain) /\ Own(b)' = Own(b) /\ Own(b) \in Device
      BY <1>1, <1>2, <2>9 DEF Own, Renumbering!TypeOK
    <3>2. Elsewhere(c.brain) = {c.from}
      BY <1>1, <3>1 DEF Kept, c
    <3>3. PICK bound \in runtime[c.from].bound : bound.path = place[c.brain].path
      BY <3>2 DEF Elsewhere, BoundHere
    <3>4. bound.name = c.brain /\ runtime[c.from].bound = {bound}
      BY <1>2, <3>1, <3>3 DEF Kept, Renumbering!TypeOK, Renumbering!Folder
    <3>5. ASSUME NEW q \in Process PROVE ~(naming'[q].step = "rename")
      BY <2>3, <2>4, <2>8, <1>1, Renumbering!QueueFoldersAssumption DEF CalledOf, Renumbering!QueueFoldersAssumption
    <3>6. CASE b = c.brain
      <4>1. Elsewhere(b)' = {}
        BY <1>1, <1>2, <2>2, <3>1, <3>2, <3>6 DEF Elsewhere, BoundHere, Own, Renumbering!NoFolder
      <4>2. \A d \in Device : \A old \in runtime'[d].bound :
               old.path = place[b].path \/ d = Own(b) => old.name = b
        BY <1>2, <2>2, <3>1, <3>4, <3>6 DEF Kept, Renumbering!NoFolder
      <4> QED
        BY <1>1, <3>1, <3>5, <4>1, <4>2 DEF Kept
    <3>7. CASE b # c.brain
      <4>1. place[b].path # place[c.brain].path /\ Own(b) # c.device
        BY <1>2, <3>7 DEF Apart
      <4>2. Own(b) # c.from
        BY <3>1, <3>4, <3>7 DEF Kept
      <4>3. Elsewhere(b)' = Elsewhere(b)
        <5>1. \A d \in Device \ {Own(b)} : BoundHere(b, d)' <=> BoundHere(b, d)
          BY <1>1, <1>2, <1>4, <2>2, <3>3, <3>4, <4>1 DEF BoundHere, Whole, Renumbering!NoFolder
        <5> QED
          BY <3>1, <5>1 DEF Elsewhere
      <4>4. \A d \in Device : \A old \in runtime'[d].bound :
               old.path = place[b].path \/ d = Own(b) => old.name = b
        BY <1>2, <2>2, <3>1, <4>1, <4>2 DEF Kept, Renumbering!NoFolder
      <4>5. Opening(b)' => Opening(b)
        BY <2>3, <2>4, <3>7, IdleStep DEF Opening, Renumbering!Idle
      <4>6. runtime'[Own(b)] = runtime[Own(b)]
        BY <2>2, <3>1, <4>1, <4>2
      <4> QED
        BY <1>1, <3>1, <3>5, <4>3, <4>4, <4>5, <4>6 DEF Kept
    <3> QED
      BY <3>6, <3>7
  <2> QED
    BY <2>5, <2>6, <2>7, <2>8, <2>9 DEF Whole, Called
<1> QED
  BY <1>3, <1>4

LEMMA QueueTransact ==
    ASSUME Renumbering!QueueFoldersAssumption, QueueInv, NEW p \in Process, Renumbering!Transact(p)
    PROVE  QueueInv'
<1> USE DEF QueueInv
<1> DEFINE c == naming[p]
<1>1. c.step = "open" /\ UNCHANGED <<place, renumberLock, shared, changes>>
  BY DEF Renumbering!Transact
<1>2. /\ c # Renumbering!Idle /\ c.brain \in Brain /\ c.device = Own(c.brain) /\ c.device \in Device
      /\ c \in Renumbering!Call
  BY <1>1, CallFields DEF Called, CalledOf, Renumbering!TypeOK
<1>3. PICK queue : queue = [runtime[c.device] EXCEPT !.exists = TRUE, !.hot = FALSE]
  OBVIOUS
<1>4. /\ queue \in Renumbering!Folder /\ queue.exists
      /\ queue.bound = runtime[c.device].bound /\ queue.work = runtime[c.device].work
  BY <1>2, <1>3 DEF Renumbering!TypeOK, Renumbering!Folder
<1>5. PICK new \in Renumbering!Folder :
        /\ runtime' = [runtime EXCEPT ![c.device] = new] /\ new.exists
        /\ \/ new = queue
           \/ /\ Renumbering!Binds(queue, c.brain)
              /\ new.bound = {Renumbering!Bound(c.brain)}
              /\ new.work \in {{}, queue.work, queue.work \cup {Renumbering!Bound(c.brain)}}
  <2>1. CASE Renumbering!Binds(queue, c.brain)
    <3>1. PICK work \in {{}, queue.work, queue.work \cup {Renumbering!Bound(c.brain)}} :
            runtime' = [runtime EXCEPT ![c.device] = [queue EXCEPT !.bound = {Renumbering!Bound(c.brain)}, !.work = work]]
      BY <1>3, <2>1 DEF Renumbering!Transact
    <3>2. Renumbering!Bound(c.brain) \in Renumbering!Binding
      BY <1>2 DEF Renumbering!Bound, Renumbering!Binding, Renumbering!TypeOK
    <3>3. PICK new : new = [queue EXCEPT !.bound = {Renumbering!Bound(c.brain)}, !.work = work]
      OBVIOUS
    <3>4. new \in Renumbering!Folder /\ new.exists /\ new.bound = {Renumbering!Bound(c.brain)} /\ new.work = work
      BY <1>4, <3>1, <3>2, <3>3 DEF Renumbering!Folder
    <3> QED
      BY <2>1, <3>1, <3>3, <3>4
  <2>2. CASE ~Renumbering!Binds(queue, c.brain)
    <3>1. runtime' = [runtime EXCEPT ![c.device] = queue]
      BY <1>3, <2>2 DEF Renumbering!Transact
    <3> QED
      BY <1>4, <3>1
  <2> QED
    BY <2>1, <2>2
<1>6. naming' = naming \/ naming' = [naming EXCEPT ![p] = Renumbering!Idle]
  BY DEF Renumbering!Transact, Renumbering!End
<1>7. /\ runtime'[c.device] = new
      /\ \A d \in Device \ {c.device} : runtime'[d] = runtime[d]
      /\ \A q \in Process : naming'[q] = naming[q] \/ naming'[q] = Renumbering!Idle
  BY <1>2, <1>5, <1>6 DEF Renumbering!TypeOK
<1>8. new.work \subseteq new.bound
  BY <1>2, <1>4, <1>5 DEF Renumbering!Binds, Whole
<1> HIDE DEF c
<1>9. Renumbering!TypeOK'
  BY <1>1, <1>5, <1>6 DEF Renumbering!TypeOK, Renumbering!Call
<1>10. Apart' /\ Whole'
  BY <1>1, <1>5, <1>7, <1>8 DEF Apart, Own, Whole
<1>11. ASSUME NEW q \in Process PROVE CalledOf(q)'
  BY <1>1, <1>7 DEF Called, CalledOf, Own, Renumbering!Idle
<1>12. ASSUME shared' = {}, NEW b \in Brain PROVE Kept(b)'
  <2>1. shared = {} /\ Kept(b) /\ Kept(c.brain) /\ Own(b)' = Own(b) /\ Own(b) \in Device
    BY <1>1, <1>2, <1>12 DEF Own, Renumbering!TypeOK
  <2>2. Elsewhere(c.brain) = {}
    BY <1>1, <2>1 DEF Kept, Opening, c
  <2>3. \A bound \in new.bound : bound \in runtime[c.device].bound \/ bound = Renumbering!Bound(c.brain)
    BY <1>4, <1>5
  <2>4. Renumbering!Bound(c.brain).path = place[c.brain].path /\ Renumbering!Bound(c.brain).name = c.brain
    BY DEF Renumbering!Bound
  <2>5. Opening(b)' => Opening(b)
    BY <1>7 DEF Opening, Renumbering!Idle
  <2>6. \A q \in Process : naming'[q].step = "rename" => naming'[q] = naming[q]
    BY <1>7 DEF Renumbering!Idle
  <2>7. CASE b = c.brain
    <3>1. Elsewhere(b)' = {}
      BY <1>1, <1>2, <1>7, <2>1, <2>2, <2>7 DEF Elsewhere, BoundHere
    <3>2. \A q \in Process : ~(naming[q].step = "rename" /\ naming[q].brain = b)
      BY <2>1, <2>2, <2>7 DEF Kept
    <3>3. \A d \in Device : \A bound \in runtime'[d].bound :
             bound.path = place[b].path \/ d = Own(b) => bound.name = b
      BY <1>2, <1>7, <2>1, <2>3, <2>4, <2>7 DEF Kept
    <3> QED
      BY <1>1, <2>1, <2>6, <3>1, <3>2, <3>3 DEF Kept
  <2>8. CASE b # c.brain
    <3>1. place[b].path # place[c.brain].path /\ Own(b) # c.device
      BY <1>2, <2>8 DEF Apart
    <3>2. \A bound \in runtime[c.device].bound : bound.path # place[b].path
      BY <1>2, <2>1, <2>8 DEF Kept
    <3>3. Elsewhere(b)' = Elsewhere(b)
      <4>1. \A d \in Device \ {Own(b)} : BoundHere(b, d)' <=> BoundHere(b, d)
        BY <1>1, <1>2, <1>7, <2>3, <2>4, <3>1, <3>2 DEF BoundHere
      <4> QED
        BY <2>1, <4>1 DEF Elsewhere
    <3>4. \A d \in Device : \A bound \in runtime'[d].bound :
             bound.path = place[b].path \/ d = Own(b) => bound.name = b
      BY <1>2, <1>7, <2>1, <2>3, <2>4, <3>1, <3>2 DEF Kept
    <3>5. runtime'[Own(b)] = runtime[Own(b)]
      BY <1>7, <2>1, <3>1
    <3> QED
      BY <1>1, <2>1, <2>5, <2>6, <3>3, <3>4, <3>5 DEF Kept
  <2> QED
    BY <2>7, <2>8
<1> QED
  BY <1>9, <1>10, <1>11, <1>12 DEF Called

LEMMA QueueStep ==
    ASSUME Renumbering!QueueFoldersAssumption
    PROVE  QueueInv /\ [Renumbering!Next]_Renumbering!vars => QueueInv'
<1>1. ASSUME QueueInv, UNCHANGED Renumbering!vars PROVE QueueInv'
  BY <1>1 DEF Renumbering!vars, QueueInv, Renumbering!TypeOK, Apart, Whole, Called, CalledOf, Kept, Own, Opening, Elsewhere, BoundHere
<1>2. ASSUME QueueInv, Renumbering!Next PROVE QueueInv'
  BY <1>2, QueueBoot, QueueMove, QueueKill, QueueStart, QueueScan, QueueRename, QueueTransact DEF Renumbering!Next
<1> QED
  BY <1>1, <1>2

\* In every reachable state a process calls for its brain's present folder and
\* renames under the lock, work waits in a queue bound to the brain that admitted
\* it, and a brain that no old folder has met has one queue.
THEOREM QueueInvariance ==
    ASSUME Renumbering!QueueFoldersAssumption
    PROVE  Renumbering!Spec => []QueueInv
<1>1. Renumbering!Init => QueueInv
  BY QueueInit
<1>2. QueueInv /\ [Renumbering!Next]_Renumbering!vars => QueueInv'
  BY QueueStep
<1> QED
  BY <1>1, <1>2, PTL DEF Renumbering!Spec

\* What a change of a folder has to establish.
KeepsAt(d, b) ==
    runtime'[d] # runtime[d] /\ runtime'[d].exists =>
        /\ runtime[d].work \ runtime'[d].work \subseteq {Renumbering!Bound(b)}
        /\ shared = {} /\ runtime'[d].bound = {Renumbering!Bound(b)} =>
             \A e \in Device \ {d} : Renumbering!Bound(b) \notin runtime'[e].work

\* Nothing of a brain's waits in another queue than the one it comes to use.
LEMMA OneQueue ==
    ASSUME QueueInv, QueueInv', shared' = {}, place' = place, NEW b \in Brain,
           runtime'[Own(b)].exists
    PROVE  \A e \in Device \ {Own(b)} : Renumbering!Bound(b) \notin runtime'[e].work
<1>1. Kept(b)' /\ Own(b)' = Own(b)
  BY DEF QueueInv, Own
<1>2. Elsewhere(b)' = {}
  BY <1>1 DEF Kept
<1>3. ASSUME NEW e \in Device \ {Own(b)}, Renumbering!Bound(b) \in runtime'[e].work PROVE FALSE
  <2>1. Renumbering!Bound(b) \in runtime'[e].bound /\ Renumbering!Bound(b).path = place[b].path
    BY <1>3 DEF QueueInv, Whole, Renumbering!Bound
  <2> QED
    BY <1>1, <1>2, <2>1 DEF Elsewhere, BoundHere
<1> QED
  BY <1>3

\* Work is resolved only for the brain that admitted it, whatever numbers the
\* filesystems get and wherever brains are moved; and no brain uses a queue while
\* work it admitted waits in another, until a number or a path comes to an old
\* folder (storage.py: _renumbered; runtime.py: Queue._bind).
THEOREM QueuesFollow ==
    ASSUME Renumbering!QueueFoldersAssumption
    PROVE  Renumbering!Spec => Renumbering!QueueFollowsBrain
<1>1. ASSUME QueueInv, QueueInv', Renumbering!Next PROVE Renumbering!KeepsToItsBrain
  <2> SUFFICES ASSUME NEW d \in Device, NEW b \in Brain, place[b].device = d PROVE KeepsAt(d, b)
    BY DEF Renumbering!KeepsToItsBrain, KeepsAt
  <2>1. ASSUME Renumbering!Boot \/ \E c \in Brain, to \in Path : Renumbering!Move(c, to)
        PROVE  runtime' = runtime
    BY <2>1 DEF Renumbering!Boot, Renumbering!Move
  <2>2. ASSUME NEW p \in Process, NEW c \in Brain, NEW uses \in {"queue", "program"},
               Renumbering!Start(p, c, uses) \/ Renumbering!Scan(p)
        PROVE  runtime' = runtime
    BY <2>2 DEF Renumbering!Start, Renumbering!Scan
  <2>3. ASSUME NEW p \in Process, Renumbering!RenameRuntime(p) \/ Renumbering!Transact(p) \/ Renumbering!Kill(p)
        PROVE  KeepsAt(d, b)
    <3>1. place' = place /\ shared' = shared
      BY <2>3 DEF Renumbering!RenameRuntime, Renumbering!Transact, Renumbering!Kill
    <3>2. ASSUME runtime'[d].exists, shared = {}
          PROVE  \A e \in Device \ {d} : Renumbering!Bound(b) \notin runtime'[e].work
      BY <1>1, <3>1, <3>2, OneQueue DEF Own
    <3>3. ASSUME runtime'[d] # runtime[d], runtime'[d].exists
          PROVE  runtime[d].work \ runtime'[d].work \subseteq {Renumbering!Bound(b)}
      <4>1. ASSUME Renumbering!Kill(p) PROVE runtime'[d].work = runtime[d].work
        BY <1>1, <4>1 DEF Renumbering!Kill, QueueInv, Renumbering!TypeOK, Renumbering!Folder
      <4>2. ASSUME Renumbering!RenameRuntime(p) PROVE runtime[d].work = {} \/ runtime'[d].exists = FALSE
        <5>1. PICK c \in Renumbering!Call : c = naming[p] /\ c.step = "rename" /\ c.device \in Device /\ c.from \in Device
          BY <1>1, <4>2, CallFields DEF QueueInv, Renumbering!TypeOK, Renumbering!RenameRuntime
        <5>2. runtime' = runtime \/ (/\ ~runtime[c.device].exists
                                     /\ runtime' = [runtime EXCEPT ![c.device] = runtime[c.from], ![c.from] = Renumbering!NoFolder])
          BY <4>2, <5>1 DEF Renumbering!RenameRuntime
        <5>3. CASE runtime' = runtime
          BY <3>3, <5>3
        <5>4. CASE /\ ~runtime[c.device].exists
                   /\ runtime' = [runtime EXCEPT ![c.device] = runtime[c.from], ![c.from] = Renumbering!NoFolder]
          <6>1. CASE d = c.from
            <7>1. runtime'[d] = Renumbering!NoFolder
              BY <1>1, <5>1, <5>4, <6>1 DEF QueueInv, Renumbering!TypeOK
            <7> QED
              BY <7>1 DEF Renumbering!NoFolder
          <6>2. CASE d = c.device
            BY <1>1, <5>4, <6>2 DEF QueueInv, Whole
          <6>3. CASE d # c.from /\ d # c.device
            BY <1>1, <3>3, <5>1, <5>4, <6>3 DEF QueueInv, Renumbering!TypeOK
          <6> QED
            BY <6>1, <6>2, <6>3
        <5> QED
          BY <5>2, <5>3, <5>4
      <4>3. ASSUME Renumbering!Transact(p) PROVE runtime[d].work \ runtime'[d].work \subseteq {Renumbering!Bound(b)}
        <5>1. PICK c \in Renumbering!Call : /\ c = naming[p] /\ c.step = "open"
                                 /\ c.brain \in Brain /\ c.device \in Device /\ c.device = Own(c.brain)
          BY <1>1, <4>3, CallFields DEF QueueInv, Renumbering!TypeOK, Renumbering!Transact, Called, CalledOf
        <5>2. PICK queue : queue = [runtime[c.device] EXCEPT !.exists = TRUE, !.hot = FALSE]
          OBVIOUS
        <5>3. queue.bound = runtime[c.device].bound /\ queue.work = runtime[c.device].work
          BY <1>1, <5>1, <5>2 DEF QueueInv, Renumbering!TypeOK, Renumbering!Folder
        <5>4. CASE d # c.device
          <6>1. \E new : runtime' = [runtime EXCEPT ![c.device] = new]
            <7>1. CASE Renumbering!Binds(queue, c.brain)
              <8>1. PICK work : runtime' = [runtime EXCEPT ![c.device] = [queue EXCEPT !.bound = {Renumbering!Bound(c.brain)}, !.work = work]]
                BY <4>3, <5>1, <5>2, <7>1 DEF Renumbering!Transact
              <8> QED
                BY <8>1
            <7>2. CASE ~Renumbering!Binds(queue, c.brain)
              BY <4>3, <5>1, <5>2, <7>2 DEF Renumbering!Transact
            <7> QED
              BY <7>1, <7>2
          <6> QED
            BY <1>1, <3>3, <5>1, <5>4, <6>1 DEF QueueInv, Renumbering!TypeOK
        <5>5. CASE d = c.device /\ Renumbering!Binds(queue, c.brain)
          <6>1. c.brain = b
            BY <1>1, <5>1, <5>5 DEF QueueInv, Apart, Own
          <6>2. runtime[d].work \subseteq runtime[d].bound
            BY <1>1 DEF QueueInv, Whole
          <6> QED
            BY <5>3, <5>5, <6>1, <6>2 DEF Renumbering!Binds
        <5>6. CASE d = c.device /\ ~Renumbering!Binds(queue, c.brain)
          <6>1. runtime' = [runtime EXCEPT ![c.device] = queue]
            BY <4>3, <5>1, <5>2, <5>6 DEF Renumbering!Transact
          <6> QED
            BY <1>1, <5>1, <5>3, <5>6, <6>1 DEF QueueInv, Renumbering!TypeOK
        <5> QED
          BY <5>4, <5>5, <5>6
      <4> QED
        BY <2>3, <3>3, <4>1, <4>2, <4>3
    <3> QED
      BY <3>2, <3>3 DEF KeepsAt
  <2>4. runtime' = runtime => KeepsAt(d, b)
    BY DEF KeepsAt
  <2> QED
    BY <1>1, <2>1, <2>2, <2>3, <2>4 DEF Renumbering!Next
<1>2. QueueInv /\ QueueInv' /\ [Renumbering!Next]_Renumbering!vars => [Renumbering!KeepsToItsBrain]_Renumbering!vars
  BY <1>1
<1> QED
  BY <1>2, QueueInvariance, PTL DEF Renumbering!Spec, Renumbering!QueueFollowsBrain

-----------------------------------------------------------------------------
(* Sums over finite sets.                                                  *)

\* Induction over the subsets of a finite set.
LEMMA SubsetInduction ==
    ASSUME NEW S, IsFiniteSet(S), NEW Good,
           \A T \in SUBSET S : (\A U \in SUBSET T : U # T => U \in Good) => T \in Good
    PROVE  SUBSET S \subseteq Good
<1> DEFINE Bad == (SUBSET S) \ Good
<1>1. SUFFICES ASSUME Bad # {} PROVE FALSE
  OBVIOUS
<1>2. IsWellFoundedOn(StrictSubsetOrdering(S), SUBSET S)
  BY FS_StrictSubsetOrderingWellFounded, FS_FiniteSubsetsOfFinite
<1>3. \E T \in Bad : \A U \in Bad : ~ (<<U, T>> \in StrictSubsetOrdering(S))
  <2>1. Bad \subseteq SUBSET S
    OBVIOUS
  <2> HIDE DEF Bad
  <2> QED
    BY <1>1, <1>2, <2>1, WFMin
<1>4. PICK T \in Bad : \A U \in Bad : ~ (<<U, T>> \in StrictSubsetOrdering(S))
  BY <1>3
<1>5. \A U \in SUBSET T : U # T => U \in Good
  BY <1>4 DEF StrictSubsetOrdering
<1>6. T \in SUBSET S /\ T \notin Good
  OBVIOUS
<1>7. T \in Good
  BY Zenon, <1>5, <1>6
<1> QED
  BY <1>6, <1>7

\* The steps of a sum over the subsets of S.
Summing(f, S, g) ==
    g = [s \in SUBSET S |-> IF s = {} THEN 0 ELSE f[CHOOSE x \in s : TRUE] + g[s \ {CHOOSE x \in s : TRUE}]]

LEMMA SumChosen == ASSUME NEW f, NEW S PROVE SumFunctionOnSet(f, S) = (CHOOSE g : Summing(f, S, g))[S]
BY Zenon DEF SumFunctionOnSet, FoldFunctionOnSet, MapThenFoldSet, Summing

\* Two functions with these steps are one, and one has them.
LEMMA SummingUnique ==
    ASSUME NEW f, NEW S, IsFiniteSet(S), NEW g, NEW h, Summing(f, S, g), Summing(f, S, h)
    PROVE  g = h
<1> DEFINE Good == {T \in SUBSET S : g[T] = h[T]}
<1>1. ASSUME NEW T \in SUBSET S, \A U \in SUBSET T : U # T => U \in Good PROVE T \in Good
  <2>1. T # {} => T \ {CHOOSE x \in T : TRUE} \in Good
    BY <1>1
  <2> QED
    BY <2>1 DEF Summing
<1>2. SUBSET S \subseteq Good
  <2> HIDE DEF Good
  <2> QED
    BY <1>1, SubsetInduction
<1>3. \A T \in SUBSET S : g[T] = h[T]
  BY <1>2
<1> QED
  BY <1>3 DEF Summing

Sums(f, S) == CHOOSE g : Summing(f, S, g)

LEMMA SummingRestricted ==
    ASSUME NEW f, NEW S, NEW g, Summing(f, S, g), NEW T \in SUBSET S
    PROVE  Summing(f, T, [s \in SUBSET T |-> g[s]])
BY DEF Summing

LEMMA SummingExists == ASSUME NEW f, NEW S, IsFiniteSet(S) PROVE \E g : Summing(f, S, g)
<1> DEFINE Good == {T \in SUBSET S : \E g : Summing(f, T, g)}
<1>1. ASSUME NEW T \in SUBSET S, \A U \in SUBSET T : U # T => U \in Good PROVE T \in Good
  <2> DEFINE last(s) == CHOOSE x \in s : TRUE
             h == [s \in SUBSET T |-> IF s = {} THEN 0 ELSE f[last(s)] + Sums(f, s \ {last(s)})[s \ {last(s)}]]
  <2>1. ASSUME NEW U \in SUBSET T, U # T PROVE Summing(f, U, Sums(f, U))
    BY <1>1, <2>1 DEF Sums
  <2>2. ASSUME NEW s \in SUBSET T, s # {} PROVE last(s) \in s
    BY <2>2
  <2>3. ASSUME NEW s \in SUBSET T, s # {} PROVE h[s \ {last(s)}] = Sums(f, s \ {last(s)})[s \ {last(s)}]
    <3>1. PICK U \in SUBSET T : U = s \ {last(s)}
      OBVIOUS
    <3>2. U # T /\ IsFiniteSet(U)
      BY <2>2, <2>3, <3>1, FS_Subset
    <3>3. Summing(f, U, Sums(f, U))
      BY <2>1, <3>2
    <3>4. CASE U = {}
      BY <3>1, <3>3, <3>4 DEF Summing
    <3>5. CASE U # {}
      <4>1. PICK V \in SUBSET U : V = U \ {last(U)}
        OBVIOUS
      <4>2. V # T /\ IsFiniteSet(V)
        BY <3>2, <4>1, FS_Subset
      <4>3. Summing(f, V, Sums(f, V))
        <5>1. V \in SUBSET T
          OBVIOUS
        <5> QED
          BY Zenon, <2>1, <4>2, <5>1
      <4>4. Sums(f, V) = [r \in SUBSET V |-> Sums(f, U)[r]]
        <5>1. Summing(f, V, [r \in SUBSET V |-> Sums(f, U)[r]])
          BY Zenon, <3>3, SummingRestricted
        <5> QED
          BY Zenon, <4>2, <4>3, <5>1, SummingUnique
      <4>5. Sums(f, V)[V] = Sums(f, U)[V]
        BY <4>4
      <4>6. Sums(f, U)[U] = f[last(U)] + Sums(f, U)[V]
        BY <3>3, <3>5, <4>1 DEF Summing
      <4>7. h[U] = f[last(U)] + Sums(f, V)[V]
        BY <3>5, <4>1
      <4> QED
        BY <3>1, <4>5, <4>6, <4>7
    <3> QED
      BY <3>4, <3>5
  <2>4. h = [s \in SUBSET T |-> IF s = {} THEN 0 ELSE f[last(s)] + h[s \ {last(s)}]]
    <3>1. \A s \in SUBSET T : h[s] = IF s = {} THEN 0 ELSE f[last(s)] + Sums(f, s \ {last(s)})[s \ {last(s)}]
      OBVIOUS
    <3>2. h = [s \in SUBSET T |-> h[s]]
      OBVIOUS
    <3> HIDE DEF h, last
    <3>3. \A s \in SUBSET T : h[s] = IF s = {} THEN 0 ELSE f[last(s)] + h[s \ {last(s)}]
      BY <2>3, <3>1
    <3> QED
      BY <3>2, <3>3
  <2>5. Summing(f, T, h)
    BY <2>4 DEF Summing
  <2> QED
    BY <2>5
<1>2. SUBSET S \subseteq Good
  <2> HIDE DEF Good
  <2> QED
    BY <1>1, SubsetInduction
<1> QED
  BY <1>2

\* A sum is the chosen element and the sum of the others.
LEMMA SumStep ==
    ASSUME NEW f, NEW S, IsFiniteSet(S), S # {}
    PROVE  \E x \in S : SumFunctionOnSet(f, S) = f[x] + SumFunctionOnSet(f, S \ {x})
<1>1. PICK x \in S : x = CHOOSE y \in S : TRUE
  OBVIOUS
<1>2. PICK T \in SUBSET S : T = S \ {x}
  OBVIOUS
<1>3. IsFiniteSet(T)
  BY FS_Subset
<1>4. Summing(f, S, Sums(f, S)) /\ Summing(f, T, Sums(f, T))
  BY <1>3, SummingExists DEF Sums
<1>5. Sums(f, T) = [s \in SUBSET T |-> Sums(f, S)[s]]
  BY ZenonT(60), <1>3, <1>4, SummingRestricted, SummingUnique
<1>6. Sums(f, S)[S] = f[x] + Sums(f, S)[T]
  BY <1>1, <1>2, <1>4 DEF Summing
<1>7. SumFunctionOnSet(f, S) = Sums(f, S)[S] /\ SumFunctionOnSet(f, T) = Sums(f, T)[T]
  BY SumChosen DEF Sums
<1> QED
  BY <1>2, <1>5, <1>6, <1>7

LEMMA SumEmpty == ASSUME NEW f PROVE SumFunctionOnSet(f, {}) = 0
<1>1. Summing(f, {}, Sums(f, {}))
  BY SummingExists, FS_EmptySet DEF Sums
<1>2. SumFunctionOnSet(f, {}) = Sums(f, {})[{}]
  BY SumChosen DEF Sums
<1> QED
  BY <1>1, <1>2 DEF Summing

LEMMA SumType ==
    ASSUME NEW S, IsFiniteSet(S), NEW f, \A x \in S : f[x] \in Nat
    PROVE  \A T \in SUBSET S : SumFunctionOnSet(f, T) \in Nat
<1> DEFINE Good == {T \in SUBSET S : SumFunctionOnSet(f, T) \in Nat}
<1>1. ASSUME NEW T \in SUBSET S, \A U \in SUBSET T : U # T => U \in Good PROVE T \in Good
  <2>1. CASE T = {}
    BY <2>1, SumEmpty
  <2>2. CASE T # {}
    <3>1. PICK x \in T : SumFunctionOnSet(f, T) = f[x] + SumFunctionOnSet(f, T \ {x})
      BY <2>2, SumStep, FS_Subset
    <3>2. T \ {x} \in Good
      BY <1>1
    <3> QED
      BY <3>1, <3>2
  <2> QED
    BY <2>1, <2>2
<1>2. SUBSET S \subseteq Good
  <2> HIDE DEF Good
  <2> QED
    BY <1>1, SubsetInduction
<1> QED
  BY <1>2

\* It may be any of them.
LEMMA SumRemove ==
    ASSUME NEW S, IsFiniteSet(S), NEW f, \A x \in S : f[x] \in Nat
    PROVE  \A T \in SUBSET S : \A x \in T : SumFunctionOnSet(f, T) = f[x] + SumFunctionOnSet(f, T \ {x})
<1> DEFINE Good == {T \in SUBSET S : \A x \in T : SumFunctionOnSet(f, T) = f[x] + SumFunctionOnSet(f, T \ {x})}
<1>1. ASSUME NEW T \in SUBSET S, \A U \in SUBSET T : U # T => U \in Good PROVE T \in Good
  <2> SUFFICES ASSUME NEW x \in T PROVE SumFunctionOnSet(f, T) = f[x] + SumFunctionOnSet(f, T \ {x})
    OBVIOUS
  <2>1. PICK y \in T : SumFunctionOnSet(f, T) = f[y] + SumFunctionOnSet(f, T \ {y})
    BY SumStep, FS_Subset
  <2>2. CASE x = y
    BY <2>1, <2>2
  <2>3. CASE x # y
    <3>1. PICK U \in SUBSET T : U = (T \ {x}) \ {y}
      OBVIOUS
    <3>2. SumFunctionOnSet(f, T \ {y}) = f[x] + SumFunctionOnSet(f, U)
      <4>1. T \ {y} \in Good /\ x \in T \ {y} /\ (T \ {y}) \ {x} = U
        BY <1>1, <2>3, <3>1
      <4> QED
        BY <4>1
    <3>3. SumFunctionOnSet(f, T \ {x}) = f[y] + SumFunctionOnSet(f, U)
      <4>1. T \ {x} \in Good /\ y \in T \ {x} /\ (T \ {x}) \ {y} = U
        BY <1>1, <2>3, <3>1
      <4> QED
        BY <4>1
    <3>4. SumFunctionOnSet(f, U) \in Nat /\ f[x] \in Nat /\ f[y] \in Nat
      BY SumType
    <3> QED
      BY <2>1, <3>2, <3>3, <3>4
  <2> QED
    BY <2>2, <2>3
<1>2. SUBSET S \subseteq Good
  <2> HIDE DEF Good
  <2> QED
    BY <1>1, SubsetInduction
<1> QED
  BY <1>2

LEMMA SumAgree ==
    ASSUME NEW S, IsFiniteSet(S), NEW f, NEW g, \A x \in S : f[x] = g[x] /\ f[x] \in Nat
    PROVE  \A T \in SUBSET S : SumFunctionOnSet(f, T) = SumFunctionOnSet(g, T)
<1> DEFINE Good == {T \in SUBSET S : SumFunctionOnSet(f, T) = SumFunctionOnSet(g, T)}
<1>1. ASSUME NEW T \in SUBSET S, \A U \in SUBSET T : U # T => U \in Good PROVE T \in Good
  <2>1. CASE T = {}
    BY <2>1, SumEmpty
  <2>2. CASE T # {}
    <3>1. PICK x \in T : SumFunctionOnSet(f, T) = f[x] + SumFunctionOnSet(f, T \ {x})
      BY <2>2, SumStep, FS_Subset
    <3>2. SumFunctionOnSet(g, T) = g[x] + SumFunctionOnSet(g, T \ {x})
      BY SumRemove
    <3>3. T \ {x} \in Good
      BY <1>1
    <3> QED
      BY <3>1, <3>2, <3>3
  <2> QED
    BY <2>1, <2>2
<1>2. SUBSET S \subseteq Good
  <2> HIDE DEF Good
  <2> QED
    BY <1>1, SubsetInduction
<1> QED
  BY <1>2

\* Parts of a set have parts of its sum.
LEMMA SumParts ==
    ASSUME NEW S, IsFiniteSet(S), NEW f, \A x \in S : f[x] \in Nat, NEW A \in SUBSET S
    PROVE  SumFunctionOnSet(f, S) = SumFunctionOnSet(f, A) + SumFunctionOnSet(f, S \ A)
<1> DEFINE Good == {T \in SUBSET S :
                       SumFunctionOnSet(f, T) = SumFunctionOnSet(f, T \cap A) + SumFunctionOnSet(f, T \ A)}
<1>1. ASSUME NEW T \in SUBSET S, \A U \in SUBSET T : U # T => U \in Good PROVE T \in Good
  <2>0. \A U \in SUBSET S : SumFunctionOnSet(f, U) \in Nat
    BY SumType
  <2>1. CASE T = {}
    <3>1. T \cap A = {} /\ T \ A = {}
      BY <2>1
    <3> QED
      BY <2>1, <3>1, SumEmpty
  <2>2. CASE T # {}
    <3>1. PICK x \in T : TRUE
      BY <2>2
    <3>2. SumFunctionOnSet(f, T) = f[x] + SumFunctionOnSet(f, T \ {x})
      BY SumRemove
    <3>3. SumFunctionOnSet(f, T \ {x}) = SumFunctionOnSet(f, (T \ {x}) \cap A) + SumFunctionOnSet(f, (T \ {x}) \ A)
      <4>1. T \ {x} \in Good
        BY <1>1
      <4> QED
        BY <4>1
    <3>4. CASE x \in A
      <4>1. (T \ {x}) \cap A = (T \cap A) \ {x} /\ (T \ {x}) \ A = T \ A
        BY <3>4
      <4>2. SumFunctionOnSet(f, T \cap A) = f[x] + SumFunctionOnSet(f, (T \cap A) \ {x})
        BY <3>4, SumRemove
      <4>3. /\ f[x] \in Nat /\ SumFunctionOnSet(f, (T \cap A) \ {x}) \in Nat /\ SumFunctionOnSet(f, T \ A) \in Nat
        BY <2>0
      <4> QED
        BY <3>2, <3>3, <4>1, <4>2, <4>3
    <3>5. CASE x \notin A
      <4>1. (T \ {x}) \cap A = T \cap A /\ (T \ {x}) \ A = (T \ A) \ {x}
        BY <3>5
      <4>2. SumFunctionOnSet(f, T \ A) = f[x] + SumFunctionOnSet(f, (T \ A) \ {x})
        BY <3>5, SumRemove
      <4>3. /\ f[x] \in Nat /\ SumFunctionOnSet(f, (T \ A) \ {x}) \in Nat /\ SumFunctionOnSet(f, T \cap A) \in Nat
        BY <2>0
      <4>4. SumFunctionOnSet(f, T \ {x}) = SumFunctionOnSet(f, T \cap A) + SumFunctionOnSet(f, (T \ A) \ {x})
        BY <3>3, <4>1
      <4> QED
        BY <3>2, <4>2, <4>3, <4>4
    <3> QED
      BY <3>4, <3>5
  <2> QED
    BY <2>1, <2>2
<1>2. SUBSET S \subseteq Good
  <2> HIDE DEF Good
  <2> QED
    BY <1>1, SubsetInduction
<1>3. S \cap A = A
  OBVIOUS
<1> QED
  BY <1>2, <1>3

LEMMA SumOrdered ==
    ASSUME NEW S, IsFiniteSet(S), NEW f, NEW g, \A x \in S : f[x] \in Nat /\ g[x] \in Nat /\ f[x] <= g[x]
    PROVE  SumFunctionOnSet(f, S) <= SumFunctionOnSet(g, S)
<1> DEFINE Good == {T \in SUBSET S : SumFunctionOnSet(f, T) <= SumFunctionOnSet(g, T)}
<1>1. ASSUME NEW T \in SUBSET S, \A U \in SUBSET T : U # T => U \in Good PROVE T \in Good
  <2>1. CASE T = {}
    BY <2>1, SumEmpty
  <2>2. CASE T # {}
    <3>1. PICK x \in T : SumFunctionOnSet(f, T) = f[x] + SumFunctionOnSet(f, T \ {x})
      BY <2>2, SumStep, FS_Subset
    <3>2. SumFunctionOnSet(g, T) = g[x] + SumFunctionOnSet(g, T \ {x})
      BY SumRemove
    <3>3. T \ {x} \in Good
      BY <1>1
    <3>4. SumFunctionOnSet(f, T \ {x}) \in Nat /\ SumFunctionOnSet(g, T \ {x}) \in Nat
      BY SumType
    <3>5. SumFunctionOnSet(f, T \ {x}) <= SumFunctionOnSet(g, T \ {x})
      BY <3>3
    <3>6. f[x] \in Nat /\ g[x] \in Nat /\ f[x] <= g[x]
      OBVIOUS
    <3> HIDE DEF Good
    <3>7. SumFunctionOnSet(f, T) <= SumFunctionOnSet(g, T)
      BY <3>1, <3>2, <3>4, <3>5, <3>6
    <3> QED
      BY <3>7 DEF Good
  <2> QED
    BY <2>1, <2>2
<1>2. SUBSET S \subseteq Good
  <2> HIDE DEF Good
  <2> QED
    BY <1>1, SubsetInduction
<1> QED
  BY <1>2
-----------------------------------------------------------------------------
(* The room of the queue.                                                  *)

CONSTANTS Queued, Direct, Routes, MaxBytes, Escape, Limit, BODY_BUDGET, MAX_PENDING

VARIABLES states, sizes, fanned, unsettled, bodies

Spacing == INSTANCE QueueSpace WITH
    Job <- Queued, state <- states, raw <- sizes, prepared <- fanned, open <- unsettled, kept <- bodies

SpaceStates == {"absent", "sent", "prepared", "complete", "cancelled", "running", "answered", "failed", "uncertain", "pending"}

SpaceTypes ==
    /\ states \in [Queued -> SpaceStates]
    /\ sizes \in [Queued -> 0..MaxBytes] /\ unsettled \in [Queued -> Nat]
    /\ fanned \subseteq Queued /\ bodies \subseteq Queued \X {"job", "deliveries"}

\* What is not there has no size; a direct message is no job; nothing is
\* prepared or answered before its time; and a job has its routes at most.
RowsAreRight ==
    \A j \in Queued :
        /\ states[j] = "absent" => j \notin fanned /\ unsettled[j] = 0
        /\ states[j] \in {"absent", "pending", "running"} => sizes[j] = 0
        /\ states[j] \in {"pending", "running", "answered"} => j \notin fanned
        /\ j \in Direct => states[j] \in {"absent", "sent"} /\ sizes[j] = 0
        /\ j \notin Direct => states[j] # "sent" /\ unsettled[j] <= Routes

SpaceInv == SpaceTypes /\ RowsAreRight /\ Spacing!RoomIsKept

JobRows(rows) == {j \in Queued : <<j, "job">> \in rows}
DeliveryRows(rows) == {j \in Queued : <<j, "deliveries">> \in rows}
AtWork == {j \in Queued : states[j] \in {"running", "answered"}}
Active == {j \in Queued : states[j] \notin {"complete", "cancelled", "absent", "sent"}}
Finished == {j \in Queued : states[j] \in {"complete", "cancelled", "sent"}}
JobSlots == [j \in Queued |-> 1 + Routes]

StoredOf(rows) == SumFunctionOnSet(Spacing!JobBytes, JobRows(rows)) + SumFunctionOnSet(Spacing!DeliveryBytes, DeliveryRows(rows))

LEMMA TotalIsSum == ASSUME NEW S, NEW f PROVE Spacing!Total(S, f) = SumFunctionOnSet(f, S)
BY Zenon DEF Spacing!Total, Spacing!SumFunctionOnSet, Spacing!FoldFunctionOnSet, Spacing!MapThenFoldSet,
   SumFunctionOnSet, FoldFunctionOnSet, MapThenFoldSet

LEMMA QueuedIsFinite == ASSUME Spacing!QueueSpaceAssumption PROVE IsFiniteSet(Queued) /\ \A S \in SUBSET Queued : IsFiniteSet(S)
<1>1. IsFiniteSet(Queued)
  BY Zenon DEF Spacing!QueueSpaceAssumption, Spacing!IsFiniteSet, IsFiniteSet
<1> QED
  BY <1>1, FS_Subset

LEMMA StoredIs == Spacing!Stored = StoredOf(bodies)
<1>1. Spacing!Keeps("job") = JobRows(bodies) /\ Spacing!Keeps("deliveries") = DeliveryRows(bodies)
  BY DEF Spacing!Keeps, JobRows, DeliveryRows
<1> QED
  BY <1>1, TotalIsSum DEF Spacing!Stored, StoredOf

LEMMA RoomIs == Spacing!RoomIsKept <=>
    /\ StoredOf(bodies) + SumFunctionOnSet(Spacing!Owed, AtWork) <= Limit
    /\ SumFunctionOnSet(JobSlots, Active) + SumFunctionOnSet(unsettled, Finished) <= MAX_PENDING
<1>1. {j \in Queued : states[j] \in Spacing!Working} = AtWork
  BY DEF Spacing!Working, AtWork
<1>2. {j \in Queued : states[j] \notin Spacing!Settled \cup {"absent", "sent"}} = Active
      /\ {j \in Queued : states[j] \in Spacing!Settled \cup {"sent"}} = Finished
  BY DEF Spacing!Settled, Active, Finished
<1>3. Spacing!Slots = SumFunctionOnSet(JobSlots, Active) + SumFunctionOnSet(unsettled, Finished)
  BY <1>2, TotalIsSum DEF Spacing!Slots, JobSlots
<1>4. Spacing!Total({j \in Queued : states[j] \in Spacing!Working}, Spacing!Owed) = SumFunctionOnSet(Spacing!Owed, AtWork)
  BY <1>1, TotalIsSum
<1> QED
  BY <1>3, <1>4, StoredIs DEF Spacing!RoomIsKept

\* The sizes are numbers, and longer answers take more.
LEMMA SpaceNumbers ==
    ASSUME Spacing!QueueSpaceAssumption
    PROVE  /\ \A n \in Nat : Spacing!Message(n) \in Nat /\ (1 + Routes) * Spacing!Message(n) \in Nat /\ Routes * Spacing!Message(n) \in Nat
                             /\ Spacing!AnswerSpace(n) \in Nat
           /\ \A n \in Nat : (1 + Routes) * Spacing!Message(n) = Spacing!Message(n) + Routes * Spacing!Message(n)
           /\ \A n \in Nat : Spacing!AnswerSpace(n) = n + (1 + Routes) * Spacing!Message(n)
           /\ \A m \in Nat, n \in Nat : m <= n => Spacing!AnswerSpace(m) <= Spacing!AnswerSpace(n)
           /\ Spacing!Message(0) = 1
<1>0. Routes \in Nat /\ Escape \in Nat
  BY DEF Spacing!QueueSpaceAssumption
<1>a. \A a \in Nat, b \in Nat : a * b \in Nat
  OBVIOUS
<1>b. \A a \in Nat, m \in Nat, n \in Nat : m <= n => a * m <= a * n
  <2> SUFFICES ASSUME NEW a \in Nat, NEW m \in Nat, NEW n \in Nat, m <= n PROVE a * m <= a * n
    OBVIOUS
  <2>1. PICK d \in Nat : n = m + d
    <3>1. n - m \in Nat /\ n = m + (n - m)
      OBVIOUS
    <3> QED
      BY <3>1
  <2>2. a * n = a * m + a * d /\ a * d \in Nat /\ a * m \in Nat
    BY <2>1
  <2> QED
    BY <2>2
<1>1. \A n \in Nat : Spacing!Message(n) = Escape * n + 1 /\ Escape * n \in Nat
  BY <1>0, <1>a DEF Spacing!Message, Spacing!Payload
<1>2. \A n \in Nat : Spacing!Message(n) \in Nat
  BY <1>1
<1>3. \A n \in Nat : (1 + Routes) * Spacing!Message(n) \in Nat /\ Routes * Spacing!Message(n) \in Nat
  BY <1>0, <1>2, <1>a
<1>4. \A n \in Nat : (1 + Routes) * Spacing!Message(n) = Spacing!Message(n) + Routes * Spacing!Message(n)
  BY <1>0, <1>2
<1>5. \A n \in Nat : Spacing!AnswerSpace(n) = n + (1 + Routes) * Spacing!Message(n)
  BY DEF Spacing!AnswerSpace
<1>6. \A n \in Nat : Spacing!AnswerSpace(n) \in Nat
  BY <1>3, <1>5
<1>7. ASSUME NEW m \in Nat, NEW n \in Nat, m <= n PROVE Spacing!AnswerSpace(m) <= Spacing!AnswerSpace(n)
  <2>1. Escape * m <= Escape * n
    BY <1>0, <1>7, <1>b
  <2>2. Spacing!Message(m) <= Spacing!Message(n)
    BY <1>1, <2>1
  <2>3. (1 + Routes) * Spacing!Message(m) <= (1 + Routes) * Spacing!Message(n)
    BY <1>0, <1>2, <1>b, <2>2
  <2> QED
    BY <1>3, <1>5, <1>7, <2>3
<1>8. Spacing!Message(0) = 1
  BY <1>0 DEF Spacing!Message, Spacing!Payload
<1> QED
  BY <1>2, <1>3, <1>4, <1>5, <1>6, <1>7, <1>8

LEMMA SpaceSizes ==
    ASSUME Spacing!QueueSpaceAssumption, SpaceTypes
    PROVE  \A j \in Queued :
              /\ Spacing!JobBytes[j] \in Nat /\ Spacing!DeliveryBytes[j] \in Nat /\ Spacing!Owed[j] \in Nat /\ Spacing!Reserved[j] \in Nat
              /\ Spacing!Owed[j] <= Spacing!Reserved[j] /\ unsettled[j] \in Nat /\ JobSlots[j] \in Nat
<1> SUFFICES ASSUME NEW j \in Queued
    PROVE  /\ Spacing!JobBytes[j] \in Nat /\ Spacing!DeliveryBytes[j] \in Nat /\ Spacing!Owed[j] \in Nat /\ Spacing!Reserved[j] \in Nat
           /\ Spacing!Owed[j] <= Spacing!Reserved[j] /\ unsettled[j] \in Nat /\ JobSlots[j] \in Nat
  OBVIOUS
<1>1. PICK n \in Nat : n = sizes[j]
  BY DEF SpaceTypes
<1>2. MaxBytes \in Nat /\ Routes \in Nat
  BY DEF Spacing!QueueSpaceAssumption
<1>3. Spacing!Message(n) \in Nat /\ Routes * Spacing!Message(n) \in Nat /\ (1 + Routes) * Spacing!Message(n) \in Nat /\ Spacing!AnswerSpace(n) \in Nat
      /\ Spacing!AnswerSpace(MaxBytes) \in Nat /\ Spacing!AnswerSpace(n) = n + (1 + Routes) * Spacing!Message(n)
  BY <1>2, SpaceNumbers
<1>4. Spacing!JobBytes[j] \in Nat
  BY <1>1, <1>3 DEF Spacing!JobBytes, Spacing!Payload
<1>5. Spacing!DeliveryBytes[j] \in Nat
  BY <1>1, <1>3 DEF Spacing!DeliveryBytes, Spacing!Fan
<1>6. Spacing!Owed[j] \in Nat /\ Spacing!Reserved[j] \in Nat /\ Spacing!Owed[j] <= Spacing!Reserved[j]
  BY <1>1, <1>3 DEF Spacing!Owed, Spacing!Reserved
<1> QED
  BY <1>2, <1>4, <1>5, <1>6 DEF SpaceTypes, JobSlots

\* A sum and one of its elements.
LEMMA SumAt ==
    ASSUME NEW S, IsFiniteSet(S), NEW f, \A x \in S : f[x] \in Nat, NEW T \in SUBSET S, NEW j \in S
    PROVE  /\ SumFunctionOnSet(f, T \ {j}) \in Nat /\ SumFunctionOnSet(f, T) \in Nat
           /\ SumFunctionOnSet(f, T) = SumFunctionOnSet(f, T \ {j}) + (IF j \in T THEN f[j] ELSE 0)
<1>1. SumFunctionOnSet(f, T \ {j}) \in Nat /\ SumFunctionOnSet(f, T) \in Nat
  BY SumType
<1>2. CASE j \in T
  <2>1. SumFunctionOnSet(f, T) = f[j] + SumFunctionOnSet(f, T \ {j}) /\ f[j] \in Nat
    BY <1>2, SumRemove
  <2> QED
    BY <1>1, <1>2, <2>1
<1>3. CASE j \notin T
  <2>1. T \ {j} = T
    BY <1>3
  <2>2. SumFunctionOnSet(f, T \ {j}) = SumFunctionOnSet(f, T)
    BY <2>1
  <2>3. (IF j \in T THEN f[j] ELSE 0) = 0
    BY <1>3
  <2> QED
    BY <1>1, <2>2, <2>3
<1> QED
  BY <1>2, <1>3

LEMMA SumSmaller ==
    ASSUME NEW S, IsFiniteSet(S), NEW f, \A x \in S : f[x] \in Nat, NEW T \in SUBSET S, NEW U \in SUBSET T
    PROVE  /\ SumFunctionOnSet(f, U) \in Nat /\ SumFunctionOnSet(f, T) \in Nat /\ SumFunctionOnSet(f, T \ U) \in Nat
           /\ SumFunctionOnSet(f, T) = SumFunctionOnSet(f, U) + SumFunctionOnSet(f, T \ U)
           /\ SumFunctionOnSet(f, U) <= SumFunctionOnSet(f, T)
<1>1. SumFunctionOnSet(f, U) \in Nat /\ SumFunctionOnSet(f, T) \in Nat /\ SumFunctionOnSet(f, T \ U) \in Nat
  BY SumType
<1>2. IsFiniteSet(T)
  BY FS_Subset
<1>3. SumFunctionOnSet(f, T) = SumFunctionOnSet(f, U) + SumFunctionOnSet(f, T \ U)
  BY <1>2, SumParts
<1> QED
  BY <1>1, <1>3

\* What job j takes of the room when these rows are kept, and of the slots.
Weight(j, rows) ==
    (IF <<j, "job">> \in rows THEN Spacing!JobBytes[j] ELSE 0)
    + (IF <<j, "deliveries">> \in rows THEN Spacing!DeliveryBytes[j] ELSE 0)
    + (IF j \in AtWork THEN Spacing!Owed[j] ELSE 0)
SlotsOf(j) == (IF j \in Active THEN JobSlots[j] ELSE 0) + (IF j \in Finished THEN unsettled[j] ELSE 0)

RoomOf(rows) == StoredOf(rows) + SumFunctionOnSet(Spacing!Owed, AtWork)
SlotsTaken == SumFunctionOnSet(JobSlots, Active) + SumFunctionOnSet(unsettled, Finished)

\* What the others take with these rows.
Others(j, rows) ==
    SumFunctionOnSet(Spacing!JobBytes, JobRows(rows) \ {j}) + SumFunctionOnSet(Spacing!DeliveryBytes, DeliveryRows(rows) \ {j})
    + SumFunctionOnSet(Spacing!Owed, AtWork \ {j})
OtherSlots(j) == SumFunctionOnSet(JobSlots, Active \ {j}) + SumFunctionOnSet(unsettled, Finished \ {j})

LEMMA RoomAt ==
    ASSUME Spacing!QueueSpaceAssumption, SpaceTypes, NEW j \in Queued, NEW rows
    PROVE  /\ RoomOf(rows) = Others(j, rows) + Weight(j, rows) /\ SlotsTaken = OtherSlots(j) + SlotsOf(j)
           /\ Others(j, rows) \in Nat /\ Weight(j, rows) \in Nat /\ OtherSlots(j) \in Nat /\ SlotsOf(j) \in Nat
<1>1. IsFiniteSet(Queued)
  BY QueuedIsFinite
<1>2. /\ JobRows(rows) \in SUBSET Queued /\ DeliveryRows(rows) \in SUBSET Queued /\ AtWork \in SUBSET Queued
      /\ Active \in SUBSET Queued /\ Finished \in SUBSET Queued
  BY DEF JobRows, DeliveryRows, AtWork, Active, Finished
<1>3. \A f : (\A x \in Queued : f[x] \in Nat) => \A T \in SUBSET Queued :
           /\ SumFunctionOnSet(f, T \ {j}) \in Nat /\ SumFunctionOnSet(f, T) \in Nat
           /\ SumFunctionOnSet(f, T) = SumFunctionOnSet(f, T \ {j}) + (IF j \in T THEN f[j] ELSE 0)
  BY <1>1, SumAt
<1>4. \A x \in Queued : /\ Spacing!JobBytes[x] \in Nat /\ Spacing!DeliveryBytes[x] \in Nat /\ Spacing!Owed[x] \in Nat
                        /\ unsettled[x] \in Nat /\ JobSlots[x] \in Nat
  BY SpaceSizes
<1>5. /\ (j \in JobRows(rows)) = (<<j, "job">> \in rows)
      /\ (j \in DeliveryRows(rows)) = (<<j, "deliveries">> \in rows)
  BY DEF JobRows, DeliveryRows
<1>6. PICK a : a = SumFunctionOnSet(Spacing!JobBytes, JobRows(rows) \ {j})
  OBVIOUS
<1>7. PICK b : b = SumFunctionOnSet(Spacing!DeliveryBytes, DeliveryRows(rows) \ {j})
  OBVIOUS
<1>8. PICK c : c = SumFunctionOnSet(Spacing!Owed, AtWork \ {j})
  OBVIOUS
<1>9. a \in Nat /\ SumFunctionOnSet(Spacing!JobBytes, JobRows(rows)) = a + (IF <<j, "job">> \in rows THEN Spacing!JobBytes[j] ELSE 0)
  BY <1>2, <1>3, <1>4, <1>5, <1>6
<1>10. b \in Nat
       /\ SumFunctionOnSet(Spacing!DeliveryBytes, DeliveryRows(rows)) = b + (IF <<j, "deliveries">> \in rows THEN Spacing!DeliveryBytes[j] ELSE 0)
  BY <1>2, <1>3, <1>4, <1>5, <1>7
<1>11. c \in Nat /\ SumFunctionOnSet(Spacing!Owed, AtWork) = c + (IF j \in AtWork THEN Spacing!Owed[j] ELSE 0)
  BY <1>2, <1>3, <1>4, <1>8
<1>12. RoomOf(rows) = Others(j, rows) + Weight(j, rows) /\ Others(j, rows) \in Nat /\ Weight(j, rows) \in Nat
  BY <1>4, <1>6, <1>7, <1>8, <1>9, <1>10, <1>11 DEF RoomOf, StoredOf, Others, Weight
<1>13. PICK d : d = SumFunctionOnSet(JobSlots, Active \ {j})
  OBVIOUS
<1>14. PICK e : e = SumFunctionOnSet(unsettled, Finished \ {j})
  OBVIOUS
<1>15. d \in Nat /\ SumFunctionOnSet(JobSlots, Active) = d + (IF j \in Active THEN JobSlots[j] ELSE 0)
  BY <1>2, <1>3, <1>4, <1>13
<1>16. e \in Nat /\ SumFunctionOnSet(unsettled, Finished) = e + (IF j \in Finished THEN unsettled[j] ELSE 0)
  BY <1>2, <1>3, <1>4, <1>14
<1>17. SlotsTaken = OtherSlots(j) + SlotsOf(j) /\ OtherSlots(j) \in Nat /\ SlotsOf(j) \in Nat
  BY <1>4, <1>13, <1>14, <1>15, <1>16 DEF SlotsTaken, OtherSlots, SlotsOf
<1> QED
  BY <1>12, <1>17

RoomSplits ==
    \A j \in Queued :
        /\ RoomOf(bodies) = Others(j, bodies) + Weight(j, bodies) /\ SlotsTaken = OtherSlots(j) + SlotsOf(j)
        /\ Others(j, bodies) \in Nat /\ Weight(j, bodies) \in Nat /\ OtherSlots(j) \in Nat /\ SlotsOf(j) \in Nat

LEMMA RoomSplit == Spacing!QueueSpaceAssumption /\ SpaceTypes => RoomSplits
BY RoomAt DEF RoomSplits

RoomFits == RoomOf(bodies) <= Limit /\ SlotsTaken <= MAX_PENDING

LEMMA RoomIsFitting == Spacing!RoomIsKept <=> RoomFits
BY RoomIs DEF RoomFits, RoomOf, SlotsTaken

\* What a step of j changes of the others' room: nothing, but what it compacts.
OnlyOf(j) ==
    /\ \A k \in Queued \ {j} :
          /\ states'[k] = states[k] /\ sizes'[k] = sizes[k] /\ unsettled'[k] = unsettled[k]
          /\ (k \in fanned') = (k \in fanned)

LEMMA OthersKeep ==
    ASSUME Spacing!QueueSpaceAssumption, SpaceTypes, NEW j \in Queued, OnlyOf(j), NEW rows,
           bodies' \subseteq rows \cup {<<j, "job">>, <<j, "deliveries">>}
    PROVE  Others(j, bodies)' <= Others(j, rows) /\ OtherSlots(j)' = OtherSlots(j)
<1>1. IsFiniteSet(Queued)
  BY QueuedIsFinite
<1>2. \A x \in Queued : /\ Spacing!JobBytes[x] \in Nat /\ Spacing!DeliveryBytes[x] \in Nat /\ Spacing!Owed[x] \in Nat
                        /\ unsettled[x] \in Nat /\ JobSlots[x] \in Nat
  BY SpaceSizes
<1>3. PICK S : S = Queued \ {j}
  OBVIOUS
<1>4. IsFiniteSet(S) /\ S \subseteq Queued
  BY <1>1, <1>3, FS_Subset
<1>5. \A x \in S : Spacing!JobBytes'[x] = Spacing!JobBytes[x]
  BY <1>3, <1>4 DEF OnlyOf, Spacing!JobBytes, Spacing!Message, Spacing!Payload
<1>6. \A x \in S : Spacing!DeliveryBytes'[x] = Spacing!DeliveryBytes[x]
  BY <1>3, <1>4 DEF OnlyOf, Spacing!DeliveryBytes, Spacing!Message, Spacing!Payload, Spacing!Fan
<1>7. \A x \in S : Spacing!Owed'[x] = Spacing!Owed[x]
  BY <1>3, <1>4 DEF OnlyOf, Spacing!Owed, Spacing!AnswerSpace, Spacing!Message, Spacing!Payload
<1>8. \A x \in S : unsettled'[x] = unsettled[x]
  BY <1>3 DEF OnlyOf
<1>9. \A f, g : (\A x \in S : f[x] = g[x] /\ f[x] \in Nat) =>
           \A T \in SUBSET S : SumFunctionOnSet(f, T) = SumFunctionOnSet(g, T)
  BY <1>4, SumAgree
<1>10. \A f : (\A x \in S : f[x] \in Nat) => \A T \in SUBSET S : \A U \in SUBSET T :
           /\ SumFunctionOnSet(f, U) \in Nat /\ SumFunctionOnSet(f, T) \in Nat
           /\ SumFunctionOnSet(f, U) <= SumFunctionOnSet(f, T)
  BY <1>4, SumSmaller
<1>11. /\ AtWork' \ {j} = AtWork \ {j} /\ Active' \ {j} = Active \ {j} /\ Finished' \ {j} = Finished \ {j}
       /\ AtWork \ {j} \in SUBSET S /\ Active \ {j} \in SUBSET S /\ Finished \ {j} \in SUBSET S
  BY <1>3 DEF OnlyOf, AtWork, Active, Finished
<1>12. /\ JobRows(bodies') \ {j} \in SUBSET (JobRows(rows) \ {j}) /\ JobRows(rows) \ {j} \in SUBSET S
       /\ DeliveryRows(bodies') \ {j} \in SUBSET (DeliveryRows(rows) \ {j}) /\ DeliveryRows(rows) \ {j} \in SUBSET S
  BY <1>3 DEF JobRows, DeliveryRows
<1>13. SumFunctionOnSet(Spacing!JobBytes', JobRows(bodies') \ {j}) <= SumFunctionOnSet(Spacing!JobBytes, JobRows(rows) \ {j})
       /\ SumFunctionOnSet(Spacing!JobBytes', JobRows(bodies') \ {j}) \in Nat /\ SumFunctionOnSet(Spacing!JobBytes, JobRows(rows) \ {j}) \in Nat
  <2>1. \A x \in S : Spacing!JobBytes[x] = Spacing!JobBytes'[x] /\ Spacing!JobBytes[x] \in Nat
    BY <1>2, <1>4, <1>5
  <2>2. SumFunctionOnSet(Spacing!JobBytes', JobRows(bodies') \ {j}) = SumFunctionOnSet(Spacing!JobBytes, JobRows(bodies') \ {j})
    <3>1. \A T \in SUBSET S : SumFunctionOnSet(Spacing!JobBytes, T) = SumFunctionOnSet(Spacing!JobBytes', T)
      BY Zenon, <1>9, <2>1
    <3>2. JobRows(bodies') \ {j} \in SUBSET S
      BY <1>12
    <3> QED
      BY Zenon, <3>1, <3>2
  <2> QED
    BY <1>10, <1>12, <2>1, <2>2
<1>14. SumFunctionOnSet(Spacing!DeliveryBytes', DeliveryRows(bodies') \ {j}) <= SumFunctionOnSet(Spacing!DeliveryBytes, DeliveryRows(rows) \ {j})
       /\ SumFunctionOnSet(Spacing!DeliveryBytes', DeliveryRows(bodies') \ {j}) \in Nat
       /\ SumFunctionOnSet(Spacing!DeliveryBytes, DeliveryRows(rows) \ {j}) \in Nat
  <2>1. \A x \in S : Spacing!DeliveryBytes[x] = Spacing!DeliveryBytes'[x] /\ Spacing!DeliveryBytes[x] \in Nat
    BY <1>2, <1>4, <1>6
  <2>2. SumFunctionOnSet(Spacing!DeliveryBytes', DeliveryRows(bodies') \ {j}) = SumFunctionOnSet(Spacing!DeliveryBytes, DeliveryRows(bodies') \ {j})
    <3>1. \A T \in SUBSET S : SumFunctionOnSet(Spacing!DeliveryBytes, T) = SumFunctionOnSet(Spacing!DeliveryBytes', T)
      BY Zenon, <1>9, <2>1
    <3>2. DeliveryRows(bodies') \ {j} \in SUBSET S
      BY <1>12
    <3> QED
      BY Zenon, <3>1, <3>2
  <2> QED
    BY <1>10, <1>12, <2>1, <2>2
<1>15. SumFunctionOnSet(Spacing!Owed', AtWork' \ {j}) = SumFunctionOnSet(Spacing!Owed, AtWork \ {j})
       /\ SumFunctionOnSet(Spacing!Owed, AtWork \ {j}) \in Nat
  <2>1. \A x \in S : Spacing!Owed[x] = Spacing!Owed'[x] /\ Spacing!Owed[x] \in Nat
    BY <1>2, <1>4, <1>7
  <2>2. \A T \in SUBSET S : SumFunctionOnSet(Spacing!Owed, T) = SumFunctionOnSet(Spacing!Owed', T)
    BY Zenon, <1>9, <2>1
  <2>3. \A T \in SUBSET S : SumFunctionOnSet(Spacing!Owed, T) \in Nat
    BY <1>10, <2>1
  <2> QED
    BY Zenon, <1>11, <2>2, <2>3
<1>16. SumFunctionOnSet(unsettled', Finished' \ {j}) = SumFunctionOnSet(unsettled, Finished \ {j})
  <2>1. \A x \in S : unsettled[x] = unsettled'[x] /\ unsettled[x] \in Nat
    BY <1>2, <1>4, <1>8
  <2>2. \A T \in SUBSET S : SumFunctionOnSet(unsettled, T) = SumFunctionOnSet(unsettled', T)
    BY Zenon, <1>9, <2>1
  <2> QED
    BY Zenon, <1>11, <2>2
<1>17. SumFunctionOnSet(JobSlots, Active' \ {j}) = SumFunctionOnSet(JobSlots, Active \ {j})
  BY <1>11
<1>18. Others(j, bodies)' = SumFunctionOnSet(Spacing!JobBytes', JobRows(bodies') \ {j})
         + SumFunctionOnSet(Spacing!DeliveryBytes', DeliveryRows(bodies') \ {j}) + SumFunctionOnSet(Spacing!Owed', AtWork' \ {j})
  BY DEF Others, JobRows, DeliveryRows
<1>19. Others(j, bodies)' <= Others(j, rows)
  BY <1>13, <1>14, <1>15, <1>18 DEF Others
<1>20. OtherSlots(j)' = OtherSlots(j)
  BY <1>16, <1>17 DEF OtherSlots, JobSlots
<1> QED
  BY <1>19, <1>20

\* So the room stays if j takes no more than is free.
LEMMA RoomStays ==
    ASSUME Spacing!QueueSpaceAssumption, SpaceTypes, SpaceTypes', NEW j \in Queued, OnlyOf(j), NEW rows,
           bodies' \subseteq rows \cup {<<j, "job">>, <<j, "deliveries">>},
           NEW size \in Nat, RoomOf(rows) + size <= Limit, Weight(j, bodies)' <= Weight(j, rows) + size,
           NEW slots \in Nat, SlotsTaken + slots <= MAX_PENDING, SlotsOf(j)' <= SlotsOf(j) + slots
    PROVE  Spacing!RoomIsKept'
<1>1. /\ RoomOf(rows) = Others(j, rows) + Weight(j, rows) /\ SlotsTaken = OtherSlots(j) + SlotsOf(j)
      /\ Others(j, rows) \in Nat /\ Weight(j, rows) \in Nat /\ OtherSlots(j) \in Nat /\ SlotsOf(j) \in Nat
  BY RoomAt
<1>2. Spacing!QueueSpaceAssumption /\ SpaceTypes' => RoomSplits'
  BY RoomSplit, PTL
<1>3. /\ RoomOf(bodies)' = Others(j, bodies)' + Weight(j, bodies)' /\ SlotsTaken' = OtherSlots(j)' + SlotsOf(j)'
      /\ Others(j, bodies)' \in Nat /\ Weight(j, bodies)' \in Nat /\ OtherSlots(j)' \in Nat /\ SlotsOf(j)' \in Nat
  BY <1>2 DEF RoomSplits
<1>5. Others(j, bodies)' <= Others(j, rows) /\ OtherSlots(j)' = OtherSlots(j)
  BY OthersKeep
<1>6. Limit \in Nat /\ MAX_PENDING \in Nat
  BY DEF Spacing!QueueSpaceAssumption
<1>7. RoomOf(bodies)' <= Limit /\ SlotsTaken' <= MAX_PENDING
  BY <1>1, <1>3, <1>5, <1>6
<1>8. Spacing!RoomIsKept' <=> RoomFits'
  BY RoomIsFitting, PTL
<1> QED
  BY <1>7, <1>8 DEF RoomFits

\* What reserve admits has room: what is stored, compacted when needed, with
\* what started work may still write.
LEMMA AdmittedFits ==
    ASSUME Spacing!QueueSpaceAssumption, SpaceTypes, NEW slots \in Nat, NEW size \in Nat, NEW ceiling \in Nat,
           Spacing!Admits(slots, size, ceiling)
    PROVE  /\ Spacing!Compacted(size, ceiling) \subseteq bodies
           /\ RoomOf(Spacing!Compacted(size, ceiling)) + size <= ceiling
           /\ slots > 0 => SlotsTaken + slots <= MAX_PENDING
<1>1. IsFiniteSet(Queued)
  BY QueuedIsFinite
<1>2. \A x \in Queued : /\ Spacing!JobBytes[x] \in Nat /\ Spacing!DeliveryBytes[x] \in Nat /\ Spacing!Owed[x] \in Nat /\ Spacing!Reserved[x] \in Nat
                        /\ Spacing!Owed[x] <= Spacing!Reserved[x]
  BY SpaceSizes
<1>3. Spacing!Slots = SlotsTaken
  <2>1. {j \in Queued : states[j] \notin Spacing!Settled \cup {"absent", "sent"}} = Active
        /\ {j \in Queued : states[j] \in Spacing!Settled \cup {"sent"}} = Finished
    BY DEF Spacing!Settled, Active, Finished
  <2> QED
    BY <2>1, TotalIsSum DEF Spacing!Slots, JobSlots, SlotsTaken
<1>4. Spacing!Used = StoredOf(bodies) + SumFunctionOnSet(Spacing!Reserved, AtWork)
  <2>1. {j \in Queued : states[j] \in Spacing!Working} = AtWork
    BY DEF Spacing!Working, AtWork
  <2> QED
    BY <2>1, TotalIsSum, StoredIs DEF Spacing!Used
<1>5. AtWork \in SUBSET Queued /\ JobRows(bodies) \in SUBSET Queued /\ DeliveryRows(bodies) \in SUBSET Queued
  BY DEF AtWork, JobRows, DeliveryRows
<1>6. /\ SumFunctionOnSet(Spacing!Owed, AtWork) \in Nat /\ SumFunctionOnSet(Spacing!Reserved, AtWork) \in Nat
      /\ SumFunctionOnSet(Spacing!Owed, AtWork) <= SumFunctionOnSet(Spacing!Reserved, AtWork)
  <2>1. IsFiniteSet(AtWork) /\ \A x \in AtWork : Spacing!Owed[x] \in Nat /\ Spacing!Reserved[x] \in Nat /\ Spacing!Owed[x] <= Spacing!Reserved[x]
    BY <1>1, <1>2, <1>5, FS_Subset
  <2>2. SumFunctionOnSet(Spacing!Owed, AtWork) <= SumFunctionOnSet(Spacing!Reserved, AtWork)
    BY <2>1, SumOrdered
  <2>3. SumFunctionOnSet(Spacing!Owed, AtWork) \in Nat /\ SumFunctionOnSet(Spacing!Reserved, AtWork) \in Nat
    BY <2>1, SumType
  <2> QED
    BY <2>2, <2>3
<1>7. Spacing!Trimmed \subseteq bodies
  BY DEF Spacing!Trimmed, Spacing!TrimmedOf
<1>9. JobRows(Spacing!Trimmed) \in SUBSET JobRows(bodies) /\ DeliveryRows(Spacing!Trimmed) \in SUBSET DeliveryRows(bodies)
  BY <1>7 DEF JobRows, DeliveryRows
<1>10. PICK a : a = SumFunctionOnSet(Spacing!JobBytes, JobRows(bodies) \ JobRows(Spacing!Trimmed))
  OBVIOUS
<1>11. PICK b : b = SumFunctionOnSet(Spacing!DeliveryBytes, DeliveryRows(bodies) \ DeliveryRows(Spacing!Trimmed))
  OBVIOUS
<1>12. /\ SumFunctionOnSet(Spacing!JobBytes, JobRows(bodies)) = SumFunctionOnSet(Spacing!JobBytes, JobRows(Spacing!Trimmed)) + a
       /\ SumFunctionOnSet(Spacing!JobBytes, JobRows(Spacing!Trimmed)) \in Nat /\ a \in Nat
  <2>1. PICK f : f = Spacing!JobBytes
    OBVIOUS
  <2>2. PICK T \in SUBSET Queued : T = JobRows(bodies)
    BY <1>5
  <2>3. PICK U \in SUBSET T : U = JobRows(Spacing!Trimmed)
    BY <1>9, <2>2
  <2>4. \A x \in Queued : f[x] \in Nat
    BY <1>2, <2>1
  <2>5. /\ SumFunctionOnSet(f, U) \in Nat /\ SumFunctionOnSet(f, T \ U) \in Nat
        /\ SumFunctionOnSet(f, T) = SumFunctionOnSet(f, U) + SumFunctionOnSet(f, T \ U)
    <3>1. IsFiniteSet(T) /\ (\A x \in T : f[x] \in Nat)
      BY <1>1, <2>4, FS_Subset
    <3>2. \A V \in SUBSET T : SumFunctionOnSet(f, V) \in Nat
      BY Zenon, <3>1, SumType
    <3>3. SumFunctionOnSet(f, T) = SumFunctionOnSet(f, U) + SumFunctionOnSet(f, T \ U)
      BY Zenon, <3>1, SumParts
    <3>4. U \in SUBSET T /\ (T \ U) \in SUBSET T
      OBVIOUS
    <3> QED
      BY Zenon, <3>2, <3>3, <3>4
  <2> QED
    BY <1>10, <2>1, <2>2, <2>3, <2>5
<1>13. /\ SumFunctionOnSet(Spacing!DeliveryBytes, DeliveryRows(bodies)) = SumFunctionOnSet(Spacing!DeliveryBytes, DeliveryRows(Spacing!Trimmed)) + b
       /\ SumFunctionOnSet(Spacing!DeliveryBytes, DeliveryRows(Spacing!Trimmed)) \in Nat /\ b \in Nat
  <2>1. PICK f : f = Spacing!DeliveryBytes
    OBVIOUS
  <2>2. PICK T \in SUBSET Queued : T = DeliveryRows(bodies)
    BY <1>5
  <2>3. PICK U \in SUBSET T : U = DeliveryRows(Spacing!Trimmed)
    BY <1>9, <2>2
  <2>4. \A x \in Queued : f[x] \in Nat
    BY <1>2, <2>1
  <2>5. /\ SumFunctionOnSet(f, U) \in Nat /\ SumFunctionOnSet(f, T \ U) \in Nat
        /\ SumFunctionOnSet(f, T) = SumFunctionOnSet(f, U) + SumFunctionOnSet(f, T \ U)
    <3>1. IsFiniteSet(T) /\ (\A x \in T : f[x] \in Nat)
      BY <1>1, <2>4, FS_Subset
    <3>2. \A V \in SUBSET T : SumFunctionOnSet(f, V) \in Nat
      BY Zenon, <3>1, SumType
    <3>3. SumFunctionOnSet(f, T) = SumFunctionOnSet(f, U) + SumFunctionOnSet(f, T \ U)
      BY Zenon, <3>1, SumParts
    <3>4. U \in SUBSET T /\ (T \ U) \in SUBSET T
      OBVIOUS
    <3> QED
      BY Zenon, <3>2, <3>3, <3>4
  <2> QED
    BY <1>11, <2>1, <2>2, <2>3, <2>5
<1>14. Spacing!TrimmedUsed = Spacing!Used - a - b
  <2>1. {j \in Spacing!Keeps("job") : <<j, "job">> \notin Spacing!Trimmed} = JobRows(bodies) \ JobRows(Spacing!Trimmed)
    BY DEF Spacing!Keeps, JobRows
  <2>2. {j \in Spacing!Keeps("deliveries") : <<j, "deliveries">> \notin Spacing!Trimmed} = DeliveryRows(bodies) \ DeliveryRows(Spacing!Trimmed)
    BY DEF Spacing!Keeps, DeliveryRows
  <2> QED
    BY <1>10, <1>11, <2>1, <2>2, TotalIsSum DEF Spacing!TrimmedUsed
<1>15. CASE Spacing!Used + size <= ceiling
  <2>1. Spacing!Compacted(size, ceiling) = bodies
    BY <1>15 DEF Spacing!Compacted
  <2>2. StoredOf(bodies) \in Nat
    BY <1>12, <1>13 DEF StoredOf
  <2> QED
    BY <1>3, <1>4, <1>6, <1>15, <2>1, <2>2 DEF RoomOf, Spacing!Admits
<1>16. CASE ~(Spacing!Used + size <= ceiling)
  <2>1. Spacing!Compacted(size, ceiling) = Spacing!Trimmed
    BY <1>16 DEF Spacing!Compacted
  <2>2. Spacing!TrimmedUsed + size <= ceiling /\ (slots > 0 => SlotsTaken + slots <= MAX_PENDING)
    BY <1>3, <1>16 DEF Spacing!Admits
  <2>3. StoredOf(bodies) = StoredOf(Spacing!Trimmed) + a + b /\ StoredOf(Spacing!Trimmed) \in Nat
    BY <1>12, <1>13 DEF StoredOf
  <2>4. RoomOf(Spacing!Trimmed) + size <= ceiling
    BY <1>4, <1>6, <1>12, <1>13, <1>14, <2>2, <2>3 DEF RoomOf
  <2> QED
    BY <1>7, <2>1, <2>2, <2>4
<1> QED
  BY <1>15, <1>16

LEMMA RoomNow ==
    ASSUME Spacing!QueueSpaceAssumption, SpaceInv
    PROVE  RoomOf(bodies) + 0 <= Limit /\ SlotsTaken + 0 <= MAX_PENDING /\ 0 \in Nat /\ Limit \in Nat /\ MAX_PENDING \in Nat
           /\ Limit \div 2 \in Nat /\ Limit \div 2 <= Limit /\ Routes \in Nat /\ MaxBytes \in Nat
<1>1. RoomOf(bodies) <= Limit /\ SlotsTaken <= MAX_PENDING
  BY RoomIsFitting DEF SpaceInv, RoomFits
<1>2. IsFiniteSet(Queued)
  BY QueuedIsFinite
<1>3. RoomOf(bodies) \in Nat /\ SlotsTaken \in Nat
  <2>1. /\ JobRows(bodies) \in SUBSET Queued /\ DeliveryRows(bodies) \in SUBSET Queued /\ AtWork \in SUBSET Queued
        /\ Active \in SUBSET Queued /\ Finished \in SUBSET Queued
    BY DEF JobRows, DeliveryRows, AtWork, Active, Finished
  <2>2. \A f : (\A x \in Queued : f[x] \in Nat) => \A T \in SUBSET Queued : SumFunctionOnSet(f, T) \in Nat
    BY <1>2, SumType
  <2>3. \A x \in Queued : /\ Spacing!JobBytes[x] \in Nat /\ Spacing!DeliveryBytes[x] \in Nat /\ Spacing!Owed[x] \in Nat
                          /\ unsettled[x] \in Nat /\ JobSlots[x] \in Nat
    BY SpaceSizes DEF SpaceInv
  <2> QED
    BY <2>1, <2>2, <2>3 DEF RoomOf, StoredOf, SlotsTaken
<1>4. Limit \in Nat /\ MAX_PENDING \in Nat /\ Routes \in Nat /\ MaxBytes \in Nat
  BY DEF Spacing!QueueSpaceAssumption
<1>5. Limit \div 2 \in Nat /\ Limit \div 2 <= Limit
  BY <1>4
<1> QED
  BY <1>1, <1>3, <1>4, <1>5

\* A step of j from its row to the next.
LEMMA SpaceSteps ==
    ASSUME Spacing!QueueSpaceAssumption, SpaceInv, SpaceTypes', RowsAreRight', NEW j \in Queued, OnlyOf(j), NEW rows,
           bodies' \subseteq rows \cup {<<j, "job">>, <<j, "deliveries">>},
           NEW size \in Nat, RoomOf(rows) + size <= Limit, Weight(j, bodies)' <= Weight(j, rows) + size,
           NEW slots \in Nat, SlotsTaken + slots <= MAX_PENDING, SlotsOf(j)' <= SlotsOf(j) + slots
    PROVE  SpaceInv'
<1>1. SpaceTypes
  BY DEF SpaceInv
<1>2. Spacing!RoomIsKept'
  BY <1>1, RoomStays
<1> QED
  BY <1>2 DEF SpaceInv

LEMMA SpacePut == ASSUME Spacing!QueueSpaceAssumption, SpaceInv, NEW j \in Queued, Spacing!Put(j) PROVE SpaceInv'
<1>1. /\ states[j] = "absent" /\ j \notin Direct /\ Spacing!Admits(1 + Routes, 2, Limit \div 2)
      /\ states' = [states EXCEPT ![j] = "pending"]
      /\ bodies' = Spacing!Compacted(2, Limit \div 2) \cup {<<j, "job">>} /\ UNCHANGED <<sizes, fanned, unsettled>>
  BY DEF Spacing!Put, Spacing!Payload
<1>2. SpaceTypes /\ RowsAreRight
  BY DEF SpaceInv
<1>3. /\ RoomOf(bodies) + 0 <= Limit /\ SlotsTaken + 0 <= MAX_PENDING /\ 0 \in Nat /\ Limit \in Nat /\ MAX_PENDING \in Nat
      /\ Limit \div 2 \in Nat /\ Limit \div 2 <= Limit /\ Routes \in Nat /\ MaxBytes \in Nat
  BY RoomNow
<1>4. PICK rows : rows = Spacing!Compacted(2, Limit \div 2)
  OBVIOUS
<1>5. rows \subseteq bodies /\ RoomOf(rows) + 2 <= Limit \div 2 /\ SlotsTaken + (1 + Routes) <= MAX_PENDING
  BY <1>1, <1>2, <1>3, <1>4, AdmittedFits
<1>6. RoomOf(rows) + 2 <= Limit
  <2>1. RoomOf(rows) = Others(j, rows) + Weight(j, rows) /\ Others(j, rows) \in Nat /\ Weight(j, rows) \in Nat
    BY <1>2, RoomAt
  <2> QED
    BY <1>3, <1>5, <2>1
<1>7. SpaceTypes'
  BY <1>1, <1>2, <1>4, <1>5 DEF SpaceTypes, SpaceStates
<1>8. RowsAreRight'
  BY <1>1, <1>2, <1>3 DEF SpaceTypes, RowsAreRight
<1>9. OnlyOf(j)
  BY <1>1, <1>2 DEF OnlyOf, SpaceTypes
<1>10. Weight(j, bodies)' <= Weight(j, rows) + 2
  <2>1. Weight(j, rows) \in Nat
    BY <1>2, RoomAt
  <2>2. Spacing!JobBytes'[j] = 1 /\ Spacing!DeliveryBytes'[j] = 0 /\ j \notin AtWork'
    BY <1>1, <1>2 DEF Spacing!JobBytes, Spacing!DeliveryBytes, Spacing!Payload, AtWork, RowsAreRight, SpaceTypes
  <2> QED
    BY <2>1, <2>2 DEF Weight
<1>11. SlotsOf(j)' <= SlotsOf(j) + (1 + Routes)
  BY <1>1, <1>2, <1>3 DEF SlotsOf, SpaceTypes, Active, Finished, JobSlots
<1> QED
  BY <1>1, <1>3, <1>4, <1>5, <1>6, <1>7, <1>8, <1>9, <1>10, <1>11, SpaceSteps

LEMMA SpaceSend == ASSUME Spacing!QueueSpaceAssumption, SpaceInv, NEW j \in Queued, Spacing!Send(j) PROVE SpaceInv'
<1>1. /\ states[j] = "absent" /\ j \in Direct /\ Spacing!Admits(1, 2, Limit \div 2)
      /\ states' = [states EXCEPT ![j] = "sent"] /\ unsettled' = [unsettled EXCEPT ![j] = 1]
      /\ fanned' = fanned \cup {j}
      /\ bodies' = Spacing!Compacted(2, Limit \div 2) \cup {<<j, "deliveries">>} /\ UNCHANGED sizes
  BY DEF Spacing!Send, Spacing!Payload
<1>2. SpaceTypes /\ RowsAreRight
  BY DEF SpaceInv
<1>3. /\ RoomOf(bodies) + 0 <= Limit /\ SlotsTaken + 0 <= MAX_PENDING /\ 0 \in Nat /\ Limit \in Nat /\ MAX_PENDING \in Nat
      /\ Limit \div 2 \in Nat /\ Limit \div 2 <= Limit /\ Routes \in Nat /\ MaxBytes \in Nat
  BY RoomNow
<1>4. PICK rows : rows = Spacing!Compacted(2, Limit \div 2)
  OBVIOUS
<1>5. rows \subseteq bodies /\ RoomOf(rows) + 2 <= Limit \div 2 /\ SlotsTaken + 1 <= MAX_PENDING
  BY <1>1, <1>2, <1>3, <1>4, AdmittedFits
<1>6. RoomOf(rows) + 2 <= Limit
  <2>1. RoomOf(rows) = Others(j, rows) + Weight(j, rows) /\ Others(j, rows) \in Nat /\ Weight(j, rows) \in Nat
    BY <1>2, RoomAt
  <2> QED
    BY <1>3, <1>5, <2>1
<1>7. SpaceTypes'
  BY <1>1, <1>2, <1>4, <1>5 DEF SpaceTypes, SpaceStates
<1>8. RowsAreRight'
  BY <1>1, <1>2, <1>3 DEF SpaceTypes, RowsAreRight
<1>9. OnlyOf(j)
  BY <1>1, <1>2 DEF OnlyOf, SpaceTypes
<1>10. Weight(j, bodies)' <= Weight(j, rows) + 2
  <2>1. Weight(j, rows) \in Nat
    BY <1>2, RoomAt
  <2>2. sizes[j] = 0 /\ sizes'[j] = 0
    BY <1>1, <1>2 DEF RowsAreRight
  <2>3. Spacing!Message(0) = 1
    BY SpaceNumbers
  <2>4. Spacing!DeliveryBytes'[j] = Spacing!Fan(j) * Spacing!Message(sizes'[j])
    BY <1>1 DEF Spacing!DeliveryBytes, Spacing!Message, Spacing!Fan, Spacing!Payload
  <2>5. Spacing!Fan(j) = 1
    BY <1>1 DEF Spacing!Fan
  <2>6. Spacing!JobBytes'[j] = 0 /\ j \notin AtWork'
    BY <1>1, <1>2 DEF Spacing!JobBytes, AtWork, SpaceTypes
  <2>7. Spacing!DeliveryBytes'[j] = 1
    BY <2>2, <2>3, <2>4, <2>5
  <2> QED
    BY <2>1, <2>6, <2>7 DEF Weight
<1>11. SlotsOf(j)' <= SlotsOf(j) + 1
  BY <1>1, <1>2, <1>3 DEF SlotsOf, SpaceTypes, Active, Finished, JobSlots
<1> QED
  BY <1>1, <1>3, <1>4, <1>5, <1>6, <1>7, <1>8, <1>9, <1>10, <1>11, SpaceSteps

LEMMA SpaceClaim == ASSUME Spacing!QueueSpaceAssumption, SpaceInv, NEW j \in Queued, Spacing!Claim(j) PROVE SpaceInv'
<1>1. /\ states[j] = "pending" /\ Spacing!Admits(0, Spacing!AnswerSpace(MaxBytes), Limit)
      /\ states' = [states EXCEPT ![j] = "running"]
      /\ bodies' = Spacing!Compacted(Spacing!AnswerSpace(MaxBytes), Limit) /\ UNCHANGED <<sizes, fanned, unsettled>>
  BY DEF Spacing!Claim
<1>2. SpaceTypes /\ RowsAreRight
  BY DEF SpaceInv
<1>3. /\ RoomOf(bodies) + 0 <= Limit /\ SlotsTaken + 0 <= MAX_PENDING /\ 0 \in Nat /\ Limit \in Nat /\ MAX_PENDING \in Nat
      /\ Limit \div 2 \in Nat /\ Limit \div 2 <= Limit /\ Routes \in Nat /\ MaxBytes \in Nat
  BY RoomNow
<1>4. PICK size \in Nat : size = Spacing!AnswerSpace(MaxBytes)
  BY <1>3, SpaceNumbers
<1>5. bodies' \subseteq bodies /\ RoomOf(bodies') + size <= Limit
  <2>1. PICK rows : rows = Spacing!Compacted(size, Limit)
    OBVIOUS
  <2>2. rows \subseteq bodies /\ RoomOf(rows) + size <= Limit
    BY <1>1, <1>2, <1>3, <1>4, <2>1, AdmittedFits
  <2> QED
    BY <1>1, <1>4, <2>1, <2>2
<1>6. PICK rows : rows = bodies'
  OBVIOUS
<1>7. SpaceTypes'
  BY <1>1, <1>2, <1>5 DEF SpaceTypes, SpaceStates
<1>8. RowsAreRight'
  BY <1>1, <1>2, <1>3 DEF SpaceTypes, RowsAreRight
<1>9. OnlyOf(j)
  BY <1>1, <1>2 DEF OnlyOf, SpaceTypes
<1>10. Weight(j, bodies)' <= Weight(j, rows) + size
  <2>1. Weight(j, rows) \in Nat
    BY <1>2, RoomAt
  <2>2. Spacing!JobBytes'[j] = Spacing!JobBytes[j] /\ Spacing!DeliveryBytes'[j] = Spacing!DeliveryBytes[j]
    BY <1>1 DEF Spacing!JobBytes, Spacing!DeliveryBytes, Spacing!Message, Spacing!Fan, Spacing!Payload
  <2>3. Spacing!Owed'[j] = size /\ j \in AtWork' /\ j \notin AtWork
    BY <1>1, <1>2, <1>4 DEF Spacing!Owed, AtWork, SpaceTypes, Spacing!AnswerSpace, Spacing!Message, Spacing!Payload
  <2>4. Spacing!JobBytes[j] \in Nat /\ Spacing!DeliveryBytes[j] \in Nat
    BY <1>2, SpaceSizes
  <2> QED
    BY <1>6, <2>2, <2>3, <2>4 DEF Weight
<1>11. SlotsOf(j)' <= SlotsOf(j) + 0
  BY <1>1, <1>2, <1>3 DEF SlotsOf, SpaceTypes, Active, Finished, JobSlots
<1> QED
  <2>1. bodies' \subseteq rows \cup {<<j, "job">>, <<j, "deliveries">>} /\ RoomOf(rows) + size <= Limit
    BY <1>5, <1>6
  <2> QED
    BY <1>3, <1>7, <1>8, <1>9, <1>10, <1>11, <2>1, SpaceSteps

\* A step that admits nothing: j takes no more than before.
LEMMA SpaceWithin ==
    ASSUME Spacing!QueueSpaceAssumption, SpaceInv, SpaceTypes', RowsAreRight', NEW j \in Queued, OnlyOf(j),
           bodies' \subseteq bodies \cup {<<j, "job">>, <<j, "deliveries">>},
           Weight(j, bodies)' <= Weight(j, bodies), SlotsOf(j)' <= SlotsOf(j)
    PROVE  SpaceInv'
<1>1. SpaceTypes
  BY DEF SpaceInv
<1>2. RoomOf(bodies) + 0 <= Limit /\ SlotsTaken + 0 <= MAX_PENDING
  BY RoomNow
<1>3. Weight(j, bodies) \in Nat /\ SlotsOf(j) \in Nat
  BY <1>1, RoomAt
<1>4. Weight(j, bodies)' <= Weight(j, bodies) + 0 /\ SlotsOf(j)' <= SlotsOf(j) + 0
  BY <1>3
<1>5. PICK rows : rows = bodies
  OBVIOUS
<1>6. bodies' \subseteq rows \cup {<<j, "job">>, <<j, "deliveries">>} /\ RoomOf(rows) + 0 <= Limit
      /\ Weight(j, bodies)' <= Weight(j, rows) + 0
  BY <1>2, <1>4, <1>5
<1> QED
  BY <1>2, <1>4, <1>6, SpaceSteps

LEMMA SpaceAnswer == ASSUME Spacing!QueueSpaceAssumption, SpaceInv, NEW j \in Queued, Spacing!Answer(j) PROVE SpaceInv'
<1>1. PICK size \in 1..MaxBytes : sizes' = [sizes EXCEPT ![j] = size]
  BY DEF Spacing!Answer
<1>2. /\ states[j] = "running" /\ states' = [states EXCEPT ![j] = "answered"]
      /\ UNCHANGED <<fanned, unsettled, bodies>>
  BY DEF Spacing!Answer
<1>3. SpaceTypes /\ RowsAreRight
  BY DEF SpaceInv
<1>4. MaxBytes \in Nat /\ Routes \in Nat /\ size \in Nat /\ size <= MaxBytes /\ size \in 0..MaxBytes
  BY <1>1 DEF Spacing!QueueSpaceAssumption
<1>5. SpaceTypes'
  BY <1>1, <1>2, <1>3, <1>4 DEF SpaceTypes, SpaceStates
<1>6. RowsAreRight'
  BY <1>1, <1>2, <1>3 DEF SpaceTypes, RowsAreRight
<1>7. OnlyOf(j)
  BY <1>1, <1>2, <1>3 DEF OnlyOf, SpaceTypes
<1>8. Weight(j, bodies)' <= Weight(j, bodies)
  <2>1. j \notin Direct /\ j \notin fanned /\ sizes[j] = 0 /\ sizes'[j] = size /\ states'[j] = "answered"
    BY <1>1, <1>2, <1>3 DEF SpaceTypes, RowsAreRight
  <2>2. Spacing!JobBytes[j] = 1 /\ Spacing!JobBytes'[j] = 1 + size /\ Spacing!DeliveryBytes[j] = 0 /\ Spacing!DeliveryBytes'[j] = 0
    BY <1>2, <1>4, <2>1 DEF Spacing!JobBytes, Spacing!DeliveryBytes, Spacing!Payload
  <2>3. Spacing!Owed[j] = Spacing!AnswerSpace(MaxBytes) /\ Spacing!Owed'[j] = Spacing!AnswerSpace(size) - size
    BY <1>2, <2>1 DEF Spacing!Owed, Spacing!AnswerSpace, Spacing!Message, Spacing!Payload
  <2>4. Spacing!AnswerSpace(size) <= Spacing!AnswerSpace(MaxBytes) /\ Spacing!AnswerSpace(size) \in Nat /\ Spacing!AnswerSpace(MaxBytes) \in Nat
        /\ Spacing!AnswerSpace(size) = size + (1 + Routes) * Spacing!Message(size) /\ (1 + Routes) * Spacing!Message(size) \in Nat
    BY <1>4, SpaceNumbers
  <2>5. j \in AtWork /\ j \in AtWork'
    BY <1>2, <2>1 DEF AtWork
  <2> QED
    BY <1>2, <1>4, <2>2, <2>3, <2>4, <2>5 DEF Weight
<1>9. SlotsOf(j)' <= SlotsOf(j)
  BY <1>2, <1>3, <1>4 DEF SlotsOf, SpaceTypes, Active, Finished, JobSlots
<1> QED
  BY <1>2, <1>5, <1>6, <1>7, <1>8, <1>9, SpaceWithin

LEMMA SpacePrepare == ASSUME Spacing!QueueSpaceAssumption, SpaceInv, NEW j \in Queued, Spacing!Prepare(j) PROVE SpaceInv'
<1>2. /\ states[j] = "answered" /\ states' = [states EXCEPT ![j] = "prepared"]
      /\ fanned' = fanned \cup {j} /\ unsettled' = [unsettled EXCEPT ![j] = Routes]
      /\ bodies' = bodies \cup {<<j, "deliveries">>} /\ UNCHANGED sizes
  BY DEF Spacing!Prepare
<1>3. SpaceTypes /\ RowsAreRight
  BY DEF SpaceInv
<1>4. Routes \in Nat
  BY DEF Spacing!QueueSpaceAssumption
<1>5. SpaceTypes'
  BY <1>2, <1>3, <1>4 DEF SpaceTypes, SpaceStates
<1>6. RowsAreRight'
  BY <1>2, <1>3, <1>4 DEF SpaceTypes, RowsAreRight
<1>7. OnlyOf(j)
  BY <1>2, <1>3 DEF OnlyOf, SpaceTypes
<1>8. Weight(j, bodies)' <= Weight(j, bodies)
  <2>1. PICK n \in Nat : n = sizes[j]
    BY <1>3 DEF SpaceTypes
  <2>2. j \notin Direct /\ j \notin fanned /\ sizes'[j] = n /\ states'[j] = "prepared" /\ j \in fanned'
    BY <1>2, <1>3, <2>1 DEF SpaceTypes, RowsAreRight
  <2>3. PICK m : m = Spacing!Message(n)
    OBVIOUS
  <2>4. m \in Nat /\ Routes * m \in Nat /\ (1 + Routes) * m = m + Routes * m /\ Spacing!AnswerSpace(n) = n + (1 + Routes) * m
    BY <2>3, SpaceNumbers
  <2>5. Spacing!JobBytes[j] = 1 + n /\ Spacing!DeliveryBytes[j] = 0
    BY <2>1, <2>2 DEF Spacing!JobBytes, Spacing!DeliveryBytes, Spacing!Payload
  <2>6. Spacing!JobBytes'[j] = 1 + n + m
    BY <2>2, <2>3 DEF Spacing!JobBytes, Spacing!Message, Spacing!Payload
  <2>7. Spacing!DeliveryBytes'[j] = Routes * m
    BY <2>2, <2>3 DEF Spacing!DeliveryBytes, Spacing!Fan, Spacing!Message, Spacing!Payload
  <2>8. Spacing!Owed[j] = Spacing!AnswerSpace(n) - n /\ j \in AtWork /\ j \notin AtWork'
    BY <1>2, <2>1, <2>2 DEF Spacing!Owed, AtWork
  <2>9. Weight(j, bodies)' <= (1 + n + m) + Routes * m
    <3>1. (<<j, "job">> \in bodies') = (<<j, "job">> \in bodies)
      BY <1>2
    <3> QED
      BY <2>4, <2>6, <2>7, <2>8 DEF Weight
  <2>10. (<<j, "job">> \in bodies') = (<<j, "job">> \in bodies)
    BY <1>2
  <2>11. Weight(j, bodies)' <= (IF <<j, "job">> \in bodies THEN 1 + n ELSE 0) + m + Routes * m
    BY <2>4, <2>6, <2>7, <2>8, <2>10 DEF Weight
  <2>12. Weight(j, bodies) = (IF <<j, "job">> \in bodies THEN 1 + n ELSE 0) + (m + Routes * m)
    BY <2>4, <2>5, <2>8 DEF Weight
  <2>13. (IF <<j, "job">> \in bodies THEN 1 + n ELSE 0) \in Nat
    OBVIOUS
  <2> QED
    BY <2>4, <2>11, <2>12, <2>13
<1>9. SlotsOf(j)' <= SlotsOf(j)
  BY <1>2, <1>3, <1>4 DEF SlotsOf, SpaceTypes, Active, Finished, JobSlots
<1> QED
  BY <1>2, <1>5, <1>6, <1>7, <1>8, <1>9, SpaceWithin

LEMMA SizesKept ==
    ASSUME UNCHANGED <<sizes, fanned>>
    PROVE  Spacing!JobBytes' = Spacing!JobBytes /\ Spacing!DeliveryBytes' = Spacing!DeliveryBytes
BY DEF Spacing!JobBytes, Spacing!DeliveryBytes, Spacing!Fan, Spacing!Message, Spacing!Payload

\* A job that leaves its work, or is not at it, takes no more.
LEMMA WeightOff ==
    ASSUME Spacing!QueueSpaceAssumption, SpaceTypes, NEW j \in Queued, UNCHANGED <<sizes, fanned>>,
           bodies' \subseteq bodies, j \notin AtWork'
    PROVE  Weight(j, bodies)' <= Weight(j, bodies)
<1>1. Spacing!JobBytes[j] \in Nat /\ Spacing!DeliveryBytes[j] \in Nat /\ Spacing!Owed[j] \in Nat
  BY SpaceSizes
<1>2. Spacing!JobBytes'[j] = Spacing!JobBytes[j] /\ Spacing!DeliveryBytes'[j] = Spacing!DeliveryBytes[j]
  BY SizesKept
<1>3. (<<j, "job">> \in bodies' => <<j, "job">> \in bodies) /\ (<<j, "deliveries">> \in bodies' => <<j, "deliveries">> \in bodies)
  OBVIOUS
<1> QED
  BY <1>1, <1>2, <1>3 DEF Weight

LEMMA SpaceFinish == ASSUME Spacing!QueueSpaceAssumption, SpaceInv, NEW j \in Queued, Spacing!Finish(j) PROVE SpaceInv'
<1>2. /\ states[j] \in {"prepared", "pending"} /\ states' = [states EXCEPT ![j] = "complete"]
      /\ bodies' \subseteq bodies /\ UNCHANGED <<sizes, fanned, unsettled>>
  BY DEF Spacing!Finish, Spacing!TrimmedOf
<1>3. SpaceTypes /\ RowsAreRight
  BY DEF SpaceInv
<1>4. Routes \in Nat
  BY DEF Spacing!QueueSpaceAssumption
<1>5. SpaceTypes'
  BY <1>2, <1>3, <1>4 DEF SpaceTypes, SpaceStates
<1>6. RowsAreRight'
  BY <1>2, <1>3, <1>4 DEF SpaceTypes, RowsAreRight
<1>7. OnlyOf(j)
  BY <1>2, <1>3 DEF OnlyOf, SpaceTypes
<1>8. j \notin AtWork'
  BY <1>2, <1>3 DEF AtWork, SpaceTypes
<1>9. Weight(j, bodies)' <= Weight(j, bodies)
  BY <1>2, <1>3, <1>8, WeightOff
<1>10. SlotsOf(j)' <= SlotsOf(j)
  <2>1. unsettled[j] <= Routes /\ unsettled[j] \in Nat
    BY <1>2, <1>3 DEF RowsAreRight, SpaceTypes
  <2> QED
    BY <1>2, <1>3, <1>4, <2>1 DEF SlotsOf, SpaceTypes, Active, Finished, JobSlots
<1> QED
  BY <1>2, <1>5, <1>6, <1>7, <1>9, <1>10, SpaceWithin

LEMMA SpaceFail == ASSUME Spacing!QueueSpaceAssumption, SpaceInv, NEW j \in Queued, Spacing!Fail(j) PROVE SpaceInv'
<1>1. PICK outcome \in (IF states[j] = "running" THEN {"failed", "uncertain", "pending"} ELSE {"failed"}) :
          states' = [states EXCEPT ![j] = outcome]
  BY DEF Spacing!Fail, Spacing!Unresolved
<1>2. /\ states[j] \in {"running", "answered", "prepared"}
      /\ bodies' \subseteq bodies /\ UNCHANGED <<sizes, fanned, unsettled>>
  BY DEF Spacing!Fail, Spacing!Working
<1>3. SpaceTypes /\ RowsAreRight
  BY DEF SpaceInv
<1>4. Routes \in Nat /\ outcome \in {"failed", "uncertain", "pending"}
  BY <1>1 DEF Spacing!QueueSpaceAssumption
<1>5. SpaceTypes'
  BY <1>1, <1>2, <1>3, <1>4 DEF SpaceTypes, SpaceStates, Spacing!Fail
<1>6. RowsAreRight'
  BY <1>1, <1>2, <1>3, <1>4 DEF SpaceTypes, RowsAreRight
<1>7. OnlyOf(j)
  BY <1>1, <1>2, <1>3 DEF OnlyOf, SpaceTypes
<1>8. j \notin AtWork'
  BY <1>1, <1>3, <1>4 DEF AtWork, SpaceTypes
<1>9. Weight(j, bodies)' <= Weight(j, bodies)
  BY <1>2, <1>3, <1>8, WeightOff
<1>10. SlotsOf(j)' <= SlotsOf(j)
  BY <1>1, <1>2, <1>3, <1>4 DEF SlotsOf, SpaceTypes, Active, Finished, JobSlots
<1> QED
  BY <1>2, <1>5, <1>6, <1>7, <1>9, <1>10, SpaceWithin

LEMMA SpaceRetry == ASSUME Spacing!QueueSpaceAssumption, SpaceInv, NEW j \in Queued, Spacing!Retry(j) PROVE SpaceInv'
<1>1. PICK next : next = IF j \in fanned THEN "prepared" ELSE IF sizes[j] > 0 THEN "answered" ELSE "pending"
  OBVIOUS
<1>2. PICK size : size = Spacing!AnswerSpace(sizes[j])
  OBVIOUS
<1>3. /\ states[j] \in {"failed", "uncertain", "pending"} /\ states' = [states EXCEPT ![j] = next]
      /\ IF next = "answered" THEN Spacing!Admits(0, size, Limit) /\ bodies' = Spacing!Compacted(size, Limit) ELSE UNCHANGED bodies
      /\ UNCHANGED <<sizes, fanned, unsettled>>
  BY <1>1, <1>2 DEF Spacing!Retry, Spacing!Unresolved
<1>4. SpaceTypes /\ RowsAreRight
  BY DEF SpaceInv
<1>5. /\ RoomOf(bodies) + 0 <= Limit /\ SlotsTaken + 0 <= MAX_PENDING /\ 0 \in Nat /\ Limit \in Nat /\ MAX_PENDING \in Nat
      /\ Limit \div 2 \in Nat /\ Limit \div 2 <= Limit /\ Routes \in Nat /\ MaxBytes \in Nat
  BY RoomNow
<1>6. PICK n \in Nat : n = sizes[j]
  BY <1>4 DEF SpaceTypes
<1>7. size \in Nat /\ size = n + (1 + Routes) * Spacing!Message(n) /\ (1 + Routes) * Spacing!Message(n) \in Nat
  BY <1>2, <1>6, SpaceNumbers
<1>8. bodies' \subseteq bodies
  BY <1>3, <1>4, <1>5, <1>7, AdmittedFits
<1>9. SpaceTypes'
  BY <1>1, <1>3, <1>4, <1>8 DEF SpaceTypes, SpaceStates
<1>10. RowsAreRight'
  BY <1>1, <1>3, <1>4, <1>6 DEF SpaceTypes, RowsAreRight
<1>11. OnlyOf(j)
  BY <1>3, <1>4 DEF OnlyOf, SpaceTypes
<1>12. SlotsOf(j)' <= SlotsOf(j) /\ SlotsOf(j)' <= SlotsOf(j) + 0
  BY <1>1, <1>3, <1>4, <1>5 DEF SlotsOf, SpaceTypes, Active, Finished, JobSlots
<1>13. CASE next # "answered"
  <2>1. j \notin AtWork'
    BY <1>1, <1>3, <1>4, <1>13 DEF AtWork, SpaceTypes
  <2>2. Weight(j, bodies)' <= Weight(j, bodies)
    BY <1>3, <1>4, <1>8, <2>1, WeightOff
  <2> QED
    BY <1>8, <1>9, <1>10, <1>11, <1>12, <2>2, SpaceWithin
<1>14. CASE next = "answered"
  <2>1. RoomOf(bodies') + size <= Limit
    <3>1. PICK rows : rows = Spacing!Compacted(size, Limit)
      OBVIOUS
    <3>2. RoomOf(rows) + size <= Limit
      BY <1>3, <1>4, <1>5, <1>7, <1>14, <3>1, AdmittedFits
    <3> QED
      BY <1>3, <1>14, <3>1, <3>2
  <2>2. PICK rows : rows = bodies'
    OBVIOUS
  <2>3. Weight(j, bodies)' <= Weight(j, rows) + size
    <3>1. Spacing!JobBytes'[j] = Spacing!JobBytes[j] /\ Spacing!DeliveryBytes'[j] = Spacing!DeliveryBytes[j]
      BY <1>3, SizesKept
    <3>2. Spacing!Owed'[j] = size - n /\ j \in AtWork' /\ j \notin AtWork
      BY <1>2, <1>3, <1>4, <1>6, <1>14 DEF Spacing!Owed, AtWork, SpaceTypes, Spacing!AnswerSpace, Spacing!Message, Spacing!Payload
    <3>3. Spacing!JobBytes[j] \in Nat /\ Spacing!DeliveryBytes[j] \in Nat
      BY <1>4, SpaceSizes
    <3> QED
      BY <1>7, <2>2, <3>1, <3>2, <3>3 DEF Weight
  <2>4. bodies' \subseteq rows \cup {<<j, "job">>, <<j, "deliveries">>} /\ RoomOf(rows) + size <= Limit
    BY <2>1, <2>2
  <2> QED
    BY <1>5, <1>7, <1>9, <1>10, <1>11, <1>12, <2>3, <2>4, SpaceSteps
<1> QED
  BY <1>13, <1>14

LEMMA SpaceCancel == ASSUME Spacing!QueueSpaceAssumption, SpaceInv, NEW j \in Queued, Spacing!Cancel(j) PROVE SpaceInv'
<1>2. /\ states[j] \in {"failed", "uncertain", "pending"} /\ states' = [states EXCEPT ![j] = "cancelled"]
      /\ unsettled' = [unsettled EXCEPT ![j] = 0]
      /\ bodies' \subseteq bodies /\ UNCHANGED <<sizes, fanned>>
  BY DEF Spacing!Cancel, Spacing!Unresolved
<1>3. SpaceTypes /\ RowsAreRight
  BY DEF SpaceInv
<1>4. Routes \in Nat
  BY DEF Spacing!QueueSpaceAssumption
<1>5. SpaceTypes'
  BY <1>2, <1>3, <1>4 DEF SpaceTypes, SpaceStates
<1>6. RowsAreRight'
  BY <1>2, <1>3, <1>4 DEF SpaceTypes, RowsAreRight
<1>7. OnlyOf(j)
  BY <1>2, <1>3 DEF OnlyOf, SpaceTypes
<1>8. j \notin AtWork'
  BY <1>2, <1>3 DEF AtWork, SpaceTypes
<1>9. Weight(j, bodies)' <= Weight(j, bodies)
  BY <1>2, <1>3, <1>8, WeightOff
<1>10. SlotsOf(j)' <= SlotsOf(j)
  BY <1>2, <1>3, <1>4 DEF SlotsOf, SpaceTypes, Active, Finished, JobSlots
<1> QED
  BY <1>2, <1>5, <1>6, <1>7, <1>9, <1>10, SpaceWithin

LEMMA SpaceResolve == ASSUME Spacing!QueueSpaceAssumption, SpaceInv, NEW j \in Queued, Spacing!Resolve(j) PROVE SpaceInv'
<1>2. /\ states[j] \in {"complete", "sent"} /\ unsettled[j] > 0
      /\ unsettled' = [unsettled EXCEPT ![j] = unsettled[j] - 1]
      /\ bodies' \subseteq bodies /\ UNCHANGED <<states, sizes, fanned>>
  BY DEF Spacing!Resolve, Spacing!TrimmedOf
<1>3. SpaceTypes /\ RowsAreRight
  BY DEF SpaceInv
<1>4. Routes \in Nat
  BY DEF Spacing!QueueSpaceAssumption
<1>5. SpaceTypes'
  BY <1>2, <1>3, <1>4 DEF SpaceTypes
<1>6. RowsAreRight'
  BY <1>2, <1>3, <1>4 DEF SpaceTypes, RowsAreRight
<1>7. OnlyOf(j)
  BY <1>2, <1>3 DEF OnlyOf, SpaceTypes
<1>8. j \notin AtWork'
  BY <1>2, <1>3 DEF AtWork, SpaceTypes
<1>9. Weight(j, bodies)' <= Weight(j, bodies)
  BY <1>2, <1>3, <1>8, WeightOff
<1>10. SlotsOf(j)' <= SlotsOf(j)
  BY <1>2, <1>3, <1>4 DEF SlotsOf, SpaceTypes, Active, Finished, JobSlots
<1> QED
  BY <1>2, <1>5, <1>6, <1>7, <1>9, <1>10, SpaceWithin

LEMMA SpaceInit == ASSUME Spacing!QueueSpaceAssumption, Spacing!Init PROVE SpaceInv
<1>1. SpaceTypes /\ RowsAreRight
  BY DEF Spacing!QueueSpaceAssumption, Spacing!Init, SpaceTypes, SpaceStates, RowsAreRight
<1>2. JobRows(bodies) = {} /\ DeliveryRows(bodies) = {} /\ AtWork = {} /\ Active = {} /\ Finished = {}
  BY DEF Spacing!Init, JobRows, DeliveryRows, AtWork, Active, Finished
<1>3. RoomFits
  BY <1>2, SumEmpty DEF Spacing!QueueSpaceAssumption, RoomFits, RoomOf, StoredOf, SlotsTaken
<1> QED
  BY <1>1, <1>3, RoomIsFitting DEF SpaceInv

LEMMA SpaceStutters == ASSUME SpaceInv, UNCHANGED Spacing!vars PROVE SpaceInv'
BY DEF SpaceInv, Spacing!vars, SpaceTypes, RowsAreRight, Spacing!RoomIsKept, Spacing!Stored, Spacing!Slots, Spacing!Owed, Spacing!JobBytes, Spacing!DeliveryBytes, Spacing!Keeps

\* Whatever a job does, the invariant stays.
LEMMA SpaceStep == ASSUME Spacing!QueueSpaceAssumption, SpaceInv, [Spacing!Next]_Spacing!vars PROVE SpaceInv'
<1>1. ASSUME NEW j \in Queued,
             Spacing!Put(j) \/ Spacing!Send(j) \/ Spacing!Claim(j) \/ Spacing!Answer(j) \/ Spacing!Prepare(j) \/ Spacing!Finish(j) \/ Spacing!Fail(j)
             \/ Spacing!Retry(j) \/ Spacing!Cancel(j) \/ Spacing!Resolve(j)
      PROVE  SpaceInv'
  BY <1>1, SpacePut, SpaceSend, SpaceClaim, SpaceAnswer, SpacePrepare, SpaceFinish, SpaceFail, SpaceRetry,
     SpaceCancel, SpaceResolve
<1> QED
  BY <1>1, SpaceStutters DEF Spacing!Next

\* What each row is, and the room.
THEOREM SpaceInvariance ==
    ASSUME Spacing!QueueSpaceAssumption
    PROVE  Spacing!Spec => []SpaceInv
<1>1. Spacing!Init => SpaceInv
  BY SpaceInit
<1>2. SpaceInv /\ [Spacing!Next]_Spacing!vars => SpaceInv'
  BY SpaceStep
<1> QED
  BY <1>1, <1>2, PTL DEF Spacing!Spec

\* For any number of jobs, routes and sizes, and any limit: jobs are admitted,
\* started, answered, fanned out, failed, retried and compacted in any order, yet
\* what is stored and what started work may still write stay within the limit,
\* and unfinished work within its slots (runtime.py: reserve, trim).
THEOREM RoomStaysKept ==
    ASSUME Spacing!QueueSpaceAssumption
    PROVE  Spacing!Spec => []Spacing!RoomIsKept
<1>1. SpaceInv => Spacing!RoomIsKept
  BY DEF SpaceInv
<1> QED
  BY <1>1, SpaceInvariance, PTL

=============================================================================
