-------------------------- MODULE DeliveriesProofs --------------------------
(***************************************************************************)
(* Proofs about Deliveries, for any number of processes and deliveries.    *)
(* They need no assumption beyond those of the constants: unlike a job's,  *)
(* a delivery's lock file goes only once the delivery is settled.          *)
(***************************************************************************)
EXTENDS Deliveries, TLAPS

-----------------------------------------------------------------------------
(* The inductive invariant.                                                *)

Closed == {"idle", "open", "resolve"}

\* Where a process stands decides whether it has the lock file open, and
\* whether it holds its lock.
LockFollowsPC ==
    \A p \in Process :
        /\ fd[p] # NoInode <=> pc[p] \notin Closed
        /\ held[p] <=> pc[p] \notin Closed \cup {"flock"}

\* flock: one holder for each open inode of a key.
OneHolder ==
    \A p, q \in Process :
        held[p] /\ held[q] /\ key[p] = key[q] /\ fd[p] = fd[q] => p = q

\* While a delivery is not settled, its lock file is never removed: all who
\* opened it have the inode behind its name.
SameFile ==
    \A p \in Process :
        state[key[p]] \notin Settled /\ fd[p] # NoInode => fd[p] = path[key[p]]

\* Only the lock file of a settled delivery goes.
UnlinkedIsSettled ==
    \A p \in Process :
        /\ task[p] = "forget" /\ pc[p] # "idle" => state[key[p]] \in Settled
        /\ pc[p] = "unlink" => task[p] = "forget"

\* A call works on a row that exists, and a send on one whose job is complete.
SendsAreDue ==
    \A p \in Process :
        /\ pc[p] # "idle" => state[key[p]] # "absent"
        /\ pc[p] \in Live \cup {"current", "mark"} => task[p] = "deliver"
        /\ pc[p] # "idle" /\ task[p] = "deliver" /\ key[p] \in Owned => key[p] \in committed

\* A delivery that may be sent without being asked for has not reached its
\* channel since the owner last asked.
EffectsFollowState ==
    /\ \A d \in Delivery \ Repeatable :
          state[d] \in {"absent", "pending"} => effects[d] <= retries[d]
    /\ \A p \in Process :
          /\ pc[p] = "launch" \/ (pc[p] = "failed" /\ error[p] = "notStarted")
          /\ key[p] \notin Repeatable
          => effects[key[p]] <= retries[key[p]]

IInv ==
    /\ TypeOK
    /\ LockFollowsPC
    /\ OneHolder
    /\ SameFile
    /\ UnlinkedIsSettled
    /\ SendsAreDue
    /\ LiveSendOwnsRow
    /\ EffectsFollowState
    /\ SendBudget
    /\ CommitBeforeSend

\* Hence no two processes hold the lock of a delivery that is not settled.
Alone ==
    \A p, q \in Process :
        /\ pc[p] \notin Closed \cup {"flock"} /\ pc[q] \notin Closed \cup {"flock"}
        /\ key[p] = key[q] /\ state[key[p]] \notin Settled
        => p = q

-----------------------------------------------------------------------------
(* Type correctness.                                                       *)

\* The states that the retry policy leaves.
Outcomes == {"uncertain", "failed", "pending"}

\* A row that gets one of them gets a due time that agrees with it.
LEMMA RowSet ==
    ASSUME TypeOK, NEW d \in Delivery, NEW s \in State, SetRow(d, s, s = "pending")
    PROVE  state' = [state EXCEPT ![d] = s] /\ waiting' \in [Delivery -> BOOLEAN]
<1>1. CASE s = "pending"
  BY <1>1 DEF SetRow, TypeOK
<1>2. CASE s # "pending"
  BY <1>2 DEF SetRow, TypeOK
<1>. QED
  BY <1>1, <1>2

\* A failure is left to the owner, unless its send is idempotent or never began;
\* a row that is settled stays as it is.
LEMMA FailedRow ==
    ASSUME TypeOK, NEW p \in Process, Failed(p)
    PROVE  /\ Goto(p, "failed", "leave")
           /\ UNCHANGED <<attempts, committed, lockVars, task, read, error, ghostVars>>
           /\ waiting' \in [Delivery -> BOOLEAN]
           /\ \/ state[key[p]] \in Settled /\ state' = state
              \/ state[key[p]] \notin Settled /\ \E s \in Outcomes :
                    /\ state' = [state EXCEPT ![key[p]] = s]
                    /\ key[p] \notin Repeatable /\ error[p] # "notStarted" => s = "uncertain"
<1>1. PICK s \in Outcomes :
         /\ s = Outcome(key[p] \in Repeatable \/ error[p] = "notStarted", key[p] \in Owned,
                        read[p] + 1)
         /\ key[p] \notin Repeatable /\ error[p] # "notStarted" => s = "uncertain"
  BY DEF Outcome, Outcomes
<1>. /\ Goto(p, "failed", "leave")
     /\ UNCHANGED <<attempts, committed, lockVars, task, read, error, ghostVars>>
  BY DEF Failed
<1>2. DeliveryFailed(key[p], s)
  BY <1>1 DEF Failed
<1>3. CASE state[key[p]] \in Settled
  BY <1>2, <1>3 DEF DeliveryFailed, TypeOK
<1>4. CASE state[key[p]] \notin Settled
  <2>1. SetRow(key[p], s, s = "pending")
    BY <1>2, <1>4 DEF DeliveryFailed
  <2>2. key[p] \in Delivery /\ s \in State
    BY <1>1 DEF TypeOK, LockTypeOK, Delivery, State, Outcomes
  <2>. QED
    BY <1>1, <1>4, <2>1, <2>2, RowSet
<1>. QED
  BY <1>3, <1>4

\* So is the attempt of a process that died, or that was told to end.
LEMMA EndedRow ==
    ASSUME TypeOK, NEW d \in Delivery, RecordEnded(d)
    PROVE  /\ waiting' \in [Delivery -> BOOLEAN]
           /\ \/ state[d] # "sending" /\ state' = state
              \/ /\ state[d] = "sending"
                 /\ \E s \in Outcomes :
                       /\ state' = [state EXCEPT ![d] = s]
                       /\ d \notin Repeatable => s = "uncertain"
<1>1. PICK s \in Outcomes :
         /\ s = Outcome(d \in Repeatable, d \in Owned, attempts[d])
         /\ d \notin Repeatable => s = "uncertain"
  BY DEF Outcome, Outcomes
<1>2. CASE state[d] = "sending"
  <2>1. SetRow(d, s, s = "pending")
    BY <1>1, <1>2 DEF RecordEnded, Attempted
  <2>2. s \in State
    BY DEF State, Outcomes
  <2>. QED
    BY <1>1, <1>2, <2>1, <2>2, RowSet
<1>3. CASE state[d] # "sending"
  BY <1>3 DEF RecordEnded, TypeOK
<1>. QED
  BY <1>2, <1>3

\* The owner's decision on a delivery: refused by the row, retry, or cancel.
Refuses(p) ==
    /\ ~Resolvable(key[p])
    /\ Goto(p, "resolve", "idle") /\ Forget(p)
    /\ UNCHANGED <<state, attempts, waiting, committed, lockVars, ghostVars>>

Retries(p) ==
    /\ Resolvable(key[p]) /\ retries[key[p]] < MaxRetries
    /\ Goto(p, "resolve", "idle") /\ Forget(p)
    /\ SetRow(key[p], "pending", FALSE)
    /\ attempts' = [attempts EXCEPT ![key[p]] = 0]
    /\ retries' = [retries EXCEPT ![key[p]] = @ + 1]
    /\ UNCHANGED <<committed, lockVars, effects, kills>>

Cancels(p) ==
    /\ Resolvable(key[p])
    /\ Goto(p, "resolve", "open") /\ task' = [task EXCEPT ![p] = "forget"]
    /\ SetRow(key[p], "cancelled", FALSE)
    /\ attempts' = [attempts EXCEPT ![key[p]] = 0]
    /\ UNCHANGED <<committed, lockVars, ghostVars, read, error>>

\* It is one of these three.
LEMMA Decision ==
    ASSUME TypeOK, NEW p \in Process, ResolveDelivery(p)
    PROVE  Refuses(p) \/ Retries(p) \/ Cancels(p)
<1>1. CASE task[p] = "retry"
  BY <1>1 DEF ResolveDelivery, Refuses, Retries, ghostVars
<1>2. CASE task[p] # "retry"
  <2>1. [retries EXCEPT ![key[p]] = @] = retries
    BY DEF TypeOK
  <2>. QED
    BY <1>2, <2>1 DEF ResolveDelivery, Refuses, Cancels, ghostVars
<1>. QED
  BY <1>1, <1>2

\* Every step keeps the type invariant.
LEMMA TypeNext == TypeOK /\ [Next]_vars => TypeOK'
<1>. SUFFICES ASSUME TypeOK, [Next]_vars PROVE TypeOK'
  OBVIOUS
<1>. USE DeliveryAssumption DEF TypeOK, LockTypeOK, Delivery, rowVars, lockVars, procVars, ghostVars
<1>1. ASSUME NEW d \in Delivery, Insert(d) PROVE TypeOK'
  BY <1>1 DEF Insert, State
<1>2. ASSUME NEW d \in Delivery, CommitJob(d) PROVE TypeOK'
  BY <1>2 DEF CommitJob, State
<1>3. ASSUME NEW d \in Delivery, CancelWithJob(d) PROVE TypeOK'
  BY <1>3 DEF CancelWithJob, State
<1>4. ASSUME NEW d \in Delivery, BackoffElapses(d) PROVE TypeOK'
  BY <1>4 DEF BackoffElapses, State
<1>5. ASSUME NEW p \in Process, NEW d \in Delivery, Pick(p, d) PROVE TypeOK'
  BY <1>5 DEF Pick, Begin, Goto, Due, State, PC, Live, Task
<1>6. ASSUME NEW p \in Process, NEW d \in Delivery, Recover(p, d) PROVE TypeOK'
  BY <1>6 DEF Recover, Begin, Goto, State, PC, Live, Task
<1>7. ASSUME NEW p \in Process, NEW d \in Delivery, Resolve(p, d) PROVE TypeOK'
  BY <1>7 DEF Resolve, Begin, Goto, State, PC, Live, Task
<1>8. ASSUME NEW p \in Process, Open(p) PROVE TypeOK'
  BY <1>8 DEF Open, Goto, OpenLock, NewInode, Unused, State, PC, Live
<1>9. ASSUME NEW p \in Process, Flock(p) PROVE TypeOK'
  BY <1>9 DEF Flock, Goto, TakeLock, LockFree, AfterLock, State, PC, Live
<1>10. ASSUME NEW p \in Process, FlockBusy(p) PROVE TypeOK'
  BY <1>10 DEF FlockBusy, Return, Goto, AfterClose, CloseLock, Forget, State, PC, Live,
     Task
<1>11. ASSUME NEW p \in Process, Close(p) PROVE TypeOK'
  BY <1>11 DEF Close, Return, Goto, AfterClose, CloseLock, Forget, State, PC, Live, Task
<1>12. ASSUME NEW p \in Process, Leave(p) PROVE TypeOK'
  BY <1>12 DEF Leave, Goto, UnlinkLock, State, PC, Live
<1>13. ASSUME NEW p \in Process, Kill(p) PROVE TypeOK'
  BY <1>13 DEF Kill, CloseLock, Forget, State, PC, Live, Task
<1>14. ASSUME NEW p \in Process, Current(p) PROVE TypeOK'
  BY <1>14 DEF Current, Goto, DeliveryFailed, SetRow, State, PC, Live
<1>15. ASSUME NEW p \in Process, Mark(p) PROVE TypeOK'
  BY <1>15 DEF Mark, Goto, State, PC, Live
<1>16. ASSUME NEW p \in Process, Launch(p) PROVE TypeOK'
  BY <1>16 DEF Launch, Goto, Raise, State, PC, Live
<1>17. ASSUME NEW p \in Process, Send(p) PROVE TypeOK'
  BY <1>17 DEF Send, Goto, Raise, State, PC, Live
<1>18. ASSUME NEW p \in Process, Receipt(p) PROVE TypeOK'
  <2>1. pc' \in [Process -> PC] /\ error' \in [Process -> {"none", "plain", "notStarted"}]
    BY <1>18 DEF Receipt, Goto, Raise, PC, Live
  <2>2. state' \in [Delivery -> State] /\ waiting' \in [Delivery -> BOOLEAN]
    BY <1>18 DEF Receipt, SetRow, State
  <2>. QED
    BY <1>18, <2>1, <2>2 DEF Receipt
<1>19. ASSUME NEW p \in Process, Failed(p) PROVE TypeOK'
  BY <1>19, FailedRow DEF Goto, Outcomes, State, PC, Live
<1>20. ASSUME NEW p \in Process, Signal(p) PROVE TypeOK'
  BY <1>20, EndedRow DEF Signal, Outcomes, State, PC, Live
<1>21. ASSUME NEW p \in Process, Interrupted(p) PROVE TypeOK'
  BY <1>21, EndedRow DEF Interrupted, Goto, Outcomes, State, PC, Live
<1>22. ASSUME NEW p \in Process, ResolveDelivery(p) PROVE TypeOK'
  <2>1. CASE Refuses(p)
    BY <2>1 DEF Refuses, Goto, Forget, PC, Task
  <2>2. CASE Retries(p)
    BY <2>2 DEF Retries, Goto, Forget, PC, Task, SetRow, State
  <2>3. CASE Cancels(p)
    BY <2>3 DEF Cancels, Goto, PC, Task, SetRow, State
  <2>. QED
    BY <1>22, <2>1, <2>2, <2>3, Decision
<1>23. ASSUME NEW p \in Process, Unlink(p) PROVE TypeOK'
  BY <1>23 DEF Unlink, Goto, UnlinkLock, State, PC, Live
<1>24. CASE UNCHANGED vars
  BY <1>24 DEF vars
<1>. QED
  BY <1>1, <1>2, <1>3, <1>4, <1>5, <1>6, <1>7, <1>8, <1>9, <1>10, <1>11, <1>12, <1>13,
     <1>14, <1>15, <1>16, <1>17, <1>18, <1>19, <1>20, <1>21, <1>22, <1>23, <1>24 DEF
     Next, Call

-----------------------------------------------------------------------------
(* Each action keeps the invariant.                                        *)

\* They would hold one inode, and flock has one holder.
LEMMA AloneAtWork == IInv => Alone
<1>. SUFFICES ASSUME IInv, NEW p \in Process, NEW q \in Process,
                     pc[p] \notin Closed \cup {"flock"}, pc[q] \notin Closed \cup {"flock"},
                     key[p] = key[q], state[key[p]] \notin Settled
              PROVE  p = q
  BY DEF Alone
<1>1. held[p] /\ held[q] /\ fd[p] # NoInode /\ fd[q] # NoInode
  BY DEF IInv, LockFollowsPC
<1>2. fd[p] = fd[q]
  BY <1>1 DEF IInv, SameFile
<1>. QED
  BY <1>1, <1>2 DEF IInv, OneHolder

\* A process that records how its attempt ended, under the lock, leaves the rows
\* that others are sending alone.
LEMMA OthersKeepRows ==
    ASSUME IInv, Alone, NEW p \in Process,
           pc[p] \notin Closed \cup {"flock"}, pc'[p] \notin Live,
           key' = key, state' = state \/ state[key[p]] \notin Settled,
           \A d \in Delivery \ {key[p]} : state'[d] = state[d],
           \A q \in Process \ {p} : pc'[q] = pc[q]
    PROVE  LiveSendOwnsRow'
<1>. SUFFICES ASSUME NEW q \in Process, pc'[q] \in Live PROVE state'[key[q]] = "sending"
  BY DEF LiveSendOwnsRow
<1>1. q # p /\ pc[q] \in Live /\ state[key[q]] = "sending"
  BY DEF IInv, LiveSendOwnsRow
<1>2. key[q] = key[p] => state' = state
  BY <1>1 DEF Alone, Live, Closed
<1>. QED
  BY <1>1, <1>2 DEF IInv, TypeOK, LockTypeOK, Delivery

\* Every step keeps the inductive invariant, one action after the other.
LEMMA InvNext ==
    ASSUME IInv, TypeOK', Next PROVE IInv'
<1>0. Alone
  BY AloneAtWork
<1>1. ASSUME NEW d \in Delivery, Insert(d) PROVE IInv'
  <2>1. LockFollowsPC' /\ OneHolder'
    BY <1>1 DEF Insert, IInv, LockFollowsPC, OneHolder, TypeOK, LockTypeOK, Delivery,
       Closed, Live, rowVars, lockVars, procVars, ghostVars
  <2>2. SameFile'
    BY <1>1, <1>0 DEF Insert, IInv, SameFile, LockFollowsPC, SendsAreDue, Alone, TypeOK,
       LockTypeOK, Delivery, Closed, Settled, Live, rowVars, lockVars, procVars,
       ghostVars
  <2>3. UnlinkedIsSettled'
    BY <1>1 DEF Insert, IInv, UnlinkedIsSettled, LiveSendOwnsRow, TypeOK, LockTypeOK,
       Delivery, Closed, Settled, Live, rowVars, lockVars, procVars, ghostVars
  <2>4. SendsAreDue'
    BY <1>1 DEF Insert, IInv, SendsAreDue, TypeOK, LockTypeOK, Delivery, Closed,
       Settled, Live, rowVars, lockVars, procVars, ghostVars
  <2>5. LiveSendOwnsRow'
    BY <1>1, <1>0 DEF Insert, IInv, LiveSendOwnsRow, Alone, SendsAreDue, TypeOK,
       LockTypeOK, Delivery, Closed, Settled, Live, rowVars, lockVars, procVars,
       ghostVars
  <2>6. EffectsFollowState' /\ SendBudget'
    BY <1>1, <1>0, DeliveryAssumption DEF Insert, IInv, EffectsFollowState, SendBudget,
       LiveSendOwnsRow, Alone, SendsAreDue, TypeOK, LockTypeOK, Delivery, Closed,
       Settled, Live, rowVars, lockVars, procVars, ghostVars
  <2>7. CommitBeforeSend'
    BY <1>1 DEF Insert, IInv, CommitBeforeSend, SendsAreDue, TypeOK, LockTypeOK,
       Delivery, Closed, Settled, Live, rowVars, lockVars, procVars, ghostVars
  <2>. QED
    BY <2>1, <2>2, <2>3, <2>4, <2>5, <2>6, <2>7 DEF IInv
<1>2. ASSUME NEW d \in Delivery, CommitJob(d) PROVE IInv'
  <2>1. LockFollowsPC' /\ OneHolder'
    BY <1>2 DEF CommitJob, IInv, LockFollowsPC, OneHolder, TypeOK, LockTypeOK, Delivery,
       Closed, Live, rowVars, lockVars, procVars, ghostVars
  <2>2. SameFile'
    BY <1>2, <1>0 DEF CommitJob, IInv, SameFile, LockFollowsPC, SendsAreDue, Alone,
       TypeOK, LockTypeOK, Delivery, Closed, Settled, Live, rowVars, lockVars, procVars,
       ghostVars
  <2>3. UnlinkedIsSettled'
    BY <1>2 DEF CommitJob, IInv, UnlinkedIsSettled, LiveSendOwnsRow, TypeOK, LockTypeOK,
       Delivery, Closed, Settled, Live, rowVars, lockVars, procVars, ghostVars
  <2>4. SendsAreDue'
    BY <1>2 DEF CommitJob, IInv, SendsAreDue, TypeOK, LockTypeOK, Delivery, Closed,
       Settled, Live, rowVars, lockVars, procVars, ghostVars
  <2>5. LiveSendOwnsRow'
    BY <1>2, <1>0 DEF CommitJob, IInv, LiveSendOwnsRow, Alone, SendsAreDue, TypeOK,
       LockTypeOK, Delivery, Closed, Settled, Live, rowVars, lockVars, procVars,
       ghostVars
  <2>6. EffectsFollowState' /\ SendBudget'
    BY <1>2, <1>0, DeliveryAssumption DEF CommitJob, IInv, EffectsFollowState,
       SendBudget, LiveSendOwnsRow, Alone, SendsAreDue, TypeOK, LockTypeOK, Delivery,
       Closed, Settled, Live, rowVars, lockVars, procVars, ghostVars
  <2>7. CommitBeforeSend'
    BY <1>2 DEF CommitJob, IInv, CommitBeforeSend, SendsAreDue, TypeOK, LockTypeOK,
       Delivery, Closed, Settled, Live, rowVars, lockVars, procVars, ghostVars
  <2>. QED
    BY <2>1, <2>2, <2>3, <2>4, <2>5, <2>6, <2>7 DEF IInv
<1>3. ASSUME NEW d \in Delivery, CancelWithJob(d) PROVE IInv'
  <2>1. LockFollowsPC' /\ OneHolder'
    BY <1>3 DEF CancelWithJob, IInv, LockFollowsPC, OneHolder, TypeOK, LockTypeOK,
       Delivery, Closed, Live, rowVars, lockVars, procVars, ghostVars
  <2>2. SameFile'
    BY <1>3, <1>0 DEF CancelWithJob, IInv, SameFile, LockFollowsPC, SendsAreDue, Alone,
       TypeOK, LockTypeOK, Delivery, Closed, Settled, Live, rowVars, lockVars, procVars,
       ghostVars
  <2>3. UnlinkedIsSettled'
    BY <1>3 DEF CancelWithJob, IInv, UnlinkedIsSettled, LiveSendOwnsRow, TypeOK,
       LockTypeOK, Delivery, Closed, Settled, Live, rowVars, lockVars, procVars,
       ghostVars
  <2>4. SendsAreDue'
    BY <1>3 DEF CancelWithJob, IInv, SendsAreDue, TypeOK, LockTypeOK, Delivery, Closed,
       Settled, Live, rowVars, lockVars, procVars, ghostVars
  <2>5. LiveSendOwnsRow'
    BY <1>3, <1>0 DEF CancelWithJob, IInv, LiveSendOwnsRow, Alone, SendsAreDue, TypeOK,
       LockTypeOK, Delivery, Closed, Settled, Live, rowVars, lockVars, procVars,
       ghostVars
  <2>6. EffectsFollowState' /\ SendBudget'
    BY <1>3, <1>0, DeliveryAssumption DEF CancelWithJob, IInv, EffectsFollowState,
       SendBudget, LiveSendOwnsRow, Alone, SendsAreDue, TypeOK, LockTypeOK, Delivery,
       Closed, Settled, Live, rowVars, lockVars, procVars, ghostVars
  <2>7. CommitBeforeSend'
    BY <1>3 DEF CancelWithJob, IInv, CommitBeforeSend, SendsAreDue, TypeOK, LockTypeOK,
       Delivery, Closed, Settled, Live, rowVars, lockVars, procVars, ghostVars
  <2>. QED
    BY <2>1, <2>2, <2>3, <2>4, <2>5, <2>6, <2>7 DEF IInv
<1>4. ASSUME NEW d \in Delivery, BackoffElapses(d) PROVE IInv'
  <2>1. LockFollowsPC' /\ OneHolder'
    BY <1>4 DEF BackoffElapses, IInv, LockFollowsPC, OneHolder, TypeOK, LockTypeOK,
       Delivery, Closed, Live, rowVars, lockVars, procVars, ghostVars
  <2>2. SameFile'
    BY <1>4, <1>0 DEF BackoffElapses, IInv, SameFile, LockFollowsPC, SendsAreDue, Alone,
       TypeOK, LockTypeOK, Delivery, Closed, Settled, Live, rowVars, lockVars, procVars,
       ghostVars
  <2>3. UnlinkedIsSettled'
    BY <1>4 DEF BackoffElapses, IInv, UnlinkedIsSettled, LiveSendOwnsRow, TypeOK,
       LockTypeOK, Delivery, Closed, Settled, Live, rowVars, lockVars, procVars,
       ghostVars
  <2>4. SendsAreDue'
    BY <1>4 DEF BackoffElapses, IInv, SendsAreDue, TypeOK, LockTypeOK, Delivery, Closed,
       Settled, Live, rowVars, lockVars, procVars, ghostVars
  <2>5. LiveSendOwnsRow'
    BY <1>4, <1>0 DEF BackoffElapses, IInv, LiveSendOwnsRow, Alone, SendsAreDue, TypeOK,
       LockTypeOK, Delivery, Closed, Settled, Live, rowVars, lockVars, procVars,
       ghostVars
  <2>6. EffectsFollowState' /\ SendBudget'
    BY <1>4, <1>0, DeliveryAssumption DEF BackoffElapses, IInv, EffectsFollowState,
       SendBudget, LiveSendOwnsRow, Alone, SendsAreDue, TypeOK, LockTypeOK, Delivery,
       Closed, Settled, Live, rowVars, lockVars, procVars, ghostVars
  <2>7. CommitBeforeSend'
    BY <1>4 DEF BackoffElapses, IInv, CommitBeforeSend, SendsAreDue, TypeOK, LockTypeOK,
       Delivery, Closed, Settled, Live, rowVars, lockVars, procVars, ghostVars
  <2>. QED
    BY <2>1, <2>2, <2>3, <2>4, <2>5, <2>6, <2>7 DEF IInv
<1>5. ASSUME NEW p \in Process, NEW d \in Delivery, Pick(p, d) PROVE IInv'
  <2>1. LockFollowsPC' /\ OneHolder'
    BY <1>5 DEF Pick, Begin, Goto, Due, IInv, LockFollowsPC, OneHolder, TypeOK,
       LockTypeOK, Delivery, Closed, Live, rowVars, lockVars, procVars, ghostVars
  <2>2. SameFile'
    BY <1>5, <1>0 DEF Pick, Begin, Goto, Due, IInv, SameFile, LockFollowsPC,
       SendsAreDue, Alone, TypeOK, LockTypeOK, Delivery, Closed, Settled, Live, rowVars,
       lockVars, procVars, ghostVars
  <2>3. UnlinkedIsSettled'
    BY <1>5 DEF Pick, Begin, Goto, Due, IInv, UnlinkedIsSettled, LiveSendOwnsRow,
       TypeOK, LockTypeOK, Delivery, Closed, Settled, Live, rowVars, lockVars, procVars,
       ghostVars
  <2>4. SendsAreDue'
    BY <1>5 DEF Pick, Begin, Goto, Due, IInv, SendsAreDue, TypeOK, LockTypeOK, Delivery,
       Closed, Settled, Live, rowVars, lockVars, procVars, ghostVars
  <2>5. LiveSendOwnsRow'
    BY <1>5, <1>0 DEF Pick, Begin, Goto, Due, IInv, LiveSendOwnsRow, Alone, SendsAreDue,
       TypeOK, LockTypeOK, Delivery, Closed, Settled, Live, rowVars, lockVars, procVars,
       ghostVars
  <2>6. EffectsFollowState' /\ SendBudget'
    BY <1>5, <1>0, DeliveryAssumption DEF Pick, Begin, Goto, Due, IInv,
       EffectsFollowState, SendBudget, LiveSendOwnsRow, Alone, SendsAreDue, TypeOK,
       LockTypeOK, Delivery, Closed, Settled, Live, rowVars, lockVars, procVars,
       ghostVars
  <2>7. CommitBeforeSend'
    BY <1>5 DEF Pick, Begin, Goto, Due, IInv, CommitBeforeSend, SendsAreDue, TypeOK,
       LockTypeOK, Delivery, Closed, Settled, Live, rowVars, lockVars, procVars,
       ghostVars
  <2>. QED
    BY <2>1, <2>2, <2>3, <2>4, <2>5, <2>6, <2>7 DEF IInv
<1>6. ASSUME NEW p \in Process, NEW d \in Delivery, Recover(p, d) PROVE IInv'
  <2>1. LockFollowsPC' /\ OneHolder'
    BY <1>6 DEF Recover, Begin, Goto, IInv, LockFollowsPC, OneHolder, TypeOK,
       LockTypeOK, Delivery, Closed, Live, rowVars, lockVars, procVars, ghostVars
  <2>2. SameFile'
    BY <1>6, <1>0 DEF Recover, Begin, Goto, IInv, SameFile, LockFollowsPC, SendsAreDue,
       Alone, TypeOK, LockTypeOK, Delivery, Closed, Settled, Live, rowVars, lockVars,
       procVars, ghostVars
  <2>3. UnlinkedIsSettled'
    BY <1>6 DEF Recover, Begin, Goto, IInv, UnlinkedIsSettled, LiveSendOwnsRow, TypeOK,
       LockTypeOK, Delivery, Closed, Settled, Live, rowVars, lockVars, procVars,
       ghostVars
  <2>4. SendsAreDue'
    BY <1>6 DEF Recover, Begin, Goto, IInv, SendsAreDue, TypeOK, LockTypeOK, Delivery,
       Closed, Settled, Live, rowVars, lockVars, procVars, ghostVars
  <2>5. LiveSendOwnsRow'
    BY <1>6, <1>0 DEF Recover, Begin, Goto, IInv, LiveSendOwnsRow, Alone, SendsAreDue,
       TypeOK, LockTypeOK, Delivery, Closed, Settled, Live, rowVars, lockVars, procVars,
       ghostVars
  <2>6. EffectsFollowState' /\ SendBudget'
    BY <1>6, <1>0, DeliveryAssumption DEF Recover, Begin, Goto, IInv,
       EffectsFollowState, SendBudget, LiveSendOwnsRow, Alone, SendsAreDue, TypeOK,
       LockTypeOK, Delivery, Closed, Settled, Live, rowVars, lockVars, procVars,
       ghostVars
  <2>7. CommitBeforeSend'
    BY <1>6 DEF Recover, Begin, Goto, IInv, CommitBeforeSend, SendsAreDue, TypeOK,
       LockTypeOK, Delivery, Closed, Settled, Live, rowVars, lockVars, procVars,
       ghostVars
  <2>. QED
    BY <2>1, <2>2, <2>3, <2>4, <2>5, <2>6, <2>7 DEF IInv
<1>7. ASSUME NEW p \in Process, NEW d \in Delivery, Resolve(p, d) PROVE IInv'
  <2>1. LockFollowsPC' /\ OneHolder'
    BY <1>7 DEF Resolve, Begin, Goto, IInv, LockFollowsPC, OneHolder, TypeOK,
       LockTypeOK, Delivery, Closed, Live, rowVars, lockVars, procVars, ghostVars
  <2>2. SameFile'
    BY <1>7, <1>0 DEF Resolve, Begin, Goto, IInv, SameFile, LockFollowsPC, SendsAreDue,
       Alone, TypeOK, LockTypeOK, Delivery, Closed, Settled, Live, rowVars, lockVars,
       procVars, ghostVars
  <2>3. UnlinkedIsSettled'
    BY <1>7 DEF Resolve, Begin, Goto, IInv, UnlinkedIsSettled, LiveSendOwnsRow, TypeOK,
       LockTypeOK, Delivery, Closed, Settled, Live, rowVars, lockVars, procVars,
       ghostVars
  <2>4. SendsAreDue'
    BY <1>7 DEF Resolve, Begin, Goto, IInv, SendsAreDue, TypeOK, LockTypeOK, Delivery,
       Closed, Settled, Live, rowVars, lockVars, procVars, ghostVars
  <2>5. LiveSendOwnsRow'
    BY <1>7, <1>0 DEF Resolve, Begin, Goto, IInv, LiveSendOwnsRow, Alone, SendsAreDue,
       TypeOK, LockTypeOK, Delivery, Closed, Settled, Live, rowVars, lockVars, procVars,
       ghostVars
  <2>6. EffectsFollowState' /\ SendBudget'
    BY <1>7, <1>0, DeliveryAssumption DEF Resolve, Begin, Goto, IInv,
       EffectsFollowState, SendBudget, LiveSendOwnsRow, Alone, SendsAreDue, TypeOK,
       LockTypeOK, Delivery, Closed, Settled, Live, rowVars, lockVars, procVars,
       ghostVars
  <2>7. CommitBeforeSend'
    BY <1>7 DEF Resolve, Begin, Goto, IInv, CommitBeforeSend, SendsAreDue, TypeOK,
       LockTypeOK, Delivery, Closed, Settled, Live, rowVars, lockVars, procVars,
       ghostVars
  <2>. QED
    BY <2>1, <2>2, <2>3, <2>4, <2>5, <2>6, <2>7 DEF IInv
<1>8. ASSUME NEW p \in Process, Open(p) PROVE IInv'
  <2>1. LockFollowsPC' /\ OneHolder'
    BY <1>8, InodeAssumption DEF Open, Goto, OpenLock, NewInode, Unused, IInv,
       LockFollowsPC, OneHolder, TypeOK, LockTypeOK, Delivery, Closed, Live, rowVars,
       lockVars, procVars, ghostVars
  <2>2. SameFile'
    BY <1>8, <1>0, InodeAssumption DEF Open, Goto, OpenLock, NewInode, Unused, IInv,
       SameFile, LockFollowsPC, SendsAreDue, Alone, TypeOK, LockTypeOK, Delivery,
       Closed, Settled, Live, rowVars, lockVars, procVars, ghostVars
  <2>3. UnlinkedIsSettled'
    BY <1>8 DEF Open, Goto, OpenLock, NewInode, Unused, IInv, UnlinkedIsSettled,
       LiveSendOwnsRow, TypeOK, LockTypeOK, Delivery, Closed, Settled, Live, rowVars,
       lockVars, procVars, ghostVars
  <2>4. SendsAreDue'
    BY <1>8 DEF Open, Goto, OpenLock, NewInode, Unused, IInv, SendsAreDue, TypeOK,
       LockTypeOK, Delivery, Closed, Settled, Live, rowVars, lockVars, procVars,
       ghostVars
  <2>5. LiveSendOwnsRow'
    BY <1>8, <1>0 DEF Open, Goto, OpenLock, NewInode, Unused, IInv, LiveSendOwnsRow,
       Alone, SendsAreDue, TypeOK, LockTypeOK, Delivery, Closed, Settled, Live, rowVars,
       lockVars, procVars, ghostVars
  <2>6. EffectsFollowState' /\ SendBudget'
    BY <1>8, <1>0, DeliveryAssumption DEF Open, Goto, OpenLock, NewInode, Unused, IInv,
       EffectsFollowState, SendBudget, LiveSendOwnsRow, Alone, SendsAreDue, TypeOK,
       LockTypeOK, Delivery, Closed, Settled, Live, rowVars, lockVars, procVars,
       ghostVars
  <2>7. CommitBeforeSend'
    BY <1>8 DEF Open, Goto, OpenLock, NewInode, Unused, IInv, CommitBeforeSend,
       SendsAreDue, TypeOK, LockTypeOK, Delivery, Closed, Settled, Live, rowVars,
       lockVars, procVars, ghostVars
  <2>. QED
    BY <2>1, <2>2, <2>3, <2>4, <2>5, <2>6, <2>7 DEF IInv
<1>9. ASSUME NEW p \in Process, Flock(p) PROVE IInv'
  <2>1. LockFollowsPC' /\ OneHolder'
    BY <1>9 DEF Flock, Goto, TakeLock, LockFree, AfterLock, IInv, LockFollowsPC,
       OneHolder, TypeOK, LockTypeOK, Delivery, Closed, Live, rowVars, lockVars,
       procVars, ghostVars
  <2>2. SameFile'
    BY <1>9, <1>0 DEF Flock, Goto, TakeLock, LockFree, AfterLock, IInv, SameFile,
       LockFollowsPC, SendsAreDue, Alone, TypeOK, LockTypeOK, Delivery, Closed, Settled,
       Live, rowVars, lockVars, procVars, ghostVars
  <2>3. UnlinkedIsSettled'
    BY <1>9 DEF Flock, Goto, TakeLock, LockFree, AfterLock, IInv, UnlinkedIsSettled,
       LiveSendOwnsRow, TypeOK, LockTypeOK, Delivery, Closed, Settled, Live, rowVars,
       lockVars, procVars, ghostVars
  <2>4. SendsAreDue'
    BY <1>9 DEF Flock, Goto, TakeLock, LockFree, AfterLock, IInv, SendsAreDue, TypeOK,
       LockTypeOK, Delivery, Closed, Settled, Live, rowVars, lockVars, procVars,
       ghostVars
  <2>5. LiveSendOwnsRow'
    BY <1>9, <1>0 DEF Flock, Goto, TakeLock, LockFree, AfterLock, IInv, LiveSendOwnsRow,
       Alone, SendsAreDue, TypeOK, LockTypeOK, Delivery, Closed, Settled, Live, rowVars,
       lockVars, procVars, ghostVars
  <2>6. EffectsFollowState' /\ SendBudget'
    BY <1>9, <1>0, DeliveryAssumption DEF Flock, Goto, TakeLock, LockFree, AfterLock,
       IInv, EffectsFollowState, SendBudget, LiveSendOwnsRow, Alone, SendsAreDue,
       TypeOK, LockTypeOK, Delivery, Closed, Settled, Live, rowVars, lockVars, procVars,
       ghostVars
  <2>7. CommitBeforeSend'
    BY <1>9 DEF Flock, Goto, TakeLock, LockFree, AfterLock, IInv, CommitBeforeSend,
       SendsAreDue, TypeOK, LockTypeOK, Delivery, Closed, Settled, Live, rowVars,
       lockVars, procVars, ghostVars
  <2>. QED
    BY <2>1, <2>2, <2>3, <2>4, <2>5, <2>6, <2>7 DEF IInv
<1>10. ASSUME NEW p \in Process, FlockBusy(p) PROVE IInv'
  <2>1. LockFollowsPC' /\ OneHolder'
    BY <1>10 DEF FlockBusy, Return, Goto, AfterClose, CloseLock, Forget, IInv,
       LockFollowsPC, OneHolder, TypeOK, LockTypeOK, Delivery, Closed, Live, rowVars,
       lockVars, procVars, ghostVars
  <2>2. SameFile'
    BY <1>10, <1>0 DEF FlockBusy, Return, Goto, AfterClose, CloseLock, Forget, IInv,
       SameFile, LockFollowsPC, SendsAreDue, Alone, TypeOK, LockTypeOK, Delivery,
       Closed, Settled, Live, rowVars, lockVars, procVars, ghostVars
  <2>3. UnlinkedIsSettled'
    BY <1>10 DEF FlockBusy, Return, Goto, AfterClose, CloseLock, Forget, IInv,
       UnlinkedIsSettled, LiveSendOwnsRow, TypeOK, LockTypeOK, Delivery, Closed,
       Settled, Live, rowVars, lockVars, procVars, ghostVars
  <2>4. SendsAreDue'
    BY <1>10 DEF FlockBusy, Return, Goto, AfterClose, CloseLock, Forget, IInv,
       SendsAreDue, TypeOK, LockTypeOK, Delivery, Closed, Settled, Live, rowVars,
       lockVars, procVars, ghostVars
  <2>5. LiveSendOwnsRow'
    BY <1>10, <1>0 DEF FlockBusy, Return, Goto, AfterClose, CloseLock, Forget, IInv,
       LiveSendOwnsRow, Alone, SendsAreDue, TypeOK, LockTypeOK, Delivery, Closed,
       Settled, Live, rowVars, lockVars, procVars, ghostVars
  <2>6. EffectsFollowState' /\ SendBudget'
    BY <1>10, <1>0, DeliveryAssumption DEF FlockBusy, Return, Goto, AfterClose,
       CloseLock, Forget, IInv, EffectsFollowState, SendBudget, LiveSendOwnsRow, Alone,
       SendsAreDue, TypeOK, LockTypeOK, Delivery, Closed, Settled, Live, rowVars,
       lockVars, procVars, ghostVars
  <2>7. CommitBeforeSend'
    BY <1>10 DEF FlockBusy, Return, Goto, AfterClose, CloseLock, Forget, IInv,
       CommitBeforeSend, SendsAreDue, TypeOK, LockTypeOK, Delivery, Closed, Settled,
       Live, rowVars, lockVars, procVars, ghostVars
  <2>. QED
    BY <2>1, <2>2, <2>3, <2>4, <2>5, <2>6, <2>7 DEF IInv
<1>11. ASSUME NEW p \in Process, Close(p) PROVE IInv'
  <2>1. LockFollowsPC' /\ OneHolder'
    BY <1>11 DEF Close, Return, Goto, AfterClose, CloseLock, Forget, IInv,
       LockFollowsPC, OneHolder, TypeOK, LockTypeOK, Delivery, Closed, Live, rowVars,
       lockVars, procVars, ghostVars
  <2>2. SameFile'
    BY <1>11, <1>0 DEF Close, Return, Goto, AfterClose, CloseLock, Forget, IInv,
       SameFile, LockFollowsPC, SendsAreDue, Alone, TypeOK, LockTypeOK, Delivery,
       Closed, Settled, Live, rowVars, lockVars, procVars, ghostVars
  <2>3. UnlinkedIsSettled'
    BY <1>11 DEF Close, Return, Goto, AfterClose, CloseLock, Forget, IInv,
       UnlinkedIsSettled, LiveSendOwnsRow, TypeOK, LockTypeOK, Delivery, Closed,
       Settled, Live, rowVars, lockVars, procVars, ghostVars
  <2>4. SendsAreDue'
    BY <1>11 DEF Close, Return, Goto, AfterClose, CloseLock, Forget, IInv, SendsAreDue,
       TypeOK, LockTypeOK, Delivery, Closed, Settled, Live, rowVars, lockVars, procVars,
       ghostVars
  <2>5. LiveSendOwnsRow'
    BY <1>11, <1>0 DEF Close, Return, Goto, AfterClose, CloseLock, Forget, IInv,
       LiveSendOwnsRow, Alone, SendsAreDue, TypeOK, LockTypeOK, Delivery, Closed,
       Settled, Live, rowVars, lockVars, procVars, ghostVars
  <2>6. EffectsFollowState' /\ SendBudget'
    BY <1>11, <1>0, DeliveryAssumption DEF Close, Return, Goto, AfterClose, CloseLock,
       Forget, IInv, EffectsFollowState, SendBudget, LiveSendOwnsRow, Alone,
       SendsAreDue, TypeOK, LockTypeOK, Delivery, Closed, Settled, Live, rowVars,
       lockVars, procVars, ghostVars
  <2>7. CommitBeforeSend'
    BY <1>11 DEF Close, Return, Goto, AfterClose, CloseLock, Forget, IInv,
       CommitBeforeSend, SendsAreDue, TypeOK, LockTypeOK, Delivery, Closed, Settled,
       Live, rowVars, lockVars, procVars, ghostVars
  <2>. QED
    BY <2>1, <2>2, <2>3, <2>4, <2>5, <2>6, <2>7 DEF IInv
<1>12. ASSUME NEW p \in Process, Leave(p) PROVE IInv'
  <2>1. LockFollowsPC' /\ OneHolder'
    BY <1>12 DEF Leave, Goto, UnlinkLock, IInv, LockFollowsPC, OneHolder, TypeOK,
       LockTypeOK, Delivery, Closed, Live, rowVars, lockVars, procVars, ghostVars
  <2>2. SameFile'
    BY <1>12, <1>0 DEF Leave, Goto, UnlinkLock, IInv, SameFile, LockFollowsPC,
       SendsAreDue, Alone, TypeOK, LockTypeOK, Delivery, Closed, Settled, Live, rowVars,
       lockVars, procVars, ghostVars
  <2>3. UnlinkedIsSettled'
    BY <1>12 DEF Leave, Goto, UnlinkLock, IInv, UnlinkedIsSettled, LiveSendOwnsRow,
       TypeOK, LockTypeOK, Delivery, Closed, Settled, Live, rowVars, lockVars, procVars,
       ghostVars
  <2>4. SendsAreDue'
    BY <1>12 DEF Leave, Goto, UnlinkLock, IInv, SendsAreDue, TypeOK, LockTypeOK,
       Delivery, Closed, Settled, Live, rowVars, lockVars, procVars, ghostVars
  <2>5. LiveSendOwnsRow'
    BY <1>12, <1>0 DEF Leave, Goto, UnlinkLock, IInv, LiveSendOwnsRow, Alone,
       SendsAreDue, TypeOK, LockTypeOK, Delivery, Closed, Settled, Live, rowVars,
       lockVars, procVars, ghostVars
  <2>6. EffectsFollowState' /\ SendBudget'
    BY <1>12, <1>0, DeliveryAssumption DEF Leave, Goto, UnlinkLock, IInv,
       EffectsFollowState, SendBudget, LiveSendOwnsRow, Alone, SendsAreDue, TypeOK,
       LockTypeOK, Delivery, Closed, Settled, Live, rowVars, lockVars, procVars,
       ghostVars
  <2>7. CommitBeforeSend'
    BY <1>12 DEF Leave, Goto, UnlinkLock, IInv, CommitBeforeSend, SendsAreDue, TypeOK,
       LockTypeOK, Delivery, Closed, Settled, Live, rowVars, lockVars, procVars,
       ghostVars
  <2>. QED
    BY <2>1, <2>2, <2>3, <2>4, <2>5, <2>6, <2>7 DEF IInv
<1>13. ASSUME NEW p \in Process, Kill(p) PROVE IInv'
  <2>1. LockFollowsPC' /\ OneHolder'
    BY <1>13 DEF Kill, CloseLock, Forget, IInv, LockFollowsPC, OneHolder, TypeOK,
       LockTypeOK, Delivery, Closed, Live, rowVars, lockVars, procVars, ghostVars
  <2>2. SameFile'
    BY <1>13, <1>0 DEF Kill, CloseLock, Forget, IInv, SameFile, LockFollowsPC,
       SendsAreDue, Alone, TypeOK, LockTypeOK, Delivery, Closed, Settled, Live, rowVars,
       lockVars, procVars, ghostVars
  <2>3. UnlinkedIsSettled'
    BY <1>13 DEF Kill, CloseLock, Forget, IInv, UnlinkedIsSettled, LiveSendOwnsRow,
       TypeOK, LockTypeOK, Delivery, Closed, Settled, Live, rowVars, lockVars, procVars,
       ghostVars
  <2>4. SendsAreDue'
    BY <1>13 DEF Kill, CloseLock, Forget, IInv, SendsAreDue, TypeOK, LockTypeOK,
       Delivery, Closed, Settled, Live, rowVars, lockVars, procVars, ghostVars
  <2>5. LiveSendOwnsRow'
    BY <1>13, <1>0 DEF Kill, CloseLock, Forget, IInv, LiveSendOwnsRow, Alone,
       SendsAreDue, TypeOK, LockTypeOK, Delivery, Closed, Settled, Live, rowVars,
       lockVars, procVars, ghostVars
  <2>6. EffectsFollowState' /\ SendBudget'
    BY <1>13, <1>0, DeliveryAssumption DEF Kill, CloseLock, Forget, IInv,
       EffectsFollowState, SendBudget, LiveSendOwnsRow, Alone, SendsAreDue, TypeOK,
       LockTypeOK, Delivery, Closed, Settled, Live, rowVars, lockVars, procVars,
       ghostVars
  <2>7. CommitBeforeSend'
    BY <1>13 DEF Kill, CloseLock, Forget, IInv, CommitBeforeSend, SendsAreDue, TypeOK,
       LockTypeOK, Delivery, Closed, Settled, Live, rowVars, lockVars, procVars,
       ghostVars
  <2>. QED
    BY <2>1, <2>2, <2>3, <2>4, <2>5, <2>6, <2>7 DEF IInv
<1>14. ASSUME NEW p \in Process, Current(p) PROVE IInv'
  <2>1. LockFollowsPC' /\ OneHolder'
    BY <1>14 DEF Current, Goto, DeliveryFailed, SetRow, IInv, LockFollowsPC, OneHolder,
       TypeOK, LockTypeOK, Delivery, Closed, Live, rowVars, lockVars, procVars,
       ghostVars
  <2>2. SameFile'
    BY <1>14, <1>0 DEF Current, Goto, DeliveryFailed, SetRow, IInv, SameFile,
       LockFollowsPC, SendsAreDue, Alone, TypeOK, LockTypeOK, Delivery, Closed, Settled,
       Live, rowVars, lockVars, procVars, ghostVars
  <2>3. UnlinkedIsSettled'
    BY <1>14 DEF Current, Goto, DeliveryFailed, SetRow, IInv, UnlinkedIsSettled,
       LiveSendOwnsRow, TypeOK, LockTypeOK, Delivery, Closed, Settled, Live, rowVars,
       lockVars, procVars, ghostVars
  <2>4. SendsAreDue'
    BY <1>14 DEF Current, Goto, DeliveryFailed, SetRow, IInv, SendsAreDue, TypeOK,
       LockTypeOK, Delivery, Closed, Settled, Live, rowVars, lockVars, procVars,
       ghostVars
  <2>5. LiveSendOwnsRow'
    <3>1. pc[p] \notin Closed \cup {"flock"} /\ pc'[p] \notin Live /\ key' = key
          /\ \A q \in Process \ {p} : pc'[q] = pc[q]
      BY <1>14 DEF Current, Goto, IInv, TypeOK, Closed, Live, lockVars
    <3>2. /\ state' = state \/ state[key[p]] \notin Settled
          /\ \A d \in Delivery \ {key[p]} : state'[d] = state[d]
      BY <1>14 DEF Current, DeliveryFailed, SetRow, IInv, TypeOK, Settled
    <3>. QED
      BY <1>0, <3>1, <3>2, OthersKeepRows
  <2>6. EffectsFollowState' /\ SendBudget'
    BY <1>14, <1>0, DeliveryAssumption DEF Current, Goto, DeliveryFailed, SetRow, IInv,
       EffectsFollowState, SendBudget, LiveSendOwnsRow, Alone, SendsAreDue, TypeOK,
       LockTypeOK, Delivery, Closed, Settled, Live, rowVars, lockVars, procVars,
       ghostVars
  <2>7. CommitBeforeSend'
    BY <1>14 DEF Current, Goto, DeliveryFailed, SetRow, IInv, CommitBeforeSend,
       SendsAreDue, TypeOK, LockTypeOK, Delivery, Closed, Settled, Live, rowVars,
       lockVars, procVars, ghostVars
  <2>. QED
    BY <2>1, <2>2, <2>3, <2>4, <2>5, <2>6, <2>7 DEF IInv
<1>15. ASSUME NEW p \in Process, Mark(p) PROVE IInv'
  <2>1. LockFollowsPC' /\ OneHolder'
    BY <1>15 DEF Mark, Goto, IInv, LockFollowsPC, OneHolder, TypeOK, LockTypeOK,
       Delivery, Closed, Live, rowVars, lockVars, procVars, ghostVars
  <2>2. SameFile'
    BY <1>15, <1>0 DEF Mark, Goto, IInv, SameFile, LockFollowsPC, SendsAreDue, Alone,
       TypeOK, LockTypeOK, Delivery, Closed, Settled, Live, rowVars, lockVars, procVars,
       ghostVars
  <2>3. UnlinkedIsSettled'
    BY <1>15 DEF Mark, Goto, IInv, UnlinkedIsSettled, LiveSendOwnsRow, TypeOK,
       LockTypeOK, Delivery, Closed, Settled, Live, rowVars, lockVars, procVars,
       ghostVars
  <2>4. SendsAreDue'
    BY <1>15 DEF Mark, Goto, IInv, SendsAreDue, TypeOK, LockTypeOK, Delivery, Closed,
       Settled, Live, rowVars, lockVars, procVars, ghostVars
  <2>5. LiveSendOwnsRow'
    BY <1>15, <1>0 DEF Mark, Goto, IInv, LiveSendOwnsRow, Alone, SendsAreDue, TypeOK,
       LockTypeOK, Delivery, Closed, Settled, Live, rowVars, lockVars, procVars,
       ghostVars
  <2>6. EffectsFollowState' /\ SendBudget'
    BY <1>15, <1>0, DeliveryAssumption DEF Mark, Goto, IInv, EffectsFollowState,
       SendBudget, LiveSendOwnsRow, Alone, SendsAreDue, TypeOK, LockTypeOK, Delivery,
       Closed, Settled, Live, rowVars, lockVars, procVars, ghostVars
  <2>7. CommitBeforeSend'
    BY <1>15 DEF Mark, Goto, IInv, CommitBeforeSend, SendsAreDue, TypeOK, LockTypeOK,
       Delivery, Closed, Settled, Live, rowVars, lockVars, procVars, ghostVars
  <2>. QED
    BY <2>1, <2>2, <2>3, <2>4, <2>5, <2>6, <2>7 DEF IInv
<1>16. ASSUME NEW p \in Process, Launch(p) PROVE IInv'
  <2>1. LockFollowsPC' /\ OneHolder'
    BY <1>16 DEF Launch, Goto, Raise, IInv, LockFollowsPC, OneHolder, TypeOK,
       LockTypeOK, Delivery, Closed, Live, rowVars, lockVars, procVars, ghostVars
  <2>2. SameFile'
    BY <1>16, <1>0 DEF Launch, Goto, Raise, IInv, SameFile, LockFollowsPC, SendsAreDue,
       Alone, TypeOK, LockTypeOK, Delivery, Closed, Settled, Live, rowVars, lockVars,
       procVars, ghostVars
  <2>3. UnlinkedIsSettled'
    BY <1>16 DEF Launch, Goto, Raise, IInv, UnlinkedIsSettled, LiveSendOwnsRow, TypeOK,
       LockTypeOK, Delivery, Closed, Settled, Live, rowVars, lockVars, procVars,
       ghostVars
  <2>4. SendsAreDue'
    BY <1>16 DEF Launch, Goto, Raise, IInv, SendsAreDue, TypeOK, LockTypeOK, Delivery,
       Closed, Settled, Live, rowVars, lockVars, procVars, ghostVars
  <2>5. LiveSendOwnsRow'
    BY <1>16, <1>0 DEF Launch, Goto, Raise, IInv, LiveSendOwnsRow, Alone, SendsAreDue,
       TypeOK, LockTypeOK, Delivery, Closed, Settled, Live, rowVars, lockVars, procVars,
       ghostVars
  <2>6. EffectsFollowState' /\ SendBudget'
    <3>. USE DEF IInv, EffectsFollowState, SendBudget, TypeOK, LockTypeOK, Delivery,
            rowVars, lockVars
    <3>1. pc[p] = "launch" /\ retries' = retries /\ key' = key /\ state' = state
      BY <1>16 DEF Launch, Goto, Raise
    <3>2. CASE pc' = [pc EXCEPT ![p] = "send"] /\ effects' = [effects EXCEPT ![key[p]] = @ + 1]
               /\ error' = error
      <4>1. state[key[p]] = "sending"
        BY <3>1 DEF LiveSendOwnsRow, Live
      <4>2. \A q \in Process \ {p} : pc[q] \in Live => key[q] # key[p]
        BY <1>0, <3>1, <4>1 DEF Alone, Closed, Live, Settled
      <4>3. SendBudget'
        BY <3>1, <3>2, DeliveryAssumption
      <4>. QED
        BY <3>1, <3>2, <4>1, <4>2, <4>3, DeliveryAssumption DEF Live
    <3>3. CASE pc' = [pc EXCEPT ![p] = "failed"] /\ effects' = effects
               /\ error' = [error EXCEPT ![p] = "notStarted"]
      BY <3>1, <3>3
    <3>. QED
      BY <1>16, <3>2, <3>3 DEF Launch, Goto, Raise
  <2>7. CommitBeforeSend'
    <3>1. key[p] \in Owned => key[p] \in committed
      BY <1>16 DEF Launch, Goto, Raise, IInv, SendsAreDue, Live
    <3>2. effects' = effects \/ effects' = [effects EXCEPT ![key[p]] = @ + 1]
      BY <1>16 DEF Launch
    <3>3. committed' = committed
      BY <1>16 DEF Launch, rowVars
    <3>4. ASSUME NEW d \in Owned, effects'[d] > 0 PROVE d \in committed
      BY <3>1, <3>2, <3>4, DeliveryAssumption DEF IInv, CommitBeforeSend, TypeOK, LockTypeOK,
         Delivery
    <3>. QED
      BY <3>3, <3>4 DEF CommitBeforeSend
  <2>. QED
    BY <2>1, <2>2, <2>3, <2>4, <2>5, <2>6, <2>7 DEF IInv
<1>17. ASSUME NEW p \in Process, Send(p) PROVE IInv'
  <2>1. LockFollowsPC' /\ OneHolder'
    BY <1>17 DEF Send, Goto, Raise, IInv, LockFollowsPC, OneHolder, TypeOK, LockTypeOK,
       Delivery, Closed, Live, rowVars, lockVars, procVars, ghostVars
  <2>2. SameFile'
    BY <1>17, <1>0 DEF Send, Goto, Raise, IInv, SameFile, LockFollowsPC, SendsAreDue,
       Alone, TypeOK, LockTypeOK, Delivery, Closed, Settled, Live, rowVars, lockVars,
       procVars, ghostVars
  <2>3. UnlinkedIsSettled'
    BY <1>17 DEF Send, Goto, Raise, IInv, UnlinkedIsSettled, LiveSendOwnsRow, TypeOK,
       LockTypeOK, Delivery, Closed, Settled, Live, rowVars, lockVars, procVars,
       ghostVars
  <2>4. SendsAreDue'
    BY <1>17 DEF Send, Goto, Raise, IInv, SendsAreDue, TypeOK, LockTypeOK, Delivery,
       Closed, Settled, Live, rowVars, lockVars, procVars, ghostVars
  <2>5. LiveSendOwnsRow'
    BY <1>17, <1>0 DEF Send, Goto, Raise, IInv, LiveSendOwnsRow, Alone, SendsAreDue,
       TypeOK, LockTypeOK, Delivery, Closed, Settled, Live, rowVars, lockVars, procVars,
       ghostVars
  <2>6. EffectsFollowState' /\ SendBudget'
    BY <1>17, <1>0, DeliveryAssumption DEF Send, Goto, Raise, IInv, EffectsFollowState,
       SendBudget, LiveSendOwnsRow, Alone, SendsAreDue, TypeOK, LockTypeOK, Delivery,
       Closed, Settled, Live, rowVars, lockVars, procVars, ghostVars
  <2>7. CommitBeforeSend'
    BY <1>17 DEF Send, Goto, Raise, IInv, CommitBeforeSend, SendsAreDue, TypeOK,
       LockTypeOK, Delivery, Closed, Settled, Live, rowVars, lockVars, procVars,
       ghostVars
  <2>. QED
    BY <2>1, <2>2, <2>3, <2>4, <2>5, <2>6, <2>7 DEF IInv
<1>18. ASSUME NEW p \in Process, Receipt(p) PROVE IInv'
  <2>1. LockFollowsPC' /\ OneHolder'
    BY <1>18 DEF Receipt, Goto, SetRow, Raise, IInv, LockFollowsPC, OneHolder, TypeOK,
       LockTypeOK, Delivery, Closed, Live, rowVars, lockVars, procVars, ghostVars
  <2>2. SameFile'
    BY <1>18, <1>0 DEF Receipt, Goto, SetRow, Raise, IInv, SameFile, LockFollowsPC,
       SendsAreDue, Alone, TypeOK, LockTypeOK, Delivery, Closed, Settled, Live, rowVars,
       lockVars, procVars, ghostVars
  <2>3. UnlinkedIsSettled'
    BY <1>18 DEF Receipt, Goto, SetRow, Raise, IInv, UnlinkedIsSettled, LiveSendOwnsRow,
       TypeOK, LockTypeOK, Delivery, Closed, Settled, Live, rowVars, lockVars, procVars,
       ghostVars
  <2>4. SendsAreDue'
    BY <1>18 DEF Receipt, Goto, SetRow, Raise, IInv, SendsAreDue, TypeOK, LockTypeOK,
       Delivery, Closed, Settled, Live, rowVars, lockVars, procVars, ghostVars
  <2>5. LiveSendOwnsRow'
    BY <1>18, <1>0 DEF Receipt, Goto, SetRow, Raise, IInv, LiveSendOwnsRow, Alone,
       SendsAreDue, TypeOK, LockTypeOK, Delivery, Closed, Settled, Live, rowVars,
       lockVars, procVars, ghostVars
  <2>6. EffectsFollowState' /\ SendBudget'
    BY <1>18, <1>0, DeliveryAssumption DEF Receipt, Goto, SetRow, Raise, IInv,
       EffectsFollowState, SendBudget, LiveSendOwnsRow, Alone, SendsAreDue, TypeOK,
       LockTypeOK, Delivery, Closed, Settled, Live, rowVars, lockVars, procVars,
       ghostVars
  <2>7. CommitBeforeSend'
    BY <1>18 DEF Receipt, Goto, SetRow, Raise, IInv, CommitBeforeSend, SendsAreDue,
       TypeOK, LockTypeOK, Delivery, Closed, Settled, Live, rowVars, lockVars, procVars,
       ghostVars
  <2>. QED
    BY <2>1, <2>2, <2>3, <2>4, <2>5, <2>6, <2>7 DEF IInv
<1>19. ASSUME NEW p \in Process, Failed(p) PROVE IInv'
  <2>1. LockFollowsPC' /\ OneHolder'
    BY <1>19, FailedRow DEF Goto, Outcomes, IInv, LockFollowsPC, OneHolder, TypeOK,
       LockTypeOK, Delivery, Closed, Live, rowVars, lockVars, procVars, ghostVars
  <2>2. SameFile'
    <3>1. lockVars' = lockVars
      BY <1>19, FailedRow DEF IInv
    <3>2. \A d \in Delivery : state'[d] \notin Settled => state[d] \notin Settled
      BY <1>19, FailedRow DEF IInv, TypeOK
    <3>. QED
      BY <3>1, <3>2 DEF IInv, SameFile, TypeOK, LockTypeOK, Delivery, lockVars
  <2>3. UnlinkedIsSettled'
    BY <1>19, FailedRow DEF Goto, Outcomes, IInv, UnlinkedIsSettled, LiveSendOwnsRow,
       TypeOK, LockTypeOK, Delivery, Closed, Settled, Live, rowVars, lockVars, procVars,
       ghostVars
  <2>4. SendsAreDue'
    BY <1>19, FailedRow DEF Goto, Outcomes, IInv, SendsAreDue, TypeOK, LockTypeOK,
       Delivery, Closed, Settled, Live, rowVars, lockVars, procVars, ghostVars
  <2>5. LiveSendOwnsRow'
    <3>1. pc[p] \notin Closed \cup {"flock"} /\ pc'[p] \notin Live /\ key' = key
          /\ \A q \in Process \ {p} : pc'[q] = pc[q]
      BY <1>19, FailedRow DEF Goto, IInv, TypeOK, Closed, Live, lockVars
    <3>2. /\ state' = state \/ state[key[p]] \notin Settled
          /\ \A d \in Delivery \ {key[p]} : state'[d] = state[d]
      BY <1>19, FailedRow DEF IInv, TypeOK, Settled
    <3>. QED
      BY <1>0, <3>1, <3>2, OthersKeepRows
  <2>6. EffectsFollowState' /\ SendBudget'
    BY <1>19, <1>0, FailedRow, DeliveryAssumption DEF Goto, Outcomes, IInv,
       EffectsFollowState, SendBudget, LiveSendOwnsRow, Alone, SendsAreDue, TypeOK,
       LockTypeOK, Delivery, Closed, Settled, Live, rowVars, lockVars, procVars,
       ghostVars
  <2>7. CommitBeforeSend'
    BY <1>19, FailedRow DEF Goto, Outcomes, IInv, CommitBeforeSend, SendsAreDue, TypeOK,
       LockTypeOK, Delivery, Closed, Settled, Live, rowVars, lockVars, procVars,
       ghostVars
  <2>. QED
    BY <2>1, <2>2, <2>3, <2>4, <2>5, <2>6, <2>7 DEF IInv
<1>20. ASSUME NEW p \in Process, Signal(p) PROVE IInv'
  <2>1. LockFollowsPC' /\ OneHolder'
    BY <1>20, EndedRow DEF Signal, Outcomes, IInv, LockFollowsPC, OneHolder, TypeOK,
       LockTypeOK, Delivery, Closed, Live, rowVars, lockVars, procVars, ghostVars
  <2>2. SameFile'
    <3>1. lockVars' = lockVars
      BY <1>20 DEF Signal
    <3>2. \A d \in Delivery : state'[d] \notin Settled => state[d] \notin Settled
      BY <1>20, EndedRow DEF Signal, IInv, TypeOK, LockTypeOK, Delivery, Settled
    <3>. QED
      BY <3>1, <3>2 DEF IInv, SameFile, TypeOK, LockTypeOK, Delivery, lockVars
  <2>3. UnlinkedIsSettled'
    BY <1>20, EndedRow DEF Signal, Outcomes, IInv, UnlinkedIsSettled, LiveSendOwnsRow,
       TypeOK, LockTypeOK, Delivery, Closed, Settled, Live, rowVars, lockVars, procVars,
       ghostVars
  <2>4. SendsAreDue'
    BY <1>20, EndedRow DEF Signal, Outcomes, IInv, SendsAreDue, TypeOK, LockTypeOK,
       Delivery, Closed, Settled, Live, rowVars, lockVars, procVars, ghostVars
  <2>5. LiveSendOwnsRow'
    <3>1. pc[p] \notin Closed \cup {"flock"} /\ pc'[p] \notin Live /\ key' = key
          /\ \A q \in Process \ {p} : pc'[q] = pc[q]
      BY <1>20 DEF Signal, IInv, TypeOK, Closed, Live, lockVars
    <3>2. /\ state' = state \/ state[key[p]] \notin Settled
          /\ \A d \in Delivery \ {key[p]} : state'[d] = state[d]
      BY <1>20, EndedRow DEF Signal, IInv, TypeOK, LockTypeOK, Delivery, Settled
    <3>. QED
      BY <1>0, <3>1, <3>2, OthersKeepRows
  <2>6. EffectsFollowState' /\ SendBudget'
    BY <1>20, <1>0, EndedRow, DeliveryAssumption DEF Signal, Outcomes, IInv,
       EffectsFollowState, SendBudget, LiveSendOwnsRow, Alone, SendsAreDue, TypeOK,
       LockTypeOK, Delivery, Closed, Settled, Live, rowVars, lockVars, procVars,
       ghostVars
  <2>7. CommitBeforeSend'
    BY <1>20, EndedRow DEF Signal, Outcomes, IInv, CommitBeforeSend, SendsAreDue,
       TypeOK, LockTypeOK, Delivery, Closed, Settled, Live, rowVars, lockVars, procVars,
       ghostVars
  <2>. QED
    BY <2>1, <2>2, <2>3, <2>4, <2>5, <2>6, <2>7 DEF IInv
<1>21. ASSUME NEW p \in Process, Interrupted(p) PROVE IInv'
  <2>1. LockFollowsPC' /\ OneHolder'
    BY <1>21, EndedRow DEF Interrupted, Goto, Outcomes, IInv, LockFollowsPC, OneHolder,
       TypeOK, LockTypeOK, Delivery, Closed, Live, rowVars, lockVars, procVars,
       ghostVars
  <2>2. SameFile'
    BY <1>21, <1>0, EndedRow DEF Interrupted, Goto, Outcomes, IInv, SameFile,
       LockFollowsPC, SendsAreDue, Alone, TypeOK, LockTypeOK, Delivery, Closed, Settled,
       Live, rowVars, lockVars, procVars, ghostVars
  <2>3. UnlinkedIsSettled'
    BY <1>21, EndedRow DEF Interrupted, Goto, Outcomes, IInv, UnlinkedIsSettled,
       LiveSendOwnsRow, TypeOK, LockTypeOK, Delivery, Closed, Settled, Live, rowVars,
       lockVars, procVars, ghostVars
  <2>4. SendsAreDue'
    BY <1>21, EndedRow DEF Interrupted, Goto, Outcomes, IInv, SendsAreDue, TypeOK,
       LockTypeOK, Delivery, Closed, Settled, Live, rowVars, lockVars, procVars,
       ghostVars
  <2>5. LiveSendOwnsRow'
    <3>1. pc[p] \notin Closed \cup {"flock"} /\ pc'[p] \notin Live /\ key' = key
          /\ \A q \in Process \ {p} : pc'[q] = pc[q]
      BY <1>21 DEF Interrupted, Goto, IInv, TypeOK, Closed, Live, lockVars
    <3>2. /\ state' = state \/ state[key[p]] \notin Settled
          /\ \A d \in Delivery \ {key[p]} : state'[d] = state[d]
      BY <1>21, EndedRow DEF Interrupted, IInv, TypeOK, LockTypeOK, Delivery,
         Settled
    <3>. QED
      BY <1>0, <3>1, <3>2, OthersKeepRows
  <2>6. EffectsFollowState' /\ SendBudget'
    BY <1>21, <1>0, EndedRow, DeliveryAssumption DEF Interrupted, Goto, Outcomes, IInv,
       EffectsFollowState, SendBudget, LiveSendOwnsRow, Alone, SendsAreDue, TypeOK,
       LockTypeOK, Delivery, Closed, Settled, Live, rowVars, lockVars, procVars,
       ghostVars
  <2>7. CommitBeforeSend'
    BY <1>21, EndedRow DEF Interrupted, Goto, Outcomes, IInv, CommitBeforeSend,
       SendsAreDue, TypeOK, LockTypeOK, Delivery, Closed, Settled, Live, rowVars,
       lockVars, procVars, ghostVars
  <2>. QED
    BY <2>1, <2>2, <2>3, <2>4, <2>5, <2>6, <2>7 DEF IInv
<1>22. ASSUME NEW p \in Process, ResolveDelivery(p) PROVE IInv'
  <2>1. Refuses(p) \/ Retries(p) \/ Cancels(p)
    BY <1>22, Decision DEF IInv
  <2>2. CASE Refuses(p)
    <3>1. LockFollowsPC' /\ OneHolder'
      BY <2>2 DEF Refuses, Goto, Forget, IInv, LockFollowsPC, OneHolder, TypeOK,
         LockTypeOK, Delivery, Closed, Settled, Live, rowVars, lockVars, procVars,
         ghostVars
    <3>2. SameFile'
      BY <2>2, <1>0 DEF Refuses, Goto, Forget, IInv, SameFile, LockFollowsPC,
         SendsAreDue, Alone, TypeOK, LockTypeOK, Delivery, Closed, Settled, Live,
         rowVars, lockVars, procVars, ghostVars
    <3>3. UnlinkedIsSettled'
      BY <2>2 DEF Refuses, Goto, Forget, IInv, UnlinkedIsSettled, LiveSendOwnsRow,
         TypeOK, LockTypeOK, Delivery, Closed, Settled, Live, rowVars, lockVars,
         procVars, ghostVars
    <3>4. SendsAreDue'
      BY <2>2 DEF Refuses, Goto, Forget, IInv, SendsAreDue, TypeOK, LockTypeOK,
         Delivery, Closed, Settled, Live, rowVars, lockVars, procVars, ghostVars
    <3>5. LiveSendOwnsRow'
      BY <2>2, <1>0 DEF Refuses, Goto, Forget, IInv, LiveSendOwnsRow, Alone,
         SendsAreDue, TypeOK, LockTypeOK, Delivery, Closed, Settled, Live, rowVars,
         lockVars, procVars, ghostVars
    <3>6. EffectsFollowState' /\ SendBudget'
      BY <2>2, <1>0, DeliveryAssumption DEF Refuses, Goto, Forget, IInv,
         EffectsFollowState, SendBudget, LiveSendOwnsRow, Alone, SendsAreDue, TypeOK,
         LockTypeOK, Delivery, Closed, Settled, Live, rowVars, lockVars, procVars,
         ghostVars
    <3>7. CommitBeforeSend'
      BY <2>2 DEF Refuses, Goto, Forget, IInv, CommitBeforeSend, SendsAreDue, TypeOK,
         LockTypeOK, Delivery, Closed, Settled, Live, rowVars, lockVars, procVars,
         ghostVars
    <3>. QED
      BY <3>1, <3>2, <3>3, <3>4, <3>5, <3>6, <3>7 DEF IInv
  <2>3. CASE Retries(p)
    <3>1. LockFollowsPC' /\ OneHolder'
      BY <2>3 DEF Retries, Goto, Forget, Resolvable, SetRow, IInv, LockFollowsPC,
         OneHolder, TypeOK, LockTypeOK, Delivery, Closed, Settled, Live, rowVars,
         lockVars, procVars, ghostVars
    <3>2. SameFile'
      BY <2>3, <1>0 DEF Retries, Goto, Forget, Resolvable, SetRow, IInv, SameFile,
         LockFollowsPC, SendsAreDue, Alone, TypeOK, LockTypeOK, Delivery, Closed,
         Settled, Live, rowVars, lockVars, procVars, ghostVars
    <3>3. UnlinkedIsSettled'
      BY <2>3 DEF Retries, Goto, Forget, Resolvable, SetRow, IInv, UnlinkedIsSettled,
         LiveSendOwnsRow, TypeOK, LockTypeOK, Delivery, Closed, Settled, Live, rowVars,
         lockVars, procVars, ghostVars
    <3>4. SendsAreDue'
      BY <2>3 DEF Retries, Goto, Forget, Resolvable, SetRow, IInv, SendsAreDue, TypeOK,
         LockTypeOK, Delivery, Closed, Settled, Live, rowVars, lockVars, procVars,
         ghostVars
    <3>5. LiveSendOwnsRow'
      BY <2>3, <1>0 DEF Retries, Goto, Forget, Resolvable, SetRow, IInv,
         LiveSendOwnsRow, Alone, SendsAreDue, TypeOK, LockTypeOK, Delivery, Closed,
         Settled, Live, rowVars, lockVars, procVars, ghostVars
    <3>6. EffectsFollowState' /\ SendBudget'
      BY <2>3, <1>0, DeliveryAssumption DEF Retries, Goto, Forget, Resolvable, SetRow,
         IInv, EffectsFollowState, SendBudget, LiveSendOwnsRow, Alone, SendsAreDue,
         TypeOK, LockTypeOK, Delivery, Closed, Settled, Live, rowVars, lockVars,
         procVars, ghostVars
    <3>7. CommitBeforeSend'
      BY <2>3 DEF Retries, Goto, Forget, Resolvable, SetRow, IInv, CommitBeforeSend,
         SendsAreDue, TypeOK, LockTypeOK, Delivery, Closed, Settled, Live, rowVars,
         lockVars, procVars, ghostVars
    <3>. QED
      BY <3>1, <3>2, <3>3, <3>4, <3>5, <3>6, <3>7 DEF IInv
  <2>4. CASE Cancels(p)
    <3>1. LockFollowsPC' /\ OneHolder'
      BY <2>4 DEF Cancels, Goto, Resolvable, SetRow, IInv, LockFollowsPC, OneHolder,
         TypeOK, LockTypeOK, Delivery, Closed, Settled, Live, rowVars, lockVars,
         procVars, ghostVars
    <3>2. SameFile'
      BY <2>4, <1>0 DEF Cancels, Goto, Resolvable, SetRow, IInv, SameFile,
         LockFollowsPC, SendsAreDue, Alone, TypeOK, LockTypeOK, Delivery, Closed,
         Settled, Live, rowVars, lockVars, procVars, ghostVars
    <3>3. UnlinkedIsSettled'
      BY <2>4 DEF Cancels, Goto, Resolvable, SetRow, IInv, UnlinkedIsSettled,
         LiveSendOwnsRow, TypeOK, LockTypeOK, Delivery, Closed, Settled, Live, rowVars,
         lockVars, procVars, ghostVars
    <3>4. SendsAreDue'
      BY <2>4 DEF Cancels, Goto, Resolvable, SetRow, IInv, SendsAreDue, TypeOK,
         LockTypeOK, Delivery, Closed, Settled, Live, rowVars, lockVars, procVars,
         ghostVars
    <3>5. LiveSendOwnsRow'
      BY <2>4, <1>0 DEF Cancels, Goto, Resolvable, SetRow, IInv, LiveSendOwnsRow, Alone,
         SendsAreDue, TypeOK, LockTypeOK, Delivery, Closed, Settled, Live, rowVars,
         lockVars, procVars, ghostVars
    <3>6. EffectsFollowState' /\ SendBudget'
      BY <2>4, <1>0, DeliveryAssumption DEF Cancels, Goto, Resolvable, SetRow, IInv,
         EffectsFollowState, SendBudget, LiveSendOwnsRow, Alone, SendsAreDue, TypeOK,
         LockTypeOK, Delivery, Closed, Settled, Live, rowVars, lockVars, procVars,
         ghostVars
    <3>7. CommitBeforeSend'
      BY <2>4 DEF Cancels, Goto, Resolvable, SetRow, IInv, CommitBeforeSend,
         SendsAreDue, TypeOK, LockTypeOK, Delivery, Closed, Settled, Live, rowVars,
         lockVars, procVars, ghostVars
    <3>. QED
      BY <3>1, <3>2, <3>3, <3>4, <3>5, <3>6, <3>7 DEF IInv
  <2>. QED
    BY <2>1, <2>2, <2>3, <2>4
<1>23. ASSUME NEW p \in Process, Unlink(p) PROVE IInv'
  <2>1. LockFollowsPC' /\ OneHolder'
    BY <1>23 DEF Unlink, Goto, UnlinkLock, IInv, LockFollowsPC, OneHolder,
       UnlinkedIsSettled, TypeOK, LockTypeOK, Delivery, Closed, Live, rowVars, lockVars,
       procVars, ghostVars
  <2>2. SameFile'
    BY <1>23, <1>0 DEF Unlink, Goto, UnlinkLock, IInv, SameFile, LockFollowsPC,
       SendsAreDue, Alone, UnlinkedIsSettled, TypeOK, LockTypeOK, Delivery, Closed,
       Settled, Live, rowVars, lockVars, procVars, ghostVars
  <2>3. UnlinkedIsSettled'
    BY <1>23 DEF Unlink, Goto, UnlinkLock, IInv, UnlinkedIsSettled, LiveSendOwnsRow,
       TypeOK, LockTypeOK, Delivery, Closed, Settled, Live, rowVars, lockVars, procVars,
       ghostVars
  <2>4. SendsAreDue'
    BY <1>23 DEF Unlink, Goto, UnlinkLock, IInv, SendsAreDue, UnlinkedIsSettled, TypeOK,
       LockTypeOK, Delivery, Closed, Settled, Live, rowVars, lockVars, procVars,
       ghostVars
  <2>5. LiveSendOwnsRow'
    BY <1>23, <1>0 DEF Unlink, Goto, UnlinkLock, IInv, LiveSendOwnsRow, Alone,
       SendsAreDue, UnlinkedIsSettled, TypeOK, LockTypeOK, Delivery, Closed, Settled,
       Live, rowVars, lockVars, procVars, ghostVars
  <2>6. EffectsFollowState' /\ SendBudget'
    BY <1>23, <1>0, DeliveryAssumption DEF Unlink, Goto, UnlinkLock, IInv,
       EffectsFollowState, SendBudget, LiveSendOwnsRow, Alone, SendsAreDue,
       UnlinkedIsSettled, TypeOK, LockTypeOK, Delivery, Closed, Settled, Live, rowVars,
       lockVars, procVars, ghostVars
  <2>7. CommitBeforeSend'
    BY <1>23 DEF Unlink, Goto, UnlinkLock, IInv, CommitBeforeSend, SendsAreDue,
       UnlinkedIsSettled, TypeOK, LockTypeOK, Delivery, Closed, Settled, Live, rowVars,
       lockVars, procVars, ghostVars
  <2>. QED
    BY <2>1, <2>2, <2>3, <2>4, <2>5, <2>6, <2>7 DEF IInv
<1>. QED
  BY <1>1, <1>2, <1>3, <1>4, <1>5, <1>6, <1>7, <1>8, <1>9, <1>10, <1>11, <1>12, <1>13,
     <1>14, <1>15, <1>16, <1>17, <1>18, <1>19, <1>20, <1>21, <1>22, <1>23 DEF Next, Call

-----------------------------------------------------------------------------
(* Theorems.                                                               *)

\* The type invariant holds at the start.
LEMMA TypeInit == Init => TypeOK
  BY DeliveryAssumption DEF Init, LockInit, TypeOK, LockTypeOK, State, PC, Task, Delivery

\* The rows, the locks and the processes have their types: the states of the
\* schema, and the steps of deliver, recover_attempts and retry.
THEOREM TypeCorrect == Spec => []TypeOK
<1>1. Init => TypeOK
  BY TypeInit
<1>2. TypeOK /\ [Next]_vars => TypeOK'
  BY TypeNext
<1>. QED
  BY <1>1, <1>2, PTL DEF Spec

\* The inductive invariant holds at the start.
LEMMA InvInit == Init => IInv
<1>. SUFFICES ASSUME Init PROVE IInv
  OBVIOUS
<1>1. TypeOK
  BY TypeInit
<1>2. LockFollowsPC /\ OneHolder /\ SameFile
  BY <1>1 DEF Init, LockInit, LockFollowsPC, OneHolder, SameFile, Closed, TypeOK, LockTypeOK
<1>3. UnlinkedIsSettled /\ SendsAreDue /\ LiveSendOwnsRow
  BY DEF Init, UnlinkedIsSettled, SendsAreDue, LiveSendOwnsRow, Live
<1>4. EffectsFollowState /\ SendBudget /\ CommitBeforeSend
  BY DeliveryAssumption DEF Init, EffectsFollowState, SendBudget, CommitBeforeSend, Delivery
<1>. QED
  BY <1>1, <1>2, <1>3, <1>4 DEF IInv

\* The inductive invariant survives a step or a stutter.
LEMMA InvStep == IInv /\ [Next]_vars => IInv'
<1>. SUFFICES ASSUME IInv, [Next]_vars PROVE IInv'
  OBVIOUS
<1>1. TypeOK'
  BY TypeNext DEF IInv
<1>2. CASE Next
  BY <1>1, <1>2, InvNext
<1>3. CASE UNCHANGED vars
  BY <1>1, <1>3 DEF vars, rowVars, lockVars, procVars, ghostVars, IInv, LockFollowsPC,
     OneHolder, SameFile, UnlinkedIsSettled, SendsAreDue, LiveSendOwnsRow,
     EffectsFollowState, SendBudget, CommitBeforeSend
<1>. QED
  BY <1>2, <1>3

\* The inductive invariant: locks, rows and program counters agree in every
\* reachable state.
THEOREM Invariance == Spec => []IInv
<1>1. Init => IInv
  BY InvInit
<1>2. IInv /\ [Next]_vars => IInv'
  BY InvStep
<1>. QED
  BY <1>1, <1>2, PTL DEF Spec

\* However many processes send, recover, retry and cancel, and wherever they
\* die: a message whose send is not idempotent reaches its channel at most once
\* for each time the owner asked for it.
THEOREM BudgetKept == Spec => []SendBudget
<1>1. IInv => SendBudget
  BY DEF IInv
<1>. QED
  BY <1>1, Invariance, PTL

\* No message of a job leaves before the record that answers it is stored.
THEOREM CommittedFirst == Spec => []CommitBeforeSend
<1>1. IInv => CommitBeforeSend
  BY DEF IInv
<1>. QED
  BY <1>1, Invariance, PTL

\* No two processes send one delivery at once, although its lock file's name
\* may lead to another inode than the one a process waits for.
THEOREM ExclusiveSend == Spec => []OneSend
<1>1. IInv => OneSend
  <2>. SUFFICES ASSUME IInv, NEW p \in Process, NEW q \in Process,
                       pc[p] \in Live, pc[q] \in Live, key[p] = key[q]
                PROVE  p = q
    BY DEF OneSend
  <2>1. state[key[p]] \notin Settled
    BY DEF IInv, LiveSendOwnsRow, Settled
  <2>. QED
    BY <2>1, AloneAtWork DEF Alone, Live, Closed
<1>. QED
  BY <1>1, Invariance, PTL

\* While an attempt lives, nobody else records it as ended, sends it again or
\* cancels it.
THEOREM SendOwnsRow == Spec => []LiveSendOwnsRow
<1>1. IInv => LiveSendOwnsRow
  BY DEF IInv
<1>. QED
  BY <1>1, Invariance, PTL

\* No single step takes a delivery out of a settled state.
LEMMA SettledStep == IInv /\ [Next]_vars => KeepsSettled
<1>. SUFFICES ASSUME IInv, [Next]_vars, NEW x \in Delivery, state[x] \in Settled
              PROVE  state'[x] = state[x]
  BY DEF KeepsSettled
<1>. USE DEF IInv, TypeOK, LockTypeOK, Settled, Delivery
<1>1. ASSUME NEW d \in Delivery, Insert(d) PROVE state'[x] = state[x]
  BY <1>1 DEF Insert, rowVars
<1>2. ASSUME NEW d \in Delivery, CommitJob(d) PROVE state'[x] = state[x]
  BY <1>2 DEF CommitJob, rowVars
<1>3. ASSUME NEW d \in Delivery, CancelWithJob(d) PROVE state'[x] = state[x]
  BY <1>3 DEF CancelWithJob, rowVars
<1>4. ASSUME NEW d \in Delivery, BackoffElapses(d) PROVE state'[x] = state[x]
  BY <1>4 DEF BackoffElapses, rowVars
<1>5. ASSUME NEW p \in Process, NEW d \in Delivery, Pick(p, d) PROVE state'[x] =
   state[x]
  BY <1>5 DEF Pick, Begin, Goto, rowVars
<1>6. ASSUME NEW p \in Process, NEW d \in Delivery, Recover(p, d) PROVE state'[x] =
   state[x]
  BY <1>6 DEF Recover, Begin, Goto, rowVars
<1>7. ASSUME NEW p \in Process, NEW d \in Delivery, Resolve(p, d) PROVE state'[x] =
   state[x]
  BY <1>7 DEF Resolve, Begin, Goto, rowVars
<1>8. ASSUME NEW p \in Process, Open(p) PROVE state'[x] = state[x]
  BY <1>8 DEF Open, Goto, rowVars
<1>9. ASSUME NEW p \in Process, Flock(p) PROVE state'[x] = state[x]
  BY <1>9 DEF Flock, Goto, rowVars
<1>10. ASSUME NEW p \in Process, FlockBusy(p) PROVE state'[x] = state[x]
  BY <1>10 DEF FlockBusy, Return, Goto, rowVars
<1>11. ASSUME NEW p \in Process, Close(p) PROVE state'[x] = state[x]
  BY <1>11 DEF Close, Return, Goto, rowVars
<1>12. ASSUME NEW p \in Process, Leave(p) PROVE state'[x] = state[x]
  BY <1>12 DEF Leave, Goto, rowVars
<1>13. ASSUME NEW p \in Process, Kill(p) PROVE state'[x] = state[x]
  BY <1>13 DEF Kill, rowVars
<1>14. ASSUME NEW p \in Process, Current(p) PROVE state'[x] = state[x]
  BY <1>14 DEF Current, Goto, DeliveryFailed, SetRow, rowVars
<1>15. ASSUME NEW p \in Process, Mark(p) PROVE state'[x] = state[x]
  BY <1>15 DEF Mark, Goto, rowVars
<1>16. ASSUME NEW p \in Process, Launch(p) PROVE state'[x] = state[x]
  BY <1>16 DEF Launch, Goto, Raise, rowVars
<1>17. ASSUME NEW p \in Process, Send(p) PROVE state'[x] = state[x]
  BY <1>17 DEF Send, Goto, Raise, rowVars
<1>18. ASSUME NEW p \in Process, Receipt(p) PROVE state'[x] = state[x]
  BY <1>18 DEF Receipt, Goto, SetRow, Raise, rowVars, LiveSendOwnsRow, Live
<1>19. ASSUME NEW p \in Process, Failed(p) PROVE state'[x] = state[x]
  BY <1>19, FailedRow DEF Goto, rowVars
<1>20. ASSUME NEW p \in Process, Signal(p) PROVE state'[x] = state[x]
  BY <1>20, EndedRow DEF Signal, rowVars
<1>21. ASSUME NEW p \in Process, Interrupted(p) PROVE state'[x] = state[x]
  BY <1>21, EndedRow DEF Interrupted, Goto, rowVars
<1>22. ASSUME NEW p \in Process, ResolveDelivery(p) PROVE state'[x] = state[x]
  BY <1>22, Decision DEF Refuses, Retries, Cancels, Resolvable, SetRow
<1>23. ASSUME NEW p \in Process, Unlink(p) PROVE state'[x] = state[x]
  BY <1>23 DEF Unlink, Goto, rowVars
<1>24. CASE UNCHANGED vars
  BY <1>24 DEF vars, rowVars
<1>. QED
  BY <1>1, <1>2, <1>3, <1>4, <1>5, <1>6, <1>7, <1>8, <1>9, <1>10, <1>11, <1>12, <1>13,
     <1>14, <1>15, <1>16, <1>17, <1>18, <1>19, <1>20, <1>21, <1>22, <1>23, <1>24 DEF
     Next, Call

\* Delivered and cancelled are final, although a receipt overwrites the state
\* column and every failure is recorded from an earlier read.
THEOREM SettledForGood == Spec => SettledStays
<1>1. IInv /\ [Next]_vars => [KeepsSettled]_vars
  BY SettledStep
<1>. QED
  BY <1>1, Invariance, PTL DEF Spec, SettledStays

=============================================================================
