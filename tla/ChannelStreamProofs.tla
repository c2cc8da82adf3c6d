------------------------ MODULE ChannelStreamProofs ------------------------
(***************************************************************************)
(* Proofs about ChannelStream, for any messages, assistants and bounds:    *)
(* what was acknowledged is in the queue and was given to those who read   *)
(* the channel, the durable cursor passes nothing, an echo starts no job,  *)
(* and every step is one that Inbox promises. Then about inputs that are   *)
(* polled (ReadPoll): the checkpoint passes no message that it must admit. *)
(***************************************************************************)
EXTENDS ChannelStream, Integers, TLAPS

-----------------------------------------------------------------------------
(* The inductive invariant.                                                *)

\* The stream has a first start before it ever connects.
StartedFirst ==
    /\ pc # "down" => since # None
    /\ since = None => cursor = 0

\* The worker handles the first frame of the pipe, for every assistant that
\* has read the channel all along.
FrameInHand ==
    /\ pc \in {"accept", "admit", "report"} => pipe # <<>>
    /\ loyal \subseteq readers
    /\ pc \in {"accept", "admit"} => loyal \subseteq recipients

\* Nothing is acknowledged that the queue has not taken care of.
Done(i) == Handled(log[i].id)

Answered(i) ==
    \/ pc = "report" /\ i = Head(pipe)
    \/ \E k \in 1..Len(acks) : i = acks[k]
    \/ i \in acked

HandledFirst == \A i \in 1..Len(log) : Answered(i) => Done(i)

\* A message is admitted together with the jobs of those who read the channel.
AdmittedServed ==
    \A m \in Message : \A a \in loyal :
        events[m] = None \/ m \in Own \cup receipts \/ jobs[a][m] # "absent"

\* The frames of a polling adapter follow the cursor one by one, without a gap.
Resume == IF cursor = 0 THEN since ELSE cursor

PollInOrder ==
    adapter = "poll" /\ pc # "down" =>
        /\ at + (IF pc = "report" THEN 1 ELSE 0) = Resume + Len(pipe)
        /\ \A k \in 1..Len(pipe) : pipe[k] + Len(pipe) = at + k

\* A job for a message that proved to be our own waits no longer.
EchoesSettled == \A a \in Assistant : \A m \in receipts : jobs[a][m] # "pending"

IInv ==
    /\ TypeOK
    /\ StartedFirst
    /\ FrameInHand
    /\ HandledFirst
    /\ AdmittedServed
    /\ PollInOrder
    /\ NothingSkipped
    /\ EchoesSettled

-----------------------------------------------------------------------------
(* Steps.                                                                  *)

\* The provider only appends: what a position names never changes.
LEMMA EntriesStay ==
    ASSUME TypeOK, [Next]_vars
    PROVE  /\ Len(log') \in Nat /\ Len(log') >= Len(log)
           /\ \A i \in 1..Len(log) : log'[i] = log[i]
<1>. USE DEF TypeOK, vars, provider
<1>1. ASSUME NEW m \in Message, Post(m) PROVE
        /\ Len(log') \in Nat /\ Len(log') >= Len(log)
        /\ \A i \in 1..Len(log) : log'[i] = log[i]
  BY <1>1 DEF Post
<1>2. CASE log' = log
  BY <1>2
<1>. QED
  BY <1>1, <1>2 DEF Next, Worker, Start, Connect, Receive, Prepare, Report, Admit,
     Refuse, Break, Fails, Acknowledge, Emit, Receipt, Reconfigure, Claim

LEMMA EntryTyped ==
    ASSUME TypeOK, NEW i \in 1..Len(log)
    PROVE  log[i] \in Entry /\ log[i].id \in Message
<1>1. log[i] \in Entry
  BY DEF TypeOK
<1>. QED
  BY <1>1 DEF Entry

\* The frame in hand is an entry of the log.
LEMMA FrameIsEntry ==
    ASSUME TypeOK, FrameInHand, pc \in {"accept", "admit", "report"}
    PROVE  /\ Len(pipe) \in Nat \ {0} /\ Head(pipe) = pipe[1]
           /\ Head(pipe) \in 1..Len(log) /\ Frame \in Entry
BY DEF TypeOK, FrameInHand, Frame

\* What the queue has taken care of stays so.
LEMMA RecordsStay ==
    ASSUME TypeOK, FrameInHand, [Next]_vars
    PROVE  /\ \A m \in Message : events[m] # None => events'[m] # None
           /\ receipts \subseteq receipts'
<1>. USE DEF TypeOK, vars, queue
<1>1. CASE Admit
  <2>1. Frame.id \in Message /\ Frame.version \in Version
    BY <1>1, FrameIsEntry DEF Admit, Entry
  <2>. QED
    BY <1>1, <2>1, NoneAssumption DEF Admit
<1>2. ASSUME NEW m \in Message, Receipt(m) PROVE events' = events /\ receipts \subseteq receipts'
  BY <1>2 DEF Receipt
<1>3. CASE events' = events /\ receipts' = receipts
  BY <1>3
<1>. QED
  BY <1>1, <1>2, <1>3 DEF Next, Worker, Start, Connect, Receive, Prepare, Report,
     Refuse, Break, Fails, Acknowledge, Emit, Post, Reconfigure, Claim

\* Queue.put creates well-formed jobs.
LEMMA PutTypes ==
    ASSUME TypeOK, NEW m \in Message, NEW v \in Version, NEW for, PutJobs(m, v, for)
    PROVE  /\ jobs' \in [Assistant -> [Message -> JobState]]
           /\ text' \in [Assistant -> [Message -> Version \cup {None}]]
<1>. DEFINE new == {a \in for : jobs[a][m] = "absent"}
<1>1. ASSUME NEW a \in Assistant PROVE jobs'[a] \in [Message -> JobState]
  BY DEF PutJobs, TypeOK, JobState
<1>2. ASSUME NEW a \in Assistant PROVE text'[a] \in [Message -> Version \cup {None}]
  BY DEF PutJobs, TypeOK
<1>. QED
  BY <1>1, <1>2 DEF PutJobs

\* Every step keeps the types: positions stay in the log as it grows.
LEMMA TypeNext ==
    ASSUME TypeOK, FrameInHand, StartedFirst, [Next]_vars
    PROVE  TypeOK'
<1>. USE StreamAssumption DEF TypeOK, provider, connection, queue, worker, history
<1>1. ASSUME NEW m \in Message, Post(m) PROVE TypeOK'
  <2>1. log' \in Seq(Entry) /\ Len(log') = Len(log) + 1 /\ Len(log') <= MaxLog
    BY <1>1 DEF Post, Entry, Version
  <2>2. pipe' \in Seq(1..Len(log')) /\ acks' \in Seq(1..Len(log'))
    BY <1>1, <2>1 DEF Post
  <2>. QED
    BY <1>1, <2>1, <2>2 DEF Post
<1>2. ASSUME NEW i \in 1..Len(log), Emit(i) PROVE TypeOK'
  BY <1>2 DEF Emit
<1>3. CASE Acknowledge
  <2>1. Head(acks) \in 1..Len(log) /\ Tail(acks) \in Seq(1..Len(log))
    BY <1>3 DEF Acknowledge
  <2>. QED
    BY <1>3, <2>1 DEF Acknowledge
<1>4. CASE Start
  BY <1>4 DEF Start
<1>5. CASE Connect
  <2>1. at' \in 0..Len(log)
    BY <1>5 DEF Connect
  <2>2. pipe' \in Seq(1..Len(log)) /\ acks' \in Seq(1..Len(log))
    BY <1>5 DEF Connect
  <2>. QED
    BY <1>5, <2>1, <2>2 DEF Connect
<1>6. CASE Receive \/ Prepare
  BY <1>6 DEF Receive, Prepare
<1>7. CASE Admit
  <2>1. Head(pipe) \in 1..Len(log) /\ Frame.id \in Message /\ Frame.version \in Version
    BY <1>7, FrameIsEntry DEF Admit, Entry
  <2>2. cursor' \in 0..Len(log)
    BY <1>7, <2>1 DEF Admit, Checkpoint
  <2>3. events' \in [Message -> Version \cup {None}]
    BY <1>7, <2>1 DEF Admit
  <2>4. UNCHANGED <<jobs, text>> \/ PutJobs(Frame.id, Frame.version, recipients)
    BY <1>7 DEF Admit
  <2>5. /\ jobs' \in [Assistant -> [Message -> JobState]]
        /\ text' \in [Assistant -> [Message -> Version \cup {None}]]
    BY <2>1, <2>4, PutTypes
  <2>. QED
    BY <1>7, <2>2, <2>3, <2>4, <2>5 DEF Admit
<1>8. CASE Report
  <2>1. Head(pipe) \in 1..Len(log)
    BY <1>8, FrameIsEntry DEF Report
  <2>2. Append(acks, Head(pipe)) \in Seq(1..Len(log)) /\ Tail(pipe) \in Seq(1..Len(log))
    BY <1>8, <2>1 DEF Report, FrameInHand
  <2>. QED
    BY <1>8, <2>2 DEF Report
<1>9. CASE Fails /\ breaks' \in 0..MaxBreaks /\ UNCHANGED <<changes, loyal>>
  BY <1>9 DEF Fails, Disconnected
<1>10. ASSUME NEW m \in Message, Receipt(m) PROVE TypeOK'
  BY <1>10 DEF Receipt, JobState
<1>11. ASSUME NEW a \in Assistant, NEW m \in Message, Claim(a, m) PROVE TypeOK'
  BY <1>11 DEF Claim, JobState
<1>12. ASSUME NEW a \in Assistant, Reconfigure(a) PROVE TypeOK'
  BY <1>12 DEF Reconfigure
<1>13. CASE UNCHANGED vars
  BY <1>13 DEF vars
<1>14. Refuse \/ Break => Fails /\ breaks' \in 0..MaxBreaks /\ UNCHANGED <<changes, loyal>>
  BY DEF Refuse, Break
<1>. QED
  BY <1>1, <1>2, <1>3, <1>4, <1>5, <1>6, <1>7, <1>8, <1>9, <1>10, <1>11, <1>12, <1>13,
     <1>14 DEF Next, Worker

\* A connection is made after the first start; only an admitted frame moves
\* the cursor.
LEMMA StartedNext ==
    ASSUME TypeOK, StartedFirst, [Next]_vars
    PROVE  StartedFirst'
BY DEF TypeOK, StartedFirst, Next, Worker, Start, Connect, Receive, Prepare, Report,
   Admit, Refuse, Break, Fails, Disconnected, Acknowledge, Emit, Post, Receipt,
   Reconfigure, Claim, vars, queue, worker

\* The worker keeps its frame, and those who read all along stay recipients.
LEMMA FrameNext ==
    ASSUME TypeOK, FrameInHand, [Next]_vars
    PROVE  FrameInHand'
<1>. USE DEF TypeOK, FrameInHand
<1>1. CASE Receive \/ Prepare \/ Admit
  BY <1>1 DEF Receive, Prepare, Admit, connection, history
<1>2. ASSUME NEW a \in Assistant, Reconfigure(a) PROVE FrameInHand'
  BY <1>2 DEF Reconfigure, connection, worker
<1>3. ASSUME NEW i \in 1..Len(log), Emit(i) PROVE FrameInHand'
  <2>1. Len(pipe') # Len(<<>>)
    BY <1>3 DEF Emit
  <2>. QED
    BY <1>3, <2>1 DEF Emit, worker, history
<1>4. CASE Start \/ Connect \/ Report \/ Refuse \/ Break \/ Acknowledge
  BY <1>4 DEF Start, Connect, Report, Refuse, Break, Fails, Disconnected, Acknowledge,
     connection, worker, history
<1>5. CASE UNCHANGED <<pipe, readers, worker, loyal>>
  BY <1>5 DEF worker
<1>. QED
  BY <1>1, <1>2, <1>3, <1>4, <1>5 DEF Next, Worker, Post, Receipt, Claim, connection,
     history, vars

LEMMA DoneStays ==
    ASSUME TypeOK, FrameInHand, [Next]_vars, NEW i \in 1..Len(log), Done(i)
    PROVE  Done(i)'
<1>1. log'[i] = log[i]
  BY EntriesStay
<1>2. log[i].id \in Message
  BY EntryTyped
<1>. QED
  BY <1>1, <1>2, RecordsStay DEF Done, Handled

\* What Queue.admit has seen is taken care of.
LEMMA AdmittedIsDone ==
    ASSUME TypeOK, FrameInHand, Admit, NEW i, i = Head(pipe)
    PROVE  Done(i)'
<1>1. Frame = log[i] /\ Frame.id \in Message /\ Frame.version \in Version
  BY FrameIsEntry DEF Frame, Admit, Entry
<1>2. log' = log /\ receipts' = receipts
  BY DEF Admit, provider
<1>3. events'[Frame.id] # None \/ Frame.id \in Own \cup receipts
  BY <1>1, NoneAssumption DEF Admit, Skipped, TypeOK
<1>. QED
  BY <1>1, <1>2, <1>3 DEF Done, Handled

\* An acknowledgement is written only after Queue.admit.
LEMMA HandledNext ==
    ASSUME TypeOK, FrameInHand, HandledFirst, [Next]_vars
    PROVE  HandledFirst'
<1>. SUFFICES ASSUME NEW i \in 1..Len(log'), Answered(i)' PROVE Done(i)'
  BY DEF HandledFirst
<1>0. Answered(i) /\ i \in 1..Len(log) => Done(i)'
  BY DoneStays DEF HandledFirst
<1>. USE DEF Answered, TypeOK
<1>1. CASE Admit
  <2>1. i \in 1..Len(log) /\ (i = Head(pipe) \/ Answered(i))
    BY <1>1 DEF Admit, provider, connection
  <2>. QED
    BY <1>0, <1>1, <2>1, AdmittedIsDone
<1>2. CASE Report
  <2>1. log' = log /\ Head(pipe) \in 1..Len(log)
    BY <1>2, FrameIsEntry DEF Report, provider
  <2>2. Answered(i)
    BY <1>2, <2>1 DEF Report, provider
  <2>. QED
    BY <1>0, <2>1, <2>2
<1>3. CASE Acknowledge
  <2>1. log' = log /\ acks # <<>> /\ Head(acks) = acks[1] /\ 1 \in 1..Len(acks)
    BY <1>3 DEF Acknowledge
  <2>2. \A k \in 1..Len(acks') : k + 1 \in 1..Len(acks) /\ acks'[k] = acks[k + 1]
    BY <1>3 DEF Acknowledge
  <2>3. Answered(i)
    BY <1>3, <2>1, <2>2 DEF Acknowledge, worker
  <2>. QED
    BY <1>0, <2>1, <2>3
<1>4. ASSUME NEW k \in 1..Len(log), Emit(k) PROVE Done(i)'
  <2>1. pc = "report" => Head(pipe') = Head(pipe)
    BY <1>4 DEF Emit, FrameInHand
  <2>2. Answered(i) /\ log' = log
    BY <1>4, <2>1 DEF Emit, provider, worker
  <2>. QED
    BY <1>0, <2>2
<1>5. CASE pc' # "report" /\ acked' = acked /\ acks' \in {acks, <<>>} /\ log' = log
  <2>1. Answered(i)
    <3>1. CASE acks' = acks
      BY ONLY <1>5, <3>1, Answered(i)' DEF Answered
    <3>2. CASE acks' = <<>>
      <4>1. ~\E k \in 1..Len(acks') : i = acks'[k]
        BY ONLY <3>2
      <4>. QED
        BY ONLY <1>5, <4>1, Answered(i)' DEF Answered
    <3>. QED
      BY <1>5, <3>1, <3>2
  <2>. QED
    BY <1>0, <1>5, <2>1
<1>6. CASE UNCHANGED <<pc, pipe, acks, acked>>
  <2>1. pc = "report" => Head(pipe) \in 1..Len(log)
    BY FrameIsEntry
  <2>. QED
    BY <1>0, <1>6, <2>1
<1>. QED
  BY <1>1, <1>2, <1>3, <1>4, <1>5, <1>6 DEF Next, Worker, Start, Connect, Receive,
     Prepare, Refuse, Break, Fails, Disconnected, Post, Receipt, Reconfigure, Claim,
     provider, connection, worker, vars

\* Admission creates the missing jobs of those who read all along; no job
\* disappears.
LEMMA ServedNext ==
    ASSUME TypeOK, FrameInHand, AdmittedServed, [Next]_vars
    PROVE  AdmittedServed'
<1>. USE DEF TypeOK, AdmittedServed
<1>1. CASE Admit
  <2>1. Frame.id \in Message /\ Frame.version \in Version
    BY <1>1, FrameIsEntry DEF Admit, Entry
  <2>2. CASE UNCHANGED <<events, jobs>>
    BY <1>1, <2>2 DEF Admit, history
  <2>3. CASE events' = [events EXCEPT ![Frame.id] = Frame.version]
             /\ PutJobs(Frame.id, Frame.version, recipients)
    <3>1. ASSUME NEW a \in Assistant, NEW m \in Message, jobs[a][m] # "absent"
          PROVE  jobs'[a][m] # "absent"
      BY <2>1, <2>3, <3>1 DEF PutJobs
    <3>2. ASSUME NEW a \in loyal PROVE jobs'[a][Frame.id] # "absent"
      <4>1. a \in recipients /\ a \in Assistant
        BY <1>1 DEF Admit, FrameInHand
      <4>. QED
        BY <2>1, <2>3, <4>1 DEF PutJobs
    <3>. QED
      BY <1>1, <2>1, <2>3, <3>1, <3>2 DEF Admit, history
  <2>. QED
    BY <1>1, <2>2, <2>3 DEF Admit
<1>2. ASSUME NEW m \in Message, Receipt(m) PROVE AdmittedServed'
  BY <1>2 DEF Receipt, history
<1>3. ASSUME NEW a \in Assistant, NEW m \in Message, Claim(a, m) PROVE AdmittedServed'
  BY <1>3 DEF Claim, history
<1>4. CASE UNCHANGED <<events, jobs, receipts>> /\ loyal' \subseteq loyal
  BY <1>4
<1>. QED
  BY <1>1, <1>2, <1>3, <1>4 DEF Next, Worker, Start, Connect, Receive, Prepare, Report,
     Refuse, Break, Fails, Acknowledge, Emit, Post, Reconfigure, queue, history, vars

\* Each frame follows the one before, from the cursor on.
LEMMA PollNext ==
    ASSUME TypeOK, FrameInHand, StartedFirst, PollInOrder, [Next]_vars
    PROVE  PollInOrder'
<1>. SUFFICES ASSUME adapter' = "poll", pc' # "down" PROVE PollInOrder'
  BY DEF PollInOrder
<1>. USE DEF TypeOK
<1>0. adapter = "poll"
  BY DEF Next, Worker, Start, Connect, Receive, Prepare, Report, Admit, Refuse, Break,
     Fails, Acknowledge, Emit, Post, Receipt, Reconfigure, Claim, provider, vars
<1>1. CASE Connect
  BY <1>0, <1>1 DEF Connect, queue, StartedFirst, Resume, PollInOrder
<1>2. ASSUME NEW i \in 1..Len(log), Emit(i) PROVE PollInOrder'
  <2>1. /\ i = at + 1 /\ at' = at + 1 /\ pipe' = Append(pipe, at + 1)
        /\ at \in Nat /\ Len(pipe) \in Nat
    BY <1>0, <1>2 DEF Emit
  <2>2. Len(pipe') = Len(pipe) + 1 /\ pipe'[Len(pipe) + 1] = at + 1
        /\ \A k \in 1..Len(pipe) : pipe'[k] = pipe[k] /\ pipe[k] \in Nat
    BY <2>1
  <2>3. Resume' = Resume /\ Resume \in Nat /\ pc' = pc /\ pc # "down"
    BY <1>2 DEF Emit, Resume, StartedFirst, queue, worker
  <2>4. /\ at + (IF pc = "report" THEN 1 ELSE 0) = Resume + Len(pipe)
        /\ \A k \in 1..Len(pipe) : pipe[k] + Len(pipe) = at + k
    BY <1>0, <2>3 DEF PollInOrder
  <2>5. at' + (IF pc' = "report" THEN 1 ELSE 0) = Resume' + Len(pipe')
    BY ONLY <2>1, <2>2, <2>3, <2>4
  <2>6. ASSUME NEW k \in 1..Len(pipe') PROVE pipe'[k] + Len(pipe') = at' + k
    <3>1. CASE k = Len(pipe) + 1
      BY ONLY <2>1, <2>2, <3>1
    <3>2. CASE k \in 1..Len(pipe)
      <4>1. /\ k \in Nat /\ pipe'[k] = pipe[k] /\ pipe[k] \in Nat
            /\ pipe[k] + Len(pipe) = at + k
        BY ONLY <2>2, <2>4, <3>2
      <4>2. Len(pipe') = Len(pipe) + 1 /\ at' = at + 1
        BY ONLY <2>1, <2>2
      <4>3. Len(pipe) \in Nat /\ at \in Nat
        BY ONLY <2>1
      <4>. QED
        BY ONLY <4>1, <4>2, <4>3
    <3>. QED
      BY ONLY <2>1, <2>2, <2>6, <3>1, <3>2
  <2>. QED
    BY <2>5, <2>6 DEF PollInOrder
<1>3. CASE Admit
  <2>1. Head(pipe) = pipe[1] /\ Len(pipe) \in Nat \ {0} /\ pipe[1] \in 1..Len(log)
    BY <1>3, FrameIsEntry DEF Admit
  <2>2. Resume \in Nat /\ Resume' = pipe[1] /\ UNCHANGED <<pipe, at>>
    BY <1>0, <1>3, <2>1 DEF Admit, StartedFirst, Checkpoint, Resume, connection
  <2>. QED
    BY <1>0, <1>3, <2>1, <2>2 DEF Admit, PollInOrder
<1>4. CASE Report
  <2>1. Len(pipe) \in Nat \ {0} /\ at \in Nat /\ \A k \in 1..Len(pipe) : pipe[k] \in Nat
    BY <1>4 DEF Report, FrameInHand
  <2>2. Len(pipe') = Len(pipe) - 1 /\ \A k \in 1..Len(pipe) - 1 : pipe'[k] = pipe[k + 1]
    BY <1>4, <2>1 DEF Report
  <2>3. Resume' = Resume /\ Resume \in Nat /\ at' = at /\ pc = "report" /\ pc' = "up"
    BY <1>4 DEF Report, Resume, StartedFirst
  <2>4. /\ at + 1 = Resume + Len(pipe)
        /\ \A k \in 1..Len(pipe) : pipe[k] + Len(pipe) = at + k
    BY <1>0, <2>3 DEF PollInOrder
  <2>5. at' = Resume' + Len(pipe')
    BY ONLY <2>1, <2>2, <2>3, <2>4
  <2>6. ASSUME NEW k \in 1..Len(pipe') PROVE pipe'[k] + Len(pipe') = at' + k
    <3>1. k \in 1..Len(pipe) - 1 /\ k + 1 \in 1..Len(pipe)
      BY ONLY <2>1, <2>2, <2>6
    <3>2. pipe[k + 1] + Len(pipe) = at + (k + 1)
      BY <2>4, <3>1
    <3>3. k \in Nat /\ pipe[k + 1] \in Nat /\ pipe'[k] = pipe[k + 1]
      BY ONLY <2>1, <2>2, <3>1
    <3>4. Len(pipe') = Len(pipe) - 1 /\ Len(pipe) \in Nat /\ at \in Nat /\ at' = at
      BY ONLY <2>1, <2>2, <2>3
    <3>. QED
      BY ONLY <3>2, <3>3, <3>4
  <2>. QED
    BY <2>3, <2>5, <2>6 DEF PollInOrder
<1>5. CASE Receive \/ Prepare
  BY <1>0, <1>5 DEF Receive, Prepare, connection, queue, Resume, PollInOrder
<1>6. CASE UNCHANGED <<pipe, at, since, cursor, worker>>
  BY <1>0, <1>6 DEF worker, Resume, PollInOrder
<1>. QED
  BY <1>1, <1>2, <1>3, <1>4, <1>5, <1>6 DEF Next, Worker, Start, Refuse, Break, Fails,
     Disconnected, Acknowledge, Post, Receipt, Reconfigure, Claim, connection, queue,
     worker, vars

\* The cursor moves only to the message after it, once that is in the queue.
LEMMA CursorNext ==
    ASSUME TypeOK, FrameInHand, StartedFirst, PollInOrder, NothingSkipped, [Next]_vars
    PROVE  NothingSkipped'
<1>. SUFFICES ASSUME since' # None, adapter' = "poll",
                     NEW i \in 1..cursor', i > since'
              PROVE  Done(i)'
  BY DEF NothingSkipped, Done
<1>. USE DEF TypeOK
<1>0. ASSUME i <= cursor, i > since, since # None, adapter = "poll"
      PROVE  Done(i)'
  BY <1>0, DoneStays DEF NothingSkipped, Done
<1>1. CASE Admit
  <2>1. /\ adapter = "poll" /\ since # None /\ since' = since /\ cursor' = Head(pipe)
        /\ since \in Nat /\ cursor \in Nat
    BY <1>1 DEF Admit, StartedFirst, provider, Checkpoint
  <2>2. Head(pipe) = pipe[1] /\ Len(pipe) \in Nat \ {0} /\ pipe[1] \in 1..Len(log)
    BY <1>1, FrameIsEntry DEF Admit
  <2>3. pipe[1] = Resume + 1
    <3>1. Resume \in Nat /\ at \in Nat /\ pc = "admit"
      BY <1>1, <2>1 DEF Admit, Resume
    <3>2. at = Resume + Len(pipe) /\ pipe[1] + Len(pipe) = at + 1
      BY <2>1, <2>2, <3>1 DEF PollInOrder
    <3>. QED
      BY ONLY <2>2, <3>1, <3>2
  <2>4. CASE i = Head(pipe)
    BY <1>1, <2>4, AdmittedIsDone
  <2>5. CASE i # Head(pipe)
    BY <1>0, <2>1, <2>2, <2>3, <2>5 DEF Resume
  <2>. QED
    BY <2>4, <2>5
<1>2. CASE Start
  BY <1>2 DEF Start, StartedFirst
<1>3. CASE UNCHANGED <<adapter, since, cursor>>
  BY <1>0, <1>3
<1>. QED
  BY <1>1, <1>2, <1>3 DEF Next, Worker, Connect, Receive, Prepare, Report, Refuse,
     Break, Fails, Acknowledge, Emit, Post, Receipt, Reconfigure, Claim, provider,
     queue, vars

\* A receipt cancels what waits, and no job is created for its message after.
LEMMA EchoesNext ==
    ASSUME TypeOK, FrameInHand, EchoesSettled, [Next]_vars
    PROVE  EchoesSettled'
<1>. USE DEF TypeOK, EchoesSettled
<1>1. CASE Admit
  <2>1. Frame.id \in Message /\ Frame.version \in Version
    BY <1>1, FrameIsEntry DEF Admit, Entry
  <2>2. CASE jobs' = jobs
    BY <1>1, <2>2 DEF Admit
  <2>3. CASE Frame.id \notin receipts /\ PutJobs(Frame.id, Frame.version, recipients)
    BY <1>1, <2>1, <2>3 DEF Admit, PutJobs
  <2>. QED
    BY <1>1, <2>2, <2>3 DEF Admit, Skipped
<1>2. ASSUME NEW m \in Message, Receipt(m) PROVE EchoesSettled'
  BY <1>2 DEF Receipt
<1>3. ASSUME NEW a \in Assistant, NEW m \in Message, Claim(a, m) PROVE EchoesSettled'
  BY <1>3, StreamAssumption DEF Claim
<1>4. CASE UNCHANGED <<jobs, receipts>>
  BY <1>4
<1>. QED
  BY <1>1, <1>2, <1>3, <1>4 DEF Next, Worker, Start, Connect, Receive, Prepare, Report,
     Refuse, Break, Fails, Acknowledge, Emit, Post, Reconfigure, queue, vars

-----------------------------------------------------------------------------
(* Theorems.                                                               *)

\* The inductive invariant holds of every behaviour of the worker, its adapter,
\* the queue and the owner of bf.yaml.
THEOREM Invariance == Spec => []IInv
<1>1. Init => IInv
  <2>. SUFFICES ASSUME Init PROVE IInv
    OBVIOUS
  <2>. USE DEF Init
  <2>1. TypeOK
    BY StreamAssumption DEF TypeOK, JobState
  <2>2. StartedFirst /\ FrameInHand /\ HandledFirst
    BY DEF StartedFirst, FrameInHand, HandledFirst, Answered
  <2>3. AdmittedServed /\ PollInOrder /\ NothingSkipped /\ EchoesSettled
    BY DEF AdmittedServed, PollInOrder, NothingSkipped, EchoesSettled
  <2>. QED
    BY <2>1, <2>2, <2>3 DEF IInv
<1>2. IInv /\ [Next]_vars => IInv'
  BY TypeNext, StartedNext, FrameNext, HandledNext, ServedNext, PollNext, CursorNext,
     EchoesNext DEF IInv
<1>. QED
  BY <1>1, <1>2, PTL DEF Spec

\* Types: positions in frames and acknowledgements stay in the provider's log.
THEOREM TypeCorrect == Spec => []TypeOK
BY Invariance, PTL DEF IInv

\* The durable cursor of Queue.admit never passes a message that is not in the
\* queue, however connections break.
THEOREM CursorSkipsNothing == Spec => []NothingSkipped
BY Invariance, PTL DEF IInv

\* Whoever read the channel all along has a job for every acknowledged message
\* that is not ours.
THEOREM AcknowledgedIsServed == Spec => []ReadersServed
<1>1. IInv => ReadersServed
  <2>. SUFFICES ASSUME IInv, NEW i \in acked, NEW a \in loyal
                PROVE  log[i].id \in Own \cup receipts \/ jobs[a][log[i].id] # "absent"
    BY DEF ReadersServed
  <2>1. i \in 1..Len(log) /\ Handled(log[i].id)
    BY DEF IInv, TypeOK, HandledFirst, Answered, Done
  <2>2. log[i].id \in Message
    BY <2>1, EntryTyped DEF IInv
  <2>. QED
    BY <2>1, <2>2 DEF IInv, AdmittedServed, Handled
<1>. QED
  BY <1>1, Invariance, PTL

\* Once a delivery's receipt names a message, Queue.claim starts no job for it.
THEOREM EchoStartsNothing == Spec => NoEchoAnswered
<1>1. ASSUME IInv, [Next]_vars, NEW a \in Assistant, NEW m \in receipts,
             jobs'[a][m] = "started"
      PROVE  jobs[a][m] = "started"
  <2>. USE <1>1 DEF IInv, TypeOK
  <2>1. m \in Message
    BY StreamAssumption
  <2>2. CASE Admit
    <3>1. jobs' = jobs \/ PutJobs(Frame.id, Frame.version, recipients)
      BY <2>2 DEF Admit
    <3>2. CASE PutJobs(Frame.id, Frame.version, recipients)
      <4>1. Frame.id \in Message
        BY <2>2, FrameIsEntry DEF Admit, Entry
      <4>2. jobs'[a] = jobs[a] \/ \E x \in {"failed", "pending"} :
                                    jobs'[a] = [jobs[a] EXCEPT ![Frame.id] = x]
        BY <3>2 DEF PutJobs
      <4>. QED
        BY <1>1, <2>1, <4>1, <4>2
    <3>. QED
      BY <1>1, <3>1, <3>2
  <2>3. ASSUME NEW n \in Message, Receipt(n) PROVE jobs[a][m] = "started"
    BY <2>1, <2>3 DEF Receipt
  <2>4. ASSUME NEW b \in Assistant, NEW n \in Message, Claim(b, n)
        PROVE  jobs[a][m] = "started"
    BY <2>1, <2>4 DEF Claim, EchoesSettled
  <2>5. CASE jobs' = jobs
    BY <2>5
  <2>. QED
    BY <2>2, <2>3, <2>4, <2>5 DEF Next, Worker, Start, Connect, Receive, Prepare,
       Report, Refuse, Break, Fails, Acknowledge, Emit, Post, Reconfigure, queue, vars
<1>2. IInv /\ [Next]_vars => \A a \in Assistant : \A m \in receipts :
                               jobs'[a][m] = "started" => jobs[a][m] = "started"
  BY <1>1
<1>. QED
  BY <1>2, Invariance, PTL DEF Spec, NoEchoAnswered

-----------------------------------------------------------------------------
(* The refinement of Inbox.                                                *)

\* The positions acknowledged to the provider, as the messages they stand for.
AckedIds == {log[i].id : i \in acked}

\* A message in hand is admitted for those who lack a job for it, or nothing
\* that Inbox sees changes.
LEMMA AdmitStep ==
    ASSUME IInv, Admit
    PROVE  Inbox_!Next \/ UNCHANGED Inbox_!vars
<1>1. Frame.id \in Message /\ Frame.version \in Version
  BY FrameIsEntry DEF IInv, Admit, Entry
<1>2. UNCHANGED <<Own \cup receipts, AckedIds>>
  BY DEF Admit, AckedIds, provider
<1>3. CASE UNCHANGED <<events, text>>
  BY <1>2, <1>3 DEF Inbox_!vars, AckedIds
<1>4. CASE /\ ~Skipped(Frame.id, Frame.version)
           /\ events' = [events EXCEPT ![Frame.id] = Frame.version]
           /\ PutJobs(Frame.id, Frame.version, recipients)
  <2>. DEFINE new == {a \in recipients : jobs[a][Frame.id] = "absent"}
  <2>1. new \in SUBSET Assistant
    BY DEF IInv, TypeOK
  <2>2. events[Frame.id] \in {None, Frame.version}
    BY <1>4 DEF Skipped
  <2>3. text' = [a \in Assistant |->
                   IF a \in new THEN [text[a] EXCEPT ![Frame.id] = Frame.version] ELSE text[a]]
    BY <1>4 DEF PutJobs
  <2>4. Inbox_!Admit(Frame.id, new)
    BY <1>1, <1>2, <1>4, <2>2, <2>3 DEF Inbox_!Admit, AckedIds
  <2>. QED
    BY <1>1, <2>1, <2>4 DEF Inbox_!Next
<1>. QED
  BY <1>3, <1>4 DEF Admit

\* Every behaviour of the stream is one that Inbox promises: each message is
\* admitted once and in one version, its jobs answer that version, and it is
\* acknowledged only afterwards.
THEOREM Refinement == Spec => ImplementsInbox
<1>1. Init => Inbox_!Init
  BY StreamAssumption DEF Init, Inbox_!Init
<1>2. ASSUME IInv, [Next]_vars PROVE Inbox_!Next \/ UNCHANGED Inbox_!vars
  <2>. USE <1>2 DEF IInv, TypeOK
  <2>1. CASE Admit
    BY <2>1, AdmitStep
  <2>2. CASE Acknowledge
    <3>1. Head(acks) \in 1..Len(log) /\ Answered(Head(acks))
      <4>1. acks # <<>> /\ Head(acks) = acks[1] /\ 1 \in 1..Len(acks)
        BY <2>2 DEF Acknowledge
      <4>. QED
        BY <4>1 DEF Answered
    <3>2. PICK m \in Message : m = log[Head(acks)].id /\ Handled(m)
      BY <3>1, EntryTyped DEF HandledFirst, Done
    <3>3. AckedIds' = AckedIds \cup {m}
      BY <2>2, <3>2 DEF Acknowledge, AckedIds
    <3>4. Inbox_!Acknowledge(m)
      BY <2>2, <3>2, <3>3 DEF Acknowledge, Inbox_!Acknowledge, Handled, queue, AckedIds
    <3>. QED
      BY <3>4 DEF Inbox_!Next
  <2>3. ASSUME NEW m \in Message, Receipt(m) PROVE Inbox_!Next
    <3>1. (Own \cup receipts)' = (Own \cup receipts) \cup {m} /\ UNCHANGED <<events, text, AckedIds>>
      BY <2>3 DEF Receipt, AckedIds, provider
    <3>2. Inbox_!Recognise(m)
      BY <3>1 DEF Inbox_!Recognise, AckedIds
    <3>. QED
      BY <3>2 DEF Inbox_!Next
  <2>4. ASSUME NEW m \in Message, Post(m) PROVE UNCHANGED Inbox_!vars
    <3>0. acked' = acked /\ \A i \in acked : log'[i] = log[i]
      BY <2>4, EntriesStay DEF Post
    <3>1. AckedIds' = AckedIds
      BY ONLY <3>0 DEF AckedIds
    <3>. QED
      BY <2>4, <3>1 DEF Post, Inbox_!vars, AckedIds, queue
  <2>5. CASE UNCHANGED <<log, acked, events, text, receipts>>
    BY <2>5 DEF Inbox_!vars
  <2>. QED
    BY <2>1, <2>2, <2>3, <2>4, <2>5 DEF Next, Worker, Start, Connect, Receive, Prepare,
       Report, Refuse, Break, Fails, Emit, Reconfigure, Claim, provider, queue, vars
<1>. QED
  BY <1>1, <1>2, Invariance, PTL DEF Spec, ImplementsInbox, Inbox_!Spec

-----------------------------------------------------------------------------
(* Read inputs, whose polls resume from a checkpoint.                      *)

CONSTANTS Ahead, Overlap, MAX_BATCH, CATCH_UP, MaxTime

VARIABLES clock, posts, progress, poll, admitted, overflowed

Polling == INSTANCE ReadPoll WITH sent <- posts

PollTypes ==
    /\ clock \in Nat
    /\ posts \in [Message -> [time : Int, listed : Int]]
    /\ progress \in [since : Int, end : Int]
    /\ poll \in [at : {"idle", "read", "admit", "prefix"}, lower : Int, upper : Int, end : Int,
                 previous : Int, parts : Nat, batch : SUBSET Message]
    /\ admitted \subseteq Message /\ overflowed \in BOOLEAN

\* No message is of the future, and none is listed before it is sent.
PostTimes == \A m \in Message :
    \/ posts[m] = Polling!Unsent
    \/ 0 <= posts[m].time /\ posts[m].time <= clock /\ posts[m].time <= posts[m].listed

PollProgress ==
    \/ progress = Polling!NoProgress
    \/ 0 <= progress.since /\ progress.since <= progress.end /\ progress.end <= clock

\* A poll reads [lower, upper), from its checkpoint or the overlap before it.
PollWindow ==
    poll.at # "idle" =>
        /\ progress # Polling!NoProgress
        /\ progress.since <= poll.lower /\ poll.lower <= poll.previous /\ poll.previous <= poll.upper
        /\ poll.upper <= poll.end /\ poll.end <= clock
        /\ poll.previous - Overlap <= poll.lower
        /\ poll.at # "prefix" => progress.end = poll.previous
        /\ poll.at = "prefix" => poll.previous <= progress.end /\ progress.end <= poll.upper

\* What a poll need not read: listed too late, or of the overlap that the next
\* poll reads again, or given up with a batch too large.
Behind(m) ==
    posts[m] # Polling!Unsent /\ progress.since <= posts[m].time /\ posts[m].time < poll.lower =>
        posts[m].listed > posts[m].time + Overlap \/ overflowed \/ poll.end - Overlap <= posts[m].time

LeftBehind == poll.at # "idle" => \A m \in Message \ admitted : Behind(m)

\* What a part holds, and that it left out nothing the provider listed.
BatchRead ==
    poll.at \in {"admit", "prefix"} =>
        /\ \A m \in poll.batch : posts[m] # Polling!Unsent /\ poll.lower <= posts[m].time /\ posts[m].time < poll.upper
        /\ \A m \in Message \ admitted :
              posts[m] # Polling!Unsent /\ poll.lower <= posts[m].time /\ posts[m].time < poll.upper =>
                  m \in poll.batch \/ posts[m].listed > poll.end

PollInv == PollTypes /\ PostTimes /\ PollProgress /\ PollWindow /\ LeftBehind /\ BatchRead /\ Polling!NothingMissed

LEMMA PollStart == ASSUME Polling!ReadPollAssumption, Polling!Init PROVE PollInv
<1>1. PollTypes
  <2>1. posts \in [Message -> [time : Int, listed : Int]]
    <3>1. Polling!Unsent \in [time : Int, listed : Int]
      BY DEF Polling!Unsent
    <3> QED
      BY <3>1 DEF Polling!Init
  <2>2. progress \in [since : Int, end : Int]
    BY DEF Polling!Init, Polling!NoProgress
  <2>3. poll \in [at : {"idle", "read", "admit", "prefix"}, lower : Int, upper : Int, end : Int,
                 previous : Int, parts : Nat, batch : SUBSET Message]
    BY DEF Polling!Init, Polling!Idle
  <2> QED
    BY <2>1, <2>2, <2>3 DEF Polling!Init, PollTypes
<1>2. PostTimes /\ PollProgress
  BY DEF Polling!Init, PostTimes, PollProgress
<1>3. Polling!NothingMissed
  <2>1. \A m \in Message : posts[m] = Polling!Unsent
    BY DEF Polling!Init
  <2> QED
    BY <2>1 DEF Polling!NothingMissed
<1> QED
  BY <1>1, <1>2, <1>3 DEF Polling!Init, Polling!Idle, PollInv, PollWindow, LeftBehind, BatchRead

LEMMA PollOpens == ASSUME Polling!ReadPollAssumption, PollInv, Polling!Start PROVE PollInv'
<1> USE DEF PollInv
<1>1. CASE progress = Polling!NoProgress
  <2>1. progress' = [since |-> clock, end |-> clock] /\ UNCHANGED <<poll, clock, posts, admitted, overflowed>> /\ poll.at = "idle"
    BY <1>1 DEF Polling!Start
  <2> QED
    BY <2>1 DEF Polling!ReadPollAssumption, PollTypes, PostTimes, PollProgress, PollWindow, LeftBehind, BatchRead, Polling!NothingMissed, Polling!Unsent
<1>2. CASE progress # Polling!NoProgress
  <2>1. PICK lower \in Int : lower = Polling!Larger(progress.since, progress.end - Overlap)
    BY DEF Polling!Larger, PollTypes, Polling!ReadPollAssumption
  <2>2. poll.at = "idle" /\ UNCHANGED <<clock, posts, progress, admitted, overflowed>>
    BY <1>2 DEF Polling!Start
  <2>3. CASE lower >= clock
    <3>1. poll' = Polling!Idle
      BY <1>2, <2>1, <2>3 DEF Polling!Start
    <3> QED
      BY <2>2, <3>1 DEF Polling!Idle, PollTypes, PostTimes, PollProgress, PollWindow, LeftBehind, BatchRead, Polling!NothingMissed
  <2>4. CASE ~(lower >= clock)
    <3>1. poll' = [at |-> "read", lower |-> lower, upper |-> clock, end |-> clock, previous |-> progress.end,
                   parts |-> 0, batch |-> {}]
      BY <1>2, <2>1, <2>4 DEF Polling!Start, Polling!Idle
    <3>2. PollTypes' /\ PostTimes' /\ PollProgress' /\ Polling!NothingMissed'
      BY <2>2, <3>1 DEF PollTypes, PostTimes, PollProgress, Polling!NothingMissed
    <3>3. PollWindow' /\ BatchRead'
      BY <1>2, <2>1, <2>2, <2>4, <3>1 DEF PollTypes, PostTimes, PollProgress, PollWindow, BatchRead, Polling!Larger, Polling!ReadPollAssumption
    <3>4. LeftBehind'
      BY <1>2, <2>1, <2>2, <2>4, <3>1 DEF PollTypes, LeftBehind, Behind, Polling!NothingMissed, Polling!Larger, Polling!ReadPollAssumption
    <3> QED
      BY <3>2, <3>3, <3>4
  <2> QED
    BY <2>3, <2>4
<1> QED
  BY <1>1, <1>2

LEMMA PollReads == ASSUME Polling!ReadPollAssumption, PollInv, Polling!ReadBatch PROVE PollInv'
<1> USE DEF PollInv
<1>1. poll.at = "read" /\ poll' = [poll EXCEPT !.at = "admit", !.batch = Polling!Window]
      /\ UNCHANGED <<clock, posts, progress, admitted, overflowed>>
  BY DEF Polling!ReadBatch
<1>2. Polling!Window \subseteq Message
  BY DEF Polling!Window, Polling!Listed
<1>3. PollTypes' /\ PostTimes' /\ PollProgress' /\ Polling!NothingMissed'
  BY <1>1, <1>2 DEF PollTypes, PostTimes, PollProgress, Polling!NothingMissed
<1>4. PollWindow' /\ LeftBehind'
  BY <1>1 DEF PollTypes, PollWindow, LeftBehind, Behind
<1>5. BatchRead'
  <2>1. \A m \in Message : posts[m].listed \in Int /\ posts[m].time \in Int /\ clock \in Int /\ poll.end \in Int /\ poll.end <= clock
    BY <1>1 DEF PollTypes, PollWindow
  <2>2. \A m \in Polling!Window : posts[m] # Polling!Unsent /\ poll.lower <= posts[m].time /\ posts[m].time < poll.upper
    BY DEF Polling!Window, Polling!Listed
  <2>3. ASSUME NEW m \in Message, posts[m] # Polling!Unsent, poll.lower <= posts[m].time, posts[m].time < poll.upper
        PROVE  m \in Polling!Window \/ posts[m].listed > poll.end
    BY <2>1, <2>3 DEF Polling!Window, Polling!Listed
  <2>4. poll'.batch = Polling!Window /\ poll'.lower = poll.lower /\ poll'.upper = poll.upper /\ poll'.end = poll.end
    BY <1>1 DEF PollTypes
  <2> QED
    BY <1>1, <2>2, <2>3, <2>4 DEF BatchRead
<1> QED
  BY <1>3, <1>4, <1>5

LEMMA PollShrinks == ASSUME Polling!ReadPollAssumption, PollInv, Polling!Overflow PROVE PollInv'
<1> USE DEF PollInv
<1>1. poll.at = "read" /\ UNCHANGED <<clock, posts, progress, admitted>>
  BY DEF Polling!Overflow
<1>2. CASE poll.lower < poll.previous
  <2>1. poll' = [poll EXCEPT !.lower = poll.previous] /\ overflowed' = TRUE
    BY <1>2 DEF Polling!Overflow
  <2> QED
    BY <1>1, <2>1 DEF PollTypes, PostTimes, PollProgress, PollWindow, LeftBehind, Behind, BatchRead, Polling!NothingMissed, Polling!ReadPollAssumption
<1>3. CASE ~(poll.lower < poll.previous) /\ poll.upper - poll.lower <= 1
  <2>1. poll' = Polling!Idle /\ UNCHANGED overflowed
    BY <1>3 DEF Polling!Overflow
  <2> QED
    BY <1>1, <2>1 DEF Polling!Idle, PollTypes, PostTimes, PollProgress, PollWindow, LeftBehind, BatchRead, Polling!NothingMissed
<1>4. CASE ~(poll.lower < poll.previous) /\ ~(poll.upper - poll.lower <= 1)
  <2>1. PICK half : half = (poll.upper - poll.lower) \div 2
    OBVIOUS
  <2>2. poll' = [poll EXCEPT !.upper = poll.lower + half] /\ UNCHANGED overflowed
    BY <1>4, <2>1 DEF Polling!Overflow
  <2>3. half \in Int /\ 0 <= half /\ half <= poll.upper - poll.lower
    BY <1>1, <1>4, <2>1 DEF PollTypes, PollWindow
  <2> HIDE DEF PollInv
  <2> QED
    BY <1>1, <1>4, <2>2, <2>3 DEF PollInv, PollTypes, PostTimes, PollProgress, PollWindow, LeftBehind, Behind, BatchRead, Polling!NothingMissed,
       Polling!ReadPollAssumption
<1> QED
  BY <1>2, <1>3, <1>4

LEMMA PollStops == ASSUME Polling!ReadPollAssumption, PollInv, Polling!Fails PROVE PollInv'
BY DEF Polling!Fails, Polling!Idle, PollInv, PollTypes, PostTimes, PollProgress, PollWindow, LeftBehind, BatchRead, Polling!NothingMissed

LEMMA PollAdmits == ASSUME Polling!ReadPollAssumption, PollInv, Polling!Admit PROVE PollInv'
<1> USE DEF PollInv
<1>1. PICK upper : upper = Polling!Smaller(poll.end, poll.upper + 2 * (poll.upper - poll.lower))
  OBVIOUS
<1>2. /\ poll.at = "admit" /\ UNCHANGED <<clock, posts, overflowed>>
      /\ admitted' = admitted \cup poll.batch /\ progress' = [progress EXCEPT !.end = poll.upper]
      /\ poll' = IF poll.parts + 1 = CATCH_UP \/ poll.upper >= poll.end THEN Polling!Idle
                 ELSE [poll EXCEPT !.at = "read", !.previous = poll.upper, !.lower = poll.upper,
                                   !.upper = upper, !.parts = poll.parts + 1, !.batch = {}]
  BY <1>1 DEF Polling!Admit
<1>3. upper \in Int /\ upper <= poll.end /\ (poll.upper < poll.end => poll.upper <= upper)
  BY <1>1, <1>2 DEF Polling!Smaller, PollTypes, PollWindow
<1>4. /\ progress \in [since : Int, end : Int] /\ progress # Polling!NoProgress
      /\ 0 <= progress.since /\ progress.since <= progress.end /\ progress.end <= clock
      /\ progress.since <= poll.lower /\ poll.lower <= poll.previous /\ poll.previous <= poll.upper
      /\ poll.upper <= poll.end /\ poll.end <= clock /\ progress.end = poll.previous
      /\ {poll.lower, poll.previous, poll.upper, poll.end, clock, Overlap} \subseteq Int /\ poll.parts \in Nat
      /\ 0 < Overlap
  BY <1>2 DEF PollTypes, PollWindow, PollProgress, Polling!ReadPollAssumption
<1>5. progress' \in [since : Int, end : Int] /\ progress'.since = progress.since /\ progress'.end = poll.upper
  BY <1>2, <1>4
<1>6. ASSUME NEW m \in Message \ admitted', posts[m] # Polling!Unsent, progress.since <= posts[m].time
      PROVE  /\ posts[m].listed = posts[m].time => poll.upper <= posts[m].time
             /\ posts[m].time < poll.upper =>
                   posts[m].listed > posts[m].time + Overlap \/ overflowed \/ poll.end - Overlap <= posts[m].time
  <2>1. posts[m].time \in Int /\ posts[m].listed \in Int /\ m \in Message \ admitted /\ m \notin poll.batch
    BY <1>2, <1>6 DEF PollTypes
  <2>2. posts[m].time < poll.lower =>
           posts[m].listed > posts[m].time + Overlap \/ overflowed \/ poll.end - Overlap <= posts[m].time
    BY <1>2, <1>6, <2>1 DEF LeftBehind, Behind
  <2>3. poll.lower <= posts[m].time /\ posts[m].time < poll.upper => posts[m].listed > poll.end
    BY <1>2, <1>6, <2>1 DEF BatchRead
  <2>4. posts[m].listed = posts[m].time => progress.end <= posts[m].time
    BY <1>6, <2>1 DEF Polling!NothingMissed
  <2> HIDE DEF PollInv
  <2> QED
    BY <1>4, <2>1, <2>2, <2>3, <2>4
<1> HIDE DEF PollInv
<1>7. Polling!NothingMissed'
  <2> SUFFICES ASSUME NEW m \in Message \ admitted', posts'[m] # Polling!Unsent, progress'.since <= posts'[m].time
      PROVE  /\ posts'[m].listed = posts'[m].time => progress'.end <= posts'[m].time
             /\ \/ progress'.end - Overlap <= posts'[m].time
                \/ posts'[m].listed > posts'[m].time + Overlap
                \/ overflowed'
    BY DEF Polling!NothingMissed, Polling!Unsent
  <2>1. posts[m].time \in Int /\ posts[m].listed \in Int
    BY DEF PollInv, PollTypes
  <2> QED
    BY <1>2, <1>4, <1>5, <1>6, <2>1
<1>8. PollTypes'
  <2>1. poll'.batch \subseteq Message /\ poll' \in [at : {"idle", "read", "admit", "prefix"}, lower : Int, upper : Int,
                                                    end : Int, previous : Int, parts : Nat, batch : SUBSET Message]
    <3>1. CASE poll.parts + 1 = CATCH_UP \/ poll.upper >= poll.end
      BY <1>2, <3>1 DEF Polling!Idle
    <3>2. CASE ~(poll.parts + 1 = CATCH_UP \/ poll.upper >= poll.end)
      <4>1. poll' = [poll EXCEPT !.at = "read", !.previous = poll.upper, !.lower = poll.upper,
                                 !.upper = upper, !.parts = poll.parts + 1, !.batch = {}]
        BY <1>2, <3>2, Zenon
      <4>2. poll.parts + 1 \in Nat
        BY <1>4
      <4>3. PICK parts \in Nat : parts = poll.parts + 1
        BY <4>2
      <4>4. poll' = [at |-> "read", lower |-> poll.upper, upper |-> upper, end |-> poll.end,
                     previous |-> poll.upper, parts |-> parts, batch |-> {}]
        BY <4>1, <4>3 DEF PollInv, PollTypes
      <4> QED
        BY <1>3, <1>4, <4>4
    <3> QED
      BY <3>1, <3>2
  <2> QED
    BY <1>2, <1>5, <2>1 DEF PollInv, PollTypes
<1>9. PostTimes' /\ PollProgress'
  BY <1>2, <1>4, <1>5 DEF PollInv, PostTimes, PollProgress
<1>10. CASE poll.parts + 1 = CATCH_UP \/ poll.upper >= poll.end
  BY <1>2, <1>7, <1>8, <1>9, <1>10 DEF PollInv, PollWindow, LeftBehind, BatchRead, Polling!Idle
<1>11. CASE ~(poll.parts + 1 = CATCH_UP \/ poll.upper >= poll.end)
  <2>1. /\ poll'.at = "read" /\ poll'.previous = poll.upper /\ poll'.lower = poll.upper /\ poll'.upper = upper
        /\ poll'.end = poll.end
    BY <1>2, <1>11 DEF PollInv, PollTypes
  <2>2. PollWindow' /\ BatchRead'
    BY <1>2, <1>3, <1>4, <1>5, <1>11, <2>1 DEF PollWindow, BatchRead, Polling!NoProgress
  <2>3. LeftBehind'
    BY <1>2, <1>5, <1>6, <2>1 DEF LeftBehind, Behind, Polling!Unsent
  <2> QED
    BY <1>7, <1>8, <1>9, <2>2, <2>3 DEF PollInv
<1> QED
  BY <1>10, <1>11

LEMMA PollRefused == ASSUME Polling!ReadPollAssumption, PollInv, Polling!Refused PROVE PollInv'
BY DEF Polling!Refused, Polling!ReadPollAssumption, PollInv, PollTypes, PostTimes, PollProgress, PollWindow, LeftBehind, Behind, BatchRead, Polling!NothingMissed

LEMMA PollAdmitsFirst == ASSUME Polling!ReadPollAssumption, PollInv, Polling!AdmitFirst PROVE PollInv'
<1> USE DEF PollInv
<1>1. PICK m \in poll.batch :
        /\ \A other \in poll.batch : posts[m].time <= posts[other].time
        /\ admitted' = admitted \cup {m}
        /\ progress' = [progress EXCEPT !.end = Polling!Larger(poll.previous, posts[m].time)]
        /\ poll' = IF poll.batch = {m} THEN Polling!Idle ELSE [poll EXCEPT !.batch = poll.batch \ {m}]
  BY Zenon DEF Polling!AdmitFirst
<1>2. poll.at = "prefix" /\ UNCHANGED <<clock, posts, overflowed>>
  BY DEF Polling!AdmitFirst
<1>3. PICK end : end = Polling!Larger(poll.previous, posts[m].time)
  OBVIOUS
<1>4. /\ m \in Message /\ posts[m].time \in Int /\ posts[m].time < poll.upper /\ poll.lower <= posts[m].time
      /\ \A other \in poll.batch : posts[other].time \in Int
  BY <1>1, <1>2 DEF PollTypes, BatchRead
<1>5. /\ progress \in [since : Int, end : Int] /\ progress # Polling!NoProgress
      /\ 0 <= progress.since /\ progress.since <= progress.end
      /\ progress.since <= poll.lower /\ poll.lower <= poll.previous /\ poll.previous <= poll.upper
      /\ poll.upper <= poll.end /\ poll.end <= clock /\ poll.previous - Overlap <= poll.lower
      /\ poll.previous <= progress.end
      /\ {poll.lower, poll.previous, poll.upper, poll.end, clock, Overlap} \subseteq Int /\ 0 < Overlap
  BY <1>2 DEF PollTypes, PollWindow, PollProgress, Polling!ReadPollAssumption
<1>6. end \in Int /\ poll.previous <= end /\ posts[m].time <= end /\ (end = poll.previous \/ end = posts[m].time) /\ end <= poll.upper
  BY <1>3, <1>4, <1>5 DEF Polling!Larger
<1>7. progress' \in [since : Int, end : Int] /\ progress'.since = progress.since /\ progress'.end = end
  BY <1>1, <1>3, <1>5, <1>6
<1>8. Polling!NothingMissed'
  <2> SUFFICES ASSUME NEW x \in Message \ admitted', posts'[x] # Polling!Unsent, progress'.since <= posts'[x].time
      PROVE  /\ posts'[x].listed = posts'[x].time => progress'.end <= posts'[x].time
             /\ \/ progress'.end - Overlap <= posts'[x].time
                \/ posts'[x].listed > posts'[x].time + Overlap
                \/ overflowed'
    BY DEF Polling!NothingMissed, Polling!Unsent
  <2>1. posts[x].time \in Int /\ posts[x].listed \in Int /\ x \in Message \ admitted /\ posts[x] # Polling!Unsent
        /\ progress.since <= posts[x].time
    BY <1>1, <1>2, <1>7 DEF PollTypes
  <2>2. posts[x].time < poll.lower =>
           posts[x].listed > posts[x].time + Overlap \/ overflowed \/ poll.end - Overlap <= posts[x].time
    BY <1>2, <2>1 DEF LeftBehind, Behind
  <2>3. poll.lower <= posts[x].time /\ posts[x].time < poll.upper => posts[x].listed > poll.end \/ posts[m].time <= posts[x].time
    BY <1>1, <1>2, <2>1 DEF BatchRead
  <2>4. posts[x].listed = posts[x].time => progress.end <= posts[x].time
    BY <2>1 DEF Polling!NothingMissed
  <2> HIDE DEF PollInv
  <2>5. posts[x].listed = posts[x].time => end <= posts[x].time
    BY <1>4, <1>5, <1>6, <1>7, <2>1, <2>3, <2>4
  <2>6. end - Overlap <= posts[x].time \/ posts[x].listed > posts[x].time + Overlap \/ overflowed
    BY <1>4, <1>5, <1>6, <2>1, <2>2, <2>3
  <2> QED
    BY <1>2, <1>7, <2>5, <2>6
<1> HIDE DEF PollInv
<1>9. PostTimes' /\ PollProgress'
  BY <1>2, <1>5, <1>6, <1>7 DEF PollInv, PostTimes, PollProgress
<1>10. CASE poll.batch = {m}
  <2>1. poll' = Polling!Idle
    BY <1>1, <1>10
  <2> QED
    BY <1>1, <1>2, <1>4, <1>7, <1>8, <1>9, <2>1 DEF PollInv, PollTypes, PollWindow, LeftBehind, BatchRead, Polling!Idle
<1>11. CASE poll.batch # {m}
  <2>1. poll' = [poll EXCEPT !.batch = poll.batch \ {m}]
    BY <1>1, <1>11
  <2>2. PollTypes'
    BY <1>1, <1>2, <1>4, <1>7, <2>1 DEF PollInv, PollTypes
  <2>3. /\ poll'.at = "prefix" /\ poll'.lower = poll.lower /\ poll'.previous = poll.previous /\ poll'.upper = poll.upper
        /\ poll'.end = poll.end /\ poll'.batch = poll.batch \ {m}
    BY <1>2, <2>1 DEF PollInv, PollTypes
  <2>4. PollWindow'
    BY <1>2, <1>5, <1>6, <1>7, <2>3 DEF PollWindow, Polling!NoProgress
  <2>5. LeftBehind'
    BY <1>1, <1>2, <1>7, <2>3 DEF PollInv, LeftBehind, Behind, Polling!Unsent
  <2>6. BatchRead'
    BY <1>1, <1>2, <2>3 DEF PollInv, BatchRead, Polling!Unsent
  <2> QED
    BY <1>8, <1>9, <2>2, <2>4, <2>5, <2>6 DEF PollInv
<1> QED
  BY <1>10, <1>11

LEMMA PollPosts == ASSUME Polling!ReadPollAssumption, PollInv, NEW m \in Message, Polling!Post(m) PROVE PollInv'
<1> USE DEF PollInv
<1>1. PICK late \in Ahead : posts' = [posts EXCEPT ![m] = [time |-> clock, listed |-> clock + late]]
  BY DEF Polling!Post
<1>2. posts[m] = Polling!Unsent /\ UNCHANGED <<clock, progress, poll, admitted, overflowed>>
  BY DEF Polling!Post
<1>3. late \in Nat /\ clock \in Nat
  BY DEF Polling!ReadPollAssumption, PollTypes
<1>4. PollTypes'
  BY <1>1, <1>2, <1>3 DEF PollTypes
<1>5. posts'[m].time = clock /\ posts'[m].listed = clock + late /\ \A x \in Message \ {m} : posts'[x] = posts[x]
  BY <1>1 DEF PollTypes
<1>6. PostTimes' /\ PollProgress' /\ PollWindow'
  BY <1>2, <1>3, <1>5 DEF PostTimes, PollProgress, PollWindow, Polling!Unsent
<1>7. LeftBehind'
  BY <1>2, <1>3, <1>5 DEF PollTypes, PollWindow, LeftBehind, Behind, Polling!Unsent
<1>8. BatchRead'
  BY <1>2, <1>3, <1>5 DEF PollTypes, PollWindow, BatchRead, Polling!Unsent
<1>9. Polling!NothingMissed'
  BY <1>2, <1>3, <1>5 DEF PollTypes, PollProgress, Polling!NothingMissed, Polling!Unsent, Polling!NoProgress, Polling!ReadPollAssumption
<1> QED
  BY <1>4, <1>6, <1>7, <1>8, <1>9

LEMMA PollTicks == ASSUME PollInv, Polling!Tick PROVE PollInv'
BY DEF Polling!Tick, PollInv, PollTypes, PostTimes, PollProgress, PollWindow, LeftBehind, Behind, BatchRead, Polling!NothingMissed

\* Whatever a poll does, the invariant stays.
LEMMA PollStep == ASSUME Polling!ReadPollAssumption, PollInv, [Polling!Next]_Polling!vars PROVE PollInv'
<1>1. ASSUME Polling!Next PROVE PollInv'
  BY <1>1, PollOpens, PollReads, PollShrinks, PollStops, PollAdmits, PollRefused, PollAdmitsFirst, PollPosts, PollTicks
     DEF Polling!Next
<1>2. ASSUME UNCHANGED Polling!vars PROVE PollInv'
  BY <1>2 DEF Polling!vars, PollInv, PollTypes, PostTimes, PollProgress, PollWindow, LeftBehind, Behind, BatchRead, Polling!NothingMissed
<1> QED
  BY <1>1, <1>2

\* Where each poll is: what its window and its batch leave out is listed later
\* or read again by the next one.
THEOREM PollInvariance ==
    ASSUME Polling!ReadPollAssumption
    PROVE  Polling!Spec => []PollInv
<1>1. Polling!Init => PollInv
  BY PollStart
<1>2. PollInv /\ [Polling!Next]_Polling!vars => PollInv'
  BY PollStep
<1> QED
  BY <1>1, <1>2, PTL DEF Polling!Spec

\* Windows overflow, shrink and grow, polls fail and the queue fills up, yet
\* the checkpoint of a read input never passes a message it must admit
\* (assistants.py: poll; channels.py: read; runtime.py: admit).
THEOREM PollsMissNothing ==
    ASSUME Polling!ReadPollAssumption
    PROVE  Polling!Spec => []Polling!NothingMissed
<1>1. PollInv => Polling!NothingMissed
  BY DEF PollInv
<1> QED
  BY <1>1, PollInvariance, PTL

=============================================================================
