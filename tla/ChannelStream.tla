---------------------------- MODULE ChannelStream ----------------------------
(***************************************************************************)
(* A stream input: the worker of assistants.Dispatcher._stream, the pump   *)
(* of channels.stream and the transaction of runtime.Queue.admit, between  *)
(* a provider's adapter, which may break and redelivers, and the jobs of   *)
(* the assistants that read the channel.  Frames and acknowledgements are  *)
(* lost with a connection; a kill of watch loses what is not in the queue. *)
(* An adapter polls, and resumes from the cursor of the last admitted      *)
(* message, or is pushed to, and delivers what it has not acknowledged, in *)
(* any order and perhaps twice.                                            *)
(***************************************************************************)
EXTENDS Naturals, Sequences

CONSTANTS
    Message,   \* the messages of the channel, by their provider ids
    Own,       \* those the adapter marks as the bot's own
    Sent,      \* those our own deliveries create, which no adapter marks
    Large,     \* those too large for a prompt
    Assistant, \* assistants that may read the channel
    None,      \* nothing there
    Window,    \* frames of an adapter whose acknowledgement it has not read
    MaxLog,    \* bound on what the provider has, edits included
    MaxBreaks, \* bound on broken connections, kills included
    MaxChanges \* bound on changes of who reads the channel

ASSUME StreamAssumption ==
    /\ Own \subseteq Message /\ Sent \subseteq Message /\ Own \cap Sent = {}
    /\ Large \subseteq Message
    /\ Window \in Nat \ {0} /\ MaxLog \in Nat
    /\ MaxBreaks \in Nat /\ MaxChanges \in Nat

Version == {"first", "edit"}

\* A message without a row in the queue has no version.
ASSUME NoneAssumption == None \notin Version

VARIABLES
    log,          \* the provider's messages and edits, oldest first
    adapter,      \* "poll" or "push"
    pipe,         \* frames the adapter wrote: positions of the log
    at,           \* a polling adapter's position
    acks,         \* acknowledgements the adapter has not read
    acked,        \* positions it acknowledged to the provider
    since, cursor,\* the stream:CHANNEL checkpoint
    events,       \* events[m]: the version whose digest the queue keeps
    jobs, text,   \* jobs[a][m]: its state, and the version it answers
    receipts,     \* messages that a delivery's receipt names
    readers,      \* enabled assistants with this stream input, in bf.yaml
    pc, recipients, \* the worker, and its local
    breaks, changes, loyal   \* history

provider == <<log, adapter, acked>>
connection == <<pipe, at, acks>>
queue == <<since, cursor, events, jobs, text, receipts>>
worker == <<pc, recipients>>
history == <<breaks, changes, loyal>>
vars == <<provider, connection, queue, readers, worker, history>>

Position == 1..MaxLog
Entry == [id : Message, version : Version]
JobState == {"absent", "pending", "failed", "started", "cancelled"}

TypeOK ==
    /\ log \in Seq(Entry) /\ Len(log) <= MaxLog
    /\ adapter \in {"poll", "push"}
    /\ pipe \in Seq(1..Len(log)) /\ acks \in Seq(1..Len(log))
    /\ at \in 0..Len(log) /\ acked \in SUBSET (1..Len(log))
    /\ since \in {None} \cup 0..Len(log) /\ cursor \in 0..Len(log)
    /\ events \in [Message -> Version \cup {None}]
    /\ jobs \in [Assistant -> [Message -> JobState]]
    /\ text \in [Assistant -> [Message -> Version \cup {None}]]
    /\ receipts \in SUBSET Sent
    /\ readers \in SUBSET Assistant /\ recipients \in SUBSET Assistant
    /\ pc \in {"down", "up", "accept", "admit", "report"}
    /\ breaks \in 0..MaxBreaks /\ changes \in 0..MaxChanges
    /\ loyal \in SUBSET Assistant

Init ==
    /\ log = <<>> /\ acked = {}
    /\ adapter \in {"poll", "push"}
    /\ pipe = <<>> /\ at = 0 /\ acks = <<>>
    /\ since = None /\ cursor = 0
    /\ events = [m \in Message |-> None]
    /\ jobs = [a \in Assistant |-> [m \in Message |-> "absent"]]
    /\ text = [a \in Assistant |-> [m \in Message |-> None]]
    /\ receipts = {}
    /\ readers \in SUBSET Assistant
    /\ pc = "down" /\ recipients = {}
    /\ breaks = 0 /\ changes = 0 /\ loyal = readers

Posted == {log[i].id : i \in 1..Len(log)}

-----------------------------------------------------------------------------
(* The provider and its adapter.                                           *)

\* A message, or an edit, which reuses its message's id.
Post(m) ==
    /\ Len(log) < MaxLog
    /\ log' = Append(log, [id |-> m,
                           version |-> IF m \in Posted THEN "edit" ELSE "first"])
    /\ UNCHANGED <<adapter, acked, connection, queue, readers, worker, history>>

\* The adapter writes the frame of one log entry: the next, or any that it has
\* not acknowledged.
Emit(i) ==
    /\ pc # "down" /\ Len(pipe) + Len(acks) < Window
    /\ IF adapter = "poll" THEN i = at + 1 ELSE i \notin acked
    /\ pipe' = Append(pipe, i)
    /\ at' = IF adapter = "poll" THEN i ELSE at
    /\ UNCHANGED <<provider, acks, queue, readers, worker, history>>

\* The adapter reads an ack frame and acknowledges to the provider.
Acknowledge ==
    /\ pc # "down" /\ acks # <<>>
    /\ acked' = acked \cup {Head(acks)}
    /\ acks' = Tail(acks)
    /\ UNCHANGED <<log, adapter, pipe, at, queue, readers, worker, history>>

-----------------------------------------------------------------------------
(* The worker: Dispatcher._stream.                                         *)

\* Mutant: every connection starts where the provider is now.
StartAgain ==
    /\ pc = "down"
    /\ since' = Len(log)
    /\ UNCHANGED <<provider, connection, cursor, events, jobs, text, receipts,
                   readers, worker, history>>

\* The stream's first start is durable, and never moves.
Start ==
    /\ pc = "down" /\ since = None
    /\ since' = Len(log)
    /\ UNCHANGED <<provider, connection, cursor, events, jobs, text, receipts,
                   readers, worker, history>>

\* The adapter starts with a resume frame of the durable progress.
Connect ==
    /\ pc = "down" /\ since # None
    /\ pc' = "up"
    /\ pipe' = <<>> /\ acks' = <<>>
    /\ at' = IF adapter = "push" THEN 0 ELSE IF cursor = 0 THEN since ELSE cursor
    /\ UNCHANGED <<provider, queue, readers, recipients, history>>

\* Mutant: progress is stored as frames are read.
ReceiveEager ==
    /\ pc = "up" /\ pipe # <<>>
    /\ pc' = "accept"
    /\ recipients' = readers
    /\ cursor' = IF adapter = "poll" THEN Head(pipe) ELSE cursor
    /\ UNCHANGED <<provider, connection, since, events, jobs, text, receipts, readers,
                   history>>

\* A frame is read: accepted() loads bf.yaml to find its recipients.
Receive ==
    /\ pc = "up" /\ pipe # <<>>
    /\ pc' = "accept"
    /\ recipients' = readers
    /\ UNCHANGED <<provider, connection, queue, readers, history>>

\* accept() loads bf.yaml again, and prepares a job for each that still reads.
Prepare ==
    /\ pc = "accept"
    /\ pc' = "admit"
    /\ recipients' = recipients \cap readers
    /\ UNCHANGED <<provider, connection, queue, readers, history>>

-----------------------------------------------------------------------------
(* runtime.Queue.                                                          *)

Frame == log[Head(pipe)]

\* Mutant: the cursor points at the next message.
CheckpointNext == cursor' = IF adapter = "poll" THEN Head(pipe) + 1 ELSE cursor

\* A polling adapter puts its position in each envelope, others leave it empty.
Checkpoint == cursor' = IF adapter = "poll" THEN Head(pipe) ELSE cursor

\* Mutant: an edit is admitted over its message.
SkippedUnlessEdited(m, v) == m \in Own \cup receipts

\* A message of ours, or an edit of one that was admitted.
Skipped(m, v) == m \in Own \cup receipts \/ events[m] \notin {None, v}

\* Queue.put, for each recipient without this job; one too large for its prompt
\* is stored failed.
PutJobs(m, v, for) ==
    LET new == {a \in for : jobs[a][m] = "absent"} IN
    /\ jobs' = [a \in Assistant |-> IF a \notin new THEN jobs[a] ELSE
                  [jobs[a] EXCEPT ![m] = IF m \in Large THEN "failed" ELSE "pending"]]
    /\ text' = [a \in Assistant |-> IF a \notin new THEN text[a] ELSE
                  [text[a] EXCEPT ![m] = v]]

\* Queue.admit: messages, jobs and transport progress in one transaction.
Admit ==
    /\ pc = "admit"
    /\ LET m == Frame.id
           v == Frame.version
       IN \/ /\ Skipped(m, v)
             /\ UNCHANGED <<events, jobs, text>>
          \/ /\ ~Skipped(m, v)
             /\ events' = [events EXCEPT ![m] = v]
             /\ PutJobs(m, v, recipients)
    /\ Checkpoint
    /\ pc' = "report"
    /\ recipients' = {}
    /\ UNCHANGED <<provider, connection, since, receipts, readers, history>>

\* The channel's health is reported, and the frame's ack buffered.
Report ==
    /\ pc = "report"
    /\ acks' = Append(acks, Head(pipe))
    /\ pipe' = Tail(pipe)
    /\ pc' = "up"
    /\ UNCHANGED <<provider, at, since, cursor, events, jobs, text, receipts,
                   readers, recipients, history>>

\* Mutant: only a receipt that comes first stops an echo.
ReceiptOnly(m) ==
    /\ m \in Sent \cap Posted /\ m \notin receipts
    /\ receipts' = receipts \cup {m}
    /\ UNCHANGED <<provider, connection, since, cursor, events, jobs, text, readers,
                   worker, history>>

\* Queue.delivered: a receipt can arrive after its echo; work that has not
\* started is cancelled.
Receipt(m) ==
    /\ m \in Sent \cap Posted /\ m \notin receipts
    /\ receipts' = receipts \cup {m}
    /\ jobs' = [a \in Assistant |->
                  [jobs[a] EXCEPT ![m] = IF @ = "pending" THEN "cancelled" ELSE @]]
    /\ UNCHANGED <<provider, connection, since, cursor, events, text, readers,
                   worker, history>>

\* Queue.claim: see JobAttempts.
Claim(a, m) ==
    /\ jobs[a][m] = "pending"
    /\ jobs' = [jobs EXCEPT ![a][m] = "started"]
    /\ UNCHANGED <<provider, connection, since, cursor, events, text, receipts,
                   readers, worker, history>>

-----------------------------------------------------------------------------
(* Failures, and the owner.                                                *)

Disconnected ==
    /\ pc' = "down" /\ recipients' = {}
    /\ pipe' = <<>> /\ acks' = <<>> /\ at' = 0

\* An Error ends the connection; the worker connects again after a while.
Fails ==
    /\ Disconnected
    /\ UNCHANGED <<provider, since, cursor, events, jobs, text, receipts, readers>>

\* The frame needs room: for its message, or for a job of a new reader.
NeedsRoom ==
    /\ ~Skipped(Frame.id, Frame.version)
    /\ events[Frame.id] = None \/ \E a \in recipients : jobs[a][Frame.id] = "absent"

\* Mutant: a refused message is acknowledged like others.
RefuseQuietly ==
    /\ pc = "admit" /\ NeedsRoom
    /\ pc' = "report" /\ recipients' = {}
    /\ UNCHANGED <<provider, connection, queue, readers, history>>

\* Queue.reserve refuses: nothing is admitted.
Refuse ==
    /\ pc = "admit" /\ NeedsRoom
    /\ Fails
    /\ UNCHANGED history

\* The adapter exits, blocks or sends garbage; bf.yaml does not load, or names
\* another command; the queue cannot be read or written; watch is killed, and
\* started again.
Break ==
    /\ pc # "down" /\ breaks < MaxBreaks
    /\ Fails
    /\ breaks' = breaks + 1
    /\ UNCHANGED <<changes, loyal>>

\* The owner edits bf.yaml: one assistant starts or stops reading the channel.
Reconfigure(a) ==
    /\ changes < MaxChanges
    /\ changes' = changes + 1
    /\ readers' = IF a \in readers THEN readers \ {a} ELSE readers \cup {a}
    /\ loyal' = loyal \ {a}
    /\ UNCHANGED <<provider, connection, queue, worker, breaks>>

-----------------------------------------------------------------------------
Worker == Start \/ Connect \/ Receive \/ Prepare \/ Report

Next ==
    \/ Worker \/ Admit \/ Refuse \/ Break \/ Acknowledge
    \/ \E i \in 1..Len(log) : Emit(i)
    \/ \E m \in Message : Post(m) \/ Receipt(m)
    \/ \E a \in Assistant : Reconfigure(a) \/ \E m \in Message : Claim(a, m)

Spec == Init /\ [][Next]_vars

\* The worker runs, the adapter delivers, and the queue has room again and again.
FairSpec ==
    /\ Spec
    /\ WF_vars(Worker) /\ WF_vars(Acknowledge)
    /\ \A i \in Position :
          /\ SF_vars(i <= Len(log) /\ Emit(i))
          /\ SF_vars(pipe # <<>> /\ Head(pipe) = i /\ Admit)

-----------------------------------------------------------------------------
(* Properties.                                                             *)

\* What the queue has taken care of: an admitted message, or one of ours.
Handled(m) == events[m] # None \/ m \in Own \cup receipts

Inbox_ == INSTANCE Inbox WITH
    admitted <- events,
    work <- text,
    own <- Own \cup receipts,
    acked <- {log[i].id : i \in acked}

\* Every message is admitted once and in one version, for whoever reads the
\* channel then or at a redelivery, and acknowledged only after that, through
\* broken connections, kills, edits and refusals.
ImplementsInbox == Inbox_!Spec

\* The durable cursor never passes a message that is not in the queue: a
\* connection that resumes from it skips nothing.
NothingSkipped ==
    since # None /\ adapter = "poll" =>
        \A i \in 1..cursor : i > since => Handled(log[i].id)

\* An assistant that read the channel all along has a job for every message
\* that was acknowledged and is not ours.
ReadersServed ==
    \A i \in acked : \A a \in loyal :
        log[i].id \in Own \cup receipts \/ jobs[a][log[i].id] # "absent"

\* Once a receipt shows that a message is our own, no job starts to answer it.
NoEchoAnswered ==
    [][\A a \in Assistant : \A m \in receipts :
          jobs'[a][m] = "started" => jobs[a][m] = "started"]_vars

\* Every message since the stream's first start reaches the queue.
MessagesArrive ==
    \A i \in Position :
        i <= Len(log) /\ since # None /\ (adapter = "push" \/ i > since)
            ~> i <= Len(log) /\ Handled(log[i].id)

=============================================================================
