------------------------------ MODULE ReadPoll ------------------------------
(***************************************************************************)
(* One read input of an assistant (assistants.py: poll; channels.py: read; *)
(* runtime.py: admit): each poll reads the window since its checkpoint,    *)
(* with a small overlap for messages the provider lists late, in parts     *)
(* that hold one batch.                                                    *)
(***************************************************************************)
EXTENDS Integers, FiniteSets

CONSTANTS
    Message, Ahead,            \* messages, and how late each may be listed
    Overlap,                   \* the 30 seconds of poll
    MAX_BATCH, CATCH_UP,
    MaxTime                    \* bound

\* What the constants must satisfy; the instances assume it.
ReadPollAssumption ==
    /\ IsFiniteSet(Message) /\ Ahead \subseteq Nat
    /\ {Overlap, MAX_BATCH, CATCH_UP} \subseteq Nat \ {0}

VARIABLES
    clock,
    sent,        \* sent[m]: its time and when the provider lists it, or Unsent
    progress,    \* the read: checkpoint
    poll,        \* where the poll is, and its local variables
    admitted,
    overflowed   \* some poll gave up its overlap for a batch too large

vars == <<clock, sent, progress, poll, admitted, overflowed>>

Unsent == [time |-> 0 - 1, listed |-> 0 - 1]
NoProgress == [since |-> 0 - 1, end |-> 0 - 1]
Idle == [at |-> "idle", lower |-> 0, upper |-> 0, end |-> 0, previous |-> 0, parts |-> 0, batch |-> {}]

TypeOK ==
    /\ clock \in 0..MaxTime
    /\ admitted \subseteq Message /\ poll.batch \subseteq Message
    /\ poll.at \in {"idle", "read", "admit", "prefix"} /\ poll.parts \in 0..CATCH_UP
    /\ progress.since <= progress.end /\ overflowed \in BOOLEAN

Init ==
    /\ clock = 0
    /\ sent = [m \in Message |-> Unsent]
    /\ progress = NoProgress
    /\ poll = Idle
    /\ admitted = {} /\ overflowed = FALSE

-----------------------------------------------------------------------------

Larger(a, b) == IF a > b THEN a ELSE b
Smaller(a, b) == IF a < b THEN a ELSE b

\* A mutant: no overlap for what the provider lists late.
StartWithoutOverlap ==
    /\ poll.at = "idle"
    /\ IF progress = NoProgress
       THEN progress' = [since |-> clock, end |-> clock] /\ UNCHANGED poll
       ELSE /\ poll' = IF progress.end >= clock THEN Idle
                       ELSE [Idle EXCEPT !.at = "read", !.lower = progress.end, !.upper = clock,
                                         !.end = clock, !.previous = progress.end]
            /\ UNCHANGED progress
    /\ UNCHANGED <<clock, sent, admitted, overflowed>>

Start ==
    /\ poll.at = "idle"
    /\ IF progress = NoProgress
       THEN progress' = [since |-> clock, end |-> clock] /\ UNCHANGED poll
       ELSE LET lower == Larger(progress.since, progress.end - Overlap)
            IN  /\ poll' = IF lower >= clock THEN Idle
                           ELSE [Idle EXCEPT !.at = "read", !.lower = lower, !.upper = clock,
                                             !.end = clock, !.previous = progress.end]
                /\ UNCHANGED progress
    /\ UNCHANGED <<clock, sent, admitted, overflowed>>

Listed == {m \in Message : sent[m] # Unsent /\ sent[m].listed <= clock}
Window == {m \in Listed : poll.lower <= sent[m].time /\ sent[m].time < poll.upper}

ReadBatch ==
    /\ poll.at = "read"
    /\ Cardinality(Window) <= MAX_BATCH
    /\ poll' = [poll EXCEPT !.at = "admit", !.batch = Window]
    /\ UNCHANGED <<clock, sent, progress, admitted, overflowed>>

\* A batch too large: first without the overlap, then half of the window, down
\* to one second.
Overflow ==
    /\ poll.at = "read"
    /\ Cardinality(Window) > MAX_BATCH
    /\ IF poll.lower < poll.previous
       THEN poll' = [poll EXCEPT !.lower = poll.previous] /\ overflowed' = TRUE
       ELSE /\ poll' = IF poll.upper - poll.lower <= 1 THEN Idle
                       ELSE [poll EXCEPT !.upper = poll.lower + (poll.upper - poll.lower) \div 2]
            /\ UNCHANGED overflowed
    /\ UNCHANGED <<clock, sent, progress, admitted>>

\* The read, or anything before the admission, fails.
Fails ==
    /\ poll.at # "idle"
    /\ poll' = Idle
    /\ UNCHANGED <<clock, sent, progress, admitted, overflowed>>

\* One transaction; the next part doubles the one that fit.
Admit ==
    /\ poll.at = "admit"
    /\ admitted' = admitted \cup poll.batch
    /\ progress' = [progress EXCEPT !.end = poll.upper]
    /\ LET upper == Smaller(poll.end, poll.upper + 2 * (poll.upper - poll.lower))
       IN  poll' = IF poll.parts + 1 = CATCH_UP \/ poll.upper >= poll.end THEN Idle
                   ELSE [poll EXCEPT !.at = "read", !.previous = poll.upper, !.lower = poll.upper,
                                     !.upper = upper, !.parts = @ + 1, !.batch = {}]
    /\ UNCHANGED <<clock, sent, overflowed>>

\* The queue refuses the batch: the messages it has room for, oldest first.
Refused ==
    /\ poll.at = "admit" /\ poll.batch # {}
    /\ poll' = [poll EXCEPT !.at = "prefix"]
    /\ UNCHANGED <<clock, sent, progress, admitted, overflowed>>

\* A mutant: a prefix moves the checkpoint past the messages left out.
AdmitFirstToTheEnd ==
    /\ poll.at = "prefix"
    /\ \E m \in poll.batch :
        /\ \A other \in poll.batch : sent[m].time <= sent[other].time
        /\ admitted' = admitted \cup {m}
        /\ progress' = [progress EXCEPT !.end = poll.upper]
        /\ poll' = IF poll.batch = {m} THEN Idle ELSE [poll EXCEPT !.batch = @ \ {m}]
    /\ UNCHANGED <<clock, sent, overflowed>>

AdmitFirst ==
    /\ poll.at = "prefix"
    /\ \E m \in poll.batch :
        /\ \A other \in poll.batch : sent[m].time <= sent[other].time
        /\ admitted' = admitted \cup {m}
        /\ progress' = [progress EXCEPT !.end = Larger(poll.previous, sent[m].time)]
        /\ poll' = IF poll.batch = {m} THEN Idle ELSE [poll EXCEPT !.batch = @ \ {m}]
    /\ UNCHANGED <<clock, sent, overflowed>>

\* The provider: a message of this instant, listed now or a little later.
Post(m) ==
    /\ sent[m] = Unsent
    /\ \E late \in Ahead : sent' = [sent EXCEPT ![m] = [time |-> clock, listed |-> clock + late]]
    /\ UNCHANGED <<clock, progress, poll, admitted, overflowed>>

Tick ==
    /\ clock < MaxTime
    /\ clock' = clock + 1
    /\ UNCHANGED <<sent, progress, poll, admitted, overflowed>>

Next ==
    \/ Start \/ ReadBatch \/ Overflow \/ Fails \/ Admit \/ Refused \/ AdmitFirst \/ Tick
    \/ \E m \in Message : Post(m)

Spec == Init /\ [][Next]_vars

-----------------------------------------------------------------------------

\* Windows overflow, shrink, grow and are cut short, polls fail and the queue
\* fills up, yet the checkpoint never passes a message: one listed at once is
\* admitted before, and one listed late within the overlap before the overlap
\* leaves it, unless a batch too large made a poll give its overlap up.
NothingMissed ==
    \A m \in Message \ admitted :
        sent[m] # Unsent /\ progress.since <= sent[m].time =>
            /\ sent[m].listed = sent[m].time => progress.end <= sent[m].time
            /\ \/ progress.end - Overlap <= sent[m].time
               \/ sent[m].listed > sent[m].time + Overlap
               \/ overflowed

=============================================================================
