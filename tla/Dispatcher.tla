------------------------------ MODULE Dispatcher ------------------------------
(***************************************************************************)
(* Who tries what, and when (assistants.py: Dispatcher, _cycle): the       *)
(* dispatcher of bf watch, which passes over the queue once a second and   *)
(* gives each lane of jobs, each channel and each read input at most one   *)
(* worker, and the finite cycle of bf update, which tries everything once. *)
(*                                                                         *)
(* Jobs and deliveries are numbered in the order the queue offers them,    *)
(* inputs in the order the configuration lists them.  Time is counted in   *)
(* passes.  What an attempt does to the queue is in JobAttempts,           *)
(* Deliveries and ReadPoll; some items are held by another process all     *)
(* along, so that every attempt at them is refused as busy.                *)
(***************************************************************************)
EXTENDS Integers, FiniteSets, FiniteSetsExt

CONSTANTS
    Lane, Channel, Input,
    Item,        \* jobs and deliveries
    Place,       \* [Item -> Lane \cup Channel]
    Stuck,       \* items another process holds
    BACKOFF, Every, Senders, Readers,
    MaxFails, MaxStops   \* bounds

\* What the constants must satisfy; the instances assume it.  A lane or a
\* channel has one held item at most, whose wait no other refusal outlasts, and
\* the channels that have one leave a sender free.
DispatcherAssumption ==
    /\ Item \subseteq Nat \ {0} /\ Input \subseteq Nat \ {0} /\ Stuck \subseteq Item
    /\ IsFiniteSet(Item) /\ IsFiniteSet(Input)
    /\ Place \in [Item -> Lane \cup Channel]
    /\ {BACKOFF, Every, Senders, Readers} \subseteq Nat \ {0} /\ {MaxFails, MaxStops} \subseteq Nat
    /\ \A place \in Lane \cup Channel : Cardinality({i \in Stuck : Place[i] = place}) <= 1
    /\ Cardinality({Place[i] : i \in Stuck} \cap Channel) < Senders

VARIABLES
    owner,     \* who holds .dispatch
    state,     \* [Item -> "queued", or "done" once no pass offers it]
    tasks,     \* the dispatcher's workers: [slot -> what each does]
    later,     \* passes to wait before an item is tried again
    readDue,   \* passes until an input is due
    pass,      \* the next section of the dispatcher's pass
    tried,     \* what the cycle has tried
    attempt,   \* the item the cycle is at, or 0
    fails, stops    \* failures of jobs and deliveries, and ends of watch, so far

vars == <<owner, state, tasks, later, readDue, pass, tried, attempt, fails, stops>>

Slot == Lane \cup Channel \cup Input
Task(item, future) == [item |-> item, future |-> future]
NoTask == Task(0, "none")
Runs(slot) == tasks[slot].future = "runs"
Done(slot) == tasks[slot].future \in {"fine", "failed", "behind"}

TypeOK ==
    /\ owner \in {"nobody", "watch", "update"}
    /\ state \in [Item -> {"queued", "done"}]
    /\ \A slot \in Slot :
        /\ tasks[slot].future \in {"none", "runs", "fine", "failed", "behind"}
        /\ tasks[slot].item \in Item \cup {0}
    /\ later \in [Item -> 0..BACKOFF] /\ readDue \in [Input -> 0..Every]
    /\ pass \in {"none", "harvest", "jobs", "deliveries", "reads", "closing"}
    /\ tried \subseteq Item /\ attempt \in Item \cup {0}
    /\ fails \in 0..MaxFails /\ stops \in 0..MaxStops

Init ==
    /\ owner = "nobody" /\ pass = "none" /\ attempt = 0 /\ tried = {} /\ fails = 0 /\ stops = 0
    /\ state = [i \in Item |-> "queued"]
    /\ tasks = [slot \in Slot |-> NoTask]
    /\ later = [i \in Item |-> 0]
    /\ readDue = [i \in Input |-> 0]

-----------------------------------------------------------------------------
(* The dispatcher of watch. *)

\* __init__ and __enter__: .dispatch is its own until it closed, and it starts
\* with no task.
Enter ==
    /\ owner = "nobody" /\ pass = "none"
    /\ owner' = "watch" /\ pass' = "harvest"
    /\ UNCHANGED <<state, tasks, later, readDue, tried, attempt, fails, stops>>

Less(n) == IF n = 0 THEN 0 ELSE n - 1

\* A mutant: a refused item is offered again at once.
HarvestForgets ==
    /\ pass = "harvest"
    /\ tasks' = [slot \in Slot |-> IF Done(slot) THEN NoTask ELSE tasks[slot]]
    /\ readDue' = [i \in Input |->
            IF tasks[i].future = "behind" THEN 0 ELSE Less(readDue[i])]
    /\ pass' = "jobs"
    /\ UNCHANGED <<owner, state, later, tried, attempt, fails, stops>>

\* What ended makes room; an item whose attempt failed or found it busy waits,
\* and an input that stays behind is due at once.  What runs goes on.
Harvest ==
    /\ pass = "harvest"
    /\ tasks' = [slot \in Slot |-> IF Done(slot) THEN NoTask ELSE tasks[slot]]
    /\ later' = [i \in Item |->
            IF tasks[Place[i]] = Task(i, "failed") THEN BACKOFF ELSE Less(later[i])]
    /\ readDue' = [i \in Input |->
            IF tasks[i].future = "behind" THEN 0 ELSE Less(readDue[i])]
    /\ pass' = "jobs"
    /\ UNCHANGED <<owner, state, tried, attempt, fails, stops>>

\* What the queue offers a lane or a channel.
Offered(place) == {i \in Item : Place[i] = place /\ state[i] = "queued" /\ later[i] = 0}

\* Queue.next, for each lane that is free.
Jobs ==
    /\ pass = "jobs"
    /\ tasks' = [slot \in Slot |->
            IF slot \in Lane /\ tasks[slot] = NoTask /\ Offered(slot) # {}
            THEN Task(Min(Offered(slot)), "runs") ELSE tasks[slot]]
    /\ pass' = "deliveries"
    /\ UNCHANGED <<owner, state, later, readDue, tried, attempt, fails, stops>>

\* The first n of a set of numbers.
First(n, S) == {i \in S : Cardinality({j \in S : j < i}) < n}

\* One delivery per channel, in the queue's order, while a sender is free.
Deliveries ==
    LET busy == {c \in Channel : tasks[c] # NoTask}
        next == {Min(Offered(c)) : c \in {c \in Channel \ busy : Offered(c) # {}}}
        picked == First(Senders - Cardinality(busy), next)
    IN  /\ pass = "deliveries"
        /\ tasks' = [slot \in Slot |->
                IF \E i \in picked : Place[i] = slot
                THEN Task(CHOOSE i \in picked : Place[i] = slot, "runs") ELSE tasks[slot]]
        /\ pass' = "reads"
        /\ UNCHANGED <<owner, state, later, readDue, tried, attempt, fails, stops>>

\* The inputs that are due, in their order, while a reader is free.
Reads ==
    LET busy == {i \in Input : tasks[i] # NoTask}
        picked == First(Readers - Cardinality(busy), {i \in Input \ busy : readDue[i] = 0})
    IN  /\ pass = "reads"
        /\ tasks' = [slot \in Slot |-> IF slot \in picked THEN Task(0, "runs") ELSE tasks[slot]]
        /\ readDue' = [i \in Input |-> IF i \in picked THEN Every ELSE readDue[i]]
        /\ pass' = "harvest"
        /\ UNCHANGED <<owner, state, later, tried, attempt, fails, stops>>

Ends(slot, future) == tasks' = [tasks EXCEPT ![slot].future = future]

\* execute, deliver and poll, in a worker.
Finish(slot) ==
    LET item == tasks[slot].item
    IN  /\ Runs(slot)
        /\ \/ item \in Item \ Stuck /\ Ends(slot, "fine") /\ state' = [state EXCEPT ![item] = "done"]
              /\ fails' = fails
           \/ item \in Stuck /\ Ends(slot, "failed") /\ UNCHANGED <<state, fails>>
           \/ item = 0 /\ Ends(slot, "fine") /\ UNCHANGED <<state, fails>>
           \/ item = 0 /\ Ends(slot, "behind") /\ UNCHANGED <<state, fails>>
           \/ /\ item \in Item \ Stuck /\ fails < MaxFails
              /\ Ends(slot, "failed") /\ fails' = fails + 1 /\ state' = state
        /\ UNCHANGED <<owner, later, readDue, pass, tried, attempt, stops>>

\* close: nothing starts any more, the workers are waited for.
Close ==
    /\ owner = "watch" /\ pass # "closing" /\ stops < MaxStops
    /\ pass' = "closing" /\ stops' = stops + 1
    /\ UNCHANGED <<owner, state, tasks, later, readDue, tried, attempt, fails>>

\* A mutant: the lock is released while workers end.
ClosedAtOnce ==
    /\ pass = "closing"
    /\ pass' = "none" /\ owner' = "nobody"
    /\ UNCHANGED <<state, tasks, later, readDue, tried, attempt, fails, stops>>

\* What a dispatcher knew of tasks and times goes with it.
Closed ==
    /\ pass = "closing" /\ \A slot \in Slot : ~Runs(slot)
    /\ pass' = "none" /\ owner' = "nobody"
    /\ tasks' = [slot \in Slot |-> NoTask]
    /\ later' = [i \in Item |-> 0]
    /\ readDue' = [i \in Input |-> 0]
    /\ UNCHANGED <<state, tried, attempt, fails, stops>>

-----------------------------------------------------------------------------
(* The cycle of bf update: the jobs, then the deliveries, each once. *)

CycleBegins ==
    /\ owner = "nobody"
    /\ owner' = "update"
    /\ UNCHANGED <<state, tasks, later, readDue, pass, tried, attempt, fails, stops>>

Untried(places) == {i \in Item : Place[i] \in places /\ state[i] = "queued" /\ i \notin tried}

CycleTries ==
    /\ owner = "update" /\ attempt = 0 /\ Untried(Lane \cup Channel) # {}
    /\ attempt' = IF Untried(Lane) # {} THEN Min(Untried(Lane)) ELSE Min(Untried(Channel))
    /\ tried' = tried \cup {attempt'}
    /\ UNCHANGED <<owner, state, tasks, later, readDue, pass, fails, stops>>

CycleFinishes ==
    /\ attempt # 0
    /\ \/ attempt \notin Stuck /\ state' = [state EXCEPT ![attempt] = "done"] /\ fails' = fails
       \/ attempt \in Stuck /\ UNCHANGED <<state, fails>>
       \/ attempt \notin Stuck /\ fails < MaxFails /\ fails' = fails + 1 /\ state' = state
    /\ attempt' = 0
    /\ UNCHANGED <<owner, tasks, later, readDue, pass, tried, stops>>

CycleEnds ==
    /\ owner = "update" /\ attempt = 0 /\ Untried(Lane \cup Channel) = {}
    /\ owner' = "nobody" /\ tried' = {}
    /\ UNCHANGED <<state, tasks, later, readDue, pass, attempt, fails, stops>>

-----------------------------------------------------------------------------

Dispatching == Enter \/ Harvest \/ Jobs \/ Deliveries \/ Reads \/ Closed
Cycling == CycleTries \/ CycleFinishes \/ CycleEnds

Next ==
    \/ Dispatching \/ Close \/ CycleBegins \/ Cycling
    \/ \E slot \in Slot : Finish(slot)

Spec == Init /\ [][Next]_vars

\* Watch goes on, or is started again; what is begun ends.
Fairness ==
    /\ SF_vars(Enter) /\ WF_vars(Dispatching) /\ WF_vars(Cycling)
    /\ \A slot \in Slot : WF_vars(Finish(slot))

FairSpec == Spec /\ Fairness

-----------------------------------------------------------------------------

\* No item is tried by the workers of a watch, running or closing, and by the
\* cycle of an update at once, nor by two workers.
TriedByOne ==
    /\ attempt # 0 => \A slot \in Slot : ~Runs(slot)
    /\ \A a, b \in Slot : Runs(a) /\ Runs(b) /\ tasks[a].item = tasks[b].item /\ a # b => {a, b} \subseteq Input

\* No poll lasts from one pass into the next, and none stays behind.
PollsEndInTime ==
    /\ pass = "jobs" => \A i \in Input : ~Runs(i)
    /\ \A i \in Input : tasks[i].future # "behind"

\* Items held elsewhere and failures never keep the queue from an item behind
\* them.  A read input that is never polled again has every reader taken by
\* the others, again and again; and where polls end in time and the readers
\* serve all inputs within their interval, each is polled again and again.
EveryoneIsTried ==
    /\ <>(\A i \in Item \ Stuck : state[i] = "done")
    /\ \A i \in Input :
        []<>Runs(i) \/ []<>(Cardinality({j \in Input \ {i} : tasks[j] # NoTask}) >= Readers)
    /\ Cardinality(Input) <= Readers * Every /\ <>[]PollsEndInTime => \A i \in Input : []<>Runs(i)

=============================================================================
