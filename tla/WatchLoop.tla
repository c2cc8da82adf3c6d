------------------------------ MODULE WatchLoop ------------------------------
(***************************************************************************)
(* The controller of bf watch (watch.py: Job, _stop, _loop;                *)
(* watch_settings.py: Notifications): one loop that starts an update when  *)
(* one is due, reads the configuration and the run history again, and      *)
(* alerts the owner once per failure, recovery and success.  Other         *)
(* commands and the assistants of the dispatcher write the same history    *)
(* meanwhile, and a signal may interrupt the loop anywhere.                *)
(***************************************************************************)
EXTENDS Integers, FiniteSets

CONSTANTS
    Program,
    Helper,         \* the programs that are assistants
    Failing,        \* the programs that may fail
    MaxSuccesses, MaxSignals    \* bounds

\* What the constants must satisfy; the instances assume it.
WatchAssumption ==
    Helper \cup Failing \subseteq Program /\ MaxSuccesses \in Nat /\ MaxSignals \in Nat

VARIABLES
    world,     \* what the run history says, and whether bf.yaml can be read
    update,    \* the update process: state, exit code, requests to stop
    at,        \* where the loop is
    job,       \* Job: whether it knows its process, and asked it to stop
    board,     \* the locals and the Dashboard of the loop
    alert,     \* Notifications, with what the owner was told last
    signals,   \* cancellations: how many came, and the one starting() defers
    work       \* the successes each completion must count, in the owner's terms

vars == <<world, update, at, job, board, alert, signals, work>>

Nothing == -1
Other == "update failed"
Places == {"poll", "read", "start", "spawn", "own", "keys",
           "terminate", "signal", "dispatcher", "wait", "kill", "ended"}

\* A mutant: a signal between Popen and its assignment is not deferred.
DeferredNever == {}

\* starting() covers Popen and its assignment, and all of Job.close in _stop.
Deferred == {"spawn", "own", "wait", "kill"}

None == [x \in Program |-> 0]
Counts == [Program -> 0..MaxSuccesses]

Exiting == at \in {"terminate", "signal", "dispatcher", "wait", "kill", "ended"}

NoBoard == [running |-> FALSE, completed |-> Nothing, invalid |-> FALSE, due |-> TRUE,
            refresh |-> FALSE, paused |-> FALSE, rows |-> None,
            previous |-> [x \in Program |-> Nothing]]
NoAlert == [failure |-> {}, cooling |-> FALSE, told |-> FALSE]

TypeOK ==
    /\ world \in [success : Counts, failed : SUBSET Program, valid : BOOLEAN]
    /\ update \in [state : {"none", "running", "exited"}, code : {0, 1}, asked : 0..2]
    /\ at \in Places
    /\ job \in [known : BOOLEAN, stopping : BOOLEAN]
    /\ board.running \in BOOLEAN /\ board.completed \in {Nothing, 0, 1}
    /\ \A x \in Program : board.previous[x] \in 0..MaxSuccesses \cup {Nothing}
    /\ alert.failure \subseteq Program \cup {Other}
    /\ signals \in [seen : 0..MaxSignals, pending : BOOLEAN]

Init ==
    /\ world = [success |-> None, failed |-> {}, valid |-> TRUE]
    /\ update = [state |-> "none", code |-> 0, asked |-> 0]
    /\ at = "poll"
    /\ job = [known |-> FALSE, stopping |-> FALSE]
    /\ board = [running |-> FALSE, completed |-> Nothing, invalid |-> FALSE, due |-> TRUE,
                refresh |-> FALSE, paused |-> FALSE, rows |-> None,
                previous |-> [x \in Program |-> Nothing]]
    /\ alert = [failure |-> {}, cooling |-> FALSE, told |-> FALSE]
    /\ signals = [seen |-> 0, pending |-> FALSE]
    /\ work = {}

-----------------------------------------------------------------------------
(* One pass of _loop. *)

\* job.poll: a finished update is no longer running; a failure that was not
\* reported yet stays one.
Poll ==
    /\ at = "poll"
    /\ at' = "read"
    /\ IF board.running /\ update.state = "exited"
       THEN board' = [board EXCEPT !.running = FALSE, !.due = FALSE,
                                   !.completed = IF @ = 1 THEN 1 ELSE update.code]
       ELSE UNCHANGED board
    /\ UNCHANGED <<world, update, job, alert, signals, work>>

\* A mutant: what the cooldown suppressed counts as told.
CompletedForgets(failures, worked) ==
    LET recovery == alert.failure # {} /\ failures = {}
        changed == failures # {} /\ failures # alert.failure
    IN  IF ~(changed \/ recovery \/ worked) \/ alert.cooling THEN alert' = [alert EXCEPT !.failure = failures]
        ELSE alert' = [failure |-> failures, cooling |-> TRUE,
                       told |-> IF changed THEN TRUE ELSE IF recovery THEN FALSE ELSE alert.told]

\* Notifications.completed with notifications: all.
Completed(failures, worked) ==
    LET recovery == alert.failure # {} /\ failures = {}
        changed == failures # {} /\ failures # alert.failure
    IN  IF ~(changed \/ recovery \/ worked) THEN alert' = [alert EXCEPT !.failure = failures]
        ELSE IF alert.cooling THEN UNCHANGED alert
        ELSE alert' = [failure |-> failures, cooling |-> TRUE,
                       told |-> IF changed THEN TRUE ELSE IF recovery THEN FALSE ELSE alert.told]

Failures ==
    IF world.failed # {} THEN world.failed ELSE IF board.completed = 1 THEN {Other} ELSE {}

Previous(x) == IF board.previous[x] = Nothing THEN 0 ELSE board.previous[x]
Worked == {x \in Program : world.success[x] # Previous(x)} # {}

\* A snapshot that can be read: a completion is reported, once.
Snapshot ==
    /\ at = "read"
    /\ world.valid
    /\ at' = "start"
    /\ IF board.completed = Nothing
       THEN /\ board' = [board EXCEPT !.rows = world.success, !.invalid = FALSE]
            /\ UNCHANGED <<alert, work>>
       ELSE /\ board' = [board EXCEPT !.rows = world.success, !.invalid = FALSE, !.completed = Nothing,
                                      !.previous = world.success]
            /\ Completed(Failures, Worked)
            /\ work' = {}
    /\ UNCHANGED <<world, update, job, signals>>

Unreadable ==
    /\ at = "read"
    /\ ~world.valid
    /\ at' = "start"
    /\ board' = [board EXCEPT !.invalid = TRUE]
    /\ UNCHANGED <<world, update, job, alert, signals, work>>

\* Between two reads the loop goes round without a snapshot.
NotYet ==
    /\ at = "read"
    /\ board.completed = Nothing /\ ~board.refresh
    /\ at' = "keys"
    /\ UNCHANGED <<world, update, job, board, alert, signals, work>>

Starts == ~board.invalid /\ ~board.paused /\ ~board.running /\ (board.refresh \/ board.due)

NoStart ==
    /\ at = "start"
    /\ ~Starts
    /\ at' = "keys"
    /\ board' = [board EXCEPT !.rows = None]
    /\ UNCHANGED <<world, update, job, alert, signals, work>>

\* A mutant: a collection starts from the successes of every row.
StartFromRows ==
    /\ at = "start"
    /\ Starts
    /\ board' = [board EXCEPT !.previous = board.rows, !.rows = None]
    /\ work' = {x \in work : x \in Helper /\ board.previous[x] # Nothing}
               \cup {x \in Program : world.success[x] # board.rows[x]}
    /\ job' = [job EXCEPT !.stopping = FALSE]
    /\ at' = "spawn"
    /\ UNCHANGED <<world, update, alert, signals>>

\* A collection starts from the successes of its rows; those of assistants
\* stay to be counted, once they were seen.
Start ==
    /\ at = "start"
    /\ Starts
    /\ board' = [board EXCEPT !.previous = [x \in Program |->
                    IF x \notin Helper \/ @[x] = Nothing THEN board.rows[x] ELSE @[x]],
                                !.rows = None]
    /\ work' = {x \in work : x \in Helper /\ board.previous[x] # Nothing}
               \cup {x \in Program : world.success[x] # board.rows[x]}
    /\ job' = [job EXCEPT !.stopping = FALSE]
    /\ at' = "spawn"
    /\ UNCHANGED <<world, update, alert, signals>>

\* Popen, and then the assignment of its result: under starting().
Spawn ==
    /\ at = "spawn"
    /\ at' = "own"
    /\ update' = [state |-> "running", code |-> 0, asked |-> 0]
    /\ job' = [job EXCEPT !.known = FALSE]
    /\ UNCHANGED <<world, board, alert, signals, work>>

\* An exit leaves the loop, its locals and the dashboard.
Leave == at' = "terminate" /\ board' = NoBoard /\ alert' = NoAlert /\ work' = {}

Own ==
    /\ at = "own"
    /\ job' = [job EXCEPT !.known = TRUE]
    /\ signals' = [signals EXCEPT !.pending = FALSE]
    /\ IF signals.pending THEN Leave
       ELSE /\ at' = "keys"
            /\ board' = [board EXCEPT !.refresh = FALSE, !.running = TRUE]
            /\ UNCHANGED <<alert, work>>
    /\ UNCHANGED <<world, update>>

\* The owner's keys: refresh, pause, quit.
Keys ==
    /\ at = "keys"
    /\ \/ at' = "poll" /\ UNCHANGED <<board, alert, work>>
       \/ at' = "poll" /\ board' = [board EXCEPT !.refresh = TRUE] /\ UNCHANGED <<alert, work>>
       \/ at' = "poll" /\ board' = [board EXCEPT !.paused = ~@] /\ UNCHANGED <<alert, work>>
       \/ Leave
    /\ UNCHANGED <<world, update, job, signals>>

-----------------------------------------------------------------------------
(* The exit callbacks: the update is signalled, the dispatcher stops, and   *)
(* the update is waited for at most STOP seconds, then killed.              *)

\* Job.terminate remembers its one request before it sends it.
Terminate ==
    /\ at = "terminate"
    /\ IF job.known /\ update.state = "running" /\ ~job.stopping
       THEN at' = "signal" /\ job' = [job EXCEPT !.stopping = TRUE]
       ELSE at' = "dispatcher" /\ UNCHANGED job
    /\ UNCHANGED <<world, update, board, alert, signals, work>>

Ask == update' = IF update.state = "running" THEN [update EXCEPT !.asked = @ + 1] ELSE update

Signal ==
    /\ at = "signal"
    /\ at' = "dispatcher"
    /\ Ask
    /\ UNCHANGED <<world, job, board, alert, signals, work>>

Dispatcher ==
    /\ at = "dispatcher"
    /\ at' = "wait"
    /\ UNCHANGED <<world, update, job, board, alert, signals, work>>

\* Job.close calls terminate again, for the exits that did not come from it.
Close ==
    /\ at = "wait"
    /\ IF job.known /\ update.state = "running"
       THEN /\ at' = "kill"
            /\ job' = [job EXCEPT !.stopping = TRUE]
            /\ IF job.stopping THEN UNCHANGED update ELSE Ask
       ELSE at' = "ended" /\ UNCHANGED <<update, job>>
    /\ UNCHANGED <<world, board, alert, signals, work>>

\* The update ended within STOP seconds, or it is killed now.
Kill ==
    /\ at = "kill"
    /\ at' = "ended"
    /\ update' = [update EXCEPT !.state = "exited"]
    /\ UNCHANGED <<world, job, board, alert, signals, work>>

-----------------------------------------------------------------------------
(* Everything else. *)

\* A program ends: of the update, of another command, or of the dispatcher.
RecordSuccess(x) ==
    /\ world.success[x] < MaxSuccesses
    /\ ~Exiting
    /\ world' = [world EXCEPT !.success[x] = @ + 1, !.failed = @ \ {x}]
    /\ work' = work \cup {x}
    /\ UNCHANGED <<update, at, job, board, alert, signals>>

RecordFailure(x) ==
    /\ x \in Failing \ world.failed
    /\ ~Exiting
    /\ world' = [world EXCEPT !.failed = @ \cup {x}]
    /\ UNCHANGED <<update, at, job, board, alert, signals, work>>

\* Its exit code tells that a program, or more than skipped files, failed.
UpdateExits ==
    /\ update.state = "running"
    /\ \E code \in {0, 1} : update' = [update EXCEPT !.state = "exited", !.code = code]
    /\ UNCHANGED <<world, at, job, board, alert, signals, work>>

Edit ==
    /\ ~Exiting
    /\ world' = [world EXCEPT !.valid = ~@]
    /\ UNCHANGED <<update, at, job, board, alert, signals, work>>

IntervalEnds ==
    /\ ~board.due
    /\ ~Exiting
    /\ board' = [board EXCEPT !.due = TRUE]
    /\ UNCHANGED <<world, update, at, job, alert, signals, work>>

CooldownEnds ==
    /\ alert.cooling
    /\ alert' = [alert EXCEPT !.cooling = FALSE]
    /\ UNCHANGED <<world, update, at, job, board, signals, work>>

\* Ctrl-C, SIGTERM or a hangup raises where the loop is, unless deferred; the
\* callbacks that did not run yet still run.
Interrupt ==
    /\ at # "ended"
    /\ signals.seen < MaxSignals
    /\ IF at \in Deferred
       THEN /\ signals' = [seen |-> signals.seen + 1, pending |-> TRUE]
            /\ UNCHANGED <<at, board, alert, work>>
       ELSE /\ signals' = [signals EXCEPT !.seen = @ + 1]
            /\ IF Exiting
               THEN /\ at' = IF at = "dispatcher" THEN "wait" ELSE "dispatcher"
                    /\ UNCHANGED <<board, alert, work>>
               ELSE Leave
    /\ UNCHANGED <<world, update, job>>

Pass == Poll \/ Snapshot \/ Unreadable \/ NotYet \/ NoStart \/ Start \/ Spawn \/ Own \/ Keys
Exit == Terminate \/ Signal \/ Dispatcher \/ Close \/ Kill

Next ==
    \/ Pass \/ Exit \/ Interrupt
    \/ \E x \in Program : RecordSuccess(x) \/ RecordFailure(x)
    \/ UpdateExits \/ Edit \/ IntervalEnds \/ CooldownEnds

Spec == Init /\ [][Next]_vars

\* The loop runs; programs have timeouts, so an update ends; time passes.
Fairness == WF_vars(Pass) /\ WF_vars(Exit) /\ WF_vars(UpdateExits)
            /\ WF_vars(IntervalEnds) /\ WF_vars(CooldownEnds) /\ SF_vars(Snapshot)

FairSpec == Spec /\ Fairness

-----------------------------------------------------------------------------
(* Properties. *)

\* Each success counts as work once, at the completion of an update that
\* finishes next, whichever process it is of, although snapshots fail between
\* an exit and its report and assistants end while collections run.
EachSuccessCountsOnce ==
    at = "read" /\ board.completed # Nothing => (Worked <=> work # {})

\* However signals interrupt the loop, a start or the exit: the update is asked
\* to stop at most once, and none is left running when watch ends.
StopsItsUpdate ==
    /\ update.asked <= 1
    /\ at = "ended" => update.state # "running"

\* Programs that fail for good are alerted, each set once: an alert of exactly
\* them is the last word on failures, whatever was suppressed by the cooldown
\* or arrived while bf.yaml could not be read; when all recovered, so is that.
Watching == world.valid /\ ~board.paused /\ ~Exiting

FailuresAreTold ==
    \A F \in SUBSET Program :
        <>[](world.failed = F /\ Watching)
        => \/ <>[](alert.failure = F /\ alert.told = (F # {}))
           \/ F = {} /\ []<>(update.code = 1)

=============================================================================
