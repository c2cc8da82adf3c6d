------------------------------ MODULE MCUpkeep ------------------------------
(***************************************************************************)
(* What goes on until it is settled, one component per behaviour: the      *)
(* transactions over record files (this module's own variables), with      *)
(* faults; the deliveries of a process that may die; the watch loop over   *)
(* two programs that may fail, which alerts; the dispatcher over jobs,     *)
(* deliveries and read inputs; and one run of a program.                   *)
(***************************************************************************)
EXTENDS RecordCommit, TLC

VARIABLES
    component,
    world, update, at, job, board, alert, signals, work,                       \* WatchLoop
    path, key, fd, held, state, attempts, waiting, committed, call, task, read, \* Deliveries
    error, effects, retries, kills,
    owner, items, workers, later, readDue, pass, tried, try, fails, stops,      \* Dispatcher
    bf, child, deferred, interrupts, cancelled, logged, alive, apart, code, stdin, wants, printed, pipe, holders,
    got, eof, drained, late, outcome                                           \* ProgramRun

loop == <<world, update, at, job, board, alert, signals, work>>
delivery == <<path, key, fd, held, state, attempts, waiting, committed, call, task, read,
              error, effects, retries, kills>>
dispatch == <<owner, items, workers, later, readDue, pass, tried, try, fails, stops>>
run == <<bf, child, deferred, interrupts, cancelled, logged, alive, apart, code, stdin, wants, printed, pipe, holders,
         got, eof, drained, late, outcome>>
allVars == <<component, loop, delivery, dispatch, run, vars>>

Alerting == INSTANCE WatchLoop WITH
    Program <- {"sensor", "helper"}, Helper <- {"helper"}, Failing <- {"sensor", "helper"},
    MaxSuccesses <- 0, MaxSignals <- 0

Delivering == INSTANCE Deliveries WITH
    Process <- {"one"}, Key <- {"message"}, Inode <- {1, 2}, Repeatable <- {"message"},
    Owned <- {"message"}, MaxAttempts <- 3, MaxKills <- 1, MaxRetries <- 0, pc <- call

\* A held job before another, in the lane 10; a held delivery before another,
\* of the channel 11; and two inputs, 21 and 22.
Dispatching == INSTANCE Dispatcher WITH
    Lane <- {10}, Channel <- {11}, Input <- {21, 22}, Item <- 1..4,
    Place <- 1 :> 10 @@ 2 :> 10 @@ 3 :> 11 @@ 4 :> 11,
    Stuck <- {1, 3}, BACKOFF <- 1, Every <- 2, Senders <- 2, Readers <- 1, MaxFails <- 1,
    MaxStops <- 1, state <- items, tasks <- workers, attempt <- try

Running == INSTANCE ProgramRun WITH
    Helper <- {"helper"}, Leader <- "program", Input <- 2, Capacity <- 1, MaxBytes <- 1, LOG <- 1,
    MaxPrint <- 2, MaxSignals <- 1, signals <- interrupts

ASSUME InstancesAssumption ==
    /\ Alerting!WatchAssumption
    /\ Dispatching!DispatcherAssumption
    /\ Running!RunAssumption

InitUpkeep ==
    /\ component \in {"records", "deliveries", "alerts", "dispatcher", "program"}
    /\ Init /\ Alerting!Init /\ Delivering!Init /\ Dispatching!Init /\ Running!Init
    /\ component # "records" => base = [r \in Record |-> Absent]
    /\ component # "program" => wants = "take" /\ ~logged

NextUpkeep ==
    /\ UNCHANGED component
    /\ \/ component = "records" /\ Next /\ UNCHANGED <<loop, delivery, dispatch, run>>
       \/ component = "deliveries" /\ Delivering!Next /\ UNCHANGED <<loop, dispatch, run, vars>>
       \/ component = "alerts" /\ Alerting!Next /\ UNCHANGED <<delivery, dispatch, run, vars>>
       \/ component = "dispatcher" /\ Dispatching!Next /\ UNCHANGED <<loop, delivery, run, vars>>
       \/ component = "program" /\ Running!Next /\ UNCHANGED <<loop, delivery, dispatch, vars>>

\* Each component's own fairness, while it is the one at work; where one process
\* delivers, nobody else takes its lock, and weak fairness does.
FairnessUpkeep ==
    /\ WF_vars(component = "records" /\ Writer)
    /\ WF_loop(component = "alerts" /\ Alerting!Pass)
    /\ WF_loop(component = "alerts" /\ Alerting!Exit)
    /\ WF_loop(component = "alerts" /\ Alerting!UpdateExits)
    /\ WF_loop(component = "alerts" /\ Alerting!IntervalEnds)
    /\ WF_loop(component = "alerts" /\ Alerting!CooldownEnds)
    /\ SF_loop(component = "alerts" /\ Alerting!Snapshot)
    /\ WF_delivery(component = "deliveries" /\ Delivering!Call("one"))
    /\ WF_delivery(component = "deliveries" /\ Delivering!Flock("one"))
    /\ SF_delivery(component = "deliveries" /\ Delivering!Current("one") /\ call'["one"] = "mark")
    /\ SF_delivery(component = "deliveries" /\ Delivering!Pick("one", "message"))
    /\ WF_delivery(component = "deliveries" /\ Delivering!Recover("one", "message"))
    /\ WF_delivery(component = "deliveries" /\ Delivering!BackoffElapses("message"))
    /\ SF_dispatch(component = "dispatcher" /\ Dispatching!Enter)
    /\ WF_dispatch(component = "dispatcher" /\ Dispatching!Dispatching)
    /\ WF_dispatch(component = "dispatcher" /\ Dispatching!Cycling)
    /\ \A slot \in {10, 11, 21, 22} :
          WF_dispatch(component = "dispatcher" /\ Dispatching!Finish(slot))
    /\ WF_run(component = "program" /\ Running!BF)
    /\ WF_run(component = "program" /\ Running!Drain)
    /\ WF_run(component = "program" /\ Running!Works)

SpecUpkeep == InitUpkeep /\ [][NextUpkeep]_allVars /\ FairnessUpkeep

-----------------------------------------------------------------------------
(* The properties of the components, each while its own is at work;         *)
(* OutcomeTold, ImplementsAtomicRecords and RecoveryEnds are those of       *)
(* RecordCommit.                                                            *)

\* A run of a program that ended left nobody of the program's process group, and
\* succeeded only with its whole output, or the tail that feeds a log; and no
\* dispatcher left a worker beside the cycle of an update.
RunsEndClean ==
    /\ component = "program" => Running!GroupEnds /\ Running!OutputIsWhole
    /\ component = "dispatcher" => Dispatching!TriedByOne

\* No abandoned send or backoff keeps a delivery for ever, no held item keeps the
\* dispatcher from an item behind it, an input is kept waiting for ever only by
\* others that take every reader, and a run of a program ends.
WorkResolves ==
    /\ Delivering!DeliveriesResolve
    /\ component = "dispatcher" => Dispatching!EveryoneIsTried
    /\ component = "program" => Running!RunEnds

\* The owner is told of a failure that lasts.
FailuresAreTold == component = "alerts" => Alerting!FailuresAreTold

=============================================================================
