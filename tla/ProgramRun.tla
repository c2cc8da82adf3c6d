------------------------------ MODULE ProgramRun ------------------------------
(***************************************************************************)
(* One run of a program (collect.py: run, starting): BF starts a session,  *)
(* feeds its stdin while it reads its stdout, and ends with the program,   *)
(* its output, a timeout, a cancellation or a signal.                      *)
(*                                                                         *)
(* The program leads a session and a process group of helpers, which may   *)
(* outlive it, keep its stdout open, or take a group of their own, where   *)
(* the kill of its group does not reach them.  A pipe holds a bounded      *)
(* number of chunks; what is read from stderr feeds a log alone and is     *)
(* left out.  No process identifier is used again during a run.            *)
(***************************************************************************)
EXTENDS Integers, FiniteSets

CONSTANTS
    Helper, Leader,
    Input,       \* chunks of stdin
    Capacity,    \* chunks a pipe holds
    MaxBytes,    \* max_bytes, in chunks
    LOG,         \* _LOG, the tail kept of an output that feeds a log, in chunks
    MaxPrint, MaxSignals    \* bounds

\* What the constants must satisfy; the instances assume it.
RunAssumption ==
    /\ IsFiniteSet(Helper) /\ Leader \notin Helper
    /\ {Capacity, LOG} \subseteq Nat \ {0} /\ {Input, MaxBytes, MaxPrint, MaxSignals} \subseteq Nat

VARIABLES
    bf,          \* where run is
    child,       \* whether run knows the child it started
    deferred,    \* a signal starting() holds back
    signals,     \* signals so far
    cancelled,   \* the caller's flag
    logged,      \* a routine whose output only feeds its log
    alive,       \* the program and what it started, directly or not
    apart,       \* those that left the program's process group
    code,        \* the program's exit status once it exited
    stdin,       \* chunks: to feed, in the pipe; and whether the program reads on
    wants,       \* what the program does next, and waits for if it must
    printed,     \* chunks printed so far
    pipe,        \* those in the pipe
    holders,     \* who holds stdout open
    got,         \* chunks run read
    eof,         \* run saw the end of stdout
    drained,     \* _DRAIN seconds passed since run saw the exit
    late,        \* the timeout passed
    outcome

vars == <<bf, child, deferred, signals, cancelled, logged, alive, apart, code, stdin, wants, printed, pipe, holders, got,
          eof, drained, late, outcome>>
program == <<logged, alive, apart, code, stdin, wants, printed, pipe, holders>>
watching == <<signals, cancelled, drained, late>>

Member == Helper \cup {Leader}
Exited == code # "none"
Stdin(left, held, open) == [left |-> left, held |-> held, open |-> open]

TypeOK ==
    /\ bf \in {"prepared", "starting", "forked", "owned", "reading", "read", "cleaning", "ended"}
    /\ outcome \in {"none", "ok", "failed", "cancelled", "unstarted"}
    /\ code \in {"none", "success", "failure", "killed"}
    /\ {child, deferred, cancelled, logged, eof, drained, late, stdin.open} \subseteq BOOLEAN
    /\ wants \in {"take", "print", "exit"}
    /\ alive \subseteq Member /\ holders \subseteq Member /\ apart \subseteq Helper
    /\ stdin.left \in 0..Input /\ {stdin.held, pipe} \subseteq 0..Capacity
    /\ printed \in 0..MaxPrint /\ got \in 0..MaxPrint /\ signals \in 0..MaxSignals

Init ==
    /\ bf = "prepared" /\ outcome = "none" /\ code = "none"
    /\ child = FALSE /\ deferred = FALSE /\ cancelled = FALSE
    /\ eof = FALSE /\ drained = FALSE /\ late = FALSE
    /\ logged \in BOOLEAN
    /\ signals = 0 /\ alive = {} /\ apart = {} /\ holders = {}
    /\ stdin = Stdin(Input, 0, TRUE)
    /\ printed = 0 /\ pipe = 0 /\ got = 0
    /\ wants \in {"take", "print"}

-----------------------------------------------------------------------------
(* run. *)

Ends(why) == bf' = "cleaning" /\ outcome' = why
Goes(at) == bf' = at /\ outcome' = outcome

\* Nothing starts for a caller that cancelled already.
Prepare ==
    /\ bf = "prepared"
    /\ IF cancelled THEN Ends("unstarted") ELSE Goes("starting")
    /\ UNCHANGED <<child, deferred, program, got, eof, watching>>

\* Popen: the child exists before run can name it, or never started.
Fork ==
    /\ bf = "starting"
    /\ \/ /\ ~cancelled /\ Goes("forked")
          /\ alive' = {Leader} /\ holders' = {Leader}
       \/ Ends("unstarted") /\ UNCHANGED <<alive, holders>>
    /\ UNCHANGED <<child, deferred, logged, apart, code, stdin, wants, printed, pipe, got, eof, watching>>

Own ==
    /\ bf = "forked"
    /\ child' = TRUE /\ Goes("owned")
    /\ UNCHANGED <<deferred, program, got, eof, watching>>

\* The end of starting(): a signal held back is raised now.
Started ==
    /\ bf = "owned"
    /\ IF deferred THEN Ends("cancelled") ELSE Goes("reading")
    /\ UNCHANGED <<child, deferred, program, got, eof, watching>>

\* A mutant: a signal is raised at once.
SignalAtOnce ==
    /\ signals < MaxSignals /\ bf \in {"prepared", "starting", "forked", "owned", "reading", "read"}
    /\ signals' = signals + 1
    /\ Ends("cancelled")
    /\ UNCHANGED <<child, deferred, cancelled, program, got, eof, drained, late>>

\* The signal handlers raise KeyboardInterrupt, unless the child is starting;
\* the one that comes while run cleans up is not modelled.
Signal ==
    /\ signals < MaxSignals /\ bf \in {"prepared", "starting", "forked", "owned", "reading", "read"}
    /\ signals' = signals + 1
    /\ IF bf \in {"starting", "forked", "owned"} THEN deferred' = TRUE /\ UNCHANGED <<bf, outcome>>
       ELSE deferred' = deferred /\ Ends("cancelled")
    /\ UNCHANGED <<child, cancelled, program, got, eof, drained, late>>

\* A mutant: the program's exit ends the run, whatever its stdout still holds.
WaitsForTheExit == bf = "reading" /\ ~Exited

\* The loop goes on until the program exited and its stdout ended.
Waits == bf = "reading" /\ (~eof \/ ~Exited)

Fail ==
    /\ Waits /\ (cancelled \/ drained \/ late)
    /\ Ends("failed")
    /\ UNCHANGED <<child, deferred, program, got, eof, watching>>

Patient == Waits /\ ~cancelled /\ ~drained /\ ~late

\* A mutant: the output is read once all the input is written.
ReadAfterFeeding ==
    /\ Patient /\ pipe > 0 /\ stdin.left = 0
    /\ pipe' = pipe - 1 /\ got' = got + 1
    /\ IF ~logged /\ got' > MaxBytes THEN Ends("failed") ELSE UNCHANGED <<bf, outcome>>
    /\ UNCHANGED <<child, deferred, logged, alive, apart, code, stdin, wants, printed, holders, eof, watching>>

\* What run keeps of what it read: a rolling tail where it only feeds a log.
Kept == IF logged /\ got > LOG THEN LOG ELSE got

\* A chunk, up to max_bytes of them unless only a tail is kept.
Read ==
    /\ Patient /\ pipe > 0
    /\ pipe' = pipe - 1 /\ got' = got + 1
    /\ IF ~logged /\ got' > MaxBytes THEN Ends("failed") ELSE UNCHANGED <<bf, outcome>>
    /\ UNCHANGED <<child, deferred, logged, alive, apart, code, stdin, wants, printed, holders, eof, watching>>

Eof ==
    /\ Patient /\ pipe = 0 /\ holders = {} /\ ~eof
    /\ eof' = TRUE
    /\ UNCHANGED <<bf, child, deferred, program, got, watching, outcome>>

\* Whatever fits, beside the reading; a program that reads no more is not fed.
Feed ==
    /\ Patient /\ stdin.left > 0
    /\ IF stdin.open
       THEN stdin.held < Capacity /\ stdin' = Stdin(stdin.left - 1, stdin.held + 1, TRUE)
       ELSE stdin' = [stdin EXCEPT !.left = 0]
    /\ UNCHANGED <<bf, child, deferred, logged, alive, apart, code, wants, printed, pipe, holders, got, eof, watching, outcome>>

LoopEnds ==
    /\ bf = "reading" /\ ~Waits
    /\ Goes("read")
    /\ UNCHANGED <<child, deferred, program, got, eof, watching>>

Return ==
    /\ bf = "read"
    /\ Ends(IF code = "success" THEN "ok" ELSE "failed")
    /\ UNCHANGED <<child, deferred, program, got, eof, watching>>

\* The finally: the program and its process group end with its run, and those
\* that left the group go on.
Clean ==
    /\ bf = "cleaning"
    /\ bf' = "ended"
    /\ IF child
       THEN /\ alive' = alive \cap apart /\ holders' = holders \cap apart
            /\ code' = IF Exited THEN code ELSE "killed"
       ELSE UNCHANGED <<alive, holders, code>>
    /\ UNCHANGED <<child, deferred, logged, apart, stdin, wants, printed, pipe, got, eof, watching, outcome>>

BF == Prepare \/ Fork \/ Own \/ Started \/ Fail \/ Read \/ Eof \/ Feed \/ LoopEnds \/ Return \/ Clean

-----------------------------------------------------------------------------
(* The program and its helpers, and time. *)

Wants(n) == {"take", "exit"} \cup (IF n < MaxPrint THEN {"print"} ELSE {})

Printing(member) ==
    /\ member \in alive \cap holders /\ pipe < Capacity /\ printed < MaxPrint
    /\ printed' = printed + 1 /\ pipe' = pipe + 1
    /\ IF member = Leader THEN wants = "print" /\ wants' \in Wants(printed') ELSE wants' = wants
    /\ UNCHANGED <<bf, child, deferred, logged, alive, apart, code, stdin, holders, got, eof, watching, outcome>>

\* The program waits for input, or for its end, unless it reads no more.
Take ==
    /\ Leader \in alive /\ wants = "take"
    /\ \/ stdin.held > 0 /\ stdin' = [stdin EXCEPT !.held = @ - 1] /\ wants' \in Wants(printed)
       \/ stdin.held = 0 /\ stdin.left = 0 /\ stdin' = stdin /\ wants' \in Wants(printed) \ {"take"}
       \/ ~stdin.open /\ stdin' = stdin /\ wants' \in Wants(printed) \ {"take"}
    /\ UNCHANGED <<bf, child, deferred, logged, alive, apart, code, printed, pipe, holders, got, eof, watching, outcome>>

CloseStdin ==
    /\ Leader \in alive /\ stdin.open
    /\ stdin' = Stdin(stdin.left, 0, FALSE)
    /\ UNCHANGED <<bf, child, deferred, logged, alive, apart, code, wants, printed, pipe, holders, got, eof, watching, outcome>>

\* A helper inherits the group of who starts it, and its stdout unless that is
\* redirected.
Spawn(parent, helper) ==
    /\ parent \in alive /\ helper \notin alive
    /\ alive' = alive \cup {helper}
    /\ apart' = IF parent \in apart THEN apart \cup {helper} ELSE apart
    /\ \/ holders' = holders
       \/ parent \in holders /\ holders' = holders \cup {helper}
    /\ UNCHANGED <<bf, child, deferred, logged, code, stdin, wants, printed, pipe, got, eof, watching, outcome>>

\* A helper takes a process group, or a session, of its own.
Leave(helper) ==
    /\ helper \in alive \ apart /\ apart' = apart \cup {helper}
    /\ UNCHANGED <<bf, child, deferred, logged, alive, code, stdin, wants, printed, pipe, holders, got, eof,
                   watching, outcome>>

\* The program exits or is killed by someone else; a helper just ends.
Exit(member) ==
    /\ member \in alive
    /\ alive' = alive \ {member} /\ apart' = apart \ {member} /\ holders' = holders \ {member}
    /\ IF member = Leader
       THEN /\ code' \in {"success", "failure", "killed"}
            /\ stdin' = Stdin(stdin.left, 0, FALSE)
       ELSE UNCHANGED <<code, stdin>>
    /\ UNCHANGED <<bf, child, deferred, logged, wants, printed, pipe, got, eof, watching, outcome>>

\* What the caller and the clocks say counts until the run fails of it.
Cancel ==
    /\ bf \in {"prepared", "starting", "forked", "owned"} \/ Patient
    /\ ~cancelled /\ cancelled' = TRUE
    /\ UNCHANGED <<bf, child, deferred, signals, program, got, eof, drained, late, outcome>>

Drain ==
    /\ Patient /\ Exited /\ drained' = TRUE
    /\ UNCHANGED <<bf, child, deferred, signals, cancelled, program, got, eof, late, outcome>>

Timeout ==
    /\ Patient /\ late' = TRUE
    /\ UNCHANGED <<bf, child, deferred, signals, cancelled, program, got, eof, drained, outcome>>

-----------------------------------------------------------------------------

Next ==
    \/ BF \/ Signal \/ Take \/ CloseStdin \/ Cancel \/ Drain \/ Timeout
    \/ \E member \in Member : Printing(member) \/ Exit(member)
    \/ \E helper \in Helper : Leave(helper) \/ \E parent \in Member : Spawn(parent, helper)

Spec == Init /\ [][Next]_vars

\* BF goes on, and a second passes; not even the timeout is needed where the
\* program works towards its end.
Works ==
    \/ Take \/ Printing(Leader)
    \/ (wants = "exit" \/ (wants = "print" /\ printed = MaxPrint)) /\ Exit(Leader)

Fairness == WF_vars(BF) /\ WF_vars(Drain) /\ WF_vars(Works)

FairSpec == Spec /\ Fairness

-----------------------------------------------------------------------------

\* A run that ended, however it did, left neither its program nor another
\* member of the program's process group; only helpers that left it may go on.
GroupEnds == bf = "ended" => alive \subseteq apart

\* A run succeeds only with a program that exited with success and an output
\* that was read to its end: the whole of it within max_bytes, or the tail of
\* one that only feeds a log.
OutputIsWhole ==
    outcome = "ok" =>
        /\ code = "success" /\ got = printed
        /\ IF logged THEN Kept <= LOG /\ (printed <= LOG => Kept = printed)
           ELSE Kept = printed /\ Kept <= MaxBytes

\* A run ends, whoever fills or empties which pipe first and whoever keeps
\* stdout open.
RunEnds == <>(bf = "ended")

=============================================================================
