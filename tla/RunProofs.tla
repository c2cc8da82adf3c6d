----------------------------- MODULE RunProofs -----------------------------
(***************************************************************************)
(* Proofs about what runs on one brain, for any sizes: a run of a program  *)
(* leaves nothing of its process group and succeeds only with an output    *)
(* that was read to its end (ProgramRun); nothing is tried by the workers of a watch and by the     *)
(* cycle of an update at once (Dispatcher); a wake starts one run at most, *)
(* and the newest request is never lost (Schedules); bf watch stops its    *)
(* update and counts each success once (WatchLoop); and a status report    *)
(* tells what needs attention all along, and nothing else (Health).        *)
(***************************************************************************)
EXTENDS ProgramRun, FiniteSetTheorems, TLAPS

-----------------------------------------------------------------------------
(* One run of a program: the inductive invariant.                          *)

Feeding == [left : 0..Input, held : 0..Capacity, open : BOOLEAN]

Typed ==
    /\ bf \in {"prepared", "starting", "forked", "owned", "reading", "read", "cleaning", "ended"}
    /\ outcome \in {"none", "ok", "failed", "cancelled", "unstarted"}
    /\ code \in {"none", "success", "failure", "killed"}
    /\ wants \in {"take", "print", "exit"}
    /\ alive \subseteq Member /\ holders \subseteq Member /\ apart \subseteq Helper
    /\ stdin \in Feeding
    /\ pipe \in 0..Capacity /\ printed \in 0..MaxPrint /\ got \in 0..MaxPrint
    /\ signals \in 0..MaxSignals

Flags ==
    /\ child \in BOOLEAN /\ deferred \in BOOLEAN /\ cancelled \in BOOLEAN /\ logged \in BOOLEAN
    /\ eof \in BOOLEAN /\ drained \in BOOLEAN /\ late \in BOOLEAN

\* The program's processes, and an end of its stdout, are there only once run forked it; run cleans up
\* after no child it does not know, and kills those of its group.
Session ==
    /\ bf \in {"prepared", "starting"} => alive = {} /\ holders = {} /\ code = "none" /\ ~eof
    /\ bf \in {"owned", "reading", "read"} => child
    /\ bf \in {"cleaning", "ended"} /\ ~child => alive = {}
    /\ bf = "ended" => alive \subseteq apart

\* The program holds its stdout open as long as it lives, and a helper only has
\* it from who started it: once stdout ended, nobody can open it again.
Stdout ==
    /\ Leader \in alive => Leader \in holders /\ code = "none"
    /\ eof => holders = {} /\ pipe = 0

\* No chunk is lost, and what run has of the output when it succeeds is whole.
Output ==
    /\ printed = got + pipe
    /\ bf \in {"prepared", "starting", "forked", "owned", "reading", "read"} =>
          outcome = "none" /\ (logged \/ got <= MaxBytes)
    /\ bf = "read" => eof /\ Exited
    /\ outcome = "ok" => code = "success" /\ eof /\ (logged \/ got <= MaxBytes)

IInv == Typed /\ Flags /\ Session /\ Stdout /\ Output

LEMMA Sizes ==
    ASSUME RunAssumption
    PROVE  /\ Input \in Nat /\ Capacity \in Nat /\ Capacity > 0 /\ MaxBytes \in Nat
           /\ MaxPrint \in Nat /\ MaxSignals \in Nat /\ LOG \in Nat /\ Leader \notin Helper
  BY DEF RunAssumption

LEMMA StdinSteps ==
    ASSUME RunAssumption, stdin \in Feeding
    PROVE  /\ stdin.left > 0 /\ stdin.held < Capacity => Stdin(stdin.left - 1, stdin.held + 1, TRUE) \in Feeding
           /\ [stdin EXCEPT !.left = 0] \in Feeding
           /\ stdin.held > 0 => [stdin EXCEPT !.held = @ - 1] \in Feeding
           /\ Stdin(stdin.left, 0, FALSE) \in Feeding
<1>1. PICK l \in 0..Input, h \in 0..Capacity, o \in BOOLEAN : stdin = [left |-> l, held |-> h, open |-> o]
  BY DEF Feeding
<1>2. 0 \in 0..Input /\ 0 \in 0..Capacity
  BY Sizes
<1>3. l > 0 /\ h < Capacity => l - 1 \in 0..Input /\ h + 1 \in 0..Capacity
  BY Sizes
<1>4. h > 0 => h - 1 \in 0..Capacity
  BY Sizes
<1>5. stdin.left = l /\ stdin.held = h
  BY <1>1
<1>6. [stdin EXCEPT !.left = 0] = [left |-> 0, held |-> h, open |-> o]
  BY <1>1
<1>7. [stdin EXCEPT !.held = @ - 1] = [left |-> l, held |-> h - 1, open |-> o]
  BY <1>1
<1> QED
  BY <1>2, <1>3, <1>4, <1>5, <1>6, <1>7 DEF Feeding, Stdin

-----------------------------------------------------------------------------
(* Its steps.                                                              *)

LEMMA PrepareKeeps ==
    ASSUME RunAssumption, IInv, Prepare
    PROVE  IInv'
<1>1. Typed /\ Flags /\ Session /\ Stdout /\ Output
  BY DEF IInv
<1>2. UNCHANGED <<child, deferred, eof, cancelled, drained, late>> /\ UNCHANGED <<alive, code, stdin, wants, printed, pipe, holders, got, signals>>
      /\ UNCHANGED <<logged, apart>>
  BY DEF Prepare, program, watching
<1>3. Flags'
  BY <1>1, <1>2 DEF Flags
<1>4. pipe \in Nat /\ got \in Nat /\ printed \in Nat
  BY <1>1, Sizes DEF Typed
<1> USE DEF Prepare, Ends, Goes, program, watching, Waits, Patient, Exited, Wants, Member
<1>5. Typed'
  BY <1>1, <1>2, Sizes DEF Typed
<1>6. Session'
  BY <1>1, <1>2 DEF Session, Stdout
<1>7. Stdout'
  BY <1>1, <1>2, <1>4 DEF Session, Stdout
<1>8. Output'
  BY <1>1, <1>2, <1>4, Sizes DEF Session, Stdout, Output
<1> QED
  BY <1>3, <1>5, <1>6, <1>7, <1>8 DEF IInv

LEMMA ForkKeeps ==
    ASSUME RunAssumption, IInv, Fork
    PROVE  IInv'
<1>1. Typed /\ Flags /\ Session /\ Stdout /\ Output
  BY DEF IInv
<1>2. UNCHANGED <<child, deferred, eof, cancelled, drained, late>> /\ UNCHANGED <<code, stdin, wants, printed, pipe, got, signals>>
      /\ UNCHANGED <<logged, apart>>
  BY DEF Fork, program, watching
<1>3. Flags'
  BY <1>1, <1>2 DEF Flags
<1>4. pipe \in Nat /\ got \in Nat /\ printed \in Nat
  BY <1>1, Sizes DEF Typed
<1> USE DEF Fork, Ends, Goes, program, watching, Waits, Patient, Exited, Wants, Member
<1>5. Typed'
  BY <1>1, <1>2, Sizes DEF Typed
<1>6. Session'
  BY <1>1, <1>2 DEF Session, Stdout
<1>7. Stdout'
  BY <1>1, <1>2, <1>4 DEF Session, Stdout
<1>8. Output'
  BY <1>1, <1>2, <1>4, Sizes DEF Session, Stdout, Output
<1> QED
  BY <1>3, <1>5, <1>6, <1>7, <1>8 DEF IInv

LEMMA OwnKeeps ==
    ASSUME RunAssumption, IInv, Own
    PROVE  IInv'
<1>1. Typed /\ Flags /\ Session /\ Stdout /\ Output
  BY DEF IInv
<1>2. UNCHANGED <<deferred, eof, cancelled, drained, late>> /\ UNCHANGED <<alive, code, stdin, wants, printed, pipe, holders, got, signals>>
      /\ UNCHANGED <<logged, apart>>
  BY DEF Own, program, watching
<1>3. Flags'
  BY <1>1, <1>2 DEF Flags, Own
<1>4. pipe \in Nat /\ got \in Nat /\ printed \in Nat
  BY <1>1, Sizes DEF Typed
<1> USE DEF Own, Ends, Goes, program, watching, Waits, Patient, Exited, Wants, Member
<1>5. Typed'
  BY <1>1, <1>2, Sizes DEF Typed
<1>6. Session'
  BY <1>1, <1>2 DEF Session, Stdout
<1>7. Stdout'
  BY <1>1, <1>2, <1>4 DEF Session, Stdout
<1>8. Output'
  BY <1>1, <1>2, <1>4, Sizes DEF Session, Stdout, Output
<1> QED
  BY <1>3, <1>5, <1>6, <1>7, <1>8 DEF IInv

LEMMA StartedKeeps ==
    ASSUME RunAssumption, IInv, Started
    PROVE  IInv'
<1>1. Typed /\ Flags /\ Session /\ Stdout /\ Output
  BY DEF IInv
<1>2. UNCHANGED <<child, deferred, eof, cancelled, drained, late>> /\ UNCHANGED <<alive, code, stdin, wants, printed, pipe, holders, got, signals>>
      /\ UNCHANGED <<logged, apart>>
  BY DEF Started, program, watching
<1>3. Flags'
  BY <1>1, <1>2 DEF Flags
<1>4. pipe \in Nat /\ got \in Nat /\ printed \in Nat
  BY <1>1, Sizes DEF Typed
<1> USE DEF Started, Ends, Goes, program, watching, Waits, Patient, Exited, Wants, Member
<1>5. Typed'
  BY <1>1, <1>2, Sizes DEF Typed
<1>6. Session'
  BY <1>1, <1>2 DEF Session, Stdout
<1>7. Stdout'
  BY <1>1, <1>2, <1>4 DEF Session, Stdout
<1>8. Output'
  BY <1>1, <1>2, <1>4, Sizes DEF Session, Stdout, Output
<1> QED
  BY <1>3, <1>5, <1>6, <1>7, <1>8 DEF IInv

LEMMA SignalKeeps ==
    ASSUME RunAssumption, IInv, Signal
    PROVE  IInv'
<1>1. Typed /\ Flags /\ Session /\ Stdout /\ Output
  BY DEF IInv
<1>2. UNCHANGED <<child, cancelled, eof, drained, late>> /\ UNCHANGED <<alive, code, stdin, wants, printed, pipe, holders, got>>
      /\ UNCHANGED <<logged, apart>>
  BY DEF Signal, program, watching
<1>3. Flags'
  BY <1>1, <1>2 DEF Flags, Signal
<1>4. pipe \in Nat /\ got \in Nat /\ printed \in Nat
  BY <1>1, Sizes DEF Typed
<1> USE DEF Signal, Ends, Goes, program, watching, Waits, Patient, Exited, Wants, Member
<1>5. Typed'
  BY <1>1, <1>2, Sizes DEF Typed
<1>6. Session'
  BY <1>1, <1>2 DEF Session, Stdout
<1>7. Stdout'
  BY <1>1, <1>2, <1>4 DEF Session, Stdout
<1>8. Output'
  BY <1>1, <1>2, <1>4, Sizes DEF Session, Stdout, Output
<1> QED
  BY <1>3, <1>5, <1>6, <1>7, <1>8 DEF IInv

LEMMA FailKeeps ==
    ASSUME RunAssumption, IInv, Fail
    PROVE  IInv'
<1>1. Typed /\ Flags /\ Session /\ Stdout /\ Output
  BY DEF IInv
<1>2. UNCHANGED <<child, deferred, eof, cancelled, drained, late>> /\ UNCHANGED <<alive, code, stdin, wants, printed, pipe, holders, got, signals>>
      /\ UNCHANGED <<logged, apart>>
  BY DEF Fail, program, watching
<1>3. Flags'
  BY <1>1, <1>2 DEF Flags
<1>4. pipe \in Nat /\ got \in Nat /\ printed \in Nat
  BY <1>1, Sizes DEF Typed
<1> USE DEF Fail, Ends, Goes, program, watching, Waits, Patient, Exited, Wants, Member
<1>5. Typed'
  BY <1>1, <1>2, Sizes DEF Typed
<1>6. Session'
  BY <1>1, <1>2 DEF Session, Stdout
<1>7. Stdout'
  BY <1>1, <1>2, <1>4 DEF Session, Stdout
<1>8. Output'
  BY <1>1, <1>2, <1>4, Sizes DEF Session, Stdout, Output
<1> QED
  BY <1>3, <1>5, <1>6, <1>7, <1>8 DEF IInv

LEMMA ReadKeeps ==
    ASSUME RunAssumption, IInv, Read
    PROVE  IInv'
<1>1. Typed /\ Flags /\ Session /\ Stdout /\ Output
  BY DEF IInv
<1>2. UNCHANGED <<child, deferred, eof, cancelled, drained, late>> /\ UNCHANGED <<alive, code, stdin, wants, printed, holders, signals>>
      /\ UNCHANGED <<logged, apart>>
  BY DEF Read, program, watching
<1>3. Flags'
  BY <1>1, <1>2 DEF Flags
<1>4. pipe \in Nat /\ got \in Nat /\ printed \in Nat
  BY <1>1, Sizes DEF Typed
<1> USE DEF Read, Ends, Goes, program, watching, Waits, Patient, Exited, Wants, Member
<1>5. Typed'
  <2>1. got + 1 <= MaxPrint /\ pipe - 1 \in 0..Capacity
    BY <1>1, <1>4, Sizes DEF Typed, Output
  <2>2. got' \in 0..MaxPrint /\ pipe' \in 0..Capacity
    BY <2>1, <1>4, Sizes
  <2>3. bf' \in {"reading", "cleaning"} /\ outcome' \in {"none", "failed"}
    BY <1>1 DEF Output
  <2> QED  BY <1>1, <1>2, <2>2, <2>3 DEF Typed
<1>6. Session'
  BY <1>1, <1>2 DEF Session, Stdout
<1>7. Stdout'
  BY <1>1, <1>2, <1>4 DEF Session, Stdout
<1>8. Output'
  BY <1>1, <1>2, <1>4, Sizes DEF Session, Stdout, Output
<1> QED
  BY <1>3, <1>5, <1>6, <1>7, <1>8 DEF IInv

LEMMA EofKeeps ==
    ASSUME RunAssumption, IInv, Eof
    PROVE  IInv'
<1>1. Typed /\ Flags /\ Session /\ Stdout /\ Output
  BY DEF IInv
<1>2. UNCHANGED <<child, deferred, cancelled, drained, late>> /\ UNCHANGED <<bf, alive, code, stdin, wants, printed, pipe, holders, got, signals, outcome>>
      /\ UNCHANGED <<logged, apart>>
  BY DEF Eof, program, watching
<1>3. Flags'
  BY <1>1, <1>2 DEF Flags, Eof
<1>4. pipe \in Nat /\ got \in Nat /\ printed \in Nat
  BY <1>1, Sizes DEF Typed
<1> USE DEF Eof, Ends, Goes, program, watching, Waits, Patient, Exited, Wants, Member
<1>5. Typed'
  BY <1>1, <1>2, Sizes DEF Typed
<1>6. Session'
  BY <1>1, <1>2 DEF Session, Stdout
<1>7. Stdout'
  BY <1>1, <1>2, <1>4 DEF Session, Stdout
<1>8. Output'
  BY <1>1, <1>2, <1>4, Sizes DEF Session, Stdout, Output
<1> QED
  BY <1>3, <1>5, <1>6, <1>7, <1>8 DEF IInv

LEMMA FeedKeeps ==
    ASSUME RunAssumption, IInv, Feed
    PROVE  IInv'
<1>1. Typed /\ Flags /\ Session /\ Stdout /\ Output
  BY DEF IInv
<1>2. UNCHANGED <<child, deferred, eof, cancelled, drained, late>> /\ UNCHANGED <<bf, alive, code, wants, printed, pipe, holders, got, signals, outcome>>
      /\ UNCHANGED <<logged, apart>>
  BY DEF Feed, program, watching
<1>3. Flags'
  BY <1>1, <1>2 DEF Flags
<1>4. pipe \in Nat /\ got \in Nat /\ printed \in Nat
  BY <1>1, Sizes DEF Typed
<1> USE DEF Feed, Ends, Goes, program, watching, Waits, Patient, Exited, Wants, Member
<1>5. Typed'
  <2>1. stdin \in Feeding
    BY <1>1 DEF Typed
  <2>2. stdin' \in Feeding
    BY <2>1, StdinSteps
  <2> QED  BY <1>1, <1>2, <2>2, Sizes DEF Typed
<1>6. Session'
  BY <1>1, <1>2 DEF Session, Stdout
<1>7. Stdout'
  BY <1>1, <1>2, <1>4 DEF Session, Stdout
<1>8. Output'
  BY <1>1, <1>2, <1>4, Sizes DEF Session, Stdout, Output
<1> QED
  BY <1>3, <1>5, <1>6, <1>7, <1>8 DEF IInv

LEMMA LoopEndsKeeps ==
    ASSUME RunAssumption, IInv, LoopEnds
    PROVE  IInv'
<1>1. Typed /\ Flags /\ Session /\ Stdout /\ Output
  BY DEF IInv
<1>2. UNCHANGED <<child, deferred, eof, cancelled, drained, late>> /\ UNCHANGED <<alive, code, stdin, wants, printed, pipe, holders, got, signals>>
      /\ UNCHANGED <<logged, apart>>
  BY DEF LoopEnds, program, watching
<1>3. Flags'
  BY <1>1, <1>2 DEF Flags
<1>4. pipe \in Nat /\ got \in Nat /\ printed \in Nat
  BY <1>1, Sizes DEF Typed
<1> USE DEF LoopEnds, Ends, Goes, program, watching, Waits, Patient, Exited, Wants, Member
<1>5. Typed'
  BY <1>1, <1>2, Sizes DEF Typed
<1>6. Session'
  BY <1>1, <1>2 DEF Session, Stdout
<1>7. Stdout'
  BY <1>1, <1>2, <1>4 DEF Session, Stdout
<1>8. Output'
  BY <1>1, <1>2, <1>4, Sizes DEF Session, Stdout, Output
<1> QED
  BY <1>3, <1>5, <1>6, <1>7, <1>8 DEF IInv

LEMMA ReturnKeeps ==
    ASSUME RunAssumption, IInv, Return
    PROVE  IInv'
<1>1. Typed /\ Flags /\ Session /\ Stdout /\ Output
  BY DEF IInv
<1>2. UNCHANGED <<child, deferred, eof, cancelled, drained, late>> /\ UNCHANGED <<alive, code, stdin, wants, printed, pipe, holders, got, signals>>
      /\ UNCHANGED <<logged, apart>>
  BY DEF Return, program, watching
<1>3. Flags'
  BY <1>1, <1>2 DEF Flags
<1>4. pipe \in Nat /\ got \in Nat /\ printed \in Nat
  BY <1>1, Sizes DEF Typed
<1> USE DEF Return, Ends, Goes, program, watching, Waits, Patient, Exited, Wants, Member
<1>5. Typed'
  BY <1>1, <1>2, Sizes DEF Typed
<1>6. Session'
  BY <1>1, <1>2 DEF Session, Stdout
<1>7. Stdout'
  BY <1>1, <1>2, <1>4 DEF Session, Stdout
<1>8. Output'
  BY <1>1, <1>2, <1>4, Sizes DEF Session, Stdout, Output
<1> QED
  BY <1>3, <1>5, <1>6, <1>7, <1>8 DEF IInv

LEMMA CleanKeeps ==
    ASSUME RunAssumption, IInv, Clean
    PROVE  IInv'
<1>1. Typed /\ Flags /\ Session /\ Stdout /\ Output
  BY DEF IInv
<1>2. UNCHANGED <<child, deferred, eof, cancelled, drained, late>> /\ UNCHANGED <<stdin, wants, printed, pipe, got, signals, outcome>>
      /\ UNCHANGED <<logged, apart>>
  BY DEF Clean, program, watching
<1>3. Flags'
  BY <1>1, <1>2 DEF Flags
<1>4. pipe \in Nat /\ got \in Nat /\ printed \in Nat
  BY <1>1, Sizes DEF Typed
<1> USE DEF Clean, Ends, Goes, program, watching, Waits, Patient, Exited, Wants, Member
<1>5. Typed'
  BY <1>1, <1>2, Sizes DEF Typed
<1>6. Session'
  BY <1>1, <1>2 DEF Session, Stdout
<1>7. Stdout'
  <2>1. Leader \notin apart
    BY <1>1, Sizes DEF Typed
  <2> QED  BY <1>1, <1>2, <2>1 DEF Session, Stdout
<1>8. Output'
  BY <1>1, <1>2, <1>4, Sizes DEF Session, Stdout, Output
<1> QED
  BY <1>3, <1>5, <1>6, <1>7, <1>8 DEF IInv

LEMMA TakeKeeps ==
    ASSUME RunAssumption, IInv, Take
    PROVE  IInv'
<1>1. Typed /\ Flags /\ Session /\ Stdout /\ Output
  BY DEF IInv
<1>2. UNCHANGED <<child, deferred, eof, cancelled, drained, late>> /\ UNCHANGED <<bf, alive, code, printed, pipe, holders, got, signals, outcome>>
      /\ UNCHANGED <<logged, apart>>
  BY DEF Take, program, watching
<1>3. Flags'
  BY <1>1, <1>2 DEF Flags
<1>4. pipe \in Nat /\ got \in Nat /\ printed \in Nat
  BY <1>1, Sizes DEF Typed
<1> USE DEF Take, Ends, Goes, program, watching, Waits, Patient, Exited, Wants, Member
<1>5. Typed'
  <2>1. stdin \in Feeding
    BY <1>1 DEF Typed
  <2>2. stdin' \in Feeding
    BY <2>1, StdinSteps
  <2> QED  BY <1>1, <1>2, <2>2, Sizes DEF Typed
<1>6. Session'
  BY <1>1, <1>2 DEF Session, Stdout
<1>7. Stdout'
  BY <1>1, <1>2, <1>4 DEF Session, Stdout
<1>8. Output'
  BY <1>1, <1>2, <1>4, Sizes DEF Session, Stdout, Output
<1> QED
  BY <1>3, <1>5, <1>6, <1>7, <1>8 DEF IInv

LEMMA CloseStdinKeeps ==
    ASSUME RunAssumption, IInv, CloseStdin
    PROVE  IInv'
<1>1. Typed /\ Flags /\ Session /\ Stdout /\ Output
  BY DEF IInv
<1>2. UNCHANGED <<child, deferred, eof, cancelled, drained, late>> /\ UNCHANGED <<bf, alive, code, wants, printed, pipe, holders, got, signals, outcome>>
      /\ UNCHANGED <<logged, apart>>
  BY DEF CloseStdin, program, watching
<1>3. Flags'
  BY <1>1, <1>2 DEF Flags
<1>4. pipe \in Nat /\ got \in Nat /\ printed \in Nat
  BY <1>1, Sizes DEF Typed
<1> USE DEF CloseStdin, Ends, Goes, program, watching, Waits, Patient, Exited, Wants, Member
<1>5. Typed'
  <2>1. stdin \in Feeding
    BY <1>1 DEF Typed
  <2>2. stdin' \in Feeding
    BY <2>1, StdinSteps
  <2> QED  BY <1>1, <1>2, <2>2, Sizes DEF Typed
<1>6. Session'
  BY <1>1, <1>2 DEF Session, Stdout
<1>7. Stdout'
  BY <1>1, <1>2, <1>4 DEF Session, Stdout
<1>8. Output'
  BY <1>1, <1>2, <1>4, Sizes DEF Session, Stdout, Output
<1> QED
  BY <1>3, <1>5, <1>6, <1>7, <1>8 DEF IInv

LEMMA CancelKeeps ==
    ASSUME RunAssumption, IInv, Cancel
    PROVE  IInv'
<1>1. Typed /\ Flags /\ Session /\ Stdout /\ Output
  BY DEF IInv
<1>2. UNCHANGED <<child, deferred, eof, drained, late>> /\ UNCHANGED <<bf, signals, alive, code, stdin, wants, printed, pipe, holders, got, outcome>>
      /\ UNCHANGED <<logged, apart>>
  BY DEF Cancel, program, watching
<1>3. Flags'
  BY <1>1, <1>2 DEF Flags, Cancel
<1>4. pipe \in Nat /\ got \in Nat /\ printed \in Nat
  BY <1>1, Sizes DEF Typed
<1> USE DEF Cancel, Ends, Goes, program, watching, Waits, Patient, Exited, Wants, Member
<1>5. Typed'
  BY <1>1, <1>2, Sizes DEF Typed
<1>6. Session'
  BY <1>1, <1>2 DEF Session, Stdout
<1>7. Stdout'
  BY <1>1, <1>2, <1>4 DEF Session, Stdout
<1>8. Output'
  BY <1>1, <1>2, <1>4, Sizes DEF Session, Stdout, Output
<1> QED
  BY <1>3, <1>5, <1>6, <1>7, <1>8 DEF IInv

LEMMA DrainKeeps ==
    ASSUME RunAssumption, IInv, Drain
    PROVE  IInv'
<1>1. Typed /\ Flags /\ Session /\ Stdout /\ Output
  BY DEF IInv
<1>2. UNCHANGED <<child, deferred, cancelled, eof, late>> /\ UNCHANGED <<bf, signals, alive, code, stdin, wants, printed, pipe, holders, got, outcome>>
      /\ UNCHANGED <<logged, apart>>
  BY DEF Drain, program, watching
<1>3. Flags'
  BY <1>1, <1>2 DEF Flags, Drain
<1>4. pipe \in Nat /\ got \in Nat /\ printed \in Nat
  BY <1>1, Sizes DEF Typed
<1> USE DEF Drain, Ends, Goes, program, watching, Waits, Patient, Exited, Wants, Member
<1>5. Typed'
  BY <1>1, <1>2, Sizes DEF Typed
<1>6. Session'
  BY <1>1, <1>2 DEF Session, Stdout
<1>7. Stdout'
  BY <1>1, <1>2, <1>4 DEF Session, Stdout
<1>8. Output'
  BY <1>1, <1>2, <1>4, Sizes DEF Session, Stdout, Output
<1> QED
  BY <1>3, <1>5, <1>6, <1>7, <1>8 DEF IInv

LEMMA TimeoutKeeps ==
    ASSUME RunAssumption, IInv, Timeout
    PROVE  IInv'
<1>1. Typed /\ Flags /\ Session /\ Stdout /\ Output
  BY DEF IInv
<1>2. UNCHANGED <<child, deferred, cancelled, eof, drained>> /\ UNCHANGED <<bf, signals, alive, code, stdin, wants, printed, pipe, holders, got, outcome>>
      /\ UNCHANGED <<logged, apart>>
  BY DEF Timeout, program, watching
<1>3. Flags'
  BY <1>1, <1>2 DEF Flags, Timeout
<1>4. pipe \in Nat /\ got \in Nat /\ printed \in Nat
  BY <1>1, Sizes DEF Typed
<1> USE DEF Timeout, Ends, Goes, program, watching, Waits, Patient, Exited, Wants, Member
<1>5. Typed'
  BY <1>1, <1>2, Sizes DEF Typed
<1>6. Session'
  BY <1>1, <1>2 DEF Session, Stdout
<1>7. Stdout'
  BY <1>1, <1>2, <1>4 DEF Session, Stdout
<1>8. Output'
  BY <1>1, <1>2, <1>4, Sizes DEF Session, Stdout, Output
<1> QED
  BY <1>3, <1>5, <1>6, <1>7, <1>8 DEF IInv

LEMMA PrintingKeeps ==
    ASSUME RunAssumption, IInv, NEW member \in Member, Printing(member)
    PROVE  IInv'
<1>1. Typed /\ Flags /\ Session /\ Stdout /\ Output
  BY DEF IInv
<1>2. UNCHANGED <<child, deferred, eof, cancelled, drained, late>> /\ UNCHANGED <<bf, alive, code, stdin, holders, got, signals, outcome>>
      /\ UNCHANGED <<logged, apart>>
  BY DEF Printing, program, watching
<1>3. Flags'
  BY <1>1, <1>2 DEF Flags
<1>4. pipe \in Nat /\ got \in Nat /\ printed \in Nat
  BY <1>1, Sizes DEF Typed
<1> USE DEF Printing, Ends, Goes, program, watching, Waits, Patient, Exited, Wants, Member
<1>5. Typed'
  BY <1>1, <1>2, Sizes DEF Typed
<1>6. Session'
  BY <1>1, <1>2 DEF Session, Stdout
<1>7. Stdout'
  BY <1>1, <1>2, <1>4 DEF Session, Stdout
<1>8. Output'
  BY <1>1, <1>2, <1>4, Sizes DEF Session, Stdout, Output
<1> QED
  BY <1>3, <1>5, <1>6, <1>7, <1>8 DEF IInv

LEMMA ExitKeeps ==
    ASSUME RunAssumption, IInv, NEW member \in Member, Exit(member)
    PROVE  IInv'
<1>1. Typed /\ Flags /\ Session /\ Stdout /\ Output
  BY DEF IInv
<1>2. UNCHANGED <<child, deferred, eof, cancelled, drained, late>> /\ UNCHANGED <<bf, wants, printed, pipe, got, signals, outcome>>
      /\ UNCHANGED logged
  BY DEF Exit, program, watching
<1>3. Flags'
  BY <1>1, <1>2 DEF Flags
<1>4. pipe \in Nat /\ got \in Nat /\ printed \in Nat
  BY <1>1, Sizes DEF Typed
<1> USE DEF Exit, Ends, Goes, program, watching, Waits, Patient, Exited, Wants, Member
<1>5. Typed'
  <2>1. stdin \in Feeding
    BY <1>1 DEF Typed
  <2>2. stdin' \in Feeding
    BY <2>1, StdinSteps
  <2> QED  BY <1>1, <1>2, <2>2, Sizes DEF Typed
<1>6. Session'
  BY <1>1, <1>2 DEF Session, Stdout
<1>7. Stdout'
  <2>1. CASE member = Leader
    BY <1>1, <1>2, <2>1 DEF Stdout
  <2>2. CASE member # Leader
    <3>1. code' = code
      BY <2>2
    <3> QED  BY <1>1, <1>2, <2>2, <3>1 DEF Stdout
  <2> QED  BY <2>1, <2>2
<1>8. Output'
  <2>1. CASE member = Leader
    <3>1. code = "none" /\ outcome # "ok" /\ code' # "none"
      BY <1>1, <2>1 DEF Stdout, Output
    <3> QED  BY <1>1, <1>2, <3>1 DEF Output
  <2>2. CASE member # Leader
    <3>1. code' = code
      BY <2>2
    <3> QED  BY <1>1, <1>2, <3>1 DEF Output
  <2> QED  BY <2>1, <2>2
<1> QED
  BY <1>3, <1>5, <1>6, <1>7, <1>8 DEF IInv

LEMMA SpawnKeeps ==
    ASSUME RunAssumption, IInv, NEW parent \in Member, NEW helper \in Helper, Spawn(parent, helper)
    PROVE  IInv'
<1>1. Typed /\ Flags /\ Session /\ Stdout /\ Output
  BY DEF IInv
<1>2. UNCHANGED <<child, deferred, eof, cancelled, drained, late>> /\ UNCHANGED <<bf, code, stdin, wants, printed, pipe, got, signals, outcome>>
      /\ UNCHANGED logged
  BY DEF Spawn, program, watching
<1>3. Flags'
  BY <1>1, <1>2 DEF Flags
<1>4. pipe \in Nat /\ got \in Nat /\ printed \in Nat
  BY <1>1, Sizes DEF Typed
<1> USE DEF Spawn, Ends, Goes, program, watching, Waits, Patient, Exited, Wants, Member
<1>5. Typed'
  BY <1>1, <1>2, Sizes DEF Typed
<1>6. Session'
  BY <1>1, <1>2 DEF Session, Stdout
<1>7. Stdout'
  <2>1. helper # Leader
    BY Sizes
  <2> QED  BY <1>1, <1>2, <2>1 DEF Session, Stdout
<1>8. Output'
  BY <1>1, <1>2, <1>4, Sizes DEF Session, Stdout, Output
<1> QED
  BY <1>3, <1>5, <1>6, <1>7, <1>8 DEF IInv

LEMMA LeaveKeeps ==
    ASSUME RunAssumption, IInv, NEW helper \in Helper, Leave(helper)
    PROVE  IInv'
<1>1. Typed /\ Flags /\ Session /\ Stdout /\ Output
  BY DEF IInv
<1>2. UNCHANGED <<child, deferred, eof, cancelled, drained, late>> /\ UNCHANGED <<bf, alive, holders, code, stdin, wants, printed, pipe, got, signals, outcome>>
      /\ UNCHANGED logged
  BY DEF Leave, program, watching
<1>3. Flags'
  BY <1>1, <1>2 DEF Flags
<1>4. pipe \in Nat /\ got \in Nat /\ printed \in Nat
  BY <1>1, Sizes DEF Typed
<1> USE DEF Leave, Ends, Goes, program, watching, Waits, Patient, Exited, Wants, Member
<1>5. Typed'
  BY <1>1, <1>2, Sizes DEF Typed
<1>6. Session'
  BY <1>1, <1>2 DEF Session, Stdout
<1>7. Stdout'
  BY <1>1, <1>2, <1>4 DEF Session, Stdout
<1>8. Output'
  BY <1>1, <1>2, <1>4, Sizes DEF Session, Stdout, Output
<1> QED
  BY <1>3, <1>5, <1>6, <1>7, <1>8 DEF IInv

LEMMA RunStarts ==
    ASSUME RunAssumption, Init
    PROVE  IInv
<1>1. Flags
  BY DEF Init, Flags
<1>2. Typed
  BY Sizes DEF Init, Typed, Feeding, Stdin
<1>3. Session /\ Stdout
  BY DEF Init, Session, Stdout
<1>4. Output
  BY Sizes DEF Init, Output
<1> QED
  BY <1>1, <1>2, <1>3, <1>4 DEF IInv

LEMMA RunSteps ==
    ASSUME RunAssumption, IInv, [Next]_vars
    PROVE  IInv'
<1>1. CASE UNCHANGED vars
  <2>1. /\ UNCHANGED <<bf, outcome, code, alive, apart, holders, stdin, wants, printed, pipe, got, signals>>
        /\ UNCHANGED <<child, deferred, cancelled, logged, eof, drained, late>>
    BY <1>1 DEF vars
  <2>2. Typed' /\ Flags'
    BY <2>1 DEF IInv, Typed, Flags
  <2>3. Session' /\ Stdout'
    BY <2>1 DEF IInv, Session, Stdout
  <2>4. Output'
    BY <2>1 DEF IInv, Output, Exited
  <2> QED  BY <2>2, <2>3, <2>4 DEF IInv
<1> QED
  BY <1>1, PrepareKeeps, ForkKeeps, OwnKeeps, StartedKeeps, SignalKeeps, FailKeeps, ReadKeeps,
     EofKeeps, FeedKeeps, LoopEndsKeeps, ReturnKeeps, CleanKeeps, TakeKeeps, CloseStdinKeeps,
     CancelKeeps, DrainKeeps, TimeoutKeeps, PrintingKeeps, ExitKeeps, SpawnKeeps,
     LeaveKeeps
  DEF Next, BF

\* The invariant of a run holds throughout.
THEOREM RunInvariance ==
    ASSUME RunAssumption
    PROVE  Spec => []IInv
<1>1. Init => IInv
  BY RunStarts
<1>2. IInv /\ [Next]_vars => IInv'
  BY RunSteps
<1> QED
  BY <1>1, <1>2, PTL DEF Spec

\* A run that ended, however it did, left neither its program nor another member
\* of the program's process group (run of collect.py): also when a signal came
\* while it forked.  A helper that took a group of its own may go on.
THEOREM GroupsEnd ==
    ASSUME RunAssumption
    PROVE  Spec => []GroupEnds
<1>1. IInv => GroupEnds
  BY DEF IInv, Session, GroupEnds
<1> QED
  BY <1>1, RunInvariance, PTL

\* A run succeeds only with a program that exited with success and an output
\* that was read to its end: the whole of it within max_bytes, or the tail of
\* one that only feeds a log.
THEOREM OutputsAreWhole ==
    ASSUME RunAssumption
    PROVE  Spec => []OutputIsWhole
<1>1. IInv => OutputIsWhole
  <2> SUFFICES ASSUME IInv, outcome = "ok"
               PROVE  /\ code = "success" /\ got = printed
                      /\ IF logged THEN Kept <= LOG /\ (printed <= LOG => Kept = printed)
                         ELSE Kept = printed /\ Kept <= MaxBytes
    BY DEF OutputIsWhole
  <2>1. code = "success" /\ pipe = 0 /\ printed = got + pipe /\ (logged \/ got <= MaxBytes)
    BY DEF IInv, Stdout, Output
  <2>2. got \in Nat /\ LOG \in Nat
    BY Sizes DEF IInv, Typed
  <2> QED  BY <2>1, <2>2 DEF Kept
<1> QED
  BY <1>1, RunInvariance, PTL

-----------------------------------------------------------------------------
(* Who tries what: the dispatcher of bf watch and the cycle of bf update.  *)

CONSTANTS Lane, Channel, ReadInput, Item, Place, Stuck, BACKOFF, Every, Senders, Readers, MaxFails, MaxStops

VARIABLES owner, state, tasks, later, readDue, pass, tried, attempt, fails, stops

Dispatching == INSTANCE Dispatcher WITH Input <- ReadInput

\* What the next pass offers first is one of the set: numbers are well ordered.
LEMMA LeastItem ==
    ASSUME NEW S \in SUBSET Nat, S # {}
    PROVE  Dispatching!Min(S) \in S
<1> DEFINE T == {0..n : n \in S}
<1>1. T \subseteq FiniteSubsetsOf(Nat) /\ T # {}
  <2>1. ASSUME NEW n \in S
        PROVE  IsFiniteSet(0..n) /\ 0..n \subseteq Nat
    BY FS_Interval
  <2> QED  BY <2>1 DEF FiniteSubsetsOf
<1>2. PICK x \in T : \A y \in T : <<y, x>> \notin StrictSubsetOrdering(Nat)
  <2> HIDE DEF T
  <2>1. IsWellFoundedOn(StrictSubsetOrdering(Nat), FiniteSubsetsOf(Nat))
    BY FS_StrictSubsetOrderingWellFounded
  <2> QED  BY ONLY <1>1, <2>1, WFMin
<1>3. PICK m \in S : x = 0..m
  OBVIOUS
<1>4. ASSUME NEW n \in S
      PROVE  m <= n
  <2>1. 0..n \in T
    OBVIOUS
  <2>2. ~(0..n \subseteq 0..m /\ 0..n # 0..m)
    <3>1. <<0..n, 0..m>> \notin StrictSubsetOrdering(Nat)
      BY <1>2, <1>3, <2>1
    <3>2. ASSUME NEW a \in SUBSET Nat, NEW b \in SUBSET Nat, a \subseteq b, a # b
          PROVE  <<a, b>> \in StrictSubsetOrdering(Nat)
      BY <3>2 DEF StrictSubsetOrdering
    <3> HIDE DEF T
    <3>3. 0..n \in SUBSET Nat /\ 0..m \in SUBSET Nat
      OBVIOUS
    <3> QED  BY ONLY <3>1, <3>2, <3>3
  <2>3. n < m => 0..n \subseteq 0..m /\ m \in 0..m /\ m \notin 0..n
    OBVIOUS
  <2> QED  BY <2>2, <2>3
<1> QED
  BY <1>4 DEF Dispatching!Min

Tasks ==
    /\ owner \in {"nobody", "watch", "update"}
    /\ pass \in {"none", "harvest", "jobs", "deliveries", "reads", "closing"}
    /\ attempt \in Item \cup {0}
    /\ tasks \in [Dispatching!Slot -> [item : Item \cup {0}, future : {"none", "runs", "fine", "failed", "behind"}]]

\* Workers are there only in a watch that is not closed, and the cycle tries
\* something only as the owner of .dispatch.
Owners ==
    /\ pass # "none" => owner = "watch"
    /\ owner = "watch" => pass # "none"
    /\ attempt # 0 => owner = "update"
    /\ \A slot \in Dispatching!Slot : Dispatching!Runs(slot) => pass # "none"

\* A lane or a channel tries what is its own, and only a reader tries no item.
Places ==
    \A slot \in Dispatching!Slot :
        /\ tasks[slot].item # 0 => Place[tasks[slot].item] = slot
        /\ Dispatching!Runs(slot) /\ tasks[slot].item = 0 => slot \in ReadInput

Watching == Tasks /\ Owners /\ Places
LEMMA DispatcherStarts ==
    ASSUME Dispatching!DispatcherAssumption, Dispatching!Init
    PROVE  Watching
<1> USE DEF Dispatching!Init
<1>1. Tasks
  BY DEF Tasks, Dispatching!NoTask, Dispatching!Task
<1>2. Owners
  BY DEF Owners, Dispatching!Runs, Dispatching!NoTask, Dispatching!Task
<1>3. Places
  BY DEF Places, Dispatching!Runs, Dispatching!NoTask, Dispatching!Task
<1> QED
  BY <1>1, <1>2, <1>3 DEF Watching

\* A pass fills free slots, each with what is its own.
LEMMA PassKeeps ==
    ASSUME Watching, NEW Picked \in SUBSET Dispatching!Slot, NEW f \in [Picked -> Item \cup {0}],
           \A slot \in Picked : f[slot] # 0 => Place[f[slot]] = slot,
           \A slot \in Picked : f[slot] = 0 => slot \in ReadInput,
           tasks' = [slot \in Dispatching!Slot |->
                        IF slot \in Picked THEN Dispatching!Task(f[slot], "runs") ELSE tasks[slot]],
           pass \notin {"none", "closing"}, pass' \in {"harvest", "jobs", "deliveries", "reads"},
           UNCHANGED <<owner, attempt>>
    PROVE  Watching'
<1> USE DEF Dispatching!Task
<1>1. Tasks'
  BY DEF Watching, Tasks
<1>2. Owners'
  BY DEF Watching, Owners
<1>3. Places'
  <2> SUFFICES ASSUME NEW slot \in Dispatching!Slot
               PROVE  /\ tasks'[slot].item # 0 => Place[tasks'[slot].item] = slot
                      /\ tasks'[slot].future = "runs" /\ tasks'[slot].item = 0 => slot \in ReadInput
    BY DEF Places, Dispatching!Runs
  <2> QED  BY DEF Watching, Places, Dispatching!Runs
<1> QED
  BY <1>1, <1>2, <1>3 DEF Watching

LEMMA DispatcherSteps ==
    ASSUME Dispatching!DispatcherAssumption, Watching, [Dispatching!Next]_(Dispatching!vars)
    PROVE  Watching'
<1>0. Item \subseteq Nat \ {0}
  BY DEF Dispatching!DispatcherAssumption
<1>1. CASE UNCHANGED Dispatching!vars
  BY <1>1 DEF Watching, Tasks, Owners, Places, Dispatching!vars, Dispatching!Runs
<1>2. CASE Dispatching!Enter
  <2>1. owner' = "watch" /\ pass' = "harvest" /\ owner = "nobody" /\ UNCHANGED <<tasks, attempt>>
    BY <1>2 DEF Dispatching!Enter
  <2> QED  BY <2>1 DEF Watching, Tasks, Owners, Places, Dispatching!Runs
<1>3. CASE Dispatching!Harvest
  <2>1. /\ tasks' = [slot \in Dispatching!Slot |-> IF Dispatching!Done(slot) THEN Dispatching!NoTask ELSE tasks[slot]]
        /\ pass = "harvest" /\ pass' = "jobs" /\ UNCHANGED <<owner, attempt>>
    BY <1>3 DEF Dispatching!Harvest
  <2>2. Tasks'
    BY <2>1 DEF Watching, Tasks, Dispatching!NoTask, Dispatching!Task
  <2>3. Owners'
    BY <2>1 DEF Watching, Owners
  <2>4. Places'
    BY <2>1 DEF Watching, Places, Dispatching!Runs, Dispatching!NoTask, Dispatching!Task
  <2> QED  BY <2>2, <2>3, <2>4 DEF Watching
<1>4. CASE Dispatching!Jobs
  <2> DEFINE Picked == {slot \in Lane : tasks[slot] = Dispatching!NoTask /\ Dispatching!Offered(slot) # {}}
             f == [slot \in Picked |-> Dispatching!Min(Dispatching!Offered(slot))]
  <2>1. \A slot \in Picked : f[slot] \in Item /\ Place[f[slot]] = slot
    <3> SUFFICES ASSUME NEW slot \in Picked
                 PROVE  Dispatching!Min(Dispatching!Offered(slot)) \in Dispatching!Offered(slot)
      BY DEF Dispatching!Offered
    <3> QED  BY <1>0, LeastItem DEF Dispatching!Offered
  <2>2. Picked \subseteq Dispatching!Slot
    BY DEF Dispatching!Slot
  <2>3. tasks' = [slot \in Dispatching!Slot |->
                    IF slot \in Picked THEN Dispatching!Task(f[slot], "runs") ELSE tasks[slot]]
    BY <1>4 DEF Dispatching!Jobs
  <2>4. pass = "jobs" /\ pass' = "deliveries" /\ UNCHANGED <<owner, attempt>>
    BY <1>4 DEF Dispatching!Jobs
  <2>5. f \in [Picked -> Item \cup {0}]
    BY <2>1
  <2>6. \A slot \in Picked : f[slot] # 0
    BY <1>0, <2>1
  <2> HIDE DEF Picked, f
  <2> QED  BY <2>1, <2>2, <2>3, <2>4, <2>5, <2>6, PassKeeps
<1>5. CASE Dispatching!Deliveries
  <2> DEFINE busy == {c \in Channel : tasks[c] # Dispatching!NoTask}
             next == {Dispatching!Min(Dispatching!Offered(c)) :
                        c \in {d \in Channel \ busy : Dispatching!Offered(d) # {}}}
             picked == Dispatching!First(Senders - Dispatching!Cardinality(busy), next)
             Picked == {slot \in Dispatching!Slot : \E i \in picked : Place[i] = slot}
             f == [slot \in Picked |-> CHOOSE i \in picked : Place[i] = slot]
  <2>1. picked \subseteq Item
    <3>1. \A c \in Channel : Dispatching!Offered(c) # {} => Dispatching!Min(Dispatching!Offered(c)) \in Item
      BY <1>0, LeastItem DEF Dispatching!Offered
    <3> QED  BY <3>1 DEF Dispatching!First
  <2>2. /\ tasks' = [slot \in Dispatching!Slot |->
                IF \E i \in picked : Place[i] = slot
                THEN Dispatching!Task(CHOOSE i \in picked : Place[i] = slot, "runs") ELSE tasks[slot]]
        /\ pass = "deliveries" /\ pass' = "reads" /\ UNCHANGED <<owner, attempt>>
    BY <1>5 DEF Dispatching!Deliveries
  <2> HIDE DEF picked
  <2>3. \A slot \in Picked : f[slot] \in Item /\ Place[f[slot]] = slot
    BY <2>1
  <2>4. tasks' = [slot \in Dispatching!Slot |->
                    IF slot \in Picked THEN Dispatching!Task(f[slot], "runs") ELSE tasks[slot]]
    BY <2>2
  <2>5. f \in [Picked -> Item \cup {0}] /\ Picked \subseteq Dispatching!Slot
    BY <2>3
  <2>6. \A slot \in Picked : f[slot] # 0
    BY <1>0, <2>3
  <2> HIDE DEF Picked, f
  <2> QED  BY <2>2, <2>3, <2>4, <2>5, <2>6, PassKeeps
<1>6. CASE Dispatching!Reads
  <2> DEFINE busy == {i \in ReadInput : tasks[i] # Dispatching!NoTask}
             picked == Dispatching!First(Readers - Dispatching!Cardinality(busy),
                                         {i \in ReadInput \ busy : readDue[i] = 0})
             f == [slot \in picked |-> 0]
  <2>1. picked \subseteq ReadInput
    BY DEF Dispatching!First
  <2>2. /\ tasks' = [slot \in Dispatching!Slot |->
                IF slot \in picked THEN Dispatching!Task(0, "runs") ELSE tasks[slot]]
        /\ pass = "reads" /\ pass' = "harvest" /\ UNCHANGED <<owner, attempt>>
    BY <1>6 DEF Dispatching!Reads
  <2> HIDE DEF picked
  <2>3. tasks' = [slot \in Dispatching!Slot |->
                    IF slot \in picked THEN Dispatching!Task(f[slot], "runs") ELSE tasks[slot]]
    BY <2>2
  <2>4. f \in [picked -> Item \cup {0}] /\ picked \subseteq Dispatching!Slot
    BY <2>1 DEF Dispatching!Slot
  <2>5. \A slot \in picked : f[slot] = 0 /\ slot \in ReadInput
    BY <2>1
  <2> HIDE DEF f
  <2> QED  BY <2>2, <2>3, <2>4, <2>5, PassKeeps
<1>7. ASSUME NEW slot \in Dispatching!Slot, Dispatching!Finish(slot)
      PROVE  Watching'
  <2>1. PICK future \in {"fine", "failed", "behind"} : tasks' = [tasks EXCEPT ![slot].future = future]
    BY <1>7 DEF Dispatching!Finish, Dispatching!Ends
  <2>2. UNCHANGED <<owner, pass, attempt>>
    BY <1>7 DEF Dispatching!Finish
  <2>3. Tasks'
    BY <2>1, <2>2 DEF Watching, Tasks
  <2>4. \A s \in Dispatching!Slot : tasks'[s].item = tasks[s].item /\ (tasks'[s].future = "runs" => tasks[s].future = "runs")
    BY <2>1 DEF Watching, Tasks
  <2>5. Owners'
    BY <2>2, <2>4 DEF Watching, Owners, Dispatching!Runs
  <2>6. Places'
    BY <2>2, <2>4 DEF Watching, Places, Dispatching!Runs
  <2> QED  BY <2>3, <2>5, <2>6 DEF Watching
<1>8. CASE Dispatching!Close
  <2>1. /\ owner = "watch" /\ pass' = "closing" /\ UNCHANGED <<owner, tasks, attempt>>
    BY <1>8 DEF Dispatching!Close
  <2> QED  BY <2>1 DEF Watching, Tasks, Owners, Places, Dispatching!Runs
<1>9. CASE Dispatching!Closed
  <2>1. /\ pass = "closing" /\ pass' = "none" /\ owner' = "nobody" /\ UNCHANGED attempt
        /\ tasks' = [slot \in Dispatching!Slot |-> Dispatching!Task(0, "none")]
    BY <1>9 DEF Dispatching!Closed, Dispatching!NoTask
  <2>2. Tasks'
    BY <2>1 DEF Watching, Tasks, Dispatching!Task
  <2>3. Owners' /\ Places'
    BY <2>1 DEF Watching, Owners, Places, Dispatching!Runs, Dispatching!Task
  <2> QED  BY <2>2, <2>3 DEF Watching
<1>10. CASE Dispatching!CycleBegins
  <2>1. owner = "nobody" /\ owner' = "update" /\ UNCHANGED <<tasks, pass, attempt>>
    BY <1>10 DEF Dispatching!CycleBegins
  <2> QED  BY <2>1 DEF Watching, Tasks, Owners, Places, Dispatching!Runs
<1>11. CASE Dispatching!CycleTries
  <2>1. owner = "update" /\ UNCHANGED <<owner, tasks, pass>>
    BY <1>11 DEF Dispatching!CycleTries
  <2>2. attempt' \in Item
    <3>1. ASSUME NEW places, Dispatching!Untried(places) # {}
          PROVE  Dispatching!Min(Dispatching!Untried(places)) \in Item
      <4>1. Dispatching!Untried(places) \in SUBSET Item
        BY DEF Dispatching!Untried
      <4> QED  BY <1>0, <3>1, <4>1, LeastItem
    <3>2. Dispatching!Untried(Lane \cup Channel) # {}
             => Dispatching!Untried(Lane) # {} \/ Dispatching!Untried(Channel) # {}
      BY DEF Dispatching!Untried
    <3>3. /\ Dispatching!Untried(Lane \cup Channel) # {}
          /\ attempt' = IF Dispatching!Untried(Lane) # {} THEN Dispatching!Min(Dispatching!Untried(Lane))
                        ELSE Dispatching!Min(Dispatching!Untried(Channel))
      BY <1>11 DEF Dispatching!CycleTries
    <3> QED  BY <3>1, <3>2, <3>3
  <2> QED  BY <2>1, <2>2 DEF Watching, Tasks, Owners, Places, Dispatching!Runs
<1>12. CASE Dispatching!CycleFinishes
  <2>1. attempt' = 0 /\ UNCHANGED <<owner, tasks, pass>>
    BY <1>12 DEF Dispatching!CycleFinishes
  <2> QED  BY <2>1 DEF Watching, Tasks, Owners, Places, Dispatching!Runs
<1>13. CASE Dispatching!CycleEnds
  <2>1. /\ owner = "update" /\ attempt = 0 /\ owner' = "nobody" /\ UNCHANGED <<tasks, pass, attempt>>
    BY <1>13 DEF Dispatching!CycleEnds
  <2> QED  BY <2>1 DEF Watching, Tasks, Owners, Places, Dispatching!Runs
<1> QED
  BY <1>1, <1>2, <1>3, <1>4, <1>5, <1>6, <1>7, <1>8, <1>9, <1>10, <1>11, <1>12, <1>13
  DEF Dispatching!Next, Dispatching!Dispatching, Dispatching!Cycling

\* No item is tried by a worker of the watch, running or closing, and by the
\* cycle of an update at once, nor by two workers, however many there are
\* (assistants.py: Dispatcher, _cycle).
THEOREM EachTriedByOne ==
    ASSUME Dispatching!DispatcherAssumption
    PROVE  Dispatching!Spec => []Dispatching!TriedByOne
<1>1. Dispatching!Init => Watching
  BY DispatcherStarts
<1>2. Watching /\ [Dispatching!Next]_(Dispatching!vars) => Watching'
  BY DispatcherSteps
<1>3. Watching => Dispatching!TriedByOne
  BY DEF Watching, Tasks, Owners, Places, Dispatching!TriedByOne, Dispatching!Runs
<1> QED
  BY <1>1, <1>2, <1>3, PTL DEF Dispatching!Spec

-----------------------------------------------------------------------------
(* A schedule and the wakes its runs ask for.                              *)

CONSTANTS Period, At, Days, Day, Lookback, Delay, MaxTime, MaxJobs, MaxWakes

VARIABLES clock, wake, asked, progress, jobs, reader, worker

Scheduling == INSTANCE Schedules WITH Every <- Period

\* The bounds are numbers too.
Bounded == Scheduling!SchedulesAssumption /\ {MaxTime, MaxJobs, MaxWakes} \subseteq Nat

LEMMA LeastJob ==
    ASSUME NEW S \in SUBSET Nat, S # {}
    PROVE  Scheduling!Min(S) \in S
<1>1. Dispatching!Min(S) = Scheduling!Min(S)
  BY DEF Dispatching!Min, Scheduling!Min
<1> QED
  BY <1>1, LeastItem

Window == [slot : {"schedule", "wake"}, start : Int, end : Int]
Queue == [slot : {"none", "schedule", "wake"}, state : Scheduling!States, start : Int, end : Int, wake : Nat]
Request == [id : Nat, due : Int, set : Int, job : Nat]

Progress == [end : Int, success : Int]
Readings == [at : {"idle", "wake", "schedule", "list", "queue"}, now : Nat, wake : Request,
             due : SUBSET Window, progress : Progress]

Shapes ==
    /\ clock \in Nat /\ asked \in Nat
    /\ wake \in Request
    /\ progress \in Progress
    /\ jobs \in [1..MaxJobs -> Queue]
    /\ reader \in Readings
    /\ worker \in Nat /\ (worker # 0 => worker \in 1..MaxJobs)

\* A request is pending, or taken by the job that carries it, or gone; only a
\* number that was given is used, and none twice.
Requests ==
    /\ wake.id <= asked
    /\ wake.id # 0 /\ wake.job = 0 => \A j \in 1..MaxJobs : jobs[j].wake # wake.id
    /\ wake.id # 0 /\ wake.job # 0 => wake.job \in 1..MaxJobs /\ jobs[wake.job].wake = wake.id
    /\ \A j \in 1..MaxJobs : jobs[j].wake <= asked /\ (jobs[j].slot = "none" => jobs[j].wake = 0)
    /\ \A i, j \in 1..MaxJobs : jobs[i].wake # 0 /\ jobs[i].wake = jobs[j].wake => i = j
    /\ asked > 0 => wake.id = asked \/ \E j \in 1..MaxJobs : jobs[j].wake = asked

Keeping == Shapes /\ Requests

LEMMA Nothing ==
    /\ Scheduling!NoWake \in Request /\ Scheduling!NoWake.id = 0
    /\ Scheduling!NoJob \in Queue /\ Scheduling!NoJob.wake = 0
    /\ Scheduling!Away \in Readings
<1>1. Scheduling!Unset \in Int
  BY DEF Scheduling!Unset
<1>2. Scheduling!NoWake \in Request /\ Scheduling!NoWake.id = 0
  BY DEF Scheduling!NoWake, Scheduling!Nobody, Request
<1>3. Scheduling!NoJob \in Queue /\ Scheduling!NoJob.wake = 0
  BY DEF Scheduling!NoJob, Scheduling!States, Queue
<1>4. Scheduling!Away \in Readings
  BY <1>1, <1>2 DEF Scheduling!Away, Readings, Progress
<1> QED
  BY <1>2, <1>3, <1>4

LEMMA SchedulingStarts ==
    ASSUME Bounded, Scheduling!Init
    PROVE  Keeping
<1>1. Shapes
  <2>1. progress \in Progress
    BY DEF Scheduling!Init, Scheduling!Unset, Progress
  <2>2. jobs \in [1..MaxJobs -> Queue]
    BY Nothing DEF Scheduling!Init, Scheduling!Job
  <2> QED  BY <2>1, <2>2, Nothing DEF Scheduling!Init, Scheduling!Nobody, Shapes
<1>2. Requests
  <2>1. asked = 0 /\ wake.id = 0 /\ \A j \in 1..MaxJobs : jobs[j].wake = 0
    BY Nothing DEF Scheduling!Init, Scheduling!Job
  <2> QED  BY <2>1 DEF Requests
<1> QED
  BY <1>1, <1>2 DEF Keeping

\* The dispatcher reads, a worker takes or leaves a job, time passes.
LEMMA ReadingKeeps ==
    ASSUME Keeping, reader' \in Readings, clock' \in Nat, worker' \in Nat, worker' # 0 => worker' \in 1..MaxJobs,
           UNCHANGED <<wake, asked, progress, jobs>>
    PROVE  Keeping'
  BY DEF Keeping, Shapes, Requests

\* A job changes its state, with what that does to the pending request.
LEMMA SettlingKeeps ==
    ASSUME Keeping, NEW j \in 1..MaxJobs, NEW s \in Scheduling!States,
           jobs' = [jobs EXCEPT ![j].state = s],
           progress' \in Progress, worker' \in Nat, worker' # 0 => worker' \in 1..MaxJobs,
           UNCHANGED <<clock, reader>>,
           \/ wake' = wake /\ asked' = asked
           \/ wake' = Scheduling!NoWake /\ asked' = asked /\ wake.job = j
           \/ asked' = asked + 1 /\ wake' \in Request /\ wake'.id = asked' /\ wake'.job = 0
    PROVE  Keeping'
<1>1. jobs \in [1..MaxJobs -> Queue] /\ wake \in Request /\ asked \in Nat
  BY DEF Keeping, Shapes
<1>2. jobs' \in [1..MaxJobs -> Queue]
  BY <1>1 DEF Queue
<1>3. \A i \in 1..MaxJobs : jobs'[i].wake = jobs[i].wake /\ jobs'[i].slot = jobs[i].slot /\ jobs[i].wake \in Nat
  BY <1>1 DEF Queue
<1>4. wake' \in Request /\ asked' \in Nat
  BY <1>1, Nothing
<1>5. Shapes'
  BY <1>2, <1>4 DEF Keeping, Shapes
<1>6. wake.id \in Nat /\ wake.job \in Nat
  BY <1>1 DEF Request
<1>7. Requests
  BY DEF Keeping
<1>8. CASE wake' = wake /\ asked' = asked
  <2>1. Requests'
    BY <1>3, <1>7, <1>8 DEF Requests
  <2> QED  BY <1>5, <2>1 DEF Keeping
<1>9. CASE wake' = Scheduling!NoWake /\ asked' = asked /\ wake.job = j
  <2>1. wake'.id = 0
    BY <1>9, Nothing
  <2>2. asked > 0 => \E i \in 1..MaxJobs : jobs[i].wake = asked
    BY <1>6, <1>7, <1>9 DEF Requests
  <2>3. Requests'
    BY <1>1, <1>3, <1>7, <1>9, <2>1, <2>2 DEF Requests
  <2> QED  BY <1>5, <2>3 DEF Keeping
<1>10. CASE asked' = asked + 1 /\ wake' \in Request /\ wake'.id = asked' /\ wake'.job = 0
  <2>1. \A i \in 1..MaxJobs : jobs[i].wake <= asked
    BY <1>7 DEF Requests
  <2>2. \A i \in 1..MaxJobs : jobs'[i].wake <= asked' /\ jobs'[i].wake # wake'.id
    BY <1>1, <1>3, <1>10, <2>1
  <2>3. Requests'
    BY <1>1, <1>3, <1>7, <1>10, <2>2 DEF Requests
  <2> QED  BY <1>5, <2>3 DEF Keeping
<1> QED
  BY <1>8, <1>9, <1>10

\* What is due is put in the next free place, for no request or for the one
\* that was pending.
LEMMA PuttingKeeps ==
    ASSUME Bounded, Keeping, Scheduling!Free # {}, NEW item \in Window, NEW request \in Nat,
           Scheduling!Put(item, request), reader' \in Readings, UNCHANGED <<clock, asked, progress, worker>>,
           \/ request = 0 /\ wake' = wake
           \/ /\ request = wake.id /\ wake.id # 0 /\ wake.job = 0
              /\ wake' = [wake EXCEPT !.job = Scheduling!Min(Scheduling!Free)]
    PROVE  Keeping'
<1>1. PICK j \in Scheduling!Free : j = Scheduling!Min(Scheduling!Free)
  <2>1. Scheduling!Free \in SUBSET Nat
    BY DEF Scheduling!Free, Scheduling!Job
  <2> QED  BY <2>1, LeastJob
<1>2. jobs \in [1..MaxJobs -> Queue] /\ wake \in Request /\ asked \in Nat /\ j \in 1..MaxJobs /\ jobs[j].slot = "none"
  BY <1>1 DEF Keeping, Shapes, Scheduling!Free, Scheduling!Job
<1>3. jobs' = [jobs EXCEPT ![j] = [slot |-> item.slot, state |-> "pending", start |-> item.start,
                                   end |-> item.end, wake |-> request]]
  BY <1>1 DEF Scheduling!Put
<1>4. [slot |-> item.slot, state |-> "pending", start |-> item.start, end |-> item.end, wake |-> request] \in Queue
  BY DEF Window, Queue, Scheduling!States
<1>5. jobs' \in [1..MaxJobs -> Queue]
  BY <1>2, <1>3, <1>4
<1>6. /\ jobs'[j].wake = request /\ jobs'[j].slot # "none"
      /\ \A i \in 1..MaxJobs : i # j => jobs'[i] = jobs[i]
      /\ \A i \in 1..MaxJobs : jobs[i].wake \in Nat
  <2>1. item.slot # "none"
    BY DEF Window
  <2>2. \A i \in 1..MaxJobs : jobs[i].wake \in Nat
    BY <1>2 DEF Queue
  <2> QED  BY <1>2, <1>3, <2>1, <2>2
<1>7. /\ wake' \in Request /\ wake'.id = wake.id /\ wake.id \in Nat
      /\ request # 0 => wake'.job = j
  BY <1>1, <1>2 DEF Request
<1>8. Shapes'
  BY <1>5, <1>7 DEF Keeping, Shapes
<1>9. Requests /\ jobs[j].wake = 0
  BY <1>2 DEF Keeping, Requests
<1>10. CASE request = 0 /\ wake' = wake
  <2>1. \A i \in 1..MaxJobs : jobs'[i].wake = jobs[i].wake /\ (jobs'[i].slot = "none" => jobs[i].slot = "none")
    BY <1>6, <1>9, <1>10
  <2>2. Requests'
    BY <1>9, <1>10, <2>1 DEF Requests
  <2> QED  BY <1>8, <2>2 DEF Keeping
<1>11. CASE request = wake.id /\ wake.id # 0 /\ wake.job = 0
  <2>1. /\ \A i \in 1..MaxJobs : i # j => jobs[i].wake # request
        /\ request <= asked
    BY <1>9, <1>11 DEF Requests
  <2>2. wake'.id # 0 /\ wake'.job = j /\ jobs'[j].wake = wake'.id
    BY <1>6, <1>7, <1>11
  <2>3. \A i \in 1..MaxJobs : jobs'[i].wake <= asked' /\ (jobs'[i].slot = "none" => jobs'[i].wake = 0)
    BY <1>6, <1>9, <2>1 DEF Requests
  <2>4. \A i, k \in 1..MaxJobs : jobs'[i].wake # 0 /\ jobs'[i].wake = jobs'[k].wake => i = k
    BY <1>6, <1>9, <2>1 DEF Requests
  <2>5. asked' > 0 => wake'.id = asked' \/ \E i \in 1..MaxJobs : jobs'[i].wake = asked'
    BY <1>6, <1>7, <1>9 DEF Requests
  <2>6. wake'.id <= asked'
    BY <1>7, <1>9 DEF Requests
  <2>7. j # 0
    BY <1>2
  <2>8. Requests'
    BY <1>2, <2>2, <2>3, <2>4, <2>5, <2>6, <2>7 DEF Requests
  <2> QED  BY <1>8, <2>8 DEF Keeping
<1> QED
  BY <1>10, <1>11

LEMMA LessOfTwo ==
    ASSUME NEW a \in Int, NEW b \in Int
    PROVE  Scheduling!Min({a, b}) \in Int
<1>1. \E x \in {a, b} : \A y \in {a, b} : x <= y
  <2>1. a <= b \/ b <= a
    OBVIOUS
  <2>2. a <= a /\ b <= b
    OBVIOUS
  <2> QED  BY <2>1, <2>2
<1> QED
  BY <1>1 DEF Scheduling!Min

LEMMA SchedulingSteps ==
    ASSUME Bounded, Keeping, [Scheduling!Next]_(Scheduling!vars)
    PROVE  Keeping'
<1>0. /\ clock \in Nat /\ asked \in Nat /\ wake \in Request /\ progress \in Progress
      /\ jobs \in [1..MaxJobs -> Queue] /\ reader \in Readings
      /\ worker \in Nat /\ (worker # 0 => worker \in 1..MaxJobs)
  BY DEF Keeping, Shapes
<1>1. CASE UNCHANGED Scheduling!vars
  <2>1. UNCHANGED <<clock, wake, asked, progress, jobs, reader, worker>>
    BY <1>1 DEF Scheduling!vars
  <2> QED  BY <1>0, <2>1, ReadingKeeps
<1>2. CASE Scheduling!ReadWake
  <2>1. reader' = [Scheduling!Away EXCEPT !.at = "wake", !.now = clock, !.wake = wake]
    BY <1>2 DEF Scheduling!ReadWake
  <2>2. reader' \in Readings
    BY <1>0, <2>1, Nothing DEF Readings
  <2>3. UNCHANGED <<clock, wake, asked, progress, jobs, worker>>
    BY <1>2 DEF Scheduling!ReadWake
  <2> QED  BY <1>0, <2>2, <2>3, ReadingKeeps
<1>3. CASE Scheduling!CheckWake
  <2> DEFINE w == reader.wake
             item == [slot |-> "wake", start |-> Scheduling!Min({w.set, reader.now}), end |-> reader.now]
  <2>1. item \in Window
    <3>1. w.set \in Int /\ reader.now \in Int
      BY <1>0 DEF Readings, Request
    <3> QED  BY <3>1, LessOfTwo DEF Window
  <2>2. PICK list \in {{}, {item}} :
            reader' = [reader EXCEPT !.at = "schedule", !.due = list, !.wake = Scheduling!NoWake, !.progress = progress]
    BY <1>3 DEF Scheduling!CheckWake
  <2>3. list \in SUBSET Window
    BY <2>1
  <2> HIDE DEF item
  <2>4. reader' \in Readings
    BY <1>0, <2>2, <2>3, Nothing DEF Readings
  <2>5. UNCHANGED <<clock, wake, asked, progress, jobs, worker>>
    BY <1>3 DEF Scheduling!CheckWake
  <2> QED  BY <1>0, <2>4, <2>5, ReadingKeeps
<1>4. CASE Scheduling!CheckSchedule
  <2> DEFINE last == reader.progress
             start == IF last.end = Scheduling!Unset \/ last.end >= reader.now
                      THEN reader.now - Lookback ELSE last.end
             item == [slot |-> "schedule", start |-> start, end |-> reader.now]
  <2>1. item \in Window
    <3>1. last.end \in Int /\ reader.now \in Int
      BY <1>0 DEF Readings, Progress
    <3>2. Lookback \in Int
      BY DEF Bounded, Scheduling!SchedulesAssumption
    <3> QED  BY <3>1, <3>2 DEF Window
  <2>2. PICK list \in {reader.due, reader.due \cup {item}} :
            reader' \in {Scheduling!Away, [Scheduling!Away EXCEPT !.at = "list", !.now = reader.now, !.due = list]}
    BY <1>4 DEF Scheduling!CheckSchedule
  <2>3. list \in SUBSET Window
    BY <1>0, <2>1 DEF Readings
  <2> HIDE DEF item
  <2>4. reader' \in Readings
    BY <1>0, <2>2, <2>3, Nothing DEF Readings
  <2>5. UNCHANGED <<clock, wake, asked, progress, jobs, worker>>
    BY <1>4 DEF Scheduling!CheckSchedule
  <2> QED  BY <1>0, <2>4, <2>5, ReadingKeeps
<1>5. CASE Scheduling!NextItem
  <2>1. \/ reader' = Scheduling!Away
        \/ \E w \in {wake, Scheduling!NoWake} : reader' = [reader EXCEPT !.at = "queue", !.wake = w]
    BY <1>5 DEF Scheduling!NextItem
  <2>2. reader' \in Readings
    BY <1>0, <2>1, Nothing DEF Readings
  <2>3. UNCHANGED <<clock, wake, asked, progress, jobs, worker>>
    BY <1>5 DEF Scheduling!NextItem
  <2> QED  BY <1>0, <2>2, <2>3, ReadingKeeps
<1>6. ASSUME NEW item \in reader.due, Scheduling!Queued(item)
      PROVE  item \in Window /\ reader' \in Readings
  <2>1. reader.due \in SUBSET Window
    BY <1>0 DEF Readings
  <2>2. reader' = [reader EXCEPT !.at = "list", !.due = reader.due \ {item}, !.wake = Scheduling!NoWake]
    BY <1>6 DEF Scheduling!Queued
  <2> QED  BY <1>0, <2>1, <2>2, Nothing DEF Readings
<1>7. CASE Scheduling!EnqueueWake
  <2>1. UNCHANGED <<clock, asked, progress, worker>> /\ Scheduling!Free # {}
    BY <1>7 DEF Scheduling!EnqueueWake
  <2>2. PICK item \in reader.due :
            /\ Scheduling!Queued(item)
            /\ \/ /\ wake.id # 0 /\ wake.job = 0 /\ Scheduling!Put(item, wake.id)
                  /\ wake' = [wake EXCEPT !.job = Scheduling!Min(Scheduling!Free)]
               \/ UNCHANGED <<jobs, wake>>
    BY <1>7 DEF Scheduling!EnqueueWake, Scheduling!Nobody
  <2>3. item \in Window /\ reader' \in Readings
    BY <1>6, <2>2
  <2>4. wake.id \in Nat
    BY <1>0 DEF Request
  <2>5. CASE UNCHANGED <<jobs, wake>>
    BY <1>0, <2>1, <2>3, <2>5, ReadingKeeps
  <2> QED  BY <2>1, <2>2, <2>3, <2>4, <2>5, PuttingKeeps
<1>8. CASE Scheduling!EnqueueSchedule
  <2>1. UNCHANGED <<clock, wake, asked, progress, worker>> /\ Scheduling!Free # {}
    BY <1>8 DEF Scheduling!EnqueueSchedule
  <2>2. PICK item \in reader.due : Scheduling!Queued(item) /\ Scheduling!Put(item, 0)
    BY <1>8 DEF Scheduling!EnqueueSchedule
  <2>3. item \in Window /\ reader' \in Readings
    BY <1>6, <2>2
  <2> QED  BY <2>1, <2>2, <2>3, PuttingKeeps
<1>9. CASE Scheduling!Refused
  <2>1. reader' = Scheduling!Away /\ UNCHANGED <<clock, wake, asked, progress, jobs, worker>>
    BY <1>9 DEF Scheduling!Refused
  <2> QED  BY <1>0, <2>1, Nothing, ReadingKeeps
<1>10. ASSUME NEW j \in 1..MaxJobs, Scheduling!Take(j)
       PROVE  Keeping'
  <2>1. worker' = j /\ UNCHANGED <<clock, wake, asked, progress, jobs, reader>>
    BY <1>10 DEF Scheduling!Take
  <2>2. j \in Nat
    OBVIOUS
  <2> QED  BY <1>0, <2>1, <2>2, ReadingKeeps
<1>11. CASE Scheduling!Claim
  <2>1. /\ worker \in 1..MaxJobs /\ jobs' = [jobs EXCEPT ![worker].state = "running"]
        /\ UNCHANGED <<clock, wake, asked, progress, reader, worker>>
    BY <1>0, <1>11 DEF Scheduling!Claim, Scheduling!Nobody
  <2>2. "running" \in Scheduling!States
    BY DEF Scheduling!States
  <2> QED  BY <1>0, <2>1, <2>2, SettlingKeeps
<1>12. CASE Scheduling!Lost
  <2>1. worker' = 0 /\ UNCHANGED <<clock, wake, asked, progress, jobs, reader>>
    BY <1>12 DEF Scheduling!Lost, Scheduling!Nobody
  <2> QED  BY <1>0, <2>1, ReadingKeeps
<1>13. ASSUME NEW j \in 1..MaxJobs, Scheduling!Advance(j)
       PROVE  progress' \in Progress
  <2>1. jobs[j].end \in Int
    BY <1>0 DEF Queue
  <2> QED  BY <1>0, <1>13, <2>1 DEF Scheduling!Advance, Progress
<1>14. ASSUME NEW j \in 1..MaxJobs
       PROVE  \/ Scheduling!Dropped(j) = wake
              \/ Scheduling!Dropped(j) = Scheduling!NoWake /\ wake.job = j
  BY DEF Scheduling!Dropped
<1>15. CASE Scheduling!Finish
  <2>1. /\ worker \in 1..MaxJobs /\ jobs' = [jobs EXCEPT ![worker].state = "complete"]
        /\ Scheduling!Advance(worker) /\ worker' = 0 /\ UNCHANGED <<clock, reader>>
    BY <1>0, <1>15 DEF Scheduling!Finish, Scheduling!Nobody
  <2>2. \/ wake' \in {wake, Scheduling!Dropped(worker)} /\ asked' = asked
        \/ /\ asked' = asked + 1
           /\ \E d \in Delay : wake' = [id |-> asked', due |-> clock + d, set |-> jobs[worker].end, job |-> 0]
    BY <1>15 DEF Scheduling!Finish, Scheduling!Nobody
  <2>3. \/ wake' = wake /\ asked' = asked
        \/ wake' = Scheduling!NoWake /\ asked' = asked /\ wake.job = worker
        \/ asked' = asked + 1 /\ wake' \in Request /\ wake'.id = asked' /\ wake'.job = 0
    <3>1. CASE wake' \in {wake, Scheduling!Dropped(worker)} /\ asked' = asked
      BY <1>14, <2>1, <3>1
    <3>2. CASE /\ asked' = asked + 1
               /\ \E d \in Delay : wake' = [id |-> asked', due |-> clock + d, set |-> jobs[worker].end, job |-> 0]
      <4>1. PICK d \in Delay : wake' = [id |-> asked', due |-> clock + d, set |-> jobs[worker].end, job |-> 0]
        BY <3>2
      <4>2. d \in Nat
        BY DEF Bounded, Scheduling!SchedulesAssumption
      <4>3. jobs[worker].end \in Int /\ clock + d \in Int /\ asked' \in Nat
        BY <1>0, <2>1, <3>2, <4>2 DEF Queue
      <4> QED  BY <3>2, <4>1, <4>3 DEF Request
    <3> QED  BY <2>2, <3>1, <3>2
  <2>4. progress' \in Progress
    BY <1>13, <2>1
  <2>5. "complete" \in Scheduling!States
    BY DEF Scheduling!States
  <2> QED  BY <1>0, <2>1, <2>3, <2>4, <2>5, SettlingKeeps
<1>16. CASE Scheduling!Fail
  <2>1. /\ worker \in 1..MaxJobs /\ jobs' = [jobs EXCEPT ![worker].state = "failed"] /\ worker' = 0
        /\ UNCHANGED <<clock, wake, asked, progress, reader>>
    BY <1>0, <1>16 DEF Scheduling!Fail, Scheduling!Nobody
  <2>2. "failed" \in Scheduling!States
    BY DEF Scheduling!States
  <2> QED  BY <1>0, <2>1, <2>2, SettlingKeeps
<1>17. ASSUME NEW j \in 1..MaxJobs, Scheduling!Retry(j)
       PROVE  Keeping'
  <2>1. /\ jobs' = [jobs EXCEPT ![j].state = "pending"]
        /\ UNCHANGED <<clock, wake, asked, progress, reader, worker>>
    BY <1>17 DEF Scheduling!Retry
  <2>2. "pending" \in Scheduling!States
    BY DEF Scheduling!States
  <2> QED  BY <1>0, <2>1, <2>2, SettlingKeeps
<1>18. ASSUME NEW j \in 1..MaxJobs, Scheduling!Cancel(j)
       PROVE  Keeping'
  <2>1. /\ jobs' = [jobs EXCEPT ![j].state = "cancelled"] /\ wake' = Scheduling!Dropped(j)
        /\ Scheduling!Advance(j) /\ UNCHANGED <<clock, asked, reader, worker>>
    BY <1>18 DEF Scheduling!Cancel
  <2>2. progress' \in Progress
    BY <1>13, <2>1
  <2>3. "cancelled" \in Scheduling!States
    BY DEF Scheduling!States
  <2> QED  BY <1>0, <1>14, <2>1, <2>2, <2>3, SettlingKeeps
<1>19. CASE Scheduling!Tick
  <2>1. clock' = clock + 1 /\ UNCHANGED <<wake, asked, progress, jobs, reader, worker>>
    BY <1>19 DEF Scheduling!Tick
  <2> QED  BY <1>0, <2>1, ReadingKeeps
<1> QED
  BY <1>1, <1>2, <1>3, <1>4, <1>5, <1>7, <1>8, <1>9, <1>10, <1>11, <1>12, <1>15, <1>16, <1>17, <1>18, <1>19
  DEF Scheduling!Next, Scheduling!Job

\* Runs finish and the owner cancels between the transactions that read and
\* queue what is due, for as long as may be, yet a wake starts at most one run,
\* and the newest request is pending or has its run (due_schedules, schedule;
\* Queue.enqueue_wake, finish, cancel).
THEOREM WakesAreKept ==
    ASSUME Bounded
    PROVE  Scheduling!Spec => []Scheduling!RequestsAreKept
<1>1. Scheduling!Init => Keeping
  BY SchedulingStarts
<1>2. Keeping /\ [Scheduling!Next]_(Scheduling!vars) => Keeping'
  BY SchedulingSteps
<1>3. Keeping => Scheduling!RequestsAreKept
  BY DEF Keeping, Requests, Scheduling!RequestsAreKept, Scheduling!Job
<1> QED
  BY <1>1, <1>2, <1>3, PTL DEF Scheduling!Spec

-----------------------------------------------------------------------------
(* The controller of bf watch.                                             *)

CONSTANTS Program, Assistants, Failing, MaxSuccesses, MaxInterrupts

VARIABLES world, update, at, job, board, alert, interrupts, work

Alerting == INSTANCE WatchLoop WITH
    Helper <- Assistants, MaxSignals <- MaxInterrupts, signals <- interrupts

\* Every variable has its type, the record of the dashboard included.
BoardType ==
    [running : BOOLEAN, completed : {-1, 0, 1}, invalid : BOOLEAN, due : BOOLEAN, refresh : BOOLEAN,
     paused : BOOLEAN, rows : Alerting!Counts, previous : [Program -> 0..MaxSuccesses \cup {-1}]]

AlertType == [failure : SUBSET (Program \cup {Alerting!Other}), cooling : BOOLEAN, told : BOOLEAN]

LoopTyped ==
    /\ world \in [success : Alerting!Counts, failed : SUBSET Program, valid : BOOLEAN]
    /\ update \in [state : {"none", "running", "exited"}, code : {0, 1}, asked : 0..2]
    /\ at \in Alerting!Places
    /\ job \in [known : BOOLEAN, stopping : BOOLEAN]
    /\ board \in BoardType
    /\ alert \in AlertType
    /\ interrupts \in [seen : 0..MaxInterrupts, pending : BOOLEAN]
    /\ work \subseteq Program

\* Job knows the update that runs, but for the moment between Popen and its
\* assignment, which defers signals; and the loop starts none beside it.
Known ==
    /\ update.state = "running" => job.known \/ at = "own"
    /\ ~Alerting!Exiting /\ update.state = "running" => board.running \/ at = "own"
    /\ at = "spawn" => update.state # "running"

\* Whether the update was asked to stop is what Job remembers, except
\* between its two steps.
Asked ==
    /\ update.asked <= 1
    /\ ~Alerting!Exiting => update.asked = 0
    /\ ~job.stopping \/ at = "signal" => update.asked = 0
    /\ at \in {"signal", "kill"} => job.stopping

LeavesNone == at = "ended" => update.state # "running"

\* What counts as work is what succeeded since the successes of before; and so
\* are the successes of the rows that a start takes over.
Counting ==
    ~Alerting!Exiting =>
        /\ \A x \in Program : Alerting!Previous(x) <= world.success[x]
        /\ \A x \in Program : x \in work <=> world.success[x] # Alerting!Previous(x)
        /\ at = "start" /\ ~board.invalid =>
              \A x \in Program : Alerting!Previous(x) <= board.rows[x] /\ board.rows[x] <= world.success[x]

LoopInv == LoopTyped /\ Known /\ Asked /\ LeavesNone /\ Counting

LEMMA LoopStarts ==
    ASSUME Alerting!WatchAssumption
    PROVE  Alerting!Init => LoopInv
<1> SUFFICES ASSUME Alerting!Init PROVE LoopInv
  OBVIOUS
<1>1. LoopTyped
  BY DEF Alerting!Init, LoopTyped, AlertType, BoardType, Alerting!None, Alerting!Counts, Alerting!Nothing, Alerting!Places, Alerting!WatchAssumption
<1>2. Known /\ Asked /\ LeavesNone
  BY DEF Alerting!Init, Known, Asked, LeavesNone, Alerting!Exiting
<1>3. Counting
  BY DEF Alerting!Init, Counting, Alerting!Exiting, Alerting!Previous, Alerting!Nothing, Alerting!None
<1> QED
  BY <1>1, <1>2, <1>3 DEF LoopInv

LEMMA LoopTypes ==
    ASSUME Alerting!WatchAssumption, LoopInv, Alerting!Next
    PROVE  LoopTyped'
<1> USE DEF LoopTyped
<1>t. LoopTyped /\ Asked
  BY DEF LoopInv
<1>n. Alerting!None \in Alerting!Counts /\ Alerting!NoBoard \in BoardType /\ Alerting!NoAlert \in AlertType
  BY DEF Alerting!None, Alerting!NoBoard, Alerting!NoAlert, BoardType, AlertType, Alerting!Counts, Alerting!Nothing, Alerting!WatchAssumption
<1>l. ASSUME Alerting!Leave PROVE at' \in Alerting!Places /\ board' \in BoardType /\ alert' \in AlertType /\ work' \subseteq Program
  BY <1>l, <1>n DEF Alerting!Leave, Alerting!Places
<1>1. CASE Alerting!Poll
  <2>1. board' \in BoardType
    BY ZenonT(60), <1>1, <1>t DEF Alerting!Poll, BoardType
  <2> QED
    BY <1>1, <1>t, <2>1 DEF Alerting!Poll, Alerting!Places
<1>2. CASE Alerting!Snapshot
  <2>1. board' \in BoardType
    <3>1. CASE board.completed = Alerting!Nothing
      <4>1. board' = [board EXCEPT !.rows = world.success, !.invalid = FALSE]
        BY <1>2, <3>1, Zenon DEF Alerting!Snapshot
      <4>2. world.success \in Alerting!Counts /\ FALSE \in BOOLEAN
        BY <1>t
      <4> QED
        BY ZenonT(60), <1>t, <4>1, <4>2 DEF BoardType
    <3>2. CASE board.completed # Alerting!Nothing
      <4>1. world.success \in [Program -> 0..MaxSuccesses \cup {-1}] /\ world.success \in Alerting!Counts
        BY <1>t DEF Alerting!Counts
      <4> QED
        BY ZenonT(60), <1>2, <1>t, <3>2, <4>1 DEF Alerting!Snapshot, BoardType, Alerting!Nothing
    <3> QED
      BY <3>1, <3>2
  <2>2. Alerting!Failures \in SUBSET (Program \cup {Alerting!Other})
    BY <1>t DEF Alerting!Failures
  <2>3. alert' \in AlertType
    <3>1. CASE UNCHANGED alert
      BY <1>t, <3>1
    <3>2. CASE Alerting!Completed(Alerting!Failures, Alerting!Worked)
      <4> DEFINE F == Alerting!Failures
                 recovery == alert.failure # {} /\ F = {}
                 changed == F # {} /\ F # alert.failure
      <4>a. alert \in AlertType /\ F \in SUBSET (Program \cup {Alerting!Other}) /\ Alerting!Completed(F, Alerting!Worked)
        BY <1>t, <2>2, <3>2
      <4> HIDE DEF F
      <4>1. CASE ~(changed \/ recovery \/ Alerting!Worked)
        BY <4>a, <4>1 DEF Alerting!Completed, AlertType
      <4>2. CASE (changed \/ recovery \/ Alerting!Worked) /\ alert.cooling
        BY <4>a, <4>2 DEF Alerting!Completed
      <4>3. CASE (changed \/ recovery \/ Alerting!Worked) /\ ~alert.cooling
        <5>1. alert' = [failure |-> F, cooling |-> TRUE,
                        told |-> IF changed THEN TRUE ELSE IF recovery THEN FALSE ELSE alert.told]
          BY <4>a, <4>3 DEF Alerting!Completed
        <5>2. (IF changed THEN TRUE ELSE IF recovery THEN FALSE ELSE alert.told) \in BOOLEAN
          BY <4>a DEF AlertType
        <5> QED
          BY <4>a, <5>1, <5>2 DEF AlertType
      <4> QED
        BY <4>1, <4>2, <4>3
    <3> QED
      BY <1>2, <3>1, <3>2 DEF Alerting!Snapshot
  <2>4. work' \subseteq Program
    BY <1>2, <1>t DEF Alerting!Snapshot
  <2> QED
    BY <1>2, <1>t, <2>1, <2>3, <2>4 DEF Alerting!Snapshot, Alerting!Places
<1>3. CASE Alerting!Unreadable \/ Alerting!NotYet \/ Alerting!NoStart
  <2>1. board' \in BoardType
    BY ZenonT(60), <1>3, <1>t, <1>n DEF Alerting!Unreadable, Alerting!NotYet, Alerting!NoStart, BoardType
  <2> QED
    BY <1>3, <1>t, <2>1 DEF Alerting!Unreadable, Alerting!NotYet, Alerting!NoStart, Alerting!Places
<1>4. CASE Alerting!Start
  <2>1. board' \in BoardType
    BY <1>4, <1>t, <1>n DEF Alerting!Start, BoardType, Alerting!Counts, Alerting!Nothing
  <2>2. work' \subseteq Program
    BY <1>4, <1>t DEF Alerting!Start
  <2>3. job' \in [known : BOOLEAN, stopping : BOOLEAN]
    BY <1>4, <1>t DEF Alerting!Start
  <2>4. at' \in Alerting!Places /\ UNCHANGED <<world, update, alert, interrupts>>
    BY <1>4 DEF Alerting!Start, Alerting!Places
  <2> QED
    BY <1>t, <2>1, <2>2, <2>3, <2>4
<1>5. CASE Alerting!Spawn
  <2>1. update' \in [state : {"none", "running", "exited"}, code : {0, 1}, asked : 0..2]
    BY <1>5 DEF Alerting!Spawn
  <2>2. job' \in [known : BOOLEAN, stopping : BOOLEAN]
    BY <1>5, <1>t DEF Alerting!Spawn
  <2>3. at' \in Alerting!Places /\ UNCHANGED <<world, board, alert, interrupts, work>>
    BY <1>5 DEF Alerting!Spawn, Alerting!Places
  <2> QED
    BY <1>t, <2>1, <2>2, <2>3
<1>6. CASE Alerting!Own
  <2>1. /\ job' \in [known : BOOLEAN, stopping : BOOLEAN]
        /\ interrupts' \in [seen : 0..MaxInterrupts, pending : BOOLEAN]
    BY <1>6, <1>t DEF Alerting!Own
  <2>2. at' \in Alerting!Places /\ board' \in BoardType /\ alert' \in AlertType /\ work' \subseteq Program
    <3>1. CASE interrupts.pending
      BY <1>6, <1>l, <3>1 DEF Alerting!Own
    <3>2. CASE ~interrupts.pending
      BY ZenonT(60), <1>6, <1>t, <3>2 DEF Alerting!Own, BoardType, Alerting!Places
    <3> QED
      BY <3>1, <3>2
  <2> QED
    BY <1>6, <1>t, <2>1, <2>2 DEF Alerting!Own
<1>7. CASE Alerting!Keys
  <2>1. at' \in Alerting!Places /\ board' \in BoardType /\ alert' \in AlertType /\ work' \subseteq Program
    <3>1. CASE Alerting!Leave
      BY <1>l, <3>1
    <3>2. CASE ~Alerting!Leave
      BY ZenonT(60), <1>7, <1>t, <3>2 DEF Alerting!Keys, BoardType, Alerting!Places
    <3> QED
      BY <3>1, <3>2
  <2> QED
    BY <1>7, <1>t, <2>1 DEF Alerting!Keys
<1>8. CASE Alerting!Exit
  <2>1. update' \in [state : {"none", "running", "exited"}, code : {0, 1}, asked : 0..2]
    BY <1>8, <1>t DEF Alerting!Exit, Alerting!Terminate, Alerting!Signal, Alerting!Dispatcher, Alerting!Close, Alerting!Kill, Alerting!Ask, Asked
  <2>2. at' \in Alerting!Places /\ job' \in [known : BOOLEAN, stopping : BOOLEAN]
    BY <1>8, <1>t DEF Alerting!Exit, Alerting!Terminate, Alerting!Signal, Alerting!Dispatcher, Alerting!Close, Alerting!Kill, Alerting!Places
  <2> QED
    BY <1>8, <1>t, <2>1, <2>2 DEF Alerting!Exit, Alerting!Terminate, Alerting!Signal, Alerting!Dispatcher, Alerting!Close, Alerting!Kill
<1>9. CASE Alerting!Interrupt
  <2>1. interrupts' \in [seen : 0..MaxInterrupts, pending : BOOLEAN]
    <3>1. /\ interrupts \in [seen : 0..MaxInterrupts, pending : BOOLEAN]
          /\ interrupts.seen < MaxInterrupts /\ MaxInterrupts \in Nat
      BY <1>9, <1>t DEF Alerting!Interrupt, Alerting!WatchAssumption
    <3>2. \/ interrupts' = [seen |-> interrupts.seen + 1, pending |-> TRUE]
          \/ interrupts' = [interrupts EXCEPT !.seen = interrupts.seen + 1]
      BY <1>9 DEF Alerting!Interrupt
    <3> HIDE DEF LoopTyped
    <3>3. interrupts.seen + 1 \in 0..MaxInterrupts
      BY <3>1
    <3>4. CASE interrupts' = [seen |-> interrupts.seen + 1, pending |-> TRUE]
      BY <3>3, <3>4
    <3>5. CASE interrupts' = [interrupts EXCEPT !.seen = interrupts.seen + 1]
      BY <3>1, <3>3, <3>5
    <3> QED
      BY <3>2, <3>4, <3>5
  <2>2. at' \in Alerting!Places /\ board' \in BoardType /\ alert' \in AlertType /\ work' \subseteq Program
    <3>1. CASE Alerting!Leave
      BY <1>l, <3>1
    <3>2. CASE ~Alerting!Leave
      BY <1>9, <1>t, <3>2 DEF Alerting!Interrupt, Alerting!Places
    <3> QED
      BY <3>1, <3>2
  <2> QED
    BY <1>9, <1>t, <2>1, <2>2 DEF Alerting!Interrupt
<1>10. ASSUME NEW x \in Program, Alerting!RecordSuccess(x) PROVE LoopTyped'
  <2>1. world.success[x] + 1 \in 0..MaxSuccesses
    BY <1>10, <1>t DEF Alerting!RecordSuccess, Alerting!Counts, Alerting!WatchAssumption
  <2>2. [world.success EXCEPT ![x] = @ + 1] \in Alerting!Counts
    BY <1>t, <2>1 DEF Alerting!Counts
  <2>3. world' = [success |-> [world.success EXCEPT ![x] = @ + 1], failed |-> world.failed \ {x}, valid |-> world.valid]
    BY <1>10, <1>t DEF Alerting!RecordSuccess
  <2>4. work' \subseteq Program /\ UNCHANGED <<update, at, job, board, alert, interrupts>>
    BY <1>10, <1>t DEF Alerting!RecordSuccess
  <2> QED
    BY <1>10, <1>t, <2>2, <2>3, <2>4
<1>14. CASE (\E x \in Program : Alerting!RecordFailure(x)) \/ Alerting!Edit
  <2>1. world' \in [success : Alerting!Counts, failed : SUBSET Program, valid : BOOLEAN]
    <3>1. ASSUME NEW x \in Program, Alerting!RecordFailure(x) PROVE world' = [world EXCEPT !.failed = @ \cup {x}]
      BY <3>1 DEF Alerting!RecordFailure
    <3>2. CASE Alerting!Edit
      BY <1>t, <3>2 DEF Alerting!Edit
    <3> QED
      BY <1>14, <1>t, <3>1, <3>2
  <2>2. UNCHANGED <<update, at, job, board, alert, interrupts, work>>
    BY <1>14 DEF Alerting!RecordFailure, Alerting!Edit
  <2> QED
    BY <1>t, <2>1, <2>2
<1>11. CASE Alerting!UpdateExits
  BY <1>11, <1>t DEF Alerting!UpdateExits
<1>12. CASE Alerting!IntervalEnds
  BY <1>12, <1>t DEF Alerting!IntervalEnds, BoardType
<1>13. CASE Alerting!CooldownEnds
  BY <1>13, <1>t DEF Alerting!CooldownEnds, AlertType
<1> QED
  BY <1>1, <1>2, <1>3, <1>4, <1>5, <1>6, <1>7, <1>8, <1>9, <1>10, <1>11, <1>12, <1>13, <1>14
  DEF Alerting!Next, Alerting!Pass

\* The update that runs is one Job knows, or is about to know.
LEMMA LoopKnows ==
    ASSUME Alerting!WatchAssumption, LoopInv, Alerting!Next
    PROVE  Known' /\ LeavesNone'
<1> USE DEF LoopInv, Known, LeavesNone, Alerting!Exiting
<1>t. /\ job \in [known : BOOLEAN, stopping : BOOLEAN] /\ board \in BoardType
      /\ update \in [state : {"none", "running", "exited"}, code : {0, 1}, asked : 0..2]
  BY DEF LoopTyped
<1>1. CASE Alerting!Poll \/ Alerting!Snapshot \/ Alerting!Unreadable \/ Alerting!NotYet \/ Alerting!NoStart
  BY ZenonT(60), <1>1, <1>t DEF Alerting!Poll, Alerting!Snapshot, Alerting!Unreadable, Alerting!NotYet, Alerting!NoStart, BoardType
<1>2. CASE Alerting!Start
  BY <1>2, <1>t DEF Alerting!Start, Alerting!Starts, BoardType
<1>3. CASE Alerting!Spawn
  BY <1>3, <1>t DEF Alerting!Spawn
<1>4. CASE Alerting!Own \/ Alerting!Keys
  BY <1>4, <1>t DEF Alerting!Own, Alerting!Keys, Alerting!Leave, BoardType
<1>5. CASE Alerting!Exit
  BY <1>5, <1>t DEF Alerting!Exit, Alerting!Terminate, Alerting!Signal, Alerting!Dispatcher, Alerting!Close, Alerting!Kill, Alerting!Ask
<1>6. CASE Alerting!Interrupt
  BY <1>6, <1>t DEF Alerting!Interrupt, Alerting!Leave, Alerting!Deferred
<1>7. CASE (\E x \in Program : Alerting!RecordSuccess(x) \/ Alerting!RecordFailure(x)) \/ Alerting!Edit
  BY <1>7 DEF Alerting!RecordSuccess, Alerting!RecordFailure, Alerting!Edit
<1>8. CASE Alerting!UpdateExits \/ Alerting!IntervalEnds \/ Alerting!CooldownEnds
  BY <1>8, <1>t DEF Alerting!UpdateExits, Alerting!IntervalEnds, Alerting!CooldownEnds, BoardType
<1> QED
  BY <1>1, <1>2, <1>3, <1>4, <1>5, <1>6, <1>7, <1>8 DEF Alerting!Next, Alerting!Pass

\* An update is asked to stop by the first of Job.terminate and Job.close that
\* finds it running, and by no other.
LEMMA LoopAsks ==
    ASSUME Alerting!WatchAssumption, LoopInv, Alerting!Next
    PROVE  Asked'
<1> USE DEF LoopInv, Asked, Alerting!Exiting
<1>t. /\ job \in [known : BOOLEAN, stopping : BOOLEAN]
      /\ update \in [state : {"none", "running", "exited"}, code : {0, 1}, asked : 0..2]
  BY DEF LoopTyped
<1>1. CASE Alerting!Pass
  <2>1. CASE Alerting!Start \/ Alerting!Spawn \/ Alerting!Own
    BY <2>1, <1>t DEF Alerting!Start, Alerting!Spawn, Alerting!Own, Alerting!Leave
  <2>2. CASE Alerting!Poll \/ Alerting!Snapshot \/ Alerting!Unreadable \/ Alerting!NotYet \/ Alerting!NoStart
    BY <2>2 DEF Alerting!Poll, Alerting!Snapshot, Alerting!Unreadable, Alerting!NotYet, Alerting!NoStart
  <2>3. CASE Alerting!Keys
    BY <2>3 DEF Alerting!Keys, Alerting!Leave
  <2> QED
    BY <1>1, <2>1, <2>2, <2>3 DEF Alerting!Pass
<1>2. CASE Alerting!Exit
  <2>1. CASE Alerting!Terminate
    BY <2>1, <1>t DEF Alerting!Terminate
  <2>4. CASE Alerting!Dispatcher \/ Alerting!Kill
    BY <2>4, <1>t DEF Alerting!Dispatcher, Alerting!Kill
  <2>2. CASE Alerting!Signal
    <3>1. at = "signal" /\ at' = "dispatcher" /\ update.asked = 0 /\ job' = job /\ job.stopping
      BY <2>2 DEF Alerting!Signal
    <3>2. update'.asked \in {0, 1}
      BY <2>2, <1>t, <3>1 DEF Alerting!Signal, Alerting!Ask
    <3> QED
      BY <3>1, <3>2
  <2>3. CASE Alerting!Close
    BY <2>3, <1>t DEF Alerting!Close, Alerting!Ask
  <2> QED
    BY <1>2, <2>1, <2>2, <2>3, <2>4 DEF Alerting!Exit
<1>3. CASE Alerting!Interrupt
  BY <1>3, <1>t DEF Alerting!Interrupt, Alerting!Leave, Alerting!Deferred
<1>4. CASE (\E x \in Program : Alerting!RecordSuccess(x) \/ Alerting!RecordFailure(x)) \/ Alerting!Edit
  BY <1>4 DEF Alerting!RecordSuccess, Alerting!RecordFailure, Alerting!Edit
<1>5. CASE Alerting!UpdateExits \/ Alerting!IntervalEnds \/ Alerting!CooldownEnds
  BY <1>5, <1>t DEF Alerting!UpdateExits, Alerting!IntervalEnds, Alerting!CooldownEnds
<1> QED
  BY <1>1, <1>2, <1>3, <1>4, <1>5 DEF Alerting!Next

\* No step but a completion, a start and a success touches what counts as work.
LEMMA LoopCounts ==
    ASSUME Alerting!WatchAssumption, LoopInv, Alerting!Next
    PROVE  Counting'
<1> USE DEF LoopInv, Counting, Alerting!Exiting, Alerting!Counts, Alerting!Nothing
<1>t. /\ board \in BoardType /\ work \subseteq Program /\ MaxSuccesses \in Nat
      /\ world \in [success : Alerting!Counts, failed : SUBSET Program, valid : BOOLEAN]
  BY DEF LoopTyped, Alerting!WatchAssumption
<1>1. CASE Alerting!Poll \/ Alerting!Unreadable \/ Alerting!NotYet \/ Alerting!NoStart \/ Alerting!Spawn
  <2>1. board'.previous = board.previous /\ (Alerting!Unreadable => board'.invalid)
    BY <1>1, <1>t DEF Alerting!Poll, Alerting!Unreadable, Alerting!NotYet, Alerting!NoStart, Alerting!Spawn, BoardType
  <2>2. /\ world' = world /\ work' = work /\ ~Alerting!Exiting
        /\ ~Alerting!Unreadable => at' # "start"
    BY <1>1 DEF Alerting!Poll, Alerting!Unreadable, Alerting!NotYet, Alerting!NoStart, Alerting!Spawn
  <2> QED
    BY <2>1, <2>2 DEF Alerting!Previous
<1>2. CASE Alerting!Snapshot
  <2>1. /\ world' = world /\ ~Alerting!Exiting /\ board'.rows = world.success
        /\ \A x \in Program : world.success[x] \in Nat /\ world.success[x] # -1
    <3>1. world' = world /\ ~Alerting!Exiting
      BY <1>2 DEF Alerting!Snapshot
    <3>2. board'.rows = world.success
      BY <1>2, <1>t DEF Alerting!Snapshot, BoardType
    <3>3. \A x \in Program : world.success[x] \in Nat /\ world.success[x] # -1
      BY <1>t
    <3> QED
      BY <3>1, <3>2, <3>3
  <2>2. CASE board.completed = Alerting!Nothing
    <3>1. board'.previous = board.previous /\ work' = work
      BY <1>2, <1>t, <2>2 DEF Alerting!Snapshot, BoardType
    <3> QED
      BY <2>1, <3>1 DEF Alerting!Previous
  <2>3. CASE board.completed # Alerting!Nothing
    <3>1. board'.previous = world.success /\ work' = {}
      BY <1>2, <1>t, <2>3 DEF Alerting!Snapshot, BoardType
    <3>2. \A x \in Program : Alerting!Previous(x)' = world.success[x]
      BY <2>1, <3>1 DEF Alerting!Previous
    <3> QED
      BY <2>1, <3>1, <3>2
  <2> QED
    BY <2>2, <2>3
<1>3. CASE Alerting!Start
  <2>1. /\ \A x \in Program : Alerting!Previous(x) <= board.rows[x] /\ board.rows[x] <= world.success[x]
        /\ \A x \in Program : x \in work <=> world.success[x] # Alerting!Previous(x)
    BY <1>3 DEF Alerting!Start, Alerting!Starts
  <2>2. \A x \in Program :
           Alerting!Previous(x)' = IF x \notin Assistants \/ board.previous[x] = -1 THEN board.rows[x]
                           ELSE Alerting!Previous(x)
    BY <1>3, <1>t DEF Alerting!Start, Alerting!Previous, BoardType
  <2>3. \A x \in Program : x \in work' <=>
           \/ x \in work /\ x \in Assistants /\ board.previous[x] # -1
           \/ world.success[x] # board.rows[x]
    BY <1>3 DEF Alerting!Start
  <2>4. \A x \in Program : board.rows[x] \in Nat /\ world.success[x] \in Nat /\ Alerting!Previous(x) \in Nat
    BY <1>t DEF BoardType, Alerting!Previous
  <2> QED
    BY <1>3, <2>1, <2>2, <2>3, <2>4 DEF Alerting!Start
<1>4. CASE Alerting!Own \/ Alerting!Keys
  BY ZenonT(60), <1>4, <1>t DEF Alerting!Own, Alerting!Keys, Alerting!Leave, Alerting!Previous, BoardType
<1>5. CASE Alerting!Exit
  BY <1>5 DEF Alerting!Exit, Alerting!Terminate, Alerting!Signal, Alerting!Dispatcher, Alerting!Close, Alerting!Kill
<1>6. CASE Alerting!Interrupt
  BY <1>6 DEF Alerting!Interrupt, Alerting!Leave, Alerting!Previous, Alerting!Deferred
<1>7. ASSUME NEW x \in Program, Alerting!RecordSuccess(x) PROVE Counting'
  <2>1. \A y \in Program : /\ world'.success[y] = IF y = x THEN world.success[y] + 1 ELSE world.success[y]
                           /\ Alerting!Previous(y)' = Alerting!Previous(y) /\ Alerting!Previous(y) \in Nat
                           /\ world.success[y] \in Nat
    BY <1>7, <1>t DEF Alerting!RecordSuccess, Alerting!Previous, BoardType
  <2>2. at' = at /\ board' = board /\ work' = work \cup {x} /\ ~Alerting!Exiting
    BY <1>7 DEF Alerting!RecordSuccess
  <2>3. \A y \in Program : board.rows[y] \in Nat
    BY <1>t DEF BoardType
  <2> QED
    BY <2>1, <2>2, <2>3
<1>8. CASE (\E x \in Program : Alerting!RecordFailure(x)) \/ Alerting!Edit
  BY <1>8, <1>t DEF Alerting!RecordFailure, Alerting!Edit, Alerting!Previous
<1>9. CASE Alerting!UpdateExits \/ Alerting!IntervalEnds \/ Alerting!CooldownEnds
  BY <1>9, <1>t DEF Alerting!UpdateExits, Alerting!IntervalEnds, Alerting!CooldownEnds, Alerting!Previous, BoardType
<1> QED
  BY <1>1, <1>2, <1>3, <1>4, <1>5, <1>6, <1>7, <1>8, <1>9 DEF Alerting!Next, Alerting!Pass

\* What holds of the loop between any two of its steps, whatever records,
\* interrupts, ends or edits beside it.
THEOREM LoopInvariance ==
    ASSUME Alerting!WatchAssumption
    PROVE  Alerting!Spec => []LoopInv
<1>1. Alerting!Init => LoopInv
  BY LoopStarts
<1>2. LoopInv /\ [Alerting!Next]_Alerting!vars => LoopInv'
  <2>1. ASSUME LoopInv, Alerting!Next PROVE LoopInv'
    BY <2>1, LoopTypes, LoopKnows, LoopAsks, LoopCounts DEF LoopInv
  <2>2. ASSUME LoopInv, UNCHANGED Alerting!vars PROVE LoopInv'
    BY <2>2 DEF LoopInv, LoopTyped, Known, Asked, LeavesNone, Counting, Alerting!Exiting,
                Alerting!Previous, Alerting!vars
  <2> QED
    BY <2>1, <2>2
<1> QED
  BY <1>1, <1>2, PTL DEF Alerting!Spec

\* However signals interrupt a start or the exit (Job.start and close,
\* starting() of watch_settings.py), the update is asked to stop at most once
\* and none runs on when watch has ended.
THEOREM UpdateIsStopped ==
    ASSUME Alerting!WatchAssumption
    PROVE  Alerting!Spec => []Alerting!StopsItsUpdate
<1>1. LoopInv => Alerting!StopsItsUpdate
  BY DEF LoopInv, Asked, LeavesNone, Alerting!StopsItsUpdate
<1> QED
  BY <1>1, LoopInvariance, PTL

\* Each success counts as work at one completion (_loop and
\* Notifications.completed), whichever process it is of.
THEOREM SuccessesCountOnce ==
    ASSUME Alerting!WatchAssumption
    PROVE  Alerting!Spec => []Alerting!EachSuccessCountsOnce
<1>1. LoopInv => Alerting!EachSuccessCountsOnce
  <2> SUFFICES ASSUME LoopInv, at = "read" PROVE Alerting!Worked <=> work # {}
    BY DEF Alerting!EachSuccessCountsOnce
  <2>1. work \subseteq Program /\ \A x \in Program : x \in work <=> world.success[x] # Alerting!Previous(x)
    BY DEF LoopInv, LoopTyped, Counting, Alerting!Exiting
  <2> QED
    BY <2>1 DEF Alerting!Worked
<1> QED
  BY <1>1, LoopInvariance, PTL

-----------------------------------------------------------------------------
(* The report of bf status.                                                *)

CONSTANTS Sensor, Refresh, SilentAfter, Configured, MaxChanges

VARIABLES settings, history, changed, queue, cache, report, held

Diagnosing == INSTANCE Health

\* The assistant's schedule has no time of day and no days.
Simple == At = -1 /\ Days = 0..6

Answerer == Diagnosing!Assistant
Transport == Diagnosing!Channel

AllTroubles ==
    (Program \X {"failed", "late", "silent"}) \union ({Answerer} \X {"failed", "refused", "late", "unread"})
    \union ({Transport} \X {"undelivered", "deaf"}) \union {<<Diagnosing!Cache, "skipped">>}

Queued == [failing : BOOLEAN, undelivered : BOOLEAN, refused : BOOLEAN, deaf : BOOLEAN,
           readable : BOOLEAN, success : Int, changes : Int]
Reported == [at : {"none", "cache", "programs", "assistants", "queue", "failing", "done"}, now : Nat,
             news : [Program -> Int], alerts : SUBSET (Program \union {Answerer, Transport}), problem : BOOLEAN,
             refusing : BOOLEAN, deaf : BOOLEAN, raced : SUBSET (Program \union {Answerer})]

HealthTypes ==
    /\ clock \in Nat /\ cache \in BOOLEAN
    /\ settings \in [Program \union {Answerer} -> {"active", "manual", "disabled", "absent"}]
    /\ history \in [Program -> [success : Int, failed : BOOLEAN]]
    /\ changed \in [Program -> Int] /\ queue \in Queued /\ report \in Reported
    /\ held \in [always : SUBSET AllTroubles, ever : SUBSET AllTroubles]

\* What has happened is past.
PastOnly ==
    /\ \A p \in Program : history[p].success <= clock
    /\ queue.success <= clock
    /\ report.now <= clock

Going == report.at \notin {"none", "done"}

\* What a trouble that lasted says of the time the report read.
Lasting ==
    Going =>
        /\ held.always \subseteq Diagnosing!Troubles /\ Diagnosing!Troubles \subseteq held.ever
        /\ \A p \in Program : <<p, "late">> \in held.always =>
              history[p].success = -1 \/ report.now > history[p].success + 2 * Refresh
        /\ \A p \in Program : <<p, "silent">> \in held.always =>
              changed[p] # -1 /\ report.now - changed[p] > SilentAfter
        /\ <<Answerer, "late">> \in held.always => queue.success = -1 \/ report.now > queue.success + 2 * Every

\* A success that is not past by the report's clock was set aside.
RacedOnes ==
    Going =>
        /\ \A p \in Program : history[p].success > report.now => p \in report.raced
        /\ queue.success > report.now => Answerer \in report.raced

Ever(w) == \E r : <<w, r>> \in held.ever

\* What the report read of silence, before it reads the history.
NewsTold ==
    report.at = "programs" => \A p \in Program :
        /\ <<p, "silent">> \in held.always => report.news[p] # -1 /\ report.now - report.news[p] > SilentAfter
        /\ p \in Sensor /\ settings[p] = "active" /\ report.news[p] # -1
           /\ report.now - report.news[p] > SilentAfter => Ever(p)

\* What the parts read so far told of what lasted.
Told ==
    /\ report.at \in {"programs", "assistants", "queue", "failing", "done"} =>
          (<<Diagnosing!Cache, "skipped">> \in held.always => report.problem)
    /\ report.at \in {"assistants", "queue", "failing", "done"} =>
          \A p \in Program, r \in {"failed", "late", "silent"} : <<p, r>> \in held.always => p \in report.alerts
    /\ report.at \in {"queue", "failing"} =>
          \A r \in {"late", "unread"} : <<Answerer, r>> \in held.always => Answerer \in report.alerts
    /\ report.at = "failing" =>
          /\ <<Answerer, "refused">> \in held.always => report.refusing
          /\ <<Transport, "deaf">> \in held.always => report.deaf
    /\ report.at = "done" /\ ~report.problem =>
          /\ \A r \in {"failed", "refused", "late", "unread"} : <<Answerer, r>> \in held.always => Answerer \in report.alerts
          /\ \A r \in {"undelivered", "deaf"} : <<Transport, r>> \in held.always => Transport \in report.alerts

\* What it told needed attention at some time.
AlertsTrue ==
    /\ \A w \in report.alerts : Ever(w) \/ w \in report.raced
    /\ report.refusing => Ever(Answerer)
    /\ report.deaf => Ever(Transport)

HealthInv == HealthTypes /\ PastOnly /\ Lasting /\ RacedOnes /\ NewsTold /\ Told /\ AlertsTrue

LEMMA HealthConstants ==
    ASSUME Diagnosing!HealthAssumption
    PROVE  /\ Sensor \subseteq Program /\ Answerer \notin Program /\ Answerer # Transport /\ {Refresh, SilentAfter, Every} \subseteq Nat
           /\ Configured \subseteq [Program \union {Answerer} -> {"active", "manual", "disabled", "absent"}]
BY DEF Diagnosing!HealthAssumption, Answerer, Transport, Diagnosing!Assistant, Diagnosing!Channel, Diagnosing!Owner

OldAt(success, period) == success = -1 \/ clock \notin success..(success + 2 * period)

\* Who has which trouble.
TroublesAre ==
    Answerer \notin Program =>
        /\ Diagnosing!Troubles \subseteq AllTroubles
        /\ \A p \in Program :
              /\ <<p, "failed">> \in Diagnosing!Troubles <=> settings[p] = "active" /\ history[p].failed
              /\ <<p, "late">> \in Diagnosing!Troubles <=> settings[p] = "active" /\ OldAt(history[p].success, Refresh)
              /\ <<p, "silent">> \in Diagnosing!Troubles <=>
                    (/\ settings[p] = "active" /\ p \in Sensor /\ history[p].success # -1
                     /\ changed[p] # -1 /\ clock > changed[p] + SilentAfter)
        /\ <<Answerer, "failed">> \in Diagnosing!Troubles <=> queue.failing /\ settings[Answerer] # "disabled"
        /\ <<Answerer, "refused">> \in Diagnosing!Troubles <=> queue.refused /\ settings[Answerer] \in {"active", "manual"}
        /\ <<Answerer, "late">> \in Diagnosing!Troubles <=> settings[Answerer] = "active" /\ OldAt(queue.success, Every)
        /\ <<Answerer, "unread">> \in Diagnosing!Troubles <=> ~queue.readable /\ settings[Answerer] \in {"active", "manual"}
        /\ <<Transport, "undelivered">> \in Diagnosing!Troubles <=> queue.undelivered
        /\ <<Transport, "deaf">> \in Diagnosing!Troubles <=> queue.deaf /\ settings[Answerer] \in {"active", "manual"}
        /\ <<Diagnosing!Cache, "skipped">> \in Diagnosing!Troubles <=> ~cache

LEMMA TroublesKnown == HealthTypes => TroublesAre
<1> SUFFICES ASSUME HealthTypes, Answerer \notin Program PROVE TroublesAre
  BY DEF TroublesAre
<1> USE DEF Diagnosing!Troubles, Answerer, Transport, Diagnosing!Assistant, Diagnosing!Channel, Diagnosing!Cache, Diagnosing!Old, OldAt, Diagnosing!Never, Diagnosing!Enabled
<1>1. Diagnosing!Troubles \subseteq AllTroubles
  BY DEF AllTroubles
<1>2. ASSUME NEW p \in Program
      PROVE  /\ <<p, "failed">> \in Diagnosing!Troubles <=> settings[p] = "active" /\ history[p].failed
             /\ <<p, "late">> \in Diagnosing!Troubles <=> settings[p] = "active" /\ OldAt(history[p].success, Refresh)
             /\ <<p, "silent">> \in Diagnosing!Troubles <=>
                   (/\ settings[p] = "active" /\ p \in Sensor /\ history[p].success # -1
                    /\ changed[p] # -1 /\ clock > changed[p] + SilentAfter)
  BY DEF HealthTypes
<1>3. /\ <<Answerer, "failed">> \in Diagnosing!Troubles <=> queue.failing /\ settings[Answerer] # "disabled"
      /\ <<Answerer, "refused">> \in Diagnosing!Troubles <=> queue.refused /\ settings[Answerer] \in {"active", "manual"}
      /\ <<Answerer, "late">> \in Diagnosing!Troubles <=> settings[Answerer] = "active" /\ OldAt(queue.success, Every)
      /\ <<Answerer, "unread">> \in Diagnosing!Troubles <=> ~queue.readable /\ settings[Answerer] \in {"active", "manual"}
  BY DEF HealthTypes, Queued
<1>4. /\ <<Transport, "undelivered">> \in Diagnosing!Troubles <=> queue.undelivered
      /\ <<Transport, "deaf">> \in Diagnosing!Troubles <=> queue.deaf /\ settings[Answerer] \in {"active", "manual"}
      /\ <<Diagnosing!Cache, "skipped">> \in Diagnosing!Troubles <=> ~cache
  BY DEF HealthTypes, Queued
<1> HIDE DEF Diagnosing!Troubles, Answerer, Transport, Diagnosing!Assistant, Diagnosing!Channel, Diagnosing!Cache, Diagnosing!Old, OldAt, Diagnosing!Never, Diagnosing!Enabled
<1> QED
  BY <1>1, <1>2, <1>3, <1>4 DEF TroublesAre

LEMMA TroublesKnownNext == HealthTypes' => TroublesAre'
BY TroublesKnown, PTL

LEMMA HealthInit == ASSUME Diagnosing!HealthAssumption, Diagnosing!Init PROVE HealthInv
<1>1. /\ clock \in Nat /\ cache = TRUE /\ settings \in Configured
  BY DEF Diagnosing!Init, Diagnosing!HealthAssumption
<1>2. /\ history \in [Program -> [success : {-1, 0}, failed : BOOLEAN]]
      /\ changed \in [Program -> {0}]
      /\ queue \in [failing : BOOLEAN, undelivered : {FALSE}, refused : {FALSE}, deaf : {FALSE},
                    readable : {TRUE}, success : {-1, 0}, changes : {0}]
  <2>1. Diagnosing!Never = -1
    BY DEF Diagnosing!Never
  <2> QED
    BY <2>1 DEF Diagnosing!Init
<1>3. /\ report = [at |-> "none", now |-> 0, news |-> changed, alerts |-> {},
                   problem |-> FALSE, refusing |-> FALSE, deaf |-> FALSE, raced |-> {}]
      /\ held = [always |-> {}, ever |-> {}]
  BY DEF Diagnosing!Init, Diagnosing!Read
<1>4. /\ history \in [Program -> [success : Int, failed : BOOLEAN]] /\ changed \in [Program -> Int]
      /\ queue \in Queued /\ report \in Reported
  <2>1. [success : {-1, 0}, failed : BOOLEAN] \subseteq [success : Int, failed : BOOLEAN]
    OBVIOUS
  <2>2. history \in [Program -> [success : Int, failed : BOOLEAN]] /\ changed \in [Program -> Int]
    BY <1>2, <2>1
  <2>3. queue \in Queued
    <3>1. queue = [failing |-> queue.failing, undelivered |-> queue.undelivered, refused |-> queue.refused,
                   deaf |-> queue.deaf, readable |-> queue.readable, success |-> queue.success,
                   changes |-> queue.changes]
      BY Zenon, <1>2
    <3>2. /\ queue.failing \in BOOLEAN /\ queue.undelivered = FALSE /\ queue.refused = FALSE
          /\ queue.deaf = FALSE /\ queue.readable = TRUE /\ queue.success \in {-1, 0} /\ queue.changes = 0
      BY <1>2
    <3>3. /\ queue.failing \in BOOLEAN /\ queue.undelivered \in BOOLEAN /\ queue.refused \in BOOLEAN
          /\ queue.deaf \in BOOLEAN /\ queue.readable \in BOOLEAN /\ queue.success \in Int /\ queue.changes \in Int
      <4>1. queue.success \in Int /\ queue.changes \in Int
        BY <3>2
      <4>2. TRUE \in BOOLEAN /\ FALSE \in BOOLEAN
        OBVIOUS
      <4> QED
        BY Zenon, <3>2, <4>1, <4>2
    <3> QED
      BY Zenon, <3>1, <3>3 DEF Queued
  <2>4. report \in Reported
    BY <1>3, <2>2 DEF Reported
  <2> QED
    BY <2>2, <2>3, <2>4
<1>5. HealthTypes
  BY <1>1, <1>3, <1>4, HealthConstants DEF HealthTypes
<1>6. PastOnly
  BY <1>1, <1>2, <1>3 DEF PastOnly
<1>7. Lasting /\ RacedOnes /\ NewsTold /\ Told /\ AlertsTrue
  BY <1>3 DEF Lasting, RacedOnes, NewsTold, Told, AlertsTrue, Going
<1> QED
  BY <1>5, <1>6, <1>7 DEF HealthInv

LEMMA HealthBegin == ASSUME Diagnosing!HealthAssumption, HealthInv, Diagnosing!Begin PROVE HealthInv'
<1>1. /\ report' = [at |-> "cache", now |-> clock, news |-> changed, alerts |-> {},
                    problem |-> FALSE, refusing |-> FALSE, deaf |-> FALSE, raced |-> {}]
      /\ held' = [always |-> Diagnosing!Troubles, ever |-> Diagnosing!Troubles]
      /\ UNCHANGED <<clock, settings, history, changed, queue, cache>>
  BY DEF Diagnosing!Begin, Diagnosing!Read
<1>2. HealthTypes /\ PastOnly /\ TroublesAre
  BY TroublesKnown DEF HealthInv
<1>3. Diagnosing!Troubles \subseteq AllTroubles
  BY <1>2, HealthConstants DEF TroublesAre
<1>4. HealthTypes'
  <2>1. report' \in Reported
    BY <1>1, <1>2 DEF Reported, HealthTypes
  <2> QED
    BY <1>1, <1>2, <1>3, <2>1 DEF HealthTypes
<1>5. PastOnly'
  BY <1>1, <1>2 DEF PastOnly, HealthTypes
<1>6. Diagnosing!Troubles' = Diagnosing!Troubles
  BY <1>1 DEF Diagnosing!Troubles, Diagnosing!Enabled, Diagnosing!Old
<1>7. Lasting'
  <2>1. ASSUME NEW success \in Int, NEW period \in Nat, success <= clock, OldAt(success, period)
        PROVE  success = -1 \/ clock > success + 2 * period
    BY <1>2, <2>1 DEF OldAt, HealthTypes
  <2>2. ASSUME NEW p \in Program, <<p, "late">> \in Diagnosing!Troubles
        PROVE  history[p].success = -1 \/ clock > history[p].success + 2 * Refresh
    BY <1>2, <2>1, <2>2, HealthConstants DEF TroublesAre, HealthTypes, PastOnly
  <2>3. ASSUME NEW p \in Program, <<p, "silent">> \in Diagnosing!Troubles
        PROVE  changed[p] # -1 /\ clock - changed[p] > SilentAfter
    <3>1. changed[p] # -1 /\ clock > changed[p] + SilentAfter
      BY <1>2, <2>3, HealthConstants DEF TroublesAre
    <3>2. changed[p] \in Int /\ clock \in Nat /\ SilentAfter \in Nat
      BY <1>2, HealthConstants DEF HealthTypes
    <3> QED
      BY <3>1, <3>2
  <2>4. ASSUME <<Answerer, "late">> \in Diagnosing!Troubles
        PROVE  queue.success = -1 \/ clock > queue.success + 2 * Every
    <3>1. queue.success \in Int /\ queue.success <= clock /\ OldAt(queue.success, Every)
      BY <1>2, <2>4, HealthConstants DEF TroublesAre, HealthTypes, PastOnly, Queued
    <3> QED
      BY <2>1, <3>1, HealthConstants
  <2> QED
    BY <1>1, <1>6, <2>2, <2>3, <2>4 DEF Lasting
<1>8. RacedOnes'
  BY <1>1, <1>2 DEF RacedOnes, PastOnly, HealthTypes, Queued
<1>9. NewsTold' /\ Told' /\ AlertsTrue'
  BY <1>1 DEF NewsTold, Told, AlertsTrue
<1> QED
  BY <1>4, <1>5, <1>7, <1>8, <1>9 DEF HealthInv

\* What happens while the report is read only changes what it has not read yet.
Meanwhile ==
    /\ Going /\ clock <= clock'
    /\ UNCHANGED settings
    /\ report' = [report EXCEPT !.raced = report'.raced] /\ report.raced \subseteq report'.raced
    /\ held' = [always |-> held.always \intersect Diagnosing!Troubles', ever |-> held.ever \union Diagnosing!Troubles']

LEMMA MeanwhileHolds ==
    ASSUME HealthInv, HealthTypes', Meanwhile, Answerer \notin Program
    PROVE  /\ Going' /\ held'.always \subseteq held.always /\ held.ever \subseteq held'.ever
           /\ held'.always \subseteq Diagnosing!Troubles' /\ Diagnosing!Troubles' \subseteq held'.ever
           /\ report'.now = report.now
           /\ NewsTold' /\ Told' /\ AlertsTrue'
<1>1. /\ held'.always \subseteq held.always /\ held.ever \subseteq held'.ever
      /\ held'.always \subseteq Diagnosing!Troubles' /\ Diagnosing!Troubles' \subseteq held'.ever
  BY DEF Meanwhile
<1>2. /\ report'.at = report.at /\ report'.now = report.now /\ report'.news = report.news
      /\ report'.alerts = report.alerts /\ report'.problem = report.problem
      /\ report'.refusing = report.refusing /\ report'.deaf = report.deaf
      /\ report.raced \subseteq report'.raced
  BY DEF Meanwhile, HealthInv, HealthTypes, Reported
<1>3. Going'
  BY <1>2 DEF Meanwhile, Going
<1>4. \A w : Ever(w) => Ever(w)'
  BY <1>1 DEF Ever
<1>5. NewsTold'
  BY <1>1, <1>2, <1>4 DEF NewsTold, HealthInv, Meanwhile
<1>6. Told'
  BY <1>1, <1>2 DEF Told, HealthInv
<1>7. AlertsTrue'
  BY <1>2, <1>4 DEF AlertsTrue, HealthInv
<1> QED
  BY <1>1, <1>2, <1>3, <1>5, <1>6, <1>7

LEMMA HealthRan ==
    ASSUME Diagnosing!HealthAssumption, HealthInv, NEW p \in Program, NEW failed \in BOOLEAN, NEW news \in BOOLEAN,
           Diagnosing!Ran(p, failed, news)
    PROVE  HealthInv'
<1>t. HealthTypes /\ PastOnly /\ Lasting /\ RacedOnes
  BY DEF HealthInv
<1>1. /\ history' = [history EXCEPT ![p] = [success |-> IF failed THEN @.success ELSE clock, failed |-> failed]]
      /\ changed' = [changed EXCEPT ![p] = IF news THEN clock ELSE @]
      /\ queue' = [queue EXCEPT !.changes = @ + 1]
      /\ report' = [report EXCEPT !.raced = @ \union IF clock > report.now /\ ~failed THEN {p} ELSE {}]
      /\ UNCHANGED <<clock, settings, cache>>
      /\ Going
      /\ held' = [always |-> held.always \intersect Diagnosing!Troubles', ever |-> held.ever \union Diagnosing!Troubles']
  BY DEF Diagnosing!Ran, Diagnosing!Happens, Diagnosing!Counted, Going
<1>2. PICK s \in Int : /\ s = (IF failed THEN history[p].success ELSE clock) /\ s <= clock
                       /\ (~failed => s = clock) /\ (failed => s = history[p].success)
  BY <1>t DEF HealthTypes, PastOnly
<1>3. /\ history' \in [Program -> [success : Int, failed : BOOLEAN]]
      /\ history'[p].success = s /\ \A q \in Program : q # p => history'[q] = history[q]
  BY <1>t, <1>1, <1>2 DEF HealthTypes
<1>4. /\ changed' \in [Program -> Int]
      /\ (news => changed'[p] = clock) /\ (~news => changed'[p] = changed[p])
      /\ \A q \in Program : q # p => changed'[q] = changed[q]
  BY <1>t, <1>1 DEF HealthTypes
<1>5. /\ queue' \in Queued /\ queue'.success = queue.success
  BY <1>t, <1>1 DEF HealthTypes, Queued
<1>6. PICK more \in SUBSET (Program \union {Answerer}) :
        /\ more = IF clock > report.now /\ ~failed THEN {p} ELSE {}
        /\ report' = [report EXCEPT !.raced = @ \union more]
  BY <1>1
<1>7. /\ report' \in Reported /\ report' = [report EXCEPT !.raced = report'.raced]
      /\ report'.raced = report.raced \union more /\ report'.now = report.now
  BY <1>t, <1>6 DEF HealthTypes, Reported
<1>8. HealthTypes'
  <2>1. /\ history' \in [Program -> [success : Int, failed : BOOLEAN]] /\ changed' \in [Program -> Int]
        /\ queue' \in Queued /\ report' \in Reported
    BY <1>3, <1>4, <1>5, <1>7
  <2>2. Diagnosing!Troubles' \subseteq AllTroubles
    BY <1>1 DEF Diagnosing!Troubles, AllTroubles, Answerer, Transport, Diagnosing!Assistant, Diagnosing!Channel, Diagnosing!Cache
  <2>3. held' \in [always : SUBSET AllTroubles, ever : SUBSET AllTroubles]
    BY <1>t, <1>1, <2>2 DEF HealthTypes
  <2> QED
    BY <1>t, <1>1, <2>1, <2>3 DEF HealthTypes
<1>9. Meanwhile
  BY <1>t, <1>1, <1>7 DEF Meanwhile, HealthTypes
<1>10. /\ Going' /\ held'.always \subseteq held.always /\ held.ever \subseteq held'.ever
       /\ held'.always \subseteq Diagnosing!Troubles' /\ Diagnosing!Troubles' \subseteq held'.ever
       /\ NewsTold' /\ Told' /\ AlertsTrue'
  BY <1>8, <1>9, MeanwhileHolds, HealthConstants
<1>11. PastOnly'
  BY <1>t, <1>1, <1>2, <1>3, <1>5, <1>7 DEF PastOnly
<1>12. Lasting'
  <2>0. TroublesAre'
    BY <1>8, TroublesKnownNext
  <2>1. ASSUME NEW q \in Program, <<q, "late">> \in held'.always
        PROVE  history'[q].success = -1 \/ report'.now > history'[q].success + 2 * Refresh
    <3>1. history[q].success = -1 \/ report.now > history[q].success + 2 * Refresh
      BY <1>t, <1>1, <1>10, <2>1 DEF Lasting
    <3>2. OldAt(history[q].success, Refresh)'
      BY <1>10, <2>0, <2>1, HealthConstants DEF TroublesAre
    <3>3. history'[q].success = clock => history'[q].success = -1
      BY <1>t, <1>1, <3>2, HealthConstants DEF OldAt, HealthTypes
    <3>4. history'[q].success = clock \/ history'[q].success = history[q].success
      BY <1>2, <1>3
    <3> QED
      BY <1>7, <3>1, <3>3, <3>4
  <2>2. ASSUME NEW q \in Program, <<q, "silent">> \in held'.always
        PROVE  changed'[q] # -1 /\ report'.now - changed'[q] > SilentAfter
    <3>1. changed[q] # -1 /\ report.now - changed[q] > SilentAfter
      BY <1>t, <1>1, <1>10, <2>2 DEF Lasting
    <3>2. clock > changed'[q] + SilentAfter
      BY <1>1, <1>10, <2>0, <2>2, HealthConstants DEF TroublesAre
    <3>3. changed'[q] # clock
      BY <1>t, <3>2, HealthConstants DEF HealthTypes
    <3>4. changed'[q] = changed[q]
      BY <1>4, <3>3
    <3> QED
      BY <1>7, <3>1, <3>4
  <2>3. <<Answerer, "late">> \in held'.always => queue'.success = -1 \/ report'.now > queue'.success + 2 * Every
    BY <1>t, <1>1, <1>5, <1>7, <1>10 DEF Lasting
  <2> QED
    BY <1>10, <2>1, <2>2, <2>3 DEF Lasting
<1>13. RacedOnes'
  <2>1. ASSUME NEW q \in Program, history'[q].success > report'.now PROVE q \in report'.raced
    <3>1. CASE q = p /\ ~failed
      <4>1. clock > report.now
        BY <1>2, <1>3, <1>7, <2>1, <3>1
      <4> QED
        BY <1>6, <1>7, <3>1, <4>1
    <3>2. CASE ~(q = p /\ ~failed)
      <4>1. history'[q].success = history[q].success
        BY <1>2, <1>3, <3>2
      <4> QED
        BY <1>t, <1>1, <1>7, <2>1, <4>1 DEF RacedOnes
    <3> QED
      BY <3>1, <3>2
  <2>2. queue'.success > report'.now => Answerer \in report'.raced
    BY <1>t, <1>1, <1>5, <1>7 DEF RacedOnes
  <2> QED
    BY <2>1, <2>2 DEF RacedOnes
<1> QED
  BY <1>8, <1>10, <1>11, <1>12, <1>13 DEF HealthInv

\* A step that runs nothing.
LEMMA HealthQuiet ==
    ASSUME Diagnosing!HealthAssumption, HealthInv, HealthTypes', Going, clock <= clock', UNCHANGED <<settings, history, changed, report>>,
           queue'.success = queue.success,
           held' = [always |-> held.always \intersect Diagnosing!Troubles', ever |-> held.ever \union Diagnosing!Troubles']
    PROVE  HealthInv'
<1>t. HealthTypes /\ PastOnly /\ Lasting /\ RacedOnes
  BY DEF HealthInv
<1>1. Meanwhile
  BY <1>t DEF Meanwhile, HealthTypes, Reported
<1>2. /\ Going' /\ held'.always \subseteq held.always /\ held.ever \subseteq held'.ever
      /\ held'.always \subseteq Diagnosing!Troubles' /\ Diagnosing!Troubles' \subseteq held'.ever
      /\ NewsTold' /\ Told' /\ AlertsTrue'
  BY <1>1, MeanwhileHolds, HealthConstants
<1>3. PastOnly'
  <2>1. ASSUME NEW instant \in Int, instant <= clock PROVE instant <= clock'
    BY <1>t, <2>1 DEF HealthTypes
  <2>2. queue.success \in Int /\ report.now \in Int /\ \A p \in Program : history[p].success \in Int
    BY <1>t DEF HealthTypes, Queued, Reported
  <2> QED
    BY <1>t, <2>1, <2>2 DEF PastOnly
<1>4. Lasting'
  BY <1>t, <1>2 DEF Lasting
<1>5. RacedOnes'
  BY <1>t DEF RacedOnes, Going
<1> QED
  BY <1>2, <1>3, <1>4, <1>5 DEF HealthInv

LEMMA HeldTypes ==
    ASSUME HealthTypes, held' = [always |-> held.always \intersect Diagnosing!Troubles', ever |-> held.ever \union Diagnosing!Troubles']
    PROVE  held' \in [always : SUBSET AllTroubles, ever : SUBSET AllTroubles]
<1>1. Diagnosing!Troubles' \subseteq AllTroubles
  BY DEF Diagnosing!Troubles, AllTroubles, Answerer, Transport, Diagnosing!Assistant, Diagnosing!Channel, Diagnosing!Cache
<1> QED
  BY <1>1 DEF HealthTypes

LEMMA HealthWork == ASSUME Diagnosing!HealthAssumption, HealthInv, Diagnosing!Work PROVE HealthInv'
<1>1. PICK part \in {"failing", "undelivered", "refused", "deaf", "readable"} :
        queue' = Diagnosing!Counted([queue EXCEPT ![part] = ~@])
  BY DEF Diagnosing!Work
<1>2. /\ UNCHANGED <<clock, settings, history, changed, cache, report>> /\ Going
      /\ held' = [always |-> held.always \intersect Diagnosing!Troubles', ever |-> held.ever \union Diagnosing!Troubles']
  BY DEF Diagnosing!Work, Diagnosing!Happens, Going
<1>3. HealthTypes /\ queue \in Queued
  BY DEF HealthInv, HealthTypes
<1>4. queue' \in Queued /\ queue'.success = queue.success
  <2>1. PICK q : q = [queue EXCEPT ![part] = ~@]
    OBVIOUS
  <2>2. q \in Queued /\ q.success = queue.success
    BY <1>3, <2>1 DEF Queued
  <2>3. queue' = [q EXCEPT !.changes = @ + 1]
    BY <1>1, <2>1 DEF Diagnosing!Counted
  <2> QED
    BY <2>2, <2>3 DEF Queued
<1>5. HealthTypes'
  BY <1>2, <1>3, <1>4, HeldTypes DEF HealthTypes
<1>6. clock <= clock'
  BY <1>2, <1>3 DEF HealthTypes
<1> QED
  BY <1>2, <1>4, <1>5, <1>6, HealthQuiet

LEMMA HealthSkip == ASSUME Diagnosing!HealthAssumption, HealthInv, Diagnosing!Skip PROVE HealthInv'
<1>2. /\ UNCHANGED <<clock, settings, history, changed, report>> /\ Going /\ cache' = ~cache
      /\ queue' = [queue EXCEPT !.changes = @ + 1]
      /\ held' = [always |-> held.always \intersect Diagnosing!Troubles', ever |-> held.ever \union Diagnosing!Troubles']
  BY DEF Diagnosing!Skip, Diagnosing!Happens, Diagnosing!Counted, Going
<1>3. HealthTypes /\ queue \in Queued
  BY DEF HealthInv, HealthTypes
<1>4. queue' \in Queued /\ queue'.success = queue.success
  BY <1>2, <1>3 DEF Queued
<1>5. HealthTypes'
  BY <1>2, <1>3, <1>4, HeldTypes DEF HealthTypes
<1>6. clock <= clock'
  BY <1>2, <1>3 DEF HealthTypes
<1> QED
  BY <1>2, <1>4, <1>5, <1>6, HealthQuiet

LEMMA HealthTick == ASSUME Diagnosing!HealthAssumption, HealthInv, Diagnosing!Tick PROVE HealthInv'
<1>2. /\ UNCHANGED <<cache, settings, history, changed, report, queue>> /\ Going /\ clock' = clock + 1
      /\ held' = [always |-> held.always \intersect Diagnosing!Troubles', ever |-> held.ever \union Diagnosing!Troubles']
  BY DEF Diagnosing!Tick, Going
<1>3. HealthTypes
  BY DEF HealthInv
<1>5. HealthTypes'
  BY <1>2, <1>3, HeldTypes DEF HealthTypes
<1>6. clock <= clock'
  BY <1>2, <1>3 DEF HealthTypes
<1> QED
  BY <1>2, <1>5, <1>6, HealthQuiet

LEMMA HealthScheduling == ASSUME Diagnosing!HealthAssumption, HealthInv, Diagnosing!Scheduling PROVE HealthInv'
<1>t. HealthTypes /\ PastOnly /\ Lasting /\ RacedOnes
  BY DEF HealthInv
<1>1. /\ queue' = [[queue EXCEPT !.success = clock] EXCEPT !.changes = @ + 1]
      /\ report' = [report EXCEPT !.raced = @ \union IF clock > report.now THEN {Answerer} ELSE {}]
      /\ UNCHANGED <<clock, settings, history, changed, cache>>
      /\ Going
      /\ held' = [always |-> held.always \intersect Diagnosing!Troubles', ever |-> held.ever \union Diagnosing!Troubles']
  BY DEF Diagnosing!Scheduling, Diagnosing!Happens, Diagnosing!Counted, Going, Answerer
<1>5. /\ queue' \in Queued /\ queue'.success = clock
  <2>1. PICK q : q = [queue EXCEPT !.success = clock]
    OBVIOUS
  <2>2. q \in Queued /\ q.success = clock
    BY <1>t, <2>1 DEF HealthTypes, Queued
  <2>3. queue' = [q EXCEPT !.changes = @ + 1]
    BY <1>1, <2>1
  <2> QED
    BY <2>2, <2>3 DEF Queued
<1>6. PICK more \in SUBSET {Answerer} :
        /\ more = IF clock > report.now THEN {Answerer} ELSE {}
        /\ report' = [report EXCEPT !.raced = @ \union more]
  BY <1>1
<1>7. /\ report' \in Reported /\ report' = [report EXCEPT !.raced = report'.raced]
      /\ report'.raced = report.raced \union more /\ report'.now = report.now
  BY <1>t, <1>6 DEF HealthTypes, Reported
<1>8. HealthTypes'
  BY <1>t, <1>1, <1>5, <1>7, HeldTypes DEF HealthTypes
<1>9. Meanwhile
  BY <1>t, <1>1, <1>7 DEF Meanwhile, HealthTypes
<1>10. /\ Going' /\ held'.always \subseteq held.always /\ held.ever \subseteq held'.ever
       /\ held'.always \subseteq Diagnosing!Troubles' /\ Diagnosing!Troubles' \subseteq held'.ever
       /\ NewsTold' /\ Told' /\ AlertsTrue'
  BY <1>8, <1>9, MeanwhileHolds, HealthConstants
<1>11. PastOnly'
  BY <1>t, <1>1, <1>5, <1>7 DEF PastOnly, HealthTypes
<1>12. Lasting'
  <2>1. <<Answerer, "late">> \notin held'.always
    <3>1. TroublesAre'
      BY <1>8, TroublesKnownNext
    <3>2. ~OldAt(queue.success, Every)' \/ clock = -1
      BY <1>t, <1>1, <1>5, HealthConstants DEF OldAt, HealthTypes
    <3>3. <<Answerer, "late">> \in Diagnosing!Troubles' => OldAt(queue.success, Every)'
      BY <3>1, HealthConstants DEF TroublesAre
    <3> QED
      BY <1>t, <1>10, <3>2, <3>3 DEF HealthTypes
  <2> QED
    BY <1>t, <1>1, <1>7, <1>10, <2>1 DEF Lasting
<1>13. RacedOnes'
  BY <1>t, <1>1, <1>5, <1>6, <1>7 DEF RacedOnes
<1> QED
  BY <1>8, <1>10, <1>11, <1>12, <1>13 DEF HealthInv

\* The report reads something.
Looking ==
    /\ Going /\ UNCHANGED <<clock, settings, history, changed, queue, cache, held>>
    /\ report' \in Reported /\ report'.now = report.now /\ report'.raced = report.raced

LEMMA LookingKeeps ==
    ASSUME HealthInv, Looking
    PROVE  HealthTypes' /\ PastOnly' /\ Lasting' /\ RacedOnes' /\ (\A w : Ever(w)' <=> Ever(w))
<1>1. HealthTypes /\ PastOnly /\ Lasting /\ RacedOnes
  BY DEF HealthInv
<1>2. Diagnosing!Troubles' = Diagnosing!Troubles
  BY DEF Looking, Diagnosing!Troubles, Diagnosing!Enabled, Diagnosing!Old
<1>3. HealthTypes'
  BY <1>1 DEF Looking, HealthTypes
<1>4. PastOnly' /\ RacedOnes' /\ Lasting'
  BY <1>1, <1>2 DEF Looking, PastOnly, RacedOnes, Lasting
<1>5. \A w : Ever(w)' <=> Ever(w)
  BY DEF Looking, Ever
<1> QED
  BY <1>3, <1>4, <1>5

LEMMA HealthReadCache == ASSUME Diagnosing!HealthAssumption, HealthInv, Diagnosing!ReadCache PROVE HealthInv'
<1>t. /\ HealthTypes /\ PastOnly /\ Lasting /\ AlertsTrue /\ TroublesAre /\ Answerer \notin Program
      /\ SilentAfter \in Nat /\ clock \in Nat /\ report.now \in Nat /\ report.now <= clock
  BY TroublesKnown, HealthConstants DEF HealthInv, HealthTypes, PastOnly, Reported
<1>1. /\ report.at = "cache" /\ report' = [report EXCEPT !.at = "programs", !.problem = ~cache, !.news = changed]
      /\ UNCHANGED <<clock, settings, history, changed, queue, cache, held>>
  BY DEF Diagnosing!ReadCache
<1>2. /\ report' \in Reported /\ report'.now = report.now /\ report'.raced = report.raced /\ report'.at = "programs"
      /\ report'.problem = ~cache /\ report'.news = changed /\ report'.alerts = report.alerts
      /\ report'.refusing = report.refusing /\ report'.deaf = report.deaf
  BY <1>t, <1>1 DEF HealthTypes, Reported
<1>3. Looking
  BY <1>1, <1>2 DEF Looking, Going
<1>4. HealthTypes' /\ PastOnly' /\ Lasting' /\ RacedOnes' /\ (\A w : Ever(w)' <=> Ever(w))
  BY <1>3, LookingKeeps
<1>5. NewsTold'
  <2>1. ASSUME NEW p \in Program, <<p, "silent">> \in held.always
        PROVE  changed[p] # -1 /\ report.now - changed[p] > SilentAfter
    BY <1>t, <1>1, <2>1 DEF Lasting, Going
  <2>2. ASSUME NEW p \in Program, p \in Sensor, settings[p] = "active", changed[p] # -1,
               report.now - changed[p] > SilentAfter
        PROVE  Ever(p)
    <3>1. clock > changed[p] + SilentAfter
      BY <1>t, <2>2 DEF HealthTypes
    <3>2. <<p, "late">> \in Diagnosing!Troubles \/ <<p, "silent">> \in Diagnosing!Troubles
      BY <1>t, <2>2, <3>1 DEF TroublesAre, OldAt
    <3> QED
      BY <1>t, <1>1, <3>2 DEF Lasting, Going, Ever
  <2> QED
    BY <1>1, <1>2, <1>4, <2>1, <2>2 DEF NewsTold
<1>6. Told'
  <2>1. <<Diagnosing!Cache, "skipped">> \in held.always => ~cache
    BY <1>t, <1>1 DEF Lasting, Going, TroublesAre
  <2> QED
    BY <1>1, <1>2, <2>1 DEF Told
<1>7. AlertsTrue'
  BY <1>t, <1>2, <1>4 DEF AlertsTrue
<1> QED
  BY <1>4, <1>5, <1>6, <1>7 DEF HealthInv

LEMMA HealthReadPrograms == ASSUME Diagnosing!HealthAssumption, HealthInv, Diagnosing!ReadPrograms PROVE HealthInv'
<1>t. /\ HealthTypes /\ PastOnly /\ Lasting /\ RacedOnes /\ NewsTold /\ Told /\ AlertsTrue /\ TroublesAre /\ Answerer \notin Program
      /\ SilentAfter \in Nat /\ Refresh \in Nat /\ clock \in Nat /\ report.now \in Nat /\ report.now <= clock
  BY TroublesKnown, HealthConstants DEF HealthInv, HealthTypes, PastOnly, Reported
<1>0. PICK some \in SUBSET Program :
        some = {p \in Program : Diagnosing!ProgramNeedsAttention(p, settings[p], history[p], report.news[p], report.now)}
  OBVIOUS
<1>1. /\ report.at = "programs" /\ report' = [report EXCEPT !.at = "assistants", !.alerts = some]
      /\ UNCHANGED <<clock, settings, history, changed, queue, cache, held>>
  BY <1>0 DEF Diagnosing!ReadPrograms
<1>2. /\ report' \in Reported /\ report'.now = report.now /\ report'.raced = report.raced /\ report'.at = "assistants"
      /\ report'.problem = report.problem /\ report'.alerts = some
      /\ report'.refusing = report.refusing /\ report'.deaf = report.deaf
  BY <1>t, <1>1 DEF HealthTypes, Reported
<1>3. Looking
  BY <1>1, <1>2 DEF Looking, Going
<1>4. HealthTypes' /\ PastOnly' /\ Lasting' /\ RacedOnes' /\ (\A w : Ever(w)' <=> Ever(w))
  BY <1>3, LookingKeeps
<1>5. ASSUME NEW p \in Program
      PROVE  p \in some <=>
               (settings[p] = "active" /\
                  (\/ history[p].failed
                   \/ history[p].success = -1
                   \/ report.now - history[p].success \notin 0..(2 * Refresh)
                   \/ (/\ p \in Sensor /\ history[p].success # -1 /\ report.news[p] # -1
                       /\ report.now - report.news[p] > SilentAfter)))
  BY <1>0 DEF Diagnosing!ProgramNeedsAttention, Diagnosing!Scheduled, Diagnosing!Late, Diagnosing!Freshness, Diagnosing!Silent, Diagnosing!Never
<1>6. ASSUME NEW p \in Program, NEW r \in {"failed", "late", "silent"}, <<p, r>> \in held.always
      PROVE  p \in some
  <2>1. <<p, r>> \in Diagnosing!Troubles
    BY <1>t, <1>1, <1>6 DEF Lasting, Going
  <2>2. history[p].success \in Int
    BY <1>t DEF HealthTypes
  <2>3. CASE r = "failed"
    BY <1>t, <1>5, <2>1, <2>3 DEF TroublesAre
  <2>4. CASE r = "late"
    <3>1. settings[p] = "active"
      BY <1>t, <2>1, <2>4 DEF TroublesAre
    <3>2. history[p].success = -1 \/ report.now > history[p].success + 2 * Refresh
      BY <1>t, <1>1, <1>6, <2>4 DEF Lasting, Going
    <3>3. history[p].success = -1 \/ report.now - history[p].success \notin 0..(2 * Refresh)
      BY <1>t, <2>2, <3>2
    <3> QED
      BY <1>5, <3>1, <3>3
  <2>5. CASE r = "silent"
    <3>1. settings[p] = "active" /\ p \in Sensor /\ history[p].success # -1
      BY <1>t, <2>1, <2>5 DEF TroublesAre
    <3>2. report.news[p] # -1 /\ report.now - report.news[p] > SilentAfter
      BY <1>t, <1>1, <1>6, <2>5 DEF NewsTold
    <3> QED
      BY <1>5, <3>1, <3>2
  <2> QED
    BY <2>3, <2>4, <2>5
<1>7. ASSUME NEW p \in some PROVE Ever(p) \/ p \in report.raced
  <2>0. p \in Program /\ settings[p] = "active" /\ history[p].success \in Int
    BY <1>t, <1>5 DEF HealthTypes
  <2>1. \A r : <<p, r>> \in Diagnosing!Troubles => Ever(p)
    BY <1>t, <1>1 DEF Lasting, Going, Ever
  <2>2. CASE history[p].failed
    <3>1. <<p, "failed">> \in Diagnosing!Troubles
      BY <1>t, <2>0, <2>2 DEF TroublesAre
    <3> QED
      BY <2>1, <3>1
  <2>3. CASE history[p].success = -1
    <3>1. <<p, "late">> \in Diagnosing!Troubles
      BY <1>t, <2>0, <2>3 DEF TroublesAre, OldAt
    <3> QED
      BY <2>1, <3>1
  <2>4. CASE report.now - history[p].success \notin 0..(2 * Refresh)
    <3>1. CASE history[p].success > report.now
      BY <1>t, <1>1, <2>0, <3>1 DEF RacedOnes, Going
    <3>2. CASE history[p].success <= report.now
      <4>1. clock \notin history[p].success..(history[p].success + 2 * Refresh)
        BY <1>t, <2>0, <2>4, <3>2
      <4>2. <<p, "late">> \in Diagnosing!Troubles
        BY <1>t, <2>0, <4>1 DEF TroublesAre, OldAt
      <4> QED
        BY <2>1, <4>2
    <3> QED
      BY <1>t, <2>0, <3>1, <3>2
  <2>5. CASE p \in Sensor /\ report.news[p] # -1 /\ report.now - report.news[p] > SilentAfter
    BY <1>t, <1>1, <2>0, <2>5 DEF NewsTold
  <2> QED
    BY <1>5, <2>0, <2>2, <2>3, <2>4, <2>5
<1>8. NewsTold'
  BY <1>2 DEF NewsTold
<1>9. Told'
  BY <1>t, <1>1, <1>2, <1>6 DEF Told
<1>10. AlertsTrue'
  BY <1>t, <1>2, <1>4, <1>7 DEF AlertsTrue
<1> QED
  BY <1>4, <1>8, <1>9, <1>10 DEF HealthInv

LEMMA HealthReadAssistants == ASSUME Diagnosing!HealthAssumption, Simple, HealthInv, Diagnosing!ReadAssistants PROVE HealthInv'
<1>t. /\ HealthTypes /\ PastOnly /\ Lasting /\ RacedOnes /\ Told /\ AlertsTrue /\ TroublesAre /\ Answerer \notin Program
      /\ Every \in Nat /\ clock \in Nat /\ report.now \in Nat /\ report.now <= clock
      /\ queue.success \in Int /\ queue.failing \in BOOLEAN /\ queue.readable \in BOOLEAN
  BY TroublesKnown, HealthConstants DEF HealthInv, HealthTypes, PastOnly, Reported, Queued
<1>0. PICK some \in SUBSET {Answerer} : some = {a \in {Answerer} : Diagnosing!AssistantNeedsAttention(settings[a], queue, report.now)}
  OBVIOUS
<1>1. /\ report.at = "assistants" /\ report' = [report EXCEPT !.at = "queue", !.alerts = @ \union some]
      /\ UNCHANGED <<clock, settings, history, changed, queue, cache, held>>
  BY <1>0 DEF Diagnosing!ReadAssistants, Answerer
<1>2. /\ report' \in Reported /\ report'.now = report.now /\ report'.raced = report.raced /\ report'.at = "queue"
      /\ report'.problem = report.problem /\ report'.alerts = report.alerts \union some
      /\ report'.refusing = report.refusing /\ report'.deaf = report.deaf
  BY <1>t, <1>1 DEF HealthTypes, Reported
<1>3. Looking
  BY <1>1, <1>2 DEF Looking, Going
<1>4. HealthTypes' /\ PastOnly' /\ Lasting' /\ RacedOnes' /\ (\A w : Ever(w)' <=> Ever(w))
  BY <1>3, LookingKeeps
<1>5. Answerer \in some <=>
        (settings[Answerer] \in {"active", "manual"} /\
           (\/ ~queue.readable \/ queue.failing
            \/ settings[Answerer] = "active" /\ (queue.success = -1 \/ report.now - queue.success \notin 0..(2 * Every))))
  <2>1. At = Diagnosing!Timer!Anytime /\ Days = 0..(Diagnosing!Timer!Week - 1)
    BY DEF Simple, Diagnosing!Timer!Anytime, Diagnosing!Timer!Week
  <2> QED
    BY <1>0, <2>1 DEF Diagnosing!AssistantNeedsAttention, Diagnosing!Late, Diagnosing!ScheduleFreshness, Diagnosing!Never
<1>6. ASSUME NEW r \in {"late", "unread"}, <<Answerer, r>> \in held.always
      PROVE  Answerer \in some
  <2>1. <<Answerer, r>> \in Diagnosing!Troubles
    BY <1>t, <1>1, <1>6 DEF Lasting, Going
  <2>3. CASE r = "unread"
    BY <1>t, <1>5, <2>1, <2>3 DEF TroublesAre
  <2>4. CASE r = "late"
    <3>1. settings[Answerer] = "active"
      BY <1>t, <2>1, <2>4 DEF TroublesAre
    <3>2. queue.success = -1 \/ report.now > queue.success + 2 * Every
      BY <1>t, <1>1, <1>6, <2>4 DEF Lasting, Going
    <3>3. queue.success = -1 \/ report.now - queue.success \notin 0..(2 * Every)
      BY <1>t, <3>2
    <3> QED
      BY <1>5, <3>1, <3>3
  <2> QED
    BY <2>3, <2>4
<1>7. ASSUME Answerer \in some PROVE Ever(Answerer) \/ Answerer \in report.raced
  <2>1. \A r : <<Answerer, r>> \in Diagnosing!Troubles => Ever(Answerer)
    BY <1>t, <1>1 DEF Lasting, Going, Ever
  <2>2. CASE ~queue.readable
    <3>1. <<Answerer, "unread">> \in Diagnosing!Troubles
      BY <1>t, <1>5, <1>7, <2>2 DEF TroublesAre
    <3> QED
      BY <2>1, <3>1
  <2>3. CASE queue.failing
    <3>1. <<Answerer, "failed">> \in Diagnosing!Troubles
      BY <1>t, <1>5, <1>7, <2>3 DEF TroublesAre
    <3> QED
      BY <2>1, <3>1
  <2>4. CASE settings[Answerer] = "active" /\ queue.success = -1
    <3>1. <<Answerer, "late">> \in Diagnosing!Troubles
      BY <1>t, <2>4 DEF TroublesAre, OldAt
    <3> QED
      BY <2>1, <3>1
  <2>5. CASE settings[Answerer] = "active" /\ report.now - queue.success \notin 0..(2 * Every)
    <3>1. CASE queue.success > report.now
      BY <1>t, <1>1, <3>1 DEF RacedOnes, Going
    <3>2. CASE queue.success <= report.now
      <4>1. clock \notin queue.success..(queue.success + 2 * Every)
        BY <1>t, <2>5, <3>2
      <4>2. <<Answerer, "late">> \in Diagnosing!Troubles
        BY <1>t, <2>5, <4>1 DEF TroublesAre, OldAt
      <4> QED
        BY <2>1, <4>2
    <3> QED
      BY <1>t, <3>1, <3>2
  <2> QED
    BY <1>5, <1>7, <2>2, <2>3, <2>4, <2>5
<1>8. NewsTold'
  BY <1>2 DEF NewsTold
<1>9. Told'
  BY <1>t, <1>1, <1>2, <1>6 DEF Told
<1>10. AlertsTrue'
  BY <1>t, <1>2, <1>4, <1>7 DEF AlertsTrue
<1> QED
  BY <1>4, <1>8, <1>9, <1>10 DEF HealthInv

LEMMA HealthReadHealth == ASSUME Diagnosing!HealthAssumption, HealthInv, Diagnosing!ReadHealth PROVE HealthInv'
<1>t. /\ HealthTypes /\ PastOnly /\ Lasting /\ Told /\ AlertsTrue /\ TroublesAre /\ Answerer \notin Program
      /\ queue.refused \in BOOLEAN /\ queue.deaf \in BOOLEAN /\ queue.readable \in BOOLEAN
  BY TroublesKnown, HealthConstants DEF HealthInv, HealthTypes, Queued
<1>1. /\ report.at = "queue" /\ UNCHANGED <<clock, settings, history, changed, queue, cache, held>>
      /\ \/ /\ queue.readable
            /\ report' = [report EXCEPT !.at = "failing", !.refusing = Diagnosing!Refusing(settings[Answerer], queue),
                                        !.deaf = Diagnosing!Deaf(settings[Answerer], queue)]
         \/ report' = [report EXCEPT !.at = "done", !.problem = TRUE]
  BY DEF Diagnosing!ReadHealth, Answerer
<1>2. CASE report' = [report EXCEPT !.at = "done", !.problem = TRUE]
  <2>1. /\ report' \in Reported /\ report'.now = report.now /\ report'.raced = report.raced /\ report'.at = "done"
        /\ report'.problem = TRUE /\ report'.alerts = report.alerts
        /\ report'.refusing = report.refusing /\ report'.deaf = report.deaf
    BY <1>t, <1>2 DEF HealthTypes, Reported
  <2>2. Looking
    BY <1>1, <2>1 DEF Looking, Going
  <2>3. HealthTypes' /\ PastOnly' /\ Lasting' /\ RacedOnes' /\ (\A w : Ever(w)' <=> Ever(w))
    BY <2>2, LookingKeeps
  <2>4. NewsTold' /\ Told' /\ AlertsTrue'
    BY <1>t, <1>1, <2>1, <2>3 DEF NewsTold, Told, AlertsTrue
  <2> QED
    BY <2>3, <2>4 DEF HealthInv
<1>3. CASE /\ queue.readable
           /\ report' = [report EXCEPT !.at = "failing", !.refusing = Diagnosing!Refusing(settings[Answerer], queue),
                                       !.deaf = Diagnosing!Deaf(settings[Answerer], queue)]
  <2>0. PICK refusing \in BOOLEAN, deaf \in BOOLEAN :
          /\ refusing = Diagnosing!Refusing(settings[Answerer], queue) /\ deaf = Diagnosing!Deaf(settings[Answerer], queue)
          /\ report' = [report EXCEPT !.at = "failing", !.refusing = refusing, !.deaf = deaf]
          /\ refusing <=> (queue.refused /\ settings[Answerer] \in {"active", "manual"})
          /\ deaf <=> (queue.deaf /\ settings[Answerer] \in {"active", "manual"})
    BY <1>t, <1>3 DEF Diagnosing!Refusing, Diagnosing!Deaf
  <2>1. /\ report' \in Reported /\ report'.now = report.now /\ report'.raced = report.raced /\ report'.at = "failing"
        /\ report'.problem = report.problem /\ report'.alerts = report.alerts
        /\ report'.refusing = refusing /\ report'.deaf = deaf
    BY <1>t, <2>0 DEF HealthTypes, Reported
  <2>2. Looking
    BY <1>1, <2>1 DEF Looking, Going
  <2>3. HealthTypes' /\ PastOnly' /\ Lasting' /\ RacedOnes' /\ (\A w : Ever(w)' <=> Ever(w))
    BY <2>2, LookingKeeps
  <2>4. /\ <<Answerer, "refused">> \in held.always => refusing
        /\ <<Transport, "deaf">> \in held.always => deaf
    BY <1>t, <1>1, <2>0 DEF Lasting, Going, TroublesAre
  <2>5. (refusing => Ever(Answerer)) /\ (deaf => Ever(Transport))
    <3>1. refusing => <<Answerer, "refused">> \in held.ever
      BY <1>t, <1>1, <2>0 DEF Lasting, Going, TroublesAre
    <3>2. deaf => <<Transport, "deaf">> \in held.ever
      BY <1>t, <1>1, <2>0 DEF Lasting, Going, TroublesAre
    <3> QED
      BY <3>1, <3>2 DEF Ever
  <2>6. NewsTold' /\ Told'
    BY <1>t, <1>1, <2>1, <2>4 DEF NewsTold, Told
  <2>7. AlertsTrue'
    BY <1>t, <2>1, <2>3, <2>5 DEF AlertsTrue
  <2> QED
    BY <2>3, <2>6, <2>7 DEF HealthInv
<1> QED
  BY <1>1, <1>2, <1>3

LEMMA HealthReadFailing == ASSUME Diagnosing!HealthAssumption, HealthInv, Diagnosing!ReadFailing PROVE HealthInv'
<1>t. /\ HealthTypes /\ PastOnly /\ Lasting /\ Told /\ AlertsTrue /\ TroublesAre /\ Answerer \notin Program
      /\ queue.failing \in BOOLEAN /\ queue.undelivered \in BOOLEAN
      /\ report.refusing \in BOOLEAN /\ report.deaf \in BOOLEAN
  BY TroublesKnown, HealthConstants DEF HealthInv, HealthTypes, Queued, Reported
<1>0. PICK some \in SUBSET {Answerer}, more \in SUBSET {Transport} :
        /\ some = {a \in {Answerer} : Diagnosing!FailingJobs(settings[a], queue) \/ report.refusing}
        /\ more = {c \in {Transport} : queue.undelivered \/ report.deaf}
  OBVIOUS
<1>1. /\ report.at = "failing" /\ UNCHANGED <<clock, settings, history, changed, queue, cache, held>>
      /\ \/ report' = [report EXCEPT !.at = "done", !.alerts = @ \union some \union more]
         \/ report' = [report EXCEPT !.at = "done", !.problem = TRUE]
  BY <1>0 DEF Diagnosing!ReadFailing, Answerer, Transport
<1>2. CASE report' = [report EXCEPT !.at = "done", !.problem = TRUE]
  <2>1. /\ report' \in Reported /\ report'.now = report.now /\ report'.raced = report.raced /\ report'.at = "done"
        /\ report'.problem = TRUE /\ report'.alerts = report.alerts
        /\ report'.refusing = report.refusing /\ report'.deaf = report.deaf
    BY <1>t, <1>2 DEF HealthTypes, Reported
  <2>2. Looking
    BY <1>1, <2>1 DEF Looking, Going
  <2>3. HealthTypes' /\ PastOnly' /\ Lasting' /\ RacedOnes' /\ (\A w : Ever(w)' <=> Ever(w))
    BY <2>2, LookingKeeps
  <2>4. NewsTold' /\ Told' /\ AlertsTrue'
    BY <1>t, <1>1, <2>1, <2>3 DEF NewsTold, Told, AlertsTrue
  <2> QED
    BY <2>3, <2>4 DEF HealthInv
<1>3. CASE report' = [report EXCEPT !.at = "done", !.alerts = @ \union some \union more]
  <2>1. /\ report' \in Reported /\ report'.now = report.now /\ report'.raced = report.raced /\ report'.at = "done"
        /\ report'.problem = report.problem /\ report'.alerts = report.alerts \union some \union more
        /\ report'.refusing = report.refusing /\ report'.deaf = report.deaf
    BY <1>t, <1>3 DEF HealthTypes, Reported
  <2>2. Looking
    BY <1>1, <2>1 DEF Looking, Going
  <2>3. HealthTypes' /\ PastOnly' /\ Lasting' /\ RacedOnes' /\ (\A w : Ever(w)' <=> Ever(w))
    BY <2>2, LookingKeeps
  <2>4. /\ Answerer \in some <=> (queue.failing /\ settings[Answerer] # "disabled") \/ report.refusing
        /\ Transport \in more <=> queue.undelivered \/ report.deaf
    BY <1>0 DEF Diagnosing!FailingJobs
  <2>5. ASSUME NEW r \in {"failed", "refused", "late", "unread"}, <<Answerer, r>> \in held.always
        PROVE  Answerer \in report.alerts \/ Answerer \in some
    <3>1. CASE r = "failed"
      BY <1>t, <1>1, <2>4, <2>5, <3>1 DEF Lasting, Going, TroublesAre
    <3>2. CASE r # "failed"
      BY <1>t, <1>1, <2>4, <2>5, <3>2 DEF Told
    <3> QED
      BY <3>1, <3>2
  <2>6. ASSUME NEW r \in {"undelivered", "deaf"}, <<Transport, r>> \in held.always
        PROVE  Transport \in more
    <3>1. CASE r = "undelivered"
      BY <1>t, <1>1, <2>4, <2>6, <3>1 DEF Lasting, Going, TroublesAre
    <3>2. CASE r = "deaf"
      BY <1>t, <1>1, <2>4, <2>6, <3>2 DEF Told
    <3> QED
      BY <3>1, <3>2
  <2>7. Answerer \in some => Ever(Answerer)
    <3>1. CASE queue.failing /\ settings[Answerer] # "disabled"
      <4>1. <<Answerer, "failed">> \in held.ever
        BY <1>t, <1>1, <3>1 DEF Lasting, Going, TroublesAre
      <4> QED
        BY <4>1 DEF Ever
    <3>2. CASE report.refusing
      BY <1>t, <3>2 DEF AlertsTrue
    <3> QED
      BY <2>4, <3>1, <3>2
  <2>8. Transport \in more => Ever(Transport)
    <3>1. CASE queue.undelivered
      <4>1. <<Transport, "undelivered">> \in held.ever
        BY <1>t, <1>1, <3>1 DEF Lasting, Going, TroublesAre
      <4> QED
        BY <4>1 DEF Ever
    <3>2. CASE report.deaf
      BY <1>t, <3>2 DEF AlertsTrue
    <3> QED
      BY <2>4, <3>1, <3>2
  <2>9. NewsTold' /\ Told'
    BY <1>t, <1>1, <2>1, <2>5, <2>6 DEF NewsTold, Told
  <2>10. AlertsTrue'
    BY <1>t, <2>1, <2>3, <2>7, <2>8 DEF AlertsTrue
  <2> QED
    BY <2>3, <2>9, <2>10 DEF HealthInv
<1> QED
  BY <1>1, <1>2, <1>3

LEMMA HealthStep ==
    ASSUME Diagnosing!HealthAssumption, Simple
    PROVE  HealthInv /\ [Diagnosing!Next]_Diagnosing!vars => HealthInv'
<1>1. ASSUME HealthInv, UNCHANGED Diagnosing!vars PROVE HealthInv'
  <2>1. UNCHANGED <<clock, settings, history, changed, queue, cache, report, held>>
    BY <1>1 DEF Diagnosing!vars
  <2>2. Diagnosing!Troubles' = Diagnosing!Troubles
    BY <2>1 DEF Diagnosing!Troubles, Diagnosing!Enabled, Diagnosing!Old
  <2>3. HealthTypes' /\ PastOnly' /\ Lasting' /\ RacedOnes'
    BY <1>1, <2>1, <2>2 DEF HealthInv, HealthTypes, PastOnly, Lasting, RacedOnes, Going
  <2>4. NewsTold' /\ Told' /\ AlertsTrue'
    BY <1>1, <2>1 DEF HealthInv, NewsTold, Told, AlertsTrue, Ever
  <2> QED
    BY <2>3, <2>4 DEF HealthInv
<1>2. ASSUME HealthInv, Diagnosing!Next PROVE HealthInv'
  BY <1>2, HealthBegin, HealthReadCache, HealthReadPrograms, HealthReadAssistants, HealthReadHealth,
     HealthReadFailing, HealthRan, HealthScheduling, HealthWork, HealthSkip, HealthTick DEF Diagnosing!Next
<1> QED
  BY <1>1, <1>2

\* In every reachable state what the report told so far is what lasted, and
\* what it told needed attention at some time of it.
THEOREM HealthInvariance ==
    ASSUME Diagnosing!HealthAssumption, Simple
    PROVE  Diagnosing!Spec => []HealthInv
<1>1. Diagnosing!Init => HealthInv
  BY HealthInit
<1>2. HealthInv /\ [Diagnosing!Next]_Diagnosing!vars => HealthInv'
  BY HealthStep
<1> QED
  BY <1>1, <1>2, PTL DEF Diagnosing!Spec

\* Whatever runs, fails and is resolved between the reads of bf status, and
\* however long they take, what needs attention all along is in the report and
\* makes it unhealthy, and what it reports needed attention at some time of it;
\* of an assistant whose schedule has no time of day and no days, since otherwise
\* the run LateUntold refutes it (health.py: report).
THEOREM TroubleStaysTold ==
    ASSUME Diagnosing!HealthAssumption, Simple
    PROVE  Diagnosing!Spec => []Diagnosing!TroubleIsTold
<1>1. ASSUME HealthInv PROVE Diagnosing!TroubleIsTold
  <2> SUFFICES ASSUME report.at = "done"
               PROVE  /\ held.always # {} => ~Diagnosing!Healthy
                      /\ Diagnosing!Who(held.always) \subseteq report.alerts \union IF report.problem THEN {Answerer, Transport, Diagnosing!Cache} ELSE {}
                      /\ report.alerts \subseteq Diagnosing!Who(held.ever) \union report.raced
    BY DEF Diagnosing!TroubleIsTold, Answerer, Transport
  <2>1. Told /\ AlertsTrue /\ held.always \subseteq AllTroubles
    BY <1>1 DEF HealthInv, HealthTypes
  <2>2. ASSUME NEW t \in held.always
        PROVE  t[1] \in report.alerts \/ (report.problem /\ t[1] \in {Answerer, Transport, Diagnosing!Cache})
    <3>1. CASE t \in Program \X {"failed", "late", "silent"}
      <4>1. PICK p \in Program, r \in {"failed", "late", "silent"} : t = <<p, r>>
        BY <3>1
      <4> QED
        BY <2>1, <2>2, <4>1 DEF Told
    <3>2. CASE t \in {Answerer} \X {"failed", "refused", "late", "unread"}
      BY <2>1, <2>2, <3>2 DEF Told
    <3>3. CASE t \in {Transport} \X {"undelivered", "deaf"}
      BY <2>1, <2>2, <3>3 DEF Told
    <3>4. CASE t = <<Diagnosing!Cache, "skipped">>
      BY <2>1, <2>2, <3>4 DEF Told
    <3> QED
      BY <2>1, <2>2, <3>1, <3>2, <3>3, <3>4 DEF AllTroubles
  <2>3. held.always # {} => ~Diagnosing!Healthy
    BY <2>2 DEF Diagnosing!Healthy
  <2>4. \A w \in report.alerts : Ever(w) \/ w \in report.raced
    BY <2>1 DEF AlertsTrue
  <2>5. \A w : Ever(w) => w \in Diagnosing!Who(held.ever)
    BY DEF Ever, Diagnosing!Who
  <2> QED
    BY <2>2, <2>3, <2>4, <2>5 DEF Diagnosing!Who
<1> QED
  BY <1>1, HealthInvariance, PTL

=============================================================================
