----------------------------- MODULE QueueSpace -----------------------------
(***************************************************************************)
(* The room of the assistant queue (runtime.py: reserve, put, send, claim, *)
(* answer, prepare, finish, fail, retry, trim).  Admission fills half of   *)
(* it; a started job reserves, from all of it, the most its answer may     *)
(* still write.  Bytes are counted in coarse units.                        *)
(***************************************************************************)
EXTENDS Naturals, FiniteSets, Functions

CONSTANTS
    Job,             \* jobs and direct messages, in the order of their creation
    Direct,          \* the direct messages: a delivery without a job
    Routes,          \* deliveries one job may fan out to
    MaxBytes,        \* max_bytes of the assistant: its longest answer
    Escape,          \* how far JSON escaping lengthens an answer
    Limit,           \* _limit()
    BODY_BUDGET, MAX_PENDING

\* What the constants must satisfy; the instances assume it.
QueueSpaceAssumption ==
    /\ Job \subseteq Nat /\ IsFiniteSet(Job) /\ Direct \subseteq Job
    /\ {Routes, MaxBytes, Escape, Limit, BODY_BUDGET, MAX_PENDING} \subseteq Nat

VARIABLES
    state,     \* the state column; a direct message has none: "sent"
    raw,       \* size of the raw column
    prepared,  \* jobs whose record and deliveries are stored
    open,      \* open[j]: its deliveries neither delivered nor cancelled
    kept       \* rows whose bodies are still stored, for jobs and deliveries

vars == <<state, raw, prepared, open, kept>>

Payload == 1
Settled == {"complete", "cancelled"}
Working == {"running", "answered"}
Unresolved == {"failed", "uncertain", "pending"}
Rows == {"job", "deliveries"}

TypeOK ==
    /\ state \in [Job -> {"absent", "sent", "prepared"} \cup Settled \cup Working \cup Unresolved]
    /\ raw \in [Job -> 0..MaxBytes] /\ open \in [Job -> 0..Routes]
    /\ prepared \subseteq Job /\ kept \subseteq Job \X Rows

Init ==
    /\ state = [j \in Job |-> "absent"]
    /\ raw = [j \in Job |-> 0] /\ open = [j \in Job |-> 0]
    /\ prepared = {} /\ kept = {}

-----------------------------------------------------------------------------
(* What is stored and what is reserved. *)

Message(size) == Escape * size + Payload
AnswerSpace(size) == size + (1 + Routes) * Message(size)

Fan(j) == IF j \in Direct THEN 1 ELSE Routes
JobBytes ==
    [j \in Job |-> IF j \in Direct THEN 0
                   ELSE Payload + raw[j] + IF j \in prepared THEN Message(raw[j]) ELSE 0]
DeliveryBytes == [j \in Job |-> IF j \in prepared THEN Fan(j) * Message(raw[j]) ELSE 0]
Total(set, sizes) == SumFunctionOnSet(sizes, set)

Keeps(rows) == {j \in Job : <<j, rows>> \in kept}
Stored == Total(Keeps("job"), JobBytes) + Total(Keeps("deliveries"), DeliveryBytes)
Reserved == [j \in Job |-> AnswerSpace(IF state[j] = "running" THEN MaxBytes ELSE raw[j])]
Used == Stored + Total({j \in Job : state[j] \in Working}, Reserved)

\* trim: the newest settled bodies, up to a budget for each table, and never
\* those of a job with an unresolved delivery.
Over(set, bytes) == {j \in set : Total({k \in set : k >= j}, bytes) > BODY_BUDGET}
TrimmedOf(states, unresolved) ==
    LET jobs == {j \in Keeps("job") : states[j] \in Settled}
        sends == {j \in Keeps("deliveries") : unresolved[j] = 0}
    IN  kept \ ({<<j, "job">> : j \in {k \in Over(jobs, JobBytes) : unresolved[k] = 0}}
                 \cup {<<j, "deliveries">> : j \in Over(sends, DeliveryBytes)})
Trimmed == TrimmedOf(state, open)
TrimmedUsed ==
    Used - Total({j \in Keeps("job") : <<j, "job">> \notin Trimmed}, JobBytes)
         - Total({j \in Keeps("deliveries") : <<j, "deliveries">> \notin Trimmed}, DeliveryBytes)

Slots ==
    Total({j \in Job : state[j] \notin Settled \cup {"absent", "sent"}}, [j \in Job |-> 1 + Routes])
    + Total({j \in Job : state[j] \in Settled \cup {"sent"}}, open)

\* reserve: compact only when that is needed; a refusal undoes it.
Admits(slots, size, ceiling) ==
    /\ slots > 0 => Slots + slots <= MAX_PENDING
    /\ Used + size <= ceiling \/ TrimmedUsed + size <= ceiling
Compacted(size, ceiling) == IF Used + size <= ceiling THEN kept ELSE Trimmed

-----------------------------------------------------------------------------

Oldest(j) == \A k \in Job : k < j => state[k] # "absent"

Put(j) ==
    /\ state[j] = "absent" /\ Oldest(j) /\ j \notin Direct
    /\ Admits(1 + Routes, 2 * Payload, Limit \div 2)
    /\ state' = [state EXCEPT ![j] = "pending"]
    /\ kept' = Compacted(2 * Payload, Limit \div 2) \cup {<<j, "job">>}
    /\ UNCHANGED <<raw, prepared, open>>

Send(j) ==
    /\ state[j] = "absent" /\ Oldest(j) /\ j \in Direct
    /\ Admits(1, 2 * Payload, Limit \div 2)
    /\ state' = [state EXCEPT ![j] = "sent"]
    /\ open' = [open EXCEPT ![j] = 1]
    /\ prepared' = prepared \cup {j}
    /\ kept' = Compacted(2 * Payload, Limit \div 2) \cup {<<j, "deliveries">>}
    /\ UNCHANGED raw

Claim(j) ==
    /\ state[j] = "pending"
    /\ AnswerSpace(MaxBytes) <= Limit - Limit \div 2
    /\ Admits(0, AnswerSpace(MaxBytes), Limit)
    /\ state' = [state EXCEPT ![j] = "running"]
    /\ kept' = Compacted(AnswerSpace(MaxBytes), Limit)
    /\ UNCHANGED <<raw, prepared, open>>

Answer(j) ==
    /\ state[j] = "running"
    /\ \E size \in 1..MaxBytes : raw' = [raw EXCEPT ![j] = size]
    /\ state' = [state EXCEPT ![j] = "answered"]
    /\ UNCHANGED <<prepared, open, kept>>

Prepare(j) ==
    /\ state[j] = "answered"
    /\ state' = [state EXCEPT ![j] = "prepared"]
    /\ prepared' = prepared \cup {j}
    /\ open' = [open EXCEPT ![j] = Routes]
    /\ kept' = kept \cup {<<j, "deliveries">>}
    /\ UNCHANGED raw

\* finish, of a prepared answer or of a gate that found no event.
Finish(j) ==
    /\ state[j] \in {"prepared", "pending"}
    /\ state' = [state EXCEPT ![j] = "complete"]
    /\ kept' = TrimmedOf(state', open)
    /\ UNCHANGED <<raw, prepared, open>>

\* A failed attempt, or one whose process ended, keeps what it stored.
Fail(j) ==
    /\ state[j] \in Working \cup {"prepared"}
    /\ \E outcome \in IF state[j] = "running" THEN Unresolved ELSE {"failed"} :
        state' = [state EXCEPT ![j] = outcome]
    /\ UNCHANGED <<raw, prepared, open, kept>>

\* A mutant: a saved answer is taken up again without its room.
RetryUnreserved(j) ==
    /\ state[j] \in Unresolved
    /\ state' = [state EXCEPT ![j] =
            IF j \in prepared THEN "prepared" ELSE IF raw[j] > 0 THEN "answered" ELSE "pending"]
    /\ UNCHANGED <<raw, prepared, open, kept>>

\* retry: a saved answer reserves the room its record needs again.
Retry(j) ==
    /\ state[j] \in Unresolved
    /\ LET next == IF j \in prepared THEN "prepared" ELSE IF raw[j] > 0 THEN "answered" ELSE "pending"
           size == AnswerSpace(raw[j])
       IN  /\ state' = [state EXCEPT ![j] = next]
           /\ IF next = "answered" THEN Admits(0, size, Limit) /\ kept' = Compacted(size, Limit)
              ELSE UNCHANGED kept
    /\ UNCHANGED <<raw, prepared, open>>

Cancel(j) ==
    /\ state[j] \in Unresolved
    /\ state' = [state EXCEPT ![j] = "cancelled"]
    /\ open' = [open EXCEPT ![j] = 0]
    /\ UNCHANGED <<raw, prepared, kept>>

\* A delivery is delivered, or the owner cancels it.
Resolve(j) ==
    /\ state[j] \in {"complete", "sent"} /\ open[j] > 0
    /\ open' = [open EXCEPT ![j] = @ - 1]
    /\ kept' \in {TrimmedOf(state, open'), kept}
    /\ UNCHANGED <<state, raw, prepared>>

Next ==
    \E j \in Job :
        \/ Put(j) \/ Send(j) \/ Claim(j) \/ Answer(j) \/ Prepare(j) \/ Finish(j) \/ Fail(j)
        \/ Retry(j) \/ Cancel(j) \/ Resolve(j)

Spec == Init /\ [][Next]_vars

-----------------------------------------------------------------------------

\* Jobs are admitted, started, answered, fanned out, failed, retried and
\* compacted in any order, yet what is stored plus what started work may still
\* write never exceeds the limit, and the unfinished work, the deliveries it
\* may fan out to included, never exceeds its slots.
Owed == [j \in Job |-> IF state[j] = "running" THEN AnswerSpace(MaxBytes) ELSE AnswerSpace(raw[j]) - raw[j]]
RoomIsKept ==
    /\ Stored + Total({j \in Job : state[j] \in Working}, Owed) <= Limit
    /\ Slots <= MAX_PENDING

=============================================================================
