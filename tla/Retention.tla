------------------------------ MODULE Retention ------------------------------
(***************************************************************************)
(* Which records a source keeps (records.py: retention, plan, upsert,      *)
(* forget; collect.py: collect): collections of one sensor in window or    *)
(* snapshot mode, bf forget, and a provider whose records are revised and  *)
(* deleted, and whose pages may be stale or incomplete, so that any        *)
(* revision of a record may be printed at any time.                        *)
(*                                                                         *)
(* A transaction over record files is one step that happens or fails, as   *)
(* RecordCommit shows.  A revision has its event time and its time of      *)
(* modification, either of which a provider may leave out.                 *)
(***************************************************************************)
EXTENDS Integers, FiniteSets

CONSTANTS
    Record,
    Modes,         \* modes of the sensor to consider
    ExpireAfter,   \* expire_after
    SHRINK_FLOOR,
    Revisions,     \* what a provider may print of a record: [time, updated]
    MaxTime, MaxFaults    \* bounds

\* What the constants must satisfy; the instances assume it.
RetentionAssumption ==
    /\ IsFiniteSet(Record) /\ Modes \subseteq {"window", "snapshot"}
    /\ {ExpireAfter, SHRINK_FLOOR, MaxTime, MaxFaults} \subseteq Nat
    /\ Revisions \subseteq [time : Nat \cup {0 - 1}, updated : Nat \cup {0 - 1}]

VARIABLES
    clock,
    mode,        \* the sensor's mode
    stored,      \* the record files
    hidden,      \* the digests in .forgotten
    collector,   \* the one collection the sensor's lock lets run
    forgetting,  \* what a bf forget has listed and not removed yet
    faults       \* failures and kills so far

vars == <<clock, mode, stored, hidden, collector, forgetting, faults>>

Undated == 0 - 1
Missing == [time |-> Undated, updated |-> Undated, observed |-> Undated]
Nothing == [x \in {} |-> Missing]
Idle == [at |-> "idle", started |-> 0, allow |-> FALSE, printed |-> Nothing, kept |-> Nothing, wrote |-> FALSE]

Has(r) == stored[r] # Missing
Locked == collector.at \in {"remove", "upsert", "history"} \/ forgetting # {}

TypeOK ==
    /\ clock \in 0..MaxTime /\ mode \in Modes /\ faults \in 0..MaxFaults
    /\ \A r \in Record :
        Has(r) => /\ [time |-> stored[r].time, updated |-> stored[r].updated] \in Revisions
                  /\ stored[r].observed \in 0..clock
    /\ hidden \subseteq Record /\ forgetting \subseteq Record
    /\ collector.at \in {"idle", "run", "printed", "remove", "upsert", "history", "failed"}
    /\ DOMAIN collector.printed \subseteq Record /\ DOMAIN collector.kept \subseteq Record

Init ==
    /\ clock = 0 /\ mode \in Modes /\ faults = 0
    /\ stored = [r \in Record |-> Missing]
    /\ hidden = {} /\ forgetting = {}
    /\ collector = Idle

-----------------------------------------------------------------------------
(* collect. *)

Start(allow) ==
    /\ collector.at \in {"idle", "failed"}
    /\ collector' = [Idle EXCEPT !.at = "run", !.started = clock, !.allow = allow]
    /\ UNCHANGED <<clock, mode, stored, hidden, forgetting, faults>>

\* The sensor prints some revision of some of the records, not always the last
\* of all of them.
Printing ==
    /\ collector.at = "run"
    /\ \E records \in SUBSET Record : \E printed \in [records -> Revisions] :
        collector' = [collector EXCEPT !.at = "printed", !.printed = printed]
    /\ UNCHANGED <<clock, mode, stored, hidden, forgetting, faults>>

\* The writer lock.
Lock ==
    /\ collector.at = "printed" /\ ~Locked
    /\ collector' = [collector EXCEPT !.at = "remove"]
    /\ UNCHANGED <<clock, mode, stored, hidden, forgetting, faults>>

Before(date) == date # Undated /\ date < collector.started - ExpireAfter
Printed == DOMAIN collector.printed
Expired == {r \in Printed \ hidden : Before(collector.printed[r].time)}
Kept == [r \in Printed \ (hidden \cup Expired) |-> collector.printed[r]]

Age(r) == IF stored[r].time # Undated THEN stored[r].time ELSE stored[r].observed

\* A mutant: a record without an event time ages though the sensor prints it.
RemovalsByAge ==
    {r \in Record : Has(r) /\ (r \in hidden \/ r \in Expired \/ Before(Age(r)))}

\* retention: listed records, and those that are too old or print as too old;
\* what the sensor still prints ages by its own event time alone.
Removals ==
    {r \in Record : Has(r) /\ \/ r \in hidden
                              \/ r \in Expired
                              \/ r \notin DOMAIN Kept /\ Before(Age(r))}

\* _shrink: what else a snapshot would remove is too much to be meant.
Shrinks ==
    LET existing == {r \in Record : Has(r)} \ Removals
        removed == Cardinality(existing \ DOMAIN Kept)
    IN  /\ mode = "snapshot" /\ ~collector.allow /\ removed > 0
        /\ \/ DOMAIN Kept = {}
           \/ 2 * removed > Cardinality(existing) /\ removed > SHRINK_FLOOR

Fails == collector' = [collector EXCEPT !.at = "failed"]

Refuse ==
    /\ collector.at = "remove" /\ Shrinks
    /\ Fails
    /\ UNCHANGED <<clock, mode, stored, hidden, forgetting, faults>>

\* The first transaction.
Remove ==
    /\ collector.at = "remove" /\ ~Shrinks
    /\ stored' = [r \in Record |-> IF r \in Removals THEN Missing ELSE stored[r]]
    /\ collector' = [collector EXCEPT !.at = "upsert", !.kept = Kept, !.wrote = Removals # {}]
    /\ UNCHANGED <<clock, mode, hidden, forgetting, faults>>

Reliable(r) == stored[r].updated <= stored[r].observed

\* An older revision does not replace a newer one, unless that one was dated
\* in the future; the same content keeps the time it was first observed.
Stays(r) ==
    /\ Has(r)
    /\ \/ /\ Reliable(r) /\ Undated \notin {stored[r].updated, collector.kept[r].updated}
          /\ stored[r].updated > collector.kept[r].updated
       \/ [time |-> stored[r].time, updated |-> stored[r].updated] = collector.kept[r]

\* plan.
Planned(r) ==
    IF r \in DOMAIN collector.kept
    THEN IF Stays(r) THEN stored[r]
         ELSE [time |-> collector.kept[r].time, updated |-> collector.kept[r].updated,
               observed |-> collector.started]
    ELSE IF mode = "snapshot" THEN Missing ELSE stored[r]

\* The second transaction.
Upsert ==
    /\ collector.at = "upsert"
    /\ stored' = [r \in Record |-> Planned(r)]
    /\ collector' = [collector EXCEPT !.at = "history", !.wrote = TRUE]
    /\ UNCHANGED <<clock, mode, hidden, forgetting, faults>>

\* remember.
Finish ==
    /\ collector.at = "history"
    /\ collector' = Idle
    /\ UNCHANGED <<clock, mode, stored, hidden, forgetting, faults>>

\* The sensor, a wait for the lock or a transaction fails; the caller hears
\* that nothing was written.
Fail ==
    /\ collector.at \in {"run", "printed", "remove", "upsert"} /\ faults < MaxFaults
    /\ Fails
    /\ faults' = faults + 1
    /\ UNCHANGED <<clock, mode, stored, hidden, forgetting>>

Kill ==
    /\ collector.at \notin {"idle", "failed"} /\ faults < MaxFaults
    /\ collector' = Idle
    /\ faults' = faults + 1
    /\ UNCHANGED <<clock, mode, stored, hidden, forgetting>>

-----------------------------------------------------------------------------
(* bf forget, and a person who takes a line back. *)

\* The list first.
ForgetList(records) ==
    /\ ~Locked /\ records # {}
    /\ hidden' = hidden \cup records /\ forgetting' = records
    /\ UNCHANGED <<clock, mode, stored, collector, faults>>

ForgetRemove ==
    /\ forgetting # {}
    /\ stored' = [r \in Record |-> IF r \in forgetting THEN Missing ELSE stored[r]]
    /\ forgetting' = {}
    /\ UNCHANGED <<clock, mode, hidden, collector, faults>>

ForgetKilled ==
    /\ forgetting # {} /\ faults < MaxFaults
    /\ forgetting' = {} /\ faults' = faults + 1
    /\ UNCHANGED <<clock, mode, stored, hidden, collector>>

Recall(r) ==
    /\ r \in hidden /\ forgetting = {}
    /\ hidden' = hidden \ {r}
    /\ UNCHANGED <<clock, mode, stored, collector, forgetting, faults>>

-----------------------------------------------------------------------------

Tick ==
    /\ clock < MaxTime
    /\ clock' = clock + 1
    /\ UNCHANGED <<mode, stored, hidden, collector, forgetting, faults>>

Next ==
    \/ \E allow \in BOOLEAN : Start(allow)
    \/ Printing \/ Lock \/ Refuse \/ Remove \/ Upsert \/ Finish \/ Fail \/ Kill
    \/ \E records \in SUBSET Record : ForgetList(records)
    \/ ForgetRemove \/ ForgetKilled
    \/ \E r \in Record : Recall(r)
    \/ Tick

Spec == Init /\ [][Next]_vars

-----------------------------------------------------------------------------

\* Whatever a sensor prints, fails or is killed at, a listed record is never
\* stored again and a collection that ended left none behind; a record leaves
\* only when it is listed, or too old by itself or as printed, or when a
\* snapshot that keeps something, or was allowed to, no longer prints it; and
\* an older revision replaces no newer one but one dated in the future.
KeepsDecisions ==
    \A r \in Record :
        /\ ~Has(r) /\ Has(r)' => r \notin hidden
        /\ Has(r) /\ ~Has(r)' =>
            \/ r \in hidden \/ r \in Expired
            \/ r \notin DOMAIN Kept /\ Before(Age(r))
            \/ /\ mode = "snapshot" /\ r \notin Printed
               /\ collector.allow \/ DOMAIN collector.kept # {}
        /\ Has(r) /\ Has(r)' /\ Reliable(r) /\ stored'[r].updated # Undated =>
            stored'[r].updated >= stored[r].updated
        /\ Has(r)' /\ r \in hidden => collector'.at # "history"

DecisionsStay == [][KeepsDecisions]_vars

\* collect.py:413 "failures write nothing".
FailuresWriteNothing == collector.at = "failed" => ~collector.wrote

=============================================================================
