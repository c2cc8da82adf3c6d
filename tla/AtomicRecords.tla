---------------------------- MODULE AtomicRecords ----------------------------
(***************************************************************************)
(* What records.py promises of the records of a source: a transaction      *)
(* replaces them all at once or not at all.  A power loss may undo the     *)
(* last transaction while its completion marker is not durable, never one  *)
(* before it, and never half of one.                                       *)
(***************************************************************************)
CONSTANTS Record, Value, Absent

VARIABLES
    records,  \* what a reader may see
    previous, \* what a power loss may bring back
    intent    \* what the last transaction wants to store

vars == <<records, previous, intent>>

Contents == [Record -> Value \cup {Absent}]

Init ==
    /\ records \in Contents
    /\ previous = records
    /\ intent = records

\* One transaction at a time: from now on the last one cannot be undone.
Begin ==
    /\ intent' \in Contents
    /\ previous' = records
    /\ UNCHANGED records

Commit ==
    /\ previous = records
    /\ records' = intent
    /\ UNCHANGED <<previous, intent>>

Undo ==
    /\ records' = previous
    /\ UNCHANGED <<previous, intent>>

Settle ==
    /\ previous' = records
    /\ UNCHANGED <<records, intent>>

Next == Begin \/ Commit \/ Undo \/ Settle

Spec == Init /\ [][Next]_vars

=============================================================================
