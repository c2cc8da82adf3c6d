------------------------------ MODULE Reprojection ------------------------------
(***************************************************************************)
(* The fields of a sensor's records (ontology.py: project, reproject;      *)
(* collect.py: reproject): collections map what the sensor prints, and     *)
(* bf build --reproject applies changed mappings to what is stored, in     *)
(* transactions of some records, while bf.yaml is edited, collections run  *)
(* and processes are killed.  A transaction itself is that of RecordCommit, *)
(* what a collection removes that of Retention.                            *)
(***************************************************************************)
EXTENDS Naturals, FiniteSets

CONSTANTS
    Record, Field, Path,
    Configs,         \* what bf.yaml may say of each field
    Documents,       \* what the sensor may print: a value at each path
    NoPath, Literal, \* a field's mapping may have no path, or a literal value
    Absent, Tangled, \* a path may have no value, or lead through something else
    REPROJECT,       \* records of one transaction
    MaxEdits, MaxFaults   \* bounds of the model

VARIABLES
    config,          \* bf.yaml
    stored,          \* record -> what was printed and its fields, or Nothing
    collection, reprojection,   \* the two runs
    sensorLock,      \* who runs this sensor
    settled,         \* a reprojection ended and only its mappings were applied since
    edits, faults    \* so far

vars == <<config, stored, collection, reprojection, sensorLock, settled, edits, faults>>

Nothing == [printed |-> <<>>, fields |-> <<>>]
Values == UNION {{document[p] : p \in Path} : document \in Documents} \ {Absent, Tangled}
Fields == UNION {[fields -> Values \union {Literal}] : fields \in SUBSET Field}

ReprojectionAssumption ==
    /\ \A set \in {Record, Field, Path} : IsFiniteSet(set)
    /\ NoPath \notin Path /\ Literal \notin Path \union Values \union {NoPath}
    /\ Configs \subseteq [Field -> [default : Path \union {NoPath}, mapping : Path \union {NoPath, Literal},
                                    one : BOOLEAN, accepts : SUBSET (Values \union {Literal})]]
    /\ REPROJECT \in Nat \ {0} /\ {MaxEdits, MaxFaults} \subseteq Nat

-----------------------------------------------------------------------------
(* project: the fields a bf.yaml gives a printed document.                  *)

\* The mapping of the sensor, or else the default of the field.
Mapped(of, document) ==
    LET path == IF of.mapping = NoPath THEN of.default ELSE of.mapping
    IN  CASE path = NoPath -> Absent
          [] path = Literal -> Literal
          [] OTHER -> document[path]

\* A mapping of the sensor must find the value of a single-valued field; and
\* what is found must be of the field's type.
Rejected(bf, document) ==
    \E f \in Field :
        LET value == Mapped(bf[f], document)
        IN  IF value = Absent THEN bf[f].mapping # NoPath /\ bf[f].one ELSE value \notin bf[f].accepts

Project(bf, document) ==
    [f \in {f \in Field : Mapped(bf[f], document) # Absent} |-> Mapped(bf[f], document)]

Stored(bf, document) == [printed |-> document, fields |-> Project(bf, document)]

-----------------------------------------------------------------------------
(* States.                                                                  *)

None == [at |-> "none"]
Reading(bf, late) == [at |-> "loaded", bf |-> bf, late |-> late]
Start(bf) == [at |-> "files", bf |-> bf, todo |-> Record, changed |-> {}, count |-> [changed |-> 0, unchanged |-> 0, failed |-> 0], before |-> stored]

Records == {r \in Record : stored[r] # Nothing}

TypeOK ==
    /\ config \in Configs
    /\ \A r \in Record : stored[r] = Nothing \/ (stored[r].printed \in Documents /\ stored[r].fields \in Fields)
    /\ sensorLock \in {"free", "collection", "reprojection"} /\ settled \in BOOLEAN
    /\ edits \in 0..MaxEdits /\ faults \in 0..MaxFaults
    /\ collection.at \in {"none", "loaded", "running", "printed"}
    /\ reprojection.at \in {"none", "loaded", "locked", "files"}

Init ==
    /\ config \in Configs /\ stored = [r \in Record |-> Nothing]
    /\ collection = None /\ reprojection = None /\ sensorLock = "free"
    /\ settled = FALSE /\ edits = 0 /\ faults = 0

Edit ==
    /\ edits < MaxEdits /\ edits' = edits + 1
    /\ config' \in Configs \ {config} /\ settled' = FALSE
    /\ UNCHANGED <<stored, collection, reprojection, sensorLock, faults>>

-----------------------------------------------------------------------------
(* A collection reads bf.yaml, and then takes the sensor's lock.            *)

Load ==
    /\ collection.at = "none" /\ collection' = Reading(config, FALSE)
    /\ UNCHANGED <<config, stored, reprojection, sensorLock, settled, edits, faults>>

\* Another run of the sensor refuses this one.
Take ==
    /\ collection.at = "loaded"
    /\ IF sensorLock = "free"
       THEN sensorLock' = "collection" /\ collection' = [collection EXCEPT !.at = "running"]
       ELSE UNCHANGED sensorLock /\ collection' = None
    /\ UNCHANGED <<config, stored, reprojection, settled, edits, faults>>

\* One record that is rejected fails the run.
Printing ==
    /\ collection.at = "running"
    /\ \E of \in SUBSET Record : \E printed \in [of -> Documents] :
          IF \E r \in of : Rejected(collection.bf, printed[r])
          THEN collection' = None /\ sensorLock' = "free"
          ELSE /\ collection' = [at |-> "printed", bf |-> collection.bf, late |-> collection.late, records |-> printed]
               /\ UNCHANGED sensorLock
    /\ UNCHANGED <<config, stored, reprojection, settled, edits, faults>>

\* The writer lock is that of both runs: a reprojection holds it from its start.
Commit ==
    /\ collection.at = "printed" /\ reprojection.at # "files"
    /\ stored' = [r \in Record |-> IF r \in DOMAIN collection.records
                                   THEN Stored(collection.bf, collection.records[r]) ELSE stored[r]]
    /\ settled' = (settled /\ ~collection.late)
    /\ collection' = None /\ sensorLock' = "free"
    /\ UNCHANGED <<config, reprojection, edits, faults>>

-----------------------------------------------------------------------------
(* bf build --reproject.                                                    *)

LoadMappings ==
    /\ reprojection.at = "none" /\ reprojection' = Reading(config, FALSE)
    /\ UNCHANGED <<config, stored, collection, sensorLock, settled, edits, faults>>

\* A mutant: only the writer lock keeps collections out.
TakeSensorShared ==
    /\ reprojection.at = "loaded" /\ reprojection' = [reprojection EXCEPT !.at = "locked"]
    /\ UNCHANGED <<config, stored, collection, sensorLock, settled, edits, faults>>

TakeSensor ==
    /\ reprojection.at = "loaded"
    /\ IF sensorLock = "free"
       THEN sensorLock' = "reprojection" /\ reprojection' = [reprojection EXCEPT !.at = "locked"]
       ELSE UNCHANGED sensorLock /\ reprojection' = None
    /\ UNCHANGED <<config, stored, collection, settled, edits, faults>>

TakeWriter ==
    /\ reprojection.at = "locked"
    /\ reprojection' = [Start(reprojection.bf) EXCEPT !.todo = Records]
    /\ UNCHANGED <<config, stored, collection, sensorLock, settled, edits, faults>>

\* A rejected record keeps its fields; one whose fields change joins the next
\* transaction, which is committed when it is full.
Counted(key) == [reprojection EXCEPT !.count[key] = @ + 1]

Transaction(changed) ==
    stored' = [r \in Record |-> IF r \in changed THEN Stored(reprojection.bf, stored[r].printed) ELSE stored[r]]

Reproject(r) ==
    /\ reprojection.at = "files" /\ r \in reprojection.todo
    /\ LET rest == reprojection.todo \ {r}
           document == stored[r].printed
           changed == reprojection.changed \union {r}
       IN  IF Rejected(reprojection.bf, document)
           THEN reprojection' = [Counted("failed") EXCEPT !.todo = rest] /\ UNCHANGED stored
           ELSE IF Project(reprojection.bf, document) = stored[r].fields
           THEN reprojection' = [Counted("unchanged") EXCEPT !.todo = rest] /\ UNCHANGED stored
           ELSE IF Cardinality(changed) < REPROJECT
           THEN reprojection' = [Counted("changed") EXCEPT !.todo = rest, !.changed = changed] /\ UNCHANGED stored
           ELSE /\ reprojection' = [Counted("changed") EXCEPT !.todo = rest, !.changed = {}]
                /\ Transaction(changed)
    /\ settled' = FALSE
    /\ UNCHANGED <<config, collection, sensorLock, edits, faults>>

\* The rest, and the reply.
Finish ==
    /\ reprojection.at = "files" /\ reprojection.todo = {}
    /\ Transaction(reprojection.changed)
    /\ settled' = (reprojection.bf = config)
    /\ collection' = IF collection.at = "loaded" THEN Reading(collection.bf, collection.bf # config) ELSE collection
    /\ reprojection' = None /\ sensorLock' = IF sensorLock = "reprojection" THEN "free" ELSE sensorLock
    /\ UNCHANGED <<config, edits, faults>>

\* A kill, or a transaction that fails: its locks are free again.
Stop ==
    /\ faults < MaxFaults /\ faults' = faults + 1
    /\ \/ /\ reprojection.at # "none" /\ reprojection' = None /\ UNCHANGED collection
          /\ sensorLock' = IF sensorLock = "reprojection" THEN "free" ELSE sensorLock
       \/ /\ collection.at # "none" /\ collection' = None /\ UNCHANGED reprojection
          /\ sensorLock' = IF sensorLock = "collection" THEN "free" ELSE sensorLock
    /\ UNCHANGED <<config, stored, settled, edits>>

Next ==
    \/ Edit
    \/ Load
    \/ Take
    \/ Printing
    \/ Commit
    \/ LoadMappings
    \/ TakeSensor
    \/ TakeWriter
    \/ \E r \in Record : Reproject(r)
    \/ Finish
    \/ Stop

Spec == Init /\ [][Next]_vars

-----------------------------------------------------------------------------
(* What a reader may rely on.                                               *)

\* No record is a mixture: its fields are what one bf.yaml made of what was printed.
FieldsAreWhole ==
    \A r \in Records : \E bf \in Configs :
        ~Rejected(bf, stored[r].printed) /\ stored[r].fields = Project(bf, stored[r].printed)

\* After a reprojection to the mappings of bf.yaml every record has its fields
\* from them, or is one they reject: no collection that ran beside it, with the
\* mappings of before, changes that.  Only one that had read bf.yaml but not yet
\* its lock may.
MappingsAreApplied ==
    settled => \A r \in Records : \/ stored[r].fields = Project(config, stored[r].printed)
                                  \/ Rejected(config, stored[r].printed)

\* The reply counts each record it read once, and as changed those that differ.
RepliesAreTrue ==
    reprojection.at = "files" /\ reprojection.todo = {} =>
        LET count == reprojection.count
            before == {r \in Record : reprojection.before[r] # Nothing}
        IN  /\ count.changed + count.unchanged + count.failed = Cardinality(before)
            /\ count.changed = Cardinality({r \in before :
                   r \in reprojection.changed \/ stored[r] # reprojection.before[r]})
            /\ \A r \in before : stored[r].printed = reprojection.before[r].printed

\* Reprojection (collect.py: reproject): whole records, all of them, counted.
FieldsAreRight == FieldsAreWhole /\ MappingsAreApplied /\ RepliesAreTrue

=============================================================================
