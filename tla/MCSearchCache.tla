---------------------------- MODULE MCSearchCache ----------------------------
(***************************************************************************)
(* Instances of SearchCache: one process answers while another one updates,*)
(* builds and commits; the same with faults instead of changes; and two    *)
(* that answer all the time beside one that builds.                        *)
(***************************************************************************)
EXTENDS SearchCache, TLC

CONSTANTS p1, p2, p3

OneReader == p1 :> {"serve"} @@ p2 :> {"update", "build", "commit"} @@ p3 :> {}
TwoReaders == p1 :> {"serve"} @@ p2 :> {"build"} @@ p3 :> {"serve"}

VARIABLE kind

Faulty == INSTANCE SearchCache WITH
    MaxChanges <- 0, MaxEdits <- 0, MaxKills <- 1, MaxDamage <- 1
Overlapping == INSTANCE SearchCache WITH
    MaxChanges <- 0, MaxEdits <- 0, Does <- TwoReaders

InitKinds == Init /\ kind \in {"changes", "faults", "readers"}

NextKinds ==
    /\ UNCHANGED kind
    /\ \/ kind = "changes" /\ Next
       \/ kind = "faults" /\ Faulty!Next
       \/ kind = "readers" /\ Overlapping!Next

SpecKinds == InitKinds /\ [][NextKinds]_<<kind, vars>> /\ Fairness

=============================================================================
