--------------------------- MODULE MCJobAttempts ---------------------------
(***************************************************************************)
(* Instances of JobAttempts: one job, or two in one slot, and up to three  *)
(* interchangeable processes.  Races over one job whose harness may not    *)
(* run twice, and progress: admitted by a channel or a gated schedule, as  *)
(* the configuration's constants say, or started by bf run.                *)
(***************************************************************************)
EXTENDS JobAttempts, TLC

CONSTANTS a, b

Processes == Permutations(Process)

OneSlot == [j \in Key |-> "slot"]

VARIABLE kind

ByHand == INSTANCE JobAttempts WITH Manual <- Job, Input <- {}, Gated <- {}

InitRaces == Init /\ kind \in {"queue", "manual"}

NextRaces ==
    /\ UNCHANGED kind
    /\ \/ kind = "queue" /\ Next
       \/ kind = "manual" /\ ByHand!Next

SpecRaces == InitRaces /\ [][NextRaces]_<<kind, vars>>

\* The messages of a conversation, or one bf run; fairness says the same of both.
NextLive ==
    /\ UNCHANGED kind
    /\ \/ kind = "queue" /\ Next
       \/ kind = "manual" /\ ByHand!Next /\ key' = [p \in Process |-> a]

SpecLive == InitRaces /\ [][NextLive]_<<kind, vars>> /\ Fairness

=============================================================================
