-------------------------------- MODULE Inbox --------------------------------
(***************************************************************************)
(* What a stream input promises of the messages of its channel: a message  *)
(* is admitted once, in one version, before it is acknowledged; a job is   *)
(* only ever created from an admitted message, and in that version.        *)
(***************************************************************************)
CONSTANTS Message, Version, Assistant, None

VARIABLES
    admitted, \* admitted[m]: the admitted version of m, or None
    work,     \* work[a][m]: the version a job of assistant a answers, or None
    own,      \* messages known to be our own, which need no answer
    acked     \* messages acknowledged to the provider

vars == <<admitted, work, own, acked>>

Init ==
    /\ admitted = [m \in Message |-> None]
    /\ work = [a \in Assistant |-> [m \in Message |-> None]]
    /\ own \subseteq Message
    /\ acked = {}

\* The version of m admitted for the assistants in `for`, now or before.
Admit(m, for) ==
    /\ \E v \in Version :
          /\ admitted[m] \in {None, v}
          /\ admitted' = [admitted EXCEPT ![m] = v]
          /\ work' = [a \in Assistant |->
                IF a \in for THEN [work[a] EXCEPT ![m] = v] ELSE work[a]]
    /\ UNCHANGED <<own, acked>>

Recognise(m) == own' = own \cup {m} /\ UNCHANGED <<admitted, work, acked>>

Acknowledge(m) ==
    /\ admitted[m] # None \/ m \in own
    /\ acked' = acked \cup {m}
    /\ UNCHANGED <<admitted, work, own>>

Next ==
    \E m \in Message :
        \/ \E for \in SUBSET Assistant : Admit(m, for)
        \/ Recognise(m) \/ Acknowledge(m)

Spec == Init /\ [][Next]_vars

=============================================================================
