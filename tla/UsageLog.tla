------------------------------ MODULE UsageLog ------------------------------
(***************************************************************************)
(* The usage counts of one brain (usage.py: note, _rotate, summary): one   *)
(* line per search or read, appended without a lock by any process, and    *)
(* summed into one line per past day when the file grows past its limit.   *)
(* A line is the set of events it counts; every line is one unit long.     *)
(***************************************************************************)
EXTENDS Naturals, FiniteSets

CONSTANTS
    Process, Event,
    LIMIT, KEEP,       \* in lines
    Window,            \* days of the largest window
    MaxDay             \* bound

\* What the constants must satisfy; the instances assume it.
UsageLogAssumption ==
    /\ IsFiniteSet(Process) /\ IsFiniteSet(Event) /\ "none" \notin Event
    /\ {LIMIT, KEEP, Window, MaxDay} \subseteq Nat /\ KEEP < LIMIT /\ Window > 0

VARIABLES
    today,
    files,      \* every file that was ever usage.jsonl, the current one last
    noted,      \* noted[e]: the day of an event that was written, or Never
    call,       \* one record per process: its clock, its descriptor and its lines
    excused     \* events written while another process rotated the file

vars == <<today, files, noted, call, excused>>

Day == 1..MaxDay
Never == 0
Line == [day : Day, events : SUBSET Event, summed : BOOLEAN]
Idle == [at |-> "idle", today |-> 1, event |-> "none", file |-> 0, lines |-> {}]

TypeOK ==
    /\ today \in Day
    /\ \A i \in DOMAIN files : files[i] \subseteq Line
    /\ noted \in [Event -> Day \cup {Never}] /\ excused \subseteq Event
    /\ \A p \in Process : call[p].at \in {"idle", "open", "append", "read", "write"}

Init ==
    /\ today = 1
    /\ files = <<{}>>
    /\ noted = [e \in Event |-> Never]
    /\ call = [p \in Process |-> Idle]
    /\ excused = {}

-----------------------------------------------------------------------------

Current == Cardinality(DOMAIN files)
EventsOf(lines) == UNION {line.events : line \in lines}
First(day) == IF day < Window THEN 1 ELSE day - Window + 1

\* _rotate: one line per past day; today's events stay as they are unless they
\* are too many.
Sum(day, lines) == [day |-> day, events |-> EventsOf({l \in lines : l.day = day}), summed |-> TRUE]
\* A mutant: too many lines of today keep only the past days.
RotateToday(lines, day) ==
    LET seen == {l \in lines : First(day) <= l.day /\ l.day <= day}
        current == {l \in seen : l.day = day /\ ~l.summed}
        days == {Sum(d, seen \ current) : d \in {l.day : l \in seen \ current}}
    IN  IF Cardinality(days) + Cardinality(current) <= KEEP THEN days \cup current ELSE days

Rotate(lines, day) ==
    LET seen == {l \in lines : First(day) <= l.day /\ l.day <= day}
        current == {l \in seen : l.day = day /\ ~l.summed}
        days == {Sum(d, seen \ current) : d \in {l.day : l \in seen \ current}}
    IN  IF Cardinality(days) + Cardinality(current) <= KEEP THEN days \cup current
        ELSE {Sum(d, seen) : d \in {l.day : l \in seen}}

\* note: it reads the clock first, and then opens, appends, reads and replaces.
Note(p, e) ==
    /\ call[p].at = "idle" /\ noted[e] = Never
    /\ \A q \in Process : call[q].event # e
    /\ call' = [call EXCEPT ![p] = [Idle EXCEPT !.at = "open", !.today = today, !.event = e]]
    /\ UNCHANGED <<today, files, noted, excused>>

Open(p) ==
    /\ call[p].at = "open"
    /\ call' = [call EXCEPT ![p].at = "append", ![p].file = Current]
    /\ UNCHANGED <<today, files, noted, excused>>

\* An event appended to a file that is already replaced counts nowhere.
Append(p) ==
    /\ call[p].at = "append"
    /\ LET c == call[p]
           lines == files[c.file] \cup {[day |-> c.today, events |-> {c.event}, summed |-> FALSE]}
       IN  /\ files' = [files EXCEPT ![c.file] = lines]
           /\ noted' = [noted EXCEPT ![c.event] = c.today]
           /\ excused' = IF c.file = Current THEN excused ELSE excused \cup {c.event}
           /\ call' = IF Cardinality(lines) <= LIMIT THEN [call EXCEPT ![p] = Idle]
                      ELSE [call EXCEPT ![p].at = "read"]
    /\ UNCHANGED today

ReadLines(p) ==
    /\ call[p].at = "read"
    /\ call' = [call EXCEPT ![p].at = "write", ![p].lines = files[call[p].file]]
    /\ UNCHANGED <<today, files, noted, excused>>

\* What others wrote since, or wrote on a day after this clock, is lost.
Write(p) ==
    /\ call[p].at = "write"
    /\ LET c == call[p]
           meanwhile == EventsOf(files[Current]) \ EventsOf(c.lines)
           ahead == EventsOf({l \in c.lines : l.day > c.today})
       IN  /\ files' = [i \in 1..Current + 1 |-> IF i <= Current THEN files[i] ELSE Rotate(c.lines, c.today)]
           /\ excused' = excused \cup meanwhile \cup ahead
    /\ call' = [call EXCEPT ![p] = Idle]
    /\ UNCHANGED <<today, noted>>

\* The process dies, or the file cannot be written: counting never breaks
\* retrieval.
Drop(p) ==
    /\ call[p].at # "idle"
    /\ call' = [call EXCEPT ![p] = Idle]
    /\ UNCHANGED <<today, files, noted, excused>>

Midnight ==
    /\ today < MaxDay
    /\ today' = today + 1
    /\ UNCHANGED <<files, noted, call, excused>>

Next ==
    \/ \E p \in Process :
        \/ \E e \in Event : Note(p, e)
        \/ Open(p) \/ Append(p) \/ ReadLines(p) \/ Write(p) \/ Drop(p)
    \/ Midnight

Spec == Init /\ [][Next]_vars

-----------------------------------------------------------------------------

\* summary: the lines of the current file, without those dated ahead.
Counted == {l \in files[Current] : First(today) <= l.day /\ l.day <= today}

\* Processes append, rotate, overtake one another and die, days pass, yet an
\* event counts once at most, on its own day, and every event of the window
\* counts unless it was written while another process rotated the file.
CountsAreTrue ==
    /\ \A l \in Counted : \A e \in l.events : noted[e] = l.day /\ \A k \in Counted : e \in k.events => k = l
    /\ \A e \in Event \ excused : noted[e] >= First(today) => e \in EventsOf(Counted)

=============================================================================
