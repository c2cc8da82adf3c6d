--------------------------- MODULE BrainSelection ---------------------------
(***************************************************************************)
(* Which brain a command works on (src/src/bf/config.py): bf register adds *)
(* a directory to the owner's registry, one locked transaction beside      *)
(* other registrations and beside moves, locked folders and edits of       *)
(* bf.yaml; a name or the working directory selects brains, for retrieval  *)
(* or to run their programs; and a retrieval follows the references a      *)
(* brain declares.                                                         *)
(***************************************************************************)
EXTENDS FiniteSets, Naturals

CONSTANTS
    Process,     \* the bf register processes
    Dir,         \* directories, by their identity
    Place,       \* absolute paths
    Name,        \* brain names
    Start,       \* the directory at each path at first
    Absent, Locked, Nowhere, Nobody,
    MaxChanges   \* bound: moves, locked folders and edits of bf.yaml

BrainSelectionAssumption ==
    /\ MaxChanges \in Nat /\ IsFiniteSet(Dir)
    /\ Start \in [Place -> Dir \cup {Absent}]
    /\ {Absent, Locked} \cap Dir = {} /\ Nowhere \notin Place /\ Nobody \notin Process

VARIABLES
    at,          \* the directory at each path: none, or one that cannot be reached
    brain,       \* the bf.yaml of each directory
    registry,    \* config.yaml: the path registered for each name
    holder,      \* the registry's writer lock
    call,        \* each registration: its step, and what it read
    told,        \* the path each name was last told to be registered at
    changes      \* how often the world changed

vars == <<at, brain, registry, holder, call, told, changes>>

\* bf.yaml: the name, its direct references, whether the owner is the user.
Brain == [state : {"valid", "invalid", "none"}, name : Name, refs : [Name -> Place \cup {Nowhere}],
          mine : BOOLEAN]
Unregistered == [name \in Name |-> Nowhere]
Idle == [step |-> "idle"]
Ended == [step |-> "ended"]
Call == {Idle, Ended} \cup
    [step : {"lock", "read", "write"}, place : Place, dir : Dir, name : Name,
     read : [Name -> Place \cup {Nowhere}], replaces : BOOLEAN]

TypeOK ==
    /\ at \in [Place -> Dir \cup {Absent, Locked}]
    /\ brain \in [Dir -> Brain]
    /\ registry \in [Name -> Place \cup {Nowhere}]
    /\ holder \in Process \cup {Nobody}
    /\ call \in [Process -> Call]
    /\ told \in [Name -> Place \cup {Nowhere}]
    /\ changes \in 0..MaxChanges

Init ==
    /\ at = Start
    /\ brain \in [Dir -> {b \in Brain : b.state = "valid" /\ b.refs = Unregistered /\ b.mine}]
    /\ registry = Unregistered /\ told = Unregistered
    /\ holder = Nobody /\ call = [p \in Process |-> Idle]
    /\ changes = 0

-----------------------------------------------------------------------------
(* The world: folders and their bf.yaml.                                   *)

Change == changes < MaxChanges /\ changes' = changes + 1

Move(from, to) ==
    /\ Change
    /\ at[from] \in Dir /\ at[to] = Absent
    /\ \E left \in {Absent} \cup {d \in Dir : brain[d].state = "none"} :
        at' = [at EXCEPT ![to] = at[from], ![from] = left]
    /\ UNCHANGED <<brain, registry, holder, call, told>>

\* A second path to one directory, or one that is locked for now.
Link(path, dir) ==
    /\ Change
    /\ at[path] = Absent
    /\ at' = [at EXCEPT ![path] = dir]
    /\ UNCHANGED <<brain, registry, holder, call, told>>

Lock(path) ==
    /\ Change
    /\ at[path] \in Dir
    /\ at' = [at EXCEPT ![path] = Locked]
    /\ UNCHANGED <<brain, registry, holder, call, told>>

\* An edit of bf.yaml that declares one reference at most.
Declared == {refs \in [Name -> Place \cup {Nowhere}] :
                Cardinality({n \in Name : refs[n] # Nowhere}) <= 1}

Edit(dir) ==
    /\ Change
    /\ \/ \E name \in Name, refs \in Declared, mine \in BOOLEAN :
            brain' = [brain EXCEPT ![dir] = [state |-> "valid", name |-> name, refs |-> refs, mine |-> mine]]
       \/ \E state \in {"invalid", "none"} : brain' = [brain EXCEPT ![dir].state = state]
    /\ UNCHANGED <<at, registry, holder, call, told>>

-----------------------------------------------------------------------------
(* bf register.                                                            *)

Goto(p, step) == call' = [call EXCEPT ![p].step = step]
End(p) == call' = [call EXCEPT ![p] = Ended]

\* The selected store, its directory and its configured name: read before the
\* registry is locked.
Register(p, place) ==
    /\ call[p] = Idle
    /\ at[place] \in Dir /\ brain[at[place]].state = "valid"
    /\ call' = [call EXCEPT ![p] =
          [step |-> "lock", place |-> place, dir |-> at[place], name |-> brain[at[place]].name,
           read |-> Unregistered, replaces |-> FALSE]]
    /\ UNCHANGED <<at, brain, registry, holder, told, changes>>

\* Mutant: the registry is read and written without its lock.
LockRegistryAnyway(p) ==
    /\ call[p].step = "lock"
    /\ Goto(p, "read") /\ holder' = p
    /\ UNCHANGED <<at, brain, registry, told, changes>>

\* Waits 30 seconds for another registration.
LockRegistry(p) ==
    /\ call[p].step = "lock"
    /\ \/ holder = Nobody /\ holder' = p /\ Goto(p, "read")
       \/ holder # Nobody /\ End(p) /\ UNCHANGED holder
    /\ UNCHANGED <<at, brain, registry, told, changes>>

\* Another name of the same directory is refused; so is this name while its
\* path holds another brain, or a folder that may still hold one.
Elsewhere(c) == \E other \in Name \ {c.name} : registry[other] # Nowhere /\ at[registry[other]] = c.dir
Taken(c) ==
    /\ registry[c.name] \notin {Nowhere, c.place}
    /\ LET there == at[registry[c.name]]
       IN there = Locked \/ there \in {d \in Dir \ {c.dir} : brain[d].state # "none"}

ReadRegistry(p) ==
    LET c == call[p]
    IN /\ c.step = "read"
       /\ IF Elsewhere(c) \/ Taken(c)
          THEN End(p) /\ holder' = Nobody
          ELSE /\ call' = [call EXCEPT ![p].step = "write", ![p].read = registry,
                                       ![p].replaces = registry[c.name] # c.place]
               /\ UNCHANGED holder
       /\ UNCHANGED <<at, brain, registry, told, changes>>

\* One atomic write; an unchanged registration writes nothing.
WriteRegistry(p) ==
    LET c == call[p]
    IN /\ c.step = "write"
       /\ registry' = IF c.replaces THEN [c.read EXCEPT ![c.name] = c.place] ELSE registry
       /\ told' = [told EXCEPT ![c.name] = c.place]
       /\ holder' = Nobody /\ End(p)
       /\ UNCHANGED <<at, brain, changes>>

\* A kill releases the lock and a failed write changes nothing.
Kill(p) ==
    /\ call[p].step = "write"
    /\ holder' = Nobody /\ End(p)
    /\ UNCHANGED <<at, brain, registry, told, changes>>

Next ==
    \/ \E from, to \in Place : Move(from, to)
    \/ \E path \in Place, dir \in Dir : Link(path, dir)
    \/ \E path \in Place : Lock(path)
    \/ \E dir \in Dir : Edit(dir)
    \/ \E p \in Process :
        \/ \E place \in Place : Register(p, place)
        \/ LockRegistry(p) \/ ReadRegistry(p) \/ WriteRegistry(p) \/ Kill(p)

Spec == Init /\ [][Next]_vars

-----------------------------------------------------------------------------
(* Selection: what a name, or the working directory, stands for.  A result *)
(* is the set of selected directories: none when the command fails.        *)

Valid(dir) == dir \in Dir /\ brain[dir].state = "valid"
Configured(dir) == IF dir \in Dir /\ brain[dir].state # "none" THEN {dir} ELSE {}

\* The enclosing brain: none, or one that is not trusted.
Enclosing(here) == here \in Dir /\ brain[here].state # "none"
Trusted(here) == Enclosing(here) /\ brain[here].mine

\* A direct reference loads under the name that declares it.
References(dir, name) ==
    LET path == brain[dir].refs[name]
    IN IF path # Nowhere /\ Valid(at[path]) /\ brain[at[path]].name = name THEN {at[path]} ELSE {}

\* Mutant: a working directory of somebody else claims names too.
ClaimsUntrusted(here, name) ==
    IF ~Enclosing(here) \/ brain[here].state # "valid" THEN {}
    ELSE IF brain[here].name = name THEN {here} ELSE References(here, name)

\* What the enclosing brain claims a name for.
Claims(here, name) ==
    IF ~Trusted(here) \/ brain[here].state # "valid" THEN {}
    ELSE IF brain[here].name = name THEN {here} ELSE References(here, name)

\* A claim that cannot be loaded fails the selection.
ClaimFails(here, name) ==
    /\ Trusted(here)
    /\ \/ brain[here].state # "valid" /\ registry[name] = Nowhere
       \/ /\ Valid(here) /\ brain[here].name # name
          /\ brain[here].refs[name] # Nowhere /\ References(here, name) = {}

\* Mutant: the enclosing brain's references are preferred to the registry.
LocatedNearest(name, here, execute, below) ==
    LET claimed == Claims(here, name)
        entry == registry[name]
    IN IF ClaimFails(here, name) THEN {}
       ELSE IF claimed # {} THEN IF execute /\ brain[here].name # name THEN {} ELSE claimed
       ELSE IF entry # Nowhere THEN Configured(at[entry])
       ELSE IF execute THEN {} ELSE Configured(below)

\* A registered name, which nothing else may answer; else the enclosing brain
\* or, unless programs run, its reference or a folder of that name below.
Located(name, here, execute, below) ==
    LET claimed == Claims(here, name)
        entry == registry[name]
    IN IF ClaimFails(here, name) THEN {}
       ELSE IF entry # Nowhere THEN IF claimed \subseteq {at[entry]} THEN Configured(at[entry]) ELSE {}
       ELSE IF claimed # {} THEN IF execute /\ brain[here].name # name THEN {} ELSE claimed
       ELSE IF execute THEN {} ELSE Configured(below)

\* Without a name: the enclosing brain, else every registered one for retrieval.
Registered == {at[registry[n]] : n \in {n \in Name : registry[n] # Nowhere}} \cap Dir
Selected(here) ==
    IF Enclosing(here) THEN {here} \cap {d \in Dir : Trusted(d)}
    ELSE IF Cardinality(Registered) = 1 THEN UNION {Configured(d) : d \in Registered} ELSE Registered
Executed(here) == {here} \cap {d \in Dir : Trusted(d)}

\* The directories of each name the roots and their references claim, and the
\* roots and references without those of an ambiguous name.
Claimants(roots, name) ==
    {d \in roots : Valid(d) /\ brain[d].name = name}
        \cup UNION {References(d, name) : d \in {r \in roots : Valid(r)}}
Related(roots) ==
    LET ambiguous == {n \in Name : Cardinality(Claimants(roots, n)) > 1}
        candidates == roots \cup UNION {Claimants(roots, n) : n \in Name}
    IN candidates \ UNION {Claimants(roots, n) : n \in ambiguous}

-----------------------------------------------------------------------------
(* What is correct.                                                        *)

\* What bf register told its caller stays registered, whatever else registers
\* at the same time.
RegistrationsStay == registry = told

\* A name selects one directory at most, and a registered name its own
\* directory wherever the command runs; programs run without a path only of a
\* brain registered under the name or of the user's own enclosing brain; and a
\* retrieval never searches two directories that load under one name.
NamesAreSafe ==
    \A here, below \in Dir \cup {Absent} :
        /\ \A name \in Name, execute \in BOOLEAN :
            LET found == Located(name, here, execute, below)
            IN /\ Cardinality(found) <= 1
               /\ registry[name] # Nowhere => found \subseteq {at[registry[name]]}
               /\ execute /\ registry[name] = Nowhere =>
                    found \subseteq {d \in Dir : d = here /\ brain[d].mine /\ brain[d].name = name}
        /\ \A d \in Executed(here) : d = here /\ brain[d].mine
        /\ \A roots \in {Selected(here), Registered} \cup {{d} : d \in Dir} :
            \A d, e \in Related(roots) : Valid(d) /\ Valid(e) /\ d # e => brain[d].name # brain[e].name
=============================================================================
