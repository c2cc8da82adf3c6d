---------------------------- MODULE QueueFolders ----------------------------
(***************************************************************************)
(* Where a brain's queue is kept (src/src/bf/storage.py and runtime.py): a *)
(* folder named by the identity of the brain's directory, its device and   *)
(* inode numbers.  A device number can change at boot: the                 *)
(* brain then takes over the one folder of its inode that is bound to its  *)
(* path, beside other processes and kills.  All brains here have one inode *)
(* number, as the roots of btrfs subvolumes do.  The program state, which  *)
(* may be deleted at any time and is renamed with the queue, is left out.  *)
(***************************************************************************)
EXTENDS FiniteSets, Naturals

CONSTANTS
    Process, Brain, Path, Device, Nobody,
    Home,        \* the first device and path of each brain
    MaxBoots, MaxMoves, MaxKills, MaxEvents   \* bounds, the last of moves and kills together

QueueFoldersAssumption ==
    /\ Home \in [Brain -> [device : Device, path : Path]] /\ Nobody \notin Process
    /\ \A b, c \in Brain : b # c => Home[b].device # Home[c].device /\ Home[b].path # Home[c].path
    /\ {MaxBoots, MaxMoves, MaxKills, MaxEvents} \subseteq Nat /\ IsFiniteSet(Device)

VARIABLES
    place,       \* the device and path of each brain
    runtime,     \* runtime/<identity>: the queue's binding, unresolved work and journal
    renumber,    \* renumber.lock
    call,        \* what each process does
    shared,      \* the brains that got the number of another folder at boot, or came
                 \* to a path that the folder of another number is bound to
    bounds

vars == <<place, runtime, renumber, call, shared, bounds>>

Binding == [path : Path, name : Brain]
NoFolder == [bound |-> {}, work |-> {}, hot |-> FALSE, exists |-> FALSE]
Folder == [bound : {{}} \cup {{b} : b \in Binding}, work : SUBSET Binding, hot : BOOLEAN, exists : BOOLEAN]
Idle == [step |-> "idle"]
Call == {Idle} \cup
    [step : {"scan", "rename", "open"},
     brain : Brain, device : Device, uses : {"queue", "program"}, from : Device]

TypeOK ==
    /\ place \in [Brain -> [device : Device, path : Path]]
    /\ runtime \in [Device -> Folder]
    /\ renumber \in Process \cup {Nobody}
    /\ call \in [Process -> Call]
    /\ shared \in SUBSET Brain
    /\ bounds \in [boots : 0..MaxBoots, moves : 0..MaxMoves, kills : 0..MaxKills]

Init ==
    /\ place = Home
    /\ runtime = [d \in Device |-> NoFolder]
    /\ renumber = Nobody /\ call = [p \in Process |-> Idle]
    /\ shared = {}
    /\ bounds = [boots |-> 0, moves |-> 0, kills |-> 0]

Bound(b) == [path |-> place[b].path, name |-> b]

-----------------------------------------------------------------------------
(* The machine.                                                            *)

\* Kills every process; filesystems get any numbers, one each.
Boot ==
    /\ bounds.boots < MaxBoots /\ bounds' = [bounds EXCEPT !.boots = @ + 1]
    /\ \E devices \in [Brain -> Device] :
        /\ \A b, c \in Brain : b # c => devices[b] # devices[c]
        /\ place' = [b \in Brain |-> [place[b] EXCEPT !.device = devices[b]]]
        /\ shared' = shared \cup {b \in Brain : /\ devices[b] # place[b].device
                                                /\ runtime[devices[b]].exists}
    /\ renumber' = Nobody /\ call' = [p \in Process |-> Idle]
    /\ UNCHANGED <<runtime>>

Move(b, path) ==
    /\ bounds.moves < MaxMoves /\ bounds.moves + bounds.kills < MaxEvents /\ bounds' = [bounds EXCEPT !.moves = @ + 1]
    /\ \A c \in Brain : place[c].path # path
    /\ \A p \in Process : call[p] # Idle => call[p].brain # b
    /\ place' = [place EXCEPT ![b].path = path]
    /\ shared' = IF \E d \in Device \ {place[b].device} : \E bound \in runtime[d].bound : bound.path = path
                 THEN shared \cup {b} ELSE shared
    /\ UNCHANGED <<runtime, renumber, call>>

Release(p) == renumber' = IF renumber = p THEN Nobody ELSE renumber

\* A kill within a transaction leaves the journal SQLite rolls back when the
\* queue is next opened for writing.
Kill(p) ==
    /\ bounds.kills < MaxKills /\ bounds.moves + bounds.kills < MaxEvents /\ bounds' = [bounds EXCEPT !.kills = @ + 1]
    /\ call[p] # Idle
    /\ \/ UNCHANGED runtime
       \/ call[p].step = "open" /\ runtime' = [runtime EXCEPT ![call[p].device].hot = TRUE]
    /\ Release(p) /\ call' = [call EXCEPT ![p] = Idle]
    /\ UNCHANGED <<place, shared>>

-----------------------------------------------------------------------------
(* _renumbered, for the queue or for the state of a program.               *)

Goto(p, step) == call' = [call EXCEPT ![p].step = step]
End(p) == call' = [call EXCEPT ![p] = Idle]
Continue(p) == IF call[p].uses = "queue" THEN Goto(p, "open") ELSE End(p)

\* Without a folder of its own, it waits for the lock to look for another.
Start(p, b, uses) ==
    LET called(step) == [step |-> step, brain |-> b, device |-> place[b].device, uses |-> uses,
                         from |-> place[b].device]
    IN /\ call[p] = Idle
       /\ IF runtime[place[b].device].exists
          THEN uses = "queue" /\ call' = [call EXCEPT ![p] = called("open")]
          ELSE call' = [call EXCEPT ![p] = called("scan")]
       /\ UNCHANGED <<place, runtime, renumber, shared, bounds>>

Found(c) == {d \in Device : \E b \in runtime[d].bound : ~runtime[d].hot /\ b.path = place[c.brain].path}
Unread == {d \in Device : runtime[d].hot}

\* Mutant: a queue that cannot be read is passed over.
ScanReadable(p) ==
    LET c == call[p]
    IN /\ c.step = "scan" /\ renumber = Nobody
       /\ IF ~runtime[c.device].exists /\ Cardinality(Found(c)) = 1
          THEN /\ call' = [call EXCEPT ![p].step = "rename", ![p].from = CHOOSE d \in Found(c) : TRUE]
               /\ renumber' = p
          ELSE UNCHANGED renumber /\ Continue(p)
       /\ UNCHANGED <<place, runtime, shared, bounds>>

\* What another process moved or made since is not looked for.  The queue's user
\* is refused while several queues are its own or one of the queues cannot be
\* read; a program starts without its state.
Scan(p) ==
    LET c == call[p]
        none == Found(c) = {} /\ Unread = {}
    IN /\ c.step = "scan" /\ renumber = Nobody
       /\ IF ~runtime[c.device].exists /\ Cardinality(Found(c)) = 1 /\ Unread = {}
          THEN /\ call' = [call EXCEPT ![p].step = "rename", ![p].from = CHOOSE d \in Found(c) : TRUE]
               /\ renumber' = p
          ELSE /\ UNCHANGED renumber
               /\ IF runtime[c.device].exists \/ none \/ c.uses = "program"
                  THEN Continue(p) ELSE End(p)
       /\ UNCHANGED <<place, runtime, shared, bounds>>

\* A folder made since refuses the rename, and so the call.
RenameRuntime(p) ==
    LET c == call[p]
    IN /\ c.step = "rename"
       /\ IF runtime[c.device].exists
          THEN UNCHANGED runtime /\ End(p)
          ELSE /\ runtime' = [runtime EXCEPT ![c.device] = runtime[c.from], ![c.from] = NoFolder]
               /\ Continue(p)
       /\ renumber' = Nobody
       /\ UNCHANGED <<place, shared, bounds>>

-----------------------------------------------------------------------------
(* The queue and the state, once they are found.                           *)

\* Mutant: any queue found under the brain's number is taken over.
BindAlways(queue, b) == TRUE

\* Queue._bind: a drained queue follows its brain's path and name.
Binds(queue, b) == queue.bound = {Bound(b)} \/ queue.work = {} \/ queue.bound = {}

\* One transaction: creates the folder and the queue, rolls a journal back,
\* binds, and admits work, resolves what it finds, or only reads.
Transact(p) ==
    LET c == call[p]
        queue == [runtime[c.device] EXCEPT !.exists = TRUE, !.hot = FALSE]
    IN /\ c.step = "open"
       /\ IF Binds(queue, c.brain)
          THEN /\ \E work \in {{}, queue.work, queue.work \cup {Bound(c.brain)}} :
                    runtime' = [runtime EXCEPT ![c.device] =
                                    [queue EXCEPT !.bound = {Bound(c.brain)}, !.work = work]]
               /\ (UNCHANGED call \/ End(p))
          ELSE runtime' = [runtime EXCEPT ![c.device] = queue] /\ End(p)
       /\ UNCHANGED <<place, renumber, shared, bounds>>

Next ==
    \/ Boot
    \/ \E b \in Brain, path \in Path : Move(b, path)
    \/ \E p \in Process :
        \/ \E b \in Brain, uses \in {"queue", "program"} : Start(p, b, uses)
        \/ Scan(p) \/ RenameRuntime(p) \/ Transact(p) \/ Kill(p)

Spec == Init /\ [][Next]_vars

-----------------------------------------------------------------------------
(* What is correct.                                                        *)

\* A queue's work is resolved only for the brain that admitted it, whatever
\* numbers and paths the brains have; and no brain uses another queue while
\* work it admitted waits, unless a brain got the number of another folder, or
\* came to a path that another number's folder is bound to: its own old one,
\* which it left when it was moved and renumbered, or another brain's.
KeepsToItsBrain ==
    \A d \in Device : \A b \in {b \in Brain : place[b].device = d} :
        runtime'[d] # runtime[d] /\ runtime'[d].exists =>
            /\ runtime[d].work \ runtime'[d].work \subseteq {Bound(b)}
            /\ shared = {} /\ runtime'[d].bound = {Bound(b)} =>
                 \A e \in Device \ {d} : Bound(b) \notin runtime'[e].work

QueueFollowsBrain == [][KeepsToItsBrain]_vars
=============================================================================
