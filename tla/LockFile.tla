------------------------------ MODULE LockFile ------------------------------
(***************************************************************************)
(* The advisory lock files of storage.py: one file name per job or         *)
(* delivery, opened with O_CREAT and then locked with flock.  A lock lives *)
(* on an inode, not on a name: runtime.forget removes the name while it    *)
(* holds the lock, after which a process that had already opened the old   *)
(* inode and a process that creates a new one can both hold "the" lock.    *)
(* A process works on one key at a time and holds at most its lock.        *)
(***************************************************************************)
EXTENDS Naturals

CONSTANTS
    Process,  \* processes and worker threads that may lock a key
    Key,      \* what is locked: jobs or deliveries
    Inode     \* inode numbers; one more than there are processes suffices

ASSUME InodeAssumption == Inode \subseteq Nat \ {0}

NoInode == 0

VARIABLES
    path,  \* path[k]: the inode behind the lock file's name, or NoInode
    key,   \* key[p]: the key process p works on
    fd,    \* fd[p]: the inode p opened for key[p], or NoInode
    held   \* held[p]: p holds the flock of fd[p]

LockTypeOK ==
    /\ path \in [Key -> Inode \cup {NoInode}]
    /\ key \in [Process -> Key]
    /\ fd \in [Process -> Inode \cup {NoInode}]
    /\ held \in [Process -> BOOLEAN]

LockInit ==
    /\ path = [k \in Key |-> NoInode]
    /\ \E k \in Key : key = [p \in Process |-> k]
    /\ fd = [p \in Process |-> NoInode]
    /\ held = [p \in Process |-> FALSE]

Unused(k) ==
    {i \in Inode : i # path[k] /\ \A p \in Process : key[p] = k => fd[p] # i}

\* The filesystem hands out the least free inode number: reuse is allowed,
\* since a flock belongs to an open file and never survives its close.
NewInode(k, i) == i \in Unused(k) /\ \A n \in Unused(k) : i <= n

\* os.open(leaf, O_RDWR | O_CREAT): the file behind the name, or a new one.
OpenLock(p) ==
    /\ \/ /\ path[key[p]] # NoInode
          /\ fd' = [fd EXCEPT ![p] = path[key[p]]]
          /\ UNCHANGED path
       \/ /\ path[key[p]] = NoInode
          /\ \E i \in Inode :
                /\ NewInode(key[p], i)
                /\ fd' = [fd EXCEPT ![p] = i]
                /\ path' = [path EXCEPT ![key[p]] = i]
    /\ UNCHANGED <<key, held>>

LockFree(p) ==
    \A q \in Process \ {p} : ~(held[q] /\ key[q] = key[p] /\ fd[q] = fd[p])

\* Mutant: the lock is shared.
TakeShared(p) ==
    /\ held' = [held EXCEPT ![p] = TRUE]
    /\ UNCHANGED <<path, key, fd>>

\* flock(LOCK_EX | LOCK_NB) succeeds.
TakeLock(p) ==
    /\ LockFree(p)
    /\ held' = [held EXCEPT ![p] = TRUE]
    /\ UNCHANGED <<path, key, fd>>

\* os.close, or the death of the process: the kernel drops its flock.
CloseLock(p) ==
    /\ fd' = [fd EXCEPT ![p] = NoInode]
    /\ held' = [held EXCEPT ![p] = FALSE]
    /\ UNCHANGED <<path, key>>

\* runtime.forget: the name goes, whatever inode it leads to by now.
UnlinkLock(p) ==
    /\ path' = [path EXCEPT ![key[p]] = NoInode]
    /\ UNCHANGED <<key, fd, held>>

=============================================================================
