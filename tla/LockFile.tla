----------------------------- MODULE LockFile -----------------------------
(***************************************************************************)
(* The kernel objects under a lock file: one directory entry, the inodes   *)
(* it may point to, the open handles of the processes and the advisory     *)
(* flock(2) each of them may hold on the inode behind its handle.          *)
(*                                                                         *)
(* Both lock protocols of the program (ZoneEditLock in edit_lock.py and    *)
(* ZoneLock in transaction.py) are sequences of these calls; they differ   *)
(* in the order in which they give the flock up and remove the entry.      *)
(***************************************************************************)
EXTENDS FiniteSets, Naturals

CONSTANTS Procs,    \* processes that may run a command
          Inodes,   \* inodes the file system can hand out
          None      \* "no inode" / "no value"

ASSUME NoneAssumption == None \notin Procs \union Inodes

VARIABLES
    path,      \* inode the lock file name points to, or None
    handle,    \* handle[p]: inode behind the file p has open, or None
    flocked    \* processes whose handle carries LOCK_EX

lockVars == <<path, handle, flocked>>

LockTypeOK ==
    /\ path \in Inodes \union {None}
    /\ handle \in [Procs -> Inodes \union {None}]
    /\ flocked \in SUBSET Procs

LockInit ==
    /\ path = None
    /\ handle = [p \in Procs |-> None]
    /\ flocked = {}

\* An inode no name and no handle refers to: the next file created gets one.
Fresh == {i \in Inodes : i # path /\ \A p \in Procs : handle[p] # i}

\* path.open("a+"): open the named file, creating it when the name is free.
OpenLockFile(p) ==
    /\ handle[p] = None
    /\ \E i \in IF path = None THEN Fresh ELSE {path} :
          /\ path' = i
          /\ handle' = [handle EXCEPT ![p] = i]
    /\ UNCHANGED flocked

\* LOCK_NB meets nobody: no other process holds the flock of the same inode.
FlockFree(p) == \A q \in flocked : handle[q] # handle[p]

Flock(p) ==
    /\ FlockFree(p)
    /\ flocked' = flocked \union {p}
    /\ UNCHANGED <<path, handle>>

\* Closing the handle, by the program or by the kernel when the process dies,
\* also gives up the flock. The name stays.
CloseLockFile(p) ==
    /\ handle' = [handle EXCEPT ![p] = None]
    /\ flocked' = flocked \ {p}
    /\ UNCHANGED path

\* path.unlink() with FileNotFoundError ignored: whatever inode the name has.
UnlinkLockFile ==
    /\ path' = None
    /\ UNCHANGED <<handle, flocked>>

\* flock(2)'s own promise: one exclusive holder for each inode.
FlockExclusive ==
    \A p, q \in flocked : p # q => handle[p] # handle[q]

\* A flock lives on an open handle only.
FlockHasHandle == \A p \in flocked : handle[p] # None
=============================================================================
