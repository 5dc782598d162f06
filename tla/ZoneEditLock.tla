--------------------------- MODULE ZoneEditLock ---------------------------
(***************************************************************************)
(* ZoneEditLock (src/zonectl/core/edit_lock.py): the lock an editing       *)
(* session of one zone takes when it opens and gives back when it closes.  *)
(* Every step between two system calls is an action of its own, because    *)
(* another process may run there. A process that dies loses its handle.    *)
(***************************************************************************)
EXTENDS LockFile

CONSTANT MaxOpens    \* bound: sessions one process opens in a behaviour

ASSUME MaxOpensAssumption == MaxOpens \in Nat

VARIABLES
    pc,      \* pc[p]: where p is in acquire() or release()
    opens,   \* opens[p]: sessions p has tried to open so far
    meta,    \* meta[i]: process named by the JSON in inode i, or None
    told,    \* told[p]: owner the last refusal of p named, or None
    released \* history: some session has removed the name

vars == <<path, handle, flocked, pc, opens, meta, told, released>>

Places == {"idle", "opened", "locked", "truncated", "held", "unlinked",
           "refused"}

TypeOK ==
    /\ LockTypeOK
    /\ pc \in [Procs -> Places]
    /\ opens \in [Procs -> 0..MaxOpens]
    /\ meta \in [Inodes -> Procs \union {None}]
    /\ told \in [Procs -> Procs \union {None}]
    /\ released \in BOOLEAN

Init ==
    /\ LockInit
    /\ pc = [p \in Procs |-> "idle"]
    /\ opens = [p \in Procs |-> 0]
    /\ meta = [i \in Inodes |-> None]
    /\ told = [p \in Procs |-> None]
    /\ released = FALSE

Goto(p, from, to) ==
    /\ pc[p] = from
    /\ pc' = [pc EXCEPT ![p] = to]

(* acquire() ***************************************************************)

\* mutant: the file is opened with "w", which empties it before the flock
Open_Truncating(p) ==
    /\ pc[p] \in {"idle", "refused"}
    /\ opens[p] < MaxOpens
    /\ pc' = [pc EXCEPT ![p] = "opened"]
    /\ OpenLockFile(p)
    /\ opens' = [opens EXCEPT ![p] = @ + 1]
    /\ meta' = [meta EXCEPT ![path'] = None]
    /\ told' = [told EXCEPT ![p] = None]
    /\ UNCHANGED released

Open(p) ==
    /\ pc[p] \in {"idle", "refused"}
    /\ opens[p] < MaxOpens
    /\ pc' = [pc EXCEPT ![p] = "opened"]
    /\ OpenLockFile(p)
    /\ opens' = [opens EXCEPT ![p] = @ + 1]
    /\ meta' = IF path = None THEN [meta EXCEPT ![path'] = None] ELSE meta
    /\ told' = [told EXCEPT ![p] = None]
    /\ UNCHANGED released

TakeFlock(p) ==
    /\ Goto(p, "opened", "locked")
    /\ Flock(p)
    /\ UNCHANGED <<opens, meta, told, released>>

\* BlockingIOError: name the owner found in the file, close, raise
\* ZoneEditLockedError.
Refuse(p) ==
    /\ Goto(p, "opened", "refused")
    /\ ~FlockFree(p)
    /\ told' = [told EXCEPT ![p] = meta[handle[p]]]
    /\ CloseLockFile(p)
    /\ UNCHANGED <<opens, meta, released>>

TruncateMetadata(p) ==
    /\ Goto(p, "locked", "truncated")
    /\ meta' = [meta EXCEPT ![handle[p]] = None]
    /\ UNCHANGED <<lockVars, opens, told, released>>

\* dump, fsync and chmod(self.path): the chmod goes by name, so it raises
\* when the name is gone although the flock was won.
WriteMetadata(p) ==
    /\ path # None
    /\ Goto(p, "truncated", "held")
    /\ meta' = [meta EXCEPT ![handle[p]] = p]
    /\ UNCHANGED <<lockVars, opens, told, released>>

\* mutant: the error branch also removes the lock file
MetadataFails_Unlinks(p) ==
    /\ pc[p] \in {"locked", "truncated"}
    /\ pc' = [pc EXCEPT ![p] = "idle"]
    /\ path' = None
    /\ handle' = [handle EXCEPT ![p] = None]
    /\ flocked' = flocked \ {p}
    /\ UNCHANGED <<opens, meta, told, released>>

\* mutant: the error branch re-raises without unlocking
MetadataFails_KeepsLock(p) ==
    /\ pc[p] \in {"locked", "truncated"}
    /\ pc' = [pc EXCEPT ![p] = "idle"]
    /\ UNCHANGED <<lockVars, opens, meta, told, released>>

\* The name is gone, or the metadata could not be written: unlock, close,
\* re-raise. What was written before the error stays in the file.
MetadataFails(p) ==
    /\ pc[p] \in {"locked", "truncated"}
    /\ pc' = [pc EXCEPT ![p] = "idle"]
    /\ meta' \in {meta, [meta EXCEPT ![handle[p]] = None],
                  [meta EXCEPT ![handle[p]] = p]}
    /\ CloseLockFile(p)
    /\ UNCHANGED <<opens, told, released>>

(* release() ***************************************************************)

Unlink(p) ==
    /\ Goto(p, "held", "unlinked")
    /\ UnlinkLockFile
    /\ released' = TRUE
    /\ UNCHANGED <<opens, meta, told>>

Unlock(p) ==
    /\ Goto(p, "unlinked", "idle")
    /\ CloseLockFile(p)
    /\ UNCHANGED <<opens, meta, told, released>>

\* The process dies anywhere: the kernel drops its flock, the name stays.
Crash(p) ==
    /\ pc[p] \notin {"idle", "refused"}
    /\ pc' = [pc EXCEPT ![p] = "idle"]
    /\ CloseLockFile(p)
    /\ UNCHANGED <<opens, meta, told, released>>

Next ==
    \E p \in Procs :
        \/ Open(p) \/ TakeFlock(p) \/ Refuse(p)
        \/ TruncateMetadata(p) \/ WriteMetadata(p) \/ MetadataFails(p)
        \/ Unlink(p) \/ Unlock(p)
        \/ Crash(p)

Spec == Init /\ [][Next]_vars

(* Properties **************************************************************)

Held(p) == pc[p] = "held"

\* What release() alone can break: until some session has removed the name,
\* no two processes edit the zone, whatever crashes, failed writes and retries
\* came before (acquire(): every opener contends for the one inode).
ExclusionUntilRelease ==
    ~released => \A p, q \in Procs : Held(p) /\ Held(q) => p = q

\* The metadata in the file a session holds is its own: no later opener,
\* refused or failing, overwrites or truncates it (acquire() writes only
\* after it has won the flock).
HolderIsNamed == \A p \in Procs : Held(p) => meta[handle[p]] = p

\* A lock file that a dead process left behind keeps nobody out: a session
\* that opened it while no other process is in the protocol is never refused.
Alone(p) ==
    /\ pc[p] = "opened"
    /\ \A q \in Procs \ {p} : pc[q] \in {"idle", "refused"}

StaleFileAdmits == \A p \in Procs : Alone(p) => FlockFree(p)
=============================================================================
