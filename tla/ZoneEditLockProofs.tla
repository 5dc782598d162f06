------------------------ MODULE ZoneEditLockProofs ------------------------
(***************************************************************************)
(* Theorems about ZoneEditLock, for any number of processes, inodes and    *)
(* sessions: its types, exclusion until a session has removed the lock     *)
(* file, and that the file always names the session that holds it.         *)
(***************************************************************************)
EXTENDS ZoneEditLock, TLAPS

(* The inductive invariant *************************************************)

\* A process holds the flock from the flock to the close and at no other time,
\* and has the file open exactly when it is in acquire(), a session or
\* release().
Holding == {"locked", "truncated", "held", "unlinked"}

FlockMatchesPlace ==
    \A p \in Procs :
        /\ pc[p] \in Holding <=> p \in flocked
        /\ pc[p] \in {"idle", "refused"} <=> handle[p] = None

\* Until the name is removed, every open handle is on the one inode it has.
OneInode ==
    ~released => \A p \in Procs : handle[p] # None => handle[p] = path

LockInv ==
    /\ TypeOK
    /\ FlockExclusive /\ FlockHasHandle
    /\ FlockMatchesPlace
    /\ OneInode
    /\ HolderIsNamed

(* The file system calls ***************************************************)

\* open, flock, close and unlink keep the types of the lock file, one holder
\* for each inode and a handle under each flock.
LEMMA LockCalls ==
    ASSUME LockTypeOK, FlockExclusive, FlockHasHandle, NEW p \in Procs,
           \/ OpenLockFile(p) \/ CloseLockFile(p)
           \/ handle[p] # None /\ Flock(p)
           \/ UnlinkLockFile \/ UNCHANGED lockVars
    PROVE  LockTypeOK' /\ FlockExclusive' /\ FlockHasHandle'
<1>1. LockTypeOK'
  BY DEF LockTypeOK, OpenLockFile, CloseLockFile, Flock, UnlinkLockFile,
         lockVars, Fresh
<1>2. CASE OpenLockFile(p)
  BY <1>1, <1>2 DEF OpenLockFile, LockTypeOK, FlockExclusive, FlockHasHandle
<1>3. CASE CloseLockFile(p)
  BY <1>1, <1>3 DEF CloseLockFile, LockTypeOK, FlockExclusive, FlockHasHandle
<1>4. CASE handle[p] # None /\ Flock(p)
  BY <1>1, <1>4
     DEF Flock, FlockFree, LockTypeOK, FlockExclusive, FlockHasHandle
<1>5. CASE UnlinkLockFile \/ UNCHANGED lockVars
  BY <1>1, <1>5 DEF UnlinkLockFile, lockVars, FlockExclusive, FlockHasHandle
<1> QED
  BY <1>1, <1>2, <1>3, <1>4, <1>5

\* A process at "opened" or in its session has the file open, and two that
\* hold it have two inodes.
LEMMA HoldersApart ==
    ASSUME LockInv
    PROVE  /\ \A p \in Procs : pc[p] \in Holding => handle[p] \in Inodes
           /\ \A p, q \in Procs :
                 pc[p] \in Holding /\ pc[q] \in Holding /\ p # q =>
                     handle[p] # handle[q]
BY DEF LockInv, TypeOK, LockTypeOK, FlockExclusive, FlockHasHandle,
       FlockMatchesPlace

(* Steps *******************************************************************)

\* Opening: a new file gets an inode nobody has open, so no holder's metadata
\* is touched.
LEMMA OpenKeeps ==
    ASSUME LockInv, NEW p \in Procs, Open(p)
    PROVE  LockInv'
<1>1. LockTypeOK' /\ FlockExclusive' /\ FlockHasHandle'
  BY LockCalls DEF LockInv, TypeOK, Open
<1>2. /\ path' \in Inodes
      /\ handle' = [handle EXCEPT ![p] = path']
      /\ \/ path # None /\ path' = path /\ meta' = meta
         \/ /\ path = None
            /\ \A q \in Procs : handle[q] # path'
            /\ meta' = [meta EXCEPT ![path'] = None]
  BY NoneAssumption
     DEF LockInv, TypeOK, LockTypeOK, Open, OpenLockFile, Fresh
<1>3. opens' \in [Procs -> 0..MaxOpens]
  BY MaxOpensAssumption DEF LockInv, TypeOK, Open
<1>4. TypeOK'
  BY <1>1, <1>2, <1>3 DEF LockInv, TypeOK, Open, Places
<1>5. FlockMatchesPlace'
  BY <1>2 DEF LockInv, TypeOK, LockTypeOK, FlockMatchesPlace, Open, Holding,
              OpenLockFile
<1>6. OneInode'
  BY <1>2 DEF LockInv, TypeOK, LockTypeOK, OneInode, Open
<1>7. HolderIsNamed'
  <2> SUFFICES ASSUME NEW q \in Procs, Held(q)' PROVE meta'[handle'[q]] = q
    BY DEF HolderIsNamed
  <2>1. q # p /\ Held(q) /\ handle'[q] = handle[q]
    BY <1>2 DEF Held, Open, LockInv, TypeOK, LockTypeOK
  <2>2. handle[q] \in Inodes /\ meta[handle[q]] = q
    BY <2>1, HoldersApart DEF LockInv, HolderIsNamed, Held, Holding
  <2> QED
    BY <1>2, <2>1, <2>2 DEF LockInv, TypeOK
<1> QED
  BY <1>1, <1>4, <1>5, <1>6, <1>7 DEF LockInv

\* Winning the flock.
LEMMA TakeFlockKeeps ==
    ASSUME LockInv, NEW p \in Procs, TakeFlock(p)
    PROVE  LockInv'
<1>0. handle[p] # None
  BY DEF LockInv, FlockMatchesPlace, TakeFlock, Goto
<1>1. LockTypeOK' /\ FlockExclusive' /\ FlockHasHandle'
  BY <1>0, LockCalls DEF LockInv, TypeOK, TakeFlock
<1>2. TypeOK'
  BY <1>1 DEF LockInv, TypeOK, TakeFlock, Goto, Places
<1>3. FlockMatchesPlace' /\ OneInode' /\ HolderIsNamed'
  BY <1>0 DEF LockInv, TypeOK, FlockMatchesPlace, OneInode, HolderIsNamed,
              Held, TakeFlock, Goto, Flock, Holding
<1> QED
  BY <1>1, <1>2, <1>3 DEF LockInv

\* Writing into the file one holds: no other holder has the same inode.
Writes(p, to, m) ==
    /\ pc[p] \in Holding
    /\ pc' = [pc EXCEPT ![p] = to]
    /\ m \in [Inodes -> Procs \union {None}]
    /\ \A i \in Inodes : i # handle[p] => m[i] = meta[i]
    /\ meta' = m

\* A write of the holder of an inode leaves the metadata of the others alone.
LEMMA OthersNamed ==
    ASSUME LockInv, NEW p \in Procs, NEW to, NEW m, Writes(p, to, m),
           NEW q \in Procs, q # p, Held(q)', handle'[q] = handle[q]
    PROVE  meta'[handle'[q]] = q
<1>1. Held(q)
  BY DEF Held, Writes, LockInv, TypeOK
<1>2. handle[q] \in Inodes /\ handle[q] # handle[p] /\ meta[handle[q]] = q
  BY <1>1, HoldersApart DEF LockInv, HolderIsNamed, Held, Holding, Writes
<1> QED
  BY <1>2 DEF Writes

\* Truncating the file, or writing the owner into it.
LEMMA MetadataKeeps ==
    ASSUME LockInv, NEW p \in Procs, TruncateMetadata(p) \/ WriteMetadata(p)
    PROVE  LockInv'
<1>1. PICK to \in {"truncated", "held"}, o \in {None, p} :
         /\ Writes(p, to, [meta EXCEPT ![handle[p]] = o])
         /\ to = "held" => o = p
  BY HoldersApart
     DEF LockInv, TypeOK, TruncateMetadata, WriteMetadata, Goto, Writes,
         Holding
<1>2. /\ UNCHANGED <<path, handle, flocked>>
      /\ UNCHANGED <<opens, told, released>>
  BY DEF TruncateMetadata, WriteMetadata, lockVars
<1>3. TypeOK' /\ FlockExclusive' /\ FlockHasHandle' /\ OneInode'
  BY <1>1, <1>2
     DEF LockInv, TypeOK, LockTypeOK, FlockExclusive, FlockHasHandle,
         OneInode, Writes, Places
<1>4. FlockMatchesPlace'
  BY <1>1, <1>2 DEF LockInv, TypeOK, FlockMatchesPlace, Writes, Holding
<1>5. HolderIsNamed'
  <2> SUFFICES ASSUME NEW q \in Procs, Held(q)' PROVE meta'[handle'[q]] = q
    BY DEF HolderIsNamed
  <2>1. CASE q = p
    <3>1. to = "held" /\ handle[p] \in Inodes
      BY <1>1, <2>1, HoldersApart DEF Held, Writes, LockInv, TypeOK
    <3> QED
      BY <1>1, <1>2, <2>1, <3>1 DEF Writes, LockInv, TypeOK
  <2>2. CASE q # p
    BY <1>1, <1>2, <2>2, OthersNamed
  <2> QED
    BY <2>1, <2>2
<1> QED
  BY <1>3, <1>4, <1>5 DEF LockInv

\* Closing the file: after a refusal, after an error, at the end of release()
\* or by the death of the process.
LEMMA CloseKeeps ==
    ASSUME LockInv, NEW p \in Procs,
           Refuse(p) \/ MetadataFails(p) \/ Unlock(p) \/ Crash(p)
    PROVE  LockInv'
<1>1. /\ CloseLockFile(p)
      /\ UNCHANGED <<opens, released>>
      /\ \E to \in {"idle", "refused"} : pc' = [pc EXCEPT ![p] = to]
  BY DEF Refuse, MetadataFails, Unlock, Crash, Goto
<1>2. LockTypeOK' /\ FlockExclusive' /\ FlockHasHandle'
  BY <1>1, LockCalls DEF LockInv, TypeOK
<1>3. told' \in [Procs -> Procs \union {None}]
  <2>1. CASE Refuse(p)
    <3>1. handle[p] \in Inodes \union {None}
      BY DEF LockInv, TypeOK, LockTypeOK
    <3>2. CASE handle[p] = None
      BY <2>1, <3>2
         DEF Refuse, FlockFree, LockInv, FlockHasHandle
    <3>3. CASE handle[p] \in Inodes
      BY <2>1, <3>3 DEF Refuse, LockInv, TypeOK
    <3> QED
      BY <3>1, <3>2, <3>3
  <2>2. CASE MetadataFails(p) \/ Unlock(p) \/ Crash(p)
    BY <2>2 DEF MetadataFails, Unlock, Crash, LockInv, TypeOK
  <2> QED
    BY <2>1, <2>2
<1>4. \/ meta' = meta
      \/ \E to \in {"idle"} : Writes(p, to, meta')
  BY HoldersApart
     DEF Refuse, MetadataFails, Unlock, Crash, Writes, Holding, LockInv,
         TypeOK
<1>5. TypeOK'
  BY <1>1, <1>2, <1>3, <1>4 DEF LockInv, TypeOK, Places, Writes
<1>6. FlockMatchesPlace'
  BY <1>1 DEF LockInv, TypeOK, LockTypeOK, FlockMatchesPlace, CloseLockFile,
              Holding
<1>7. OneInode'
  BY <1>1 DEF LockInv, TypeOK, LockTypeOK, OneInode, CloseLockFile
<1>8. HolderIsNamed'
  <2> SUFFICES ASSUME NEW q \in Procs, Held(q)' PROVE meta'[handle'[q]] = q
    BY DEF HolderIsNamed
  <2>1. q # p /\ Held(q) /\ handle'[q] = handle[q]
    BY <1>1 DEF Held, CloseLockFile, LockInv, TypeOK, LockTypeOK
  <2>2. CASE meta' = meta
    BY <2>1, <2>2 DEF LockInv, HolderIsNamed
  <2>3. CASE \E to \in {"idle"} : Writes(p, to, meta')
    BY <2>1, <2>3, OthersNamed
  <2> QED
    BY <1>4, <2>2, <2>3
<1> QED
  BY <1>2, <1>5, <1>6, <1>7, <1>8 DEF LockInv

\* Removing the name.
LEMMA UnlinkKeeps ==
    ASSUME LockInv, NEW p \in Procs, Unlink(p)
    PROVE  LockInv'
<1>1. LockTypeOK' /\ FlockExclusive' /\ FlockHasHandle'
  BY LockCalls DEF LockInv, TypeOK, Unlink
<1>2. TypeOK'
  BY <1>1 DEF LockInv, TypeOK, Unlink, Goto, Places
<1>3. FlockMatchesPlace' /\ OneInode' /\ HolderIsNamed'
  BY DEF LockInv, TypeOK, FlockMatchesPlace, OneInode, HolderIsNamed, Held,
         Unlink, Goto, UnlinkLockFile, Holding
<1> QED
  BY <1>1, <1>2, <1>3 DEF LockInv

(* Theorems ****************************************************************)

\* The inductive invariant of the lock: types, one holder for each inode, a
\* flock between acquire() and release(), one inode until the first release,
\* and the holder's own metadata in the file.
THEOREM LockInvariant == Spec => []LockInv
<1>1. Init => LockInv
  <2> SUFFICES ASSUME Init PROVE LockInv
    OBVIOUS
  <2>1. TypeOK
    <3>1. opens \in [Procs -> 0..MaxOpens]
      BY MaxOpensAssumption DEF Init
    <3>2. LockTypeOK
      BY DEF Init, LockInit, LockTypeOK
    <3>3. pc \in [Procs -> Places] /\ meta \in [Inodes -> Procs \union {None}]
      BY DEF Init, Places
    <3> QED
      BY <3>1, <3>2, <3>3 DEF Init, TypeOK
  <2>2. FlockExclusive /\ FlockHasHandle /\ FlockMatchesPlace
    BY DEF Init, LockInit, FlockExclusive, FlockHasHandle, FlockMatchesPlace,
           Holding
  <2>3. OneInode /\ HolderIsNamed
    BY DEF Init, LockInit, OneInode, HolderIsNamed, Held
  <2> QED
    BY <2>1, <2>2, <2>3 DEF LockInv
<1>2. LockInv /\ [Next]_vars => LockInv'
  <2> SUFFICES ASSUME LockInv, [Next]_vars PROVE LockInv'
    OBVIOUS
  <2>1. ASSUME NEW p \in Procs, Open(p) PROVE LockInv'
    BY <2>1, OpenKeeps
  <2>2. ASSUME NEW p \in Procs, TakeFlock(p) PROVE LockInv'
    BY <2>2, TakeFlockKeeps
  <2>3. ASSUME NEW p \in Procs, TruncateMetadata(p) \/ WriteMetadata(p)
        PROVE  LockInv'
    BY <2>3, MetadataKeeps
  <2>4. ASSUME NEW p \in Procs,
               Refuse(p) \/ MetadataFails(p) \/ Unlock(p) \/ Crash(p)
        PROVE  LockInv'
    BY <2>4, CloseKeeps
  <2>5. ASSUME NEW p \in Procs, Unlink(p) PROVE LockInv'
    BY <2>5, UnlinkKeeps
  <2>6. CASE UNCHANGED vars
    BY <2>6
       DEF vars, LockInv, TypeOK, LockTypeOK, FlockExclusive, FlockHasHandle,
           FlockMatchesPlace, OneInode, HolderIsNamed, Held
  <2> QED
    BY <2>1, <2>2, <2>3, <2>4, <2>5, <2>6 DEF Next
<1> QED
  BY <1>1, <1>2, PTL DEF Spec

\* Type correctness for any number of processes, inodes and sessions.
THEOREM TypeCorrect == Spec => []TypeOK
<1>1. LockInv => TypeOK
  BY DEF LockInv
<1> QED
  BY <1>1, LockInvariant, PTL

\* Until some session has removed the lock file, two processes never edit the
\* zone at the same time, whatever crashes, refusals and failed writes came
\* before (acquire() and the error branches of edit_lock.py).
THEOREM Exclusion == Spec => []ExclusionUntilRelease
<1>1. LockInv => ExclusionUntilRelease
  <2> SUFFICES ASSUME LockInv, ~released, NEW p \in Procs, NEW q \in Procs,
                      Held(p), Held(q), p # q
               PROVE  FALSE
    BY DEF ExclusionUntilRelease
  <2>1. handle[p] \in Inodes /\ handle[q] \in Inodes /\ handle[p] # handle[q]
    BY HoldersApart DEF Held, Holding
  <2>2. handle[p] = path /\ handle[q] = path
    BY <2>1, NoneAssumption DEF LockInv, OneInode
  <2> QED
    BY <2>1, <2>2
<1> QED
  BY <1>1, LockInvariant, PTL

\* The metadata in the file a session holds always names that session.
THEOREM HolderNamed == Spec => []HolderIsNamed
<1>1. LockInv => HolderIsNamed
  BY DEF LockInv
<1> QED
  BY <1>1, LockInvariant, PTL

\* A file left behind by a dead process refuses nobody: a process alone in the
\* protocol wins the flock.
THEOREM StaleAdmits == Spec => []StaleFileAdmits
<1>1. LockInv => StaleFileAdmits
  <2> SUFFICES ASSUME LockInv, NEW p \in Procs, Alone(p), NEW q \in flocked
               PROVE  FALSE
    BY DEF StaleFileAdmits, FlockFree
  <2>1. q \in Procs /\ pc[q] \in Holding
    BY DEF LockInv, TypeOK, LockTypeOK, FlockMatchesPlace
  <2> QED
    BY <2>1 DEF Alone, Holding
<1> QED
  BY <1>1, LockInvariant, PTL
=============================================================================
