---------------------- MODULE TransactionEngineProofs ----------------------
(***************************************************************************)
(* Theorems about TransactionEngine, for any number of processes, contents *)
(* and faults: its types, the guard on every write of the zone file, the   *)
(* contents that survive whatever commands meet, what the zone lock        *)
(* excludes, and what commands that do not overlap do to the file: every   *)
(* content is kept, outcomes are true, a COMMIT is served and the engine   *)
(* implements VersionedFile.                                               *)
(***************************************************************************)
EXTENDS TransactionEngine, TLAPS

(* Types *******************************************************************)

\* The calls on the lock file keep the types of the lock file.
LEMMA LockSteps ==
    ASSUME LockTypeOK, NEW p \in Procs,
           OpenLockFile(p) \/ Flock(p) \/ CloseLockFile(p) \/ UnlinkLockFile
                \/ UNCHANGED lockVars
    PROVE  LockTypeOK'
BY DEF LockTypeOK, OpenLockFile, Flock, CloseLockFile, UnlinkLockFile,
       lockVars, Fresh

\* The empty command record and the empty manifest have their types.
LEMMA NoTxTypes == NoTx \in Transactions /\ NoManifest \in Manifests
BY DEF NoTx, NoManifest, Transactions, Manifests

\* The initial states are type correct.
LEMMA InitTypes == Init => TypeOK
<1> SUFFICES ASSUME Init PROVE TypeOK
  OBVIOUS
<1>1. LockTypeOK
  BY DEF Init, LockInit, LockTypeOK
<1>2. file \in Content \union {Absent} /\ settled \in SUBSET Content
  BY EngineAssumption DEF Init
<1>3. pc \in [Procs -> Places]
  BY DEF Init, Places
<1>4. tx \in [Procs -> Transactions] /\ manifest \in [Procs -> Manifests]
  BY NoTxTypes DEF Init
<1>5. ran \in [Procs -> 0..MaxTx]
  BY EngineAssumption DEF Init
<1> QED
  BY <1>1, <1>2, <1>3, <1>4, <1>5 DEF Init, TypeOK

\* Starting a command (the first lines of apply, rollback, verify and
\* validate) keeps the types.
LEMMA StartTypes ==
    ASSUME TypeOK, NEW p \in Procs, Start(p)
    PROVE  TypeOK'
<1>1. LockTypeOK'
  BY LockSteps DEF TypeOK, Start
<1>2. tx' \in [Procs -> Transactions]
  <2>1. PICK cmd \in Commands, c \in Content \union {Absent} :
           tx' = [tx EXCEPT ![p] =
                    [NoTx EXCEPT !.cmd = cmd, !.source = c, !.pre = file,
                                 !.outcome = IF ReadOnly /\ cmd \in Commits
                                             THEN "READ-ONLY" ELSE None]]
    BY DEF Start
  <2>2. cmd \in CommandNames /\ file \in Content \union {Absent}
    BY EngineAssumption DEF TypeOK
  <2>3. [NoTx EXCEPT !.cmd = cmd, !.source = c, !.pre = file,
                     !.outcome = IF ReadOnly /\ cmd \in Commits
                                 THEN "READ-ONLY" ELSE None] \in Transactions
    BY <2>2 DEF NoTx, Transactions, Outcomes
  <2> QED
    BY <2>1, <2>3 DEF TypeOK
<1>3. pc' \in [Procs -> Places]
  <2>1. PICK cmd \in Commands :
           pc' = [pc EXCEPT ![p] =
                    CASE ReadOnly /\ cmd \in Commits -> "finish"
                      [] ~(ReadOnly /\ cmd \in Commits) /\ cmd \in Apply
                            -> "opening"
                      [] ~(ReadOnly /\ cmd \in Commits) /\ cmd \in Rollback
                            -> "rb-check"
                      [] ~(ReadOnly /\ cmd \in Commits) /\ cmd = "verify"
                            -> "vf-read"
                      [] ~(ReadOnly /\ cmd \in Commits) /\ cmd = "validate"
                            -> "vd-check"]
    BY DEF Start
  <2>2. cmd \in Apply \union Rollback \union {"verify", "validate"}
    BY EngineAssumption DEF CommandNames
  <2> QED
    BY <2>1, <2>2 DEF TypeOK, Places
<1>4. ran' \in [Procs -> 0..MaxTx]
  <2>1. ran[p] \in 0..MaxTx /\ ran[p] < MaxTx
    BY DEF Start, TypeOK
  <2>2. ran[p] + 1 \in 0..MaxTx
    BY <2>1, EngineAssumption
  <2> QED
    BY <2>2 DEF Start, TypeOK
<1> QED
  BY <1>1, <1>2, <1>3, <1>4, NoTxTypes
     DEF TypeOK, Start, engineVars

(* The inductive invariant *************************************************)

Working == Places \ {"idle", "finish", "unlock", "unlink"}

Committing == {"backup", "expected", "install", "postcheck", "reload",
               "verify", "undo", "undo-reload"}

Restoring == {"rb-backup", "rb-install", "rb-reload"}

\* What a command has established by the time it reaches a place.
Claims(place, t, b) ==
    /\ place \in Working => ~(ReadOnly /\ t.cmd \in Commits)
    /\ place \in Committing => t.cmd = "apply-commit"
    /\ place \in Committing \ {"backup"} => t.backup \in b
    /\ place \in {"compare", "backup", "expected", "install", "postcheck",
                  "reload", "verify"} => t.source \in Content
    /\ place \in Restoring =>
          t.cmd = "rollback-commit" /\ t.source \in Content
    /\ place \in Restoring \ {"rb-backup"} => t.backup \in b
    /\ place = "finish" /\ t.outcome = "COMMIT" =>
          /\ t.cmd = "apply-commit"
          /\ ~ReadOnly
          /\ t.source \in Content
          /\ t.backup \in b
    /\ place = "finish" /\ t.outcome = "ROLLBACK-COMMIT" =>
          t.source \in Content
    /\ place \notin {"idle", "unlock", "unlink"} => t.source # None

Sound(p) == Claims(pc[p], tx[p], backups)

EngineInv == TypeOK /\ \A p \in Procs : Sound(p)

\* No command has established anything at first, and none claims to.
LEMMA InitSound == Init => \A p \in Procs : Sound(p)
BY DEF Init, Sound, Claims, Working, Committing, Restoring

\* A step of p leaves what the other commands have established alone, as long
\* as no backup disappears.
LEMMA Others ==
    ASSUME EngineInv, NEW p \in Procs, Sound(p)', backups \subseteq backups',
           \A q \in Procs \ {p} : pc'[q] = pc[q] /\ tx'[q] = tx[q]
    PROVE  \A q \in Procs : Sound(q)'
<1> SUFFICES ASSUME NEW q \in Procs, q # p PROVE Sound(q)'
  OBVIOUS
<1>1. pc'[q] = pc[q] /\ tx'[q] = tx[q] /\ Sound(q)
  BY DEF EngineInv
<1> QED
  BY <1>1 DEF Sound, Claims

(* What an update of a command's record does to the fields Sound reads *)

\* result.status: the update changes the outcome and nothing else Sound reads.
LEMMA SetOutcome ==
    ASSUME NEW t \in Transactions, NEW o \in Outcomes
    PROVE  LET u == [t EXCEPT !.outcome = o]
           IN  /\ u \in Transactions
               /\ u.cmd = t.cmd /\ u.source = t.source
               /\ u.backup = t.backup /\ u.outcome = o
BY DEF Transactions

\* Noting the content found under the lock leaves what Sound reads alone.
LEMMA SetPre ==
    ASSUME NEW t \in Transactions, NEW c \in Content \union {Absent}
    PROVE  LET u == [t EXCEPT !.pre = c]
           IN  /\ u \in Transactions
               /\ u.cmd = t.cmd /\ u.source = t.source
               /\ u.backup = t.backup /\ u.outcome = t.outcome
BY DEF Transactions

\* result.backup: the update changes the backup and nothing else Sound reads.
LEMMA SetBackup ==
    ASSUME NEW t \in Transactions, NEW c \in Content
    PROVE  LET u == [t EXCEPT !.backup = c, !.pre = c]
           IN  /\ u \in Transactions
               /\ u.cmd = t.cmd /\ u.source = t.source
               /\ u.backup = c /\ u.outcome = t.outcome
BY DEF Transactions

\* Noting the expected serial leaves what Sound reads alone.
LEMMA SetExpected ==
    ASSUME NEW t \in Transactions, NEW n \in Nat
    PROVE  LET u == [t EXCEPT !.expected = n]
           IN  /\ u \in Transactions
               /\ u.cmd = t.cmd /\ u.source = t.source
               /\ u.backup = t.backup /\ u.outcome = t.outcome
BY DEF Transactions

\* result.committed with the status: what Sound reads apart from the outcome
\* is unchanged.
LEMMA SetCommitted ==
    ASSUME NEW t \in Transactions, NEW b \in BOOLEAN, NEW o \in Outcomes
    PROVE  LET u == [t EXCEPT !.committed = b, !.outcome = o]
           IN  /\ u \in Transactions
               /\ u.cmd = t.cmd /\ u.source = t.source
               /\ u.backup = t.backup /\ u.outcome = o
BY DEF Transactions

\* A source rewritten by the operator changes the source field only.
LEMMA SetSource ==
    ASSUME NEW t \in Transactions, NEW c \in Content
    PROVE  LET u == [t EXCEPT !.source = c]
           IN  /\ u \in Transactions
               /\ u.cmd = t.cmd /\ u.source = c
               /\ u.backup = t.backup /\ u.outcome = t.outcome
BY DEF Transactions

\* The manifest written by _finish has its type.
LEMMA RecordTypes ==
    ASSUME TypeOK, NEW p \in Procs
    PROVE  Record(p) \in Manifests /\ tx[p].outcome \in Outcomes \union {None}
BY DEF TypeOK, Record, Manifests, Transactions

\* p goes to a place and its record becomes t; no other command moves.
Becomes(p, to, t) ==
    /\ pc' \in [Procs -> Places]
    /\ pc'[p] = to
    /\ tx' \in [Procs -> Transactions]
    /\ tx'[p] = t
    /\ \A q \in Procs \ {p} : pc'[q] = pc[q] /\ tx'[q] = tx[q]

\* A step written with two EXCEPT updates moves p and only p.
LEMMA BecomesNew ==
    ASSUME TypeOK, NEW p \in Procs, NEW to \in Places, NEW t \in Transactions,
           pc' = [pc EXCEPT ![p] = to], tx' = [tx EXCEPT ![p] = t]
    PROVE  Becomes(p, to, t)
BY DEF TypeOK, Becomes

\* A step that leaves the command record alone moves p and only p.
LEMMA BecomesSame ==
    ASSUME TypeOK, NEW p \in Procs, NEW to \in Places,
           pc' = [pc EXCEPT ![p] = to], tx' = tx
    PROVE  Becomes(p, to, tx[p])
BY DEF TypeOK, Becomes

\* What p must show after a step is what its new place and record claim.
LEMMA Moved ==
    ASSUME NEW p \in Procs, NEW to, NEW t, Becomes(p, to, t),
           Claims(to, t, backups')
    PROVE  Sound(p)'
BY DEF Becomes, Sound

\* _atomic_install leaves a content, or nothing, in the active file.
LEMMA InstallTypes ==
    ASSUME TypeOK, NEW p \in Procs, NEW c \in Content, NEW ok \in BOOLEAN, Install(p, c, ok)
    PROVE  /\ file' \in Content \union {Absent}
           /\ disturbed' \in SUBSET Procs /\ overtaken' \in SUBSET Content
BY DEF TypeOK, Install

\* rndc reload leaves a content, or nothing, loaded.
LEMMA ReloadTypes ==
    ASSUME TypeOK, NEW ok \in BOOLEAN, RndcReload(ok)
    PROVE  loaded' \in Content \union {Absent} /\ queued' \in BOOLEAN
BY DEF TypeOK, RndcReload

\* named-checkzone prints a number or nothing.
LEMMA SerialTypes ==
    ASSUME NEW c \in Content \union {Absent}
    PROVE  ZoneSerial(c) \subseteq Nat \union {None}
BY EngineAssumption DEF ZoneSerial

\* The step Start keeps the invariant.
LEMMA StartSound ==
    ASSUME EngineInv, NEW p \in Procs, Start(p)
    PROVE  EngineInv'
<1>1. TypeOK'
  BY StartTypes DEF EngineInv
<1>2. Sound(p)'
  <2>1. PICK cmd \in Commands, c \in Content \union {Absent} :
           /\ tx' = [tx EXCEPT ![p] =
                      [NoTx EXCEPT !.cmd = cmd, !.source = c, !.pre = file,
                                   !.outcome = IF ReadOnly /\ cmd \in Commits
                                               THEN "READ-ONLY" ELSE None]]
           /\ pc' = [pc EXCEPT ![p] =
                    CASE ReadOnly /\ cmd \in Commits -> "finish"
                      [] ~(ReadOnly /\ cmd \in Commits) /\ cmd \in Apply
                            -> "opening"
                      [] ~(ReadOnly /\ cmd \in Commits) /\ cmd \in Rollback
                            -> "rb-check"
                      [] ~(ReadOnly /\ cmd \in Commits) /\ cmd = "verify"
                            -> "vf-read"
                      [] ~(ReadOnly /\ cmd \in Commits) /\ cmd = "validate"
                            -> "vd-check"]
    BY DEF Start
  <2>2. /\ tx'[p].cmd = cmd /\ tx'[p].source = c
        /\ tx'[p].outcome # "COMMIT" /\ tx'[p].outcome # "ROLLBACK-COMMIT"
    BY <2>1, EngineAssumption DEF NoTx, EngineInv, TypeOK, Outcomes
  <2>3. cmd \in Apply \union Rollback \union {"verify", "validate"}
    BY EngineAssumption DEF CommandNames
  <2>4. \/ pc'[p] = "finish"
        \/ /\ pc'[p] \in {"opening", "rb-check", "vf-read", "vd-check"}
           /\ ~(ReadOnly /\ cmd \in Commits)
    BY <2>1, <2>3 DEF EngineInv, TypeOK
  <2> QED
    BY <2>2, <2>4, EngineAssumption
       DEF Sound, Claims, Working, Committing, Restoring
<1> QED
  BY <1>1, <1>2, Others DEF EngineInv, Start, engineVars, TypeOK

(* Steps of a running command **********************************************)

\* The step OpenLock keeps the invariant.
LEMMA OpenLockSound ==
    ASSUME EngineInv, NEW p \in Procs, OpenLock(p)
    PROVE  EngineInv'
<1>0. TypeOK /\ tx[p] \in Transactions /\ Sound(p)
  BY DEF EngineInv, TypeOK
<1>1. /\ pc' = [pc EXCEPT ![p] = "flocking"]
      /\ tx' = tx
      /\ pc[p] = "opening"
  BY <1>0 DEF Goto, OpenLock
<1>2. Becomes(p, "flocking", tx[p]) /\ pc[p] = "opening"
  BY <1>0, <1>1, BecomesNew, BecomesSame DEF Places, AfterFinish
<1>3. TypeOK'
  BY <1>0, <1>2, LockSteps
     DEF TypeOK, Becomes, OpenLock, engineVars, resultVars, ghostVars, Goto
<1>4. Sound(p)'
  <2>1. Claims("flocking", tx[p], backups')
    BY <1>0, EngineAssumption, <1>2
       DEF Sound, Claims, Working, Places, Committing, Restoring, OpenLock,
           Goto, engineVars
  <2> QED
    BY <1>2, <2>1, Moved
<1> QED
  BY <1>2, <1>3, <1>4, Others
     DEF EngineInv, Becomes, TypeOK, OpenLock, Goto, engineVars

\* The step TakeLock keeps the invariant.
LEMMA TakeLockSound ==
    ASSUME EngineInv, NEW p \in Procs, TakeLock(p)
    PROVE  EngineInv'
<1>0. TypeOK /\ tx[p] \in Transactions /\ Sound(p)
  BY DEF EngineInv, TypeOK
<1> DEFINE t == [tx[p] EXCEPT !.pre = file]
<1>1. /\ t \in Transactions
      /\ t.cmd = tx[p].cmd /\ t.source = tx[p].source
      /\ t.backup = tx[p].backup /\ t.outcome = tx[p].outcome
  BY <1>0, SetPre DEF TypeOK
<1>2. /\ pc' = [pc EXCEPT ![p] = "files"]
      /\ tx' = [tx EXCEPT ![p] = t]
      /\ pc[p] = "flocking"
  BY <1>0 DEF Goto, TakeLock
<1> HIDE DEF t
<1>3. Becomes(p, "files", t) /\ pc[p] = "flocking"
  BY <1>0, <1>1, <1>2, BecomesNew, BecomesSame DEF Places, AfterFinish
<1>4. TypeOK'
  BY <1>0, <1>3, LockSteps
     DEF TypeOK, Becomes, TakeLock, engineVars, resultVars, ghostVars, Goto
<1>5. Sound(p)'
  <2>1. Claims("files", t, backups')
    BY <1>0, <1>1, EngineAssumption, <1>3
       DEF Sound, Claims, Working, Places, Committing, Restoring, TakeLock,
           Goto, engineVars
  <2> QED
    BY <1>3, <2>1, Moved
<1> QED
  BY <1>3, <1>4, <1>5, Others
     DEF EngineInv, Becomes, TypeOK, TakeLock, Goto, engineVars

\* The step LockRefused keeps the invariant.
LEMMA LockRefusedSound ==
    ASSUME EngineInv, NEW p \in Procs, LockRefused(p)
    PROVE  EngineInv'
<1>0. TypeOK /\ tx[p] \in Transactions /\ Sound(p)
  BY DEF EngineInv, TypeOK
<1>1. /\ pc' = [pc EXCEPT ![p] = "idle"]
      /\ tx' = tx
      /\ pc[p] = "flocking"
  BY <1>0 DEF Goto, LockRefused
<1>2. Becomes(p, "idle", tx[p]) /\ pc[p] = "flocking"
  BY <1>0, <1>1, BecomesNew, BecomesSame DEF Places, AfterFinish
<1>3. TypeOK'
  BY <1>0, <1>2, LockSteps
     DEF TypeOK, Becomes, LockRefused, engineVars, resultVars, ghostVars, Goto
<1>4. Sound(p)'
  <2>1. Claims("idle", tx[p], backups')
    BY <1>0, EngineAssumption, <1>2
       DEF Sound, Claims, Working, Places, Committing, Restoring,
           LockRefused, Goto, engineVars
  <2> QED
    BY <1>2, <2>1, Moved
<1> QED
  BY <1>2, <1>3, <1>4, Others
     DEF EngineInv, Becomes, TypeOK, LockRefused, Goto, engineVars

\* The step CheckSource keeps the invariant.
LEMMA CheckSourceSound ==
    ASSUME EngineInv, NEW p \in Procs, CheckSource(p)
    PROVE  EngineInv'
<1>0. TypeOK /\ tx[p] \in Transactions /\ Sound(p)
  BY DEF EngineInv, TypeOK
<1> DEFINE t == [tx[p] EXCEPT !.outcome = "FAIL"]
<1>1. /\ t \in Transactions
      /\ t.cmd = tx[p].cmd /\ t.source = tx[p].source
      /\ t.backup = tx[p].backup /\ t.outcome = "FAIL"
  BY <1>0, SetOutcome DEF Outcomes
<1>2. \/ /\ pc' = [pc EXCEPT ![p] = "finish"]
         /\ tx' = [tx EXCEPT ![p] = t]
         /\ pc[p] = "files"
      \/ /\ pc' = [pc EXCEPT ![p] = "compare"]
         /\ tx' = tx
         /\ pc[p] = "files" /\ tx[p].source # Absent
      \/ /\ pc' = [pc EXCEPT ![p] = AfterFinish(p)]
         /\ tx' = tx
         /\ pc[p] = "files"
  BY <1>0 DEF Goto, Outcome, Raise, CheckSource
<1> HIDE DEF t
<1>3. \/ Becomes(p, "finish", t) /\ pc[p] = "files"
      \/ /\ Becomes(p, "compare", tx[p])
         /\ pc[p] = "files" /\ tx[p].source # Absent
      \/ Becomes(p, AfterFinish(p), tx[p]) /\ pc[p] = "files"
  BY <1>0, <1>1, <1>2, BecomesNew, BecomesSame DEF Places, AfterFinish
<1>4. TypeOK'
  BY <1>0, <1>3, LockSteps
     DEF TypeOK, Becomes, CheckSource, engineVars, resultVars, ghostVars,
         Goto, Outcome, Raise
<1>5. Sound(p)'
  <2>1. CASE Becomes(p, "finish", t) /\ pc[p] = "files"
    <3>1. Claims("finish", t, backups')
      BY <1>0, <1>1, EngineAssumption, <2>1
         DEF Sound, Claims, Working, Places, Committing, Restoring,
             CheckSource, Goto, engineVars, Transactions, AfterFinish
    <3> QED
      BY <2>1, <3>1, Moved
  <2>2. CASE /\ Becomes(p, "compare", tx[p])
             /\ pc[p] = "files" /\ tx[p].source # Absent
    <3>1. Claims("compare", tx[p], backups')
      BY <1>0, <1>1, EngineAssumption, <2>2
         DEF Sound, Claims, Working, Places, Committing, Restoring,
             CheckSource, Goto, engineVars, Transactions, AfterFinish
    <3> QED
      BY <2>2, <3>1, Moved
  <2>3. CASE Becomes(p, AfterFinish(p), tx[p]) /\ pc[p] = "files"
    <3>1. Claims(AfterFinish(p), tx[p], backups')
      BY <1>0, <1>1, EngineAssumption, <2>3
         DEF Sound, Claims, Working, Places, Committing, Restoring,
             CheckSource, Goto, engineVars, Transactions, AfterFinish
    <3> QED
      BY <2>3, <3>1, Moved
  <2> QED
    BY <1>3, <2>1, <2>2, <2>3
<1> QED
  BY <1>3, <1>4, <1>5, Others
     DEF EngineInv, Becomes, TypeOK, CheckSource, Goto, engineVars

\* The step Compare keeps the invariant.
LEMMA CompareSound ==
    ASSUME EngineInv, NEW p \in Procs, Compare(p)
    PROVE  EngineInv'
<1>0. TypeOK /\ tx[p] \in Transactions /\ Sound(p)
  BY DEF EngineInv, TypeOK
<1> DEFINE t == [tx[p] EXCEPT !.outcome = "NO-CHANGE"]
<1> DEFINE u == [tx[p] EXCEPT !.outcome = "DRY-RUN"]
<1>1. /\ t \in Transactions
      /\ t.cmd = tx[p].cmd /\ t.source = tx[p].source
      /\ t.backup = tx[p].backup /\ t.outcome = "NO-CHANGE"
  BY <1>0, SetOutcome DEF Outcomes
<1>2. /\ u \in Transactions
      /\ u.cmd = tx[p].cmd /\ u.source = tx[p].source
      /\ u.backup = tx[p].backup /\ u.outcome = "DRY-RUN"
  BY <1>0, SetOutcome DEF Outcomes
<1>3. \/ /\ pc' = [pc EXCEPT ![p] = "finish"]
         /\ tx' = [tx EXCEPT ![p] = t]
         /\ pc[p] = "compare"
      \/ /\ pc' = [pc EXCEPT ![p] = "finish"]
         /\ tx' = [tx EXCEPT ![p] = u]
         /\ pc[p] = "compare"
      \/ /\ pc' = [pc EXCEPT ![p] = "backup"]
         /\ tx' = tx
         /\ pc[p] = "compare" /\ tx[p].cmd = "apply-commit"
  BY <1>0 DEF Goto, Outcome, Compare
<1> HIDE DEF t, u
<1>4. \/ Becomes(p, "finish", t) /\ pc[p] = "compare"
      \/ Becomes(p, "finish", u) /\ pc[p] = "compare"
      \/ /\ Becomes(p, "backup", tx[p])
         /\ pc[p] = "compare" /\ tx[p].cmd = "apply-commit"
  BY <1>0, <1>1, <1>2, <1>3, BecomesNew, BecomesSame DEF Places, AfterFinish
<1>5. TypeOK'
  BY <1>0, <1>4, LockSteps
     DEF TypeOK, Becomes, Compare, engineVars, resultVars, ghostVars, Goto,
         Outcome
<1>6. Sound(p)'
  <2>1. CASE Becomes(p, "finish", t) /\ pc[p] = "compare"
    <3>1. Claims("finish", t, backups')
      BY <1>0, <1>1, <1>2, EngineAssumption, <2>1
         DEF Sound, Claims, Working, Places, Committing, Restoring, Compare,
             Goto, engineVars, Commits
    <3> QED
      BY <2>1, <3>1, Moved
  <2>2. CASE Becomes(p, "finish", u) /\ pc[p] = "compare"
    <3>1. Claims("finish", u, backups')
      BY <1>0, <1>1, <1>2, EngineAssumption, <2>2
         DEF Sound, Claims, Working, Places, Committing, Restoring, Compare,
             Goto, engineVars, Commits
    <3> QED
      BY <2>2, <3>1, Moved
  <2>3. CASE /\ Becomes(p, "backup", tx[p])
             /\ pc[p] = "compare" /\ tx[p].cmd = "apply-commit"
    <3>1. Claims("backup", tx[p], backups')
      BY <1>0, <1>1, <1>2, EngineAssumption, <2>3
         DEF Sound, Claims, Working, Places, Committing, Restoring, Compare,
             Goto, engineVars, Commits
    <3> QED
      BY <2>3, <3>1, Moved
  <2> QED
    BY <1>4, <2>1, <2>2, <2>3
<1> QED
  BY <1>4, <1>5, <1>6, Others
     DEF EngineInv, Becomes, TypeOK, Compare, Goto, engineVars

\* The step Backup keeps the invariant.
LEMMA BackupSound ==
    ASSUME EngineInv, NEW p \in Procs, Backup(p)
    PROVE  EngineInv'
<1>0. TypeOK /\ tx[p] \in Transactions /\ Sound(p)
  BY DEF EngineInv, TypeOK
<1> DEFINE t == [tx[p] EXCEPT !.backup = file, !.pre = file]
<1>1. file # Absent =>
      /\ t \in Transactions
      /\ t.cmd = tx[p].cmd /\ t.source = tx[p].source
      /\ t.backup = file /\ t.outcome = tx[p].outcome
  BY <1>0, SetBackup DEF TypeOK
<1>2. \/ /\ pc' = [pc EXCEPT ![p] = "expected"]
         /\ tx' = [tx EXCEPT ![p] = t]
         /\ pc[p] = "backup" /\ file # Absent /\ file \in backups'
      \/ /\ pc' = [pc EXCEPT ![p] = AfterFinish(p)]
         /\ tx' = tx
         /\ pc[p] = "backup"
  BY <1>0 DEF SaveBackup, Goto, Raise, Backup
<1> HIDE DEF t
<1>3. \/ /\ Becomes(p, "expected", t) /\ pc[p] = "backup"
         /\ file # Absent /\ file \in backups'
      \/ Becomes(p, AfterFinish(p), tx[p]) /\ pc[p] = "backup"
  BY <1>0, <1>1, <1>2, BecomesNew, BecomesSame DEF Places, AfterFinish
<1>4. TypeOK'
  BY <1>0, <1>3, LockSteps
     DEF TypeOK, Becomes, Backup, engineVars, resultVars, ghostVars, Goto,
         SaveBackup
<1>5. Sound(p)'
  <2>1. CASE /\ Becomes(p, "expected", t) /\ pc[p] = "backup"
             /\ file # Absent /\ file \in backups'
    <3>1. Claims("expected", t, backups')
      BY <1>0, <1>1, EngineAssumption, <2>1
         DEF Sound, Claims, Working, Places, Committing, Restoring, Backup,
             Goto, engineVars, SaveBackup, AfterFinish
    <3> QED
      BY <2>1, <3>1, Moved
  <2>2. CASE Becomes(p, AfterFinish(p), tx[p]) /\ pc[p] = "backup"
    <3>1. Claims(AfterFinish(p), tx[p], backups')
      BY <1>0, <1>1, EngineAssumption, <2>2
         DEF Sound, Claims, Working, Places, Committing, Restoring, Backup,
             Goto, engineVars, SaveBackup, AfterFinish
    <3> QED
      BY <2>2, <3>1, Moved
  <2> QED
    BY <1>3, <2>1, <2>2
<1> QED
  BY <1>3, <1>4, <1>5, Others
     DEF EngineInv, Becomes, TypeOK, Backup, Goto, engineVars, SaveBackup

\* The step InstallSource keeps the invariant.
LEMMA InstallSourceSound ==
    ASSUME EngineInv, NEW p \in Procs, InstallSource(p)
    PROVE  EngineInv'
<1>0. TypeOK /\ tx[p] \in Transactions /\ Sound(p)
  BY DEF EngineInv, TypeOK
<1>1. \/ /\ pc' = [pc EXCEPT ![p] = "postcheck"]
         /\ tx' = tx
         /\ pc[p] = "install"
      \/ /\ pc' = [pc EXCEPT ![p] = "undo"]
         /\ tx' = tx
         /\ pc[p] = "install"
  BY <1>0 DEF Goto, InstallSource
<1>2. \/ Becomes(p, "postcheck", tx[p]) /\ pc[p] = "install"
      \/ Becomes(p, "undo", tx[p]) /\ pc[p] = "install"
  BY <1>0, <1>1, BecomesNew, BecomesSame DEF Places, AfterFinish
<1>3. TypeOK'
  BY <1>0, <1>2, LockSteps, InstallTypes
     DEF TypeOK, Becomes, InstallSource, engineVars, resultVars, ghostVars,
         Goto, Sound, Claims
<1>4. Sound(p)'
  <2>1. CASE Becomes(p, "postcheck", tx[p]) /\ pc[p] = "install"
    <3>1. Claims("postcheck", tx[p], backups')
      BY <1>0, EngineAssumption, <2>1
         DEF Sound, Claims, Working, Places, Committing, Restoring,
             InstallSource, Goto, engineVars
    <3> QED
      BY <2>1, <3>1, Moved
  <2>2. CASE Becomes(p, "undo", tx[p]) /\ pc[p] = "install"
    <3>1. Claims("undo", tx[p], backups')
      BY <1>0, EngineAssumption, <2>2
         DEF Sound, Claims, Working, Places, Committing, Restoring,
             InstallSource, Goto, engineVars
    <3> QED
      BY <2>2, <3>1, Moved
  <2> QED
    BY <1>2, <2>1, <2>2
<1> QED
  BY <1>2, <1>3, <1>4, Others
     DEF EngineInv, Becomes, TypeOK, InstallSource, Goto, engineVars

\* The step PostCheck keeps the invariant.
LEMMA PostCheckSound ==
    ASSUME EngineInv, NEW p \in Procs, PostCheck(p)
    PROVE  EngineInv'
<1>0. TypeOK /\ tx[p] \in Transactions /\ Sound(p)
  BY DEF EngineInv, TypeOK
<1>1. \/ /\ pc' = [pc EXCEPT ![p] = "reload"]
         /\ tx' = tx
         /\ pc[p] = "postcheck"
      \/ /\ pc' = [pc EXCEPT ![p] = "undo"]
         /\ tx' = tx
         /\ pc[p] = "postcheck"
  BY <1>0 DEF Goto, PostCheck
<1>2. \/ Becomes(p, "reload", tx[p]) /\ pc[p] = "postcheck"
      \/ Becomes(p, "undo", tx[p]) /\ pc[p] = "postcheck"
  BY <1>0, <1>1, BecomesNew, BecomesSame DEF Places, AfterFinish
<1>3. TypeOK'
  BY <1>0, <1>2, LockSteps
     DEF TypeOK, Becomes, PostCheck, engineVars, resultVars, ghostVars, Goto
<1>4. Sound(p)'
  <2>1. CASE Becomes(p, "reload", tx[p]) /\ pc[p] = "postcheck"
    <3>1. Claims("reload", tx[p], backups')
      BY <1>0, EngineAssumption, <2>1
         DEF Sound, Claims, Working, Places, Committing, Restoring,
             PostCheck, Goto, engineVars
    <3> QED
      BY <2>1, <3>1, Moved
  <2>2. CASE Becomes(p, "undo", tx[p]) /\ pc[p] = "postcheck"
    <3>1. Claims("undo", tx[p], backups')
      BY <1>0, EngineAssumption, <2>2
         DEF Sound, Claims, Working, Places, Committing, Restoring,
             PostCheck, Goto, engineVars
    <3> QED
      BY <2>2, <3>1, Moved
  <2> QED
    BY <1>2, <2>1, <2>2
<1> QED
  BY <1>2, <1>3, <1>4, Others
     DEF EngineInv, Becomes, TypeOK, PostCheck, Goto, engineVars

\* The step Reload keeps the invariant.
LEMMA ReloadSound ==
    ASSUME EngineInv, NEW p \in Procs, Reload(p)
    PROVE  EngineInv'
<1>0. TypeOK /\ tx[p] \in Transactions /\ Sound(p)
  BY DEF EngineInv, TypeOK
<1>1. \/ /\ pc' = [pc EXCEPT ![p] = "verify"]
         /\ tx' = tx
         /\ pc[p] = "reload"
      \/ /\ pc' = [pc EXCEPT ![p] = "undo"]
         /\ tx' = tx
         /\ pc[p] = "reload"
  BY <1>0 DEF Goto, Reload
<1>2. \/ Becomes(p, "verify", tx[p]) /\ pc[p] = "reload"
      \/ Becomes(p, "undo", tx[p]) /\ pc[p] = "reload"
  BY <1>0, <1>1, BecomesNew, BecomesSame DEF Places, AfterFinish
<1>3. TypeOK'
  BY <1>0, <1>2, LockSteps, ReloadTypes
     DEF TypeOK, Becomes, Reload, engineVars, resultVars, ghostVars, Goto
<1>4. Sound(p)'
  <2>1. CASE Becomes(p, "verify", tx[p]) /\ pc[p] = "reload"
    <3>1. Claims("verify", tx[p], backups')
      BY <1>0, EngineAssumption, <2>1
         DEF Sound, Claims, Working, Places, Committing, Restoring, Reload,
             Goto, engineVars
    <3> QED
      BY <2>1, <3>1, Moved
  <2>2. CASE Becomes(p, "undo", tx[p]) /\ pc[p] = "reload"
    <3>1. Claims("undo", tx[p], backups')
      BY <1>0, EngineAssumption, <2>2
         DEF Sound, Claims, Working, Places, Committing, Restoring, Reload,
             Goto, engineVars
    <3> QED
      BY <2>2, <3>1, Moved
  <2> QED
    BY <1>2, <2>1, <2>2
<1> QED
  BY <1>2, <1>3, <1>4, Others
     DEF EngineInv, Becomes, TypeOK, Reload, Goto, engineVars

\* The step Verify keeps the invariant.
LEMMA VerifySound ==
    ASSUME EngineInv, NEW p \in Procs, Verify(p)
    PROVE  EngineInv'
<1>0. TypeOK /\ tx[p] \in Transactions /\ Sound(p)
  BY DEF EngineInv, TypeOK
<1> DEFINE t == [tx[p] EXCEPT !.committed = TRUE, !.outcome = "COMMIT"]
<1>1. /\ t \in Transactions
      /\ t.cmd = tx[p].cmd /\ t.source = tx[p].source
      /\ t.backup = tx[p].backup /\ t.outcome = "COMMIT"
  BY <1>0, SetCommitted DEF Outcomes
<1>2. \/ /\ pc' = [pc EXCEPT ![p] = "finish"]
         /\ tx' = [tx EXCEPT ![p] = t]
         /\ pc[p] = "verify"
      \/ /\ pc' = [pc EXCEPT ![p] = "undo"]
         /\ tx' = tx
         /\ pc[p] = "verify"
  BY <1>0 DEF Goto, Verify
<1> HIDE DEF t
<1>3. \/ Becomes(p, "finish", t) /\ pc[p] = "verify"
      \/ Becomes(p, "undo", tx[p]) /\ pc[p] = "verify"
  BY <1>0, <1>1, <1>2, BecomesNew, BecomesSame DEF Places, AfterFinish
<1>4. TypeOK'
  BY <1>0, <1>3, LockSteps
     DEF TypeOK, Becomes, Verify, engineVars, resultVars, ghostVars, Goto
<1>5. Sound(p)'
  <2>1. CASE Becomes(p, "finish", t) /\ pc[p] = "verify"
    <3>1. Claims("finish", t, backups')
      BY <1>0, <1>1, EngineAssumption, <2>1
         DEF Sound, Claims, Working, Places, Committing, Restoring, Verify,
             Goto, engineVars, Commits
    <3> QED
      BY <2>1, <3>1, Moved
  <2>2. CASE Becomes(p, "undo", tx[p]) /\ pc[p] = "verify"
    <3>1. Claims("undo", tx[p], backups')
      BY <1>0, <1>1, EngineAssumption, <2>2
         DEF Sound, Claims, Working, Places, Committing, Restoring, Verify,
             Goto, engineVars, Commits
    <3> QED
      BY <2>2, <3>1, Moved
  <2> QED
    BY <1>3, <2>1, <2>2
<1> QED
  BY <1>3, <1>4, <1>5, Others
     DEF EngineInv, Becomes, TypeOK, Verify, Goto, engineVars

\* The step Undo keeps the invariant.
LEMMA UndoSound ==
    ASSUME EngineInv, NEW p \in Procs, Undo(p)
    PROVE  EngineInv'
<1>0. TypeOK /\ tx[p] \in Transactions /\ Sound(p)
  BY DEF EngineInv, TypeOK
<1> DEFINE t == [tx[p] EXCEPT !.outcome = "ROLLBACK-FAILED"]
<1>1. /\ t \in Transactions
      /\ t.cmd = tx[p].cmd /\ t.source = tx[p].source
      /\ t.backup = tx[p].backup /\ t.outcome = "ROLLBACK-FAILED"
  BY <1>0, SetOutcome DEF Outcomes
<1>2. \/ /\ pc' = [pc EXCEPT ![p] = "undo-reload"]
         /\ tx' = tx
         /\ pc[p] = "undo"
      \/ /\ pc' = [pc EXCEPT ![p] = "finish"]
         /\ tx' = [tx EXCEPT ![p] = t]
         /\ pc[p] = "undo"
  BY <1>0 DEF Goto, Outcome, Undo
<1> HIDE DEF t
<1>3. \/ Becomes(p, "undo-reload", tx[p]) /\ pc[p] = "undo"
      \/ Becomes(p, "finish", t) /\ pc[p] = "undo"
  BY <1>0, <1>1, <1>2, BecomesNew, BecomesSame DEF Places, AfterFinish
<1>4. TypeOK'
  BY <1>0, <1>3, LockSteps, InstallTypes
     DEF TypeOK, Becomes, Undo, engineVars, resultVars, ghostVars, Goto,
         Outcome, Sound, Claims, Committing
<1>5. Sound(p)'
  <2>1. CASE Becomes(p, "undo-reload", tx[p]) /\ pc[p] = "undo"
    <3>1. Claims("undo-reload", tx[p], backups')
      BY <1>0, <1>1, EngineAssumption, <2>1
         DEF Sound, Claims, Working, Places, Committing, Restoring, Undo,
             Goto, engineVars
    <3> QED
      BY <2>1, <3>1, Moved
  <2>2. CASE Becomes(p, "finish", t) /\ pc[p] = "undo"
    <3>1. Claims("finish", t, backups')
      BY <1>0, <1>1, EngineAssumption, <2>2
         DEF Sound, Claims, Working, Places, Committing, Restoring, Undo,
             Goto, engineVars
    <3> QED
      BY <2>2, <3>1, Moved
  <2> QED
    BY <1>3, <2>1, <2>2
<1> QED
  BY <1>3, <1>4, <1>5, Others
     DEF EngineInv, Becomes, TypeOK, Undo, Goto, engineVars

\* The step CheckBackup keeps the invariant.
LEMMA CheckBackupSound ==
    ASSUME EngineInv, NEW p \in Procs, CheckBackup(p)
    PROVE  EngineInv'
<1>0. TypeOK /\ tx[p] \in Transactions /\ Sound(p)
  BY DEF EngineInv, TypeOK
<1> DEFINE t == [tx[p] EXCEPT !.outcome = "FAIL"]
<1> DEFINE u == [tx[p] EXCEPT !.outcome = "DRY-RUN"]
<1>1. /\ t \in Transactions
      /\ t.cmd = tx[p].cmd /\ t.source = tx[p].source
      /\ t.backup = tx[p].backup /\ t.outcome = "FAIL"
  BY <1>0, SetOutcome DEF Outcomes
<1>2. /\ u \in Transactions
      /\ u.cmd = tx[p].cmd /\ u.source = tx[p].source
      /\ u.backup = tx[p].backup /\ u.outcome = "DRY-RUN"
  BY <1>0, SetOutcome DEF Outcomes
<1>3. \/ /\ pc' = [pc EXCEPT ![p] = "finish"]
         /\ tx' = [tx EXCEPT ![p] = t]
         /\ pc[p] = "rb-check"
      \/ /\ pc' = [pc EXCEPT ![p] = "finish"]
         /\ tx' = [tx EXCEPT ![p] = u]
         /\ pc[p] = "rb-check"
      \/ /\ pc' = [pc EXCEPT ![p] = "rb-backup"]
         /\ tx' = tx
         /\ pc[p] = "rb-check" /\ tx[p].cmd = "rollback-commit"
         /\ tx[p].source # Absent
  BY <1>0 DEF Goto, Outcome, CheckBackup
<1> HIDE DEF t, u
<1>4. \/ Becomes(p, "finish", t) /\ pc[p] = "rb-check"
      \/ Becomes(p, "finish", u) /\ pc[p] = "rb-check"
      \/ /\ Becomes(p, "rb-backup", tx[p])
         /\ pc[p] = "rb-check" /\ tx[p].cmd = "rollback-commit"
         /\ tx[p].source # Absent
  BY <1>0, <1>1, <1>2, <1>3, BecomesNew, BecomesSame DEF Places, AfterFinish
<1>5. TypeOK'
  BY <1>0, <1>4, LockSteps
     DEF TypeOK, Becomes, CheckBackup, engineVars, resultVars, ghostVars,
         Goto, Outcome
<1>6. Sound(p)'
  <2>1. CASE Becomes(p, "finish", t) /\ pc[p] = "rb-check"
    <3>1. Claims("finish", t, backups')
      BY <1>0, <1>1, <1>2, EngineAssumption, <2>1
         DEF Sound, Claims, Working, Places, Committing, Restoring,
             CheckBackup, Goto, engineVars, Commits, Transactions
    <3> QED
      BY <2>1, <3>1, Moved
  <2>2. CASE Becomes(p, "finish", u) /\ pc[p] = "rb-check"
    <3>1. Claims("finish", u, backups')
      BY <1>0, <1>1, <1>2, EngineAssumption, <2>2
         DEF Sound, Claims, Working, Places, Committing, Restoring,
             CheckBackup, Goto, engineVars, Commits, Transactions
    <3> QED
      BY <2>2, <3>1, Moved
  <2>3. CASE /\ Becomes(p, "rb-backup", tx[p])
             /\ pc[p] = "rb-check" /\ tx[p].cmd = "rollback-commit"
             /\ tx[p].source # Absent
    <3>1. Claims("rb-backup", tx[p], backups')
      BY <1>0, <1>1, <1>2, EngineAssumption, <2>3
         DEF Sound, Claims, Working, Places, Committing, Restoring,
             CheckBackup, Goto, engineVars, Commits, Transactions
    <3> QED
      BY <2>3, <3>1, Moved
  <2> QED
    BY <1>4, <2>1, <2>2, <2>3
<1> QED
  BY <1>4, <1>5, <1>6, Others
     DEF EngineInv, Becomes, TypeOK, CheckBackup, Goto, engineVars

\* The step BackupCurrent keeps the invariant.
LEMMA BackupCurrentSound ==
    ASSUME EngineInv, NEW p \in Procs, BackupCurrent(p)
    PROVE  EngineInv'
<1>0. TypeOK /\ tx[p] \in Transactions /\ Sound(p)
  BY DEF EngineInv, TypeOK
<1> DEFINE t == [tx[p] EXCEPT !.backup = file, !.pre = file]
<1>1. file # Absent =>
      /\ t \in Transactions
      /\ t.cmd = tx[p].cmd /\ t.source = tx[p].source
      /\ t.backup = file /\ t.outcome = tx[p].outcome
  BY <1>0, SetBackup DEF TypeOK
<1>2. \/ /\ pc' = [pc EXCEPT ![p] = "rb-install"]
         /\ tx' = [tx EXCEPT ![p] = t]
         /\ pc[p] = "rb-backup" /\ file # Absent /\ file \in backups'
      \/ /\ pc' = [pc EXCEPT ![p] = AfterFinish(p)]
         /\ tx' = tx
         /\ pc[p] = "rb-backup"
  BY <1>0 DEF SaveBackup, Goto, Raise, BackupCurrent
<1> HIDE DEF t
<1>3. \/ /\ Becomes(p, "rb-install", t) /\ pc[p] = "rb-backup"
         /\ file # Absent /\ file \in backups'
      \/ Becomes(p, AfterFinish(p), tx[p]) /\ pc[p] = "rb-backup"
  BY <1>0, <1>1, <1>2, BecomesNew, BecomesSame DEF Places, AfterFinish
<1>4. TypeOK'
  BY <1>0, <1>3, LockSteps
     DEF TypeOK, Becomes, BackupCurrent, engineVars, resultVars, ghostVars,
         Goto, SaveBackup
<1>5. Sound(p)'
  <2>1. CASE /\ Becomes(p, "rb-install", t) /\ pc[p] = "rb-backup"
             /\ file # Absent /\ file \in backups'
    <3>1. Claims("rb-install", t, backups')
      BY <1>0, <1>1, EngineAssumption, <2>1
         DEF Sound, Claims, Working, Places, Committing, Restoring,
             BackupCurrent, Goto, engineVars, SaveBackup, AfterFinish
    <3> QED
      BY <2>1, <3>1, Moved
  <2>2. CASE Becomes(p, AfterFinish(p), tx[p]) /\ pc[p] = "rb-backup"
    <3>1. Claims(AfterFinish(p), tx[p], backups')
      BY <1>0, <1>1, EngineAssumption, <2>2
         DEF Sound, Claims, Working, Places, Committing, Restoring,
             BackupCurrent, Goto, engineVars, SaveBackup, AfterFinish
    <3> QED
      BY <2>2, <3>1, Moved
  <2> QED
    BY <1>3, <2>1, <2>2
<1> QED
  BY <1>3, <1>4, <1>5, Others
     DEF EngineInv, Becomes, TypeOK, BackupCurrent, Goto, engineVars,
         SaveBackup

\* The step InstallBackup keeps the invariant.
LEMMA InstallBackupSound ==
    ASSUME EngineInv, NEW p \in Procs, InstallBackup(p)
    PROVE  EngineInv'
<1>0. TypeOK /\ tx[p] \in Transactions /\ Sound(p)
  BY DEF EngineInv, TypeOK
<1>1. \/ /\ pc' = [pc EXCEPT ![p] = "rb-reload"]
         /\ tx' = tx
         /\ pc[p] = "rb-install"
      \/ /\ pc' = [pc EXCEPT ![p] = AfterFinish(p)]
         /\ tx' = tx
         /\ pc[p] = "rb-install"
  BY <1>0 DEF Goto, Raise, InstallBackup
<1>2. \/ Becomes(p, "rb-reload", tx[p]) /\ pc[p] = "rb-install"
      \/ Becomes(p, AfterFinish(p), tx[p]) /\ pc[p] = "rb-install"
  BY <1>0, <1>1, BecomesNew, BecomesSame DEF Places, AfterFinish
<1>3. TypeOK'
  BY <1>0, <1>2, LockSteps, InstallTypes
     DEF TypeOK, Becomes, InstallBackup, engineVars, resultVars, ghostVars,
         Goto, Sound, Claims, Restoring
<1>4. Sound(p)'
  <2>1. CASE Becomes(p, "rb-reload", tx[p]) /\ pc[p] = "rb-install"
    <3>1. Claims("rb-reload", tx[p], backups')
      BY <1>0, EngineAssumption, <2>1
         DEF Sound, Claims, Working, Places, Committing, Restoring,
             InstallBackup, Goto, engineVars, AfterFinish
    <3> QED
      BY <2>1, <3>1, Moved
  <2>2. CASE Becomes(p, AfterFinish(p), tx[p]) /\ pc[p] = "rb-install"
    <3>1. Claims(AfterFinish(p), tx[p], backups')
      BY <1>0, EngineAssumption, <2>2
         DEF Sound, Claims, Working, Places, Committing, Restoring,
             InstallBackup, Goto, engineVars, AfterFinish
    <3> QED
      BY <2>2, <3>1, Moved
  <2> QED
    BY <1>2, <2>1, <2>2
<1> QED
  BY <1>2, <1>3, <1>4, Others
     DEF EngineInv, Becomes, TypeOK, InstallBackup, Goto, engineVars

\* The step Unlock keeps the invariant.
LEMMA UnlockSound ==
    ASSUME EngineInv, NEW p \in Procs, Unlock(p)
    PROVE  EngineInv'
<1>0. TypeOK /\ tx[p] \in Transactions /\ Sound(p)
  BY DEF EngineInv, TypeOK
<1>1. /\ pc' = [pc EXCEPT ![p] = "unlink"]
      /\ tx' = tx
      /\ pc[p] = "unlock"
  BY <1>0 DEF Goto, Unlock
<1>2. Becomes(p, "unlink", tx[p]) /\ pc[p] = "unlock"
  BY <1>0, <1>1, BecomesNew, BecomesSame DEF Places, AfterFinish
<1>3. TypeOK'
  BY <1>0, <1>2, LockSteps
     DEF TypeOK, Becomes, Unlock, engineVars, resultVars, ghostVars, Goto
<1>4. Sound(p)'
  <2>1. Claims("unlink", tx[p], backups')
    BY <1>0, EngineAssumption, <1>2
       DEF Sound, Claims, Working, Places, Committing, Restoring, Unlock,
           Goto, engineVars
  <2> QED
    BY <1>2, <2>1, Moved
<1> QED
  BY <1>2, <1>3, <1>4, Others
     DEF EngineInv, Becomes, TypeOK, Unlock, Goto, engineVars

\* The step Unlink keeps the invariant.
LEMMA UnlinkSound ==
    ASSUME EngineInv, NEW p \in Procs, Unlink(p)
    PROVE  EngineInv'
<1>0. TypeOK /\ tx[p] \in Transactions /\ Sound(p)
  BY DEF EngineInv, TypeOK
<1>1. /\ pc' = [pc EXCEPT ![p] = "idle"]
      /\ tx' = tx
      /\ pc[p] = "unlink"
  BY <1>0 DEF Goto, Unlink
<1>2. Becomes(p, "idle", tx[p]) /\ pc[p] = "unlink"
  BY <1>0, <1>1, BecomesNew, BecomesSame DEF Places, AfterFinish
<1>3. TypeOK'
  BY <1>0, <1>2, LockSteps
     DEF TypeOK, Becomes, Unlink, engineVars, resultVars, ghostVars, Goto
<1>4. Sound(p)'
  <2>1. Claims("idle", tx[p], backups')
    BY <1>0, EngineAssumption, <1>2
       DEF Sound, Claims, Working, Places, Committing, Restoring, Unlink,
           Goto, engineVars
  <2> QED
    BY <1>2, <2>1, Moved
<1> QED
  BY <1>2, <1>3, <1>4, Others
     DEF EngineInv, Becomes, TypeOK, Unlink, Goto, engineVars

\* The step ExpectedSerial keeps the invariant.
LEMMA ExpectedSerialSound ==
    ASSUME EngineInv, NEW p \in Procs, ExpectedSerial(p)
    PROVE  EngineInv'
<1>0. TypeOK /\ tx[p] \in Transactions /\ Sound(p)
  BY DEF EngineInv, TypeOK
<1>pick. PICK s \in Nat \union {None} :
           IF s = None
           THEN Outcome(p, "expected", "FAILED")
           ELSE /\ Goto(p, "expected", "install")
                /\ tx' = [tx EXCEPT ![p].expected = s]
  BY <1>0, SerialTypes DEF ExpectedSerial, Sound, Claims, Outcome, Goto
<1> DEFINE t == [tx[p] EXCEPT !.outcome = "FAILED"]
<1> DEFINE u == [tx[p] EXCEPT !.expected = s]
<1>1. /\ t \in Transactions
      /\ t.cmd = tx[p].cmd /\ t.source = tx[p].source
      /\ t.backup = tx[p].backup /\ t.outcome = "FAILED"
  BY <1>0, SetOutcome DEF Outcomes
<1>2. s # None =>
      /\ u \in Transactions
      /\ u.cmd = tx[p].cmd /\ u.source = tx[p].source
      /\ u.backup = tx[p].backup /\ u.outcome = tx[p].outcome
  BY <1>0, SetExpected, <1>pick
<1>3. \/ /\ pc' = [pc EXCEPT ![p] = "finish"]
         /\ tx' = [tx EXCEPT ![p] = t]
         /\ pc[p] = "expected"
      \/ /\ pc' = [pc EXCEPT ![p] = "install"]
         /\ tx' = [tx EXCEPT ![p] = u]
         /\ pc[p] = "expected" /\ s # None
  BY <1>0, <1>pick DEF Goto, Outcome
<1> HIDE DEF t, u
<1>4. \/ Becomes(p, "finish", t) /\ pc[p] = "expected"
      \/ Becomes(p, "install", u) /\ pc[p] = "expected" /\ s # None
  BY <1>0, <1>1, <1>2, <1>3, BecomesNew, BecomesSame DEF Places, AfterFinish
<1>5. TypeOK'
  BY <1>0, <1>pick, <1>4, LockSteps
     DEF TypeOK, Becomes, ExpectedSerial, engineVars, resultVars, ghostVars,
         Goto, Outcome
<1>6. Sound(p)'
  <2>1. CASE Becomes(p, "finish", t) /\ pc[p] = "expected"
    <3>1. Claims("finish", t, backups')
      BY <1>0, <1>pick, <1>1, <1>2, EngineAssumption, <2>1
         DEF Sound, Claims, Working, Places, Committing, Restoring,
             ExpectedSerial, Goto, engineVars
    <3> QED
      BY <2>1, <3>1, Moved
  <2>2. CASE Becomes(p, "install", u) /\ pc[p] = "expected" /\ s # None
    <3>1. Claims("install", u, backups')
      BY <1>0, <1>pick, <1>1, <1>2, EngineAssumption, <2>2
         DEF Sound, Claims, Working, Places, Committing, Restoring,
             ExpectedSerial, Goto, engineVars
    <3> QED
      BY <2>2, <3>1, Moved
  <2> QED
    BY <1>4, <2>1, <2>2
<1> QED
  BY <1>4, <1>5, <1>6, Others
     DEF EngineInv, Becomes, TypeOK, ExpectedSerial, Goto, engineVars

\* The step UndoReload keeps the invariant.
LEMMA UndoReloadSound ==
    ASSUME EngineInv, NEW p \in Procs, UndoReload(p)
    PROVE  EngineInv'
<1>0. TypeOK /\ tx[p] \in Transactions /\ Sound(p)
  BY DEF EngineInv, TypeOK
<1>pick. PICK ok \in BOOLEAN, o \in Outcomes \ {"COMMIT", "ROLLBACK-COMMIT"} :
           /\ RndcReload(ok)
           /\ Goto(p, "undo-reload", "finish")
           /\ tx' = [tx EXCEPT ![p].rolledBack = ok, ![p].outcome = o]
  BY DEF UndoReload, Outcomes
<1> DEFINE t == [tx[p] EXCEPT !.rolledBack = ok, !.outcome = o]
<1>1. /\ t \in Transactions
      /\ t.cmd = tx[p].cmd /\ t.source = tx[p].source
      /\ t.backup = tx[p].backup /\ t.outcome = o
  <2>1. tx[p] \in Transactions /\ ok \in BOOLEAN /\ o \in Outcomes
    BY <1>0
  <2> QED
    BY <2>1 DEF Transactions
<1>2. /\ pc' = [pc EXCEPT ![p] = "finish"]
      /\ tx' = [tx EXCEPT ![p] = t]
      /\ pc[p] = "undo-reload"
  BY <1>0, <1>pick DEF Goto
<1> HIDE DEF t
<1>3. Becomes(p, "finish", t) /\ pc[p] = "undo-reload"
  BY <1>0, <1>1, <1>2, BecomesNew, BecomesSame DEF Places, AfterFinish
<1>4. TypeOK'
  BY <1>0, <1>pick, <1>3, LockSteps, ReloadTypes
     DEF TypeOK, Becomes, UndoReload, engineVars, resultVars, ghostVars, Goto
<1>5. Sound(p)'
  <2>1. Claims("finish", t, backups')
    BY <1>0, <1>pick, <1>1, EngineAssumption, <1>3
       DEF Sound, Claims, Working, Places, Committing, Restoring, UndoReload,
           Goto, engineVars
  <2> QED
    BY <1>3, <2>1, Moved
<1> QED
  BY <1>3, <1>4, <1>5, Others
     DEF EngineInv, Becomes, TypeOK, UndoReload, Goto, engineVars

\* The step ReloadBackup keeps the invariant.
LEMMA ReloadBackupSound ==
    ASSUME EngineInv, NEW p \in Procs, ReloadBackup(p)
    PROVE  EngineInv'
<1>0. TypeOK /\ tx[p] \in Transactions /\ Sound(p)
  BY DEF EngineInv, TypeOK
<1>pick. PICK ok \in BOOLEAN, o \in Outcomes \ {"COMMIT"} :
           /\ RndcReload(ok)
           /\ Goto(p, "rb-reload", "finish")
           /\ tx' = [tx EXCEPT ![p].committed = ok, ![p].outcome = o]
  BY DEF ReloadBackup, Outcomes
<1> DEFINE t == [tx[p] EXCEPT !.committed = ok, !.outcome = o]
<1>1. /\ t \in Transactions
      /\ t.cmd = tx[p].cmd /\ t.source = tx[p].source
      /\ t.backup = tx[p].backup /\ t.outcome = o
  <2>1. tx[p] \in Transactions /\ ok \in BOOLEAN /\ o \in Outcomes
    BY <1>0
  <2> QED
    BY <2>1 DEF Transactions
<1>2. /\ pc' = [pc EXCEPT ![p] = "finish"]
      /\ tx' = [tx EXCEPT ![p] = t]
      /\ pc[p] = "rb-reload"
  BY <1>0, <1>pick DEF Goto
<1> HIDE DEF t
<1>3. Becomes(p, "finish", t) /\ pc[p] = "rb-reload"
  BY <1>0, <1>1, <1>2, BecomesNew, BecomesSame DEF Places, AfterFinish
<1>4. TypeOK'
  BY <1>0, <1>pick, <1>3, LockSteps, ReloadTypes
     DEF TypeOK, Becomes, ReloadBackup, engineVars, resultVars, ghostVars,
         Goto
<1>5. Sound(p)'
  <2>1. Claims("finish", t, backups')
    BY <1>0, <1>pick, <1>1, EngineAssumption, <1>3
       DEF Sound, Claims, Working, Places, Committing, Restoring,
           ReloadBackup, Goto, engineVars
  <2> QED
    BY <1>3, <2>1, Moved
<1> QED
  BY <1>3, <1>4, <1>5, Others
     DEF EngineInv, Becomes, TypeOK, ReloadBackup, Goto, engineVars

\* The step VerifyFile keeps the invariant.
LEMMA VerifyFileSound ==
    ASSUME EngineInv, NEW p \in Procs, VerifyFile(p)
    PROVE  EngineInv'
<1>0. TypeOK /\ tx[p] \in Transactions /\ Sound(p)
  BY DEF EngineInv, TypeOK
<1>pick. PICK s \in Nat \union {None} :
           \/ /\ s # None
              /\ Goto(p, "vf-read", "vf-loaded")
              /\ tx' = [tx EXCEPT ![p].expected = s]
           \/ Outcome(p, "vf-read", "FAIL")
  BY <1>0, SerialTypes DEF VerifyFile, TypeOK, Outcome, Goto
<1> DEFINE t == [tx[p] EXCEPT !.outcome = "FAIL"]
<1> DEFINE u == [tx[p] EXCEPT !.expected = s]
<1>1. /\ t \in Transactions
      /\ t.cmd = tx[p].cmd /\ t.source = tx[p].source
      /\ t.backup = tx[p].backup /\ t.outcome = "FAIL"
  BY <1>0, SetOutcome DEF Outcomes
<1>2. s # None =>
      /\ u \in Transactions
      /\ u.cmd = tx[p].cmd /\ u.source = tx[p].source
      /\ u.backup = tx[p].backup /\ u.outcome = tx[p].outcome
  BY <1>0, SetExpected, <1>pick
<1>3. \/ /\ pc' = [pc EXCEPT ![p] = "finish"]
         /\ tx' = [tx EXCEPT ![p] = t]
         /\ pc[p] = "vf-read"
      \/ /\ pc' = [pc EXCEPT ![p] = "vf-loaded"]
         /\ tx' = [tx EXCEPT ![p] = u]
         /\ pc[p] = "vf-read" /\ s # None
  BY <1>0, <1>pick DEF Goto, Outcome
<1> HIDE DEF t, u
<1>4. \/ Becomes(p, "finish", t) /\ pc[p] = "vf-read"
      \/ Becomes(p, "vf-loaded", u) /\ pc[p] = "vf-read" /\ s # None
  BY <1>0, <1>1, <1>2, <1>3, BecomesNew, BecomesSame DEF Places, AfterFinish
<1>5. TypeOK'
  BY <1>0, <1>pick, <1>4, LockSteps
     DEF TypeOK, Becomes, VerifyFile, engineVars, resultVars, ghostVars, Goto,
         Outcome
<1>6. Sound(p)'
  <2>1. CASE Becomes(p, "finish", t) /\ pc[p] = "vf-read"
    <3>1. Claims("finish", t, backups')
      BY <1>0, <1>pick, <1>1, <1>2, EngineAssumption, <2>1
         DEF Sound, Claims, Working, Places, Committing, Restoring,
             VerifyFile, Goto, engineVars
    <3> QED
      BY <2>1, <3>1, Moved
  <2>2. CASE Becomes(p, "vf-loaded", u) /\ pc[p] = "vf-read" /\ s # None
    <3>1. Claims("vf-loaded", u, backups')
      BY <1>0, <1>pick, <1>1, <1>2, EngineAssumption, <2>2
         DEF Sound, Claims, Working, Places, Committing, Restoring,
             VerifyFile, Goto, engineVars
    <3> QED
      BY <2>2, <3>1, Moved
  <2> QED
    BY <1>4, <2>1, <2>2
<1> QED
  BY <1>4, <1>5, <1>6, Others
     DEF EngineInv, Becomes, TypeOK, VerifyFile, Goto, engineVars

\* The step VerifyLoaded keeps the invariant.
LEMMA VerifyLoadedSound ==
    ASSUME EngineInv, NEW p \in Procs, VerifyLoaded(p)
    PROVE  EngineInv'
<1>0. TypeOK /\ tx[p] \in Transactions /\ Sound(p)
  BY DEF EngineInv, TypeOK
<1>pick. PICK o \in Outcomes \ {"COMMIT", "ROLLBACK-COMMIT"} :
           Outcome(p, "vf-loaded", o)
  BY DEF VerifyLoaded, Outcomes
<1> DEFINE t == [tx[p] EXCEPT !.outcome = o]
<1>1. /\ t \in Transactions
      /\ t.cmd = tx[p].cmd /\ t.source = tx[p].source
      /\ t.backup = tx[p].backup /\ t.outcome = o
  BY <1>0, SetOutcome, <1>pick
<1>2. /\ pc' = [pc EXCEPT ![p] = "finish"]
      /\ tx' = [tx EXCEPT ![p] = t]
      /\ pc[p] = "vf-loaded"
  BY <1>0, <1>pick DEF Outcome
<1> HIDE DEF t
<1>3. Becomes(p, "finish", t) /\ pc[p] = "vf-loaded"
  BY <1>0, <1>1, <1>2, BecomesNew, BecomesSame DEF Places, AfterFinish
<1>4. TypeOK'
  BY <1>0, <1>pick, <1>3, LockSteps
     DEF TypeOK, Becomes, VerifyLoaded, engineVars, resultVars, ghostVars,
         Goto, Outcome
<1>5. Sound(p)'
  <2>1. Claims("finish", t, backups')
    BY <1>0, <1>pick, <1>1, EngineAssumption, <1>3
       DEF Sound, Claims, Working, Places, Committing, Restoring,
           VerifyLoaded, Goto, engineVars
  <2> QED
    BY <1>3, <2>1, Moved
<1> QED
  BY <1>3, <1>4, <1>5, Others
     DEF EngineInv, Becomes, TypeOK, VerifyLoaded, Goto, engineVars

\* The step Validate keeps the invariant.
LEMMA ValidateSound ==
    ASSUME EngineInv, NEW p \in Procs, Validate(p)
    PROVE  EngineInv'
<1>0. TypeOK /\ tx[p] \in Transactions /\ Sound(p)
  BY DEF EngineInv, TypeOK
<1>pick. PICK o \in Outcomes \ {"COMMIT", "ROLLBACK-COMMIT"} :
           Outcome(p, "vd-check", o)
  BY DEF Validate, Outcomes
<1> DEFINE t == [tx[p] EXCEPT !.outcome = o]
<1>1. /\ t \in Transactions
      /\ t.cmd = tx[p].cmd /\ t.source = tx[p].source
      /\ t.backup = tx[p].backup /\ t.outcome = o
  BY <1>0, SetOutcome, <1>pick
<1>2. /\ pc' = [pc EXCEPT ![p] = "finish"]
      /\ tx' = [tx EXCEPT ![p] = t]
      /\ pc[p] = "vd-check"
  BY <1>0, <1>pick DEF Outcome
<1> HIDE DEF t
<1>3. Becomes(p, "finish", t) /\ pc[p] = "vd-check"
  BY <1>0, <1>1, <1>2, BecomesNew, BecomesSame DEF Places, AfterFinish
<1>4. TypeOK'
  BY <1>0, <1>pick, <1>3, LockSteps
     DEF TypeOK, Becomes, Validate, engineVars, resultVars, ghostVars, Goto,
         Outcome
<1>5. Sound(p)'
  <2>1. Claims("finish", t, backups')
    BY <1>0, <1>pick, <1>1, EngineAssumption, <1>3
       DEF Sound, Claims, Working, Places, Committing, Restoring, Validate,
           Goto, engineVars
  <2> QED
    BY <1>3, <2>1, Moved
<1> QED
  BY <1>3, <1>4, <1>5, Others
     DEF EngineInv, Becomes, TypeOK, Validate, Goto, engineVars

\* The operator saving the source again keeps the invariant.
LEMMA EditSourceSound ==
    ASSUME EngineInv, NEW p \in Procs, EditSource(p)
    PROVE  EngineInv'
<1>0. TypeOK /\ tx[p] \in Transactions /\ Sound(p)
  BY DEF EngineInv, TypeOK
<1>pick. PICK c \in Content :
           /\ tx' = [tx EXCEPT ![p].source = c]
           /\ pc' = pc
           /\ pc[p] \in {"files", "compare", "backup", "expected", "install"}
           /\ pc[p] \in Places
           /\ backups' = backups
  BY <1>0 DEF EditSource, TypeOK, engineVars
<1> DEFINE t == [tx[p] EXCEPT !.source = c]
<1>1. /\ t \in Transactions
      /\ t.cmd = tx[p].cmd /\ t.source = c
      /\ t.backup = tx[p].backup /\ t.outcome = tx[p].outcome
  BY <1>0, SetSource, <1>pick
<1>2. tx' = [tx EXCEPT ![p] = t]
  BY <1>pick
<1> HIDE DEF t
<1>3. Becomes(p, pc[p], t)
  BY <1>0, <1>1, <1>2, <1>pick DEF Becomes, TypeOK
<1>4. TypeOK'
  BY <1>0, <1>3, LockSteps
     DEF TypeOK, Becomes, EditSource, engineVars, resultVars, ghostVars
<1>5. Sound(p)'
  <2>1. /\ pc'[p] = pc[p]
        /\ pc[p] \notin {"idle", "finish", "unlock", "unlink"}
        /\ tx'[p].cmd = tx[p].cmd /\ tx'[p].source = c
        /\ tx'[p].backup = tx[p].backup
    BY <1>pick, <1>1, <1>3 DEF Becomes
  <2>2. c \in Content /\ c # None /\ backups' = backups
    BY <1>pick, EngineAssumption
  <2>3. pc[p] \in Working => ~(ReadOnly /\ tx[p].cmd \in Commits)
    BY <1>0 DEF Sound, Claims
  <2>4. /\ pc[p] \in Committing => tx[p].cmd = "apply-commit"
        /\ pc[p] \in Committing \ {"backup"} => tx[p].backup \in backups
        /\ pc[p] \notin Restoring
    BY <1>0, <1>pick DEF Sound, Claims, Restoring
  <2> QED
    BY <2>1, <2>2, <2>3, <2>4 DEF Sound, Claims
<1> QED
  BY <1>3, <1>4, <1>5, <1>pick, Others DEF EngineInv, Becomes

\* The step Finish keeps the invariant.
LEMMA FinishSound ==
    ASSUME EngineInv, NEW p \in Procs, Finish(p)
    PROVE  EngineInv'
<1>0. TypeOK /\ tx[p] \in Transactions /\ Sound(p)
  BY DEF EngineInv, TypeOK
<1>1. /\ pc' = [pc EXCEPT ![p] = AfterFinish(p)]
      /\ tx' = tx
      /\ pc[p] = "finish"
  BY <1>0 DEF Goto, Finish
<1>2. Becomes(p, AfterFinish(p), tx[p]) /\ pc[p] = "finish"
  BY <1>0, <1>1, BecomesNew, BecomesSame DEF Places, AfterFinish
<1>3. TypeOK'
  BY <1>0, <1>2, LockSteps, RecordTypes
     DEF TypeOK, Becomes, Finish, Goto, engineVars, Sound, Claims
<1>4. Sound(p)'
  <2>1. Claims(AfterFinish(p), tx[p], backups')
    BY <1>0, EngineAssumption, <1>2
       DEF Sound, Claims, Working, Places, Committing, Restoring, Finish,
           Goto, engineVars, AfterFinish
  <2> QED
    BY <1>2, <2>1, Moved
<1> QED
  BY <1>2, <1>3, <1>4, Others
     DEF EngineInv, Becomes, TypeOK, Finish, Goto, engineVars

\* The step FinishFails keeps the invariant.
LEMMA FinishFailsSound ==
    ASSUME EngineInv, NEW p \in Procs, FinishFails(p)
    PROVE  EngineInv'
<1>0. TypeOK /\ tx[p] \in Transactions /\ Sound(p)
  BY DEF EngineInv, TypeOK
<1>1. \/ /\ pc' = [pc EXCEPT ![p] = "undo"]
         /\ tx' = tx
         /\ pc[p] = "finish" /\ tx[p].outcome = "COMMIT"
      \/ /\ pc' = [pc EXCEPT ![p] = AfterFinish(p)]
         /\ tx' = tx
         /\ pc[p] = "finish"
  BY <1>0 DEF Goto, FinishFails
<1>2. \/ /\ Becomes(p, "undo", tx[p])
         /\ pc[p] = "finish" /\ tx[p].outcome = "COMMIT"
      \/ Becomes(p, AfterFinish(p), tx[p]) /\ pc[p] = "finish"
  BY <1>0, <1>1, BecomesNew, BecomesSame DEF Places, AfterFinish
<1>3. TypeOK'
  BY <1>0, <1>2, LockSteps, RecordTypes
     DEF TypeOK, Becomes, FinishFails, Goto, engineVars, ghostVars
<1>4. Sound(p)'
  <2>1. CASE /\ Becomes(p, "undo", tx[p])
             /\ pc[p] = "finish" /\ tx[p].outcome = "COMMIT"
    <3>1. Claims("undo", tx[p], backups')
      BY <1>0, EngineAssumption, <2>1
         DEF Sound, Claims, Working, Places, Committing, Restoring,
             FinishFails, Goto, engineVars, Commits, AfterFinish
    <3> QED
      BY <2>1, <3>1, Moved
  <2>2. CASE Becomes(p, AfterFinish(p), tx[p]) /\ pc[p] = "finish"
    <3>1. Claims(AfterFinish(p), tx[p], backups')
      BY <1>0, EngineAssumption, <2>2
         DEF Sound, Claims, Working, Places, Committing, Restoring,
             FinishFails, Goto, engineVars, Commits, AfterFinish
    <3> QED
      BY <2>2, <3>1, Moved
  <2> QED
    BY <1>2, <2>1, <2>2
<1> QED
  BY <1>2, <1>3, <1>4, Others
     DEF EngineInv, Becomes, TypeOK, FinishFails, Goto, engineVars

\* The death of a process keeps the invariant.
LEMMA CrashSound ==
    ASSUME EngineInv, NEW p \in Procs, Crash(p)
    PROVE  EngineInv'
<1>0. TypeOK /\ tx[p] \in Transactions /\ Sound(p)
  BY DEF EngineInv, TypeOK
<1>1. Becomes(p, "idle", tx[p])
  BY <1>0, BecomesSame DEF Crash, Places
<1>2. TypeOK'
  BY <1>0, <1>1, LockSteps
     DEF TypeOK, Becomes, Crash, engineVars, resultVars, ghostVars
<1>3. Sound(p)'
  <2>1. Claims("idle", tx[p], backups')
    BY <1>0, EngineAssumption, <1>1
       DEF Sound, Claims, Working, Places, Committing, Restoring, Crash,
           Goto, engineVars
  <2> QED
    BY <1>1, <2>1, Moved
<1> QED
  BY <1>1, <1>2, <1>3, Others
     DEF EngineInv, Becomes, TypeOK, Crash, Goto, engineVars

\* named carrying out a queued reload keeps the invariant.
LEMMA NamedLoadsSound ==
    ASSUME EngineInv, NamedLoads
    PROVE  EngineInv'
<1>1. TypeOK'
  BY DEF EngineInv, TypeOK, NamedLoads, LockTypeOK, lockVars, resultVars,
         ghostVars
<1>2. ASSUME NEW q \in Procs PROVE Sound(q)'
  BY DEF EngineInv, NamedLoads, Sound, Claims
<1> QED
  BY <1>1, <1>2 DEF EngineInv

\* So does a step that changes nothing.
LEMMA StutterSound ==
    ASSUME EngineInv, UNCHANGED vars
    PROVE  EngineInv'
<1>1. TypeOK'
  BY DEF EngineInv, TypeOK, vars, LockTypeOK, lockVars, engineVars,
         resultVars, ghostVars
<1>2. ASSUME NEW q \in Procs PROVE Sound(q)'
  BY DEF EngineInv, vars, engineVars, Sound, Claims
<1> QED
  BY <1>1, <1>2 DEF EngineInv

\* Every step of a running command keeps the invariant.
LEMMA StepSound ==
    ASSUME EngineInv, NEW p \in Procs, Step(p)
    PROVE  EngineInv'
BY OpenLockSound, TakeLockSound, LockRefusedSound, CheckSourceSound,
   CompareSound, BackupSound, ExpectedSerialSound, InstallSourceSound,
   PostCheckSound, ReloadSound, VerifySound, UndoSound, UndoReloadSound,
   CheckBackupSound, BackupCurrentSound, InstallBackupSound,
   ReloadBackupSound, VerifyFileSound, VerifyLoadedSound, ValidateSound,
   FinishSound, FinishFailsSound, UnlockSound, UnlinkSound
   DEF Step

\* The invariant of the engine: types, and what each command has established
\* by the time it reaches its next step.
THEOREM EngineInvariant == Spec => []EngineInv
<1>1. Init => EngineInv
  BY InitTypes, InitSound DEF EngineInv
<1>2. EngineInv /\ [Next]_vars => EngineInv'
  BY StartSound, StepSound, EditSourceSound, CrashSound, NamedLoadsSound,
     StutterSound DEF Next
<1> QED
  BY <1>1, <1>2, PTL DEF Spec

\* Type correctness of TransactionEngine for all values of its constants.
THEOREM TypeCorrect == Spec => []TypeOK
<1>1. EngineInv => TypeOK
  BY DEF EngineInv
<1> QED
  BY <1>1, EngineInvariant, PTL

(* Every write is guarded **************************************************)

\* Steps that replace the zone file belong to a committing command.
LEMMA OnlyInstallsWrite ==
    ASSUME NEW p \in Procs, Start(p) \/ Step(p) \/ EditSource(p) \/ Crash(p),
           file' # file
    PROVE  InstallSource(p) \/ Undo(p) \/ InstallBackup(p)
BY DEF Start, Step, EditSource, Crash, OpenLock, TakeLock, LockRefused,
       CheckSource, Compare, Backup, ExpectedSerial, PostCheck, Reload, Verify,
       UndoReload, CheckBackup, BackupCurrent, ReloadBackup, VerifyFile,
       VerifyLoaded, Validate, Finish, FinishFails, Unlock, Unlink, engineVars

\* Where a step may replace the file, its command commits, read_only is off and
\* its backup is stored.
LEMMA InstallGuarded ==
    ASSUME EngineInv, NEW p \in Procs,
           InstallSource(p) \/ Undo(p) \/ InstallBackup(p)
    PROVE  /\ ~ReadOnly
           /\ pc'[p] # pc[p]
           /\ tx[p].cmd \in Commits
           /\ tx[p].backup \in backups
<1>1. /\ Sound(p)
      /\ pc \in [Procs -> Places]
  BY DEF EngineInv, TypeOK
<1>2. pc[p] \in {"install", "undo", "rb-install"} /\ pc'[p] # pc[p]
  BY <1>1 DEF InstallSource, Undo, InstallBackup, Goto, Outcome, Raise,
              AfterFinish
<1> QED
  BY <1>1, <1>2
     DEF Sound, Claims, Working, Places, Committing, Restoring, Commits

\* The zone file only changes in a step of a committing command that has saved
\* a backup, and never under read_only: dry runs, verify and validate do not
\* write (apply(), rollback()).
THEOREM WritesGuarded == Spec => WritesAreGuarded
<1>1. EngineInv /\ [Next]_vars =>
        [file' # file =>
           /\ ~ReadOnly
           /\ \E p \in Procs :
                 /\ pc'[p] # pc[p]
                 /\ tx[p].cmd \in Commits
                 /\ tx[p].backup \in backups]_vars
  <2> SUFFICES ASSUME EngineInv, [Next]_vars, file' # file
               PROVE  /\ ~ReadOnly
                      /\ \E p \in Procs :
                            /\ pc'[p] # pc[p]
                            /\ tx[p].cmd \in Commits
                            /\ tx[p].backup \in backups
    OBVIOUS
  <2>1. PICK p \in Procs : Start(p) \/ Step(p) \/ EditSource(p) \/ Crash(p)
    BY DEF Next, NamedLoads, vars, engineVars
  <2> QED
    BY <2>1, OnlyInstallsWrite, InstallGuarded
<1> QED
  BY <1>1, EngineInvariant, PTL DEF Spec, WritesAreGuarded

(* No content is lost ******************************************************)

\* What is not lost with the file.
Safe == backups \union overtaken

\* p may yet report its source as the content of the zone.
Pending(p) ==
    \/ pc[p] \in {"postcheck", "reload", "verify", "rb-reload"}
    \/ pc[p] = "finish" /\ tx[p].outcome \in {"COMMIT", "ROLLBACK-COMMIT"}

\* p has copied the file and is about to replace it.
Copied(p) == pc[p] \in {"expected", "install", "rb-install"}

\* p has replaced the file and may yet put its copy back.
Undoable(p) ==
    \/ pc[p] \in {"postcheck", "reload", "verify", "undo"}
    \/ pc[p] = "finish" /\ tx[p].outcome = "COMMIT"

\* What p may replace, while no other command has replaced the file.
Careful(p) ==
    /\ Copied(p) => file = tx[p].backup
    /\ Undoable(p) =>
          /\ settled \subseteq Safe
          /\ \A q \in Procs \ {p} : Pending(q) => tx[q].source \in Safe

LossInv ==
    /\ settled \subseteq Safe \union {file}
    /\ \A p \in Procs : Pending(p) => tx[p].source \in Safe \union {file}
    /\ \A p \in Procs \ disturbed : Careful(p)

\* What the types and the invariant of the engine say here.
LEMMA LossFacts ==
    ASSUME EngineInv, LossInv, NEW p \in Procs
    PROVE  /\ pc \in [Procs -> Places] /\ pc[p] \in Places
           /\ tx \in [Procs -> Transactions] /\ tx[p] \in Transactions
           /\ settled \subseteq Content /\ backups \subseteq Content
           /\ disturbed \subseteq Procs /\ Sound(p)
           /\ Pending(p) => tx[p].source \in Content
           /\ Copied(p) \/ Undoable(p) => tx[p].backup \in backups
<1>1. /\ pc \in [Procs -> Places] /\ tx \in [Procs -> Transactions] /\ Sound(p)
      /\ settled \subseteq Content /\ backups \subseteq Content /\ disturbed \subseteq Procs
  BY DEF EngineInv, TypeOK
<1>2. Pending(p) => tx[p].source \in Content
  BY <1>1 DEF Pending, Sound, Claims, Restoring
<1>3. Copied(p) \/ Undoable(p) => tx[p].backup \in backups
  BY <1>1 DEF Copied, Undoable, Sound, Claims, Committing, Restoring
<1> QED
  BY <1>1, <1>2, <1>3

\* A step of p that leaves the file and what was reported alone, and by which p
\* comes to claim no more than it did.
LEMMA QuietLoss ==
    ASSUME LossInv, NEW p \in Procs,
           UNCHANGED <<file, settled, overtaken>>, backups \subseteq backups',
           \A q \in Procs \ {p} : pc'[q] = pc[q] /\ tx'[q] = tx[q],
           disturbed \ {p} \subseteq disturbed',
           Pending(p)' => Pending(p) /\ tx'[p].source = tx[p].source,
           p \notin disturbed' /\ Copied(p)' => file = tx'[p].backup,
           p \notin disturbed' /\ Undoable(p)' => Undoable(p) /\ p \notin disturbed
    PROVE  LossInv'
<1>1. Safe \subseteq Safe'
  BY DEF Safe
<1>2. \A q \in Procs : Pending(q)' => Pending(q) /\ tx'[q].source = tx[q].source
  BY DEF Pending
<1>3. ASSUME NEW q \in Procs \ disturbed' PROVE Careful(q)'
  <2>1. CASE q = p
    BY <1>1, <1>2, <1>3, <2>1 DEF LossInv, Careful
  <2>2. CASE q # p
    <3>1. Careful(q) /\ (Copied(q)' <=> Copied(q)) /\ (Undoable(q)' <=> Undoable(q))
      BY <1>3, <2>2 DEF LossInv, Copied, Undoable
    <3> QED
      BY <1>1, <1>2, <1>3, <2>2, <3>1 DEF Careful
  <2> QED
    BY <2>1, <2>2
<1> QED
  BY <1>1, <1>2, <1>3 DEF LossInv

\* What a step that may replace the file does to p itself.
LEMMA InstallSteps ==
    ASSUME EngineInv, LossInv, NEW p \in Procs,
           InstallSource(p) \/ Undo(p) \/ InstallBackup(p)
    PROVE  /\ ~Pending(p) /\ (Copied(p) \/ Undoable(p))
           /\ ~Copied(p)' /\ (Pending(p)' => tx'[p].source = file')
           /\ Undoable(p)' => Copied(p)
           /\ \/ disturbed' = disturbed \union (Procs \ {p})
              \/ disturbed' = disturbed /\ file' = file /\ ~Pending(p)'
           /\ overtaken' = IF p \in disturbed
                           THEN overtaken \union ({file} \ {Absent, file'}) ELSE overtaken
           /\ UNCHANGED <<settled, backups>>
           /\ \A q \in Procs \ {p} : pc'[q] = pc[q] /\ tx'[q] = tx[q]
<1>1. CASE InstallSource(p)
  <2>1. PICK ok \in BOOLEAN : /\ Install(p, tx[p].source, ok)
                              /\ Goto(p, "install", IF ok THEN "postcheck" ELSE "undo")
    BY <1>1 DEF InstallSource
  <2>2. tx' = tx /\ UNCHANGED <<settled, backups>>
    BY <1>1 DEF InstallSource
  <2> QED
    BY <2>1, <2>2, LossFacts DEF Install, Goto, Pending, Copied, Undoable
<1>2. CASE Undo(p)
  <2>1. PICK ok \in BOOLEAN :
           /\ Install(p, tx[p].backup, ok)
           /\ IF ok THEN Goto(p, "undo", "undo-reload") /\ UNCHANGED tx
                    ELSE Outcome(p, "undo", "ROLLBACK-FAILED")
    BY <1>2 DEF Undo
  <2>2. UNCHANGED <<settled, backups>>
    BY <1>2 DEF Undo
  <2>3. /\ pc[p] = "undo"
        /\ \/ pc'[p] = "undo-reload"
           \/ pc'[p] = "finish" /\ tx'[p].outcome = "ROLLBACK-FAILED"
        /\ \A q \in Procs \ {p} : pc'[q] = pc[q] /\ tx'[q] = tx[q]
    BY <2>1, LossFacts DEF Goto, Outcome, Transactions
  <2> QED
    BY <2>1, <2>2, <2>3 DEF Install, Pending, Copied, Undoable
<1>3. CASE InstallBackup(p)
  <2>1. PICK ok \in BOOLEAN :
           /\ Install(p, tx[p].source, ok)
           /\ IF ok THEN Goto(p, "rb-install", "rb-reload") /\ UNCHANGED tx
                    ELSE Raise(p, "rb-install")
    BY <1>3 DEF InstallBackup
  <2>2. UNCHANGED <<settled, backups, tx>>
    BY <1>3, <2>1 DEF InstallBackup, Raise
  <2>3. /\ pc[p] = "rb-install"
        /\ IF ok THEN pc'[p] = "rb-reload" ELSE pc'[p] \in {"unlock", "idle"}
        /\ \A q \in Procs \ {p} : pc'[q] = pc[q]
    BY <2>1, LossFacts DEF Goto, Raise, AfterFinish
  <2> QED
    BY <2>1, <2>2, <2>3 DEF Install, Pending, Copied, Undoable
<1> QED
  BY <1>1, <1>2, <1>3

\* The steps that replace the file. What an undisturbed command replaces is its
\* copy, or what it has installed itself and nobody relies on.
LEMMA WriteLoss ==
    ASSUME EngineInv, LossInv, NEW p \in Procs,
           InstallSource(p) \/ Undo(p) \/ InstallBackup(p)
    PROVE  LossInv'
<1>1. /\ ~Pending(p) /\ (Copied(p) \/ Undoable(p))
      /\ ~Copied(p)' /\ (Pending(p)' => tx'[p].source = file')
      /\ Undoable(p)' => Copied(p)
      /\ \/ disturbed' = disturbed \union (Procs \ {p})
         \/ disturbed' = disturbed /\ file' = file /\ ~Pending(p)'
      /\ overtaken' = IF p \in disturbed
                      THEN overtaken \union ({file} \ {Absent, file'}) ELSE overtaken
      /\ UNCHANGED <<settled, backups>>
      /\ \A q \in Procs \ {p} : pc'[q] = pc[q] /\ tx'[q] = tx[q]
  BY InstallSteps
<1>2. \A q \in Procs \ {p} :
         /\ Pending(q)' <=> Pending(q)
         /\ Copied(q)' <=> Copied(q)
         /\ Undoable(q)' <=> Undoable(q)
  BY <1>1 DEF Pending, Copied, Undoable
<1>3. Safe \subseteq Safe'
  BY <1>1 DEF Safe
<1>4. p \notin disturbed =>
         /\ settled \subseteq Safe
         /\ \A q \in Procs \ {p} : Pending(q) => tx[q].source \in Safe
  <2>1. CASE Copied(p)
    BY <2>1, LossFacts DEF LossInv, Careful, Safe
  <2>2. CASE Undoable(p)
    BY <2>2 DEF LossInv, Careful
  <2> QED
    BY <1>1, <2>1, <2>2
<1>5. p \in disturbed => \A c \in Content : c \in Safe \union {file} => c \in Safe' \union {file'}
  BY <1>1, EngineAssumption DEF Safe
<1>6. settled' \subseteq Safe' \union {file'}
  BY <1>1, <1>3, <1>4, <1>5, LossFacts DEF LossInv
<1>7. ASSUME NEW q \in Procs, Pending(q)' PROVE tx'[q].source \in Safe' \union {file'}
  <2>1. CASE q = p
    BY <1>1, <1>7, <2>1
  <2>2. CASE q # p
    <3>1. /\ Pending(q) /\ tx'[q] = tx[q] /\ tx[q].source \in Content
          /\ tx[q].source \in Safe \union {file}
      BY <1>1, <1>2, <1>7, <2>2, LossFacts DEF LossInv
    <3> QED
      BY <1>3, <1>4, <1>5, <2>2, <3>1
  <2> QED
    BY <2>1, <2>2
<1>8. ASSUME NEW q \in Procs \ disturbed' PROVE Careful(q)'
  <2>1. CASE q = p
    <3>1. p \notin disturbed
      BY <1>1, <1>8, <2>1
    <3> QED
      BY <1>1, <1>2, <1>3, <1>4, <2>1, <3>1 DEF Careful
  <2>2. CASE q # p
    <3>1. q \notin disturbed /\ disturbed' = disturbed /\ file' = file /\ ~Pending(p)'
      BY <1>1, <1>8, <2>2
    <3>2. Careful(q) /\ tx'[q] = tx[q]
      BY <1>1, <2>2, <3>1 DEF LossInv
    <3> QED
      BY <1>1, <1>2, <1>3, <2>2, <3>1, <3>2 DEF Careful
  <2> QED
    BY <2>1, <2>2
<1> QED
  BY <1>6, <1>7, <1>8 DEF LossInv

\* The report of an outcome: what it adds to `settled` was pending.
LEMMA FinishLoss ==
    ASSUME EngineInv, LossInv, NEW p \in Procs, Finish(p)
    PROVE  LossInv'
<1>1. /\ pc[p] = "finish" /\ pc'[p] \in {"unlock", "idle"}
      /\ UNCHANGED <<file, backups, overtaken, disturbed, tx>>
      /\ \A q \in Procs \ {p} : pc'[q] = pc[q]
      /\ settled' = settled \/ (Pending(p) /\ settled' = settled \union {tx[p].source})
  BY LossFacts DEF Finish, Goto, AfterFinish, engineVars, Pending
<1>2. /\ ~Pending(p)' /\ ~Copied(p)' /\ ~Undoable(p)'
      /\ \A q \in Procs \ {p} :
            /\ Pending(q)' <=> Pending(q)
            /\ Copied(q)' <=> Copied(q)
            /\ Undoable(q)' <=> Undoable(q)
  BY <1>1 DEF Pending, Copied, Undoable
<1>3. Safe' = Safe
  BY <1>1 DEF Safe
<1>4. settled' \subseteq Safe' \union {file'}
  BY <1>1, <1>3 DEF LossInv
<1>5. \A q \in Procs : Pending(q)' => tx'[q].source \in Safe' \union {file'}
  BY <1>1, <1>2, <1>3 DEF LossInv
<1>6. ASSUME NEW q \in Procs \ disturbed' PROVE Careful(q)'
  <2>1. CASE q = p
    BY <1>2, <2>1 DEF Careful
  <2>2. CASE q # p
    <3>1. Careful(q)
      BY <1>1, <1>6 DEF LossInv
    <3>2. Undoable(q) => settled' \subseteq Safe'
      BY <1>1, <1>3, <2>2, <3>1 DEF Careful
    <3> QED
      BY <1>1, <1>2, <1>3, <2>2, <3>1, <3>2 DEF Careful
  <2> QED
    BY <2>1, <2>2
<1> QED
  BY <1>4, <1>5, <1>6 DEF LossInv

\* The copy of the file, before either install.
LEMMA BackupLoss ==
    ASSUME EngineInv, LossInv, NEW p \in Procs, Backup(p) \/ BackupCurrent(p)
    PROVE  LossInv'
<1>1. /\ UNCHANGED <<file, settled, overtaken>> /\ backups \subseteq backups'
      /\ \A q \in Procs \ {p} : pc'[q] = pc[q] /\ tx'[q] = tx[q]
      /\ disturbed \ {p} \subseteq disturbed'
      /\ \/ pc'[p] \in {"expected", "rb-install"} /\ tx'[p].backup = file
         \/ pc'[p] \in {"unlock", "idle"}
  BY LossFacts DEF Backup, BackupCurrent, SaveBackup, Goto, Raise, AfterFinish, Transactions
<1>2. ~Pending(p)' /\ ~Undoable(p)' /\ (Copied(p)' => file = tx'[p].backup)
  BY <1>1 DEF Pending, Undoable, Copied
<1> QED
  BY <1>1, <1>2, QuietLoss

\* The steps before the copy, the readers and the steps on the lock: p claims
\* nothing after them.
LEMMA EarlyLoss ==
    ASSUME EngineInv, LossInv, NEW p \in Procs,
           \/ Start(p) \/ OpenLock(p) \/ TakeLock(p) \/ LockRefused(p) \/ CheckSource(p)
           \/ Compare(p) \/ CheckBackup(p) \/ VerifyFile(p) \/ VerifyLoaded(p) \/ Validate(p)
           \/ Unlock(p) \/ Unlink(p) \/ Crash(p) \/ UndoReload(p)
    PROVE  LossInv'
<1>1. /\ UNCHANGED <<file, settled, overtaken, backups>> /\ disturbed \ {p} \subseteq disturbed'
      /\ \A q \in Procs \ {p} : pc'[q] = pc[q] /\ tx'[q] = tx[q]
  BY LossFacts DEF Start, OpenLock, TakeLock, LockRefused, CheckSource, Compare, CheckBackup,
     VerifyFile, VerifyLoaded, Validate, Unlock, Unlink, Crash, UndoReload, Goto, Outcome, Raise,
     engineVars, ghostVars
<1>2. ~Pending(p)' /\ ~Undoable(p)' /\ ~Copied(p)'
  <2>1. \/ pc'[p] \in {"idle", "unlock", "unlink", "opening", "flocking", "files", "compare",
                       "backup", "rb-check", "rb-backup", "vf-read", "vf-loaded", "vd-check"}
        \/ pc'[p] = "finish" /\ tx'[p].outcome \notin {"COMMIT", "ROLLBACK-COMMIT"}
    <3>1. CASE Start(p)
      <4>1. PICK cmd \in Commands, c \in Content \union {Absent} :
               /\ tx' = [tx EXCEPT ![p] =
                          [NoTx EXCEPT !.cmd = cmd, !.source = c, !.pre = file,
                                       !.outcome = IF ReadOnly /\ cmd \in Commits
                                                   THEN "READ-ONLY" ELSE None]]
               /\ pc' = [pc EXCEPT ![p] =
                          CASE ReadOnly /\ cmd \in Commits -> "finish"
                            [] ~(ReadOnly /\ cmd \in Commits) /\ cmd \in Apply -> "opening"
                            [] ~(ReadOnly /\ cmd \in Commits) /\ cmd \in Rollback -> "rb-check"
                            [] ~(ReadOnly /\ cmd \in Commits) /\ cmd = "verify" -> "vf-read"
                            [] ~(ReadOnly /\ cmd \in Commits) /\ cmd = "validate" -> "vd-check"]
        BY <3>1 DEF Start
      <4>2. cmd \in Apply \union Rollback \union {"verify", "validate"}
        BY EngineAssumption DEF CommandNames
      <4>3. tx'[p].outcome = IF ReadOnly /\ cmd \in Commits THEN "READ-ONLY" ELSE None
        BY <4>1, LossFacts DEF NoTx
      <4> QED
        BY <4>1, <4>2, <4>3, LossFacts
    <3>2. CASE OpenLock(p) \/ TakeLock(p) \/ LockRefused(p) \/ Unlock(p) \/ Unlink(p) \/ Crash(p)
      BY <3>2, LossFacts DEF OpenLock, TakeLock, LockRefused, Unlock, Unlink, Crash, Goto
    <3>3. CASE CheckSource(p)
      <4>1. \/ Outcome(p, "files", "FAIL")
            \/ Goto(p, "files", "compare")
            \/ Raise(p, "files")
        BY <3>3 DEF CheckSource
      <4> QED
        BY <4>1, LossFacts DEF Outcome, Goto, Raise, AfterFinish, Transactions
    <3>4. CASE Compare(p) \/ CheckBackup(p)
      BY <3>4, LossFacts DEF Compare, CheckBackup, Goto, Outcome, Transactions
    <3>5. CASE VerifyFile(p)
      <4>1. Goto(p, "vf-read", "vf-loaded") \/ Outcome(p, "vf-read", "FAIL")
        BY <3>5 DEF VerifyFile
      <4> QED
        BY <4>1, LossFacts DEF Goto, Outcome, Transactions
    <3>6. CASE VerifyLoaded(p) \/ Validate(p)
      <4>1. PICK from \in Places, o \in {"VERIFY", "FAIL", "PASS"} : Outcome(p, from, o)
        BY <3>6 DEF VerifyLoaded, Validate, Places
      <4> QED
        BY <4>1, LossFacts DEF Outcome, Transactions
    <3>7. CASE UndoReload(p)
      BY <3>7, LossFacts DEF UndoReload, Goto, Transactions
    <3> QED
      BY <3>1, <3>2, <3>3, <3>4, <3>5, <3>6, <3>7
  <2> QED
    BY <2>1 DEF Pending, Undoable, Copied
<1> QED
  BY <1>1, <1>2, QuietLoss

\* The steps between the copy and the report, apart from the installs: p goes on
\* to claim what it claimed.
LEMMA LateLoss ==
    ASSUME EngineInv, LossInv, NEW p \in Procs,
           \/ ExpectedSerial(p) \/ EditSource(p) \/ PostCheck(p) \/ Reload(p) \/ Verify(p)
           \/ ReloadBackup(p) \/ FinishFails(p)
    PROVE  LossInv'
<1>1. /\ UNCHANGED <<file, settled, overtaken, backups, disturbed>>
      /\ \A q \in Procs \ {p} : pc'[q] = pc[q] /\ tx'[q] = tx[q]
  BY LossFacts DEF ExpectedSerial, EditSource, PostCheck, Reload, Verify, ReloadBackup,
     FinishFails, Goto, Outcome, engineVars, ghostVars
<1>2. /\ tx'[p].backup = tx[p].backup
      /\ \/ /\ pc[p] \in {"files", "compare", "backup", "expected", "install"}
            /\ pc'[p] = pc[p]
         \/ /\ pc[p] = "expected"
            /\ \/ pc'[p] = "install"
               \/ pc'[p] = "finish" /\ tx'[p].outcome = "FAILED"
         \/ /\ pc[p] \in {"postcheck", "reload", "verify"}
            /\ \/ pc'[p] \in {"reload", "verify", "undo"}
               \/ pc'[p] = "finish" /\ tx'[p].outcome = "COMMIT"
            /\ tx'[p].source = tx[p].source
         \/ /\ pc[p] = "rb-reload" /\ pc'[p] = "finish"
            /\ tx'[p].outcome \in {"ROLLBACK-COMMIT", "FAIL"}
            /\ tx'[p].source = tx[p].source
         \/ /\ pc[p] = "finish"
            /\ \/ pc'[p] = "undo" /\ tx[p].outcome = "COMMIT"
               \/ pc'[p] \in {"unlock", "idle"}
  <2>1. CASE ExpectedSerial(p)
    <3>1. PICK s \in ZoneSerial(tx[p].source) :
             IF s = None
             THEN Outcome(p, "expected", "FAILED")
             ELSE /\ Goto(p, "expected", "install")
                  /\ tx' = [tx EXCEPT ![p].expected = s]
      BY <2>1 DEF ExpectedSerial
    <3> QED
      BY <3>1, LossFacts DEF Outcome, Goto, Transactions
  <2>2. CASE EditSource(p)
    BY <2>2, LossFacts DEF EditSource, Transactions
  <2>3. CASE PostCheck(p) \/ Reload(p)
    BY <2>3, LossFacts DEF PostCheck, Reload, Goto
  <2>4. CASE Verify(p)
    BY <2>4, LossFacts DEF Verify, Goto, Transactions
  <2>5. CASE ReloadBackup(p)
    BY <2>5, LossFacts DEF ReloadBackup, Goto, Transactions
  <2>6. CASE FinishFails(p)
    BY <2>6, LossFacts DEF FinishFails, AfterFinish
  <2> QED
    BY <2>1, <2>2, <2>3, <2>4, <2>5, <2>6
<1>3. /\ Pending(p)' => Pending(p) /\ tx'[p].source = tx[p].source
      /\ Undoable(p)' => Undoable(p)
      /\ Copied(p)' => Copied(p)
  BY <1>2 DEF Pending, Undoable, Copied
<1>4. p \notin disturbed' /\ Copied(p)' => file = tx'[p].backup
  BY <1>1, <1>2, <1>3 DEF LossInv, Careful
<1> QED
  BY <1>1, <1>3, <1>4, QuietLoss

\* Every step keeps the invariant, whatever commands run and fail at once.
LEMMA NextLoss == EngineInv /\ LossInv /\ [Next]_vars => LossInv'
<1> SUFFICES ASSUME EngineInv, LossInv, [Next]_vars PROVE LossInv'
  OBVIOUS
<1>1. ASSUME NEW p \in Procs, Start(p) \/ Step(p) \/ EditSource(p) \/ Crash(p) PROVE LossInv'
  BY <1>1, EarlyLoss, LateLoss, BackupLoss, WriteLoss, FinishLoss DEF Step
<1>2. CASE NamedLoads \/ UNCHANGED vars
  <2>1. UNCHANGED <<file, settled, overtaken, backups, disturbed, pc, tx>>
    BY <1>2 DEF NamedLoads, vars, engineVars, ghostVars
  <2> QED
    BY <2>1 DEF LossInv, Careful, Safe, Pending, Copied, Undoable
<1> QED
  BY <1>1, <1>2 DEF Next

\* Whatever the engine has reported as the zone's content is the active file or
\* in a backup, for any number of commands at once, rollback() among them, and
\* whatever fails or dies, unless it was replaced by a command that another one
\* had overtaken since its backup.
THEOREM ContentsSurvive == Spec => []NothingLost
<1>1. Init => LossInv
  BY DEF Init, LossInv, Careful, Safe, Pending, Copied, Undoable
<1>2. LossInv => NothingLost
  BY DEF LossInv, Safe, NothingLost
<1> QED
  BY <1>1, <1>2, NextLoss, EngineInvariant, PTL DEF Spec

(* Commands that do not overlap ********************************************)

\* The places of apply() under the zone lock and of rollback() before its end.
Held == {"files", "compare", "backup", "expected", "install", "postcheck",
         "reload", "verify", "undo", "undo-reload", "unlock",
         "rb-check", "rb-backup", "rb-install", "rb-reload"}

\* p runs apply() or rollback() between its first look at the zone file and its
\* last: from the lock on, or from the check of the backup on.
Active(p) ==
    \/ pc[p] \in Held
    \/ /\ pc[p] = "finish"
       /\ tx[p].cmd \in Apply \union Rollback
       /\ tx[p].outcome # "READ-ONLY"

\* No two commands do.
Alone == \A p, q \in Procs : Active(p) /\ Active(q) => p = q

\* What the file is to a command at each of its places.
Untouched == {"files", "compare", "backup", "expected", "install"}
Locking == Untouched \union {"opening", "flocking"}
Saved == {"expected", "install", "postcheck", "reload", "verify", "undo"}
Replacing == {"expected", "install", "postcheck", "reload", "verify", "undo",
              "undo-reload", "rb-install", "rb-reload"}
Replaced == {"postcheck", "reload", "verify", "rb-reload"}

\* The file as an outcome reports it.
Reported(t) ==
    CASE t.outcome = "COMMIT" -> file = t.source /\ file \in Valid
      [] t.outcome = "ROLLBACK-FAILED" -> file \in {t.pre, t.source}
      [] OTHER -> file = t.pre

\* named serves the serial of the file, and goes on to when it reloads.
Served == loaded # Absent /\ Serial[loaded] = Serial[file]

Knows(p) ==
    /\ pc[p] \in Locking => tx[p].cmd \in Apply /\ tx[p].outcome = None
    /\ pc[p] \in Untouched \union {"undo-reload"} => file = tx[p].pre
    /\ pc[p] \in Saved => tx[p].backup = tx[p].pre
    /\ pc[p] \in Replacing => settled \subseteq backups
    /\ pc[p] \in Replaced => file = tx[p].source
    /\ pc[p] \in {"reload", "verify"} => file \in Valid
    /\ pc[p] = "undo" => file \in {tx[p].pre, tx[p].source}
    /\ pc[p] = "finish" /\ tx[p].outcome = "COMMIT" =>
         tx[p].backup = tx[p].pre /\ settled \subseteq backups
    /\ pc[p] = "finish" /\ tx[p].outcome = "ROLLBACK-COMMIT" =>
         handle[p] = None /\ file = tx[p].source
    /\ pc[p] = "finish" /\ (handle[p] # None \/ tx[p].outcome = "COMMIT") => Reported(tx[p])
    /\ pc[p] = "unlock" /\ tx[p].outcome # None => Reported(tx[p])

\* A command that is not active, or runs rollback(), has no handle.
NoHandle(p) ==
    /\ pc[p] \in {"idle", "opening", "rb-check", "rb-backup", "rb-install",
                  "rb-reload", "vf-read", "vf-loaded", "vd-check", "unlink"} => handle[p] = None
    /\ pc[p] = "finish" /\ ~Active(p) =>
         handle[p] = None /\ tx[p].outcome \notin {"COMMIT", "ROLLBACK-COMMIT"}

\* Without a source that changes under apply(): the expected serial is the new
\* file's, and what Verify has seen is so.
Expects(p) ==
    /\ pc[p] \in {"install", "postcheck", "reload", "verify"} =>
         tx[p].expected = Serial[tx[p].source] /\ tx[p].expected # None
    /\ pc[p] \in {"finish", "unlock"} /\ tx[p].outcome = "COMMIT" => Served

\* Every content that was reported, without exception, is the file or in a backup.
AllKept == \A c \in settled : c = file \/ c \in backups

FileInv ==
    /\ AllKept
    /\ \A p \in Procs : Knows(p) /\ NoHandle(p)

ServeInv == \A p \in Procs : Expects(p)

(* The file through a command **********************************************)

\* What is known of a command before its step.
LEMMA OwnFacts ==
    ASSUME EngineInv, FileInv, NEW p \in Procs
    PROVE  /\ tx \in [Procs -> Transactions] /\ tx[p] \in Transactions
           /\ pc \in [Procs -> Places] /\ pc[p] \in Places
           /\ handle \in [Procs -> Inodes \union {None}]
           /\ file \in Content \union {Absent} /\ backups \subseteq Content
           /\ Sound(p) /\ Knows(p) /\ NoHandle(p) /\ AllKept
BY DEF EngineInv, FileInv, TypeOK, LockTypeOK

\* A step of p leaves the other commands their knowledge when it leaves the file
\* alone, or when p is the active one.
LEMMA OthersKnow ==
    ASSUME FileInv, NEW p \in Procs, Knows(p)', NoHandle(p)', AllKept',
           \A q \in Procs \ {p} :
              pc'[q] = pc[q] /\ tx'[q] = tx[q] /\ handle'[q] = handle[q],
           UNCHANGED <<file, backups, settled>> \/ (Active(p) /\ Alone)
    PROVE  FileInv'
<1> SUFFICES ASSUME NEW q \in Procs, q # p PROVE Knows(q)' /\ NoHandle(q)'
  BY DEF FileInv
<1>1. /\ Knows(q) /\ NoHandle(q) /\ Active(q)' = Active(q)
      /\ pc'[q] = pc[q] /\ tx'[q] = tx[q] /\ handle'[q] = handle[q]
  BY DEF FileInv, Active
<1>2. NoHandle(q)'
  BY <1>1 DEF NoHandle
<1>3. CASE UNCHANGED <<file, backups, settled>>
  BY <1>1, <1>2, <1>3 DEF Knows, Reported
<1>4. CASE Active(p) /\ Alone
  <2>1. ~Active(q)
    BY <1>4 DEF Alone
  <2>2. /\ pc[q] \notin Held
        /\ pc[q] = "finish" =>
             handle[q] = None /\ tx[q].outcome \notin {"COMMIT", "ROLLBACK-COMMIT"}
    BY <1>1, <2>1 DEF Active, NoHandle
  <2> QED
    BY <1>1, <1>2, <2>2 DEF Knows, Held, Locking, Untouched, Saved, Replacing, Replaced
<1> QED
  BY <1>3, <1>4

\* A command starts.
LEMMA StartKnows ==
    ASSUME EngineInv, FileInv, NEW p \in Procs, Start(p)
    PROVE  FileInv'
<1>1. /\ pc[p] = "idle" /\ handle[p] = None
      /\ UNCHANGED <<handle, file, backups, settled>>
      /\ \A q \in Procs \ {p} : pc'[q] = pc[q] /\ tx'[q] = tx[q]
  BY OwnFacts DEF Start, engineVars, lockVars, NoHandle
<1>2. \/ pc'[p] = "finish" /\ tx'[p].outcome = "READ-ONLY"
      \/ pc'[p] \in {"rb-check", "vf-read", "vd-check"}
      \/ pc'[p] = "opening" /\ tx'[p].cmd \in Apply /\ tx'[p].outcome = None
  <2>1. PICK cmd \in Commands, c \in Content \union {Absent} :
           /\ tx' = [tx EXCEPT ![p] =
                      [NoTx EXCEPT !.cmd = cmd, !.source = c, !.pre = file,
                                   !.outcome = IF ReadOnly /\ cmd \in Commits
                                               THEN "READ-ONLY" ELSE None]]
           /\ pc' = [pc EXCEPT ![p] =
                    CASE ReadOnly /\ cmd \in Commits -> "finish"
                      [] ~(ReadOnly /\ cmd \in Commits) /\ cmd \in Apply
                            -> "opening"
                      [] ~(ReadOnly /\ cmd \in Commits) /\ cmd \in Rollback
                            -> "rb-check"
                      [] ~(ReadOnly /\ cmd \in Commits) /\ cmd = "verify"
                            -> "vf-read"
                      [] ~(ReadOnly /\ cmd \in Commits) /\ cmd = "validate"
                            -> "vd-check"]
    BY DEF Start
  <2>2. cmd \in Apply \union Rollback \union {"verify", "validate"}
    BY EngineAssumption DEF CommandNames
  <2>3. pc \in [Procs -> Places] /\ tx \in [Procs -> Transactions]
    BY OwnFacts
  <2>4. /\ tx'[p].cmd = cmd
        /\ tx'[p].outcome = IF ReadOnly /\ cmd \in Commits THEN "READ-ONLY" ELSE None
    BY <2>1, <2>3 DEF NoTx
  <2> QED
    BY <2>1, <2>2, <2>3, <2>4
<1>3. Knows(p)' /\ NoHandle(p)'
  BY <1>1, <1>2 DEF Knows, NoHandle, Active, Held, Locking, Untouched, Saved, Replacing, Replaced
<1>4. AllKept'
  BY <1>1, OwnFacts DEF AllKept
<1> QED
  BY <1>1, <1>3, <1>4, OthersKnow

\* The steps on the lock file, a death and the end of the lock.
LEMMA LockStepsKnow ==
    ASSUME EngineInv, FileInv, NEW p \in Procs,
           OpenLock(p) \/ TakeLock(p) \/ LockRefused(p) \/ Unlock(p) \/ Unlink(p) \/ Crash(p)
    PROVE  FileInv'
<1>1. /\ UNCHANGED <<file, backups, settled>>
      /\ \A q \in Procs \ {p} :
            pc'[q] = pc[q] /\ tx'[q] = tx[q] /\ handle'[q] = handle[q]
  BY OwnFacts DEF OpenLock, TakeLock, LockRefused, Unlock, Unlink, Crash, Goto,
     OpenLockFile, Flock, CloseLockFile, UnlinkLockFile, engineVars, ghostVars, lockVars
<1>2. \/ /\ pc'[p] \in {"flocking", "files"}
         /\ pc'[p] = "files" => tx'[p].pre = file
         /\ tx'[p].cmd \in Apply /\ tx'[p].outcome = None
      \/ pc'[p] \in {"idle", "unlink"} /\ handle'[p] = None
  <2>1. CASE OpenLock(p)
    BY <2>1, OwnFacts DEF OpenLock, Goto, Knows, Locking
  <2>2. CASE TakeLock(p)
    BY <2>2, OwnFacts DEF TakeLock, Goto, Transactions, Knows, Locking
  <2>3. CASE LockRefused(p) \/ Unlock(p) \/ Crash(p)
    BY <2>3, OwnFacts DEF LockRefused, Unlock, Crash, Goto, CloseLockFile
  <2>4. CASE Unlink(p)
    BY <2>4, OwnFacts DEF Unlink, Goto, UnlinkLockFile, NoHandle
  <2> QED
    BY <2>1, <2>2, <2>3, <2>4
<1>3. Knows(p)' /\ NoHandle(p)'
  BY <1>1, <1>2 DEF Knows, NoHandle, Active, Held, Locking, Untouched, Saved, Replacing, Replaced
<1>4. AllKept'
  BY <1>1, OwnFacts DEF AllKept
<1> QED
  BY <1>1, <1>3, <1>4, OthersKnow

\* The checks of apply() before its backup.
LEMMA ChecksKnow ==
    ASSUME EngineInv, FileInv, NEW p \in Procs,
           CheckSource(p) \/ Compare(p) \/ ExpectedSerial(p) \/ EditSource(p)
    PROVE  FileInv'
<1>1. /\ UNCHANGED <<file, backups, settled, handle>>
      /\ \A q \in Procs \ {p} :
            pc'[q] = pc[q] /\ tx'[q] = tx[q] /\ handle'[q] = handle[q]
  BY OwnFacts DEF CheckSource, Compare, ExpectedSerial, EditSource, Goto, Outcome, Raise,
     engineVars, ghostVars, lockVars
<1>2. /\ tx'[p].pre = tx[p].pre /\ tx'[p].backup = tx[p].backup
      /\ tx'[p].cmd = tx[p].cmd /\ pc[p] \in Untouched
      /\ \/ pc'[p] \in {"compare", "backup"} /\ tx'[p].outcome = tx[p].outcome
         \/ pc'[p] = pc[p] /\ tx'[p].outcome = tx[p].outcome
         \/ pc'[p] = "install" /\ pc[p] = "expected" /\ tx'[p].outcome = tx[p].outcome
         \/ /\ pc'[p] = "finish"
            /\ tx'[p].outcome \in {"FAIL", "NO-CHANGE", "DRY-RUN", "FAILED"}
         \/ /\ pc'[p] \in {"unlock", "idle"} /\ tx'[p].outcome = tx[p].outcome
            /\ pc'[p] = "idle" => handle[p] = None
  <2>1. CASE CheckSource(p)
    <3>1. \/ Outcome(p, "files", "FAIL")
          \/ Goto(p, "files", "compare") /\ UNCHANGED tx
          \/ Raise(p, "files")
      BY <2>1 DEF CheckSource
    <3>2. CASE Outcome(p, "files", "FAIL")
      BY <3>2, OwnFacts DEF Outcome, Transactions, Untouched
    <3>3. CASE (Goto(p, "files", "compare") /\ UNCHANGED tx) \/ Raise(p, "files")
      BY <3>3, OwnFacts DEF Goto, Raise, AfterFinish, Untouched
    <3> QED
      BY <3>1, <3>2, <3>3
  <2>2. CASE Compare(p)
    BY <2>2, OwnFacts DEF Compare, Goto, Outcome, Transactions, Untouched
  <2>3. CASE ExpectedSerial(p)
    <3>1. PICK s \in ZoneSerial(tx[p].source) :
             IF s = None
             THEN Outcome(p, "expected", "FAILED")
             ELSE /\ Goto(p, "expected", "install")
                  /\ tx' = [tx EXCEPT ![p].expected = s]
      BY <2>3 DEF ExpectedSerial
    <3>2. CASE s = None
      BY <3>1, <3>2, OwnFacts DEF Outcome, Transactions, Untouched
    <3>3. CASE s # None
      BY <3>1, <3>3, OwnFacts DEF Goto, Transactions, Untouched
    <3> QED
      BY <3>2, <3>3
  <2>4. CASE EditSource(p)
    BY <2>4, OwnFacts DEF EditSource, Transactions, Untouched
  <2> QED
    BY <2>1, <2>2, <2>3, <2>4
<1>3. Knows(p)' /\ NoHandle(p)'
  BY <1>1, <1>2, OwnFacts DEF Knows, NoHandle, Active, Held, Locking, Untouched, Saved, Replacing, Replaced, Reported
<1>4. AllKept'
  BY <1>1, OwnFacts DEF AllKept
<1> QED
  BY <1>1, <1>3, <1>4, OthersKnow

\* The copy of the file, before either install.
LEMMA BackupsKnow ==
    ASSUME EngineInv, FileInv, Alone, NEW p \in Procs, Backup(p) \/ BackupCurrent(p)
    PROVE  FileInv'
<1>1. /\ UNCHANGED <<file, settled, handle>>
      /\ backups \subseteq backups'
      /\ \A q \in Procs \ {p} :
            pc'[q] = pc[q] /\ tx'[q] = tx[q] /\ handle'[q] = handle[q]
      /\ pc[p] \in {"backup", "rb-backup"} /\ Active(p)
  BY OwnFacts DEF Backup, BackupCurrent, SaveBackup, Goto, Raise, ghostVars, lockVars,
     Active, Held
<1>2. \/ /\ pc'[p] = IF pc[p] = "backup" THEN "expected" ELSE "rb-install"
         /\ tx'[p].backup = file /\ tx'[p].pre = file /\ backups' = backups \union {file}
         /\ tx'[p].cmd = tx[p].cmd /\ tx'[p].outcome = tx[p].outcome
      \/ /\ pc'[p] \in {"unlock", "idle"} /\ tx'[p].outcome = tx[p].outcome
         /\ pc'[p] = "idle" => handle[p] = None
         /\ pc[p] = "rb-backup" => pc'[p] = "idle"
  BY OwnFacts DEF Backup, BackupCurrent, SaveBackup, Goto, Raise, AfterFinish,
     Transactions, NoHandle
<1>3. settled \subseteq backups \union {file}
  BY OwnFacts DEF AllKept
<1>4. Knows(p)' /\ NoHandle(p)'
  BY <1>1, <1>2, <1>3, OwnFacts
     DEF Knows, NoHandle, Active, Held, Locking, Untouched, Saved, Replacing, Replaced
<1>5. AllKept'
  BY <1>1, OwnFacts DEF AllKept
<1> QED
  BY <1>1, <1>4, <1>5, OthersKnow

\* The steps that replace the file.
LEMMA InstallsKnow ==
    ASSUME EngineInv, FileInv, Alone, NEW p \in Procs,
           InstallSource(p) \/ Undo(p) \/ InstallBackup(p)
    PROVE  FileInv'
<1>1. /\ UNCHANGED <<backups, settled, handle>>
      /\ \A q \in Procs \ {p} :
            pc'[q] = pc[q] /\ tx'[q] = tx[q] /\ handle'[q] = handle[q]
      /\ pc[p] \in {"install", "undo", "rb-install"} /\ Active(p)
  BY OwnFacts DEF InstallSource, Undo, InstallBackup, Goto, Outcome, Raise, engineVars,
     ghostVars, lockVars, Active, Held
<1>2. settled \subseteq backups
  BY <1>1, OwnFacts DEF Knows, Replacing
<1>3. AllKept'
  BY <1>1, <1>2 DEF AllKept
<1>4. Knows(p)' /\ NoHandle(p)'
  <2>1. CASE InstallSource(p)
    <3>1. /\ pc[p] = "install" /\ tx' = tx
          /\ file = tx[p].pre /\ tx[p].backup = tx[p].pre
          /\ \/ pc'[p] = "postcheck" /\ file' = tx[p].source
             \/ pc'[p] = "undo" /\ file' \in {file, tx[p].source}
      BY <2>1, OwnFacts DEF InstallSource, Install, Goto, Knows, Untouched, Saved
    <3> QED
      BY <1>1, <1>2, <3>1
         DEF Knows, NoHandle, Active, Held, Locking, Untouched, Saved, Replacing, Replaced
  <2>2. CASE Undo(p)
    <3>1. /\ pc[p] = "undo" /\ file \in {tx[p].pre, tx[p].source}
          /\ tx[p].backup = tx[p].pre
          /\ tx'[p].pre = tx[p].pre /\ tx'[p].source = tx[p].source
          /\ tx'[p].cmd = tx[p].cmd /\ tx[p].cmd \in Apply
          /\ \/ pc'[p] = "undo-reload" /\ file' = tx[p].pre
             \/ /\ pc'[p] = "finish" /\ file' \in {file, tx[p].pre}
                /\ tx'[p].outcome = "ROLLBACK-FAILED"
      BY <2>2, OwnFacts DEF Undo, Install, Goto, Outcome, Knows, Saved, Transactions,
         Sound, Claims, Committing, Apply
    <3> QED
      BY <1>1, <1>2, <3>1
         DEF Knows, NoHandle, Active, Held, Locking, Untouched, Saved, Replacing, Replaced,
             Reported
  <2>3. CASE InstallBackup(p)
    <3>1. /\ pc[p] = "rb-install" /\ tx' = tx /\ handle[p] = None
          /\ \/ pc'[p] = "rb-reload" /\ file' = tx[p].source
             \/ pc'[p] = "idle"
      BY <2>3, OwnFacts DEF InstallBackup, Install, Goto, Raise, AfterFinish, NoHandle
    <3> QED
      BY <1>1, <1>2, <3>1
         DEF Knows, NoHandle, Active, Held, Locking, Untouched, Saved, Replacing, Replaced
  <2> QED
    BY <2>1, <2>2, <2>3
<1> QED
  BY <1>1, <1>3, <1>4, OthersKnow

\* The checks and reloads after an install.
LEMMA VerdictsKnow ==
    ASSUME EngineInv, FileInv, NEW p \in Procs,
           PostCheck(p) \/ Reload(p) \/ Verify(p) \/ UndoReload(p) \/ ReloadBackup(p)
    PROVE  FileInv'
<1>1. /\ UNCHANGED <<file, backups, settled, handle>>
      /\ \A q \in Procs \ {p} :
            pc'[q] = pc[q] /\ tx'[q] = tx[q] /\ handle'[q] = handle[q]
  BY OwnFacts DEF PostCheck, Reload, Verify, UndoReload, ReloadBackup, Goto, engineVars,
     ghostVars, lockVars
<1>2. AllKept'
  BY <1>1, OwnFacts DEF AllKept
<1>3. /\ tx'[p].pre = tx[p].pre /\ tx'[p].source = tx[p].source
      /\ tx'[p].backup = tx[p].backup /\ tx'[p].cmd = tx[p].cmd
  <2>1. CASE PostCheck(p) \/ Reload(p)
    BY <2>1 DEF PostCheck, Reload
  <2>2. CASE Verify(p)
    BY <2>2, OwnFacts DEF Verify, Transactions
  <2>3. CASE UndoReload(p)
    BY <2>3, OwnFacts DEF UndoReload, Transactions
  <2>4. CASE ReloadBackup(p)
    BY <2>4, OwnFacts DEF ReloadBackup, Transactions
  <2> QED
    BY <2>1, <2>2, <2>3, <2>4
<1>4. /\ pc[p] \in {"postcheck", "reload", "verify", "undo-reload", "rb-reload"}
      /\ tx[p].cmd \in Apply \union Rollback
  BY OwnFacts DEF PostCheck, Reload, Verify, UndoReload, ReloadBackup, Goto,
     Sound, Claims, Committing, Restoring, Apply, Rollback
<1>5. Knows(p)' /\ NoHandle(p)'
  <2>1. CASE PostCheck(p)
    <3>1. \/ pc'[p] = "undo" /\ pc[p] = "postcheck"
          \/ pc'[p] = "reload" /\ pc[p] = "postcheck" /\ file \in Valid
      BY <2>1, OwnFacts DEF PostCheck, CheckZone, Succeeds, Goto
    <3> QED
      BY <1>1, <1>3, <3>1, OwnFacts
         DEF Knows, NoHandle, Active, Held, Locking, Untouched, Saved, Replacing, Replaced
  <2>2. CASE Reload(p)
    <3>1. pc'[p] \in {"verify", "undo"} /\ pc[p] = "reload"
      BY <2>2, OwnFacts DEF Reload, Goto
    <3> QED
      BY <1>1, <1>3, <3>1, OwnFacts
         DEF Knows, NoHandle, Active, Held, Locking, Untouched, Saved, Replacing, Replaced
  <2>3. CASE Verify(p)
    <3>1. /\ pc[p] = "verify"
          /\ \/ pc'[p] = "undo"
             \/ pc'[p] = "finish" /\ tx'[p].outcome = "COMMIT"
      BY <2>3, OwnFacts DEF Verify, Goto, Transactions
    <3> QED
      BY <1>1, <1>3, <1>4, <3>1, OwnFacts
         DEF Knows, NoHandle, Active, Held, Locking, Untouched, Saved, Replacing, Replaced,
             Reported
  <2>4. CASE UndoReload(p)
    <3>1. /\ pc[p] = "undo-reload" /\ pc'[p] = "finish"
          /\ tx'[p].outcome \in {"ROLLED-BACK", "ROLLBACK-FAILED"}
      BY <2>4, OwnFacts DEF UndoReload, Goto, Transactions
    <3> QED
      BY <1>1, <1>3, <1>4, <3>1, OwnFacts
         DEF Knows, NoHandle, Active, Held, Locking, Untouched, Saved, Replacing, Replaced,
             Reported
  <2>5. CASE ReloadBackup(p)
    <3>1. /\ pc[p] = "rb-reload" /\ pc'[p] = "finish" /\ handle[p] = None
          /\ tx'[p].outcome \in {"ROLLBACK-COMMIT", "FAIL"}
      BY <2>5, OwnFacts DEF ReloadBackup, Goto, Transactions, NoHandle
    <3> QED
      BY <1>1, <1>3, <1>4, <3>1, OwnFacts
         DEF Knows, NoHandle, Active, Held, Locking, Untouched, Saved, Replacing, Replaced,
             Reported
  <2> QED
    BY <2>1, <2>2, <2>3, <2>4, <2>5
<1> QED
  BY <1>1, <1>2, <1>5, OthersKnow

\* The check of a backup, verify() and validate().
LEMMA ReadersKnow ==
    ASSUME EngineInv, FileInv, NEW p \in Procs,
           CheckBackup(p) \/ VerifyFile(p) \/ VerifyLoaded(p) \/ Validate(p)
    PROVE  FileInv'
<1>1. /\ UNCHANGED <<file, backups, settled, handle>>
      /\ \A q \in Procs \ {p} :
            pc'[q] = pc[q] /\ tx'[q] = tx[q] /\ handle'[q] = handle[q]
  BY OwnFacts DEF CheckBackup, VerifyFile, VerifyLoaded, Validate, Goto, Outcome, engineVars,
     ghostVars, lockVars
<1>2. AllKept'
  BY <1>1, OwnFacts DEF AllKept
<1>3. /\ handle[p] = None
      /\ \/ pc'[p] \in {"rb-backup", "vf-loaded"}
         \/ /\ pc'[p] = "finish"
            /\ tx'[p].outcome \in {"FAIL", "DRY-RUN", "VERIFY", "PASS"}
  <2>1. CASE CheckBackup(p)
    BY <2>1, OwnFacts DEF CheckBackup, Goto, Outcome, Transactions, NoHandle
  <2>2. CASE VerifyFile(p)
    <3>1. \/ pc[p] = "vf-read" /\ pc' = [pc EXCEPT ![p] = "vf-loaded"]
          \/ Outcome(p, "vf-read", "FAIL")
      BY <2>2 DEF VerifyFile, Goto
    <3> QED
      BY <3>1, OwnFacts DEF Outcome, Transactions, NoHandle
  <2>3. CASE VerifyLoaded(p)
    <3>1. PICK o \in {"VERIFY", "FAIL"} : Outcome(p, "vf-loaded", o)
      BY <2>3 DEF VerifyLoaded
    <3> QED
      BY <3>1, OwnFacts DEF Outcome, Transactions, NoHandle
  <2>4. CASE Validate(p)
    <3>1. PICK o \in {"PASS", "FAIL"} : Outcome(p, "vd-check", o)
      BY <2>4 DEF Validate
    <3> QED
      BY <3>1, OwnFacts DEF Outcome, Transactions, NoHandle
  <2> QED
    BY <2>1, <2>2, <2>3, <2>4
<1>4. Knows(p)' /\ NoHandle(p)'
  BY <1>1, <1>3, OwnFacts
     DEF Knows, NoHandle, Active, Held, Locking, Untouched, Saved, Replacing, Replaced
<1> QED
  BY <1>1, <1>2, <1>4, OthersKnow

\* The end of a command, recorded or not.
LEMMA FinishKnows ==
    ASSUME EngineInv, FileInv, Alone, NEW p \in Procs, Finish(p) \/ FinishFails(p)
    PROVE  FileInv'
<1>1. /\ pc[p] = "finish"
      /\ UNCHANGED <<file, backups, handle, tx>>
      /\ \A q \in Procs \ {p} :
            pc'[q] = pc[q] /\ tx'[q] = tx[q] /\ handle'[q] = handle[q]
      /\ settled' = settled
         \/ /\ tx[p].outcome \in {"COMMIT", "ROLLBACK-COMMIT"}
            /\ settled' = settled \union {tx[p].source}
  BY OwnFacts DEF Finish, FinishFails, Goto, engineVars, ghostVars, lockVars
<1>2. tx[p].outcome \in {"COMMIT", "ROLLBACK-COMMIT"} => Active(p) /\ file = tx[p].source
  BY <1>1, OwnFacts DEF NoHandle, Knows, Reported
<1>3. AllKept'
  BY <1>1, <1>2, OwnFacts DEF AllKept
<1>4. \/ pc'[p] = "undo" /\ tx[p].outcome = "COMMIT"
      \/ pc'[p] = "idle" /\ handle[p] = None
      \/ pc'[p] = "unlock" /\ handle[p] # None
  BY <1>1, OwnFacts DEF Finish, FinishFails, Goto, AfterFinish
<1>5. pc'[p] = "undo" => settled' = settled
  BY <1>1, <1>4, OwnFacts DEF Finish, FinishFails, Goto, AfterFinish, ghostVars
<1>6. Knows(p)' /\ NoHandle(p)'
  BY <1>1, <1>4, <1>5, OwnFacts
     DEF Knows, NoHandle, Active, Held, Locking, Untouched, Saved, Replacing, Replaced, Reported
<1>7. UNCHANGED <<file, backups, settled>> \/ (Active(p) /\ Alone)
  BY <1>1, <1>2
<1> QED
  BY <1>1, <1>3, <1>6, <1>7, OthersKnow

\* The initial states satisfy the invariant.
LEMMA InitKnows == Init => FileInv
BY DEF Init, LockInit, FileInv, AllKept, Knows, NoHandle, Active, Held, Locking, Untouched,
       Saved, Replacing, Replaced

\* Every step keeps the invariant, as long as the commands do not overlap.
LEMMA AloneKnows == EngineInv /\ FileInv /\ Alone /\ [Next]_vars => FileInv'
<1> SUFFICES ASSUME EngineInv, FileInv, Alone, [Next]_vars PROVE FileInv'
  OBVIOUS
<1>1. ASSUME NEW p \in Procs, Start(p) PROVE FileInv'
  BY <1>1, StartKnows
<1>2. ASSUME NEW p \in Procs, Step(p) PROVE FileInv'
  BY <1>2, LockStepsKnow, ChecksKnow, BackupsKnow, InstallsKnow, VerdictsKnow,
     ReadersKnow, FinishKnows DEF Step
<1>3. ASSUME NEW p \in Procs, EditSource(p) \/ Crash(p) PROVE FileInv'
  BY <1>3, ChecksKnow, LockStepsKnow
<1>4. CASE NamedLoads \/ UNCHANGED vars
  <2>1. UNCHANGED <<file, backups, settled, pc, tx, handle>>
    BY <1>4 DEF NamedLoads, vars, engineVars, ghostVars, lockVars
  <2> QED
    BY <2>1 DEF FileInv, AllKept, Knows, NoHandle, Active, Reported
<1> QED
  BY <1>1, <1>2, <1>3, <1>4 DEF Next

\* What commands that do not overlap keep.
LEMMA AloneInvariant == Spec /\ []Alone => []FileInv
<1> QED
  BY InitKnows, AloneKnows, EngineInvariant, PTL DEF Spec

\* While no two commands that write overlap (apply() under the lock, rollback()
\* without one), nothing that was reported is lost, without exception.
THEOREM AllSurvive == Spec /\ []Alone => []AllKept
<1>1. FileInv => AllKept
  BY DEF FileInv
<1> QED
  BY <1>1, AloneInvariant, PTL

\* While it still holds the lock, a finished apply() reports what it did to the
\* file (the statuses of apply() and the restore of _rollback).
THEOREM OutcomesTrue == Spec /\ []Alone => []OutcomeMatchesFile
<1>1. FileInv => OutcomeMatchesFile
  BY DEF FileInv, Knows, Reported, OutcomeMatchesFile, Finished
<1> QED
  BY <1>1, AloneInvariant, PTL

(* The versioned file ******************************************************)

\* The initial states of the engine are initial states of the versioned file.
LEMMA InitVersions == Init => Versions!Init
BY EngineAssumption DEF Init, Versions!Init

\* A step of commands that do not overlap keeps a version, replaces a kept one,
\* reports the one that is there, or changes none of this.
LEMMA StepVersions ==
    ASSUME EngineInv, FileInv, Alone, [Next]_vars
    PROVE  [Versions!Next]_<<file, backups, settled>>
<1>1. ASSUME NEW p \in Procs, Backup(p) \/ BackupCurrent(p)
      PROVE  [Versions!Next]_<<file, backups, settled>>
  <2>1. UNCHANGED <<file, settled>>
    BY <1>1 DEF Backup, BackupCurrent, ghostVars
  <2>2. backups' = backups \/ (file # Absent /\ backups' = backups \union {file})
    BY <1>1 DEF Backup, BackupCurrent, SaveBackup
  <2> QED
    BY <2>1, <2>2 DEF Versions!Next, Versions!Keep
<1>2. ASSUME NEW p \in Procs, InstallSource(p) \/ Undo(p) \/ InstallBackup(p)
      PROVE  [Versions!Next]_<<file, backups, settled>>
  <2>1. UNCHANGED <<backups, settled>> /\ pc[p] \in {"install", "undo", "rb-install"}
    BY <1>2, OwnFacts DEF InstallSource, Undo, InstallBackup, Goto, Outcome, Raise,
       engineVars, ghostVars
  <2>2. settled \subseteq backups
    BY <2>1, OwnFacts DEF Knows, Replacing
  <2>3. file' = file \/ file' \in Content
    <3>1. tx[p].source \in Content \/ pc[p] = "undo"
      BY <2>1, OwnFacts DEF Sound, Claims, Restoring
    <3>2. pc[p] = "undo" => tx[p].backup \in Content
      BY OwnFacts DEF Sound, Claims, Committing
    <3> QED
      BY <1>2, <3>1, <3>2, OwnFacts DEF InstallSource, Undo, InstallBackup, Install, Goto,
         Outcome, Raise
  <2> QED
    BY <2>1, <2>2, <2>3 DEF Versions!Next, Versions!Replace
<1>3. ASSUME NEW p \in Procs, Finish(p)
      PROVE  [Versions!Next]_<<file, backups, settled>>
  <2>1. UNCHANGED <<file, backups>> /\ pc[p] = "finish"
    BY <1>3 DEF Finish, Goto, engineVars
  <2>2. CASE tx[p].outcome \in {"COMMIT", "ROLLBACK-COMMIT"}
    <3>1. settled' = settled \union {tx[p].source} /\ file = tx[p].source
      BY <1>3, <2>1, <2>2, OwnFacts DEF Finish, Knows, Reported
    <3>2. file # Absent
      BY <2>1, <2>2, <3>1, OwnFacts, EngineAssumption DEF Sound, Claims
    <3> QED
      BY <2>1, <3>1, <3>2 DEF Versions!Next, Versions!Report
  <2>3. CASE tx[p].outcome \notin {"COMMIT", "ROLLBACK-COMMIT"}
    BY <1>3, <2>1, <2>3 DEF Finish
  <2> QED
    BY <2>2, <2>3
<1>4. ASSUME NEW p \in Procs,
             \/ Start(p) \/ EditSource(p) \/ Crash(p)
             \/ OpenLock(p) \/ TakeLock(p) \/ LockRefused(p) \/ CheckSource(p)
             \/ Compare(p) \/ ExpectedSerial(p) \/ PostCheck(p) \/ Reload(p)
             \/ Verify(p) \/ UndoReload(p) \/ CheckBackup(p) \/ ReloadBackup(p)
             \/ VerifyFile(p) \/ VerifyLoaded(p) \/ Validate(p) \/ FinishFails(p)
             \/ Unlock(p) \/ Unlink(p)
      PROVE  UNCHANGED <<file, backups, settled>>
  BY <1>4 DEF Start, EditSource, Crash, OpenLock, TakeLock, LockRefused, CheckSource,
     Compare, ExpectedSerial, PostCheck, Reload, Verify, UndoReload, CheckBackup,
     ReloadBackup, VerifyFile, VerifyLoaded, Validate, FinishFails, Unlock, Unlink,
     engineVars, ghostVars
<1>5. CASE NamedLoads \/ UNCHANGED vars
  BY <1>5 DEF NamedLoads, vars, engineVars, ghostVars
<1> QED
  BY <1>1, <1>2, <1>3, <1>4, <1>5 DEF Next, Step

\* Commands that do not overlap implement the versioned file: no reported
\* content is replaced before it has a backup, and only the content of the file
\* is reported (_backup before every _atomic_install, _finish).
THEOREM Refinement == Spec /\ []Alone => KeepsVersions
<1> QED
  BY InitVersions, StepVersions, AloneInvariant, EngineInvariant, PTL
     DEF Spec, KeepsVersions, Versions!Spec

(* What named serves *******************************************************)

\* A step of p leaves the others what they expect.
LEMMA OthersExpect ==
    ASSUME ServeInv, FileInv, NEW p \in Procs, Expects(p)',
           \A q \in Procs \ {p} : pc'[q] = pc[q] /\ tx'[q] = tx[q],
           UNCHANGED <<file, loaded>> \/ (Active(p) /\ Alone)
    PROVE  ServeInv'
<1> SUFFICES ASSUME NEW q \in Procs, q # p PROVE Expects(q)'
  BY DEF ServeInv
<1>1. /\ Expects(q) /\ pc'[q] = pc[q] /\ tx'[q] = tx[q] /\ NoHandle(q)
  BY DEF ServeInv, FileInv
<1>2. CASE UNCHANGED <<file, loaded>>
  BY <1>1, <1>2 DEF Expects, Served
<1>3. CASE Active(p) /\ Alone
  <2>1. ~Active(q)
    BY <1>3 DEF Alone
  <2>2. /\ pc[q] \notin {"install", "postcheck", "reload", "verify", "unlock"}
        /\ pc[q] = "finish" => tx[q].outcome # "COMMIT"
    BY <1>1, <2>1 DEF Active, Held, NoHandle
  <2> QED
    BY <1>1, <2>2 DEF Expects
<1> QED
  BY <1>2, <1>3

\* A step of a command that does not edit its source keeps what is expected.
LEMMA StepExpects ==
    ASSUME EngineInv, FileInv, ServeInv, Alone, "source" \notin Faults,
           NEW p \in Procs, Start(p) \/ Step(p) \/ Crash(p)
    PROVE  ServeInv'
<1> USE EngineAssumption
<1>0. Expects(p)
  BY DEF ServeInv
<1>1. CASE \/ Start(p) \/ Crash(p) \/ OpenLock(p) \/ TakeLock(p) \/ LockRefused(p)
           \/ Unlock(p) \/ Unlink(p) \/ CheckBackup(p) \/ BackupCurrent(p)
           \/ VerifyFile(p) \/ VerifyLoaded(p) \/ Validate(p) \/ CheckSource(p)
           \/ Compare(p) \/ Backup(p)
  <2>1. UNCHANGED <<file, loaded>>
    BY <1>1 DEF Start, Crash, OpenLock, TakeLock, LockRefused, Unlock, Unlink, CheckBackup,
       BackupCurrent, VerifyFile, VerifyLoaded, Validate, CheckSource, Compare, Backup,
       engineVars
  <2>2. \A q \in Procs \ {p} : pc'[q] = pc[q] /\ tx'[q] = tx[q]
    BY <1>1, OwnFacts DEF Start, Crash, OpenLock, TakeLock, LockRefused, Unlock, Unlink,
       CheckBackup, BackupCurrent, SaveBackup, VerifyFile, VerifyLoaded, Validate,
       CheckSource, Compare, Backup, Goto, Outcome, Raise
  <2>3. /\ pc'[p] \notin {"install", "postcheck", "reload", "verify"}
        /\ pc'[p] \in {"finish", "unlock"} => tx'[p].outcome # "COMMIT"
    <3>1. CASE Start(p)
      <4>1. PICK cmd \in Commands, c \in Content \union {Absent} :
           /\ tx' = [tx EXCEPT ![p] =
                      [NoTx EXCEPT !.cmd = cmd, !.source = c, !.pre = file,
                                   !.outcome = IF ReadOnly /\ cmd \in Commits
                                               THEN "READ-ONLY" ELSE None]]
           /\ pc' = [pc EXCEPT ![p] =
                    CASE ReadOnly /\ cmd \in Commits -> "finish"
                      [] ~(ReadOnly /\ cmd \in Commits) /\ cmd \in Apply
                            -> "opening"
                      [] ~(ReadOnly /\ cmd \in Commits) /\ cmd \in Rollback
                            -> "rb-check"
                      [] ~(ReadOnly /\ cmd \in Commits) /\ cmd = "verify"
                            -> "vf-read"
                      [] ~(ReadOnly /\ cmd \in Commits) /\ cmd = "validate"
                            -> "vd-check"]
        BY <3>1 DEF Start
      <4>2. cmd \in Apply \union Rollback \union {"verify", "validate"}
        BY DEF CommandNames
      <4>3. tx'[p].outcome \in {"READ-ONLY", None}
        BY <4>1, OwnFacts DEF NoTx
      <4>4. pc'[p] \in {"finish", "opening", "rb-check", "vf-read", "vd-check"}
        BY <4>1, <4>2, OwnFacts
      <4> QED
        BY <4>3, <4>4 DEF Outcomes
    <3>2. CASE Crash(p) \/ OpenLock(p) \/ TakeLock(p) \/ LockRefused(p) \/ Unlock(p) \/ Unlink(p)
      BY <3>2, OwnFacts DEF Crash, OpenLock, TakeLock, LockRefused, Unlock, Unlink, Goto
    <3>3. CASE CheckBackup(p)
      BY <3>3, OwnFacts DEF CheckBackup, Goto, Outcome, Transactions
    <3>4. CASE BackupCurrent(p) \/ Backup(p)
      <4>1. /\ pc[p] \in {"backup", "rb-backup"}
            /\ pc'[p] \in {"expected", "rb-install", AfterFinish(p)}
            /\ pc'[p] = AfterFinish(p) => tx'[p].outcome = tx[p].outcome
            /\ pc[p] = "rb-backup" => pc'[p] # "expected"
        BY <3>4, OwnFacts DEF BackupCurrent, Backup, SaveBackup, Goto, Raise, AfterFinish
      <4>2. pc[p] = "backup" => tx[p].outcome = None
        BY OwnFacts DEF Knows, Locking, Untouched
      <4>3. pc[p] = "rb-backup" => AfterFinish(p) = "idle"
        BY OwnFacts DEF NoHandle, AfterFinish
      <4> QED
        BY <4>1, <4>2, <4>3 DEF AfterFinish, Outcomes
    <3>5. CASE VerifyFile(p)
      <4>1. \/ pc[p] = "vf-read" /\ pc' = [pc EXCEPT ![p] = "vf-loaded"]
            \/ Outcome(p, "vf-read", "FAIL")
        BY <3>5 DEF VerifyFile, Goto
      <4> QED
        BY <4>1, OwnFacts DEF Outcome, Transactions
    <3>6. CASE VerifyLoaded(p) \/ Validate(p)
      <4>1. PICK from \in Places, o \in {"VERIFY", "PASS", "FAIL"} : Outcome(p, from, o)
        BY <3>6 DEF VerifyLoaded, Validate, Places
      <4> QED
        BY <4>1, OwnFacts DEF Outcome, Transactions
    <3>7. CASE CheckSource(p)
      <4>1. \/ Outcome(p, "files", "FAIL")
            \/ Goto(p, "files", "compare") /\ UNCHANGED tx
            \/ Raise(p, "files")
        BY <3>7 DEF CheckSource
      <4>2. CASE Outcome(p, "files", "FAIL")
        BY <4>2, OwnFacts DEF Outcome, Transactions
      <4>3. CASE Goto(p, "files", "compare") /\ UNCHANGED tx
        BY <4>3, OwnFacts DEF Goto
      <4>4. CASE Raise(p, "files")
        <5>1. tx'[p].outcome = None
          BY <4>4, OwnFacts DEF Raise, Knows, Locking, Untouched
        <5> QED
          BY <4>4, <5>1, OwnFacts DEF Raise, AfterFinish, Outcomes
      <4> QED
        BY <4>1, <4>2, <4>3, <4>4
    <3>8. CASE Compare(p)
      BY <3>8, OwnFacts DEF Compare, Goto, Outcome, Transactions
    <3> QED
      BY <1>1, <3>1, <3>2, <3>3, <3>4, <3>5, <3>6, <3>7, <3>8
  <2> QED
    BY <2>1, <2>2, <2>3, OthersExpect DEF Expects
<1>2. CASE ExpectedSerial(p)
  <2>1. PICK s \in ZoneSerial(tx[p].source) :
           IF s = None
           THEN Outcome(p, "expected", "FAILED")
           ELSE /\ Goto(p, "expected", "install")
                /\ tx' = [tx EXCEPT ![p].expected = s]
    BY <1>2 DEF ExpectedSerial
  <2>2. UNCHANGED <<file, loaded>> /\ \A q \in Procs \ {p} : pc'[q] = pc[q] /\ tx'[q] = tx[q]
    BY <1>2, <2>1, OwnFacts DEF ExpectedSerial, Goto, Outcome, engineVars
  <2>3. CASE s = None
    <3>1. pc'[p] = "finish" /\ tx'[p].outcome = "FAILED"
      BY <2>1, <2>3, OwnFacts DEF Outcome, Transactions
    <3> QED
      BY <2>2, <3>1, OthersExpect DEF Expects
  <2>4. CASE s # None
    <3>1. /\ pc'[p] = "install" /\ tx'[p].expected = s /\ tx'[p].source = tx[p].source
      BY <2>1, <2>4, OwnFacts DEF Goto, Transactions
    <3>2. s = Serial[tx[p].source]
      BY <2>4 DEF ZoneSerial
    <3> QED
      BY <2>2, <2>4, <3>1, <3>2, OthersExpect DEF Expects
  <2> QED
    BY <2>3, <2>4
<1>3. CASE InstallSource(p) \/ PostCheck(p) \/ Reload(p)
  <2>1. /\ tx' = tx /\ pc[p] \in {"install", "postcheck", "reload"} /\ Active(p)
        /\ pc'[p] \in {"postcheck", "reload", "verify", "undo"}
        /\ \A q \in Procs \ {p} : pc'[q] = pc[q] /\ tx'[q] = tx[q]
    BY <1>3, OwnFacts DEF InstallSource, PostCheck, Reload, Goto, Active, Held
  <2> QED
    BY <1>0, <2>1, OthersExpect DEF Expects
<1>4. CASE Verify(p)
  <2>1. /\ pc[p] = "verify" /\ UNCHANGED <<file, loaded>>
        /\ \A q \in Procs \ {p} : pc'[q] = pc[q] /\ tx'[q] = tx[q]
    BY <1>4, OwnFacts DEF Verify, Goto, engineVars
  <2>2. PICK s \in LoadedSerial :
          IF s = tx[p].expected
          THEN pc'[p] = "finish"
          ELSE pc'[p] = "undo"
    BY <1>4, OwnFacts DEF Verify, Goto
  <2>3. /\ tx[p].expected = Serial[tx[p].source] /\ file = tx[p].source
        /\ tx[p].expected # None
    BY <1>0, <2>1, OwnFacts DEF Expects, Knows, Replaced, Sound, Claims
  <2>4. s = tx[p].expected => Served
    BY <2>3 DEF LoadedSerial, Served
  <2>5. Expects(p)'
    BY <2>1, <2>2, <2>4 DEF Expects, Served
  <2> QED
    BY <2>1, <2>5, OthersExpect
<1>5. CASE Undo(p) \/ UndoReload(p) \/ InstallBackup(p) \/ ReloadBackup(p)
  <2>1. /\ Active(p) /\ \A q \in Procs \ {p} : pc'[q] = pc[q] /\ tx'[q] = tx[q]
        /\ pc'[p] \in {"undo-reload", "rb-reload", "finish", "idle"}
    BY <1>5, OwnFacts DEF Undo, UndoReload, InstallBackup, ReloadBackup, Goto, Outcome, Raise,
       AfterFinish, NoHandle, Active, Held
  <2>2. pc'[p] = "finish" => tx'[p].outcome # "COMMIT"
    <3>1. CASE Undo(p)
      BY <3>1, OwnFacts DEF Undo, Goto, Outcome, Transactions
    <3>2. CASE UndoReload(p)
      BY <3>2, OwnFacts DEF UndoReload, Goto, Transactions
    <3>3. CASE InstallBackup(p)
      BY <3>3, OwnFacts DEF InstallBackup, Goto, Raise, AfterFinish
    <3>4. CASE ReloadBackup(p)
      BY <3>4, OwnFacts DEF ReloadBackup, Goto, Transactions
    <3> QED
      BY <1>5, <3>1, <3>2, <3>3, <3>4
  <2> QED
    BY <2>1, <2>2, OthersExpect DEF Expects
<1>6. CASE Finish(p) \/ FinishFails(p)
  <2>1. /\ UNCHANGED <<file, loaded, tx>> /\ pc[p] = "finish"
        /\ pc'[p] \in {"undo", "idle", "unlock"}
        /\ \A q \in Procs \ {p} : pc'[q] = pc[q] /\ tx'[q] = tx[q]
    BY <1>6, OwnFacts DEF Finish, FinishFails, Goto, AfterFinish, engineVars
  <2> QED
    BY <1>0, <2>1, OthersExpect DEF Expects, Served
<1> QED
  BY <1>1, <1>2, <1>3, <1>4, <1>5, <1>6 DEF Step

\* A reload under way serves the file the reporting command has installed.
LEMMA LoadsExpects ==
    ASSUME FileInv, ServeInv, NamedLoads
    PROVE  ServeInv'
<1> SUFFICES ASSUME NEW p \in Procs PROVE Expects(p)'
  BY DEF ServeInv
<1>1. /\ UNCHANGED <<file, pc, tx>>
      /\ loaded' = IF file \in Valid THEN file ELSE loaded
      /\ Expects(p) /\ Knows(p)
  BY DEF NamedLoads, ServeInv, FileInv
<1>2. file \in Valid => file # Absent
  BY EngineAssumption
<1>3. Served => Served'
  BY <1>1, <1>2 DEF Served
<1> QED
  BY <1>1, <1>3 DEF Expects

\* A COMMIT is reported only when named serves the serial of the new file, and a
\* reload still under way does not take it back (_verify_loaded_zone), as long
\* as commands do not overlap and nobody saves the source again under apply().
THEOREM CommitServes ==
    ASSUME "source" \notin Faults
    PROVE  Spec /\ []Alone => []CommitServesSerial
<1>1. Init => ServeInv
  BY DEF Init, ServeInv, Expects
<1>2. EngineInv /\ FileInv /\ ServeInv /\ Alone /\ [Next]_vars => ServeInv'
  <2> SUFFICES ASSUME EngineInv, FileInv, ServeInv, Alone, [Next]_vars PROVE ServeInv'
    OBVIOUS
  <2>1. ASSUME NEW p \in Procs, Start(p) \/ Step(p) \/ Crash(p) PROVE ServeInv'
    BY <2>1, StepExpects
  <2>2. ASSUME NEW p \in Procs, EditSource(p) PROVE FALSE
    BY <2>2 DEF EditSource
  <2>3. CASE NamedLoads
    BY <2>3, LoadsExpects
  <2>4. CASE UNCHANGED vars
    BY <2>4 DEF vars, engineVars, ServeInv, Expects, Served
  <2> QED
    BY <2>1, <2>2, <2>3, <2>4 DEF Next
<1>3. ServeInv => CommitServesSerial
  BY DEF ServeInv, Expects, Served, CommitServesSerial, Finished
<1> QED
  BY <1>1, <1>2, <1>3, AloneInvariant, EngineInvariant, PTL DEF Spec

(* The zone lock ************************************************************)

\* The places of apply() between taking the lock and giving it back.
Locked == {"files", "compare", "backup", "expected", "install", "postcheck",
           "reload", "verify", "undo", "undo-reload", "unlock"}

\* The places of the commands that take no lock.
Unlocked == {"rb-check", "rb-backup", "rb-install", "rb-reload",
             "vf-read", "vf-loaded", "vd-check"}

\* What p has of the lock at each of its places.
Keeps(p) ==
    /\ pc[p] \in Locked => p \in flocked
    /\ pc[p] = "flocking" => handle[p] # None
    /\ pc[p] = "finish" /\ handle[p] # None => p \in flocked
    /\ pc[p] = "finish" /\ tx[p].cmd \in Apply /\ tx[p].outcome # "READ-ONLY" =>
         p \in flocked
    /\ pc[p] \in Unlocked => tx[p].cmd \notin Apply
    /\ pc[p] \in {"idle", "opening", "unlink"} \union Unlocked => handle[p] = None

LockInv ==
    /\ FlockExclusive
    /\ FlockHasHandle
    /\ \A p \in Procs : Keeps(p)

\* Every open handle is of the same inode: the name of the lock file has not been
\* taken away from a command that has it open and given to another one.
SameInode ==
    \A p, q \in Procs : handle[p] # None /\ handle[q] # None => handle[p] = handle[q]

\* What is known of the lock before a step of p.
LEMMA LockFacts ==
    ASSUME EngineInv, LockInv, NEW p \in Procs
    PROVE  /\ tx \in [Procs -> Transactions] /\ tx[p] \in Transactions
           /\ pc \in [Procs -> Places] /\ pc[p] \in Places
           /\ handle \in [Procs -> Inodes \union {None}]
           /\ path \in Inodes \union {None} /\ flocked \subseteq Procs
           /\ Keeps(p) /\ Sound(p) /\ FlockExclusive /\ FlockHasHandle
BY DEF EngineInv, LockInv, TypeOK, LockTypeOK

\* A step of p keeps the invariant when it keeps flock's promises and what p has.
LEMMA OthersKeep ==
    ASSUME EngineInv, LockInv, NEW p \in Procs,
           Keeps(p)', FlockExclusive', FlockHasHandle',
           \A q \in Procs \ {p} :
              /\ pc'[q] = pc[q] /\ tx'[q] = tx[q] /\ handle'[q] = handle[q]
              /\ q \in flocked' <=> q \in flocked
    PROVE  LockInv'
<1> SUFFICES ASSUME NEW q \in Procs, q # p PROVE Keeps(q)'
  BY DEF LockInv
<1>1. /\ Keeps(q) /\ pc'[q] = pc[q] /\ tx'[q] = tx[q] /\ handle'[q] = handle[q]
      /\ (q \in flocked') <=> (q \in flocked)
  BY DEF LockInv
<1> QED
  BY <1>1 DEF Keeps

\* Nothing is locked at first.
LEMMA InitLock == Init => LockInv
BY DEF Init, LockInit, LockInv, Keeps, FlockExclusive, FlockHasHandle, Locked, Unlocked

\* A command starts without the lock.
LEMMA StartLock ==
    ASSUME EngineInv, LockInv, NEW p \in Procs, Start(p)
    PROVE  LockInv'
<1>1. /\ pc[p] = "idle" /\ handle[p] = None
      /\ UNCHANGED <<path, handle, flocked>>
      /\ \A q \in Procs \ {p} : pc'[q] = pc[q] /\ tx'[q] = tx[q]
  BY LockFacts DEF Start, lockVars, Keeps
<1>2. \/ pc'[p] = "finish" /\ tx'[p].outcome = "READ-ONLY"
      \/ pc'[p] \in Unlocked /\ tx'[p].cmd \notin Apply
      \/ pc'[p] = "opening"
  <2>1. PICK cmd \in Commands, c \in Content \union {Absent} :
           /\ tx' = [tx EXCEPT ![p] =
                      [NoTx EXCEPT !.cmd = cmd, !.source = c, !.pre = file,
                                   !.outcome = IF ReadOnly /\ cmd \in Commits
                                               THEN "READ-ONLY" ELSE None]]
           /\ pc' = [pc EXCEPT ![p] =
                    CASE ReadOnly /\ cmd \in Commits -> "finish"
                      [] ~(ReadOnly /\ cmd \in Commits) /\ cmd \in Apply
                            -> "opening"
                      [] ~(ReadOnly /\ cmd \in Commits) /\ cmd \in Rollback
                            -> "rb-check"
                      [] ~(ReadOnly /\ cmd \in Commits) /\ cmd = "verify"
                            -> "vf-read"
                      [] ~(ReadOnly /\ cmd \in Commits) /\ cmd = "validate"
                            -> "vd-check"]
    BY DEF Start
  <2>2. cmd \in Apply \union Rollback \union {"verify", "validate"}
    BY EngineAssumption DEF CommandNames
  <2>3. pc \in [Procs -> Places] /\ tx \in [Procs -> Transactions]
    BY LockFacts
  <2>4. /\ tx'[p].cmd = cmd
        /\ tx'[p].outcome = IF ReadOnly /\ cmd \in Commits THEN "READ-ONLY" ELSE None
    BY <2>1, <2>3 DEF NoTx
  <2> QED
    BY <2>1, <2>2, <2>3, <2>4 DEF Unlocked, Apply, Rollback
<1>3. Keeps(p)'
  BY <1>1, <1>2 DEF Keeps, Locked, Unlocked
<1>4. FlockExclusive' /\ FlockHasHandle'
  BY <1>1, LockFacts DEF FlockExclusive, FlockHasHandle
<1> QED
  BY <1>1, <1>3, <1>4, OthersKeep

\* ZoneLock.__enter__: the file is opened, then locked or refused.
LEMMA EnterLock ==
    ASSUME EngineInv, LockInv, NEW p \in Procs,
           OpenLock(p) \/ TakeLock(p) \/ LockRefused(p)
    PROVE  LockInv'
<1>1. CASE OpenLock(p)
  <2>1. /\ pc'[p] = "flocking" /\ handle[p] = None /\ handle'[p] \in Inodes
        /\ flocked' = flocked
        /\ \A q \in Procs \ {p} :
              pc'[q] = pc[q] /\ tx'[q] = tx[q] /\ handle'[q] = handle[q]
    BY <1>1, LockFacts DEF OpenLock, Goto, OpenLockFile, Fresh
  <2>2. p \notin flocked
    BY <2>1, LockFacts DEF FlockHasHandle
  <2>3. Keeps(p)'
    BY <2>1, NoneAssumption DEF Keeps, Locked, Unlocked
  <2>4. FlockExclusive' /\ FlockHasHandle'
    BY <2>1, <2>2, LockFacts DEF FlockExclusive, FlockHasHandle
  <2> QED
    BY <2>1, <2>3, <2>4, OthersKeep
<1>2. CASE TakeLock(p)
  <2>1. /\ pc'[p] = "files" /\ handle[p] # None /\ handle' = handle
        /\ flocked' = flocked \union {p} /\ FlockFree(p)
        /\ \A q \in Procs \ {p} : pc'[q] = pc[q] /\ tx'[q] = tx[q]
    BY <1>2, LockFacts DEF TakeLock, Goto, Flock, Keeps
  <2>2. Keeps(p)'
    BY <2>1 DEF Keeps, Locked, Unlocked
  <2>3. FlockExclusive' /\ FlockHasHandle'
    BY <2>1, LockFacts DEF FlockExclusive, FlockHasHandle, FlockFree
  <2> QED
    BY <2>1, <2>2, <2>3, OthersKeep
<1>3. CASE LockRefused(p)
  <2>1. /\ pc'[p] = "idle" /\ handle'[p] = None /\ flocked' = flocked \ {p}
        /\ \A q \in Procs \ {p} :
              pc'[q] = pc[q] /\ tx'[q] = tx[q] /\ handle'[q] = handle[q]
    BY <1>3, LockFacts DEF LockRefused, Goto, CloseLockFile
  <2>2. Keeps(p)'
    BY <2>1 DEF Keeps, Locked, Unlocked
  <2>3. FlockExclusive' /\ FlockHasHandle'
    BY <2>1, LockFacts DEF FlockExclusive, FlockHasHandle
  <2> QED
    BY <2>1, <2>2, <2>3, OthersKeep
<1> QED
  BY <1>1, <1>2, <1>3

\* ZoneLock.__exit__, and a death.
LEMMA ExitLock ==
    ASSUME EngineInv, LockInv, NEW p \in Procs, Unlock(p) \/ Unlink(p) \/ Crash(p)
    PROVE  LockInv'
<1>1. /\ pc'[p] \in {"idle", "unlink"} /\ handle'[p] = None
      /\ flocked' \subseteq flocked
      /\ \A q \in Procs \ {p} :
            /\ pc'[q] = pc[q] /\ tx'[q] = tx[q] /\ handle'[q] = handle[q]
            /\ q \in flocked' <=> q \in flocked
  <2>1. CASE Unlock(p) \/ Crash(p)
    BY <2>1, LockFacts DEF Unlock, Crash, Goto, CloseLockFile
  <2>2. CASE Unlink(p)
    BY <2>2, LockFacts DEF Unlink, Goto, UnlinkLockFile, Keeps
  <2> QED
    BY <2>1, <2>2
<1>2. p \notin flocked'
  <2>1. CASE Unlock(p) \/ Crash(p)
    BY <2>1 DEF Unlock, Crash, CloseLockFile
  <2>2. CASE Unlink(p)
    BY <2>2, LockFacts DEF Unlink, Goto, UnlinkLockFile, Keeps, FlockHasHandle
  <2> QED
    BY <2>1, <2>2
<1>3. Keeps(p)'
  BY <1>1 DEF Keeps, Locked, Unlocked
<1>4. FlockExclusive' /\ FlockHasHandle'
  BY <1>1, <1>2, LockFacts DEF FlockExclusive, FlockHasHandle
<1> QED
  BY <1>1, <1>3, <1>4, OthersKeep

\* A step that leaves the lock file alone and goes where p may be with what it has.
LEMMA StayLocked ==
    ASSUME EngineInv, LockInv, NEW p \in Procs, UNCHANGED lockVars,
           \A q \in Procs \ {p} : pc'[q] = pc[q] /\ tx'[q] = tx[q],
           Keeps(p)'
    PROVE  LockInv'
<1>1. UNCHANGED <<path, handle, flocked>>
  BY DEF lockVars
<1>2. FlockExclusive' /\ FlockHasHandle'
  BY <1>1, LockFacts DEF FlockExclusive, FlockHasHandle
<1> QED
  BY <1>1, <1>2, OthersKeep

\* The steps of apply() under the lock go on under it, to the recording of the
\* result, or by an exception to the release of the lock.
LEMMA ApplyLock ==
    ASSUME EngineInv, LockInv, NEW p \in Procs,
           \/ CheckSource(p) \/ Compare(p) \/ Backup(p) \/ ExpectedSerial(p)
           \/ InstallSource(p) \/ PostCheck(p) \/ Reload(p) \/ Verify(p)
           \/ Undo(p) \/ UndoReload(p) \/ EditSource(p)
    PROVE  LockInv'
<1>1. /\ UNCHANGED lockVars /\ UNCHANGED <<handle, flocked>>
      /\ \A q \in Procs \ {p} : pc'[q] = pc[q] /\ tx'[q] = tx[q]
  BY LockFacts DEF CheckSource, Compare, Backup, SaveBackup, ExpectedSerial, InstallSource,
     PostCheck, Reload, Verify, Undo, UndoReload, EditSource, Goto, Outcome, Raise, lockVars
<1>2. pc[p] \in Locked /\ pc'[p] \in Locked \union {"finish", "idle"}
      /\ (pc'[p] = "idle" => handle[p] = None)
  <2>1. CASE CheckSource(p) \/ Compare(p) \/ Backup(p) \/ EditSource(p)
    BY <2>1, LockFacts DEF CheckSource, Compare, Backup, SaveBackup, EditSource, Goto, Outcome,
       Raise, AfterFinish, Locked
  <2>2. CASE ExpectedSerial(p) \/ InstallSource(p) \/ PostCheck(p) \/ Reload(p)
    BY <2>2, LockFacts DEF ExpectedSerial, InstallSource, PostCheck, Reload, Goto, Outcome, Locked
  <2>3. CASE Verify(p) \/ Undo(p) \/ UndoReload(p)
    BY <2>3, LockFacts DEF Verify, Undo, UndoReload, Goto, Outcome, Locked
  <2> QED
    BY <2>1, <2>2, <2>3
<1>3. p \in flocked /\ handle[p] # None
  BY <1>2, LockFacts DEF Keeps, FlockHasHandle
<1>4. Keeps(p)'
  BY <1>1, <1>2, <1>3 DEF Keeps, Locked, Unlocked
<1> QED
  BY <1>1, <1>4, StayLocked

\* The steps of rollback(), verify() and validate() never have the lock.
LEMMA OtherLock ==
    ASSUME EngineInv, LockInv, NEW p \in Procs,
           \/ CheckBackup(p) \/ BackupCurrent(p) \/ InstallBackup(p) \/ ReloadBackup(p)
           \/ VerifyFile(p) \/ VerifyLoaded(p) \/ Validate(p)
    PROVE  LockInv'
<1>1. /\ UNCHANGED lockVars /\ UNCHANGED <<handle, flocked>>
      /\ \A q \in Procs \ {p} : pc'[q] = pc[q] /\ tx'[q] = tx[q]
  BY LockFacts DEF CheckBackup, BackupCurrent, SaveBackup, InstallBackup, ReloadBackup,
     VerifyFile, VerifyLoaded, Validate, Goto, Outcome, Raise, lockVars
<1>2. /\ pc[p] \in Unlocked /\ tx'[p].cmd = tx[p].cmd
      /\ pc'[p] \in Unlocked \union {"finish", "idle", "unlock"}
      /\ pc'[p] = "unlock" => handle[p] # None
  <2>1. CASE CheckBackup(p)
    BY <2>1, LockFacts DEF CheckBackup, Goto, Outcome, Transactions, Unlocked
  <2>2. CASE BackupCurrent(p) \/ InstallBackup(p)
    BY <2>2, LockFacts DEF BackupCurrent, SaveBackup, InstallBackup, Goto, Raise, AfterFinish,
       Transactions, Unlocked
  <2>3. CASE ReloadBackup(p)
    BY <2>3, LockFacts DEF ReloadBackup, Goto, Transactions, Unlocked
  <2>4. CASE VerifyFile(p)
    <3>1. PICK s \in ZoneSerial(file) :
             \/ Goto(p, "vf-read", "vf-loaded") /\ tx' = [tx EXCEPT ![p].expected = s]
             \/ Outcome(p, "vf-read", "FAIL")
      BY <2>4 DEF VerifyFile
    <3> QED
      BY <3>1, LockFacts DEF Goto, Outcome, Transactions, Unlocked
  <2>5. CASE VerifyLoaded(p) \/ Validate(p)
    <3>1. PICK o \in {"VERIFY", "PASS", "FAIL"} :
             Outcome(p, "vf-loaded", o) \/ Outcome(p, "vd-check", o)
      BY <2>5 DEF VerifyLoaded, Validate
    <3> QED
      BY <3>1, LockFacts DEF Outcome, Transactions, Unlocked
  <2> QED
    BY <2>1, <2>2, <2>3, <2>4, <2>5
<1>3. handle[p] = None /\ tx[p].cmd \notin Apply
  BY <1>2, LockFacts DEF Keeps
<1>4. Keeps(p)'
  BY <1>1, <1>2, <1>3 DEF Keeps, Locked, Unlocked
<1> QED
  BY <1>1, <1>4, StayLocked

\* The recording of the result, and its failure.
LEMMA FinishLock ==
    ASSUME EngineInv, LockInv, NEW p \in Procs, Finish(p) \/ FinishFails(p)
    PROVE  LockInv'
<1>1. /\ UNCHANGED lockVars /\ UNCHANGED <<handle, flocked, tx>> /\ pc[p] = "finish"
      /\ \A q \in Procs \ {p} : pc'[q] = pc[q] /\ tx'[q] = tx[q]
  BY LockFacts DEF Finish, FinishFails, Goto, lockVars
<1>2. \/ pc'[p] = "undo" /\ tx[p].outcome = "COMMIT"
      \/ pc'[p] = "idle" /\ handle[p] = None
      \/ pc'[p] = "unlock" /\ handle[p] # None
  BY <1>1, LockFacts DEF Finish, FinishFails, Goto, AfterFinish
<1>3. pc'[p] \in {"undo", "unlock"} => p \in flocked
  BY <1>1, <1>2, LockFacts DEF Keeps, Sound, Claims, Apply
<1>4. Keeps(p)'
  BY <1>1, <1>2, <1>3 DEF Keeps, Locked, Unlocked
<1> QED
  BY <1>1, <1>4, StayLocked

\* What the lock guarantees to any number of commands, stale names included.
LEMMA LockInvariant == Spec => []LockInv
<1>1. ASSUME EngineInv, LockInv, [Next]_vars PROVE LockInv'
  <2>1. ASSUME NEW p \in Procs, Start(p) PROVE LockInv'
    BY <1>1, <2>1, StartLock
  <2>2. ASSUME NEW p \in Procs, Step(p) PROVE LockInv'
    BY <1>1, <2>2, EnterLock, ApplyLock, OtherLock, FinishLock, ExitLock DEF Step
  <2>3. ASSUME NEW p \in Procs, EditSource(p) \/ Crash(p) PROVE LockInv'
    BY <1>1, <2>3, ApplyLock, ExitLock
  <2>4. CASE NamedLoads \/ UNCHANGED vars
    <3>1. UNCHANGED <<path, handle, flocked, pc, tx>>
      BY <2>4 DEF NamedLoads, vars, lockVars
    <3> QED
      BY <1>1, <3>1 DEF LockInv, Keeps, FlockExclusive, FlockHasHandle
  <2> QED
    BY <1>1, <2>1, <2>2, <2>3, <2>4 DEF Next
<1> QED
  BY <1>1, InitLock, EngineInvariant, PTL DEF Spec

\* As long as no open handle is of a lock file whose name was removed and created
\* again, the lock keeps every second apply() out of the critical section.
THEOREM Exclusion == Spec /\ []SameInode => []OneWriter
<1>1. LockInv /\ SameInode => OneWriter
  BY DEF LockInv, Keeps, FlockExclusive, FlockHasHandle, SameInode, OneWriter, InSection, Locked
<1> QED
  BY <1>1, LockInvariant, PTL

(* Two commands at once *****************************************************)

\* The one command of r has been run, or has died.
Spent(r) == ran[r] = MaxTx /\ pc[r] = "idle"

\* A running command has been counted, and an open handle is of the file that the
\* name points to unless another command has been and gone.
LinkInv ==
    \A p \in Procs :
       /\ pc[p] # "idle" => ran[p] = MaxTx
       /\ handle[p] # None => handle[p] = path \/ \E r \in Procs \ {p} : Spent(r)

\* Nobody has a handle at first.
LEMMA InitLinks == Init => LinkInv
BY DEF Init, LockInit, LinkInv

\* Two processes run one command each: the name of the lock file changes only
\* when it is free or when its remover has nothing left to do.
LEMMA StepLinks ==
    ASSUME MaxTx = 1, \A p, q, r \in Procs : p = q \/ q = r \/ p = r,
           EngineInv, LockInv, LinkInv, [Next]_vars
    PROVE  LinkInv'
<1>0. /\ ran \in [Procs -> 0..1] /\ pc \in [Procs -> Places]
      /\ handle \in [Procs -> Inodes \union {None}]
  BY DEF EngineInv, TypeOK, LockTypeOK
<1>1. ASSUME NEW p \in Procs, Start(p) PROVE LinkInv'
  <2>1. /\ pc[p] = "idle" /\ ran[p] = 0 /\ ran'[p] = 1
        /\ UNCHANGED <<path, handle>> /\ handle[p] = None
        /\ \A q \in Procs \ {p} : pc'[q] = pc[q] /\ ran'[q] = ran[q]
    BY <1>0, <1>1, LockFacts DEF Start, lockVars, Keeps
  <2> QED
    BY <2>1 DEF LinkInv, Spent
<1>2. ASSUME NEW p \in Procs, OpenLock(p) PROVE LinkInv'
  <2>1. /\ pc[p] = "opening" /\ pc'[p] = "flocking" /\ ran' = ran /\ handle'[p] = path'
        /\ path # None => path' = path
        /\ \A q \in Procs \ {p} : pc'[q] = pc[q] /\ handle'[q] = handle[q]
    BY <1>0, <1>2 DEF OpenLock, Goto, OpenLockFile, ghostVars
  <2>2. ASSUME NEW q \in Procs, q # p, handle[q] # None PROVE handle[q] = path
    <3>1. \A r \in Procs \ {q} : r = p
      BY <2>2
    <3> QED
      BY <2>1, <2>2, <3>1 DEF LinkInv, Spent
  <2> QED
    BY <2>1, <2>2 DEF LinkInv
<1>3. ASSUME NEW p \in Procs, Unlink(p) PROVE LinkInv'
  <2>1. /\ pc[p] = "unlink" /\ pc'[p] = "idle" /\ ran' = ran /\ handle' = handle
        /\ handle[p] = None
        /\ \A q \in Procs \ {p} : pc'[q] = pc[q]
    BY <1>0, <1>3, LockFacts DEF Unlink, Goto, UnlinkLockFile, ghostVars, Keeps
  <2>2. Spent(p)'
    BY <2>1 DEF LinkInv, Spent
  <2> QED
    BY <2>1, <2>2 DEF LinkInv
<1>4. ASSUME NEW p \in Procs, LockRefused(p) \/ Unlock(p) \/ Crash(p) PROVE LinkInv'
  <2>1. /\ pc[p] # "idle" /\ ran' = ran /\ path' = path /\ handle'[p] = None
        /\ \A q \in Procs \ {p} : pc'[q] = pc[q] /\ handle'[q] = handle[q]
    BY <1>0, <1>4 DEF LockRefused, Unlock, Crash, Goto, CloseLockFile, ghostVars
  <2> QED
    BY <2>1 DEF LinkInv, Spent
<1>5. ASSUME NEW p \in Procs, pc[p] # "idle", ran' = ran, UNCHANGED <<path, handle>>,
             \A q \in Procs \ {p} : pc'[q] = pc[q]
      PROVE LinkInv'
  BY <1>5 DEF LinkInv, Spent
<1>6. ASSUME NEW p \in Procs,
             \/ TakeLock(p) \/ CheckSource(p) \/ Compare(p) \/ Backup(p) \/ ExpectedSerial(p)
             \/ InstallSource(p) \/ PostCheck(p) \/ Reload(p) \/ Verify(p)
             \/ Undo(p) \/ UndoReload(p) \/ EditSource(p)
      PROVE LinkInv'
  <2>1. /\ pc[p] # "idle" /\ ran' = ran /\ UNCHANGED <<path, handle>>
        /\ \A q \in Procs \ {p} : pc'[q] = pc[q]
    <3>1. CASE TakeLock(p) \/ EditSource(p) \/ CheckSource(p) \/ Compare(p)
      BY <1>0, <3>1 DEF TakeLock, Flock, EditSource, CheckSource, Compare, Goto, Outcome,
         Raise, lockVars, ghostVars
    <3>2. CASE Backup(p) \/ ExpectedSerial(p) \/ InstallSource(p) \/ PostCheck(p)
      BY <1>0, <3>2 DEF Backup, SaveBackup, ExpectedSerial, InstallSource, PostCheck, Goto,
         Outcome, Raise, lockVars, ghostVars
    <3>3. CASE Reload(p) \/ Verify(p) \/ Undo(p) \/ UndoReload(p)
      BY ZenonT(60), <1>0, <3>3 DEF Reload, Verify, Undo, UndoReload, Goto, Outcome, lockVars, ghostVars
    <3> QED
      BY <1>6, <3>1, <3>2, <3>3
  <2> QED
    BY <1>5, <2>1
<1>7. ASSUME NEW p \in Procs,
             \/ CheckBackup(p) \/ BackupCurrent(p) \/ InstallBackup(p) \/ ReloadBackup(p)
             \/ VerifyFile(p) \/ VerifyLoaded(p) \/ Validate(p)
             \/ Finish(p) \/ FinishFails(p)
      PROVE LinkInv'
  <2>1. /\ pc[p] # "idle" /\ ran' = ran /\ UNCHANGED <<path, handle>>
        /\ \A q \in Procs \ {p} : pc'[q] = pc[q]
    <3>1. CASE CheckBackup(p) \/ BackupCurrent(p) \/ InstallBackup(p) \/ ReloadBackup(p)
      BY ZenonT(60), <1>0, <3>1 DEF CheckBackup, BackupCurrent, SaveBackup, InstallBackup, ReloadBackup,
         Goto, Outcome, Raise, lockVars, ghostVars
    <3>2. CASE VerifyFile(p) \/ VerifyLoaded(p) \/ Validate(p)
      BY <1>0, <3>2 DEF VerifyFile, VerifyLoaded, Validate, Goto, Outcome, lockVars, ghostVars
    <3>3. CASE Finish(p) \/ FinishFails(p)
      BY <1>0, <3>3 DEF Finish, FinishFails, Goto, lockVars, ghostVars
    <3> QED
      BY <1>7, <3>1, <3>2, <3>3
  <2> QED
    BY <1>5, <2>1
<1>8. CASE NamedLoads \/ UNCHANGED vars
  <2>1. UNCHANGED <<path, handle, pc, ran>>
    BY <1>8 DEF NamedLoads, vars, lockVars, ghostVars
  <2> QED
    BY <2>1 DEF LinkInv, Spent
<1> QED
  BY <1>1, <1>2, <1>3, <1>4, <1>6, <1>7, <1>8 DEF Next, Step

\* When two processes run one command each, every open handle of the lock file is
\* of the same inode, whatever fails or dies.
LEMMA PairSameInode ==
    ASSUME MaxTx = 1, \A p, q, r \in Procs : p = q \/ q = r \/ p = r
    PROVE  Spec => []SameInode
<1>1. EngineInv /\ LockInv /\ LinkInv /\ [Next]_vars => LinkInv'
  BY StepLinks
<1>2. LockInv /\ LinkInv => SameInode
  <2> SUFFICES ASSUME LockInv, LinkInv, NEW p \in Procs, NEW q \in Procs, p # q,
                      handle[p] # None, handle[q] # None
               PROVE  handle[p] = handle[q]
    BY DEF SameInode
  <2>1. pc[p] # "idle" /\ pc[q] # "idle"
    BY DEF LockInv, Keeps
  <2>2. \A r \in Procs : r = p \/ r = q
    OBVIOUS
  <2>3. handle[p] = path /\ handle[q] = path
    BY <2>1, <2>2 DEF LinkInv, Spent
  <2> QED
    BY <2>3
<1> QED
  BY <1>1, <1>2, InitLinks, LockInvariant, EngineInvariant, PTL DEF Spec

\* apply() under the zone lock excludes a second committing command: two
\* processes that run one command each are never both between the install and
\* the end of the restore (ZoneLock, transaction.py).
THEOREM OneWriterAtATime ==
    ASSUME MaxTx = 1, \A p, q, r \in Procs : p = q \/ q = r \/ p = r
    PROVE  Spec => []OneWriter
BY PairSameInode, Exclusion, PTL

\* No process runs rollback().
NoRollback == \A p \in Procs : tx[p].cmd \notin Rollback /\ pc[p] # "rb-check"

\* A command that is not rollback() never becomes one.
LEMMA StepsKeepCommand ==
    ASSUME Commands \intersect Rollback = {}, EngineInv, LockInv, NoRollback, [Next]_vars
    PROVE  NoRollback'
<1>0. tx \in [Procs -> Transactions] /\ pc \in [Procs -> Places]
  BY DEF EngineInv, TypeOK
<1>1. ASSUME NEW p \in Procs, tx'[p].cmd \notin Rollback, pc'[p] # "rb-check",
             \A q \in Procs \ {p} : pc'[q] = pc[q] /\ tx'[q] = tx[q]
      PROVE  NoRollback'
  BY <1>1 DEF NoRollback
<1>2. ASSUME NEW p \in Procs, Start(p) PROVE NoRollback'
  <2>1. PICK cmd \in Commands, c \in Content \union {Absent} :
           /\ tx' = [tx EXCEPT ![p] =
                      [NoTx EXCEPT !.cmd = cmd, !.source = c, !.pre = file,
                                   !.outcome = IF ReadOnly /\ cmd \in Commits
                                               THEN "READ-ONLY" ELSE None]]
           /\ pc' = [pc EXCEPT ![p] =
                    CASE ReadOnly /\ cmd \in Commits -> "finish"
                      [] ~(ReadOnly /\ cmd \in Commits) /\ cmd \in Apply
                            -> "opening"
                      [] ~(ReadOnly /\ cmd \in Commits) /\ cmd \in Rollback
                            -> "rb-check"
                      [] ~(ReadOnly /\ cmd \in Commits) /\ cmd = "verify"
                            -> "vf-read"
                      [] ~(ReadOnly /\ cmd \in Commits) /\ cmd = "validate"
                            -> "vd-check"]
    BY <1>2 DEF Start
  <2>2. cmd \in Apply \union {"verify", "validate"} /\ cmd \notin Rollback
    BY EngineAssumption DEF CommandNames
  <2>3. tx'[p].cmd = cmd /\ \A q \in Procs \ {p} : pc'[q] = pc[q] /\ tx'[q] = tx[q]
    BY <1>0, <2>1 DEF NoTx
  <2>4. pc'[p] # "rb-check"
    BY <1>0, <2>1, <2>2
  <2> QED
    BY <1>1, <2>2, <2>3, <2>4
<1>3. ASSUME NEW p \in Procs, UNCHANGED tx, NEW to \in Places, to # "rb-check",
             pc' = [pc EXCEPT ![p] = to]
      PROVE  NoRollback'
  BY <1>0, <1>1, <1>3 DEF NoRollback
<1>4. ASSUME NEW p \in Procs, NEW from \in Places, NEW o \in Outcomes, Outcome(p, from, o)
      PROVE  NoRollback'
  BY <1>0, <1>1, <1>4 DEF NoRollback, Outcome, Transactions
<1>5. ASSUME NEW p \in Procs, NEW from \in Places, Raise(p, from) PROVE NoRollback'
  BY <1>3, <1>5 DEF Raise, AfterFinish, Places
<1>6. ASSUME NEW p \in Procs,
             OpenLock(p) \/ LockRefused(p) \/ Unlock(p) \/ Unlink(p) \/ Crash(p)
      PROVE  NoRollback'
  BY <1>3, <1>6 DEF OpenLock, LockRefused, Unlock, Unlink, Crash, Goto, Places
<1>7. ASSUME NEW p \in Procs, TakeLock(p) \/ EditSource(p) PROVE NoRollback'
  BY <1>0, <1>1, <1>7 DEF NoRollback, TakeLock, EditSource, Goto, Transactions
<1>8. ASSUME NEW p \in Procs, CheckSource(p) \/ Compare(p) PROVE NoRollback'
  BY <1>3, <1>4, <1>5, <1>8 DEF CheckSource, Compare, Goto, Places, Outcomes
<1>9. ASSUME NEW p \in Procs, Backup(p) PROVE NoRollback'
  <2>1. CASE /\ pc' = [pc EXCEPT ![p] = "expected"]
             /\ tx' = [tx EXCEPT ![p].backup = file, ![p].pre = file]
    BY <1>0, <1>1, <2>1 DEF NoRollback, Transactions
  <2> QED
    BY <1>5, <1>9, <2>1 DEF Backup, SaveBackup, Goto, Places
<1>10. ASSUME NEW p \in Procs, ExpectedSerial(p) PROVE NoRollback'
  <2>1. PICK s \in ZoneSerial(tx[p].source) :
           \/ Outcome(p, "expected", "FAILED")
           \/ Goto(p, "expected", "install") /\ tx' = [tx EXCEPT ![p].expected = s]
    BY <1>10 DEF ExpectedSerial
  <2>2. CASE Goto(p, "expected", "install") /\ tx' = [tx EXCEPT ![p].expected = s]
    BY <1>0, <1>1, <2>2 DEF NoRollback, Goto, Transactions
  <2> QED
    BY <1>4, <2>1, <2>2 DEF Places, Outcomes
<1>11. ASSUME NEW p \in Procs, InstallSource(p) \/ PostCheck(p) \/ Reload(p) PROVE NoRollback'
  BY <1>3, <1>11 DEF InstallSource, PostCheck, Reload, Goto, Places
<1>12. ASSUME NEW p \in Procs, Verify(p) \/ UndoReload(p) PROVE NoRollback'
  <2>1. CASE Verify(p)
    BY <1>0, <1>1, <2>1 DEF NoRollback, Verify, Goto, Transactions
  <2>2. CASE UndoReload(p)
    <3>1. PICK ok \in BOOLEAN :
             /\ pc' = [pc EXCEPT ![p] = "finish"]
             /\ tx' = [tx EXCEPT ![p].rolledBack = ok,
                                 ![p].outcome = IF ok THEN "ROLLED-BACK"
                                                      ELSE "ROLLBACK-FAILED"]
      BY <2>2 DEF UndoReload, Goto
    <3> QED
      BY <1>0, <1>1, <3>1 DEF NoRollback, Transactions
  <2> QED
    BY <1>12, <2>1, <2>2
<1>13. ASSUME NEW p \in Procs, Undo(p) PROVE NoRollback'
  BY <1>3, <1>4, <1>13 DEF Undo, Goto, Places, Outcomes
<1>14. ASSUME NEW p \in Procs,
              CheckBackup(p) \/ BackupCurrent(p) \/ InstallBackup(p) \/ ReloadBackup(p)
       PROVE  NoRollback'
  <2>1. pc[p] \in {"rb-check", "rb-backup", "rb-install", "rb-reload"}
    BY <1>14 DEF CheckBackup, BackupCurrent, SaveBackup, InstallBackup, ReloadBackup, Goto,
       Outcome, Raise
  <2>2. pc[p] \notin Restoring
    BY DEF EngineInv, Sound, Claims, NoRollback, Rollback
  <2> QED
    BY <2>1, <2>2 DEF NoRollback, Restoring
<1>15. ASSUME NEW p \in Procs, VerifyFile(p) PROVE NoRollback'
  <2>1. PICK s \in ZoneSerial(file) :
           \/ Goto(p, "vf-read", "vf-loaded") /\ tx' = [tx EXCEPT ![p].expected = s]
           \/ Outcome(p, "vf-read", "FAIL")
    BY <1>15 DEF VerifyFile
  <2>2. CASE Goto(p, "vf-read", "vf-loaded") /\ tx' = [tx EXCEPT ![p].expected = s]
    BY <1>0, <1>1, <2>2 DEF NoRollback, Goto, Transactions
  <2> QED
    BY <1>4, <2>1, <2>2 DEF Places, Outcomes
<1>16. ASSUME NEW p \in Procs, VerifyLoaded(p) \/ Validate(p) PROVE NoRollback'
  <2>1. PICK o \in {"VERIFY", "PASS", "FAIL"} :
           Outcome(p, "vf-loaded", o) \/ Outcome(p, "vd-check", o)
    BY <1>16 DEF VerifyLoaded, Validate
  <2> QED
    BY <1>4, <2>1 DEF Places, Outcomes
<1>17. ASSUME NEW p \in Procs, Finish(p) \/ FinishFails(p) PROVE NoRollback'
  BY <1>3, <1>17 DEF Finish, FinishFails, Goto, AfterFinish, Places
<1>18. CASE NamedLoads \/ UNCHANGED vars
  BY <1>18 DEF NamedLoads, vars, NoRollback
<1> QED
  BY <1>2, <1>6, <1>7, <1>8, <1>9, <1>10, <1>11, <1>12, <1>13, <1>14, <1>15, <1>16, <1>17,
     <1>18 DEF Next, Step

\* When none of the commands is rollback(), which takes no lock, the commands that
\* look at the file do not overlap: the hypothesis of the theorems about the file.
THEOREM LockedAlone ==
    ASSUME Commands \intersect Rollback = {}
    PROVE  Spec /\ []SameInode => []Alone
<1>1. Init => NoRollback
  BY EngineAssumption DEF Init, NoTx, NoRollback, Rollback, CommandNames
<1>2. EngineInv /\ LockInv /\ NoRollback /\ [Next]_vars => NoRollback'
  BY StepsKeepCommand
<1>3. EngineInv /\ LockInv /\ NoRollback /\ SameInode => Alone
  <2> SUFFICES ASSUME EngineInv, LockInv, NoRollback, SameInode,
                      NEW p \in Procs, NEW q \in Procs, Active(p), Active(q)
               PROVE  p = q
    BY DEF Alone
  <2>1. ASSUME NEW r \in Procs, Active(r) PROVE r \in flocked
    <3>1. pc[r] \notin {"rb-check", "rb-backup", "rb-install", "rb-reload"}
      BY DEF EngineInv, Sound, Claims, NoRollback, Rollback, Restoring
    <3> QED
      BY <2>1, <3>1 DEF Active, Held, Locked, NoRollback, LockInv, Keeps
  <2> QED
    BY <2>1 DEF LockInv, FlockExclusive, FlockHasHandle, SameInode
<1> QED
  BY <1>1, <1>2, <1>3, LockInvariant, EngineInvariant, PTL DEF Spec

\* Two operators who run one command each, none of them rollback(): no content is
\* lost, every outcome is true and the file has its versions, whatever fails or
\* dies and however the steps of the two interleave.
THEOREM PairOfApplies ==
    ASSUME MaxTx = 1, \A p, q, r \in Procs : p = q \/ q = r \/ p = r,
           Commands \intersect Rollback = {}
    PROVE  Spec => []AllKept /\ []OutcomeMatchesFile /\ KeepsVersions
BY PairSameInode, LockedAlone, AllSurvive, OutcomesTrue, Refinement, PTL

\* One operator who runs any commands one after the other, rollback() among them,
\* and is killed at any point of them: the same holds.
THEOREM OneOperator ==
    ASSUME \A p, q \in Procs : p = q
    PROVE  Spec => []AllKept /\ []OutcomeMatchesFile /\ KeepsVersions
<1>1. Alone
  BY DEF Alone
<1> QED
  BY <1>1, AllSurvive, OutcomesTrue, Refinement, PTL
=============================================================================
