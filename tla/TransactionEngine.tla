------------------------- MODULE TransactionEngine -------------------------
(***************************************************************************)
(* TransactionEngine (src/zonectl/core/transaction.py) for one zone: the   *)
(* commands apply, rollback, verify and validate run by concurrent zctl    *)
(* processes against the active zone file, the backup directory, the       *)
(* transaction manifests and the named daemon.                             *)
(*                                                                         *)
(* Zone files are abstracted to members of Content; what named-checkzone   *)
(* says of one is membership in Valid, its SOA serial is Serial[c]. Every  *)
(* external command may also fail or time out.                             *)
(***************************************************************************)
EXTENDS LockFile

CONSTANTS
    Content,     \* zone file contents
    Valid,       \* those named-checkzone accepts
    Serial,      \* Serial[c]: SOA serial of content c
    Absent,      \* "no such file"
    Commands,    \* commands the operators may run
    ReadOnly,    \* read_only in the [toolkit] configuration
    Faults,      \* what may go wrong: see FaultKinds
    MaxTx        \* bound: commands one process runs in a behaviour

\* command: a subprocess fails or times out;  io: a file operation raises;
\* finish: manifest or audit cannot be written;  crash: the process dies;
\* source: the operator rewrites the source file while apply() is running.
FaultKinds == {"command", "io", "finish", "crash", "source"}

Apply == {"apply", "apply-commit"}
Rollback == {"rollback", "rollback-commit"}
CommandNames == Apply \union Rollback \union {"verify", "validate"}
Commits == {"apply-commit", "rollback-commit"}

Outcomes == {"PASS", "VERIFY", "FAIL", "FAILED", "READ-ONLY", "NO-CHANGE",
             "DRY-RUN", "COMMIT", "ROLLED-BACK", "ROLLBACK-FAILED",
             "ROLLBACK-COMMIT"}

ASSUME EngineAssumption ==
    /\ Valid \subseteq Content
    /\ Serial \in [Content -> Nat]
    /\ Absent \notin Content
    /\ None \notin Content \union {Absent} \union Outcomes \union CommandNames
    /\ Commands \subseteq CommandNames
    /\ ReadOnly \in BOOLEAN
    /\ Faults \subseteq FaultKinds
    /\ MaxTx \in Nat

VARIABLES
    file,       \* content of the active zone file, or Absent
    loaded,     \* content named serves, or Absent
    queued,     \* a reload named has accepted and not yet carried out
    backups,    \* contents stored in the backup directory
    pc,         \* pc[p]: next step of the command p runs
    tx,         \* tx[p]: local state of that command
    manifest,   \* manifest[p]: last manifest written by p's command
    audit,      \* audit[p]: last audit v1 record of p's command
    ran,        \* ran[p]: commands started by p
    settled,    \* history: contents the engine reported as the zone's content
    disturbed,  \* history: commands whose file another one has replaced since
                \* they started or copied it
    overtaken   \* history: contents such a command has then replaced

engineVars == <<file, loaded, queued, backups>>
resultVars == <<manifest, audit>>
ghostVars == <<ran, settled, disturbed, overtaken>>
vars == <<lockVars, engineVars, pc, tx, resultVars, ghostVars>>

Places == {"idle", "opening", "flocking", "files", "compare", "backup",
           "expected", "install", "postcheck", "reload", "verify", "undo",
           "undo-reload", "finish", "unlock", "unlink",
           "rb-check", "rb-backup", "rb-install", "rb-reload",
           "vf-read", "vf-loaded", "vd-check"}

NoTx == [cmd |-> None, source |-> None, backup |-> None, expected |-> None,
         committed |-> FALSE, rolledBack |-> FALSE, outcome |-> None,
         pre |-> None]

NoManifest == [outcome |-> None, committed |-> FALSE, rolledBack |-> FALSE]

Transactions ==
    [cmd : CommandNames \union {None},
     source : Content \union {Absent, None},
     backup : Content \union {None},
     expected : Nat \union {None},
     committed : BOOLEAN,
     rolledBack : BOOLEAN,
     outcome : Outcomes \union {None},
     pre : Content \union {Absent, None}]

Manifests == [outcome : Outcomes \union {None},
              committed : BOOLEAN, rolledBack : BOOLEAN]

TypeOK ==
    /\ LockTypeOK
    /\ file \in Content \union {Absent}
    /\ loaded \in Content \union {Absent}
    /\ queued \in BOOLEAN
    /\ backups \in SUBSET Content
    /\ pc \in [Procs -> Places]
    /\ tx \in [Procs -> Transactions]
    /\ manifest \in [Procs -> Manifests]
    /\ audit \in [Procs -> Outcomes \union {"START", None}]
    /\ ran \in [Procs -> 0..MaxTx]
    /\ settled \in SUBSET Content
    /\ disturbed \in SUBSET Procs
    /\ overtaken \in SUBSET Content

Init ==
    /\ LockInit
    /\ file \in Valid \union {Absent}
    /\ loaded = file
    /\ queued = FALSE
    /\ backups = {}
    /\ pc = [p \in Procs |-> "idle"]
    /\ tx = [p \in Procs |-> NoTx]
    /\ manifest = [p \in Procs |-> NoManifest]
    /\ audit = [p \in Procs |-> None]
    /\ ran = [p \in Procs |-> 0]
    /\ settled = {file} \ {Absent}
    /\ disturbed = {}
    /\ overtaken = {}

(* External commands *******************************************************)

Goto(p, from, to) ==
    /\ pc[p] = from
    /\ pc' = [pc EXCEPT ![p] = to]

\* A subprocess that would succeed may still fail or time out (runner.run).
Succeeds(would) == IF "command" \in Faults THEN {would, FALSE} ELSE {would}

CheckZone(c) == Succeeds(c \in Valid)
CheckConf == Succeeds(TRUE)

\* rndc reload: named reads the file at once or queues the reload; a timeout
\* may be reported although named accepted the request. An invalid file is
\* not loaded.
RndcReload(ok) ==
    \/ /\ file \in Valid
       /\ ok \/ "command" \in Faults
       /\ loaded' = file
       /\ queued' = FALSE
    \/ /\ ok \/ "command" \in Faults
       /\ queued' = TRUE
       /\ UNCHANGED loaded
    \/ /\ ~ok
       /\ file \notin Valid \/ "command" \in Faults
       /\ UNCHANGED <<loaded, queued>>

\* named carries out a queued reload with the file as it is then.
NamedLoads ==
    /\ queued
    /\ queued' = FALSE
    /\ loaded' = IF file \in Valid THEN file ELSE loaded
    /\ UNCHANGED <<lockVars, file, backups, pc, tx, resultVars, ghostVars>>

\* _serial / _loaded_serial: the serial named reports, None when it cannot.
LoadedSerial ==
    {IF loaded = Absent THEN None ELSE Serial[loaded]}
        \union (IF "command" \in Faults THEN {None} ELSE {})

\* _zone_serial: "loaded serial" printed by named-checkzone for content c.
ZoneSerial(c) ==
    (IF c \in Valid THEN {Serial[c]} ELSE {None})
        \union (IF "command" \in Faults THEN {None} ELSE {})

\* _atomic_install: the name is replaced in one step or not at all; an error
\* may be raised before the replace, or after it by the directory fsync.
\* A replacement disturbs every other command; what a disturbed command
\* replaces is overtaken.
Install(p, c, ok) ==
    /\ \/ ok /\ file' = c
       \/ ~ok /\ file # Absent /\ "io" \in Faults /\ file' \in {file, c}
       \/ ~ok /\ file = Absent /\ file' = file
    /\ disturbed' = IF ok \/ file' # file
                    THEN disturbed \union (Procs \ {p}) ELSE disturbed
    /\ overtaken' = IF p \in disturbed
                    THEN overtaken \union ({file} \ {Absent, file'})
                    ELSE overtaken

(* Start, finish, crash ****************************************************)

\* The START record is written before any gate; a read-only
\* configuration then refuses the two committing commands.
Start(p) ==
    /\ pc[p] = "idle"
    /\ ran[p] < MaxTx
    /\ \E cmd \in Commands, c \in Content \union {Absent} :
          LET refused == ReadOnly /\ cmd \in Commits
          IN /\ cmd \in Rollback => c \in backups \union {Absent}
             /\ cmd = "verify" => c = Absent
             /\ tx' = [tx EXCEPT ![p] =
                         [NoTx EXCEPT !.cmd = cmd, !.source = c, !.pre = file,
                             !.outcome = IF refused THEN "READ-ONLY" ELSE None]]
             /\ pc' = [pc EXCEPT ![p] =
                         CASE refused -> "finish"
                           [] ~refused /\ cmd \in Apply -> "opening"
                           [] ~refused /\ cmd \in Rollback -> "rb-check"
                           [] ~refused /\ cmd = "verify" -> "vf-read"
                           [] ~refused /\ cmd = "validate" -> "vd-check"]
    /\ audit' = [audit EXCEPT ![p] = "START"]
    /\ manifest' = [manifest EXCEPT ![p] = NoManifest]
    /\ ran' = [ran EXCEPT ![p] = @ + 1]
    /\ disturbed' = disturbed \ {p}
    /\ UNCHANGED <<lockVars, engineVars, settled, overtaken>>

\* _finish: result.status, manifest, audit log, audit v1, then return.
Outcome(p, from, o) ==
    /\ pc[p] = from
    /\ tx' = [tx EXCEPT ![p].outcome = o]
    /\ pc' = [pc EXCEPT ![p] = "finish"]

\* mutant: a return inside the with block that skips ZoneLock.__exit__
AfterFinish_NoExit(p) == IF handle[p] = None THEN "unlock" ELSE "idle"

AfterFinish(p) == IF handle[p] # None THEN "unlock" ELSE "idle"

Record(p) == [outcome |-> tx[p].outcome, committed |-> tx[p].committed,
              rolledBack |-> tx[p].rolledBack]

\* An exception outside apply()'s try block: ZoneLock.__exit__ runs, no
\* manifest and no RESULT record are written.
Raise(p, from) ==
    /\ pc[p] = from
    /\ pc' = [pc EXCEPT ![p] = AfterFinish(p)]
    /\ UNCHANGED tx

Finish(p) ==
    /\ Goto(p, "finish", AfterFinish(p))
    /\ manifest' = [manifest EXCEPT ![p] = Record(p)]
    /\ audit' = [audit EXCEPT ![p] = tx[p].outcome]
    /\ settled' = IF tx[p].outcome \in {"COMMIT", "ROLLBACK-COMMIT"}
                  THEN settled \union {tx[p].source}
                  ELSE settled
    /\ UNCHANGED <<lockVars, engineVars, tx, ran, disturbed, overtaken>>

\* The manifest or one of the audit writes raises. Inside apply()'s try block
\* (the COMMIT outcome) the except branch rolls the zone back; elsewhere the
\* exception leaves the command.
FinishFails(p) ==
    /\ "finish" \in Faults
    /\ pc[p] = "finish"
    /\ \E saved, recorded \in BOOLEAN :
          /\ recorded => saved
          /\ manifest' = IF saved THEN [manifest EXCEPT ![p] = Record(p)]
                                  ELSE manifest
          /\ audit' = IF recorded THEN [audit EXCEPT ![p] = tx[p].outcome]
                                  ELSE audit
    /\ IF tx[p].outcome = "COMMIT"
       THEN pc' = [pc EXCEPT ![p] = "undo"]
       ELSE pc' = [pc EXCEPT ![p] = AfterFinish(p)]
    /\ UNCHANGED <<lockVars, engineVars, tx, ghostVars>>

Crash(p) ==
    /\ "crash" \in Faults
    /\ pc[p] # "idle"
    /\ pc' = [pc EXCEPT ![p] = "idle"]
    /\ CloseLockFile(p)
    /\ UNCHANGED <<engineVars, tx, resultVars, ghostVars>>

\* The operator saves the source file again while apply() is reading it.
EditSource(p) ==
    /\ "source" \in Faults
    /\ pc[p] \in {"files", "compare", "backup", "expected", "install"}
    /\ \E c \in Content : tx' = [tx EXCEPT ![p].source = c]
    /\ UNCHANGED <<lockVars, engineVars, pc, resultVars, ghostVars>>

(* apply() *****************************************************************)

OpenLock(p) ==
    /\ Goto(p, "opening", "flocking")
    /\ OpenLockFile(p)
    /\ UNCHANGED <<engineVars, tx, resultVars, ghostVars>>

TakeLock(p) ==
    /\ Goto(p, "flocking", "files")
    /\ Flock(p)
    /\ tx' = [tx EXCEPT ![p].pre = file]
    /\ UNCHANGED <<engineVars, resultVars, ghostVars>>

\* BlockingIOError: close the handle and raise RuntimeError.
LockRefused(p) ==
    /\ Goto(p, "flocking", "idle")
    /\ ~FlockFree(p)
    /\ CloseLockFile(p)
    /\ UNCHANGED <<engineVars, tx, resultVars, ghostVars>>

\* Both files exist and are not the same file; the source and the active
\* configuration are valid. The log entry written first may fail.
CheckSource(p) ==
    /\ \/ /\ \/ tx[p].source = Absent
             \/ file = Absent
             \/ tx[p].source = file          \* one path given for both
             \/ FALSE \in CheckZone(tx[p].source)
             \/ FALSE \in CheckConf
          /\ Outcome(p, "files", "FAIL")
       \/ /\ tx[p].source # Absent /\ file # Absent
          /\ TRUE \in CheckZone(tx[p].source)
          /\ TRUE \in CheckConf
          /\ Goto(p, "files", "compare")
          /\ UNCHANGED tx
       \/ "io" \in Faults /\ Raise(p, "files")
    /\ UNCHANGED <<lockVars, engineVars, resultVars, ghostVars>>

\* mutant: the dry-run return is missing
Compare_NoDryRun(p) ==
    /\ Goto(p, "compare", "backup")
    /\ tx[p].source # file
    /\ UNCHANGED <<lockVars, engineVars, tx, resultVars, ghostVars>>

Compare(p) ==
    /\ \/ tx[p].source = file /\ Outcome(p, "compare", "NO-CHANGE")
       \/ /\ tx[p].source # file
          /\ tx[p].cmd = "apply"
          /\ Outcome(p, "compare", "DRY-RUN")
       \/ /\ tx[p].source # file
          /\ tx[p].cmd = "apply-commit"
          /\ Goto(p, "compare", "backup")
          /\ UNCHANGED tx
    /\ UNCHANGED <<lockVars, engineVars, resultVars, ghostVars>>

\* _backup: copy the active file into the backup directory. A copy of a
\* missing file raises, and so may the copy or its metadata file.
SaveBackup(p, from, to) ==
    \/ /\ file # Absent
       /\ Goto(p, from, to)
       /\ backups' = backups \union {file}
       /\ tx' = [tx EXCEPT ![p].backup = file, ![p].pre = file]
       /\ disturbed' = disturbed \ {p}
    \/ /\ file = Absent \/ "io" \in Faults
       /\ Raise(p, from)
       /\ backups' \in {backups, backups \union ({file} \ {Absent})}
       /\ UNCHANGED disturbed

\* mutant: the path of the backup is computed but nothing is copied
Backup_NotCopied(p) ==
    /\ Goto(p, "backup", "expected")
    /\ tx' = [tx EXCEPT ![p].backup = file]
    /\ UNCHANGED <<lockVars, engineVars, resultVars, ghostVars>>

Backup(p) ==
    /\ SaveBackup(p, "backup", "expected")
    /\ UNCHANGED <<lockVars, file, loaded, queued, resultVars, ran, settled,
                   overtaken>>

ExpectedSerial(p) ==
    /\ \E s \in ZoneSerial(tx[p].source) :
          IF s = None
          THEN Outcome(p, "expected", "FAILED")
          ELSE /\ Goto(p, "expected", "install")
               /\ tx' = [tx EXCEPT ![p].expected = s]
    /\ UNCHANGED <<lockVars, engineVars, resultVars, ghostVars>>

InstallSource(p) ==
    /\ \E ok \in BOOLEAN :
          /\ Install(p, tx[p].source, ok)
          /\ Goto(p, "install", IF ok THEN "postcheck" ELSE "undo")
    /\ UNCHANGED <<lockVars, loaded, queued, backups, tx, resultVars, ran, settled>>

PostCheck(p) ==
    /\ \E zone \in CheckZone(file), conf \in CheckConf :
          Goto(p, "postcheck", IF zone /\ conf THEN "reload" ELSE "undo")
    /\ UNCHANGED <<lockVars, engineVars, tx, resultVars, ghostVars>>

Reload(p) ==
    /\ \E ok \in BOOLEAN :
          /\ RndcReload(ok)
          /\ Goto(p, "reload", IF ok THEN "verify" ELSE "undo")
    /\ UNCHANGED <<lockVars, file, backups, tx, resultVars, ghostVars>>

\* mutant: any loaded serial will do
Verify_AnySerial(p) ==
    /\ \E s \in LoadedSerial :
          /\ s # None
          /\ Goto(p, "verify", "finish")
          /\ tx' = [tx EXCEPT ![p].committed = TRUE, ![p].outcome = "COMMIT"]
    /\ UNCHANGED <<lockVars, engineVars, resultVars, ghostVars>>

Verify(p) ==
    /\ \E s \in LoadedSerial :
          IF s = tx[p].expected
          THEN /\ Goto(p, "verify", "finish")
               /\ tx' = [tx EXCEPT ![p].committed = TRUE,
                                   ![p].outcome = "COMMIT"]
          ELSE Goto(p, "verify", "undo") /\ UNCHANGED tx
    /\ UNCHANGED <<lockVars, engineVars, resultVars, ghostVars>>

\* mutant: the rollback reloads without putting the backup back
Undo_NoRestore(p) ==
    /\ Goto(p, "undo", "undo-reload")
    /\ UNCHANGED <<lockVars, engineVars, tx, resultVars, ghostVars>>

\* except branch, _rollback: reinstall the backup, then reload the zone.
Undo(p) ==
    /\ \E ok \in BOOLEAN :
          /\ Install(p, tx[p].backup, ok)
          /\ IF ok THEN Goto(p, "undo", "undo-reload") /\ UNCHANGED tx
                   ELSE Outcome(p, "undo", "ROLLBACK-FAILED")
    /\ UNCHANGED <<lockVars, loaded, queued, backups, resultVars, ran, settled>>

\* mutant: the rollback restores the file and does not reload
UndoReload_Skipped(p) ==
    /\ Goto(p, "undo-reload", "finish")
    /\ tx' = [tx EXCEPT ![p].rolledBack = TRUE, ![p].outcome = "ROLLED-BACK"]
    /\ UNCHANGED <<lockVars, engineVars, resultVars, ghostVars>>

UndoReload(p) ==
    /\ \E ok \in BOOLEAN :
          /\ RndcReload(ok)
          /\ Goto(p, "undo-reload", "finish")
          /\ tx' = [tx EXCEPT ![p].rolledBack = ok,
                              ![p].outcome = IF ok THEN "ROLLED-BACK"
                                                   ELSE "ROLLBACK-FAILED"]
    /\ UNCHANGED <<lockVars, file, backups, resultVars, ghostVars>>

\* ZoneLock.__exit__: unlock and close first, remove the name afterwards.
Unlock(p) ==
    /\ Goto(p, "unlock", "unlink")
    /\ CloseLockFile(p)
    /\ UNCHANGED <<engineVars, tx, resultVars, ghostVars>>

Unlink(p) ==
    /\ Goto(p, "unlink", "idle")
    /\ UnlinkLockFile
    /\ UNCHANGED <<engineVars, tx, resultVars, ghostVars>>

(* rollback(): takes no lock ***********************************************)

CheckBackup(p) ==
    /\ \/ tx[p].source = Absent /\ Outcome(p, "rb-check", "FAIL")
       \/ /\ tx[p].source # Absent
          /\ tx[p].cmd = "rollback"
          /\ Outcome(p, "rb-check", "DRY-RUN")
       \/ /\ tx[p].source # Absent
          /\ tx[p].cmd = "rollback-commit"
          /\ \E ok \in CheckZone(tx[p].source) :
                IF ok THEN Goto(p, "rb-check", "rb-backup") /\ UNCHANGED tx
                      ELSE Outcome(p, "rb-check", "FAIL")
    /\ UNCHANGED <<lockVars, engineVars, resultVars, ghostVars>>

\* mutant: no pre-rollback copy of the current file
BackupCurrent_Skipped(p) ==
    /\ Goto(p, "rb-backup", "rb-install")
    /\ UNCHANGED <<lockVars, engineVars, tx, resultVars, ghostVars>>

BackupCurrent(p) ==
    /\ SaveBackup(p, "rb-backup", "rb-install")
    /\ UNCHANGED <<lockVars, file, loaded, queued, resultVars, ran, settled,
                   overtaken>>

\* No try block here: a failing install leaves the command.
InstallBackup(p) ==
    /\ \E ok \in BOOLEAN :
          /\ Install(p, tx[p].source, ok)
          /\ IF ok THEN Goto(p, "rb-install", "rb-reload") /\ UNCHANGED tx
                   ELSE Raise(p, "rb-install")
    /\ UNCHANGED <<lockVars, loaded, queued, backups, resultVars, ran, settled>>

ReloadBackup(p) ==
    /\ \E ok \in BOOLEAN :
          /\ RndcReload(ok)
          /\ Goto(p, "rb-reload", "finish")
          /\ tx' = [tx EXCEPT ![p].committed = ok,
                              ![p].outcome = IF ok THEN "ROLLBACK-COMMIT"
                                                   ELSE "FAIL"]
    /\ UNCHANGED <<lockVars, file, backups, resultVars, ghostVars>>

(* verify() and validate(): read only **************************************)

VerifyFile(p) ==
    /\ \E zone \in CheckZone(file), conf \in CheckConf, s \in ZoneSerial(file) :
          IF zone /\ conf /\ s # None
          THEN /\ Goto(p, "vf-read", "vf-loaded")
               /\ tx' = [tx EXCEPT ![p].expected = s]
          ELSE Outcome(p, "vf-read", "FAIL")
    /\ UNCHANGED <<lockVars, engineVars, resultVars, ghostVars>>

VerifyLoaded(p) ==
    /\ \E s \in LoadedSerial :
          Outcome(p, "vf-loaded",
                  IF s = tx[p].expected THEN "VERIFY" ELSE "FAIL")
    /\ UNCHANGED <<lockVars, engineVars, resultVars, ghostVars>>

Validate(p) ==
    /\ \E zone \in CheckZone(tx[p].source), conf \in CheckConf :
          Outcome(p, "vd-check", IF zone /\ conf THEN "PASS" ELSE "FAIL")
    /\ UNCHANGED <<lockVars, engineVars, resultVars, ghostVars>>

(* The specification *******************************************************)

\* The steps a running command takes by itself.
Step(p) ==
    \/ OpenLock(p) \/ TakeLock(p) \/ LockRefused(p)
    \/ CheckSource(p) \/ Compare(p) \/ Backup(p) \/ ExpectedSerial(p)
    \/ InstallSource(p) \/ PostCheck(p) \/ Reload(p) \/ Verify(p)
    \/ Undo(p) \/ UndoReload(p)
    \/ CheckBackup(p) \/ BackupCurrent(p) \/ InstallBackup(p) \/ ReloadBackup(p)
    \/ VerifyFile(p) \/ VerifyLoaded(p) \/ Validate(p)
    \/ Finish(p) \/ FinishFails(p)
    \/ Unlock(p) \/ Unlink(p)

Next ==
    \/ \E p \in Procs : Start(p) \/ Step(p) \/ EditSource(p) \/ Crash(p)
    \/ NamedLoads

Spec == Init /\ [][Next]_vars

\* Every subprocess has a timeout, so a running command reaches its next step;
\* named carries out the reloads it accepts.
Fairness == WF_vars(NamedLoads) /\ \A p \in Procs : WF_vars(Step(p))

FairSpec == Spec /\ Fairness

(* Properties **************************************************************)

\* While it still holds the lock, a finished apply() reports what it did to
\* the active file: COMMIT has installed the source and nothing but a valid
\* one, ROLLED-BACK has put the former file back, and every other outcome
\* but ROLLBACK-FAILED has left it alone (apply(), lines 409-602).
Finished(p) == pc[p] = "unlock" /\ tx[p].outcome # None

OutcomeMatchesFile ==
    \A p \in Procs :
        Finished(p) =>
            CASE tx[p].outcome = "COMMIT" ->
                    file = tx[p].source /\ file \in Valid
              [] tx[p].outcome = "ROLLBACK-FAILED" ->
                    file \in {tx[p].pre, tx[p].source}
              [] OTHER -> file = tx[p].pre

\* A COMMIT is reported only when named serves the serial of the new file,
\* and a reload still under way does not take it back (_verify_loaded_zone).
CommitServesSerial ==
    \A p \in Procs :
        Finished(p) /\ tx[p].outcome = "COMMIT" =>
            /\ loaded # Absent
            /\ Serial[loaded] = Serial[file]

\* Whatever the engine has reported as the zone's content, and the content it
\* found at first, is still the active file or in a backup, through failures,
\* deaths and other commands, rollback() among them (_backup before every
\* _atomic_install). The exception is a content that a command replaced although
\* another one had replaced the file since it made its backup: rollback() takes no
\* lock, so apply() and rollback() may write between the two.
NothingLost == \A c \in settled \ overtaken : c = file \/ c \in backups

\* The active file only changes in a step of a committing command that has
\* saved a backup, and never when the configuration is read-only: dry runs,
\* verify and validate do not write (apply(), rollback(), read_only gates).
WritesAreGuarded ==
    [][file' # file =>
         /\ ~ReadOnly
         /\ \E p \in Procs :
               /\ pc'[p] # pc[p]
               /\ tx[p].cmd \in Commits
               /\ tx[p].backup \in backups]_vars

\* If no command ever ends as ROLLBACK-FAILED, named ends up serving the
\* active file: a failed apply() does not leave a file on
\* disk that the daemon has not read (_rollback reloads after the restore).
NoRollbackFailed == \A p \in Procs : tx[p].outcome # "ROLLBACK-FAILED"

Converges == []NoRollbackFailed => <>[](loaded = file)

\* Every command that starts comes to an end, and gives the zone lock back.
CommandsEnd ==
    \A p \in Procs : (pc[p] # "idle") ~> (pc[p] = "idle" /\ p \notin flocked)

\* A second apply() is refused while one is between the first and the last step
\* that may write ("Strefa jest już objęta inną transakcją", ZoneLock.__enter__).
\* Two processes of one command each keep this (OneWriterAtATime). With more it
\* is false: ZoneLock.__exit__ unlocks the file before it removes the name, so one
\* process may lock the old file and another a new one.
InSection(p) == pc[p] \in {"install", "postcheck", "reload", "verify", "undo",
                           "undo-reload"}

OneWriter == \A p, q \in Procs : InSection(p) /\ InSection(q) => p = q

\* The engine implements the versioned file: no reported zone content is
\* replaced before it has a backup, and only the active content is reported.
Versions == INSTANCE VersionedFile WITH Version <- Content

KeepsVersions == Versions!Spec
=============================================================================
