# A TLA+ model of zonectl

zonectl (`src/src/zonectl`) manages DNS zones of a BIND server: it edits zone
files, applies them in transactions with backup and rollback, creates, disables,
restores and quarantines zones, and drives `named` through `rndc`. This
directory holds TLA+ modules for the parts of it where the order of steps,
failures, crashes or concurrent processes decide whether it is right, TLC
configurations that check them on small instances, and proofs checked by TLAPS.

zonectl has no server. Every invocation (`zctl`, or the curses editor) is a
process of its own, so all the concurrency is between processes of one or more
operators, `named`, and whoever edits files by hand. The shared state is files:
zone files, the managed index and its declarations, the archive and quarantine
directories, backups, manifests, the audit log, and two kinds of lock file.

## Inventory

Paths are under `src/src/zonectl/core/` unless they start with another directory.

| Part | State | Operations | What is hard |
|---|---|---|---|
| Editing-session lock, `edit_lock.py` | lock file, its metadata, `flock` | `acquire`, `release` | removing the name of a lock file others have open; a dead holder; metadata read without the lock |
| Transaction engine, `transaction.py`, `runner.py` | active zone file, backups, manifests, what `named` serves, zone lock | `apply`, `rollback`, `verify`, `validate`, their dry runs | replace-then-verify with rollback; commands that fail or time out after they took effect; a report that cannot be written; two commands on one zone |
| Zone lifecycle, `zone_create_transaction.py`, `zone_disable_transaction.py`, `zone_restore_transaction.py`, `zone_quarantine.py`, `zone_quarantine_restore.py` | zone file, declaration, archive, package, shared index, `groups.yaml` | create, disable, restore, quarantine, quarantine-restore | order of writes and unlinks; partial failure and partial rollback; no lock at all around a shared index |
| Creation planner, `zone_lifecycle.py` | none | `plan_create` | the plan is stale when it is applied |
| Quarantine purge and retention, `zone_quarantine_purge.py`, `zone_quarantine_retention.py` | package, staging, recovery archive, manifest | purge, retention report | an irreversible step in the middle; a way back that ends when the recovery archive is made |
| Audit v1, `audit_store.py`, `audit_query.py`, `transaction_audit_adapter.py`, `family_audit_adapter.py` | JSONL registry, its lock | append START and RESULT, retention | torn records, a lone START, retention that drops the newest RESULT |
| Editing one zone, `zone_edit_session.py`, `zone_model.py`, `zone_document*.py` | document, undo history, pending changes, candidate | add, edit, delete, undo, preview, save | a document older than the file it replaces; a candidate that must be what the screen shows |
| Editing several zones, `multi_zone_session.py`, `bulk_operations.py` | several sessions and locks | open, save_all, bulk change | zones one after another, each of which may fail |
| Zone text, `zone_file_parser.py`, `zone_parser.py`, `zone_writer.py`, `record_validation.py`, `record_filter.py` | none | parse, render, validate, filter | text conversion; which issues are errors |
| SOA serial, `soa_serial.py` | none | successor of a serial | day rollover, 32 bit limit |
| DNSSEC of one zone, `dnssec_enable*.py`, `dnssec_confirm_ds.py`, `dnssec_withdrawal*.py`, `dnssec_disable*.py`, `dnssec_finalize_serial.py` | declaration, zone file, keys and their KASP state, signed copy, DS at the parent, caches | enable, confirm-ds, withdrawal-confirm, insecure, finalize, prepared serial | gates on outside state that has moved when it is used; no lock; a serial that falls when signing ends |
| DNSSEC policy migration, `dnssec_policy_migration*.py` | state file, declaration, keys, DS | start, check, advance, finalize, rollback | resume after a crash; a point of no return that depends on what resolvers showed |
| BIND configuration, `bind_acl_*.py`, `bind_secondary_*.py`, `bind_zone_secondary_*.py`, `managed_zone_*.py` | configuration files, zone data | change a list, a group, a zone's groups; migrate, relocate | replace, check, reload, roll back; a plan that read files it does not compare |
| RPZ, `rpz_managed_install.py`, `rpz_external_migration_transaction.py` | files, units, timers, update jobs | install, migrate | two timers, jobs that outlive the command that started them |
| Inspection, `bind*.py`, `discovery.py`, `doctor.py`, `zone_inventory.py` and the DNSSEC reports | none | read only | parsing |
| Command line, `src/src/zonectl/cli.py` | none | call the core | plan shown, applied later |
| Curses interface, `src/src/zonectl/ui/` | list, statuses, refresh thread, sessions | screens | results that arrive between two keys; locks and sessions on every way out of a screen |

How they interact: the editor takes the session lock, edits a `ZoneDocument`,
writes a candidate file and calls `TransactionEngine.apply`, which takes the
zone lock. `zctl zone apply` and `zctl zone rollback` call the engine without
the session lock; `rollback` takes no lock. The lifecycle, DNSSEC, configuration
and RPZ commands plan and apply in one process without any lock; only the policy
migration takes the session lock. The lifecycle commands and the managed-zone
migration all rewrite the same index. Every transaction writes a START record
before it does anything and a RESULT record when it reports. `named` is reached
by `named-checkzone`, `named-checkconf`, `rndc` and `dig`, each a subprocess with
a time limit. The list of zones is kept fresh by one background thread, which
sends results through a queue.

What makes each part correct, in one line:

* session lock: one editor per zone; a dead one keeps nobody out;
* engine: the outcome reported is what happened to the file and to `named`, and
  no content ever reported as the zone's is lost;
* lifecycle: a zone is in one of four states, commands move it along the edges,
  failures move nothing, nothing a command has reported is lost, the other
  zones are not touched;
* audit: one START and one RESULT for each command that ends, in order;
* purge: data disappears only from an eligible package, and a failure says so;
* editing: what is saved is what is on the screen, on top of what was loaded, and
  a save that fails costs no edits;
* DNSSEC: a zone whose DS somebody still holds is served signed;
* policy migration: no way past the point of no return without evidence, no way
  back after it;
* configuration: all or nothing, and nobody's last access is removed;
* RPZ: one updater at a time, what is published comes to be served;
* list: it waits for each refresh and not forever, and shows what it was told.

## Modules

| Module | Models | Theorems |
|---|---|---|
| `LockFile` | directory entry, inodes, handles and `flock` behind both locks | |
| `ZoneEditLock` (extends `LockFile`) | `edit_lock.py` | |
| `ZoneEditLockProofs` | | `LockInvariant`, `TypeCorrect`, `Exclusion`, `HolderNamed`, `StaleAdmits` |
| `VersionedFile` | abstract: a file whose reported versions are never lost | |
| `TransactionEngine` (extends `LockFile`, implements `VersionedFile`) | `transaction.py` with `ZoneLock` and `runner.run` | |
| `TransactionEngineProofs` | | `EngineInvariant`, `TypeCorrect`, `WritesGuarded`, `Exclusion`, `OneWriterAtATime`, `LockedAlone`, `ContentsSurvive`, `AllSurvive`, `OutcomesTrue`, `Refinement`, `CommitServes`, `PairOfApplies`, `OneOperator` |
| `LifecycleStates` | abstract: four states of a zone and six edges | |
| `ZoneLifecycle` (implements `LifecycleStates`) | the six lifecycle transactions and their commands | |
| `ZoneLifecycleProofs` | | `ZoneInvariant`, `TypeCorrect`, `ZonesSurvive`, `SoloInvariant`, `OutcomesTrue`, `ConfigurationLoads`, `IndexKept`, `Refinement` |
| `AuditLog` | abstract: a log whose retention spares a newest result | |
| `AuditStore` (implements `AuditLog`) | `audit_store.py` with the START and RESULT of both adapters | |
| `ZoneEditSession` | `zone_edit_session.py` with the edit buffer, the document, the adapter, the serial and the writer | |
| `RecordValidation` | `validate_zone` of `record_validation.py` | |
| `EditorApp` (extends `RecordValidation`) | `curses_app.py`: list, refresh thread, screens of one and of several zones; `multi_zone_session.py`, `bulk_operations.py` | |
| `EditorAppProofs` | | `Invariance`, `LocksFollow`, `EditsSurvive`, `StatesFresh` |
| `DnssecLifecycle` | enable, confirm, withdraw, both stages of disable, prepared serial, beside `named`, registrar and caches | |
| `DnssecProofs` | | `DnssecInvariant`, `TypeCorrect`, `ServedSigned`, `SoloInvariant`, `RollbackRestores`, `SerialRises` |
| `PolicyMigration` | `dnssec_policy_migration*.py` | |
| `PolicyMigrationProofs` | | `MigrationInvariant`, `TypeCorrect`, `EvidenceGate`, `PhaseInvariant`, `StateTellsBind`, `RollbackIsTrusted` |
| `ConfigTransaction` | five transactions on BIND's configuration | |
| `ConfigTransactionProofs` | | `ConfigInvariant`, `TypeCorrect`, `DeclarationLeads`, `RollbackRestores`, `LastAccessKept` |
| `RpzUpdater` | both RPZ transactions, the timers and update jobs | |
| `RpzUpdaterProofs` | | `UpdaterInvariant`, `TypeCorrect`, `UpdatersExcluded`, `EditsSurvive`, `RollbackRestores` |
| `MC...` | constants and symmetry for TLC; `RpzUpdater` needs none | |

### LockFile and ZoneEditLock

A lock file is a name (`path`) that points to an inode; `handle[p]` is the inode
a process has open, `flocked` the processes holding `LOCK_EX`. `OpenLockFile`
creates a new inode when the name is free, `CloseLockFile` drops the flock, as
the kernel also does when a process dies, `UnlinkLockFile` removes the name and
nothing else. These are the system calls; the two protocols of the program
differ only in their order. `ZoneEditLock` has an action for each call of
`acquire` (`Open`, `TakeFlock` or `Refuse`, `TruncateMetadata`, `WriteMetadata`
or `MetadataFails`) and `release` (`Unlink`, `Unlock`), and `Crash` anywhere.
`WriteMetadata` needs the name: the code's `chmod` goes by path.

### TransactionEngine

One zone. A zone file is a member of `Content`; `Valid` is what
`named-checkzone` accepts, `Serial[c]` the SOA serial. `pc[p]` walks through
`apply`, `rollback`, `verify` or `validate` in the order of the code, `tx[p]` is
the local `TransactionResult` with the source and the backup. `Install` is
`_atomic_install` (the name is replaced in one step or not; an error may be
raised before or after), `RndcReload` may load at once, queue, fail, or time out
after having worked, `NamedLoads` carries out what was queued. `FinishFails` is
an exception of the manifest or audit write: inside `apply`'s `try` it rolls
back, elsewhere it leaves the command. `EditSource` is the operator saving the
candidate again between two of the four reads of it. Two histories are no part of
the code: `disturbed` names the processes whose backup is not of the file they are
about to replace, because another one has replaced it since, and `overtaken` the
contents that were replaced that way.

### ZoneLifecycle

Each transaction is a script (`CreateSteps`, ...) of its `try` block and a
script of its `except` block (`CreateUndo`, ...), whose entries name the flag
that makes them run. `todo[p]` is the set of steps of the present script that are
still to run, `tx[p].done` those that have; an action (`WriteZoneFile`,
`AddInclude`, `Activate`, ...) runs the first step of the script that is in
`todo[p]` (`At`). The commands of the command line and the wizard of the
curses interface (`CreateCommand`, `CreateZoneWizard`, `DisableCommand`, ...)
call `plan()` and begin; the wizard checked its form against a list of zones that
may be old by then, which only the conflict check of `apply` can find out.
`ReadOriginals` are the reads in front of the `try`, `Refuse` the early
returns, `Raise` the jump to the `except` block, `UndoFails` an exception inside
it. The disk is one record of sets, the index counts include lines, so that a
lost update and a duplicated line can be told apart. `RndcReconfig` follows
`named`: it loads the zones that are new in a loadable configuration and drops
those that left it. `Unreported` names the commands whose last manifest or audit
record may fail to be written; inside the `try` block that undoes everything.

The purge (`PurgeSteps`) renames a package into the staging directory, makes a
recovery archive of it there, deletes the renamed package file by file and then
the archive, and rewrites its manifest before and after each step (`NotePurge`).
Both names in the staging directory carry the transaction, so what an earlier
attempt left stays: a later purge of the same package reports PURGED while the
archive of a failed one still holds its data. A failed step puts the package
back only while no archive was completed; `FileStepFails` may leave an archive
that is complete although the check of it failed, or a package deleted half way
(`Remains`). `owned`, the zones some command reported as existing, loses a zone
only when `PURGE-COMMITTED` is on disk.

### AuditStore

The registry is a sequence of lines, each a record or `Junk`, and `ended` says
whether the last one has its line feed. A command (either adapter, any family)
appends START, works, appends RESULT; the timestamp is taken before the lock, so
a later line may carry an earlier second. `WritePart` and `WriteRest` are two
calls of `os.write` in `_write_all`; a process that fails or dies in between
leaves a line without its line feed, to which the next append is glued
(`Extended`): that append reports success and its record cannot be read. The
lock file of the registry is never removed, so one variable (`holder`) is enough
for its flock. `PlanRetention` reads without the lock, `ApplyRetention` is the
confirmation, `Rewrite` the comparison and the replacement under the lock. No
part of the repository but its tests calls the retention; the model calls it as
its interface allows. The clock does not run backwards.

### ZoneEditSession

One session on one zone. A record is a value of `Data`, or an SOA: a value of
`Timers` and a serial. `model` is `ZoneModel` (entries with their original and
current record, the identifiers, the undo history as snapshots), `document` the
`ZoneDocument` with the adapter's tables: `order` the nodes line by line, `node`
what each holds, `added` the adapter's map from identifier to added node, whose
order is that of the dictionary. Nodes are objects, since `nodes.remove` compares
values and the map holds references. `Node`, `PlaceAdded` and `RemoveAdded` are
the three parts of `adapter.apply()`, `Prepared` is `_prepare_document()`,
`Candidate` what the writer would render. `Preview` stands for everything that
prepares the document and changes nothing else; `Save` is a COMMIT, `SaveStuck`
a ROLLBACK-FAILED, a save that fails in another way is a `Preview`, one that is
rolled back with `committed = true` a `Reload`. `Replace` and `Delete` take a set
of entries: one in the editor, several in a bulk operation. The SOA form keeps
the serial (`ReplaceSOA`); a bulk change of the SOA's TTL is not modelled, nor a
bulk operation's description in the manifest.

### RecordValidation and EditorApp

`RecordValidation` is what `validate_zone` finds in a set of records: apex, alias,
loop, missing target, missing address, duplicate, malformed data, each as a key
(code, owner, what the message names) with its severity. The walk along aliases
is a recursive function bounded by the number of owners, as the code's is by the
names seen.

`EditorApp` is the curses program: one thread of control through the screens
(`view`), the refresh thread (`worker`) with its queue (`messages`), the sessions
and locks of the zones, and, beside them, another session and whoever else writes
zone files. `MainLoop` is one turn of the list's loop in the steps that matter:
take results (`ConsumeResults`), look whether the thread lives (`CheckWorker`),
look whether its queue is empty (`CompleteRefresh`), redraw, wait for a key.
`CreateRecordDialog`, `EditRecordDialog` and `EditSoaDialog` are what a form can
be left with, `Approved` the comparison of issues before and after a change,
`Outcomes` what `apply` may return for a zone (its inside is
`TransactionEngine`), `Status` what `quick_status` reports: FAIL when the file is
missing or does not load, with secondaries, and a `named` that still serves an
earlier file, left out. An exception nobody catches ends the program (`Dies`): a
candidate that `save_all` cannot write, and a discard, an undo or a quit with the
zone file gone. The edit buffer here is a set of pairs (on disk, now) with the
undo history as snapshots; `ZoneEditSession` has the document behind it. F6, the
relocation of a zone, appears here only as the check and the refresh that follow
it; the transaction itself is in `ConfigTransaction`.

### DnssecLifecycle

One zone in one of three initial states: unsigned, signed long ago, or with its
keys withdrawn. `decl` is the declaration (policy and zone file), `named` what is
loaded and served, `keys` the key files with the states of BIND's key manager,
`journal` the serial of the signed copy, `parent` the DS at the registrar,
`cache` what each resolver remembers. A command is a record `tx[p]` that walks
through the steps of the code: `Preflight`, `Ask` one resolver after the other
and `Decide`, `KaspGate`, `SerialGate`, copies, `Declare`, `Verify`, `Reconfig`,
and back through `DeclareBack`, `undo-reconfig` and `Remove`. No command takes a
lock, so several may run. The key manager (`KeyAppears`, `KeyGoes`), the
registrar, the resolvers and the editor of the zone are the surroundings; they
are not in the repository and are modelled as the code uses them. `dig` exits
with 0 when a server answers SERVFAIL, so `Ask` may hear "no" from a resolver
that knows nothing; `fooled` records it, as it does an old denial still cached.
`overridden` records an operator who used `--acknowledge-unsigned` although a
state could not be read. `Stage` is what the status screen shows and
`PublishDs` the operator who follows it.

### PolicyMigration

Each command is a process: `StartCommand`, `MigrationView` (the screen) and
`LaterCommand` begin it, `Step` runs it. Between commands only the state file
(`state`) remembers the phase. `Observe` asks the resolvers and decides
(`Advanced`), `Save` writes; `check` does so without the lock. `backups` holds
the declaration of each migration. `stale` records a save over a state that had
not been read, `torn` a command that died, could not save or could not undo,
`outdated` a start that went on by source keys it had read before it had the lock
and that no longer were all the keys of the zone. At the registrar the operator
publishes the DS of a key the zone has. A
policy stands for its KSK and for the DS of that key; `Gate` refuses a blocked
policy and one whose review was not acknowledged, on the screen for the source
too.

### ConfigTransaction

A configuration file is a partial function from what it defines (lists, groups,
the zone, an include) to the definition; `Config` is what discovery collects and
what `named` loads, `CheckConf` what `named-checkconf` accepts. The five kinds of
command share `tx[p]` with a script and the undo script of their except blocks
(`ListUndo`, `MigrateUndo`, `RelocateUndo`). Given on the command line they plan
and apply; from a screen (`Shown`) a dry run and a question come first. `High` is
the impact report, through lists that name other lists; `Closure` is what entries
name in the end, as the least set of lists with all that they name. `EditZone` is
an `apply` of the transaction engine on the zone in one step. The zone's clause is
in `named.conf.local` at first or already has a declaration of its own. `stale`
records a write after what the plan had read outside its own files had changed,
`crossed` two commands that met in a file, in a reconfiguration or in the zone's
data.

### RpzUpdater

`InstallCommand` and `MigrateCommand` begin a transaction, a script again, whose
first step stands for the plan, the download and the dry run. The timers fire
(`TimerFires`), a job fetches the published serial, replaces the zone file and
tells `named` (`Update`, `UpdateFails`); it may outlive the command that started
it. A migration installs a copy of the operator's own script: what such a job does
is not in the repository, and the model assumes that it does what the script zctl
writes does, which installs also what has an equal serial. `Edit` is the
administrator. One transaction may follow another that was
blocked or rolled back. When the options block is in the main file itself, the
second of the two writes takes the policy out again, and COMMIT is reported all
the same; the model shows it, no property of the run speaks of it.

## Runs

All bounds are in the `.cfg` files and in the MC modules. One operator is enough
for what failures do, two processes for every race that needs two; the run of
the session lock has three. Two zones are enough to tell "my zone" from "another zone", two valid
contents and an invalid one to tell old, new and broken, two resolvers to
disagree.

| Run | Instance | States | Shows |
|---|---|---|---|
| `EditLockReopen` | 3 processes, 2 sessions each, 4 inodes | 14,140 | up to the first release exclusion holds; metadata names the holder; a stale file admits |
| `ApplyPair` | 2 applies; commands, file operations and processes fail; 4 contents, two of one serial; interchangeable processes | 622,584 | outcomes match the file, COMMIT serves the serial, refinement of `VersionedFile` |
| `CommandPair` | 2 commands of any kind at once; commands, file operations and processes fail, sources are saved again; 3 contents | 1,155,177 | nothing reported is lost, also when apply and rollback meet, but what another wrote after the backup; only guarded writes |
| `EngineLiveness` | 1 operator, 3 commands, any but a rollback that commits; all faults but deaths; fairness | 111,771 | commands end and free the lock; `named` converges |
| `Lifecycle` | 1 operator, 2 zones, 3 commands; commands, files, rollback steps and the process fail, reports (but restore's) may not be written | 1,342,788 | outcome and disk agree, data survives; until a command dies or cannot be undone: refinement of `LifecycleStates`, the configuration loads at any moment but during a disable |
| `AuditStore` | 2 processes, a command each, retention to one record, torn writes and crashes, 2 seconds | 1,194,154 | no record lost beyond one for each torn write, refinement of `AuditLog` |
| `EditSession` | 4 edits, SOA over several lines, at most 3 records in the buffer of 2 contents, 2 SOA contents, serials to the limit, 2 days | 180,700 | the candidate is what the editor shows, the serial rises, a preview is stable |
| `EditorApp` | 2 zones of one group, 8 records, 3 of: edits (2), saves (1), keys that change the list (2), writes by others (1) | 531,508 | locks follow the screens, saves keep edits, the list is fresh, keeps its selection and never waits forever |
| `DnssecLifecycle` | 2 interchangeable processes, 2 of six commands, 2 caches of which 1 is asked, 1 edit, all faults | 1,703,543 | never unsigned while the DS is known; of a command alone: serial never falls, rollback restores |
| `PolicyMigration` | 2 operators who may both start, 5 commands (4 once one died, overwrote another or started by outdated keys), 3 policies, 2 resolvers | 1,843,245 | no completion without evidence, state file and BIND agree, rollback keeps trust |
| `ConfigTransaction` | 2 commands in sequence or at once, 3 lists in 2 files, the clause moved before or not, 2 versions of the data | 831,011 | data survives, rollback restores, access kept |
| `RpzUpdater` | 2 transactions, 2 serials, all faults, fairness | 340,702 | one updater, rollback restores, edits survive, published serials come to be served |

In `EditorApp` the limits are 3 altogether because one edit, one save and one
write by somebody else are what a save that meets a changed file needs; a second
list key is what a refresh during a refresh needs. All records fit the forms
there (`Malformed` is empty), so a malformed record does not occur. In
`DnssecLifecycle` the resolver that is not asked is the one that may hold the DS
longer than the commands see. In `PolicyMigration` the constraint `Bound` cuts
one command off after a fault that the properties except anyway.

`CHECK_DEADLOCK FALSE` is set everywhere: processes stop after the number of
commands they are allowed.

The type invariants are proved for the modules with proofs and no run repeats
them; those of `AuditStore` and `ZoneEditSession` hold on the instances above and
document the variables.

### Disagreements

Some documents, messages, tests and docstrings say what the code does not do, or not
always. The properties above are stated so that they hold, with an exception
named where one is needed. The disagreements that the models show, for which no
run is kept (the first six need no fault, only other operators or, in the last of
them, a silent resolver):

* `docs/en/OPERATIONS.md:46`, "A second writer cannot open the same zone":
  `release` (`edit_lock.py:136`) removes the name of a file whose inode another
  session may be about to lock, and a third session locks a new inode.
* `transaction.py:83`, "Strefa jest już objęta inną transakcją": `ZoneLock.__exit__`
  (`:98`) unlocks before it removes the name, so one process may lock the old file
  and a third a new one. `OneWriter` is false for three processes and proved for two
  that run one command each.
* `docs/en/DISASTER_RECOVERY.md:63` (and `docs/OPERATIONS.md:258`), a rollback makes
  a backup of the current file: it takes no lock (`transaction.py:637`), so a COMMIT
  between the backup and the replacement is lost without one. This is the exception
  in `NothingLost`, which run `CommandPair` reaches.
* `tests/test_zone_create_transaction.py:136`, an existing zone file is never
  overwritten: two creates of one zone that both passed the gate
  (`zone_create_transaction.py:102`) overwrite one another.
* `docs/ROADMAP.md:122`, exactly one include for each managed declaration: each
  lifecycle command writes back the index it read, changed for its own zone
  (`zone_create_transaction.py:178`), so of two at once the second drops the include
  of the first; `Lifecycle` has one operator. `IndexComplete` is proved for one.
* `docs/OPERATIONS.md:569`, after the target DS was seen the rollback is blocked:
  the gate (`dnssec_policy_migration.py:512`) reads what the last `check` or
  `advance` stored, and a later check with a silent resolver takes it back while the
  phase is still `WAITING_DS`.
* restore loses the declaration when its last manifest cannot be written, since
  the archive is consumed by then; `Unreported` leaves restore out.
* two relocations of one zone at once, "Przywrócono stan sprzed relokacji"
  (`managed_zone_relocation_transaction.py:170`): the rollback removes the target
  path whoever copied it (`:152`), also the copy another relocation has declared and
  left alone; `crossed` excepts it.
* an SOA edited, previewed and taken back with undo is saved all the same.
* the docstring of the approval in `curses_app.py:4321` ("Odrzuć nowe błędy"):
  issues are compared by key, which has no severity, so a warning agreed to for a
  mail exchanger hides the error of a name server with the same owner and target.
* `curses_app.py:5286` offers finalize at stage `READY_TO_FINALIZE`; by then the
  DNSKEY is hidden, the delegation check has no DS to expect and fails, and
  `dnssec_status_view.py:50` makes the stage `ERROR`, so the screen never offers it
  (the command line does).
* `docs/en/OPERATIONS.md:291`, proceed "when every configured resolver reports that
  DS is absent": `withdrawal-check` counts a SERVFAIL as an absent DS.

The steps of the models show a few more things worth knowing: a refused session
reads the lock's metadata without the lock and may be told a dead owner or none;
`rollback --commit` whose reload fails has replaced the file and reports
`committed = false`; an apply refused by the zone lock leaves a START record
without RESULT, as an interrupted one does; a rolled-back apply or lifecycle
command whose report failed says `committed = true`; a rolled-back disable leaves
its archive directory, so `plan` accepts the zone again and every later disable of
it is rolled back; a retention in the second in which a command ended may keep its
START and remove its RESULT (records of one second are ordered by their random
ids), after which the audit query calls the command interrupted; once the registry
holds more than `MAX_RESULTS` records, or one bad line, `read` reports an issue and
no retention can ever be planned again; an SOA on one line that is edited after a
preview is saved with its old serial, because the flag says it was raised; of two
added records that were equal when one of them was deleted, the other is no longer
connected to the document, and its later edits are not saved; after a
ROLLBACK-FAILED the next save of the session has the serial of the file already in
place; a save that is rolled back because its report failed drops the pending
edits; a candidate that `save_all` cannot write ends the curses program and with
it the edits of every zone; a refresh asked for while one runs is dropped, so
after a save the list may go on showing the state from before it; F8 deletes
without the approval other changes need; a response policy zone is
refused by F4 but can be edited through Enter and F3; `disable` compares the
declaration before it asks the network and writes the planned text after it, so a
change made meanwhile is lost; keys that stay after finalize make every later
enable a CONFLICT; `prepare-finalize-serial` takes no lock and overwrites an edit
saved meanwhile, and one that began earlier can put an older file back behind the
serial gate of a finalize, which then lowers the serial that is served; the screens of the migration and of the zone's secondaries go on
after a dry run that reported a CONFLICT, and only `apply` itself refuses then.

### Fairness

Three runs assume some.

* `EngineLiveness`. One operator is enough: no command waits for another one, and
  one that is refused by the lock ends at once. `WF(Step(p))`: a command that has started goes on, because
  every subprocess of `runner.run` has a time limit and nothing in `apply` waits
  (the lock is `LOCK_NB`). `WF(NamedLoads)`: `named` carries out a reload it has
  accepted. Nothing is assumed about operators starting commands, nor about a
  subprocess ever succeeding. `Converges` excludes behaviours with a
  ROLLBACK-FAILED, which tells the operator that the file and the daemon
  disagree.
* `EditorApp`. `WF(MainLoop)`: `getch` of the list returns after 150 ms without a
  key. `WF(Worker)`: the thread is scheduled, and each of its commands has a time
  limit. Nothing is assumed about the operator.
* `RpzUpdater`. Strong fairness, for each updater, of a run of its timer that
  downloads the zone and of an update that `named` loads: an active systemd timer
  fires again and again, and a download or reload that is tried again and again is
  not refused for ever. Weak fairness would not do, since a failed run in between
  disables the step. Nothing is assumed about transactions.

## Proofs

`ZoneEditLockProofs` proves, for any number of processes, inodes and sessions,
the three invariants that run `EditLockReopen` checks (`Exclusion`,
`HolderNamed`, `StaleAdmits`) and the types. None is inductive. `LockInv` adds
what the kernel promises (`FlockExclusive`: one holder for each inode;
`FlockHasHandle`), that a process holds the flock exactly from `TakeFlock` to
the close and has the file open exactly while it is in the protocol
(`FlockMatchesPlace`), and `OneInode`: until the first release every open handle
is on the inode the name points to. Two holders then share an inode, which the
kernel excludes. Without "until the first release" exclusion is false, see Disagreements.

`TransactionEngineProofs` proves, for any number of processes, contents,
serials, commands and any faults:

* `EngineInvariant`: `Spec => []EngineInv`;
* `TypeCorrect`: `Spec => []TypeOK`;
* `WritesGuarded`: `Spec => WritesAreGuarded`, the action property that run
  `CommandPair` checks; the theorem also covers `read_only = true`.

`WritesAreGuarded` is about steps and says nothing of how a command got to its
install, so it needs an invariant: `Claims(place, t, b)` says what a command
with record `t` has established by the time it reaches a place when the backups
are `b`, and `Sound(p)` is that claim for `p`. A working command is not a refused
one, a place inside the commit section belongs to `apply --commit`, from
`expected` on the backup is stored, a restoring place belongs to
`rollback --commit`, and a COMMIT that may still be undone has its backup. Every
action moves one process, so each has a lemma that proves the claim of the place
it moves to; `Others` carries the rest over because backups are never removed.
`EngineInv` is `TypeOK` and `Sound` for all processes.

The second part proves `NothingLost` (`ContentsSurvive`) of every behaviour, with
any number of commands at once, `rollback` among them. `LossInv` says of every
process between its backup and its install that the file is in a backup, unless it
is `disturbed` (`Careful`), and of every content reported as the zone's that it is
the file, in a backup, or `overtaken` (`Safe`). A process that replaces the file
disturbs those with a backup still to be used, and only a disturbed one overtakes.

The third part is about what the zone lock excludes and what follows for the
file, in three layers that meet in two theorems without a hypothesis.

* The lock. `Exclusion`: `Spec /\ []SameInode => []OneWriter`. `SameInode` says
  that no open handle is of a lock file whose name was removed and created
  again; `ZoneLock.__exit__` lets three processes break it, so the hypothesis is
  needed. `OneWriterAtATime` discharges it for two processes that
  run one command each.
* The file. `AllSurvive` (`AllKept`, which is `NothingLost` without its exception),
  `OutcomesTrue` (`OutcomeMatchesFile`) and `Refinement` (`KeepsVersions`, the step
  simulation of `VersionedFile`) have the hypothesis `[]Alone`: no two commands
  that look at the file overlap. Their invariant `FileInv` says for each place what
  the command `Knows`: up to the install the file is the one it read, from
  `expected` on that one is in the backup, after the install the file is the source,
  and after a restore it is the backup again. `rollback` takes no lock in the code,
  so two of them do overlap and `Alone` is a hypothesis, not a lemma;
  `LockedAlone` derives it from `SameInode` when no command is a rollback.
* What is served. `CommitServes` (`CommitServesSerial`) adds to `Alone` that
  nobody saves the source again while it is applied ("source" is no fault): the
  engine installs the file it finds then, and when that one has the serial of
  the checked one the comparison of serials cannot tell them apart.

`PairOfApplies` (two processes, one command each, none a rollback: the setting of
run `ApplyPair`, for any contents, serials and faults) and `OneOperator` (one
process, any commands, killed anywhere) then conclude
`AllKept`, `OutcomeMatchesFile` and `KeepsVersions` from `Spec` alone.

`DnssecProofs` proves `NeverBogus` (`ServedSigned`) for any number of processes,
resolvers, commands and edits and any faults, so for any number of commands at once
without a lock. The idea is
the predicate `Safe`: no resolver holds the DS and none can get it, or the
excepted override or denial has happened. `KeysSound` says that the key manager
hides the DS only when `Safe` and the keys after it; `PolicySound` that neither the
declaration nor `named` is without a policy unless `Safe`; `Established` what each
command knows at the step it has reached (a finalize beyond the KASP gate and an
enable beyond its preflight have seen `Safe`, a backup that would put an unsigned
declaration back was taken when `Safe`). `Safe` is stable under every step but
`PublishDs`, whose guard, the status screen's `Publishable` with no opposite
command begun, excludes every place that relies on it. The environment is thus
part of the statement: an operator who publishes a DS the screen does not offer is
outside the theorem.

Its second part proves `RolledBackRestores` (`RollbackRestores`) and
`SerialNeverFalls` (`SerialRises`), both about a command beside which no other one
ran (`tx[p].alone`, a history of the model, while any number run before and after
it). `SoloInv` follows such a command through its steps: the declaration is the one
it planned, as far as it has written and taken back (`DeclKept`), `named` runs it
since the reconfig (`NamedKept`), what an enable finds at its target it
leaves there until it makes its own (`FilesKept`), and between
the serial gate and the reconfig the file keeps a serial above the signed one
(`SerialKept`). Both hypotheses are inside the properties, so that TLC checks the
same formulas; the proof of `SerialRises` showed that this one was needed.

`ConfigTransactionProofs` proves the three properties of run `ConfigTransaction` for
any processes, lists that name one another, hosts, commands, versions and faults.
`ConfigInv` has three parts. `CommandInv` says of every command that its script is in
order (`Scripted`, by the `Rank` of a step on the way forward and on the way back),
that its plan is what planning finds (`Planned`), and, once it has compared its
files, what the steps done have left (`Kept`): a file due still has the planned
original, one that is done the new text, in a rollback the original again; the
old data is the latest until it is retired, and the new copy from the copy on.
`ZoneInv` says where the declaration leads, and that the clause is not in
`named.conf.local` too once it leads to the managed path. `TypeOK` carries what a
file may hold, on which the configuration's being unambiguous rests. None of
this is said of commands that crossed, so a step that meets another command has
nothing to show, and one that meets none leaves the others' files alone
(`WriteOther`). `LastAccessKept` needs that a plan that still holds is written into
the configuration it was made for, and then a lemma on lists alone (`AccessStays`):
a list that reaches the changed one does so without its entries (`ReachStays`),
what does not name it is unchanged (`ClosureApart`), and the candidate, which
`named-checkconf` has accepted, does not name the list itself. `Closure` is a least
closed set here, since nothing could be proved of a recursive function, and
proving `DataSurvives` and `RolledBackRestores` showed that two relocations meet in
the data, see above.

`PolicyMigrationProofs` proves `CompleteIsEvidenced` (`EvidenceGate`) for any
number of processes, policies, resolvers and commands. The state file alone is not inductive: a
command holds a copy of the state it read and another of what it will write, and
`check` writes its copy back without the lock. `Established(p)` says that every
copy a command holds is evidenced, and `Others` that evidence only grows.

Its second part proves the other two properties of the run. `StateMatchesBind`
(`StateTellsBind`) needs four more invariants, together `PhaseInv`: a backup holds
the source of its migration (`BackupInv`); from its second reading of the state on
every command but `check` has the lock, so one of them works at a time (`LockInv`);
what a command is about to save differs from what it read in the evidence only
(`check`), goes on from it without crossing the boundary backwards (`advance`,
`finalize`) or is the end of a start or an undoing (`RecordInv`); and what is
declared and running is what the file says, or what the one command at work has
declared so far (`MatchInv`). `RollbackKeepsTrust` (`RollbackIsTrusted`) adds
`TrustInv`: the parent has the DS of the source until the boundary and that of the
target after it, and the source keys of a migration under way are all keys but the
target's, so that a DS which is none of theirs is the target's. It holds for any
number of operators who start, check, advance, finalize and roll back. The three
exceptions are in the property: `stale`, `torn` and `outdated`. The last one is
about what the code relies on without checking: `start` reads the source keys before
it takes the lock, and when another start was applied and rolled back in between,
they are not the keys of the policy it leaves, and the DS of a key left over passes
for evidence of the target. That the parent publishes only what the zone has as a
key when it is published is part of the model of the registrar (`ChangeDs`).

`RpzUpdaterProofs` proves the three properties of run `RpzUpdater` for any number
of transactions, any serials and any faults. The script of a transaction is a
sequence that shrinks and, at a failure, is replaced by that of the rollback, so
`Inv` says first what can be left of it: every script follows one `Rank` of the
steps (`Scripted`), and a step still due keeps the later ones due. The rest is
what is true between two steps given what is due: which timers are on and why
(`Scheduled`), that the configuration is the one read plus what the steps done
have added (`ConfKept`, `EditsRead`), the files of the integration (`FilesKept`)
and the zone `named` serves (`ZoneKept`). `OneUpdater` follows from `Scheduled`,
`EditsKept` from the second comparison in `EditsRead`, and `RolledBackRestores`
because at the last step of a rollback nothing is due.

`EditorAppProofs` proves `LocksFollowScreens`, `EditsKept` and `StatusFresh` for
any zones, records, contents, faults and limits. `ScreenInv` says which sessions
and locks each screen has, the one that is opening or saving included, and is
inductive with the types; `KeepsEdits` is proved of every step that saves.
`StatusFresh` is about messages in a queue: `Arrives(z)` says that the state of
`z` that is shown, or one in the queue, is recent and none after it is older, and
`RefreshInv` that this holds of every zone the refresh thread does not have still
to ask.

`ZoneLifecycleProofs` proves every property of run `Lifecycle`, and `IndexComplete`
for one operator, in two parts that differ in what they assume about the operators,
as no lock guards the lifecycle of a zone.

* `DataSurvives` (`ZonesSurvive`) holds for any number of operators at once, if no
  two of them work on the same zone (`OwnZones`). `ZoneInv` has a part for each
  command (`CreateOk`, `DisableOk`, ...) that says what keeps its zone between two
  steps: `disable` has the declaration or
  its archived copy beside the zone file, and while its rollback still has to remove
  the archived one the declaration is back or about to be; `quarantine` has the files or the
  package, and removes the package in a rollback only behind the steps that put the
  files back; `purge` has the package in one of its two places until the archive is
  complete, and then the archive until its manifest says `PURGE-COMMITTED`. The parts
  are needed because the property says nothing of which copy is the last one. A
  step of one operator touches the files of its zone only (`Elsewhere`), the index
  and `groups.yaml` apart, on which the property does not depend.
* `OutcomeMatchesDisk`, `ConfigLoads`, `IndexComplete` (`IndexKept`) and the
  refinement of `LifecycleStates` are of one operator
  (`Solo`): two at a time lose each other's include line. `Follows` is the heart of `SoloInv`:
  the files are those that the command found (`was`), with what its `Standing`
  steps have changed, those done and, in a rollback, not yet taken back
  (`Reverts`). It holds until a file operation of the rollback fails (`Tracked`).
  A rollback that is done leaves no step standing, which is ROLLED-BACK; a
  script that is done leaves all, which with what `plan()` had `Found` is the goal
  of COMMIT; the order of the steps (`InOrder`) makes what stands between loadable.
  Packages and archives are numbered by the command that makes them (`Numbered`), so
  a purge cannot take an archive for its own that an earlier one has left.

Both assume that the report of a restore can be written (`"restore" \notin
Unreported`, as in the run): the archived declaration is consumed before it, and a
rollback then removes the new declaration without putting the old one back.

The assumptions are those of the modules: `NoneAssumption` (`LockFile`,
`ZoneLifecycle`, `DnssecLifecycle`, `PolicyMigration`, `RpzUpdater`, `ConfigTransaction`),
`MaxOpensAssumption` (`ZoneEditLock`), `EngineAssumption`, `LifecycleAssumption`,
`DnssecAssumption`, `MigrationAssumption`, `EditorAssumption`, `ConfigAssumption`; TLC evaluates them in every run that extends the module. A
theorem with a hypothesis of its own states it in an ASSUME or before the `=>`.

Only model-checked: liveness (`Converges`, `CommandsEnd`, `ListUsable`,
`Refreshes`), which the prover does not handle under fairness; `SelectionKept` of
`EditorApp`, about rows that are filtered, sorted and flattened sequences, whose
values need induction over data; everything about `AuditStore` and
`ZoneEditSession`. What a recursive function computes (`LoopIssues`) is only checked
on the instances, as it needs induction over data.

## Not modelled

* Contents of declarations and zone files beyond one value per file, ownership and
  modes, wording of messages, the text of manifests and records. `dig` answers
  beside `rndc zonestatus` are only logged by the engine and left out.
* What only reads: discovery and the BIND parsers beyond what a plan uses,
  `doctor.py`, the inventories, the DNSSEC reports, history and backup lists. They
  have no state that could go wrong between two steps.
* Text conversion: parsing, rendering, filters. `zone_serializer.py` is not used
  by the program.
* `dnssec withdrawal-backup` (copies files); the choice and review of the policy and
  the parent's compatibility in `dnssec enable`; the DNSSEC status screen, whose
  commands add a stale view before what the commands of the command line do.
* Onboarding and dialogs of the curses interface other than the record forms and
  the zone wizard; the read-only mode and the diff export.
* Git history (a best effort commit after the transaction), the legacy audit log
  (one append per event), configuration loading.
* `bind_bootstrap.py`, which nothing reaches, `legacy_v220.py`, kept for reference,
  scripts and packaging.

## Plan

1. Proofs: `NothingSilentlyLost` of `AuditStore`; the properties of `ZoneEditSession`.
2. `DnssecLifecycle`: the policy gate of enable with `PolicyMigration`'s `Gate`.
3. `EditorApp`: malformed records in files written by others, and the status
   screen of DNSSEC over `DnssecLifecycle`.
4. Git history as a step of the engine.
