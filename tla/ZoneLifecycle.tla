--------------------------- MODULE ZoneLifecycle ---------------------------
(***************************************************************************)
(* The lifecycle transactions of managed zones: create, disable, restore,  *)
(* quarantine, quarantine-restore and quarantine-purge                     *)
(* (zone_*_transaction.py and zone_quarantine*.py under src/zonectl/core). *)
(*                                                                         *)
(* Each is a script of file operations and BIND commands inside a try      *)
(* block, and a script that undoes what was done. The zones share the      *)
(* managed index, groups.yaml and the named configuration, and no lock     *)
(* guards them. A file is present or not; the index counts its includes.   *)
(***************************************************************************)
EXTENDS Naturals, Functions

CONSTANTS
    Procs,      \* zctl processes
    Zones,      \* managed zone names
    Grouped,    \* zones whose creation also names a group
    Assigned,   \* Assigned[p]: zones the operator of p works on
    Commands,   \* commands the operators may run
    Faults,     \* what may go wrong: see FaultKinds
    Unreported, \* commands whose manifest or audit record may fail to be written
    MaxTx,      \* bound: commands one process runs in a behaviour
    None        \* "no value"

\* command: a subprocess fails or times out;  io: a file operation raises;
\* undo: a file operation of the rollback raises;  crash: the process dies.
FaultKinds == {"command", "io", "undo", "crash"}

CommandNames ==
    {"create", "disable", "restore", "quarantine", "quarantine-restore",
     "quarantine-purge"}

ASSUME LifecycleAssumption ==
    /\ Grouped \subseteq Zones
    /\ Assigned \in [Procs -> SUBSET Zones]
    /\ Commands \union Unreported \subseteq CommandNames
    /\ Faults \subseteq FaultKinds
    /\ MaxTx \in Nat
    /\ None \notin Zones \union CommandNames

VARIABLES
    disk,      \* the files: see Disks
    served,    \* zones named has loaded
    phase,     \* phase[p]: idle, planned, do (try block) or undo (except)
    todo,      \* todo[p]: steps p has still to run in that phase, in the
               \* order of its script
    tx,        \* tx[p]: local state of the command of p
    ran,       \* ran[p]: commands started by p
    owned,     \* history: zones some command reported as existing
    damaged    \* history: a rollback failed half way, or a command died

vars == <<disk, served, phase, todo, tx, ran, owned, damaged>>

Packages == [zone : Zones, by : Procs \union {None}, nr : 0..MaxTx]

Archives == [of : Packages, by : Procs, nr : 0..MaxTx]

Disks ==
    [zoneFiles : SUBSET Zones,       \* zone files under the Primary directory
     declared : SUBSET Zones,        \* declarations under zonectl-zones.d
     archived : SUBSET Zones,        \* declarations under disabled-zones
     directories : SUBSET Zones,     \* directories under disabled-zones
     packages : SUBSET Packages,     \* complete quarantine packages
     staged : SUBSET Packages,       \* complete packages in the purge staging
     rescued : SUBSET Archives,      \* recovery archives in the purge staging
     index : [Zones -> Nat],         \* include lines of the managed index
     groups : SUBSET Zones]          \* zones listed in groups.yaml

(* Scripts *****************************************************************)

\* mutant: the include line before the file it names
CreateSteps_IncludeFirst ==
    <<"zone-file", "include", "declaration", "groups", "check-zone",
      "check-conf", "reconfig", "loaded", "finish">>

CreateSteps ==
    <<"zone-file", "declaration", "include", "groups", "check-zone",
      "check-conf", "reconfig", "loaded", "finish">>

\* mutant: the declaration is unlinked before its archive copy is written
DisableSteps_DropFirst ==
    <<"directory", "drop-declaration", "archive", "exclude", "check-conf",
      "reconfig", "unloaded", "finish">>

DisableSteps ==
    <<"directory", "archive", "drop-declaration", "exclude", "check-conf",
      "reconfig", "unloaded", "finish">>

\* mutant: the archive is consumed as soon as its copy is in place
RestoreSteps_EarlyConsume ==
    <<"check-zone", "declaration", "consume-archive", "include",
      "check-conf", "reconfig", "loaded", "finish">>

RestoreSteps ==
    <<"check-zone", "declaration", "include", "check-conf", "reconfig",
      "loaded", "consume-archive", "finish">>

QuarantineSteps ==
    <<"package", "drop-zone-file", "consume-archive", "finish">>

QuarantineRestoreSteps ==
    <<"zone-file", "check-zone", "declaration", "include", "check-conf",
      "reconfig", "loaded", "finish">>

\* mutant: the recovery archive is made of a package already emptied
PurgeSteps_EmptyFirst ==
    <<"note-prepared", "stage", "note-staged", "drop-staged", "rescue",
      "note-rescued", "note-committed", "drop-rescue", "finish">>

\* Each note is a rewrite of the manifest with a new status.
PurgeSteps ==
    <<"note-prepared", "stage", "note-staged", "rescue", "note-rescued",
      "drop-staged", "note-committed", "drop-rescue", "finish">>

\* Undo scripts: <<step, the step of the try block that made it necessary>>.

CreateUndo ==
    <<<<"restore-index", "include">>, <<"restore-groups", "groups">>,
      <<"remove-zone-file", "zone-file">>,
      <<"remove-declaration", "declaration">>, <<"reconfig", "reconfig">>>>

\* mutant: the archived copy stays behind
DisableUndo_KeepsArchive ==
    <<<<"restore-index", "exclude">>, <<"rewrite-declaration", "archive">>,
      <<"reconfig", "reconfig">>>>

DisableUndo ==
    <<<<"restore-index", "exclude">>, <<"rewrite-declaration", "archive">>,
      <<"remove-archive", "archive">>, <<"reconfig", "reconfig">>>>

RestoreUndo ==
    <<<<"restore-index", "include">>, <<"remove-declaration", "declaration">>,
      <<"reconfig", "reconfig">>>>

\* mutant: the package goes and the zone file does not come back
QuarantineUndo_LosesZone ==
    <<<<"rewrite-archive", "consume-archive">>, <<"remove-package", None>>>>

QuarantineUndo ==
    <<<<"rewrite-zone-file", "drop-zone-file">>,
      <<"rewrite-archive", "consume-archive">>, <<"remove-package", None>>>>

\* mutant: the zone file put back from the package is left there
QuarantineRestoreUndo_KeepsZoneFile ==
    <<<<"restore-index", "include">>, <<"remove-declaration", "declaration">>,
      <<"reconfig", "reconfig">>>>

QuarantineRestoreUndo ==
    <<<<"restore-index", "include">>, <<"remove-declaration", "declaration">>,
      <<"remove-zone-file", "zone-file">>, <<"reconfig", "reconfig">>>>

\* Only as long as no recovery archive was completed.
PurgeUndo == <<<<"unstage", "stage">>>>

Steps(cmd) ==
    CASE cmd = "create" -> CreateSteps
      [] cmd = "disable" -> DisableSteps
      [] cmd = "restore" -> RestoreSteps
      [] cmd = "quarantine" -> QuarantineSteps
      [] cmd = "quarantine-restore" -> QuarantineRestoreSteps
      [] cmd = "quarantine-purge" -> PurgeSteps

UndoSteps(cmd) ==
    CASE cmd = "create" -> CreateUndo
      [] cmd = "disable" -> DisableUndo
      [] cmd = "restore" -> RestoreUndo
      [] cmd = "quarantine" -> QuarantineUndo
      [] cmd = "quarantine-restore" -> QuarantineRestoreUndo
      [] cmd = "quarantine-purge" -> PurgeUndo

PurgeNotes ==
    {"note-prepared", "note-staged", "note-rescued", "note-committed"}

DoSteps ==
    PurgeNotes \union
    {"zone-file", "declaration", "include", "groups", "check-zone",
     "check-conf", "reconfig", "loaded", "directory", "archive",
     "drop-declaration", "exclude", "unloaded", "package", "drop-zone-file",
     "consume-archive", "stage", "rescue", "drop-staged", "drop-rescue",
     "finish"}

FileSteps == DoSteps \ {"check-zone", "check-conf", "reconfig", "loaded",
                        "unloaded", "finish"}

UndoStepNames ==
    {"restore-index", "restore-groups", "remove-zone-file",
     "remove-declaration", "rewrite-declaration", "remove-archive",
     "rewrite-zone-file", "rewrite-archive", "remove-package", "unstage",
     "reconfig"}

Outcomes == {"COMMIT", "ROLLED-BACK", "ROLLBACK-FAILED", "CONFLICT",
             "DRY-RUN", "CRASHED", "RAISED", "BLOCKED", "PURGED",
             "PURGE-FAILED"}

ASSUME NoneAssumption == None \notin Packages \union Outcomes

NoTx == [cmd |-> None, zone |-> None, package |-> None, index |-> [z \in Zones |-> 0],
         groupsText |-> {}, groups |-> {}, done |-> {},
         undone |-> TRUE, committed |-> FALSE, outcome |-> None,
         was |-> None]

Txs == [cmd : CommandNames \union {None}, zone : Zones \union {None},
        package : Packages \union {None}, index : [Zones -> Nat],
        groupsText : SUBSET Zones, groups : SUBSET Zones, done : SUBSET DoSteps,
        undone : BOOLEAN, committed : BOOLEAN, outcome : Outcomes \union {None},
        was : Disks \union {None}]

TypeOK ==
    /\ disk \in Disks
    /\ served \subseteq Zones
    /\ phase \in [Procs -> {"idle", "planned", "do", "undo"}]
    /\ todo \in [Procs -> SUBSET (DoSteps \union UndoStepNames)]
    /\ tx \in [Procs -> Txs]
    /\ ran \in [Procs -> 0..MaxTx]
    /\ owned \subseteq Zones
    /\ damaged \in BOOLEAN

\* A zone is absent, active, disabled or quarantined at first.
DiskFor(s) ==
    LET In(states) == {z \in Zones : s[z] \in states} IN
    [zoneFiles |-> In({"active", "disabled"}),
     declared |-> In({"active"}),
     archived |-> In({"disabled"}),
     directories |-> In({"disabled"}),
     packages |-> {[zone |-> z, by |-> None, nr |-> 0] :
                     z \in In({"quarantined"})},
     staged |-> {},
     rescued |-> {},
     index |-> [z \in Zones |-> IF s[z] = "active" THEN 1 ELSE 0],
     groups |-> {}]

Init ==
    /\ \E s \in [Zones -> {"absent", "active", "disabled", "quarantined"}] :
          /\ disk = DiskFor(s)
          /\ served = {z \in Zones : s[z] = "active"}
          /\ owned = {z \in Zones : s[z] # "absent"}
          /\ damaged = FALSE
    /\ phase = [p \in Procs |-> "idle"]
    /\ todo = [p \in Procs |-> {}]
    /\ tx = [p \in Procs |-> NoTx]
    /\ ran = [p \in Procs |-> 0]

(* named *******************************************************************)

\* named-checkconf: every included declaration exists, no zone comes twice.
ConfigOK ==
    \A z \in Zones : disk.index[z] > 0 => z \in disk.declared /\ disk.index[z] = 1

Succeeds(would) == IF "command" \in Faults THEN {would, FALSE} ELSE {would}

Configured == {z \in Zones : disk.index[z] > 0}

Reconfigured == Configured \intersect (disk.zoneFiles \union served)

\* rndc reconfig: named loads the zones that are new in the configuration,
\* drops those that left it, and does not reread the others. A timeout may be
\* reported although it was carried out.
RndcReconfig(ok) ==
    \/ /\ ConfigOK
       /\ ok \/ "command" \in Faults
       /\ served' = Reconfigured
    \/ ~ok /\ (~ConfigOK \/ "command" \in Faults) /\ UNCHANGED served

(* plan() and the reads before the try block *******************************)

HasPackage(d, z) == \E k \in d.packages : k.zone = z

\* plan_create: not yet in the configuration, nor in a group.
CanCreate(z) ==
    /\ z \notin Configured \intersect disk.declared
    /\ z \notin Grouped \intersect disk.groups

CanDisable(z) ==
    /\ z \in disk.zoneFiles \intersect disk.declared
    /\ disk.index[z] = 1
    /\ z \notin disk.archived

CanRestore(z) ==
    /\ z \in disk.zoneFiles \intersect disk.archived
    /\ z \notin disk.declared
    /\ z \notin Configured

CanQuarantine(z) == CanRestore(z)

CanUnpack(z) ==
    /\ HasPackage(disk, z)
    /\ z \notin disk.zoneFiles \union disk.declared
    /\ z \notin Configured

\* The package is complete and unchanged; its age is not modelled.
CanPurge(z) == HasPackage(disk, z)

\* _groups_text: groups.yaml as it is now, with the zone added.
GroupsText(z) == IF z \in Grouped THEN disk.groups \union {z} ELSE {}

\* The command cmd of p has planned for zone z, with the package k it makes or
\* was told to use.
Begin(p, cmd, z, k) ==
    /\ phase[p] = "idle"
    /\ ran[p] < MaxTx
    /\ cmd \in Commands
    /\ tx' = [tx EXCEPT ![p] =
                 [NoTx EXCEPT !.cmd = cmd, !.zone = z, !.package = k,
                     !.groupsText = GroupsText(z)]]
    /\ phase' = [phase EXCEPT ![p] = "planned"]
    /\ ran' = [ran EXCEPT ![p] = @ + 1]
    /\ UNCHANGED <<disk, served, todo, owned>>

CreateCommand(p) ==
    \E z \in Assigned[p] : CanCreate(z) /\ Begin(p, "create", z, None)

\* The wizard checks its form against the zones listed when the screen was
\* opened, which may have changed since; groups.yaml is read anew.
CreateZoneWizard(p) ==
    \E z \in Assigned[p] \ (Grouped \intersect disk.groups) :
        Begin(p, "create", z, None)

DisableCommand(p) ==
    \E z \in Assigned[p] : CanDisable(z) /\ Begin(p, "disable", z, None)

RestoreCommand(p) ==
    \E z \in Assigned[p] : CanRestore(z) /\ Begin(p, "restore", z, None)

QuarantineCommand(p) ==
    \E z \in Assigned[p] :
        /\ CanQuarantine(z)
        /\ Begin(p, "quarantine", z, [zone |-> z, by |-> p, nr |-> ran[p] + 1])

\* Both are given the package by name.
QuarantineRestoreCommand(p) ==
    \E k \in disk.packages :
        /\ k.zone \in Assigned[p] /\ CanUnpack(k.zone)
        /\ Begin(p, "quarantine-restore", k.zone, k)

QuarantinePurgeCommand(p) ==
    \E k \in disk.packages :
        /\ k.zone \in Assigned[p] /\ CanPurge(k.zone)
        /\ Begin(p, "quarantine-purge", k.zone, k)

Plan(p) ==
    \/ CreateCommand(p) \/ CreateZoneWizard(p) \/ DisableCommand(p)
    \/ RestoreCommand(p) \/ QuarantineCommand(p)
    \/ QuarantineRestoreCommand(p) \/ QuarantinePurgeCommand(p)

\* The files apply() reads before its try block are there; the purge plans
\* again.
Readable(cmd, z, k) ==
    /\ cmd = "quarantine-purge" => k \in disk.packages
    /\ cmd = "disable" => z \in disk.declared
    /\ cmd = "restore" => z \in disk.archived
    /\ cmd = "quarantine" => z \in disk.zoneFiles \intersect disk.archived

Conflict(cmd, z) ==
    cmd = "create" /\ z \in disk.zoneFiles \union disk.declared

ReadOriginals(p) ==
    /\ phase[p] = "planned"
    /\ ~Conflict(tx[p].cmd, tx[p].zone)
    /\ Readable(tx[p].cmd, tx[p].zone, tx[p].package)
    /\ phase' = [phase EXCEPT ![p] = "do"]
    /\ todo' = [todo EXCEPT ![p] =
                  {s \in Range(Steps(tx[p].cmd)) :
                      s = "groups" => tx[p].zone \in Grouped}]
    /\ tx' = [tx EXCEPT ![p].index = disk.index, ![p].groups = disk.groups,
                        ![p].was = disk]
    /\ UNCHANGED <<disk, served, ran, owned>>

End(p, outcome) ==
    /\ phase' = [phase EXCEPT ![p] = "idle"]
    /\ todo' = [todo EXCEPT ![p] = {}]
    /\ tx' = [tx EXCEPT ![p].outcome = outcome]
    /\ UNCHANGED <<disk, served, ran>>

\* CONFLICT, an OSError from the reads, or a dry run (and, for quarantine and
\* its purge, a missing confirmation): nothing is written.
Refuse(p) ==
    /\ phase[p] = "planned"
    /\ \/ Conflict(tx[p].cmd, tx[p].zone) /\ End(p, "CONFLICT")
       \/ /\ ~Conflict(tx[p].cmd, tx[p].zone)
          /\ ~Readable(tx[p].cmd, tx[p].zone, tx[p].package)
          /\ End(p, IF tx[p].cmd = "quarantine-purge" THEN "BLOCKED"
                    ELSE "RAISED")
       \/ ~Conflict(tx[p].cmd, tx[p].zone) /\ End(p, "DRY-RUN")
    /\ UNCHANGED owned

(* The try block ***********************************************************)

Zone(p) == tx[p].zone

Package(p) == tx[p].package

Archive(p) == [of |-> Package(p), by |-> p, nr |-> ran[p]]

\* The steps of the try block, or of the except block, in their order.
Script(cmd, ph) ==
    IF ph = "do" THEN Steps(cmd)
    ELSE [i \in DOMAIN UndoSteps(cmd) |-> UndoSteps(cmd)[i][1]]

\* The first step of the script that is still to run.
At(p, ph, step) ==
    LET script == Script(tx[p].cmd, ph) IN
    /\ phase[p] = ph
    /\ step \in todo[p]
    /\ \A i, j \in DOMAIN script :
          i < j /\ script[j] = step => script[i] \notin todo[p]

\* Undo what was done; the reconfig flag is set before its call.
Raise(p, step) ==
    LET done == tx[p].done \union ({step} \intersect {"reconfig"})
        due == {u \in Range(UndoSteps(tx[p].cmd)) :
                   /\ u[2] \in done \union {None}
                   /\ u[1] = "unstage" => "rescue" \notin done}
    IN /\ phase' = [phase EXCEPT ![p] = "undo"]
       /\ todo' = [todo EXCEPT ![p] = {u[1] : u \in due}]
       /\ tx' = [tx EXCEPT ![p].committed = /\ step = "finish"
                                             /\ tx[p].cmd # "quarantine-purge"]

Done(p, step) ==
    /\ todo' = [todo EXCEPT ![p] = @ \ {step}]
    /\ tx' = [tx EXCEPT ![p].done = @ \union {step}]
    /\ UNCHANGED phase

\* A file operation that leaves the files as d, or raises unless `may` holds.
Write(p, step, may, d) ==
    /\ At(p, "do", step)
    /\ IF may THEN disk' = d /\ Done(p, step) ELSE Raise(p, step) /\ UNCHANGED disk
    /\ UNCHANGED <<served, ran, owned>>

\* quarantine-restore reads what it writes from the package.
Unpackable(p) == tx[p].cmd = "quarantine-restore" => Package(p) \in disk.packages

WriteZoneFile(p) ==
    Write(p, "zone-file", Unpackable(p),
          [disk EXCEPT !.zoneFiles = @ \union {Zone(p)}])

WriteDeclaration(p) ==
    Write(p, "declaration", Unpackable(p),
          [disk EXCEPT !.declared = @ \union {Zone(p)}])

\* The new index is the one read before the try block plus the include line;
\* only create looks for the line in it.
AddInclude(p) ==
    Write(p, "include", tx[p].cmd = "create" => tx[p].index[Zone(p)] = 0,
          [disk EXCEPT !.index = [tx[p].index EXCEPT ![Zone(p)] = @ + 1]])

\* groups.yaml as plan_create() built it.
WriteGroups(p) ==
    Write(p, "groups", TRUE, [disk EXCEPT !.groups = tx[p].groupsText])

\* mkdir(parents=True) without exist_ok.
MakeDirectory(p) ==
    Write(p, "directory", Zone(p) \notin disk.directories,
          [disk EXCEPT !.directories = @ \union {Zone(p)}])

WriteArchive(p) ==
    Write(p, "archive", TRUE, [disk EXCEPT !.archived = @ \union {Zone(p)},
                                           !.directories = @ \union {Zone(p)}])

DropDeclaration(p) ==
    Write(p, "drop-declaration", Zone(p) \in disk.declared,
          [disk EXCEPT !.declared = @ \ {Zone(p)}])

RemoveInclude(p) ==
    Write(p, "exclude", TRUE,
          [disk EXCEPT !.index = [tx[p].index EXCEPT ![Zone(p)] = 0]])

\* zone.db, zone.conf and manifest.json, with their sums verified.
WritePackage(p) ==
    Write(p, "package", TRUE, [disk EXCEPT !.packages = @ \union {Package(p)}])

DropZoneFile(p) ==
    Write(p, "drop-zone-file", Zone(p) \in disk.zoneFiles,
          [disk EXCEPT !.zoneFiles = @ \ {Zone(p)}])

\* unlink, then rmdir of the directory it was in.
ConsumeArchive(p) ==
    Write(p, "consume-archive", Zone(p) \in disk.archived,
          [disk EXCEPT !.archived = @ \ {Zone(p)},
                       !.directories = @ \ {Zone(p)}])

\* os.replace of the package directory into the staging directory.
Stage(p) ==
    Write(p, "stage", Package(p) \in disk.packages,
          [disk EXCEPT !.packages = @ \ {Package(p)},
                       !.staged = @ \union {Package(p)}])

\* The tar archive is complete only if all three files can be read.
WriteRescue(p) ==
    Write(p, "rescue", Package(p) \in disk.staged,
          [disk EXCEPT !.rescued = @ \union {Archive(p)}])

DropStaged(p) ==
    Write(p, "drop-staged", Package(p) \in disk.staged,
          [disk EXCEPT !.staged = @ \ {Package(p)}])

DropRescue(p) ==
    Write(p, "drop-rescue", Archive(p) \in disk.rescued,
          [disk EXCEPT !.rescued = @ \ {Archive(p)}])

Copies == disk.packages \union disk.staged \union {a.of : a \in disk.rescued}

InPlace(z) == z \in disk.zoneFiles \intersect (disk.declared \union disk.archived)

\* The zone has a copy even without those of package k.
Kept(z, k) == InPlace(z) \/ \E c \in Copies : c.zone = z /\ c # k

\* PURGE-COMMITTED is when the package stops being promised to the operator.
NotePurge(p) ==
    /\ \E step \in PurgeNotes :
          /\ At(p, "do", step)
          /\ Done(p, step)
          /\ owned' = IF step = "note-committed" /\ ~Kept(Zone(p), Package(p))
                      THEN owned \ {Zone(p)} ELSE owned
    /\ UNCHANGED <<disk, served, ran>>

\* What a file operation that raises may leave: the writes replace the target
\* in one step, but the archive may be in place when its check fails, and the
\* staged package is deleted file by file.
Remains(p, step) ==
    {disk} \union
    CASE step = "rescue" /\ Package(p) \in disk.staged ->
            {[disk EXCEPT !.rescued = @ \union {Archive(p)}]}
      [] step = "drop-staged" ->
            {[disk EXCEPT !.staged = @ \ {Package(p)}]}
      [] OTHER -> {}

FileStepFails(p) ==
    /\ "io" \in Faults
    /\ \E step \in FileSteps :
          At(p, "do", step) /\ disk' \in Remains(p, step) /\ Raise(p, step)
    /\ UNCHANGED <<served, ran, owned>>

\* A BIND command whose success would be `would`.
Check(p, step, would) ==
    /\ At(p, "do", step)
    /\ \E ok \in Succeeds(would) : IF ok THEN Done(p, step) ELSE Raise(p, step)
    /\ UNCHANGED <<disk, served, ran, owned>>

CheckZone(p) == Check(p, "check-zone", Zone(p) \in disk.zoneFiles)

CheckConf(p) == Check(p, "check-conf", ConfigOK)

VerifyLoaded(p) == Check(p, "loaded", Zone(p) \in served)

\* zonestatus must fail, for whatever reason, once in ten attempts.
VerifyUnavailable(p) ==
    /\ At(p, "do", "unloaded")
    /\ \/ (Zone(p) \notin served \/ "command" \in Faults) /\ Done(p, "unloaded")
       \/ Zone(p) \in served /\ Raise(p, "unloaded")
    /\ UNCHANGED <<disk, served, ran, owned>>

Activate(p) ==
    /\ At(p, "do", "reconfig")
    /\ \E ok \in BOOLEAN :
          /\ RndcReconfig(ok)
          /\ IF ok THEN Done(p, "reconfig") ELSE Raise(p, "reconfig")
    /\ UNCHANGED <<disk, ran, owned>>

\* committed = True, then _finish / _save / _finish_audit; the purge rewrites
\* its manifest first.
Finish(p) ==
    LET purge == tx[p].cmd = "quarantine-purge" IN
    /\ At(p, "do", "finish")
    /\ phase' = [phase EXCEPT ![p] = "idle"]
    /\ todo' = [todo EXCEPT ![p] = {}]
    /\ tx' = [tx EXCEPT ![p].outcome = IF purge THEN "PURGED" ELSE "COMMIT",
                        ![p].committed = TRUE]
    /\ owned' = IF purge THEN owned ELSE owned \union {Zone(p)}
    /\ UNCHANGED <<disk, served, ran>>

\* The report cannot be written, inside the try block: everything is undone.
\* The audit record of a purge is written after that block.
FinishFails(p) ==
    /\ tx[p].cmd \in Unreported
    /\ At(p, "do", "finish")
    /\ \/ Raise(p, "finish") /\ UNCHANGED <<disk, served, ran>>
       \/ tx[p].cmd = "quarantine-purge" /\ End(p, "RAISED")
    /\ UNCHANGED owned

(* The except block ********************************************************)

Undone(p, step) ==
    /\ todo' = [todo EXCEPT ![p] = @ \ {step}]
    /\ UNCHANGED <<phase, tx>>

NotUndone(p) ==
    /\ todo' = [todo EXCEPT ![p] = {}]
    /\ tx' = [tx EXCEPT ![p].undone = FALSE]
    /\ UNCHANGED phase

Undo(p, step, d) ==
    /\ At(p, "undo", step)
    /\ disk' = d
    /\ Undone(p, step)
    /\ UNCHANGED <<served, ran, owned>>

RestoreIndex(p) ==
    Undo(p, "restore-index", [disk EXCEPT !.index = tx[p].index])

RestoreGroups(p) ==
    Undo(p, "restore-groups", [disk EXCEPT !.groups = tx[p].groups])

RemoveZoneFile(p) ==
    Undo(p, "remove-zone-file", [disk EXCEPT !.zoneFiles = @ \ {Zone(p)}])

RemoveDeclaration(p) ==
    Undo(p, "remove-declaration", [disk EXCEPT !.declared = @ \ {Zone(p)}])

RewriteDeclaration(p) ==
    Undo(p, "rewrite-declaration", [disk EXCEPT !.declared = @ \union {Zone(p)}])

RemoveArchive(p) ==
    Undo(p, "remove-archive", [disk EXCEPT !.archived = @ \ {Zone(p)}])

RewriteZoneFile(p) ==
    Undo(p, "rewrite-zone-file", [disk EXCEPT !.zoneFiles = @ \union {Zone(p)}])

RewriteArchive(p) ==
    Undo(p, "rewrite-archive",
         [disk EXCEPT !.archived = @ \union {Zone(p)},
                      !.directories = @ \union {Zone(p)}])

RemovePackage(p) ==
    Undo(p, "remove-package", [disk EXCEPT !.packages = @ \ {Package(p)}])

Unstage(p) ==
    Undo(p, "unstage",
         IF Package(p) \in disk.staged
         THEN [disk EXCEPT !.staged = @ \ {Package(p)},
                           !.packages = @ \union {Package(p)}]
         ELSE disk)

\* A file operation of the rollback raises; so does the final rmdir when the
\* package directory was never made. The remaining steps are skipped.
UndoFails(p) ==
    /\ \E step \in UndoStepNames \ {"reconfig"} :
          /\ At(p, "undo", step)
          /\ \/ "undo" \in Faults
             \/ step = "remove-package" /\ Package(p) \notin disk.packages
          /\ damaged' = (damaged \/ step # "remove-package" \/ Package(p) \in disk.packages)
    /\ NotUndone(p)
    /\ UNCHANGED <<disk, served, ran, owned>>

Reactivate(p) ==
    /\ At(p, "undo", "reconfig")
    /\ \E ok \in BOOLEAN :
          /\ RndcReconfig(ok)
          /\ IF ok THEN Undone(p, "reconfig") ELSE NotUndone(p)
    /\ UNCHANGED <<disk, ran, owned>>

FinishUndo(p) ==
    /\ phase[p] = "undo"
    /\ todo[p] = {}
    /\ \/ End(p, IF tx[p].cmd = "quarantine-purge" THEN "PURGE-FAILED"
                 ELSE IF tx[p].undone THEN "ROLLED-BACK"
                 ELSE "ROLLBACK-FAILED")
       \/ tx[p].cmd \in Unreported /\ End(p, "RAISED")
    /\ UNCHANGED owned

Crash(p) ==
    /\ "crash" \in Faults
    /\ phase[p] \in {"do", "undo"}
    /\ End(p, "CRASHED")
    /\ damaged' = TRUE
    /\ UNCHANGED owned

Step(p) ==
    \/ ReadOriginals(p) \/ Refuse(p)
    \/ WriteZoneFile(p) \/ WriteDeclaration(p) \/ AddInclude(p)
    \/ WriteGroups(p) \/ MakeDirectory(p) \/ WriteArchive(p)
    \/ DropDeclaration(p) \/ RemoveInclude(p) \/ WritePackage(p)
    \/ DropZoneFile(p) \/ ConsumeArchive(p) \/ NotePurge(p) \/ Stage(p)
    \/ WriteRescue(p) \/ DropStaged(p) \/ DropRescue(p) \/ FileStepFails(p)
    \/ CheckZone(p) \/ CheckConf(p) \/ Activate(p) \/ VerifyLoaded(p)
    \/ VerifyUnavailable(p) \/ Finish(p) \/ FinishFails(p)
    \/ RestoreIndex(p) \/ RestoreGroups(p) \/ RemoveZoneFile(p)
    \/ RemoveDeclaration(p) \/ RewriteDeclaration(p) \/ RemoveArchive(p)
    \/ RewriteZoneFile(p) \/ RewriteArchive(p) \/ RemovePackage(p)
    \/ Unstage(p) \/ Reactivate(p) \/ FinishUndo(p)

Next ==
    \E p \in Procs :
        \/ (Plan(p) \/ Step(p)) /\ UNCHANGED damaged
        \/ UndoFails(p) \/ Crash(p)

Spec == Init /\ [][Next]_vars

(* Properties **************************************************************)

\* The lifecycle state the files of a zone stand for.
DiskState(d, z) ==
    LET there == {z} \intersect (d.zoneFiles \union d.declared \union d.archived)
    IN CASE z \in (d.zoneFiles \intersect d.declared) \ d.archived
            /\ d.index[z] = 1 -> "active"
         [] z \in (d.zoneFiles \intersect d.archived) \ d.declared
            /\ d.index[z] = 0 -> "disabled"
         [] there = {} /\ d.index[z] = 0 /\ HasPackage(d, z) -> "quarantined"
         [] there = {} /\ d.index[z] = 0 /\ ~HasPackage(d, z) -> "absent"
         [] OTHER -> "damaged"

Goal(cmd) == CASE cmd = "disable" -> "disabled"
               [] cmd = "quarantine" -> "quarantined"
               [] OTHER -> "active"

Ended(p, outcome) == phase[p] = "idle" /\ tx[p].outcome = outcome

\* A committed command has brought its zone, unless a failed rollback had left
\* it in no state at all, and no other zone to the state it is for; a rolled-
\* back one has put every file back (the "rollback" step of the
\* five apply() methods reports that the former state is restored). A purge
\* that reports PURGED has removed its package, with the copies it made, and
\* nothing else; one that fails, if only its report could be written, has left
\* a complete copy, and the package itself when no archive was made.
OutcomeMatchesDisk ==
    \A p \in Procs :
        /\ Ended(p, "COMMIT") =>
              /\ DiskState(tx[p].was, Zone(p)) # "damaged" =>
                    DiskState(disk, Zone(p)) = Goal(tx[p].cmd)
              /\ \A z \in Zones \ {Zone(p)} :
                    DiskState(disk, z) = DiskState(tx[p].was, z)
        /\ Ended(p, "ROLLED-BACK") =>
              [disk EXCEPT !.directories = {}]
                  = [tx[p].was EXCEPT !.directories = {}]
        /\ Ended(p, "PURGED") =>
              disk = [tx[p].was EXCEPT !.packages = @ \ {Package(p)}]
        /\ Ended(p, "PURGE-FAILED") /\ tx[p].cmd \notin Unreported =>
              /\ Package(p) \in Copies
              /\ "rescue" \notin tx[p].done /\ tx[p].undone =>
                    disk = [tx[p].was EXCEPT !.rescued = disk.rescued]

\* "exactly one include for each declaration managed by ZoneCTL"
\* (docs/ROADMAP.md): so the index is whenever no command is under way and none
\* died or failed to undo its steps. KeepsLifecycle has this for one operator.
\* Two operators break it: each writes the index it read before its try block,
\* changed for its own zone, and so drops what the other wrote meanwhile.
IndexComplete ==
    ~damaged /\ (\A p \in Procs : phase[p] = "idle") =>
        \A z \in Zones : disk.index[z] = IF z \in disk.declared THEN 1 ELSE 0

\* named could be restarted at any moment: every included declaration is in
\* place. Only a disable that is under way takes the declaration away before
\* the include (the other scripts write it first and remove it last). A command
\* that dies or cannot undo its steps may end all that.
ConfigLoads ==
    damaged \/ ConfigOK \/ \E p \in Procs : phase[p] # "idle" /\ tx[p].cmd = "disable"

\* A zone that was reported to exist is never lost: its zone file and its
\* declaration are in place, archived or in a package, whatever step fails,
\* is undone or is cut off by a crash (the order of writes and unlinks in the
\* six scripts). Only a purge whose manifest says so ends the promise.
DataSurvives == \A z \in owned : Kept(z, None)

\* The lifecycle as the operator sees it: while a command runs its zone is
\* still what it was, and at its end it has moved along one edge or not at all,
\* whatever step failed, until a command dies or cannot undo its steps.
StateOf(z) ==
    IF \E p \in Procs : phase[p] \in {"do", "undo"} /\ Zone(p) = z
    THEN LET p == CHOOSE q \in Procs : phase[q] \in {"do", "undo"} /\ Zone(q) = z
         IN DiskState(tx[p].was, z)
    ELSE DiskState(disk, z)

Lifecycle == INSTANCE LifecycleStates WITH
    state <- [z \in Zones |-> StateOf(z)]

KeepsLifecycle == Lifecycle!Spec
=============================================================================
