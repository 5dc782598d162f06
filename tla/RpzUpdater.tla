----------------------------- MODULE RpzUpdater -----------------------------
(* The response policy zone (RPZ) of CERT Polska: zctl installs an updater  *)
(* with its systemd timer on a server that has none, or takes over the one  *)
(* of the operator (rpz_managed_install.py,                                 *)
(* rpz_external_migration_transaction.py).  Beside the transaction run the  *)
(* timers, the update jobs they start, named, the publisher of the zone and *)
(* an administrator who edits the configuration.                            *)
EXTENDS Naturals, Sequences, FiniteSets

CONSTANTS
    Faults,      \* subset of {"command", "io", "undo", "crash"}
    MaxTx,       \* transactions started
    MaxSerial,   \* serials published
    None

ASSUME RpzAssumption ==
    /\ Faults \subseteq {"command", "io", "undo", "crash"}
    /\ MaxTx \in Nat /\ MaxSerial \in Nat \ {0}

(* Types *******************************************************************)

Updaters == {"external", "managed"}
ConfFiles == {"options", "root"}

\* The files of the MANAGED integration beside the zone's own file.
Artifacts == {"declaration", "updater", "service", "timer"}
Units == {"updater", "service", "timer"}

\* What a configuration file can say of the zone, and the edits of others.
Words == {"edit", "late-edit", "policy", "include"}

Steps == {"recheck", "backup", "zone", "declaration", "updater", "service",
          "timer", "options", "root", "checkconf", "daemon-reload", "reconfig",
          "zonestatus", "disable-external", "enable-managed", "start-managed",
          "await-managed", "gate", "commit", "disable-managed", "options-back",
          "root-back", "remove", "restore-external"}

Outcomes == {"BLOCKED", "COMMIT", "ROLLED-BACK", "ROLLBACK-FAILED", "DEAD"}

Configurations == [ConfFiles -> SUBSET Words]
Schedules == [enabled : SUBSET Updaters, active : SUBSET Updaters]

Snapshots == [conf : Configurations, disk : SUBSET Artifacts, zone : Nat,
              timers : Schedules]

Transactions ==
    [kind : {"install", "migrate"}, todo : Seq(Steps), was : Snapshots,
     fetched : Nat, serial : Nat, read : SUBSET Words,
     installed : SUBSET (Artifacts \cup {"zone"}),
     started : BOOLEAN, switched : BOOLEAN, undoing : BOOLEAN, ok : BOOLEAN,
     cut : BOOLEAN, loose : BOOLEAN, outcome : Outcomes \cup {None}]

ASSUME NoneAssumption == None \notin Transactions /\ None \notin Outcomes

VARIABLES
    site,       \* [origin, options]: what was there, the file with the options block
    conf,       \* what each configuration file says about the zone, and edits
    disk,       \* the MANAGED files present
    zone,       \* the serial of the zone file, 0 when there is none
    timers,     \* [enabled, active]: sets of updaters
    jobs,       \* updater -> the serial its running job has fetched, 0 when idle
    result,     \* the result of the last job of the MANAGED service
    named,      \* [policy, serial]: what named applies and serves
    published,  \* the serial at the publisher
    tx,         \* the last transaction
    issued      \* transactions so far

system == <<conf, disk, zone, timers, jobs, result, named>>
vars == <<site, system, published, tx, issued>>

TypeOK ==
    /\ site \in [origin : {"none", "external"}, options : ConfFiles]
    /\ conf \in Configurations
    /\ disk \in SUBSET Artifacts
    /\ zone \in Nat
    /\ timers \in Schedules
    /\ jobs \in [Updaters -> Nat]
    /\ result \in {"success", "failed"}
    /\ named \in [policy : BOOLEAN, serial : Nat]
    /\ published \in Nat
    /\ tx \in Transactions \cup {None}

Running == tx # None /\ tx.todo # <<>>
Policy == \E f \in ConfFiles : "policy" \in conf[f]
Declared == "include" \in conf["root"] /\ "declaration" \in disk

\* What named-checkconf accepts: no include without its file, no policy
\* without its zone.
ConfIsValid ==
    /\ "include" \in conf["root"] => "declaration" \in disk
    /\ Policy => Declared

\* The mode the environment report gives the integration.
Mode == IF {"service", "timer"} \subseteq disk THEN "MANAGED"
        ELSE IF site.origin = "external" THEN "EXTERNAL" ELSE "OFF"

Init ==
    /\ site \in {[origin |-> o, options |-> f] :
                    o \in {"none"}, f \in ConfFiles}
                \cup {[origin |-> "external", options |-> "options"]}
    /\ conf = [f \in ConfFiles |-> {}]
    /\ disk = {}
    /\ jobs = [u \in Updaters |-> 0]
    /\ result = "success"
    /\ published = 1
    /\ \/ /\ site.origin = "none"
          /\ zone = 0
          /\ timers = [enabled |-> {}, active |-> {}]
          /\ named = [policy |-> FALSE, serial |-> 0]
       \/ /\ site.origin = "external"
          /\ zone = 1
          /\ timers \in [enabled : SUBSET {"external"}, active : SUBSET {"external"}]
          /\ named = [policy |-> TRUE, serial |-> 1]
    /\ tx = None
    /\ issued = 0

(* The transactions ********************************************************)

InstallSteps ==
    <<"recheck", "backup", "zone", "declaration", "updater", "service", "timer",
      "options", "root", "checkconf", "daemon-reload", "reconfig", "zonestatus",
      "enable-managed", "start-managed", "await-managed", "gate", "commit">>

MigrateSteps ==
    <<"recheck", "backup", "updater", "service", "timer", "daemon-reload",
      "disable-external", "enable-managed", "start-managed", "await-managed",
      "gate", "commit">>

\* Mutant: the rollback does not tell BIND.
InstallUndo_NoReconfig(t) ==
    (IF t.started THEN <<"disable-managed">> ELSE <<>>)
    \o <<"options-back", "root-back", "remove">>
    \o (IF t.started THEN <<"daemon-reload">> ELSE <<>>)

\* The rollback of the installation: the units and BIND are only told when
\* the activation had begun.
InstallUndo(t) ==
    (IF t.started THEN <<"disable-managed">> ELSE <<>>)
    \o <<"options-back", "root-back", "remove">>
    \o (IF t.started THEN <<"daemon-reload", "reconfig">> ELSE <<>>)

\* Mutant: the old timer is started before the new one is stopped.
MigrateUndo_RestoresFirst(t) ==
    (IF t.switched THEN <<"restore-external", "disable-managed">> ELSE <<>>)
    \o <<"remove", "daemon-reload">>

\* The rollback of the migration, by the flag set after the old timer stopped.
MigrateUndo(t) ==
    (IF t.switched THEN <<"disable-managed">> ELSE <<>>)
    \o <<"remove", "daemon-reload">>
    \o (IF t.switched /\ "external" \in t.was.timers.enabled \cup t.was.timers.active
        THEN <<"restore-external">> ELSE <<>>)

UndoSteps(t) == IF t.kind = "install" THEN InstallUndo(t) ELSE MigrateUndo(t)

\* The planners: no integration and none of the files for an installation,
\* exactly the operator's own integration and none of the units for a migration.
InstallPlans == Mode = "OFF" /\ disk = {} /\ zone = 0 /\ ~Policy
MigratePlans == Mode = "EXTERNAL" /\ zone # 0 /\ disk \cap Units = {}

NewTx(kind) ==
    [kind |-> kind, todo |-> IF kind = "install" THEN InstallSteps ELSE MigrateSteps,
     was |-> [conf |-> conf, disk |-> disk, zone |-> zone, timers |-> timers],
     fetched |-> published, serial |-> 0, read |-> {}, installed |-> {}, started |-> FALSE,
     switched |-> FALSE, undoing |-> FALSE, ok |-> TRUE, cut |-> FALSE,
     loose |-> tx # None /\ tx.loose, outcome |-> None]

\* Plan, first reads, download and dry run; a plan that is not READY changes
\* nothing and is left out.  A bound: none follows one that died or whose
\* rollback failed, which an operator has to clear away first.
Begin(kind) ==
    /\ issued < MaxTx
    /\ tx # None => tx.outcome \in {"BLOCKED", "ROLLED-BACK"}
    /\ issued' = issued + 1
    /\ tx' = NewTx(kind)
    /\ UNCHANGED <<site, system, published>>

InstallCommand == InstallPlans /\ Begin("install")

MigrateCommand == MigratePlans /\ Begin("migrate")

Start == InstallCommand \/ MigrateCommand

At(step) == Running /\ Head(tx.todo) = step

\* The last step of a rollback decides its status.
Advance(t) ==
    LET rest == [t EXCEPT !.todo = Tail(@)]
    IN IF rest.undoing /\ rest.todo = <<>>
       THEN [rest EXCEPT !.outcome = IF t.ok THEN "ROLLED-BACK" ELSE "ROLLBACK-FAILED"]
       ELSE rest

\* An exception: apply() turns to its rollback.
Fail(t) == [t EXCEPT !.undoing = TRUE, !.todo = UndoSteps(t)]

\* A step of the rollback that fails is noted and the next one follows; a
\* configuration file that cannot be written skips the rest of its try block.
UndoFails(t) ==
    LET noted == [t EXCEPT !.ok = FALSE]
        skipped == IF Head(t.todo) = "options-back" THEN 2
                   ELSE IF Head(t.todo) = "root-back" THEN 1 ELSE 0
    IN Advance([noted EXCEPT !.todo = SubSeq(@, 1 + skipped, Len(@))])

End(t, outcome) == [t EXCEPT !.todo = <<>>, !.outcome = outcome]

Blocked == tx' = End(tx, "BLOCKED") /\ UNCHANGED system

\* Mutant: only the targets are looked for again.
Recheck_TargetsOnly ==
    /\ At("recheck")
    /\ IF disk # {} THEN Blocked ELSE tx' = Advance(tx) /\ UNCHANGED system

\* What was read before the dry run has changed, or a target is there.
Changed ==
    CASE tx.kind = "install" -> conf # tx.was.conf \/ disk # {} \/ zone # 0
      [] tx.kind = "migrate" -> zone # tx.was.zone

\* The second comparison; the migration then reads the serial that its gate will
\* compare with, and goes no further when it cannot.
Recheck ==
    /\ At("recheck")
    /\ \/ Changed /\ Blocked
       \/ /\ tx.kind = "migrate" /\ (named.serial = 0 \/ "command" \in Faults)
          /\ Blocked
       \/ /\ ~Changed /\ (tx.kind = "migrate" => named.serial # 0)
          /\ tx' = Advance(IF tx.kind = "install" THEN tx
                           ELSE [tx EXCEPT !.serial = named.serial])
          /\ UNCHANGED system

\* The copies, and the candidates of the second build, which read the options
\* file again.
Backup ==
    /\ At("backup")
    /\ tx' = Advance([tx EXCEPT !.read = conf[site.options]])
    /\ UNCHANGED system

WriteArtifact ==
    /\ Running /\ ~tx.undoing /\ Head(tx.todo) \in Artifacts \cup {"zone"}
    /\ LET step == Head(tx.todo)
       IN /\ disk' = disk \cup ({step} \cap Artifacts)
          /\ zone' = IF step = "zone" THEN tx.fetched ELSE zone
          /\ tx' = Advance([tx EXCEPT !.installed = @ \cup {step}])
    /\ UNCHANGED <<conf, timers, jobs, result, named>>

\* The options file as it was built, then the main file as it was first read:
\* when they are one file, the second write undoes the first.
WriteConf ==
    /\ \/ /\ At("options")
          /\ conf' = [conf EXCEPT ![site.options] = tx.read \cup {"policy"}]
       \/ /\ At("root")
          /\ conf' = [conf EXCEPT !["root"] = tx.was.conf["root"] \cup {"include"}]
    /\ tx' = Advance(tx)
    /\ UNCHANGED <<disk, zone, timers, jobs, result, named>>

\* rndc reconfig: a configuration that cannot be loaded is refused, a zone
\* named already serves is not read again.
Loaded ==
    [policy |-> Policy \/ site.origin = "external",
     serial |-> IF site.origin = "external" \/ (named.serial # 0 /\ Declared)
                THEN named.serial
                ELSE IF Declared THEN zone ELSE 0]

Effect(step) ==
    /\ timers' = CASE step = "enable-managed" ->
                        [enabled |-> timers.enabled \cup {"managed"},
                         active |-> timers.active \cup {"managed"}]
                   [] step = "disable-managed" ->
                        [enabled |-> timers.enabled \ {"managed"},
                         active |-> timers.active \ {"managed"}]
                   [] step = "disable-external" ->
                        [enabled |-> timers.enabled \ {"external"},
                         active |-> timers.active \ {"external"}]
                   [] step = "restore-external" ->
                        [enabled |-> timers.enabled \cup (tx.was.timers.enabled
                                                          \cap {"external"}),
                         active |-> timers.active \cup (tx.was.timers.active
                                                        \cap {"external"})]
                   [] OTHER -> timers
    /\ named' = IF step = "reconfig" /\ ConfIsValid THEN Loaded ELSE named
    /\ UNCHANGED <<conf, disk, zone, jobs, result>>

Commands == {"checkconf", "daemon-reload", "reconfig", "zonestatus", "enable-managed",
             "disable-managed", "disable-external", "restore-external"}

\* What a command needs to succeed.
Possible(step) ==
    CASE step \in {"checkconf", "reconfig"} -> ConfIsValid
      [] step = "zonestatus" -> named.serial # 0
      [] step = "enable-managed" -> "timer" \in disk
      [] OTHER -> TRUE

\* The flags apply() keeps for its rollback.
Noted(t, step) ==
    [t EXCEPT !.started = @ \/ step = "checkconf",
              !.switched = @ \/ step = "disable-external"]

Command ==
    /\ Running /\ Head(tx.todo) \in Commands /\ Possible(Head(tx.todo))
    /\ Effect(Head(tx.todo))
    /\ tx' = Advance(IF tx.undoing THEN tx ELSE Noted(tx, Head(tx.todo)))

\* A command fails, or reports a failure (its timeout) after taking effect.
CommandFails ==
    /\ Running /\ Head(tx.todo) \in Commands
    /\ LET step == Head(tx.todo)
       IN /\ \/ ~Possible(step) /\ UNCHANGED system
             \/ /\ (IF tx.undoing THEN "undo" ELSE "command") \in Faults
                /\ UNCHANGED system \/ (Possible(step) /\ Effect(step))
          /\ tx' = IF tx.undoing THEN UndoFails(tx)
                   ELSE Fail([tx EXCEPT !.cut = step = "disable-external"
                                                /\ "external" \notin timers'.active])

\* The files of a step that cannot be written or copied.
FileFails ==
    /\ Running /\ ~tx.undoing /\ "io" \in Faults
    /\ Head(tx.todo) \in Artifacts \cup {"backup", "zone", "options", "root", "commit"}
    /\ tx' = Fail(tx)
    /\ UNCHANGED system

(* The update jobs *********************************************************)

\* Mutant: an equal serial is not installed, so a failed reload is not made good.
Launched_OnlyNewer(u) ==
    IF published <= zone
    THEN UNCHANGED <<jobs, result>>
    ELSE /\ jobs' = [jobs EXCEPT ![u] = published]
         /\ UNCHANGED result

\* A job needs its service and script; it downloads the zone and compares serials.
\* This is the script of the installation. A migration copies the operator's own,
\* and an assumption says it does the same: it installs a serial that is equal as
\* well, tells named to reload, and fails when it cannot.
Launched(u) ==
    IF u = "managed" /\ ~{"updater", "service"} \subseteq disk
    THEN /\ result' = IF u = "managed" THEN "failed" ELSE result
         /\ UNCHANGED jobs
    ELSE /\ \/ jobs' = [jobs EXCEPT ![u] = published] /\ UNCHANGED result
            \/ /\ "command" \in Faults
               /\ result' = IF u = "managed" THEN "failed" ELSE result
               /\ UNCHANGED jobs

TimerFires(u) ==
    /\ u \in timers.active /\ jobs[u] = 0
    /\ Launched(u)
    /\ UNCHANGED <<site, conf, disk, zone, timers, named, published, tx, issued>>

\* The new file takes the place of the zone's and named is told to reload it.
JobEnds(u, reloaded) ==
    /\ jobs[u] # 0
    /\ jobs' = [jobs EXCEPT ![u] = 0]
    /\ zone' = jobs[u]
    /\ result' = IF u # "managed" THEN result ELSE IF reloaded THEN "success" ELSE "failed"
    /\ named' = IF reloaded THEN [named EXCEPT !.serial = jobs[u]] ELSE named
    /\ UNCHANGED <<site, conf, disk, timers, published, tx, issued>>

Update(u) == named.serial # 0 /\ JobEnds(u, TRUE)

UpdateFails(u) ==
    /\ named.serial = 0 \/ "command" \in Faults
    /\ JobEnds(u, FALSE)

\* The job of an installation that was rolled back may find its directory gone.
UpdateFindsNoDirectory ==
    /\ jobs["managed"] # 0 /\ zone = 0
    /\ jobs' = [jobs EXCEPT !["managed"] = 0]
    /\ result' = "failed"
    /\ UNCHANGED <<site, conf, disk, zone, timers, named, published, tx, issued>>

(* The end of a transaction ************************************************)

\* systemctl start: it joins a running job, and returns when the job is over.
StartService ==
    /\ At("start-managed")
    /\ IF jobs["managed"] # 0 THEN UNCHANGED <<jobs, result>> ELSE Launched("managed")
    /\ tx' = Advance(tx)
    /\ UNCHANGED <<conf, disk, zone, timers, named>>

ServiceEnds ==
    /\ At("await-managed")
    /\ \/ /\ jobs["managed"] = 0
          /\ tx' = IF result = "success" THEN Advance(tx) ELSE Fail(tx)
       \/ /\ jobs["managed"] # 0 /\ "command" \in Faults
          /\ tx' = Fail(tx)
    /\ UNCHANGED system

\* The gate reads the units, the last result, the serial and the age.
GatePasses ==
    /\ "managed" \in timers.enabled \cap timers.active
    /\ result = "success"
    /\ tx.kind = "migrate" => /\ "external" \notin timers.active
                              /\ named.serial >= tx.serial

Gate ==
    /\ At("gate")
    /\ \/ GatePasses /\ tx' = Advance(tx)
       \/ (~GatePasses \/ "command" \in Faults) /\ tx' = Fail(tx)
    /\ UNCHANGED system

Commit ==
    /\ At("commit")
    /\ tx' = End(tx, "COMMIT")
    /\ UNCHANGED system

RestoreConf ==
    /\ \/ /\ At("options-back")
          /\ conf' = [conf EXCEPT ![site.options] = tx.was.conf[site.options]]
       \/ /\ At("root-back")
          /\ conf' = [conf EXCEPT !["root"] = tx.was.conf["root"]]
    /\ tx' = Advance(tx)
    /\ UNCHANGED <<disk, zone, timers, jobs, result, named>>

\* The installation removes what it has written, the migration every MANAGED
\* unit it finds.
Removed == IF tx.kind = "install" THEN tx.installed ELSE disk \cap Units

Remove ==
    /\ At("remove")
    /\ disk' = disk \ Removed
    /\ zone' = IF "zone" \in Removed THEN 0 ELSE zone
    /\ tx' = Advance([tx EXCEPT !.loose = @ \/ jobs["managed"] # 0])
    /\ UNCHANGED <<conf, timers, jobs, result, named>>

\* The installation removes the last written first and stops at the first
\* failure, the migration tries each file.
WriteOrder == <<"zone", "declaration", "updater", "service", "timer">>
MayStay ==
    IF tx.kind = "install"
    THEN {{WriteOrder[i] : i \in 1..n} \cap Removed : n \in 1..Len(WriteOrder)}
    ELSE SUBSET Removed

RestoreFails ==
    /\ Running /\ tx.undoing /\ "undo" \in Faults
    /\ \/ /\ Head(tx.todo) \in {"options-back", "root-back"}
          /\ UNCHANGED <<disk, zone>>
       \/ /\ At("remove")
          /\ \E left \in MayStay \ {{}} :
                /\ disk' = disk \ (Removed \ left)
                /\ zone' = IF "zone" \in Removed \ left THEN 0 ELSE zone
    /\ tx' = UndoFails(tx)
    /\ UNCHANGED <<conf, timers, jobs, result, named>>

Step ==
    /\ \/ Recheck \/ Backup \/ WriteArtifact \/ WriteConf \/ Command \/ CommandFails
       \/ FileFails \/ StartService \/ ServiceEnds \/ Gate \/ Commit
       \/ RestoreConf \/ Remove \/ RestoreFails
    /\ UNCHANGED <<site, published, issued>>

Crash ==
    /\ Running /\ "crash" \in Faults
    /\ tx' = End(tx, "DEAD")
    /\ UNCHANGED <<site, system, published, issued>>

(* The surroundings ********************************************************)

Publish ==
    /\ published < MaxSerial
    /\ published' = published + 1
    /\ UNCHANGED <<site, system, tx, issued>>

\* An installation is between its last comparison and its end.
InWindow == Running /\ tx.kind = "install" /\ Head(tx.todo) # "recheck"

Edit(f) ==
    /\ site.origin = "none"
    /\ f = "root" \/ site.options = f
    /\ \A g \in ConfFiles : conf[g] \cap {"edit", "late-edit"} = {}
    /\ conf' = [conf EXCEPT ![f] = @ \cup {IF InWindow THEN "late-edit" ELSE "edit"}]
    /\ UNCHANGED <<site, disk, zone, timers, jobs, result, named, published, tx, issued>>

Next ==
    \/ Start \/ Step \/ Crash \/ Publish
    \/ \E u \in Updaters : TimerFires(u) \/ Update(u) \/ UpdateFails(u)
    \/ UpdateFindsNoDirectory
    \/ \E f \in ConfFiles : Edit(f)

Spec == Init /\ [][Next]_vars

\* A timer that is active fires again and again; an update that is tried again
\* and again is at last downloaded and loaded.
Fairness == \A u \in Updaters : SF_vars(TimerFires(u) /\ jobs'[u] # 0) /\ SF_vars(Update(u))

FairSpec == Spec /\ Fairness
(* Properties **************************************************************)

Ends(outcome) == tx # None /\ tx.outcome = None /\ tx' # tx /\ tx'.outcome = outcome

\* A transaction that ends ROLLED-BACK has left the configuration and the
\* MANAGED files as they were, and the timers as planned, whatever
\* had failed (_rollback of both transactions).  Two cases are excepted where
\* the code cannot keep it: a job that still runs puts the zone file back, and
\* a stop of the old timer that reported its timeout after taking effect leaves
\* it stopped, as the flag the rollback looks at was not set.
RolledBackRestores ==
    [][Ends("ROLLED-BACK") =>
        /\ \A f \in ConfFiles : conf'[f] \ {"late-edit"} = tx.was.conf[f] \ {"late-edit"}
        /\ disk' = tx.was.disk
        /\ tx.kind = "install" => named'.serial = 0 /\ (~tx.loose => zone' = 0)
        /\ ~tx.cut => timers' = tx.was.timers]_vars

\* The two updaters are never both scheduled, unless a step of the rollback has
\* failed: the old timer stops before the new one starts, and the other way
\* round on the way back.
OneUpdater == timers.active = Updaters => ~tx.ok

\* What an administrator wrote into the configuration before or during the long
\* download and dry run stays in it (the second comparison of apply()).
EditsKept ==
    [][\A f \in ConfFiles : "edit" \in conf[f] => "edit" \in conf'[f]]_vars

\* Once a transaction has committed, every serial published comes to be served:
\* failed downloads and reloads are made good by a later run of the timer, also
\* when a job of the old updater finishes late with an older file.
Refreshes ==
    \A n \in 1..MaxSerial :
        tx # None /\ tx.outcome = "COMMIT" /\ published >= n ~> named.serial >= n
=============================================================================
