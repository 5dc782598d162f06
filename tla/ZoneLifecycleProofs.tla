------------------------ MODULE ZoneLifecycleProofs ------------------------
(***************************************************************************)
(* Theorems about ZoneLifecycle.                                           *)
(*                                                                         *)
(* First part: while every zone has one operator, no zone that was         *)
(* reported to exist is lost, whichever step of the six scripts fails, is  *)
(* undone or is cut off. The inductive invariant ZoneInv says of each      *)
(* command what keeps its zone between two steps: which files, which copy, *)
(* and which steps of the rollback still have to run before a copy may go. *)
(*                                                                         *)
(* Second part: with one operator in all, what a command reports is what   *)
(* it did to the files, the configuration loads at every moment, the index *)
(* is complete between commands, and the lifecycle of the zones is that of *)
(* LifecycleStates. The invariant SoloInv says that the files are those    *)
(* that the command found, with what its steps have changed and not taken  *)
(* back.                                                                   *)
(***************************************************************************)
EXTENDS ZoneLifecycle, TLAPS

(* The scripts *************************************************************)

\* The steps of the six scripts in their order, and as sets.

\* create.
LEMMA CreateScript ==
    /\ DOMAIN CreateSteps = 1..9
    /\ CreateSteps[1] = "zone-file" /\ CreateSteps[2] = "declaration"
    /\ CreateSteps[3] = "include" /\ CreateSteps[4] = "groups"
    /\ CreateSteps[5] = "check-zone" /\ CreateSteps[6] = "check-conf"
    /\ CreateSteps[7] = "reconfig" /\ CreateSteps[8] = "loaded"
    /\ CreateSteps[9] = "finish"
    /\ Range(CreateSteps) = {"zone-file", "declaration", "include", "groups", "check-zone",
                             "check-conf", "reconfig", "loaded", "finish"}
BY DEF CreateSteps, Range

\* disable.
LEMMA DisableScript ==
    /\ DOMAIN DisableSteps = 1..8
    /\ DisableSteps[1] = "directory" /\ DisableSteps[2] = "archive"
    /\ DisableSteps[3] = "drop-declaration" /\ DisableSteps[4] = "exclude"
    /\ DisableSteps[5] = "check-conf" /\ DisableSteps[6] = "reconfig"
    /\ DisableSteps[7] = "unloaded" /\ DisableSteps[8] = "finish"
    /\ Range(DisableSteps) = {"directory", "archive", "drop-declaration", "exclude",
                              "check-conf", "reconfig", "unloaded", "finish"}
BY DEF DisableSteps, Range

\* restore.
LEMMA RestoreScript ==
    /\ DOMAIN RestoreSteps = 1..8
    /\ RestoreSteps[1] = "check-zone" /\ RestoreSteps[2] = "declaration"
    /\ RestoreSteps[3] = "include" /\ RestoreSteps[4] = "check-conf"
    /\ RestoreSteps[5] = "reconfig" /\ RestoreSteps[6] = "loaded"
    /\ RestoreSteps[7] = "consume-archive" /\ RestoreSteps[8] = "finish"
    /\ Range(RestoreSteps) = {"check-zone", "declaration", "include", "check-conf",
                              "reconfig", "loaded", "consume-archive", "finish"}
BY DEF RestoreSteps, Range

\* quarantine.
LEMMA QuarantineScript ==
    /\ DOMAIN QuarantineSteps = 1..4
    /\ QuarantineSteps[1] = "package" /\ QuarantineSteps[2] = "drop-zone-file"
    /\ QuarantineSteps[3] = "consume-archive" /\ QuarantineSteps[4] = "finish"
    /\ Range(QuarantineSteps) = {"package", "drop-zone-file", "consume-archive", "finish"}
BY DEF QuarantineSteps, Range

\* quarantine-restore.
LEMMA QuarantineRestoreScript ==
    /\ DOMAIN QuarantineRestoreSteps = 1..8
    /\ QuarantineRestoreSteps[1] = "zone-file" /\ QuarantineRestoreSteps[2] = "check-zone"
    /\ QuarantineRestoreSteps[3] = "declaration" /\ QuarantineRestoreSteps[4] = "include"
    /\ QuarantineRestoreSteps[5] = "check-conf" /\ QuarantineRestoreSteps[6] = "reconfig"
    /\ QuarantineRestoreSteps[7] = "loaded" /\ QuarantineRestoreSteps[8] = "finish"
    /\ Range(QuarantineRestoreSteps) = {"zone-file", "check-zone", "declaration", "include",
                                        "check-conf", "reconfig", "loaded", "finish"}
BY DEF QuarantineRestoreSteps, Range

\* quarantine-purge.
LEMMA PurgeScript ==
    /\ DOMAIN PurgeSteps = 1..9
    /\ PurgeSteps[1] = "note-prepared" /\ PurgeSteps[2] = "stage"
    /\ PurgeSteps[3] = "note-staged" /\ PurgeSteps[4] = "rescue"
    /\ PurgeSteps[5] = "note-rescued" /\ PurgeSteps[6] = "drop-staged"
    /\ PurgeSteps[7] = "note-committed" /\ PurgeSteps[8] = "drop-rescue"
    /\ PurgeSteps[9] = "finish"
    /\ Range(PurgeSteps) = {"note-prepared", "stage", "note-staged", "rescue", "note-rescued",
                            "drop-staged", "note-committed", "drop-rescue", "finish"}
BY DEF PurgeSteps, Range

\* The undo scripts.
LEMMA UndoScripts ==
    /\ Range(CreateUndo) = {<<"restore-index", "include">>, <<"restore-groups", "groups">>,
         <<"remove-zone-file", "zone-file">>, <<"remove-declaration", "declaration">>,
         <<"reconfig", "reconfig">>}
    /\ Range(DisableUndo) = {<<"restore-index", "exclude">>,
         <<"rewrite-declaration", "archive">>, <<"remove-archive", "archive">>,
         <<"reconfig", "reconfig">>}
    /\ Range(RestoreUndo) = {<<"restore-index", "include">>,
         <<"remove-declaration", "declaration">>, <<"reconfig", "reconfig">>}
    /\ Range(QuarantineUndo) = {<<"rewrite-zone-file", "drop-zone-file">>,
         <<"rewrite-archive", "consume-archive">>, <<"remove-package", None>>}
    /\ Range(QuarantineRestoreUndo) = {<<"restore-index", "include">>,
         <<"remove-declaration", "declaration">>, <<"remove-zone-file", "zone-file">>,
         <<"reconfig", "reconfig">>}
    /\ Range(PurgeUndo) = {<<"unstage", "stage">>}
BY DEF CreateUndo, DisableUndo, RestoreUndo, QuarantineUndo, QuarantineRestoreUndo,
   PurgeUndo, Range

(* The inductive invariant *************************************************)

\* No zone is in the hands of two operators.
OwnZones == \A p, q \in Procs : p # q => Assigned[p] \intersect Assigned[q] = {}

\* The steps of a command on its zone.
Due(p) == {s \in Range(Steps(tx[p].cmd)) : s = "groups" => tx[p].zone \in Grouped}

Packing == {"quarantine", "quarantine-restore", "quarantine-purge"}

\* What a command is, and how far it is in its script.
Known(p) ==
    /\ phase[p] # "idle" =>
          /\ tx[p].cmd \in CommandNames /\ tx[p].zone \in Assigned[p]
          /\ tx[p].cmd \in Packing =>
                tx[p].package \in Packages /\ tx[p].package.zone = tx[p].zone
    /\ phase[p] = "planned" => tx[p].done = {}
    /\ phase[p] = "do" => tx[p].done \subseteq Due(p) /\ todo[p] = Due(p) \ tx[p].done
    /\ phase[p] = "undo" => todo[p] \subseteq {u[1] : u \in Range(UndoSteps(tx[p].cmd))}

HasCopy(z) == \E c \in Copies : c.zone = z

\* What plan() saw of the zone.
PlanOk(p) ==
    phase[p] = "planned" =>
      /\ tx[p].cmd \in {"disable", "restore"} => tx[p].zone \in disk.zoneFiles
      /\ tx[p].cmd = "quarantine-restore" => tx[p].zone \notin disk.zoneFiles

\* What the steps of the try block have written is there.
WritesOk(p) ==
    phase[p] = "do" =>
      /\ "zone-file" \in todo[p] => tx[p].zone \notin disk.zoneFiles
      /\ "zone-file" \in tx[p].done => tx[p].zone \in disk.zoneFiles
      /\ "declaration" \in tx[p].done => tx[p].zone \in disk.declared
      /\ "archive" \in tx[p].done => tx[p].zone \in disk.archived
      /\ "package" \in tx[p].done => tx[p].package \in disk.packages

\* create finds no zone file, so an existing zone is in a package.
CreateOk(p) ==
    phase[p] \in {"do", "undo"} /\ tx[p].cmd = "create" /\ tx[p].zone \in owned =>
        HasCopy(tx[p].zone)

\* disable keeps the declaration or the archived one beside the zone file.
DisableOk(p) ==
    phase[p] \in {"do", "undo"} /\ tx[p].cmd = "disable" =>
        /\ InPlace(tx[p].zone)
        /\ phase[p] = "undo" /\ "remove-archive" \in todo[p]
           /\ "rewrite-declaration" \notin todo[p] => tx[p].zone \in disk.declared

\* restore keeps the archive until nothing can fail.
RestoreOk(p) ==
    phase[p] \in {"do", "undo"} /\ tx[p].cmd = "restore" =>
        /\ InPlace(tx[p].zone)
        /\ tx[p].zone \in disk.archived \/ (phase[p] = "do" /\ todo[p] \subseteq {"finish"})

\* quarantine keeps the files or the package, and its rollback the package until
\* the files are back.
QuarantineOk(p) ==
    phase[p] \in {"do", "undo"} /\ tx[p].cmd = "quarantine" =>
        /\ \/ tx[p].package \in disk.packages
           \/ tx[p].zone \in disk.zoneFiles \intersect disk.archived
        /\ phase[p] = "do" =>
             /\ "drop-zone-file" \in todo[p] => tx[p].zone \in disk.zoneFiles
             /\ "consume-archive" \in todo[p] => tx[p].zone \in disk.archived
        /\ phase[p] = "undo" /\ "remove-package" \in todo[p] =>
             /\ "rewrite-zone-file" \in todo[p] \/ tx[p].zone \in disk.zoneFiles
             /\ "rewrite-archive" \in todo[p] \/ tx[p].zone \in disk.archived

\* quarantine-restore leaves the package where it is.
UnpackOk(p) ==
    phase[p] # "idle" /\ tx[p].cmd = "quarantine-restore" => tx[p].package \in disk.packages

\* purge has the package, in its place or staged, or the recovery archive, until
\* its manifest says that the package is gone.
PurgeOk(p) ==
    phase[p] \in {"do", "undo"} /\ tx[p].cmd = "quarantine-purge" =>
        /\ "rescue" \notin tx[p].done =>
              /\ tx[p].package \in disk.packages \union disk.staged
              /\ phase[p] = "do" =>
                    IF "stage" \in tx[p].done THEN tx[p].package \in disk.staged
                    ELSE tx[p].package \in disk.packages
        /\ "drop-staged" \in tx[p].done => "rescue" \in tx[p].done
        /\ "drop-rescue" \in tx[p].done => {"drop-staged", "note-committed"} \subseteq tx[p].done
        /\ "rescue" \in tx[p].done =>
              /\ "drop-rescue" \in tx[p].done \/ Archive(p) \in disk.rescued
              /\ phase[p] = "undo" => todo[p] = {}
        /\ "note-committed" \in tx[p].done /\ tx[p].zone \in owned =>
              Kept(tx[p].zone, tx[p].package)

FilesOk(p) ==
    /\ PlanOk(p) /\ WritesOk(p) /\ CreateOk(p) /\ DisableOk(p) /\ RestoreOk(p)
    /\ QuarantineOk(p) /\ UnpackOk(p) /\ PurgeOk(p)

ZoneInv ==
    /\ TypeOK
    /\ \A p \in Procs : Known(p) /\ FilesOk(p)
    /\ DataSurvives

\* The steps before the one to be run are not to be run any more.
LEMMA Order ==
    ASSUME NEW p \in Procs, NEW step, At(p, "do", step)
    PROVE  /\ tx[p].cmd = "create" /\ step = "finish" =>
                "zone-file" \notin todo[p] /\ "declaration" \notin todo[p]
           /\ tx[p].cmd = "disable" /\ step = "drop-declaration" => "archive" \notin todo[p]
           /\ tx[p].cmd = "restore" /\ step = "consume-archive" =>
                todo[p] \intersect Range(RestoreSteps) \subseteq {"consume-archive", "finish"}
                /\ "declaration" \notin todo[p]
           /\ tx[p].cmd = "quarantine" /\ step # "package" => "package" \notin todo[p]
                                                            \/ step \notin Range(QuarantineSteps)
           /\ tx[p].cmd = "quarantine-purge" =>
                /\ step = "rescue" => "stage" \notin todo[p]
                /\ step = "drop-staged" => "rescue" \notin todo[p]
                /\ step = "drop-rescue" =>
                     "drop-staged" \notin todo[p] /\ "note-committed" \notin todo[p]
                /\ step = "finish" => "note-committed" \notin todo[p]
<1>0. \A i, j \in DOMAIN Steps(tx[p].cmd) :
         i < j /\ Steps(tx[p].cmd)[j] = step => Steps(tx[p].cmd)[i] \notin todo[p]
  BY DEF At, Script
<1>1. CASE tx[p].cmd = "create"
  <2>1. Steps(tx[p].cmd) = CreateSteps
    BY <1>1 DEF Steps
  <2> QED
    BY <1>0, <1>1, <2>1, CreateScript
<1>2. CASE tx[p].cmd = "disable"
  <2>1. Steps(tx[p].cmd) = DisableSteps
    BY <1>2 DEF Steps
  <2> QED
    BY <1>0, <1>2, <2>1, DisableScript
<1>3. CASE tx[p].cmd = "restore"
  <2>1. Steps(tx[p].cmd) = RestoreSteps
    BY <1>3 DEF Steps
  <2> QED
    BY <1>0, <1>3, <2>1, RestoreScript
<1>4. CASE tx[p].cmd = "quarantine"
  <2>1. Steps(tx[p].cmd) = QuarantineSteps
    BY <1>4 DEF Steps
  <2> QED
    BY <1>0, <1>4, <2>1, QuarantineScript
<1>5. CASE tx[p].cmd = "quarantine-purge"
  <2>1. Steps(tx[p].cmd) = PurgeSteps
    BY <1>5 DEF Steps
  <2> QED
    BY <1>0, <1>5, <2>1, PurgeScript
<1> QED
  BY <1>1, <1>2, <1>3, <1>4, <1>5

\* The same in the except block.
LEMMA UndoOrder ==
    ASSUME NEW p \in Procs, NEW step, At(p, "undo", step)
    PROVE  /\ tx[p].cmd = "disable" /\ step = "remove-archive" =>
                "rewrite-declaration" \notin todo[p]
           /\ tx[p].cmd = "quarantine" /\ step = "remove-package" =>
                "rewrite-zone-file" \notin todo[p] /\ "rewrite-archive" \notin todo[p]
<1> DEFINE u == UndoSteps(tx[p].cmd)
<1>0. \A i, j \in DOMAIN u : i < j /\ u[j][1] = step => u[i][1] \notin todo[p]
  BY DEF At, Script
<1>1. CASE tx[p].cmd = "disable"
  <2>1. u = DisableUndo
    BY <1>1 DEF UndoSteps
  <2>2. DOMAIN DisableUndo = 1..4 /\ DisableUndo[2][1] = "rewrite-declaration"
        /\ DisableUndo[3][1] = "remove-archive"
    BY DEF DisableUndo
  <2> QED
    BY <1>0, <1>1, <2>1, <2>2
<1>2. CASE tx[p].cmd = "quarantine"
  <2>1. u = QuarantineUndo
    BY <1>2 DEF UndoSteps
  <2>2. DOMAIN QuarantineUndo = 1..3 /\ QuarantineUndo[1][1] = "rewrite-zone-file"
        /\ QuarantineUndo[2][1] = "rewrite-archive" /\ QuarantineUndo[3][1] = "remove-package"
    BY DEF QuarantineUndo
  <2> QED
    BY <1>0, <1>2, <2>1, <2>2
<1> QED
  BY <1>1, <1>2

\* The steps and undo steps of each command.
LEMMA ScriptSteps ==
    /\ Steps("create") = CreateSteps /\ Steps("disable") = DisableSteps
    /\ Steps("restore") = RestoreSteps /\ Steps("quarantine") = QuarantineSteps
    /\ Steps("quarantine-restore") = QuarantineRestoreSteps
    /\ Steps("quarantine-purge") = PurgeSteps
    /\ UndoSteps("create") = CreateUndo /\ UndoSteps("disable") = DisableUndo
    /\ UndoSteps("restore") = RestoreUndo /\ UndoSteps("quarantine") = QuarantineUndo
    /\ UndoSteps("quarantine-restore") = QuarantineRestoreUndo
    /\ UndoSteps("quarantine-purge") = PurgeUndo
BY DEF Steps, UndoSteps

\* Which commands have which steps.
LEMMA WhoseStep ==
    ASSUME NEW cmd \in CommandNames, NEW s \in Range(Steps(cmd))
    PROVE  /\ s \in DoSteps
           /\ s = "zone-file" => cmd \in {"create", "quarantine-restore"}
           /\ s \in {"declaration", "include"} => cmd \in {"create", "restore", "quarantine-restore"}
           /\ s \in {"archive", "drop-declaration"} => cmd = "disable"
           /\ s \in {"package", "drop-zone-file"} => cmd = "quarantine"
           /\ s = "consume-archive" => cmd \in {"restore", "quarantine"}
           /\ s \in PurgeNotes \union {"stage", "rescue", "drop-staged", "drop-rescue"} =>
                 cmd = "quarantine-purge"
<1>1. CASE cmd = "create"
  BY <1>1, ScriptSteps, CreateScript DEF DoSteps, PurgeNotes
<1>2. CASE cmd = "disable"
  BY <1>2, ScriptSteps, DisableScript DEF DoSteps, PurgeNotes
<1>3. CASE cmd = "restore"
  BY <1>3, ScriptSteps, RestoreScript DEF DoSteps, PurgeNotes
<1>4. CASE cmd = "quarantine"
  BY <1>4, ScriptSteps, QuarantineScript DEF DoSteps, PurgeNotes
<1>5. CASE cmd = "quarantine-restore"
  BY <1>5, ScriptSteps, QuarantineRestoreScript DEF DoSteps, PurgeNotes
<1>6. CASE cmd = "quarantine-purge"
  BY <1>6, ScriptSteps, PurgeScript DEF DoSteps, PurgeNotes
<1> QED
  BY <1>1, <1>2, <1>3, <1>4, <1>5, <1>6 DEF CommandNames

\* Which commands have which undo steps.
LEMMA WhoseUndo ==
    ASSUME NEW cmd \in CommandNames, NEW u \in Range(UndoSteps(cmd))
    PROVE  /\ u[1] \in UndoStepNames
           /\ u[1] = "remove-zone-file" => cmd \in {"create", "quarantine-restore"}
           /\ u[1] = "remove-declaration" => cmd \in {"create", "restore", "quarantine-restore"}
           /\ u[1] \in {"rewrite-declaration", "remove-archive"} => cmd = "disable"
           /\ u[1] \in {"rewrite-zone-file", "rewrite-archive", "remove-package"} =>
                 cmd = "quarantine"
           /\ u[1] = "unstage" => cmd = "quarantine-purge"
<1>1. CASE cmd = "create"
  BY <1>1, ScriptSteps, UndoScripts DEF UndoStepNames
<1>2. CASE cmd = "disable"
  BY <1>2, ScriptSteps, UndoScripts DEF UndoStepNames
<1>3. CASE cmd = "restore"
  BY <1>3, ScriptSteps, UndoScripts DEF UndoStepNames
<1>4. CASE cmd = "quarantine"
  BY <1>4, ScriptSteps, UndoScripts DEF UndoStepNames
<1>5. CASE cmd = "quarantine-restore"
  BY <1>5, ScriptSteps, UndoScripts DEF UndoStepNames
<1>6. CASE cmd = "quarantine-purge"
  BY <1>6, ScriptSteps, UndoScripts DEF UndoStepNames
<1> QED
  BY <1>1, <1>2, <1>3, <1>4, <1>5, <1>6 DEF CommandNames

\* The undo steps a failed step makes due.
LEMMA UndoDue ==
    ASSUME NEW cmd \in CommandNames, NEW u \in Range(UndoSteps(cmd))
    PROVE  /\ u[1] = "rewrite-declaration" => u[2] = "archive"
           /\ u[1] = "remove-archive" => u[2] = "archive"
           /\ u[1] = "rewrite-zone-file" => u[2] = "drop-zone-file"
           /\ u[1] = "rewrite-archive" => u[2] = "consume-archive"
           /\ cmd = "quarantine-purge" => u[1] = "unstage"
<1>1. CASE cmd = "create"
  BY <1>1, ScriptSteps, UndoScripts
<1>2. CASE cmd = "disable"
  BY <1>2, ScriptSteps, UndoScripts
<1>3. CASE cmd = "restore"
  BY <1>3, ScriptSteps, UndoScripts
<1>4. CASE cmd = "quarantine"
  BY <1>4, ScriptSteps, UndoScripts
<1>5. CASE cmd = "quarantine-restore"
  BY <1>5, ScriptSteps, UndoScripts
<1>6. CASE cmd = "quarantine-purge"
  BY <1>6, ScriptSteps, UndoScripts
<1> QED
  BY <1>1, <1>2, <1>3, <1>4, <1>5, <1>6 DEF CommandNames

(* The forms of a step *****************************************************)

\* Only p has moved.
Alone(p) == \A q \in Procs \ {p} : phase'[q] = phase[q] /\ todo'[q] = todo[q] /\ tx'[q] = tx[q]

\* The command of p is the same, with the same package.
Same(p) == tx'[p].cmd = tx[p].cmd /\ tx'[p].zone = tx[p].zone /\ tx'[p].package = tx[p].package

\* The variables of p keep their types.
Typed ==
    /\ phase' \in [Procs -> {"idle", "planned", "do", "undo"}]
    /\ todo' \in [Procs -> SUBSET (DoSteps \union UndoStepNames)]
    /\ tx' \in [Procs -> Txs]

\* A step that is done.
LEMMA DoneForm ==
    ASSUME TypeOK, NEW p \in Procs, NEW step \in DoSteps, Done(p, step)
    PROVE  /\ Typed /\ Alone(p) /\ Same(p)
           /\ phase'[p] = phase[p] /\ todo'[p] = todo[p] \ {step}
           /\ tx'[p].done = tx[p].done \union {step}
<1>1. tx[p] \in Txs /\ tx \in [Procs -> Txs] /\ todo \in [Procs -> SUBSET (DoSteps \union UndoStepNames)]
      /\ phase \in [Procs -> {"idle", "planned", "do", "undo"}]
  BY DEF TypeOK
<1> DEFINE t == [tx[p] EXCEPT !.done = @ \union {step}]
<1>2. tx' = [tx EXCEPT ![p] = t]
  BY <1>1 DEF Done
<1>3. /\ t \in Txs /\ t.cmd = tx[p].cmd /\ t.zone = tx[p].zone /\ t.package = tx[p].package
      /\ t.done = tx[p].done \union {step}
  BY <1>1 DEF Txs
<1> HIDE DEF t
<1>4. tx'[p] = t /\ (\A q \in Procs \ {p} : tx'[q] = tx[q]) /\ tx' \in [Procs -> Txs]
  BY <1>1, <1>2, <1>3
<1>5. /\ todo' \in [Procs -> SUBSET (DoSteps \union UndoStepNames)]
      /\ todo'[p] = todo[p] \ {step} /\ (\A q \in Procs \ {p} : todo'[q] = todo[q])
      /\ phase' = phase
  BY <1>1 DEF Done
<1> QED
  BY <1>1, <1>3, <1>4, <1>5 DEF Typed, Alone, Same

\* A step that raises.
LEMMA RaiseForm ==
    ASSUME TypeOK, NEW p \in Procs, Known(p), phase[p] = "do", NEW step, Raise(p, step)
    PROVE  /\ Typed /\ Alone(p) /\ Same(p)
           /\ phase'[p] = "undo" /\ tx'[p].done = tx[p].done
           /\ todo'[p] = {u[1] : u \in {v \in Range(UndoSteps(tx[p].cmd)) :
                    /\ v[2] \in tx[p].done \union ({step} \intersect {"reconfig"}) \union {None}
                    /\ v[1] = "unstage" =>
                         "rescue" \notin tx[p].done \union ({step} \intersect {"reconfig"})}}
<1>1. tx[p] \in Txs /\ tx \in [Procs -> Txs] /\ todo \in [Procs -> SUBSET (DoSteps \union UndoStepNames)]
      /\ phase \in [Procs -> {"idle", "planned", "do", "undo"}]
  BY DEF TypeOK
<1> DEFINE c == step = "finish" /\ tx[p].cmd # "quarantine-purge"
           t == [tx[p] EXCEPT !.committed = c]
           due == {u[1] : u \in {v \in Range(UndoSteps(tx[p].cmd)) :
                    /\ v[2] \in tx[p].done \union ({step} \intersect {"reconfig"}) \union {None}
                    /\ v[1] = "unstage" =>
                         "rescue" \notin tx[p].done \union ({step} \intersect {"reconfig"})}}
<1>2. tx' = [tx EXCEPT ![p] = t]
  BY <1>1 DEF Raise
<1>3. /\ t \in Txs /\ t.cmd = tx[p].cmd /\ t.zone = tx[p].zone /\ t.package = tx[p].package
      /\ t.done = tx[p].done
  BY <1>1 DEF Txs
<1>4. todo' = [todo EXCEPT ![p] = due] /\ phase' = [phase EXCEPT ![p] = "undo"]
  BY DEF Raise
<1>5. due \subseteq UndoStepNames
  BY WhoseUndo DEF Known
<1> HIDE DEF t, due
<1>6. tx'[p] = t /\ (\A q \in Procs \ {p} : tx'[q] = tx[q]) /\ tx' \in [Procs -> Txs]
  BY <1>1, <1>2, <1>3
<1>7. /\ todo' \in [Procs -> SUBSET (DoSteps \union UndoStepNames)]
      /\ todo'[p] = due /\ (\A q \in Procs \ {p} : todo'[q] = todo[q])
  BY <1>1, <1>4, <1>5
<1>8. /\ phase' \in [Procs -> {"idle", "planned", "do", "undo"}]
      /\ phase'[p] = "undo" /\ (\A q \in Procs \ {p} : phase'[q] = phase[q])
  BY <1>1, <1>4
<1>9. /\ Typed /\ Alone(p) /\ Same(p) /\ phase'[p] = "undo" /\ tx'[p].done = tx[p].done
      /\ todo'[p] = due
  BY <1>1, <1>3, <1>6, <1>7, <1>8 DEF Typed, Alone, Same
<1> QED
  BY <1>9 DEF due

\* The end of a command.
LEMMA EndForm ==
    ASSUME TypeOK, NEW p \in Procs, NEW outcome \in Outcomes, End(p, outcome)
    PROVE  Typed /\ Alone(p) /\ phase'[p] = "idle" /\ UNCHANGED <<disk, served, ran>>
<1>1. tx[p] \in Txs /\ tx \in [Procs -> Txs] /\ todo \in [Procs -> SUBSET (DoSteps \union UndoStepNames)]
      /\ phase \in [Procs -> {"idle", "planned", "do", "undo"}]
  BY DEF TypeOK
<1> DEFINE t == [tx[p] EXCEPT !.outcome = outcome]
<1>2. tx' = [tx EXCEPT ![p] = t]
  BY <1>1 DEF End
<1>3. t \in Txs
  BY <1>1 DEF Txs
<1> HIDE DEF t
<1>4. (\A q \in Procs \ {p} : tx'[q] = tx[q]) /\ tx' \in [Procs -> Txs]
  BY <1>1, <1>2, <1>3
<1>5. /\ todo' \in [Procs -> SUBSET (DoSteps \union UndoStepNames)]
      /\ (\A q \in Procs \ {p} : todo'[q] = todo[q])
      /\ phase' \in [Procs -> {"idle", "planned", "do", "undo"}]
      /\ phase'[p] = "idle" /\ (\A q \in Procs \ {p} : phase'[q] = phase[q])
      /\ UNCHANGED <<disk, served, ran>>
  BY <1>1 DEF End
<1> QED
  BY <1>4, <1>5 DEF Typed, Alone

\* An undo step.
LEMMA UndoneForm ==
    ASSUME TypeOK, NEW p \in Procs, NEW step, Undone(p, step)
    PROVE  /\ Typed /\ Alone(p) /\ Same(p)
           /\ phase'[p] = phase[p] /\ todo'[p] = todo[p] \ {step}
           /\ tx'[p].done = tx[p].done
<1>1. tx \in [Procs -> Txs] /\ todo \in [Procs -> SUBSET (DoSteps \union UndoStepNames)]
      /\ phase \in [Procs -> {"idle", "planned", "do", "undo"}]
  BY DEF TypeOK
<1> QED
  BY <1>1 DEF Typed, Alone, Same, Undone

\* An undo step that fails.
LEMMA NotUndoneForm ==
    ASSUME TypeOK, NEW p \in Procs, NotUndone(p)
    PROVE  /\ Typed /\ Alone(p) /\ Same(p)
           /\ phase'[p] = phase[p] /\ todo'[p] = {}
           /\ tx'[p].done = tx[p].done
<1>1. tx[p] \in Txs /\ tx \in [Procs -> Txs] /\ todo \in [Procs -> SUBSET (DoSteps \union UndoStepNames)]
      /\ phase \in [Procs -> {"idle", "planned", "do", "undo"}]
  BY DEF TypeOK
<1> DEFINE t == [tx[p] EXCEPT !.undone = FALSE]
<1>2. tx' = [tx EXCEPT ![p] = t]
  BY <1>1 DEF NotUndone
<1>3. /\ t \in Txs /\ t.cmd = tx[p].cmd /\ t.zone = tx[p].zone /\ t.package = tx[p].package
      /\ t.done = tx[p].done
  BY <1>1 DEF Txs
<1> HIDE DEF t
<1>4. tx'[p] = t /\ (\A q \in Procs \ {p} : tx'[q] = tx[q]) /\ tx' \in [Procs -> Txs]
  BY <1>1, <1>2, <1>3
<1>5. /\ todo' \in [Procs -> SUBSET (DoSteps \union UndoStepNames)]
      /\ todo'[p] = {} /\ (\A q \in Procs \ {p} : todo'[q] = todo[q])
      /\ phase' = phase
  BY <1>1 DEF NotUndone
<1> QED
  BY <1>1, <1>3, <1>4, <1>5 DEF Typed, Alone, Same

(* The zones of others *****************************************************)

\* A step that changes no file but those of the zone of p.
Elsewhere(p) ==
    /\ disk' \in Disks
    /\ \A z \in Zones \ {tx[p].zone} :
          /\ z \in disk'.zoneFiles <=> z \in disk.zoneFiles
          /\ z \in disk'.declared <=> z \in disk.declared
          /\ z \in disk'.archived <=> z \in disk.archived
          /\ z \in owned' <=> z \in owned
    /\ \A k \in Packages : k.zone # tx[p].zone =>
          /\ k \in disk'.packages <=> k \in disk.packages
          /\ k \in disk'.staged <=> k \in disk.staged
    /\ \A a \in Archives : a.of.zone # tx[p].zone =>
          (a \in disk'.rescued <=> a \in disk.rescued)

\* The variables without a part in the files.
Rest == /\ served' \in SUBSET Zones /\ owned' \in SUBSET Zones /\ damaged' \in BOOLEAN
        /\ UNCHANGED ran

\* Nothing happens to another zone or its copies.
LEMMA CopiesElsewhere ==
    ASSUME TypeOK, NEW p \in Procs, Elsewhere(p), NEW z \in Zones \ {tx[p].zone}
    PROVE  /\ InPlace(z)' <=> InPlace(z)
           /\ \A k : Kept(z, k)' <=> Kept(z, k)
           /\ HasCopy(z)' <=> HasCopy(z)
<1>1. disk \in Disks /\ disk' \in Disks
  BY DEF TypeOK, Elsewhere
<1>2. InPlace(z)' <=> InPlace(z)
  BY DEF InPlace, Elsewhere
<1>3. ASSUME NEW c, c.zone = z PROVE c \in Copies' <=> c \in Copies
  <2>1. c \in disk'.packages <=> c \in disk.packages
    BY <1>1, <1>3 DEF Disks, Elsewhere
  <2>2. c \in disk'.staged <=> c \in disk.staged
    BY <1>1, <1>3 DEF Disks, Elsewhere
  <2>3. ASSUME NEW a, a.of = c PROVE a \in disk'.rescued <=> a \in disk.rescued
    BY <1>1, <1>3, <2>3 DEF Disks, Elsewhere
  <2> QED
    BY <2>1, <2>2, <2>3 DEF Copies
<1> QED
  BY <1>2, <1>3 DEF Kept, HasCopy

\* What holds of another command goes on to hold.
LEMMA Others ==
    ASSUME OwnZones, ZoneInv, NEW p \in Procs, phase[p] # "idle", Alone(p), Elsewhere(p),
           UNCHANGED ran, NEW q \in Procs \ {p}
    PROVE  Known(q)' /\ FilesOk(q)'
<1>1. /\ phase'[q] = phase[q] /\ todo'[q] = todo[q] /\ tx'[q] = tx[q] /\ ran'[q] = ran[q]
      /\ Known(q) /\ FilesOk(q) /\ Known(p) /\ TypeOK
  BY DEF ZoneInv, Alone
<1>2. Known(q)'
  BY <1>1 DEF Known, Due
<1>3. CASE phase[q] = "idle"
  BY <1>1, <1>2, <1>3 DEF FilesOk, PlanOk, WritesOk, CreateOk, DisableOk, RestoreOk, QuarantineOk,
     UnpackOk, PurgeOk
<1>4. CASE phase[q] # "idle"
  <2>1. tx[q].zone \in Zones \ {tx[p].zone} /\ tx[q].cmd \in CommandNames
    BY <1>1, <1>4, LifecycleAssumption DEF Known, OwnZones
  <2> DEFINE z == tx[q].zone  k == tx[q].package
  <2>2. tx[q].cmd \in Packing => k \in Packages /\ k.zone = z
    BY <1>1, <1>4 DEF Known
  <2>3. /\ z \in disk'.zoneFiles <=> z \in disk.zoneFiles
        /\ z \in disk'.declared <=> z \in disk.declared
        /\ z \in disk'.archived <=> z \in disk.archived
        /\ z \in owned' <=> z \in owned
    BY <2>1 DEF Elsewhere
  <2>4. tx[q].cmd \in Packing =>
          /\ k \in disk'.packages <=> k \in disk.packages
          /\ k \in disk'.staged <=> k \in disk.staged
    BY <2>1, <2>2 DEF Elsewhere
  <2>5. tx[q].cmd \in Packing => (Archive(q)' \in disk'.rescued <=> Archive(q) \in disk.rescued)
    <3>1. Archive(q)' = Archive(q)
      BY <1>1 DEF Archive, Package
    <3>2. tx[q].cmd \in Packing => Archive(q) \in Archives /\ Archive(q).of.zone = z
      BY <1>1, <2>2 DEF Archive, Archives, Package, TypeOK
    <3> QED
      BY <2>1, <3>1, <3>2 DEF Elsewhere
  <2>6. /\ InPlace(z)' <=> InPlace(z)
        /\ Kept(z, k)' <=> Kept(z, k)
        /\ HasCopy(z)' <=> HasCopy(z)
    BY <1>1, <2>1, CopiesElsewhere
  <2>7. /\ InPlace(tx[q].zone)' <=> InPlace(tx[q].zone)
        /\ Kept(tx[q].zone, tx[q].package)' <=> Kept(tx[q].zone, tx[q].package)
        /\ HasCopy(tx[q].zone)' <=> HasCopy(tx[q].zone)
    BY <2>6
  <2>8. PlanOk(q)' /\ WritesOk(q)'
    BY <1>1, <2>3, <2>4, <2>7, WhoseStep DEF FilesOk, PlanOk, WritesOk, Known, Due, Packing
  <2>9. CreateOk(q)' /\ DisableOk(q)' /\ RestoreOk(q)'
    BY <1>1, <2>3, <2>7 DEF FilesOk, CreateOk, DisableOk, RestoreOk
  <2>10. QuarantineOk(q)' /\ UnpackOk(q)'
    BY <1>1, <2>3, <2>4, <2>7 DEF FilesOk, QuarantineOk, UnpackOk, Packing
  <2>11. PurgeOk(q)'
    BY <1>1, <2>3, <2>4, <2>5, <2>7 DEF FilesOk, PurgeOk, Packing
  <2> QED
    BY <1>2, <2>8, <2>9, <2>10, <2>11 DEF FilesOk
<1> QED
  BY <1>2, <1>3, <1>4

\* What is known of a command under way keeps its zone.
LEMMA CommandKeeps ==
    ASSUME NEW p \in Procs, TypeOK', Known(p)', FilesOk(p)', phase'[p] \in {"do", "undo"},
           tx'[p].zone \in owned'
    PROVE  Kept(tx[p].zone, None)'
<1> DEFINE z == tx'[p].zone  k == tx'[p].package
<1>0. /\ disk' \in Disks /\ tx'[p].cmd \in CommandNames
      /\ \A c \in Copies' : c \in Packages /\ c # None
  BY NoneAssumption DEF TypeOK, Known, Disks, Copies, Archives
<1>1. CASE tx'[p].cmd \in {"disable", "restore"}
  BY <1>1 DEF FilesOk, DisableOk, RestoreOk, Kept
<1>2. CASE tx'[p].cmd = "create"
  <2>1. HasCopy(tx[p].zone)'
    BY <1>2 DEF FilesOk, CreateOk
  <2> QED
    BY <1>0, <2>1 DEF HasCopy, Kept
<1>3. ASSUME tx'[p].cmd \in Packing, k \in Copies' PROVE Kept(tx[p].zone, None)'
  <2>1. k.zone = z
    BY <1>3 DEF Known
  <2> QED
    BY <1>0, <1>3, <2>1 DEF Kept
<1>4. CASE tx'[p].cmd = "quarantine"
  <2>1. k \in disk'.packages \/ z \in disk'.zoneFiles \intersect disk'.archived
    BY <1>4 DEF FilesOk, QuarantineOk
  <2>2. CASE k \in disk'.packages
    BY <1>3, <1>4, <2>2 DEF Packing, Copies
  <2>3. CASE z \in disk'.zoneFiles \intersect disk'.archived
    BY <2>3 DEF Kept, InPlace
  <2> QED
    BY <2>1, <2>2, <2>3
<1>5. CASE tx'[p].cmd = "quarantine-restore"
  BY <1>3, <1>5 DEF Packing, Copies, FilesOk, UnpackOk
<1>6. CASE tx'[p].cmd = "quarantine-purge"
  <2>0. PurgeOk(p)' /\ Archive(p)' = [of |-> k, by |-> p, nr |-> ran'[p]]
    BY DEF FilesOk, Archive, Package
  <2>1. CASE "rescue" \notin tx'[p].done
    BY <1>3, <1>6, <2>0, <2>1 DEF PurgeOk, Packing, Copies
  <2>2. CASE "rescue" \in tx'[p].done /\ "drop-rescue" \notin tx'[p].done
    <3>1. Archive(p)' \in disk'.rescued /\ Archive(p)'.of = k
      BY <1>6, <2>0, <2>2 DEF PurgeOk
    <3>2. k \in Copies'
      BY <3>1 DEF Copies
    <3> QED
      BY <1>3, <1>6, <3>2 DEF Packing
  <2>3. CASE "drop-rescue" \in tx'[p].done
    <3>1. Kept(tx[p].zone, tx[p].package)'
      BY <1>6, <2>0, <2>3 DEF PurgeOk
    <3> QED
      BY <1>0, <3>1 DEF Kept
  <2> QED
    BY <2>1, <2>2, <2>3
<1> QED
  BY <1>0, <1>1, <1>2, <1>4, <1>5, <1>6 DEF CommandNames

\* A step of a command under way keeps the invariant if it keeps what is known of
\* the command.
LEMMA Moves ==
    ASSUME OwnZones, ZoneInv, NEW p \in Procs, phase[p] \in {"do", "undo"},
           Typed, Alone(p), Same(p), Elsewhere(p), Rest,
           Known(p)', FilesOk(p)', phase'[p] \in {"do", "undo"}
    PROVE  ZoneInv'
<1>1. TypeOK'
  BY DEF ZoneInv, TypeOK, Typed, Elsewhere, Rest
<1>2. \A q \in Procs : Known(q)' /\ FilesOk(q)'
  BY Others DEF Rest
<1>3. ASSUME NEW z \in owned' PROVE Kept(z, None)'
  <2>1. CASE z = tx[p].zone
    <3>1. tx'[p].zone = z
      BY <2>1 DEF Same
    <3> QED
      BY <1>1, <2>1, <3>1, CommandKeeps
  <2>2. CASE z # tx[p].zone
    <3>1. z \in Zones \ {tx[p].zone} /\ TypeOK
      BY <1>1, <2>2 DEF ZoneInv, TypeOK
    <3>2. z \in owned
      BY <3>1, <1>3 DEF Elsewhere
    <3> QED
      BY <3>1, <3>2, CopiesElsewhere DEF ZoneInv, DataSurvives
  <2> QED
    BY <2>1, <2>2
<1> QED
  BY <1>1, <1>2, <1>3 DEF ZoneInv, DataSurvives

\* A step that changes no files keeps the invariant if it keeps what is known of
\* its command, and what it reports to exist is kept.
LEMMA Stays ==
    ASSUME OwnZones, ZoneInv, NEW p \in Procs, Typed, Alone(p),
           UNCHANGED <<disk, served>>, damaged' \in BOOLEAN,
           owned' = owned \/ (/\ phase[p] # "idle" /\ owned' \subseteq owned \union {tx[p].zone}
                              /\ owned \subseteq owned' /\ Kept(tx[p].zone, None)),
           ran' \in [Procs -> 0..MaxTx], \A q \in Procs \ {p} : ran'[q] = ran[q],
           Known(p)', FilesOk(p)'
    PROVE  ZoneInv'
<1>1. TypeOK'
  <2>1. owned' \in SUBSET Zones
    BY LifecycleAssumption DEF ZoneInv, Known, TypeOK
  <2> QED
    BY <2>1 DEF ZoneInv, TypeOK, Typed
<1>2. ASSUME NEW q \in Procs \ {p} PROVE Known(q)' /\ FilesOk(q)'
  <2>1. /\ phase'[q] = phase[q] /\ todo'[q] = todo[q] /\ tx'[q] = tx[q] /\ ran'[q] = ran[q]
        /\ Known(q) /\ FilesOk(q) /\ Known(p)
    BY DEF ZoneInv, Alone
  <2>2. Known(q)'
    BY <2>1 DEF Known, Due
  <2>3. phase[q] # "idle" => (tx[q].zone \in owned' <=> tx[q].zone \in owned)
    BY <2>1, LifecycleAssumption DEF Known, OwnZones
  <2>4. Archive(q)' = Archive(q) /\ disk' = disk
    BY <2>1 DEF Archive, Package
  <2>5. /\ InPlace(tx[q].zone)' <=> InPlace(tx[q].zone)
        /\ Kept(tx[q].zone, tx[q].package)' <=> Kept(tx[q].zone, tx[q].package)
        /\ HasCopy(tx[q].zone)' <=> HasCopy(tx[q].zone)
    BY <2>1, <2>4 DEF InPlace, Kept, HasCopy, Copies
  <2>6. PlanOk(q)' /\ WritesOk(q)' /\ QuarantineOk(q)' /\ UnpackOk(q)' /\ RestoreOk(q)' /\ DisableOk(q)'
    BY <2>1, <2>4, <2>5 DEF FilesOk, PlanOk, WritesOk, QuarantineOk, UnpackOk, RestoreOk, DisableOk
  <2>7. CreateOk(q)' /\ PurgeOk(q)'
    BY <2>1, <2>3, <2>4, <2>5 DEF FilesOk, CreateOk, PurgeOk
  <2> QED
    BY <2>2, <2>6, <2>7 DEF FilesOk
<1>3. ASSUME NEW z \in owned' PROVE Kept(z, None)'
  <2>1. Kept(z, None)
    BY <1>3 DEF ZoneInv, DataSurvives
  <2> QED
    BY <2>1 DEF Kept, InPlace, Copies
<1> QED
  BY <1>1, <1>2, <1>3 DEF ZoneInv, DataSurvives

(* A failed step ***********************************************************)

\* The files that what is known of a command is about, but for those of a purge.
Plain == UNCHANGED <<disk.zoneFiles, disk.declared, disk.archived, disk.packages>>

\* An unchanged disk.
LEMMA SameDisk ==
    ASSUME TypeOK, NEW p \in Procs, UNCHANGED <<disk, owned>>
    PROVE  Elsewhere(p) /\ Plain
BY DEF Elsewhere, TypeOK, Plain

\* What a file operation that raises leaves of a purge.
LEMMA RemainsKeeps ==
    ASSUME ZoneInv, NEW p \in Procs, NEW step, At(p, "do", step), disk' \in Remains(p, step),
           UNCHANGED owned
    PROVE  /\ Elsewhere(p) /\ Plain
           /\ disk # disk' => tx[p].cmd = "quarantine-purge" /\ step \in {"rescue", "drop-staged"}
           /\ Archive(p) \in disk.rescued => Archive(p) \in disk'.rescued
           /\ \A c : c # tx[p].package => (c \in Copies <=> c \in Copies')
           /\ step # "drop-staged" => disk'.staged = disk.staged
<1>1. CASE disk' = disk
  BY <1>1, SameDisk DEF ZoneInv, Copies
<1>2. CASE disk' # disk
  <2>1. Known(p) /\ TypeOK /\ disk \in Disks /\ phase[p] = "do" /\ step \in todo[p]
        /\ ran[p] \in 0..MaxTx
    BY DEF ZoneInv, TypeOK, At
  <2>2. step \in {"rescue", "drop-staged"}
    BY <1>2 DEF Remains
  <2>3. tx[p].cmd = "quarantine-purge"
    BY <2>1, <2>2, WhoseStep DEF Known, Due
  <2>4. tx[p].package \in Packages /\ tx[p].package.zone = tx[p].zone
    BY <2>1, <2>3 DEF Known, Packing
  <2>5. CASE step = "rescue" /\ disk' = [disk EXCEPT !.rescued = @ \union {Archive(p)}]
    <3>1. /\ disk' \in Disks /\ disk'.rescued = disk.rescued \union {Archive(p)}
          /\ disk'.staged = disk.staged /\ Plain
          /\ Archive(p) \in Archives /\ Archive(p).of = tx[p].package
      BY <2>1, <2>4, <2>5 DEF Disks, Plain, Archive, Archives, Package
    <3>2. Elsewhere(p)
      BY <2>4, <3>1 DEF Elsewhere, Plain
    <3> QED
      BY <2>2, <2>3, <3>1, <3>2, <2>5 DEF Copies, Plain
  <2>6. CASE step = "drop-staged" /\ disk' = [disk EXCEPT !.staged = @ \ {Package(p)}]
    <3>1. /\ disk' \in Disks /\ disk'.rescued = disk.rescued
          /\ disk'.staged = disk.staged \ {tx[p].package} /\ Plain
      BY <2>1, <2>4, <2>6 DEF Disks, Plain, Package
    <3>2. Elsewhere(p)
      BY <2>4, <3>1 DEF Elsewhere, Plain
    <3> QED
      BY <2>2, <2>3, <3>1, <3>2, <2>6 DEF Copies, Plain
  <2> QED
    BY <1>2, <2>2, <2>5, <2>6 DEF Remains
<1> QED
  BY <1>1, <1>2

\* A step that fails leaves what its rollback needs. A restore whose report
\* fails has already consumed the archived declaration.
LEMMA RaiseKeeps ==
    ASSUME OwnZones, ZoneInv, NEW p \in Procs, NEW step, At(p, "do", step), Raise(p, step),
           disk' \in Remains(p, step), owned' = owned, Rest,
           tx[p].cmd = "restore" => step # "finish"
    PROVE  ZoneInv'
<1>1. /\ TypeOK /\ Known(p) /\ FilesOk(p) /\ phase[p] = "do" /\ step \in todo[p]
      /\ tx[p].cmd \in CommandNames
  BY DEF ZoneInv, At, Known
<1> DEFINE all == tx[p].done \union ({step} \intersect {"reconfig"})
<1>2. /\ Typed /\ Alone(p) /\ Same(p) /\ phase'[p] = "undo" /\ tx'[p].done = tx[p].done
      /\ todo'[p] = {u[1] : u \in {v \in Range(UndoSteps(tx[p].cmd)) :
                    /\ v[2] \in all \union {None}
                    /\ v[1] = "unstage" => "rescue" \notin all}}
  BY <1>1, RaiseForm
<1>3. /\ Elsewhere(p) /\ Plain
      /\ disk # disk' => tx[p].cmd = "quarantine-purge" /\ step \in {"rescue", "drop-staged"}
      /\ Archive(p) \in disk.rescued => Archive(p) \in disk'.rescued
      /\ \A c : c # tx[p].package => (c \in Copies <=> c \in Copies')
      /\ step # "drop-staged" => disk'.staged = disk.staged
  BY RemainsKeeps
<1>4. /\ "rescue" \in tx[p].done => "rescue" \in all
      /\ "archive" \in all => "archive" \in tx[p].done
      /\ "drop-zone-file" \in all => "drop-zone-file" \in tx[p].done
      /\ "consume-archive" \in all => "consume-archive" \in tx[p].done
  OBVIOUS
<1>5. /\ tx[p].cmd = "disable" /\ "remove-archive" \in todo'[p] => "rewrite-declaration" \in todo'[p]
      /\ tx[p].cmd = "quarantine" /\ "drop-zone-file" \in tx[p].done =>
            "rewrite-zone-file" \in todo'[p]
      /\ tx[p].cmd = "quarantine" /\ "consume-archive" \in tx[p].done =>
            "rewrite-archive" \in todo'[p]
      /\ tx[p].cmd = "quarantine-purge" /\ "rescue" \in tx[p].done => todo'[p] = {}
  <2>1. CASE tx[p].cmd = "disable"
    <3>1. /\ <<"rewrite-declaration", "archive">> \in Range(UndoSteps(tx[p].cmd))
          /\ \A u \in Range(UndoSteps(tx[p].cmd)) : u[1] = "remove-archive" => u[2] = "archive"
      BY <2>1, UndoScripts, ScriptSteps
    <3>2. ASSUME "remove-archive" \in todo'[p] PROVE "archive" \in all \union {None}
      BY <1>2, <3>1, <3>2
    <3> QED
      BY <1>2, <2>1, <3>1, <3>2
  <2>2. CASE tx[p].cmd = "quarantine"
    <3>1. /\ <<"rewrite-zone-file", "drop-zone-file">> \in Range(UndoSteps(tx[p].cmd))
          /\ <<"rewrite-archive", "consume-archive">> \in Range(UndoSteps(tx[p].cmd))
      BY <2>2, UndoScripts, ScriptSteps
    <3> QED
      BY <1>2, <2>2, <3>1
  <2>3. CASE tx[p].cmd = "quarantine-purge"
    <3>1. \A u \in Range(UndoSteps(tx[p].cmd)) : u[1] = "unstage"
      BY <2>3, UndoScripts, ScriptSteps
    <3> QED
      BY <1>2, <1>4, <2>3, <3>1
  <2> QED
    BY <2>1, <2>2, <2>3
<1> HIDE DEF all
<1>6. Known(p)'
  <2>1. todo'[p] \subseteq {u[1] : u \in Range(UndoSteps(tx[p].cmd))}
    BY <1>2
  <2> QED
    BY <1>1, <1>2, <2>1 DEF Known, Same
<1>7. PlanOk(p)' /\ WritesOk(p)' /\ UnpackOk(p)'
  BY <1>1, <1>2, <1>3 DEF FilesOk, PlanOk, WritesOk, UnpackOk, Plain, Same
<1>8. CreateOk(p)' /\ RestoreOk(p)' /\ DisableOk(p)'
  <2>1. tx[p].cmd # "quarantine-purge" => (HasCopy(tx[p].zone)' <=> HasCopy(tx[p].zone))
    BY <1>2, <1>3 DEF HasCopy, Copies, Same
  <2>2. InPlace(tx[p].zone)' <=> InPlace(tx[p].zone)
    BY <1>2, <1>3 DEF InPlace, Plain, Same
  <2> QED
    BY <1>1, <1>2, <1>3, <1>5, <2>1, <2>2
       DEF FilesOk, CreateOk, RestoreOk, DisableOk, Plain, Same
<1>9. QuarantineOk(p)'
  <2>1. tx[p].cmd = "quarantine" =>
          /\ "drop-zone-file" \notin tx[p].done => "drop-zone-file" \in todo[p]
          /\ "consume-archive" \notin tx[p].done => "consume-archive" \in todo[p]
    BY <1>1, ScriptSteps, QuarantineScript DEF Known, Due
  <2> QED
    BY <1>1, <1>2, <1>3, <1>5, <2>1 DEF FilesOk, QuarantineOk, Plain, Same
<1>10. PurgeOk(p)'
  <2>1. CASE tx[p].cmd # "quarantine-purge"
    BY <1>2, <2>1 DEF PurgeOk, Same
  <2>2. CASE tx[p].cmd = "quarantine-purge"
    <3>1. PurgeOk(p) /\ Archive(p)' = Archive(p)
      BY <1>1, <1>2 DEF FilesOk, Rest, Archive, Package, Same
    <3>2. step = "drop-staged" => "rescue" \in tx[p].done
      <4>1. step = "drop-staged" => "rescue" \notin todo[p]
        BY <2>2, Order
      <4> QED
        BY <1>1, <2>2, <4>1, ScriptSteps, PurgeScript DEF Known, Due
    <3>3. Kept(tx[p].zone, tx[p].package)' <=> Kept(tx[p].zone, tx[p].package)
      BY <1>2, <1>3 DEF Kept, InPlace, Plain, Same
    <3> QED
      BY <1>1, <1>2, <1>3, <1>5, <2>2, <3>1, <3>2, <3>3 DEF PurgeOk, Plain, Same
  <2> QED
    BY <2>1, <2>2
<1> QED
  BY <1>1, <1>2, <1>3, <1>6, <1>7, <1>8, <1>9, <1>10, Moves DEF FilesOk

(* A step of the try block *************************************************)

\* A write that does not raise is done.
LEMMA WriteDone ==
    ASSUME OwnZones, ZoneInv, NEW p \in Procs, NEW step \in FileSteps, NEW may, NEW d,
           Write(p, step, may, d), UNCHANGED damaged
    PROVE  \/ ZoneInv'
           \/ /\ may /\ disk' = d /\ At(p, "do", step) /\ Done(p, step)
              /\ Rest /\ owned' = owned
<1>1. At(p, "do", step) /\ UNCHANGED <<served, ran, owned>> /\ step # "finish"
  BY DEF Write, FileSteps
<1>2. Rest
  BY <1>1 DEF ZoneInv, TypeOK, Rest
<1>3. CASE may
  BY <1>1, <1>2, <1>3 DEF Write
<1>4. CASE ~may
  <2>1. Raise(p, step) /\ disk' \in Remains(p, step)
    BY <1>4 DEF Write, Remains
  <2> QED
    BY <1>1, <1>2, <2>1, RaiseKeeps
<1> QED
  BY <1>3, <1>4

\* What a step that is done says of its command.
LEMMA DoneFacts ==
    ASSUME ZoneInv, NEW p \in Procs, NEW step \in DoSteps, At(p, "do", step), Done(p, step), Rest
    PROVE  /\ TypeOK /\ Known(p) /\ FilesOk(p) /\ phase[p] = "do" /\ step \in todo[p]
           /\ tx[p].cmd \in CommandNames /\ tx[p].zone \in Zones
           /\ step \in Range(Steps(tx[p].cmd))
           /\ todo[p] = Due(p) \ tx[p].done /\ tx[p].done \subseteq Due(p)
           /\ Typed /\ Alone(p) /\ Same(p) /\ Known(p)'
           /\ phase'[p] = "do" /\ todo'[p] = todo[p] \ {step}
           /\ tx'[p].done = tx[p].done \union {step}
           /\ PlanOk(p)' /\ Archive(p)' = Archive(p)
<1>1. /\ TypeOK /\ Known(p) /\ FilesOk(p) /\ phase[p] = "do" /\ step \in todo[p]
      /\ tx[p].cmd \in CommandNames /\ tx[p].zone \in Zones
      /\ todo[p] = Due(p) \ tx[p].done /\ tx[p].done \subseteq Due(p)
  BY LifecycleAssumption DEF ZoneInv, At, Known
<1>2. /\ Typed /\ Alone(p) /\ Same(p)
      /\ phase'[p] = "do" /\ todo'[p] = todo[p] \ {step}
      /\ tx'[p].done = tx[p].done \union {step}
  BY <1>1, DoneForm
<1>3. Due(p)' = Due(p) /\ step \in Due(p)
  BY <1>1, <1>2 DEF Due, Same
<1>4. Known(p)'
  BY <1>1, <1>2, <1>3 DEF Known, Same
<1>5. PlanOk(p)' /\ Archive(p)' = Archive(p)
  BY <1>2 DEF PlanOk, Archive, Package, Same, Rest
<1>6. step \in Range(Steps(tx[p].cmd))
  BY <1>3 DEF Due
<1> QED
  BY <1>1, <1>2, <1>4, <1>5, <1>6

\* The steps that touch the files of a zone, its package or its recovery archive.
Touching == {"zone-file", "declaration", "archive", "drop-declaration", "package",
             "drop-zone-file", "consume-archive", "stage", "rescue", "drop-staged",
             "drop-rescue", "note-committed"}

\* Any other step.
LEMMA QuietDone ==
    ASSUME OwnZones, ZoneInv, NEW p \in Procs, NEW step \in DoSteps \ Touching,
           At(p, "do", step), Done(p, step), disk' \in Disks, Plain,
           UNCHANGED <<disk.staged, disk.rescued>>, Rest, owned' = owned
    PROVE  ZoneInv'
<1>1. /\ TypeOK /\ Known(p) /\ FilesOk(p) /\ phase[p] = "do" /\ step \in todo[p]
      /\ Typed /\ Alone(p) /\ Same(p) /\ Known(p)'
      /\ phase'[p] = "do" /\ todo'[p] = todo[p] \ {step}
      /\ tx'[p].done = tx[p].done \union {step}
      /\ PlanOk(p)' /\ Archive(p)' = Archive(p)
  BY DoneFacts
<1>2. Elsewhere(p)
  BY DEF Elsewhere, Plain
<1>3. /\ InPlace(tx[p].zone)' <=> InPlace(tx[p].zone)
      /\ Kept(tx[p].zone, tx[p].package)' <=> Kept(tx[p].zone, tx[p].package)
      /\ HasCopy(tx[p].zone)' <=> HasCopy(tx[p].zone)
  BY <1>1 DEF InPlace, Kept, HasCopy, Copies, Plain, Same
<1>4. WritesOk(p)' /\ CreateOk(p)' /\ DisableOk(p)' /\ RestoreOk(p)' /\ UnpackOk(p)'
  BY <1>1, <1>3 DEF FilesOk, WritesOk, CreateOk, DisableOk, RestoreOk, UnpackOk, Plain, Same, Touching
<1>5. QuarantineOk(p)'
  BY <1>1 DEF FilesOk, QuarantineOk, Plain, Same, Touching
<1>6. PurgeOk(p)'
  BY <1>1, <1>3 DEF FilesOk, PurgeOk, Plain, Same, Touching
<1> QED
  BY <1>1, <1>2, <1>4, <1>5, <1>6, Moves DEF FilesOk

\* Writing the zone file finds none.
LEMMA WriteZoneFileKeeps ==
    ASSUME OwnZones, ZoneInv, NEW p \in Procs, WriteZoneFile(p), UNCHANGED damaged
    PROVE  ZoneInv'
<1> DEFINE d == [disk EXCEPT !.zoneFiles = @ \union {Zone(p)}]
<1>1. SUFFICES ASSUME disk' = d, At(p, "do", "zone-file"), Done(p, "zone-file"), Rest, owned' = owned
               PROVE  ZoneInv'
  <2>1. Write(p, "zone-file", Unpackable(p), d) /\ "zone-file" \in FileSteps
    BY DEF WriteZoneFile, FileSteps, DoSteps
  <2> QED
    BY <2>1, WriteDone
<1>2. /\ TypeOK /\ Known(p) /\ FilesOk(p) /\ phase[p] = "do" /\ "zone-file" \in todo[p]
      /\ tx[p].cmd \in CommandNames /\ tx[p].zone \in Zones
      /\ "zone-file" \in Range(Steps(tx[p].cmd))
      /\ Typed /\ Alone(p) /\ Same(p) /\ Known(p)'
      /\ phase'[p] = "do" /\ todo'[p] = todo[p] \ {"zone-file"}
      /\ tx'[p].done = tx[p].done \union {"zone-file"}
      /\ PlanOk(p)' /\ Archive(p)' = Archive(p)
  BY <1>1, DoneFacts DEF DoSteps
<1>3. /\ disk' \in Disks /\ disk'.zoneFiles = disk.zoneFiles \union {tx[p].zone}
      /\ UNCHANGED <<disk.declared, disk.archived, disk.packages, disk.staged, disk.rescued>>
  BY <1>1, <1>2 DEF TypeOK, Disks, Zone
<1>4. Elsewhere(p)
  BY <1>1, <1>3 DEF Elsewhere
<1>5. tx[p].cmd \in {"create", "quarantine-restore"}
  BY <1>2, WhoseStep
<1>6. WritesOk(p)' /\ UnpackOk(p)'
  BY <1>2, <1>3 DEF FilesOk, WritesOk, UnpackOk, Same
<1>7. CreateOk(p)'
  BY <1>1, <1>2, <1>3 DEF FilesOk, CreateOk, HasCopy, Copies, Same
<1>8. DisableOk(p)' /\ RestoreOk(p)' /\ QuarantineOk(p)' /\ PurgeOk(p)'
  BY <1>2, <1>5 DEF DisableOk, RestoreOk, QuarantineOk, PurgeOk, Same
<1> QED
  BY <1>1, <1>2, <1>4, <1>6, <1>7, <1>8, Moves DEF FilesOk

\* Writing the declaration.
LEMMA WriteDeclarationKeeps ==
    ASSUME OwnZones, ZoneInv, NEW p \in Procs, WriteDeclaration(p), UNCHANGED damaged
    PROVE  ZoneInv'
<1> DEFINE d == [disk EXCEPT !.declared = @ \union {Zone(p)}]
       may == Unpackable(p)
<1>1. SUFFICES ASSUME may, disk' = d, At(p, "do", "declaration"), Done(p, "declaration"), Rest,
                      owned' = owned
               PROVE  ZoneInv'
  <2>1. Write(p, "declaration", may, d) /\ "declaration" \in FileSteps
    BY DEF WriteDeclaration, FileSteps, DoSteps
  <2> HIDE DEF d, may
  <2> QED
    BY <2>1, WriteDone
<1>2. /\ TypeOK /\ Known(p) /\ FilesOk(p) /\ phase[p] = "do" /\ "declaration" \in todo[p]
      /\ tx[p].cmd \in CommandNames /\ tx[p].zone \in Zones
      /\ "declaration" \in Range(Steps(tx[p].cmd))
      /\ todo[p] = Due(p) \ tx[p].done
      /\ Typed /\ Alone(p) /\ Same(p) /\ Known(p)'
      /\ phase'[p] = "do" /\ todo'[p] = todo[p] \ {"declaration"}
      /\ tx'[p].done = tx[p].done \union {"declaration"}
      /\ PlanOk(p)' /\ Archive(p)' = Archive(p)
  BY <1>1, DoneFacts DEF DoSteps
<1>3. tx[p].cmd \in {"create", "restore", "quarantine-restore"}
  BY <1>2, WhoseStep DEF PurgeNotes
<1>4. tx[p].cmd \in Packing => tx[p].package \in Packages /\ tx[p].package.zone = tx[p].zone
  BY <1>2 DEF Known
<1>5. /\ disk' \in Disks
      /\ disk'.declared = disk.declared \union {tx[p].zone}
      /\ UNCHANGED <<disk.zoneFiles, disk.archived, disk.packages, disk.staged, disk.rescued>>
  BY <1>1, <1>2, <1>3, <1>4 DEF TypeOK, Disks, Zone, Package, Packing
<1>6. Elsewhere(p)
  BY <1>1, <1>3, <1>4, <1>5 DEF Elsewhere, Packing
<1>7. WritesOk(p)' /\ UnpackOk(p)'
  BY <1>2, <1>5 DEF FilesOk, WritesOk, UnpackOk, Same
<1>8. CreateOk(p)'
  BY <1>1, <1>2, <1>5 DEF FilesOk, CreateOk, HasCopy, Copies, Same
<1>9. RestoreOk(p)'
  BY <1>2, <1>5 DEF FilesOk, RestoreOk, InPlace, Same
<1>10. DisableOk(p)' /\ QuarantineOk(p)' /\ PurgeOk(p)'
  BY <1>2, <1>3 DEF DisableOk, QuarantineOk, PurgeOk, Same
<1> QED
  BY <1>1, <1>2, <1>6, <1>7, <1>8, <1>9, <1>10, Moves DEF FilesOk

\* Archiving the declaration.
LEMMA WriteArchiveKeeps ==
    ASSUME OwnZones, ZoneInv, NEW p \in Procs, WriteArchive(p), UNCHANGED damaged
    PROVE  ZoneInv'
<1> DEFINE d == [disk EXCEPT !.archived = @ \union {Zone(p)},
                           !.directories = @ \union {Zone(p)}]
       may == TRUE
<1>1. SUFFICES ASSUME may, disk' = d, At(p, "do", "archive"), Done(p, "archive"), Rest,
                      owned' = owned
               PROVE  ZoneInv'
  <2>1. Write(p, "archive", may, d) /\ "archive" \in FileSteps
    BY DEF WriteArchive, FileSteps, DoSteps
  <2> HIDE DEF d, may
  <2> QED
    BY <2>1, WriteDone
<1>2. /\ TypeOK /\ Known(p) /\ FilesOk(p) /\ phase[p] = "do" /\ "archive" \in todo[p]
      /\ tx[p].cmd \in CommandNames /\ tx[p].zone \in Zones
      /\ "archive" \in Range(Steps(tx[p].cmd))
      /\ todo[p] = Due(p) \ tx[p].done
      /\ Typed /\ Alone(p) /\ Same(p) /\ Known(p)'
      /\ phase'[p] = "do" /\ todo'[p] = todo[p] \ {"archive"}
      /\ tx'[p].done = tx[p].done \union {"archive"}
      /\ PlanOk(p)' /\ Archive(p)' = Archive(p)
  BY <1>1, DoneFacts DEF DoSteps
<1>3. tx[p].cmd = "disable"
  BY <1>2, WhoseStep DEF PurgeNotes
<1>4. tx[p].cmd \in Packing => tx[p].package \in Packages /\ tx[p].package.zone = tx[p].zone
  BY <1>2 DEF Known
<1>5. /\ disk' \in Disks
      /\ disk'.archived = disk.archived \union {tx[p].zone}
      /\ UNCHANGED <<disk.zoneFiles, disk.declared, disk.packages, disk.staged, disk.rescued>>
  BY <1>1, <1>2, <1>3, <1>4 DEF TypeOK, Disks, Zone, Package, Packing
<1>6. Elsewhere(p)
  BY <1>1, <1>3, <1>4, <1>5 DEF Elsewhere, Packing
<1>7. WritesOk(p)'
  BY <1>2, <1>5 DEF FilesOk, WritesOk, Same
<1>8. DisableOk(p)'
  BY <1>2, <1>5 DEF FilesOk, DisableOk, InPlace, Same
<1>9. CreateOk(p)' /\ RestoreOk(p)' /\ QuarantineOk(p)' /\ UnpackOk(p)' /\ PurgeOk(p)'
  BY <1>2, <1>3 DEF CreateOk, RestoreOk, QuarantineOk, UnpackOk, PurgeOk, Same
<1> QED
  BY <1>1, <1>2, <1>6, <1>7, <1>8, <1>9, Moves DEF FilesOk

\* Dropping the declaration, which is archived by then.
LEMMA DropDeclarationKeeps ==
    ASSUME OwnZones, ZoneInv, NEW p \in Procs, DropDeclaration(p), UNCHANGED damaged
    PROVE  ZoneInv'
<1> DEFINE d == [disk EXCEPT !.declared = @ \ {Zone(p)}]
       may == Zone(p) \in disk.declared
<1>1. SUFFICES ASSUME may, disk' = d, At(p, "do", "drop-declaration"), Done(p, "drop-declaration"), Rest,
                      owned' = owned
               PROVE  ZoneInv'
  <2>1. Write(p, "drop-declaration", may, d) /\ "drop-declaration" \in FileSteps
    BY DEF DropDeclaration, FileSteps, DoSteps
  <2> HIDE DEF d, may
  <2> QED
    BY <2>1, WriteDone
<1>2. /\ TypeOK /\ Known(p) /\ FilesOk(p) /\ phase[p] = "do" /\ "drop-declaration" \in todo[p]
      /\ tx[p].cmd \in CommandNames /\ tx[p].zone \in Zones
      /\ "drop-declaration" \in Range(Steps(tx[p].cmd))
      /\ todo[p] = Due(p) \ tx[p].done
      /\ Typed /\ Alone(p) /\ Same(p) /\ Known(p)'
      /\ phase'[p] = "do" /\ todo'[p] = todo[p] \ {"drop-declaration"}
      /\ tx'[p].done = tx[p].done \union {"drop-declaration"}
      /\ PlanOk(p)' /\ Archive(p)' = Archive(p)
  BY <1>1, DoneFacts DEF DoSteps
<1>3. tx[p].cmd = "disable"
  BY <1>2, WhoseStep DEF PurgeNotes
<1>4. tx[p].cmd \in Packing => tx[p].package \in Packages /\ tx[p].package.zone = tx[p].zone
  BY <1>2 DEF Known
<1>5. /\ disk' \in Disks
      /\ disk'.declared = disk.declared \ {tx[p].zone}
      /\ UNCHANGED <<disk.zoneFiles, disk.archived, disk.packages, disk.staged, disk.rescued>>
  BY <1>1, <1>2, <1>3, <1>4 DEF TypeOK, Disks, Zone, Package, Packing
<1>6. Elsewhere(p)
  BY <1>1, <1>3, <1>4, <1>5 DEF Elsewhere, Packing
<1>7. WritesOk(p)'
  BY <1>2, <1>3, <1>5, WhoseStep DEF FilesOk, WritesOk, Same, Known, Due
<1>8. tx[p].zone \in disk.archived
  <2>1. "archive" \notin todo[p]
    BY <1>1, <1>3, Order DEF DoSteps
  <2>2. "archive" \in tx[p].done
    BY <1>2, <1>3, <2>1, ScriptSteps, DisableScript DEF Due
  <2> QED
    BY <1>2, <2>2 DEF FilesOk, WritesOk
<1>9. DisableOk(p)'
  BY <1>2, <1>3, <1>5, <1>8 DEF FilesOk, DisableOk, InPlace, Same
<1>10. CreateOk(p)' /\ RestoreOk(p)' /\ QuarantineOk(p)' /\ UnpackOk(p)' /\ PurgeOk(p)'
  BY <1>2, <1>3 DEF CreateOk, RestoreOk, QuarantineOk, UnpackOk, PurgeOk, Same
<1> QED
  BY <1>1, <1>2, <1>6, <1>7, <1>8, <1>9, <1>10, Moves DEF FilesOk

\* Making the package.
LEMMA WritePackageKeeps ==
    ASSUME OwnZones, ZoneInv, NEW p \in Procs, WritePackage(p), UNCHANGED damaged
    PROVE  ZoneInv'
<1> DEFINE d == [disk EXCEPT !.packages = @ \union {Package(p)}]
       may == TRUE
<1>1. SUFFICES ASSUME may, disk' = d, At(p, "do", "package"), Done(p, "package"), Rest,
                      owned' = owned
               PROVE  ZoneInv'
  <2>1. Write(p, "package", may, d) /\ "package" \in FileSteps
    BY DEF WritePackage, FileSteps, DoSteps
  <2> HIDE DEF d, may
  <2> QED
    BY <2>1, WriteDone
<1>2. /\ TypeOK /\ Known(p) /\ FilesOk(p) /\ phase[p] = "do" /\ "package" \in todo[p]
      /\ tx[p].cmd \in CommandNames /\ tx[p].zone \in Zones
      /\ "package" \in Range(Steps(tx[p].cmd))
      /\ todo[p] = Due(p) \ tx[p].done
      /\ Typed /\ Alone(p) /\ Same(p) /\ Known(p)'
      /\ phase'[p] = "do" /\ todo'[p] = todo[p] \ {"package"}
      /\ tx'[p].done = tx[p].done \union {"package"}
      /\ PlanOk(p)' /\ Archive(p)' = Archive(p)
  BY <1>1, DoneFacts DEF DoSteps
<1>3. tx[p].cmd = "quarantine"
  BY <1>2, WhoseStep DEF PurgeNotes
<1>4. tx[p].cmd \in Packing => tx[p].package \in Packages /\ tx[p].package.zone = tx[p].zone
  BY <1>2 DEF Known
<1>5. /\ disk' \in Disks
      /\ disk'.packages = disk.packages \union {tx[p].package}
      /\ UNCHANGED <<disk.zoneFiles, disk.declared, disk.archived, disk.staged, disk.rescued>>
  BY <1>1, <1>2, <1>3, <1>4 DEF TypeOK, Disks, Zone, Package, Packing
<1>6. Elsewhere(p)
  BY <1>1, <1>3, <1>4, <1>5 DEF Elsewhere, Packing
<1>7. WritesOk(p)'
  BY <1>2, <1>5 DEF FilesOk, WritesOk, Same
<1>8. QuarantineOk(p)'
  BY <1>2, <1>5 DEF FilesOk, QuarantineOk, Same
<1>9. CreateOk(p)' /\ DisableOk(p)' /\ RestoreOk(p)' /\ UnpackOk(p)' /\ PurgeOk(p)'
  BY <1>2, <1>3 DEF CreateOk, DisableOk, RestoreOk, UnpackOk, PurgeOk, Same
<1> QED
  BY <1>1, <1>2, <1>6, <1>7, <1>8, <1>9, Moves DEF FilesOk

\* Dropping the zone file, which is in the package by then.
LEMMA DropZoneFileKeeps ==
    ASSUME OwnZones, ZoneInv, NEW p \in Procs, DropZoneFile(p), UNCHANGED damaged
    PROVE  ZoneInv'
<1> DEFINE d == [disk EXCEPT !.zoneFiles = @ \ {Zone(p)}]
       may == Zone(p) \in disk.zoneFiles
<1>1. SUFFICES ASSUME may, disk' = d, At(p, "do", "drop-zone-file"), Done(p, "drop-zone-file"), Rest,
                      owned' = owned
               PROVE  ZoneInv'
  <2>1. Write(p, "drop-zone-file", may, d) /\ "drop-zone-file" \in FileSteps
    BY DEF DropZoneFile, FileSteps, DoSteps
  <2> HIDE DEF d, may
  <2> QED
    BY <2>1, WriteDone
<1>2. /\ TypeOK /\ Known(p) /\ FilesOk(p) /\ phase[p] = "do" /\ "drop-zone-file" \in todo[p]
      /\ tx[p].cmd \in CommandNames /\ tx[p].zone \in Zones
      /\ "drop-zone-file" \in Range(Steps(tx[p].cmd))
      /\ todo[p] = Due(p) \ tx[p].done
      /\ Typed /\ Alone(p) /\ Same(p) /\ Known(p)'
      /\ phase'[p] = "do" /\ todo'[p] = todo[p] \ {"drop-zone-file"}
      /\ tx'[p].done = tx[p].done \union {"drop-zone-file"}
      /\ PlanOk(p)' /\ Archive(p)' = Archive(p)
  BY <1>1, DoneFacts DEF DoSteps
<1>3. tx[p].cmd = "quarantine"
  BY <1>2, WhoseStep DEF PurgeNotes
<1>4. tx[p].cmd \in Packing => tx[p].package \in Packages /\ tx[p].package.zone = tx[p].zone
  BY <1>2 DEF Known
<1>5. /\ disk' \in Disks
      /\ disk'.zoneFiles = disk.zoneFiles \ {tx[p].zone}
      /\ UNCHANGED <<disk.declared, disk.archived, disk.packages, disk.staged, disk.rescued>>
  BY <1>1, <1>2, <1>3, <1>4 DEF TypeOK, Disks, Zone, Package, Packing
<1>6. Elsewhere(p)
  BY <1>1, <1>3, <1>4, <1>5 DEF Elsewhere, Packing
<1>7. WritesOk(p)'
  BY <1>2, <1>3, <1>5, WhoseStep DEF FilesOk, WritesOk, Same, Known, Due
<1>8. tx[p].package \in disk.packages
  <2>1. "package" \notin todo[p]
    BY <1>1, <1>2, <1>3, ScriptSteps, Order DEF DoSteps
  <2>2. "package" \in tx[p].done
    BY <1>2, <1>3, <2>1, ScriptSteps, QuarantineScript DEF Due
  <2> QED
    BY <1>2, <2>2 DEF FilesOk, WritesOk
<1>9. QuarantineOk(p)'
  BY <1>2, <1>3, <1>5, <1>8 DEF FilesOk, QuarantineOk, Same
<1>10. CreateOk(p)' /\ DisableOk(p)' /\ RestoreOk(p)' /\ UnpackOk(p)' /\ PurgeOk(p)'
  BY <1>2, <1>3 DEF CreateOk, DisableOk, RestoreOk, UnpackOk, PurgeOk, Same
<1> QED
  BY <1>1, <1>2, <1>6, <1>7, <1>8, <1>9, <1>10, Moves DEF FilesOk

\* Dropping the archived declaration: it is in the package or in place by then.
LEMMA ConsumeArchiveKeeps ==
    ASSUME OwnZones, ZoneInv, NEW p \in Procs, ConsumeArchive(p), UNCHANGED damaged
    PROVE  ZoneInv'
<1> DEFINE d == [disk EXCEPT !.archived = @ \ {Zone(p)},
                       !.directories = @ \ {Zone(p)}]
       may == Zone(p) \in disk.archived
<1>1. SUFFICES ASSUME may, disk' = d, At(p, "do", "consume-archive"), Done(p, "consume-archive"), Rest,
                      owned' = owned
               PROVE  ZoneInv'
  <2>1. Write(p, "consume-archive", may, d) /\ "consume-archive" \in FileSteps
    BY DEF ConsumeArchive, FileSteps, DoSteps
  <2> HIDE DEF d, may
  <2> QED
    BY <2>1, WriteDone
<1>2. /\ TypeOK /\ Known(p) /\ FilesOk(p) /\ phase[p] = "do" /\ "consume-archive" \in todo[p]
      /\ tx[p].cmd \in CommandNames /\ tx[p].zone \in Zones
      /\ "consume-archive" \in Range(Steps(tx[p].cmd))
      /\ todo[p] = Due(p) \ tx[p].done
      /\ Typed /\ Alone(p) /\ Same(p) /\ Known(p)'
      /\ phase'[p] = "do" /\ todo'[p] = todo[p] \ {"consume-archive"}
      /\ tx'[p].done = tx[p].done \union {"consume-archive"}
      /\ PlanOk(p)' /\ Archive(p)' = Archive(p)
  BY <1>1, DoneFacts DEF DoSteps
<1>3. tx[p].cmd \in {"restore", "quarantine"}
  BY <1>2, WhoseStep DEF PurgeNotes
<1>4. tx[p].cmd \in Packing => tx[p].package \in Packages /\ tx[p].package.zone = tx[p].zone
  BY <1>2 DEF Known
<1>5. /\ disk' \in Disks
      /\ disk'.archived = disk.archived \ {tx[p].zone}
      /\ UNCHANGED <<disk.zoneFiles, disk.declared, disk.packages, disk.staged, disk.rescued>>
  BY <1>1, <1>2, <1>3, <1>4 DEF TypeOK, Disks, Zone, Package, Packing
<1>6. Elsewhere(p)
  BY <1>1, <1>3, <1>4, <1>5 DEF Elsewhere, Packing
<1>7. WritesOk(p)'
  BY <1>2, <1>3, <1>5, WhoseStep DEF FilesOk, WritesOk, Same, Known, Due
<1>8. tx[p].cmd = "quarantine" => tx[p].package \in disk.packages
  <2> SUFFICES ASSUME tx[p].cmd = "quarantine" PROVE tx[p].package \in disk.packages
    OBVIOUS
  <2>1. "package" \notin todo[p]
    BY <1>1, <1>2, ScriptSteps, Order DEF DoSteps
  <2>2. "package" \in tx[p].done
    BY <1>2, <1>3, <2>1, ScriptSteps, QuarantineScript DEF Due
  <2> QED
    BY <1>2, <2>2 DEF FilesOk, WritesOk
<1>9. QuarantineOk(p)'
  BY <1>2, <1>3, <1>5, <1>8 DEF FilesOk, QuarantineOk, Same
<1>10. tx[p].cmd = "restore" => todo'[p] \subseteq {"finish"} /\ tx[p].zone \in disk.declared
  <2> SUFFICES ASSUME tx[p].cmd = "restore"
               PROVE  todo'[p] \subseteq {"finish"} /\ tx[p].zone \in disk.declared
    OBVIOUS
  <2>1. /\ todo[p] \intersect Range(RestoreSteps) \subseteq {"consume-archive", "finish"}
        /\ "declaration" \notin todo[p]
    BY <1>1, Order DEF DoSteps
  <2>2. todo[p] \subseteq Range(RestoreSteps) /\ "declaration" \in tx[p].done
    BY <1>2, <2>1, ScriptSteps, RestoreScript DEF Due
  <2> QED
    BY <1>2, <2>1, <2>2 DEF FilesOk, WritesOk
<1>11. RestoreOk(p)'
  BY <1>2, <1>3, <1>5, <1>10 DEF FilesOk, RestoreOk, InPlace, Same
<1>12. CreateOk(p)' /\ DisableOk(p)' /\ UnpackOk(p)' /\ PurgeOk(p)'
  BY <1>2, <1>3 DEF CreateOk, DisableOk, UnpackOk, PurgeOk, Same
<1> QED
  BY <1>1, <1>2, <1>6, <1>7, <1>8, <1>9, <1>10, <1>11, <1>12, Moves DEF FilesOk

\* Moving the package into the staging directory.
LEMMA StageKeeps ==
    ASSUME OwnZones, ZoneInv, NEW p \in Procs, Stage(p), UNCHANGED damaged
    PROVE  ZoneInv'
<1> DEFINE d == [disk EXCEPT !.packages = @ \ {Package(p)},
                       !.staged = @ \union {Package(p)}]
       may == Package(p) \in disk.packages
<1>1. SUFFICES ASSUME may, disk' = d, At(p, "do", "stage"), Done(p, "stage"), Rest,
                      owned' = owned
               PROVE  ZoneInv'
  <2>1. Write(p, "stage", may, d) /\ "stage" \in FileSteps
    BY DEF Stage, FileSteps, DoSteps
  <2> HIDE DEF d, may
  <2> QED
    BY <2>1, WriteDone
<1>2. /\ TypeOK /\ Known(p) /\ FilesOk(p) /\ phase[p] = "do" /\ "stage" \in todo[p]
      /\ tx[p].cmd \in CommandNames /\ tx[p].zone \in Zones
      /\ "stage" \in Range(Steps(tx[p].cmd))
      /\ todo[p] = Due(p) \ tx[p].done
      /\ Typed /\ Alone(p) /\ Same(p) /\ Known(p)'
      /\ phase'[p] = "do" /\ todo'[p] = todo[p] \ {"stage"}
      /\ tx'[p].done = tx[p].done \union {"stage"}
      /\ PlanOk(p)' /\ Archive(p)' = Archive(p)
  BY <1>1, DoneFacts DEF DoSteps
<1>3. tx[p].cmd = "quarantine-purge"
  BY <1>2, WhoseStep DEF PurgeNotes
<1>4. tx[p].cmd \in Packing => tx[p].package \in Packages /\ tx[p].package.zone = tx[p].zone
  BY <1>2 DEF Known
<1>5. /\ disk' \in Disks
      /\ disk'.packages = disk.packages \ {tx[p].package}
      /\ disk'.staged = disk.staged \union {tx[p].package}
      /\ UNCHANGED <<disk.zoneFiles, disk.declared, disk.archived, disk.rescued>>
  BY <1>1, <1>2, <1>3, <1>4 DEF TypeOK, Disks, Zone, Package, Packing
<1>6. Elsewhere(p)
  BY <1>1, <1>3, <1>4, <1>5 DEF Elsewhere, Packing
<1>7. WritesOk(p)'
  BY <1>2, <1>3, <1>5, WhoseStep DEF FilesOk, WritesOk, Same, Known, Due
<1>8. Kept(tx[p].zone, tx[p].package)' <=> Kept(tx[p].zone, tx[p].package)
  BY <1>2, <1>5 DEF Kept, InPlace, Copies, Same
<1>9. PurgeOk(p)'
  BY <1>1, <1>2, <1>5, <1>8 DEF FilesOk, PurgeOk, Same
<1>10. CreateOk(p)' /\ DisableOk(p)' /\ RestoreOk(p)' /\ QuarantineOk(p)' /\ UnpackOk(p)'
  BY <1>2, <1>3 DEF CreateOk, DisableOk, RestoreOk, QuarantineOk, UnpackOk, Same
<1> QED
  BY <1>1, <1>2, <1>6, <1>7, <1>8, <1>9, <1>10, Moves DEF FilesOk

\* Writing the recovery archive.
LEMMA WriteRescueKeeps ==
    ASSUME OwnZones, ZoneInv, NEW p \in Procs, WriteRescue(p), UNCHANGED damaged
    PROVE  ZoneInv'
<1> DEFINE d == [disk EXCEPT !.rescued = @ \union {Archive(p)}]
       may == Package(p) \in disk.staged
<1>1. SUFFICES ASSUME may, disk' = d, At(p, "do", "rescue"), Done(p, "rescue"), Rest,
                      owned' = owned
               PROVE  ZoneInv'
  <2>1. Write(p, "rescue", may, d) /\ "rescue" \in FileSteps
    BY DEF WriteRescue, FileSteps, DoSteps
  <2> HIDE DEF d, may
  <2> QED
    BY <2>1, WriteDone
<1>2. /\ TypeOK /\ Known(p) /\ FilesOk(p) /\ phase[p] = "do" /\ "rescue" \in todo[p]
      /\ tx[p].cmd \in CommandNames /\ tx[p].zone \in Zones
      /\ "rescue" \in Range(Steps(tx[p].cmd))
      /\ todo[p] = Due(p) \ tx[p].done
      /\ Typed /\ Alone(p) /\ Same(p) /\ Known(p)'
      /\ phase'[p] = "do" /\ todo'[p] = todo[p] \ {"rescue"}
      /\ tx'[p].done = tx[p].done \union {"rescue"}
      /\ PlanOk(p)' /\ Archive(p)' = Archive(p)
  BY <1>1, DoneFacts DEF DoSteps
<1>3. tx[p].cmd = "quarantine-purge"
  BY <1>2, WhoseStep DEF PurgeNotes
<1>4. tx[p].cmd \in Packing => tx[p].package \in Packages /\ tx[p].package.zone = tx[p].zone
  BY <1>2 DEF Known
<1>5. /\ disk' \in Disks
      /\ disk'.rescued = disk.rescued \union {Archive(p)} /\ Archive(p).of = tx[p].package
      /\ UNCHANGED <<disk.zoneFiles, disk.declared, disk.archived, disk.packages, disk.staged>>
  BY <1>1, <1>2, <1>3, <1>4 DEF TypeOK, Disks, Zone, Package, Packing, Archive, Archives
<1>6. Elsewhere(p)
  BY <1>1, <1>3, <1>4, <1>5 DEF Elsewhere, Packing, Archive, Archives
<1>7. WritesOk(p)'
  BY <1>2, <1>3, <1>5, WhoseStep DEF FilesOk, WritesOk, Same, Known, Due
<1>8. Kept(tx[p].zone, tx[p].package)' <=> Kept(tx[p].zone, tx[p].package)
  BY <1>2, <1>5 DEF Kept, InPlace, Copies, Same
<1>9. PurgeOk(p)'
  BY <1>1, <1>2, <1>5, <1>8 DEF FilesOk, PurgeOk, Same
<1>10. CreateOk(p)' /\ DisableOk(p)' /\ RestoreOk(p)' /\ QuarantineOk(p)' /\ UnpackOk(p)'
  BY <1>2, <1>3 DEF CreateOk, DisableOk, RestoreOk, QuarantineOk, UnpackOk, Same
<1> QED
  BY <1>1, <1>2, <1>6, <1>7, <1>8, <1>9, <1>10, Moves DEF FilesOk

\* Dropping the staged package, once the recovery archive is written.
LEMMA DropStagedKeeps ==
    ASSUME OwnZones, ZoneInv, NEW p \in Procs, DropStaged(p), UNCHANGED damaged
    PROVE  ZoneInv'
<1> DEFINE d == [disk EXCEPT !.staged = @ \ {Package(p)}]
       may == Package(p) \in disk.staged
<1>1. SUFFICES ASSUME may, disk' = d, At(p, "do", "drop-staged"), Done(p, "drop-staged"), Rest,
                      owned' = owned
               PROVE  ZoneInv'
  <2>1. Write(p, "drop-staged", may, d) /\ "drop-staged" \in FileSteps
    BY DEF DropStaged, FileSteps, DoSteps
  <2> HIDE DEF d, may
  <2> QED
    BY <2>1, WriteDone
<1>2. /\ TypeOK /\ Known(p) /\ FilesOk(p) /\ phase[p] = "do" /\ "drop-staged" \in todo[p]
      /\ tx[p].cmd \in CommandNames /\ tx[p].zone \in Zones
      /\ "drop-staged" \in Range(Steps(tx[p].cmd))
      /\ todo[p] = Due(p) \ tx[p].done
      /\ Typed /\ Alone(p) /\ Same(p) /\ Known(p)'
      /\ phase'[p] = "do" /\ todo'[p] = todo[p] \ {"drop-staged"}
      /\ tx'[p].done = tx[p].done \union {"drop-staged"}
      /\ PlanOk(p)' /\ Archive(p)' = Archive(p)
  BY <1>1, DoneFacts DEF DoSteps
<1>3. tx[p].cmd = "quarantine-purge"
  BY <1>2, WhoseStep DEF PurgeNotes
<1>4. tx[p].cmd \in Packing => tx[p].package \in Packages /\ tx[p].package.zone = tx[p].zone
  BY <1>2 DEF Known
<1>5. /\ disk' \in Disks
      /\ disk'.staged = disk.staged \ {tx[p].package}
      /\ UNCHANGED <<disk.zoneFiles, disk.declared, disk.archived, disk.packages, disk.rescued>>
  BY <1>1, <1>2, <1>3, <1>4 DEF TypeOK, Disks, Zone, Package, Packing
<1>6. Elsewhere(p)
  BY <1>1, <1>3, <1>4, <1>5 DEF Elsewhere, Packing
<1>7. WritesOk(p)'
  BY <1>2, <1>3, <1>5, WhoseStep DEF FilesOk, WritesOk, Same, Known, Due
<1>8. Kept(tx[p].zone, tx[p].package)' <=> Kept(tx[p].zone, tx[p].package)
  BY <1>2, <1>5 DEF Kept, InPlace, Copies, Same
<1>9. "rescue" \in tx[p].done
  <2>1. "rescue" \notin todo[p]
    BY <1>1, <1>3, Order DEF DoSteps
  <2> QED
    BY <1>2, <1>3, <2>1, ScriptSteps, PurgeScript DEF Due
<1>10. PurgeOk(p)'
  BY <1>1, <1>2, <1>5, <1>8, <1>9 DEF FilesOk, PurgeOk, Same
<1>11. CreateOk(p)' /\ DisableOk(p)' /\ RestoreOk(p)' /\ QuarantineOk(p)' /\ UnpackOk(p)'
  BY <1>2, <1>3 DEF CreateOk, DisableOk, RestoreOk, QuarantineOk, UnpackOk, Same
<1> QED
  BY <1>1, <1>2, <1>6, <1>7, <1>8, <1>9, <1>10, <1>11, Moves DEF FilesOk

\* Dropping the recovery archive, once the manifest says so.
LEMMA DropRescueKeeps ==
    ASSUME OwnZones, ZoneInv, NEW p \in Procs, DropRescue(p), UNCHANGED damaged
    PROVE  ZoneInv'
<1> DEFINE d == [disk EXCEPT !.rescued = @ \ {Archive(p)}]
       may == Archive(p) \in disk.rescued
<1>1. SUFFICES ASSUME may, disk' = d, At(p, "do", "drop-rescue"), Done(p, "drop-rescue"), Rest,
                      owned' = owned
               PROVE  ZoneInv'
  <2>1. Write(p, "drop-rescue", may, d) /\ "drop-rescue" \in FileSteps
    BY DEF DropRescue, FileSteps, DoSteps
  <2> HIDE DEF d, may
  <2> QED
    BY <2>1, WriteDone
<1>2. /\ TypeOK /\ Known(p) /\ FilesOk(p) /\ phase[p] = "do" /\ "drop-rescue" \in todo[p]
      /\ tx[p].cmd \in CommandNames /\ tx[p].zone \in Zones
      /\ "drop-rescue" \in Range(Steps(tx[p].cmd))
      /\ todo[p] = Due(p) \ tx[p].done
      /\ Typed /\ Alone(p) /\ Same(p) /\ Known(p)'
      /\ phase'[p] = "do" /\ todo'[p] = todo[p] \ {"drop-rescue"}
      /\ tx'[p].done = tx[p].done \union {"drop-rescue"}
      /\ PlanOk(p)' /\ Archive(p)' = Archive(p)
  BY <1>1, DoneFacts DEF DoSteps
<1>3. tx[p].cmd = "quarantine-purge"
  BY <1>2, WhoseStep DEF PurgeNotes
<1>4. tx[p].cmd \in Packing => tx[p].package \in Packages /\ tx[p].package.zone = tx[p].zone
  BY <1>2 DEF Known
<1>5. /\ disk' \in Disks
      /\ disk'.rescued = disk.rescued \ {Archive(p)} /\ Archive(p).of = tx[p].package
      /\ UNCHANGED <<disk.zoneFiles, disk.declared, disk.archived, disk.packages, disk.staged>>
  BY <1>1, <1>2, <1>3, <1>4 DEF TypeOK, Disks, Zone, Package, Packing, Archive, Archives
<1>6. Elsewhere(p)
  BY <1>1, <1>3, <1>4, <1>5 DEF Elsewhere, Packing, Archive, Archives
<1>7. WritesOk(p)'
  BY <1>2, <1>3, <1>5, WhoseStep DEF FilesOk, WritesOk, Same, Known, Due
<1>8. Kept(tx[p].zone, tx[p].package)' <=> Kept(tx[p].zone, tx[p].package)
  BY <1>2, <1>5 DEF Kept, InPlace, Copies, Same
<1>9. "drop-staged" \in tx[p].done /\ "note-committed" \in tx[p].done
  <2>1. "drop-staged" \notin todo[p] /\ "note-committed" \notin todo[p]
    BY <1>1, <1>3, Order DEF DoSteps
  <2> QED
    BY <1>2, <1>3, <2>1, ScriptSteps, PurgeScript DEF Due
<1>10. PurgeOk(p)'
  BY <1>1, <1>2, <1>5, <1>8, <1>9 DEF FilesOk, PurgeOk, Same
<1>11. CreateOk(p)' /\ DisableOk(p)' /\ RestoreOk(p)' /\ QuarantineOk(p)' /\ UnpackOk(p)'
  BY <1>2, <1>3 DEF CreateOk, DisableOk, RestoreOk, QuarantineOk, UnpackOk, Same
<1> QED
  BY <1>1, <1>2, <1>6, <1>7, <1>8, <1>9, <1>10, <1>11, Moves DEF FilesOk

\* The notes of a purge: the last one ends the promise about the package.
LEMMA NotePurgeKeeps ==
    ASSUME OwnZones, ZoneInv, NEW p \in Procs, NotePurge(p), UNCHANGED damaged
    PROVE  ZoneInv'
<1>1. PICK step \in PurgeNotes :
         /\ At(p, "do", step)
         /\ Done(p, step)
         /\ owned' = IF step = "note-committed" /\ ~Kept(Zone(p), Package(p))
                     THEN owned \ {Zone(p)} ELSE owned
  BY DEF NotePurge
<1>2. UNCHANGED <<disk, served, ran>> /\ step \in DoSteps
  BY DEF NotePurge, DoSteps
<1>3. Rest /\ disk \in Disks
  BY <1>1, <1>2 DEF ZoneInv, TypeOK, Rest
<1>4. CASE step # "note-committed"
  <2>1. step \in DoSteps \ Touching
    BY <1>4 DEF PurgeNotes, DoSteps, Touching
  <2> QED
    BY <1>1, <1>2, <1>3, <1>4, <2>1, QuietDone DEF Plain
<1>5. CASE step = "note-committed"
  <2>1. /\ TypeOK /\ Known(p) /\ FilesOk(p) /\ phase[p] = "do" /\ step \in todo[p]
        /\ tx[p].cmd \in CommandNames /\ step \in Range(Steps(tx[p].cmd))
        /\ Typed /\ Alone(p) /\ Same(p) /\ Known(p)'
        /\ phase'[p] = "do" /\ todo'[p] = todo[p] \ {step}
        /\ tx'[p].done = tx[p].done \union {step}
        /\ PlanOk(p)' /\ Archive(p)' = Archive(p)
    BY <1>1, <1>2, <1>3, DoneFacts
  <2>2. tx[p].cmd = "quarantine-purge"
    BY <1>5, <2>1, WhoseStep DEF PurgeNotes
  <2>3. Elsewhere(p)
    BY <1>1, <1>2, <1>3 DEF Elsewhere, Zone
  <2>4. WritesOk(p)'
    BY <1>2, <1>5, <2>1 DEF FilesOk, WritesOk, Same
  <2>5. CreateOk(p)' /\ DisableOk(p)' /\ RestoreOk(p)' /\ QuarantineOk(p)' /\ UnpackOk(p)'
    BY <2>1, <2>2 DEF CreateOk, DisableOk, RestoreOk, QuarantineOk, UnpackOk, Same
  <2>6. Kept(tx[p].zone, tx[p].package)' <=> Kept(tx[p].zone, tx[p].package)
    BY <1>2, <2>1 DEF Kept, InPlace, Copies, Same
  <2>7. PurgeOk(p)'
    BY <1>1, <1>2, <1>5, <2>1, <2>6 DEF FilesOk, PurgeOk, Same, Zone, Package
  <2> QED
    BY <1>3, <2>1, <2>3, <2>4, <2>5, <2>7, Moves DEF FilesOk
<1> QED
  BY <1>4, <1>5

\* The other files a step writes: index, groups.yaml and an empty directory.
LEMMA ListsKeep ==
    ASSUME OwnZones, ZoneInv, NEW p \in Procs, UNCHANGED damaged,
           AddInclude(p) \/ WriteGroups(p) \/ MakeDirectory(p) \/ RemoveInclude(p)
    PROVE  ZoneInv'
<1>1. /\ disk \in Disks /\ tx[p].index \in [Zones -> Nat] /\ tx[p].groupsText \subseteq Zones
  BY DEF ZoneInv, TypeOK, Txs
<1>2. ASSUME At(p, "do", "include") \/ At(p, "do", "groups") \/ At(p, "do", "directory")
             \/ At(p, "do", "exclude")
      PROVE  tx[p].zone \in Zones
  BY <1>2, LifecycleAssumption DEF ZoneInv, Known, At
<1>3. ASSUME NEW step \in FileSteps \ Touching, NEW may, NEW d, Write(p, step, may, d), d \in Disks,
             d.zoneFiles = disk.zoneFiles, d.declared = disk.declared, d.archived = disk.archived,
             d.packages = disk.packages, d.staged = disk.staged, d.rescued = disk.rescued
      PROVE  ZoneInv'
  <2>1. CASE /\ may /\ disk' = d /\ At(p, "do", step) /\ Done(p, step)
             /\ Rest /\ owned' = owned
    <3>1. step \in DoSteps \ Touching
      BY <1>3 DEF FileSteps
    <3> QED
      BY <1>3, <2>1, <3>1, QuietDone DEF Plain
  <2> QED
    BY <1>3, <2>1, WriteDone
<1>4. CASE AddInclude(p)
  <2> DEFINE may == tx[p].cmd = "create" => tx[p].index[Zone(p)] = 0
             d == [disk EXCEPT !.index = [tx[p].index EXCEPT ![Zone(p)] = @ + 1]]
  <2>1. Write(p, "include", may, d) /\ "include" \in FileSteps \ Touching
    BY <1>4 DEF AddInclude, FileSteps, DoSteps, Touching
  <2>2. Zone(p) \in Zones
    BY <1>2, <2>1 DEF Write, Zone
  <2>3. /\ d \in Disks /\ d.zoneFiles = disk.zoneFiles /\ d.declared = disk.declared
        /\ d.archived = disk.archived /\ d.packages = disk.packages
        /\ d.staged = disk.staged /\ d.rescued = disk.rescued
    BY <1>1, <2>2 DEF Disks
  <2> HIDE DEF may, d
  <2> QED
    BY <1>3, <2>1, <2>3
<1>5. CASE WriteGroups(p)
  <2> DEFINE d == [disk EXCEPT !.groups = tx[p].groupsText]
  <2>1. Write(p, "groups", TRUE, d) /\ "groups" \in FileSteps \ Touching
    BY <1>5 DEF WriteGroups, FileSteps, DoSteps, Touching
  <2>2. /\ d \in Disks /\ d.zoneFiles = disk.zoneFiles /\ d.declared = disk.declared
        /\ d.archived = disk.archived /\ d.packages = disk.packages
        /\ d.staged = disk.staged /\ d.rescued = disk.rescued
    BY <1>1 DEF Disks
  <2> HIDE DEF d
  <2> QED
    BY <1>3, <2>1, <2>2
<1>6. CASE MakeDirectory(p)
  <2> DEFINE may == Zone(p) \notin disk.directories
             d == [disk EXCEPT !.directories = @ \union {Zone(p)}]
  <2>1. Write(p, "directory", may, d) /\ "directory" \in FileSteps \ Touching
    BY <1>6 DEF MakeDirectory, FileSteps, DoSteps, Touching
  <2>2. Zone(p) \in Zones
    BY <1>2, <2>1 DEF Write, Zone
  <2>3. /\ d \in Disks /\ d.zoneFiles = disk.zoneFiles /\ d.declared = disk.declared
        /\ d.archived = disk.archived /\ d.packages = disk.packages
        /\ d.staged = disk.staged /\ d.rescued = disk.rescued
    BY <1>1, <2>2 DEF Disks
  <2> HIDE DEF may, d
  <2> QED
    BY <1>3, <2>1, <2>3
<1>7. CASE RemoveInclude(p)
  <2> DEFINE d == [disk EXCEPT !.index = [tx[p].index EXCEPT ![Zone(p)] = 0]]
  <2>1. Write(p, "exclude", TRUE, d) /\ "exclude" \in FileSteps \ Touching
    BY <1>7 DEF RemoveInclude, FileSteps, DoSteps, Touching
  <2>2. Zone(p) \in Zones
    BY <1>2, <2>1 DEF Write, Zone
  <2>3. /\ d \in Disks /\ d.zoneFiles = disk.zoneFiles /\ d.declared = disk.declared
        /\ d.archived = disk.archived /\ d.packages = disk.packages
        /\ d.staged = disk.staged /\ d.rescued = disk.rescued
    BY <1>1, <2>2 DEF Disks
  <2> HIDE DEF d
  <2> QED
    BY <1>3, <2>1, <2>3
<1> QED
  BY <1>4, <1>5, <1>6, <1>7

\* A file operation that raises.
LEMMA FileStepFailsKeeps ==
    ASSUME OwnZones, ZoneInv, NEW p \in Procs, FileStepFails(p), UNCHANGED damaged
    PROVE  ZoneInv'
<1>1. PICK step \in FileSteps : At(p, "do", step) /\ disk' \in Remains(p, step) /\ Raise(p, step)
  BY DEF FileStepFails
<1>2. Rest /\ owned' = owned /\ step # "finish"
  BY DEF FileStepFails, ZoneInv, TypeOK, Rest, FileSteps
<1> QED
  BY <1>1, <1>2, RaiseKeeps

\* A BIND command: it is done or raises, and changes no file.
LEMMA CallKeeps ==
    ASSUME OwnZones, ZoneInv, NEW p \in Procs, NEW step \in DoSteps \ Touching, step # "finish",
           At(p, "do", step), Done(p, step) \/ Raise(p, step), UNCHANGED <<disk, ran, owned, damaged>>,
           served' \in SUBSET Zones
    PROVE  ZoneInv'
<1>1. Rest /\ disk' \in Disks /\ Plain /\ UNCHANGED <<disk.staged, disk.rescued>>
      /\ disk' \in Remains(p, step)
  BY DEF ZoneInv, TypeOK, Rest, Plain, Remains
<1>2. CASE Done(p, step)
  BY <1>1, <1>2, QuietDone
<1>3. CASE Raise(p, step)
  BY <1>1, <1>3, RaiseKeeps
<1> QED
  BY <1>2, <1>3

\* The checks, the reconfiguration and the queries of named.
LEMMA BindKeeps ==
    ASSUME OwnZones, ZoneInv, NEW p \in Procs, UNCHANGED damaged,
           \/ CheckZone(p) \/ CheckConf(p) \/ Activate(p) \/ VerifyLoaded(p)
           \/ VerifyUnavailable(p)
    PROVE  ZoneInv'
<1>0. /\ {"check-zone", "check-conf", "reconfig", "loaded", "unloaded"} \subseteq DoSteps \ Touching
      /\ served \in SUBSET Zones
  BY DEF DoSteps, Touching, PurgeNotes, ZoneInv, TypeOK
<1>1. ASSUME NEW step \in {"check-zone", "check-conf", "loaded"}, NEW would, Check(p, step, would)
      PROVE  ZoneInv'
  <2>1. /\ At(p, "do", step) /\ (Done(p, step) \/ Raise(p, step))
        /\ UNCHANGED <<disk, served, ran, owned>>
    BY <1>1 DEF Check
  <2> QED
    BY <1>0, <1>1, <2>1, CallKeeps
<1>2. CASE CheckZone(p) \/ CheckConf(p) \/ VerifyLoaded(p)
  BY <1>1, <1>2 DEF CheckZone, CheckConf, VerifyLoaded
<1>3. CASE Activate(p)
  <2>1. /\ At(p, "do", "reconfig") /\ (Done(p, "reconfig") \/ Raise(p, "reconfig"))
        /\ UNCHANGED <<disk, ran, owned>>
    BY <1>3 DEF Activate
  <2>2. served' \in SUBSET Zones
    BY <1>0, <1>3 DEF Activate, RndcReconfig, Reconfigured, Configured
  <2> QED
    BY <1>0, <2>1, <2>2, CallKeeps
<1>4. CASE VerifyUnavailable(p)
  <2>1. /\ At(p, "do", "unloaded") /\ (Done(p, "unloaded") \/ Raise(p, "unloaded"))
        /\ UNCHANGED <<disk, served, ran, owned>>
    BY <1>4 DEF VerifyUnavailable
  <2> QED
    BY <1>0, <2>1, CallKeeps
<1> QED
  BY <1>2, <1>3, <1>4

\* An idle command has nothing left to be known.
LEMMA IdleOk ==
    ASSUME NEW p \in Procs, phase'[p] = "idle"
    PROVE  Known(p)' /\ FilesOk(p)'
BY DEF Known, FilesOk, PlanOk, WritesOk, CreateOk, DisableOk, RestoreOk, QuarantineOk, UnpackOk,
       PurgeOk

\* A command ends without a change of files or promises.
LEMMA EndKeeps ==
    ASSUME OwnZones, ZoneInv, NEW p \in Procs, NEW outcome \in Outcomes, End(p, outcome),
           owned' = owned, damaged' \in BOOLEAN
    PROVE  ZoneInv'
<1>1. Typed /\ Alone(p) /\ phase'[p] = "idle" /\ UNCHANGED <<disk, served, ran>>
  BY EndForm DEF ZoneInv
<1>2. ran' \in [Procs -> 0..MaxTx] /\ \A q \in Procs \ {p} : ran'[q] = ran[q]
  BY <1>1 DEF ZoneInv, TypeOK
<1> QED
  BY <1>1, <1>2, IdleOk, Stays

\* A command that is done has brought its zone where it promises it.
LEMMA FinishKeeps ==
    ASSUME OwnZones, ZoneInv, NEW p \in Procs, Finish(p), UNCHANGED damaged
    PROVE  ZoneInv'
<1>1. /\ TypeOK /\ Known(p) /\ FilesOk(p) /\ phase[p] = "do" /\ "finish" \in todo[p]
      /\ tx[p].cmd \in CommandNames /\ At(p, "do", "finish")
      /\ todo[p] = Due(p) \ tx[p].done
  BY DEF ZoneInv, Known, At, Finish
<1> DEFINE outcome == IF tx[p].cmd = "quarantine-purge" THEN "PURGED" ELSE "COMMIT"
           t == [tx[p] EXCEPT !.outcome = outcome, !.committed = TRUE]
<1>2. Typed /\ Alone(p) /\ phase'[p] = "idle"
  <2>1. tx[p] \in Txs /\ tx \in [Procs -> Txs] /\ todo \in [Procs -> SUBSET (DoSteps \union UndoStepNames)]
        /\ phase \in [Procs -> {"idle", "planned", "do", "undo"}]
    BY <1>1 DEF TypeOK
  <2>2. tx' = [tx EXCEPT ![p] = t]
    BY <2>1 DEF Finish
  <2>3. t \in Txs
    BY ZenonT(60), <2>1 DEF Txs, Outcomes
  <2> HIDE DEF t
  <2>4. (\A q \in Procs \ {p} : tx'[q] = tx[q]) /\ tx' \in [Procs -> Txs]
    BY <2>1, <2>2, <2>3
  <2>5. /\ todo' \in [Procs -> SUBSET (DoSteps \union UndoStepNames)]
        /\ (\A q \in Procs \ {p} : todo'[q] = todo[q])
        /\ phase' \in [Procs -> {"idle", "planned", "do", "undo"}]
        /\ phase'[p] = "idle" /\ (\A q \in Procs \ {p} : phase'[q] = phase[q])
    BY <2>1 DEF Finish
  <2> QED
    BY <2>4, <2>5 DEF Typed, Alone
<1>3. UNCHANGED <<disk, served, ran>>
  BY DEF Finish
<1>4. tx[p].cmd # "quarantine-purge" => Kept(tx[p].zone, None)
  <2>0. \A c \in disk.packages : c \in Copies /\ c # None
    BY <1>1, NoneAssumption DEF TypeOK, Disks, Copies
  <2>1. CASE tx[p].cmd = "create"
    <3>1. "zone-file" \notin todo[p] /\ "declaration" \notin todo[p]
      BY <1>1, <2>1, Order DEF DoSteps
    <3>2. "zone-file" \in tx[p].done /\ "declaration" \in tx[p].done
      BY <1>1, <2>1, <3>1, ScriptSteps, CreateScript DEF Due
    <3> QED
      BY <1>1, <3>2 DEF FilesOk, WritesOk, Kept, InPlace
  <2>2. CASE tx[p].cmd \in {"disable", "restore"}
    BY <1>1, <2>2 DEF FilesOk, DisableOk, RestoreOk, Kept
  <2>3. CASE tx[p].cmd = "quarantine"
    <3>1. "package" \notin todo[p]
      BY <1>1, <2>3, Order, QuarantineScript DEF DoSteps
    <3>2. "package" \in tx[p].done
      BY <1>1, <2>3, <3>1, ScriptSteps, QuarantineScript DEF Due
    <3>3. tx[p].package \in disk.packages /\ tx[p].package.zone = tx[p].zone
      BY <1>1, <2>3, <3>2 DEF FilesOk, WritesOk, Known, Packing
    <3> QED
      BY <2>0, <3>3 DEF Kept
  <2>4. CASE tx[p].cmd = "quarantine-restore"
    <3>1. tx[p].package \in disk.packages /\ tx[p].package.zone = tx[p].zone
      BY <1>1, <2>4 DEF FilesOk, UnpackOk, Known, Packing
    <3> QED
      BY <2>0, <3>1 DEF Kept
  <2> QED
    BY <1>1, <2>1, <2>2, <2>3, <2>4 DEF CommandNames
<1>5. owned' = owned \/ (/\ phase[p] # "idle" /\ owned' \subseteq owned \union {tx[p].zone}
                         /\ owned \subseteq owned' /\ Kept(tx[p].zone, None))
  BY <1>1, <1>4 DEF Finish, Zone
<1>6. ran' \in [Procs -> 0..MaxTx] /\ (\A q \in Procs \ {p} : ran'[q] = ran[q]) /\ damaged' \in BOOLEAN
  BY <1>1, <1>3 DEF TypeOK
<1> QED
  BY <1>2, <1>3, <1>5, <1>6, IdleOk, Stays

\* The report fails, for any command but restore.
LEMMA FinishFailsKeeps ==
    ASSUME OwnZones, "restore" \notin Unreported, ZoneInv, NEW p \in Procs, FinishFails(p),
           UNCHANGED damaged
    PROVE  ZoneInv'
<1>1. /\ At(p, "do", "finish") /\ tx[p].cmd # "restore" /\ owned' = owned
      /\ served \in SUBSET Zones /\ owned \in SUBSET Zones /\ damaged' \in BOOLEAN
  BY DEF FinishFails, ZoneInv, TypeOK
<1>2. CASE Raise(p, "finish") /\ UNCHANGED <<disk, served, ran>>
  <2>1. Rest /\ disk' \in Remains(p, "finish")
    BY <1>1, <1>2 DEF Rest, Remains
  <2> QED
    BY <1>1, <1>2, <2>1, RaiseKeeps
<1>3. CASE End(p, "RAISED")
  BY <1>1, <1>3, EndKeeps DEF Outcomes
<1> QED
  BY <1>2, <1>3 DEF FinishFails

(* A step of the rollback **************************************************)

\* What an undo step says of its command.
LEMMA UndoFacts ==
    ASSUME ZoneInv, NEW p \in Procs, NEW step, At(p, "undo", step),
           Undone(p, step) \/ NotUndone(p), UNCHANGED ran
    PROVE  /\ TypeOK /\ Known(p) /\ FilesOk(p) /\ phase[p] = "undo" /\ step \in todo[p]
           /\ tx[p].cmd \in CommandNames /\ tx[p].zone \in Zones
           /\ \E u \in Range(UndoSteps(tx[p].cmd)) : u[1] = step
           /\ Typed /\ Alone(p) /\ Same(p) /\ Known(p)'
           /\ phase'[p] = "undo" /\ tx'[p].done = tx[p].done
           /\ todo'[p] = IF NotUndone(p) THEN {} ELSE todo[p] \ {step}
           /\ PlanOk(p)' /\ WritesOk(p)' /\ Archive(p)' = Archive(p)
<1>1. /\ TypeOK /\ Known(p) /\ FilesOk(p) /\ phase[p] = "undo" /\ step \in todo[p]
      /\ tx[p].cmd \in CommandNames /\ tx[p].zone \in Zones
      /\ todo[p] \subseteq {u[1] : u \in Range(UndoSteps(tx[p].cmd))}
  BY LifecycleAssumption DEF ZoneInv, At, Known
<1>2. /\ Typed /\ Alone(p) /\ Same(p)
      /\ phase'[p] = "undo" /\ tx'[p].done = tx[p].done
      /\ todo'[p] = IF NotUndone(p) THEN {} ELSE todo[p] \ {step}
  BY <1>1, UndoneForm, NotUndoneForm
<1>3. Known(p)'
  BY <1>1, <1>2 DEF Known, Same
<1>4. PlanOk(p)' /\ WritesOk(p)' /\ Archive(p)' = Archive(p)
  BY <1>2 DEF PlanOk, WritesOk, Archive, Package, Same
<1> QED
  BY <1>1, <1>2, <1>3, <1>4

\* The undo steps that touch the files of a zone or its package.
Retouching == {"remove-zone-file", "remove-declaration", "rewrite-declaration",
               "remove-archive", "rewrite-zone-file", "rewrite-archive",
               "remove-package", "unstage"}

\* Any other undo step, and one that fails.
LEMMA QuietUndo ==
    ASSUME OwnZones, ZoneInv, NEW p \in Procs, NEW step, At(p, "undo", step),
           (step \notin Retouching /\ Undone(p, step)) \/ NotUndone(p),
           disk' \in Disks, Plain, UNCHANGED <<disk.staged, disk.rescued>>, Rest, owned' = owned
    PROVE  ZoneInv'
<1>1. /\ TypeOK /\ Known(p) /\ FilesOk(p) /\ phase[p] = "undo" /\ step \in todo[p]
      /\ Typed /\ Alone(p) /\ Same(p) /\ Known(p)'
      /\ phase'[p] = "undo" /\ tx'[p].done = tx[p].done
      /\ todo'[p] = IF NotUndone(p) THEN {} ELSE todo[p] \ {step}
      /\ PlanOk(p)' /\ WritesOk(p)' /\ Archive(p)' = Archive(p)
  BY UndoFacts DEF Rest
<1>2. todo'[p] = {} \/ (step \notin Retouching /\ todo'[p] = todo[p] \ {step})
  BY <1>1
<1>3. Elsewhere(p)
  BY DEF Elsewhere, Plain
<1>4. /\ InPlace(tx[p].zone)' <=> InPlace(tx[p].zone)
      /\ Kept(tx[p].zone, tx[p].package)' <=> Kept(tx[p].zone, tx[p].package)
      /\ HasCopy(tx[p].zone)' <=> HasCopy(tx[p].zone)
  BY <1>1 DEF InPlace, Kept, HasCopy, Copies, Plain, Same
<1>5. CreateOk(p)' /\ DisableOk(p)' /\ RestoreOk(p)' /\ UnpackOk(p)'
  BY <1>1, <1>2, <1>4 DEF FilesOk, CreateOk, DisableOk, RestoreOk, UnpackOk, Plain, Same, Retouching
<1>6. QuarantineOk(p)'
  BY <1>1, <1>2 DEF FilesOk, QuarantineOk, Plain, Same, Retouching
<1>7. PurgeOk(p)'
  BY <1>1, <1>2, <1>4 DEF FilesOk, PurgeOk, Plain, Same, Retouching
<1> QED
  BY <1>1, <1>3, <1>5, <1>6, <1>7, Moves DEF FilesOk

\* Removing a zone file that was created or unpacked.
LEMMA RemoveZoneFileKeeps ==
    ASSUME OwnZones, ZoneInv, NEW p \in Procs, RemoveZoneFile(p), UNCHANGED damaged
    PROVE  ZoneInv'
<1> DEFINE d == [disk EXCEPT !.zoneFiles = @ \ {Zone(p)}]
<1>1. /\ disk' = d /\ At(p, "undo", "remove-zone-file") /\ Undone(p, "remove-zone-file")
      /\ UNCHANGED <<served, ran, owned>>
  BY DEF RemoveZoneFile, Undo
<1>2. /\ TypeOK /\ Known(p) /\ FilesOk(p) /\ phase[p] = "undo" /\ "remove-zone-file" \in todo[p]
      /\ tx[p].cmd \in CommandNames /\ tx[p].zone \in Zones
      /\ \E u \in Range(UndoSteps(tx[p].cmd)) : u[1] = "remove-zone-file"
      /\ Typed /\ Alone(p) /\ Same(p) /\ Known(p)'
      /\ phase'[p] = "undo" /\ tx'[p].done = tx[p].done
      /\ todo'[p] = IF NotUndone(p) THEN {} ELSE todo[p] \ {"remove-zone-file"}
      /\ PlanOk(p)' /\ WritesOk(p)' /\ Archive(p)' = Archive(p)
  BY <1>1, UndoFacts
<1>3. tx[p].cmd \in {"create", "quarantine-restore"}
  BY <1>2, WhoseUndo
<1>4. tx[p].cmd \in Packing => tx[p].package \in Packages /\ tx[p].package.zone = tx[p].zone
  BY <1>2 DEF Known
<1>5. /\ disk' \in Disks
      /\ disk'.zoneFiles = disk.zoneFiles \ {tx[p].zone}
      /\ UNCHANGED <<disk.declared, disk.archived, disk.packages, disk.staged, disk.rescued>>
  BY <1>1, <1>2, <1>3, <1>4 DEF TypeOK, Disks, Zone, Package, Packing
<1>6. Elsewhere(p) /\ Rest
  BY <1>1, <1>2, <1>3, <1>4, <1>5 DEF Elsewhere, Packing, Rest, TypeOK
<1>7. CreateOk(p)' /\ UnpackOk(p)'
  BY <1>1, <1>2, <1>5 DEF FilesOk, CreateOk, UnpackOk, HasCopy, Copies, Same
<1>8. DisableOk(p)' /\ RestoreOk(p)' /\ QuarantineOk(p)' /\ PurgeOk(p)'
  BY <1>2, <1>3 DEF DisableOk, RestoreOk, QuarantineOk, PurgeOk, Same
<1> QED
  BY <1>2, <1>6, <1>7, <1>8, Moves DEF FilesOk

\* Removing a declaration that was created; a restored one is still archived.
LEMMA RemoveDeclarationKeeps ==
    ASSUME OwnZones, ZoneInv, NEW p \in Procs, RemoveDeclaration(p), UNCHANGED damaged
    PROVE  ZoneInv'
<1> DEFINE d == [disk EXCEPT !.declared = @ \ {Zone(p)}]
<1>1. /\ disk' = d /\ At(p, "undo", "remove-declaration") /\ Undone(p, "remove-declaration")
      /\ UNCHANGED <<served, ran, owned>>
  BY DEF RemoveDeclaration, Undo
<1>2. /\ TypeOK /\ Known(p) /\ FilesOk(p) /\ phase[p] = "undo" /\ "remove-declaration" \in todo[p]
      /\ tx[p].cmd \in CommandNames /\ tx[p].zone \in Zones
      /\ \E u \in Range(UndoSteps(tx[p].cmd)) : u[1] = "remove-declaration"
      /\ Typed /\ Alone(p) /\ Same(p) /\ Known(p)'
      /\ phase'[p] = "undo" /\ tx'[p].done = tx[p].done
      /\ todo'[p] = IF NotUndone(p) THEN {} ELSE todo[p] \ {"remove-declaration"}
      /\ PlanOk(p)' /\ WritesOk(p)' /\ Archive(p)' = Archive(p)
  BY <1>1, UndoFacts
<1>3. tx[p].cmd \in {"create", "restore", "quarantine-restore"}
  BY <1>2, WhoseUndo
<1>4. tx[p].cmd \in Packing => tx[p].package \in Packages /\ tx[p].package.zone = tx[p].zone
  BY <1>2 DEF Known
<1>5. /\ disk' \in Disks
      /\ disk'.declared = disk.declared \ {tx[p].zone}
      /\ UNCHANGED <<disk.zoneFiles, disk.archived, disk.packages, disk.staged, disk.rescued>>
  BY <1>1, <1>2, <1>3, <1>4 DEF TypeOK, Disks, Zone, Package, Packing
<1>6. Elsewhere(p) /\ Rest
  BY <1>1, <1>2, <1>3, <1>4, <1>5 DEF Elsewhere, Packing, Rest, TypeOK
<1>7. CreateOk(p)' /\ UnpackOk(p)'
  BY <1>1, <1>2, <1>5 DEF FilesOk, CreateOk, UnpackOk, HasCopy, Copies, Same
<1>8. RestoreOk(p)'
  BY <1>1, <1>2, <1>5 DEF FilesOk, RestoreOk, InPlace, Same
<1>9. DisableOk(p)' /\ QuarantineOk(p)' /\ PurgeOk(p)'
  BY <1>2, <1>3 DEF DisableOk, QuarantineOk, PurgeOk, Same
<1> QED
  BY <1>2, <1>6, <1>7, <1>8, <1>9, Moves DEF FilesOk

\* Putting the declaration back.
LEMMA RewriteDeclarationKeeps ==
    ASSUME OwnZones, ZoneInv, NEW p \in Procs, RewriteDeclaration(p), UNCHANGED damaged
    PROVE  ZoneInv'
<1> DEFINE d == [disk EXCEPT !.declared = @ \union {Zone(p)}]
<1>1. /\ disk' = d /\ At(p, "undo", "rewrite-declaration") /\ Undone(p, "rewrite-declaration")
      /\ UNCHANGED <<served, ran, owned>>
  BY DEF RewriteDeclaration, Undo
<1>2. /\ TypeOK /\ Known(p) /\ FilesOk(p) /\ phase[p] = "undo" /\ "rewrite-declaration" \in todo[p]
      /\ tx[p].cmd \in CommandNames /\ tx[p].zone \in Zones
      /\ \E u \in Range(UndoSteps(tx[p].cmd)) : u[1] = "rewrite-declaration"
      /\ Typed /\ Alone(p) /\ Same(p) /\ Known(p)'
      /\ phase'[p] = "undo" /\ tx'[p].done = tx[p].done
      /\ todo'[p] = IF NotUndone(p) THEN {} ELSE todo[p] \ {"rewrite-declaration"}
      /\ PlanOk(p)' /\ WritesOk(p)' /\ Archive(p)' = Archive(p)
  BY <1>1, UndoFacts
<1>3. tx[p].cmd = "disable"
  BY <1>2, WhoseUndo
<1>4. tx[p].cmd \in Packing => tx[p].package \in Packages /\ tx[p].package.zone = tx[p].zone
  BY <1>2 DEF Known
<1>5. /\ disk' \in Disks
      /\ disk'.declared = disk.declared \union {tx[p].zone}
      /\ UNCHANGED <<disk.zoneFiles, disk.archived, disk.packages, disk.staged, disk.rescued>>
  BY <1>1, <1>2, <1>3, <1>4 DEF TypeOK, Disks, Zone, Package, Packing
<1>6. Elsewhere(p) /\ Rest
  BY <1>1, <1>2, <1>3, <1>4, <1>5 DEF Elsewhere, Packing, Rest, TypeOK
<1>7. DisableOk(p)'
  BY <1>1, <1>2, <1>5 DEF FilesOk, DisableOk, InPlace, Same
<1>8. CreateOk(p)' /\ RestoreOk(p)' /\ QuarantineOk(p)' /\ UnpackOk(p)' /\ PurgeOk(p)'
  BY <1>2, <1>3 DEF CreateOk, RestoreOk, QuarantineOk, UnpackOk, PurgeOk, Same
<1> QED
  BY <1>2, <1>6, <1>7, <1>8, Moves DEF FilesOk

\* Removing the archived declaration, once the declaration is back.
LEMMA RemoveArchiveKeeps ==
    ASSUME OwnZones, ZoneInv, NEW p \in Procs, RemoveArchive(p), UNCHANGED damaged
    PROVE  ZoneInv'
<1> DEFINE d == [disk EXCEPT !.archived = @ \ {Zone(p)}]
<1>1. /\ disk' = d /\ At(p, "undo", "remove-archive") /\ Undone(p, "remove-archive")
      /\ UNCHANGED <<served, ran, owned>>
  BY DEF RemoveArchive, Undo
<1>2. /\ TypeOK /\ Known(p) /\ FilesOk(p) /\ phase[p] = "undo" /\ "remove-archive" \in todo[p]
      /\ tx[p].cmd \in CommandNames /\ tx[p].zone \in Zones
      /\ \E u \in Range(UndoSteps(tx[p].cmd)) : u[1] = "remove-archive"
      /\ Typed /\ Alone(p) /\ Same(p) /\ Known(p)'
      /\ phase'[p] = "undo" /\ tx'[p].done = tx[p].done
      /\ todo'[p] = IF NotUndone(p) THEN {} ELSE todo[p] \ {"remove-archive"}
      /\ PlanOk(p)' /\ WritesOk(p)' /\ Archive(p)' = Archive(p)
  BY <1>1, UndoFacts
<1>3. tx[p].cmd = "disable"
  BY <1>2, WhoseUndo
<1>4. tx[p].cmd \in Packing => tx[p].package \in Packages /\ tx[p].package.zone = tx[p].zone
  BY <1>2 DEF Known
<1>5. /\ disk' \in Disks
      /\ disk'.archived = disk.archived \ {tx[p].zone}
      /\ UNCHANGED <<disk.zoneFiles, disk.declared, disk.packages, disk.staged, disk.rescued>>
  BY <1>1, <1>2, <1>3, <1>4 DEF TypeOK, Disks, Zone, Package, Packing
<1>6. Elsewhere(p) /\ Rest
  BY <1>1, <1>2, <1>3, <1>4, <1>5 DEF Elsewhere, Packing, Rest, TypeOK
<1>7. tx[p].zone \in disk.declared
  <2>1. "rewrite-declaration" \notin todo[p]
    BY <1>1, <1>3, UndoOrder
  <2> QED
    BY <1>2, <1>3, <2>1 DEF FilesOk, DisableOk
<1>8. DisableOk(p)'
  BY <1>1, <1>2, <1>3, <1>5, <1>7 DEF FilesOk, DisableOk, InPlace, Same
<1>9. CreateOk(p)' /\ RestoreOk(p)' /\ QuarantineOk(p)' /\ UnpackOk(p)' /\ PurgeOk(p)'
  BY <1>2, <1>3 DEF CreateOk, RestoreOk, QuarantineOk, UnpackOk, PurgeOk, Same
<1> QED
  BY <1>2, <1>6, <1>7, <1>8, <1>9, Moves DEF FilesOk

\* Putting the zone file back.
LEMMA RewriteZoneFileKeeps ==
    ASSUME OwnZones, ZoneInv, NEW p \in Procs, RewriteZoneFile(p), UNCHANGED damaged
    PROVE  ZoneInv'
<1> DEFINE d == [disk EXCEPT !.zoneFiles = @ \union {Zone(p)}]
<1>1. /\ disk' = d /\ At(p, "undo", "rewrite-zone-file") /\ Undone(p, "rewrite-zone-file")
      /\ UNCHANGED <<served, ran, owned>>
  BY DEF RewriteZoneFile, Undo
<1>2. /\ TypeOK /\ Known(p) /\ FilesOk(p) /\ phase[p] = "undo" /\ "rewrite-zone-file" \in todo[p]
      /\ tx[p].cmd \in CommandNames /\ tx[p].zone \in Zones
      /\ \E u \in Range(UndoSteps(tx[p].cmd)) : u[1] = "rewrite-zone-file"
      /\ Typed /\ Alone(p) /\ Same(p) /\ Known(p)'
      /\ phase'[p] = "undo" /\ tx'[p].done = tx[p].done
      /\ todo'[p] = IF NotUndone(p) THEN {} ELSE todo[p] \ {"rewrite-zone-file"}
      /\ PlanOk(p)' /\ WritesOk(p)' /\ Archive(p)' = Archive(p)
  BY <1>1, UndoFacts
<1>3. tx[p].cmd = "quarantine"
  BY <1>2, WhoseUndo
<1>4. tx[p].cmd \in Packing => tx[p].package \in Packages /\ tx[p].package.zone = tx[p].zone
  BY <1>2 DEF Known
<1>5. /\ disk' \in Disks
      /\ disk'.zoneFiles = disk.zoneFiles \union {tx[p].zone}
      /\ UNCHANGED <<disk.declared, disk.archived, disk.packages, disk.staged, disk.rescued>>
  BY <1>1, <1>2, <1>3, <1>4 DEF TypeOK, Disks, Zone, Package, Packing
<1>6. Elsewhere(p) /\ Rest
  BY <1>1, <1>2, <1>3, <1>4, <1>5 DEF Elsewhere, Packing, Rest, TypeOK
<1>7. QuarantineOk(p)'
  BY <1>1, <1>2, <1>5 DEF FilesOk, QuarantineOk, Same
<1>8. CreateOk(p)' /\ DisableOk(p)' /\ RestoreOk(p)' /\ UnpackOk(p)' /\ PurgeOk(p)'
  BY <1>2, <1>3 DEF CreateOk, DisableOk, RestoreOk, UnpackOk, PurgeOk, Same
<1> QED
  BY <1>2, <1>6, <1>7, <1>8, Moves DEF FilesOk

\* Putting the archived declaration back.
LEMMA RewriteArchiveKeeps ==
    ASSUME OwnZones, ZoneInv, NEW p \in Procs, RewriteArchive(p), UNCHANGED damaged
    PROVE  ZoneInv'
<1> DEFINE d == [disk EXCEPT !.archived = @ \union {Zone(p)},
                          !.directories = @ \union {Zone(p)}]
<1>1. /\ disk' = d /\ At(p, "undo", "rewrite-archive") /\ Undone(p, "rewrite-archive")
      /\ UNCHANGED <<served, ran, owned>>
  BY DEF RewriteArchive, Undo
<1>2. /\ TypeOK /\ Known(p) /\ FilesOk(p) /\ phase[p] = "undo" /\ "rewrite-archive" \in todo[p]
      /\ tx[p].cmd \in CommandNames /\ tx[p].zone \in Zones
      /\ \E u \in Range(UndoSteps(tx[p].cmd)) : u[1] = "rewrite-archive"
      /\ Typed /\ Alone(p) /\ Same(p) /\ Known(p)'
      /\ phase'[p] = "undo" /\ tx'[p].done = tx[p].done
      /\ todo'[p] = IF NotUndone(p) THEN {} ELSE todo[p] \ {"rewrite-archive"}
      /\ PlanOk(p)' /\ WritesOk(p)' /\ Archive(p)' = Archive(p)
  BY <1>1, UndoFacts
<1>3. tx[p].cmd = "quarantine"
  BY <1>2, WhoseUndo
<1>4. tx[p].cmd \in Packing => tx[p].package \in Packages /\ tx[p].package.zone = tx[p].zone
  BY <1>2 DEF Known
<1>5. /\ disk' \in Disks
      /\ disk'.archived = disk.archived \union {tx[p].zone}
      /\ UNCHANGED <<disk.zoneFiles, disk.declared, disk.packages, disk.staged, disk.rescued>>
  BY <1>1, <1>2, <1>3, <1>4 DEF TypeOK, Disks, Zone, Package, Packing
<1>6. Elsewhere(p) /\ Rest
  BY <1>1, <1>2, <1>3, <1>4, <1>5 DEF Elsewhere, Packing, Rest, TypeOK
<1>7. QuarantineOk(p)'
  BY <1>1, <1>2, <1>5 DEF FilesOk, QuarantineOk, Same
<1>8. CreateOk(p)' /\ DisableOk(p)' /\ RestoreOk(p)' /\ UnpackOk(p)' /\ PurgeOk(p)'
  BY <1>2, <1>3 DEF CreateOk, DisableOk, RestoreOk, UnpackOk, PurgeOk, Same
<1> QED
  BY <1>2, <1>6, <1>7, <1>8, Moves DEF FilesOk

\* Removing the package, once the files are back.
LEMMA RemovePackageKeeps ==
    ASSUME OwnZones, ZoneInv, NEW p \in Procs, RemovePackage(p), UNCHANGED damaged
    PROVE  ZoneInv'
<1> DEFINE d == [disk EXCEPT !.packages = @ \ {Package(p)}]
<1>1. /\ disk' = d /\ At(p, "undo", "remove-package") /\ Undone(p, "remove-package")
      /\ UNCHANGED <<served, ran, owned>>
  BY DEF RemovePackage, Undo
<1>2. /\ TypeOK /\ Known(p) /\ FilesOk(p) /\ phase[p] = "undo" /\ "remove-package" \in todo[p]
      /\ tx[p].cmd \in CommandNames /\ tx[p].zone \in Zones
      /\ \E u \in Range(UndoSteps(tx[p].cmd)) : u[1] = "remove-package"
      /\ Typed /\ Alone(p) /\ Same(p) /\ Known(p)'
      /\ phase'[p] = "undo" /\ tx'[p].done = tx[p].done
      /\ todo'[p] = IF NotUndone(p) THEN {} ELSE todo[p] \ {"remove-package"}
      /\ PlanOk(p)' /\ WritesOk(p)' /\ Archive(p)' = Archive(p)
  BY <1>1, UndoFacts
<1>3. tx[p].cmd = "quarantine"
  BY <1>2, WhoseUndo
<1>4. tx[p].cmd \in Packing => tx[p].package \in Packages /\ tx[p].package.zone = tx[p].zone
  BY <1>2 DEF Known
<1>5. /\ disk' \in Disks
      /\ disk'.packages = disk.packages \ {tx[p].package}
      /\ UNCHANGED <<disk.zoneFiles, disk.declared, disk.archived, disk.staged, disk.rescued>>
  BY <1>1, <1>2, <1>3, <1>4 DEF TypeOK, Disks, Zone, Package, Packing
<1>6. Elsewhere(p) /\ Rest
  BY <1>1, <1>2, <1>3, <1>4, <1>5 DEF Elsewhere, Packing, Rest, TypeOK
<1>7. tx[p].zone \in disk.zoneFiles \intersect disk.archived
  <2>1. "rewrite-zone-file" \notin todo[p] /\ "rewrite-archive" \notin todo[p]
    BY <1>1, <1>3, UndoOrder
  <2> QED
    BY <1>2, <1>3, <2>1 DEF FilesOk, QuarantineOk
<1>8. QuarantineOk(p)'
  BY <1>1, <1>2, <1>5, <1>7 DEF FilesOk, QuarantineOk, Same
<1>9. CreateOk(p)' /\ DisableOk(p)' /\ RestoreOk(p)' /\ UnpackOk(p)' /\ PurgeOk(p)'
  BY <1>2, <1>3 DEF CreateOk, DisableOk, RestoreOk, UnpackOk, PurgeOk, Same
<1> QED
  BY <1>2, <1>6, <1>7, <1>8, <1>9, Moves DEF FilesOk

\* Taking the package out of the staging directory again.
LEMMA UnstageKeeps ==
    ASSUME OwnZones, ZoneInv, NEW p \in Procs, Unstage(p), UNCHANGED damaged
    PROVE  ZoneInv'
<1>1. /\ At(p, "undo", "unstage") /\ Undone(p, "unstage") /\ UNCHANGED <<served, ran, owned>>
      /\ disk' = IF tx[p].package \in disk.staged
                 THEN [disk EXCEPT !.staged = @ \ {tx[p].package},
                                   !.packages = @ \union {tx[p].package}]
                 ELSE disk
  BY DEF Unstage, Undo, Package
<1>2. /\ TypeOK /\ Known(p) /\ FilesOk(p) /\ phase[p] = "undo" /\ "unstage" \in todo[p]
      /\ tx[p].cmd \in CommandNames /\ tx[p].zone \in Zones
      /\ \E u \in Range(UndoSteps(tx[p].cmd)) : u[1] = "unstage"
      /\ Typed /\ Alone(p) /\ Same(p) /\ Known(p)'
      /\ phase'[p] = "undo" /\ tx'[p].done = tx[p].done
      /\ todo'[p] = IF NotUndone(p) THEN {} ELSE todo[p] \ {"unstage"}
      /\ PlanOk(p)' /\ WritesOk(p)' /\ Archive(p)' = Archive(p)
  BY <1>1, UndoFacts
<1>3. tx[p].cmd = "quarantine-purge"
  BY <1>2, WhoseUndo
<1>4. tx[p].package \in Packages /\ tx[p].package.zone = tx[p].zone
  BY <1>2, <1>3 DEF Known, Packing
<1>5. /\ disk' \in Disks
      /\ UNCHANGED <<disk.zoneFiles, disk.declared, disk.archived, disk.rescued>>
      /\ disk'.packages \union disk'.staged = disk.packages \union disk.staged
      /\ \A k : k # tx[p].package => /\ k \in disk'.packages <=> k \in disk.packages
                                     /\ k \in disk'.staged <=> k \in disk.staged
  <2>1. CASE tx[p].package \in disk.staged
    BY <1>1, <1>2, <1>4, <2>1 DEF TypeOK, Disks
  <2>2. CASE tx[p].package \notin disk.staged
    BY <1>1, <1>2, <2>2 DEF TypeOK
  <2> QED
    BY <2>1, <2>2
<1>6. Elsewhere(p) /\ Rest
  BY <1>1, <1>2, <1>4, <1>5 DEF Elsewhere, Rest, TypeOK
<1>7. Kept(tx[p].zone, tx[p].package)' <=> Kept(tx[p].zone, tx[p].package)
  BY <1>2, <1>5 DEF Kept, InPlace, Copies, Same
<1>8. PurgeOk(p)'
  BY <1>1, <1>2, <1>3, <1>5, <1>7 DEF FilesOk, PurgeOk, Same
<1>9. CreateOk(p)' /\ DisableOk(p)' /\ RestoreOk(p)' /\ QuarantineOk(p)' /\ UnpackOk(p)'
  BY <1>2, <1>3 DEF CreateOk, DisableOk, RestoreOk, QuarantineOk, UnpackOk, Same
<1> QED
  BY <1>2, <1>6, <1>8, <1>9, Moves DEF FilesOk

\* The index, groups.yaml and named are put back.
LEMMA ListsBack ==
    ASSUME OwnZones, ZoneInv, NEW p \in Procs, UNCHANGED damaged,
           RestoreIndex(p) \/ RestoreGroups(p) \/ Reactivate(p)
    PROVE  ZoneInv'
<1>1. /\ disk \in Disks /\ tx[p].index \in [Zones -> Nat] /\ tx[p].groups \subseteq Zones
      /\ served \in SUBSET Zones /\ owned \in SUBSET Zones /\ damaged \in BOOLEAN
  BY DEF ZoneInv, TypeOK, Txs
<1>2. CASE RestoreIndex(p)
  <2>1. /\ disk' \in Disks /\ Plain /\ UNCHANGED <<disk.staged, disk.rescued>>
        /\ At(p, "undo", "restore-index") /\ Undone(p, "restore-index")
        /\ Rest /\ owned' = owned
    BY <1>1, <1>2 DEF RestoreIndex, Undo, Disks, Plain, Rest
  <2> QED
    BY <2>1, QuietUndo DEF Retouching
<1>3. CASE RestoreGroups(p)
  <2>1. /\ disk' \in Disks /\ Plain /\ UNCHANGED <<disk.staged, disk.rescued>>
        /\ At(p, "undo", "restore-groups") /\ Undone(p, "restore-groups")
        /\ Rest /\ owned' = owned
    BY <1>1, <1>3 DEF RestoreGroups, Undo, Disks, Plain, Rest
  <2> QED
    BY <2>1, QuietUndo DEF Retouching
<1>4. CASE Reactivate(p)
  <2>1. /\ At(p, "undo", "reconfig") /\ (Undone(p, "reconfig") \/ NotUndone(p))
        /\ UNCHANGED <<disk, ran, owned>>
    BY <1>4 DEF Reactivate
  <2>2. served' \in SUBSET Zones
    BY <1>1, <1>4 DEF Reactivate, RndcReconfig, Reconfigured, Configured
  <2>3. /\ disk' \in Disks /\ Plain /\ UNCHANGED <<disk.staged, disk.rescued>> /\ Rest
    BY <1>1, <2>1, <2>2 DEF Plain, Rest
  <2> QED
    BY <2>1, <2>3, QuietUndo DEF Retouching
<1> QED
  BY <1>2, <1>3, <1>4

\* An undo step that fails ends the rollback.
LEMMA UndoFailsKeeps ==
    ASSUME OwnZones, ZoneInv, NEW p \in Procs, UndoFails(p)
    PROVE  ZoneInv'
<1>1. PICK step \in UndoStepNames : At(p, "undo", step) /\ damaged' = (damaged \/ step # "remove-package" \/ Package(p) \in disk.packages)
  BY DEF UndoFails
<1>2. NotUndone(p) /\ UNCHANGED <<disk, served, ran, owned>> /\ damaged' \in BOOLEAN
  BY <1>1 DEF UndoFails
<1>3. /\ disk' \in Disks /\ Plain /\ UNCHANGED <<disk.staged, disk.rescued>> /\ Rest
  BY <1>2 DEF ZoneInv, TypeOK, Plain, Rest
<1> QED
  BY <1>1, <1>2, <1>3, QuietUndo

(* The beginning of a command **********************************************)

\* What plan() has seen of a zone.
Planned(p, cmd, z, k) ==
    /\ cmd \in CommandNames /\ z \in Assigned[p] /\ k \in Packages \union {None}
    /\ cmd \in Packing => k \in Packages /\ k.zone = z
    /\ cmd \in {"disable", "restore"} => z \in disk.zoneFiles
    /\ cmd = "quarantine-restore" => z \notin disk.zoneFiles /\ k \in disk.packages

\* A command that has planned.
LEMMA BeginKeeps ==
    ASSUME OwnZones, ZoneInv, NEW p \in Procs, NEW cmd, NEW z, NEW k, Planned(p, cmd, z, k),
           Begin(p, cmd, z, k), UNCHANGED damaged
    PROVE  ZoneInv'
<1>0. /\ tx \in [Procs -> Txs] /\ phase \in [Procs -> {"idle", "planned", "do", "undo"}]
      /\ todo \in [Procs -> SUBSET (DoSteps \union UndoStepNames)] /\ ran \in [Procs -> 0..MaxTx]
      /\ damaged \in BOOLEAN /\ disk \in Disks /\ z \in Zones
  BY LifecycleAssumption DEF ZoneInv, TypeOK, Planned
<1> DEFINE t == [NoTx EXCEPT !.cmd = cmd, !.zone = z, !.package = k, !.groupsText = GroupsText(z)]
<1>1. tx' = [tx EXCEPT ![p] = t]
  BY DEF Begin
<1>2. /\ t \in Txs /\ t.cmd = cmd /\ t.zone = z /\ t.package = k /\ t.done = {}
  <2>1. GroupsText(z) \subseteq Zones
    BY <1>0 DEF GroupsText, Disks
  <2>2. [y \in Zones |-> 0] \in [Zones -> Nat]
    OBVIOUS
  <2> QED
    BY <1>0, <2>1, <2>2 DEF Txs, NoTx, Planned
<1> HIDE DEF t
<1>3. tx'[p] = t /\ (\A q \in Procs \ {p} : tx'[q] = tx[q]) /\ tx' \in [Procs -> Txs]
  BY <1>0, <1>1, <1>2
<1>4. /\ phase' \in [Procs -> {"idle", "planned", "do", "undo"}]
      /\ phase'[p] = "planned" /\ (\A q \in Procs \ {p} : phase'[q] = phase[q])
      /\ UNCHANGED <<disk, served, todo, owned>>
  BY <1>0 DEF Begin
<1>5. ran' \in [Procs -> 0..MaxTx] /\ (\A q \in Procs \ {p} : ran'[q] = ran[q])
  BY <1>0, LifecycleAssumption DEF Begin
<1>6. Typed /\ Alone(p)
  BY <1>0, <1>3, <1>4 DEF Typed, Alone
<1>7. Known(p)'
  BY <1>2, <1>3, <1>4 DEF Known, Planned
<1>8. PlanOk(p)' /\ UnpackOk(p)'
  BY <1>2, <1>3, <1>4 DEF PlanOk, UnpackOk, Planned
<1>9. FilesOk(p)'
  BY <1>4, <1>8 DEF FilesOk, WritesOk, CreateOk, DisableOk, RestoreOk, QuarantineOk, PurgeOk
<1> QED
  BY <1>0, <1>4, <1>5, <1>6, <1>7, <1>9, Stays

\* Every command plans before it begins.
LEMMA PlanKeeps ==
    ASSUME OwnZones, ZoneInv, NEW p \in Procs, Plan(p), UNCHANGED damaged
    PROVE  ZoneInv'
<1>0. /\ disk.packages \subseteq Packages /\ ran[p] \in 0..MaxTx
      /\ Commands \subseteq CommandNames /\ Assigned[p] \subseteq Zones
  BY LifecycleAssumption DEF ZoneInv, TypeOK, Disks
<1>1. CASE CreateCommand(p) \/ CreateZoneWizard(p)
  <2>1. PICK z \in Assigned[p] : Begin(p, "create", z, None)
    BY <1>1 DEF CreateCommand, CreateZoneWizard
  <2>2. Planned(p, "create", z, None)
    BY DEF Planned, CommandNames, Packing
  <2> QED
    BY <2>1, <2>2, BeginKeeps
<1>2. CASE DisableCommand(p)
  <2>1. PICK z \in Assigned[p] : CanDisable(z) /\ Begin(p, "disable", z, None)
    BY <1>2 DEF DisableCommand
  <2>2. Planned(p, "disable", z, None)
    BY <2>1 DEF Planned, CommandNames, Packing, CanDisable
  <2> QED
    BY <2>1, <2>2, BeginKeeps
<1>3. CASE RestoreCommand(p)
  <2>1. PICK z \in Assigned[p] : CanRestore(z) /\ Begin(p, "restore", z, None)
    BY <1>3 DEF RestoreCommand
  <2>2. Planned(p, "restore", z, None)
    BY <2>1 DEF Planned, CommandNames, Packing, CanRestore
  <2> QED
    BY <2>1, <2>2, BeginKeeps
<1>4. CASE QuarantineCommand(p)
  <2>1. PICK z \in Assigned[p] :
          Begin(p, "quarantine", z, [zone |-> z, by |-> p, nr |-> ran[p] + 1])
    BY <1>4 DEF QuarantineCommand
  <2>2. [zone |-> z, by |-> p, nr |-> ran[p] + 1] \in Packages
    BY <1>0, <2>1, LifecycleAssumption DEF Packages, Begin
  <2>3. Planned(p, "quarantine", z, [zone |-> z, by |-> p, nr |-> ran[p] + 1])
    BY <2>2 DEF Planned, CommandNames, Packing
  <2> QED
    BY <2>1, <2>3, BeginKeeps
<1>5. CASE QuarantineRestoreCommand(p)
  <2>1. PICK k \in disk.packages : /\ k.zone \in Assigned[p] /\ CanUnpack(k.zone)
                                   /\ Begin(p, "quarantine-restore", k.zone, k)
    BY <1>5 DEF QuarantineRestoreCommand
  <2>2. Planned(p, "quarantine-restore", k.zone, k)
    BY <1>0, <2>1 DEF Planned, CommandNames, Packing, CanUnpack
  <2> QED
    BY <2>1, <2>2, BeginKeeps
<1>6. CASE QuarantinePurgeCommand(p)
  <2>1. PICK k \in disk.packages : /\ k.zone \in Assigned[p]
                                   /\ Begin(p, "quarantine-purge", k.zone, k)
    BY <1>6 DEF QuarantinePurgeCommand
  <2>2. Planned(p, "quarantine-purge", k.zone, k)
    BY <1>0, <2>1 DEF Planned, CommandNames, Packing
  <2> QED
    BY <2>1, <2>2, BeginKeeps
<1> QED
  BY <1>1, <1>2, <1>3, <1>4, <1>5, <1>6 DEF Plan

\* The reads before the try block see what the command relies on.
LEMMA ReadOriginalsKeeps ==
    ASSUME OwnZones, ZoneInv, NEW p \in Procs, ReadOriginals(p), UNCHANGED damaged
    PROVE  ZoneInv'
<1>0. /\ tx \in [Procs -> Txs] /\ phase \in [Procs -> {"idle", "planned", "do", "undo"}]
      /\ todo \in [Procs -> SUBSET (DoSteps \union UndoStepNames)] /\ ran \in [Procs -> 0..MaxTx]
      /\ damaged \in BOOLEAN /\ disk \in Disks
      /\ Known(p) /\ FilesOk(p) /\ phase[p] = "planned"
      /\ tx[p].cmd \in CommandNames /\ tx[p].zone \in Zones /\ tx[p].done = {}
  BY LifecycleAssumption DEF ZoneInv, TypeOK, ReadOriginals, Known
<1> DEFINE t == [tx[p] EXCEPT !.index = disk.index, !.groups = disk.groups, !.was = disk]
<1>1. tx' = [tx EXCEPT ![p] = t]
  BY <1>0 DEF ReadOriginals
<1>2. /\ t \in Txs /\ t.cmd = tx[p].cmd /\ t.zone = tx[p].zone /\ t.package = tx[p].package
      /\ t.done = tx[p].done
  <2>1. tx[p] \in Txs /\ disk.index \in [Zones -> Nat] /\ disk.groups \in SUBSET Zones
    BY <1>0 DEF Disks
  <2> QED
    BY <1>0, <2>1 DEF Txs
<1> HIDE DEF t
<1>3. tx'[p] = t /\ (\A q \in Procs \ {p} : tx'[q] = tx[q]) /\ tx' \in [Procs -> Txs]
  BY <1>0, <1>1, <1>2
<1>4. /\ phase' \in [Procs -> {"idle", "planned", "do", "undo"}]
      /\ phase'[p] = "do" /\ (\A q \in Procs \ {p} : phase'[q] = phase[q])
      /\ UNCHANGED <<disk, served, ran, owned>>
  BY <1>0 DEF ReadOriginals
<1>5. todo' = [todo EXCEPT ![p] = Due(p)] /\ Due(p) \subseteq DoSteps
  BY <1>0, WhoseStep DEF ReadOriginals, Due
<1>6. /\ todo' \in [Procs -> SUBSET (DoSteps \union UndoStepNames)]
      /\ todo'[p] = Due(p) /\ (\A q \in Procs \ {p} : todo'[q] = todo[q])
  BY <1>0, <1>5
<1>7. Typed /\ Alone(p) /\ Same(p) /\ tx'[p].done = {} /\ Due(p)' = Due(p)
  BY <1>0, <1>2, <1>3, <1>4, <1>6 DEF Typed, Alone, Same, Due
<1>8. Known(p)'
  BY <1>0, <1>4, <1>6, <1>7 DEF Known, Same
<1>9. /\ ~Conflict(tx[p].cmd, tx[p].zone)
      /\ Readable(tx[p].cmd, tx[p].zone, tx[p].package)
  BY DEF ReadOriginals
<1>10. PlanOk(p)' /\ UnpackOk(p)'
  BY <1>0, <1>4, <1>7 DEF FilesOk, PlanOk, UnpackOk, Same
<1>11. WritesOk(p)'
  <2>1. "zone-file" \in Due(p) => tx[p].zone \notin disk.zoneFiles
    BY <1>0, <1>9, WhoseStep DEF Due, FilesOk, PlanOk, Conflict
  <2> QED
    BY <1>4, <1>6, <1>7, <2>1 DEF WritesOk, Same
<1>12. CreateOk(p)'
  <2>1. tx[p].cmd = "create" /\ tx[p].zone \in owned => HasCopy(tx[p].zone)
    BY <1>9 DEF ZoneInv, DataSurvives, Kept, InPlace, HasCopy, Conflict
  <2> QED
    BY <1>4, <1>7, <2>1 DEF CreateOk, HasCopy, Copies, Same
<1>13. DisableOk(p)' /\ RestoreOk(p)' /\ QuarantineOk(p)'
  BY <1>0, <1>4, <1>7, <1>9
     DEF DisableOk, RestoreOk, QuarantineOk, FilesOk, PlanOk, Readable, InPlace, Same
<1>14. PurgeOk(p)'
  BY <1>4, <1>7, <1>9 DEF PurgeOk, Readable, Same
<1> QED
  BY <1>0, <1>4, <1>7, <1>8, <1>10, <1>11, <1>12, <1>13, <1>14, Stays DEF FilesOk

\* A refusal, the end of a rollback and a crash.
LEMMA EndsKeep ==
    ASSUME OwnZones, ZoneInv, NEW p \in Procs,
           \/ (Refuse(p) \/ FinishUndo(p)) /\ UNCHANGED damaged
           \/ Crash(p)
    PROVE  ZoneInv'
<1>1. \E outcome \in Outcomes : End(p, outcome)
  BY DEF Refuse, FinishUndo, Crash, Outcomes
<1>2. owned' = owned /\ damaged' \in BOOLEAN
  BY DEF Refuse, FinishUndo, Crash, ZoneInv, TypeOK
<1> QED
  BY <1>1, <1>2, EndKeeps

(* All steps ***************************************************************)

\* The zones are in one of their states at first.
LEMMA InitKeeps == Init => ZoneInv
<1> SUFFICES ASSUME Init PROVE ZoneInv
  OBVIOUS
<1>1. PICK s \in [Zones -> {"absent", "active", "disabled", "quarantined"}] :
        /\ disk = DiskFor(s)
        /\ served = {z \in Zones : s[z] = "active"}
        /\ owned = {z \in Zones : s[z] # "absent"}
        /\ damaged = FALSE
  BY DEF Init
<1>2. /\ disk.zoneFiles = {z \in Zones : s[z] \in {"active", "disabled"}}
      /\ disk.declared = {z \in Zones : s[z] \in {"active"}}
      /\ disk.archived = {z \in Zones : s[z] \in {"disabled"}}
      /\ disk.packages = {[zone |-> z, by |-> None, nr |-> 0] : z \in {y \in Zones : s[y] \in {"quarantined"}}}
  BY <1>1 DEF DiskFor
<1>3. disk \in Disks
  <2>1. disk.packages \subseteq Packages
    BY <1>2, LifecycleAssumption DEF Packages
  <2>2. [z \in Zones |-> IF s[z] = "active" THEN 1 ELSE 0] \in [Zones -> Nat]
    OBVIOUS
  <2> QED
    BY <1>1, <2>1, <2>2 DEF DiskFor, Disks
<1>4. NoTx \in Txs
  BY DEF NoTx, Txs
<1>5. TypeOK
  <2>1. served \subseteq Zones /\ owned \subseteq Zones /\ damaged \in BOOLEAN
    BY <1>1
  <2>2. /\ phase \in [Procs -> {"idle", "planned", "do", "undo"}]
        /\ todo \in [Procs -> SUBSET (DoSteps \union UndoStepNames)]
    BY DEF Init
  <2>3. tx \in [Procs -> Txs]
    BY <1>4 DEF Init
  <2>4. ran \in [Procs -> 0..MaxTx]
    BY LifecycleAssumption DEF Init
  <2> QED
    BY <1>3, <2>1, <2>2, <2>3, <2>4 DEF TypeOK
<1>6. \A p \in Procs : phase[p] = "idle"
  BY DEF Init
<1>7. \A p \in Procs : Known(p) /\ FilesOk(p)
  BY <1>6 DEF Known, FilesOk, PlanOk, WritesOk, CreateOk, DisableOk, RestoreOk, QuarantineOk,
     UnpackOk, PurgeOk
<1>8. ASSUME NEW z \in owned PROVE Kept(z, None)
  <2>1. s[z] \in {"active", "disabled", "quarantined"} /\ z \in Zones
    BY <1>1
  <2>2. CASE s[z] \in {"active", "disabled"}
    BY <1>2, <2>1, <2>2 DEF Kept, InPlace
  <2>3. CASE s[z] = "quarantined"
    <3> DEFINE c == [zone |-> z, by |-> None, nr |-> 0]
    <3>1. c \in disk.packages /\ c.zone = z
      BY <1>2, <2>1, <2>3
    <3>2. c # None
      BY <1>3, <3>1, NoneAssumption DEF Disks
    <3> QED
      BY <3>1, <3>2 DEF Kept, Copies
  <2> QED
    BY <2>1, <2>2, <2>3
<1> QED
  BY <1>5, <1>7, <1>8 DEF ZoneInv, DataSurvives

\* Every step keeps the invariant.
LEMMA NextKeeps ==
    ASSUME OwnZones, "restore" \notin Unreported, ZoneInv, [Next]_vars
    PROVE  ZoneInv'
<1>1. CASE UNCHANGED vars
  BY <1>1 DEF vars, ZoneInv, TypeOK, Known, Due, FilesOk, PlanOk, WritesOk, CreateOk, DisableOk, RestoreOk,
     QuarantineOk, UnpackOk, PurgeOk, DataSurvives, Kept, InPlace, HasCopy, Copies, Archive, Package
<1>2. ASSUME NEW p \in Procs, Plan(p) \/ Step(p), UNCHANGED damaged PROVE ZoneInv'
  <2>1. CASE Plan(p)
    BY <1>2, <2>1, PlanKeeps
  <2>2. CASE \/ ReadOriginals(p) \/ Refuse(p) \/ Finish(p) \/ FinishFails(p) \/ FileStepFails(p)
             \/ FinishUndo(p)
    BY <1>2, <2>2, ReadOriginalsKeeps, EndsKeep, FinishKeeps, FinishFailsKeeps, FileStepFailsKeeps
  <2>3. CASE \/ WriteZoneFile(p) \/ WriteDeclaration(p) \/ WriteArchive(p) \/ DropDeclaration(p)
             \/ WritePackage(p) \/ DropZoneFile(p) \/ ConsumeArchive(p)
    BY <1>2, <2>3, WriteZoneFileKeeps, WriteDeclarationKeeps, WriteArchiveKeeps, DropDeclarationKeeps,
       WritePackageKeeps, DropZoneFileKeeps, ConsumeArchiveKeeps
  <2>4. CASE NotePurge(p) \/ Stage(p) \/ WriteRescue(p) \/ DropStaged(p) \/ DropRescue(p)
    BY <1>2, <2>4, NotePurgeKeeps, StageKeeps, WriteRescueKeeps, DropStagedKeeps, DropRescueKeeps
  <2>5. CASE \/ AddInclude(p) \/ WriteGroups(p) \/ MakeDirectory(p) \/ RemoveInclude(p)
             \/ CheckZone(p) \/ CheckConf(p) \/ Activate(p) \/ VerifyLoaded(p) \/ VerifyUnavailable(p)
    BY <1>2, <2>5, ListsKeep, BindKeeps
  <2>6. CASE \/ RestoreIndex(p) \/ RestoreGroups(p) \/ Reactivate(p) \/ RemoveZoneFile(p)
             \/ RemoveDeclaration(p) \/ RewriteDeclaration(p) \/ RemoveArchive(p)
             \/ RewriteZoneFile(p) \/ RewriteArchive(p) \/ RemovePackage(p) \/ Unstage(p)
    BY <1>2, <2>6, ListsBack, RemoveZoneFileKeeps, RemoveDeclarationKeeps, RewriteDeclarationKeeps,
       RemoveArchiveKeeps, RewriteZoneFileKeeps, RewriteArchiveKeeps, RemovePackageKeeps, UnstageKeeps
  <2> QED
    BY <1>2, <2>1, <2>2, <2>3, <2>4, <2>5, <2>6 DEF Step
<1>3. ASSUME NEW p \in Procs, UndoFails(p) \/ Crash(p) PROVE ZoneInv'
  BY <1>3, UndoFailsKeeps, EndsKeep
<1> QED
  BY <1>1, <1>2, <1>3 DEF Next

\* In every reachable state the files of a zone agree with the step that the
\* command on it has reached, whatever failed or died before: the order of the
\* writes and unlinks in the six apply() methods and their rollbacks.
THEOREM ZoneInvariant ==
    ASSUME OwnZones, "restore" \notin Unreported
    PROVE  Spec => []ZoneInv
<1>1. ZoneInv /\ [Next]_vars => ZoneInv'
  BY NextKeeps
<1> QED
  BY <1>1, InitKeeps, PTL DEF Spec

\* Every variable keeps its type.
THEOREM TypeCorrect ==
    ASSUME OwnZones, "restore" \notin Unreported
    PROVE  Spec => []TypeOK
<1>1. ZoneInv => TypeOK
  BY DEF ZoneInv
<1> QED
  BY <1>1, ZoneInvariant, PTL

\* No zone that was reported to exist is lost, with any number of operators who
\* work on zones of their own.
THEOREM ZonesSurvive ==
    ASSUME OwnZones, "restore" \notin Unreported
    PROVE  Spec => []DataSurvives
<1>1. ZoneInv => DataSurvives
  BY DEF ZoneInv
<1> QED
  BY <1>1, ZoneInvariant, PTL

(***************************************************************************)
(* Second part: one operator. The files are those that the command found,  *)
(* with what its steps have changed and not taken back.                    *)
(***************************************************************************)

Solo == \A p, q \in Procs : p = q

\* Every zone is in one of its states.
Good(d) == \A z \in Zones : DiskState(d, z) # "damaged"

\* What plan(), and the reads before the try block, have seen of the files d.
Found(p, d) ==
    LET cmd == tx[p].cmd  z == tx[p].zone  k == tx[p].package IN
    /\ cmd = "disable" =>
          z \in d.zoneFiles \intersect d.declared /\ z \notin d.archived /\ d.index[z] = 1
    /\ cmd \in {"restore", "quarantine"} =>
          z \in d.zoneFiles \intersect d.archived /\ z \notin d.declared /\ d.index[z] = 0
    /\ cmd = "quarantine" =>
          k \notin d.packages \union d.staged /\ k.by = p /\ k.nr = ran[p]
    /\ cmd = "quarantine-restore" =>
          z \notin d.zoneFiles \union d.declared /\ d.index[z] = 0 /\ k \in d.packages
    /\ cmd = "quarantine-purge" => Archive(p) \notin d.rescued

\* The same of the files at the beginning of the try block.
ReadOk(p) ==
    LET was == tx[p].was IN
    /\ was \in Disks /\ Found(p, was)
    /\ tx[p].index = was.index /\ tx[p].groups = was.groups
    /\ tx[p].cmd = "create" => tx[p].zone \notin was.zoneFiles \union was.declared
    /\ tx[p].cmd = "quarantine-purge" => tx[p].package \in was.packages
    /\ was.packages \intersect was.staged = {}

\* The undo step that takes a step back.
Reverts(s) ==
    CASE s = "zone-file" -> "remove-zone-file"
      [] s = "declaration" -> "remove-declaration"
      [] s \in {"include", "exclude"} -> "restore-index"
      [] s = "groups" -> "restore-groups"
      [] s = "archive" -> "remove-archive"
      [] s = "drop-declaration" -> "rewrite-declaration"
      [] s = "drop-zone-file" -> "rewrite-zone-file"
      [] s = "consume-archive" -> "rewrite-archive"
      [] s = "package" -> "remove-package"
      [] OTHER -> "none"

\* The steps that are carried out and not taken back.
Standing(p) == {s \in tx[p].done : phase[p] = "undo" => Reverts(s) \in todo[p]}

\* The steps account for the files until a rollback fails half way.
Tracked(p) == phase[p] = "do" \/ (phase[p] = "undo" /\ (tx[p].undone \/ ~damaged))

\* A directory of one file for each zone, once that of z was added or dropped.
Filed(new, old, z, added, dropped) ==
    \A y \in Zones : y \in new <=> (y \in old \/ (y = z /\ added)) /\ ~(y = z /\ dropped)

\* The files d are those that the command t found, and the steps.
Follows(d, t, steps) ==
    LET z == t.zone  was == t.was IN
    /\ Filed(d.zoneFiles, was.zoneFiles, z, "zone-file" \in steps, "drop-zone-file" \in steps)
    /\ Filed(d.declared, was.declared, z, "declaration" \in steps, "drop-declaration" \in steps)
    /\ Filed(d.archived, was.archived, z, "archive" \in steps, "consume-archive" \in steps)
    /\ \A y \in Zones \ {z} : d.index[y] = was.index[y]
    /\ d.index[z] = IF "include" \in steps THEN was.index[z] + 1
                    ELSE IF "exclude" \in steps THEN 0 ELSE was.index[z]
    /\ d.groups = IF "groups" \in steps THEN t.groupsText ELSE was.groups
    /\ t.cmd # "quarantine-purge" =>
         /\ \A c \in Packages : c \in d.packages <=>
               c \in was.packages \/ (c = t.package /\ "package" \in steps)
         /\ d.staged = was.staged /\ d.rescued = was.rescued

\* A purge moves its package and its recovery archive and nothing else.
Moved(p, d) ==
    LET k == tx[p].package  was == tx[p].was IN
    /\ d.directories = was.directories
    /\ \A c \in Packages \ {k} : /\ c \in d.packages <=> c \in was.packages
                                 /\ c \in d.staged <=> c \in was.staged
    /\ \A a \in Archives \ {Archive(p)} : a \in d.rescued <=> a \in was.rescued

\* Where they are after the steps.
Purging(p, d, steps) ==
    /\ tx[p].package \in d.packages <=> "stage" \notin steps
    /\ tx[p].package \in d.staged <=> "stage" \in steps /\ "drop-staged" \notin steps
    /\ Archive(p) \in d.rescued <=> "rescue" \in steps /\ "drop-rescue" \notin steps

PurgeTraced(p) ==
    tx[p].cmd = "quarantine-purge" =>
        /\ Moved(p, disk)
        /\ phase[p] = "do" => Purging(p, disk, tx[p].done)
        /\ phase[p] = "undo" =>
             /\ "rescue" \notin tx[p].done /\ Tracked(p) /\ "unstage" \notin todo[p] =>
                  tx[p].package \in disk.packages
             /\ tx[p].cmd \notin Unreported => "drop-rescue" \notin tx[p].done

\* What the order of the scripts says of the steps done.
InOrder(p) ==
    LET done == tx[p].done IN
    /\ done \subseteq Due(p)
    /\ "include" \in done => "declaration" \in done
    /\ "drop-declaration" \in done => "archive" \in done
    /\ "rescue" \in done => "stage" \in done
    /\ phase[p] = "do" =>
         /\ tx[p].undone
         /\ tx[p].cmd = "restore" /\ "consume-archive" \in done => todo[p] \subseteq {"finish"}
         /\ "drop-rescue" \in done => todo[p] \subseteq {"finish"}
    /\ phase[p] = "undo" =>
         /\ todo[p] # {} => tx[p].undone
         /\ tx[p].cmd = "restore" => "consume-archive" \notin done
         /\ "include" \in done /\ "restore-index" \in todo[p] => "remove-declaration" \in todo[p]

\* Packages and archives bear the number of the command that made them.
Numbered(p, d) ==
    /\ \A c \in d.packages \union d.staged : c.by = p => c.nr <= ran[p]
    /\ \A a \in d.rescued : a.by = p => a.nr <= ran[p]
    /\ d.packages \intersect d.staged = {}

\* A command under way.
Working(p) ==
    /\ ~damaged => Good(tx[p].was)
    /\ ReadOk(p) /\ InOrder(p) /\ PurgeTraced(p)
    /\ Tracked(p) => Follows(disk, tx[p], Standing(p))

SoloOk(p) ==
    /\ Numbered(p, disk)
    /\ phase[p] \in {"idle", "planned"} /\ ~damaged => Good(disk)
    /\ phase[p] = "planned" => Found(p, disk) /\ tx[p].undone
    /\ phase[p] \in {"do", "undo"} => Working(p)

SoloInv ==
    /\ ZoneInv
    /\ OutcomeMatchesDisk
    /\ \A p \in Procs : SoloOk(p)

(* The order of the scripts, once more *************************************)

\* With one operator every zone has its own.
LEMMA SoloOwns == Solo => OwnZones
BY DEF Solo, OwnZones

\* The steps of the scripts that the invariant tells apart.
LEMMA StepOrder ==
    ASSUME NEW p \in Procs, NEW step, At(p, "do", step), tx[p].cmd \in CommandNames,
           todo[p] \subseteq Due(p)
    PROVE  /\ step = "include" => "declaration" \notin todo[p]
           /\ step = "drop-declaration" => "archive" \notin todo[p]
           /\ tx[p].cmd = "restore" /\ step = "consume-archive" =>
                todo[p] \subseteq {"consume-archive", "finish"}
           /\ step = "drop-rescue" => todo[p] \subseteq {"drop-rescue", "finish"}
           /\ step = "drop-staged" => "stage" \notin todo[p] /\ "rescue" \notin todo[p]
           /\ step = "rescue" => "stage" \notin todo[p]
           /\ step = "finish" => todo[p] = {"finish"}
<1>0. /\ \A i, j \in DOMAIN Steps(tx[p].cmd) :
           i < j /\ Steps(tx[p].cmd)[j] = step => Steps(tx[p].cmd)[i] \notin todo[p]
      /\ step \in todo[p] /\ todo[p] \subseteq Range(Steps(tx[p].cmd))
  BY DEF At, Script, Due
<1>1. CASE tx[p].cmd = "create"
  <2>1. Steps(tx[p].cmd) = CreateSteps
    BY <1>1 DEF Steps
  <2> QED
    BY <1>0, <1>1, <2>1, CreateScript
<1>2. CASE tx[p].cmd = "disable"
  <2>1. Steps(tx[p].cmd) = DisableSteps
    BY <1>2 DEF Steps
  <2> QED
    BY <1>0, <1>2, <2>1, DisableScript
<1>3. CASE tx[p].cmd = "restore"
  <2>1. Steps(tx[p].cmd) = RestoreSteps
    BY <1>3 DEF Steps
  <2> QED
    BY <1>0, <1>3, <2>1, RestoreScript
<1>4. CASE tx[p].cmd = "quarantine"
  <2>1. Steps(tx[p].cmd) = QuarantineSteps
    BY <1>4 DEF Steps
  <2> QED
    BY <1>0, <1>4, <2>1, QuarantineScript
<1>5. CASE tx[p].cmd = "quarantine-restore"
  <2>1. Steps(tx[p].cmd) = QuarantineRestoreSteps
    BY <1>5 DEF Steps
  <2> QED
    BY <1>0, <1>5, <2>1, QuarantineRestoreScript
<1>6. CASE tx[p].cmd = "quarantine-purge"
  <2>1. Steps(tx[p].cmd) = PurgeSteps
    BY <1>6 DEF Steps
  <2> QED
    BY <1>0, <1>6, <2>1, PurgeScript
<1> QED
  BY <1>1, <1>2, <1>3, <1>4, <1>5, <1>6 DEF CommandNames

\* The undo scripts in their order.
LEMMA UndoScriptOrder ==
    /\ DOMAIN CreateUndo = 1..5 /\ CreateUndo[1][1] = "restore-index"
       /\ CreateUndo[2][1] = "restore-groups" /\ CreateUndo[3][1] = "remove-zone-file"
       /\ CreateUndo[4][1] = "remove-declaration" /\ CreateUndo[5][1] = "reconfig"
    /\ DOMAIN DisableUndo = 1..4 /\ DisableUndo[1][1] = "restore-index"
       /\ DisableUndo[2][1] = "rewrite-declaration" /\ DisableUndo[3][1] = "remove-archive"
       /\ DisableUndo[4][1] = "reconfig"
    /\ DOMAIN RestoreUndo = 1..3 /\ RestoreUndo[1][1] = "restore-index"
       /\ RestoreUndo[2][1] = "remove-declaration" /\ RestoreUndo[3][1] = "reconfig"
    /\ DOMAIN QuarantineUndo = 1..3 /\ QuarantineUndo[1][1] = "rewrite-zone-file"
       /\ QuarantineUndo[2][1] = "rewrite-archive" /\ QuarantineUndo[3][1] = "remove-package"
    /\ DOMAIN QuarantineRestoreUndo = 1..4 /\ QuarantineRestoreUndo[1][1] = "restore-index"
       /\ QuarantineRestoreUndo[2][1] = "remove-declaration"
       /\ QuarantineRestoreUndo[3][1] = "remove-zone-file"
       /\ QuarantineRestoreUndo[4][1] = "reconfig"
    /\ DOMAIN PurgeUndo = 1..1 /\ PurgeUndo[1][1] = "unstage"
BY DEF CreateUndo, DisableUndo, RestoreUndo, QuarantineUndo, QuarantineRestoreUndo, PurgeUndo

\* The index is put back before the declaration goes, and what comes last is alone.
LEMMA UndoStepOrder ==
    ASSUME NEW p \in Procs, NEW step, At(p, "undo", step), Known(p)
    PROVE  /\ step = "remove-declaration" => "restore-index" \notin todo[p]
           /\ step \in {"reconfig", "remove-package", "unstage"} => todo[p] = {step}
<1> DEFINE u == UndoSteps(tx[p].cmd)
<1>0. /\ \A i, j \in DOMAIN u : i < j /\ u[j][1] = step => u[i][1] \notin todo[p]
      /\ step \in todo[p] /\ todo[p] \subseteq {v[1] : v \in Range(u)}
      /\ tx[p].cmd \in CommandNames
  BY DEF At, Script, Known
<1>1. CASE tx[p].cmd = "create"
  <2>1. u = CreateUndo
    BY <1>1 DEF UndoSteps
  <2> QED
    BY <1>0, <1>1, <2>1, UndoScriptOrder, UndoScripts
<1>2. CASE tx[p].cmd = "disable"
  <2>1. u = DisableUndo
    BY <1>2 DEF UndoSteps
  <2> QED
    BY <1>0, <1>2, <2>1, UndoScriptOrder, UndoScripts
<1>3. CASE tx[p].cmd = "restore"
  <2>1. u = RestoreUndo
    BY <1>3 DEF UndoSteps
  <2> QED
    BY <1>0, <1>3, <2>1, UndoScriptOrder, UndoScripts
<1>4. CASE tx[p].cmd = "quarantine"
  <2>1. u = QuarantineUndo
    BY <1>4 DEF UndoSteps
  <2> QED
    BY <1>0, <1>4, <2>1, UndoScriptOrder, UndoScripts
<1>5. CASE tx[p].cmd = "quarantine-restore"
  <2>1. u = QuarantineRestoreUndo
    BY <1>5 DEF UndoSteps
  <2> QED
    BY <1>0, <1>5, <2>1, UndoScriptOrder, UndoScripts
<1>6. CASE tx[p].cmd = "quarantine-purge"
  <2>1. u = PurgeUndo
    BY <1>6 DEF UndoSteps
  <2> QED
    BY <1>0, <1>6, <2>1, UndoScriptOrder, UndoScripts
<1> QED
  BY <1>0, <1>1, <1>2, <1>3, <1>4, <1>5, <1>6 DEF CommandNames

\* Which commands have which steps, and which undo steps take them back.
LEMMA MoreSteps ==
    ASSUME NEW cmd \in CommandNames
    PROVE  /\ "groups" \in Range(Steps(cmd)) => cmd = "create"
           /\ {"exclude", "directory"} \intersect Range(Steps(cmd)) # {} => cmd = "disable"
           /\ \A u \in Range(UndoSteps(cmd)) :
                /\ u[1] = "restore-groups" => cmd = "create"
                /\ u[1] = "restore-index" => cmd \in {"create", "disable", "restore", "quarantine-restore"}
<1>1. CASE cmd = "create"
  BY <1>1, ScriptSteps, CreateScript, UndoScripts
<1>2. CASE cmd = "disable"
  BY <1>2, ScriptSteps, DisableScript, UndoScripts
<1>3. CASE cmd = "restore"
  BY <1>3, ScriptSteps, RestoreScript, UndoScripts
<1>4. CASE cmd = "quarantine"
  BY <1>4, ScriptSteps, QuarantineScript, UndoScripts
<1>5. CASE cmd = "quarantine-restore"
  BY <1>5, ScriptSteps, QuarantineRestoreScript, UndoScripts
<1>6. CASE cmd = "quarantine-purge"
  BY <1>6, ScriptSteps, PurgeScript, UndoScripts
<1> QED
  BY <1>1, <1>2, <1>3, <1>4, <1>5, <1>6 DEF CommandNames

(* The forms of a step, once more ******************************************)

\* What a command has read.
Keeps(p) ==
    /\ tx'[p].index = tx[p].index /\ tx'[p].groups = tx[p].groups
    /\ tx'[p].groupsText = tx[p].groupsText /\ tx'[p].was = tx[p].was

\* A step keeps it, and only a failure of the rollback is noted.
LEMMA StepForm ==
    ASSUME TypeOK, NEW p \in Procs, NEW step,
           Done(p, step) \/ Raise(p, step) \/ Undone(p, step)
    PROVE  Keeps(p) /\ tx'[p].undone = tx[p].undone
<1>1. tx[p] \in Txs /\ tx \in [Procs -> Txs]
  BY DEF TypeOK
<1>2. CASE Done(p, step)
  <2> DEFINE t == [tx[p] EXCEPT !.done = @ \union {step}]
  <2>1. tx'[p] = t
    BY <1>1, <1>2 DEF Done
  <2>2. /\ t.index = tx[p].index /\ t.groups = tx[p].groups /\ t.undone = tx[p].undone
        /\ t.groupsText = tx[p].groupsText /\ t.was = tx[p].was
    BY <1>1 DEF Txs
  <2> HIDE DEF t
  <2> QED
    BY <2>1, <2>2 DEF Keeps
<1>3. CASE Raise(p, step)
  <2> DEFINE c == step = "finish" /\ tx[p].cmd # "quarantine-purge"
             t == [tx[p] EXCEPT !.committed = c]
  <2>1. tx'[p] = t
    BY <1>1, <1>3 DEF Raise
  <2>2. /\ t.index = tx[p].index /\ t.groups = tx[p].groups /\ t.undone = tx[p].undone
        /\ t.groupsText = tx[p].groupsText /\ t.was = tx[p].was
    BY <1>1 DEF Txs
  <2> HIDE DEF t
  <2> QED
    BY <2>1, <2>2 DEF Keeps
<1>4. CASE Undone(p, step)
  BY <1>4 DEF Undone, Keeps
<1> QED
  BY <1>2, <1>3, <1>4

\* A rollback that fails.
LEMMA FailForm ==
    ASSUME TypeOK, NEW p \in Procs, NotUndone(p)
    PROVE  Keeps(p) /\ tx'[p].undone = FALSE
<1>1. tx[p] \in Txs /\ tx \in [Procs -> Txs]
  BY DEF TypeOK
<1> DEFINE t == [tx[p] EXCEPT !.undone = FALSE]
<1>2. tx'[p] = t
  BY <1>1 DEF NotUndone
<1>3. /\ t.index = tx[p].index /\ t.groups = tx[p].groups /\ t.undone = FALSE
      /\ t.groupsText = tx[p].groupsText /\ t.was = tx[p].was
  BY <1>1 DEF Txs
<1> HIDE DEF t
<1> QED
  BY <1>2, <1>3 DEF Keeps

\* What a command ends with.
LEMMA OutcomeForm ==
    ASSUME TypeOK, NEW p \in Procs, NEW outcome, End(p, outcome)
    PROVE  /\ Same(p) /\ Keeps(p) /\ tx'[p].undone = tx[p].undone
           /\ tx'[p].done = tx[p].done /\ tx'[p].outcome = outcome
<1>1. tx[p] \in Txs /\ tx \in [Procs -> Txs]
  BY DEF TypeOK
<1> DEFINE t == [tx[p] EXCEPT !.outcome = outcome]
<1>2. tx'[p] = t
  BY <1>1 DEF End
<1>3. /\ t.index = tx[p].index /\ t.groups = tx[p].groups /\ t.undone = tx[p].undone
      /\ t.groupsText = tx[p].groupsText /\ t.was = tx[p].was
      /\ t.cmd = tx[p].cmd /\ t.zone = tx[p].zone /\ t.package = tx[p].package
      /\ t.done = tx[p].done /\ t.outcome = outcome
  BY <1>1 DEF Txs
<1> HIDE DEF t
<1> QED
  BY <1>2, <1>3 DEF Keeps, Same

(* Steps of a command under way ********************************************)

\* What is left to show of a step of a command.
LEMMA SoloStep ==
    ASSUME Solo, SoloInv, NEW p \in Procs, phase[p] \in {"do", "undo"}, ZoneInv',
           phase'[p] \in {"do", "undo"}, Same(p), Keeps(p), UNCHANGED ran, damaged => damaged',
           Numbered(p, disk'), InOrder(p)', PurgeTraced(p)',
           Tracked(p)' => Follows(disk', tx[p], Standing(p)')
    PROVE  SoloInv'
<1>1. SoloOk(p) /\ \A q \in Procs : q = p
  BY DEF SoloInv, Solo
<1>2. OutcomeMatchesDisk'
  BY <1>1 DEF OutcomeMatchesDisk, Ended
<1>3. Numbered(p, disk)'
  BY DEF Numbered
<1>4. Archive(p)' = Archive(p)
  BY DEF Archive, Package, Same
<1>5. ReadOk(p)'
  BY <1>1, <1>4 DEF SoloOk, Working, ReadOk, Found, Same, Keeps
<1>6. Tracked(p)' => Follows(disk, tx[p], Standing(p))'
  BY DEF Follows, Filed, Same, Keeps
<1>7. Working(p)'
  BY <1>1, <1>5, <1>6 DEF SoloOk, Working, Keeps
<1>8. SoloOk(p)'
  BY <1>3, <1>7 DEF SoloOk
<1> QED
  BY <1>1, <1>2, <1>8 DEF SoloInv

\* What is known of a command in its try block.
LEMMA Doing ==
    ASSUME SoloInv, NEW p \in Procs, phase[p] = "do"
    PROVE  /\ TypeOK /\ Known(p) /\ FilesOk(p) /\ Numbered(p, disk)
           /\ ReadOk(p) /\ InOrder(p) /\ PurgeTraced(p)
           /\ Follows(disk, tx[p], tx[p].done)
           /\ tx[p].cmd \in CommandNames /\ tx[p].zone \in Zones /\ tx[p].was \in Disks
           /\ disk \in Disks
           /\ todo[p] = Due(p) \ tx[p].done /\ tx[p].done \subseteq Due(p)
<1>1. SoloOk(p) /\ ZoneInv
  BY DEF SoloInv
<1>2. Standing(p) = tx[p].done
  BY DEF Standing
<1>3. /\ TypeOK /\ Known(p) /\ FilesOk(p) /\ Working(p) /\ Numbered(p, disk)
  BY <1>1 DEF SoloOk, ZoneInv
<1> QED
  BY <1>2, <1>3, LifecycleAssumption DEF Working, Tracked, Known, ReadOk, TypeOK

\* What is known of a command in its except block.
LEMMA Undoing ==
    ASSUME SoloInv, NEW p \in Procs, phase[p] = "undo"
    PROVE  /\ TypeOK /\ Known(p) /\ FilesOk(p) /\ Numbered(p, disk)
           /\ ReadOk(p) /\ InOrder(p) /\ PurgeTraced(p)
           /\ Tracked(p) => Follows(disk, tx[p], Standing(p))
           /\ todo[p] # {} => tx[p].undone /\ Tracked(p)
           /\ tx[p].cmd \in CommandNames /\ tx[p].zone \in Zones /\ tx[p].was \in Disks
           /\ disk \in Disks
           /\ todo[p] \subseteq {u[1] : u \in Range(UndoSteps(tx[p].cmd))}
<1>1. SoloOk(p) /\ ZoneInv
  BY DEF SoloInv
<1>2. /\ TypeOK /\ Known(p) /\ FilesOk(p) /\ Working(p) /\ Numbered(p, disk)
  BY <1>1 DEF SoloOk, ZoneInv
<1> QED
  BY <1>2, LifecycleAssumption DEF Working, Tracked, Known, ReadOk, TypeOK, InOrder

\* What a step of the try block has to leave.
Onward(p, step, d) ==
    /\ Numbered(p, d)
    /\ Follows(d, tx[p], tx[p].done \union {step})
    /\ tx[p].cmd = "quarantine-purge" =>
          Moved(p, d) /\ Purging(p, d, tx[p].done \union {step})

\* A step that is done.
LEMMA DoneSolo ==
    ASSUME Solo, SoloInv, NEW p \in Procs, NEW step \in DoSteps, At(p, "do", step),
           Done(p, step), UNCHANGED <<ran, damaged>>, ZoneInv', Onward(p, step, disk')
    PROVE  SoloInv'
<1>1. phase[p] = "do" /\ step \in todo[p]
  BY DEF At
<1>2. /\ TypeOK /\ Known(p) /\ InOrder(p) /\ PurgeTraced(p) /\ tx[p].cmd \in CommandNames
      /\ todo[p] = Due(p) \ tx[p].done /\ tx[p].done \subseteq Due(p)
  BY <1>1, Doing
<1>3. /\ Same(p) /\ Keeps(p) /\ tx'[p].undone = tx[p].undone
      /\ phase'[p] = "do" /\ todo'[p] = todo[p] \ {step}
      /\ tx'[p].done = tx[p].done \union {step}
  BY <1>1, <1>2, DoneForm, StepForm
<1>4. /\ step = "include" => "declaration" \in tx[p].done
      /\ step = "drop-declaration" => "archive" \in tx[p].done
      /\ step = "rescue" => "stage" \in tx[p].done
      /\ tx[p].cmd = "restore" /\ step = "consume-archive" => todo'[p] \subseteq {"finish"}
      /\ step = "drop-rescue" => todo'[p] \subseteq {"finish"}
  <2>1. /\ step = "include" => "declaration" \in Due(p)
        /\ step = "drop-declaration" => "archive" \in Due(p)
        /\ step = "rescue" => "stage" \in Due(p)
    <3>1. CASE step = "include"
      <4>1. tx[p].cmd \in {"create", "restore", "quarantine-restore"}
        BY <1>1, <1>2, <3>1, WhoseStep DEF Due
      <4> QED
        BY <3>1, <4>1, ScriptSteps, CreateScript, RestoreScript, QuarantineRestoreScript DEF Due
    <3>2. CASE step = "drop-declaration"
      <4>1. tx[p].cmd = "disable"
        BY <1>1, <1>2, <3>2, WhoseStep DEF Due
      <4> QED
        BY <3>2, <4>1, ScriptSteps, DisableScript DEF Due
    <3>3. CASE step = "rescue"
      <4>1. tx[p].cmd = "quarantine-purge"
        BY <1>1, <1>2, <3>3, WhoseStep DEF Due
      <4> QED
        BY <3>3, <4>1, ScriptSteps, PurgeScript DEF Due
    <3> QED
      BY <3>1, <3>2, <3>3
  <2> QED
    BY <1>1, <1>2, <1>3, <2>1, StepOrder
<1>5. Due(p)' = Due(p)
  BY <1>3 DEF Due, Same
<1>6. InOrder(p)'
  BY <1>1, <1>2, <1>3, <1>4, <1>5 DEF InOrder, Same
<1>7. Archive(p)' = Archive(p)
  BY <1>3 DEF Archive, Package, Same
<1>8. PurgeTraced(p)'
  BY <1>3, <1>7 DEF PurgeTraced, Onward, Moved, Purging, Same, Keeps
<1>9. Standing(p)' = tx[p].done \union {step}
  BY <1>3 DEF Standing
<1> QED
  BY <1>1, <1>3, <1>6, <1>8, <1>9, SoloStep DEF Onward

\* The steps whose effect the files show.
Tracking == {"zone-file", "declaration", "include", "exclude", "groups", "archive",
             "drop-declaration", "drop-zone-file", "consume-archive", "package"}

\* The files follow from those steps alone.
LEMMA FollowsSame ==
    ASSUME NEW d, NEW e, NEW t, NEW S, NEW T, Follows(d, t, S),
           S \intersect Tracking = T \intersect Tracking,
           e.zoneFiles = d.zoneFiles, e.declared = d.declared, e.archived = d.archived,
           e.index = d.index, e.groups = d.groups,
           t.cmd # "quarantine-purge" =>
              e.packages = d.packages /\ e.staged = d.staged /\ e.rescued = d.rescued
    PROVE  Follows(e, t, T)
<1>1. \A s \in Tracking : s \in S <=> s \in T
  OBVIOUS
<1>2. /\ "zone-file" \in S <=> "zone-file" \in T
      /\ "declaration" \in S <=> "declaration" \in T
      /\ "include" \in S <=> "include" \in T
      /\ "exclude" \in S <=> "exclude" \in T
      /\ "groups" \in S <=> "groups" \in T
      /\ "archive" \in S <=> "archive" \in T
      /\ "drop-declaration" \in S <=> "drop-declaration" \in T
      /\ "drop-zone-file" \in S <=> "drop-zone-file" \in T
      /\ "consume-archive" \in S <=> "consume-archive" \in T
      /\ "package" \in S <=> "package" \in T
  BY <1>1 DEF Tracking
<1> QED
  BY <1>2 DEF Follows, Filed

\* What a file operation that raises may leave.
LEMMA RemainsForm ==
    ASSUME SoloInv, NEW p \in Procs, NEW step, At(p, "do", step), disk' \in Remains(p, step)
    PROVE  /\ UNCHANGED <<disk.zoneFiles, disk.declared, disk.archived, disk.packages,
                          disk.index, disk.groups, disk.directories>>
           /\ tx[p].cmd # "quarantine-purge" => disk' = disk
           /\ disk'.staged \in {disk.staged, disk.staged \ {tx[p].package}}
           /\ disk'.rescued \in {disk.rescued, disk.rescued \union {Archive(p)}}
           /\ step = "finish" => disk' = disk
<1>1. /\ disk \in Disks /\ Known(p) /\ phase[p] = "do" /\ step \in todo[p]
      /\ tx[p].cmd \in CommandNames /\ todo[p] \subseteq Due(p)
  BY Doing DEF At
<1>2. step \in {"rescue", "drop-staged"} => tx[p].cmd = "quarantine-purge"
  BY <1>1, WhoseStep DEF Due
<1>3. CASE disk' = disk
  BY <1>3
<1>4. CASE disk' = [disk EXCEPT !.rescued = @ \union {Archive(p)}] /\ step = "rescue"
  BY <1>1, <1>2, <1>4 DEF Disks
<1>5. CASE disk' = [disk EXCEPT !.staged = @ \ {Package(p)}] /\ step = "drop-staged"
  BY <1>1, <1>2, <1>5 DEF Disks, Package
<1> QED
  BY <1>3, <1>4, <1>5 DEF Remains

\* A step that raises makes all of them due that take back a step done.
LEMMA AllDue ==
    ASSUME SoloInv, NEW p \in Procs, NEW step, At(p, "do", step), Raise(p, step),
           tx[p].cmd = "restore" => step # "finish", NEW s \in tx[p].done \intersect Tracking
    PROVE  Reverts(s) \in todo'[p]
<1>1. /\ TypeOK /\ Known(p) /\ phase[p] = "do" /\ step \in todo[p] /\ InOrder(p)
      /\ tx[p].cmd \in CommandNames /\ tx[p].done \subseteq Range(Steps(tx[p].cmd))
  BY Doing DEF At, Due
<1>2. todo'[p] = {u[1] : u \in {v \in Range(UndoSteps(tx[p].cmd)) :
                    /\ v[2] \in tx[p].done \union ({step} \intersect {"reconfig"}) \union {None}
                    /\ v[1] = "unstage" =>
                         "rescue" \notin tx[p].done \union ({step} \intersect {"reconfig"})}}
  BY <1>1, RaiseForm
<1>3. ASSUME NEW r, NEW b \in tx[p].done \union {None}, r # "unstage",
             <<r, b>> \in Range(UndoSteps(tx[p].cmd))
      PROVE  r \in todo'[p]
  BY <1>2, <1>3
<1>4. CASE tx[p].cmd = "create"
  <2>1. s \in {"zone-file", "declaration", "include", "groups"}
    BY <1>1, <1>4, ScriptSteps, CreateScript DEF Tracking
  <2> QED
    BY <1>3, <1>4, <2>1, ScriptSteps, UndoScripts DEF Reverts
<1>5. CASE tx[p].cmd = "disable"
  <2>1. s \in {"archive", "drop-declaration", "exclude"}
    BY <1>1, <1>5, ScriptSteps, DisableScript DEF Tracking
  <2>2. s = "drop-declaration" => "archive" \in tx[p].done
    BY <1>1 DEF InOrder
  <2> QED
    BY <1>3, <1>5, <2>1, <2>2, ScriptSteps, UndoScripts DEF Reverts
<1>6. CASE tx[p].cmd = "restore"
  <2>1. s \in {"declaration", "include", "consume-archive"}
    BY <1>1, <1>6, ScriptSteps, RestoreScript DEF Tracking
  <2>2. s # "consume-archive"
    BY <1>1, <1>6 DEF InOrder
  <2> QED
    BY <1>3, <1>6, <2>1, <2>2, ScriptSteps, UndoScripts DEF Reverts
<1>7. CASE tx[p].cmd = "quarantine"
  <2>1. s \in {"package", "drop-zone-file", "consume-archive"}
    BY <1>1, <1>7, ScriptSteps, QuarantineScript DEF Tracking
  <2> QED
    BY <1>3, <1>7, <2>1, ScriptSteps, UndoScripts DEF Reverts
<1>8. CASE tx[p].cmd = "quarantine-restore"
  <2>1. s \in {"zone-file", "declaration", "include"}
    BY <1>1, <1>8, ScriptSteps, QuarantineRestoreScript DEF Tracking
  <2> QED
    BY <1>3, <1>8, <2>1, ScriptSteps, UndoScripts DEF Reverts
<1>9. CASE tx[p].cmd = "quarantine-purge"
  BY <1>1, <1>9, ScriptSteps, PurgeScript DEF Tracking
<1> QED
  BY <1>1, <1>4, <1>5, <1>6, <1>7, <1>8, <1>9 DEF CommandNames

\* A step that raises.
LEMMA RaiseSolo ==
    ASSUME Solo, SoloInv, NEW p \in Procs, NEW step, At(p, "do", step), Raise(p, step),
           disk' \in Remains(p, step), UNCHANGED <<ran, damaged>>, ZoneInv',
           step = "finish" => tx[p].cmd \in Unreported,
           tx[p].cmd = "restore" => step # "finish"
    PROVE  SoloInv'
<1>1. /\ TypeOK /\ Known(p) /\ phase[p] = "do" /\ step \in todo[p] /\ InOrder(p)
      /\ Numbered(p, disk) /\ PurgeTraced(p) /\ Follows(disk, tx[p], tx[p].done)
      /\ tx[p].cmd \in CommandNames /\ tx[p].done \subseteq Range(Steps(tx[p].cmd))
  BY Doing DEF At, Due
<1> DEFINE all == tx[p].done \union ({step} \intersect {"reconfig"})
<1>2. /\ Same(p) /\ Keeps(p) /\ tx'[p].undone = tx[p].undone
      /\ phase'[p] = "undo" /\ tx'[p].done = tx[p].done
      /\ todo'[p] = {u[1] : u \in {v \in Range(UndoSteps(tx[p].cmd)) :
                    v[2] \in all \union {None} /\ (v[1] = "unstage" => "rescue" \notin all)}}
  BY <1>1, RaiseForm, StepForm
<1>3. /\ UNCHANGED <<disk.zoneFiles, disk.declared, disk.archived, disk.packages,
                     disk.index, disk.groups, disk.directories>>
      /\ tx[p].cmd # "quarantine-purge" => disk' = disk
      /\ disk'.staged \in {disk.staged, disk.staged \ {tx[p].package}}
      /\ disk'.rescued \in {disk.rescued, disk.rescued \union {Archive(p)}}
  BY RemainsForm
<1>4. Standing(p)' \intersect Tracking = tx[p].done \intersect Tracking
  <2>1. Standing(p)' \subseteq tx[p].done
    BY <1>2 DEF Standing
  <2>2. ASSUME NEW s \in tx[p].done \intersect Tracking PROVE s \in Standing(p)'
    BY <1>2, <2>2, AllDue DEF Standing
  <2> QED
    BY <2>1, <2>2
<1>5. Follows(disk', tx[p], Standing(p)')
  BY <1>1, <1>3, <1>4, FollowsSame
<1>6. Numbered(p, disk')
  <2>1. Archive(p).nr = ran[p]
    BY DEF Archive
  <2>2. ran[p] \in Nat
    BY <1>1, LifecycleAssumption DEF TypeOK
  <2> QED
    BY <1>1, <1>3, <2>1, <2>2 DEF Numbered
<1>7. Archive(p)' = Archive(p) /\ Due(p)' = Due(p)
  BY <1>2 DEF Archive, Package, Same, Due
<1>8. "drop-rescue" \in tx[p].done => step = "finish"
  BY <1>1 DEF InOrder
<1>9. PurgeTraced(p)'
  <2>1. CASE tx[p].cmd # "quarantine-purge"
    BY <1>2, <2>1 DEF PurgeTraced, Same
  <2>2. CASE tx[p].cmd = "quarantine-purge"
    <3>1. Moved(p, disk)'
      BY <1>1, <1>2, <1>3, <1>7, <2>2 DEF PurgeTraced, Moved, Same, Keeps
    <3>2. "rescue" \notin tx[p].done /\ "unstage" \notin todo'[p] => "stage" \notin tx[p].done
      <4>1. <<"unstage", "stage">> \in Range(UndoSteps(tx[p].cmd))
        BY <2>2, ScriptSteps, UndoScripts
      <4>2. ASSUME "rescue" \notin tx[p].done, "stage" \in tx[p].done PROVE "unstage" \in todo'[p]
        BY <1>2, <4>1, <4>2
      <4> QED
        BY <4>2
    <3> HIDE DEF all
    <3>3. "rescue" \notin tx[p].done /\ "unstage" \notin todo'[p] => tx[p].package \in disk'.packages
      BY <1>1, <1>3, <2>2, <3>2 DEF PurgeTraced, Purging
    <3> QED
      BY <1>2, <1>8, <2>2, <3>1, <3>3 DEF PurgeTraced, Same
  <2> QED
    BY <2>1, <2>2
<1>10. InOrder(p)'
  <2>1. "include" \in tx[p].done => "remove-declaration" \in todo'[p]
    <3>1. "include" \in tx[p].done => "declaration" \in tx[p].done
      BY <1>1 DEF InOrder
    <3> QED
      BY <3>1, AllDue DEF Tracking, Reverts
  <2>2. tx[p].cmd = "restore" => "consume-archive" \notin tx[p].done
    BY <1>1 DEF InOrder
  <2> HIDE DEF all
  <2> QED
    BY <1>1, <1>2, <1>7, <2>1, <2>2 DEF InOrder, Same
<1> QED
  BY <1>1, <1>2, <1>5, <1>6, <1>9, <1>10, SoloStep

(* The steps of the try block, once more ***********************************)

\* A file operation.
LEMMA WriteSolo ==
    ASSUME Solo, SoloInv, NEW p \in Procs, NEW step \in FileSteps, NEW may, NEW d,
           Write(p, step, may, d), UNCHANGED damaged, ZoneInv',
           At(p, "do", step) /\ may => Onward(p, step, d)
    PROVE  SoloInv'
<1>1. At(p, "do", step) /\ UNCHANGED <<served, ran, owned>> /\ step # "finish" /\ step \in DoSteps
  BY DEF Write, FileSteps
<1>2. CASE may
  <2>1. disk' = d /\ Done(p, step)
    BY <1>2 DEF Write
  <2> QED
    BY <1>1, <1>2, <2>1, DoneSolo
<1>3. CASE ~may
  <2>1. Raise(p, step) /\ disk' \in Remains(p, step)
    BY <1>3 DEF Write, Remains
  <2> QED
    BY <1>1, <2>1, RaiseSolo
<1> QED
  BY <1>2, <1>3

\* A step that touches none of the files.
LEMMA QuietOnward ==
    ASSUME SoloInv, NEW p \in Procs, phase[p] = "do", NEW d,
           NEW step \in DoSteps \ (Tracking \union {"stage", "rescue", "drop-staged", "drop-rescue"}),
           d.zoneFiles = disk.zoneFiles, d.declared = disk.declared, d.archived = disk.archived,
           d.index = disk.index, d.groups = disk.groups, d.packages = disk.packages,
           d.staged = disk.staged, d.rescued = disk.rescued,
           tx[p].cmd = "quarantine-purge" => d.directories = disk.directories
    PROVE  Onward(p, step, d)
<1>1. Numbered(p, disk) /\ PurgeTraced(p) /\ Follows(disk, tx[p], tx[p].done)
  BY Doing
<1>2. Numbered(p, d)
  BY <1>1 DEF Numbered
<1>3. Follows(d, tx[p], tx[p].done \union {step})
  BY <1>1, FollowsSame
<1>4. tx[p].cmd = "quarantine-purge" => Moved(p, d) /\ Purging(p, d, tx[p].done \union {step})
  BY <1>1 DEF PurgeTraced, Moved, Purging
<1> QED
  BY <1>2, <1>3, <1>4 DEF Onward

\* A step of another command than a purge keeps the numbers if it keeps the packages.
LEMMA PlainOnward ==
    ASSUME SoloInv, NEW p \in Procs, phase[p] = "do", NEW d, NEW step,
           tx[p].cmd # "quarantine-purge", Follows(d, tx[p], tx[p].done \union {step}),
           d.packages = disk.packages, d.staged = disk.staged, d.rescued = disk.rescued
    PROVE  Onward(p, step, d)
<1>1. Numbered(p, disk)
  BY Doing
<1> QED
  BY <1>1 DEF Onward, Numbered

\* Writing the zone file.
LEMMA WriteZoneFileSolo ==
    ASSUME Solo, SoloInv, NEW p \in Procs, WriteZoneFile(p), UNCHANGED damaged, ZoneInv'
    PROVE  SoloInv'
<1> DEFINE d == [disk EXCEPT !.zoneFiles = @ \union {Zone(p)}]
       may == Unpackable(p)
<1>1. Write(p, "zone-file", may, d) /\ "zone-file" \in FileSteps
  BY DEF WriteZoneFile, FileSteps, DoSteps
<1>2. ASSUME At(p, "do", "zone-file"), may PROVE Onward(p, "zone-file", d)
  <2>1. /\ disk \in Disks /\ phase[p] = "do" /\ tx[p].cmd \in CommandNames /\ ReadOk(p)
        /\ Follows(disk, tx[p], tx[p].done) /\ "zone-file" \in Due(p) /\ tx[p].done \subseteq Due(p)
        /\ tx[p].zone \in Zones /\ tx[p].was \in Disks
    BY <1>2, Doing DEF At
  <2>2. tx[p].cmd \in {"create", "quarantine-restore"}
    BY <2>1, WhoseStep, MoreSteps DEF Due
  <2>3. /\ d.zoneFiles = disk.zoneFiles \union {tx[p].zone}
        /\ d.declared = disk.declared /\ d.archived = disk.archived /\ d.index = disk.index /\ d.groups = disk.groups
        /\ d.packages = disk.packages /\ d.staged = disk.staged /\ d.rescued = disk.rescued
    BY <2>1 DEF Disks, Zone, Package
  <2>4. "drop-zone-file" \notin tx[p].done
    BY <2>1, <2>2, WhoseStep, MoreSteps DEF Due
  <2> HIDE DEF d, may
  <2>5. Follows(d, tx[p], tx[p].done \union {"zone-file"})
    BY <2>1, <2>2, <2>3, <2>4 DEF Follows, Filed
  <2> QED
    BY <2>1, <2>2, <2>3, <2>5, PlainOnward
<1> HIDE DEF d, may
<1> QED
  BY <1>1, <1>2, WriteSolo

\* Writing the declaration.
LEMMA WriteDeclarationSolo ==
    ASSUME Solo, SoloInv, NEW p \in Procs, WriteDeclaration(p), UNCHANGED damaged, ZoneInv'
    PROVE  SoloInv'
<1> DEFINE d == [disk EXCEPT !.declared = @ \union {Zone(p)}]
       may == Unpackable(p)
<1>1. Write(p, "declaration", may, d) /\ "declaration" \in FileSteps
  BY DEF WriteDeclaration, FileSteps, DoSteps
<1>2. ASSUME At(p, "do", "declaration"), may PROVE Onward(p, "declaration", d)
  <2>1. /\ disk \in Disks /\ phase[p] = "do" /\ tx[p].cmd \in CommandNames /\ ReadOk(p)
        /\ Follows(disk, tx[p], tx[p].done) /\ "declaration" \in Due(p) /\ tx[p].done \subseteq Due(p)
        /\ tx[p].zone \in Zones /\ tx[p].was \in Disks
    BY <1>2, Doing DEF At
  <2>2. tx[p].cmd \in {"create", "restore", "quarantine-restore"}
    BY <2>1, WhoseStep, MoreSteps DEF Due
  <2>3. /\ d.declared = disk.declared \union {tx[p].zone}
        /\ d.zoneFiles = disk.zoneFiles /\ d.archived = disk.archived /\ d.index = disk.index /\ d.groups = disk.groups
        /\ d.packages = disk.packages /\ d.staged = disk.staged /\ d.rescued = disk.rescued
    BY <2>1 DEF Disks, Zone, Package
  <2>4. "drop-declaration" \notin tx[p].done
    BY <2>1, <2>2, WhoseStep, MoreSteps DEF Due
  <2> HIDE DEF d, may
  <2>5. Follows(d, tx[p], tx[p].done \union {"declaration"})
    BY <2>1, <2>2, <2>3, <2>4 DEF Follows, Filed
  <2> QED
    BY <2>1, <2>2, <2>3, <2>5, PlainOnward
<1> HIDE DEF d, may
<1> QED
  BY <1>1, <1>2, WriteSolo

\* Adding the include line.
LEMMA AddIncludeSolo ==
    ASSUME Solo, SoloInv, NEW p \in Procs, AddInclude(p), UNCHANGED damaged, ZoneInv'
    PROVE  SoloInv'
<1> DEFINE d == [disk EXCEPT !.index = [tx[p].index EXCEPT ![Zone(p)] = @ + 1]]
       may == tx[p].cmd = "create" => tx[p].index[Zone(p)] = 0
<1>1. Write(p, "include", may, d) /\ "include" \in FileSteps
  BY DEF AddInclude, FileSteps, DoSteps
<1>2. ASSUME At(p, "do", "include"), may PROVE Onward(p, "include", d)
  <2>1. /\ disk \in Disks /\ phase[p] = "do" /\ tx[p].cmd \in CommandNames /\ ReadOk(p)
        /\ Follows(disk, tx[p], tx[p].done) /\ "include" \in Due(p) /\ tx[p].done \subseteq Due(p)
        /\ tx[p].zone \in Zones /\ tx[p].was \in Disks
    BY <1>2, Doing DEF At
  <2>2. tx[p].cmd \in {"create", "restore", "quarantine-restore"}
    BY <2>1, WhoseStep, MoreSteps DEF Due
  <2>3. /\ d.index = [tx[p].index EXCEPT ![tx[p].zone] = @ + 1]
        /\ d.zoneFiles = disk.zoneFiles /\ d.declared = disk.declared /\ d.archived = disk.archived /\ d.groups = disk.groups
        /\ d.packages = disk.packages /\ d.staged = disk.staged /\ d.rescued = disk.rescued
    BY <2>1 DEF Disks, Zone, Package
  <2>4. /\ d.index[tx[p].zone] = tx[p].was.index[tx[p].zone] + 1
        /\ \A y \in Zones \ {tx[p].zone} : d.index[y] = tx[p].was.index[y]
    BY <2>1, <2>3 DEF ReadOk, Disks
  <2> HIDE DEF d, may
  <2>5. Follows(d, tx[p], tx[p].done \union {"include"})
    BY <2>1, <2>2, <2>3, <2>4 DEF Follows, Filed
  <2> QED
    BY <2>1, <2>2, <2>3, <2>5, PlainOnward
<1> HIDE DEF d, may
<1> QED
  BY <1>1, <1>2, WriteSolo

\* Writing groups.yaml.
LEMMA WriteGroupsSolo ==
    ASSUME Solo, SoloInv, NEW p \in Procs, WriteGroups(p), UNCHANGED damaged, ZoneInv'
    PROVE  SoloInv'
<1> DEFINE d == [disk EXCEPT !.groups = tx[p].groupsText]
       may == TRUE
<1>1. Write(p, "groups", may, d) /\ "groups" \in FileSteps
  BY DEF WriteGroups, FileSteps, DoSteps
<1>2. ASSUME At(p, "do", "groups"), may PROVE Onward(p, "groups", d)
  <2>1. /\ disk \in Disks /\ phase[p] = "do" /\ tx[p].cmd \in CommandNames /\ ReadOk(p)
        /\ Follows(disk, tx[p], tx[p].done) /\ "groups" \in Due(p) /\ tx[p].done \subseteq Due(p)
        /\ tx[p].zone \in Zones /\ tx[p].was \in Disks
    BY <1>2, Doing DEF At
  <2>2. tx[p].cmd = "create"
    BY <2>1, WhoseStep, MoreSteps DEF Due
  <2>3. /\ d.groups = tx[p].groupsText
        /\ d.zoneFiles = disk.zoneFiles /\ d.declared = disk.declared /\ d.archived = disk.archived /\ d.index = disk.index
        /\ d.packages = disk.packages /\ d.staged = disk.staged /\ d.rescued = disk.rescued
    BY <2>1 DEF Disks, Zone, Package
  <2> HIDE DEF d, may
  <2>4. Follows(d, tx[p], tx[p].done \union {"groups"})
    BY <2>1, <2>2, <2>3 DEF Follows, Filed
  <2> QED
    BY <2>1, <2>2, <2>3, <2>4, PlainOnward
<1> HIDE DEF d, may
<1> QED
  BY <1>1, <1>2, WriteSolo

\* Archiving the declaration.
LEMMA WriteArchiveSolo ==
    ASSUME Solo, SoloInv, NEW p \in Procs, WriteArchive(p), UNCHANGED damaged, ZoneInv'
    PROVE  SoloInv'
<1> DEFINE d == [disk EXCEPT !.archived = @ \union {Zone(p)},
                           !.directories = @ \union {Zone(p)}]
       may == TRUE
<1>1. Write(p, "archive", may, d) /\ "archive" \in FileSteps
  BY DEF WriteArchive, FileSteps, DoSteps
<1>2. ASSUME At(p, "do", "archive"), may PROVE Onward(p, "archive", d)
  <2>1. /\ disk \in Disks /\ phase[p] = "do" /\ tx[p].cmd \in CommandNames /\ ReadOk(p)
        /\ Follows(disk, tx[p], tx[p].done) /\ "archive" \in Due(p) /\ tx[p].done \subseteq Due(p)
        /\ tx[p].zone \in Zones /\ tx[p].was \in Disks
    BY <1>2, Doing DEF At
  <2>2. tx[p].cmd = "disable"
    BY <2>1, WhoseStep, MoreSteps DEF Due
  <2>3. /\ d.archived = disk.archived \union {tx[p].zone}
        /\ d.zoneFiles = disk.zoneFiles /\ d.declared = disk.declared /\ d.index = disk.index /\ d.groups = disk.groups
        /\ d.packages = disk.packages /\ d.staged = disk.staged /\ d.rescued = disk.rescued
    BY <2>1 DEF Disks, Zone, Package
  <2>4. "consume-archive" \notin tx[p].done
    BY <2>1, <2>2, WhoseStep, MoreSteps DEF Due
  <2> HIDE DEF d, may
  <2>5. Follows(d, tx[p], tx[p].done \union {"archive"})
    BY <2>1, <2>2, <2>3, <2>4 DEF Follows, Filed
  <2> QED
    BY <2>1, <2>2, <2>3, <2>5, PlainOnward
<1> HIDE DEF d, may
<1> QED
  BY <1>1, <1>2, WriteSolo

\* Dropping the declaration.
LEMMA DropDeclarationSolo ==
    ASSUME Solo, SoloInv, NEW p \in Procs, DropDeclaration(p), UNCHANGED damaged, ZoneInv'
    PROVE  SoloInv'
<1> DEFINE d == [disk EXCEPT !.declared = @ \ {Zone(p)}]
       may == Zone(p) \in disk.declared
<1>1. Write(p, "drop-declaration", may, d) /\ "drop-declaration" \in FileSteps
  BY DEF DropDeclaration, FileSteps, DoSteps
<1>2. ASSUME At(p, "do", "drop-declaration"), may PROVE Onward(p, "drop-declaration", d)
  <2>1. /\ disk \in Disks /\ phase[p] = "do" /\ tx[p].cmd \in CommandNames /\ ReadOk(p)
        /\ Follows(disk, tx[p], tx[p].done) /\ "drop-declaration" \in Due(p) /\ tx[p].done \subseteq Due(p)
        /\ tx[p].zone \in Zones /\ tx[p].was \in Disks
    BY <1>2, Doing DEF At
  <2>2. tx[p].cmd = "disable"
    BY <2>1, WhoseStep, MoreSteps DEF Due
  <2>3. /\ d.declared = disk.declared \ {tx[p].zone}
        /\ d.zoneFiles = disk.zoneFiles /\ d.archived = disk.archived /\ d.index = disk.index /\ d.groups = disk.groups
        /\ d.packages = disk.packages /\ d.staged = disk.staged /\ d.rescued = disk.rescued
    BY <2>1 DEF Disks, Zone, Package
  <2> HIDE DEF d, may
  <2>4. Follows(d, tx[p], tx[p].done \union {"drop-declaration"})
    BY <2>1, <2>2, <2>3 DEF Follows, Filed
  <2> QED
    BY <2>1, <2>2, <2>3, <2>4, PlainOnward
<1> HIDE DEF d, may
<1> QED
  BY <1>1, <1>2, WriteSolo

\* Removing the include line.
LEMMA RemoveIncludeSolo ==
    ASSUME Solo, SoloInv, NEW p \in Procs, RemoveInclude(p), UNCHANGED damaged, ZoneInv'
    PROVE  SoloInv'
<1> DEFINE d == [disk EXCEPT !.index = [tx[p].index EXCEPT ![Zone(p)] = 0]]
       may == TRUE
<1>1. Write(p, "exclude", may, d) /\ "exclude" \in FileSteps
  BY DEF RemoveInclude, FileSteps, DoSteps
<1>2. ASSUME At(p, "do", "exclude"), may PROVE Onward(p, "exclude", d)
  <2>1. /\ disk \in Disks /\ phase[p] = "do" /\ tx[p].cmd \in CommandNames /\ ReadOk(p)
        /\ Follows(disk, tx[p], tx[p].done) /\ "exclude" \in Due(p) /\ tx[p].done \subseteq Due(p)
        /\ tx[p].zone \in Zones /\ tx[p].was \in Disks
    BY <1>2, Doing DEF At
  <2>2. tx[p].cmd = "disable"
    BY <2>1, WhoseStep, MoreSteps DEF Due
  <2>3. /\ d.index = [tx[p].index EXCEPT ![tx[p].zone] = 0]
        /\ d.zoneFiles = disk.zoneFiles /\ d.declared = disk.declared /\ d.archived = disk.archived /\ d.groups = disk.groups
        /\ d.packages = disk.packages /\ d.staged = disk.staged /\ d.rescued = disk.rescued
    BY <2>1 DEF Disks, Zone, Package
  <2>4. "include" \notin tx[p].done
    BY <2>1, <2>2, WhoseStep, MoreSteps DEF Due
  <2>5. /\ d.index[tx[p].zone] = 0
        /\ \A y \in Zones \ {tx[p].zone} : d.index[y] = tx[p].was.index[y]
    BY <2>1, <2>3 DEF ReadOk, Disks
  <2> HIDE DEF d, may
  <2>6. Follows(d, tx[p], tx[p].done \union {"exclude"})
    BY <2>1, <2>2, <2>3, <2>4, <2>5 DEF Follows, Filed
  <2> QED
    BY <2>1, <2>2, <2>3, <2>6, PlainOnward
<1> HIDE DEF d, may
<1> QED
  BY <1>1, <1>2, WriteSolo

\* Dropping the zone file.
LEMMA DropZoneFileSolo ==
    ASSUME Solo, SoloInv, NEW p \in Procs, DropZoneFile(p), UNCHANGED damaged, ZoneInv'
    PROVE  SoloInv'
<1> DEFINE d == [disk EXCEPT !.zoneFiles = @ \ {Zone(p)}]
       may == Zone(p) \in disk.zoneFiles
<1>1. Write(p, "drop-zone-file", may, d) /\ "drop-zone-file" \in FileSteps
  BY DEF DropZoneFile, FileSteps, DoSteps
<1>2. ASSUME At(p, "do", "drop-zone-file"), may PROVE Onward(p, "drop-zone-file", d)
  <2>1. /\ disk \in Disks /\ phase[p] = "do" /\ tx[p].cmd \in CommandNames /\ ReadOk(p)
        /\ Follows(disk, tx[p], tx[p].done) /\ "drop-zone-file" \in Due(p) /\ tx[p].done \subseteq Due(p)
        /\ tx[p].zone \in Zones /\ tx[p].was \in Disks
    BY <1>2, Doing DEF At
  <2>2. tx[p].cmd = "quarantine"
    BY <2>1, WhoseStep, MoreSteps DEF Due
  <2>3. /\ d.zoneFiles = disk.zoneFiles \ {tx[p].zone}
        /\ d.declared = disk.declared /\ d.archived = disk.archived /\ d.index = disk.index /\ d.groups = disk.groups
        /\ d.packages = disk.packages /\ d.staged = disk.staged /\ d.rescued = disk.rescued
    BY <2>1 DEF Disks, Zone, Package
  <2> HIDE DEF d, may
  <2>4. Follows(d, tx[p], tx[p].done \union {"drop-zone-file"})
    BY <2>1, <2>2, <2>3 DEF Follows, Filed
  <2> QED
    BY <2>1, <2>2, <2>3, <2>4, PlainOnward
<1> HIDE DEF d, may
<1> QED
  BY <1>1, <1>2, WriteSolo

\* Dropping the archived declaration.
LEMMA ConsumeArchiveSolo ==
    ASSUME Solo, SoloInv, NEW p \in Procs, ConsumeArchive(p), UNCHANGED damaged, ZoneInv'
    PROVE  SoloInv'
<1> DEFINE d == [disk EXCEPT !.archived = @ \ {Zone(p)},
                       !.directories = @ \ {Zone(p)}]
       may == Zone(p) \in disk.archived
<1>1. Write(p, "consume-archive", may, d) /\ "consume-archive" \in FileSteps
  BY DEF ConsumeArchive, FileSteps, DoSteps
<1>2. ASSUME At(p, "do", "consume-archive"), may PROVE Onward(p, "consume-archive", d)
  <2>1. /\ disk \in Disks /\ phase[p] = "do" /\ tx[p].cmd \in CommandNames /\ ReadOk(p)
        /\ Follows(disk, tx[p], tx[p].done) /\ "consume-archive" \in Due(p) /\ tx[p].done \subseteq Due(p)
        /\ tx[p].zone \in Zones /\ tx[p].was \in Disks
    BY <1>2, Doing DEF At
  <2>2. tx[p].cmd \in {"restore", "quarantine"}
    BY <2>1, WhoseStep, MoreSteps DEF Due
  <2>3. /\ d.archived = disk.archived \ {tx[p].zone}
        /\ d.zoneFiles = disk.zoneFiles /\ d.declared = disk.declared /\ d.index = disk.index /\ d.groups = disk.groups
        /\ d.packages = disk.packages /\ d.staged = disk.staged /\ d.rescued = disk.rescued
    BY <2>1 DEF Disks, Zone, Package
  <2> HIDE DEF d, may
  <2>4. Follows(d, tx[p], tx[p].done \union {"consume-archive"})
    BY <2>1, <2>2, <2>3 DEF Follows, Filed
  <2> QED
    BY <2>1, <2>2, <2>3, <2>4, PlainOnward
<1> HIDE DEF d, may
<1> QED
  BY <1>1, <1>2, WriteSolo

\* Making the directory of the archive.
LEMMA MakeDirectorySolo ==
    ASSUME Solo, SoloInv, NEW p \in Procs, MakeDirectory(p), UNCHANGED damaged, ZoneInv'
    PROVE  SoloInv'
<1> DEFINE d == [disk EXCEPT !.directories = @ \union {Zone(p)}]
       may == Zone(p) \notin disk.directories
<1>1. Write(p, "directory", may, d) /\ "directory" \in FileSteps
  BY DEF MakeDirectory, FileSteps, DoSteps
<1>2. ASSUME At(p, "do", "directory"), may PROVE Onward(p, "directory", d)
  <2>1. /\ disk \in Disks /\ phase[p] = "do" /\ tx[p].cmd \in CommandNames
        /\ "directory" \in Due(p)
    BY <1>2, Doing DEF At
  <2>2. tx[p].cmd = "disable"
    BY <2>1, MoreSteps DEF Due
  <2>3. /\ d.zoneFiles = disk.zoneFiles /\ d.declared = disk.declared /\ d.archived = disk.archived
        /\ d.index = disk.index /\ d.groups = disk.groups /\ d.packages = disk.packages
        /\ d.staged = disk.staged /\ d.rescued = disk.rescued
    BY <2>1 DEF Disks
  <2>4. "directory" \in DoSteps \ (Tracking \union {"stage", "rescue", "drop-staged", "drop-rescue"})
    BY DEF DoSteps, Tracking
  <2> HIDE DEF d, may
  <2> QED
    BY <2>1, <2>2, <2>3, <2>4, QuietOnward
<1> HIDE DEF d, may
<1> QED
  BY <1>1, <1>2, WriteSolo

\* Making the package, which bears the number of its command.
LEMMA WritePackageSolo ==
    ASSUME Solo, SoloInv, NEW p \in Procs, WritePackage(p), UNCHANGED damaged, ZoneInv'
    PROVE  SoloInv'
<1> DEFINE d == [disk EXCEPT !.packages = @ \union {Package(p)}]
       may == TRUE
<1>1. Write(p, "package", may, d) /\ "package" \in FileSteps
  BY DEF WritePackage, FileSteps, DoSteps
<1>2. ASSUME At(p, "do", "package"), may PROVE Onward(p, "package", d)
  <2>1. /\ disk \in Disks /\ phase[p] = "do" /\ tx[p].cmd \in CommandNames /\ ReadOk(p) /\ TypeOK
        /\ Follows(disk, tx[p], tx[p].done) /\ "package" \in Due(p) /\ Numbered(p, disk)
    BY <1>2, Doing DEF At
  <2>2. tx[p].cmd = "quarantine"
    BY <2>1, WhoseStep DEF Due
  <2>3. /\ d.packages = disk.packages \union {tx[p].package}
        /\ d.zoneFiles = disk.zoneFiles /\ d.declared = disk.declared /\ d.archived = disk.archived
        /\ d.index = disk.index /\ d.groups = disk.groups
        /\ d.staged = disk.staged /\ d.rescued = disk.rescued
    BY <2>1 DEF Disks, Package
  <2> HIDE DEF d, may
  <2>4. Follows(d, tx[p], tx[p].done \union {"package"})
    BY <2>1, <2>2, <2>3 DEF Follows, Filed
  <2>5. tx[p].package.nr = ran[p] /\ tx[p].package \notin disk.staged /\ ran[p] \in Nat
    BY <2>1, <2>2, LifecycleAssumption DEF ReadOk, Found, Follows, TypeOK
  <2>6. Numbered(p, d)
    BY <2>1, <2>3, <2>5 DEF Numbered
  <2> QED
    BY <2>2, <2>4, <2>6 DEF Onward
<1> HIDE DEF d, may
<1> QED
  BY <1>1, <1>2, WriteSolo

\* A step of a purge.
LEMMA PurgeOnward ==
    ASSUME SoloInv, NEW p \in Procs, phase[p] = "do", tx[p].cmd = "quarantine-purge", NEW d,
           NEW step \in {"stage", "rescue", "drop-staged", "drop-rescue"},
           d.zoneFiles = disk.zoneFiles, d.declared = disk.declared, d.archived = disk.archived,
           d.index = disk.index, d.groups = disk.groups, d.directories = disk.directories,
           \A c \in Packages \ {tx[p].package} : /\ c \in d.packages <=> c \in disk.packages
                                                 /\ c \in d.staged <=> c \in disk.staged,
           \A a \in Archives \ {Archive(p)} : a \in d.rescued <=> a \in disk.rescued,
           Purging(p, d, tx[p].done \union {step}), Numbered(p, d)
    PROVE  Onward(p, step, d)
<1>1. PurgeTraced(p) /\ Follows(disk, tx[p], tx[p].done)
  BY Doing
<1>2. Follows(d, tx[p], tx[p].done \union {step})
  BY <1>1, FollowsSame DEF Tracking
<1>3. Moved(p, d)
  BY <1>1 DEF PurgeTraced, Moved
<1> QED
  BY <1>2, <1>3 DEF Onward

\* Staging the package.
LEMMA StageSolo ==
    ASSUME Solo, SoloInv, NEW p \in Procs, Stage(p), UNCHANGED damaged, ZoneInv'
    PROVE  SoloInv'
<1> DEFINE d == [disk EXCEPT !.packages = @ \ {Package(p)},
                           !.staged = @ \union {Package(p)}]
       may == Package(p) \in disk.packages
<1>1. Write(p, "stage", may, d) /\ "stage" \in FileSteps
  BY DEF Stage, FileSteps, DoSteps
<1>2. ASSUME At(p, "do", "stage"), may PROVE Onward(p, "stage", d)
  <2>1. /\ disk \in Disks /\ phase[p] = "do" /\ tx[p].cmd \in CommandNames /\ PurgeTraced(p)
        /\ "stage" \in Due(p) \ tx[p].done /\ Numbered(p, disk) /\ TypeOK /\ InOrder(p)
        /\ todo[p] = Due(p) \ tx[p].done
    BY <1>2, Doing DEF At
  <2>2. tx[p].cmd = "quarantine-purge"
    BY <2>1, WhoseStep DEF Due
  <2>3. /\ d.packages = disk.packages \ {tx[p].package} /\ d.staged = disk.staged \union {tx[p].package}
        /\ d.rescued = disk.rescued
        /\ d.zoneFiles = disk.zoneFiles /\ d.declared = disk.declared /\ d.archived = disk.archived
        /\ d.index = disk.index /\ d.groups = disk.groups /\ d.directories = disk.directories
    BY <2>1 DEF Disks, Package
  <2>4. Purging(p, disk, tx[p].done)
    BY <2>1, <2>2 DEF PurgeTraced
  <2>5. /\ "stage" \in {"drop-staged", "drop-rescue"} => "rescue" \in tx[p].done
        /\ "stage" \in {"drop-staged", "rescue"} => "stage" \in tx[p].done
        /\ "drop-rescue" \notin tx[p].done
        /\ "stage" \in {"rescue", "stage"} => "drop-staged" \notin tx[p].done
    <3>1. {"stage", "rescue", "drop-staged"} \subseteq Due(p)
      BY <2>2, ScriptSteps, PurgeScript DEF Due
    <3>2. PurgeOk(p)
      BY <1>2, Doing DEF At, FilesOk
    <3>3. "drop-rescue" \notin tx[p].done
      BY <2>1 DEF InOrder
    <3>4. "stage" = "stage" => "rescue" \notin tx[p].done
      BY <2>1 DEF InOrder
    <3> QED
      BY <1>2, <2>1, <2>2, <3>1, <3>2, <3>3, <3>4, StepOrder DEF PurgeOk
  <2>6. may
    BY <1>2
  <2>7. Archive(p).nr = ran[p] /\ ran[p] \in Nat
    BY <2>1, LifecycleAssumption DEF TypeOK, Archive
  <2>8. may => tx[p].package \in disk.packages
    BY DEF Package
  <2> HIDE DEF d, may
  <2>9. Purging(p, d, tx[p].done \union {"stage"})
    BY <2>1, <2>3, <2>4, <2>5 DEF Purging
  <2>10. Numbered(p, d)
    BY <2>1, <2>3, <2>6, <2>7, <2>8 DEF Numbered
  <2> QED
    BY <2>1, <2>2, <2>3, <2>9, <2>10, PurgeOnward
<1> HIDE DEF d, may
<1> QED
  BY <1>1, <1>2, WriteSolo

\* Making the recovery archive.
LEMMA WriteRescueSolo ==
    ASSUME Solo, SoloInv, NEW p \in Procs, WriteRescue(p), UNCHANGED damaged, ZoneInv'
    PROVE  SoloInv'
<1> DEFINE d == [disk EXCEPT !.rescued = @ \union {Archive(p)}]
       may == Package(p) \in disk.staged
<1>1. Write(p, "rescue", may, d) /\ "rescue" \in FileSteps
  BY DEF WriteRescue, FileSteps, DoSteps
<1>2. ASSUME At(p, "do", "rescue"), may PROVE Onward(p, "rescue", d)
  <2>1. /\ disk \in Disks /\ phase[p] = "do" /\ tx[p].cmd \in CommandNames /\ PurgeTraced(p)
        /\ "rescue" \in Due(p) \ tx[p].done /\ Numbered(p, disk) /\ TypeOK /\ InOrder(p)
        /\ todo[p] = Due(p) \ tx[p].done
    BY <1>2, Doing DEF At
  <2>2. tx[p].cmd = "quarantine-purge"
    BY <2>1, WhoseStep DEF Due
  <2>3. /\ d.rescued = disk.rescued \union {Archive(p)}
        /\ d.packages = disk.packages /\ d.staged = disk.staged
        /\ d.zoneFiles = disk.zoneFiles /\ d.declared = disk.declared /\ d.archived = disk.archived
        /\ d.index = disk.index /\ d.groups = disk.groups /\ d.directories = disk.directories
    BY <2>1 DEF Disks, Package
  <2>4. Purging(p, disk, tx[p].done)
    BY <2>1, <2>2 DEF PurgeTraced
  <2>5. /\ "rescue" \in {"drop-staged", "drop-rescue"} => "rescue" \in tx[p].done
        /\ "rescue" \in {"drop-staged", "rescue"} => "stage" \in tx[p].done
        /\ "drop-rescue" \notin tx[p].done
        /\ "rescue" \in {"rescue", "stage"} => "drop-staged" \notin tx[p].done
    <3>1. {"stage", "rescue", "drop-staged"} \subseteq Due(p)
      BY <2>2, ScriptSteps, PurgeScript DEF Due
    <3>2. PurgeOk(p)
      BY <1>2, Doing DEF At, FilesOk
    <3>3. "drop-rescue" \notin tx[p].done
      BY <2>1 DEF InOrder
    <3>4. "rescue" = "stage" => "rescue" \notin tx[p].done
      BY <2>1 DEF InOrder
    <3> QED
      BY <1>2, <2>1, <2>2, <3>1, <3>2, <3>3, <3>4, StepOrder DEF PurgeOk
  <2>6. may
    BY <1>2
  <2>7. Archive(p).nr = ran[p] /\ ran[p] \in Nat
    BY <2>1, LifecycleAssumption DEF TypeOK, Archive
  <2>8. may => tx[p].package \in disk.staged
    BY DEF Package
  <2> HIDE DEF d, may
  <2>9. Purging(p, d, tx[p].done \union {"rescue"})
    BY <2>1, <2>3, <2>4, <2>5 DEF Purging
  <2>10. Numbered(p, d)
    BY <2>1, <2>3, <2>6, <2>7, <2>8 DEF Numbered
  <2> QED
    BY <2>1, <2>2, <2>3, <2>9, <2>10, PurgeOnward
<1> HIDE DEF d, may
<1> QED
  BY <1>1, <1>2, WriteSolo

\* Dropping the staged package.
LEMMA DropStagedSolo ==
    ASSUME Solo, SoloInv, NEW p \in Procs, DropStaged(p), UNCHANGED damaged, ZoneInv'
    PROVE  SoloInv'
<1> DEFINE d == [disk EXCEPT !.staged = @ \ {Package(p)}]
       may == Package(p) \in disk.staged
<1>1. Write(p, "drop-staged", may, d) /\ "drop-staged" \in FileSteps
  BY DEF DropStaged, FileSteps, DoSteps
<1>2. ASSUME At(p, "do", "drop-staged"), may PROVE Onward(p, "drop-staged", d)
  <2>1. /\ disk \in Disks /\ phase[p] = "do" /\ tx[p].cmd \in CommandNames /\ PurgeTraced(p)
        /\ "drop-staged" \in Due(p) \ tx[p].done /\ Numbered(p, disk) /\ TypeOK /\ InOrder(p)
        /\ todo[p] = Due(p) \ tx[p].done
    BY <1>2, Doing DEF At
  <2>2. tx[p].cmd = "quarantine-purge"
    BY <2>1, WhoseStep DEF Due
  <2>3. /\ d.staged = disk.staged \ {tx[p].package}
        /\ d.packages = disk.packages /\ d.rescued = disk.rescued
        /\ d.zoneFiles = disk.zoneFiles /\ d.declared = disk.declared /\ d.archived = disk.archived
        /\ d.index = disk.index /\ d.groups = disk.groups /\ d.directories = disk.directories
    BY <2>1 DEF Disks, Package
  <2>4. Purging(p, disk, tx[p].done)
    BY <2>1, <2>2 DEF PurgeTraced
  <2>5. /\ "drop-staged" \in {"drop-staged", "drop-rescue"} => "rescue" \in tx[p].done
        /\ "drop-staged" \in {"drop-staged", "rescue"} => "stage" \in tx[p].done
        /\ "drop-rescue" \notin tx[p].done
        /\ "drop-staged" \in {"rescue", "stage"} => "drop-staged" \notin tx[p].done
    <3>1. {"stage", "rescue", "drop-staged"} \subseteq Due(p)
      BY <2>2, ScriptSteps, PurgeScript DEF Due
    <3>2. PurgeOk(p)
      BY <1>2, Doing DEF At, FilesOk
    <3>3. "drop-rescue" \notin tx[p].done
      BY <2>1 DEF InOrder
    <3>4. "drop-staged" = "stage" => "rescue" \notin tx[p].done
      BY <2>1 DEF InOrder
    <3> QED
      BY <1>2, <2>1, <2>2, <3>1, <3>2, <3>3, <3>4, StepOrder DEF PurgeOk
  <2>6. may
    BY <1>2
  <2>7. Archive(p).nr = ran[p] /\ ran[p] \in Nat
    BY <2>1, LifecycleAssumption DEF TypeOK, Archive
  <2>8. may => tx[p].package \in disk.staged
    BY DEF Package
  <2> HIDE DEF d, may
  <2>9. Purging(p, d, tx[p].done \union {"drop-staged"})
    BY <2>1, <2>3, <2>4, <2>5 DEF Purging
  <2>10. Numbered(p, d)
    BY <2>1, <2>3, <2>6, <2>7, <2>8 DEF Numbered
  <2> QED
    BY <2>1, <2>2, <2>3, <2>9, <2>10, PurgeOnward
<1> HIDE DEF d, may
<1> QED
  BY <1>1, <1>2, WriteSolo

\* Dropping the recovery archive.
LEMMA DropRescueSolo ==
    ASSUME Solo, SoloInv, NEW p \in Procs, DropRescue(p), UNCHANGED damaged, ZoneInv'
    PROVE  SoloInv'
<1> DEFINE d == [disk EXCEPT !.rescued = @ \ {Archive(p)}]
       may == Archive(p) \in disk.rescued
<1>1. Write(p, "drop-rescue", may, d) /\ "drop-rescue" \in FileSteps
  BY DEF DropRescue, FileSteps, DoSteps
<1>2. ASSUME At(p, "do", "drop-rescue"), may PROVE Onward(p, "drop-rescue", d)
  <2>1. /\ disk \in Disks /\ phase[p] = "do" /\ tx[p].cmd \in CommandNames /\ PurgeTraced(p)
        /\ "drop-rescue" \in Due(p) \ tx[p].done /\ Numbered(p, disk) /\ TypeOK /\ InOrder(p)
        /\ todo[p] = Due(p) \ tx[p].done
    BY <1>2, Doing DEF At
  <2>2. tx[p].cmd = "quarantine-purge"
    BY <2>1, WhoseStep DEF Due
  <2>3. /\ d.rescued = disk.rescued \ {Archive(p)}
        /\ d.packages = disk.packages /\ d.staged = disk.staged
        /\ d.zoneFiles = disk.zoneFiles /\ d.declared = disk.declared /\ d.archived = disk.archived
        /\ d.index = disk.index /\ d.groups = disk.groups /\ d.directories = disk.directories
    BY <2>1 DEF Disks, Package
  <2>4. Purging(p, disk, tx[p].done)
    BY <2>1, <2>2 DEF PurgeTraced
  <2>5. /\ "drop-rescue" \in {"drop-staged", "drop-rescue"} => "rescue" \in tx[p].done
        /\ "drop-rescue" \in {"drop-staged", "rescue"} => "stage" \in tx[p].done
        /\ "drop-rescue" \notin tx[p].done
        /\ "drop-rescue" \in {"rescue", "stage"} => "drop-staged" \notin tx[p].done
    <3>1. {"stage", "rescue", "drop-staged"} \subseteq Due(p)
      BY <2>2, ScriptSteps, PurgeScript DEF Due
    <3>2. PurgeOk(p)
      BY <1>2, Doing DEF At, FilesOk
    <3>3. "drop-rescue" \notin tx[p].done
      BY <2>1 DEF InOrder
    <3>4. "drop-rescue" = "stage" => "rescue" \notin tx[p].done
      BY <2>1 DEF InOrder
    <3> QED
      BY <1>2, <2>1, <2>2, <3>1, <3>2, <3>3, <3>4, StepOrder DEF PurgeOk
  <2>6. may
    BY <1>2
  <2>7. Archive(p).nr = ran[p] /\ ran[p] \in Nat
    BY <2>1, LifecycleAssumption DEF TypeOK, Archive
  <2>8. may => Archive(p) \in disk.rescued
    BY DEF Package
  <2> HIDE DEF d, may
  <2>9. Purging(p, d, tx[p].done \union {"drop-rescue"})
    BY <2>1, <2>3, <2>4, <2>5 DEF Purging
  <2>10. Numbered(p, d)
    BY <2>1, <2>3, <2>6, <2>7, <2>8 DEF Numbered
  <2> QED
    BY <2>1, <2>2, <2>3, <2>9, <2>10, PurgeOnward
<1> HIDE DEF d, may
<1> QED
  BY <1>1, <1>2, WriteSolo

\* A step that is done and touches none of the files.
LEMMA QuietSolo ==
    ASSUME Solo, SoloInv, NEW p \in Procs, NEW step \in DoSteps \ (Tracking \union {"stage", "rescue", "drop-staged", "drop-rescue"}),
           At(p, "do", step), Done(p, step), UNCHANGED <<disk, ran, damaged>>, ZoneInv'
    PROVE  SoloInv'
<1>1. phase[p] = "do"
  BY DEF At
<1>2. Onward(p, step, disk')
  BY <1>1, QuietOnward
<1> QED
  BY <1>2, DoneSolo

\* The notes of a purge.
LEMMA NotePurgeSolo ==
    ASSUME Solo, SoloInv, NEW p \in Procs, NotePurge(p), UNCHANGED damaged, ZoneInv'
    PROVE  SoloInv'
<1>1. PICK step \in PurgeNotes : At(p, "do", step) /\ Done(p, step)
  BY DEF NotePurge
<1>2. step \in DoSteps \ (Tracking \union {"stage", "rescue", "drop-staged", "drop-rescue"})
  BY DEF PurgeNotes, DoSteps, Tracking
<1> QED
  BY <1>1, <1>2, QuietSolo DEF NotePurge

\* A file operation that raises.
LEMMA FileStepFailsSolo ==
    ASSUME Solo, SoloInv, NEW p \in Procs, FileStepFails(p), UNCHANGED damaged, ZoneInv'
    PROVE  SoloInv'
<1>1. PICK step \in FileSteps :
         At(p, "do", step) /\ disk' \in Remains(p, step) /\ Raise(p, step)
  BY DEF FileStepFails
<1>2. step # "finish"
  BY DEF FileSteps
<1> QED
  BY <1>1, <1>2, RaiseSolo DEF FileStepFails

\* A BIND command.
LEMMA CheckSolo ==
    ASSUME Solo, SoloInv, NEW p \in Procs, NEW step \in {"check-zone", "check-conf", "loaded", "unloaded", "reconfig"},
           At(p, "do", step), Done(p, step) \/ Raise(p, step),
           UNCHANGED <<disk, ran, damaged>>, ZoneInv'
    PROVE  SoloInv'
<1>1. step \in DoSteps \ (Tracking \union {"stage", "rescue", "drop-staged", "drop-rescue"})
      /\ step # "finish"
  BY DEF DoSteps, Tracking
<1>2. CASE Done(p, step)
  BY <1>1, <1>2, QuietSolo
<1>3. CASE Raise(p, step)
  <2>1. disk' \in Remains(p, step)
    BY DEF Remains
  <2> QED
    BY <1>1, <1>3, <2>1, RaiseSolo
<1> QED
  BY <1>2, <1>3

\* Those of the try block.
LEMMA ChecksSolo ==
    ASSUME Solo, SoloInv, NEW p \in Procs, UNCHANGED damaged, ZoneInv',
           CheckZone(p) \/ CheckConf(p) \/ VerifyLoaded(p) \/ VerifyUnavailable(p) \/ Activate(p)
    PROVE  SoloInv'
<1>1. PICK step \in {"check-zone", "check-conf", "loaded", "unloaded", "reconfig"} :
        /\ At(p, "do", step) /\ (Done(p, step) \/ Raise(p, step))
        /\ UNCHANGED <<disk, ran>>
  BY DEF CheckZone, CheckConf, VerifyLoaded, VerifyUnavailable, Activate, Check
<1> QED
  BY <1>1, CheckSolo

(* The steps of the except block, once more ********************************)

\* The steps that stand after an undo step.
After(p, step) == {s \in Standing(p) : Reverts(s) # step}

\* An undo step.
LEMMA UndoneSolo ==
    ASSUME Solo, SoloInv, NEW p \in Procs, NEW step, At(p, "undo", step), Undone(p, step),
           UNCHANGED <<ran, damaged>>, ZoneInv', Numbered(p, disk'),
           Follows(disk', tx[p], After(p, step)),
           tx[p].cmd = "quarantine-purge" => Moved(p, disk') /\ tx[p].package \in disk'.packages
    PROVE  SoloInv'
<1>1. phase[p] = "undo" /\ step \in todo[p]
  BY DEF At
<1>2. /\ TypeOK /\ Known(p) /\ InOrder(p) /\ PurgeTraced(p) /\ tx[p].undone
  BY <1>1, Undoing
<1>3. /\ Same(p) /\ Keeps(p) /\ tx'[p].undone = tx[p].undone
      /\ phase'[p] = "undo" /\ todo'[p] = todo[p] \ {step} /\ tx'[p].done = tx[p].done
  BY <1>1, <1>2, UndoneForm, StepForm
<1>4. Due(p)' = Due(p) /\ Archive(p)' = Archive(p)
  BY <1>3 DEF Due, Archive, Package, Same
<1>5. InOrder(p)'
  <2>1. step = "remove-declaration" => "restore-index" \notin todo[p]
    BY <1>2, UndoStepOrder
  <2> QED
    BY <1>1, <1>2, <1>3, <1>4, <2>1 DEF InOrder, Same
<1>6. PurgeTraced(p)'
  BY <1>1, <1>2, <1>3, <1>4 DEF PurgeTraced, Moved, Same, Keeps
<1>7. Standing(p)' = After(p, step)
  BY <1>1, <1>3 DEF Standing, After
<1> QED
  BY <1>1, <1>3, <1>5, <1>6, <1>7, SoloStep

\* Which commands have which undo steps.
LEMMA UndoFound ==
    ASSUME SoloInv, NEW p \in Procs, NEW step, At(p, "undo", step)
    PROVE  /\ phase[p] = "undo" /\ disk \in Disks /\ ReadOk(p) /\ Numbered(p, disk)
           /\ InOrder(p) /\ PurgeTraced(p) /\ TypeOK
           /\ Follows(disk, tx[p], Standing(p))
           /\ tx[p].cmd \in CommandNames /\ tx[p].zone \in Zones /\ tx[p].was \in Disks
           /\ step = "remove-zone-file" => tx[p].cmd \in {"create", "quarantine-restore"}
           /\ step = "remove-declaration" =>
                 tx[p].cmd \in {"create", "restore", "quarantine-restore"}
           /\ step \in {"rewrite-declaration", "remove-archive"} => tx[p].cmd = "disable"
           /\ step \in {"rewrite-zone-file", "rewrite-archive", "remove-package"} =>
                 tx[p].cmd = "quarantine"
           /\ step = "unstage" <=> tx[p].cmd = "quarantine-purge"
           /\ step = "restore-groups" => tx[p].cmd = "create"
<1>1. phase[p] = "undo" /\ step \in todo[p]
  BY DEF At
<1>2. PICK u \in Range(UndoSteps(tx[p].cmd)) : u[1] = step
  BY <1>1, Undoing
<1> QED
  BY <1>1, <1>2, Undoing, WhoseUndo, MoreSteps, UndoDue

\* The steps that an undo step leaves standing.
LEMMA AfterForm ==
    ASSUME NEW p \in Procs, NEW step
    PROVE  /\ "zone-file" \in After(p, step) <=> "zone-file" \in Standing(p) /\ step # "remove-zone-file"
           /\ "declaration" \in After(p, step) <=>
                 "declaration" \in Standing(p) /\ step # "remove-declaration"
           /\ "include" \in After(p, step) <=> "include" \in Standing(p) /\ step # "restore-index"
           /\ "exclude" \in After(p, step) <=> "exclude" \in Standing(p) /\ step # "restore-index"
           /\ "groups" \in After(p, step) <=> "groups" \in Standing(p) /\ step # "restore-groups"
           /\ "archive" \in After(p, step) <=> "archive" \in Standing(p) /\ step # "remove-archive"
           /\ "drop-declaration" \in After(p, step) <=>
                 "drop-declaration" \in Standing(p) /\ step # "rewrite-declaration"
           /\ "drop-zone-file" \in After(p, step) <=>
                 "drop-zone-file" \in Standing(p) /\ step # "rewrite-zone-file"
           /\ "consume-archive" \in After(p, step) <=>
                 "consume-archive" \in Standing(p) /\ step # "rewrite-archive"
           /\ "package" \in After(p, step) <=> "package" \in Standing(p) /\ step # "remove-package"
BY DEF After, Reverts

\* An undo step of another command than a purge.
LEMMA UndoSolo ==
    ASSUME Solo, SoloInv, NEW p \in Procs, NEW step, NEW d, Undo(p, step, d), UNCHANGED damaged,
           ZoneInv', step # "unstage", d.staged = disk.staged, d.rescued = disk.rescued,
           d.packages \subseteq disk.packages, Follows(d, tx[p], After(p, step))
    PROVE  SoloInv'
<1>1. At(p, "undo", step) /\ disk' = d /\ Undone(p, step) /\ UNCHANGED ran
  BY DEF Undo
<1>2. Numbered(p, disk) /\ tx[p].cmd # "quarantine-purge"
  BY <1>1, UndoFound
<1>3. Numbered(p, d)
  BY <1>2 DEF Numbered
<1> QED
  BY <1>1, <1>2, <1>3, UndoneSolo

\* Putting the index back.
LEMMA RestoreIndexSolo ==
    ASSUME Solo, SoloInv, NEW p \in Procs, RestoreIndex(p), UNCHANGED damaged, ZoneInv'
    PROVE  SoloInv'
<1> DEFINE d == [disk EXCEPT !.index = tx[p].index]
<1>1. Undo(p, "restore-index", d) /\ At(p, "undo", "restore-index")
  BY DEF RestoreIndex, Undo
<1>2. /\ disk \in Disks /\ ReadOk(p) /\ Follows(disk, tx[p], Standing(p))
      /\ tx[p].zone \in Zones /\ tx[p].was \in Disks
      /\ tx[p].index = tx[p].was.index
  BY <1>1, UndoFound DEF ReadOk, Found
<1>3. /\ d.index = tx[p].index
      /\ d.zoneFiles = disk.zoneFiles /\ d.declared = disk.declared /\ d.archived = disk.archived /\ d.groups = disk.groups
      /\ d.packages = disk.packages /\ d.staged = disk.staged /\ d.rescued = disk.rescued
  BY <1>2 DEF Disks, Zone, Package
<1> HIDE DEF d
<1>4. Follows(d, tx[p], After(p, "restore-index"))
  BY <1>2, <1>3, AfterForm DEF Follows, Filed
<1> QED
  BY <1>1, <1>3, <1>4, UndoSolo

\* Putting groups.yaml back.
LEMMA RestoreGroupsSolo ==
    ASSUME Solo, SoloInv, NEW p \in Procs, RestoreGroups(p), UNCHANGED damaged, ZoneInv'
    PROVE  SoloInv'
<1> DEFINE d == [disk EXCEPT !.groups = tx[p].groups]
<1>1. Undo(p, "restore-groups", d) /\ At(p, "undo", "restore-groups")
  BY DEF RestoreGroups, Undo
<1>2. /\ disk \in Disks /\ ReadOk(p) /\ Follows(disk, tx[p], Standing(p))
      /\ tx[p].zone \in Zones /\ tx[p].was \in Disks
      /\ tx[p].groups = tx[p].was.groups
  BY <1>1, UndoFound DEF ReadOk, Found
<1>3. /\ d.groups = tx[p].groups
      /\ d.zoneFiles = disk.zoneFiles /\ d.declared = disk.declared /\ d.archived = disk.archived /\ d.index = disk.index
      /\ d.packages = disk.packages /\ d.staged = disk.staged /\ d.rescued = disk.rescued
  BY <1>2 DEF Disks, Zone, Package
<1> HIDE DEF d
<1>4. Follows(d, tx[p], After(p, "restore-groups"))
  BY <1>2, <1>3, AfterForm DEF Follows, Filed
<1> QED
  BY <1>1, <1>3, <1>4, UndoSolo

\* Removing the zone file.
LEMMA RemoveZoneFileSolo ==
    ASSUME Solo, SoloInv, NEW p \in Procs, RemoveZoneFile(p), UNCHANGED damaged, ZoneInv'
    PROVE  SoloInv'
<1> DEFINE d == [disk EXCEPT !.zoneFiles = @ \ {Zone(p)}]
<1>1. Undo(p, "remove-zone-file", d) /\ At(p, "undo", "remove-zone-file")
  BY DEF RemoveZoneFile, Undo
<1>2. /\ disk \in Disks /\ ReadOk(p) /\ Follows(disk, tx[p], Standing(p))
      /\ tx[p].zone \in Zones /\ tx[p].was \in Disks
      /\ tx[p].zone \notin tx[p].was.zoneFiles
  BY <1>1, UndoFound DEF ReadOk, Found
<1>3. /\ d.zoneFiles = disk.zoneFiles \ {tx[p].zone}
      /\ d.declared = disk.declared /\ d.archived = disk.archived /\ d.index = disk.index /\ d.groups = disk.groups
      /\ d.packages = disk.packages /\ d.staged = disk.staged /\ d.rescued = disk.rescued
  BY <1>2 DEF Disks, Zone, Package
<1> HIDE DEF d
<1>4. Follows(d, tx[p], After(p, "remove-zone-file"))
  BY <1>2, <1>3, AfterForm DEF Follows, Filed
<1> QED
  BY <1>1, <1>3, <1>4, UndoSolo

\* Removing the declaration.
LEMMA RemoveDeclarationSolo ==
    ASSUME Solo, SoloInv, NEW p \in Procs, RemoveDeclaration(p), UNCHANGED damaged, ZoneInv'
    PROVE  SoloInv'
<1> DEFINE d == [disk EXCEPT !.declared = @ \ {Zone(p)}]
<1>1. Undo(p, "remove-declaration", d) /\ At(p, "undo", "remove-declaration")
  BY DEF RemoveDeclaration, Undo
<1>2. /\ disk \in Disks /\ ReadOk(p) /\ Follows(disk, tx[p], Standing(p))
      /\ tx[p].zone \in Zones /\ tx[p].was \in Disks
      /\ tx[p].zone \notin tx[p].was.declared
  BY <1>1, UndoFound DEF ReadOk, Found
<1>3. /\ d.declared = disk.declared \ {tx[p].zone}
      /\ d.zoneFiles = disk.zoneFiles /\ d.archived = disk.archived /\ d.index = disk.index /\ d.groups = disk.groups
      /\ d.packages = disk.packages /\ d.staged = disk.staged /\ d.rescued = disk.rescued
  BY <1>2 DEF Disks, Zone, Package
<1> HIDE DEF d
<1>4. Follows(d, tx[p], After(p, "remove-declaration"))
  BY <1>2, <1>3, AfterForm DEF Follows, Filed
<1> QED
  BY <1>1, <1>3, <1>4, UndoSolo

\* Writing the declaration again.
LEMMA RewriteDeclarationSolo ==
    ASSUME Solo, SoloInv, NEW p \in Procs, RewriteDeclaration(p), UNCHANGED damaged, ZoneInv'
    PROVE  SoloInv'
<1> DEFINE d == [disk EXCEPT !.declared = @ \union {Zone(p)}]
<1>1. Undo(p, "rewrite-declaration", d) /\ At(p, "undo", "rewrite-declaration")
  BY DEF RewriteDeclaration, Undo
<1>2. /\ disk \in Disks /\ ReadOk(p) /\ Follows(disk, tx[p], Standing(p))
      /\ tx[p].zone \in Zones /\ tx[p].was \in Disks
      /\ tx[p].zone \in tx[p].was.declared
  BY <1>1, UndoFound DEF ReadOk, Found
<1>3. /\ d.declared = disk.declared \union {tx[p].zone}
      /\ d.zoneFiles = disk.zoneFiles /\ d.archived = disk.archived /\ d.index = disk.index /\ d.groups = disk.groups
      /\ d.packages = disk.packages /\ d.staged = disk.staged /\ d.rescued = disk.rescued
  BY <1>2 DEF Disks, Zone, Package
<1> HIDE DEF d
<1>4. Follows(d, tx[p], After(p, "rewrite-declaration"))
  BY <1>2, <1>3, AfterForm DEF Follows, Filed
<1> QED
  BY <1>1, <1>3, <1>4, UndoSolo

\* Removing the archived declaration.
LEMMA RemoveArchiveSolo ==
    ASSUME Solo, SoloInv, NEW p \in Procs, RemoveArchive(p), UNCHANGED damaged, ZoneInv'
    PROVE  SoloInv'
<1> DEFINE d == [disk EXCEPT !.archived = @ \ {Zone(p)}]
<1>1. Undo(p, "remove-archive", d) /\ At(p, "undo", "remove-archive")
  BY DEF RemoveArchive, Undo
<1>2. /\ disk \in Disks /\ ReadOk(p) /\ Follows(disk, tx[p], Standing(p))
      /\ tx[p].zone \in Zones /\ tx[p].was \in Disks
      /\ tx[p].zone \notin tx[p].was.archived
  BY <1>1, UndoFound DEF ReadOk, Found
<1>3. /\ d.archived = disk.archived \ {tx[p].zone}
      /\ d.zoneFiles = disk.zoneFiles /\ d.declared = disk.declared /\ d.index = disk.index /\ d.groups = disk.groups
      /\ d.packages = disk.packages /\ d.staged = disk.staged /\ d.rescued = disk.rescued
  BY <1>2 DEF Disks, Zone, Package
<1> HIDE DEF d
<1>4. Follows(d, tx[p], After(p, "remove-archive"))
  BY <1>2, <1>3, AfterForm DEF Follows, Filed
<1> QED
  BY <1>1, <1>3, <1>4, UndoSolo

\* Writing the zone file again.
LEMMA RewriteZoneFileSolo ==
    ASSUME Solo, SoloInv, NEW p \in Procs, RewriteZoneFile(p), UNCHANGED damaged, ZoneInv'
    PROVE  SoloInv'
<1> DEFINE d == [disk EXCEPT !.zoneFiles = @ \union {Zone(p)}]
<1>1. Undo(p, "rewrite-zone-file", d) /\ At(p, "undo", "rewrite-zone-file")
  BY DEF RewriteZoneFile, Undo
<1>2. /\ disk \in Disks /\ ReadOk(p) /\ Follows(disk, tx[p], Standing(p))
      /\ tx[p].zone \in Zones /\ tx[p].was \in Disks
      /\ tx[p].zone \in tx[p].was.zoneFiles
  BY <1>1, UndoFound DEF ReadOk, Found
<1>3. /\ d.zoneFiles = disk.zoneFiles \union {tx[p].zone}
      /\ d.declared = disk.declared /\ d.archived = disk.archived /\ d.index = disk.index /\ d.groups = disk.groups
      /\ d.packages = disk.packages /\ d.staged = disk.staged /\ d.rescued = disk.rescued
  BY <1>2 DEF Disks, Zone, Package
<1> HIDE DEF d
<1>4. Follows(d, tx[p], After(p, "rewrite-zone-file"))
  BY <1>2, <1>3, AfterForm DEF Follows, Filed
<1> QED
  BY <1>1, <1>3, <1>4, UndoSolo

\* Archiving the declaration again.
LEMMA RewriteArchiveSolo ==
    ASSUME Solo, SoloInv, NEW p \in Procs, RewriteArchive(p), UNCHANGED damaged, ZoneInv'
    PROVE  SoloInv'
<1> DEFINE d == [disk EXCEPT !.archived = @ \union {Zone(p)},
                           !.directories = @ \union {Zone(p)}]
<1>1. Undo(p, "rewrite-archive", d) /\ At(p, "undo", "rewrite-archive")
  BY DEF RewriteArchive, Undo
<1>2. /\ disk \in Disks /\ ReadOk(p) /\ Follows(disk, tx[p], Standing(p))
      /\ tx[p].zone \in Zones /\ tx[p].was \in Disks
      /\ tx[p].zone \in tx[p].was.archived
  BY <1>1, UndoFound DEF ReadOk, Found
<1>3. /\ d.archived = disk.archived \union {tx[p].zone}
      /\ d.zoneFiles = disk.zoneFiles /\ d.declared = disk.declared /\ d.index = disk.index /\ d.groups = disk.groups
      /\ d.packages = disk.packages /\ d.staged = disk.staged /\ d.rescued = disk.rescued
  BY <1>2 DEF Disks, Zone, Package
<1> HIDE DEF d
<1>4. Follows(d, tx[p], After(p, "rewrite-archive"))
  BY <1>2, <1>3, AfterForm DEF Follows, Filed
<1> QED
  BY <1>1, <1>3, <1>4, UndoSolo

\* Removing the package.
LEMMA RemovePackageSolo ==
    ASSUME Solo, SoloInv, NEW p \in Procs, RemovePackage(p), UNCHANGED damaged, ZoneInv'
    PROVE  SoloInv'
<1> DEFINE d == [disk EXCEPT !.packages = @ \ {Package(p)}]
<1>1. Undo(p, "remove-package", d) /\ At(p, "undo", "remove-package")
  BY DEF RemovePackage, Undo
<1>2. /\ disk \in Disks /\ ReadOk(p) /\ Follows(disk, tx[p], Standing(p))
      /\ tx[p].zone \in Zones /\ tx[p].was \in Disks
      /\ tx[p].package \notin tx[p].was.packages
  BY <1>1, UndoFound DEF ReadOk, Found
<1>3. /\ d.packages = disk.packages \ {tx[p].package}
      /\ d.zoneFiles = disk.zoneFiles /\ d.declared = disk.declared /\ d.archived = disk.archived /\ d.index = disk.index
      /\ d.groups = disk.groups /\ d.staged = disk.staged /\ d.rescued = disk.rescued
  BY <1>2 DEF Disks, Zone, Package
<1> HIDE DEF d
<1>4. Follows(d, tx[p], After(p, "remove-package"))
  BY <1>2, <1>3, AfterForm DEF Follows, Filed
<1> QED
  BY <1>1, <1>3, <1>4, UndoSolo

\* Unstaging the package.
LEMMA UnstageSolo ==
    ASSUME Solo, SoloInv, NEW p \in Procs, Unstage(p), UNCHANGED damaged, ZoneInv'
    PROVE  SoloInv'
<1> DEFINE k == tx[p].package
<1>1. /\ At(p, "undo", "unstage") /\ Undone(p, "unstage") /\ UNCHANGED ran
      /\ disk' = IF k \in disk.staged
                 THEN [disk EXCEPT !.staged = @ \ {k}, !.packages = @ \union {k}] ELSE disk
  BY DEF Unstage, Undo, Package
<1>2. /\ disk \in Disks /\ Follows(disk, tx[p], Standing(p)) /\ PurgeTraced(p) /\ Numbered(p, disk)
      /\ tx[p].cmd = "quarantine-purge" /\ phase[p] = "undo" /\ TypeOK
  BY <1>1, UndoFound
<1>3. PurgeOk(p)
  BY <1>2, Undoing DEF FilesOk
<1>4. /\ UNCHANGED <<disk.zoneFiles, disk.declared, disk.archived, disk.index, disk.groups,
                     disk.directories, disk.rescued>>
      /\ \/ /\ disk'.packages = disk.packages \union {k} /\ disk'.staged = disk.staged \ {k}
            /\ k \in disk.staged
         \/ disk' = disk /\ k \notin disk.staged
  BY <1>1, <1>2 DEF Disks
<1>5. \A s \in Tracking : s \in After(p, "unstage") <=> s \in Standing(p)
  BY DEF After, Reverts, Tracking
<1>6. Follows(disk', tx[p], After(p, "unstage"))
  BY <1>2, <1>4, <1>5, FollowsSame
<1>7. Numbered(p, disk')
  BY <1>2, <1>4 DEF Numbered
<1>8. Moved(p, disk')
  BY <1>2, <1>4 DEF PurgeTraced, Moved
<1>9. k \in disk'.packages
  <2>1. "rescue" \notin tx[p].done
    <3>1. "unstage" \in todo[p]
      BY <1>1 DEF At
    <3> QED
      BY <1>2, <1>3, <3>1 DEF PurgeOk
  <2> QED
    BY <1>2, <1>3, <1>4, <2>1 DEF PurgeOk
<1> QED
  BY <1>1, <1>6, <1>7, <1>8, <1>9, UndoneSolo

\* A rollback that fails.
LEMMA FailSolo ==
    ASSUME Solo, SoloInv, NEW p \in Procs, NEW step, At(p, "undo", step), NotUndone(p),
           UNCHANGED <<disk, ran>>, damaged => damaged', ZoneInv',
           \/ damaged'
           \/ step = "reconfig"
           \/ step = "remove-package" /\ Package(p) \notin disk.packages
    PROVE  SoloInv'
<1>1. /\ phase[p] = "undo" /\ disk \in Disks /\ ReadOk(p) /\ Numbered(p, disk)
      /\ InOrder(p) /\ PurgeTraced(p) /\ TypeOK /\ Follows(disk, tx[p], Standing(p))
      /\ step = "unstage" <=> tx[p].cmd = "quarantine-purge"
      /\ step = "remove-package" => tx[p].cmd = "quarantine"
  BY UndoFound
<1>2. /\ Same(p) /\ Keeps(p) /\ ~tx'[p].undone
      /\ phase'[p] = "undo" /\ todo'[p] = {} /\ tx'[p].done = tx[p].done
  BY <1>1, NotUndoneForm, FailForm
<1>3. Due(p)' = Due(p) /\ Archive(p)' = Archive(p)
  BY <1>2 DEF Due, Archive, Package, Same
<1>4. InOrder(p)'
  BY <1>1, <1>2, <1>3 DEF InOrder, Same
<1>5. PurgeTraced(p)'
  BY <1>1, <1>2, <1>3 DEF PurgeTraced, Moved, Same, Keeps, Tracked
<1>6. ASSUME ~damaged' PROVE Follows(disk', tx[p], Standing(p)')
  <2>1. Standing(p)' = {}
    BY <1>2 DEF Standing
  <2>2. todo[p] = {step} /\ step \in {"reconfig", "remove-package"}
    BY <1>1, <1>6, Undoing, UndoStepOrder
  <2>3. \A s \in Tracking : s \in Standing(p) => s = "package" /\ step = "remove-package"
    BY <1>1, <2>2 DEF Standing, Reverts, Tracking
  <2>4. CASE step = "reconfig"
    <3>1. Standing(p) \intersect Tracking = {}
      BY <2>3, <2>4
    <3> QED
      BY <1>1, <2>1, <3>1, FollowsSame
  <2>5. CASE step = "remove-package"
    <3>1. tx[p].package \notin disk.packages
      BY <1>6, <2>5 DEF Package
    <3>2. /\ "zone-file" \notin Standing(p) /\ "declaration" \notin Standing(p)
          /\ "include" \notin Standing(p) /\ "exclude" \notin Standing(p)
          /\ "groups" \notin Standing(p) /\ "archive" \notin Standing(p)
          /\ "drop-declaration" \notin Standing(p) /\ "drop-zone-file" \notin Standing(p)
          /\ "consume-archive" \notin Standing(p)
      BY <2>3 DEF Tracking
    <3> QED
      BY <1>1, <2>1, <3>1, <3>2 DEF Follows, Filed
  <2> QED
    BY <2>2, <2>4, <2>5
<1>7. Tracked(p)' => ~damaged'
  BY <1>2 DEF Tracked
<1>8. Numbered(p, disk')
  BY <1>1
<1> QED
  BY <1>1, <1>2, <1>4, <1>5, <1>6, <1>7, <1>8, SoloStep

\* The rollback reactivates named, or fails.
LEMMA ReactivateSolo ==
    ASSUME Solo, SoloInv, NEW p \in Procs, Reactivate(p), UNCHANGED damaged, ZoneInv'
    PROVE  SoloInv'
<1>1. /\ At(p, "undo", "reconfig") /\ (Undone(p, "reconfig") \/ NotUndone(p))
      /\ UNCHANGED <<disk, ran>>
  BY DEF Reactivate
<1>2. CASE Undone(p, "reconfig")
  <2>1. /\ Numbered(p, disk) /\ Follows(disk, tx[p], Standing(p))
        /\ tx[p].cmd # "quarantine-purge"
    BY <1>1, UndoFound
  <2>2. \A s \in Tracking : s \in After(p, "reconfig") <=> s \in Standing(p)
    BY DEF After, Reverts, Tracking
  <2>3. Follows(disk, tx[p], After(p, "reconfig"))
    BY <2>1, <2>2, FollowsSame
  <2> QED
    BY <1>1, <1>2, <2>1, <2>3, UndoneSolo
<1>3. CASE NotUndone(p)
  BY <1>1, <1>3, FailSolo
<1> QED
  BY <1>1, <1>2, <1>3

\* A file operation of the rollback raises.
LEMMA UndoFailsSolo ==
    ASSUME Solo, SoloInv, NEW p \in Procs, UndoFails(p), ZoneInv'
    PROVE  SoloInv'
<1>1. PICK step \in UndoStepNames \ {"reconfig"} :
          /\ At(p, "undo", step)
          /\ damaged' = (damaged \/ step # "remove-package" \/ Package(p) \in disk.packages)
  BY DEF UndoFails
<1>2. NotUndone(p) /\ UNCHANGED <<disk, ran>>
  BY DEF UndoFails
<1> QED
  BY <1>1, <1>2, FailSolo

(* The states of a zone ****************************************************)

\* What each state says of the files.
LEMMA States ==
    ASSUME NEW d, NEW z
    PROVE  /\ DiskState(d, z) = "active" <=>
                /\ z \in d.zoneFiles /\ z \in d.declared /\ z \notin d.archived /\ d.index[z] = 1
           /\ DiskState(d, z) = "disabled" <=>
                /\ z \in d.zoneFiles /\ z \notin d.declared /\ z \in d.archived /\ d.index[z] = 0
           /\ DiskState(d, z) = "quarantined" <=>
                /\ z \notin d.zoneFiles /\ z \notin d.declared /\ z \notin d.archived
                /\ d.index[z] = 0 /\ HasPackage(d, z)
           /\ DiskState(d, z) = "absent" <=>
                /\ z \notin d.zoneFiles /\ z \notin d.declared /\ z \notin d.archived
                /\ d.index[z] = 0 /\ ~HasPackage(d, z)
           /\ DiskState(d, z) \in {"active", "disabled", "quarantined", "absent", "damaged"}
<1> DEFINE there == {z} \intersect (d.zoneFiles \union d.declared \union d.archived)
<1>1. there = {} <=> z \notin d.zoneFiles /\ z \notin d.declared /\ z \notin d.archived
  OBVIOUS
<1>2. DiskState(d, z) =
        CASE z \in (d.zoneFiles \intersect d.declared) \ d.archived /\ d.index[z] = 1 -> "active"
          [] z \in (d.zoneFiles \intersect d.archived) \ d.declared /\ d.index[z] = 0 -> "disabled"
          [] there = {} /\ d.index[z] = 0 /\ HasPackage(d, z) -> "quarantined"
          [] there = {} /\ d.index[z] = 0 /\ ~HasPackage(d, z) -> "absent"
          [] OTHER -> "damaged"
  BY DEF DiskState
<1> HIDE DEF there
<1> QED
  BY <1>1, <1>2

\* The state is one of the four unless the zone is damaged.
LEMMA GoodStates ==
    ASSUME NEW d, NEW z
    PROVE  DiskState(d, z) # "damaged" <=>
             \/ /\ z \in d.zoneFiles /\ z \in d.declared /\ z \notin d.archived /\ d.index[z] = 1
             \/ /\ z \in d.zoneFiles /\ z \notin d.declared /\ z \in d.archived /\ d.index[z] = 0
             \/ /\ z \notin d.zoneFiles /\ z \notin d.declared /\ z \notin d.archived
                /\ d.index[z] = 0
BY States

\* A zone is in the same state when its files are the same.
LEMMA SameState ==
    ASSUME NEW d, NEW e, NEW z,
           z \in d.zoneFiles <=> z \in e.zoneFiles, z \in d.declared <=> z \in e.declared,
           z \in d.archived <=> z \in e.archived, d.index[z] = e.index[z],
           HasPackage(d, z) <=> HasPackage(e, z)
    PROVE  DiskState(d, z) = DiskState(e, z)
<1>1. CASE DiskState(e, z) = "active"
  BY <1>1, States
<1>2. CASE DiskState(e, z) = "disabled"
  BY <1>2, States
<1>3. CASE DiskState(e, z) = "quarantined"
  BY <1>3, States
<1>4. CASE DiskState(e, z) = "absent"
  BY <1>4, States
<1>5. CASE DiskState(e, z) = "damaged"
  BY <1>5, GoodStates
<1> QED
  BY <1>1, <1>2, <1>3, <1>4, <1>5, States

\* Files that agree in all parts are the same.
LEMMA DiskEqual ==
    ASSUME NEW d \in Disks, NEW e \in Disks,
           d.zoneFiles = e.zoneFiles, d.declared = e.declared, d.archived = e.archived,
           d.directories = e.directories, d.packages = e.packages, d.staged = e.staged,
           d.rescued = e.rescued, d.index = e.index, d.groups = e.groups
    PROVE  d = e
BY DEF Disks

\* A step of a command is about its own zone: the others stay in their states.
LEMMA OtherStates ==
    ASSUME SoloInv, NEW p \in Procs, phase[p] \in {"do", "undo"}, NEW S, S \subseteq tx[p].done,
           Follows(disk, tx[p], S), NEW y \in Zones \ {tx[p].zone}
    PROVE  DiskState(disk, y) = DiskState(tx[p].was, y)
<1> DEFINE was == tx[p].was
<1>1. /\ Known(p) /\ ReadOk(p) /\ InOrder(p) /\ PurgeTraced(p) /\ disk \in Disks /\ was \in Disks
      /\ tx[p].cmd \in CommandNames
  BY Doing, Undoing
<1>2. /\ y \in disk.zoneFiles <=> y \in was.zoneFiles
      /\ y \in disk.declared <=> y \in was.declared
      /\ y \in disk.archived <=> y \in was.archived
      /\ disk.index[y] = was.index[y]
  BY DEF Follows, Filed
<1>3. ASSUME NEW c \in Packages, c.zone = y PROVE c \in disk.packages <=> c \in was.packages
  <2>1. tx[p].cmd \in Packing => c # tx[p].package
    BY <1>1, <1>3 DEF Known
  <2>2. "package" \in S => tx[p].cmd \in Packing
    BY <1>1, WhoseStep DEF InOrder, Due, Packing
  <2>3. tx[p].cmd = "quarantine-purge" => Moved(p, disk)
    BY <1>1 DEF PurgeTraced
  <2> QED
    BY <2>1, <2>2, <2>3 DEF Follows, Moved, Packing
<1>4. disk.packages \subseteq Packages /\ was.packages \subseteq Packages
  BY <1>1 DEF Disks
<1>5. HasPackage(disk, y) <=> HasPackage(was, y)
  BY <1>3, <1>4 DEF HasPackage
<1> QED
  BY <1>2, <1>5, SameState

\* With no step standing the files are those the command found.
LEMMA FilesBack ==
    ASSUME SoloInv, NEW p \in Procs, phase[p] \in {"do", "undo"}, NEW S,
           S \intersect Tracking = {}, Follows(disk, tx[p], S)
    PROVE  LET was == tx[p].was IN
           /\ disk.zoneFiles = was.zoneFiles /\ disk.declared = was.declared
           /\ disk.archived = was.archived /\ disk.index = was.index /\ disk.groups = was.groups
           /\ tx[p].cmd # "quarantine-purge" =>
                /\ disk.packages = was.packages /\ disk.staged = was.staged
                /\ disk.rescued = was.rescued
<1> DEFINE was == tx[p].was
<1>1. disk \in Disks /\ was \in Disks
  BY Doing, Undoing
<1>2. /\ disk.zoneFiles \subseteq Zones /\ was.zoneFiles \subseteq Zones
      /\ disk.declared \subseteq Zones /\ was.declared \subseteq Zones
      /\ disk.archived \subseteq Zones /\ was.archived \subseteq Zones
      /\ disk.index \in [Zones -> Nat] /\ was.index \in [Zones -> Nat]
      /\ disk.packages \subseteq Packages /\ was.packages \subseteq Packages
  BY <1>1 DEF Disks
<1>3. Follows(disk, tx[p], {})
  BY FollowsSame
<1>4. /\ \A y \in Zones : y \in disk.zoneFiles <=> y \in was.zoneFiles
      /\ \A y \in Zones : y \in disk.declared <=> y \in was.declared
      /\ \A y \in Zones : y \in disk.archived <=> y \in was.archived
      /\ \A y \in Zones : disk.index[y] = was.index[y]
      /\ disk.groups = was.groups
      /\ tx[p].cmd # "quarantine-purge" =>
           /\ \A c \in Packages : c \in disk.packages <=> c \in was.packages
           /\ disk.staged = was.staged /\ disk.rescued = was.rescued
  BY <1>3 DEF Follows, Filed
<1> HIDE DEF was
<1>5. disk.index = was.index
  BY <1>2, <1>4
<1>6. tx[p].cmd # "quarantine-purge" => disk.packages = was.packages
  BY <1>2, <1>4
<1> QED
  BY <1>2, <1>4, <1>5, <1>6 DEF was

\* So the zones are in one of their states if they were.
LEMMA GoodAgain ==
    ASSUME SoloInv, NEW p \in Procs, phase[p] \in {"do", "undo"}, NEW S,
           S \intersect Tracking = {}, Follows(disk, tx[p], S), Good(tx[p].was)
    PROVE  Good(disk)
BY FilesBack, GoodStates DEF Good

(* The end of a command ****************************************************)

\* What the property says of each outcome.
CommitOk(p) ==
    /\ DiskState(tx[p].was, tx[p].zone) # "damaged" =>
          DiskState(disk, tx[p].zone) = Goal(tx[p].cmd)
    /\ \A z \in Zones \ {tx[p].zone} : DiskState(disk, z) = DiskState(tx[p].was, z)

RollbackOk(p) ==
    [disk EXCEPT !.directories = {}] = [tx[p].was EXCEPT !.directories = {}]

PurgedOk(p) == disk = [tx[p].was EXCEPT !.packages = @ \ {tx[p].package}]

PurgeFailedOk(p) ==
    tx[p].cmd \notin Unreported =>
        /\ tx[p].package \in Copies
        /\ "rescue" \notin tx[p].done /\ tx[p].undone =>
              disk = [tx[p].was EXCEPT !.rescued = disk.rescued]

\* A command that ends with a true report.
LEMMA EndSolo ==
    ASSUME Solo, SoloInv, NEW p \in Procs, phase'[p] = "idle", UNCHANGED <<disk, ran>>, ZoneInv',
           Same(p), Keeps(p), tx'[p].done = tx[p].done, tx'[p].undone = tx[p].undone,
           tx'[p].outcome = "COMMIT" => CommitOk(p),
           tx'[p].outcome = "ROLLED-BACK" => RollbackOk(p),
           tx'[p].outcome = "PURGED" => PurgedOk(p),
           tx'[p].outcome = "PURGE-FAILED" => PurgeFailedOk(p),
           ~damaged' => Good(disk)
    PROVE  SoloInv'
<1>1. SoloOk(p) /\ \A q \in Procs : q = p
  BY DEF SoloInv, Solo
<1>2. tx'[p].outcome = "COMMIT" => CommitOk(p)'
  BY DEF CommitOk, Same, Keeps
<1>3. tx'[p].outcome = "ROLLED-BACK" => RollbackOk(p)'
  BY DEF RollbackOk, Same, Keeps
<1>4. tx'[p].outcome = "PURGED" => PurgedOk(p)'
  BY DEF PurgedOk, Same, Keeps
<1>5. tx'[p].outcome = "PURGE-FAILED" => PurgeFailedOk(p)'
  BY DEF PurgeFailedOk, Same, Keeps, Copies
<1>6. OutcomeMatchesDisk'
  <2> SUFFICES ASSUME NEW q \in Procs
               PROVE  (/\ Ended(q, "COMMIT") =>
                            /\ DiskState(tx[q].was, Zone(q)) # "damaged" =>
                                 DiskState(disk, Zone(q)) = Goal(tx[q].cmd)
                            /\ \A z \in Zones \ {Zone(q)} :
                                 DiskState(disk, z) = DiskState(tx[q].was, z)
                       /\ Ended(q, "ROLLED-BACK") =>
                            [disk EXCEPT !.directories = {}]
                              = [tx[q].was EXCEPT !.directories = {}]
                       /\ Ended(q, "PURGED") =>
                            disk = [tx[q].was EXCEPT !.packages = @ \ {Package(q)}]
                       /\ Ended(q, "PURGE-FAILED") /\ tx[q].cmd \notin Unreported =>
                            /\ Package(q) \in Copies
                            /\ "rescue" \notin tx[q].done /\ tx[q].undone =>
                                 disk = [tx[q].was EXCEPT !.rescued = disk.rescued])'
    BY DEF OutcomeMatchesDisk
  <2>1. q = p
    BY <1>1
  <2>2. CommitOk(q)' => (/\ DiskState(tx[q].was, Zone(q)) # "damaged" =>
                                 DiskState(disk, Zone(q)) = Goal(tx[q].cmd)
                         /\ \A z \in Zones \ {Zone(q)} :
                                 DiskState(disk, z) = DiskState(tx[q].was, z))'
    BY DEF CommitOk, Zone
  <2>3. /\ RollbackOk(q)' => ([disk EXCEPT !.directories = {}]
                              = [tx[q].was EXCEPT !.directories = {}])'
        /\ PurgedOk(q)' => (disk = [tx[q].was EXCEPT !.packages = @ \ {Package(q)}])'
    BY DEF RollbackOk, PurgedOk, Package
  <2>4. PurgeFailedOk(q)' /\ tx'[q].cmd \notin Unreported =>
                           (/\ Package(q) \in Copies
                            /\ "rescue" \notin tx[q].done /\ tx[q].undone =>
                                 disk = [tx[q].was EXCEPT !.rescued = disk.rescued])'
    BY DEF PurgeFailedOk, Package
  <2> QED
    BY <1>2, <1>3, <1>4, <1>5, <2>1, <2>2, <2>3, <2>4 DEF Ended
<1>7. SoloOk(p)'
  BY <1>1 DEF SoloOk, Numbered, Good
<1> QED
  BY <1>1, <1>6, <1>7 DEF SoloInv

\* All steps but the last are done.
LEMMA AllDone ==
    ASSUME SoloInv, NEW p \in Procs, At(p, "do", "finish")
    PROVE  /\ phase[p] = "do" /\ tx[p].cmd \in CommandNames
           /\ \A s \in Range(Steps(tx[p].cmd)) : s # "groups" /\ s # "finish" => s \in tx[p].done
           /\ tx[p].done \subseteq Range(Steps(tx[p].cmd))
<1>1. phase[p] = "do"
  BY DEF At
<1>2. /\ tx[p].cmd \in CommandNames /\ todo[p] = Due(p) \ tx[p].done /\ tx[p].done \subseteq Due(p)
  BY <1>1, Doing
<1>3. todo[p] = {"finish"}
  BY <1>2, StepOrder
<1> QED
  BY <1>1, <1>2, <1>3 DEF Due

\* A committed command has brought its zone to its goal.
LEMMA Commits ==
    ASSUME SoloInv, NEW p \in Procs, At(p, "do", "finish"), tx[p].cmd # "quarantine-purge"
    PROVE  CommitOk(p)
<1> DEFINE was == tx[p].was  z == tx[p].zone  done == tx[p].done
<1>1. /\ phase[p] = "do" /\ tx[p].cmd \in CommandNames
      /\ \A s \in Range(Steps(tx[p].cmd)) : s # "groups" /\ s # "finish" => s \in done
      /\ done \subseteq Range(Steps(tx[p].cmd))
  BY AllDone
<1>2. /\ Follows(disk, tx[p], done) /\ ReadOk(p) /\ Known(p) /\ disk \in Disks /\ was \in Disks
      /\ z \in Zones
  BY <1>1, Doing
<1>3. \A y \in Zones \ {z} : DiskState(disk, y) = DiskState(was, y)
  BY <1>1, <1>2, OtherStates
<1>4. /\ z \in disk.zoneFiles <=> (z \in was.zoneFiles \/ "zone-file" \in done)
                                  /\ "drop-zone-file" \notin done
      /\ z \in disk.declared <=> (z \in was.declared \/ "declaration" \in done)
                                 /\ "drop-declaration" \notin done
      /\ z \in disk.archived <=> (z \in was.archived \/ "archive" \in done)
                                 /\ "consume-archive" \notin done
      /\ disk.index[z] = IF "include" \in done THEN was.index[z] + 1
                         ELSE IF "exclude" \in done THEN 0 ELSE was.index[z]
  BY <1>2 DEF Follows, Filed
<1>5. Found(p, was) /\ (tx[p].cmd = "create" => z \notin was.zoneFiles \union was.declared)
  BY <1>2 DEF ReadOk
<1>6. ASSUME DiskState(was, z) # "damaged" PROVE DiskState(disk, z) = Goal(tx[p].cmd)
  <2>0. \/ /\ z \in was.zoneFiles /\ z \in was.declared /\ z \notin was.archived /\ was.index[z] = 1
        \/ /\ z \in was.zoneFiles /\ z \notin was.declared /\ z \in was.archived /\ was.index[z] = 0
        \/ /\ z \notin was.zoneFiles /\ z \notin was.declared /\ z \notin was.archived
           /\ was.index[z] = 0
    BY <1>6, GoodStates
  <2>1. CASE tx[p].cmd = "create"
    <3>1. {"zone-file", "declaration", "include"} \subseteq done
          /\ {"drop-zone-file", "drop-declaration", "archive", "consume-archive"} \intersect done = {}
      BY <1>1, <2>1, ScriptSteps, CreateScript
    <3>2. /\ z \in disk.zoneFiles /\ z \in disk.declared /\ z \notin disk.archived
          /\ disk.index[z] = 1
      BY <1>4, <1>5, <2>0, <2>1, <3>1
    <3> QED
      BY <2>1, <3>2, States DEF Goal
  <2>2. CASE tx[p].cmd = "disable"
    <3>1. {"archive", "drop-declaration", "exclude"} \subseteq done
          /\ {"zone-file", "drop-zone-file", "include", "consume-archive"} \intersect done = {}
      BY <1>1, <2>2, ScriptSteps, DisableScript
    <3>2. /\ z \in disk.zoneFiles /\ z \notin disk.declared /\ z \in disk.archived
          /\ disk.index[z] = 0
      BY <1>4, <1>5, <2>2, <3>1 DEF Found
    <3> QED
      BY <2>2, <3>2, States DEF Goal
  <2>3. CASE tx[p].cmd = "restore"
    <3>1. {"declaration", "include", "consume-archive"} \subseteq done
          /\ {"drop-zone-file", "drop-declaration"} \intersect done = {}
      BY <1>1, <2>3, ScriptSteps, RestoreScript
    <3>2. /\ z \in disk.zoneFiles /\ z \in disk.declared /\ z \notin disk.archived
          /\ disk.index[z] = 1
      BY <1>4, <1>5, <2>3, <3>1 DEF Found
    <3> QED
      BY <2>3, <3>2, States DEF Goal
  <2>4. CASE tx[p].cmd = "quarantine"
    <3>1. {"package", "drop-zone-file", "consume-archive"} \subseteq done
          /\ {"declaration", "include", "exclude"} \intersect done = {}
      BY <1>1, <2>4, ScriptSteps, QuarantineScript
    <3>2. /\ z \notin disk.zoneFiles /\ z \notin disk.declared /\ z \notin disk.archived
          /\ disk.index[z] = 0
      BY <1>4, <1>5, <2>4, <3>1 DEF Found
    <3>3. tx[p].package \in disk.packages /\ tx[p].package.zone = z
      BY <1>1, <1>2, <2>4, <3>1 DEF Follows, Known, Packing
    <3>4. HasPackage(disk, z)
      BY <3>3 DEF HasPackage
    <3> QED
      BY <2>4, <3>2, <3>4, States DEF Goal
  <2>5. CASE tx[p].cmd = "quarantine-restore"
    <3>1. {"zone-file", "declaration", "include"} \subseteq done
          /\ {"drop-zone-file", "drop-declaration", "archive", "consume-archive"} \intersect done = {}
      BY <1>1, <2>5, ScriptSteps, QuarantineRestoreScript
    <3>2. /\ z \in disk.zoneFiles /\ z \in disk.declared /\ z \notin disk.archived
          /\ disk.index[z] = 1
      BY <1>4, <1>5, <2>0, <2>5, <3>1 DEF Found
    <3> QED
      BY <2>5, <3>2, States DEF Goal
  <2> QED
    BY <1>1, <2>1, <2>2, <2>3, <2>4, <2>5 DEF CommandNames
<1> QED
  BY <1>3, <1>6 DEF CommitOk

\* The goal is one of the states, so the zones are all in one.
LEMMA CommitGood ==
    ASSUME NEW p \in Procs, CommitOk(p), Good(tx[p].was), tx[p].cmd \in CommandNames
    PROVE  Good(disk)
BY DEF CommitOk, Good, Goal

\* A purge touches no zone but by its packages.
LEMMA PurgeGood ==
    ASSUME SoloInv, NEW p \in Procs, phase[p] \in {"do", "undo"}, tx[p].cmd = "quarantine-purge",
           NEW S, S \subseteq tx[p].done, Follows(disk, tx[p], S)
    PROVE  /\ S \intersect Tracking = {}
           /\ Good(tx[p].was) => Good(disk)
<1>1. tx[p].done \subseteq Range(Steps(tx[p].cmd))
  BY Doing, Undoing DEF InOrder, Due
<1>2. S \intersect Tracking = {}
  BY <1>1, ScriptSteps, PurgeScript DEF Tracking
<1> QED
  BY <1>2, GoodAgain

\* The files d without the package k.
Without(d, k) == [d EXCEPT !.packages = @ \ {k}]

\* The package k is gone from both its places, and its archive a too.
Emptied(d, old, k, a) ==
    /\ d.zoneFiles = old.zoneFiles /\ d.declared = old.declared /\ d.archived = old.archived
    /\ d.directories = old.directories /\ d.index = old.index /\ d.groups = old.groups
    /\ \A c \in Packages \ {k} : /\ c \in d.packages <=> c \in old.packages
                                 /\ c \in d.staged <=> c \in old.staged
    /\ \A b \in Archives \ {a} : b \in d.rescued <=> b \in old.rescued
    /\ k \notin d.packages /\ k \notin d.staged /\ a \notin d.rescued
    /\ k \notin old.staged /\ a \notin old.rescued

\* Nothing else is gone then.
LEMMA EmptiedIsWithout ==
    ASSUME NEW d \in Disks, NEW was \in Disks, NEW k, NEW a, Emptied(d, was, k, a)
    PROVE  d = Without(was, k)
<1> DEFINE e == [was EXCEPT !.packages = @ \ {k}]
<1>1. /\ e \in Disks /\ e.packages = was.packages \ {k} /\ e.zoneFiles = was.zoneFiles
      /\ e.declared = was.declared /\ e.archived = was.archived /\ e.index = was.index
      /\ e.groups = was.groups /\ e.directories = was.directories /\ e.staged = was.staged
      /\ e.rescued = was.rescued
  BY DEF Disks
<1>2. /\ d.packages \subseteq Packages /\ d.staged \subseteq Packages
      /\ d.rescued \subseteq Archives /\ was.packages \subseteq Packages
      /\ was.staged \subseteq Packages /\ was.rescued \subseteq Archives
  BY DEF Disks
<1>3. d.packages = was.packages \ {k} /\ d.staged = was.staged
  BY <1>2 DEF Emptied
<1>4. d.rescued = was.rescued
  <2>1. \A b \in Archives : b \in d.rescued <=> b \in was.rescued
    BY DEF Emptied
  <2> QED
    BY <1>2, <2>1
<1> HIDE DEF e
<1>5. d = e
  BY <1>1, <1>3, <1>4, DiskEqual DEF Emptied
<1> QED
  BY <1>5 DEF e, Without

\* A purge that is done has removed its package and nothing else.
LEMMA Purges ==
    ASSUME SoloInv, NEW p \in Procs, At(p, "do", "finish"), tx[p].cmd = "quarantine-purge"
    PROVE  PurgedOk(p)
<1>1. /\ phase[p] = "do"
      /\ \A s \in Range(Steps(tx[p].cmd)) : s # "groups" /\ s # "finish" => s \in tx[p].done
  BY AllDone
<1>2. {"stage", "rescue", "drop-staged", "drop-rescue"} \subseteq tx[p].done
  BY <1>1, ScriptSteps, PurgeScript
<1>3. /\ Follows(disk, tx[p], tx[p].done) /\ ReadOk(p) /\ disk \in Disks /\ tx[p].was \in Disks
      /\ PurgeTraced(p)
  BY <1>1, Doing
<1>4. Moved(p, disk) /\ Purging(p, disk, tx[p].done)
  BY <1>1, <1>3 DEF PurgeTraced
<1>5. tx[p].done \intersect Tracking = {}
  BY <1>1, <1>3, PurgeGood
<1>6. /\ disk.zoneFiles = tx[p].was.zoneFiles /\ disk.declared = tx[p].was.declared
      /\ disk.archived = tx[p].was.archived /\ disk.index = tx[p].was.index
      /\ disk.groups = tx[p].was.groups
  BY <1>1, <1>3, <1>5, FilesBack
<1>7. /\ tx[p].package \in tx[p].was.packages /\ Archive(p) \notin tx[p].was.rescued
      /\ tx[p].was.packages \intersect tx[p].was.staged = {}
  BY <1>3 DEF ReadOk, Found
<1>8. tx[p].package \notin tx[p].was.staged
  BY <1>7
<1>9. /\ tx[p].package \notin disk.packages /\ tx[p].package \notin disk.staged
      /\ Archive(p) \notin disk.rescued
  BY <1>2, <1>4 DEF Purging
<1>10. /\ disk.directories = tx[p].was.directories
       /\ \A c \in Packages \ {tx[p].package} : /\ c \in disk.packages <=> c \in tx[p].was.packages
                                                /\ c \in disk.staged <=> c \in tx[p].was.staged
       /\ \A b \in Archives \ {Archive(p)} : b \in disk.rescued <=> b \in tx[p].was.rescued
  BY <1>4 DEF Moved
<1>11. Emptied(disk, tx[p].was, tx[p].package, Archive(p))
  <2>1. \A c \in Packages \ {tx[p].package} : /\ c \in disk.packages <=> c \in tx[p].was.packages
                                              /\ c \in disk.staged <=> c \in tx[p].was.staged
    BY <1>10
  <2>2. \A b \in Archives \ {Archive(p)} : b \in disk.rescued <=> b \in tx[p].was.rescued
    BY <1>10
  <2>3. /\ tx[p].package \notin disk.packages /\ tx[p].package \notin disk.staged
        /\ Archive(p) \notin disk.rescued
        /\ tx[p].package \notin tx[p].was.staged /\ Archive(p) \notin tx[p].was.rescued
    BY <1>7, <1>8, <1>9
  <2>4. disk.directories = tx[p].was.directories
    BY <1>10
  <2> QED
    BY <1>6, <2>1, <2>2, <2>3, <2>4, Zenon DEF Emptied
<1>12. disk = Without(tx[p].was, tx[p].package)
  BY <1>3, <1>11, EmptiedIsWithout
<1> QED
  BY <1>12 DEF PurgedOk, Without

\* The rescued archives replaced by a.
WithArchives(d, a) == [d EXCEPT !.rescued = a]

\* The files d and old differ in the recovery archives only, once the package k
\* is back in its place.
PutBack(d, old, k) ==
    /\ d.zoneFiles = old.zoneFiles /\ d.declared = old.declared /\ d.archived = old.archived
    /\ d.directories = old.directories /\ d.index = old.index /\ d.groups = old.groups
    /\ \A c \in Packages \ {k} : (c \in d.packages <=> c \in old.packages)
    /\ \A c \in Packages \ {k} : (c \in d.staged <=> c \in old.staged)
    /\ k \in d.packages /\ k \notin d.staged /\ k \in old.packages /\ k \notin old.staged

\* So they are equal but for these.
LEMMA PutBackIsSame ==
    ASSUME NEW d \in Disks, NEW old \in Disks, NEW k, PutBack(d, old, k)
    PROVE  d = WithArchives(old, d.rescued)
<1> DEFINE e == [old EXCEPT !.rescued = d.rescued]
<1>1. /\ e \in Disks /\ e.packages = old.packages /\ e.zoneFiles = old.zoneFiles
      /\ e.declared = old.declared /\ e.archived = old.archived /\ e.index = old.index
      /\ e.groups = old.groups /\ e.directories = old.directories /\ e.staged = old.staged
      /\ e.rescued = d.rescued
  BY DEF Disks
<1>2. /\ d.packages \subseteq Packages /\ d.staged \subseteq Packages
      /\ old.packages \subseteq Packages /\ old.staged \subseteq Packages
  BY DEF Disks
<1>3. d.packages = old.packages /\ d.staged = old.staged
  BY <1>2 DEF PutBack
<1> HIDE DEF e
<1>4. d = e
  BY <1>1, <1>3, DiskEqual DEF PutBack
<1> QED
  BY <1>4 DEF e, WithArchives

\* A rollback that has run leaves no step standing.
LEMMA Rolled ==
    ASSUME SoloInv, NEW p \in Procs, phase[p] = "undo", todo[p] = {},
           tx[p].undone \/ ~damaged
    PROVE  Follows(disk, tx[p], {})
<1>1. Tracked(p) /\ Standing(p) = {}
  BY DEF Tracked, Standing
<1> QED
  BY <1>1, Undoing

\* The files d without the directories.
Plainly(d) == [d EXCEPT !.directories = {}]

\* Files that agree but for the directories.
LEMMA PlainlyEqual ==
    ASSUME NEW d \in Disks, NEW e \in Disks,
           d.zoneFiles = e.zoneFiles, d.declared = e.declared, d.archived = e.archived,
           d.packages = e.packages, d.staged = e.staged,
           d.rescued = e.rescued, d.index = e.index, d.groups = e.groups
    PROVE  Plainly(d) = Plainly(e)
BY DEF Plainly, Disks

\* A rollback that is reported has put every file back.
LEMMA RollsBack ==
    ASSUME SoloInv, NEW p \in Procs, phase[p] = "undo", todo[p] = {}, tx[p].undone,
           tx[p].cmd # "quarantine-purge"
    PROVE  RollbackOk(p)
<1>1. disk \in Disks /\ tx[p].was \in Disks
  BY Undoing
<1>2. Follows(disk, tx[p], {})
  BY Rolled
<1>3. /\ disk.zoneFiles = tx[p].was.zoneFiles /\ disk.declared = tx[p].was.declared
      /\ disk.archived = tx[p].was.archived /\ disk.index = tx[p].was.index
      /\ disk.groups = tx[p].was.groups /\ disk.packages = tx[p].was.packages
      /\ disk.staged = tx[p].was.staged /\ disk.rescued = tx[p].was.rescued
  BY <1>2, FilesBack
<1>4. Plainly(disk) = Plainly(tx[p].was)
  BY <1>1, <1>3, PlainlyEqual
<1> QED
  BY <1>4 DEF Plainly, RollbackOk

\* A purge that failed has left a copy, and the package if no archive was made.
LEMMA PurgeFails ==
    ASSUME SoloInv, NEW p \in Procs, phase[p] = "undo", todo[p] = {},
           tx[p].cmd = "quarantine-purge"
    PROVE  PurgeFailedOk(p)
<1>1. /\ disk \in Disks /\ tx[p].was \in Disks /\ ReadOk(p) /\ Numbered(p, disk)
      /\ PurgeTraced(p) /\ PurgeOk(p) /\ InOrder(p)
  BY Undoing DEF FilesOk
<1>2. ASSUME tx[p].cmd \notin Unreported PROVE tx[p].package \in Copies
  <2>1. CASE "rescue" \notin tx[p].done
    BY <1>1, <2>1 DEF PurgeOk, Copies
  <2>2. CASE "rescue" \in tx[p].done
    <3>1. Archive(p) \in disk.rescued
      BY <1>1, <1>2, <2>2 DEF PurgeOk, PurgeTraced
    <3>2. Archive(p).of = tx[p].package
      BY DEF Archive, Package
    <3> QED
      BY <3>1, <3>2 DEF Copies
  <2> QED
    BY <2>1, <2>2
<1>3. ASSUME "rescue" \notin tx[p].done, tx[p].undone
      PROVE  disk = WithArchives(tx[p].was, disk.rescued)
  <2>1. Tracked(p) /\ Follows(disk, tx[p], {})
    BY <1>3, Rolled DEF Tracked
  <2>2. /\ disk.zoneFiles = tx[p].was.zoneFiles /\ disk.declared = tx[p].was.declared
        /\ disk.archived = tx[p].was.archived /\ disk.index = tx[p].was.index
        /\ disk.groups = tx[p].was.groups
    BY <2>1, FilesBack
  <2>3. tx[p].package \in disk.packages /\ Moved(p, disk)
    BY <1>1, <1>3, <2>1 DEF PurgeTraced
  <2>4. tx[p].package \in tx[p].was.packages /\ tx[p].was.packages \intersect tx[p].was.staged = {}
        /\ disk.packages \intersect disk.staged = {}
    BY <1>1 DEF ReadOk, Numbered
  <2>5. /\ disk.directories = tx[p].was.directories
        /\ \A c \in Packages \ {tx[p].package} : (c \in disk.packages <=> c \in tx[p].was.packages)
        /\ \A c \in Packages \ {tx[p].package} : (c \in disk.staged <=> c \in tx[p].was.staged)
    BY <2>3 DEF Moved
  <2>6. tx[p].package \notin disk.staged /\ tx[p].package \notin tx[p].was.staged
    BY <2>3, <2>4
  <2>7. PutBack(disk, tx[p].was, tx[p].package)
    BY <2>2, <2>3, <2>4, <2>5, <2>6, Zenon DEF PutBack
  <2> QED
    BY <1>1, <2>7, PutBackIsSame
<1>4. "rescue" \notin tx[p].done /\ tx[p].undone =>
        disk = [tx[p].was EXCEPT !.rescued = disk.rescued]
  BY <1>3 DEF WithArchives
<1> QED
  BY <1>2, <1>4 DEF PurgeFailedOk

\* The end of a rollback.
LEMMA FinishUndoSolo ==
    ASSUME Solo, SoloInv, NEW p \in Procs, FinishUndo(p), UNCHANGED damaged, ZoneInv'
    PROVE  SoloInv'
<1>1. /\ phase[p] = "undo" /\ todo[p] = {}
  BY DEF FinishUndo
<1>2. PICK outcome : /\ End(p, outcome)
                     /\ \/ /\ outcome = "PURGE-FAILED" /\ tx[p].cmd = "quarantine-purge"
                        \/ /\ outcome = "ROLLED-BACK" /\ tx[p].cmd # "quarantine-purge" /\ tx[p].undone
                        \/ outcome = "ROLLBACK-FAILED" \/ outcome = "RAISED"
  BY DEF FinishUndo
<1>3. TypeOK
  BY DEF SoloInv, ZoneInv
<1>4. /\ Same(p) /\ Keeps(p) /\ tx'[p].done = tx[p].done /\ tx'[p].undone = tx[p].undone
      /\ tx'[p].outcome = outcome
  BY <1>2, <1>3, OutcomeForm
<1>5. phase'[p] = "idle" /\ UNCHANGED <<disk, ran>>
  BY <1>2, <1>3 DEF End, TypeOK
<1>6. /\ outcome = "ROLLED-BACK" => RollbackOk(p)
      /\ outcome = "PURGE-FAILED" => PurgeFailedOk(p)
      /\ outcome # "COMMIT" /\ outcome # "PURGED"
  BY <1>1, <1>2, RollsBack, PurgeFails
<1>7. ASSUME ~damaged PROVE Good(disk)
  <2>1. Follows(disk, tx[p], {}) /\ Good(tx[p].was)
    BY <1>1, <1>7, Rolled DEF SoloInv, SoloOk, Working
  <2> QED
    BY <1>1, <2>1, GoodAgain
<1> QED
  BY <1>4, <1>5, <1>6, <1>7, EndSolo

\* A command that dies.
LEMMA CrashSolo ==
    ASSUME Solo, SoloInv, NEW p \in Procs, Crash(p), ZoneInv'
    PROVE  SoloInv'
<1>1. End(p, "CRASHED") /\ damaged'
  BY DEF Crash
<1>2. TypeOK
  BY DEF SoloInv, ZoneInv
<1>3. /\ Same(p) /\ Keeps(p) /\ tx'[p].done = tx[p].done /\ tx'[p].undone = tx[p].undone
      /\ tx'[p].outcome = "CRASHED"
  BY <1>1, <1>2, OutcomeForm
<1>4. phase'[p] = "idle" /\ UNCHANGED <<disk, ran>>
  BY <1>1, <1>2 DEF End, TypeOK
<1> QED
  BY <1>1, <1>3, <1>4, EndSolo

\* A command that is refused.
LEMMA RefuseSolo ==
    ASSUME Solo, SoloInv, NEW p \in Procs, Refuse(p), UNCHANGED damaged, ZoneInv'
    PROVE  SoloInv'
<1>1. PICK outcome \in {"CONFLICT", "BLOCKED", "RAISED", "DRY-RUN"} : End(p, outcome)
  BY DEF Refuse
<1>2. TypeOK /\ phase[p] = "planned" /\ SoloOk(p)
  BY DEF SoloInv, ZoneInv, Refuse
<1>3. /\ Same(p) /\ Keeps(p) /\ tx'[p].done = tx[p].done /\ tx'[p].undone = tx[p].undone
      /\ tx'[p].outcome = outcome
  BY <1>1, <1>2, OutcomeForm
<1>4. phase'[p] = "idle" /\ UNCHANGED <<disk, ran>>
  BY <1>1, <1>2 DEF End, TypeOK
<1>5. ~damaged => Good(disk)
  BY <1>2 DEF SoloOk
<1> QED
  BY <1>1, <1>3, <1>4, <1>5, EndSolo

\* A command that commits, or has purged.
LEMMA CommitForm ==
    ASSUME TypeOK, NEW p \in Procs, Finish(p)
    PROVE  /\ Same(p) /\ Keeps(p) /\ tx'[p].undone = tx[p].undone
           /\ tx'[p].done = tx[p].done /\ phase'[p] = "idle"
           /\ tx'[p].outcome = IF tx[p].cmd = "quarantine-purge" THEN "PURGED" ELSE "COMMIT"
<1>1. tx[p] \in Txs /\ tx \in [Procs -> Txs] /\ phase \in [Procs -> {"idle", "planned", "do", "undo"}]
  BY DEF TypeOK
<1> DEFINE outcome == IF tx[p].cmd = "quarantine-purge" THEN "PURGED" ELSE "COMMIT"
           t == [tx[p] EXCEPT !.outcome = outcome, !.committed = TRUE]
<1>2. tx'[p] = t
  BY <1>1 DEF Finish
<1> HIDE DEF outcome
<1>3. /\ t.index = tx[p].index /\ t.groups = tx[p].groups /\ t.undone = tx[p].undone
      /\ t.groupsText = tx[p].groupsText /\ t.was = tx[p].was
      /\ t.cmd = tx[p].cmd /\ t.zone = tx[p].zone /\ t.package = tx[p].package
      /\ t.done = tx[p].done /\ t.outcome = outcome
  BY <1>1 DEF Txs
<1> HIDE DEF t
<1>4. phase'[p] = "idle"
  BY <1>1 DEF Finish
<1> QED
  BY <1>2, <1>3, <1>4 DEF Keeps, Same, outcome

\* The files of a command that has only its report to write.
LEMMA FinishGood ==
    ASSUME SoloInv, NEW p \in Procs, At(p, "do", "finish"), ~damaged
    PROVE  Good(disk)
<1>1. /\ phase[p] = "do" /\ Follows(disk, tx[p], tx[p].done) /\ tx[p].cmd \in CommandNames
  BY Doing DEF At
<1>2. Good(tx[p].was)
  BY <1>1 DEF SoloInv, SoloOk, Working
<1>3. CASE tx[p].cmd = "quarantine-purge"
  BY <1>1, <1>2, <1>3, PurgeGood
<1>4. CASE tx[p].cmd # "quarantine-purge"
  BY <1>1, <1>2, <1>4, Commits, CommitGood
<1> QED
  BY <1>3, <1>4

\* The report of a command.
LEMMA FinishSolo ==
    ASSUME Solo, SoloInv, NEW p \in Procs, Finish(p), UNCHANGED damaged, ZoneInv'
    PROVE  SoloInv'
<1>1. At(p, "do", "finish") /\ UNCHANGED <<disk, ran>>
  BY DEF Finish
<1>2. /\ Same(p) /\ Keeps(p) /\ tx'[p].undone = tx[p].undone
      /\ tx'[p].done = tx[p].done /\ phase'[p] = "idle"
      /\ tx'[p].outcome = IF tx[p].cmd = "quarantine-purge" THEN "PURGED" ELSE "COMMIT"
  BY CommitForm DEF SoloInv, ZoneInv
<1>3. /\ tx'[p].outcome = "COMMIT" => CommitOk(p)
      /\ tx'[p].outcome = "PURGED" => PurgedOk(p)
      /\ tx'[p].outcome # "ROLLED-BACK" /\ tx'[p].outcome # "PURGE-FAILED"
  BY <1>1, <1>2, Commits, Purges
<1>4. ~damaged => Good(disk)
  BY <1>1, FinishGood
<1> QED
  BY <1>1, <1>2, <1>3, <1>4, EndSolo

\* The report cannot be written.
LEMMA FinishFailsSolo ==
    ASSUME Solo, "restore" \notin Unreported, SoloInv, NEW p \in Procs, FinishFails(p),
           UNCHANGED damaged, ZoneInv'
    PROVE  SoloInv'
<1>1. tx[p].cmd \in Unreported /\ At(p, "do", "finish")
  BY DEF FinishFails
<1>2. CASE Raise(p, "finish") /\ UNCHANGED <<disk, served, ran>>
  <2>1. disk' \in Remains(p, "finish")
    BY <1>2 DEF Remains
  <2> QED
    BY <1>1, <1>2, <2>1, RaiseSolo
<1>3. CASE End(p, "RAISED")
  <2>1. TypeOK
    BY DEF SoloInv, ZoneInv
  <2>2. /\ Same(p) /\ Keeps(p) /\ tx'[p].done = tx[p].done /\ tx'[p].undone = tx[p].undone
        /\ tx'[p].outcome = "RAISED"
    BY <1>3, <2>1, OutcomeForm
  <2>3. phase'[p] = "idle" /\ UNCHANGED <<disk, ran>>
    BY <1>3, <2>1 DEF End, TypeOK
  <2>4. ~damaged => Good(disk)
    BY <1>1, FinishGood
  <2> QED
    BY <2>2, <2>3, <2>4, EndSolo
<1> QED
  BY <1>2, <1>3 DEF FinishFails

(* The beginning of a command, once more ***********************************)

\* A step of a command that has ended or not begun.
LEMMA OutsideSolo ==
    ASSUME Solo, SoloInv, NEW p \in Procs, ZoneInv', phase'[p] # "idle", SoloOk(p)'
    PROVE  SoloInv'
<1>1. \A q \in Procs : q = p
  BY DEF Solo
<1>2. OutcomeMatchesDisk'
  BY <1>1 DEF OutcomeMatchesDisk, Ended
<1> QED
  BY <1>1, <1>2 DEF SoloInv

\* What the reads leave in the local state of the command.
LEMMA ReadForm ==
    ASSUME TypeOK, NEW p \in Procs, ReadOriginals(p)
    PROVE  /\ Same(p) /\ tx'[p].done = tx[p].done /\ tx'[p].undone = tx[p].undone
           /\ tx'[p].index = disk.index /\ tx'[p].groups = disk.groups /\ tx'[p].was = disk
           /\ phase'[p] = "do" /\ UNCHANGED <<disk, ran>>
<1>1. /\ tx[p] \in Txs /\ tx \in [Procs -> Txs] /\ phase \in [Procs -> {"idle", "planned", "do", "undo"}]
      /\ disk \in Disks
  BY DEF TypeOK
<1> DEFINE t == [tx[p] EXCEPT !.index = disk.index, !.groups = disk.groups, !.was = disk]
<1>2. tx'[p] = t
  BY <1>1 DEF ReadOriginals
<1>3. /\ t.index = disk.index /\ t.groups = disk.groups /\ t.undone = tx[p].undone
      /\ t.was = disk /\ t.cmd = tx[p].cmd /\ t.zone = tx[p].zone /\ t.package = tx[p].package
      /\ t.done = tx[p].done
  BY <1>1 DEF Txs
<1> HIDE DEF t
<1>4. phase'[p] = "do" /\ UNCHANGED <<disk, ran>>
  BY <1>1 DEF ReadOriginals
<1> QED
  BY <1>2, <1>3, <1>4 DEF Same

\* The command has read the files as they are.
LEMMA ReadOriginalsSolo ==
    ASSUME Solo, SoloInv, NEW p \in Procs, ReadOriginals(p), UNCHANGED damaged, ZoneInv'
    PROVE  SoloInv'
<1>1. /\ TypeOK /\ SoloOk(p) /\ phase[p] = "planned" /\ tx[p].done = {} /\ disk \in Disks
      /\ tx[p].cmd \in CommandNames /\ (tx[p].cmd \in Packing => tx[p].package \in Packages)
  BY DEF SoloInv, ZoneInv, ReadOriginals, Known, TypeOK
<1>2. /\ Same(p) /\ tx'[p].done = {} /\ tx'[p].undone
      /\ tx'[p].index = disk.index /\ tx'[p].groups = disk.groups /\ tx'[p].was = disk
      /\ phase'[p] = "do" /\ UNCHANGED <<disk, ran>>
  BY <1>1, ReadForm DEF SoloOk
<1>3. /\ ~Conflict(tx[p].cmd, tx[p].zone)
      /\ Readable(tx[p].cmd, tx[p].zone, tx[p].package)
  BY DEF ReadOriginals
<1>4. Found(p, disk) /\ Numbered(p, disk) /\ Archive(p)' = Archive(p)
  BY <1>1, <1>2 DEF SoloOk, Archive, Package, Same
<1>5. ReadOk(p)'
  <2>1. Found(p, tx[p].was)'
    BY <1>2, <1>4 DEF Found, Same
  <2>2. /\ tx[p].cmd = "create" => tx[p].zone \notin disk.zoneFiles \union disk.declared
        /\ tx[p].cmd = "quarantine-purge" => tx[p].package \in disk.packages
        /\ disk.packages \intersect disk.staged = {}
    BY <1>3, <1>4 DEF Conflict, Readable, Numbered
  <2> QED
    BY <1>1, <1>2, <2>1, <2>2 DEF ReadOk, Same
<1>6. InOrder(p)'
  BY <1>2 DEF InOrder
<1>7. PurgeTraced(p)'
  <2>1. Moved(p, disk)'
    BY <1>2 DEF Moved
  <2>2. ASSUME tx[p].cmd = "quarantine-purge" PROVE Purging(p, disk, tx[p].done)'
    <3>1. /\ tx[p].package \in disk.packages /\ tx[p].package \notin disk.staged
          /\ Archive(p) \notin disk.rescued
      BY <1>3, <1>4, <2>2 DEF Readable, Numbered, Found
    <3> QED
      BY <1>2, <1>4, <3>1 DEF Purging, Same
  <2> QED
    BY <1>2, <2>1, <2>2 DEF PurgeTraced, Same
<1>8. Follows(disk, tx[p], Standing(p))'
  <2>1. Standing(p)' = {}
    BY <1>2 DEF Standing
  <2> QED
    BY <1>2, <2>1 DEF Follows, Filed
<1>9. ~damaged' => Good(tx[p].was)'
  BY <1>1, <1>2 DEF SoloOk, Good
<1>10. SoloOk(p)'
  <2>1. Working(p)'
    BY <1>5, <1>6, <1>7, <1>8, <1>9 DEF Working
  <2>2. Numbered(p, disk)'
    BY <1>2, <1>4 DEF Numbered
  <2> QED
    BY <1>2, <2>1, <2>2 DEF SoloOk
<1> QED
  BY <1>2, <1>10, OutsideSolo

\* What plan() has seen of a zone, in full.
Sees(p, cmd, z, k) ==
    /\ cmd = "disable" => CanDisable(z)
    /\ cmd \in {"restore", "quarantine"} => CanRestore(z)
    /\ cmd = "quarantine" => k = [zone |-> z, by |-> p, nr |-> ran[p] + 1]
    /\ cmd = "quarantine-restore" => CanUnpack(z) /\ k \in disk.packages

\* A command that has planned.
LEMMA BeginSolo ==
    ASSUME Solo, SoloInv, NEW p \in Procs, NEW cmd \in CommandNames, NEW z \in Zones, NEW k,
           k \in Packages \union {None}, Sees(p, cmd, z, k), Begin(p, cmd, z, k),
           UNCHANGED damaged, ZoneInv'
    PROVE  SoloInv'
<1>1. /\ tx \in [Procs -> Txs] /\ phase \in [Procs -> {"idle", "planned", "do", "undo"}]
      /\ ran \in [Procs -> 0..MaxTx] /\ disk \in Disks /\ SoloOk(p) /\ phase[p] = "idle"
      /\ ran[p] \in Nat
  BY LifecycleAssumption DEF SoloInv, ZoneInv, TypeOK, Begin
<1> DEFINE t == [NoTx EXCEPT !.cmd = cmd, !.zone = z, !.package = k, !.groupsText = GroupsText(z)]
<1>2. tx'[p] = t
  BY <1>1 DEF Begin
<1>3. t.cmd = cmd /\ t.zone = z /\ t.package = k /\ t.undone = TRUE
  BY DEF NoTx
<1> HIDE DEF t
<1>4. phase'[p] = "planned" /\ ran'[p] = ran[p] + 1 /\ disk' = disk
  BY <1>1 DEF Begin
<1>5. Numbered(p, disk)'
  <2>1. /\ \A c \in disk.packages \union disk.staged : c \in Packages
        /\ \A a \in disk.rescued : a \in Archives
    BY <1>1 DEF Disks
  <2>2. /\ \A c \in disk.packages \union disk.staged : c.nr \in Nat
        /\ \A a \in disk.rescued : a.nr \in Nat
    BY <2>1, LifecycleAssumption DEF Packages, Archives
  <2> QED
    BY <1>1, <1>4, <2>2 DEF SoloOk, Numbered
<1>6. ~damaged' => Good(disk)'
  BY <1>1, <1>4 DEF SoloOk, Good
<1>7. Found(p, disk)'
  <2>1. /\ \A c \in disk.packages \union disk.staged : c.by = p => c.nr <= ran[p]
        /\ \A a \in disk.rescued : a.by = p => a.nr <= ran[p]
    BY <1>1 DEF SoloOk, Numbered
  <2>2. disk.index \in [Zones -> Nat]
    BY <1>1 DEF Disks
  <2>3. CASE cmd = "disable"
    BY <1>2, <1>3, <1>4, <2>3 DEF Found, Sees, CanDisable
  <2>4. CASE cmd = "restore"
    <3>1. z \in disk.zoneFiles \intersect disk.archived /\ z \notin disk.declared /\ disk.index[z] = 0
      BY <2>2, <2>4 DEF Sees, CanRestore, Configured
    <3> QED
      BY <1>2, <1>3, <1>4, <2>4, <3>1 DEF Found
  <2>5. CASE cmd = "quarantine"
    <3>1. z \in disk.zoneFiles \intersect disk.archived /\ z \notin disk.declared /\ disk.index[z] = 0
      BY <2>2, <2>5 DEF Sees, CanRestore, Configured
    <3>2. k = [zone |-> z, by |-> p, nr |-> ran[p] + 1]
      BY <2>5 DEF Sees
    <3>3. k.by = p /\ k.nr = ran[p] + 1
      BY <3>2
    <3>4. k \notin disk.packages \union disk.staged
      BY <1>1, <2>1, <3>3
    <3> QED
      BY <1>2, <1>3, <1>4, <2>5, <3>1, <3>3, <3>4 DEF Found
  <2>6. CASE cmd = "quarantine-restore"
    <3>1. /\ z \notin disk.zoneFiles \union disk.declared /\ disk.index[z] = 0
          /\ k \in disk.packages
      BY <2>2, <2>6 DEF Sees, CanUnpack, Configured
    <3> QED
      BY <1>2, <1>3, <1>4, <2>6, <3>1 DEF Found
  <2>7. CASE cmd = "quarantine-purge"
    <3>1. Archive(p)'.by = p /\ Archive(p)'.nr = ran[p] + 1
      BY <1>4 DEF Archive
    <3>2. Archive(p)' \notin disk.rescued
      BY <1>1, <2>1, <3>1
    <3> QED
      BY <1>2, <1>3, <1>4, <2>7, <3>2 DEF Found
  <2>8. CASE cmd = "create"
    BY <1>2, <1>3, <2>8 DEF Found
  <2> QED
    BY <2>3, <2>4, <2>5, <2>6, <2>7, <2>8 DEF CommandNames
<1>8. SoloOk(p)'
  BY <1>2, <1>3, <1>4, <1>5, <1>6, <1>7 DEF SoloOk
<1> QED
  BY <1>4, <1>8, OutsideSolo

\* Every command plans before it begins.
LEMMA PlanSolo ==
    ASSUME Solo, SoloInv, NEW p \in Procs, Plan(p), UNCHANGED damaged, ZoneInv'
    PROVE  SoloInv'
<1>0. /\ disk.packages \subseteq Packages /\ ran[p] \in 0..MaxTx /\ Assigned[p] \subseteq Zones
      /\ \A k \in Packages : k.zone \in Zones
  BY LifecycleAssumption DEF SoloInv, ZoneInv, TypeOK, Disks, Packages
<1>1. CASE CreateCommand(p) \/ CreateZoneWizard(p)
  <2>1. PICK z \in Assigned[p] : Begin(p, "create", z, None)
    BY <1>1 DEF CreateCommand, CreateZoneWizard
  <2>2. Sees(p, "create", z, None) /\ "create" \in CommandNames /\ z \in Zones
    BY <1>0 DEF Sees, CommandNames
  <2> QED
    BY <2>1, <2>2, BeginSolo
<1>2. CASE DisableCommand(p)
  <2>1. PICK z \in Assigned[p] : CanDisable(z) /\ Begin(p, "disable", z, None)
    BY <1>2 DEF DisableCommand
  <2>2. Sees(p, "disable", z, None) /\ "disable" \in CommandNames /\ z \in Zones
    BY <1>0, <2>1 DEF Sees, CommandNames
  <2> QED
    BY <2>1, <2>2, BeginSolo
<1>3. CASE RestoreCommand(p)
  <2>1. PICK z \in Assigned[p] : CanRestore(z) /\ Begin(p, "restore", z, None)
    BY <1>3 DEF RestoreCommand
  <2>2. Sees(p, "restore", z, None) /\ "restore" \in CommandNames /\ z \in Zones
    BY <1>0, <2>1 DEF Sees, CommandNames
  <2> QED
    BY <2>1, <2>2, BeginSolo
<1>4. CASE QuarantineCommand(p)
  <2>1. PICK z \in Assigned[p] :
          CanQuarantine(z) /\ Begin(p, "quarantine", z, [zone |-> z, by |-> p, nr |-> ran[p] + 1])
    BY <1>4 DEF QuarantineCommand
  <2>2. [zone |-> z, by |-> p, nr |-> ran[p] + 1] \in Packages
    BY <1>0, <2>1, LifecycleAssumption DEF Packages, Begin
  <2>3. /\ Sees(p, "quarantine", z, [zone |-> z, by |-> p, nr |-> ran[p] + 1])
        /\ "quarantine" \in CommandNames /\ z \in Zones
    BY <1>0, <2>1 DEF Sees, CommandNames, CanQuarantine
  <2> QED
    BY <2>1, <2>2, <2>3, BeginSolo
<1>5. CASE QuarantineRestoreCommand(p)
  <2>1. PICK k \in disk.packages : /\ k.zone \in Assigned[p] /\ CanUnpack(k.zone)
                                   /\ Begin(p, "quarantine-restore", k.zone, k)
    BY <1>5 DEF QuarantineRestoreCommand
  <2>2. /\ Sees(p, "quarantine-restore", k.zone, k) /\ k \in Packages
        /\ "quarantine-restore" \in CommandNames /\ k.zone \in Zones
    BY <1>0, <2>1 DEF Sees, CommandNames
  <2> QED
    BY <2>1, <2>2, BeginSolo
<1>6. CASE QuarantinePurgeCommand(p)
  <2>1. PICK k \in disk.packages : /\ k.zone \in Assigned[p]
                                   /\ Begin(p, "quarantine-purge", k.zone, k)
    BY <1>6 DEF QuarantinePurgeCommand
  <2>2. /\ Sees(p, "quarantine-purge", k.zone, k) /\ k \in Packages
        /\ "quarantine-purge" \in CommandNames /\ k.zone \in Zones
    BY <1>0, <2>1 DEF Sees, CommandNames
  <2> QED
    BY <2>1, <2>2, BeginSolo
<1> QED
  BY <1>1, <1>2, <1>3, <1>4, <1>5, <1>6 DEF Plan

(* All steps, once more ****************************************************)

\* The zones are in one of their states at first.
LEMMA InitGood == Init => Good(disk)
<1> SUFFICES ASSUME Init PROVE Good(disk)
  OBVIOUS
<1>1. PICK s \in [Zones -> {"absent", "active", "disabled", "quarantined"}] :
        disk = DiskFor(s)
  BY DEF Init
<1>2. /\ disk.zoneFiles = {z \in Zones : s[z] \in {"active", "disabled"}}
      /\ disk.declared = {z \in Zones : s[z] \in {"active"}}
      /\ disk.archived = {z \in Zones : s[z] \in {"disabled"}}
      /\ disk.index = [z \in Zones |-> IF s[z] = "active" THEN 1 ELSE 0]
      /\ disk.packages = {[zone |-> z, by |-> None, nr |-> 0] : z \in {y \in Zones : s[y] \in {"quarantined"}}}
      /\ disk.staged = {} /\ disk.rescued = {}
  BY <1>1 DEF DiskFor
<1> SUFFICES ASSUME NEW z \in Zones PROVE DiskState(disk, z) # "damaged"
  BY DEF Good
<1>3. s[z] \in {"absent", "active", "disabled", "quarantined"}
  OBVIOUS
<1>4. CASE s[z] = "active"
  BY <1>2, <1>4, GoodStates
<1>5. CASE s[z] = "disabled"
  BY <1>2, <1>5, GoodStates
<1>6. CASE s[z] \in {"absent", "quarantined"}
  BY <1>2, <1>6, GoodStates
<1> QED
  BY <1>3, <1>4, <1>5, <1>6

\* The invariant holds at first.
LEMMA InitSolo == Init => SoloInv
<1> SUFFICES ASSUME Init PROVE SoloInv
  OBVIOUS
<1>1. PICK s \in [Zones -> {"absent", "active", "disabled", "quarantined"}] :
        disk = DiskFor(s)
  BY DEF Init
<1>2. /\ disk.zoneFiles = {z \in Zones : s[z] \in {"active", "disabled"}}
      /\ disk.declared = {z \in Zones : s[z] \in {"active"}}
      /\ disk.archived = {z \in Zones : s[z] \in {"disabled"}}
      /\ disk.index = [z \in Zones |-> IF s[z] = "active" THEN 1 ELSE 0]
      /\ disk.packages = {[zone |-> z, by |-> None, nr |-> 0] : z \in {y \in Zones : s[y] \in {"quarantined"}}}
      /\ disk.staged = {} /\ disk.rescued = {}
  BY <1>1 DEF DiskFor
<1>3. Good(disk)
  BY InitGood
<1>4. ASSUME NEW p \in Procs PROVE SoloOk(p)
  <2>1. phase[p] = "idle" /\ ran[p] = 0
    BY DEF Init
  <2>2. \A c \in disk.packages : c.nr = 0
    BY <1>2
  <2>3. Numbered(p, disk)
    BY <1>2, <2>1, <2>2 DEF Numbered
  <2> QED
    BY <1>3, <2>1, <2>3 DEF SoloOk
<1>5. OutcomeMatchesDisk
  <2>1. \A p \in Procs : tx[p].outcome = None
    BY DEF Init, NoTx
  <2>2. \A o \in {"COMMIT", "ROLLED-BACK", "PURGED", "PURGE-FAILED"} : o # None
    BY NoneAssumption DEF Outcomes
  <2> QED
    BY <2>1, <2>2 DEF OutcomeMatchesDisk, Ended
<1> QED
  BY <1>4, <1>5, InitKeeps DEF SoloInv

\* Every step keeps the invariant of one operator.
LEMMA NextSolo ==
    ASSUME Solo, "restore" \notin Unreported, SoloInv, [Next]_vars
    PROVE  SoloInv'
<1>0. ZoneInv'
  BY SoloOwns, NextKeeps DEF SoloInv
<1>1. CASE UNCHANGED vars
  <2>1. OutcomeMatchesDisk'
    BY <1>1 DEF vars, SoloInv, OutcomeMatchesDisk, Ended, Copies, Package, Zone
  <2>2. ASSUME NEW p \in Procs PROVE SoloOk(p)'
    <3>1. SoloOk(p)
      BY DEF SoloInv
    <3>2. Numbered(p, disk)' /\ (Good(disk)' <=> Good(disk)) /\ (Found(p, disk)' <=> Found(p, disk))
      BY <1>1, <3>1 DEF vars, SoloOk, Numbered, Good, Found, Archive, Package
    <3>3. Working(p)' <=> Working(p)
      BY <1>1 DEF vars, Working, Good, ReadOk, Found, Archive, Package, InOrder, Due, PurgeTraced,
         Moved, Purging, Tracked, Follows, Filed, Standing
    <3> QED
      BY <1>1, <3>1, <3>2, <3>3 DEF vars, SoloOk
  <2> QED
    BY <1>0, <2>1, <2>2 DEF SoloInv
<1>2. ASSUME NEW p \in Procs, Plan(p) \/ Step(p), UNCHANGED damaged PROVE SoloInv'
  <2>1. CASE Plan(p) \/ ReadOriginals(p) \/ Refuse(p)
    BY <1>0, <1>2, <2>1, PlanSolo, ReadOriginalsSolo, RefuseSolo
  <2>2. CASE Finish(p) \/ FinishFails(p) \/ FileStepFails(p) \/ FinishUndo(p)
    BY <1>0, <1>2, <2>2, FinishSolo, FinishFailsSolo, FileStepFailsSolo, FinishUndoSolo
  <2>3. CASE \/ WriteZoneFile(p) \/ WriteDeclaration(p) \/ AddInclude(p) \/ WriteGroups(p)
             \/ MakeDirectory(p) \/ WriteArchive(p) \/ DropDeclaration(p) \/ RemoveInclude(p)
    BY <1>0, <1>2, <2>3, WriteZoneFileSolo, WriteDeclarationSolo, AddIncludeSolo, WriteGroupsSolo,
       MakeDirectorySolo, WriteArchiveSolo, DropDeclarationSolo, RemoveIncludeSolo
  <2>4. CASE WritePackage(p) \/ DropZoneFile(p) \/ ConsumeArchive(p)
    BY <1>0, <1>2, <2>4, WritePackageSolo, DropZoneFileSolo, ConsumeArchiveSolo
  <2>5. CASE NotePurge(p) \/ Stage(p) \/ WriteRescue(p) \/ DropStaged(p) \/ DropRescue(p)
    BY <1>0, <1>2, <2>5, NotePurgeSolo, StageSolo, WriteRescueSolo, DropStagedSolo, DropRescueSolo
  <2>6. CASE \/ CheckZone(p) \/ CheckConf(p) \/ Activate(p) \/ VerifyLoaded(p)
             \/ VerifyUnavailable(p)
    BY <1>0, <1>2, <2>6, ChecksSolo
  <2>7. CASE \/ RestoreIndex(p) \/ RestoreGroups(p) \/ RemoveZoneFile(p) \/ RemoveDeclaration(p)
             \/ RewriteDeclaration(p) \/ RemoveArchive(p)
    BY <1>0, <1>2, <2>7, RestoreIndexSolo, RestoreGroupsSolo, RemoveZoneFileSolo,
       RemoveDeclarationSolo, RewriteDeclarationSolo, RemoveArchiveSolo
  <2>8. CASE \/ RewriteZoneFile(p) \/ RewriteArchive(p) \/ RemovePackage(p) \/ Unstage(p)
             \/ Reactivate(p)
    BY <1>0, <1>2, <2>8, RewriteZoneFileSolo, RewriteArchiveSolo, RemovePackageSolo, UnstageSolo,
       ReactivateSolo
  <2> QED
    BY <1>2, <2>1, <2>2, <2>3, <2>4, <2>5, <2>6, <2>7, <2>8 DEF Step
<1>3. ASSUME NEW p \in Procs, UndoFails(p) \/ Crash(p) PROVE SoloInv'
  BY <1>0, <1>3, UndoFailsSolo, CrashSolo
<1> QED
  BY <1>1, <1>2, <1>3 DEF Next

\* With one operator the files are at every moment those that the command under
\* way has found, with what its steps have changed and not taken back.
THEOREM SoloInvariant ==
    ASSUME Solo, "restore" \notin Unreported
    PROVE  Spec => []SoloInv
<1>1. SoloInv /\ [Next]_vars => SoloInv'
  BY NextSolo
<1> QED
  BY <1>1, InitSolo, PTL DEF Spec

\* The outcome a command reports is what it did to the files.
THEOREM OutcomesTrue ==
    ASSUME Solo, "restore" \notin Unreported
    PROVE  Spec => []OutcomeMatchesDisk
<1>1. SoloInv => OutcomeMatchesDisk
  BY DEF SoloInv
<1> QED
  BY <1>1, SoloInvariant, PTL

\* Files with all zones in one of their states load.
LEMMA GoodLoads == Good(disk) => ConfigOK
BY GoodStates DEF Good, ConfigOK

\* The files of a command under way load, unless it is a disable.
LEMMA WorkLoads ==
    ASSUME SoloInv, NEW p \in Procs, phase[p] \in {"do", "undo"}, tx[p].cmd # "disable", ~damaged
    PROVE  ConfigOK
<1> DEFINE was == tx[p].was  z == tx[p].zone  S == Standing(p)
<1>1. /\ Follows(disk, tx[p], S) /\ InOrder(p) /\ Good(was) /\ ReadOk(p)
      /\ tx[p].cmd \in CommandNames /\ z \in Zones /\ was \in Disks
  <2>1. CASE phase[p] = "do"
    <3>1. S = tx[p].done
      BY <2>1 DEF Standing
    <3> QED
      BY <2>1, <3>1, Doing DEF SoloInv, SoloOk, Working
  <2>2. CASE phase[p] = "undo"
    BY <2>2, Undoing DEF SoloInv, SoloOk, Working, Tracked
  <2> QED
    BY <2>1, <2>2
<1>2. S \subseteq tx[p].done /\ tx[p].done \subseteq Range(Steps(tx[p].cmd))
  BY <1>1 DEF Standing, InOrder, Due
<1>3. "drop-declaration" \notin S /\ "exclude" \notin S
  BY <1>1, <1>2, WhoseStep, MoreSteps
<1>4. "include" \in S => "declaration" \in S
  BY <1>1 DEF InOrder, Standing, Reverts
<1>5. "include" \in S => was.index[z] = 0
  <2>1. "include" \in S => tx[p].cmd \in {"create", "restore", "quarantine-restore"}
    BY <1>1, <1>2, WhoseStep
  <2>2. tx[p].cmd = "create" => was.index[z] = 0
    BY <1>1, GoodStates DEF ReadOk, Good
  <2> QED
    BY <1>1, <2>1, <2>2 DEF ReadOk, Found
<1>6. \A y \in Zones : was.index[y] > 0 => y \in was.declared /\ was.index[y] = 1
  BY <1>1, GoodStates DEF Good
<1>7. /\ \A y \in Zones \ {z} : (disk.index[y] = was.index[y] /\ (y \in disk.declared <=> y \in was.declared))
      /\ disk.index[z] = IF "include" \in S THEN was.index[z] + 1 ELSE was.index[z]
      /\ "declaration" \in S => z \in disk.declared
      /\ z \in was.declared => z \in disk.declared
  BY <1>1, <1>3 DEF Follows, Filed
<1> HIDE DEF was, z, S
<1> QED
  BY <1>4, <1>5, <1>6, <1>7 DEF ConfigOK

\* named could be restarted at any moment at which no disable is under way.
THEOREM ConfigurationLoads ==
    ASSUME Solo, Procs # {}, "restore" \notin Unreported
    PROVE  Spec => []ConfigLoads
<1>1. SoloInv => ConfigLoads
  <2> SUFFICES ASSUME SoloInv, ~damaged PROVE ConfigLoads
    BY DEF ConfigLoads
  <2>1. PICK p \in Procs : TRUE
    OBVIOUS
  <2>2. phase[p] \in {"idle", "planned", "do", "undo"} /\ SoloOk(p)
    BY DEF SoloInv, ZoneInv, TypeOK
  <2>3. CASE phase[p] \in {"idle", "planned"}
    BY <2>2, <2>3, GoodLoads DEF SoloOk, ConfigLoads
  <2>4. CASE phase[p] \in {"do", "undo"}
    BY <2>4, WorkLoads DEF ConfigLoads
  <2> QED
    BY <2>2, <2>3, <2>4
<1> QED
  BY <1>1, SoloInvariant, PTL

\* Between the commands of one operator the index has one include line for each
\* declaration.
THEOREM IndexKept ==
    ASSUME Solo, Procs # {}, "restore" \notin Unreported
    PROVE  Spec => []IndexComplete
<1>1. SoloInv => IndexComplete
  <2> SUFFICES ASSUME SoloInv, ~damaged, \A p \in Procs : phase[p] = "idle", NEW z \in Zones
               PROVE  disk.index[z] = IF z \in disk.declared THEN 1 ELSE 0
    BY DEF IndexComplete
  <2>1. PICK p \in Procs : TRUE
    OBVIOUS
  <2>2. SoloOk(p) /\ phase[p] = "idle"
    BY DEF SoloInv
  <2>3. DiskState(disk, z) # "damaged"
    BY <2>2 DEF SoloOk, Good
  <2> QED
    BY <2>3, GoodStates
<1> QED
  BY <1>1, SoloInvariant, PTL

(* The lifecycle ***********************************************************)

\* The state of a zone, by the only operator.
View(p, z) == IF phase[p] \in {"do", "undo"} THEN DiskState(tx[p].was, z) ELSE DiskState(disk, z)

\* While a command runs the other zones have not left their states either.
LEMMA Views ==
    Solo /\ SoloInv /\ ~damaged => \A p \in Procs : \A z \in Zones : StateOf(z) = View(p, z)
<1> SUFFICES ASSUME Solo, SoloInv, ~damaged, NEW p \in Procs, NEW z \in Zones
             PROVE  StateOf(z) = View(p, z)
  OBVIOUS
<1>1. CASE phase[p] \notin {"do", "undo"}
  BY <1>1 DEF StateOf, View, Solo
<1>2. CASE phase[p] \in {"do", "undo"} /\ Zone(p) # z
  <2>1. Follows(disk, tx[p], Standing(p)) /\ Standing(p) \subseteq tx[p].done
    BY <1>2 DEF SoloInv, SoloOk, Working, Tracked, Standing
  <2>2. DiskState(disk, z) = DiskState(tx[p].was, z)
    BY <1>2, <2>1, OtherStates DEF Zone
  <2> QED
    BY <1>2, <2>2 DEF StateOf, View, Solo
<1>3. CASE phase[p] \in {"do", "undo"} /\ Zone(p) = z
  <2> DEFINE q == CHOOSE q \in Procs : phase[q] \in {"do", "undo"} /\ Zone(q) = z
  <2>1. q \in Procs
    BY <1>3
  <2>2. q = p
    BY <2>1 DEF Solo
  <2>3. StateOf(z) = DiskState(tx[q].was, z)
    BY <1>3 DEF StateOf
  <2> QED
    BY <1>3, <2>2, <2>3 DEF View
<1> QED
  BY <1>1, <1>2, <1>3

\* An edge from d to e for zone z, or none, and the other zones stay.
Edge(d, e, z) ==
    /\ \/ DiskState(d, z) = DiskState(e, z)
       \/ <<DiskState(d, z), DiskState(e, z)>> \in Lifecycle!Edges
    /\ \A y \in Zones \ {z} : DiskState(d, y) = DiskState(e, y)

\* A committed command moves its zone along an edge.
LEMMA CommitMoves ==
    ASSUME SoloInv, NEW p \in Procs, At(p, "do", "finish"), tx[p].cmd # "quarantine-purge", ~damaged
    PROVE  Edge(tx[p].was, disk, tx[p].zone)
<1> DEFINE was == tx[p].was  z == tx[p].zone
<1>1. /\ phase[p] = "do" /\ CommitOk(p) /\ ReadOk(p) /\ tx[p].cmd \in CommandNames /\ z \in Zones
  BY Commits, Doing DEF At
<1>2. Good(was)
  BY <1>1 DEF SoloInv, SoloOk, Working
<1>3. DiskState(was, z) # "damaged" /\ DiskState(disk, z) = Goal(tx[p].cmd)
  BY <1>1, <1>2 DEF Good, CommitOk
<1>4. /\ Found(p, was)
      /\ tx[p].cmd = "create" => z \notin was.zoneFiles /\ z \notin was.declared
  BY <1>1 DEF ReadOk
<1>5. CASE tx[p].cmd = "create"
  <2>1. DiskState(was, z) \in {"absent", "quarantined"}
    BY <1>3, <1>4, <1>5, States
  <2> QED
    BY <1>1, <1>3, <1>5, <2>1 DEF Goal, Edge, CommitOk, Lifecycle!Edges
<1>6. CASE tx[p].cmd = "disable"
  <2>1. DiskState(was, z) = "active"
    BY <1>4, <1>6, States DEF Found
  <2> QED
    BY <1>1, <1>3, <1>6, <2>1 DEF Goal, Edge, CommitOk, Lifecycle!Edges
<1>7. CASE tx[p].cmd \in {"restore", "quarantine"}
  <2>1. DiskState(was, z) = "disabled"
    BY <1>4, <1>7, States DEF Found
  <2> QED
    BY <1>1, <1>3, <1>7, <2>1 DEF Goal, Edge, CommitOk, Lifecycle!Edges
<1>8. CASE tx[p].cmd = "quarantine-restore"
  <2>1. z \notin was.zoneFiles /\ z \notin was.declared /\ was.index[z] = 0
    BY <1>4, <1>8 DEF Found
  <2>2. DiskState(was, z) \in {"absent", "quarantined"}
    BY <1>3, <2>1, States
  <2>3. tx[p].package \in was.packages /\ tx[p].package.zone = z
    BY <1>1, <1>4, <1>8, Doing DEF Found, Known, Packing
  <2>4. HasPackage(was, z)
    BY <2>3 DEF HasPackage
  <2>5. DiskState(was, z) = "quarantined"
    BY <2>2, <2>4, States
  <2> QED
    BY <1>1, <1>3, <1>8, <2>5 DEF Goal, Edge, CommitOk, Lifecycle!Edges
<1> QED
  BY <1>1, <1>5, <1>6, <1>7, <1>8 DEF CommandNames

\* A purge, done or not, may take a zone from quarantine.
LEMMA PurgeMoves ==
    ASSUME SoloInv, NEW p \in Procs, phase[p] \in {"do", "undo"}, tx[p].cmd = "quarantine-purge",
           NEW S, S \subseteq tx[p].done, Follows(disk, tx[p], S)
    PROVE  Edge(tx[p].was, disk, tx[p].zone)
<1> DEFINE was == tx[p].was  z == tx[p].zone  k == tx[p].package
<1>1. S \intersect Tracking = {}
  BY PurgeGood
<1>2. /\ disk.zoneFiles = was.zoneFiles /\ disk.declared = was.declared
      /\ disk.archived = was.archived /\ disk.index = was.index
  BY <1>1, FilesBack
<1>3. \A y \in Zones \ {z} : DiskState(was, y) = DiskState(disk, y)
  BY OtherStates
<1>4. HasPackage(was, z)
  <2>1. k \in was.packages /\ k.zone = z
    BY Doing, Undoing DEF ReadOk, Known, Packing
  <2> QED
    BY <2>1 DEF HasPackage
<1>5. \/ DiskState(was, z) = DiskState(disk, z)
      \/ DiskState(was, z) = "quarantined" /\ DiskState(disk, z) = "absent"
  <2>1. CASE HasPackage(disk, z)
    BY <1>2, <1>4, <2>1, SameState
  <2>2. CASE ~HasPackage(disk, z)
    <3>1. CASE DiskState(was, z) = "active"
      BY <1>2, <3>1, States
    <3>2. CASE DiskState(was, z) = "disabled"
      BY <1>2, <3>2, States
    <3>3. CASE DiskState(was, z) = "quarantined"
      BY <1>2, <2>2, <3>3, States
    <3>4. CASE DiskState(was, z) = "absent"
      BY <1>4, <3>4, States
    <3>5. CASE DiskState(was, z) = "damaged"
      BY <1>2, <3>5, GoodStates
    <3> QED
      BY <3>1, <3>2, <3>3, <3>4, <3>5, States
  <2> QED
    BY <2>1, <2>2
<1> QED
  BY <1>3, <1>5 DEF Edge, Lifecycle!Edges

\* A rollback that has run leaves the states as they were, but for a purge.
LEMMA RollMoves ==
    ASSUME SoloInv, NEW p \in Procs, phase[p] = "undo", todo[p] = {}, ~damaged
    PROVE  Edge(tx[p].was, disk, tx[p].zone)
<1>1. Follows(disk, tx[p], {})
  BY Rolled
<1>2. CASE tx[p].cmd = "quarantine-purge"
  BY <1>1, <1>2, PurgeMoves
<1>3. CASE tx[p].cmd # "quarantine-purge"
  <2>1. /\ disk.zoneFiles = tx[p].was.zoneFiles /\ disk.declared = tx[p].was.declared
        /\ disk.archived = tx[p].was.archived /\ disk.index = tx[p].was.index
        /\ disk.packages = tx[p].was.packages
    BY <1>1, <1>3, FilesBack
  <2>2. \A y : HasPackage(disk, y) <=> HasPackage(tx[p].was, y)
    BY <2>1 DEF HasPackage
  <2>3. \A y : DiskState(tx[p].was, y) = DiskState(disk, y)
    BY <2>1, <2>2, SameState
  <2> QED
    BY <2>3 DEF Edge
<1> QED
  BY <1>2, <1>3

\* Where a step of a command leads.
LEMMA WorkForm ==
    ASSUME TypeOK, NEW p \in Procs, NEW step,
           \/ At(p, "do", step) /\ (Done(p, step) \/ Raise(p, step))
           \/ At(p, "undo", step) /\ (Undone(p, step) \/ NotUndone(p))
    PROVE  phase[p] \in {"do", "undo"} /\ phase'[p] \in {"do", "undo"} /\ Keeps(p)
<1>1. phase \in [Procs -> {"idle", "planned", "do", "undo"}]
  BY DEF TypeOK
<1>2. phase[p] \in {"do", "undo"}
  BY DEF At
<1>3. phase'[p] \in {"do", "undo"}
  BY <1>1, <1>2 DEF Done, Raise, Undone, NotUndone
<1>4. Keeps(p)
  BY StepForm, FailForm
<1> QED
  BY <1>2, <1>3, <1>4

\* The actions that are such steps.
Works(p) ==
    \E step : \/ At(p, "do", step) /\ (Done(p, step) \/ Raise(p, step))
              \/ At(p, "undo", step) /\ (Undone(p, step) \/ NotUndone(p))

\* All but the reads before the try block and the ends of a command are.
LEMMA StepWorks ==
    ASSUME NEW p \in Procs, Step(p)
    PROVE  \/ ReadOriginals(p) \/ Refuse(p) \/ Finish(p) \/ FinishFails(p) \/ FinishUndo(p)
           \/ Works(p)
<1>1. ASSUME NEW step, NEW may, NEW d, Write(p, step, may, d) PROVE Works(p)
  BY <1>1 DEF Write, Works
<1>2. ASSUME NEW step, NEW d, Undo(p, step, d) PROVE Works(p)
  BY <1>2 DEF Undo, Works
<1>3. ASSUME NEW step, NEW would, Check(p, step, would) PROVE Works(p)
  BY <1>3 DEF Check, Works
<1>4. CASE \/ WriteZoneFile(p) \/ WriteDeclaration(p) \/ AddInclude(p) \/ WriteGroups(p)
  BY <1>1, <1>4, Zenon DEF WriteZoneFile, WriteDeclaration, AddInclude, WriteGroups
<1>5. CASE \/ MakeDirectory(p) \/ WriteArchive(p) \/ DropDeclaration(p) \/ RemoveInclude(p)
  BY <1>1, <1>5, Zenon DEF MakeDirectory, WriteArchive, DropDeclaration, RemoveInclude
<1>6. CASE WritePackage(p) \/ DropZoneFile(p) \/ ConsumeArchive(p)
  BY <1>1, <1>6, Zenon DEF WritePackage, DropZoneFile, ConsumeArchive
<1>7. CASE Stage(p) \/ WriteRescue(p) \/ DropStaged(p) \/ DropRescue(p)
  BY <1>1, <1>7, Zenon DEF Stage, WriteRescue, DropStaged, DropRescue
<1>8. CASE NotePurge(p) \/ FileStepFails(p)
  BY <1>8 DEF NotePurge, FileStepFails, Works
<1>9. CASE CheckZone(p) \/ CheckConf(p) \/ VerifyLoaded(p)
  BY <1>3, <1>9, Zenon DEF CheckZone, CheckConf, VerifyLoaded
<1>10. CASE Activate(p) \/ VerifyUnavailable(p) \/ Reactivate(p)
  BY <1>10 DEF Activate, VerifyUnavailable, Reactivate, Works
<1>11. CASE \/ RestoreIndex(p) \/ RestoreGroups(p) \/ RemoveZoneFile(p)
            \/ RemoveDeclaration(p) \/ RewriteDeclaration(p)
  BY <1>2, <1>11, Zenon DEF RestoreIndex, RestoreGroups, RemoveZoneFile, RemoveDeclaration,
     RewriteDeclaration
<1>12. CASE \/ RemoveArchive(p) \/ RewriteZoneFile(p) \/ RewriteArchive(p)
            \/ RemovePackage(p) \/ Unstage(p)
  BY <1>2, <1>12, Zenon DEF RemoveArchive, RewriteZoneFile, RewriteArchive, RemovePackage, Unstage
<1> QED
  BY <1>4, <1>5, <1>6, <1>7, <1>8, <1>9, <1>10, <1>11, <1>12 DEF Step

\* A step leaves the states, or moves one zone along an edge.
OneMove(p) ==
    \/ \A z \in Zones : View(p, z)' = View(p, z)
    \/ \E y \in Zones : /\ <<View(p, y), View(p, y)'>> \in Lifecycle!Edges
                        /\ \A z \in Zones \ {y} : View(p, z)' = View(p, z)

\* The end of a command.
LEMMA EndMoves ==
    ASSUME SoloInv, NEW p \in Procs, phase[p] \in {"do", "undo"}, phase'[p] = "idle",
           UNCHANGED disk, Edge(tx[p].was, disk, tx[p].zone)
    PROVE  OneMove(p)
<1>1. \A z \in Zones : View(p, z) = DiskState(tx[p].was, z) /\ View(p, z)' = DiskState(disk, z)
  BY DEF View
<1>2. tx[p].zone \in Zones
  BY Doing, Undoing
<1> QED
  BY <1>1, <1>2 DEF Edge, OneMove

\* A step of a command under way.
LEMMA WorksMoves ==
    ASSUME SoloInv, NEW p \in Procs, Works(p)
    PROVE  OneMove(p)
<1>1. phase[p] \in {"do", "undo"} /\ phase'[p] \in {"do", "undo"} /\ Keeps(p)
  BY WorkForm DEF Works, SoloInv, ZoneInv
<1> QED
  BY <1>1 DEF View, OneMove, Keeps

\* Any step.
LEMMA StepMoves ==
    ASSUME SoloInv, ~damaged, NEW p \in Procs, Plan(p) \/ Step(p)
    PROVE  OneMove(p)
<1>0. TypeOK /\ phase \in [Procs -> {"idle", "planned", "do", "undo"}]
  BY DEF SoloInv, ZoneInv, TypeOK
<1>1. CASE Plan(p)
  <2>1. phase[p] = "idle" /\ phase'[p] = "planned" /\ UNCHANGED disk
    BY <1>0, <1>1 DEF Plan, CreateCommand, CreateZoneWizard, DisableCommand, RestoreCommand,
       QuarantineCommand, QuarantineRestoreCommand, QuarantinePurgeCommand, Begin
  <2> QED
    BY <2>1 DEF View, OneMove
<1>2. CASE ReadOriginals(p)
  <2>1. phase[p] = "planned" /\ phase'[p] = "do" /\ tx'[p].was = disk
    BY <1>0, <1>2, ReadForm DEF ReadOriginals
  <2> QED
    BY <2>1 DEF View, OneMove
<1>3. CASE Refuse(p)
  <2>1. phase[p] = "planned" /\ phase'[p] = "idle" /\ UNCHANGED disk
    BY <1>0, <1>3 DEF Refuse, End
  <2> QED
    BY <2>1 DEF View, OneMove
<1>4. CASE Finish(p) \/ FinishFails(p)
  <2>1. At(p, "do", "finish") /\ phase[p] = "do"
    BY <1>4 DEF Finish, FinishFails, At
  <2>2. \/ phase'[p] = "idle" /\ UNCHANGED disk
        \/ Raise(p, "finish")
    BY <1>0, <1>4 DEF Finish, FinishFails, End
  <2>3. Follows(disk, tx[p], tx[p].done)
    BY <2>1, Doing
  <2>4. Edge(tx[p].was, disk, tx[p].zone)
    BY <2>1, <2>3, CommitMoves, PurgeMoves
  <2>5. CASE phase'[p] = "idle" /\ UNCHANGED disk
    BY <2>1, <2>4, <2>5, EndMoves
  <2>6. CASE Raise(p, "finish")
    BY <2>1, <2>6, WorksMoves DEF Works
  <2> QED
    BY <2>2, <2>5, <2>6
<1>5. CASE FinishUndo(p)
  <2>1. phase[p] = "undo" /\ todo[p] = {} /\ phase'[p] = "idle" /\ UNCHANGED disk
    BY <1>0, <1>5 DEF FinishUndo, End
  <2>2. Edge(tx[p].was, disk, tx[p].zone)
    BY <2>1, RollMoves
  <2> QED
    BY <2>1, <2>2, EndMoves
<1>6. CASE Works(p)
  BY <1>6, WorksMoves
<1> QED
  BY <1>1, <1>2, <1>3, <1>4, <1>5, <1>6, StepWorks

\* The zones are in one of the four states at first.
LEMMA InitLifecycle == Solo /\ Init => Lifecycle!Init
<1> SUFFICES ASSUME Solo, Init PROVE Lifecycle!Init
  OBVIOUS
<1>1. SoloInv /\ damaged = FALSE /\ \A p \in Procs : phase[p] = "idle"
  BY InitSolo DEF Init
<1>2. Good(disk)
  BY InitGood
<1>3. \A z \in Zones : StateOf(z) = DiskState(disk, z)
  BY <1>1 DEF StateOf
<1>4. \A z \in Zones : StateOf(z) \in {"absent", "active", "disabled", "quarantined"}
  BY <1>2, <1>3, States DEF Good
<1> QED
  BY <1>1, <1>4 DEF Lifecycle!Init

\* Every step of the commands is one of the lifecycle, or none.
LEMMA StepLifecycle ==
    ASSUME Solo, SoloInv, SoloInv', [Next]_vars,
           (Solo /\ SoloInv /\ ~damaged => \A p \in Procs : \A z \in Zones : StateOf(z) = View(p, z))'
    PROVE  [Lifecycle!Next]_<<[z \in Zones |-> StateOf(z)], damaged>>
<1>1. damaged \in BOOLEAN /\ damaged' \in BOOLEAN
  BY DEF SoloInv, ZoneInv, TypeOK
<1>2. CASE damaged'
  BY <1>2 DEF Lifecycle!Next
<1>3. CASE UNCHANGED vars
  <2>1. \A z \in Zones : StateOf(z)' = StateOf(z)
    BY <1>3 DEF vars, StateOf, Zone
  <2> QED
    BY <1>3, <2>1 DEF vars
<1>4. CASE ~damaged' /\ Next
  <2>1. PICK p \in Procs : \/ (Plan(p) \/ Step(p)) /\ UNCHANGED damaged
                           \/ UndoFails(p) \/ Crash(p)
    BY <1>4 DEF Next
  <2>2. ~damaged
    BY <1>1, <1>4, <2>1 DEF UndoFails, Crash
  <2>3. OneMove(p)
    <3>1. CASE Plan(p) \/ Step(p)
      BY <2>2, <3>1, StepMoves
    <3>2. CASE UndoFails(p)
      <4>1. Works(p)
        BY <3>2 DEF UndoFails, Works
      <4> QED
        BY <4>1, WorksMoves
    <3> QED
      BY <1>4, <2>1, <3>1, <3>2 DEF Crash
  <2>4. \A z \in Zones : StateOf(z) = View(p, z) /\ StateOf(z)' = View(p, z)'
    BY <1>4, <2>2, Views
  <2>5. CASE \A z \in Zones : View(p, z)' = View(p, z)
    <3>1. \A z \in Zones : StateOf(z)' = StateOf(z)
      BY <2>4, <2>5
    <3> QED
      BY <1>1, <1>4, <2>2, <3>1
  <2>6. ASSUME NEW y \in Zones, <<View(p, y), View(p, y)'>> \in Lifecycle!Edges,
               \A z \in Zones \ {y} : View(p, z)' = View(p, z)
        PROVE  Lifecycle!Next
    <3>1. <<StateOf(y), StateOf(y)'>> \in Lifecycle!Edges
      BY <2>4, <2>6
    <3>2. \A z \in Zones \ {y} : StateOf(z)' = StateOf(z)
      BY <2>4, <2>6
    <3>3. [z \in Zones |-> StateOf(z)]'
            = [[z \in Zones |-> StateOf(z)] EXCEPT ![y] = StateOf(y)']
      BY <3>2
    <3>4. Lifecycle!Move(y)
      <4> DEFINE e == <<StateOf(y), StateOf(y)'>>
      <4>1. e \in Lifecycle!Edges /\ StateOf(y) = e[1] /\ StateOf(y)' = e[2]
        BY <3>1
      <4> QED
        BY <3>3, <4>1 DEF Lifecycle!Move
    <3> QED
      BY <1>1, <1>4, <2>2, <3>4 DEF Lifecycle!Next
  <2> QED
    BY <2>3, <2>5, <2>6 DEF OneMove
<1> QED
  BY <1>2, <1>3, <1>4

\* While a command runs its zone is still what it was, and at its end it has
\* moved along one edge of the lifecycle or not at all.
THEOREM Refinement ==
    ASSUME Solo, "restore" \notin Unreported
    PROVE  Spec => KeepsLifecycle
<1>1. SoloInv /\ SoloInv' /\ [Next]_vars
      /\ (Solo /\ SoloInv /\ ~damaged => \A p \in Procs : \A z \in Zones : StateOf(z) = View(p, z))'
        => [Lifecycle!Next]_<<[z \in Zones |-> StateOf(z)], damaged>>
  BY StepLifecycle
<1>2. Init => Lifecycle!Init
  BY InitLifecycle
<1> QED
  BY <1>1, <1>2, Views, SoloInvariant, PTL DEF Spec, KeepsLifecycle, Lifecycle!Spec
=============================================================================
