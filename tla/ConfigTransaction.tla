-------------------------- MODULE ConfigTransaction --------------------------
(***************************************************************************)
(* The commands that rewrite named's configuration: the entries of an      *)
(* access list (bind_acl) or of a group of secondaries (bind_secondary),   *)
(* the groups a zone uses (bind_zone_secondary), the move of a zone's      *)
(* clause out of named.conf.local (managed_zone_migration) and of its data *)
(* into the managed directory (managed_zone_relocation).                   *)
(*                                                                         *)
(* Each plans from the whole configuration, compares the files it will     *)
(* write when it applies the plan, and writes, checks, activates or undoes *)
(* without any lock. A file is a partial function from what it defines to  *)
(* the definition; one zone stands for all.                                *)
(***************************************************************************)
EXTENDS Naturals, FiniteSets, Sequences, SequencesExt, Functions

CONSTANTS
    Procs,        \* processes that run a command
    Lists,        \* named access lists and groups
    Home,         \* Home[l]: the file that defines list l
    Entries,      \* Entries[l]: its entries at first, hosts and lists
    Uses,         \* groups the zone uses at first
    Hosts,        \* hosts an entry may be
    RemoteHosts,  \* those of them that are not the local host
    Admin,        \* lists that an allow-update of the options names
    Edits,        \* Edits[l]: the entries an operator may want for list l
    Faults,       \* what may go wrong: see FaultKinds
    MaxTx,        \* bound: commands of a behaviour
    MaxVersions,  \* bound: versions of the zone's data
    None          \* "no value"

\* command: a BIND command fails or times out;  io: a file operation raises;
\* crash: the process dies.
FaultKinds == {"command", "io", "crash"}

Files == Range(Home) \union {"local", "index", "decl"}

Items == Lists \union {"zone", "include"}

Kinds == {"acl", "group", "assign", "migrate", "relocate"}

\* What a command does beside replacing files.
Steps == {"dry-run", "preflight", "backup", "copy", "checkzone", "checkconf",
          "reconfig", "verify", "retire", "bring-back", "remove-copy", "read-back"}

Versions == 0..MaxVersions

\* The clause of a zone, and what a file may say of an item.
Definitions == [data : {"old", "new"}, uses : SUBSET Lists]

Values == {TRUE} \union Definitions \union SUBSET (Hosts \union Lists)

ASSUME NoneAssumption == \A items \in SUBSET Items : None \notin [items -> Values]

ASSUME ConfigAssumption ==
    /\ IsFiniteSet(Lists) /\ Lists \intersect (Hosts \union {"zone", "include"}) = {}
    /\ Home \in [Lists -> STRING \ ({"decl"} \union Steps)]
    /\ Edits \in [Lists -> SUBSET SUBSET (Hosts \union Lists)]
    /\ RemoteHosts \subseteq Hosts
    /\ Admin \subseteq Lists /\ Uses \subseteq Lists \ Admin
    /\ Entries \in [Lists -> SUBSET (Hosts \union Lists)]
    /\ Faults \subseteq FaultKinds
    /\ MaxTx \in Nat /\ MaxVersions \in Nat \ {0}

VARIABLES
    file,      \* file[f]: what the file defines, or None
    disk,      \* disk[path]: version of the zone's data there, 0 for no file
    loaded,    \* the configuration named runs
    tx,        \* tx[p]: the command of p, or None
    started,   \* commands started so far
    latest,    \* version of the zone's data last committed
    stale,     \* history: a command wrote after the rest of its plan changed
    crossed    \* history: two commands met in a file or in a reconfig

histories == <<stale, crossed>>
zonedata == <<disk, latest>>
vars == <<file, zonedata, loaded, tx, started, histories>>

(* Configurations **********************************************************)

\* The index is included from the start; the zone's own declaration is
\* included by the index.
Included(fs) ==
    {f \in Files : fs[f] # None /\ (f = "decl" => "include" \in DOMAIN fs["index"])}

Places(fs, item) == {f \in Included(fs) : item \in DOMAIN fs[f]}

\* What discovery collects, and what named loads.
Config(fs) ==
    [item \in {i \in Items : Places(fs, i) # {}} |->
        LET f == CHOOSE g \in Places(fs, item) : TRUE IN fs[f][item]]

\* Sets of lists with all that their entries name.
ClosedSets(c) == {ls \in SUBSET Lists : \A l \in ls : c[l] \intersect Lists \subseteq ls}

\* The lists the entries name, directly or through lists: those in every such set.
Under(c, entries) ==
    {l \in Lists : \A ls \in ClosedSets(c) : entries \intersect Lists \subseteq ls => l \in ls}

\* Everything the entries name, directly or through lists.
Closure(c, entries) == entries \union UNION {c[l] : l \in Under(c, entries)}

CheckConf(fs) ==
    /\ "include" \in DOMAIN fs["index"] => fs["decl"] # None
    /\ \A item \in Items : Cardinality(Places(fs, item)) <= 1
    /\ \A l \in Lists : l \notin Closure(Config(fs), Config(fs)[l])

ZoneUses(c) == IF "zone" \in DOMAIN c THEN c["zone"].uses ELSE {}

\* _has_remote_capable_entry, through the lists of the configuration c.
RemoteCapable(c, entries) == Closure(c, entries) \intersect RemoteHosts # {}

\* The list and all that name it, directly or not.
Affected(c, l) == {k \in Lists : l \in Closure(c, {k})}

\* mutant: only what names the list itself counts
High_DirectOnly(c, l, entries) ==
    /\ c[l] \ entries # {}
    /\ \/ l \in Admin
       \/ l \in ZoneUses(c) /\ ~RemoteCapable(c, entries)

\* The impact report: entries are removed from what administers, or nothing
\* but the local host is left in what somebody uses.
High(c, l, entries) ==
    /\ c[l] \ entries # {}
    /\ \/ Affected(c, l) \intersect Admin # {}
       \/ /\ Affected(c, l) \intersect ZoneUses(c) # {}
          /\ ~RemoteCapable(c, entries)

(* Plans *******************************************************************)

SetItem(fs, f, item, value) ==
    [fs EXCEPT ![f] = [i \in DOMAIN @ \union {item} |->
                          IF i = item THEN value ELSE @[i]]]

DropItem(fs, f, item) == [fs EXCEPT ![f] = Restrict(@, DOMAIN @ \ {item})]

NewTx(kind, files, new, script) ==
    [kind |-> kind, files |-> files, old |-> file, new |-> new,
     todo |-> script, undoing |-> FALSE, activated |-> FALSE, ok |-> TRUE,
     saved |-> 0]

\* What every command that commits also does.
Activation == <<"checkconf", "reconfig", "verify">>

\* The scripts of apply(): one file for a list, a group or the groups of a zone,
\* three for a migration, the data and a declaration for a relocation.
ListScript(f) == <<"preflight", f>> \o Activation

MigrateScript == <<"preflight", "decl", "local", "index">> \o Activation

RelocateScript ==
    <<"preflight", "backup", "copy", "checkzone", "decl">> \o Activation \o <<"retire">>

\* What an operator may make of a list in its editor, or on the command line.
\* An access list may name other lists, a group of secondaries has addresses.
AclEdits(l) == Edits[l] \ {Config(file)[l]}

GroupEdits(l) == (Edits[l] \intersect SUBSET Hosts) \ {Config(file)[l]}

\* Other entries for a list that its file can take: the candidate passes
\* named-checkconf and the impact is not HIGH, or the command is blocked before
\* it writes anything.
EntriesPlans(kind, l, edits) ==
    {NewTx(kind, {Home[l]}, SetItem(file, Home[l], l, entries), ListScript(Home[l])) :
        entries \in {e \in edits :
                       /\ ~High(Config(file), l, e)
                       /\ CheckConf(SetItem(file, Home[l], l, e))}}

AclPlans == UNION {EntriesPlans("acl", l, AclEdits(l)) : l \in Lists}

GroupPlans == UNION {EntriesPlans("group", l, GroupEdits(l)) : l \in Lists \ Admin}

ZoneFile == CHOOSE f \in Places(file, "zone") : TRUE

\* Other groups for the zone; HIGH when none is left.
AssignPlans ==
    IF Places(file, "zone") = {} THEN {}
    ELSE {NewTx("assign", {ZoneFile},
                SetItem(file, ZoneFile, "zone", [Config(file)["zone"] EXCEPT !.uses = uses]),
                ListScript(ZoneFile)) :
             uses \in {u \in SUBSET (Lists \ Admin) :
                          /\ u # ZoneUses(Config(file))
                          /\ ZoneUses(Config(file)) # {} => u # {}
                          /\ CheckConf(SetItem(file, ZoneFile, "zone",
                                         [Config(file)["zone"] EXCEPT !.uses = u]))}}

ZoneAt(f, data) == Places(file, "zone") = {f} /\ file[f]["zone"].data = data

\* The clause as it stands becomes a declaration of its own.
Declared(fs) ==
    SetItem(DropItem([fs EXCEPT !["decl"] = Restrict(fs["local"], {"zone"})],
                     "local", "zone"),
            "index", "include", TRUE)

MigratePlans ==
    IF /\ ZoneAt("local", "old")
       /\ file["decl"] = None
       /\ "include" \notin DOMAIN file["index"]
    THEN {NewTx("migrate", {"decl", "local", "index"}, Declared(file), MigrateScript)}
    ELSE {}

RelocatePlans ==
    IF ZoneAt("decl", "old") /\ disk["old"] # 0 /\ disk["new"] = 0
    THEN {NewTx("relocate", {"decl"},
                SetItem(file, "decl", "zone", [file["decl"]["zone"] EXCEPT !.data = "new"]),
                RelocateScript)}
    ELSE {}

(* The commands and their screens ******************************************)

Started(p, plans) ==
    /\ tx[p] = None
    /\ \E plan \in plans : tx' = [tx EXCEPT ![p] = plan]

\* The commands plan and apply at once; a relocation has no command.
AclApply(p) == Started(p, AclPlans)
SecondaryApply(p) == Started(p, GroupPlans)
ZoneSecondaryApply(p) == Started(p, AssignPlans)
ZoneMigrationApply(p) == Started(p, MigratePlans)

\* The screens show the plan, try it dry and ask before they apply it.
Shown(p, plans) ==
    Started(p, {[plan EXCEPT !.todo = <<"dry-run">> \o @] : plan \in plans})

EditAcl(p) == Shown(p, AclPlans)
EditSecondaryGroup(p) == Shown(p, GroupPlans)
ZoneSecondaryView(p) == Shown(p, AssignPlans)
ApplyZoneMigration(p) == Shown(p, MigratePlans)
ApplyZoneRelocation(p) == Shown(p, RelocatePlans)

\* F4 in the browser of lists and groups, and on a zone's migration screen: a
\* managed zone that still has its old path is relocated.
BindAccessView(p) == EditAcl(p) \/ EditSecondaryGroup(p)
ZoneMigrationView(p) == ApplyZoneMigration(p) \/ ApplyZoneRelocation(p)

Command(p) ==
    /\ started < MaxTx
    /\ started' = started + 1
    /\ \/ AclApply(p) \/ SecondaryApply(p) \/ ZoneSecondaryApply(p)
       \/ ZoneMigrationApply(p)
       \/ BindAccessView(p) \/ ZoneSecondaryView(p) \/ ZoneMigrationView(p)
    /\ UNCHANGED <<file, zonedata, loaded, histories>>

(* apply() *****************************************************************)

At(p, step) == tx[p] # None /\ tx[p].todo # <<>> /\ Head(tx[p].todo) = step

Passed(p) == tx' = [tx EXCEPT ![p].todo = Tail(@)]

\* The except blocks; named is told of the rollback only if it was told of the
\* change.
ListUndo(t, told) == SetToSeq(t.files) \o told \o <<"read-back">>

\* mutant: a migration puts the two files back and forgets its own
MigrateUndo_KeepsDeclaration(told) == <<"local", "index">> \o told

MigrateUndo(told) == <<"local", "index", "decl">> \o told

RelocateUndo(told) == <<"decl", "bring-back", "remove-copy">> \o told

UndoScript(t, told) ==
    CASE t.kind \in {"acl", "group", "assign"} -> ListUndo(t, told)
      [] t.kind = "migrate" -> MigrateUndo(told)
      [] t.kind = "relocate" -> RelocateUndo(told)

Undone(t) ==
    IF t.undoing THEN [t EXCEPT !.todo = <<>>, !.ok = FALSE]
    ELSE [t EXCEPT !.undoing = TRUE,
                   !.todo = UndoScript(t, IF t.activated THEN <<"reconfig">> ELSE <<>>)]

Failed(p) == tx' = [tx EXCEPT ![p] = Undone(@)]

\* The data a relocation finds in place is still there, its target is not.
Conflict(t) ==
    \/ \E f \in t.files : file[f] # t.old[f]
    \/ t.kind = "relocate" /\ (disk["old"] = 0 \/ disk["new"] # 0)

\* apply() without commit. The operator may leave at the result; a conflict ends
\* all but the assignment and the migration, which only show it.
DryRun(p) ==
    /\ At(p, "dry-run")
    /\ \/ tx' = [tx EXCEPT ![p] = None]
       \/ /\ Conflict(tx[p]) => tx[p].kind \in {"assign", "migrate"}
          /\ Passed(p)
    /\ UNCHANGED <<file, zonedata, loaded, started, histories>>

Preflight(p) ==
    /\ At(p, "preflight")
    /\ IF Conflict(tx[p]) THEN tx' = [tx EXCEPT ![p] = None] ELSE Passed(p)
    /\ UNCHANGED <<file, zonedata, loaded, started, histories>>

\* q has compared the files of its plan, and not ended.
Applies(q) ==
    tx[q] # None /\ (tx[q].todo # <<>> => Head(tx[q].todo) \notin {"dry-run", "preflight"})

Relocates(q) == Applies(q) /\ tx[q].kind = "relocate"

Holds(q, f) == Applies(q) /\ f \in tx[q].files

\* Files replaced, or, when the plan found none, removed.
Write(p) ==
    \E f \in Files :
       LET t == tx[p] IN
       /\ At(p, f)
       /\ file' = [file EXCEPT ![f] = IF t.undoing THEN t.old[f] ELSE t.new[f]]
       /\ stale' = (stale \/ \E g \in Files \ t.files : file[g] # t.old[g])
       /\ crossed' = (crossed \/ \E q \in Procs \ {p} : Holds(q, f))
       /\ Passed(p)
       /\ UNCHANGED <<zonedata, loaded, started>>

\* A command that has written and not ended.
Underway(q) == Applies(q) /\ \E f \in tx[q].files : file[f] # tx[q].old[f]

\* rndc reconfig. A failure may be a timeout of a command named obeys.
Reconfig(p) ==
    /\ At(p, "reconfig")
    /\ \/ /\ CheckConf(file)
          /\ loaded' = Config(file)
          /\ tx' = [tx EXCEPT ![p].todo = Tail(@), ![p].activated = TRUE]
       \/ /\ "command" \in Faults \/ ~CheckConf(file)
          /\ loaded' \in {loaded} \union (IF CheckConf(file) THEN {Config(file)} ELSE {})
          /\ tx' = [tx EXCEPT ![p] = Undone([@ EXCEPT !.activated = TRUE])]
    /\ crossed' = (crossed \/ \E q \in Procs \ {p} : Underway(q))
    /\ UNCHANGED <<file, zonedata, started, stale>>

\* named-checkconf and named-checkzone; the candidate, or what a rollback put
\* back, read again (acl, group, assign); what named says of the zone and its path
\* (migrate, relocate).
Confirmed(p) ==
    LET t == tx[p] IN
    CASE At(p, "checkconf") -> CheckConf(file)
      [] At(p, "checkzone") -> disk["new"] # 0
      [] At(p, "read-back") -> \A f \in t.files : file[f] = t.old[f]
      [] At(p, "verify") /\ t.kind \in {"acl", "group", "assign"} ->
            \A f \in t.files : file[f] = t.new[f]
      [] At(p, "verify") /\ t.kind = "migrate" -> "zone" \in DOMAIN loaded
      [] OTHER -> "zone" \in DOMAIN loaded /\ loaded["zone"].data = "new"

CheckSteps == {"checkconf", "checkzone", "verify", "read-back"}

\* A BIND command may also just fail, or time out.
Check(p) ==
    /\ \E step \in CheckSteps : At(p, step)
    /\ \/ Confirmed(p) /\ Passed(p)
       \/ (~Confirmed(p) \/ "command" \in Faults) /\ Failed(p)
    /\ UNCHANGED <<file, zonedata, loaded, started, histories>>

\* mutant: the old data is removed before anything is checked
DataStep_RetiresEarly(p, step) ==
    /\ At(p, step)
    /\ disk' = CASE step = "copy" -> [disk EXCEPT !["new"] = disk["old"], !["old"] = 0]
                 [] step = "retire" -> [disk EXCEPT !["old"] = 0]
                 [] step = "bring-back" -> disk
                 [] step = "remove-copy" -> [disk EXCEPT !["new"] = 0]

\* A relocation copies the data, and at its end removes the old copy; undone,
\* it copies the backup back if the old one is gone.
DataStep(p, step) ==
    /\ At(p, step)
    /\ disk' = CASE step = "copy" -> [disk EXCEPT !["new"] = disk["old"]]
                 [] step = "retire" -> [disk EXCEPT !["old"] = 0]
                 [] step = "bring-back" ->
                       IF disk["old"] = 0 THEN [disk EXCEPT !["old"] = tx[p].saved]
                       ELSE disk
                 [] step = "remove-copy" -> [disk EXCEPT !["new"] = 0]

Move(p) ==
    /\ \E step \in {"copy", "retire", "bring-back", "remove-copy"} : DataStep(p, step)
    /\ Passed(p)
    /\ crossed' = (crossed \/ \E q \in Procs \ {p} : Relocates(q))
    /\ UNCHANGED <<file, loaded, latest, started, stale>>

Backup(p) ==
    /\ At(p, "backup")
    /\ tx' = [tx EXCEPT ![p].todo = Tail(@), ![p].saved = disk["old"]]
    /\ UNCHANGED <<file, zonedata, loaded, started, histories>>

FileSteps == Files \union {"backup", "copy", "retire", "bring-back", "remove-copy"}

FileStepFails(p) ==
    /\ "io" \in Faults
    /\ \E step \in FileSteps : At(p, step)
    /\ Failed(p)
    /\ UNCHANGED <<file, zonedata, loaded, started, histories>>

\* COMMIT, ROLLED-BACK or ROLLBACK-FAILED.
Finish(p) ==
    /\ tx[p] # None /\ tx[p].todo = <<>>
    /\ tx' = [tx EXCEPT ![p] = None]
    /\ UNCHANGED <<file, zonedata, loaded, started, stale, crossed>>

Crash(p) ==
    /\ "crash" \in Faults
    /\ tx[p] # None
    /\ tx' = [tx EXCEPT ![p] = None]
    /\ UNCHANGED <<file, zonedata, loaded, started, stale, crossed>>

(* A transaction on the zone's data ****************************************)

\* apply of the transaction engine, in one step: it finds the path in the
\* configuration and replaces the file there, if there is one.
EditZone ==
    /\ latest < MaxVersions
    /\ \E f \in Places(file, "zone") :
          LET path == file[f]["zone"].data IN
          /\ disk[path] # 0
          /\ disk' = [disk EXCEPT ![path] = latest + 1]
          /\ latest' = latest + 1
    /\ crossed' = (crossed \/ \E p \in Procs : tx[p] # None /\ tx[p].saved # 0)
    /\ UNCHANGED <<file, loaded, tx, started, stale>>

\* The files as installed, with the zone's clause in named.conf.local.
Installed ==
    [f \in Files |->
        CASE f = "decl" -> None
          [] f = "local" -> [i \in {"zone"} \union {l \in Lists : Home[l] = f} |->
                               IF i = "zone" THEN [data |-> "old", uses |-> Uses]
                               ELSE Entries[i]]
          [] OTHER -> [l \in {l \in Lists : Home[l] = f} |-> Entries[l]]]

\* The clause may have been moved already.
Init ==
    /\ file \in {Installed, Declared(Installed)}
    /\ disk = [old |-> 1, new |-> 0]
    /\ loaded = Config(file)
    /\ tx = [p \in Procs |-> None]
    /\ started = 0
    /\ latest = 1
    /\ stale = FALSE /\ crossed = FALSE

Step(p) ==
    \/ DryRun(p) \/ Preflight(p) \/ Write(p) \/ Reconfig(p) \/ Check(p) \/ Move(p)
    \/ Backup(p) \/ FileStepFails(p) \/ Finish(p)

Next ==
    \/ \E p \in Procs : Command(p) \/ Step(p) \/ Crash(p)
    \/ EditZone

Spec == Init /\ [][Next]_vars

(* Properties **************************************************************)

\* What file f may hold: only the declaration may be missing, a list is defined
\* in its home, the clause of the zone in named.conf.local or the declaration.
Holdable(f, g) ==
    /\ g = None => f = "decl"
    /\ g # None =>
          /\ DOMAIN g \subseteq Items /\ g = [i \in DOMAIN g |-> g[i]]
          /\ \A l \in Lists : l \in DOMAIN g <=> Home[l] = f
          /\ \A l \in Lists \intersect DOMAIN g : g[l] \subseteq Hosts \union Lists
          /\ "include" \in DOMAIN g => f = "index" /\ g["include"] = TRUE
          /\ "zone" \in DOMAIN g => f \in {"local", "decl"} /\ g["zone"] \in Definitions
          /\ f = "local" /\ "zone" \in DOMAIN g => g["zone"].data = "old"
          /\ f = "decl" => "zone" \in DOMAIN g

WellFormed(fs) ==
    fs = [f \in Files |-> fs[f]] /\ \A f \in Files : Holdable(f, fs[f])

IsTx(t) ==
    /\ t \in [kind : Kinds, files : SUBSET Files, old : {t.old}, new : {t.new},
              todo : Seq(Files \union Steps), undoing : BOOLEAN, activated : BOOLEAN,
              ok : BOOLEAN, saved : Versions]
    /\ WellFormed(t.old) /\ WellFormed(t.new)

TypeOK ==
    /\ WellFormed(file)
    /\ disk \in [{"old", "new"} -> Versions]
    /\ DOMAIN loaded \subseteq Items
    /\ tx = [p \in Procs |-> tx[p]] /\ \A p \in Procs : tx[p] # None => IsTx(tx[p])
    /\ started \in 0..MaxTx
    /\ latest \in 1..MaxVersions
    /\ stale \in BOOLEAN /\ crossed \in BOOLEAN

\* A command that reports ROLLED-BACK leaves every file it plans to write as
\* its plan found it, whatever failed and whatever other commands did to other
\* files meanwhile (the except blocks of apply).
RolledBackRestores ==
    [][\A p \in Procs : Finish(p) /\ tx[p].undoing /\ tx[p].ok /\ ~crossed =>
          /\ \A f \in tx[p].files : file[f] = tx[p].old[f]
          /\ tx[p].kind = "relocate" => disk["new"] = 0 /\ disk["old"] = latest]_vars

KeepsAccess(before, after) ==
    /\ \A l \in ZoneUses(before) :
          RemoteCapable(before, {l}) => RemoteCapable(after, {l})
    /\ \A l \in Admin :
          Closure(before, {l}) \intersect Hosts \subseteq Closure(after, {l})

\* "Nie można usunąć ostatniego dostępu": no change to a list takes away the
\* last remote host of a list in use, or any host of one that administers,
\* also through lists that name it, as long as what the plan read outside its
\* own file still holds.
AccessKept ==
    [][\A p \in Procs : Write(p) /\ tx[p].kind \in {"acl", "group"} /\ ~tx[p].undoing
          /\ ~stale' /\ ~crossed' => KeepsAccess(Config(file), Config(file'))]_vars

\* The path in the zone's declaration leads to the data committed last, at
\* every moment, crashes included (the order of apply and of its rollback), unless a
\* zone transaction ran into a relocation, or the plan was overtaken.
DataSurvives ==
    ~crossed /\ ~stale => \A f \in Files :
        file[f] # None /\ "zone" \in DOMAIN file[f] => disk[file[f]["zone"].data] = latest
=============================================================================
