-------------------------- MODULE EditorAppProofs --------------------------
(***************************************************************************)
(* Theorems about EditorApp, for any zones, records, contents, faults and  *)
(* limits: sessions and locks follow the screens, saving costs no unsaved  *)
(* changes, and the list stops waiting only with states no older than the  *)
(* last refresh.                                                           *)
(***************************************************************************)
EXTENDS EditorApp, SequenceTheorems, WellFoundedInduction, TLAPS

(* The inductive invariant *************************************************)

Places == {"list", "domain", "records", "pending", "opening", "multi", "saving", "dead"}

\* The fields of the list, whatever they hold.
IsList(l) ==
    l \in [sort : {l.sort}, grouped : {l.grouped}, collapsed : {l.collapsed},
           query : {l.query}, marked : {l.marked}, changed : {l.changed},
           selected : {l.selected}, rows : {l.rows}]

\* A save_all that is validating or committing has zones to do.
IsSaving(s) == s \in [phase : {"validate", "commit"}, todo : (SUBSET Zones) \ {{}}]

\* What the screens and sessions are made of.
EditTypes ==
    /\ file \in [Zones -> (SUBSET Records) \cup {Gone}]
    /\ lock \in [Zones -> {"free", "app", "other"}]
    /\ session \in [Zones -> Sessions \cup {None}]
    /\ view \in [at : Places, zone : Zones \cup {None}, multi : BOOLEAN]
    /\ IsList(list) /\ list.marked \subseteq Zones
    /\ left \in [Kinds -> Nat]
    /\ At("saving") => IsSaving(saving)

\* What the refresh is made of.
RefreshTypes ==
    /\ version \in [Zones -> Nat]
    /\ asked \in [Zones -> Nat]
    /\ statuses \in [Zones -> Statuses \cup {None}]
    /\ worker \in [alive : BOOLEAN, left : SUBSET Zones, read : [Zones -> Statuses \cup {None}]]
    /\ messages \in Seq(Zones \X Statuses)
    /\ indicator \in BOOLEAN
    /\ loop \in {"take", "alive", "empty", "key"}

\* The screens know whether one zone is edited or several are, and a screen of a
\* session is shown with its session open.
ScreenInv ==
    /\ LocksFollowScreens
    /\ view.at \in {"list", "domain", "dead"} => ~view.multi
    /\ view.at \in {"opening", "multi", "saving"} => view.multi
    /\ view.at \in {"multi", "saving"} \/ (view.at \in {"records", "pending"} /\ view.multi) =>
         \A z \in list.marked : session[z] # None
    /\ view.at \in {"records", "pending"} => view.zone \in Zones /\ session[view.zone] # None
    /\ At("saving") => \A z \in saving.todo : session[z] # None
    /\ At("saving") /\ saving.phase = "validate" => saving.todo \subseteq DirtyZones

EditInv == EditTypes /\ ScreenInv

\* A state no older than n.
Recent(s, n) == s # None /\ s.version >= n

\* With the messages ms to come, the state of z that is shown in the end is no older
\* than n: it is the one shown now (i = 0) or a message, and so is every later message.
Arriving(ms, shown, z, n) ==
    \E i \in 0 .. Len(ms) :
        /\ i = 0 => Recent(shown, n)
        /\ i > 0 => ms[i][1] = z /\ Recent(ms[i][2], n)
        /\ \A j \in 1 .. Len(ms) : j > i /\ ms[j][1] = z => Recent(ms[j][2], n)

Arrives(z) == Arriving(messages, statuses[z], z, asked[z])

\* The thread is ahead of what it still has to read, and the list waits for what
\* it has not shown.
RefreshInv ==
    /\ \A z \in Zones : asked[z] <= version[z]
    /\ ~indicator => ~worker.alive /\ messages = <<>>
    /\ loop = "empty" => ~worker.alive
    /\ loop # "take" => At("list")
    /\ worker.alive => \A z \in Zones : worker.read[z] # None => Recent(worker.read[z], asked[z])
    /\ ~At("dead") => \A z \in Zones : (worker.alive /\ z \in worker.left) \/ Arrives(z)

\* The step that EditsKept allows.
KeepsEdits ==
    Saves => \A z \in DirtyZones :
       \/ session'[z] # None /\ session'[z].entries = session[z].entries
       \/ file'[z] = Current(z)
       \/ z \in lied'
       \/ view.multi /\ view'.at = "dead"

(* The order of the zones **************************************************)

\* A set of numbers has a least one.
LEMMA LeastNumber ==
    ASSUME NEW T \in SUBSET Nat, T # {}
    PROVE  \E m \in T : \A k \in T : m <= k
<1> DEFINE R == OpToRel(<, Nat)
<1>1. IsWellFoundedOn(R, Nat)
  BY NatLessThanWellFounded
<1>2. \A k, m \in Nat : k < m => <<k, m>> \in R
  BY DEF OpToRel
<1> HIDE DEF R
<1>3. PICK m \in T : \A k \in T : <<k, m>> \notin R
  BY <1>1, WFMin
<1>4. \A k \in T : ~(k < m)
  BY <1>2, <1>3
<1> QED
  BY <1>4

\* The first of some zones is one of them (open_zone_names, dirty_zone_names).
LEMMA FirstOf ==
    ASSUME NEW S \in SUBSET Zones, S # {}
    PROVE  First(S) \in S
<1>1. Order \in Seq(Zones) /\ Zones = {Order[i] : i \in 1 .. Len(Order)}
  BY EditorAssumption DEF Zones, ToSet
<1> DEFINE T == {i \in 1 .. Len(Order) : Order[i] \in S}
<1>2. T \in SUBSET Nat /\ T # {}
  BY SMTT(60), <1>1
<1>3. PICK m \in T : \A k \in T : m <= k
  BY <1>2, LeastNumber
<1>4. DOMAIN Order = 1 .. Len(Order) /\ Len(Order) \in Nat
  BY <1>1
<1>5. Order[m] \in S /\ \A j \in 1 .. (m - 1) : Order[j] \notin S
  BY <1>3, <1>4
<1> QED
  BY <1>3, <1>4, <1>5 DEF First

(* Sessions ****************************************************************)

\* A zone as it is read is a session without changes.
LEMMA LoadTyped ==
    ASSUME NEW recs \in SUBSET Records
    PROVE  Load(recs) \in Sessions /\ Load(recs) # None
<1>1. {<<r, r>> : r \in recs} \in SUBSET Entries
  BY DEF Entries
<1>2. <<>> \in Seq(SUBSET Entries)
  OBVIOUS
<1>3. Load(recs) \in Sessions
  BY <1>1, <1>2 DEF Load, Sessions
<1> QED
  BY <1>3, EditorAssumption

\* The records of an open session are records.
LEMMA SessionFacts ==
    ASSUME EditTypes, NEW z \in Zones, session[z] # None
    PROVE  /\ session[z] \in Sessions
           /\ session[z].entries \in SUBSET Entries
           /\ session[z].undo \in Seq(SUBSET Entries)
           /\ Present(z) \in SUBSET Entries /\ Present(z) \subseteq session[z].entries
           /\ Current(z) \in SUBSET Records
           /\ Fresh(z) \subseteq Records
<1>1. session[z] \in Sessions
  BY DEF EditTypes
<1>2. session[z].entries \in SUBSET Entries /\ session[z].undo \in Seq(SUBSET Entries)
  BY <1>1 DEF Sessions
<1>3. Current(z) \in SUBSET Records
  BY <1>2 DEF Current, Entries
<1> QED
  BY <1>1, <1>2, <1>3 DEF Present, Fresh

\* A deletion leaves pairs of records.
LEMMA RemovedTyped ==
    ASSUME NEW es \in SUBSET Entries, NEW gone \in SUBSET Entries
    PROVE  Removed(es, gone) \in SUBSET Entries
BY DEF Removed, Entries

\* Every change of the records is an edit to other pairs of records.
LEMMA ChangesAreEdits ==
    ASSUME EditTypes, NEW z \in Zones, session[z] # None,
           AddRecord(z) \/ ReplaceRecord(z) \/ DeleteRecord(z) \/ BulkDelete(z) \/ BulkSet(z)
    PROVE  \E es \in SUBSET Entries : Edit(z, es)
<1>1. /\ session[z].entries \in SUBSET Entries
      /\ Present(z) \in SUBSET Entries /\ Fresh(z) \subseteq Records
  BY SessionFacts
<1>2. CASE AddRecord(z)
  <2>1. PICK r \in Built(z) : Edit(z, session[z].entries \cup {<<None, r>>})
    BY <1>2 DEF AddRecord, CreateRecordDialog, ApprovedEdit
  <2>2. <<None, r>> \in Entries
    BY <1>1 DEF Built, Entries
  <2> QED
    BY <1>1, <2>1, <2>2
<1>3. CASE ReplaceRecord(z)
  <2>0. PICK e \in Present(z) : \E r \in EditRecordDialog(z, e[2]) :
           Edit(z, (session[z].entries \ {e}) \cup {<<e[1], r>>})
    BY <1>3 DEF ReplaceRecord, ApprovedEdit
  <2>1. PICK r \in EditRecordDialog(z, e[2]) :
           Edit(z, (session[z].entries \ {e}) \cup {<<e[1], r>>})
    BY <2>0
  <2>2. e \in Entries /\ r \in Records
    BY <1>1 DEF EditRecordDialog, EditSoaDialog, Built
  <2>3. <<e[1], r>> \in Entries
    BY <2>2 DEF Entries
  <2> QED
    BY <1>1, <2>1, <2>3
<1>4. CASE DeleteRecord(z) \/ BulkDelete(z)
  <2>1. PICK gone \in SUBSET Present(z) : Edit(z, Removed(session[z].entries, gone))
    BY <1>4 DEF DeleteRecord, BulkDelete, ApprovedEdit
  <2> QED
    BY <1>1, <2>1, RemovedTyped
<1>5. CASE BulkSet(z)
  <2>1. PICK match \in SUBSET Present(z), target \in Owners :
           LET to == [e \in match |-> <<e[1], [e[2] EXCEPT !.target = target]>>]
               new == {to[e] : e \in match}
           IN /\ \A e \in match : to[e] = e \/ to[e][2] \in Fresh(z) \ Malformed
              /\ Edit(z, (session[z].entries \ match) \cup new)
    BY <1>5 DEF BulkSet, ApprovedEdit
  <2> DEFINE to == [e \in match |-> <<e[1], [e[2] EXCEPT !.target = target]>>]
             new == {to[e] : e \in match}
  <2>2. ASSUME NEW e \in match PROVE to[e] \in Entries
    <3>1. e \in Entries /\ to[e] = <<e[1], [e[2] EXCEPT !.target = target]>>
      BY <1>1
    <3>2. to[e] = e \/ to[e][2] \in Records
      BY <1>1, <2>1
    <3> QED
      BY <3>1, <3>2 DEF Entries
  <2>3. new \in SUBSET Entries
    BY <2>2
  <2>4. Edit(z, (session[z].entries \ match) \cup new)
    BY <2>1
  <2> HIDE DEF new
  <2> QED
    BY <1>1, <2>3, <2>4
<1> QED
  BY <1>2, <1>3, <1>4, <1>5

(* Types through a step ****************************************************)

\* An edit.
LEMMA EditTyped ==
    ASSUME EditTypes, NEW z \in Zones, session[z] # None,
           NEW es \in SUBSET Entries, Edit(z, es)
    PROVE  /\ EditTypes'
           /\ left'.save = left.save
           /\ \A y \in Zones : (session'[y] # None) <=> (session[y] # None)
           /\ UNCHANGED <<file, lock, saving, view, list, lied>>
<1>1. /\ session[z].entries \in SUBSET Entries /\ session[z].undo \in Seq(SUBSET Entries)
  BY SessionFacts
<1> DEFINE s == [entries |-> es, undo |-> Append(session[z].undo, session[z].entries)]
<1>2. s \in Sessions /\ s # None
  <2>1. s \in Sessions
    BY <1>1 DEF Sessions
  <2> QED
    BY <2>1, EditorAssumption
<1>3. session' = [session EXCEPT ![z] = s]
  BY DEF Edit
<1>4. /\ left \in [Kinds -> Nat] /\ session \in [Zones -> Sessions \cup {None}]
      /\ left["edit"] > 0 /\ left["all"] > 0
      /\ left' = [left EXCEPT !["edit"] = @ - 1, !["all"] = @ - 1]
  BY DEF EditTypes, Edit, Spend, May
<1>5. left' \in [Kinds -> Nat] /\ left'.save = left.save
  BY <1>4 DEF Kinds
<1>6. UNCHANGED <<file, lock, saving, view, list, lied>>
  BY DEF Edit, disk, screen
<1> HIDE DEF s
<1>7. /\ session' \in [Zones -> Sessions \cup {None}]
      /\ \A y \in Zones : (session'[y] # None) <=> (session[y] # None)
  BY <1>2, <1>3, <1>4
<1> QED
  BY <1>5, <1>6, <1>7 DEF EditTypes, At

\* Spending one of the limits.
LEMMA SpendTyped ==
    ASSUME left \in [Kinds -> Nat], NEW kind \in Kinds \ {"all"}, Spend(kind)
    PROVE  /\ left' \in [Kinds -> Nat]
           /\ kind = "save" => left'.save # left.save
           /\ kind # "save" => left'.save = left.save
<1>1. left[kind] > 0 /\ left["all"] > 0
      /\ left' = [left EXCEPT ![kind] = @ - 1, !["all"] = @ - 1]
  BY DEF Spend, May
<1> QED
  BY <1>1 DEF Kinds

\* What the end of an apply() does to the file of the zone, and says of it.
LEMMA ApplyTyped ==
    ASSUME EditTypes, RefreshTypes, NEW z \in Zones, session[z] # None,
           NEW out, Apply(z, out)
    PROVE  /\ file' \in [Zones -> (SUBSET Records) \cup {Gone}]
           /\ version' \in [Zones -> Nat]
           /\ \A y \in Zones : version[y] <= version'[y]
           /\ Reloads(out) \/ out = "NO-CHANGE" =>
                /\ file'[z] \in SUBSET Records
                /\ file'[z] = Current(z) \/ z \in lied'
<1>1. /\ file \in [Zones -> (SUBSET Records) \cup {Gone}] /\ version \in [Zones -> Nat]
      /\ Current(z) \in SUBSET Records
  BY SessionFacts DEF EditTypes, RefreshTypes
<1>2. CASE out \in {"COMMIT", "ROLLBACK-FAILED"}
  <2>1. /\ file' = [file EXCEPT ![z] = Current(z)]
        /\ version' = [version EXCEPT ![z] = @ + 1]
    BY <1>2 DEF Apply
  <2>2. \A y \in Zones : version[y] \in Nat /\ version[y] <= version'[y] /\ version'[y] \in Nat
    BY <1>1, <2>1
  <2>3. version' \in [Zones -> Nat] /\ file'[z] = Current(z)
    BY <1>1, <2>1
  <2>4. file' \in [Zones -> (SUBSET Records) \cup {Gone}]
    BY <1>1, <2>1
  <2> QED
    BY <1>1, <2>2, <2>3, <2>4
<1>3. CASE out \notin {"COMMIT", "ROLLBACK-FAILED"}
  <2>1. UNCHANGED <<file, version>> /\ out \in Outcomes(z)
    BY <1>3 DEF Apply, disk
  <2>2. out = "NO-CHANGE" => file[z] = Current(z)
    BY <2>1 DEF Outcomes
  <2>3. out = "FALSE-COMMIT" => file[z] # Gone /\ z \in lied'
    BY <2>1 DEF Outcomes, Apply
  <2>4. \A y \in Zones : version[y] \in Nat
    BY <1>1
  <2> QED
    BY <1>1, <1>3, <2>1, <2>2, <2>3, <2>4 DEF Reloads, Committed
<1> QED
  BY <1>2, <1>3

(* The list ****************************************************************)

\* New rows leave the marks alone.
LEMMA RebuiltKeeps ==
    ASSUME NEW l, IsList(l), NEW keep
    PROVE  IsList(Rebuilt(l, keep)) /\ Rebuilt(l, keep).marked = l.marked
<1> DEFINE rows == Rows(l)
<1>1. \E s : Rebuilt(l, keep) = [l EXCEPT !.rows = rows, !.selected = s]
  BY DEF Rebuilt
<1> HIDE DEF rows
<1> QED
  BY <1>1 DEF IsList

\* So does the order that results bring.
LEMMA RedrawnKeeps ==
    ASSUME IsList(list)
    PROVE  IsList(Redrawn) /\ Redrawn.marked = list.marked
<1>1. PICK l : /\ IsList(l) /\ l.marked = list.marked
               /\ Redrawn = [l EXCEPT !.changed = FALSE]
  BY RebuiltKeeps DEF Redrawn
<1> QED
  BY <1>1 DEF IsList

(* Screens *****************************************************************)

\* A step that leaves the sessions, their locks, the marks and the screen alone.
LEMMA ScreensStay ==
    ASSUME EditInv, UNCHANGED <<lock, session, saving, view>>, list'.marked = list.marked
    PROVE  ScreenInv'
BY DEF EditInv, ScreenInv, LocksFollowScreens, At, DirtyZones, Dirty

\* A step that leaves the same sessions open on the same screen, or goes from the
\* records to the pending changes or back.
LEMMA SessionsStay ==
    ASSUME EditInv, ~At("saving"), UNCHANGED <<lock, list>>,
           \A z \in Zones : (session'[z] # None) <=> (session[z] # None),
           \/ view' = view
           \/ /\ view.at \in {"records", "pending"} /\ view'.at \in {"records", "pending"}
              /\ view'.zone = view.zone /\ view'.multi = view.multi
    PROVE  ScreenInv'
<1>1. ~At("saving")'
  BY DEF At
<1> QED
  BY <1>1 DEF EditInv, EditTypes, ScreenInv, LocksFollowScreens, At

\* All sessions are closed and the screen has none.
LEMMA AllClosed ==
    ASSUME EditInv, CloseAll, list' = list,
           view'.at \in {"list", "domain", "dead"}, ~view'.multi
    PROVE  ScreenInv' /\ session' \in [Zones -> Sessions \cup {None}]
           /\ lock' \in [Zones -> {"free", "app", "other"}]
<1>1. /\ session' = [z \in Zones |-> None]
      /\ lock' = [z \in Zones |-> IF lock[z] = "app" THEN "free" ELSE lock[z]]
      /\ lock \in [Zones -> {"free", "app", "other"}]
  BY DEF CloseAll, EditInv, EditTypes
<1>2. /\ session' \in [Zones -> Sessions \cup {None}]
      /\ lock' \in [Zones -> {"free", "app", "other"}]
      /\ \A z \in Zones : session'[z] = None /\ lock'[z] # "app"
  BY <1>1
<1>3. ~At("saving")' /\ ~At("multi")'
  BY DEF At
<1> QED
  BY <1>2, <1>3 DEF ScreenInv, LocksFollowScreens

\* What is shown, as a record.
LEMMA Shows ==
    ASSUME NEW at \in Places, NEW z \in Zones \cup {None}, NEW multi \in BOOLEAN,
           Show(at, z, multi)
    PROVE  /\ view' \in [at : Places, zone : Zones \cup {None}, multi : BOOLEAN]
           /\ view'.at = at /\ view'.zone = z /\ view'.multi = multi
BY DEF Show

\* The end of the program.
LEMMA DeadKeeps ==
    ASSUME EditInv, Dies, UNCHANGED <<file, list, left>>
    PROVE  EditInv' /\ view'.at = "dead"
<1>1. /\ view' \in [at : Places, zone : Zones \cup {None}, multi : BOOLEAN]
      /\ view'.at = "dead" /\ ~view'.multi
  BY Shows DEF Dies, Places
<1>2. ScreenInv' /\ session' \in [Zones -> Sessions \cup {None}]
      /\ lock' \in [Zones -> {"free", "app", "other"}]
  BY <1>1, AllClosed DEF Dies
<1> QED
  BY <1>1, <1>2 DEF EditInv, EditTypes, At

(* The keys of one zone ****************************************************)

\* A session with changes is open.
LEMMA DirtyIsOpen == \A z \in DirtyZones : z \in Zones /\ session[z] # None
BY DEF DirtyZones, Dirty

\* The keys that change records.
LEMMA EditKeeps ==
    ASSUME EditInv, NEW z \in Zones, At("records"), view.zone = z,
           AddRecord(z) \/ ReplaceRecord(z) \/ DeleteRecord(z) \/ BulkDelete(z) \/ BulkSet(z)
    PROVE  EditInv' /\ KeepsEdits
<1>1. session[z] # None
  BY DEF EditInv, ScreenInv, At
<1>2. PICK es \in SUBSET Entries : Edit(z, es)
  BY <1>1, ChangesAreEdits DEF EditInv
<1>3. /\ EditTypes' /\ left'.save = left.save
      /\ \A y \in Zones : (session'[y] # None) <=> (session[y] # None)
      /\ UNCHANGED <<file, lock, saving, view, list, lied>>
  BY <1>1, <1>2, EditTyped DEF EditInv
<1>4. ScreenInv'
  BY <1>3, SessionsStay DEF At
<1> QED
  BY <1>3, <1>4 DEF EditInv, KeepsEdits, Saves, At

\* F2, in the records and in the pending changes.
LEMMA SaveKeeps ==
    ASSUME EditInv, RefreshTypes, NEW z \in Zones, view.zone = z,
           SaveRecords(z) \/ SavePending(z)
    PROVE  EditInv' /\ KeepsEdits
<1>1. /\ view.at \in {"records", "pending"} /\ session[z] # None
      /\ UNCHANGED <<lock, saving, list>> /\ Spend("save")
      /\ file \in [Zones -> (SUBSET Records) \cup {Gone}]
      /\ session \in [Zones -> Sessions \cup {None}]
      /\ left \in [Kinds -> Nat]
  BY DEF SaveRecords, SavePending, At, Dirty, screen, EditInv, EditTypes
<1>2. left' \in [Kinds -> Nat]
  BY <1>1, SpendTyped DEF Kinds
<1>3. /\ view'.at \in {"records", "pending"} /\ view'.zone = z /\ view'.multi = view.multi
      /\ view' \in [at : Places, zone : Zones \cup {None}, multi : BOOLEAN]
  <2>1. view' = view \/ Show("records", z, view.multi)
    BY DEF SaveRecords, SavePending
  <2> QED
    BY <1>1, <2>1, Shows DEF EditInv, EditTypes, Places
<1>4. /\ file' \in [Zones -> (SUBSET Records) \cup {Gone}]
      /\ \/ session' = session
         \/ /\ session' = [session EXCEPT ![z] = Load(file'[z])]
            /\ file'[z] \in SUBSET Records
            /\ file'[z] = Current(z) \/ z \in lied'
  <2>1. CASE UNCHANGED <<disk, lied, session>>
    BY <1>1, <2>1 DEF disk
  <2>2. ASSUME NEW out \in Outcomes(z), Apply(z, out),
               session' = IF Reloads(out) \/ out = "NO-CHANGE"
                          THEN [session EXCEPT ![z] = Load(file'[z])] ELSE session
        PROVE  /\ file' \in [Zones -> (SUBSET Records) \cup {Gone}]
               /\ \/ session' = session
                  \/ /\ session' = [session EXCEPT ![z] = Load(file'[z])]
                     /\ file'[z] \in SUBSET Records
                     /\ file'[z] = Current(z) \/ z \in lied'
    BY <1>1, <2>2, ApplyTyped DEF EditInv
  <2>3. \/ UNCHANGED <<disk, lied, session>>
        \/ \E out \in Outcomes(z) :
              /\ Apply(z, out)
              /\ session' = IF Reloads(out) \/ out = "NO-CHANGE"
                            THEN [session EXCEPT ![z] = Load(file'[z])] ELSE session
    BY DEF SaveRecords, SavePending
  <2> QED
    BY <2>1, <2>2, <2>3
<1>5. /\ session' \in [Zones -> Sessions \cup {None}]
      /\ \A y \in Zones : (session'[y] # None) <=> (session[y] # None)
      /\ \A y \in Zones \ {z} : session'[y] = session[y]
  <2>1. CASE session' = session
    BY <1>1, <2>1
  <2>2. CASE session' = [session EXCEPT ![z] = Load(file'[z])] /\ file'[z] \in SUBSET Records
    <3>1. Load(file'[z]) \in Sessions /\ Load(file'[z]) # None
      BY <2>2, LoadTyped
    <3> QED
      BY <1>1, <2>2, <3>1
  <2> QED
    BY <1>4, <2>1, <2>2
<1>6. EditTypes'
  BY <1>1, <1>2, <1>3, <1>4, <1>5 DEF EditInv, EditTypes, At
<1>7. ScreenInv'
  BY <1>1, <1>3, <1>5, SessionsStay DEF At
<1>8. KeepsEdits
  <2> SUFFICES ASSUME NEW y \in DirtyZones
               PROVE  \/ session'[y] # None /\ session'[y].entries = session[y].entries
                      \/ file'[y] = Current(y) \/ y \in lied'
    BY DEF KeepsEdits
  <2> QED
    BY <1>4, <1>5, DirtyIsOpen
<1> QED
  BY <1>6, <1>7, <1>8 DEF EditInv

\* F4 and the undo of the pending changes.
LEMMA UndoKeeps ==
    ASSUME EditInv, NEW z \in Zones, view.zone = z, view.at \in {"records", "pending"},
           UndoKey(z)
    PROVE  EditInv' /\ KeepsEdits
<1>1. /\ session[z] # None /\ session[z] \in Sessions
      /\ session[z].entries \in SUBSET Entries /\ session[z].undo \in Seq(SUBSET Entries)
      /\ file \in [Zones -> (SUBSET Records) \cup {Gone}]
      /\ session \in [Zones -> Sessions \cup {None}]
      /\ UNCHANGED <<file, list, left>> /\ session[z].undo # <<>>
  BY SessionFacts DEF UndoKey, EditInv, EditTypes, ScreenInv, disk, screen
<1>2. CASE Dies
  BY <1>1, <1>2, DeadKeeps DEF KeepsEdits, Saves, At
<1> DEFINE s == session[z]
           before == [s EXCEPT !.entries = Last(s.undo), !.undo = Front(@)]
           changed == \E e \in before.entries : e[1] # e[2]
<1>3. CASE /\ session' = [session EXCEPT ![z] = IF changed THEN before ELSE Load(file[z])]
           /\ changed \/ file[z] # Gone
           /\ Show("records", z, view.multi)
           /\ UNCHANGED <<lock, saving, worker>>
  <2>1. before \in Sessions
    <3>1. Last(s.undo) \in SUBSET Entries /\ Front(s.undo) \in Seq(SUBSET Entries)
      BY <1>1 DEF Last, Front
    <3> QED
      BY <1>1, <3>1 DEF Sessions
  <2>2. before # None
    BY <2>1, EditorAssumption
  <2>3. file[z] # Gone => Load(file[z]) \in Sessions /\ Load(file[z]) # None
    BY <1>1, LoadTyped
  <2> HIDE DEF before, changed
  <2>4. /\ session' \in [Zones -> Sessions \cup {None}]
        /\ \A y \in Zones : (session'[y] # None) <=> (session[y] # None)
    BY <1>1, <1>3, <2>1, <2>2, <2>3
  <2>5. /\ view' \in [at : Places, zone : Zones \cup {None}, multi : BOOLEAN]
        /\ view'.at = "records" /\ view'.zone = z /\ view'.multi = view.multi
    BY <1>3, Shows DEF EditInv, EditTypes, Places
  <2>6. EditTypes'
    BY <1>1, <1>3, <2>4, <2>5 DEF EditInv, EditTypes, At
  <2>7. ScreenInv'
    BY <1>1, <1>3, <2>4, <2>5, SessionsStay DEF At
  <2> QED
    BY <1>1, <2>6, <2>7 DEF EditInv, KeepsEdits, Saves, At
<1> QED
  BY <1>2, <1>3 DEF UndoKey

\* q in the records.
LEMMA QuitRecordsKeeps ==
    ASSUME EditInv, NEW z \in Zones, view.zone = z, At("records"), QuitRecords(z)
    PROVE  EditInv' /\ KeepsEdits
<1>1. /\ UNCHANGED <<file, list, left>> /\ view.multi \in BOOLEAN
      /\ session \in [Zones -> Sessions \cup {None}]
      /\ lock \in [Zones -> {"free", "app", "other"}]
  BY DEF QuitRecords, EditInv, EditTypes, disk, screen
<1>2. KeepsEdits
  BY <1>1 DEF KeepsEdits, Saves, At
<1>3. CASE Dies
  BY <1>1, <1>2, <1>3, DeadKeeps
<1>4. CASE view.multi /\ Show("multi", None, TRUE) /\ UNCHANGED <<lock, session, saving>>
  <2>1. /\ view' \in [at : Places, zone : Zones \cup {None}, multi : BOOLEAN]
        /\ view'.at = "multi" /\ view'.multi
    BY <1>4, Shows DEF Places
  <2> QED
    BY <1>1, <1>2, <1>4, <2>1 DEF EditInv, EditTypes, ScreenInv, LocksFollowScreens, At
<1>5. CASE ~view.multi /\ Close(z) /\ Show("domain", z, FALSE) /\ UNCHANGED saving
  <2>1. /\ view' \in [at : Places, zone : Zones \cup {None}, multi : BOOLEAN]
        /\ view'.at = "domain" /\ ~view'.multi
    BY <1>5, Shows DEF Places
  <2>2. /\ session' = [session EXCEPT ![z] = None] /\ lock' = [lock EXCEPT ![z] = "free"]
    BY <1>5 DEF Close
  <2>3. \A y \in Zones : session'[y] = None /\ lock'[y] # "app"
    BY <1>1, <1>5, <2>2 DEF EditInv, ScreenInv, LocksFollowScreens
  <2> QED
    BY <1>1, <1>2, <1>5, <2>1, <2>2, <2>3
       DEF EditInv, EditTypes, ScreenInv, LocksFollowScreens, At
<1> QED
  BY <1>3, <1>4, <1>5 DEF QuitRecords

\* From the records to the pending changes and back.
LEMMA SwitchKeeps ==
    ASSUME EditInv, view.at \in {"records", "pending"},
           NEW place \in {"records", "pending"}, Switch(place)
    PROVE  EditInv' /\ KeepsEdits
<1>1. /\ UNCHANGED <<file, lock, session, saving, list, left>>
  BY DEF Switch, disk, edit, screen
<1>2. /\ view' \in [at : Places, zone : Zones \cup {None}, multi : BOOLEAN]
      /\ view'.at = place /\ view'.zone = view.zone /\ view'.multi = view.multi
  BY Shows DEF Switch, EditInv, EditTypes, Places
<1>3. ScreenInv'
  BY <1>1, <1>2, SessionsStay DEF At
<1> QED
  BY <1>1, <1>2, <1>3 DEF EditInv, EditTypes, KeepsEdits, Saves, At

(* The keys of the session over several zones ******************************)

\* The next zone is opened, or one that cannot be closes them all.
LEMMA OpenNextKeeps ==
    ASSUME EditInv, OpenNext
    PROVE  EditInv' /\ KeepsEdits
<1> DEFINE rest == {z \in list.marked : session[z] = None}
<1>1. /\ UNCHANGED <<file, saving, list, left>> /\ At("opening") /\ view.multi
      /\ session \in [Zones -> Sessions \cup {None}] /\ list.marked \subseteq Zones
      /\ lock \in [Zones -> {"free", "app", "other"}]
      /\ file \in [Zones -> (SUBSET Records) \cup {Gone}]
  BY DEF OpenNext, EditInv, EditTypes, ScreenInv, disk, screen, At
<1>2. KeepsEdits
  BY <1>1 DEF KeepsEdits, Saves, At
<1>3. CASE rest = {} /\ Show("multi", None, TRUE) /\ UNCHANGED <<lock, session>>
  <2>1. /\ view' \in [at : Places, zone : Zones \cup {None}, multi : BOOLEAN]
        /\ view'.at = "multi" /\ view'.multi
    BY <1>3, Shows DEF Places
  <2> QED
    BY <1>1, <1>2, <1>3, <2>1 DEF EditInv, EditTypes, ScreenInv, LocksFollowScreens, At
<1>4. CASE OpenFails /\ Show("list", None, FALSE)
  <2>1. /\ view' \in [at : Places, zone : Zones \cup {None}, multi : BOOLEAN]
        /\ view'.at = "list" /\ ~view'.multi
    BY <1>4, Shows DEF Places
  <2>2. ScreenInv' /\ session' \in [Zones -> Sessions \cup {None}]
        /\ lock' \in [Zones -> {"free", "app", "other"}]
    BY <1>1, <1>4, <2>1, AllClosed DEF OpenFails
  <2> QED
    BY <1>1, <1>2, <2>1, <2>2 DEF EditInv, EditTypes, At
<1>5. CASE rest # {} /\ Open(First(rest)) /\ view' = view
  <2>1. First(rest) \in rest
    BY <1>1, <1>5, FirstOf
  <2> DEFINE z == First(rest)
  <2>2. /\ lock' = [lock EXCEPT ![z] = "app"] /\ session' = [session EXCEPT ![z] = Load(file[z])]
        /\ file[z] # Gone
    BY <1>5 DEF Open
  <2> HIDE DEF z
  <2>3. z \in list.marked /\ z \in Zones
    BY <1>1, <2>1 DEF z
  <2>4. Load(file[z]) \in Sessions /\ Load(file[z]) # None
    BY <1>1, <2>2, <2>3, LoadTyped
  <2>5. /\ session' \in [Zones -> Sessions \cup {None}]
        /\ lock' \in [Zones -> {"free", "app", "other"}]
        /\ session'[z] # None /\ lock'[z] = "app"
        /\ \A y \in Zones \ {z} : session'[y] = session[y] /\ lock'[y] = lock[y]
    BY <1>1, <2>2, <2>3, <2>4
  <2> QED
    BY <1>1, <1>2, <1>5, <2>3, <2>5 DEF EditInv, EditTypes, ScreenInv, LocksFollowScreens, At
<1> QED
  BY <1>3, <1>4, <1>5 DEF OpenNext

\* A zone is entered, or all are closed.
LEMMA MultiKeeps ==
    ASSUME EditInv, EnterZone \/ QuitMulti \/ SaveAll \/ SaveAllRaises
    PROVE  EditInv' /\ KeepsEdits
<1>1. CASE EnterZone
  <2>1. UNCHANGED <<file, lock, session, saving, list, left>> /\ At("multi") /\ view.multi
    BY <1>1 DEF EnterZone, disk, edit, screen, EditInv, ScreenInv, At
  <2>2. PICK z \in list.marked : Show("records", z, TRUE)
    BY <1>1 DEF EnterZone
  <2>3. z \in Zones /\ session[z] # None
    BY <2>1 DEF EditInv, EditTypes, ScreenInv, At
  <2>4. /\ view' \in [at : Places, zone : Zones \cup {None}, multi : BOOLEAN]
        /\ view'.at = "records" /\ view'.multi /\ view'.zone = z
    BY <2>2, <2>3, Shows DEF Places
  <2> QED
    BY <2>1, <2>3, <2>4
       DEF EditInv, EditTypes, ScreenInv, LocksFollowScreens, At, KeepsEdits, Saves
<1>2. CASE QuitMulti
  <2>1. UNCHANGED <<file, list, left>> /\ At("multi")
    BY <1>2 DEF QuitMulti, disk, screen
  <2>2. KeepsEdits
    BY <2>1 DEF KeepsEdits, Saves, At
  <2>3. CASE Dies
    BY <2>1, <2>2, <2>3, DeadKeeps
  <2>4. CASE CloseAll /\ Show("list", None, FALSE) /\ UNCHANGED saving
    <3>1. /\ view' \in [at : Places, zone : Zones \cup {None}, multi : BOOLEAN]
          /\ view'.at = "list" /\ ~view'.multi
      BY <2>4, Shows DEF Places
    <3>2. ScreenInv' /\ session' \in [Zones -> Sessions \cup {None}]
          /\ lock' \in [Zones -> {"free", "app", "other"}]
      BY <2>1, <2>4, <3>1, AllClosed
    <3> QED
      BY <2>1, <2>2, <3>1, <3>2 DEF EditInv, EditTypes, At
  <2> QED
    BY <1>2, <2>3, <2>4 DEF QuitMulti
<1>3. CASE SaveAll
  <2>1. /\ UNCHANGED <<file, lock, session, list>> /\ At("multi") /\ Spend("save")
        /\ saving' = [phase |-> "validate", todo |-> DirtyZones] /\ DirtyZones # {}
        /\ left \in [Kinds -> Nat]
    BY <1>3 DEF SaveAll, disk, screen, EditInv, EditTypes
  <2>2. left' \in [Kinds -> Nat]
    BY <2>1, SpendTyped DEF Kinds
  <2>3. /\ view' \in [at : Places, zone : Zones \cup {None}, multi : BOOLEAN]
        /\ view'.at = "saving" /\ view'.multi
    BY <1>3, Shows DEF SaveAll, Places
  <2>4. IsSaving(saving') /\ saving'.todo = DirtyZones
    BY <2>1, DirtyIsOpen DEF IsSaving
  <2>5. DirtyZones' = DirtyZones
    BY <2>1 DEF DirtyZones, Dirty
  <2>6. EditTypes'
    BY <2>1, <2>2, <2>3, <2>4 DEF EditInv, EditTypes, At
  <2>7. ScreenInv'
    BY <2>1, <2>3, <2>4, <2>5, DirtyIsOpen
       DEF EditInv, EditTypes, ScreenInv, LocksFollowScreens, At
  <2>8. KeepsEdits
    BY <2>1, DirtyIsOpen DEF KeepsEdits
  <2> QED
    BY <2>6, <2>7, <2>8 DEF EditInv
<1>4. CASE SaveAllRaises
  <2>1. Dies /\ UNCHANGED <<file, list, left>> /\ view.multi
    BY <1>4 DEF SaveAllRaises, disk, screen, EditInv, ScreenInv, At
  <2>2. EditInv' /\ view'.at = "dead"
    BY <2>1, DeadKeeps
  <2> QED
    BY <2>1, <2>2 DEF KeepsEdits
<1> QED
  BY <1>1, <1>2, <1>3, <1>4

\* A step of save_all goes on with some of the sessions, or back to the screen.
LEMMA SavingGoesOn ==
    ASSUME EditInv, At("saving"), UNCHANGED <<lock, list>>,
           left' \in [Kinds -> Nat], file' \in [Zones -> (SUBSET Records) \cup {Gone}],
           session' \in [Zones -> Sessions \cup {None}],
           \A y \in Zones : (session'[y] # None) <=> (session[y] # None),
           \/ Show("multi", None, TRUE)
           \/ /\ view' = view /\ IsSaving(saving')
              /\ \A z \in saving'.todo : session[z] # None
              /\ saving'.phase = "validate" => saving'.todo \subseteq DirtyZones'
    PROVE  EditInv'
<1>1. /\ view' \in [at : Places, zone : Zones \cup {None}, multi : BOOLEAN]
      /\ view'.at \in {"multi", "saving"} /\ view'.multi
      /\ view'.at = "saving" => view' = view /\ IsSaving(saving')
           /\ (\A z \in saving'.todo : session[z] # None)
           /\ (saving'.phase = "validate" => saving'.todo \subseteq DirtyZones')
  <2>1. CASE Show("multi", None, TRUE)
    BY <2>1, Shows DEF Places
  <2>2. CASE /\ view' = view /\ IsSaving(saving')
             /\ \A z \in saving'.todo : session[z] # None
             /\ saving'.phase = "validate" => saving'.todo \subseteq DirtyZones'
    BY <2>2 DEF EditInv, EditTypes, ScreenInv, At
  <2> QED
    BY <2>1, <2>2
<1>2. EditTypes'
  BY <1>1 DEF EditInv, EditTypes, At
<1>3. \A z \in list.marked : session'[z] # None
  BY DEF EditInv, EditTypes, ScreenInv, At
<1>4. view.multi /\ \A z \in Zones : session[z] # None => z \in list.marked
  BY DEF EditInv, ScreenInv, LocksFollowScreens, At
<1>5. LocksFollowScreens'
  BY <1>1, <1>3, <1>4 DEF EditInv, ScreenInv, LocksFollowScreens, At
<1>6. At("saving")' => IsSaving(saving') /\ \A z \in saving'.todo : session'[z] # None
  BY <1>1 DEF At, IsSaving
<1> QED
  BY <1>1, <1>2, <1>3, <1>5, <1>6 DEF EditInv, ScreenInv, At

\* Zone by zone: validated, then saved.
LEMMA SavingKeeps ==
    ASSUME EditInv, RefreshTypes, ValidateNext \/ CommitNext
    PROVE  EditInv' /\ KeepsEdits
<1> DEFINE z == First(saving.todo)
<1>1. /\ At("saving") /\ UNCHANGED <<lock, list, left>> /\ left \in [Kinds -> Nat]
      /\ file \in [Zones -> (SUBSET Records) \cup {Gone}]
      /\ session \in [Zones -> Sessions \cup {None}]
      /\ IsSaving(saving) /\ \A y \in saving.todo : session[y] # None
      /\ saving.phase = "validate" => saving.todo \subseteq DirtyZones
  BY DEF ValidateNext, CommitNext, EditInv, EditTypes, ScreenInv, At, screen
<1>2. z \in saving.todo /\ z \in Zones /\ session[z] # None
  BY <1>1, FirstOf DEF IsSaving
<1> HIDE DEF z
<1>3. /\ saving.todo # {z} => IsSaving([saving EXCEPT !.todo = @ \ {z}])
      /\ [saving EXCEPT !.todo = @ \ {z}].phase = saving.phase
      /\ [saving EXCEPT !.todo = @ \ {z}].todo = saving.todo \ {z}
  BY <1>1, <1>2 DEF IsSaving
<1>4. CASE ValidateNext
  <2>1. UNCHANGED <<file, session>> /\ DirtyZones' = DirtyZones /\ saving.phase = "validate"
    BY <1>4 DEF ValidateNext, disk, DirtyZones, Dirty
  <2>2. \/ Show("multi", None, TRUE)
        \/ /\ view' = view
           /\ saving' = IF saving.todo = {z} THEN [phase |-> "commit", todo |-> DirtyZones]
                        ELSE [saving EXCEPT !.todo = @ \ {z}]
    BY <1>4 DEF ValidateNext, z
  <2>3. DirtyZones \in (SUBSET Zones) \ {{}} /\ \A y \in DirtyZones : session[y] # None
    BY <1>1, <1>2, <2>1, DirtyIsOpen
  <2>4. EditInv'
    <3>1. CASE Show("multi", None, TRUE)
      BY <1>1, <2>1, <3>1, SavingGoesOn
    <3>2. CASE view' = view /\ saving' = [phase |-> "commit", todo |-> DirtyZones]
      <4>1. IsSaving(saving') /\ saving'.phase = "commit" /\ saving'.todo = DirtyZones
        BY <2>3, <3>2 DEF IsSaving
      <4> QED
        BY <1>1, <2>1, <2>3, <3>2, <4>1, SavingGoesOn
    <3>3. CASE /\ view' = view /\ saving.todo # {z}
               /\ saving' = [saving EXCEPT !.todo = @ \ {z}]
      <4>1. IsSaving(saving') /\ saving'.todo \subseteq saving.todo
        BY <1>3, <3>3
      <4> QED
        BY <1>1, <2>1, <3>3, <4>1, SavingGoesOn
    <3> QED
      BY <2>2, <3>1, <3>2, <3>3
  <2>5. KeepsEdits
    BY <2>1, DirtyIsOpen DEF KeepsEdits
  <2> QED
    BY <2>4, <2>5
<1>5. CASE CommitNext
  <2>1. PICK out \in Outcomes(z) :
           /\ Apply(z, out)
           /\ session' = IF Reloads(out) THEN [session EXCEPT ![z] = Load(file'[z])] ELSE session
           /\ \/ Show("multi", None, TRUE)
              \/ /\ view' = view /\ saving.todo # {z}
                 /\ saving' = [saving EXCEPT !.todo = @ \ {z}]
    BY <1>5 DEF CommitNext, z
  <2>2. /\ file' \in [Zones -> (SUBSET Records) \cup {Gone}]
        /\ Reloads(out) =>
             file'[z] \in SUBSET Records /\ (file'[z] = Current(z) \/ z \in lied')
    BY <1>2, <2>1, ApplyTyped DEF EditInv
  <2>3. /\ session' \in [Zones -> Sessions \cup {None}]
        /\ \A y \in Zones : (session'[y] # None) <=> (session[y] # None)
        /\ \A y \in Zones \ {z} : session'[y] = session[y]
    <3>1. CASE Reloads(out)
      <4>1. Load(file'[z]) \in Sessions /\ Load(file'[z]) # None
        BY <2>2, <3>1, LoadTyped
      <4> QED
        BY <1>1, <1>2, <2>1, <3>1, <4>1
    <3>2. CASE ~Reloads(out)
      BY <1>1, <2>1, <3>2
    <3> QED
      BY <3>1, <3>2
  <2>4. EditInv'
    <3>1. CASE Show("multi", None, TRUE)
      BY <1>1, <2>2, <2>3, <3>1, SavingGoesOn
    <3>2. CASE /\ view' = view /\ saving.todo # {z}
               /\ saving' = [saving EXCEPT !.todo = @ \ {z}]
      <4>1. /\ IsSaving(saving') /\ saving'.todo \subseteq saving.todo
            /\ saving'.phase = "commit"
        BY <1>3, <1>5, <3>2 DEF CommitNext
      <4> QED
        BY <1>1, <2>2, <2>3, <3>2, <4>1, SavingGoesOn
    <3> QED
      BY <2>1, <3>1, <3>2
  <2>5. KeepsEdits
    <3> SUFFICES ASSUME NEW y \in DirtyZones
                 PROVE  \/ session'[y] # None /\ session'[y].entries = session[y].entries
                        \/ file'[y] = Current(y) \/ y \in lied'
      BY DEF KeepsEdits
    <3> QED
      BY <2>1, <2>2, <2>3, DirtyIsOpen
  <2> QED
    BY <2>4, <2>5
<1> QED
  BY <1>4, <1>5

(* The list, one zone, and everyone else ***********************************)

\* The screen of one zone opens its records, or nothing.
LEMMA DomainKeeps ==
    ASSUME EditInv, NEW z \in Zones, DomainKeys(z)
    PROVE  EditInv' /\ KeepsEdits
<1>1. /\ At("domain") /\ ~view.multi /\ UNCHANGED <<file, saving, list>>
      /\ left \in [Kinds -> Nat]
      /\ session \in [Zones -> Sessions \cup {None}]
      /\ lock \in [Zones -> {"free", "app", "other"}]
      /\ file \in [Zones -> (SUBSET Records) \cup {Gone}]
      /\ \A y \in Zones : session[y] = None /\ lock[y] # "app"
  BY DEF DomainKeys, disk, EditInv, EditTypes, ScreenInv, LocksFollowScreens, At
<1>2. left' \in [Kinds -> Nat] /\ left'.save = left.save
  <2>1. left' = left \/ Spend("key")
    BY DEF DomainKeys
  <2> QED
    BY <1>1, <2>1, SpendTyped DEF Kinds
<1>3. KeepsEdits
  BY <1>1, <1>2 DEF KeepsEdits, Saves, At
<1>4. CASE Show("list", None, FALSE) /\ UNCHANGED <<lock, session>>
  <2>1. /\ view' \in [at : Places, zone : Zones \cup {None}, multi : BOOLEAN]
        /\ view'.at = "list" /\ ~view'.multi
    BY <1>4, Shows DEF Places
  <2> QED
    BY <1>1, <1>2, <1>3, <1>4, <2>1 DEF EditInv, EditTypes, ScreenInv, LocksFollowScreens, At
<1>5. CASE Open(z) /\ Show("records", z, FALSE)
  <2>1. /\ view' \in [at : Places, zone : Zones \cup {None}, multi : BOOLEAN]
        /\ view'.at = "records" /\ ~view'.multi /\ view'.zone = z
    BY <1>5, Shows DEF Places
  <2>2. /\ lock' = [lock EXCEPT ![z] = "app"] /\ session' = [session EXCEPT ![z] = Load(file[z])]
        /\ file[z] # Gone
    BY <1>5 DEF Open
  <2>3. Load(file[z]) \in Sessions /\ Load(file[z]) # None
    BY <1>1, <2>2, LoadTyped
  <2>4. /\ session' \in [Zones -> Sessions \cup {None}]
        /\ lock' \in [Zones -> {"free", "app", "other"}]
        /\ session'[z] # None /\ lock'[z] = "app"
        /\ \A y \in Zones \ {z} : session'[y] = None /\ lock'[y] # "app"
    BY <1>1, <2>2, <2>3
  <2> QED
    BY <1>1, <1>2, <1>3, <2>1, <2>4 DEF EditInv, EditTypes, ScreenInv, LocksFollowScreens, At
<1>6. CASE UNCHANGED <<lock, session, view>>
  <2>1. ScreenInv'
    BY <1>1, <1>6, ScreensStay
  <2> QED
    BY <1>1, <1>2, <1>3, <1>6, <2>1 DEF EditInv, EditTypes, At
<1> QED
  BY <1>4, <1>5, <1>6 DEF DomainKeys

\* The keys of the list open no session and close none.
LEMMA ListKeeps ==
    ASSUME EditInv, ListKeys
    PROVE  EditInv' /\ KeepsEdits
<1>1. /\ At("list") /\ ~view.multi /\ UNCHANGED <<file, lock, session, saving>>
      /\ left \in [Kinds -> Nat] /\ IsList(list) /\ list.marked \subseteq Zones
      /\ \A z \in Zones : session[z] = None /\ lock[z] # "app"
  BY DEF ListKeys, disk, edit, EditInv, EditTypes, ScreenInv, LocksFollowScreens, At
<1>2. left' = left \/ Spend("key")
  BY DEF ListKeys, MoveSelection, Activate, ToggleMultiSelection, Search, Rearrange, OpenMulti,
         RefreshKey
<1>3. left' \in [Kinds -> Nat] /\ left'.save = left.save
  BY <1>1, <1>2, SpendTyped DEF Kinds
<1>4. KeepsEdits
  BY <1>1, <1>3 DEF KeepsEdits, Saves, At
<1>5. IsList(list') /\ list'.marked \subseteq Zones
  <2>1. CASE MoveSelection
    BY <1>1, <2>1 DEF MoveSelection, ListChange, IsList
  <2>2. CASE Activate
    <3>1. CASE list' = list
      BY <1>1, <3>1
    <3>2. CASE list' # list
      <4>1. PICK c : list' = Rebuilt([list EXCEPT !.collapsed = c], None)
        BY <2>2, <3>2 DEF Activate, ListChange
      <4>2. IsList([list EXCEPT !.collapsed = c])
            /\ [list EXCEPT !.collapsed = c].marked = list.marked
        BY <1>1 DEF IsList
      <4> QED
        BY <1>1, <4>1, <4>2, RebuiltKeeps
    <3> QED
      BY <3>1, <3>2
  <2>3. CASE ToggleMultiSelection
    <3>1. PICK z \in Zones :
             list' = [list EXCEPT !.marked = IF z \in @ THEN @ \ {z} ELSE @ \cup {z}]
      BY <2>3 DEF ToggleMultiSelection, ListChange
    <3> QED
      BY <1>1, <3>1 DEF IsList
  <2>4. CASE Search
    <3>1. PICK found : list' = Rebuilt([list EXCEPT !.query = found, !.selected = 1], None)
      BY <2>4 DEF Search, ListChange
    <3>2. IsList([list EXCEPT !.query = found, !.selected = 1])
          /\ [list EXCEPT !.query = found, !.selected = 1].marked = list.marked
      BY <1>1 DEF IsList
    <3> QED
      BY <1>1, <3>1, <3>2, RebuiltKeeps
  <2>5. CASE Rearrange
    <3>1. PICK s, g : \/ list' = Rebuilt([list EXCEPT !.sort = s], ZoneSelected)
                      \/ list' = Rebuilt([list EXCEPT !.grouped = g], ZoneSelected)
      BY <2>5 DEF Rearrange, ListChange
    <3>2. /\ IsList([list EXCEPT !.sort = s])
          /\ [list EXCEPT !.sort = s].marked = list.marked
          /\ IsList([list EXCEPT !.grouped = g])
          /\ [list EXCEPT !.grouped = g].marked = list.marked
      BY <1>1 DEF IsList
    <3>3. CASE list' = Rebuilt([list EXCEPT !.sort = s], ZoneSelected)
      BY <1>1, <3>2, <3>3, RebuiltKeeps
    <3>4. CASE list' = Rebuilt([list EXCEPT !.grouped = g], ZoneSelected)
      BY <1>1, <3>2, <3>4, RebuiltKeeps
    <3> QED
      BY <3>1, <3>3, <3>4
  <2>6. CASE OpenMulti \/ RefreshKey
    BY <1>1, <2>6 DEF OpenMulti, RefreshKey
  <2> QED
    BY <2>1, <2>2, <2>3, <2>4, <2>5, <2>6 DEF ListKeys
<1>6. /\ view' \in [at : Places, zone : Zones \cup {None}, multi : BOOLEAN]
      /\ \/ view'.at \in {"list", "domain"} /\ ~view'.multi
         \/ view'.at = "opening" /\ view'.multi
  <2>1. \/ view' = view
        \/ \E z \in Zones : Show("domain", z, FALSE)
        \/ Show("opening", None, TRUE)
    BY DEF ListKeys, MoveSelection, Activate, ToggleMultiSelection, Search, Rearrange, OpenMulti,
           RefreshKey, ListChange
  <2>2. CASE view' = view
    BY <1>1, <2>2 DEF EditInv, EditTypes, At
  <2>3. ASSUME NEW z \in Zones, Show("domain", z, FALSE)
        PROVE  view' \in [at : Places, zone : Zones \cup {None}, multi : BOOLEAN]
               /\ view'.at = "domain" /\ ~view'.multi
    BY <2>3, Shows DEF Places
  <2>4. CASE Show("opening", None, TRUE)
    BY <2>4, Shows DEF Places
  <2> QED
    BY <2>1, <2>2, <2>3, <2>4
<1> QED
  BY <1>1, <1>3, <1>4, <1>5, <1>6 DEF EditInv, EditTypes, ScreenInv, LocksFollowScreens, At

\* The main loop and the refresh thread touch no session.
LEMMA LoopKeeps ==
    ASSUME EditInv, MainLoop \/ Worker
    PROVE  EditInv' /\ KeepsEdits
<1>1. UNCHANGED <<file, lock, session, saving, view, left, lied>>
  BY DEF MainLoop, ConsumeResults, CheckWorker, CompleteRefresh, NoKey, Worker, disk, edit
<1>2. IsList(list') /\ list'.marked = list.marked
  <2>1. IsList(list)
    BY DEF EditInv, EditTypes
  <2>2. list' \in {list, Redrawn, [list EXCEPT !.changed = TRUE]}
    BY DEF MainLoop, ConsumeResults, CheckWorker, CompleteRefresh, NoKey, Worker
  <2>3. IsList([list EXCEPT !.changed = TRUE])
        /\ [list EXCEPT !.changed = TRUE].marked = list.marked
    BY <2>1 DEF IsList
  <2> QED
    BY <2>1, <2>2, <2>3, RedrawnKeeps
<1>3. ScreenInv'
  BY <1>1, <1>2, ScreensStay
<1>4. KeepsEdits
  BY <1>1, DirtyIsOpen DEF KeepsEdits
<1> QED
  BY <1>1, <1>2, <1>3, <1>4 DEF EditInv, EditTypes, At

\* Others write zone files and edit zones that nobody edits here.
LEMMA OthersKeep ==
    ASSUME EditInv, Others
    PROVE  EditInv' /\ KeepsEdits
<1>1. /\ UNCHANGED <<session, saving, view, list, lied>>
      /\ left \in [Kinds -> Nat] /\ lock \in [Zones -> {"free", "app", "other"}]
      /\ file \in [Zones -> (SUBSET Records) \cup {Gone}]
  BY DEF Others, screen, EditInv, EditTypes
<1>2. left' = left \/ Spend("other")
  BY DEF Others, OtherWrites, OtherSession
<1>3. left' \in [Kinds -> Nat]
  BY <1>1, <1>2, SpendTyped DEF Kinds
<1>4. KeepsEdits
  BY <1>1, DirtyIsOpen DEF KeepsEdits
<1>5. CASE OtherWrites
  <2>1. PICK z \in Zones, c \in Contents \cup {Gone} : file' = [file EXCEPT ![z] = c]
    BY <1>5 DEF OtherWrites
  <2>2. file' \in [Zones -> (SUBSET Records) \cup {Gone}] /\ lock' = lock
    BY <1>1, <1>5, <2>1, EditorAssumption DEF OtherWrites
  <2>3. ScreenInv'
    BY <1>1, <2>2, ScreensStay
  <2> QED
    BY <1>1, <1>3, <1>4, <2>2, <2>3 DEF EditInv, EditTypes, At
<1>6. CASE OtherSession
  <2>1. file' = file
    BY <1>6 DEF OtherSession, disk
  <2>2. /\ lock' \in [Zones -> {"free", "app", "other"}]
        /\ \A z \in Zones : (lock'[z] = "app") <=> (lock[z] = "app")
    BY <1>1, <1>6 DEF OtherSession
  <2>3. ScreenInv'
    BY <1>1, <2>2 DEF EditInv, ScreenInv, LocksFollowScreens, At, DirtyZones, Dirty
  <2> QED
    BY <1>1, <1>3, <1>4, <2>1, <2>2, <2>3 DEF EditInv, EditTypes, At
<1> QED
  BY <1>5, <1>6 DEF Others

\* No session is open at first.
LEMMA InitEdits == Init => EditInv
<1> SUFFICES ASSUME Init PROVE EditInv
  OBVIOUS
<1>1. IsList(list) /\ list.marked \subseteq Zones
  <2> DEFINE l == [sort |-> "A-Z", grouped |-> TRUE, collapsed |-> {}, query |-> Zones,
                   marked |-> {}, changed |-> FALSE, selected |-> 1, rows |-> <<>>]
  <2>1. IsList(l) /\ l.marked = {}
    BY DEF IsList
  <2>2. list = Rebuilt(l, None)
    BY DEF Init
  <2> HIDE DEF l
  <2> QED
    BY <2>1, <2>2, RebuiltKeeps
<1>2. /\ file \in [Zones -> (SUBSET Records) \cup {Gone}]
      /\ lock = [z \in Zones |-> "free"] /\ session = [z \in Zones |-> None]
      /\ view = [at |-> "list", zone |-> None, multi |-> FALSE]
      /\ left \in [Kinds -> Nat]
  BY EditorAssumption DEF Init
<1>3. EditTypes
  BY <1>1, <1>2 DEF EditTypes, Places, At
<1>4. ScreenInv
  BY <1>2 DEF ScreenInv, LocksFollowScreens, At
<1> QED
  BY <1>3, <1>4 DEF EditInv

\* Every step keeps the invariant, and the changes that a save does not write.
LEMMA StepEdits ==
    ASSUME EditInv, RefreshTypes, [Next]_vars
    PROVE  EditInv' /\ (Next => KeepsEdits)
<1>1. CASE MainLoop \/ Worker
  BY <1>1, LoopKeeps
<1>2. CASE Others
  BY <1>2, OthersKeep
<1>3. CASE ListKeys \/ OpenNext
  BY <1>3, ListKeeps, OpenNextKeeps
<1>4. CASE MultiKeys
  BY <1>4, MultiKeeps, SavingKeeps DEF MultiKeys
<1>5. ASSUME NEW z \in Zones, DomainKeys(z) \/ RecordsKeys(z) \/ PendingKeys(z)
      PROVE  EditInv' /\ KeepsEdits
  <2>1. CASE DomainKeys(z)
    BY <2>1, DomainKeeps
  <2>2. CASE RecordsKeys(z)
    BY <2>2, EditKeeps, SaveKeeps, UndoKeeps, QuitRecordsKeeps, SwitchKeeps
       DEF RecordsKeys, At
  <2>3. CASE PendingKeys(z)
    BY <2>3, SaveKeeps, UndoKeeps, SwitchKeeps DEF PendingKeys, At
  <2> QED
    BY <1>5, <2>1, <2>2, <2>3
<1>6. CASE UNCHANGED vars
  <2>1. UNCHANGED <<file, lock, session, saving, view, list, left, lied>>
    BY <1>6 DEF vars, disk, edit, screen
  <2>2. ScreenInv'
    BY <2>1, ScreensStay
  <2>3. KeepsEdits
    BY <2>1, DirtyIsOpen DEF KeepsEdits
  <2> QED
    BY <2>1, <2>2, <2>3 DEF EditInv, EditTypes, At
<1> QED
  BY <1>1, <1>2, <1>3, <1>4, <1>5, <1>6 DEF Next, Keys

(* The refresh *************************************************************)

\* A check of a zone is a recent state of it.
LEMMA StatusRecent ==
    ASSUME RefreshTypes, RefreshInv, NEW z \in Zones
    PROVE  Status(z) \in Statuses /\ Status(z) # None /\ Recent(Status(z), asked[z])
<1>1. version[z] \in Nat /\ asked[z] \in Nat /\ asked[z] <= version[z]
  BY DEF RefreshTypes, RefreshInv
<1>2. Status(z) \in Statuses /\ Status(z).version = version[z]
  BY <1>1 DEF Status, Statuses
<1>3. Status(z) # None
  BY <1>2, EditorAssumption
<1> QED
  BY <1>1, <1>2, <1>3 DEF Recent

\* A zone shown more recently than before: what arrives stays recent.
LEMMA ShownAnew ==
    ASSUME NEW ms, NEW s, NEW t, NEW z, NEW n, Arriving(ms, s, z, n), t = s \/ Recent(t, n)
    PROVE  Arriving(ms, t, z, n)
<1>1. PICK i \in 0 .. Len(ms) :
         /\ i = 0 => Recent(s, n)
         /\ i > 0 => ms[i][1] = z /\ Recent(ms[i][2], n)
         /\ \A j \in 1 .. Len(ms) : j > i /\ ms[j][1] = z => Recent(ms[j][2], n)
  BY DEF Arriving
<1>2. i = 0 => Recent(t, n)
  BY <1>1
<1> QED
  BY <1>1, <1>2 DEF Arriving

\* A message at the end of the queue.
LEMMA Sent ==
    ASSUME NEW ms \in Seq(Zones \X Statuses), NEW m \in Zones \X Statuses, NEW s, NEW z, NEW n,
           \/ m[1] = z /\ Recent(m[2], n)
           \/ m[1] # z /\ Arriving(ms, s, z, n)
    PROVE  Arriving(Append(ms, m), s, z, n)
<1> DEFINE new == Append(ms, m)
<1>1. /\ new \in Seq(Zones \X Statuses) /\ Len(new) = Len(ms) + 1 /\ Len(ms) \in Nat
      /\ new[Len(ms) + 1] = m
      /\ \A i \in 1 .. Len(ms) : new[i] = ms[i]
  OBVIOUS
<1> HIDE DEF new
<1>2. CASE m[1] = z /\ Recent(m[2], n)
  <2>1. Len(ms) + 1 \in 0 .. Len(new) /\ Len(ms) + 1 > 0
    BY <1>1
  <2>2. \A j \in 1 .. Len(new) : ~(j > Len(ms) + 1)
    BY <1>1
  <2>3. Arriving(new, s, z, n)
    BY <1>1, <1>2, <2>1, <2>2 DEF Arriving
  <2> QED
    BY <2>3 DEF new
<1>3. CASE m[1] # z /\ Arriving(ms, s, z, n)
  <2>1. PICK i \in 0 .. Len(ms) :
           /\ i = 0 => Recent(s, n)
           /\ i > 0 => ms[i][1] = z /\ Recent(ms[i][2], n)
           /\ \A j \in 1 .. Len(ms) : j > i /\ ms[j][1] = z => Recent(ms[j][2], n)
    BY <1>3 DEF Arriving
  <2>2. i \in 0 .. Len(new)
    BY <1>1
  <2>3. i > 0 => new[i][1] = z /\ Recent(new[i][2], n)
    BY <1>1, <2>1
  <2>4. ASSUME NEW j \in 1 .. Len(new), j > i, new[j][1] = z PROVE Recent(new[j][2], n)
    <3>1. j # Len(ms) + 1
      BY <1>1, <1>3, <2>4
    <3>2. j \in 1 .. Len(ms)
      BY <1>1, <3>1
    <3> QED
      BY <1>1, <2>1, <2>4, <3>2
  <2>5. Arriving(new, s, z, n)
    BY <2>1, <2>2, <2>3, <2>4 DEF Arriving
  <2> QED
    BY <2>5 DEF new
<1> QED
  BY <1>2, <1>3

\* The first message is shown.
LEMMA Taken ==
    ASSUME NEW ms \in Seq(Zones \X Statuses), ms # <<>>, NEW s, NEW t, NEW z, NEW n,
           Arriving(ms, s, z, n),
           Head(ms)[1] = z => t = Head(ms)[2],
           Head(ms)[1] # z => t = s
    PROVE  Arriving(Tail(ms), t, z, n)
<1> DEFINE new == Tail(ms)
<1>1. /\ Head(ms) = ms[1] /\ Len(ms) \in Nat /\ Len(ms) >= 1 /\ 1 \in 1 .. Len(ms)
      /\ new \in Seq(Zones \X Statuses) /\ Len(new) = Len(ms) - 1
      /\ \A i \in 1 .. Len(new) : new[i] = ms[i + 1]
  OBVIOUS
<1> HIDE DEF new
<1>2. PICK i \in 0 .. Len(ms) :
         /\ i = 0 => Recent(s, n)
         /\ i > 0 => ms[i][1] = z /\ Recent(ms[i][2], n)
         /\ \A j \in 1 .. Len(ms) : j > i /\ ms[j][1] = z => Recent(ms[j][2], n)
  BY DEF Arriving
<1>3. ASSUME NEW k \in 0 .. Len(new), k >= i - 1,
             NEW j \in 1 .. Len(new), j > k, new[j][1] = z
      PROVE  Recent(new[j][2], n)
  <2>1. j + 1 \in 1 .. Len(ms) /\ j + 1 > i /\ new[j] = ms[j + 1]
    BY <1>1, <1>3
  <2> QED
    BY <1>2, <1>3, <2>1
<1>4. CASE i <= 1
  <2>1. CASE Head(ms)[1] = z
    <3>1. Recent(ms[1][2], n)
      <4>1. CASE i = 1
        BY <1>2, <4>1
      <4>2. CASE i = 0
        BY <1>1, <1>2, <2>1, <4>2
      <4> QED
        BY <1>4, <4>1, <4>2
    <3> QED
      <4>1. Recent(t, n)
        BY <1>1, <2>1, <3>1
      <4>2. 0 \in 0 .. Len(new) /\ 0 >= i - 1
        BY <1>1, <1>4
      <4>3. Arriving(new, t, z, n)
        BY <1>3, <4>1, <4>2 DEF Arriving
      <4> QED
        BY <4>3 DEF new
  <2>2. CASE Head(ms)[1] # z
    <3>1. i = 0
      BY <1>1, <1>2, <1>4, <2>2
    <3>2. Recent(t, n)
      BY <1>2, <2>2, <3>1
    <3>3. 0 \in 0 .. Len(new) /\ 0 >= i - 1
      BY <1>1, <1>4
    <3>4. Arriving(new, t, z, n)
      BY <1>3, <3>2, <3>3 DEF Arriving
    <3> QED
      BY <3>4 DEF new
  <2> QED
    BY <2>1, <2>2
<1>5. CASE i > 1
  <2>1. /\ i - 1 \in 0 .. Len(new) /\ i - 1 > 0 /\ i - 1 >= i - 1
        /\ new[i - 1] = ms[i]
    BY <1>1, <1>5
  <2>2. new[i - 1][1] = z /\ Recent(new[i - 1][2], n)
    BY <1>2, <1>5, <2>1
  <2>3. Arriving(new, t, z, n)
    BY <1>3, <2>1, <2>2 DEF Arriving
  <2> QED
    BY <2>3 DEF new
<1> QED
  BY <1>4, <1>5

\* A step away from the thread and its queue: a refresh may begin, a zone may be
\* checked and files may be written.
LEMMA RefreshGoesOn ==
    ASSUME RefreshTypes, RefreshInv,
           version' \in [Zones -> Nat], \A z \in Zones : version[z] <= version'[z],
           statuses' \in [Zones -> Statuses \cup {None}],
           \A z \in Zones : statuses'[z] = statuses[z] \/ Recent(statuses'[z], asked[z]),
           messages' = messages,
           \/ StartRefresh /\ loop' = "take"
           \/ UNCHANGED <<worker, indicator, asked>> /\ loop' = "take"
           \/ UNCHANGED <<worker, indicator, asked, loop, view>>,
           At("dead") => At("dead")'
    PROVE  RefreshTypes' /\ RefreshInv'
<1>1. /\ version \in [Zones -> Nat] /\ asked \in [Zones -> Nat]
      /\ messages \in Seq(Zones \X Statuses)
  BY DEF RefreshTypes
<1>2. CASE StartRefresh /\ ~worker.alive /\ loop' = "take"
  <2>1. /\ worker' = [alive |-> TRUE, left |-> Zones, read |-> [z \in Zones |-> None]]
        /\ indicator' = TRUE /\ asked' = version'
    BY <1>2 DEF StartRefresh
  <2>2. RefreshTypes'
    BY <1>1, <1>2, <2>1 DEF RefreshTypes
  <2>3. \A z \in Zones : asked'[z] <= version'[z]
    BY <2>1
  <2> QED
    BY <1>2, <2>1, <2>2, <2>3 DEF RefreshInv
<1>3. CASE /\ UNCHANGED <<worker, indicator, asked>>
           /\ (loop' = "take" \/ UNCHANGED <<loop, view>>)
  <2>1. RefreshTypes'
    BY <1>1, <1>3 DEF RefreshTypes
  <2>2. \A z \in Zones : asked'[z] <= version'[z]
    BY <1>1, <1>3 DEF RefreshInv, RefreshTypes
  <2>3. \A z \in Zones : Arrives(z) => Arrives(z)'
    BY <1>3, ShownAnew DEF Arrives
  <2>4. /\ ~indicator' => ~worker'.alive /\ messages' = <<>>
        /\ loop' = "empty" => ~worker'.alive
        /\ loop' # "take" => At("list")'
        /\ worker'.alive =>
             \A z \in Zones : worker'.read[z] # None => Recent(worker'.read[z], asked'[z])
    BY <1>3 DEF RefreshInv, At
  <2>5. ~At("dead")' =>
           \A z \in Zones : (worker'.alive /\ z \in worker'.left) \/ Arrives(z)'
    BY <1>3, <2>3 DEF RefreshInv
  <2> QED
    BY <2>1, <2>2, <2>4, <2>5 DEF RefreshInv
<1> QED
  BY <1>2, <1>3 DEF StartRefresh

\* The thread reads a zone, sends what it has read, and ends.
LEMMA WorkerKeeps ==
    ASSUME RefreshTypes, RefreshInv, Worker
    PROVE  RefreshTypes' /\ RefreshInv'
<1>1. UNCHANGED <<version, view, statuses, indicator, loop, asked>>
  BY DEF Worker, disk
<1>2. /\ asked \in [Zones -> Nat] /\ messages \in Seq(Zones \X Statuses)
      /\ worker \in [alive : BOOLEAN, left : SUBSET Zones,
                     read : [Zones -> Statuses \cup {None}]]
      /\ indicator \in BOOLEAN
  BY DEF RefreshTypes
<1>3. worker.alive
  BY DEF Worker, ReadStatus, PutStatus, WorkerEnds
<1>4. indicator /\ loop # "empty"
  BY <1>3 DEF RefreshInv
<1>5. ASSUME NEW z \in Zones, ReadStatus(z) PROVE RefreshTypes' /\ RefreshInv'
  <2>1. /\ messages' = messages /\ worker' = [worker EXCEPT !.read[z] = Status(z)]
    BY <1>5 DEF ReadStatus
  <2>2. /\ worker' \in [alive : BOOLEAN, left : SUBSET Zones,
                        read : [Zones -> Statuses \cup {None}]]
        /\ worker'.alive = worker.alive /\ worker'.left = worker.left
        /\ worker'.read[z] = Status(z)
        /\ \A y \in Zones \ {z} : worker'.read[y] = worker.read[y]
    BY <1>2, <2>1, StatusRecent
  <2>3. RefreshTypes'
    BY <1>1, <2>1, <2>2 DEF RefreshTypes
  <2>4. \A y \in Zones : worker'.read[y] # None => Recent(worker'.read[y], asked[y])
    BY <1>3, <2>2, StatusRecent DEF RefreshInv
  <2>5. \A y \in Zones : Arrives(y) => Arrives(y)'
    BY <1>1, <2>1 DEF Arrives
  <2> QED
    BY <1>1, <1>3, <1>4, <2>1, <2>2, <2>3, <2>4, <2>5 DEF RefreshInv, At
<1>6. ASSUME NEW z \in Zones, PutStatus(z) PROVE RefreshTypes' /\ RefreshInv'
  <2> DEFINE m == <<z, worker.read[z]>>
  <2>1. /\ messages' = Append(messages, m)
        /\ worker' = [worker EXCEPT !.left = @ \ {z}, !.read[z] = None]
        /\ worker.read[z] \in Statuses /\ Recent(worker.read[z], asked[z])
    BY <1>2, <1>6 DEF PutStatus, RefreshInv
  <2>2. m[1] = z /\ m[2] = worker.read[z] /\ m \in Zones \X Statuses
    BY <2>1
  <2>3. /\ worker' \in [alive : BOOLEAN, left : SUBSET Zones,
                        read : [Zones -> Statuses \cup {None}]]
        /\ worker'.alive = worker.alive /\ worker'.left = worker.left \ {z}
        /\ worker'.read[z] = None
        /\ \A y \in Zones \ {z} : worker'.read[y] = worker.read[y]
    BY <1>2, <2>1
  <2> HIDE DEF m
  <2>4. messages' \in Seq(Zones \X Statuses)
    BY <1>2, <2>1, <2>2
  <2>5. RefreshTypes'
    BY <1>1, <2>3, <2>4 DEF RefreshTypes
  <2>6. Arrives(z)'
    BY <1>1, <1>2, <2>1, <2>2, Sent DEF Arrives
  <2>7. \A y \in Zones \ {z} : Arrives(y) => Arrives(y)'
    BY <1>1, <1>2, <2>1, <2>2, Sent DEF Arrives
  <2>8. \A y \in Zones : worker'.read[y] # None => Recent(worker'.read[y], asked[y])
    BY <1>3, <2>3 DEF RefreshInv
  <2> QED
    BY <1>1, <1>3, <1>4, <2>3, <2>5, <2>6, <2>7, <2>8 DEF RefreshInv, At
<1>7. CASE WorkerEnds
  <2>1. messages' = messages /\ worker' = [worker EXCEPT !.alive = FALSE] /\ worker.left = {}
    BY <1>7 DEF WorkerEnds
  <2>2. /\ worker' \in [alive : BOOLEAN, left : SUBSET Zones,
                        read : [Zones -> Statuses \cup {None}]]
        /\ ~worker'.alive
    BY <1>2, <2>1
  <2>3. RefreshTypes'
    BY <1>1, <2>1, <2>2 DEF RefreshTypes
  <2>4. \A y \in Zones : Arrives(y) => Arrives(y)'
    BY <1>1, <2>1 DEF Arrives
  <2> QED
    BY <1>1, <1>4, <2>1, <2>2, <2>3, <2>4 DEF RefreshInv, At
<1> QED
  BY <1>5, <1>6, <1>7 DEF Worker

\* The main loop takes what was sent and looks whether the thread is over.
LEMMA MainLoopKeeps ==
    ASSUME RefreshTypes, RefreshInv, MainLoop
    PROVE  RefreshTypes' /\ RefreshInv'
<1>1. UNCHANGED <<version, view, worker, asked>> /\ At("list") /\ At("list")'
  BY DEF MainLoop, ConsumeResults, CheckWorker, CompleteRefresh, NoKey, disk, At
<1>2. /\ asked \in [Zones -> Nat] /\ messages \in Seq(Zones \X Statuses)
      /\ statuses \in [Zones -> Statuses \cup {None}]
  BY DEF RefreshTypes
<1>3. CASE CheckWorker \/ NoKey \/ (ConsumeResults /\ messages = <<>>)
  <2>1. /\ UNCHANGED <<messages, statuses, indicator>>
        /\ loop' \in {"take", "alive", "empty", "key"}
        /\ loop' = "empty" => ~worker.alive
    BY <1>3 DEF CheckWorker, NoKey, ConsumeResults, Finished
  <2>2. RefreshTypes'
    BY <1>1, <2>1 DEF RefreshTypes
  <2>3. \A y \in Zones : Arrives(y) => Arrives(y)'
    BY <1>1, <2>1 DEF Arrives
  <2> QED
    BY <1>1, <2>1, <2>2, <2>3 DEF RefreshInv, At
<1>4. CASE CompleteRefresh
  <2>1. /\ UNCHANGED <<messages, statuses>> /\ loop' = "key" /\ ~worker.alive
        /\ indicator' = (messages # <<>>)
    BY <1>4 DEF CompleteRefresh, StillWaiting, RefreshInv
  <2>2. RefreshTypes'
    BY <1>1, <2>1 DEF RefreshTypes
  <2>3. \A y \in Zones : Arrives(y) => Arrives(y)'
    BY <1>1, <2>1 DEF Arrives
  <2> QED
    BY <1>1, <2>1, <2>2, <2>3 DEF RefreshInv, At
<1>5. CASE ConsumeResults /\ messages # <<>>
  <2> DEFINE m == Head(messages)
  <2>1. /\ statuses' = [statuses EXCEPT ![m[1]] = m[2]] /\ messages' = Tail(messages)
        /\ UNCHANGED <<indicator, loop>> /\ loop = "take"
    BY <1>5 DEF ConsumeResults
  <2>2. m \in Zones \X Statuses /\ messages' \in Seq(Zones \X Statuses)
    BY <1>2, <1>5, <2>1
  <2>3. /\ statuses' \in [Zones -> Statuses \cup {None}]
        /\ \A y \in Zones : /\ m[1] = y => statuses'[y] = m[2]
                            /\ m[1] # y => statuses'[y] = statuses[y]
    <3> HIDE DEF m
    <3> QED
      BY <1>2, <2>1, <2>2
  <2>4. RefreshTypes'
    BY <1>1, <2>1, <2>2, <2>3 DEF RefreshTypes
  <2>5. ASSUME NEW y \in Zones, Arrives(y) PROVE Arrives(y)'
    <3>1. Arriving(messages, statuses[y], y, asked[y])
      BY <2>5 DEF Arrives
    <3>2. Arriving(Tail(messages), statuses'[y], y, asked[y])
      BY <1>2, <1>5, <2>3, <3>1, Taken
    <3> QED
      BY <1>1, <2>1, <3>2 DEF Arrives
  <2>6. indicator /\ (loop' # "empty")
    BY <1>5, <2>1 DEF RefreshInv, RefreshTypes
  <2> QED
    BY <1>1, <2>1, <2>4, <2>5, <2>6 DEF RefreshInv, At
<1> QED
  BY <1>3, <1>4, <1>5 DEF MainLoop

\* At the end of the program nothing is shown any more.
LEMMA DeathKeeps ==
    ASSUME RefreshTypes, RefreshInv, Dies, ~At("list"),
           UNCHANGED <<version, statuses, messages, indicator, loop, asked>>
    PROVE  RefreshTypes' /\ RefreshInv'
<1>1. /\ At("dead")' /\ worker' = [worker EXCEPT !.alive = FALSE] /\ loop = "take"
      /\ worker \in [alive : BOOLEAN, left : SUBSET Zones,
                     read : [Zones -> Statuses \cup {None}]]
  BY DEF Dies, Show, At, RefreshInv, RefreshTypes
<1>2. /\ worker' \in [alive : BOOLEAN, left : SUBSET Zones,
                      read : [Zones -> Statuses \cup {None}]]
      /\ ~worker'.alive
  BY <1>1
<1>3. RefreshTypes'
  BY <1>2 DEF RefreshTypes
<1> QED
  BY <1>1, <1>2, <1>3 DEF RefreshInv

\* An apply() counts the writing of a zone file.
LEMMA VersionGrows ==
    ASSUME RefreshTypes,
           \/ UNCHANGED version
           \/ \E z \in Zones : version' = [version EXCEPT ![z] = @ + 1]
    PROVE  version' \in [Zones -> Nat] /\ \A z \in Zones : version[z] <= version'[z]
<1>1. version \in [Zones -> Nat]
  BY DEF RefreshTypes
<1>2. CASE UNCHANGED version
  BY <1>1, <1>2
<1>3. ASSUME NEW z \in Zones, version' = [version EXCEPT ![z] = @ + 1]
      PROVE  version' \in [Zones -> Nat] /\ \A y \in Zones : version[y] <= version'[y]
  BY <1>1, <1>3
<1> QED
  BY <1>2, <1>3

\* The keys of the list.
LEMMA ListRefreshes ==
    ASSUME RefreshTypes, RefreshInv, ListKeys
    PROVE  RefreshTypes' /\ RefreshInv'
<1>1. UNCHANGED <<version, statuses, messages>> /\ loop' = "take" /\ ~At("dead")
  BY DEF ListKeys, disk, At
<1>2. StartRefresh \/ UNCHANGED <<worker, indicator, asked>>
  BY DEF ListKeys, MoveSelection, Activate, ToggleMultiSelection, Search, Rearrange,
         OpenMulti, RefreshKey, ListChange
<1>3. version' \in [Zones -> Nat] /\ \A z \in Zones : version[z] <= version'[z]
  BY <1>1, VersionGrows
<1>4. statuses' \in [Zones -> Statuses \cup {None}]
  BY <1>1 DEF RefreshTypes
<1> QED
  BY <1>1, <1>2, <1>3, <1>4, RefreshGoesOn

\* A screen other than the list, which leaves the queue and the loop alone.
LEMMA ScreenRefreshes ==
    ASSUME RefreshTypes, RefreshInv, ~At("list"), ~At("dead"),
           UNCHANGED <<messages, loop>>,
           \/ UNCHANGED version
           \/ \E z \in Zones : version' = [version EXCEPT ![z] = @ + 1],
           \/ UNCHANGED statuses
           \/ UNCHANGED version /\ \E z \in Zones : statuses' = [statuses EXCEPT ![z] = Status(z)],
           StartRefresh \/ UNCHANGED <<worker, indicator, asked>>
    PROVE  RefreshTypes' /\ RefreshInv'
<1>1. loop' = "take"
  BY DEF RefreshInv
<1>2. statuses \in [Zones -> Statuses \cup {None}]
  BY DEF RefreshTypes
<1>3. /\ statuses' \in [Zones -> Statuses \cup {None}]
      /\ \A z \in Zones : statuses'[z] = statuses[z] \/ Recent(statuses'[z], asked[z])
  <2>1. CASE UNCHANGED statuses
    BY <1>2, <2>1
  <2>2. ASSUME NEW z \in Zones, statuses' = [statuses EXCEPT ![z] = Status(z)]
        PROVE  /\ statuses' \in [Zones -> Statuses \cup {None}]
               /\ \A y \in Zones : statuses'[y] = statuses[y] \/ Recent(statuses'[y], asked[y])
    BY <1>2, <2>2, StatusRecent
  <2> QED
    BY <2>1, <2>2
<1> QED
  BY <1>1, <1>3, VersionGrows, RefreshGoesOn

\* The keys of one zone.
LEMMA DomainRefreshes ==
    ASSUME RefreshTypes, RefreshInv, NEW z \in Zones, DomainKeys(z)
    PROVE  RefreshTypes' /\ RefreshInv'
<1>1. UNCHANGED <<version, messages, loop>> /\ ~At("list") /\ ~At("dead")
  BY DEF DomainKeys, disk, At
<1>2. statuses' = statuses \/ statuses' = [statuses EXCEPT ![z] = Status(z)]
  BY DEF DomainKeys
<1>3. StartRefresh \/ UNCHANGED <<worker, indicator, asked>>
  BY DEF DomainKeys
<1> QED
  BY <1>1, <1>2, <1>3, ScreenRefreshes

\* The records and the pending changes.
LEMMA RecordsRefresh ==
    ASSUME RefreshTypes, RefreshInv, EditTypes, NEW z \in Zones, session[z] # None,
           RecordsKeys(z) \/ PendingKeys(z)
    PROVE  RefreshTypes' /\ RefreshInv'
<1>1. ~At("list") /\ ~At("dead")
  BY DEF RecordsKeys, PendingKeys, At
<1>2. CASE AddRecord(z) \/ ReplaceRecord(z) \/ DeleteRecord(z) \/ BulkDelete(z) \/ BulkSet(z)
  <2>1. PICK es \in SUBSET Entries : Edit(z, es)
    BY <1>2, ChangesAreEdits
  <2>2. UNCHANGED <<version, statuses, messages, loop, worker, indicator, asked>>
    BY <2>1 DEF Edit, disk, screen
  <2> QED
    BY <1>1, <2>2, ScreenRefreshes
<1>3. CASE SaveRecords(z)
  <2>1. UNCHANGED <<statuses, messages, loop>>
    BY <1>3 DEF SaveRecords
  <2>2. UNCHANGED version \/ version' = [version EXCEPT ![z] = @ + 1]
    BY <1>3 DEF SaveRecords, Apply, disk
  <2>3. StartRefresh \/ UNCHANGED <<worker, indicator, asked>>
    BY <1>3 DEF SaveRecords
  <2> QED
    BY <1>1, <2>1, <2>2, <2>3, ScreenRefreshes
<1>4. CASE SavePending(z)
  <2>1. UNCHANGED <<statuses, messages, loop, worker, indicator, asked>>
    BY <1>4 DEF SavePending, screen
  <2>2. UNCHANGED version \/ version' = [version EXCEPT ![z] = @ + 1]
    BY <1>4 DEF SavePending, Apply, disk
  <2> QED
    BY <1>1, <2>1, <2>2, ScreenRefreshes
<1>5. CASE UndoKey(z) \/ QuitRecords(z)
  <2>1. UNCHANGED <<version, statuses, messages, loop, indicator, asked>>
    BY <1>5 DEF UndoKey, QuitRecords, disk, screen
  <2>2. Dies \/ UNCHANGED worker
    BY <1>5 DEF UndoKey, QuitRecords
  <2> QED
    BY <1>1, <2>1, <2>2, ScreenRefreshes, DeathKeeps
<1>6. CASE Switch("pending") \/ Switch("records")
  <2>1. UNCHANGED <<version, statuses, messages, loop, worker, indicator, asked>>
    BY <1>6 DEF Switch, disk, screen
  <2> QED
    BY <1>1, <2>1, ScreenRefreshes
<1> QED
  BY <1>2, <1>3, <1>4, <1>5, <1>6 DEF RecordsKeys, PendingKeys

\* The session over several zones.
LEMMA MultiRefreshes ==
    ASSUME RefreshTypes, RefreshInv, EditInv, OpenNext \/ MultiKeys
    PROVE  RefreshTypes' /\ RefreshInv'
<1>1. ~At("list") /\ ~At("dead")
  BY DEF OpenNext, MultiKeys, EnterZone, QuitMulti, SaveAll, ValidateNext, CommitNext,
         SaveAllRaises, At
<1>2. CASE OpenNext \/ EnterZone \/ SaveAll \/ ValidateNext
  <2>1. UNCHANGED <<version, statuses, messages, loop, worker, indicator, asked>>
    BY <1>2 DEF OpenNext, EnterZone, SaveAll, ValidateNext, disk, screen
  <2> QED
    BY <1>1, <2>1, ScreenRefreshes
<1>3. CASE QuitMulti \/ SaveAllRaises
  <2>1. UNCHANGED <<version, statuses, messages, loop, indicator, asked>>
    BY <1>3 DEF QuitMulti, SaveAllRaises, disk, screen
  <2>2. Dies \/ UNCHANGED worker
    BY <1>3 DEF QuitMulti, SaveAllRaises
  <2> QED
    BY <1>1, <2>1, <2>2, ScreenRefreshes, DeathKeeps
<1>4. CASE CommitNext
  <2> DEFINE z == First(saving.todo)
  <2>1. z \in Zones
    <3>1. saving.todo \in SUBSET Zones /\ saving.todo # {}
      BY <1>4 DEF CommitNext, EditInv, EditTypes, IsSaving
    <3> QED
      BY <3>1, FirstOf
  <2>2. UNCHANGED <<statuses, messages, loop>>
    BY <1>4 DEF CommitNext
  <2> HIDE DEF z
  <2>3. UNCHANGED version \/ version' = [version EXCEPT ![z] = @ + 1]
    BY <1>4 DEF CommitNext, Apply, disk, z
  <2>4. StartRefresh \/ UNCHANGED <<worker, indicator, asked>>
    BY <1>4 DEF CommitNext
  <2> QED
    BY <1>1, <2>1, <2>2, <2>3, <2>4, ScreenRefreshes
<1> QED
  BY <1>2, <1>3, <1>4 DEF MultiKeys

\* Others write files, which the screens do not notice.
LEMMA OthersRefresh ==
    ASSUME RefreshTypes, RefreshInv, Others
    PROVE  RefreshTypes' /\ RefreshInv'
<1>1. UNCHANGED <<statuses, messages, worker, indicator, asked, loop, view>>
  BY DEF Others, screen
<1>2. UNCHANGED version \/ \E z \in Zones : version' = [version EXCEPT ![z] = @ + 1]
  BY DEF Others, OtherWrites, OtherSession, disk
<1>3. statuses' \in [Zones -> Statuses \cup {None}] /\ (At("dead") => At("dead")')
  BY <1>1 DEF RefreshTypes, At
<1> QED
  BY <1>1, <1>2, <1>3, VersionGrows, RefreshGoesOn

\* The program starts with a refresh of all zones.
LEMMA InitRefreshes == Init => RefreshTypes /\ RefreshInv
<1> SUFFICES ASSUME Init PROVE RefreshTypes /\ RefreshInv
  OBVIOUS
<1>1. /\ version = [z \in Zones |-> 0] /\ asked = version
      /\ statuses = [z \in Zones |-> None]
      /\ worker = [alive |-> TRUE, left |-> Zones, read |-> [z \in Zones |-> None]]
      /\ messages = <<>> /\ indicator = TRUE /\ loop = "take"
  BY DEF Init
<1>2. RefreshTypes
  BY <1>1 DEF RefreshTypes
<1>3. RefreshInv
  BY <1>1 DEF RefreshInv
<1> QED
  BY <1>2, <1>3

\* Every step keeps the refresh right.
LEMMA StepRefreshes ==
    ASSUME EditInv, RefreshTypes, RefreshInv, [Next]_vars
    PROVE  RefreshTypes' /\ RefreshInv'
<1>1. CASE MainLoop \/ Worker \/ Others \/ ListKeys \/ OpenNext \/ MultiKeys
  BY <1>1, MainLoopKeeps, WorkerKeeps, OthersRefresh, ListRefreshes, MultiRefreshes
<1>2. ASSUME NEW z \in Zones, DomainKeys(z) \/ RecordsKeys(z) \/ PendingKeys(z)
      PROVE  RefreshTypes' /\ RefreshInv'
  <2>1. RecordsKeys(z) \/ PendingKeys(z) => session[z] # None
    BY DEF RecordsKeys, PendingKeys, EditInv, ScreenInv, At
  <2> QED
    BY <1>2, <2>1, DomainRefreshes, RecordsRefresh DEF EditInv
<1>3. CASE UNCHANGED vars
  BY <1>3 DEF vars, disk, screen, RefreshTypes, RefreshInv, Arrives, At
<1> QED
  BY <1>1, <1>2, <1>3 DEF Next, Keys

(* Theorems ****************************************************************)

\* The inductive invariant: screens, sessions and the refresh hold together.
EditorInvariant == EditInv /\ RefreshTypes /\ RefreshInv

\* Every reachable state satisfies it, whatever the order of keys, results and
\* writes of others (CursesApp._main, _refresh_worker, MultiZoneEditSession).
THEOREM Invariance == Spec => []EditorInvariant
<1>1. Init => EditorInvariant
  BY InitEdits, InitRefreshes DEF EditorInvariant
<1>2. EditorInvariant /\ [Next]_vars => EditorInvariant'
  BY StepEdits, StepRefreshes DEF EditorInvariant
<1> QED
  BY <1>1, <1>2, PTL DEF Spec

\* A session is open, and holds the lock of its zone, exactly where its screen is
\* (_records_view, _multi_zone_view).
THEOREM LocksFollow == Spec => []LocksFollowScreens
<1>1. EditorInvariant => LocksFollowScreens
  BY DEF EditorInvariant, EditInv, ScreenInv
<1> QED
  BY <1>1, Invariance, PTL

\* No step of saving costs changes that it does not write (ZoneEditSession.save,
\* MultiZoneEditSession.save_all).
THEOREM EditsSurvive == Spec => EditsKept
<1>1. EditorInvariant /\ [Next]_vars =>
        [Saves => \A z \in DirtyZones :
           \/ session'[z] # None /\ session'[z].entries = session[z].entries
           \/ file'[z] = Current(z)
           \/ z \in lied'
           \/ view.multi /\ view'.at = "dead"]_vars
  <2> SUFFICES ASSUME EditorInvariant, [Next]_vars, ~UNCHANGED vars
               PROVE  KeepsEdits
    BY DEF KeepsEdits
  <2> QED
    BY StepEdits DEF EditorInvariant
<1> QED
  BY <1>1, Invariance, PTL DEF Spec, EditsKept

\* A list that has stopped waiting shows states no older than the start of the last
\* refresh (_start_refresh, _consume_results, _complete_refresh_if_ready).
THEOREM StatesFresh == Spec => []StatusFresh
<1>1. EditorInvariant => StatusFresh
  <2> SUFFICES ASSUME EditorInvariant, At("list"), ~indicator, NEW z \in Zones
               PROVE  statuses[z] # None /\ statuses[z].version >= asked[z]
    BY DEF StatusFresh
  <2>1. messages = <<>> /\ ~worker.alive /\ ~At("dead")
    BY DEF EditorInvariant, RefreshInv, At
  <2>2. Arriving(<<>>, statuses[z], z, asked[z])
    BY <2>1 DEF EditorInvariant, RefreshInv, Arrives
  <2> QED
    BY <2>2 DEF Arriving, Recent
<1> QED
  BY <1>1, Invariance, PTL
=============================================================================
