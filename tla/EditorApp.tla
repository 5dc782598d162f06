------------------------------ MODULE EditorApp ------------------------------
(* The curses program: the list of zones with the background thread that     *)
(* collects their states, the editing of one zone and the session over       *)
(* several zones (curses_app.py, multi_zone_session.py, zone_edit_session.py *)
(* and bulk_operations.py).  The screens form one thread of control; beside  *)
(* it run the refresh thread, other sessions and whoever writes zone files.  *)
(* An apply() is one step here: TransactionEngine has its inside.            *)
EXTENDS RecordValidation, Sequences, SequencesExt

CONSTANTS
    Order,       \* all_zones: the zones in the order of their names
    Group,       \* zone -> its group
    Records,     \* the records a zone may hold
    Contents,    \* what zone files hold at first and what others write
    Faults,      \* subset of {"command", "io", "report"}
    Limits,      \* how often there may be an "edit", "save", list "key", "other" write, "all" of them
    Gone,        \* no zone file
    None

Zones == ToSet(Order)
Kinds == {"edit", "save", "key", "other", "all"}

\* A record on disk and what has become of it; a check of a zone.
Entries == (Records \cup {None}) \X (Records \cup {None})
Sessions == [entries : SUBSET Entries, undo : Seq(SUBSET Entries)]
Statuses == [version : Nat, fail : BOOLEAN]

ASSUME EditorAssumption ==
    /\ Order \in Seq(Zones)
    /\ Contents \subseteq SUBSET Records
    /\ \A recs \in SUBSET Records : recs # Gone
    /\ None \notin Sessions \cup Statuses
    /\ Faults \subseteq {"command", "io", "report"}
    /\ Limits \in [Kinds -> Nat]

VARIABLES
    file,        \* zone -> its records on disk, or Gone
    version,     \* zone -> how often its file was written
    lock,        \* zone -> "free", "app" or "other": who edits it
    session,     \* zone -> the open ZoneEditSession or None
    view,        \* [at, zone, multi]: the screen
    saving,      \* save_all in progress: [phase, todo]
    lied,        \* history: zones whose rolled-back apply said committed
    list,        \* the main screen
    statuses,    \* zone -> the state shown, or None
    worker,      \* the refresh thread: [alive, left, read]
    messages,    \* the queue from the thread to the screen
    indicator,   \* a refresh is being waited for
    loop,        \* where the main loop is
    asked,       \* history: the versions when the last refresh started
    left         \* what remains of the limits

disk == <<file, version>>
edit == <<lock, session, saving, lied>>
screen == <<list, statuses, messages, indicator, loop>>
vars == <<disk, edit, view, screen, worker, asked, left>>

At(place) == view.at = place
May(kind) == left[kind] > 0 /\ left.all > 0
Spend(kind) ==
    /\ May(kind)
    /\ left' = [left EXCEPT ![kind] = @ - 1, !.all = @ - 1]

(* One editing session *****************************************************)

\* The model: pairs of the record on disk and the present one, None for none.
Load(recs) == [entries |-> {<<r, r>> : r \in recs}, undo |-> <<>>]

Current(z) == {e[2] : e \in {x \in session[z].entries : x[2] # None}}
Dirty(z) == session[z] # None /\ \E e \in session[z].entries : e[1] # e[2]
DirtyZones == {z \in Zones : Dirty(z)}

\* named-checkzone takes these records.
Loadable(recs) == RecordIssues(recs) \cup ApexIssues(recs) \cup AliasIssues(recs) = {}

\* A change that brings an error with a key the zone does not have yet is
\* refused; the operator agrees to new warnings.
Approved(old, new) == Errors(new) \subseteq Issues(old)

\* The entries change and can be taken back.
Edit(z, entries) ==
    /\ Spend("edit")
    /\ session' = [session EXCEPT ![z] = [entries |-> entries,
                                         undo |-> Append(@.undo, @.entries)]]
    /\ UNCHANGED <<disk, lock, saving, lied, view, screen, worker, asked>>

ApprovedEdit(z, entries) ==
    /\ Approved(Current(z), {e[2] : e \in {x \in entries : x[2] # None}})
    /\ Edit(z, entries)

Fresh(z) == Records \ UNION {{e[1], e[2]} : e \in session[z].entries}
Present(z) == {e \in session[z].entries : e[2] # None}

\* A deleted entry that was never on disk disappears.
Removed(entries, gone) ==
    (entries \ gone) \cup {<<e[1], None>> : e \in {x \in gone : x[1] # None}}

\* What the forms can be left with, besides nothing: they stay until the type is
\* known, the TTL in its range and the data valid.
Built(z) == Fresh(z) \ Malformed

CreateRecordDialog(z) == Built(z)

\* The SOA has a form of its own, without owner and type.
EditSoaDialog(z, r) == {new \in Built(z) : new.owner = r.owner /\ new.type = "SOA"}

EditRecordDialog(z, r) == IF r.type = "SOA" THEN EditSoaDialog(z, r) ELSE Built(z)

AddRecord(z) ==
    \E r \in CreateRecordDialog(z) : ApprovedEdit(z, session[z].entries \cup {<<None, r>>})

ReplaceRecord(z) ==
    \E e \in Present(z) : \E r \in EditRecordDialog(z, e[2]) :
        ApprovedEdit(z, (session[z].entries \ {e}) \cup {<<e[1], r>>})

\* F8 asks for no approval.
DeleteRecord(z) ==
    \E e \in Present(z) : Edit(z, Removed(session[z].entries, {e}))

\* SELECT ... DELETE and SELECT ... SET value=...: all matches in one step.
BulkDelete(z) ==
    \E gone \in (SUBSET Present(z)) \ {{}} : ApprovedEdit(z, Removed(session[z].entries, gone))

BulkSet(z) ==
    \E match \in SUBSET Present(z), target \in Owners :
        LET to == [e \in match |-> <<e[1], [e[2] EXCEPT !.target = target]>>]
            new == {to[e] : e \in match}
        IN /\ \A e \in match : e[2].type \in {"CNAME", "MX"}
           /\ \A e \in match : to[e] = e \/ to[e][2] \in Fresh(z) \ Malformed
           /\ new # match /\ Cardinality(new) = Cardinality(match)
           /\ ApprovedEdit(z, (session[z].entries \ match) \cup new)

(* Screens, sessions and their end *****************************************)

Show(place, z, multi) == view' = [at |-> place, zone |-> z, multi |-> multi]

\* All sessions are closed and their locks free, or the process is dead.
CloseAll ==
    /\ session' = [z \in Zones |-> None]
    /\ lock' = [z \in Zones |-> IF lock[z] = "app" THEN "free" ELSE lock[z]]

\* An exception nobody catches: curses ends, the kernel frees the locks.
Dies ==
    /\ CloseAll
    /\ Show("dead", None, FALSE)
    /\ saving' = None
    /\ worker' = [worker EXCEPT !.alive = FALSE]

Close(z) ==
    /\ session' = [session EXCEPT ![z] = None]
    /\ lock' = [lock EXCEPT ![z] = "free"]

\* acquire() and _load(): a missing file gives the lock back.
Open(z) ==
    /\ lock[z] = "free" /\ file[z] # Gone
    /\ lock' = [lock EXCEPT ![z] = "app"]
    /\ session' = [session EXCEPT ![z] = Load(file[z])]

\* A second refresh is not begun while the thread of the first one lives.
StartRefresh ==
    IF worker.alive THEN UNCHANGED <<worker, indicator, asked>>
    ELSE /\ worker' = [alive |-> TRUE, left |-> Zones, read |-> [z \in Zones |-> None]]
         /\ indicator' = TRUE
         /\ asked' = version'

(* Saving ******************************************************************)

\* What apply() may end with, and what of it is reported as committed. The serial
\* is no record here: files of equal records may differ, and then are written.
Outcomes(z) ==
    LET written == file[z] # Gone /\ Loadable(Current(z))
    IN (IF written THEN {"COMMIT"} ELSE {"REFUSED"})
       \cup (IF written /\ file[z] = Current(z) THEN {"NO-CHANGE"} ELSE {})
       \cup (IF "command" \in Faults THEN {"REFUSED"} ELSE {})
       \cup (IF "command" \in Faults /\ written THEN {"ROLLED-BACK", "ROLLBACK-FAILED"} ELSE {})
       \cup (IF "report" \in Faults /\ written THEN {"FALSE-COMMIT"} ELSE {})

Committed(out) == out \in {"COMMIT", "FALSE-COMMIT"}

\* Mutant: a save that was rolled back reads the zone again as well.
Reloads_Always(out) == out # "REFUSED"

\* save() reads the file again after a commit, the screen also when nothing
\* had to be changed.
Reloads(out) == Committed(out)

Apply(z, out) ==
    /\ out \in Outcomes(z)
    /\ IF out \in {"COMMIT", "ROLLBACK-FAILED"}
       THEN /\ file' = [file EXCEPT ![z] = Current(z)]
            /\ version' = [version EXCEPT ![z] = @ + 1]
       ELSE UNCHANGED disk
    /\ lied' = IF out = "FALSE-COMMIT" THEN lied \cup {z} ELSE lied

\* F2 in the records: saved or unchanged, the zone is read again and a refresh
\* begins; otherwise, and when the candidate cannot be written, nothing changes.
SaveRecords(z) ==
    /\ At("records") /\ Dirty(z) /\ Spend("save")
    /\ \/ \E out \in Outcomes(z) :
            /\ Apply(z, out)
            /\ IF Reloads(out) \/ out = "NO-CHANGE"
               THEN /\ session' = [session EXCEPT ![z] = Load(file'[z])]
                    /\ StartRefresh
               ELSE UNCHANGED <<session, worker, indicator, asked>>
       \/ "io" \in Faults /\ UNCHANGED <<disk, lied, session, worker, indicator, asked>>
    /\ UNCHANGED <<lock, saving, view, list, statuses, messages, loop>>

\* F2 in the list of pending changes: back to the records, without a refresh.
SavePending(z) ==
    /\ At("pending") /\ Dirty(z) /\ Spend("save")
    /\ \/ \E out \in Outcomes(z) :
            /\ Apply(z, out)
            /\ IF Reloads(out) \/ out = "NO-CHANGE"
               THEN /\ session' = [session EXCEPT ![z] = Load(file'[z])]
                    /\ Show("records", z, view.multi)
               ELSE UNCHANGED <<session, view>>
       \/ "io" \in Faults /\ UNCHANGED <<disk, lied, session, view>>
    /\ UNCHANGED <<lock, saving, screen, worker, asked>>

\* save_all: every zone with changes is validated in the order of the list,
\* then one after the other is saved.
First(zones) ==
    Order[CHOOSE i \in DOMAIN Order :
             Order[i] \in zones /\ \A j \in 1 .. (i - 1) : Order[j] \notin zones]

SaveAll ==
    /\ At("multi") /\ DirtyZones # {} /\ Spend("save")
    /\ saving' = [phase |-> "validate", todo |-> DirtyZones]
    /\ Show("saving", None, TRUE)
    /\ UNCHANGED <<disk, lock, session, lied, screen, worker, asked>>

ValidateNext ==
    /\ At("saving") /\ saving.phase = "validate"
    /\ LET z == First(saving.todo)
       IN \E ok \in BOOLEAN :
             /\ ok => file[z] # Gone /\ Loadable(Current(z))
             /\ ~ok => "REFUSED" \in Outcomes(z)
             /\ IF ~ok THEN saving' = None /\ Show("multi", None, TRUE)
                ELSE /\ saving' = IF saving.todo = {z}
                                  THEN [phase |-> "commit", todo |-> DirtyZones]
                                  ELSE [saving EXCEPT !.todo = @ \ {z}]
                     /\ UNCHANGED view
    /\ UNCHANGED <<disk, lock, session, lied, screen, worker, asked, left>>

\* The first save that is neither committed nor without a change ends it; a
\* session without a change is not read again.
CommitNext ==
    /\ At("saving") /\ saving.phase = "commit"
    /\ LET z == First(saving.todo)
       IN \E out \in Outcomes(z) :
             /\ Apply(z, out)
             /\ session' = IF Reloads(out) THEN [session EXCEPT ![z] = Load(file'[z])]
                           ELSE session
             /\ IF ~Committed(out) /\ out # "NO-CHANGE"
                THEN /\ saving' = None /\ Show("multi", None, TRUE)
                     /\ UNCHANGED <<worker, indicator, asked>>
                ELSE IF saving.todo = {z}
                THEN /\ saving' = None /\ Show("multi", None, TRUE)
                     /\ StartRefresh
                ELSE /\ saving' = [saving EXCEPT !.todo = @ \ {z}]
                     /\ UNCHANGED <<view, worker, indicator, asked>>
    /\ UNCHANGED <<lock, list, statuses, messages, loop, left>>

\* A candidate that cannot be written: nothing catches it.
SaveAllRaises ==
    /\ At("saving") /\ "io" \in Faults
    /\ Dies
    /\ UNCHANGED <<disk, lied, screen, asked, left>>

(* The records and the pending changes *************************************)

UndoKey(z) ==
    /\ session[z].undo # <<>>
    /\ LET s == session[z]
           before == [s EXCEPT !.entries = Last(s.undo), !.undo = Front(@)]
           changed == \E e \in before.entries : e[1] # e[2]
       IN IF ~changed /\ file[z] = Gone
          THEN Dies
          ELSE /\ session' = [session EXCEPT ![z] = IF changed THEN before ELSE Load(file[z])]
               /\ Show("records", z, view.multi)
               /\ UNCHANGED <<lock, saving, worker>>
    /\ UNCHANGED <<disk, lied, screen, asked, left>>

\* q: one zone alone is closed, after its changes were given up; in a session
\* over several zones the screen of all of them comes back.
QuitRecords(z) ==
    /\ IF view.multi
       THEN Show("multi", None, TRUE) /\ UNCHANGED <<lock, session, saving, worker>>
       ELSE IF Dirty(z) /\ file[z] = Gone
       THEN Dies
       ELSE Close(z) /\ Show("domain", z, FALSE) /\ UNCHANGED <<saving, worker>>
    /\ UNCHANGED <<disk, lied, screen, asked, left>>

Switch(place) ==
    /\ Show(place, view.zone, view.multi)
    /\ UNCHANGED <<disk, edit, screen, worker, asked, left>>

RecordsKeys(z) ==
    /\ At("records") /\ view.zone = z
    /\ \/ /\ May("edit")
          /\ AddRecord(z) \/ ReplaceRecord(z) \/ DeleteRecord(z) \/ BulkDelete(z) \/ BulkSet(z)
       \/ SaveRecords(z) \/ UndoKey(z) \/ QuitRecords(z) \/ Switch("pending")

PendingKeys(z) ==
    /\ At("pending") /\ view.zone = z
    /\ SavePending(z) \/ UndoKey(z) \/ Switch("records")

(* The session over several zones ******************************************)

\* Mutant: the zones opened before one that is edited elsewhere stay open.
OpenFails_KeepsRest == UNCHANGED <<lock, session>>

OpenFails == CloseAll

\* The marked zones are opened in their order; one failure closes them all.
OpenNext ==
    /\ At("opening")
    /\ LET rest == {z \in list.marked : session[z] = None}
       IN IF rest = {}
          THEN Show("multi", None, TRUE) /\ UNCHANGED <<lock, session>>
          ELSE LET z == First(rest)
               IN \/ Open(z) /\ UNCHANGED view
                  \/ /\ lock[z] # "free" \/ file[z] = Gone
                     /\ OpenFails /\ Show("list", None, FALSE)
    /\ UNCHANGED <<disk, saving, lied, screen, worker, asked, left>>

EnterZone ==
    /\ At("multi")
    /\ \E z \in list.marked : Show("records", z, TRUE)
    /\ UNCHANGED <<disk, edit, screen, worker, asked, left>>

\* The sessions are closed one by one; one with changes reads its file first.
QuitMulti ==
    /\ At("multi")
    /\ IF \E z \in DirtyZones : file[z] = Gone
       THEN Dies
       ELSE CloseAll /\ Show("list", None, FALSE) /\ UNCHANGED <<saving, worker>>
    /\ UNCHANGED <<disk, lied, screen, asked, left>>

MultiKeys == EnterZone \/ QuitMulti \/ SaveAll \/ ValidateNext \/ CommitNext \/ SaveAllRaises

(* One zone ****************************************************************)

\* What a check of the zone finds: how old it is, and a failure if the file is
\* missing or does not load, so that named has no SOA to answer with. That named
\* may still serve an earlier file, and the secondary servers, are left out.
Status(z) == [version |-> version[z], fail |-> file[z] = Gone \/ ~Loadable(file[z])]

\* Back to the list; F3 opens the records; r checks the zone; F6 checks it after
\* a relocation and begins a refresh.
DomainKeys(z) ==
    /\ At("domain") /\ view.zone = z
    /\ UNCHANGED <<disk, saving, lied, list, messages, loop>>
    /\ \/ /\ Show("list", None, FALSE)
          /\ UNCHANGED <<lock, session, statuses, worker, indicator, asked, left>>
       \/ /\ Open(z)
          /\ Show("records", z, FALSE)
          /\ UNCHANGED <<statuses, worker, indicator, asked, left>>
       \/ /\ statuses' = [statuses EXCEPT ![z] = Status(z)]
          /\ UNCHANGED <<lock, session, view>>
          /\ \/ UNCHANGED <<worker, indicator, asked, left>>
             \/ Spend("key") /\ StartRefresh

(* The list ****************************************************************)

\* The place of a zone in the list: by name, or the failing ones first.
Rank(sort, z) ==
    CASE sort = "A-Z" -> 0
      [] statuses[z] = None -> 1
      [] statuses[z].fail -> 0
      [] OTHER -> 2

Sorted(sort, zones) ==
    SelectSeq(Order, LAMBDA z : z \in zones /\ Rank(sort, z) = 0)
    \o SelectSeq(Order, LAMBDA z : z \in zones /\ Rank(sort, z) = 1)
    \o SelectSeq(Order, LAMBDA z : z \in zones /\ Rank(sort, z) = 2)

ZoneRows(sort, zones) == [i \in 1 .. Cardinality(zones) |-> <<"zone", Sorted(sort, zones)[i]>>]

Groups == SetToSeq({Group[z] : z \in Zones})
Members(g, found) == {z \in found : Group[z] = g}

GroupRows(l, g) ==
    IF Members(g, l.query) = {} THEN <<>>
    ELSE <<<<"group", g>>>> \o IF g \in l.collapsed THEN <<>>
                                ELSE ZoneRows(l.sort, Members(g, l.query))

Rows(l) ==
    IF l.grouped THEN FlattenSeq([i \in 1 .. Len(Groups) |-> GroupRows(l, Groups[i])])
    ELSE ZoneRows(l.sort, l.query)

Selected == IF list.rows = <<>> THEN None ELSE list.rows[list.selected]
ZoneSelected == IF Selected # None /\ Selected[1] = "zone" THEN Selected ELSE None

LOCAL Least(m, n) == IF m < n THEN m ELSE n

\* Mutant: the new order leaves the selection at its line.
Rebuilt_KeepsLine(l, keep) ==
    LET rows == Rows(l)
    IN [l EXCEPT !.rows = rows, !.selected = Least(@, IF rows = <<>> THEN 1 ELSE Len(rows))]

\* The rows of the list; the selection stays with the zone to keep.
Rebuilt(l, keep) ==
    LET rows == Rows(l)
        last == IF rows = <<>> THEN 1 ELSE Len(rows)
    IN [l EXCEPT !.rows = rows,
                 !.selected = IF keep \in ToSet(rows)
                              THEN CHOOSE i \in DOMAIN rows : rows[i] = keep
                              ELSE Least(@, last)]

\* The loop takes what the thread has sent, looks whether it is over, draws
\* the list and waits for a key.
Redrawn == [IF list.changed /\ list.sort # "A-Z" THEN Rebuilt(list, ZoneSelected) ELSE list
            EXCEPT !.changed = FALSE]

ConsumeResults ==
    /\ At("list") /\ loop = "take"
    /\ IF messages = <<>>
       THEN loop' = "alive" /\ UNCHANGED <<list, statuses, messages>>
       ELSE /\ statuses' = [statuses EXCEPT ![Head(messages)[1]] = Head(messages)[2]]
            /\ messages' = Tail(messages)
            /\ list' = [list EXCEPT !.changed = TRUE]
            /\ UNCHANGED loop
    /\ UNCHANGED <<disk, edit, view, worker, indicator, asked, left>>

\* Mutant: the refresh is over when no result waits, though more may come.
Finished_NoMessages == messages = <<>>

Finished == ~worker.alive

\* _complete_refresh_if_ready(): is the thread dead, then: is its queue empty?
CheckWorker ==
    /\ At("list") /\ loop = "alive"
    /\ IF indicator /\ Finished THEN loop' = "empty" /\ UNCHANGED list
       ELSE loop' = "key" /\ list' = Redrawn
    /\ UNCHANGED <<disk, edit, view, statuses, messages, indicator, worker, asked, left>>

\* Mutant: one that finds its queue full is not looked at again.
StillWaiting_Always == TRUE

StillWaiting == messages # <<>>

CompleteRefresh ==
    /\ At("list") /\ loop = "empty"
    /\ indicator' = StillWaiting
    /\ loop' = "key"
    /\ list' = Redrawn
    /\ UNCHANGED <<disk, edit, view, statuses, messages, worker, asked, left>>

\* No key came, or the refresh makes the loop ignore it.
NoKey ==
    /\ At("list") /\ loop = "key"
    /\ loop' = "take"
    /\ UNCHANGED <<disk, edit, view, list, statuses, messages, indicator, worker, asked, left>>

ListChange(l) == list' = l /\ UNCHANGED <<worker, indicator, asked, view>>

\* Arrows, Home and End.
MoveSelection ==
    /\ \E i \in DOMAIN list.rows :
          /\ i \in {list.selected - 1, list.selected + 1}
             \/ list.rows[i][1] = "zone"
          /\ ListChange([list EXCEPT !.selected = i])
    /\ UNCHANGED left

\* A header is folded or unfolded; a zone is opened or marked.
Activate ==
    /\ Selected # None
    /\ IF Selected[1] = "group"
       THEN /\ Spend("key")
            /\ LET g == Selected[2]
                   l == [list EXCEPT !.collapsed = IF g \in @ THEN @ \ {g} ELSE @ \cup {g}]
               IN ListChange(Rebuilt(l, None))
       ELSE /\ \E z \in Zones : Selected = <<"zone", z>> /\ Show("domain", z, FALSE)
            /\ UNCHANGED <<list, worker, indicator, asked, left>>

ToggleMultiSelection ==
    /\ \E z \in Zones :
          /\ ZoneSelected = <<"zone", z>>
          /\ ListChange([list EXCEPT !.marked = IF z \in @ THEN @ \ {z} ELSE @ \cup {z}])
    /\ UNCHANGED left

\* A search, the next order, groups or no groups.
Search ==
    /\ Spend("key")
    /\ \E found \in SUBSET Zones :
          ListChange(Rebuilt([list EXCEPT !.query = found, !.selected = 1], None))

Rearrange ==
    /\ Spend("key")
    /\ \/ ListChange(Rebuilt([list EXCEPT !.sort = IF @ = "A-Z" THEN "Health" ELSE "A-Z"],
                             ZoneSelected))
       \/ ListChange(Rebuilt([list EXCEPT !.grouped = ~@], ZoneSelected))

OpenMulti ==
    /\ Cardinality(list.marked) > 1
    /\ Show("opening", None, TRUE)
    /\ UNCHANGED <<list, worker, indicator, asked, left>>

RefreshKey == Spend("key") /\ StartRefresh /\ UNCHANGED <<list, view>>

ListKeys ==
    /\ At("list") /\ loop = "key" /\ ~indicator
    /\ loop' = "take"
    /\ UNCHANGED <<disk, edit, statuses, messages>>
    /\ \/ MoveSelection \/ Activate \/ ToggleMultiSelection \/ Search \/ Rearrange
       \/ OpenMulti \/ RefreshKey

(* The refresh thread ******************************************************)

ReadStatus(z) ==
    /\ worker.alive /\ z \in worker.left /\ worker.read[z] = None
    /\ worker' = [worker EXCEPT !.read[z] = Status(z)]
    /\ UNCHANGED messages

PutStatus(z) ==
    /\ worker.alive /\ z \in worker.left /\ worker.read[z] # None
    /\ messages' = Append(messages, <<z, worker.read[z]>>)
    /\ worker' = [worker EXCEPT !.left = @ \ {z}, !.read[z] = None]

WorkerEnds ==
    /\ worker.alive /\ worker.left = {}
    /\ worker' = [worker EXCEPT !.alive = FALSE]
    /\ UNCHANGED messages

Worker ==
    /\ (\E z \in Zones : ReadStatus(z) \/ PutStatus(z)) \/ WorkerEnds
    /\ UNCHANGED <<disk, edit, view, list, statuses, indicator, loop, asked, left>>

(* Others ******************************************************************)

\* A rollback, another program or an administrator writes a zone file, a
\* command removes it, another session edits the zone.
OtherWrites ==
    /\ Spend("other")
    /\ \E z \in Zones, c \in Contents \cup {Gone} :
          /\ file[z] # c
          /\ file' = [file EXCEPT ![z] = c]
          /\ version' = [version EXCEPT ![z] = @ + 1]
    /\ UNCHANGED lock

OtherSession ==
    /\ \E z \in Zones :
          \/ lock[z] = "free" /\ Spend("other") /\ lock' = [lock EXCEPT ![z] = "other"]
          \/ lock[z] = "other" /\ lock' = [lock EXCEPT ![z] = "free"] /\ UNCHANGED left
    /\ UNCHANGED disk

Others ==
    /\ OtherWrites \/ OtherSession
    /\ UNCHANGED <<session, saving, lied, view, screen, worker, asked>>

MainLoop == ConsumeResults \/ CheckWorker \/ CompleteRefresh \/ NoKey

Keys ==
    \/ ListKeys \/ OpenNext \/ MultiKeys
    \/ \E z \in Zones : DomainKeys(z) \/ RecordsKeys(z) \/ PendingKeys(z)

Next == MainLoop \/ Keys \/ Worker \/ Others

Init ==
    /\ file \in [Zones -> Contents] /\ version = [z \in Zones |-> 0]
    /\ lock = [z \in Zones |-> "free"] /\ session = [z \in Zones |-> None]
    /\ view = [at |-> "list", zone |-> None, multi |-> FALSE]
    /\ saving = None /\ lied = {}
    /\ statuses = [z \in Zones |-> None]
    /\ list = LET l == [sort |-> "A-Z", grouped |-> TRUE, collapsed |-> {}, query |-> Zones,
                        marked |-> {}, changed |-> FALSE, selected |-> 1, rows |-> <<>>]
              IN Rebuilt(l, None)
    /\ worker = [alive |-> TRUE, left |-> Zones, read |-> [z \in Zones |-> None]]
    /\ messages = <<>> /\ indicator = TRUE /\ loop = "take"
    /\ asked = version /\ left = Limits

Spec == Init /\ [][Next]_vars
FairSpec == Spec /\ WF_vars(MainLoop) /\ WF_vars(Worker)

(* Properties **************************************************************)

\* A session is open exactly where its screen is, and holds the lock of its
\* zone: no exception, refused zone or early end leaves a lock or a session
\* behind, and no zone is edited without one (_records_view, _multi_zone_view).
LocksFollowScreens ==
    \A z \in Zones :
        /\ (session[z] # None) <=> (lock[z] = "app")
        /\ session[z] # None =>
             IF view.multi THEN z \in list.marked
             ELSE view.at \in {"records", "pending"} /\ view.zone = z
        /\ At("multi") /\ z \in list.marked => session[z] # None

\* Saving never costs unsaved changes: after every step of it a zone still has
\* them, or they are on disk; but for an apply() that was rolled back and says
\* that it committed, and for the end of the program when save_all cannot write
\* a candidate (save, save_all and the two keys F2).
Saves == left'.save # left.save \/ At("saving")
EditsKept ==
    [][Saves => \A z \in DirtyZones :
          \/ session'[z] # None /\ session'[z].entries = session[z].entries
          \/ file'[z] = Current(z)
          \/ z \in lied'
          \/ view.multi /\ view'.at = "dead"]_vars

\* Once the list stops waiting it shows of every zone a state no older than
\* the start of the last refresh, however results and keys were interleaved.
StatusFresh ==
    At("list") /\ ~indicator =>
        \A z \in Zones : statuses[z] # None /\ statuses[z].version >= asked[z]

\* Results that change the order of the list leave the selection on the same
\* line of it, zone or header: the next key acts on what the operator saw.
SelectionKept ==
    [][At("list") /\ loop \in {"alive", "empty"} /\ loop' = "key" => Selected' = Selected]_vars

\* The list does not ignore keys forever: every refresh it waits for ends.
ListUsable == (At("list") /\ indicator) ~> ~indicator
=============================================================================
