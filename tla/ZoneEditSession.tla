-------------------------- MODULE ZoneEditSession --------------------------
(***************************************************************************)
(* One editing session of a zone (zone_edit_session.py): the edit buffer   *)
(* with its undo history (zone_model.py, bulk_operations.py), the document *)
(* of source lines (zone_document.py), the adapter that carries the edits  *)
(* into the document (zone_document_adapter.py), the automatic SOA serial  *)
(* (soa_serial.py) and what the writer renders (zone_writer.py). The       *)
(* transaction a save runs is an outcome (see TransactionEngine).          *)
(***************************************************************************)
EXTENDS Naturals, Sequences, FiniteSets, SequencesExt

CONSTANTS
    Data,         \* ordinary records: owner, type, TTL and value
    Timers,       \* an SOA record without its serial
    SingleLine,   \* whether the zone file has its SOA on one line
    PerDay,       \* serials of a day: 100
    MaxSerial,    \* 2^32 - 1
    MaxDay,       \* bound: days a behaviour takes
    MaxEdits,     \* bound: edits of a behaviour, those taken back included
    MaxNodes,     \* bound: records of the edit buffer, deleted ones included
    InitialFile,  \* the zone file at first
    None          \* "no value"

\* An ordinary record has no serial (0).
IsSOA(r) == r.data \in Timers

Ordinary(d) == [data |-> d, serial |-> 0]

Records == [data : Data, serial : {0}] \union [data : Timers, serial : 0..MaxSerial]

ASSUME EditAssumption ==
    /\ Data \intersect Timers = {}
    /\ SingleLine \in BOOLEAN
    /\ {PerDay, MaxSerial} \subseteq Nat \ {0}
    /\ {MaxDay, MaxEdits, MaxNodes} \subseteq Nat
    /\ None \notin Records
    /\ InitialFile \in Seq(Records)
    /\ Cardinality({i \in DOMAIN InitialFile : IsSOA(InitialFile[i])}) = 1

VARIABLES
    file,       \* the active zone file, a sequence of records
    model,      \* ZoneModel: entries, next identifier, undo history
    document,   \* ZoneDocument with the adapter's tables and the serial flag
    today,      \* the date the serial is made from
    touched,    \* history: the operator changed the SOA since the last load
    edits       \* edits made so far

vars == <<file, model, document, today, touched, edits>>

\* An entry of the edit buffer.
Entries == [id : Nat, original : Records \union {None},
            current : Records \union {None}]

\* RecordNode. raw is the record its source line says, None for an added one.
Nodes == [record : Records, raw : Records \union {None}, modified : BOOLEAN,
          deleted : BOOLEAN]

\* Node objects: 1..n are those of the n records loaded, the others are added.
Objects == Nat \ {0}

TypeOK ==
    /\ file \in Seq(Records)
    /\ model.entries \in Seq(Entries)
    /\ IsInjective([i \in DOMAIN model.entries |-> model.entries[i].id])
    /\ \A i \in DOMAIN model.entries : model.entries[i].id < model.next
    /\ document.order \in Seq(Objects)
    /\ IsInjective(document.order)
    /\ Range(document.order) \subseteq DOMAIN document.node
    /\ \A o \in DOMAIN document.node : document.node[o] \in Nodes
    /\ {document.prepared, document.confused} \subseteq BOOLEAN
    /\ today \in 0..MaxDay
    /\ touched \in BOOLEAN
    /\ edits \in 0..MaxEdits

(* The edit buffer *********************************************************)

\* _load(): a new document, a new model, a new adapter.
Loaded(f) ==
    /\ model' = [entries |-> [i \in DOMAIN f |->
                                [id |-> i, original |-> f[i], current |-> f[i]]],
                 next |-> Len(f) + 1, undo |-> <<>>]
    /\ document' =
          [order |-> [i \in DOMAIN f |-> i],
           node |-> [i \in DOMAIN f |-> [record |-> f[i], raw |-> f[i],
                                         modified |-> FALSE, deleted |-> FALSE]],
           added |-> <<>>, prepared |-> FALSE, confused |-> FALSE]
    /\ touched' = FALSE

Kind(e) ==
    CASE e.original = None        -> "add"
      [] e.current = None         -> "delete"
      [] e.original # e.current   -> "modify"
      [] OTHER                    -> "none"

Dirty == \E i \in DOMAIN model.entries : Kind(model.entries[i]) # "none"

\* What the operator sees in the editor, apart from deleted records.
Shown ==
    LET visible == SelectSeq(model.entries, LAMBDA e : e.current # None)
    IN [i \in DOMAIN visible |-> visible[i].current]

Visible == {e \in Range(model.entries) : e.current # None}

Remembered(m) == Append(m.undo, [entries |-> m.entries, next |-> m.next])

\* entries becomes es; SOA says whether the SOA is among what changes.
Edited(es, next, changesSOA) ==
    /\ edits < MaxEdits
    /\ edits' = edits + 1
    /\ model' = [entries |-> es, next |-> next, undo |-> Remembered(model)]
    /\ touched' = (touched \/ changesSOA)
    /\ UNCHANGED <<file, document, today>>

Add(d) ==
    /\ Len(model.entries) < MaxNodes /\ Len(document.order) <= MaxNodes
    /\ Edited(Append(model.entries, [id |-> model.next, original |-> None,
                                     current |-> Ordinary(d)]),
              model.next + 1, FALSE)

\* One record in the editor, or those a SELECT ... SET selects; records that
\* are d already are not changed.
Replace(chosen, d) ==
    LET change == {e \in chosen : e.current # Ordinary(d)} IN
    /\ \A e \in chosen : ~IsSOA(e.current)
    /\ change # {}
    /\ Edited([i \in DOMAIN model.entries |->
                  IF model.entries[i] \in change
                  THEN [model.entries[i] EXCEPT !.current = Ordinary(d)]
                  ELSE model.entries[i]],
              model.next, FALSE)

\* The SOA form keeps the serial of the record it is opened on.
ReplaceSOA(e, t) ==
    /\ IsSOA(e.current) /\ e.current.data # t
    /\ Edited([i \in DOMAIN model.entries |->
                  IF model.entries[i] = e
                  THEN [e EXCEPT !.current.data = t]
                  ELSE model.entries[i]],
              model.next, TRUE)

\* One record, or those a SELECT ... DELETE selects; an added one leaves no entry.
Delete(chosen) ==
    LET left == SelectSeq(model.entries,
                          LAMBDA e : e \notin chosen \/ e.original # None) IN
    /\ chosen # {}
    /\ Edited([i \in DOMAIN left |->
                  IF left[i] \in chosen THEN [left[i] EXCEPT !.current = None]
                  ELSE left[i]],
              model.next, \E e \in chosen : IsSOA(e.current))

(* The document ************************************************************)

\* mutant: a record that is back is not taken off the deleted ones
Node_StaysDeleted(n, e) ==
    CASE Kind(e) = "delete" -> [n EXCEPT !.deleted = TRUE, !.modified = FALSE]
      [] Kind(e) = "modify" ->
            [n EXCEPT !.modified = TRUE,
                      !.record =
                          IF n.modified /\ IsSOA(n.record) /\ IsSOA(e.current)
                          THEN [e.current EXCEPT !.serial = n.record.serial]
                          ELSE e.current]
      [] OTHER -> [n EXCEPT !.modified = n.modified /\ IsSOA(n.record)]

\* mutant: an unchanged record is always rendered from its source line
Node_NeverKept(n, e) ==
    CASE Kind(e) = "delete" -> [n EXCEPT !.deleted = TRUE, !.modified = FALSE]
      [] Kind(e) = "modify" ->
            [n EXCEPT !.deleted = FALSE, !.modified = TRUE,
                      !.record =
                          IF n.modified /\ IsSOA(n.record) /\ IsSOA(e.current)
                          THEN [e.current EXCEPT !.serial = n.record.serial]
                          ELSE e.current]
      [] OTHER -> [n EXCEPT !.deleted = FALSE, !.modified = FALSE]

\* The node of a record of the file, after entry e was carried into it. An SOA
\* rendered before keeps its serial, and keeps its record when e has no change.
Node(n, e) ==
    CASE Kind(e) = "delete" -> [n EXCEPT !.deleted = TRUE, !.modified = FALSE]
      [] Kind(e) = "modify" ->
            [n EXCEPT !.deleted = FALSE, !.modified = TRUE,
                      !.record =
                          IF n.modified /\ IsSOA(n.record) /\ IsSOA(e.current)
                          THEN [e.current EXCEPT !.serial = n.record.serial]
                          ELSE e.current]
      [] OTHER -> [n EXCEPT !.deleted = FALSE,
                            !.modified = n.modified /\ IsSOA(n.record)]

AddedNode(r) == [record |-> r, raw |-> None, modified |-> TRUE, deleted |-> FALSE]

\* An object no table refers to.
Fresh(d) == CHOOSE o \in 1..(Cardinality(DOMAIN d.node) + 1) : o \notin DOMAIN d.node

\* _apply_add(): the node of the identifier, or a new one at the end.
PlaceAdded(d, e) ==
    IF \E a \in Range(d.added) : a.id = e.id
    THEN LET a == CHOOSE a \in Range(d.added) : a.id = e.id
         IN [d EXCEPT !.node[a.object] = AddedNode(e.current)]
    ELSE LET o == Fresh(d)
         IN [d EXCEPT !.order = Append(@, o),
                      !.node = @ @@ (o :> AddedNode(e.current)),
                      !.added = Append(@, [id |-> e.id, object |-> o])]

\* nodes.remove(node) removes the first node that is equal, which need not be
\* the same object: then the document and the table are confused.
RemoveAdded(d, a) ==
    LET equal == {i \in DOMAIN d.order : d.node[d.order[i]] = d.node[a.object]}
        first == CHOOSE i \in equal : \A j \in equal : i <= j
    IN IF equal = {} THEN d
       ELSE [d EXCEPT !.order = RemoveAt(@, first),
                      !.confused = @ \/ d.order[first] # a.object]

\* adapter.apply(): bound nodes, then added ones, then abandoned ones; objects
\* nothing refers to any more are forgotten.
Applied(d, entries) ==
    LET bound == [o \in DOMAIN d.node |->
                     IF \E e \in Range(entries) : e.id = o /\ e.original # None
                     THEN Node(d.node[o],
                               CHOOSE e \in Range(entries) : e.id = o)
                     ELSE d.node[o]]
        new == SelectSeq(entries, LAMBDA e : e.original = None)
        placed == FoldLeft(PlaceAdded, [d EXCEPT !.node = bound], new)
        gone(a) == \A e \in Range(new) : e.id # a.id
        cleared == FoldLeft(RemoveAdded, placed, SelectSeq(placed.added, gone))
        added == SelectSeq(placed.added, LAMBDA a : ~gone(a))
        used == Range(cleared.order) \union {a.object : a \in Range(added)}
    IN [cleared EXCEPT !.added = added,
                       !.node = [o \in used |-> cleared.node[o]]]

(* The serial **************************************************************)

\* mutant: the first serial of the day is given twice
NextSerial_Twice(current, day) ==
    LET base == day * PerDay + 1
    IN IF current > base THEN current + 1 ELSE base

\* RRRRMMDD01 of the day, or the next number.
NextSerial(current, day) ==
    LET base == day * PerDay + 1
    IN IF current >= base THEN current + 1 ELSE base

\* The first SOA in the document, deleted or not.
SOAs(d) == {i \in DOMAIN d.order : IsSOA(d.node[d.order[i]].record)}

SOAObject(d) == d.order[CHOOSE i \in SOAs(d) : \A j \in SOAs(d) : i <= j]

NewSerial(d) == NextSerial(d.node[SOAObject(d)].record.serial, today)

\* bump_document_soa_serial(): an SOA on one line that is not edited gets its
\* serial in the source line, another one is rendered from its record.
Bumped(d) ==
    IF SOAs(d) = {} THEN [d EXCEPT !.prepared = TRUE]
    ELSE LET n == d.node[SOAObject(d)] IN
         [d EXCEPT !.prepared = TRUE,
                   !.node[SOAObject(d)] =
                       [n EXCEPT
                           !.record.serial = NewSerial(d),
                           !.raw.serial = IF SingleLine /\ ~n.modified
                                          THEN NewSerial(d) ELSE @,
                           !.modified = n.modified \/ ~SingleLine]]

NeedsSerial == Dirty /\ ~document.prepared

\* bump_document_soa_serial() raises at the 32 bit limit.
Raises(d) == NeedsSerial /\ SOAs(d) # {} /\ NewSerial(d) > MaxSerial

\* _prepare_document()
Prepared ==
    LET d == Applied(document, model.entries)
    IN IF NeedsSerial /\ ~Raises(d) THEN Bumped(d) ELSE d

\* render_document(): what the file would hold.
Rendered(d) ==
    LET live == SelectSeq(d.order, LAMBDA o : ~d.node[o].deleted)
    IN [i \in DOMAIN live |-> IF d.node[live[i]].modified
                              THEN d.node[live[i]].record
                              ELSE d.node[live[i]].raw]

Candidate == Rendered(Prepared)

(* Session *****************************************************************)

\* The diff view, an export, a dry-run or a failed save: the document is
\* prepared, even if the serial then raises, and nothing else changes. A save
\* whose candidate is the active file reports NO-CHANGE.
Preview ==
    /\ document' = Prepared
    /\ UNCHANGED <<file, model, today, touched, edits>>

\* named-checkzone accepts a zone with exactly one SOA.
Acceptable(f) == Cardinality({i \in DOMAIN f : IsSOA(f[i])}) = 1

CanSave ==
    /\ ~Raises(Applied(document, model.entries))
    /\ Acceptable(Candidate)
    /\ Candidate # file

\* COMMIT: the session reads the file it wrote.
Save ==
    /\ CanSave
    /\ file' = Candidate
    /\ Loaded(Candidate)
    /\ UNCHANGED <<today, edits>>

\* ROLLBACK-FAILED: the file was replaced and the result is not committed.
SaveStuck ==
    /\ CanSave
    /\ file' = Candidate
    /\ document' = Prepared
    /\ UNCHANGED <<model, today, touched, edits>>

\* discard(), reload(), and a save that was rolled back because its report could
\* not be written: its result still says committed.
Reload ==
    /\ Loaded(file)
    /\ UNCHANGED <<file, today, edits>>

\* The last edit is taken back; without any edit left the file is read again.
Undo ==
    /\ model.undo # <<>>
    /\ LET m == Last(model.undo)
           clean == \A i \in DOMAIN m.entries : Kind(m.entries[i]) = "none"
       IN IF clean THEN Loaded(file)
          ELSE /\ model' = [entries |-> m.entries, next |-> m.next,
                            undo |-> Front(model.undo)]
               /\ UNCHANGED <<document, touched>>
    /\ UNCHANGED <<file, today, edits>>

NextDay ==
    /\ today < MaxDay
    /\ today' = today + 1
    /\ UNCHANGED <<file, model, document, touched, edits>>

Init ==
    /\ file = InitialFile
    /\ model = [entries |-> [i \in DOMAIN file |->
                   [id |-> i, original |-> file[i], current |-> file[i]]],
                next |-> Len(file) + 1, undo |-> <<>>]
    /\ document =
          [order |-> [i \in DOMAIN file |-> i],
           node |-> [i \in DOMAIN file |->
                       [record |-> file[i], raw |-> file[i],
                        modified |-> FALSE, deleted |-> FALSE]],
           added |-> <<>>, prepared |-> FALSE, confused |-> FALSE]
    /\ today = 0
    /\ touched = FALSE
    /\ edits = 0

Edit ==
    \/ \E d \in Data : Add(d)
    \/ \E chosen \in SUBSET Visible, d \in Data : Replace(chosen, d)
    \/ \E e \in Visible, t \in Timers : ReplaceSOA(e, t)
    \/ \E chosen \in SUBSET Visible : Delete(chosen)

Next ==
    \/ Edit \/ Undo
    \/ Preview \/ Save \/ SaveStuck \/ Reload
    \/ NextDay

Spec == Init /\ [][Next]_vars

(* Properties **************************************************************)

Copies(f, r) == Cardinality({i \in DOMAIN f : f[i] = r})

\* What would be saved is what the editor shows: the same ordinary records, as
\* often, and a pending change of the SOA, after any edits, undos and previews
\* ("identical records that occur more than once are handled correctly",
\* zone_document_adapter.py). Up to the first preview that removes another added
\* record than the one that was deleted.
CandidateIsShown ==
    document.confused \/
    LET candidate == Candidate IN
    /\ \A d \in Data : Copies(candidate, Ordinary(d)) = Copies(Shown, Ordinary(d))
    /\ \A e \in Range(model.entries) :
          e.original # None /\ IsSOA(e.original) =>
            CASE Kind(e) = "delete" -> ~\E r \in Range(candidate) : IsSOA(r)
              [] Kind(e) = "modify" -> \E r \in Range(candidate) : r.data = e.current.data
              [] OTHER -> TRUE

SOASerial(f) == (CHOOSE r \in Range(f) : IsSOA(r)).serial

\* A changed zone would be saved with a serial above the one it was loaded with,
\* whatever previews, failed saves, undos and days came before, as long as the
\* operator has left the SOA alone.
SerialAdvances ==
    Dirty /\ ~touched /\ ~Raises(Applied(document, model.entries)) =>
        \A e \in Range(model.entries) :
            e.original # None /\ IsSOA(e.original) =>
                SOASerial(Candidate) > e.original.serial

\* "The method may be executed many times": a second preview shows what the
\* first one did, and a save writes what the preview showed.
PreviewIsStable ==
    LET d == Prepared IN
    Rendered(Applied(d, model.entries)) = Rendered(d)

=============================================================================
