----------------------------- MODULE AuditStore -----------------------------
(***************************************************************************)
(* The audit v1 registry (audit_store.py) and the START and RESULT records *)
(* the two adapters write for every command (transaction_audit_adapter.py, *)
(* family_audit_adapter.py). The registry is a file of lines that many     *)
(* processes append to and retention rewrites, both under a flock on a     *)
(* file that is never removed; readers take no lock.                       *)
(***************************************************************************)
EXTENDS Naturals, Sequences, FiniteSets, SequencesExt

CONSTANTS
    Procs,        \* processes
    Resources,    \* zones, ACLs, ...: what a record is about
    Ids,          \* record ids: uuid4 values, compared as text
    Keep,         \* values of max_records retention is called with
    Faults,       \* what may go wrong: see FaultKinds
    MaxResults,   \* records a read returns at most (MAX_RESULTS)
    MaxTx,        \* bound: commands one process runs in a behaviour
    MaxSecond,    \* bound: the clock
    Junk,         \* a line that is not a record
    None          \* "no value"

\* disk: a write raises, before it has written anything or in the middle;
\* crash: the process dies, between two steps or in the middle of a write.
FaultKinds == {"disk", "crash"}

ASSUME AuditAssumption ==
    /\ Ids \subseteq Nat
    /\ Keep \subseteq Nat \ {0}
    /\ Faults \subseteq FaultKinds
    /\ MaxResults \in Nat \ {0}
    /\ MaxTx \in Nat
    /\ MaxSecond \in Nat

VARIABLES
    lines,      \* the file, line by line
    ended,      \* the last line ends in a line feed
    holder,     \* the process that holds the flock
    clock,      \* seconds
    pc,         \* pc[p]: where p is: see Places
    record,     \* record[p]: the record p appends, or the START of its command
    plan,       \* plan[p]: the retention plan of p
    ran,        \* ran[p]: commands started by p
    told,       \* history: records whose append() returned
    removed,    \* history: records a retention that took effect was to remove
    tears       \* history: writes cut off in the middle

vars == <<lines, ended, holder, clock, pc, record, plan, ran, told, removed, tears>>

Records ==
    [id : Ids, tx : Procs \X (1..MaxTx), kind : {"START", "RESULT"},
     resource : Resources, at : 0..MaxSecond]

Plans == [keep : SUBSET Records, remove : SUBSET Records]

\* rest, glued: a part of the record is written, on a line of its own or after
\* a line without its line feed;  release: the lock goes and nothing is reported.
Places == {"idle", "working", "planned", "lock", "write", "rest", "glued",
           "check", "unlock", "release"}

TypeOK ==
    /\ lines \in Seq(Records \union {Junk})
    /\ ended \in BOOLEAN
    /\ holder \in Procs \union {None}
    /\ clock \in 0..MaxSecond
    /\ pc \in [Procs -> Places]
    /\ record \in [Procs -> Records \union {None}]
    /\ plan \in [Procs -> Plans \union {None}]
    /\ ran \in [Procs -> 0..MaxTx]
    /\ told \subseteq Records
    /\ removed \subseteq Records
    /\ tears \in Nat
    /\ \A p \in Procs :
          holder = p <=> pc[p] \in {"write", "rest", "glued", "check", "unlock",
                                  "release"}

Init ==
    /\ lines = <<>>
    /\ ended = TRUE
    /\ holder = None
    /\ clock = 0
    /\ pc = [p \in Procs |-> "idle"]
    /\ record = [p \in Procs |-> None]
    /\ plan = [p \in Procs |-> None]
    /\ ran = [p \in Procs |-> 0]
    /\ told = {}
    /\ removed = {}
    /\ tears = 0

(* read() ******************************************************************)

\* The lines that parse; the last one may lack its line feed.
Found == Range(lines) \ {Junk}

\* Newest first: by recorded_at, then by record_id.
Newer(r, s) == r.at > s.at \/ (r.at = s.at /\ r.id > s.id)

\* read() reports an issue for a bad line and for a result that was cut off.
Issues == Junk \in Range(lines) \/ Cardinality(Found) > MaxResults

(* The adapters ************************************************************)

\* Ids of records that exist or are about to be written: uuid4 repeats none.
Taken ==
    LET current == {record[p] : p \in Procs} \ {None}
    IN {r.id : r \in told \union removed \union Found \union current}

NewRecord(p, kind, x, nr) ==
    \E i \in Ids \ Taken :
        record' = [record EXCEPT ![p] =
            [id |-> i, tx |-> <<p, nr>>, kind |-> kind, resource |-> x,
             at |-> clock]]

\* A command gets its transaction id and appends START before anything else.
Start(p) ==
    /\ pc[p] = "idle"
    /\ ran[p] < MaxTx
    /\ \E x \in Resources : NewRecord(p, "START", x, ran[p] + 1)
    /\ ran' = [ran EXCEPT ![p] = @ + 1]
    /\ pc' = [pc EXCEPT ![p] = "lock"]
    /\ UNCHANGED <<lines, ended, holder, clock, plan, told, removed, tears>>

\* The command is done, one way or another: finish() appends its RESULT.
FinishCommand(p) ==
    /\ pc[p] = "working"
    /\ NewRecord(p, "RESULT", record[p].resource, ran[p])
    /\ pc' = [pc EXCEPT ![p] = "lock"]
    /\ UNCHANGED <<lines, ended, holder, clock, plan, ran, told, removed, tears>>

(* append() ****************************************************************)

Lock(p) ==
    /\ pc[p] = "lock"
    /\ holder = None
    /\ holder' = p
    /\ pc' = [pc EXCEPT ![p] = IF plan[p] = None THEN "write" ELSE "check"]
    /\ UNCHANGED <<lines, ended, clock, record, plan, ran, told, removed, tears>>

\* What the file becomes when x is written at its end: after a line that lacks
\* its line feed it is one more part of that line.
Extended(x) ==
    IF ended THEN Append(lines, x)
    ELSE [lines EXCEPT ![Len(lines)] = Junk]

Write(p) ==
    /\ pc[p] = "write"
    /\ lines' = Extended(record[p])
    /\ ended' = TRUE
    /\ pc' = [pc EXCEPT ![p] = "unlock"]
    /\ UNCHANGED <<holder, clock, record, plan, ran, told, removed, tears>>

\* os.write() wrote a part, without the line feed: a reader finds a line that is
\* no record or, if only the line feed is missing, the record.
WritePart(p) ==
    /\ pc[p] = "write"
    /\ \E x \in {Junk, record[p]} : lines' = Extended(x)
    /\ ended' = FALSE
    /\ pc' = [pc EXCEPT ![p] = IF ended THEN "rest" ELSE "glued"]
    /\ UNCHANGED <<holder, clock, record, plan, ran, told, removed, tears>>

WriteRest(p) ==
    /\ pc[p] \in {"rest", "glued"}
    /\ lines' = IF pc[p] = "rest" THEN [lines EXCEPT ![Len(lines)] = record[p]]
                ELSE lines
    /\ ended' = TRUE
    /\ pc' = [pc EXCEPT ![p] = "unlock"]
    /\ UNCHANGED <<holder, clock, record, plan, ran, told, removed, tears>>

\* append() raises, in a write or in the fsync after it; what is written stays.
WriteFails(p) ==
    /\ "disk" \in Faults
    /\ pc[p] \in {"write", "rest", "glued", "unlock"}
    /\ tears' = IF pc[p] \in {"rest", "glued"} THEN tears + 1 ELSE tears
    /\ pc' = [pc EXCEPT ![p] = "release"]
    /\ UNCHANGED <<lines, ended, holder, clock, record, plan, ran, told, removed>>

Leave(p) ==
    /\ pc' = [pc EXCEPT ![p] = "idle"]
    /\ record' = [record EXCEPT ![p] = None]

\* append() returns: after START the command goes to work.
Unlock(p) ==
    /\ pc[p] = "unlock"
    /\ holder' = None
    /\ told' = told \union {record[p]}
    /\ IF record[p].kind = "START"
       THEN pc' = [pc EXCEPT ![p] = "working"] /\ UNCHANGED record
       ELSE Leave(p)
    /\ UNCHANGED <<lines, ended, clock, plan, ran, removed, tears>>

\* The lock goes on the way out of an exception or of apply_retention().
Release(p) ==
    /\ pc[p] = "release"
    /\ holder' = None
    /\ Leave(p)
    /\ UNCHANGED <<lines, ended, clock, plan, ran, told, removed, tears>>

(* Retention ***************************************************************)

\* mutant: the newest record of each resource, whatever its kind
Protected_AnyKind(records) ==
    {r \in records :
        \A s \in records : s.resource = r.resource => ~Newer(s, r)}

\* The newest RESULT of each resource.
Protected(records) ==
    {r \in records :
        /\ r.kind = "RESULT"
        /\ \A s \in records :
              s.kind = "RESULT" /\ s.resource = r.resource => ~Newer(s, r)}

Newest(records, n) ==
    {r \in records : Cardinality({s \in records : Newer(s, r)}) < n}

\* plan_retention() reads without the lock and raises on any issue.
PlanRetention(p) ==
    /\ pc[p] = "idle"
    /\ ~Issues
    /\ \E n \in Keep :
          LET kept == Newest(Found, n) \union Protected(Found) IN
          plan' = [plan EXCEPT ![p] =
                     [keep |-> kept, remove |-> Found \ kept]]
    /\ pc' = [pc EXCEPT ![p] = "planned"]
    /\ UNCHANGED <<lines, ended, holder, clock, record, ran, told, removed, tears>>

\* The operator confirms, or lets it be.
ApplyRetention(p) ==
    /\ pc[p] = "planned"
    /\ \/ /\ pc' = [pc EXCEPT ![p] = "lock"]
          /\ UNCHANGED plan
       \/ /\ pc' = [pc EXCEPT ![p] = "idle"]
          /\ plan' = [plan EXCEPT ![p] = None]
    /\ UNCHANGED <<lines, ended, holder, clock, record, ran, told, removed, tears>>

\* mutant: only the number of records is compared
Unchanged_SizeOnly(q) ==
    /\ ~Issues
    /\ Cardinality(Found) = Cardinality(q.keep \union q.remove)

\* The registry is what the plan was made from.
Unchanged(q) ==
    /\ ~Issues
    /\ Found = q.keep \union q.remove

\* The kept records, oldest first, in a new file that takes the name at once
\* (the fsync of the directory that follows may raise, and changes nothing).
Rewrite(p) ==
    /\ pc[p] = "check"
    /\ Unchanged(plan[p])
    /\ lines' = SetToSortSeq(Found \intersect plan[p].keep,
                             LAMBDA r, s : Newer(s, r))
    /\ ended' = TRUE
    /\ removed' = removed \union plan[p].remove
    /\ plan' = [plan EXCEPT ![p] = None]
    /\ pc' = [pc EXCEPT ![p] = "release"]
    /\ UNCHANGED <<holder, clock, record, ran, told, tears>>

\* The registry changed, or the new file cannot be written.
RewriteFails(p) ==
    /\ pc[p] = "check"
    /\ ~Unchanged(plan[p]) \/ "disk" \in Faults
    /\ plan' = [plan EXCEPT ![p] = None]
    /\ pc' = [pc EXCEPT ![p] = "release"]
    /\ UNCHANGED <<lines, ended, holder, clock, record, ran, told, removed, tears>>

(***************************************************************************)

\* The kernel drops the flock of a process that dies.
Crash(p) ==
    /\ "crash" \in Faults
    /\ pc[p] # "idle"
    /\ holder' = IF holder = p THEN None ELSE holder
    /\ tears' = IF pc[p] \in {"rest", "glued"} THEN tears + 1 ELSE tears
    /\ plan' = [plan EXCEPT ![p] = None]
    /\ Leave(p)
    /\ UNCHANGED <<lines, ended, clock, ran, told, removed>>

Tick ==
    /\ clock < MaxSecond
    /\ clock' = clock + 1
    /\ UNCHANGED <<lines, ended, holder, pc, record, plan, ran, told, removed,
                   tears>>

Step(p) ==
    \/ Start(p) \/ FinishCommand(p)
    \/ Lock(p) \/ Write(p) \/ WritePart(p) \/ WriteRest(p) \/ WriteFails(p)
    \/ Unlock(p) \/ Release(p)
    \/ PlanRetention(p) \/ ApplyRetention(p) \/ Rewrite(p) \/ RewriteFails(p)
    \/ Crash(p)

Next == Tick \/ \E p \in Procs : Step(p)

Spec == Init /\ [][Next]_vars

(* Properties **************************************************************)

\* A record whose append() returned is there to be read, unless a retention was
\* told to remove it; each write that was cut off costs at most one of them
\* (the lock and O_APPEND of append(), the comparison of record ids in
\* apply_retention()).
NothingSilentlyLost ==
    Cardinality((told \ removed) \ Found) <= tears

\* The registry as its readers see it implements AuditLog: retention spares a
\* newest RESULT of each resource and nothing else removes a record.
Log == INSTANCE AuditLog WITH recorded <- Found, damaged <- tears > 0

KeepsLog == Log!Spec
=============================================================================
