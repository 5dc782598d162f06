--------------------------- MODULE PolicyMigration ---------------------------
(***************************************************************************)
(* The resumable migration of one signed zone from a DNSSEC policy to      *)
(* another (dnssec_policy_migration*.py): start, check, advance, finalize  *)
(* and rollback, each a process of its own. Between them only a state file *)
(* remembers the phase. Around them move the parent zone, which the        *)
(* operator edits at the registrar, the resolvers and named.               *)
(*                                                                         *)
(* start, advance, finalize and rollback hold a ZoneEditLock, taken here   *)
(* as exclusive (ZoneEditLock says when it is not); check takes none. A    *)
(* policy also names the KSK it brings and the DS of that key.             *)
(***************************************************************************)
EXTENDS Naturals, FiniteSets

CONSTANTS
    Procs,        \* zctl processes
    Policies,     \* signing policies in the inventory
    Blocked,      \* those that are unsafe, or that this BIND does not support
    Review,       \* those whose use must be acknowledged
    Resolvers,    \* resolvers given to check and advance
    First,        \* the policy of the zone at first
    Assigned,     \* Assigned[p]: commands the operator of p may run
    Faults,       \* what may go wrong: see FaultKinds
    MaxCommands,  \* bound: commands of a behaviour
    None          \* "no value"

\* command: a BIND command fails or times out;  io: a file operation raises;
\* crash: the process dies;  resolver: a resolver does not answer.
FaultKinds == {"command", "io", "crash", "resolver"}

CommandNames == {"start", "check", "advance", "finalize", "rollback"}

ASSUME MigrationAssumption ==
    /\ First \in Policies
    /\ Blocked \subseteq Policies /\ Review \subseteq Policies
    /\ IsFiniteSet(Resolvers)
    /\ Assigned \in [Procs -> SUBSET CommandNames]
    /\ Faults \subseteq FaultKinds
    /\ MaxCommands \in Nat
    /\ None \notin Procs \union Policies \union CommandNames

VARIABLES
    declaration,  \* the policy in the zone's declaration
    running,      \* the policy named has loaded
    keys,         \* policies whose KSK is in the zone
    parent,       \* policies whose DS the parent publishes
    cached,       \* an earlier value of it that resolvers may still return
    state,        \* the state file, or None
    backups,      \* backups[n]: the declaration saved by migration n
    lock,         \* holder of the zone's lock, or None
    pc,           \* pc[p]: where the command of p is
    tx,           \* tx[p]: local state of that command
    issued,       \* commands started so far; migration n is the n-th
    observed,     \* history: migrations whose target DS was seen everywhere
    stale,        \* history: a save overwrote a state it had not read
    torn,         \* history: a command died, or its state was not saved
    outdated      \* history: a start went by keys the zone no longer had alone

bind == <<declaration, running, keys>>
world == <<parent, cached>>
histories == <<observed, stale, torn, outdated>>
vars == <<bind, world, state, backups, lock, pc, tx, issued, histories>>

Migrations == 1..MaxCommands

Phases == {"PLANNED", "POLICY_APPLIED", "WAITING_DNSKEY", "WAITING_DS",
           "WAITING_PROPAGATION", "READY_TO_FINALIZE", "COMPLETE", "FAILED",
           "ROLLED_BACK"}

Ended == {"COMPLETE", "ROLLED_BACK", "FAILED"}

PastBoundary == {"WAITING_PROPAGATION", "READY_TO_FINALIZE", "COMPLETE"}

\* seenDs is evidence.target_ds_observed, the only stored evidence a command
\* reads again.
States ==
    [migration : Migrations, source : Policies, target : Policies,
     sourceKeys : SUBSET Policies, phase : Phases, rollbackAllowed : BOOLEAN,
     noReturn : BOOLEAN, seenDs : BOOLEAN]

ASSUME NoneAssumption == None \notin States

Places == {"idle", "identify", "lock", "load", "observe", "backup", "write",
           "restore", "checkconf", "reconfig", "status", "save"}

NewTx(cmd, number, original, target) ==
    [cmd |-> cmd, number |-> number, original |-> original, target |-> target,
     sourceKeys |-> {}, read |-> None, new |-> None, undoing |-> FALSE]

NoTx == NewTx(None, 0, None, None)

Txs == [cmd : CommandNames \union {None}, number : 0..MaxCommands,
        original : Policies \union {None},
        target : Policies \union {None},
        sourceKeys : SUBSET Policies, read : States \union {None},
        new : States \union {None}, undoing : BOOLEAN]

TypeOK ==
    /\ declaration \in Policies
    /\ running \in Policies
    /\ keys \subseteq Policies
    /\ parent \subseteq Policies /\ cached \subseteq Policies
    /\ state \in States \union {None}
    /\ backups \in [Migrations -> Policies \union {None}]
    /\ lock \in Procs \union {None}
    /\ pc \in [Procs -> Places]
    /\ tx \in [Procs -> Txs]
    /\ issued \in 0..MaxCommands
    /\ observed \subseteq Migrations
    /\ stale \in BOOLEAN /\ torn \in BOOLEAN /\ outdated \in BOOLEAN

Init ==
    /\ declaration = First
    /\ running = First
    /\ keys = {First} /\ parent = {First} /\ cached = {First}
    /\ state = None
    /\ backups = [n \in Migrations |-> None]
    /\ lock = None
    /\ pc = [p \in Procs |-> "idle"]
    /\ tx = [p \in Procs |-> NoTx]
    /\ issued = 0
    /\ observed = {} /\ stale = FALSE /\ torn = FALSE /\ outdated = FALSE

(* Moving a command on *****************************************************)

Locking == CommandNames \ {"check"}

Go(p, place) == pc' = [pc EXCEPT ![p] = place]

\* The command returns, and with it the lock is released.
Return(p) ==
    /\ Go(p, "idle")
    /\ tx' = [tx EXCEPT ![p] = NoTx]
    /\ lock' = IF lock = p THEN None ELSE lock

\* All but the place, the record and the lock of a command, and outdated.
Untouched ==
    UNCHANGED <<bind, world, state, backups, issued, observed, stale, torn>>

Undisturbed == Untouched /\ UNCHANGED outdated

(* plan(), and what precedes the lock **************************************)

\* A process of p starts with the command cmd. The configuration is discovered
\* then: to is the target of a start, and the declared policy for the others.
Enter(p, cmd, to) ==
    /\ pc[p] = "idle"
    /\ issued < MaxCommands
    /\ cmd \in Assigned[p]
    /\ tx' = [tx EXCEPT ![p] =
                IF cmd = "start" THEN NewTx(cmd, issued + 1, declaration, to)
                ELSE NewTx(cmd, 0, None, to)]
    /\ Go(p, CASE cmd = "start" -> "identify"
               [] cmd = "check" -> "load"
               [] OTHER -> "lock")
    /\ issued' = issued + 1
    /\ UNCHANGED <<bind, world, state, backups, lock, histories>>

\* _gate: what a policy is refused for. A source need not be acknowledged.
Gate(policy, acknowledged) ==
    policy \notin Blocked /\ (policy \in Review => acknowledged)

\* plan(): the declaration names exactly the source, and the target differs.
Plan(to, acknowledged) ==
    to # declaration /\ Gate(declaration, TRUE) /\ Gate(to, acknowledged)

StartCommand(p) ==
    \E to \in Policies, acknowledged \in BOOLEAN :
        Plan(to, acknowledged) /\ Enter(p, "start", to)

\* The screen's list of policies, less the excluded one: the one chosen is not
\* blocked, and was acknowledged if it must be.
Chooser(excluded, acknowledged) ==
    {q \in Policies \ {excluded} : Gate(q, acknowledged)}

\* The screen has the source chosen, and acknowledged, like the target.
MigrationView(p) ==
    \E onSource \in BOOLEAN, onTarget \in BOOLEAN :
        /\ declaration \in Chooser(None, onSource)
        /\ \E to \in Chooser(declaration, onTarget) :
              Plan(to, onTarget) /\ Enter(p, "start", to)

\* The commands on a migration that has begun; migration-resume is advance.
LaterCommand(p) ==
    \E cmd \in CommandNames \ {"start"} : Enter(p, cmd, declaration)

Begin(p) == StartCommand(p) \/ MigrationView(p) \/ LaterCommand(p)

\* start without --commit --activate --confirm, and whatever else ends a
\* command before it has read anything.
Refuse(p) ==
    /\ pc[p] \in {"identify", "lock"}
    /\ pc[p] = "lock" => lock # None
    /\ Return(p)
    /\ Undisturbed

\* source_ds_collector: the KSKs now in the zone, read before the lock.
Identify(p) ==
    /\ pc[p] = "identify"
    /\ \/ /\ Go(p, "lock")
          /\ tx' = [tx EXCEPT ![p].sourceKeys = keys]
          /\ UNCHANGED lock
       \/ ("command" \in Faults /\ Return(p))
    /\ Undisturbed

TakeLock(p) ==
    /\ pc[p] = "lock"
    /\ lock = None
    /\ lock' = p
    /\ Go(p, "load")
    /\ UNCHANGED tx
    /\ Undisturbed

(* start *******************************************************************)

Conflict(p) ==
    \/ (state # None /\ state.phase \notin Ended)
    \/ declaration # tx[p].original

Preflight(p) ==
    /\ pc[p] = "load"
    /\ tx[p].cmd = "start"
    /\ IF Conflict(p) THEN Return(p) /\ UNCHANGED outdated
       ELSE /\ Go(p, "backup")
            /\ tx' = [tx EXCEPT ![p].read = state,
                        ![p].new =
                            [migration |-> tx[p].number,
                             source |-> tx[p].original,
                             target |-> tx[p].target,
                             sourceKeys |-> tx[p].sourceKeys,
                             phase |-> "PLANNED", rollbackAllowed |-> TRUE,
                             noReturn |-> FALSE, seenDs |-> FALSE]]
            /\ outdated' = (outdated \/ ~(keys \subseteq tx[p].sourceKeys))
            /\ UNCHANGED lock
    /\ Untouched

\* A copy of the declaration as it is now.
Backup(p) ==
    /\ pc[p] = "backup"
    /\ backups' = [backups EXCEPT ![tx[p].number] = declaration]
    /\ Go(p, "write")
    /\ UNCHANGED <<bind, world, state, lock, tx, issued, histories>>

WritePolicy(p) ==
    /\ pc[p] = "write"
    /\ declaration' = tx[p].target
    /\ Go(p, "checkconf")
    /\ UNCHANGED <<running, keys, world, state, backups, lock, tx, issued,
                   histories>>

NotWritten(p) ==
    /\ "io" \in Faults
    /\ pc[p] \in {"backup", "write"}
    /\ Return(p)
    /\ Undisturbed

(* named-checkconf, rndc reconfig, rndc zonestatus, rndc dnssec -status ****)

Checks == {"checkconf", "reconfig", "status"}

\* Both rndc status commands only read: one step.
After == [checkconf |-> "reconfig", reconfig |-> "status", status |-> "save"]

With(p, phase) == [tx[p].new EXCEPT !.phase = phase]

\* What a start, or an undoing, that passes all checks comes to.
Passed(p) == IF tx[p].undoing THEN "ROLLED_BACK" ELSE "POLICY_APPLIED"

\* The checks passed; what will be saved is decided here.
Checked(p) ==
    /\ Go(p, After[pc[p]])
    /\ tx' = IF pc[p] # "status" THEN tx
             ELSE [tx EXCEPT ![p].new = With(p, Passed(p))]

\* mutant: a check that fails ends the command like one that passes
CheckFailed_Ignored(p) == Go(p, "save") /\ UNCHANGED tx

\* A start is undone; what cannot be undone, or rolled back, is FAILED.
CheckFailed(p) ==
    IF tx[p].undoing
    THEN Go(p, "save") /\ tx' = [tx EXCEPT ![p].new = With(p, "FAILED")]
    ELSE Go(p, "restore") /\ tx' = [tx EXCEPT ![p].undoing = TRUE]

Reconfigure(p) ==
    /\ pc[p] = "reconfig"
    /\ running' = declaration
    /\ keys' = keys \union {declaration}
    /\ Checked(p) \/ ("command" \in Faults /\ CheckFailed(p))
    /\ UNCHANGED <<declaration, world, state, backups, lock, issued, histories>>

Check(p) ==
    /\ pc[p] \in Checks \ {"reconfig"}
    /\ Checked(p) \/ ("command" \in Faults /\ CheckFailed(p))
    /\ UNCHANGED lock
    /\ Undisturbed

\* rndc did not reach named.
ReconfigFails(p) ==
    /\ "command" \in Faults
    /\ pc[p] = "reconfig"
    /\ CheckFailed(p)
    /\ UNCHANGED lock
    /\ Undisturbed

Restore(p) ==
    /\ pc[p] = "restore"
    /\ declaration' = backups[tx[p].new.migration]
    /\ Go(p, "checkconf")
    /\ UNCHANGED <<running, keys, world, state, backups, lock, tx, issued,
                   histories>>

RestoreFails(p) ==
    /\ "io" \in Faults
    /\ pc[p] = "restore"
    /\ CheckFailed(p)
    /\ UNCHANGED lock
    /\ Undisturbed

(* check and advance *******************************************************)

Load(p) ==
    /\ pc[p] = "load"
    /\ tx[p].cmd \in {"check", "advance"}
    /\ IF state = None THEN Return(p)
       ELSE /\ Go(p, "observe")
            /\ tx' = [tx EXCEPT ![p].read = state, ![p].new = state]
            /\ UNCHANGED lock
    /\ Undisturbed

\* What a resolver may answer: the DS now at the parent, an older one, or none.
Views == [Resolvers -> {parent, cached} \union
                           (IF "resolver" \in Faults THEN {{}} ELSE {})]

\* migration_ds_identity_evidence: every one of at least two resolvers shows a
\* DS of a key that is expected now and was not a source key.
TargetObserved(s, views) ==
    /\ Cardinality(Resolvers) >= 2
    /\ \A r \in Resolvers : views[r] \intersect (keys \ s.sourceKeys) # {}

\* kasp_target_policy: the configuration discovered at the start declares the
\* target. loaded, dnskey_present, rrsig_present and the authoritative servers
\* tell nothing of the policy: they may hold, or not, whichever named runs.
Signed(p, s) == tx[p].target = s.target

\* mutant: the boundary is crossed and the rollback stays allowed
Advanced_KeepsRollback(s, signed, sure, ds) ==
    [s EXCEPT !.seenDs = ds,
              !.phase =
        CASE s.phase \in {"POLICY_APPLIED", "WAITING_DNSKEY"} ->
                IF signed THEN "WAITING_DS" ELSE "WAITING_DNSKEY"
          [] s.phase = "WAITING_DS" /\ ds -> "WAITING_PROPAGATION"
          [] s.phase = "WAITING_PROPAGATION" /\ ds /\ sure -> "READY_TO_FINALIZE"
          [] OTHER -> s.phase]

\* mutant: one more elif without the DS condition
Advanced_NoDsGate(s, signed, sure, ds) ==
    IF s.phase = "WAITING_DS"
    THEN [s EXCEPT !.phase = "WAITING_PROPAGATION", !.seenDs = ds,
                   !.noReturn = TRUE, !.rollbackAllowed = FALSE]
    ELSE Advanced_KeepsRollback(s, signed, sure, ds)

\* One phase at most: signed is the first gate, ds the second, ds and sure
\* the third.
Advanced(s, signed, sure, ds) ==
    LET next == [s EXCEPT !.seenDs = ds] IN
    CASE s.phase \in {"POLICY_APPLIED", "WAITING_DNSKEY"} ->
            [next EXCEPT !.phase = IF signed THEN "WAITING_DS"
                                   ELSE "WAITING_DNSKEY"]
      [] s.phase = "WAITING_DS" /\ ds ->
            [next EXCEPT !.phase = "WAITING_PROPAGATION", !.noReturn = TRUE,
                         !.rollbackAllowed = FALSE]
      [] s.phase = "WAITING_PROPAGATION" /\ ds /\ sure ->
            [next EXCEPT !.phase = "READY_TO_FINALIZE"]
      [] OTHER -> next

Waiting == {"POLICY_APPLIED", "WAITING_DNSKEY", "WAITING_DS",
            "WAITING_PROPAGATION"}

\* The evidence collector runs, and what is to be saved follows from it.
Observe(p) ==
    LET s == tx[p].read IN
    /\ pc[p] = "observe"
    /\ \E views \in Views, signed \in {FALSE, Signed(p, s)}, sure \in BOOLEAN :
          LET ds == TargetObserved(s, views) IN
          /\ observed' = IF ds THEN observed \union {s.migration} ELSE observed
          /\ IF tx[p].cmd = "advance" /\ s.phase \notin Waiting
             THEN Return(p)
             ELSE /\ Go(p, "save")
                  /\ tx' = [tx EXCEPT ![p].new =
                              IF tx[p].cmd = "check" THEN [s EXCEPT !.seenDs = ds]
                              ELSE Advanced(s, signed, sure, ds)]
                  /\ UNCHANGED lock
    /\ UNCHANGED <<bind, world, state, backups, issued, stale, torn, outdated>>

(* finalize and rollback ***************************************************)

MayFinalize(s) == s.phase = "READY_TO_FINALIZE"

Finalize(p) ==
    /\ pc[p] = "load"
    /\ tx[p].cmd = "finalize"
    /\ IF state # None /\ MayFinalize(state)
       THEN /\ Go(p, "save")
            /\ tx' = [tx EXCEPT ![p].read = state,
                        ![p].new = [state EXCEPT !.phase = "COMPLETE",
                                                 !.rollbackAllowed = FALSE]]
            /\ UNCHANGED lock
       ELSE Return(p)
    /\ Undisturbed

\* The gate reads the evidence stored by the last check or advance, whatever
\* the phase; nothing is observed anew.
MayRollBack(s) == s.rollbackAllowed /\ ~s.noReturn /\ ~s.seenDs

Rollback(p) ==
    /\ pc[p] = "load"
    /\ tx[p].cmd = "rollback"
    /\ IF state # None /\ MayRollBack(state)
       THEN /\ Go(p, "restore")
            /\ tx' = [tx EXCEPT ![p].read = state, ![p].new = state,
                                ![p].undoing = TRUE]
            /\ UNCHANGED lock
       ELSE Return(p)
    /\ Undisturbed

(* Saving ******************************************************************)

Save(p) ==
    /\ pc[p] = "save"
    /\ state' = tx[p].new
    /\ stale' = (stale \/ state # tx[p].read)
    /\ torn' = (torn \/ tx[p].new.phase = "FAILED")
    /\ Return(p)
    /\ UNCHANGED <<bind, world, backups, issued, observed, outdated>>

\* The state of a start is saved and the audit record after it raises, inside
\* the try block: the start is undone.
AuditFails(p) ==
    /\ "io" \in Faults
    /\ pc[p] = "save"
    /\ tx[p].cmd = "start" /\ ~tx[p].undoing
    /\ state' = tx[p].new
    /\ stale' = (stale \/ state # tx[p].read)
    /\ Go(p, "restore")
    /\ tx' = [tx EXCEPT ![p].read = tx[p].new, ![p].undoing = TRUE]
    /\ UNCHANGED <<bind, world, backups, lock, issued, observed, torn, outdated>>

\* The save raises: a start is undone, unless it is being undone already;
\* anything else leaves the command.
SaveFails(p) ==
    /\ "io" \in Faults
    /\ pc[p] = "save"
    /\ IF tx[p].cmd = "start" /\ ~tx[p].undoing
       THEN CheckFailed(p) /\ UNCHANGED <<lock, torn>>
       ELSE Return(p) /\ torn' = TRUE
    /\ UNCHANGED <<bind, world, state, backups, issued, observed, stale, outdated>>

Crash(p) ==
    /\ "crash" \in Faults
    /\ pc[p] \notin {"idle", "identify", "lock"}
    /\ Return(p)
    /\ torn' = TRUE
    /\ UNCHANGED <<bind, world, state, backups, issued, observed, stale, outdated>>

Step(p) ==
    \/ Refuse(p) \/ Identify(p) \/ TakeLock(p)
    \/ Preflight(p) \/ Backup(p) \/ WritePolicy(p) \/ NotWritten(p)
    \/ Reconfigure(p) \/ ReconfigFails(p) \/ Check(p)
    \/ Restore(p) \/ RestoreFails(p)
    \/ Load(p) \/ Observe(p) \/ Finalize(p) \/ Rollback(p)
    \/ Save(p) \/ AuditFails(p) \/ SaveFails(p)

(* Everything else *********************************************************)

Elsewhere == UNCHANGED <<state, backups, lock, pc, tx, issued, histories>>

\* The operator adds the DS of the target when told to, and removes that of
\* the source when told that the target's was observed. A DS is made from the
\* key itself: only that of a key the zone has is published.
ChangeDs ==
    /\ state # None
    /\ state.target \in keys
    /\ \/ state.phase = "WAITING_DS" /\ state.target \notin parent
          /\ parent' = parent \union {state.target}
       \/ state.phase \in PastBoundary /\ parent # {state.target}
          /\ parent' = {state.target}
    /\ cached' = parent
    /\ UNCHANGED bind
    /\ Elsewhere

CacheExpires ==
    /\ cached # parent
    /\ cached' = parent
    /\ UNCHANGED <<bind, parent>>
    /\ Elsewhere

\* named removes a key its policy does not need once its DS is gone.
DropKey ==
    /\ \E k \in keys \ ({running} \union parent \union cached) :
          keys' = keys \ {k}
    /\ UNCHANGED <<declaration, running, world>>
    /\ Elsewhere

Next ==
    \/ \E p \in Procs : Begin(p) \/ Step(p) \/ Crash(p)
    \/ ChangeDs \/ CacheExpires \/ DropKey

Spec == Init /\ [][Next]_vars

(* Properties **************************************************************)

\* A migration is past the point of no return, or complete, only if its target
\* DS was observed by all resolvers, whatever was lost, repeated or overwritten
\* on the way (the gates of advance and finalize).
Evidenced(s) == s \in States /\ (s.phase \in PastBoundary \/ s.noReturn)
                    => s.migration \in observed

CompleteIsEvidenced == Evidenced(state)

\* A zone is never rolled back to a policy whose DS is no longer at the parent
\* (the trust boundary in rollback): the operator, who removes the source's DS
\* only when a phase says so, is not overtaken. Three things end it. A check
\* overwrote a newer state (stale). A command died, could not save or could not
\* undo (torn): a start that follows may take the half-applied target for its
\* source. A start went on by source keys it had read before it had the lock,
\* while another start gave the zone a key more (outdated): that key's DS, were
\* it published in a migration since rolled back, passes for the target's.
RollbackKeepsTrust ==
    [][\A p \in Procs : Restore(p) /\ tx[p].cmd = "rollback" =>
          \/ stale \/ torn \/ outdated
          \/ tx[p].new.source \in parent]_vars

\* When no command is under way the state file tells what is declared and what
\* named runs: the target from POLICY_APPLIED on, the source after a rollback
\* (the verifications before each save). It ends when a command dies or cannot
\* save, a rollback fails, or a check overwrites a newer state.
StateMatchesBind ==
    (\A p \in Procs : pc[p] \notin Checks \union {"restore", "write", "save"})
        /\ state # None /\ ~stale /\ ~torn
    => /\ running = declaration
       /\ running = IF state.phase = "ROLLED_BACK" THEN state.source
                    ELSE state.target

=============================================================================
