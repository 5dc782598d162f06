----------------------- MODULE PolicyMigrationProofs -----------------------
(***************************************************************************)
(* Theorems about PolicyMigration, for any number of processes, policies,  *)
(* resolvers, commands and any faults: its types; that no migration passes *)
(* the point of no return unless its target DS was observed; that the      *)
(* state file tells what is declared and what named runs; and that a zone  *)
(* is never rolled back to a policy that its parent does not trust.        *)
(***************************************************************************)
EXTENDS PolicyMigration, FiniteSetTheorems, TLAPS

Backed(s) == s \in States /\ backups[s.migration] \in Policies

\* What the command of p has established by the time it reaches its place.
Established(p) ==
    /\ pc[p] # "idle" => tx[p].target \in Policies
    /\ pc[p] \in {"identify", "backup", "write"} => tx[p].cmd = "start"
    /\ pc[p] # "idle" /\ tx[p].cmd = "start" =>
          tx[p].number \in Migrations /\ tx[p].original \in Policies
    /\ pc[p] = "observe" => Backed(tx[p].read)
    /\ pc[p] = "backup" =>
          tx[p].new \in States /\ tx[p].new.migration = tx[p].number
    /\ pc[p] \in {"write", "restore", "save"} \union Checks => Backed(tx[p].new)
    /\ Evidenced(tx[p].read) /\ Evidenced(tx[p].new)

MigrationInv ==
    /\ TypeOK
    /\ state # None => Backed(state)
    /\ Evidenced(state)
    /\ \A p \in Procs : Established(p)

\* Evidence is only ever added, and a backup is never taken away.
Grows ==
    /\ observed \subseteq observed'
    /\ \A n \in Migrations : backups[n] \in Policies => backups'[n] \in Policies

\* What other commands have established outlives a step of p.
LEMMA Others ==
    ASSUME MigrationInv, NEW p \in Procs, Grows,
           \A q \in Procs \ {p} : pc'[q] = pc[q] /\ tx'[q] = tx[q],
           Established(p)'
    PROVE  \A q \in Procs : Established(q)'
<1> SUFFICES ASSUME NEW q \in Procs, q # p PROVE Established(q)'
  OBVIOUS
<1>1. Established(q) /\ pc'[q] = pc[q] /\ tx'[q] = tx[q]
  BY DEF MigrationInv
<1>2. ASSUME NEW s, Backed(s) PROVE Backed(s)'
  BY <1>2 DEF Grows, Backed, States
<1>3. ASSUME NEW s, Evidenced(s) PROVE Evidenced(s)'
  BY <1>3 DEF Grows, Evidenced
<1> QED
  BY <1>1, <1>2, <1>3 DEF Established

\* A command that returns has nothing left to establish.
LEMMA ReturnSound ==
    ASSUME MigrationInv, NEW p \in Procs, Return(p)
    PROVE  /\ pc' \in [Procs -> Places] /\ tx' \in [Procs -> Txs]
           /\ lock' \in Procs \union {None}
           /\ Established(p)'
           /\ \A q \in Procs \ {p} : pc'[q] = pc[q] /\ tx'[q] = tx[q]
<1>1. NoTx \in Txs
  BY MigrationAssumption DEF NoTx, NewTx, Txs
<1>2. pc'[p] = "idle" /\ tx'[p] = NoTx
  BY DEF Return, Go, MigrationInv, TypeOK
<1>3. Evidenced(NoTx.read)' /\ Evidenced(NoTx.new)'
  BY NoneAssumption DEF NoTx, NewTx, Evidenced
<1> QED
  BY <1>1, <1>2, <1>3 DEF Return, Go, MigrationInv, TypeOK, Places,
     Established, Checks
\* Where a command that goes on to a place with a record of its own lands.
LEMMA GoSound ==
    ASSUME MigrationInv, NEW p \in Procs, NEW place \in Places, NEW t \in Txs,
           Go(p, place), tx' = [tx EXCEPT ![p] = t]
    PROVE  /\ pc' \in [Procs -> Places] /\ tx' \in [Procs -> Txs]
           /\ pc'[p] = place /\ tx'[p] = t
           /\ \A q \in Procs \ {p} : pc'[q] = pc[q] /\ tx'[q] = tx[q]
BY DEF Go, MigrationInv, TypeOK

\* The initial states satisfy the invariant.
LEMMA InitSound == Init => MigrationInv
<1> SUFFICES ASSUME Init PROVE MigrationInv
  OBVIOUS
<1>1. NoTx \in Txs
  BY MigrationAssumption DEF NoTx, NewTx, Txs
<1>2. First \in Policies /\ MaxCommands \in Nat
  BY MigrationAssumption
<1>5. TypeOK
  <2>1. pc \in [Procs -> Places] /\ tx \in [Procs -> Txs]
    BY <1>1 DEF Init, Places
  <2>2. backups \in [Migrations -> Policies \union {None}]
    BY DEF Init
  <2>3. /\ declaration \in Policies /\ running \in Policies
        /\ keys \subseteq Policies /\ parent \subseteq Policies
        /\ cached \subseteq Policies /\ issued \in 0..MaxCommands
    BY <1>2 DEF Init
  <2> QED
    BY <2>1, <2>2, <2>3 DEF Init, TypeOK
<1>3. Evidenced(None)
  BY NoneAssumption DEF Evidenced
<1>4. NoTx.read = None /\ NoTx.new = None
  BY DEF NoTx, NewTx
<1> QED
  BY <1>3, <1>4, <1>5 DEF Init, MigrationInv, Established, Checks

\* Before the lock: the plan, the refusals, the keys, the lock.
LEMMA BeginSound ==
    ASSUME MigrationInv, NEW p \in Procs, Begin(p)
    PROVE  MigrationInv'
<1>0. /\ declaration \in Policies
      /\ Assigned[p] \subseteq CommandNames
  BY MigrationAssumption DEF MigrationInv, TypeOK
<1>10. PICK cmd \in Assigned[p], to \in Policies : Enter(p, cmd, to)
  <2>1. CASE StartCommand(p)
    BY <2>1 DEF StartCommand, Enter
  <2>2. CASE MigrationView(p)
    BY <2>2 DEF MigrationView, Chooser, Enter
  <2>3. CASE LaterCommand(p)
    BY <1>0, <2>3 DEF LaterCommand, Enter
  <2> QED
    BY <2>1, <2>2, <2>3 DEF Begin
<1>1. /\ tx' = [tx EXCEPT ![p] =
                    IF cmd = "start" THEN NewTx(cmd, issued + 1, declaration, to)
                    ELSE NewTx(cmd, 0, None, to)]
        /\ Go(p, CASE cmd = "start" -> "identify"
                   [] cmd = "check" -> "load"
                   [] OTHER -> "lock")
  BY <1>10 DEF Enter
<1> DEFINE t == IF cmd = "start" THEN NewTx(cmd, issued + 1, declaration, to)
                ELSE NewTx(cmd, 0, None, to)
           place == CASE cmd = "start" -> "identify"
                      [] cmd = "check" -> "load"
                      [] OTHER -> "lock"
<1>2. /\ issued \in Nat /\ MaxCommands \in Nat /\ issued + 1 \in 1..MaxCommands
      /\ declaration \in Policies
  <2>1. MaxCommands \in Nat
    BY MigrationAssumption
  <2> QED
    BY <1>10, <2>1 DEF MigrationInv, TypeOK, Enter
<1>9. cmd \in CommandNames
  BY MigrationAssumption
<1>3. /\ t \in Txs /\ t.cmd = cmd /\ t.target = to
      /\ t.read = None /\ t.new = None
      /\ cmd = "start" => t.number = issued + 1 /\ t.original = declaration
  BY <1>2, <1>9 DEF NewTx, Txs
<1>4. place \in {"identify", "load", "lock"} /\ (place = "identify" => cmd = "start")
  OBVIOUS
<1>5. /\ pc' \in [Procs -> Places] /\ tx' \in [Procs -> Txs]
      /\ pc'[p] = place /\ tx'[p] = t
      /\ \A q \in Procs \ {p} : pc'[q] = pc[q] /\ tx'[q] = tx[q]
  BY <1>1, <1>3, <1>4, GoSound DEF Places
<1>6. Evidenced(None)'
  BY NoneAssumption DEF Evidenced
<1>7. Established(p)'
  BY <1>2, <1>3, <1>4, <1>5, <1>6 DEF Established, Checks, Migrations
<1>8. Grows /\ TypeOK' /\ (state' # None => Backed(state)') /\ Evidenced(state)'
  BY <1>10, <1>2, <1>5 DEF Enter, Grows, MigrationInv, TypeOK, bind, world, histories,
     Backed, Evidenced
<1> QED
  BY <1>5, <1>7, <1>8, Others DEF MigrationInv

\* A step that changes nothing but the place, the record and the lock of p.
LEMMA LocalStep ==
    ASSUME MigrationInv, NEW p \in Procs, Undisturbed,
           pc' \in [Procs -> Places], tx' \in [Procs -> Txs],
           lock' \in Procs \union {None}, Established(p)',
           \A q \in Procs \ {p} : pc'[q] = pc[q] /\ tx'[q] = tx[q]
    PROVE  MigrationInv'
<1>1. Grows
  BY DEF Grows, Undisturbed, Untouched, histories
<1>2. TypeOK'
  BY DEF Undisturbed, Untouched, MigrationInv, TypeOK, bind, world, histories
<1>3. (state' # None => Backed(state)') /\ Evidenced(state)'
  BY DEF Undisturbed, Untouched, MigrationInv, histories, Backed, Evidenced
<1> QED
  BY <1>1, <1>2, <1>3, Others DEF MigrationInv

\* A command that returns without having changed anything.
LEMMA ReturnStep ==
    ASSUME MigrationInv, NEW p \in Procs, Undisturbed, Return(p)
    PROVE  MigrationInv'
BY ReturnSound, LocalStep

\* A step that leaves the record of p alone.
LEMMA GoStep ==
    ASSUME MigrationInv, NEW p \in Procs, NEW place \in Places, Undisturbed,
           Go(p, place), UNCHANGED tx, lock' \in Procs \union {None},
           Established(p)'
    PROVE  MigrationInv'
<1>1. pc' \in [Procs -> Places] /\ \A q \in Procs \ {p} : pc'[q] = pc[q]
  BY DEF Go, MigrationInv, TypeOK
<1> QED
  BY <1>1, LocalStep DEF MigrationInv, TypeOK

\* A command that is refused establishes nothing, and leaves the others their own.
LEMMA RefuseSound ==
    ASSUME MigrationInv, NEW p \in Procs, Refuse(p) \/ NotWritten(p)
    PROVE  MigrationInv'
BY ReturnStep DEF Refuse, NotWritten

\* The source keys are read, or rndc fails.
LEMMA IdentifySound ==
    ASSUME MigrationInv, NEW p \in Procs, Identify(p)
    PROVE  MigrationInv'
<1>1. CASE Return(p)
  BY <1>1, ReturnStep DEF Identify
<1>2. CASE Go(p, "lock") /\ tx' = [tx EXCEPT ![p].sourceKeys = keys]
           /\ UNCHANGED lock
  <2> DEFINE t == [tx[p] EXCEPT !.sourceKeys = keys]
  <2>1. t \in Txs /\ tx' = [tx EXCEPT ![p] = t]
    BY <1>2 DEF MigrationInv, TypeOK, Txs
  <2>2. /\ t.cmd = tx[p].cmd /\ t.target = tx[p].target /\ t.read = tx[p].read
        /\ t.number = tx[p].number /\ t.original = tx[p].original
        /\ t.new = tx[p].new
    BY DEF MigrationInv, TypeOK, Txs
  <2>3. /\ pc' \in [Procs -> Places] /\ tx' \in [Procs -> Txs]
        /\ pc'[p] = "lock" /\ tx'[p] = t
        /\ \A q \in Procs \ {p} : pc'[q] = pc[q] /\ tx'[q] = tx[q]
    BY <1>2, <2>1, GoSound DEF Places
  <2>4. Established(p)'
    BY <2>2, <2>3 DEF Established, MigrationInv, Identify, Undisturbed, Untouched,
       histories, Evidenced, Checks
  <2> QED
    BY <1>2, <2>3, <2>4, LocalStep DEF Identify, MigrationInv, TypeOK
<1> QED
  BY <1>1, <1>2 DEF Identify

\* Under the lock a command knows no more than before it.
LEMMA TakeLockSound ==
    ASSUME MigrationInv, NEW p \in Procs, TakeLock(p)
    PROVE  MigrationInv'
<1>1. pc'[p] = "load" /\ "load" \in Places
  BY DEF TakeLock, Go, MigrationInv, TypeOK, Places
<1>2. Established(p)'
  BY <1>1 DEF Established, MigrationInv, TakeLock, Undisturbed, Untouched, histories,
     Evidenced, Checks
<1> QED
  BY <1>1, <1>2, GoStep DEF TakeLock

\* A step that gives p the record t and leaves everything but that alone.
LEMMA RecordStep ==
    ASSUME MigrationInv, NEW p \in Procs, NEW place \in Places, Undisturbed,
           Go(p, place), NEW t \in Txs, tx' = [tx EXCEPT ![p] = t],
           UNCHANGED lock,
           pc'[p] = place /\ tx'[p] = t => Established(p)'
    PROVE  MigrationInv'
BY GoSound, LocalStep DEF MigrationInv, TypeOK

\* A step that may add to the histories, or save, and leaves BIND alone.
LEMMA FreeStep ==
    ASSUME MigrationInv, NEW p \in Procs,
           UNCHANGED <<bind, world, backups, issued>>,
           state' = state \/ (Backed(state') /\ Evidenced(state')),
           observed \subseteq observed', observed' \subseteq Migrations,
           stale' \in BOOLEAN, torn' \in BOOLEAN, outdated' \in BOOLEAN,
           pc' \in [Procs -> Places], tx' \in [Procs -> Txs],
           lock' \in Procs \union {None}, Established(p)',
           \A q \in Procs \ {p} : pc'[q] = pc[q] /\ tx'[q] = tx[q]
    PROVE  MigrationInv'
<1>1. Grows
  BY DEF Grows
<1>2. state' \in States \union {None}
  BY DEF Backed, MigrationInv, TypeOK
<1>3. TypeOK'
  BY <1>2 DEF MigrationInv, TypeOK, bind, world
<1>4. state' # None => Backed(state)'
  BY DEF MigrationInv, Backed
<1>5. Evidenced(state)'
  BY DEF MigrationInv, Evidenced
<1> QED
  BY <1>1, <1>3, <1>4, <1>5, Others DEF MigrationInv

\* start, under the lock and before it writes.
LEMMA PreflightSound ==
    ASSUME MigrationInv, NEW p \in Procs, Preflight(p)
    PROVE  MigrationInv'
<1>1. CASE Conflict(p)
  BY <1>1, ReturnStep DEF Preflight, Undisturbed
<1>2. CASE ~Conflict(p)
  <2> DEFINE s == [migration |-> tx[p].number, source |-> tx[p].original,
                   target |-> tx[p].target, sourceKeys |-> tx[p].sourceKeys,
                   phase |-> "PLANNED", rollbackAllowed |-> TRUE,
                   noReturn |-> FALSE, seenDs |-> FALSE]
             t == [tx[p] EXCEPT !.read = state, !.new = s]
  <2>1. tx[p] \in Txs /\ state \in States \union {None}
    BY DEF MigrationInv, TypeOK
  <2>2. /\ tx[p].number \in Migrations /\ tx[p].original \in Policies
        /\ tx[p].target \in Policies /\ tx[p].cmd = "start"
    BY DEF MigrationInv, Established, Preflight
  <2>3. s \in States
    BY <2>1, <2>2 DEF States, Txs, Phases
  <2>4. /\ t \in Txs /\ t.cmd = "start" /\ t.number = tx[p].number
        /\ t.original = tx[p].original /\ t.target = tx[p].target
        /\ t.read = state /\ t.new = s
    BY <2>1, <2>2, <2>3 DEF Txs
  <2>5. tx' = [tx EXCEPT ![p] = t] /\ Go(p, "backup") /\ UNCHANGED lock
        /\ Untouched
    BY <1>2, <2>1 DEF Preflight, MigrationInv, TypeOK, Txs
  <2>6. /\ Evidenced(state) /\ observed' = observed
        /\ s.phase = "PLANNED" /\ ~s.noReturn /\ s.migration = tx[p].number
    BY DEF MigrationInv, Preflight, Untouched
  <2> HIDE DEF s, t
  <2>7. /\ pc' \in [Procs -> Places] /\ tx' \in [Procs -> Txs]
        /\ pc'[p] = "backup" /\ tx'[p] = t
        /\ \A q \in Procs \ {p} : pc'[q] = pc[q] /\ tx'[q] = tx[q]
    BY <2>4, <2>5, GoSound DEF Places
  <2>8. Established(p)'
    BY <2>2, <2>3, <2>4, <2>6, <2>7 DEF Established, Checks, Evidenced, PastBoundary
  <2>9. /\ UNCHANGED <<bind, world, backups, issued, state, lock>>
        /\ observed' = observed /\ observed \subseteq Migrations
        /\ stale' \in BOOLEAN /\ torn' \in BOOLEAN /\ outdated' \in BOOLEAN
        /\ lock \in Procs \union {None}
    BY <1>2, <2>5 DEF Preflight, Untouched, MigrationInv, TypeOK
  <2> QED
    BY <2>7, <2>8, <2>9, FreeStep
<1> QED
  BY <1>1, <1>2

\* A step that may change the files or named as well, state file excepted.
LEMMA BindStep ==
    ASSUME MigrationInv, NEW p \in Procs, NEW place \in Places,
           Go(p, place), NEW t \in Txs, tx' = [tx EXCEPT ![p] = t],
           declaration' \in Policies, running' \in Policies,
           keys' \subseteq Policies,
           backups' \in [Migrations -> Policies \union {None}],
           \A n \in Migrations : backups[n] \in Policies => backups'[n] \in Policies,
           UNCHANGED <<world, state, lock, issued, histories>>,
           pc'[p] = place /\ tx'[p] = t => Established(p)'
    PROVE  MigrationInv'
<1>1. /\ pc' \in [Procs -> Places] /\ tx' \in [Procs -> Txs]
      /\ pc'[p] = place /\ tx'[p] = t
      /\ \A q \in Procs \ {p} : pc'[q] = pc[q] /\ tx'[q] = tx[q]
  BY GoSound
<1>2. Grows
  BY DEF Grows, histories
<1>3. TypeOK'
  BY <1>1 DEF MigrationInv, TypeOK, world, histories
<1>4. (state' # None => Backed(state)') /\ Evidenced(state)'
  BY DEF MigrationInv, histories, Backed, Evidenced, States
<1> QED
  BY <1>1, <1>2, <1>3, <1>4, Others DEF MigrationInv

\* A start has its backup, of the migration it is about to save.
LEMMA BackupSound ==
    ASSUME MigrationInv, NEW p \in Procs, Backup(p)
    PROVE  MigrationInv'
<1>1. /\ tx[p] \in Txs /\ tx = [tx EXCEPT ![p] = tx[p]]
      /\ backups \in [Migrations -> Policies \union {None}]
      /\ declaration \in Policies
  BY DEF MigrationInv, TypeOK
<1>2. Established(p) /\ tx[p].number \in Migrations /\ tx[p].new \in States
      /\ tx[p].new.migration = tx[p].number /\ tx[p].cmd = "start"
  BY DEF MigrationInv, Established, Backup
<1>3. /\ backups' \in [Migrations -> Policies \union {None}]
      /\ backups'[tx[p].number] \in Policies
      /\ \A n \in Migrations : backups[n] \in Policies => backups'[n] \in Policies
  BY <1>1, <1>2 DEF Backup
<1>4. pc'[p] = "write" /\ tx'[p] = tx[p] => Established(p)'
  BY <1>2, <1>3 DEF Established, Checks, Backed, Evidenced, Backup, histories
<1> QED
  BY <1>1, <1>3, <1>4, BindStep DEF Backup, Places, bind, MigrationInv, TypeOK

\* The target is declared by a start that has its backup.
LEMMA WritePolicySound ==
    ASSUME MigrationInv, NEW p \in Procs, WritePolicy(p)
    PROVE  MigrationInv'
<1>1. /\ tx[p] \in Txs /\ tx = [tx EXCEPT ![p] = tx[p]] /\ Established(p)
      /\ tx[p].target \in Policies
  BY DEF MigrationInv, TypeOK, Established, WritePolicy
<1>2. pc'[p] = "checkconf" /\ tx'[p] = tx[p] => Established(p)'
  BY <1>1 DEF Established, Checks, Backed, Evidenced, WritePolicy, histories
<1> QED
  BY <1>1, <1>2, BindStep DEF WritePolicy, Places, MigrationInv, TypeOK

\* What is restored is a policy: the backup of the migration.
LEMMA RestoreSound ==
    ASSUME MigrationInv, NEW p \in Procs, Restore(p)
    PROVE  MigrationInv'
<1>1. /\ tx[p] \in Txs /\ tx = [tx EXCEPT ![p] = tx[p]] /\ Established(p)
      /\ backups[tx[p].new.migration] \in Policies
  BY DEF MigrationInv, TypeOK, Established, Restore, Backed
<1>2. pc'[p] = "checkconf" /\ tx'[p] = tx[p] => Established(p)'
  BY <1>1 DEF Established, Checks, Backed, Evidenced, Restore, histories
<1> QED
  BY <1>1, <1>2, BindStep DEF Restore, Places, MigrationInv, TypeOK

\* The record a command goes on with when a check of BIND passes or fails.
LEMMA WithSound ==
    ASSUME MigrationInv, NEW p \in Procs, Backed(tx[p].new),
           NEW phase \in {"POLICY_APPLIED", "ROLLED_BACK", "FAILED"}
    PROVE  /\ With(p, phase) \in States
           /\ With(p, phase).migration = tx[p].new.migration
           /\ Evidenced(With(p, phase))
<1>1. tx[p].new \in States /\ Evidenced(tx[p].new)
  BY DEF MigrationInv, Established, Backed
<1> QED
  BY <1>1 DEF With, States, Phases, Evidenced, PastBoundary

\* The places that the checks lead to.
LEMMA AfterCheck ==
    /\ After["checkconf"] = "reconfig"
    /\ After["reconfig"] = "status"
    /\ After["status"] = "save"
BY DEF After

\* Going on, or turning back, with what a check of BIND said.
LEMMA CheckStep ==
    ASSUME MigrationInv, NEW p \in Procs,
           (Checked(p) /\ pc[p] \in Checks) \/ CheckFailed(p),
           pc[p] \in Checks \union {"restore", "save"},
           Backed(tx[p].new),
           declaration' \in Policies, running' \in Policies,
           keys' \subseteq Policies,
           UNCHANGED <<world, state, backups, lock, issued, histories>>
    PROVE  MigrationInv'
<1>1. /\ tx[p] \in Txs /\ tx = [tx EXCEPT ![p] = tx[p]] /\ Established(p)
      /\ backups \in [Migrations -> Policies \union {None}]
  BY DEF MigrationInv, TypeOK
<1>2. SUFFICES ASSUME NEW place \in {"save", "restore", "reconfig", "status"},
                      NEW new \in States, NEW undoing \in BOOLEAN,
                      new.migration = tx[p].new.migration, Evidenced(new),
                      Go(p, place),
                      tx' = [tx EXCEPT ![p] = [tx[p] EXCEPT !.new = new,
                                                            !.undoing = undoing]]
               PROVE  MigrationInv'
  <2>1. CASE CheckFailed(p)
    <3>1. CASE tx[p].undoing
      <4>1. tx' = [tx EXCEPT ![p] = [tx[p] EXCEPT !.new = With(p, "FAILED"),
                                                  !.undoing = tx[p].undoing]]
        BY <1>1, <2>1, <3>1 DEF CheckFailed, MigrationInv, TypeOK, Txs
      <4> QED
        BY <1>1, <1>2, <2>1, <3>1, <4>1, WithSound DEF CheckFailed, Txs
    <3>2. CASE ~tx[p].undoing
      <4>1. tx' = [tx EXCEPT ![p] = [tx[p] EXCEPT !.new = tx[p].new,
                                                  !.undoing = TRUE]]
        BY <1>1, <2>1, <3>2 DEF CheckFailed, MigrationInv, TypeOK, Txs
      <4> QED
        BY <1>1, <1>2, <2>1, <3>2, <4>1 DEF CheckFailed, Backed, Established
    <3> QED
      BY <3>1, <3>2
  <2>2. CASE Checked(p) /\ pc[p] \in Checks
    <3>1. CASE pc[p] = "status"
      <4>0. Go(p, "save")
        BY <2>2, <3>1, AfterCheck DEF Checked
      <4>1. Passed(p) \in {"POLICY_APPLIED", "ROLLED_BACK", "FAILED"}
        BY DEF Passed
      <4>2. tx' = [tx EXCEPT ![p].new = With(p, Passed(p))]
        BY <2>2, <3>1 DEF Checked
      <4>3. tx' = [tx EXCEPT ![p] = [tx[p] EXCEPT !.new = With(p, Passed(p)),
                                                  !.undoing = tx[p].undoing]]
        BY <1>1, <4>2 DEF MigrationInv, TypeOK, Txs
      <4>4. /\ With(p, Passed(p)) \in States
            /\ With(p, Passed(p)).migration = tx[p].new.migration
            /\ Evidenced(With(p, Passed(p)))
        BY <4>1, WithSound
      <4>5. tx[p].undoing \in BOOLEAN
        BY <1>1 DEF Txs
      <4> QED
        BY <1>2, <4>0, <4>3, <4>4, <4>5
    <3>2. CASE pc[p] # "status"
      <4>1. tx' = [tx EXCEPT ![p] = [tx[p] EXCEPT !.new = tx[p].new,
                                                  !.undoing = tx[p].undoing]]
        BY <1>1, <2>2, <3>2 DEF Checked, MigrationInv, TypeOK, Txs
      <4>2. After[pc[p]] \in {"reconfig", "status"}
        <5>1. pc[p] \in Checks
          BY <2>2
        <5> QED
          BY <3>2, <5>1, AfterCheck DEF Checks
      <4>3. Go(p, After[pc[p]])
        BY <2>2 DEF Checked
      <4>4. Evidenced(tx[p].new) /\ tx[p].new \in States
        BY <1>1 DEF Established, Backed
      <4> QED
        BY <1>1, <1>2, <4>1, <4>2, <4>3, <4>4 DEF Txs
    <3> QED
      BY <3>1, <3>2
  <2> QED
    BY <2>1, <2>2
<1> DEFINE t == [tx[p] EXCEPT !.new = new, !.undoing = undoing]
<1>3. /\ t \in Txs /\ t.new = new /\ t.cmd = tx[p].cmd /\ t.read = tx[p].read
      /\ t.number = tx[p].number /\ t.original = tx[p].original
      /\ t.target = tx[p].target
  BY <1>1 DEF Txs
<1>4. backups[new.migration] \in Policies
  BY <1>2 DEF Backed
<1>5. pc[p] # "idle"
  BY DEF Checks
<1>6. pc'[p] = place /\ tx'[p] = t => Established(p)'
  BY <1>1, <1>2, <1>3, <1>4, <1>5 DEF Established, Checks, Backed, Evidenced,
     histories
<1> HIDE DEF t
<1>7. tx' = [tx EXCEPT ![p] = t]
  BY <1>2 DEF t
<1>8. /\ t \in Txs /\ place \in Places /\ Go(p, place)
      /\ backups' \in [Migrations -> Policies \union {None}]
      /\ \A n \in Migrations : backups[n] \in Policies => backups'[n] \in Policies
  BY <1>1, <1>2, <1>3 DEF Places
<1> QED
  BY <1>6, <1>7, <1>8, BindStep

\* The checks, passed or failed, leave a state with a backup to be saved.
LEMMA ChecksSound ==
    ASSUME MigrationInv, NEW p \in Procs,
           Reconfigure(p) \/ ReconfigFails(p) \/ Check(p) \/ RestoreFails(p)
    PROVE  MigrationInv'
<1>1. /\ declaration \in Policies /\ running \in Policies /\ keys \subseteq Policies
      /\ Established(p)
  BY DEF MigrationInv, TypeOK
<1>2. /\ pc[p] \in Checks \union {"restore"}
      /\ (Checked(p) /\ pc[p] \in Checks) \/ CheckFailed(p)
      /\ declaration' \in Policies /\ running' \in Policies
      /\ keys' \subseteq Policies
      /\ UNCHANGED <<world, state, backups, lock, issued, histories>>
  BY <1>1 DEF Reconfigure, ReconfigFails, Check, RestoreFails, Checks,
     Undisturbed, Untouched, bind, histories
<1>3. Backed(tx[p].new)
  BY <1>1, <1>2 DEF Established
<1> QED
  BY <1>2, <1>3, CheckStep

\* check, advance, finalize and rollback read the state file.
LEMMA LoadSound ==
    ASSUME MigrationInv, NEW p \in Procs, Load(p)
    PROVE  MigrationInv'
<1>1. CASE Return(p)
  BY <1>1, ReturnStep DEF Load
<1>2. CASE ~Return(p)
  <2> DEFINE t == [tx[p] EXCEPT !.read = state, !.new = state]
  <2>1. tx[p] \in Txs /\ state \in States /\ Backed(state) /\ Evidenced(state)
        /\ Established(p)
    BY <1>2 DEF MigrationInv, TypeOK, Load
  <2>2. /\ t \in Txs /\ t.cmd = tx[p].cmd /\ t.number = tx[p].number
        /\ t.original = tx[p].original /\ t.target = tx[p].target
        /\ t.read = state /\ t.new = state
    BY <2>1 DEF Txs
  <2>3. tx' = [tx EXCEPT ![p] = t] /\ Go(p, "observe") /\ UNCHANGED lock
        /\ Undisturbed
    BY <1>2, <2>1 DEF Load, MigrationInv, TypeOK, Txs
  <2>4. backups' = backups /\ observed' = observed /\ pc[p] = "load"
    BY DEF Load, Undisturbed, Untouched, histories
  <2>5. pc'[p] = "observe" /\ tx'[p] = t => Established(p)'
    BY <2>1, <2>2, <2>4 DEF Established, Checks, Evidenced, Backed
  <2> QED
    BY <2>2, <2>3, <2>5, RecordStep DEF Places
<1> QED
  BY <1>1, <1>2

\* The gates of advance: the evidence of the boundary is observed on crossing.
LEMMA AdvancedSound ==
    ASSUME NEW s \in States, Evidenced(s), NEW signed \in BOOLEAN,
           NEW sure \in BOOLEAN, NEW ds \in BOOLEAN,
           observed \subseteq observed', ds => s.migration \in observed'
    PROVE  /\ Advanced(s, signed, sure, ds) \in States
           /\ Advanced(s, signed, sure, ds).migration = s.migration
           /\ Evidenced(Advanced(s, signed, sure, ds))'
<1> DEFINE a == Advanced(s, signed, sure, ds)
           n == [s EXCEPT !.seenDs = ds]
<1>0. /\ n \in States /\ n.migration = s.migration /\ n.noReturn = s.noReturn
      /\ n.phase = s.phase
  BY DEF States
<1>1. CASE s.phase \in {"POLICY_APPLIED", "WAITING_DNSKEY"}
  <2>1. a = [n EXCEPT !.phase = IF signed THEN "WAITING_DS" ELSE "WAITING_DNSKEY"]
    BY <1>1 DEF Advanced
  <2>2. PICK phase \in {"WAITING_DS", "WAITING_DNSKEY"} : a = [n EXCEPT !.phase = phase]
    BY <2>1
  <2> HIDE DEF a, n
  <2> QED
    BY <1>0, <2>2 DEF a, Evidenced, States, Phases, PastBoundary
<1>2. CASE s.phase = "WAITING_DS" /\ ds
  <2>1. a = [n EXCEPT !.phase = "WAITING_PROPAGATION", !.noReturn = TRUE,
                      !.rollbackAllowed = FALSE]
    BY <1>2 DEF Advanced
  <2> HIDE DEF a, n
  <2> QED
    BY <1>0, <1>2, <2>1 DEF a, Evidenced, States, Phases
<1>3. CASE s.phase = "WAITING_PROPAGATION" /\ ds /\ sure
  <2>1. a = [n EXCEPT !.phase = "READY_TO_FINALIZE"]
    BY <1>3 DEF Advanced
  <2> HIDE DEF a, n
  <2> QED
    BY <1>0, <1>3, <2>1 DEF a, Evidenced, States, Phases
<1>4. CASE /\ s.phase \notin {"POLICY_APPLIED", "WAITING_DNSKEY"}
           /\ ~(s.phase = "WAITING_DS" /\ ds)
           /\ ~(s.phase = "WAITING_PROPAGATION" /\ ds /\ sure)
  <2>1. a = n
    BY <1>4 DEF Advanced
  <2> HIDE DEF a, n
  <2> QED
    BY <1>0, <2>1 DEF a, Evidenced
<1> QED
  BY <1>1, <1>2, <1>3, <1>4

\* What advance saves past the boundary has its evidence.
LEMMA ObserveSound ==
    ASSUME MigrationInv, NEW p \in Procs, Observe(p)
    PROVE  MigrationInv'
<1>0. PICK s : s = tx[p].read
  OBVIOUS
<1>1. tx[p] \in Txs /\ Established(p) /\ pc[p] = "observe" /\ Backed(s)
      /\ Evidenced(s) /\ s \in States
  BY <1>0 DEF MigrationInv, TypeOK, Observe, Established, Backed
<1>2. PICK signed \in BOOLEAN, sure \in BOOLEAN, ds \in BOOLEAN :
        /\ observed' = IF ds THEN observed \union {s.migration} ELSE observed
        /\ \/ Return(p)
           \/ /\ Go(p, "save")
              /\ tx' = [tx EXCEPT ![p].new =
                           IF tx[p].cmd = "check"
                           THEN [s EXCEPT !.seenDs = ds]
                           ELSE Advanced(s, signed, sure, ds)]
              /\ UNCHANGED lock
  <2>1. PICK views \in Views, signed \in {FALSE, Signed(p, s)}, sure \in BOOLEAN :
          LET ds == TargetObserved(s, views) IN
          /\ observed' = IF ds THEN observed \union {s.migration} ELSE observed
          /\ IF tx[p].cmd = "advance" /\ s.phase \notin Waiting
             THEN Return(p)
             ELSE /\ Go(p, "save")
                  /\ tx' = [tx EXCEPT ![p].new =
                              IF tx[p].cmd = "check" THEN [s EXCEPT !.seenDs = ds]
                              ELSE Advanced(s, signed, sure, ds)]
                  /\ UNCHANGED lock
    BY <1>0 DEF Observe
  <2>2. PICK ds \in BOOLEAN : ds = TargetObserved(s, views)
    BY DEF TargetObserved
  <2>3. signed \in BOOLEAN
    BY DEF Signed
  <2> QED
    BY <2>1, <2>2, <2>3, Zenon
<1>3. /\ observed \subseteq observed' /\ observed' \subseteq Migrations
      /\ ds => s.migration \in observed'
      /\ stale' \in BOOLEAN /\ torn' \in BOOLEAN /\ outdated' \in BOOLEAN
      /\ UNCHANGED <<bind, world, backups, issued, state>>
  BY <1>1, <1>2 DEF Observe, MigrationInv, TypeOK, States
<1>4. CASE Return(p)
  BY <1>3, <1>4, ReturnSound, FreeStep
<1>5. CASE ~Return(p)
  <2>2. PICK new \in States :
          /\ new.migration = s.migration /\ Evidenced(new)'
          /\ Go(p, "save") /\ UNCHANGED lock
          /\ tx' = [tx EXCEPT ![p].new = new]
    <3>1. CASE tx[p].cmd = "check"
      <4>1. /\ [s EXCEPT !.seenDs = ds] \in States
            /\ [s EXCEPT !.seenDs = ds].migration = s.migration
            /\ Evidenced([s EXCEPT !.seenDs = ds])'
        BY <1>1, <1>3 DEF States, Evidenced
      <4>2. tx' = [tx EXCEPT ![p].new = [s EXCEPT !.seenDs = ds]]
        BY <1>2, <1>5, <3>1
      <4> QED
        BY <1>2, <1>5, <4>1, <4>2
    <3>2. CASE tx[p].cmd # "check"
      <4>1. /\ Advanced(s, signed, sure, ds) \in States
            /\ Advanced(s, signed, sure, ds).migration = s.migration
            /\ Evidenced(Advanced(s, signed, sure, ds))'
        BY <1>1, <1>3, AdvancedSound
      <4>2. tx' = [tx EXCEPT ![p].new = Advanced(s, signed, sure, ds)]
        BY <1>2, <1>5, <3>2
      <4> QED
        BY <1>2, <1>5, <4>1, <4>2
    <3> QED
      BY <3>1, <3>2
  <2> DEFINE t == [tx[p] EXCEPT !.new = new]
  <2>3. /\ t \in Txs /\ t.cmd = tx[p].cmd /\ t.number = tx[p].number
        /\ t.original = tx[p].original /\ t.target = tx[p].target
        /\ t.read = s /\ t.new = new
    BY <1>0, <1>1, <2>2 DEF Txs
  <2>4. tx' = [tx EXCEPT ![p] = t]
    BY <1>1, <2>2 DEF MigrationInv, TypeOK, Txs
  <2> HIDE DEF t
  <2>5. /\ pc' \in [Procs -> Places] /\ tx' \in [Procs -> Txs]
        /\ pc'[p] = "save" /\ tx'[p] = t
        /\ \A q \in Procs \ {p} : pc'[q] = pc[q] /\ tx'[q] = tx[q]
    BY <2>2, <2>3, <2>4, GoSound DEF Places
  <2>6. Backed(new)' /\ Evidenced(s)'
    BY <1>1, <1>3, <2>2 DEF Backed, Evidenced
  <2>7. Established(p)'
    BY <1>0, <1>1, <2>2, <2>3, <2>5, <2>6 DEF Established, Checks
  <2>8. lock' \in Procs \union {None}
    BY <2>2 DEF MigrationInv, TypeOK
  <2> QED
    BY <1>3, <2>5, <2>7, <2>8, FreeStep
<1> QED
  BY <1>4, <1>5

\* What finalize saves was past the boundary before it.
LEMMA FinalizeSound ==
    ASSUME MigrationInv, NEW p \in Procs, Finalize(p)
    PROVE  MigrationInv'
<1>1. CASE Return(p)
  BY <1>1, ReturnStep DEF Finalize
<1>2. CASE ~Return(p)
  <2> DEFINE n == [state EXCEPT !.phase = "COMPLETE", !.rollbackAllowed = FALSE]
             t == [tx[p] EXCEPT !.read = state, !.new = n]
  <2>1. /\ tx[p] \in Txs /\ state \in States /\ Backed(state) /\ Evidenced(state)
        /\ Established(p) /\ state.phase = "READY_TO_FINALIZE"
    BY <1>2 DEF MigrationInv, TypeOK, Finalize, MayFinalize
  <2>2. n \in States /\ n.migration = state.migration /\ state.migration \in observed
    BY <2>1 DEF States, Phases, Evidenced, PastBoundary
  <2>3. tx' = [tx EXCEPT ![p].read = state, ![p].new = n] /\ Go(p, "save")
        /\ UNCHANGED lock /\ Undisturbed
    BY <1>2 DEF Finalize
  <2> HIDE DEF n
  <2>4. /\ t \in Txs /\ t.cmd = tx[p].cmd /\ t.number = tx[p].number
        /\ t.original = tx[p].original /\ t.target = tx[p].target
        /\ t.read = state /\ t.new = n
    BY <2>1, <2>2 DEF Txs
  <2>5. tx' = [tx EXCEPT ![p] = t]
    BY <2>1, <2>3 DEF MigrationInv, TypeOK, Txs
  <2>6. /\ backups' = backups /\ observed' = observed /\ pc[p] = "load"
        /\ state' = state
    BY DEF Finalize, Undisturbed, Untouched, histories
  <2>7. n' = n
    BY <2>6 DEF n
  <2>8. pc'[p] = "save" /\ tx'[p] = t => Established(p)'
    BY <2>1, <2>2, <2>4, <2>6, <2>7 DEF Established, Checks, Evidenced, Backed
  <2> QED
    BY <2>3, <2>4, <2>5, <2>8, RecordStep DEF Places
<1> QED
  BY <1>1, <1>2

\* A rollback works on the state it has read.
LEMMA RollbackSound ==
    ASSUME MigrationInv, NEW p \in Procs, Rollback(p)
    PROVE  MigrationInv'
<1>1. CASE Return(p)
  BY <1>1, ReturnStep DEF Rollback
<1>2. CASE ~Return(p)
  <2>1. tx[p] \in Txs /\ state \in States /\ Backed(state) /\ Evidenced(state)
        /\ Established(p)
    BY <1>2 DEF MigrationInv, TypeOK, Rollback
  <2>2. /\ Go(p, "restore") /\ UNCHANGED lock /\ Undisturbed
        /\ tx' = [tx EXCEPT ![p].read = state, ![p].new = state, ![p].undoing = TRUE]
    BY <1>2 DEF Rollback
  <2>3. PICK t \in Txs :
          /\ t.cmd = tx[p].cmd /\ t.number = tx[p].number
          /\ t.original = tx[p].original /\ t.target = tx[p].target
          /\ t.read = state /\ t.new = state
          /\ tx' = [tx EXCEPT ![p] = t]
    <3> DEFINE t == [tx[p] EXCEPT !.read = state, !.new = state, !.undoing = TRUE]
    <3>1. /\ t \in Txs /\ t.cmd = tx[p].cmd /\ t.number = tx[p].number
          /\ t.original = tx[p].original /\ t.target = tx[p].target
          /\ t.read = state /\ t.new = state
      BY <2>1 DEF Txs
    <3>2. tx' = [tx EXCEPT ![p] = t]
      BY <2>1, <2>2 DEF MigrationInv, TypeOK, Txs
    <3> HIDE DEF t
    <3> QED
      BY <3>1, <3>2
  <2>4. backups' = backups /\ observed' = observed /\ pc[p] = "load"
    BY DEF Rollback, Undisturbed, Untouched, histories
  <2>5. pc'[p] = "restore" /\ tx'[p] = t => Established(p)'
    BY <2>1, <2>3, <2>4 DEF Established, Checks, Evidenced, Backed
  <2> QED
    BY <2>2, <2>3, <2>5, RecordStep DEF Places
<1> QED
  BY <1>1, <1>2

\* What is saved was established by the command that saves it.
LEMMA SaveSound ==
    ASSUME MigrationInv, NEW p \in Procs, Save(p)
    PROVE  MigrationInv'
<1>1. /\ Established(p) /\ Backed(tx[p].new) /\ Evidenced(tx[p].new)
  BY DEF MigrationInv, Established, Save
<1>2. /\ state' = tx[p].new /\ observed' = observed /\ observed \subseteq Migrations
      /\ stale' \in BOOLEAN /\ torn' \in BOOLEAN /\ outdated' \in BOOLEAN
      /\ UNCHANGED <<bind, world, backups, issued>> /\ Return(p)
  BY DEF Save, MigrationInv, TypeOK
<1> QED
  BY <1>1, <1>2, ReturnSound, FreeStep

\* A command that dies leaves what the others have established.
LEMMA CrashSound ==
    ASSUME MigrationInv, NEW p \in Procs, Crash(p)
    PROVE  MigrationInv'
<1>1. /\ state' = state /\ observed' = observed /\ observed \subseteq Migrations
      /\ stale' \in BOOLEAN /\ torn' \in BOOLEAN /\ outdated' \in BOOLEAN
      /\ UNCHANGED <<bind, world, backups, issued>> /\ Return(p)
  BY DEF Crash, MigrationInv, TypeOK
<1> QED
  BY <1>1, ReturnSound, FreeStep

\* A save that raises turns a start back, and ends other commands.
LEMMA SaveFailsSound ==
    ASSUME MigrationInv, NEW p \in Procs, SaveFails(p)
    PROVE  MigrationInv'
<1>1. CASE tx[p].cmd = "start" /\ ~tx[p].undoing
  <2>1. Backed(tx[p].new) /\ pc[p] = "save"
    BY DEF MigrationInv, Established, SaveFails
  <2>2. CheckFailed(p) /\ UNCHANGED <<bind, world, state, backups, lock, issued, histories>>
    BY <1>1 DEF SaveFails, histories
  <2>3. declaration' \in Policies /\ running' \in Policies /\ keys' \subseteq Policies
    BY <2>2 DEF bind, MigrationInv, TypeOK
  <2> QED
    BY <2>1, <2>2, <2>3, CheckStep
<1>2. CASE ~(tx[p].cmd = "start" /\ ~tx[p].undoing)
  <2>1. /\ state' = state /\ observed' = observed /\ observed \subseteq Migrations
        /\ stale' \in BOOLEAN /\ torn' \in BOOLEAN /\ outdated' \in BOOLEAN
        /\ UNCHANGED <<bind, world, backups, issued>> /\ Return(p)
    BY <1>2 DEF SaveFails, MigrationInv, TypeOK
  <2> QED
    BY <2>1, ReturnSound, FreeStep
<1> QED
  BY <1>1, <1>2

\* A start that is undone after its save works on what it saved.
LEMMA AuditFailsSound ==
    ASSUME MigrationInv, NEW p \in Procs, AuditFails(p)
    PROVE  MigrationInv'
<1> DEFINE n == tx[p].new
           t == [tx[p] EXCEPT !.read = n, !.undoing = TRUE]
<1>1. tx[p] \in Txs /\ Established(p) /\ pc[p] = "save" /\ Backed(n)
      /\ Evidenced(n)
  BY DEF MigrationInv, TypeOK, Established, AuditFails
<1>2. /\ t \in Txs /\ t.cmd = tx[p].cmd /\ t.number = tx[p].number
      /\ t.original = tx[p].original /\ t.target = tx[p].target
      /\ t.read = n /\ t.new = n
  BY <1>1 DEF Txs, Backed
<1>3. tx' = [tx EXCEPT ![p] = t] /\ Go(p, "restore")
  BY <1>1 DEF AuditFails, MigrationInv, TypeOK, Txs
<1> HIDE DEF t
<1>4. /\ pc' \in [Procs -> Places] /\ tx' \in [Procs -> Txs]
      /\ pc'[p] = "restore" /\ tx'[p] = t
      /\ \A q \in Procs \ {p} : pc'[q] = pc[q] /\ tx'[q] = tx[q]
  BY <1>2, <1>3, GoSound DEF Places
<1>5. /\ state' = n /\ observed' = observed /\ observed \subseteq Migrations
      /\ stale' \in BOOLEAN /\ torn' \in BOOLEAN /\ outdated' \in BOOLEAN
      /\ UNCHANGED <<bind, world, backups, issued>>
      /\ lock' \in Procs \union {None}
  BY DEF AuditFails, MigrationInv, TypeOK
<1>6. backups' = backups
  BY DEF AuditFails
<1>7. Established(p)'
  BY <1>1, <1>2, <1>4, <1>5, <1>6 DEF Established, Checks, Backed, Evidenced
<1> QED
  BY <1>1, <1>4, <1>5, <1>7, FreeStep

\* Every step of a command keeps the invariant.
LEMMA StepSound ==
    ASSUME MigrationInv, NEW p \in Procs, Step(p)
    PROVE  MigrationInv'
BY RefuseSound, IdentifySound, TakeLockSound, PreflightSound, BackupSound,
   WritePolicySound, ChecksSound, RestoreSound, LoadSound, ObserveSound,
   FinalizeSound, RollbackSound, SaveSound, AuditFailsSound,
   SaveFailsSound, Zenon DEF Step

\* Operator, resolvers, named, and steps that change nothing.
LEMMA ElsewhereSound ==
    ASSUME MigrationInv, Elsewhere, declaration' = declaration,
           running' = running, keys' \subseteq Policies,
           parent' \subseteq Policies, cached' \subseteq Policies
    PROVE  MigrationInv'
<1>1. TypeOK'
  BY DEF MigrationInv, TypeOK, Elsewhere, histories
<1>2. \A p \in Procs : Established(p)'
  BY DEF MigrationInv, Elsewhere, histories, Established, Backed, Evidenced
<1>3. (state' # None => Backed(state)') /\ Evidenced(state)'
  BY DEF MigrationInv, Elsewhere, histories, Backed, Evidenced
<1> QED
  BY <1>1, <1>2, <1>3 DEF MigrationInv

\* The invariant is inductive.
LEMMA NextSound == MigrationInv /\ [Next]_vars => MigrationInv'
<1> SUFFICES ASSUME MigrationInv, [Next]_vars PROVE MigrationInv'
  OBVIOUS
<1>0. /\ keys \subseteq Policies /\ parent \subseteq Policies
      /\ cached \subseteq Policies /\ (state # None => state.target \in Policies)
  BY DEF MigrationInv, TypeOK, Backed, States
<1>1. ASSUME NEW p \in Procs, Begin(p) \/ Step(p) \/ Crash(p) PROVE MigrationInv'
  BY <1>1, BeginSound, StepSound, CrashSound, Zenon
<1>2. CASE ChangeDs
  BY <1>0, <1>2, ElsewhereSound DEF ChangeDs, bind
<1>3. CASE CacheExpires
  BY <1>0, <1>3, ElsewhereSound DEF CacheExpires, bind
<1>4. CASE DropKey
  BY <1>0, <1>4, ElsewhereSound DEF DropKey, world
<1>5. CASE UNCHANGED vars
  BY <1>0, <1>5, ElsewhereSound DEF vars, bind, world, Elsewhere
<1> QED
  BY <1>1, <1>2, <1>3, <1>4, <1>5 DEF Next

\* The inductive invariant: what each command has established, place by place.
THEOREM MigrationInvariant == Spec => []MigrationInv
BY InitSound, NextSound, PTL DEF Spec

\* The state file, the declarations and the backups have their types.
THEOREM TypeCorrect == Spec => []TypeOK
<1>1. MigrationInv => TypeOK
  BY DEF MigrationInv
<1> QED
  BY <1>1, MigrationInvariant, PTL

\* No migration passes its point of no return, and none is complete, unless
\* its target DS was observed, whatever crashed, failed or was overwritten.
THEOREM EvidenceGate == Spec => []CompleteIsEvidenced
<1>1. MigrationInv => CompleteIsEvidenced
  BY DEF MigrationInv, CompleteIsEvidenced
<1> QED
  BY <1>1, MigrationInvariant, PTL

(***************************************************************************)
(* Second part: what the state file says is what is declared, what named   *)
(* runs and what the parent trusts.                                        *)
(***************************************************************************)

(* Backups *****************************************************************)

BackedUp(s) == backups[s.migration] = s.source

\* Every saved declaration is the source of its migration. A start that has not
\* made its backup has a number of its own, without a backup.
BackupOk(p) ==
    /\ pc[p] \in {"observe", "write", "restore", "save"} \union Checks =>
          BackedUp(tx[p].new)
    /\ pc[p] = "backup" => declaration = tx[p].new.source
    /\ pc[p] \in {"identify", "lock", "load", "backup"} /\ tx[p].cmd = "start" =>
          backups[tx[p].number] = None
    /\ tx[p].cmd = "start" => tx[p].number \in 1..issued

BackupInv ==
    /\ state # None => BackedUp(state)
    /\ \A n \in Migrations : n > issued => backups[n] = None
    /\ \A p \in Procs : BackupOk(p)
    /\ \A p, q \in Procs :
          p # q /\ tx[p].cmd = "start" /\ tx[q].cmd = "start" =>
             tx[p].number # tx[q].number

(* The lock ****************************************************************)

Working == {"load", "observe", "backup", "write", "restore", "save"} \union Checks

\* A command under the lock of the zone, and where each command may be.
LockOk(p) ==
    /\ lock = p <=> pc[p] \in Working /\ tx[p].cmd # "check"
    /\ pc[p] = "idle" => tx[p].cmd = None
    /\ pc[p] # "idle" => tx[p].cmd \in Assigned[p]
    /\ tx[p].cmd = "check" => pc[p] \in {"load", "observe", "save"}
    /\ pc[p] = "observe" => tx[p].cmd \in {"check", "advance"}
    /\ pc[p] = "restore" => tx[p].undoing
    /\ pc[p] \in {"restore"} \union Checks => tx[p].cmd \in {"start", "rollback"}
    /\ pc[p] \in {"identify", "lock", "load", "backup", "write"} => ~tx[p].undoing
    /\ tx[p].cmd = "rollback" /\ pc[p] \in {"restore", "save"} \union Checks =>
          tx[p].undoing

LockInv == \A p \in Procs : LockOk(p)

\* The command may have changed what is declared or what named runs.
Changing(p) ==
    \/ pc[p] \in {"restore"} \union Checks
    \/ pc[p] = "save" /\ tx[p].cmd \in {"start", "rollback"}

(* What the state file says ************************************************)

\* r and s differ in the evidence at most.
Alike(r, s) ==
    /\ r \in States /\ s \in States
    /\ r.migration = s.migration /\ r.source = s.source /\ r.target = s.target
    /\ r.sourceKeys = s.sourceKeys /\ r.phase = s.phase

\* Where a migration that goes on from r may come to.
Later(r, s) ==
    /\ r \in States /\ s \in States
    /\ r.migration = s.migration /\ r.source = s.source /\ r.target = s.target
    /\ r.sourceKeys = s.sourceKeys
    /\ r.phase \notin Ended /\ s.phase \notin {"ROLLED_BACK", "FAILED"}
    /\ r.phase \in PastBoundary => s.phase \in PastBoundary

Bounded(s) == s # None /\ s.phase \in PastBoundary => ~s.rollbackAllowed

\* What the command of p is about to save.
RecordOk(p) ==
    /\ Bounded(tx[p].new)
    /\ pc[p] = "observe" => tx[p].new = tx[p].read
    /\ pc[p] \in {"backup", "write"} => tx[p].new.target = tx[p].target
    /\ pc[p] = "save" /\ tx[p].cmd = "check" => Alike(tx[p].read, tx[p].new)
    /\ pc[p] = "save" /\ tx[p].cmd \in {"advance", "finalize"} =>
          Later(tx[p].read, tx[p].new)
    /\ pc[p] = "save" /\ tx[p].cmd \in {"start", "rollback"} =>
          IF tx[p].undoing THEN tx[p].new.phase \in {"ROLLED_BACK", "FAILED"}
          ELSE tx[p].new.phase = "POLICY_APPLIED"

RecordInv ==
    /\ Bounded(state)
    /\ \A p \in Procs : RecordOk(p)

\* The policy that a state stands for.
Says(s) == IF s = None THEN First
           ELSE IF s.phase = "ROLLED_BACK" THEN s.source ELSE s.target

\* What a start, or an undoing, has declared.
Aim(p) == IF tx[p].undoing THEN tx[p].new.source ELSE tx[p].new.target

Quiet == \A p \in Procs : ~Changing(p)

MatchOk(p) ==
    /\ pc[p] \in Checks => declaration = Aim(p)
    /\ pc[p] = "status" => running = declaration
    /\ pc[p] = "save" /\ Changing(p) /\ tx[p].new.phase # "FAILED" =>
          running = declaration /\ declaration = Aim(p)

\* Unless a command died, lost its state or overwrote another's.
MatchInv ==
    ~stale /\ ~torn =>
        /\ state # None => state.phase # "FAILED"
        /\ Quiet => running = declaration /\ declaration = Says(state)
        /\ \A p \in Procs : MatchOk(p)

PhaseInv == MigrationInv /\ BackupInv /\ LockInv /\ RecordInv /\ MatchInv

(* The steps, field by field ***********************************************)

Stays(p) == \A q \in Procs \ {p} : pc'[q] = pc[q] /\ tx'[q] = tx[q]

Leaves(p) ==
    /\ pc'[p] = "idle" /\ tx'[p] = NoTx /\ Stays(p)
    /\ lock' = IF lock = p THEN None ELSE lock

Goes(p, place, read, new, undoing) ==
    /\ pc'[p] = place
    /\ tx'[p].cmd = tx[p].cmd /\ tx'[p].number = tx[p].number
    /\ tx'[p].original = tx[p].original /\ tx'[p].target = tx[p].target
    /\ tx'[p].sourceKeys = tx[p].sourceKeys
    /\ tx'[p].read = read /\ tx'[p].new = new /\ tx'[p].undoing = undoing
    /\ Stays(p)

\* A command returns.
LEMMA Returns ==
    ASSUME MigrationInv, NEW p \in Procs, Return(p)
    PROVE  Leaves(p)
BY DEF Return, Go, Leaves, Stays, MigrationInv, TypeOK

\* A command without a migration in it.
LEMMA NothingDone ==
    /\ NoTx.cmd = None /\ NoTx.undoing = FALSE /\ NoTx.read = None /\ NoTx.new = None
    /\ None \notin {"start", "check", "advance", "finalize", "rollback"}
    /\ None \notin Policies /\ None \notin Procs
BY MigrationAssumption DEF NoTx, NewTx, CommandNames

\* A command goes on with another record.
LEMMA Moves ==
    ASSUME MigrationInv, NEW p \in Procs, NEW place, Go(p, place),
           NEW t, t \in Txs, tx' = [tx EXCEPT ![p] = t]
    PROVE  pc'[p] = place /\ tx'[p] = t /\ Stays(p)
BY DEF Go, Stays, MigrationInv, TypeOK

\* The whole record of p, for the steps that name a part of it.
LEMMA Whole ==
    ASSUME MigrationInv, NEW p \in Procs
    PROVE  /\ tx[p] \in Txs /\ tx \in [Procs -> Txs]
           /\ tx[p].read \in States \union {None}
           /\ tx[p].new \in States \union {None} /\ tx[p].undoing \in BOOLEAN
BY DEF MigrationInv, TypeOK, Txs

\* What a check decides on changes the phase alone.
LEMMA WithIs ==
    ASSUME NEW p \in Procs, tx[p].new \in States, NEW ph \in Phases
    PROVE  /\ With(p, ph) \in States /\ With(p, ph).phase = ph
           /\ With(p, ph).migration = tx[p].new.migration
           /\ With(p, ph).source = tx[p].new.source
           /\ With(p, ph).target = tx[p].new.target
           /\ With(p, ph).sourceKeys = tx[p].new.sourceKeys
           /\ With(p, ph).rollbackAllowed = tx[p].new.rollbackAllowed
BY DEF With, States

Pass(p) == Goes(p, After[pc[p]], tx[p].read,
                IF pc[p] = "status" THEN With(p, Passed(p)) ELSE tx[p].new, tx[p].undoing)

Fail(p) == IF tx[p].undoing THEN Goes(p, "save", tx[p].read, With(p, "FAILED"), TRUE)
           ELSE Goes(p, "restore", tx[p].read, tx[p].new, TRUE)

\* Another new state, or another direction.
LEMMA Renewed ==
    ASSUME MigrationInv, NEW p \in Procs, NEW place, Go(p, place), NEW new \in States,
           tx' = [tx EXCEPT ![p].new = new]
    PROVE  Goes(p, place, tx[p].read, new, tx[p].undoing)
<1> DEFINE t == [tx[p] EXCEPT !.new = new]
<1>1. /\ t \in Txs /\ t.cmd = tx[p].cmd /\ t.number = tx[p].number
      /\ t.original = tx[p].original /\ t.target = tx[p].target
      /\ t.sourceKeys = tx[p].sourceKeys
      /\ t.read = tx[p].read /\ t.new = new /\ t.undoing = tx[p].undoing
  BY Whole DEF Txs
<1>2. tx' = [tx EXCEPT ![p] = t]
  BY Whole DEF Txs
<1> HIDE DEF t
<1>3. pc'[p] = place /\ tx'[p] = t /\ Stays(p)
  BY <1>1, <1>2, Moves
<1> QED
  BY <1>1, <1>3 DEF Goes

\* A state read, and a new one made of it.
LEMMA Loaded ==
    ASSUME MigrationInv, NEW p \in Procs, NEW place, Go(p, place),
           NEW read \in States \union {None}, NEW new \in States,
           tx' = [tx EXCEPT ![p].read = read, ![p].new = new]
    PROVE  Goes(p, place, read, new, tx[p].undoing)
<1> DEFINE t == [tx[p] EXCEPT !.read = read, !.new = new]
<1>1. /\ t \in Txs /\ t.cmd = tx[p].cmd /\ t.number = tx[p].number
      /\ t.original = tx[p].original /\ t.target = tx[p].target
      /\ t.sourceKeys = tx[p].sourceKeys
      /\ t.read = read /\ t.new = new /\ t.undoing = tx[p].undoing
  BY Whole DEF Txs
<1>2. tx' = [tx EXCEPT ![p] = t]
  BY Whole DEF Txs
<1> HIDE DEF t
<1>3. pc'[p] = place /\ tx'[p] = t /\ Stays(p)
  BY <1>1, <1>2, Moves
<1> QED
  BY <1>1, <1>3 DEF Goes

\* A start turns back.
LEMMA Turned ==
    ASSUME MigrationInv, NEW p \in Procs, NEW place, Go(p, place),
           tx' = [tx EXCEPT ![p].undoing = TRUE]
    PROVE  Goes(p, place, tx[p].read, tx[p].new, TRUE)
<1> DEFINE t == [tx[p] EXCEPT !.undoing = TRUE]
<1>1. /\ t \in Txs /\ t.cmd = tx[p].cmd /\ t.number = tx[p].number
      /\ t.original = tx[p].original /\ t.target = tx[p].target
      /\ t.sourceKeys = tx[p].sourceKeys
      /\ t.read = tx[p].read /\ t.new = tx[p].new /\ t.undoing = TRUE
  BY Whole DEF Txs
<1>2. tx' = [tx EXCEPT ![p] = t]
  BY Whole DEF Txs
<1> HIDE DEF t
<1>3. pc'[p] = place /\ tx'[p] = t /\ Stays(p)
  BY <1>1, <1>2, Moves
<1> QED
  BY <1>1, <1>3 DEF Goes

\* A state read, to be undone.
LEMMA Turning ==
    ASSUME MigrationInv, NEW p \in Procs, NEW place, Go(p, place),
           NEW read \in States, NEW new \in States,
           tx' = [tx EXCEPT ![p].read = read, ![p].new = new, ![p].undoing = TRUE]
    PROVE  Goes(p, place, read, new, TRUE)
<1> DEFINE t == [tx[p] EXCEPT !.read = read, !.new = new, !.undoing = TRUE]
<1>1. /\ t \in Txs /\ t.cmd = tx[p].cmd /\ t.number = tx[p].number
      /\ t.original = tx[p].original /\ t.target = tx[p].target
      /\ t.sourceKeys = tx[p].sourceKeys
      /\ t.read = read /\ t.new = new /\ t.undoing = TRUE
  BY Whole DEF Txs
<1>2. tx' = [tx EXCEPT ![p] = t]
  BY Whole DEF Txs
<1> HIDE DEF t
<1>3. pc'[p] = place /\ tx'[p] = t /\ Stays(p)
  BY <1>1, <1>2, Moves
<1> QED
  BY <1>1, <1>3 DEF Goes

\* A command goes on with the record it has.
LEMMA Unturned ==
    ASSUME MigrationInv, NEW p \in Procs, NEW place, Go(p, place), UNCHANGED tx
    PROVE  Goes(p, place, tx[p].read, tx[p].new, tx[p].undoing)
BY DEF Go, Goes, Stays, MigrationInv, TypeOK

\* A check that fails.
LEMMA Fails ==
    ASSUME MigrationInv, NEW p \in Procs, CheckFailed(p), tx[p].new \in States
    PROVE  Fail(p)
<1>1. CASE tx[p].undoing
  <2>1. With(p, "FAILED") \in States
    BY WithIs DEF Phases
  <2>2. Goes(p, "save", tx[p].read, With(p, "FAILED"), tx[p].undoing)
    BY <1>1, <2>1, Renewed DEF CheckFailed
  <2>3. tx[p].undoing = TRUE
    BY <1>1, Whole
  <2> QED
    BY <2>2, <2>3 DEF Fail
<1>2. CASE ~tx[p].undoing
  <2>1. Goes(p, "restore", tx[p].read, tx[p].new, TRUE)
    BY <1>2, Turned DEF CheckFailed
  <2> QED
    BY <1>2, <2>1 DEF Fail
<1> QED
  BY <1>1, <1>2

\* A check that passes.
LEMMA Passes ==
    ASSUME MigrationInv, NEW p \in Procs, Checked(p), tx[p].new \in States
    PROVE  Pass(p)
<1> DEFINE place == After[pc[p]]
<1>0. Go(p, place)
  BY DEF Checked
<1> HIDE DEF place
<1>1. CASE pc[p] # "status"
  <2>1. Goes(p, place, tx[p].read, tx[p].new, tx[p].undoing)
    BY <1>0, <1>1, Unturned DEF Checked
  <2> QED
    BY <1>1, <2>1 DEF Pass, place
<1>2. CASE pc[p] = "status"
  <2>1. With(p, Passed(p)) \in States
    BY WithIs DEF Passed, Phases
  <2>2. Goes(p, place, tx[p].read, With(p, Passed(p)), tx[p].undoing)
    BY <1>0, <1>2, <2>1, Renewed DEF Checked
  <2> QED
    BY <1>2, <2>2 DEF Pass, place
<1> QED
  BY <1>1, <1>2

(* What the other commands keep ********************************************)

\* Another command and the lock.
LEMMA LockStays ==
    ASSUME LockInv, NEW p \in Procs, Stays(p), LockOk(p)',
           lock' = lock \/ (lock = p /\ lock' = None) \/ (lock = None /\ lock' = p)
    PROVE  LockInv'
<1> SUFFICES ASSUME NEW q \in Procs \ {p} PROVE LockOk(q)'
  BY DEF LockInv
<1>1. pc'[q] = pc[q] /\ tx'[q] = tx[q] /\ (lock' = q <=> lock = q)
  BY MigrationAssumption DEF Stays
<1> QED
  BY <1>1 DEF LockInv, LockOk

\* Another command and what it is about to save.
LEMMA RecordStays ==
    ASSUME RecordInv, NEW p \in Procs, Stays(p), RecordOk(p)', Bounded(state')
    PROVE  RecordInv'
BY DEF RecordInv, RecordOk, Stays

\* Another command and the backups: the declaration changes under the lock only,
\* and no start has the number of another.
LEMMA BackupStays ==
    ASSUME MigrationInv, LockInv, BackupInv, NEW p \in Procs, Stays(p), BackupOk(p)',
           state' # None => BackedUp(state)',
           UNCHANGED <<backups, issued>>,
           declaration' = declaration \/ (lock = p /\ pc[p] # "backup"),
           tx'[p].cmd = "start" => tx[p].cmd = "start" /\ tx'[p].number = tx[p].number
    PROVE  BackupInv'
<1>1. ASSUME NEW q \in Procs \ {p} PROVE BackupOk(q)'
  <2>1. pc'[q] = pc[q] /\ tx'[q] = tx[q] /\ BackupOk(q)
    BY DEF Stays, BackupInv
  <2>2. pc[q] = "backup" => declaration' = declaration
    BY DEF LockInv, LockOk, Working, MigrationInv, Established
  <2> QED
    BY <2>1, <2>2 DEF BackupOk, BackedUp
<1>2. \A q, r \in Procs : q # r /\ tx'[q].cmd = "start" /\ tx'[r].cmd = "start" =>
         tx'[q].number # tx'[r].number
  BY DEF BackupInv, Stays
<1> QED
  BY <1>1, <1>2 DEF BackupInv

(* The steps ***************************************************************)

Kept == BackupInv' /\ LockInv' /\ RecordInv' /\ MatchInv'

\* A command returns; one that had changed something has died or lost its state.
LEMMA LeavingKeeps ==
    ASSUME PhaseInv, NEW p \in Procs, Leaves(p),
           UNCHANGED <<declaration, running, state, backups, issued>>,
           ~Changing(p) \/ torn', stale => stale', torn => torn'
    PROVE  Kept
<1>1. BackupInv'
  <2>1. BackupOk(p)'
    BY NothingDone DEF Leaves, BackupOk, Checks
  <2> QED
    BY <2>1, NothingDone, BackupStays DEF PhaseInv, Leaves, BackupInv, BackedUp
<1>2. LockInv'
  <2>1. LockOk(p)'
    BY NothingDone DEF Leaves, LockOk, Working, Checks, PhaseInv, LockInv
  <2> QED
    BY <2>1, LockStays DEF PhaseInv, Leaves
<1>3. RecordInv'
  <2>1. RecordOk(p)'
    BY NothingDone DEF Leaves, RecordOk, Bounded
  <2> QED
    BY <2>1, RecordStays DEF PhaseInv, Leaves, RecordInv
<1>4. MatchInv'
  <2> SUFFICES ASSUME ~stale', ~torn' PROVE MatchInv'
    BY DEF MatchInv
  <2>1. ~stale /\ ~torn /\ ~Changing(p)
    OBVIOUS
  <2>2. Quiet' => Quiet
    BY <2>1 DEF Quiet, Leaves, Stays, Changing
  <2>3. \A q \in Procs : MatchOk(q)'
    BY <2>1, NothingDone DEF PhaseInv, MatchInv, MatchOk, Leaves, Stays, Aim, Changing, Checks
  <2> QED
    BY <2>1, <2>2, <2>3 DEF PhaseInv, MatchInv, Says
<1> QED
  BY <1>1, <1>2, <1>3, <1>4 DEF Kept

\* The commands by which a process enters.
LEMMA Enters ==
    ASSUME MigrationInv, NEW p \in Procs, Begin(p)
    PROVE  \E cmd \in Assigned[p] \cap CommandNames, to \in Policies : Enter(p, cmd, to)
<1>0. declaration \in Policies /\ Assigned[p] \subseteq CommandNames
  BY MigrationAssumption DEF MigrationInv, TypeOK
<1>1. CASE StartCommand(p)
  BY <1>0, <1>1 DEF StartCommand, Enter
<1>2. CASE MigrationView(p)
  BY <1>0, <1>2 DEF MigrationView, Chooser, Enter
<1>3. CASE LaterCommand(p)
  BY <1>0, <1>3 DEF LaterCommand, Enter
<1> QED
  BY <1>1, <1>2, <1>3 DEF Begin

\* A command begins.
LEMMA BeginKeeps ==
    ASSUME PhaseInv, NEW p \in Procs, Begin(p)
    PROVE  Kept
<1>1. PICK cmd \in Assigned[p] \cap CommandNames, to \in Policies : Enter(p, cmd, to)
  BY Enters DEF PhaseInv
<1> DEFINE t == IF cmd = "start" THEN NewTx(cmd, issued + 1, declaration, to)
                ELSE NewTx(cmd, 0, None, to)
           place == CASE cmd = "start" -> "identify"
                      [] cmd = "check" -> "load"
                      [] OTHER -> "lock"
<1>2. /\ pc[p] = "idle" /\ issued' = issued + 1 /\ issued \in Nat
      /\ issued + 1 \in Migrations
      /\ UNCHANGED <<declaration, running, state, backups, lock, stale, torn>>
      /\ tx' = [tx EXCEPT ![p] = t] /\ Go(p, place)
  BY <1>1, MigrationAssumption
     DEF Enter, bind, histories, PhaseInv, MigrationInv, TypeOK, Migrations
<1>3. /\ t.cmd = cmd /\ ~t.undoing /\ t.new = None
      /\ cmd = "start" => t.number = issued + 1
  BY DEF NewTx
<1>4. /\ place = "identify" => cmd = "start"
      /\ cmd = "start" => place = "identify"
      /\ cmd = "check" => place = "load"
      /\ cmd \notin {"start", "check"} => place = "lock"
  OBVIOUS
<1> HIDE DEF t, place
<1>5. pc'[p] = place /\ tx'[p] = t /\ Stays(p)
  BY <1>2 DEF Go, Stays, PhaseInv, MigrationInv, TypeOK
<1>6. place \in {"identify", "load", "lock"} /\ cmd \in Assigned[p] /\ cmd \in CommandNames
  BY <1>4
<1>7. tx[p].cmd = None /\ lock # p
  BY <1>2, NothingDone DEF PhaseInv, LockInv, LockOk, Working, Checks
<1>8. BackupInv'
  <2>1. BackupOk(p)'
    BY <1>2, <1>3, <1>5, <1>6 DEF BackupOk, Checks, PhaseInv, BackupInv
  <2>2. ASSUME NEW q \in Procs \ {p} PROVE BackupOk(q)'
    <3>1. pc'[q] = pc[q] /\ tx'[q] = tx[q] /\ BackupOk(q)
      BY <1>5 DEF Stays, PhaseInv, BackupInv
    <3> QED
      BY <1>2, <3>1 DEF BackupOk, BackedUp
  <2>3. \A q \in Procs \ {p} : tx[q].cmd = "start" => tx[q].number # issued + 1
    BY <1>2 DEF PhaseInv, BackupInv, BackupOk
  <2>4. \A q, r \in Procs : q # r /\ tx'[q].cmd = "start" /\ tx'[r].cmd = "start" =>
           tx'[q].number # tx'[r].number
    BY <1>3, <1>5, <2>3 DEF PhaseInv, BackupInv, Stays
  <2>5. \A n \in Migrations : n > issued' => backups'[n] = None
    BY <1>2 DEF PhaseInv, BackupInv, Migrations
  <2>6. state' # None => BackedUp(state)'
    BY <1>2 DEF PhaseInv, BackupInv, BackedUp
  <2> QED
    BY <2>1, <2>2, <2>4, <2>5, <2>6 DEF BackupInv
<1>9. LockInv'
  <2>1. LockOk(p)'
    BY <1>2, <1>3, <1>4, <1>5, <1>6, <1>7, NothingDone DEF LockOk, Working, Checks
  <2> QED
    BY <1>2, <1>5, <2>1, LockStays DEF PhaseInv
<1>10. RecordInv'
  <2>1. RecordOk(p)'
    BY <1>3, <1>5, <1>6 DEF RecordOk, Bounded
  <2> QED
    BY <1>2, <1>5, <2>1, RecordStays DEF PhaseInv, RecordInv
<1>11. MatchInv'
  <2> SUFFICES ASSUME ~stale', ~torn' PROVE MatchInv'
    BY DEF MatchInv
  <2>1. Quiet' => Quiet
    BY <1>2, <1>5 DEF Quiet, Stays, Changing, Checks
  <2>2. \A q \in Procs : MatchOk(q)'
    BY <1>2, <1>5, <1>6 DEF PhaseInv, MatchInv, MatchOk, Stays, Aim, Changing, Checks
  <2> QED
    BY <1>2, <2>1, <2>2 DEF PhaseInv, MatchInv, Says
<1> QED
  BY <1>8, <1>9, <1>10, <1>11 DEF Kept

\* A command goes on without changing anything but its record.
LEMMA GoingKeeps ==
    ASSUME PhaseInv, NEW p \in Procs, Stays(p),
           UNCHANGED <<declaration, running, state, backups, issued, stale, torn>>,
           lock' = lock \/ (lock = None /\ lock' = p),
           tx'[p].cmd = tx[p].cmd, tx'[p].number = tx[p].number,
           BackupOk(p)', LockOk(p)', RecordOk(p)',
           ~stale /\ ~torn => MatchOk(p)', Changing(p) => Changing(p)'
    PROVE  Kept
<1>1. BackupInv' /\ LockInv' /\ RecordInv'
  BY BackupStays, LockStays, RecordStays
     DEF PhaseInv, BackupInv, BackedUp, RecordInv
<1>2. MatchInv'
  <2> SUFFICES ASSUME ~stale, ~torn PROVE MatchInv'
    BY DEF MatchInv
  <2>1. Quiet' => Quiet
    BY DEF Quiet, Stays, Changing
  <2>2. \A q \in Procs : MatchOk(q)'
    BY DEF PhaseInv, MatchInv, MatchOk, Stays, Aim, Changing
  <2> QED
    BY <2>1, <2>2 DEF PhaseInv, MatchInv, Says
<1> QED
  BY <1>1, <1>2 DEF Kept

\* The commands that return without having done anything.
LEMMA ReturningKeeps ==
    ASSUME PhaseInv, NEW p \in Procs, Return(p), ~Changing(p) \/ torn',
           UNCHANGED <<declaration, running, state, backups, issued, stale>>,
           torn => torn'
    PROVE  Kept
BY Returns, LeavingKeeps DEF PhaseInv

\* A command that is refused, or that could not write, has changed nothing.
LEMMA RefuseKeeps ==
    ASSUME PhaseInv, NEW p \in Procs, Refuse(p) \/ NotWritten(p)
    PROVE  Kept
<1>1. ~Changing(p) /\ Undisturbed /\ Return(p)
  BY DEF Refuse, NotWritten, Changing, Checks
<1> QED
  BY <1>1, ReturningKeeps DEF Undisturbed, Untouched, bind, histories

\* After a command that died nothing is claimed of what is declared.
LEMMA CrashKeeps ==
    ASSUME PhaseInv, NEW p \in Procs, Crash(p)
    PROVE  Kept
BY ReturningKeeps DEF Crash, bind

\* The keys are read.
LEMMA IdentifyKeeps ==
    ASSUME PhaseInv, NEW p \in Procs, Identify(p)
    PROVE  Kept
<1>0. Undisturbed /\ pc[p] = "identify" /\ ~Changing(p)
  BY DEF Identify, Changing, Checks
<1>1. CASE Return(p)
  BY <1>0, <1>1, ReturningKeeps DEF Undisturbed, Untouched, bind, histories
<1>2. CASE Go(p, "lock") /\ tx' = [tx EXCEPT ![p].sourceKeys = keys] /\ UNCHANGED lock
  <2> DEFINE t == [tx[p] EXCEPT !.sourceKeys = keys]
  <2>1. t \in Txs /\ tx' = [tx EXCEPT ![p] = t]
    BY <1>2 DEF PhaseInv, MigrationInv, TypeOK, Txs
  <2>2. /\ t.cmd = tx[p].cmd /\ t.new = tx[p].new
        /\ t.number = tx[p].number /\ t.undoing = tx[p].undoing
    BY Whole DEF PhaseInv, Txs
  <2> HIDE DEF t
  <2>3. pc'[p] = "lock" /\ tx'[p] = t /\ Stays(p)
    BY <1>2, <2>1, Moves DEF PhaseInv
  <2>4. LockOk(p)'
    BY <1>0, <1>2, <2>2, <2>3 DEF LockOk, Working, Checks, PhaseInv, LockInv, Established, MigrationInv
  <2>5. BackupOk(p)' /\ RecordOk(p)' /\ MatchOk(p)'
    BY <1>0, <2>2, <2>3 DEF BackupOk, RecordOk, Bounded, MatchOk, Changing, Checks,
       PhaseInv, BackupInv, RecordInv, Undisturbed, Untouched
  <2> QED
    BY <1>0, <1>2, <2>2, <2>3, <2>4, <2>5, GoingKeeps DEF Undisturbed, Untouched, bind, histories
<1> QED
  BY <1>1, <1>2 DEF Identify

\* The lock is taken.
LEMMA TakeLockKeeps ==
    ASSUME PhaseInv, NEW p \in Procs, TakeLock(p)
    PROVE  Kept
<1>1. /\ Goes(p, "load", tx[p].read, tx[p].new, tx[p].undoing) /\ pc[p] = "lock"
      /\ lock = None /\ lock' = p
      /\ UNCHANGED <<declaration, running, state, backups, issued, stale, torn>>
  BY Unturned DEF TakeLock, PhaseInv, Undisturbed, Untouched, bind, histories
<1>2. tx[p].cmd # "check" /\ ~Changing(p)
  BY <1>1 DEF PhaseInv, LockInv, LockOk, Changing, Checks
<1>3. LockOk(p)'
  BY <1>1, <1>2 DEF Goes, LockOk, Working, Checks, PhaseInv, LockInv
<1>4. BackupOk(p)' /\ RecordOk(p)' /\ MatchOk(p)'
  BY <1>1 DEF Goes, BackupOk, RecordOk, Bounded, MatchOk, Changing, Checks,
     PhaseInv, BackupInv, RecordInv
<1> QED
  BY <1>1, <1>2, <1>3, <1>4, GoingKeeps DEF Goes

\* start, under the lock and before it writes.
LEMMA PreflightKeeps ==
    ASSUME PhaseInv, NEW p \in Procs, Preflight(p)
    PROVE  Kept
<1>0. Untouched /\ pc[p] = "load" /\ tx[p].cmd = "start" /\ ~Changing(p)
  BY DEF Preflight, Undisturbed, Changing, Checks
<1>1. CASE Conflict(p)
  BY <1>0, <1>1, ReturningKeeps DEF Preflight, Untouched, bind, histories
<1>2. CASE ~Conflict(p)
  <2> DEFINE s == [migration |-> tx[p].number, source |-> tx[p].original,
                   target |-> tx[p].target, sourceKeys |-> tx[p].sourceKeys,
                   phase |-> "PLANNED", rollbackAllowed |-> TRUE,
                   noReturn |-> FALSE, seenDs |-> FALSE]
  <2>1. /\ tx[p].number \in Migrations /\ tx[p].original \in Policies
        /\ tx[p].target \in Policies
    BY <1>0 DEF PhaseInv, MigrationInv, Established
  <2>2. s \in States
    BY <2>1, Whole DEF PhaseInv, States, Txs, Phases
  <2>3. s.source = tx[p].original /\ s.target = tx[p].target /\ s.phase = "PLANNED"
    OBVIOUS
  <2>4. /\ tx' = [tx EXCEPT ![p].read = state, ![p].new = s] /\ Go(p, "backup")
        /\ UNCHANGED lock
    BY <1>2 DEF Preflight
  <2> HIDE DEF s
  <2>5. Goes(p, "backup", state, s, tx[p].undoing)
    BY <2>2, <2>4, Loaded DEF PhaseInv, MigrationInv, TypeOK
  <2>6. declaration = s.source
    BY <1>2, <2>3 DEF Conflict
  <2>7. LockOk(p)'
    BY <1>0, <2>4, <2>5 DEF Goes, LockOk, Working, Checks, PhaseInv, LockInv
  <2>8. BackupOk(p)' /\ RecordOk(p)' /\ MatchOk(p)'
    BY <1>0, <2>3, <2>5, <2>6 DEF Goes, BackupOk, RecordOk, Bounded, MatchOk, Changing, Checks,
       PhaseInv, BackupInv, Untouched, bind, PastBoundary
  <2> QED
    BY <1>0, <2>4, <2>5, <2>7, <2>8, GoingKeeps DEF Goes, Untouched, bind, histories
<1> QED
  BY <1>1, <1>2

\* check and advance read the state.
LEMMA LoadKeeps ==
    ASSUME PhaseInv, NEW p \in Procs, Load(p)
    PROVE  Kept
<1>0. Undisturbed /\ pc[p] = "load" /\ tx[p].cmd \in {"check", "advance"} /\ ~Changing(p)
  BY DEF Load, Changing, Checks
<1>1. CASE state = None
  BY <1>0, <1>1, ReturningKeeps DEF Load, Undisturbed, Untouched, bind, histories
<1>2. CASE state # None
  <2>1. state \in States
    BY <1>2 DEF PhaseInv, MigrationInv, TypeOK
  <2>2. /\ tx' = [tx EXCEPT ![p].read = state, ![p].new = state] /\ Go(p, "observe")
        /\ UNCHANGED lock
    BY <1>2 DEF Load
  <2>3. Goes(p, "observe", state, state, tx[p].undoing)
    BY <2>1, <2>2, Loaded DEF PhaseInv
  <2>4. LockOk(p)'
    BY <1>0, <2>2, <2>3 DEF Goes, LockOk, Working, Checks, PhaseInv, LockInv
  <2>5. BackupOk(p)' /\ RecordOk(p)' /\ MatchOk(p)'
    BY <1>0, <1>2, <2>3 DEF Goes, BackupOk, BackedUp, RecordOk, Bounded, MatchOk, Changing, Checks,
       PhaseInv, BackupInv, RecordInv, Undisturbed, Untouched
  <2> QED
    BY <1>0, <2>2, <2>3, <2>4, <2>5, GoingKeeps DEF Goes, Undisturbed, Untouched, bind, histories
<1> QED
  BY <1>1, <1>2

\* What goes on from one state to another.
LEMMA LaterIs ==
    ASSUME NEW r \in States, NEW s \in States,
           r.migration = s.migration, r.source = s.source, r.target = s.target,
           r.sourceKeys = s.sourceKeys,
           s.phase \notin {"ROLLED_BACK", "FAILED"}, r.phase \notin Ended,
           r.phase \in PastBoundary => s.phase \in PastBoundary,
           s.phase \in PastBoundary => ~s.rollbackAllowed
    PROVE  Later(r, s) /\ Bounded(s)
BY DEF Later, Bounded

\* The gates of advance lead on, and past the boundary nothing is rolled back.
LEMMA AdvancedLater ==
    ASSUME NEW s \in States, Bounded(s), s.phase \in Waiting,
           NEW signed \in BOOLEAN, NEW sure \in BOOLEAN, NEW ds \in BOOLEAN
    PROVE  Later(s, Advanced(s, signed, sure, ds)) /\ Bounded(Advanced(s, signed, sure, ds))
<1> DEFINE a == Advanced(s, signed, sure, ds)
           n == [s EXCEPT !.seenDs = ds]
<1>0. /\ n \in States /\ n.migration = s.migration /\ n.source = s.source
      /\ n.target = s.target /\ n.sourceKeys = s.sourceKeys
      /\ n.phase = s.phase /\ n.rollbackAllowed = s.rollbackAllowed
  BY DEF States
<1>1. s.phase \notin Ended /\ s.phase \notin {"ROLLED_BACK", "FAILED"}
  BY DEF Waiting, Ended
<1>2. CASE s.phase \in {"POLICY_APPLIED", "WAITING_DNSKEY"}
  <2>1. PICK phase \in {"WAITING_DS", "WAITING_DNSKEY"} : a = [n EXCEPT !.phase = phase]
    BY <1>2 DEF Advanced
  <2> HIDE DEF a, n
  <2>2. /\ a \in States /\ a.migration = s.migration /\ a.source = s.source
        /\ a.target = s.target /\ a.sourceKeys = s.sourceKeys
        /\ a.phase = phase
    BY <1>0, <2>1 DEF States, Phases
  <2> QED
    BY <1>1, <1>2, <2>2, LaterIs DEF a, PastBoundary
<1>3. CASE s.phase = "WAITING_DS" /\ ds
  <2>1. a = [n EXCEPT !.phase = "WAITING_PROPAGATION", !.noReturn = TRUE,
                      !.rollbackAllowed = FALSE]
    BY <1>3 DEF Advanced
  <2> HIDE DEF a, n
  <2>2. /\ a \in States /\ a.migration = s.migration /\ a.source = s.source
        /\ a.target = s.target /\ a.sourceKeys = s.sourceKeys
        /\ a.phase = "WAITING_PROPAGATION" /\ a.rollbackAllowed = FALSE
    BY <1>0, <2>1 DEF States, Phases
  <2> QED
    BY <1>1, <1>3, <2>2, LaterIs DEF a, PastBoundary
<1>4. CASE s.phase = "WAITING_PROPAGATION" /\ ds /\ sure
  <2>1. a = [n EXCEPT !.phase = "READY_TO_FINALIZE"]
    BY <1>4 DEF Advanced
  <2> HIDE DEF a, n
  <2>2. /\ a \in States /\ a.migration = s.migration /\ a.source = s.source
        /\ a.target = s.target /\ a.sourceKeys = s.sourceKeys
        /\ a.phase = "READY_TO_FINALIZE" /\ a.rollbackAllowed = s.rollbackAllowed
    BY <1>0, <2>1 DEF States, Phases
  <2>3. ~s.rollbackAllowed
    BY <1>4, NoneAssumption DEF Bounded, PastBoundary
  <2> QED
    BY <1>1, <1>4, <2>2, <2>3, LaterIs DEF a, PastBoundary
<1>5. CASE /\ s.phase \notin {"POLICY_APPLIED", "WAITING_DNSKEY"}
           /\ ~(s.phase = "WAITING_DS" /\ ds)
           /\ ~(s.phase = "WAITING_PROPAGATION" /\ ds /\ sure)
  <2>1. a = n
    BY <1>5 DEF Advanced
  <2> HIDE DEF a, n
  <2>2. s.phase \in PastBoundary => ~s.rollbackAllowed
    BY NoneAssumption DEF Bounded
  <2> QED
    BY <1>0, <1>1, <2>1, <2>2, LaterIs DEF a
<1> QED
  BY <1>2, <1>3, <1>4, <1>5

\* The outcomes of the evidence collector: the command returns, or goes on to
\* save what follows from it.
LEMMA Observes ==
    ASSUME MigrationInv, NEW p \in Procs, Observe(p)
    PROVE  \/ Return(p)
           \/ \E signed \in {FALSE, Signed(p, tx[p].read)}, sure \in BOOLEAN, views \in Views :
                 LET ds == TargetObserved(tx[p].read, views)
                 IN /\ tx[p].cmd = "advance" => tx[p].read.phase \in Waiting
                    /\ Go(p, "save") /\ UNCHANGED lock
                    /\ tx' = [tx EXCEPT ![p].new =
                                IF tx[p].cmd = "check" THEN [tx[p].read EXCEPT !.seenDs = ds]
                                ELSE Advanced(tx[p].read, signed, sure, ds)]
BY DEF Observe

\* What check and advance are about to save goes on from what they read.
LEMMA ObserveKeeps ==
    ASSUME PhaseInv, NEW p \in Procs, Observe(p)
    PROVE  Kept
<1> DEFINE s == tx[p].read
<1>0. /\ pc[p] = "observe" /\ ~Changing(p)
      /\ UNCHANGED <<declaration, running, state, backups, issued, stale, torn>>
      /\ s \in States /\ tx[p].cmd \in {"check", "advance"} /\ tx[p].new = s
      /\ Bounded(s) /\ BackedUp(s)
  BY DEF Observe, Changing, Checks, bind, PhaseInv, MigrationInv, Established, Backed,
     LockInv, LockOk, RecordInv, RecordOk, BackupInv, BackupOk
<1>1. CASE Return(p)
  BY <1>0, <1>1, ReturningKeeps
<1>2. CASE ~Return(p)
  <2>1. PICK signed \in BOOLEAN, sure \in BOOLEAN, ds \in BOOLEAN :
                 /\ tx[p].cmd = "advance" => s.phase \in Waiting
                 /\ Go(p, "save") /\ UNCHANGED lock
                 /\ tx' = [tx EXCEPT ![p].new =
                                IF tx[p].cmd = "check" THEN [s EXCEPT !.seenDs = ds]
                                ELSE Advanced(s, signed, sure, ds)]
    <3>1. PICK signed \in {FALSE, Signed(p, s)}, sure \in BOOLEAN, views \in Views :
                 /\ tx[p].cmd = "advance" => s.phase \in Waiting
                 /\ Go(p, "save") /\ UNCHANGED lock
                 /\ tx' = [tx EXCEPT ![p].new =
                                IF tx[p].cmd = "check"
                                THEN [s EXCEPT !.seenDs = TargetObserved(s, views)]
                                ELSE Advanced(s, signed, sure, TargetObserved(s, views))]
      BY <1>2, Observes DEF PhaseInv
    <3>2. PICK ds \in BOOLEAN : ds = TargetObserved(s, views)
      BY DEF TargetObserved
    <3>3. signed \in BOOLEAN
      BY DEF Signed
    <3> HIDE DEF s
    <3> QED
      BY <3>1, <3>2, <3>3, Zenon
  <2>2. PICK new \in States :
          /\ Goes(p, "save", s, new, tx[p].undoing) /\ UNCHANGED lock
          /\ new.migration = s.migration /\ new.source = s.source /\ Bounded(new)
          /\ tx[p].cmd = "check" => Alike(s, new)
          /\ tx[p].cmd = "advance" => Later(s, new)
    <3>1. CASE tx[p].cmd = "check"
      <4> DEFINE n == [s EXCEPT !.seenDs = ds]
      <4>0. /\ n \in States /\ n.migration = s.migration /\ n.source = s.source
            /\ n.target = s.target /\ n.sourceKeys = s.sourceKeys
            /\ n.phase = s.phase /\ n.rollbackAllowed = s.rollbackAllowed
        BY <1>0 DEF States
      <4> HIDE DEF n, s
      <4>1. n \in States /\ Alike(s, n) /\ Bounded(n)
        BY <1>0, <4>0, NoneAssumption DEF Alike, Bounded
      <4> USE DEF n, s
      <4>2. Goes(p, "save", s, n, tx[p].undoing)
        BY <2>1, <3>1, <4>1, Renewed DEF PhaseInv
      <4> QED
        BY <2>1, <3>1, <4>1, <4>2 DEF Alike
    <3>2. CASE tx[p].cmd = "advance"
      <4> DEFINE n == Advanced(s, signed, sure, ds)
      <4>1. n \in States /\ Later(s, n) /\ Bounded(n)
        BY <1>0, <2>1, <3>2, AdvancedLater DEF Later
      <4>2. Goes(p, "save", s, n, tx[p].undoing)
        BY <2>1, <3>2, <4>1, Renewed DEF PhaseInv
      <4> HIDE DEF n
      <4> QED
        BY <2>1, <3>2, <4>1, <4>2 DEF Later
    <3> QED
      BY <1>0, <3>1, <3>2
  <2>3. LockOk(p)'
    BY <1>0, <2>2 DEF Goes, LockOk, Working, Checks, PhaseInv, LockInv
  <2>4. BackupOk(p)'
    BY <1>0, <2>2 DEF Goes, BackupOk, BackedUp, Checks, PhaseInv, BackupInv
  <2>5. RecordOk(p)' /\ MatchOk(p)'
    BY <1>0, <2>2 DEF Goes, RecordOk, MatchOk, Changing, Checks
  <2> QED
    BY <1>0, <2>2, <2>3, <2>4, <2>5, GoingKeeps DEF Goes
<1> QED
  BY <1>1, <1>2

\* finalize goes on from a state past the boundary.
LEMMA FinalizeKeeps ==
    ASSUME PhaseInv, NEW p \in Procs, Finalize(p)
    PROVE  Kept
<1>0. Undisturbed /\ pc[p] = "load" /\ tx[p].cmd = "finalize" /\ ~Changing(p)
  BY DEF Finalize, Changing, Checks
<1>1. CASE Return(p)
  BY <1>0, <1>1, ReturningKeeps DEF Undisturbed, Untouched, bind, histories
<1>2. CASE ~Return(p)
  <2> DEFINE n == [state EXCEPT !.phase = "COMPLETE", !.rollbackAllowed = FALSE]
  <2>1. state \in States /\ state.phase = "READY_TO_FINALIZE" /\ BackedUp(state)
    BY <1>2, NoneAssumption
       DEF Finalize, MayFinalize, PhaseInv, MigrationInv, TypeOK, BackupInv
  <2>2. n \in States /\ Later(state, n) /\ Bounded(n)
    BY <2>1 DEF States, Phases, Later, Bounded, PastBoundary, Ended
  <2>3. /\ tx' = [tx EXCEPT ![p].read = state, ![p].new = n]
        /\ Go(p, "save") /\ UNCHANGED lock
    BY <1>2 DEF Finalize
  <2> HIDE DEF n
  <2>4. Goes(p, "save", state, n, tx[p].undoing)
    BY <2>1, <2>2, <2>3, Loaded DEF PhaseInv
  <2>5. LockOk(p)'
    BY <1>0, <2>3, <2>4 DEF Goes, LockOk, Working, Checks, PhaseInv, LockInv
  <2>6. BackupOk(p)'
    BY <1>0, <2>1, <2>2, <2>4 DEF Goes, BackupOk, BackedUp, Later, Checks, PhaseInv, BackupInv,
       Undisturbed, Untouched
  <2>7. RecordOk(p)' /\ MatchOk(p)'
    BY <1>0, <2>2, <2>4 DEF Goes, RecordOk, MatchOk, Changing, Checks
  <2> QED
    BY <1>0, <2>3, <2>4, <2>5, <2>6, <2>7, GoingKeeps DEF Goes, Undisturbed, Untouched, bind, histories
<1> QED
  BY <1>1, <1>2

\* A rollback is about to change what is declared.
LEMMA RollbackKeeps ==
    ASSUME PhaseInv, NEW p \in Procs, Rollback(p)
    PROVE  Kept
<1>0. Undisturbed /\ pc[p] = "load" /\ tx[p].cmd = "rollback" /\ ~Changing(p)
  BY DEF Rollback, Changing, Checks
<1>1. CASE Return(p)
  BY <1>0, <1>1, ReturningKeeps DEF Undisturbed, Untouched, bind, histories
<1>2. CASE ~Return(p)
  <2>1. state \in States /\ BackedUp(state) /\ Bounded(state)
    BY <1>2 DEF Rollback, PhaseInv, MigrationInv, TypeOK, BackupInv, RecordInv
  <2>2. /\ tx' = [tx EXCEPT ![p].read = state, ![p].new = state, ![p].undoing = TRUE]
        /\ Go(p, "restore") /\ UNCHANGED lock
    BY <1>2 DEF Rollback
  <2>3. Goes(p, "restore", state, state, TRUE)
    BY <2>1, <2>2, Turning DEF PhaseInv
  <2>4. LockOk(p)'
    BY <1>0, <2>2, <2>3 DEF Goes, LockOk, Working, Checks, PhaseInv, LockInv
  <2>5. BackupOk(p)'
    BY <1>0, <2>1, <2>3 DEF Goes, BackupOk, BackedUp, Checks, PhaseInv, BackupInv, Undisturbed, Untouched
  <2>6. RecordOk(p)' /\ MatchOk(p)'
    BY <1>0, <2>1, <2>3 DEF Goes, RecordOk, MatchOk, Changing, Checks
  <2> QED
    BY <1>0, <2>2, <2>3, <2>4, <2>5, <2>6, GoingKeeps DEF Goes, Undisturbed, Untouched, bind, histories
<1> QED
  BY <1>1, <1>2

\* A check that fails, and whatever else turns a command back.
LEMMA FailingKeeps ==
    ASSUME PhaseInv, NEW p \in Procs, CheckFailed(p), tx[p].new \in States,
           pc[p] \in {"restore"} \union Checks
           \/ (pc[p] = "save" /\ tx[p].cmd = "start" /\ ~tx[p].undoing),
           UNCHANGED <<declaration, running, state, backups, lock, issued, stale, torn>>
    PROVE  Kept
<1>0. Fail(p) /\ Changing(p) /\ tx[p].cmd \in {"start", "rollback"}
  BY Fails DEF PhaseInv, Changing, LockInv, LockOk
<1>1. BackedUp(tx[p].new) /\ Bounded(tx[p].new) /\ BackupOk(p) /\ RecordOk(p) /\ LockOk(p)
  BY DEF PhaseInv, BackupInv, BackupOk, RecordInv, RecordOk, LockInv
<1>2. CASE tx[p].undoing
  <2>1. Goes(p, "save", tx[p].read, With(p, "FAILED"), TRUE)
    BY <1>0, <1>2 DEF Fail
  <2>2. LockOk(p)'
    BY <1>0, <1>1, <2>1 DEF Goes, LockOk, Working, Checks
  <2>3. BackupOk(p)' /\ RecordOk(p)' /\ MatchOk(p)' /\ Changing(p)'
    BY <1>0, <1>1, <2>1, WithIs DEF Goes, BackupOk, BackedUp, RecordOk, Bounded, MatchOk,
       Changing, Checks, Phases, PastBoundary
  <2> QED
    BY <2>1, <2>2, <2>3, GoingKeeps DEF Goes
<1>3. CASE ~tx[p].undoing
  <2>1. Goes(p, "restore", tx[p].read, tx[p].new, TRUE)
    BY <1>0, <1>3 DEF Fail
  <2>2. LockOk(p)'
    BY <1>0, <1>1, <1>3, <2>1 DEF Goes, LockOk, Working, Checks
  <2>3. BackupOk(p)' /\ RecordOk(p)' /\ MatchOk(p)' /\ Changing(p)'
    BY <1>0, <1>1, <2>1 DEF Goes, BackupOk, BackedUp, RecordOk, Bounded, MatchOk,
       Changing, Checks
  <2> QED
    BY <2>1, <2>2, <2>3, GoingKeeps DEF Goes
<1> QED
  BY <1>2, <1>3

\* Who changes something holds the lock, so it is the only one.
LEMMA ChangesAlone ==
    ASSUME LockInv, NEW q \in Procs, Changing(q)
    PROVE  lock = q
BY DEF LockInv, LockOk, Changing, Working, Checks

\* A command goes on, and changes what is declared, what named runs or the state
\* file while it does.
LEMMA WorkingKeeps ==
    ASSUME PhaseInv, NEW p \in Procs, Stays(p), lock = p, lock' = lock,
           UNCHANGED <<backups, issued>>,
           stale => stale', torn => torn',
           tx'[p].cmd = tx[p].cmd, tx'[p].number = tx[p].number,
           declaration' = declaration \/ pc[p] # "backup",
           state' # None => BackedUp(state)', Bounded(state'),
           ~stale /\ ~torn /\ state' # None => state'.phase # "FAILED",
           BackupOk(p)', LockOk(p)', RecordOk(p)', ~stale /\ ~torn => MatchOk(p)',
           Changing(p)'
    PROVE  Kept
<1>1. BackupInv' /\ LockInv' /\ RecordInv'
  BY BackupStays, LockStays, RecordStays DEF PhaseInv
<1>2. ~Quiet'
  BY DEF Quiet
<1>3. ASSUME NEW q \in Procs \ {p} PROVE MatchOk(q)'
  <2>1. pc'[q] = pc[q] /\ tx'[q] = tx[q]
    BY DEF Stays
  <2>2. ~Changing(q)
    BY ChangesAlone DEF PhaseInv
  <2> QED
    BY <2>1, <2>2 DEF MatchOk, Changing, Checks
<1>4. MatchInv'
  <2> SUFFICES ASSUME ~stale', ~torn' PROVE MatchInv'
    BY DEF MatchInv
  <2> QED
    BY <1>2, <1>3 DEF MatchInv
<1> QED
  BY <1>1, <1>4 DEF Kept

\* The backup of a start.
LEMMA BackupKeeps ==
    ASSUME PhaseInv, NEW p \in Procs, Backup(p)
    PROVE  Kept
<1> DEFINE n == tx[p].number
<1>1. /\ Goes(p, "write", tx[p].read, tx[p].new, tx[p].undoing) /\ pc[p] = "backup"
      /\ UNCHANGED <<declaration, running, state, lock, issued, stale, torn>>
  BY Unturned DEF Backup, PhaseInv, bind, histories
<1>2. /\ tx[p].cmd = "start" /\ n \in Migrations /\ tx[p].new \in States
      /\ tx[p].new.migration = n /\ tx[p].new.source = declaration
      /\ backups[n] = None /\ n \in 1..issued /\ BackupOk(p) /\ LockOk(p) /\ RecordOk(p)
  BY <1>1 DEF PhaseInv, MigrationInv, Established, BackupInv, BackupOk, LockInv, RecordInv
<1>3. backups' = [backups EXCEPT ![n] = declaration] /\ backups \in [Migrations -> Policies \union {None}]
  BY DEF Backup, PhaseInv, MigrationInv, TypeOK
<1> HIDE DEF n
<1>4. /\ backups'[n] = declaration
      /\ \A m \in Migrations : m # n => backups'[m] = backups[m]
  BY <1>2, <1>3
<1>5. ASSUME NEW s \in States, BackedUp(s) PROVE BackedUp(s)'
  <2>1. s.migration \in Migrations /\ s.source \in Policies
    BY DEF States
  <2> QED
    BY <1>2, <1>4, <1>5, <2>1, NothingDone DEF BackedUp
<1>6. BackupInv'
  <2>1. BackupOk(p)'
    BY <1>1, <1>2, <1>4 DEF Goes, BackupOk, BackedUp, Checks, n
  <2>2. ASSUME NEW q \in Procs \ {p} PROVE BackupOk(q)'
    <3>1. pc'[q] = pc[q] /\ tx'[q] = tx[q] /\ BackupOk(q) /\ Established(q)
      BY <1>1 DEF Goes, Stays, PhaseInv, BackupInv, MigrationInv
    <3>2. pc[q] \in {"observe", "write", "restore", "save"} \union Checks => tx[q].new \in States
      BY <3>1 DEF Established, Backed, PhaseInv, RecordInv, RecordOk
    <3>3. pc[q] \in {"observe", "write", "restore", "save"} \union Checks => BackedUp(tx[q].new)'
      BY <1>5, <3>1, <3>2 DEF BackupOk
    <3>4. pc[q] \in {"identify", "lock", "load", "backup"} /\ tx[q].cmd = "start" =>
             tx[q].number \in Migrations /\ tx[q].number # n
      BY <1>2, <3>1 DEF Established, PhaseInv, BackupInv, n
    <3> QED
      BY <1>1, <1>4, <3>1, <3>3, <3>4 DEF BackupOk, BackedUp
  <2>3. \A q, r \in Procs : q # r /\ tx'[q].cmd = "start" /\ tx'[r].cmd = "start" =>
           tx'[q].number # tx'[r].number
    BY <1>1 DEF PhaseInv, BackupInv, Goes, Stays
  <2>4. \A m \in Migrations : m > issued' => backups'[m] = None
    <3>1. issued \in Nat /\ \A m \in Migrations : m > issued => m # n
      BY <1>2, MigrationAssumption DEF PhaseInv, MigrationInv, TypeOK, Migrations
    <3>2. \A m \in Migrations : m > issued => backups[m] = None
      BY DEF PhaseInv, BackupInv
    <3> QED
      BY <1>1, <1>4, <3>1, <3>2
  <2>5. state' # None => BackedUp(state)'
    BY <1>1, <1>5 DEF PhaseInv, BackupInv, BackedUp, MigrationInv, TypeOK
  <2> QED
    BY <2>1, <2>2, <2>3, <2>4, <2>5 DEF BackupInv
<1>7. LockInv'
  <2>1. LockOk(p)'
    BY <1>1, <1>2 DEF Goes, LockOk, Working, Checks
  <2> QED
    BY <1>1, <2>1, LockStays DEF PhaseInv, Goes
<1>8. RecordInv'
  <2>1. RecordOk(p)'
    BY <1>1, <1>2 DEF Goes, RecordOk, Bounded
  <2> QED
    BY <1>1, <2>1, RecordStays DEF PhaseInv, Goes, RecordInv
<1>9. MatchInv'
  <2> SUFFICES ASSUME ~stale, ~torn PROVE MatchInv'
    BY <1>1 DEF MatchInv
  <2>1. Quiet' => Quiet
    BY <1>1 DEF Quiet, Goes, Stays, Changing, Checks
  <2>2. \A q \in Procs : MatchOk(q)'
    BY <1>1 DEF PhaseInv, MatchInv, MatchOk, Goes, Stays, Aim, Changing, Checks
  <2> QED
    BY <1>1, <2>1, <2>2 DEF PhaseInv, MatchInv, Says
<1> QED
  BY <1>6, <1>7, <1>8, <1>9 DEF Kept

\* The target is declared.
LEMMA WritePolicyKeeps ==
    ASSUME PhaseInv, NEW p \in Procs, WritePolicy(p)
    PROVE  Kept
<1>1. /\ Goes(p, "checkconf", tx[p].read, tx[p].new, tx[p].undoing) /\ pc[p] = "write"
      /\ UNCHANGED <<running, state, backups, lock, issued, stale, torn>>
      /\ declaration' = tx[p].target
  BY Unturned DEF WritePolicy, PhaseInv, bind, histories
<1>2. /\ tx[p].cmd = "start" /\ BackupOk(p) /\ LockOk(p) /\ RecordOk(p)
  BY <1>1 DEF PhaseInv, MigrationInv, Established, BackupInv, LockInv, RecordInv
<1>3. lock = p /\ ~tx[p].undoing
  BY <1>1, <1>2 DEF LockOk, Working
<1>4. LockOk(p)'
  BY <1>1, <1>2 DEF Goes, LockOk, Working, Checks
<1>5. BackupOk(p)' /\ RecordOk(p)' /\ Changing(p)'
  BY <1>1, <1>2 DEF Goes, BackupOk, BackedUp, RecordOk, Bounded, Changing, Checks
<1>6. tx[p].new.target = tx[p].target
  BY <1>1, <1>2 DEF RecordOk
<1>7. MatchOk(p)'
  BY <1>1, <1>3, <1>6 DEF Goes, MatchOk, Aim, Checks, Changing
<1> QED
  BY <1>1, <1>3, <1>4, <1>5, <1>7, WorkingKeeps
     DEF Goes, PhaseInv, BackupInv, BackedUp, RecordInv, MatchInv

\* The last good declaration is restored.
LEMMA RestoreKeeps ==
    ASSUME PhaseInv, NEW p \in Procs, Restore(p)
    PROVE  Kept
<1>1. /\ Goes(p, "checkconf", tx[p].read, tx[p].new, tx[p].undoing) /\ pc[p] = "restore"
      /\ UNCHANGED <<running, state, backups, lock, issued, stale, torn>>
      /\ declaration' = backups[tx[p].new.migration]
  BY Unturned DEF Restore, PhaseInv, bind, histories
<1>2. /\ BackupOk(p) /\ LockOk(p) /\ RecordOk(p)
  BY <1>1 DEF PhaseInv, BackupInv, LockInv, RecordInv
<1>3. lock = p /\ tx[p].undoing /\ declaration' = tx[p].new.source
  BY <1>1, <1>2 DEF LockOk, Working, BackupOk, BackedUp
<1>4. LockOk(p)'
  BY <1>1, <1>2 DEF Goes, LockOk, Working, Checks
<1>5. BackupOk(p)' /\ RecordOk(p)' /\ Changing(p)'
  BY <1>1, <1>2 DEF Goes, BackupOk, BackedUp, RecordOk, Bounded, Changing, Checks
<1>6. MatchOk(p)'
  BY <1>1, <1>3 DEF Goes, MatchOk, Aim, Checks, Changing
<1> QED
  BY <1>1, <1>3, <1>4, <1>5, <1>6, WorkingKeeps
     DEF Goes, PhaseInv, BackupInv, BackedUp, RecordInv, MatchInv

\* A command that goes through the checks has a state to save.
LEMMA Has ==
    ASSUME PhaseInv, NEW p \in Procs, pc[p] \in {"restore", "save"} \union Checks
    PROVE  tx[p].new \in States
BY DEF PhaseInv, MigrationInv, Established, Backed

\* A check that passes: what is declared is what named runs, once it was told to
\* load it.
LEMMA PassingKeeps ==
    ASSUME PhaseInv, NEW p \in Procs, Checked(p), pc[p] \in Checks,
           UNCHANGED <<declaration, state, backups, lock, issued, stale, torn>>,
           IF pc[p] = "reconfig" THEN running' = declaration ELSE running' = running
    PROVE  Kept
<1>1. Pass(p) /\ tx[p].new \in States
  BY Has, Passes DEF PhaseInv
<1>2. BackupOk(p) /\ LockOk(p) /\ RecordOk(p) /\ (~stale /\ ~torn => MatchOk(p))
  BY DEF PhaseInv, BackupInv, LockInv, RecordInv, MatchInv
<1>3. lock = p /\ tx[p].cmd \in {"start", "rollback"} /\ tx[p].undoing \in BOOLEAN
      /\ BackedUp(tx[p].new) /\ Bounded(tx[p].new)
  BY <1>2, Whole DEF LockOk, Working, BackupOk, RecordOk, PhaseInv
<1>4. CASE pc[p] = "status"
  <2>1. Passed(p) \in {"ROLLED_BACK", "POLICY_APPLIED"}
    BY DEF Passed
  <2>2. /\ With(p, Passed(p)) \in States /\ With(p, Passed(p)).phase = Passed(p)
        /\ With(p, Passed(p)).migration = tx[p].new.migration
        /\ With(p, Passed(p)).source = tx[p].new.source
        /\ With(p, Passed(p)).target = tx[p].new.target
    BY <1>1, <2>1, WithIs DEF Phases
  <2>3. Goes(p, "save", tx[p].read, With(p, Passed(p)), tx[p].undoing)
    BY <1>1, <1>4 DEF Pass, After
  <2>4. LockOk(p)'
    BY <1>2, <1>3, <1>4, <2>3 DEF Goes, LockOk, Working, Checks
  <2>5. BackupOk(p)' /\ Changing(p)'
    BY <1>2, <1>3, <1>4, <2>2, <2>3 DEF Goes, BackupOk, BackedUp, Changing, Checks
  <2>6. RecordOk(p)'
    BY <1>3, <2>1, <2>2, <2>3 DEF Goes, RecordOk, Bounded, PastBoundary, Passed
  <2>7. ~stale /\ ~torn => MatchOk(p)'
    BY <1>2, <1>4, <2>2, <2>3 DEF Goes, MatchOk, Aim, Checks
  <2> QED
    BY <1>3, <2>3, <2>4, <2>5, <2>6, <2>7, WorkingKeeps
       DEF Goes, PhaseInv, BackupInv, BackedUp, RecordInv, MatchInv
<1>5. CASE pc[p] \in {"checkconf", "reconfig"}
  <2>1. PICK place \in {"reconfig", "status"} :
            /\ Goes(p, place, tx[p].read, tx[p].new, tx[p].undoing)
            /\ place = "status" => pc[p] = "reconfig"
    <3>1. CASE pc[p] = "checkconf"
      BY <1>1, <3>1 DEF Pass, After
    <3>2. CASE pc[p] = "reconfig"
      BY <1>1, <3>2 DEF Pass, After
    <3> QED
      BY <1>5, <3>1, <3>2
  <2>4. LockOk(p)'
    BY <1>2, <1>3, <1>5, <2>1 DEF Goes, LockOk, Working, Checks
  <2>5. BackupOk(p)' /\ Changing(p)' /\ RecordOk(p)'
    BY <1>2, <1>3, <1>5, <2>1 DEF Goes, BackupOk, BackedUp, Changing, Checks, RecordOk
  <2>7. ~stale /\ ~torn => MatchOk(p)'
    BY <1>2, <1>5, <2>1 DEF Goes, MatchOk, Aim, Checks
  <2> QED
    BY <1>3, <2>1, <2>4, <2>5, <2>7, WorkingKeeps
       DEF Goes, PhaseInv, BackupInv, BackedUp, RecordInv, MatchInv
<1> QED
  BY <1>4, <1>5 DEF Checks

\* The checks, and rndc reconfig.
LEMMA ChecksKeep ==
    ASSUME PhaseInv, NEW p \in Procs,
           Check(p) \/ Reconfigure(p) \/ ReconfigFails(p) \/ RestoreFails(p)
    PROVE  Kept
<1>1. CASE Check(p)
  <2>1. /\ pc[p] \in Checks /\ pc[p] # "reconfig"
        /\ UNCHANGED <<declaration, running, state, backups, lock, issued, stale, torn>>
    BY <1>1 DEF Check, Undisturbed, Untouched, bind, histories
  <2>2. CASE Checked(p)
    BY <2>1, <2>2, PassingKeeps
  <2>3. CASE CheckFailed(p)
    BY <2>1, <2>3, Has, FailingKeeps
  <2> QED
    BY <1>1, <2>2, <2>3 DEF Check
<1>2. CASE ReconfigFails(p) \/ RestoreFails(p)
  <2>1. /\ pc[p] \in {"restore"} \union Checks /\ CheckFailed(p)
        /\ UNCHANGED <<declaration, running, state, backups, lock, issued, stale, torn>>
    BY <1>2 DEF ReconfigFails, RestoreFails, Checks, Undisturbed, Untouched, bind, histories
  <2> QED
    BY <2>1, Has, FailingKeeps
<1>3. CASE Reconfigure(p)
  <2>1. /\ pc[p] = "reconfig" /\ pc[p] \in Checks /\ running' = declaration
        /\ UNCHANGED <<declaration, state, backups, lock, issued, stale, torn>>
    BY <1>3 DEF Reconfigure, Checks, histories
  <2>2. CASE Checked(p)
    BY <2>1, <2>2, PassingKeeps
  <2>3. CASE CheckFailed(p)
    <3>1. Fail(p) /\ tx[p].new \in States
      BY <2>1, <2>3, Has, Fails DEF PhaseInv
    <3>2. BackupOk(p) /\ LockOk(p) /\ RecordOk(p) /\ BackedUp(tx[p].new) /\ Bounded(tx[p].new)
      BY <2>1 DEF PhaseInv, BackupInv, LockInv, RecordInv, BackupOk, RecordOk
    <3>3. lock = p /\ tx[p].cmd \in {"start", "rollback"}
      BY <2>1, <3>2 DEF LockOk, Working
    <3>4. CASE tx[p].undoing
      <4>1. Goes(p, "save", tx[p].read, With(p, "FAILED"), TRUE)
        BY <3>1, <3>4 DEF Fail
      <4>2. LockOk(p)'
        BY <2>1, <3>2, <3>3, <4>1 DEF Goes, LockOk, Working, Checks
      <4>3. BackupOk(p)' /\ RecordOk(p)' /\ MatchOk(p)' /\ Changing(p)'
        BY <2>1, <3>1, <3>2, <3>3, <4>1, WithIs DEF Goes, BackupOk, BackedUp, RecordOk,
           Bounded, MatchOk, Changing, Checks, Phases, PastBoundary
      <4> QED
        BY <2>1, <3>3, <4>1, <4>2, <4>3, WorkingKeeps
           DEF Goes, PhaseInv, BackupInv, BackedUp, RecordInv, MatchInv
    <3>5. CASE ~tx[p].undoing
      <4>1. Goes(p, "restore", tx[p].read, tx[p].new, TRUE)
        BY <3>1, <3>5 DEF Fail
      <4>2. LockOk(p)'
        BY <2>1, <3>2, <3>3, <3>5, <4>1 DEF Goes, LockOk, Working, Checks
      <4>3. BackupOk(p)' /\ RecordOk(p)' /\ MatchOk(p)' /\ Changing(p)'
        BY <2>1, <3>2, <3>3, <4>1 DEF Goes, BackupOk, BackedUp, RecordOk, Bounded, MatchOk,
           Changing, Checks
      <4> QED
        BY <2>1, <3>3, <4>1, <4>2, <4>3, WorkingKeeps
           DEF Goes, PhaseInv, BackupInv, BackedUp, RecordInv, MatchInv
    <3> QED
      BY <3>4, <3>5
  <2> QED
    BY <1>3, <2>2, <2>3 DEF Reconfigure
<1> QED
  BY <1>1, <1>2, <1>3

\* The state is saved: over another one, or after the checks of what it says.
LEMMA SaveKeeps ==
    ASSUME PhaseInv, NEW p \in Procs, Save(p)
    PROVE  Kept
<1> DEFINE r == tx[p].read
           new == tx[p].new
<1>1. /\ pc[p] = "save" /\ Leaves(p) /\ state' = new
      /\ stale' = (stale \/ state # r) /\ torn' = (torn \/ new.phase = "FAILED")
      /\ UNCHANGED <<declaration, running, backups, issued>>
  BY Returns DEF Save, bind, PhaseInv
<1>2. /\ new \in States /\ new # None /\ BackupOk(p) /\ LockOk(p) /\ RecordOk(p)
      /\ (~stale /\ ~torn => MatchOk(p)) /\ BackedUp(new) /\ Bounded(new)
  BY <1>1, Has, NoneAssumption
     DEF PhaseInv, BackupInv, LockInv, RecordInv, MatchInv, BackupOk, RecordOk
<1>3. tx[p].cmd \in {"start", "check", "advance", "finalize", "rollback"}
  BY <1>1, <1>2, MigrationAssumption DEF LockOk, CommandNames
<1>4. BackupInv'
  <2>1. BackupOk(p)'
    BY <1>1, NothingDone DEF Leaves, BackupOk, Checks
  <2>2. BackedUp(state)'
    BY <1>1, <1>2 DEF BackedUp
  <2> QED
    BY <1>1, <2>1, <2>2, NothingDone, BackupStays DEF PhaseInv, Leaves
<1>5. LockInv'
  <2>1. LockOk(p)'
    BY <1>1, NothingDone DEF Leaves, LockOk, Working, Checks, PhaseInv, LockInv
  <2> QED
    BY <1>1, <2>1, LockStays DEF PhaseInv, Leaves
<1>6. RecordInv'
  <2>1. RecordOk(p)'
    BY <1>1, NothingDone DEF Leaves, RecordOk, Bounded
  <2> QED
    BY <1>1, <1>2, <2>1, RecordStays DEF PhaseInv, Leaves
<1>7. MatchInv'
  <2> SUFFICES ASSUME ~stale', ~torn' PROVE MatchInv'
    BY DEF MatchInv
  <2>1. ~stale /\ ~torn /\ state = r /\ new.phase # "FAILED"
    BY <1>1
  <2>2. \A q \in Procs : MatchOk(q)'
    BY <1>1, <2>1, NothingDone
       DEF PhaseInv, MatchInv, MatchOk, Leaves, Stays, Aim, Changing, Checks
  <2>3. Quiet' => running = declaration /\ declaration = Says(new)
    <3> SUFFICES ASSUME Quiet' PROVE running = declaration /\ declaration = Says(new)
      OBVIOUS
    <3>1. CASE tx[p].cmd \in {"start", "rollback"}
      <4>1. running = declaration /\ declaration = Aim(p)
        BY <1>1, <1>2, <2>1, <3>1 DEF MatchOk, Changing
      <4>2. IF tx[p].undoing THEN new.phase = "ROLLED_BACK" ELSE new.phase = "POLICY_APPLIED"
        BY <1>1, <1>2, <2>1, <3>1 DEF RecordOk
      <4> QED
        BY <1>2, <4>1, <4>2 DEF Aim, Says
    <3>2. CASE tx[p].cmd \in {"check", "advance", "finalize"}
      <4>1. Alike(r, new) \/ Later(r, new)
        BY <1>1, <1>2, <3>2 DEF RecordOk
      <4>2. ~Changing(p)
        BY <1>1, <3>2 DEF Changing, Checks
      <4>3. Quiet
        BY <1>1, <4>2 DEF Quiet, Leaves, Stays, Changing
      <4>4. running = declaration /\ declaration = Says(r)
        BY <2>1, <4>3 DEF PhaseInv, MatchInv
      <4>5. r \in States /\ new.source = r.source /\ new.target = r.target
            /\ (new.phase = "ROLLED_BACK" <=> r.phase = "ROLLED_BACK")
        BY <4>1 DEF Alike, Later, Ended
      <4> QED
        BY <1>2, <4>4, <4>5, NoneAssumption DEF Says
    <3> QED
      BY <1>3, <3>1, <3>2
  <2> HIDE DEF new, r
  <2> QED
    BY <1>1, <2>1, <2>2, <2>3 DEF MatchInv, Says, Quiet
<1> QED
  BY <1>4, <1>5, <1>6, <1>7 DEF Kept

\* A start whose audit record fails is undone.
LEMMA AuditFailsKeeps ==
    ASSUME PhaseInv, NEW p \in Procs, AuditFails(p)
    PROVE  Kept
<1> DEFINE new == tx[p].new
<1>1. /\ pc[p] = "save" /\ tx[p].cmd = "start" /\ ~tx[p].undoing /\ state' = new
      /\ stale' = (stale \/ state # tx[p].read) /\ Go(p, "restore")
      /\ tx' = [tx EXCEPT ![p].read = new, ![p].undoing = TRUE]
      /\ UNCHANGED <<declaration, running, backups, lock, issued, torn>>
  BY DEF AuditFails, bind
<1>2. /\ new \in States /\ new # None /\ BackupOk(p) /\ LockOk(p) /\ RecordOk(p)
      /\ BackedUp(new) /\ Bounded(new) /\ new.phase = "POLICY_APPLIED"
  BY <1>1, Has, NoneAssumption
     DEF PhaseInv, BackupInv, LockInv, RecordInv, BackupOk, RecordOk
<1> HIDE DEF new
<1>3. Goes(p, "restore", new, new, TRUE)
  <2> DEFINE t == [tx[p] EXCEPT !.read = new, !.undoing = TRUE]
  <2>1. /\ t \in Txs /\ t.cmd = tx[p].cmd /\ t.number = tx[p].number
        /\ t.original = tx[p].original /\ t.target = tx[p].target
        /\ t.sourceKeys = tx[p].sourceKeys
        /\ t.read = new /\ t.new = tx[p].new /\ t.undoing = TRUE
    BY <1>2, Whole DEF Txs, PhaseInv
  <2>2. tx' = [tx EXCEPT ![p] = t]
    BY <1>1, Whole DEF Txs, PhaseInv
  <2> HIDE DEF t
  <2>3. pc'[p] = "restore" /\ tx'[p] = t /\ Stays(p)
    BY <1>1, <2>1, <2>2, Moves DEF PhaseInv
  <2> QED
    BY <2>1, <2>3 DEF Goes, new
<1>4. LockOk(p)' /\ lock = p
  BY <1>1, <1>2, <1>3 DEF Goes, LockOk, Working, Checks
<1>5. BackupOk(p)' /\ Changing(p)' /\ RecordOk(p)' /\ MatchOk(p)'
  BY <1>1, <1>2, <1>3 DEF Goes, BackupOk, BackedUp, Changing, Checks, RecordOk, MatchOk
<1>6. BackedUp(state)' /\ Bounded(state') /\ state'.phase # "FAILED"
  BY <1>1, <1>2 DEF BackedUp
<1> QED
  BY <1>1, <1>3, <1>4, <1>5, <1>6, WorkingKeeps DEF Goes

\* The state is not saved.
LEMMA SaveFailsKeeps ==
    ASSUME PhaseInv, NEW p \in Procs, SaveFails(p)
    PROVE  Kept
<1>1. /\ pc[p] = "save" /\ UNCHANGED <<declaration, running, state, backups, issued, stale>>
  BY DEF SaveFails, bind
<1>2. CASE tx[p].cmd = "start" /\ ~tx[p].undoing
  BY <1>1, <1>2, Has, FailingKeeps DEF SaveFails
<1>3. CASE ~(tx[p].cmd = "start" /\ ~tx[p].undoing)
  BY <1>1, <1>3, ReturningKeeps DEF SaveFails
<1> QED
  BY <1>2, <1>3

\* Every step of a command.
LEMMA StepKeeps ==
    ASSUME PhaseInv, NEW p \in Procs, Step(p)
    PROVE  Kept
BY RefuseKeeps, IdentifyKeeps, TakeLockKeeps, PreflightKeeps, BackupKeeps,
   WritePolicyKeeps, ChecksKeep, RestoreKeeps, LoadKeeps, ObserveKeeps,
   FinalizeKeeps, RollbackKeeps, SaveKeeps, AuditFailsKeeps, SaveFailsKeeps DEF Step

\* The parent, the resolvers and named's key maintenance.
LEMMA ElsewhereKeeps ==
    ASSUME PhaseInv, UNCHANGED <<declaration, running>>, Elsewhere
    PROVE  Kept
<1> USE DEF Elsewhere, histories
<1>1. BackupInv'
  BY DEF PhaseInv, BackupInv, BackupOk, BackedUp, Checks
<1>2. LockInv'
  BY DEF PhaseInv, LockInv, LockOk, Working, Checks
<1>3. RecordInv'
  BY DEF PhaseInv, RecordInv, RecordOk
<1>4. MatchInv'
  BY DEF PhaseInv, MatchInv, MatchOk, Quiet, Changing, Aim, Says, Checks
<1> QED
  BY <1>1, <1>2, <1>3, <1>4 DEF Kept

\* The initial states satisfy the invariant.
LEMMA InitPhase == Init => PhaseInv
<1> SUFFICES ASSUME Init PROVE PhaseInv
  OBVIOUS
<1>1. \A p \in Procs : pc[p] = "idle" /\ tx[p] = NoTx
  BY DEF Init
<1>2. MigrationInv
  BY InitSound
<1>3. BackupInv
  BY <1>1, NothingDone DEF Init, BackupInv, BackupOk, BackedUp, Checks
<1>4. LockInv
  BY <1>1, NothingDone DEF Init, LockInv, LockOk, Working, Checks
<1>5. RecordInv
  BY <1>1, NothingDone DEF Init, RecordInv, RecordOk, Bounded
<1>6. MatchInv
  BY <1>1 DEF Init, MatchInv, MatchOk, Says, Changing, Checks
<1> QED
  BY <1>2, <1>3, <1>4, <1>5, <1>6 DEF PhaseInv

\* The invariant is inductive.
LEMMA NextKeeps == PhaseInv /\ [Next]_vars => PhaseInv'
<1> SUFFICES ASSUME PhaseInv, [Next]_vars PROVE PhaseInv'
  OBVIOUS
<1>1. MigrationInv'
  BY NextSound DEF PhaseInv
<1>2. ASSUME NEW p \in Procs, Begin(p) \/ Step(p) \/ Crash(p) PROVE Kept
  BY <1>2, BeginKeeps, StepKeeps, CrashKeeps
<1>3. ASSUME ChangeDs \/ CacheExpires \/ DropKey PROVE Kept
  <2>1. Elsewhere /\ UNCHANGED <<declaration, running>>
    BY <1>3 DEF ChangeDs, CacheExpires, DropKey, bind
  <2> QED
    BY <2>1, ElsewhereKeeps
<1>4. ASSUME UNCHANGED vars PROVE Kept
  <2>1. Elsewhere /\ UNCHANGED <<declaration, running>>
    BY <1>4 DEF vars, Elsewhere, bind
  <2> QED
    BY <2>1, ElsewhereKeeps
<1>5. Kept
  BY <1>2, <1>3, <1>4 DEF Next
<1> QED
  BY <1>1, <1>5 DEF PhaseInv, Kept

\* The invariant of the state file, of what is declared and of what named runs.
THEOREM PhaseInvariant == Spec => []PhaseInv
<1> QED
  BY InitPhase, NextKeeps, PTL DEF Spec

\* When no command is under way the state file tells what is declared and what
\* named runs (StateMatchesBind): the verifications of start and rollback come
\* before what is saved, under the lock, and no other command changes anything.
THEOREM StateTellsBind == Spec => []StateMatchesBind
<1>1. PhaseInv => StateMatchesBind
  <2> SUFFICES ASSUME PhaseInv, state # None, ~stale, ~torn,
                      \A p \in Procs : pc[p] \notin Checks \union {"restore", "write", "save"}
               PROVE  /\ running = declaration
                      /\ running = IF state.phase = "ROLLED_BACK" THEN state.source
                                   ELSE state.target
    BY DEF StateMatchesBind
  <2>1. Quiet
    BY DEF Quiet, Changing
  <2> QED
    BY <2>1 DEF PhaseInv, MatchInv, Says
<1> QED
  BY <1>1, PhaseInvariant, PTL

(* What the parent trusts **************************************************)

\* The policy whose DS the parent must have: the source, until the boundary.
Home(s) == IF s = None THEN First
           ELSE IF s.phase \in PastBoundary THEN s.target ELSE s.source

Going(s) == s # None /\ s.phase \notin Ended

HomeOk(s) ==
    /\ Home(s) \in parent
    /\ Going(s) => /\ keys \subseteq s.sourceKeys \union {s.target}
                   /\ s.target \in cached \ s.sourceKeys => s.target \in parent

Under == {"backup", "write", "restore", "save"} \union Checks

\* What the command of p has established about keys and trust. The source keys
\* of a start cover the keys that the zone has besides the target's, and those
\* that the parent and the resolvers show until it is saved, so that what advance
\* takes for the DS of the target is one.
TrustOk(p) ==
    /\ pc[p] \in Under /\ tx[p].cmd \in {"start", "rollback"} =>
          tx[p].new.source = Home(state)
    /\ pc[p] \in Under \ {"restore"} /\ tx[p].cmd = "start" /\ ~tx[p].undoing =>
          /\ ~Going(state)
          /\ keys \subseteq tx[p].new.sourceKeys \union {tx[p].new.target}
          /\ parent \union cached \subseteq tx[p].new.sourceKeys
    /\ pc[p] = "save" /\ tx[p].cmd \in {"advance", "finalize"}
       /\ Alike(state, tx[p].read) =>
          Home(tx[p].new) \in parent

\* named keeps the keys it runs, and those whose DS is published or still cached.
Keyed == running \in keys /\ parent \subseteq keys /\ cached \subseteq keys

TrustInv ==
    /\ Keyed
    /\ ~stale /\ ~torn /\ ~outdated => HomeOk(state) /\ \A p \in Procs : TrustOk(p)

\* Another command and trust, when neither the keys nor the state nor the parent
\* change.
LEMMA TrustStays ==
    ASSUME TrustInv, NEW p \in Procs, Stays(p),
           UNCHANGED <<keys, parent, cached, state>>, running' \in keys,
           stale => stale', torn => torn', outdated => outdated', ~stale' /\ ~torn' /\ ~outdated' => TrustOk(p)'
    PROVE  TrustInv'
<1>1. Keyed'
  BY DEF TrustInv, Keyed
<1>2. ASSUME ~stale', ~torn', ~outdated' PROVE HomeOk(state)' /\ \A q \in Procs : TrustOk(q)'
  <2>1. ~stale /\ ~torn /\ ~outdated
    BY <1>2
  <2>2. HomeOk(state)'
    BY <2>1 DEF TrustInv, HomeOk, Home, Going
  <2>3. ASSUME NEW q \in Procs \ {p} PROVE TrustOk(q)'
    BY <2>1 DEF TrustInv, TrustOk, Home, Going, Stays, Checks, Under
  <2> QED
    BY <1>2, <2>2, <2>3
<1> QED
  BY <1>1, <1>2 DEF TrustInv

\* A command that returns.
LEMMA TrustReturns ==
    ASSUME PhaseInv, TrustInv, NEW p \in Procs, Return(p),
           UNCHANGED <<keys, parent, cached, state, running>>,
           stale => stale', torn => torn', outdated => outdated'
    PROVE  TrustInv'
<1>1. Leaves(p)
  BY Returns DEF PhaseInv
<1>2. TrustOk(p)'
  BY <1>1, NothingDone DEF Leaves, TrustOk, Under, Checks
<1> QED
  BY <1>1, <1>2, TrustStays DEF Leaves, TrustInv, Keyed

\* A start or a rollback between its backup and its save.
LEMMA TrustGoes ==
    ASSUME PhaseInv, TrustInv, NEW p \in Procs, NEW place \in Under, NEW read, NEW new,
           NEW undoing \in BOOLEAN,
           Goes(p, place, read, new, undoing), pc[p] \in Under,
           tx[p].cmd \in {"start", "rollback"},
           new.source = tx[p].new.source, new.target = tx[p].new.target,
           new.sourceKeys = tx[p].new.sourceKeys,
           tx[p].undoing => undoing,
           UNCHANGED <<keys, parent, cached, state>>, running' \in keys,
           stale => stale', torn => torn', outdated => outdated'
    PROVE  TrustInv'
<1>1. ASSUME ~stale, ~torn, ~outdated PROVE TrustOk(p)'
  <2>1. TrustOk(p) /\ LockOk(p)
    BY <1>1 DEF TrustInv, PhaseInv, LockInv
  <2>2. pc[p] = "restore" => tx[p].undoing
    BY <2>1 DEF LockOk
  <2>3. Home(state)' = Home(state) /\ Going(state)' = Going(state)
    BY DEF Home, Going
  <2>4. pc'[p] = place /\ tx'[p].cmd = tx[p].cmd /\ tx'[p].new = new
        /\ tx'[p].undoing = undoing
    BY DEF Goes
  <2>5. place \notin {"lock", "load"} /\ tx[p].cmd \notin {"advance", "finalize"}
    BY DEF Under, Checks
  <2>6. tx[p].new.source = Home(state)
    BY <2>1 DEF TrustOk
  <2>7. tx[p].cmd = "start" /\ ~undoing =>
          /\ ~Going(state)
          /\ keys \subseteq tx[p].new.sourceKeys \union {tx[p].new.target}
          /\ parent \union cached \subseteq tx[p].new.sourceKeys
    BY <2>1, <2>2 DEF TrustOk
  <2> QED
    BY <2>3, <2>4, <2>5, <2>6, <2>7 DEF TrustOk
<1> QED
  BY <1>1, TrustStays DEF Goes

\* A command that has not come to its backup, or one of the others, goes on.
LEMMA TrustOfOthers ==
    ASSUME TrustInv, NEW p \in Procs, NEW place, NEW read, NEW new, NEW undoing,
           Goes(p, place, read, new, undoing),
           UNCHANGED <<keys, parent, cached, state, running, stale, torn, outdated>>,
           place \in Under => tx[p].cmd \notin {"start", "rollback"},
           ~stale /\ ~torn /\ ~outdated /\ place = "save" /\ tx[p].cmd \in {"advance", "finalize"}
           /\ Alike(state, read) => Home(new) \in parent
    PROVE  TrustInv'
<1>1. ASSUME ~stale, ~torn, ~outdated PROVE TrustOk(p)'
  <2>1. TrustOk(p)
    BY <1>1 DEF TrustInv
  <2>2. pc'[p] = place /\ tx'[p].cmd = tx[p].cmd /\ tx'[p].new = new
        /\ tx'[p].read = read /\ tx'[p].sourceKeys = tx[p].sourceKeys
    BY DEF Goes
  <2>3. Home(new)' = Home(new) /\ Alike(state, read)' = Alike(state, read)
    BY DEF Home, Alike
  <2> QED
    BY <1>1, <2>1, <2>2, <2>3 DEF TrustOk
<1> QED
  BY <1>1, TrustStays DEF Goes, TrustInv, Keyed

\* A command that begins claims nothing about keys yet.
LEMMA BeginTrusts ==
    ASSUME PhaseInv, TrustInv, NEW p \in Procs, Begin(p)
    PROVE  TrustInv'
<1>1. PICK cmd \in Assigned[p] \cap CommandNames, to \in Policies : Enter(p, cmd, to)
  BY Enters DEF PhaseInv
<1>2. /\ UNCHANGED <<keys, parent, cached, state, running, stale, torn, outdated>>
      /\ tx' = [tx EXCEPT ![p] = IF cmd = "start" THEN NewTx(cmd, issued + 1, declaration, to)
                                 ELSE NewTx(cmd, 0, None, to)]
      /\ Go(p, CASE cmd = "start" -> "identify" [] cmd = "check" -> "load" [] OTHER -> "lock")
  BY <1>1 DEF Enter, bind, world, histories
<1>3. tx'[p].cmd = cmd /\ Stays(p)
  BY <1>2 DEF Go, Stays, NewTx, PhaseInv, MigrationInv, TypeOK
<1>4. pc'[p] \in {"identify", "load", "lock"} /\ (cmd = "start" => pc'[p] = "identify")
  BY <1>2 DEF Go, PhaseInv, MigrationInv, TypeOK
<1>5. TrustOk(p)'
  BY <1>3, <1>4 DEF TrustOk, Under, Checks
<1> QED
  BY <1>2, <1>3, <1>5, TrustStays DEF TrustInv, Keyed

\* What leaves the keys, the state and the parent alone.
LEMMA Still ==
    ASSUME Undisturbed
    PROVE  UNCHANGED <<keys, parent, cached, state, running, stale, torn, outdated, declaration>>
BY DEF Undisturbed, Untouched, bind, world, histories

\* The source keys of a start are read before the lock, and claim nothing yet.
LEMMA IdentifyTrusts ==
    ASSUME PhaseInv, TrustInv, NEW p \in Procs, Identify(p)
    PROVE  TrustInv'
<1>0. UNCHANGED <<keys, parent, cached, state, running, stale, torn, outdated>>
  BY Still DEF Identify
<1>1. CASE Return(p)
  BY <1>0, <1>1, TrustReturns
<1>2. CASE Go(p, "lock") /\ tx' = [tx EXCEPT ![p].sourceKeys = keys] /\ UNCHANGED lock
  <2> DEFINE t == [tx[p] EXCEPT !.sourceKeys = keys]
  <2>1. t \in Txs /\ tx' = [tx EXCEPT ![p] = t]
    BY <1>2 DEF PhaseInv, MigrationInv, TypeOK, Txs
  <2> HIDE DEF t
  <2>2. pc'[p] = "lock" /\ Stays(p)
    BY <1>2, <2>1, Moves DEF PhaseInv
  <2>3. TrustOk(p)'
    BY <2>2 DEF TrustOk, Under, Checks
  <2> QED
    BY <1>0, <2>2, <2>3, TrustStays DEF TrustInv, Keyed
<1> QED
  BY <1>1, <1>2 DEF Identify

\* Taking the lock claims nothing either.
LEMMA TakeLockTrusts ==
    ASSUME PhaseInv, TrustInv, NEW p \in Procs, TakeLock(p)
    PROVE  TrustInv'
<1>1. /\ Goes(p, "load", tx[p].read, tx[p].new, tx[p].undoing)
      /\ UNCHANGED <<keys, parent, cached, state, running, stale, torn, outdated>>
  BY Unturned, Still DEF TakeLock, PhaseInv
<1> QED
  BY <1>1, TrustOfOthers DEF Under, Checks

\* A start finds no migration going, so its source is what the parent trusts.
LEMMA PreflightTrusts ==
    ASSUME PhaseInv, TrustInv, NEW p \in Procs, Preflight(p)
    PROVE  TrustInv'
<1>0. /\ pc[p] = "load" /\ tx[p].cmd = "start" /\ ~Changing(p)
      /\ UNCHANGED <<keys, parent, cached, state, running, stale, torn>>
  BY DEF Preflight, Untouched, bind, world, Changing, Checks
<1>1. CASE Conflict(p)
  BY <1>0, <1>1, TrustReturns DEF Preflight
<1>2. CASE ~Conflict(p)
  <2> DEFINE s == [migration |-> tx[p].number, source |-> tx[p].original,
                   target |-> tx[p].target, sourceKeys |-> tx[p].sourceKeys,
                   phase |-> "PLANNED", rollbackAllowed |-> TRUE,
                   noReturn |-> FALSE, seenDs |-> FALSE]
  <2>1. /\ tx[p].number \in Migrations /\ tx[p].original \in Policies
        /\ tx[p].target \in Policies
    BY <1>0 DEF PhaseInv, MigrationInv, Established
  <2>2. s \in States
    BY <2>1, Whole DEF PhaseInv, States, Txs, Phases
  <2>3. s.source = tx[p].original /\ s.sourceKeys = tx[p].sourceKeys
    OBVIOUS
  <2>4. /\ tx' = [tx EXCEPT ![p].read = state, ![p].new = s] /\ Go(p, "backup")
    BY <1>2 DEF Preflight
  <2> HIDE DEF s
  <2>5. Goes(p, "backup", state, s, tx[p].undoing)
    BY <2>2, <2>4, Loaded DEF PhaseInv, MigrationInv, TypeOK
  <2>6. ~Going(state) /\ declaration = s.source
    BY <1>2, <2>3 DEF Conflict, Going
  <2>7. outdated' = (outdated \/ ~(keys \subseteq s.sourceKeys))
    BY <1>2, <2>3 DEF Preflight
  <2>8. ASSUME ~stale, ~torn, ~outdated' PROVE TrustOk(p)'
    <3>1. Quiet
      BY <1>0, ChangesAlone DEF PhaseInv, LockInv, LockOk, Working, Quiet
    <3>2. declaration = Says(state) /\ (state # None => state.phase # "FAILED")
      BY <2>8, <3>1 DEF PhaseInv, MatchInv
    <3>3. declaration = Home(state)
      BY <2>6, <3>2 DEF Says, Home, Going, Ended, PastBoundary
    <3>4. keys \subseteq s.sourceKeys /\ parent \subseteq keys /\ cached \subseteq keys
      BY <2>7, <2>8 DEF TrustInv, Keyed
    <3>5. Home(state)' = Home(state) /\ Going(state)' = Going(state)
      BY <1>0 DEF Home, Going
    <3> QED
      BY <1>0, <2>5, <2>6, <3>3, <3>4, <3>5 DEF Goes, TrustOk, Under, Checks
  <2> QED
    BY <1>0, <2>5, <2>7, <2>8, TrustStays DEF Goes, TrustInv, Keyed
<1> QED
  BY <1>1, <1>2

\* The backup and the declarations.
LEMMA WritesTrust ==
    ASSUME PhaseInv, TrustInv, NEW p \in Procs, Backup(p) \/ WritePolicy(p) \/ Restore(p)
    PROVE  TrustInv'
<1>1. PICK place \in Under :
        /\ pc[p] \in Under /\ Goes(p, place, tx[p].read, tx[p].new, tx[p].undoing)
        /\ pc[p] \in {"backup", "write"} \/ pc[p] = "restore"
  <2>1. CASE Backup(p)
    BY <2>1, Unturned DEF Backup, PhaseInv, Under
  <2>2. CASE WritePolicy(p)
    BY <2>2, Unturned DEF WritePolicy, PhaseInv, Under, Checks
  <2>3. CASE Restore(p)
    BY <2>3, Unturned DEF Restore, PhaseInv, Under, Checks
  <2> QED
    BY <2>1, <2>2, <2>3
<1>2. UNCHANGED <<keys, parent, cached, state, running, stale, torn, outdated>>
  BY DEF Backup, WritePolicy, Restore, bind, world, histories
<1>3. tx[p].cmd \in {"start", "rollback"} /\ tx[p].undoing \in BOOLEAN
  BY <1>1, Whole DEF PhaseInv, MigrationInv, Established, LockInv, LockOk
<1>4. running' \in keys
  BY <1>2 DEF TrustInv, Keyed
<1> QED
  BY <1>1, <1>2, <1>3, <1>4, TrustGoes

\* A check that passes or fails, where the keys stay.
LEMMA ChecksTrust ==
    ASSUME PhaseInv, TrustInv, NEW p \in Procs,
           (Checked(p) /\ pc[p] \in Checks) \/ CheckFailed(p),
           tx[p].new \in States, pc[p] \in Under, tx[p].cmd \in {"start", "rollback"},
           UNCHANGED <<keys, parent, cached, state>>, running' \in keys,
           stale => stale', torn => torn', outdated => outdated'
    PROVE  TrustInv'
<1>0. tx[p].undoing \in BOOLEAN
  BY Whole DEF PhaseInv
<1>1. CASE Checked(p) /\ pc[p] \in Checks
  <2>1. Pass(p) /\ After[pc[p]] \in Under
    BY <1>1, Passes DEF PhaseInv, Under, Checks, After
  <2>2. Passed(p) \in Phases
    BY DEF Passed, Phases
  <2> DEFINE new == IF pc[p] = "status" THEN With(p, Passed(p)) ELSE tx[p].new
             place == After[pc[p]]
  <2>3. new.source = tx[p].new.source /\ new.target = tx[p].new.target
        /\ new.sourceKeys = tx[p].new.sourceKeys
    BY <2>2, WithIs
  <2>4. Goes(p, place, tx[p].read, new, tx[p].undoing) /\ place \in Under
    BY <2>1 DEF Pass
  <2> HIDE DEF new, place
  <2> QED
    BY <1>0, <2>3, <2>4, TrustGoes
<1>2. CASE CheckFailed(p)
  <2>1. Fail(p)
    BY <1>2, Fails DEF PhaseInv
  <2>2. CASE tx[p].undoing
    <3>1. Goes(p, "save", tx[p].read, With(p, "FAILED"), TRUE)
      BY <2>1, <2>2 DEF Fail
    <3> DEFINE new == With(p, "FAILED")
    <3>2. new.source = tx[p].new.source /\ new.target = tx[p].new.target
          /\ new.sourceKeys = tx[p].new.sourceKeys
      BY WithIs DEF Phases
    <3> HIDE DEF new
    <3> QED
      BY <3>1, <3>2, TrustGoes DEF Under, new
  <2>3. CASE ~tx[p].undoing
    <3>1. Goes(p, "restore", tx[p].read, tx[p].new, TRUE)
      BY <2>1, <2>3 DEF Fail
    <3> QED
      BY <3>1, TrustGoes DEF Under
  <2> QED
    BY <2>2, <2>3
<1> QED
  BY <1>1, <1>2

\* named has a key of the policy it loads: of the target, while the start of a
\* migration is not yet saved, or of the source again.
LEMMA ReconfigureTrusts ==
    ASSUME PhaseInv, TrustInv, NEW p \in Procs, Reconfigure(p)
    PROVE  TrustInv'
<1>1. /\ pc[p] = "reconfig" /\ running' = declaration
      /\ keys' = keys \union {declaration}
      /\ UNCHANGED <<declaration, parent, cached, state, lock, stale, torn, outdated>>
      /\ Checked(p) \/ CheckFailed(p)
  BY DEF Reconfigure, world, histories
<1>2. /\ tx[p].cmd \in {"start", "rollback"} /\ pc[p] \in Under /\ pc[p] \in Checks
      /\ tx[p].new \in States /\ lock = p /\ tx[p].undoing \in BOOLEAN
      /\ tx[p].cmd = "rollback" => tx[p].undoing
  BY <1>1, Has, Whole DEF PhaseInv, LockInv, LockOk, Under, Checks, Working
<1>3. Keyed'
  BY <1>1 DEF TrustInv, Keyed
<1>4. CASE stale \/ torn \/ outdated
  BY <1>1, <1>3, <1>4 DEF TrustInv
<1>5. CASE ~stale /\ ~torn /\ ~outdated
  <2>1. declaration = Aim(p) /\ TrustOk(p) /\ HomeOk(state)
    BY <1>1, <1>2, <1>5 DEF PhaseInv, MatchInv, MatchOk, TrustInv
  <2>2. CASE tx[p].undoing
    <3>1. declaration \in parent
      BY <1>2, <2>1, <2>2 DEF Aim, TrustOk, HomeOk
    <3>2. keys' = keys
      BY <1>1, <3>1 DEF TrustInv, Keyed
    <3> QED
      BY <1>1, <1>2, <3>1, <3>2, ChecksTrust DEF TrustInv, Keyed
  <2>3. CASE ~tx[p].undoing
    <3>1. /\ tx[p].cmd = "start" /\ ~Going(state) /\ declaration = tx[p].new.target
          /\ tx[p].new.source = Home(state)
          /\ keys \subseteq tx[p].new.sourceKeys \union {tx[p].new.target}
          /\ parent \union cached \subseteq tx[p].new.sourceKeys
      BY <1>1, <1>2, <2>1, <2>3 DEF Aim, TrustOk, Under, Checks
    <3>2. keys' \subseteq tx[p].new.sourceKeys \union {tx[p].new.target}
      BY <1>1, <3>1
    <3>3. Home(state)' = Home(state) /\ Going(state)' = Going(state)
      BY <1>1 DEF Home, Going
    <3>4. HomeOk(state)'
      BY <1>1, <2>1, <3>1, <3>3 DEF HomeOk
    <3>5. PICK place \in Under, new \in States :
            /\ \/ Goes(p, place, tx[p].read, new, TRUE) /\ place = "restore"
               \/ Goes(p, place, tx[p].read, new, tx[p].undoing)
            /\ new.source = tx[p].new.source /\ new.target = tx[p].new.target
            /\ new.sourceKeys = tx[p].new.sourceKeys
      <4>1. CASE Checked(p)
        <5>1. Goes(p, "status", tx[p].read, tx[p].new, tx[p].undoing)
          BY <1>1, <1>2, <4>1, Passes DEF PhaseInv, Pass, After
        <5> QED
          BY <1>2, <5>1 DEF Under, Checks
      <4>2. CASE CheckFailed(p)
        <5>1. Goes(p, "restore", tx[p].read, tx[p].new, TRUE)
          BY <1>2, <2>3, <4>2, Fails DEF PhaseInv, Fail
        <5> QED
          BY <1>2, <5>1 DEF Under
      <4> QED
        BY <1>1, <4>1, <4>2
    <3>6. TrustOk(p)'
      BY <1>1, <3>1, <3>2, <3>3, <3>5 DEF Goes, TrustOk, Under, Checks
    <3>7. ASSUME NEW q \in Procs \ {p} PROVE TrustOk(q)'
      <4>1. pc'[q] = pc[q] /\ tx'[q] = tx[q] /\ TrustOk(q) /\ LockOk(q) /\ LockOk(p)
        BY <1>5, <3>5 DEF Goes, Stays, TrustInv, PhaseInv, LockInv
      <4>2. lock # q
        BY <1>2
      <4>3. ~(pc[q] \in Under /\ tx[q].cmd \in {"start", "rollback"})
        BY <4>1, <4>2 DEF LockOk, Under, Working, Checks
      <4>4. Home(tx[q].new)' = Home(tx[q].new)
        BY <4>1 DEF Home
      <4> QED
        BY <1>1, <4>1, <4>3, <4>4 DEF TrustOk, Under
    <3> QED
      BY <1>3, <3>4, <3>6, <3>7 DEF TrustInv
  <2> QED
    BY <2>2, <2>3
<1> QED
  BY <1>4, <1>5

\* Whatever else of the checks.
LEMMA OtherChecksTrust ==
    ASSUME PhaseInv, TrustInv, NEW p \in Procs,
           Check(p) \/ ReconfigFails(p) \/ RestoreFails(p)
    PROVE  TrustInv'
<1>1. /\ Checked(p) \/ CheckFailed(p)
      /\ pc[p] \in {"restore"} \union Checks
      /\ UNCHANGED <<keys, parent, cached, state, running, stale, torn, outdated>>
  BY Still DEF Check, ReconfigFails, RestoreFails, Checks
<1>2. CheckFailed(p) \/ (Checked(p) /\ pc[p] \in Checks)
  BY DEF Check, ReconfigFails, RestoreFails
<1>3. tx[p].new \in States /\ tx[p].cmd \in {"start", "rollback"} /\ pc[p] \in Under
  BY <1>1, Has DEF PhaseInv, LockInv, LockOk, Under
<1>4. running' \in keys
  BY <1>1 DEF TrustInv, Keyed
<1> QED
  BY <1>1, <1>2, <1>3, <1>4, ChecksTrust

\* What all resolvers show of a key that was not a source key is the DS of the
\* target, and the parent has it.
LEMMA TargetTrusted ==
    ASSUME NEW s \in States, HomeOk(s), Going(s), NEW views \in Views, TargetObserved(s, views)
    PROVE  s.target \in parent
<1>1. PICK r \in Resolvers : TRUE
  <2>1. Cardinality({}) = 0
    BY FS_EmptySet
  <2>2. Cardinality(Resolvers) >= 2
    BY DEF TargetObserved
  <2>3. Resolvers # {}
    BY <2>1, <2>2
  <2> QED
    BY <2>3
<1>2. PICK k \in keys \ s.sourceKeys : k \in views[r]
  BY DEF TargetObserved
<1>3. views[r] \in {parent, cached, {}}
  BY DEF Views
<1>4. k = s.target /\ (k \in parent \/ k \in cached)
  BY <1>2, <1>3 DEF HomeOk
<1> QED
  BY <1>2, <1>4 DEF HomeOk

\* The boundary is crossed by the DS only.
LEMMA AdvancedCrosses ==
    ASSUME NEW s \in States, NEW signed \in BOOLEAN, NEW sure \in BOOLEAN, NEW ds \in BOOLEAN,
           s.phase \in Waiting, Advanced(s, signed, sure, ds).phase \in PastBoundary
    PROVE  s.phase \in PastBoundary \/ (ds /\ s.phase = "WAITING_DS")
<1> DEFINE a == Advanced(s, signed, sure, ds)
           n == [s EXCEPT !.seenDs = ds]
<1>0. n \in States /\ n.phase = s.phase
  BY DEF States
<1>1. CASE s.phase \in {"POLICY_APPLIED", "WAITING_DNSKEY"}
  <2>1. PICK phase \in {"WAITING_DS", "WAITING_DNSKEY"} : a = [n EXCEPT !.phase = phase]
    BY <1>1 DEF Advanced
  <2> HIDE DEF a, n
  <2>2. a.phase = phase
    BY <1>0, <2>1 DEF States
  <2> QED
    BY <2>2 DEF a, PastBoundary
<1>2. CASE s.phase = "WAITING_DS" /\ ~ds
  <2>1. a = n
    BY <1>2 DEF Advanced
  <2> QED
    BY <1>0, <1>2, <2>1 DEF PastBoundary
<1> QED
  BY <1>1, <1>2 DEF Waiting, PastBoundary

\* Two states that differ in the evidence at most stand for the same trust.
LEMMA AlikeHome ==
    ASSUME NEW r, NEW s, Alike(r, s)
    PROVE  Home(r) = Home(s) /\ Going(r) = Going(s) /\ (HomeOk(r) <=> HomeOk(s))
<1>1. r # None /\ s # None
  BY NoneAssumption DEF Alike
<1>2. Home(r) = Home(s) /\ Going(r) = Going(s)
  BY <1>1 DEF Alike, Home, Going
<1> QED
  BY <1>2 DEF Alike, HomeOk

\* A phase only goes on when what the parent must have is there.
LEMMA ObserveTrusts ==
    ASSUME PhaseInv, TrustInv, NEW p \in Procs, Observe(p)
    PROVE  TrustInv'
<1> DEFINE s == tx[p].read
<1>0. /\ pc[p] = "observe" /\ s \in States /\ tx[p].cmd \in {"check", "advance"}
      /\ UNCHANGED <<keys, parent, cached, state, running, stale, torn, outdated>> /\ Bounded(s)
  BY DEF Observe, bind, world, PhaseInv, MigrationInv, Established, Backed, LockInv,
     LockOk, RecordInv, RecordOk
<1>1. CASE Return(p)
  BY <1>0, <1>1, TrustReturns
<1>2. CASE ~Return(p)
  <2>1. PICK signed \in {FALSE, Signed(p, s)}, sure \in BOOLEAN, views \in Views :
                 /\ tx[p].cmd = "advance" => s.phase \in Waiting
                 /\ Go(p, "save") /\ UNCHANGED lock
                 /\ tx' = [tx EXCEPT ![p].new =
                                IF tx[p].cmd = "check"
                                THEN [s EXCEPT !.seenDs = TargetObserved(s, views)]
                                ELSE Advanced(s, signed, sure, TargetObserved(s, views))]
    BY <1>2, Observes DEF PhaseInv
  <2>2. TargetObserved(s, views) \in BOOLEAN /\ signed \in BOOLEAN
    BY DEF TargetObserved, Signed
  <2>3. CASE tx[p].cmd = "check"
    <3> DEFINE n == [s EXCEPT !.seenDs = TargetObserved(s, views)]
    <3>1. n \in States
      BY <1>0, <2>2 DEF States
    <3>2. Goes(p, "save", s, n, tx[p].undoing)
      BY <2>1, <2>3, <3>1, Renewed DEF PhaseInv
    <3> HIDE DEF n, s
    <3> QED
      BY <1>0, <2>3, <3>2, TrustOfOthers
  <2>4. CASE tx[p].cmd = "advance"
    <3> DEFINE n == Advanced(s, signed, sure, TargetObserved(s, views))
    <3>1. Later(s, n) /\ n \in States
      BY <1>0, <2>1, <2>2, <2>4, AdvancedLater DEF Later
    <3>2. Goes(p, "save", s, n, tx[p].undoing)
      BY <2>1, <2>4, <3>1, Renewed DEF PhaseInv
    <3>3. ASSUME ~stale, ~torn, ~outdated, Alike(state, s) PROVE Home(n) \in parent
      <4>1. HomeOk(s)
        BY <3>3, AlikeHome DEF TrustInv
      <4>2. n # None /\ s # None /\ s.phase \in Waiting
        BY <2>1, <2>4, <3>1, <1>0, NoneAssumption
      <4>3. CASE n.phase \in PastBoundary
        <5>1. s.phase \in PastBoundary \/ (TargetObserved(s, views) /\ s.phase = "WAITING_DS")
          BY <1>0, <2>2, <4>2, <4>3, AdvancedCrosses
        <5>2. Going(s)
          BY <4>2 DEF Going, Waiting, Ended
        <5>3. s.target \in parent
          BY <1>0, <4>1, <4>2, <5>1, <5>2, TargetTrusted DEF HomeOk, Home
        <5> HIDE DEF n, s
        <5> QED
          BY <3>1, <4>2, <4>3, <5>3 DEF Later, Home
      <4>4. CASE n.phase \notin PastBoundary
        <5> HIDE DEF n, s
        <5> QED
          BY <3>1, <4>1, <4>2, <4>4 DEF Later, Home, HomeOk
      <4> QED
        BY <4>3, <4>4
    <3> HIDE DEF n, s
    <3> QED
      BY <1>0, <2>4, <3>2, <3>3, TrustOfOthers
  <2> QED
    BY <1>0, <2>3, <2>4
<1> QED
  BY <1>1, <1>2

\* Reading the state claims nothing.
LEMMA LoadTrusts ==
    ASSUME PhaseInv, TrustInv, NEW p \in Procs, Load(p)
    PROVE  TrustInv'
<1>0. /\ pc[p] = "load" /\ tx[p].cmd \in {"check", "advance"}
      /\ UNCHANGED <<keys, parent, cached, state, running, stale, torn, outdated>>
  BY Still DEF Load
<1>1. CASE state = None
  BY <1>0, <1>1, TrustReturns DEF Load
<1>2. CASE state # None
  <2>1. state \in States
    BY <1>2 DEF PhaseInv, MigrationInv, TypeOK
  <2>2. Goes(p, "observe", state, state, tx[p].undoing)
    BY <1>2, <2>1, Loaded DEF Load, PhaseInv
  <2> QED
    BY <1>0, <2>2, TrustOfOthers DEF Under, Checks
<1> QED
  BY <1>1, <1>2

\* A migration that is complete had the DS of its target at the parent before.
LEMMA FinalizeTrusts ==
    ASSUME PhaseInv, TrustInv, NEW p \in Procs, Finalize(p)
    PROVE  TrustInv'
<1>0. /\ pc[p] = "load" /\ tx[p].cmd = "finalize"
      /\ UNCHANGED <<keys, parent, cached, state, running, stale, torn, outdated>>
  BY Still DEF Finalize
<1>1. CASE Return(p)
  BY <1>0, <1>1, TrustReturns
<1>2. CASE ~Return(p)
  <2> DEFINE n == [state EXCEPT !.phase = "COMPLETE", !.rollbackAllowed = FALSE]
  <2>1. state \in States /\ state.phase = "READY_TO_FINALIZE"
    BY <1>2, NoneAssumption DEF Finalize, MayFinalize, PhaseInv, MigrationInv, TypeOK
  <2>2. n \in States /\ n.phase = "COMPLETE" /\ n.target = state.target
    BY <2>1 DEF States, Phases
  <2>3. /\ tx' = [tx EXCEPT ![p].read = state, ![p].new = n] /\ Go(p, "save")
    BY <1>2 DEF Finalize
  <2> HIDE DEF n
  <2>4. Goes(p, "save", state, n, tx[p].undoing)
    BY <2>1, <2>2, <2>3, Loaded DEF PhaseInv
  <2>5. ~stale /\ ~torn /\ ~outdated => Home(n) \in parent
    BY <2>1, <2>2, NoneAssumption DEF TrustInv, HomeOk, Home, PastBoundary
  <2> QED
    BY <1>0, <2>4, <2>5, TrustOfOthers
<1> QED
  BY <1>1, <1>2

\* A rollback that the gate lets through is of a state before the boundary.
LEMMA RollbackTrusts ==
    ASSUME PhaseInv, TrustInv, NEW p \in Procs, Rollback(p)
    PROVE  TrustInv'
<1>0. /\ pc[p] = "load" /\ tx[p].cmd = "rollback"
      /\ UNCHANGED <<keys, parent, cached, state, running, stale, torn, outdated>>
  BY Still DEF Rollback
<1>1. CASE Return(p)
  BY <1>0, <1>1, TrustReturns
<1>2. CASE ~Return(p)
  <2>1. state \in States /\ state # None /\ state.phase \notin PastBoundary
    BY <1>2, NoneAssumption
       DEF Rollback, MayRollBack, PhaseInv, MigrationInv, TypeOK, RecordInv, Bounded
  <2>2. Goes(p, "restore", state, state, TRUE)
    BY <1>2, <2>1, Turning DEF Rollback, PhaseInv
  <2>3. Home(state)' = Home(state) /\ Home(state) = state.source
    BY <1>0, <2>1 DEF Home
  <2>4. TrustOk(p)'
    BY <1>0, <2>2, <2>3 DEF Goes, TrustOk, Under, Checks
  <2> QED
    BY <1>0, <2>2, <2>4, TrustStays DEF Goes, TrustInv, Keyed
<1> QED
  BY <1>1, <1>2

\* A state that is saved stands for what the parent has: that of a start, which
\* goes on to its target from here, of an undoing, or of a command that goes on.
LEMMA SavedTrust ==
    ASSUME PhaseInv, TrustInv, NEW p \in Procs, pc[p] = "save", state' = tx[p].new,
           UNCHANGED <<keys, parent, cached, running>>, Stays(p),
           ~stale /\ ~torn /\ ~outdated => TrustOk(p)',
           stale' = (stale \/ state # tx[p].read), torn => torn', outdated => outdated',
           ~torn' => tx[p].new.phase # "FAILED"
    PROVE  TrustInv'
<1> DEFINE r == tx[p].read
           new == tx[p].new
<1>0. new \in States /\ new # None /\ RecordOk(p) /\ LockOk(p)
  BY Has, NoneAssumption DEF PhaseInv, RecordInv, LockInv
<1>1. tx[p].cmd \in {"start", "check", "advance", "finalize", "rollback"}
  BY <1>0, MigrationAssumption DEF LockOk, CommandNames
<1>2. Keyed'
  BY DEF TrustInv, Keyed
<1>3. CASE stale' \/ torn' \/ outdated'
  BY <1>2, <1>3 DEF TrustInv
<1>4. CASE ~stale' /\ ~torn' /\ ~outdated'
  <2>1. ~stale /\ ~torn /\ ~outdated /\ state = r /\ new.phase # "FAILED"
    BY <1>4
  <2>2. HomeOk(state) /\ TrustOk(p) /\ \A q \in Procs : TrustOk(q)
    BY <2>1 DEF TrustInv
  <2>3. CASE tx[p].cmd \in {"start", "rollback"}
    <3>1. new.source = Home(state) /\ lock = p
      BY <1>0, <2>2, <2>3 DEF TrustOk, Under, LockOk, Working
    <3>2. HomeOk(new)
      <4>1. CASE tx[p].undoing
        <5>1. new.phase = "ROLLED_BACK"
          BY <1>0, <2>1, <2>3, <4>1 DEF RecordOk
        <5> QED
          BY <1>0, <2>2, <3>1, <5>1 DEF HomeOk, Home, Going, Ended, PastBoundary
      <4>2. CASE ~tx[p].undoing
        <5>1. new.phase = "POLICY_APPLIED" /\ tx[p].cmd = "start"
          BY <1>0, <2>3, <4>2 DEF RecordOk, LockOk
        <5>2. keys \subseteq new.sourceKeys \union {new.target} /\ cached \subseteq new.sourceKeys
          BY <2>2, <4>2, <5>1 DEF TrustOk, Under
        <5> QED
          BY <1>0, <2>2, <3>1, <5>1, <5>2 DEF HomeOk, Home, Going, Ended, PastBoundary
      <4> QED
        BY <4>1, <4>2
    <3>3. ASSUME NEW q \in Procs \ {p} PROVE TrustOk(q)'
      <4>1. pc'[q] = pc[q] /\ tx'[q] = tx[q] /\ TrustOk(q) /\ LockOk(q)
        BY <2>2 DEF Stays, PhaseInv, LockInv
      <4>2. ~(pc[q] \in Under /\ tx[q].cmd # "check")
        BY <3>1, <4>1 DEF LockOk, Under, Working, Checks
      <4> QED
        BY <4>1, <4>2 DEF TrustOk, Under
    <3>4. HomeOk(state)'
      <4> HIDE DEF new
      <4>1. Home(state)' = Home(new) /\ Going(state)' = Going(new)
        BY DEF Home, Going, new
      <4> QED
        BY <3>2, <4>1 DEF HomeOk, new
    <3> QED
      BY <1>2, <2>1, <3>3, <3>4 DEF TrustInv
  <2>4. CASE tx[p].cmd \in {"check", "advance", "finalize"}
    <3>1. Alike(r, new) \/ (Later(r, new) /\ tx[p].cmd # "check")
      BY <1>0, <2>4 DEF RecordOk
    <3>2. (HomeOk(new) /\ (Going(new) <=> Going(state))) \/ tx[p].cmd # "check"
      BY <2>1, <2>2, <3>1, AlikeHome
    <3>3. HomeOk(new)
      <4>1. CASE Alike(r, new)
        BY <2>1, <2>2, <4>1, AlikeHome
      <4>2. CASE Later(r, new) /\ tx[p].cmd # "check"
        <5>1. Alike(state, r)
          BY <2>1, <4>2 DEF Later, Alike
        <5>2. Home(new) \in parent
          BY <2>2, <2>4, <4>2, <5>1 DEF TrustOk
        <5>3. Going(state)
          BY <2>1, <4>2, NoneAssumption DEF Later, Going
        <5> HIDE DEF new, r
        <5> QED
          BY <2>1, <2>2, <4>2, <5>2, <5>3 DEF HomeOk, Later
      <4> QED
        BY <3>1, <4>1, <4>2
    <3>4. HomeOk(state)'
      <4> HIDE DEF new
      <4>1. Home(state)' = Home(new) /\ Going(state)' = Going(new)
        BY DEF Home, Going, new
      <4> QED
        BY <3>3, <4>1 DEF HomeOk, new
    <3>5. ASSUME NEW q \in Procs \ {p} PROVE TrustOk(q)'
      <4>1. pc'[q] = pc[q] /\ tx'[q] = tx[q] /\ TrustOk(q) /\ LockOk(q)
        BY <2>2 DEF Stays, PhaseInv, LockInv
      <4>2. CASE tx[p].cmd # "check"
        <5>1. lock = p
          BY <1>0, <4>2 DEF LockOk, Working
        <5>2. ~(pc[q] \in Under /\ tx[q].cmd # "check")
          BY <4>1, <5>1 DEF LockOk, Under, Working, Checks
        <5> QED
          BY <4>1, <5>2 DEF TrustOk, Under
      <4>3. CASE tx[p].cmd = "check"
        <5>1. Alike(state, new)
          BY <2>1, <3>1, <4>3
        <5>2. Home(state)' = Home(state) /\ Going(state)' = Going(state)
          <6>1. Home(new) = Home(state) /\ Going(new) = Going(state)
            BY <5>1, AlikeHome
          <6>2. Home(state)' = Home(new) /\ Going(state)' = Going(new)
            BY DEF Home, Going
          <6> QED
            BY <6>1, <6>2
        <5>3. Alike(state, tx[q].read)' => Alike(state, tx[q].read)
          BY <4>1, <5>1 DEF Alike
        <5>4. Home(tx[q].new)' = Home(tx[q].new)
          BY <4>1 DEF Home
        <5> QED
          BY <4>1, <5>2, <5>3, <5>4 DEF TrustOk
      <4> QED
        BY <4>2, <4>3
    <3> QED
      BY <1>2, <2>1, <3>4, <3>5 DEF TrustInv
  <2> QED
    BY <1>1, <2>3, <2>4
<1> QED
  BY <1>3, <1>4

\* A command ends with its save.
LEMMA SaveTrusts ==
    ASSUME PhaseInv, TrustInv, NEW p \in Procs, Save(p)
    PROVE  TrustInv'
<1>1. Leaves(p) /\ pc[p] = "save" /\ state' = tx[p].new
      /\ stale' = (stale \/ state # tx[p].read) /\ torn' = (torn \/ tx[p].new.phase = "FAILED")
      /\ UNCHANGED <<keys, parent, cached, running, outdated>>
  BY Returns DEF Save, PhaseInv, bind, world
<1>2. TrustOk(p)'
  BY <1>1, NothingDone DEF Leaves, TrustOk, Under, Checks
<1> QED
  BY <1>1, <1>2, SavedTrust DEF Leaves

\* A start that is saved, and undone because its audit record fails.
LEMMA AuditFailsTrusts ==
    ASSUME PhaseInv, TrustInv, NEW p \in Procs, AuditFails(p)
    PROVE  TrustInv'
<1> DEFINE new == tx[p].new
<1>1. /\ pc[p] = "save" /\ tx[p].cmd = "start" /\ ~tx[p].undoing /\ state' = new
      /\ stale' = (stale \/ state # tx[p].read) /\ Go(p, "restore")
      /\ tx' = [tx EXCEPT ![p].read = new, ![p].undoing = TRUE]
      /\ UNCHANGED <<keys, parent, cached, running, torn, outdated>>
  BY DEF AuditFails, bind, world
<1>2. new \in States /\ new # None /\ new.phase = "POLICY_APPLIED"
  BY <1>1, Has, NoneAssumption DEF PhaseInv, RecordInv, RecordOk
<1>3. pc'[p] = "restore" /\ Stays(p) /\ tx'[p].cmd = "start" /\ tx'[p].new = new
      /\ tx'[p].undoing = TRUE
  <2> DEFINE t == [tx[p] EXCEPT !.read = new, !.undoing = TRUE]
  <2>1. t \in Txs /\ t.cmd = tx[p].cmd /\ t.new = tx[p].new /\ t.undoing = TRUE
    BY <1>2, Whole DEF Txs, PhaseInv
  <2>2. tx' = [tx EXCEPT ![p] = t]
    BY <1>1, Whole DEF Txs, PhaseInv
  <2> HIDE DEF t, new
  <2>3. pc'[p] = "restore" /\ tx'[p] = t /\ Stays(p)
    BY <1>1, <2>1, <2>2, Moves DEF PhaseInv
  <2> QED
    BY <1>1, <2>1, <2>3 DEF new
<1>4. TrustOk(p)'
  <2>1. Home(state)' = new.source
    BY <1>1, <1>2 DEF Home, PastBoundary
  <2> QED
    BY <1>3, <2>1 DEF TrustOk, Under, Checks
<1> QED
  BY <1>1, <1>2, <1>3, <1>4, SavedTrust

\* A save that raises leaves the state file as it was.
LEMMA SaveFailsTrusts ==
    ASSUME PhaseInv, TrustInv, NEW p \in Procs, SaveFails(p)
    PROVE  TrustInv'
<1>1. /\ pc[p] = "save" /\ UNCHANGED <<keys, parent, cached, running, state, stale, outdated>>
      /\ torn => torn'
  BY DEF SaveFails, bind, world
<1>2. CASE tx[p].cmd = "start" /\ ~tx[p].undoing
  BY <1>1, <1>2, Has, ChecksTrust DEF SaveFails, Under, TrustInv, Keyed
<1>3. CASE ~(tx[p].cmd = "start" /\ ~tx[p].undoing)
  BY <1>1, <1>3, TrustReturns DEF SaveFails
<1> QED
  BY <1>2, <1>3

\* Every step of a command.
LEMMA StepTrusts ==
    ASSUME PhaseInv, TrustInv, NEW p \in Procs,
           Begin(p) \/ Step(p) \/ Crash(p)
    PROVE  TrustInv'
<1>1. CASE Refuse(p) \/ NotWritten(p)
  BY <1>1, Still, TrustReturns DEF Refuse, NotWritten
<1>2. CASE Crash(p)
  BY <1>2, TrustReturns DEF Crash, bind, world
<1> QED
  BY <1>1, <1>2, BeginTrusts, IdentifyTrusts, TakeLockTrusts, PreflightTrusts,
     WritesTrust, ReconfigureTrusts, OtherChecksTrust, LoadTrusts, ObserveTrusts,
     FinalizeTrusts, RollbackTrusts, SaveTrusts, AuditFailsTrusts, SaveFailsTrusts
     DEF Step

\* Another value of the parent, of what resolvers return or of the keys, without
\* the commands.
LEMMA WorldTrusts ==
    ASSUME TrustInv, Elsewhere, running' = running, Keyed',
           ~stale /\ ~torn /\ ~outdated =>
              /\ HomeOk(state)'
              /\ keys' \subseteq keys
              /\ ~Going(state) => parent' \union cached' \subseteq parent \union cached
              /\ \A r \in States : \A n \in States : RecordInv /\ Later(r, n)
                 /\ Alike(state, r) /\ Home(n) \in parent => Home(n) \in parent',
           \A p \in Procs : pc[p] = "save" /\ tx[p].cmd \in {"advance", "finalize"} =>
              Later(tx[p].read, tx[p].new),
           RecordInv
    PROVE  TrustInv'
<1> SUFFICES ASSUME ~stale, ~torn, ~outdated, NEW p \in Procs PROVE TrustOk(p)'
  BY DEF TrustInv, Elsewhere, histories
<1>1. /\ pc'[p] = pc[p] /\ tx'[p] = tx[p] /\ state' = state /\ TrustOk(p)
  BY DEF Elsewhere, TrustInv
<1>2. /\ Home(state)' = Home(state) /\ Going(state)' = Going(state)
      /\ Home(tx[p].new)' = Home(tx[p].new)
      /\ Alike(state, tx[p].read)' = Alike(state, tx[p].read)
  BY <1>1 DEF Home, Going, Alike
<1>3. pc[p] = "save" /\ tx[p].cmd \in {"advance", "finalize"} /\ Alike(state, tx[p].read) =>
         Home(tx[p].new) \in parent'
  BY <1>1 DEF TrustOk, Later
<1> QED
  BY <1>1, <1>2, <1>3 DEF TrustOk

\* The registrar, the resolvers and named.
LEMMA ElsewhereTrusts ==
    ASSUME PhaseInv, TrustInv, ChangeDs \/ CacheExpires \/ DropKey
    PROVE  TrustInv'
<1>0. /\ Elsewhere /\ running' = running /\ RecordInv /\ state' = state
      /\ \A p \in Procs : pc[p] = "save" /\ tx[p].cmd \in {"advance", "finalize"} =>
            Later(tx[p].read, tx[p].new)
  BY DEF ChangeDs, CacheExpires, DropKey, Elsewhere, bind, PhaseInv, RecordInv, RecordOk
<1>1. Home(state)' = Home(state) /\ Going(state)' = Going(state)
  BY <1>0 DEF Home, Going
<1>2. CASE CacheExpires
  <2>1. keys' = keys /\ parent' = parent /\ cached' = parent
    BY <1>2 DEF CacheExpires, bind
  <2>2. Keyed'
    BY <1>0, <2>1 DEF Keyed, TrustInv
  <2>3. ~stale /\ ~torn /\ ~outdated => HomeOk(state)'
    BY <1>0, <1>1, <2>1 DEF TrustInv, HomeOk
  <2> QED
    BY <1>0, <2>1, <2>2, <2>3, WorldTrusts
<1>3. CASE DropKey
  <2>1. /\ parent' = parent /\ cached' = cached /\ keys' \subseteq keys
        /\ running \in keys' /\ parent \subseteq keys' /\ cached \subseteq keys'
    BY <1>3 DEF DropKey, world, TrustInv, Keyed
  <2>2. Keyed'
    BY <1>0, <2>1 DEF Keyed
  <2>3. ~stale /\ ~torn /\ ~outdated => HomeOk(state)'
    BY <1>0, <1>1, <2>1 DEF TrustInv, HomeOk
  <2> QED
    BY <1>0, <2>1, <2>2, <2>3, WorldTrusts
<1>4. CASE ChangeDs
  <2>0. state # None /\ state \in States
    BY <1>4 DEF ChangeDs, PhaseInv, MigrationInv, TypeOK
  <2>1. /\ keys' = keys /\ cached' = parent /\ state.target \in keys
        /\ \/ state.phase = "WAITING_DS" /\ parent' = parent \union {state.target}
           \/ state.phase \in PastBoundary /\ parent' = {state.target}
    BY <1>4 DEF ChangeDs, bind
  <2>2. Keyed'
    BY <1>0, <2>1 DEF Keyed, TrustInv
  <2>3. state.target \in parent'
    BY <2>1
  <2>4. ~stale /\ ~torn /\ ~outdated => HomeOk(state) /\ Home(state) \in parent
    BY DEF TrustInv, HomeOk
  <2>5. ~stale /\ ~torn /\ ~outdated => HomeOk(state)'
    BY <1>0, <1>1, <2>0, <2>1, <2>3, <2>4 DEF HomeOk, Home
  <2>6. ~stale /\ ~torn /\ ~outdated /\ ~Going(state) => parent' \union cached' \subseteq parent \union cached
    BY <2>0, <2>1, <2>4 DEF Going, Ended, Home, PastBoundary
  <2>7. ASSUME NEW r \in States, NEW n \in States, Later(r, n), Alike(state, r),
               Home(n) \in parent
        PROVE  Home(n) \in parent'
    <3>1. n # None /\ n.target = state.target
          /\ (state.phase \in PastBoundary => n.phase \in PastBoundary)
      BY <2>7, NoneAssumption DEF Later, Alike
    <3> QED
      BY <2>1, <2>7, <3>1 DEF Home
  <2> QED
    BY <1>0, <2>1, <2>2, <2>5, <2>6, <2>7, WorldTrusts
<1> QED
  BY <1>2, <1>3, <1>4

\* The initial states satisfy the invariant.
LEMMA InitTrusts == Init => TrustInv
<1> SUFFICES ASSUME Init PROVE TrustInv
  OBVIOUS
<1>1. \A p \in Procs : pc[p] = "idle" /\ tx[p] = NoTx
  BY DEF Init
<1>2. \A p \in Procs : TrustOk(p)
  BY <1>1, NothingDone DEF TrustOk, Under, Checks
<1> QED
  BY <1>2 DEF Init, TrustInv, Keyed, HomeOk, Home, Going

\* The invariant is inductive.
LEMMA NextTrusts == PhaseInv /\ TrustInv /\ [Next]_vars => TrustInv'
<1> SUFFICES ASSUME PhaseInv, TrustInv, [Next]_vars PROVE TrustInv'
  OBVIOUS
<1>1. ASSUME UNCHANGED vars PROVE TrustInv'
  <2>1. UNCHANGED <<keys, parent, cached, running, state, pc, tx, stale, torn, outdated>>
    BY <1>1 DEF vars, bind, world, histories
  <2> QED
    BY <2>1 DEF TrustInv, Keyed, HomeOk, Home, Going, TrustOk, Under, Checks, Alike
<1>2. ASSUME NEW p \in Procs, Begin(p) \/ Step(p) \/ Crash(p) PROVE TrustInv'
  BY <1>2, StepTrusts
<1> QED
  BY <1>1, <1>2, ElsewhereTrusts DEF Next

\* The policy that the zone is rolled back to is one whose DS the parent
\* publishes (RollbackKeepsTrust), for any number of operators who start, check,
\* advance, finalize and roll back, as long as no command died, lost its state,
\* overwrote another's or started by source keys read before another start: the
\* gate of rollback is enough, because the DS that opens the boundary is one of
\* a key that was none of the source's.
THEOREM RollbackIsTrusted == Spec => RollbackKeepsTrust
<1>1. PhaseInv /\ TrustInv =>
         [\A p \in Procs : Restore(p) /\ tx[p].cmd = "rollback" =>
             \/ stale \/ torn \/ outdated
             \/ tx[p].new.source \in parent]_vars
  BY DEF TrustInv, TrustOk, HomeOk, Restore, Under
<1>2. PhaseInv /\ TrustInv /\ [Next]_vars => TrustInv'
  BY NextTrusts
<1> QED
  BY <1>1, <1>2, InitTrusts, PhaseInvariant, PTL DEF Spec, RollbackKeepsTrust
====
