---------------------------- MODULE DnssecProofs ----------------------------
(* Theorems about DnssecLifecycle, for any number of processes, resolvers,   *)
(* commands and edits and any faults: its types, that a zone is never        *)
(* served unsigned while a resolver holds its DS, and that a command that    *)
(* runs alone restores what it changed when it is rolled back and, if it is  *)
(* the last stage of disable, raises the serial.                             *)
EXTENDS DnssecLifecycle, TLAPS

\* The DS was not at the registrar when the resolvers were asked, or one of
\* them denied it all the same.
Unpublished == fooled \/ parent # "published"

\* No resolver holds the DS, and none can get it.
Safe ==
    \/ overridden \/ fooled
    \/ parent # "published" /\ \A c \in Caches : cache[c] # "ds"

\* The key manager hides the DS only when it is gone, and the keys after it.
KeysSound ==
    IF keys = None THEN Safe
    ELSE /\ keys.ds = "hidden" => Safe
         /\ keys.dnskey # "omnipresent" => keys.ds = "hidden"
         /\ keys.ds = "hidden" /\ keys.dnskey = "omnipresent" => keys.withdrawn
         /\ keys.withdrawn =>
               \/ fooled
               \/ parent # "published" /\ \A c \in Caches : cache[c] = "ds" => c \in keys.wait

\* Nothing drops the policy as long as the DS may be seen.
PolicySound == (decl.mode = "plain" => Safe) /\ (named.mode = "plain" => Safe)

\* The commands that reach each place.
Placed(cmd, place) ==
    /\ place = "ask" => cmd \in {"confirm", "withdraw", "insecure"}
    /\ place = "published" => cmd = "confirm"
    /\ place = "withdrawn" => cmd = "withdraw"
    /\ place \in {"kasp", "serial-gate"} => cmd = "finalize"
    /\ place \in {"snapshot", "copy-zone", "checkzone", "remove"} => cmd = "enable"
    /\ place \in Stages \ {"ask", "published", "withdrawn", "served", "replace"}
          => cmd \in Changing
    /\ place \in {"served", "replace"} => cmd = "serial"

\* What the command t has established by the time it reaches a place.
Ready(t, place) ==
    /\ Placed(t.cmd, place)
    /\ t.cmd \in {"enable", "insecure"} => t.goal.mode # "plain"
    /\ t.cmd = "withdraw" /\ "no" \in t.heard => Unpublished
    /\ place = "withdrawn" => t.heard = {"no"}
    /\ t.cmd = "enable" /\ place # "preflight" => Safe
    /\ t.cmd = "finalize" /\ place \notin {"preflight", "kasp"} => Safe
    /\ t.backup # None => t.cmd \in Changing /\ (t.backup.mode = "plain" => Safe)
    /\ t.written \/ place \in {"copy-zone", "checkzone", "declare", "checkconf", "declare-back"}
          => t.backup # None

Established(t) == Ready(t, t.at)

\* The places from which a command may have to undo what it did.
Undoable == {"backup", "snapshot", "copy-zone", "checkzone", "declare", "checkconf",
             "reconfig", "zonestatus", "dnssec-status", "commit", "declare-back",
             "undo-reconfig"}

DnssecInv ==
    /\ TypeOK /\ KeysSound /\ PolicySound
    /\ \A p \in Procs : Running(p) => Established(tx[p])

\* A command that moves is still of its type and only its place has changed.
LEMMA Moved ==
    ASSUME NEW t \in Txs, NEW place \in Stages, NEW u, u = [t EXCEPT !.at = place]
    PROVE  u \in Txs /\ Established(u) = Ready(t, place)
<1>1. /\ u \in Txs /\ u.at = place
      /\ u.cmd = t.cmd /\ u.goal = t.goal /\ u.heard = t.heard
      /\ u.backup = t.backup /\ u.written = t.written
  BY DEF Txs
<1> QED
  BY <1>1 DEF Established, Ready

\* What a command has established outlives a step that keeps a zone safe and
\* the DS unpublished.
LEMMA Lasting ==
    ASSUME NEW t, NEW place, Ready(t, place), Safe => Safe', Unpublished => Unpublished'
    PROVE  Ready(t, place)'
<1>1. Placed(t.cmd, place)'
  BY DEF Ready, Placed, Changing, Stages
<1>2. /\ t.cmd \in {"enable", "insecure"} => t.goal.mode # "plain"
      /\ t.cmd = "withdraw" /\ "no" \in t.heard => Unpublished'
      /\ place = "withdrawn" => t.heard = {"no"}
      /\ t.cmd = "enable" /\ place # "preflight" => Safe'
      /\ t.cmd = "finalize" /\ place \notin {"preflight", "kasp"} => Safe'
      /\ t.backup # None => t.cmd \in Changing /\ (t.backup.mode = "plain" => Safe')
      /\ t.written \/ place \in {"copy-zone", "checkzone", "declare", "checkconf", "declare-back"}
          => t.backup # None
  BY DEF Ready
<1> QED
  BY <1>1, <1>2 DEF Ready, Changing

\* What other commands have established outlives a step of p that keeps a zone
\* safe and the DS unpublished.
LEMMA Others ==
    ASSUME DnssecInv, NEW p \in Procs, DataOK', KeysSound', PolicySound',
           Safe => Safe', Unpublished => Unpublished',
           \/ tx' = [tx EXCEPT ![p] = None]
           \/ \E t \in Txs : tx' = [tx EXCEPT ![p] = t] /\ Established(t)'
    PROVE  DnssecInv'
<1>1. tx' \in [Procs -> Txs \cup {None}]
  BY DEF DnssecInv, TypeOK
<1>2. ASSUME NEW q \in Procs, Running(q)' PROVE Established(tx[q])'
  <2>1. CASE q = p
    BY <1>2, <2>1 DEF DnssecInv, TypeOK, Running
  <2>2. CASE q # p
    <3>1. tx'[q] = tx[q] /\ Running(q)
      BY <1>2, <2>2 DEF DnssecInv, TypeOK, Running
    <3>2. Established(tx[q])
      BY <3>1 DEF DnssecInv
    <3> QED
      BY <3>1, <3>2, Lasting DEF Established
  <2> QED
    BY <2>1, <2>2
<1> QED
  BY <1>1, <1>2 DEF DnssecInv, TypeOK

\* A step of p that ends it, or only moves it to a place it is ready for.
LEMMA Quiet ==
    ASSUME DnssecInv, NEW p \in Procs, UNCHANGED <<bind, world, issued, edits, histories>>,
           \/ End(p)
           \/ \E t \in Txs, place \in Stages : Go(p, t, place) /\ Ready(t, place)
    PROVE  DnssecInv'
<1>1. DataOK' /\ KeysSound' /\ PolicySound' /\ (Safe => Safe') /\ (Unpublished => Unpublished')
  BY DEF DnssecInv, TypeOK, DataOK, KeysSound, PolicySound, Safe, Unpublished, bind, world, histories
<1>2. CASE End(p)
  BY <1>1, <1>2, Others DEF End
<1>3. ASSUME NEW t \in Txs, NEW place \in Stages, Go(p, t, place), Ready(t, place)
      PROVE  DnssecInv'
  <2>1. PICK u : u = [t EXCEPT !.at = place]
    OBVIOUS
  <2>2. u \in Txs /\ Established(u)
    BY <1>3, <2>1, Moved
  <2>3. Established(u)'
    BY <1>1, <2>2, Lasting DEF Established
  <2> QED
    BY <1>1, <1>3, <2>1, <2>2, <2>3, Others DEF Go
<1> QED
  BY <1>2, <1>3

\* Each state a zone may start in, whatever its parent holds, satisfies the invariant.
LEMMA Initially ==
    Init => DnssecInv
<1> SUFFICES ASSUME Init PROVE DnssecInv
  OBVIOUS
<1>4. /\ tx \in [Procs -> Txs \cup {None}] /\ \A p \in Procs : ~Running(p)
      /\ issued \in Nat /\ edits \in Nat /\ overridden \in BOOLEAN /\ fooled \in BOOLEAN
  BY DEF Init, Running
<1>1. CASE parent = "never"
  <2>1. /\ decl = [mode |-> "plain", at |-> "source"] /\ keys = None
        /\ named = [mode |-> "plain", at |-> "source", serial |-> 1] /\ journal = 0
        /\ files \in [Places -> Nat]
    BY <1>1 DEF Init, Places
  <2>2. cache \in [Caches -> {"empty", "no"}]
    BY <1>1 DEF Init
  <2>3. Safe
    BY <1>1, <2>2 DEF Safe
  <2> QED
    <3>1. decl \in Decls /\ named \in [mode : Modes, at : Places, serial : Nat]
      BY <2>1 DEF Decls, Modes, Places
    <3>2. cache \in [Caches -> {"empty", "ds", "no"}]
      BY <2>2
    <3>3. DataOK
      BY <1>1, <1>4, <2>1, <3>1, <3>2 DEF DataOK
    <3>4. KeysSound /\ PolicySound
      BY <2>1, <2>3 DEF KeysSound, PolicySound
    <3> QED
      BY <1>4, <3>3, <3>4 DEF DnssecInv, TypeOK
<1>2. CASE parent = "published"
  <2>1. /\ decl = [mode |-> "signed", at |-> "target"]
        /\ named = [mode |-> "signed", at |-> "target", serial |-> 2] /\ journal = 2
        /\ keys = [goal |-> "omnipresent", dnskey |-> "omnipresent", ds |-> "omnipresent",
                   published |-> TRUE, withdrawn |-> FALSE, wait |-> {}]
        /\ files \in [Places -> Nat]
    BY <1>2 DEF Init, Places
  <2>2. cache \in [Caches -> {"ds"}]
    BY <1>2 DEF Init
  <2>3. keys \in KeyStates
    BY <2>1 DEF KeyStates
  <2> QED
    <3>1. decl \in Decls /\ named \in [mode : Modes, at : Places, serial : Nat]
      BY <2>1 DEF Decls, Modes, Places
    <3>2. cache \in [Caches -> {"empty", "ds", "no"}]
      BY <2>2
    <3>3. DataOK
      BY <1>2, <1>4, <2>1, <2>3, <3>1, <3>2 DEF DataOK
    <3>4. KeysSound /\ PolicySound
      BY <2>1, <2>3, NoneAssumption DEF KeysSound, PolicySound
    <3> QED
      BY <1>4, <3>3, <3>4 DEF DnssecInv, TypeOK
<1>3. CASE parent = "removed"
  <2>1. /\ decl = [mode |-> "insecure", at |-> "target"]
        /\ named = [mode |-> "insecure", at |-> "target", serial |-> 2] /\ journal = 2
        /\ keys = [goal |-> "hidden", dnskey |-> "hidden", ds |-> "hidden",
                   published |-> TRUE, withdrawn |-> TRUE, wait |-> {}]
        /\ files \in [Places -> Nat]
    BY <1>3 DEF Init, Places
  <2>2. cache \in [Caches -> {"empty", "no"}]
    BY <1>3 DEF Init
  <2>3. keys \in KeyStates /\ Safe
    BY <1>3, <2>1, <2>2 DEF KeyStates, Safe
  <2> QED
    <3>1. decl \in Decls /\ named \in [mode : Modes, at : Places, serial : Nat]
      BY <2>1 DEF Decls, Modes, Places
    <3>2. cache \in [Caches -> {"empty", "ds", "no"}]
      BY <2>2
    <3>3. DataOK
      BY <1>3, <1>4, <2>1, <2>3, <3>1, <3>2 DEF DataOK
    <3>4. KeysSound /\ PolicySound
      BY <1>3, <2>1, <2>2, <2>3, NoneAssumption DEF KeysSound, PolicySound
    <3> QED
      BY <1>4, <3>3, <3>4 DEF DnssecInv, TypeOK
<1>5. parent \in {"never", "published", "removed"}
  BY DEF Init
<1> QED
  BY <1>1, <1>2, <1>3, <1>5

\* What holds when p is at a place.
LEMMA Arrived ==
    ASSUME DnssecInv, NEW p \in Procs, NEW place, At(p, place)
    PROVE  tx[p] \in Txs /\ tx[p].at = place /\ Ready(tx[p], place)
  BY DEF DnssecInv, TypeOK, At, Running, Established

\* The gates that only read.
LEMMA GateSound ==
    ASSUME DnssecInv, NEW p \in Procs, UNCHANGED <<parent, edits, issued>>,
           Preflight(p) \/ Decide(p) \/ SerialGate(p)
    PROVE  DnssecInv'
<1>1. CASE Preflight(p)
  <2>1. tx[p] \in Txs /\ Ready(tx[p], "preflight") /\ tx[p].cmd \in Changing
    <3>1. tx[p] \in Txs /\ Ready(tx[p], "preflight")
      BY <1>1, Arrived DEF Preflight
    <3> QED
      BY <3>1 DEF Ready, Placed, Stages
  <2>2. UNCHANGED <<bind, world, issued, edits, histories>>
    BY <1>1 DEF Preflight, world
  <2>3. CASE End(p)
    BY <2>2, <2>3, Quiet
  <2>4. CASE tx[p].cmd = "enable" /\ Beside = {} /\ Go(p, tx[p], "snapshot")
    <3>1. Safe
      BY <2>4 DEF Beside, DnssecInv, KeysSound
    <3>2. Ready(tx[p], "snapshot") /\ "snapshot" \in Stages
      BY <2>1, <2>4, <3>1 DEF Stages, Ready, Placed
    <3> QED
      BY <2>1, <2>2, <2>4, <3>2, Quiet
  <2>5. CASE tx[p].cmd = "insecure" /\ Go(p, tx[p], "ask")
    <3>1. Ready(tx[p], "ask") /\ "ask" \in Stages
      BY <2>1, <2>5 DEF Stages, Ready, Placed
    <3> QED
      BY <2>1, <2>2, <2>5, <3>1, Quiet
  <2>6. CASE tx[p].cmd = "finalize" /\ Go(p, tx[p], "kasp")
    <3>1. Ready(tx[p], "kasp") /\ "kasp" \in Stages
      BY <2>1, <2>6 DEF Stages, Ready, Placed
    <3> QED
      BY <2>1, <2>2, <2>6, <3>1, Quiet
  <2> QED
    BY <1>1, <2>1, <2>3, <2>4, <2>5, <2>6 DEF Preflight, Changing
<1>2. CASE Decide(p)
  <2>1. /\ tx[p] \in Txs /\ Ready(tx[p], "ask")
        /\ tx[p].cmd \in {"confirm", "withdraw", "insecure"}
    BY <1>2, Arrived DEF Decide, Ready, Placed
  <2>2. UNCHANGED <<bind, world, issued, edits, histories>>
    BY <1>2 DEF Decide, world
  <2>3. CASE End(p)
    BY <2>2, <2>3, Quiet
  <2>4. CASE tx[p].cmd = "confirm" /\ Go(p, tx[p], "published")
    <3>1. Ready(tx[p], "published") /\ "published" \in Stages
      BY <2>1, <2>4 DEF Stages, Ready, Placed
    <3> QED
      BY <2>1, <2>2, <2>4, <3>1, Quiet
  <2>5. CASE tx[p].cmd = "withdraw" /\ DsNowhere(tx[p]) /\ Go(p, tx[p], "withdrawn")
    <3>1. Ready(tx[p], "withdrawn") /\ "withdrawn" \in Stages
      BY <2>1, <2>5 DEF Stages, Ready, Placed, DsNowhere
    <3> QED
      BY <2>1, <2>2, <2>5, <3>1, Quiet
  <2>6. CASE tx[p].cmd = "insecure" /\ Go(p, tx[p], "backup")
    <3>1. Ready(tx[p], "backup") /\ "backup" \in Stages
      BY <2>1, <2>6 DEF Stages, Ready, Placed, Changing
    <3> QED
      BY <2>1, <2>2, <2>6, <3>1, Quiet
  <2> QED
    BY <1>2, <2>1, <2>3, <2>4, <2>5, <2>6 DEF Decide, AskGate
<1>3. CASE SerialGate(p)
  <2>1. tx[p] \in Txs /\ Ready(tx[p], "serial-gate") /\ edits \in Nat
    BY <1>3, Arrived DEF SerialGate, DnssecInv, TypeOK, DataOK
  <2>2. UNCHANGED <<bind, world, issued, edits, histories>>
    BY <1>3 DEF SerialGate, world
  <2>3. CASE End(p)
    BY <2>2, <2>3, Quiet
  <2>4. CASE Go(p, [tx[p] EXCEPT !.gate = edits], "backup")
    <3>1. PICK t : t = [tx[p] EXCEPT !.gate = edits]
      OBVIOUS
    <3>2. /\ t \in Txs /\ t.cmd = tx[p].cmd /\ t.goal = tx[p].goal
          /\ t.heard = tx[p].heard /\ t.backup = tx[p].backup /\ t.written = tx[p].written
      BY <2>1, <3>1 DEF Txs
    <3>3. Ready(t, "backup") /\ "backup" \in Stages
      BY <2>1, <3>2 DEF Ready, Placed, Changing, Stages
    <3> QED
      BY <2>2, <2>4, <3>1, <3>2, <3>3, Quiet
  <2> QED
    BY <1>3, <2>3, <2>4 DEF SerialGate
<1> QED
  BY <1>1, <1>2, <1>3

\* A command is ready for every place of its rollback.
LEMMA UndoReady ==
    ASSUME NEW t \in Txs, NEW place \in Undoable, Ready(t, place)
    PROVE  /\ Ready(t, UndoFiles(t)) /\ UndoFiles(t) \in Stages
           /\ Ready(t, UndoNamed(t)) /\ UndoNamed(t) \in Stages
<1>1. t.cmd \in Changing
  BY DEF Ready, Placed, Undoable, Stages
<1>2. /\ t.cmd = "enable" => Ready(t, "remove")
      /\ t.cmd # "enable" => Ready(t, "rolled-back")
      /\ Ready(t, "undo-reconfig")
  BY <1>1 DEF Ready, Placed, Undoable, Stages, Changing
<1> QED
  BY <1>2 DEF UndoFiles, UndoNamed, Stages

\* A step that fails sends its command to the first undo step that what it has done calls for,
\* and what that step relies on holds there.
LEMMA FailReady ==
    ASSUME NEW t \in Txs, NEW place \in Undoable, Ready(t, place), NEW p, Fail(p, t)
    PROVE  \E next \in Stages : Go(p, t, next) /\ Ready(t, next)
<1>1. t.cmd \in Changing
  BY DEF Ready, Placed, Undoable, Stages
<1>2. CASE t.written
  <2>1. Ready(t, "declare-back") /\ "declare-back" \in Stages
    BY <1>1, <1>2 DEF Ready, Placed, Undoable, Stages
  <2> QED
    BY <1>2, <2>1 DEF Fail
<1>3. CASE ~t.written
  BY <1>3, UndoReady DEF Fail
<1> QED
  BY <1>2, <1>3

\* A step that copies, checks or fails and changes nothing else.
LEMMA CheckSound ==
    ASSUME DnssecInv, NEW p \in Procs, UNCHANGED <<parent, edits, issued>>,
           Backup(p) \/ Verify(p) \/ FileFails(p) \/ UndoFails(p)
    PROVE  DnssecInv'
<1>1. UNCHANGED <<bind, world, issued, edits, histories>>
  BY DEF Backup, Verify, FileFails, UndoFails, world
<1>2. CASE Backup(p)
  <2>1. CASE At(p, "snapshot") /\ Go(p, [tx[p] EXCEPT !.backup = decl, !.found = Beside], "copy-zone")
    <3>1. tx[p] \in Txs /\ Ready(tx[p], "snapshot") /\ decl \in Decls /\ PolicySound
      BY <2>1, Arrived DEF DnssecInv, TypeOK, DataOK
    <3>2. PICK t : t = [tx[p] EXCEPT !.backup = decl, !.found = Beside]
      OBVIOUS
    <3>3. /\ t \in Txs /\ t.cmd = tx[p].cmd /\ t.goal = tx[p].goal
          /\ t.heard = tx[p].heard /\ t.backup = decl /\ t.written = tx[p].written
      BY <3>1, <3>2 DEF Txs, Beside
    <3>4. Ready(t, "copy-zone") /\ "copy-zone" \in Stages
      BY <3>1, <3>3, NoneAssumption DEF Ready, Placed, Changing, Stages, PolicySound
    <3> QED
      BY <1>1, <2>1, <3>2, <3>3, <3>4, Quiet
  <2>2. CASE At(p, "backup") /\ Go(p, [tx[p] EXCEPT !.backup = decl], "declare")
    <3>1. tx[p] \in Txs /\ Ready(tx[p], "backup") /\ decl \in Decls /\ PolicySound
      BY <2>2, Arrived DEF DnssecInv, TypeOK, DataOK
    <3>2. PICK t : t = [tx[p] EXCEPT !.backup = decl]
      OBVIOUS
    <3>3. /\ t \in Txs /\ t.cmd = tx[p].cmd /\ t.goal = tx[p].goal
          /\ t.heard = tx[p].heard /\ t.backup = decl /\ t.written = tx[p].written
      BY <3>1, <3>2 DEF Txs
    <3>4. Ready(t, "declare") /\ "declare" \in Stages
      BY <3>1, <3>3, NoneAssumption DEF Ready, Placed, Changing, Stages, PolicySound
    <3> QED
      BY <1>1, <2>2, <3>2, <3>3, <3>4, Quiet
  <2> QED
    BY <1>2, <2>1, <2>2 DEF Backup
<1>3. CASE Verify(p)
  <2>1. PICK place \in {"checkzone", "checkconf", "zonestatus", "dnssec-status"} : At(p, place)
    BY <1>3 DEF Verify, At
  <2>2. tx[p] \in Txs /\ tx[p].at = place /\ Ready(tx[p], place) /\ place \in Undoable
    BY <2>1, Arrived DEF Undoable
  <2>3. CASE Fail(p, tx[p])
    BY <1>1, <2>2, <2>3, FailReady, Quiet
  <2>4. ASSUME NEW next \in {"declare", "reconfig", "dnssec-status", "commit"},
               place = "checkzone" <=> next = "declare", Go(p, tx[p], next)
        PROVE  DnssecInv'
    <3>1. Ready(tx[p], next) /\ next \in Stages
      BY <2>1, <2>2, <2>4 DEF Ready, Placed, Changing, Stages
    <3> QED
      BY <1>1, <2>2, <2>4, <3>1, Quiet
  <2> QED
    BY <1>3, <2>1, <2>2, <2>3, <2>4 DEF Verify, At
<1>4. CASE FileFails(p)
  <2>1. PICK place \in {"backup", "snapshot", "copy-zone", "declare", "commit"} : At(p, place)
    BY <1>4 DEF FileFails, At
  <2>2. tx[p] \in Txs /\ Ready(tx[p], place) /\ place \in Undoable
    BY <2>1, Arrived DEF Undoable
  <2> QED
    BY <1>1, <1>4, <2>2, FailReady, Quiet DEF FileFails
<1>5. CASE UndoFails(p)
  <2>1. PICK place \in {"declare-back", "remove"} : At(p, place)
    BY <1>5 DEF UndoFails
  <2>2. tx[p] \in Txs /\ Ready(tx[p], place)
    BY <2>1, Arrived
  <2>3. PICK t : t = [tx[p] EXCEPT !.ok = FALSE]
    OBVIOUS
  <2>4. /\ t \in Txs /\ t.cmd = tx[p].cmd /\ t.goal = tx[p].goal
        /\ t.heard = tx[p].heard /\ t.backup = tx[p].backup /\ t.written = tx[p].written
    BY <2>2, <2>3 DEF Txs
  <2>5. Ready(t, "rolled-back") /\ "rolled-back" \in Stages
    BY <2>1, <2>2, <2>4 DEF Ready, Placed, Changing, Stages
  <2> QED
    BY <1>1, <1>5, <2>3, <2>4, <2>5, Quiet DEF UndoFails
<1> QED
  BY <1>2, <1>3, <1>4, <1>5

\* The steps that end a command, and the first one of prepare-finalize-serial.
LEMMA EndSound ==
    ASSUME DnssecInv, NEW p \in Procs, UNCHANGED <<parent, edits, issued>>,
           Finish(p) \/ PrepareSerial(p) \/ SerialFails(p) \/ Crash(p)
    PROVE  DnssecInv'
<1>1. UNCHANGED <<bind, world, issued, edits, histories>>
  BY DEF Finish, PrepareSerial, SerialFails, Crash, world
<1>2. CASE End(p)
  BY <1>1, <1>2, Quiet
<1>3. ASSUME NEW n \in Nat, At(p, "served"), Go(p, [tx[p] EXCEPT !.raised = n], "replace")
      PROVE  DnssecInv'
  <2>1. tx[p] \in Txs /\ Ready(tx[p], "served")
    BY <1>3, Arrived
  <2>2. PICK t : t = [tx[p] EXCEPT !.raised = n]
    OBVIOUS
  <2>3. /\ t \in Txs /\ t.cmd = tx[p].cmd /\ t.goal = tx[p].goal
        /\ t.heard = tx[p].heard /\ t.backup = tx[p].backup /\ t.written = tx[p].written
    BY <1>3, <2>1, <2>2 DEF Txs
  <2>4. Ready(t, "replace") /\ "replace" \in Stages
    BY <2>1, <2>3 DEF Ready, Placed, Changing, Stages
  <2> QED
    BY <1>1, <1>3, <2>2, <2>3, <2>4, Quiet
<1>4. CASE PrepareSerial(p) /\ ~End(p)
  <2>1. tx[p] \in Txs /\ files \in [Places -> Nat] /\ named.serial \in Nat
    BY <1>4, Arrived DEF PrepareSerial, DnssecInv, TypeOK, DataOK
  <2>2. Larger(files[tx[p].plan.at], named.serial) + 1 \in Nat
    BY <2>1 DEF Larger, Txs, Decls
  <2> QED
    BY <1>3, <1>4, <2>2 DEF PrepareSerial
<1> QED
  BY <1>2, <1>4 DEF Finish, SerialFails, Crash

\* A step of p that changes more than its place.
LEMMA Moves ==
    ASSUME DnssecInv, NEW p \in Procs, DataOK', KeysSound', PolicySound',
           Safe => Safe', Unpublished => Unpublished',
           NEW t \in Txs, NEW place \in Stages, Go(p, t, place), Ready(t, place)'
    PROVE  DnssecInv'
<1>1. PICK u : u = [t EXCEPT !.at = place]
  OBVIOUS
<1>2. /\ u \in Txs /\ u.at = place
      /\ u.cmd = t.cmd /\ u.goal = t.goal /\ u.heard = t.heard
      /\ u.backup = t.backup /\ u.written = t.written
  BY <1>1 DEF Txs
<1>3. Established(u)'
  BY <1>2 DEF Established, Ready
<1> QED
  BY <1>1, <1>2, <1>3, Others DEF Go

\* The answers of the resolvers.
LEMMA AskSound ==
    ASSUME DnssecInv, NEW p \in Procs, UNCHANGED <<parent, edits, issued>>, Ask(p)
    PROVE  DnssecInv'
<1>1. PICK c \in Resolvers, heard \in {"ds", "no", "error"} :
        /\ cache' = cache \/ cache' = [cache EXCEPT ![c] = Answer(c)]
        /\ tx' = [tx EXCEPT ![p].asked = @ \cup {c}, ![p].heard = @ \cup {heard}]
        /\ fooled' = (fooled \/ (heard = "no" /\ (parent = "published" \/ cache[c] = "ds")))
  <2>1. PICK c \in Resolvers \ tx[p].asked, fault \in {"none", "no-answer", "servfail"} :
          /\ cache' = IF fault = "none" THEN [cache EXCEPT ![c] = Answer(c)] ELSE cache
          /\ LET heard == CASE fault = "none" -> Answer(c)
                            [] fault = "no-answer" -> "error"
                            [] fault = "servfail" -> "no"
             IN /\ tx' = [tx EXCEPT ![p].asked = @ \cup {c}, ![p].heard = @ \cup {heard}]
                /\ fooled' = (fooled \/ (heard = "no" /\ (parent = "published" \/ cache[c] = "ds")))
    BY DEF Ask
  <2>2. c \in Caches /\ Answer(c) \in {"ds", "no"}
    BY DnssecAssumption DEF DnssecInv, TypeOK, DataOK, Answer
  <2>3. CASE fault = "none"
    BY <2>1, <2>2, <2>3
  <2>4. CASE fault = "no-answer"
    BY <2>1, <2>4
  <2>5. CASE fault = "servfail"
    BY <2>1, <2>5
  <2> QED
    BY <2>3, <2>4, <2>5
<1>2. /\ c \in Caches /\ UNCHANGED <<bind, overridden, parent, issued, edits>>
      /\ Answer(c) \in {"ds", "no"} /\ (Answer(c) = "ds" => cache[c] = "ds" \/ parent = "published")
      /\ cache \in [Caches -> {"empty", "ds", "no"}]
  BY DnssecAssumption DEF DnssecInv, TypeOK, DataOK, Answer, Ask
<1>3. cache' \in [Caches -> {"empty", "ds", "no"}] /\ fooled' \in BOOLEAN /\ (fooled => fooled')
  BY <1>1, <1>2 DEF DnssecInv, TypeOK, DataOK
<1>4. parent # "published" => \A d \in Caches : cache'[d] = "ds" => cache[d] = "ds"
  BY <1>1, <1>2
<1>5. DataOK' /\ (Safe => Safe') /\ (Unpublished => Unpublished')
  BY <1>2, <1>3, <1>4 DEF DnssecInv, TypeOK, DataOK, Safe, Unpublished, bind
<1>6. KeysSound' /\ PolicySound'
  BY <1>2, <1>3, <1>4, <1>5 DEF DnssecInv, KeysSound, PolicySound, bind
<1>7. tx[p] \in Txs /\ tx[p].at = "ask" /\ Ready(tx[p], "ask")
  BY Arrived DEF Ask
<1>8. PICK t : t = [tx[p] EXCEPT !.asked = @ \cup {c}, !.heard = @ \cup {heard}]
  OBVIOUS
<1>9. /\ t \in Txs /\ t.at = "ask" /\ t.cmd = tx[p].cmd /\ t.goal = tx[p].goal
      /\ t.heard = tx[p].heard \cup {heard} /\ t.backup = tx[p].backup
      /\ t.written = tx[p].written
  BY <1>1, <1>7, <1>8 DEF Txs
<1>10. tx' = [tx EXCEPT ![p] = t]
  BY <1>1, <1>8 DEF DnssecInv, TypeOK
<1>11. heard = "no" => Unpublished'
  BY <1>1, <1>2 DEF Unpublished
<1>12. Established(t)'
  <2>1. PICK before : before = tx[p]
    OBVIOUS
  <2>2. Ready(before, "ask")'
    BY <1>5, <1>7, <2>1, Lasting
  <2> QED
    BY <1>9, <1>11, <2>1, <2>2 DEF Established, Ready
<1> QED
  BY <1>5, <1>6, <1>9, <1>10, <1>12, Others

\* rndc dnssec -checkds tells the key manager.
LEMMA CheckDsSound ==
    ASSUME DnssecInv, NEW p \in Procs, UNCHANGED <<parent, edits, issued>>, CheckDs(p)
    PROVE  DnssecInv'
<1>1. UNCHANGED <<decl, files, journal, named, world, histories, issued, edits>> /\ End(p)
  BY DEF CheckDs, world
<1>2. (Safe => Safe') /\ (Unpublished => Unpublished') /\ PolicySound'
  BY <1>1 DEF Safe, Unpublished, PolicySound, world, histories, DnssecInv
<1>3. DataOK' /\ KeysSound'
  <2>1. CASE UNCHANGED keys
    BY <1>1, <1>2, <2>1 DEF DnssecInv, TypeOK, DataOK, KeysSound, world, histories
  <2>2. CASE keys # None /\ keys' = [keys EXCEPT !.published = TRUE]
    <3>1. /\ keys \in KeyStates /\ keys' \in KeyStates /\ keys'.ds = keys.ds
          /\ keys'.dnskey = keys.dnskey /\ keys'.withdrawn = keys.withdrawn
          /\ keys'.wait = keys.wait
      BY <2>2 DEF DnssecInv, TypeOK, DataOK, KeyStates
    <3> QED
      BY <1>1, <1>2, <2>2, <3>1, NoneAssumption
      DEF DnssecInv, TypeOK, DataOK, KeysSound, world, histories
  <2>3. CASE At(p, "withdrawn") /\ keys # None
             /\ keys' = [keys EXCEPT !.withdrawn = TRUE, !.wait = {c \in Caches : cache[c] = "ds"}]
    <3>1. /\ keys \in KeyStates /\ keys' \in KeyStates /\ keys'.ds = keys.ds
          /\ keys'.dnskey = keys.dnskey /\ keys'.withdrawn
          /\ keys'.wait = {c \in Caches : cache[c] = "ds"}
      BY <2>3 DEF DnssecInv, TypeOK, DataOK, KeyStates
    <3>2. Unpublished
      BY <2>3, Arrived DEF Ready, Placed
    <3> QED
      BY <1>1, <1>2, <2>3, <3>1, <3>2, NoneAssumption
      DEF DnssecInv, TypeOK, DataOK, KeysSound, Unpublished, world, histories
  <2> QED
    BY <2>1, <2>2, <2>3 DEF CheckDs
<1> QED
  BY <1>1, <1>2, <1>3, Others DEF End

\* The gate of the last stage: the keys are hidden, or the operator overrides.
LEMMA KaspSound ==
    ASSUME DnssecInv, NEW p \in Procs, UNCHANGED <<parent, edits, issued>>, KaspGate(p)
    PROVE  DnssecInv'
<1>1. /\ UNCHANGED <<bind, world, fooled, issued, edits>> /\ overridden' \in BOOLEAN
      /\ overridden => overridden'
  <2>1. overridden' = overridden \/ overridden' = (overridden \/ tx[p].ack)
    BY DEF KaspGate
  <2>2. overridden \in BOOLEAN /\ UNCHANGED <<bind, world, fooled, issued, edits>>
    BY DEF KaspGate, world, DnssecInv, TypeOK, DataOK
  <2>3. overridden' \in BOOLEAN /\ (overridden => overridden')
    <3>1. CASE overridden' = overridden
      BY <2>2, <3>1
    <3>2. CASE overridden' = (overridden \/ tx[p].ack)
      BY <3>2, Zenon
    <3> QED
      BY <2>1, <3>1, <3>2
  <2> QED
    BY <2>2, <2>3
<1>2. /\ (Safe => Safe') /\ (Unpublished => Unpublished') /\ PolicySound' /\ KeysSound' /\ DataOK'
  <2>1. (Safe => Safe') /\ (Unpublished => Unpublished')
    BY <1>1 DEF Safe, Unpublished, world
  <2>2. PolicySound' /\ KeysSound'
    BY <1>1, <2>1 DEF PolicySound, KeysSound, world, bind, DnssecInv
  <2>3. DataOK'
    BY <1>1 DEF world, bind, DnssecInv, TypeOK, DataOK
  <2> QED
    BY <2>1, <2>2, <2>3
<1>3. CASE End(p)
  BY <1>2, <1>3, Others DEF End
<1>4. CASE Go(p, tx[p], "serial-gate") /\ (overridden' \/ Safe)
  <2>1. Safe'
    BY <1>2, <1>4 DEF Safe
  <2>2. PICK t : t = tx[p]
    OBVIOUS
  <2>3. t \in Txs /\ Ready(t, "kasp")
    BY <2>2, Arrived DEF KaspGate
  <2>4. Ready(t, "kasp")'
    BY <1>2, <2>3, Lasting
  <2>5. Ready(t, "serial-gate")' /\ "serial-gate" \in Stages
    BY <2>1, <2>4 DEF Ready, Placed, Stages
  <2> QED
    BY <1>2, <1>4, <2>2, <2>3, <2>5, Moves
<1>5. keys # None /\ AllHidden => Safe
  BY DEF DnssecInv, KeysSound, AllHidden
<1> QED
  BY <1>3, <1>4, <1>5 DEF KaspGate

\* A step that leaves the DS, the caches and the flags alone.
LEMMA Steady ==
    ASSUME UNCHANGED <<world, histories>>
    PROVE  (Safe => Safe') /\ (Unpublished => Unpublished')
  BY DEF Safe, Unpublished, world, histories

\* The zone file and the declaration.
LEMMA FileSound ==
    ASSUME DnssecInv, NEW p \in Procs, UNCHANGED <<parent, edits, issued>>,
           CopyZone(p) \/ ReplaceFile(p) \/ Declare(p) \/ DeclareBack(p)
    PROVE  DnssecInv'
<1>1. UNCHANGED <<keys, journal, named, world, histories, issued, edits>>
  BY DEF CopyZone, ReplaceFile, Declare, DeclareBack, world
<1>2. (Safe => Safe') /\ (Unpublished => Unpublished')
  BY <1>1, Steady
<1>3. KeysSound' /\ (named'.mode = "plain" => Safe')
  BY <1>1, <1>2 DEF KeysSound, PolicySound, DnssecInv, world, histories
<1>4. CASE CopyZone(p)
  <2>1. tx[p] \in Txs /\ Ready(tx[p], "copy-zone") /\ files \in [Places -> Nat]
    BY <1>4, Arrived DEF CopyZone, DnssecInv, TypeOK, DataOK
  <2>2. files' \in [Places -> Nat] /\ decl' = decl
    BY <1>4, <2>1 DEF CopyZone, Places
  <2>3. DataOK' /\ PolicySound'
    BY <1>1, <1>2, <1>3, <2>2 DEF DnssecInv, TypeOK, DataOK, PolicySound, world, histories
  <2>4. PICK t : t = [tx[p] EXCEPT !.copied = TRUE]
    OBVIOUS
  <2>5. /\ t \in Txs /\ t.cmd = tx[p].cmd /\ t.goal = tx[p].goal
        /\ t.heard = tx[p].heard /\ t.backup = tx[p].backup /\ t.written = tx[p].written
    BY <2>1, <2>4 DEF Txs
  <2>6. Ready(t, "checkzone") /\ "checkzone" \in Stages
    BY <2>1, <2>5 DEF Ready, Placed, Changing, Stages
  <2>7. Ready(t, "checkzone")'
    BY <1>2, <2>6, Lasting
  <2> QED
    BY <1>2, <1>3, <1>4, <2>3, <2>4, <2>5, <2>6, <2>7, Moves DEF CopyZone
<1>5. CASE ReplaceFile(p)
  <2>1. tx[p] \in Txs /\ files \in [Places -> Nat]
    BY <1>5, Arrived DEF ReplaceFile, DnssecInv, TypeOK, DataOK
  <2>2. files' \in [Places -> Nat] /\ decl' = decl
    BY <1>5, <2>1 DEF ReplaceFile, Txs
  <2>3. DataOK' /\ PolicySound'
    BY <1>1, <1>2, <1>3, <2>2 DEF DnssecInv, TypeOK, DataOK, PolicySound, world, histories
  <2> QED
    BY <1>2, <1>3, <1>5, <2>3, Others DEF ReplaceFile, End
<1>6. CASE Declare(p)
  <2>1. tx[p] \in Txs /\ Ready(tx[p], "declare")
    BY <1>6, Arrived DEF Declare
  <2>2. tx[p].goal.mode = "plain" => Safe
    BY <2>1 DEF Ready, Placed, Stages, Changing
  <2>3. DataOK' /\ PolicySound'
    BY <1>1, <1>2, <1>3, <1>6, <2>1, <2>2
    DEF Declare, Txs, DnssecInv, TypeOK, DataOK, PolicySound, world, histories
  <2>4. PICK t : t = [tx[p] EXCEPT !.written = TRUE]
    OBVIOUS
  <2>5. /\ t \in Txs /\ t.cmd = tx[p].cmd /\ t.goal = tx[p].goal
        /\ t.heard = tx[p].heard /\ t.backup = tx[p].backup
    BY <2>1, <2>4 DEF Txs
  <2>6. Ready(t, "checkconf") /\ "checkconf" \in Stages
    BY <2>1, <2>5 DEF Ready, Placed, Changing, Stages
  <2>7. Ready(t, "checkconf")'
    BY <1>2, <2>6, Lasting
  <2> QED
    BY <1>2, <1>3, <1>6, <2>3, <2>4, <2>5, <2>6, <2>7, Moves DEF Declare
<1>7. CASE DeclareBack(p)
  <2>1. PICK t : t = tx[p]
    OBVIOUS
  <2>2. t \in Txs /\ Ready(t, "declare-back")
    BY <1>7, <2>1, Arrived DEF DeclareBack
  <2>3. t.backup \in Decls /\ (t.backup.mode = "plain" => Safe)
    BY <2>2 DEF Ready, Txs
  <2>4. DataOK' /\ PolicySound'
    BY <1>1, <1>2, <1>3, <1>7, <2>1, <2>3
    DEF DeclareBack, DnssecInv, TypeOK, DataOK, PolicySound, world, histories
  <2>5. Ready(t, UndoNamed(t)) /\ UndoNamed(t) \in Stages
    BY <2>2, UndoReady DEF Undoable
  <2>6. PICK place : place = UndoNamed(t)
    OBVIOUS
  <2>7. Ready(t, place)'
    BY <1>2, <2>5, <2>6, Lasting
  <2> QED
    BY <1>2, <1>3, <1>7, <2>1, <2>2, <2>4, <2>5, <2>6, <2>7, Moves DEF DeclareBack
<1> QED
  BY <1>4, <1>5, <1>6, <1>7

\* Larger returns one of its arguments.
LEMMA LargerIsNat ==
    ASSUME NEW m \in Nat, NEW n \in Nat
    PROVE  Larger(m, n) \in Nat
  BY DEF Larger

\* rndc reconfig: named takes over the declaration and the goal of the keys.
LEMMA ReloadSound ==
    ASSUME DnssecInv, Reloads, UNCHANGED <<world, histories, issued, edits>>
    PROVE  DataOK' /\ KeysSound' /\ PolicySound' /\ (Safe => Safe') /\ (Unpublished => Unpublished')
<1>1. (Safe => Safe') /\ (Unpublished => Unpublished')
  BY Steady
<1>2. /\ decl \in Decls /\ files \in [Places -> Nat] /\ journal \in Nat
      /\ named \in [mode : Modes, at : Places, serial : Nat]
      /\ keys \in KeyStates \cup {None}
  BY DEF DnssecInv, TypeOK, DataOK
<1>3. Loaded \in [mode : Modes, at : Places, serial : Nat] /\ Loaded.mode = decl.mode
  <2>0. decl.at \in Places /\ journal + 1 \in Nat
    BY <1>2 DEF Decls
  <2>1. SourceSerial \in Nat
    BY <1>2, <2>0 DEF SourceSerial
  <2>2. Larger(SourceSerial, journal + 1) \in Nat
    BY <2>0, <2>1, LargerIsNat
  <2> QED
    BY <1>2, <2>0, <2>1, <2>2 DEF Loaded, Decls
<1>4. named' = Loaded /\ journal' \in Nat /\ UNCHANGED <<decl, files>>
  BY <1>2, <1>3, LargerIsNat DEF Reloads
<1>5. PolicySound'
  BY <1>1, <1>3, <1>4 DEF PolicySound, DnssecInv
<1>6. CASE keys = None
  <2>1. keys' = None
    BY <1>6 DEF Reloads
  <2> QED
    BY <1>1, <1>3, <1>4, <1>5, <1>6, <2>1
    DEF DnssecInv, TypeOK, DataOK, KeysSound, world, histories
<1>7. CASE keys # None
  <2>1. keys \in KeyStates
    BY <1>2, <1>7
  <2>2. /\ keys' \in KeyStates /\ keys'.ds = keys.ds /\ keys'.dnskey = keys.dnskey
        /\ keys'.withdrawn = keys.withdrawn /\ keys'.wait = keys.wait
    BY <1>7, <2>1 DEF Reloads, KeyStates
  <2>3. DataOK'
    BY <1>3, <1>4, <2>2 DEF DnssecInv, TypeOK, DataOK, world, histories
  <2>4. KeysSound'
    BY <1>1, <1>7, <2>2, NoneAssumption DEF DnssecInv, KeysSound, world, histories
  <2> QED
    BY <1>1, <1>5, <2>3, <2>4
<1> QED
  BY <1>6, <1>7, <1>1, <1>5

\* What rndc reconfig does, forwards and backwards, and when it fails.
LEMMA ReconfigSound ==
    ASSUME DnssecInv, NEW p \in Procs, UNCHANGED <<parent, edits, issued>>,
           Reconfig(p) \/ ReconfigFails(p)
    PROVE  DnssecInv'
<1>1. UNCHANGED <<world, histories, issued, edits>> /\ (Reloads \/ UNCHANGED bind)
  BY DEF Reconfig, ReconfigFails, world
<1>2. DataOK' /\ KeysSound' /\ PolicySound' /\ (Safe => Safe') /\ (Unpublished => Unpublished')
  <2>1. CASE Reloads
    BY <1>1, <2>1, ReloadSound
  <2>2. CASE UNCHANGED bind
    <3>1. (Safe => Safe') /\ (Unpublished => Unpublished')
      BY <1>1, Steady
    <3> QED
      BY <1>1, <2>2, <3>1
      DEF DnssecInv, TypeOK, DataOK, KeysSound, PolicySound, bind, world, histories
  <2> QED
    BY <1>1, <2>1, <2>2
<1>3. ASSUME NEW t \in Txs, NEW place \in Stages, Go(p, t, place), Ready(t, place)
      PROVE  DnssecInv'
  <2>1. Ready(t, place)'
    BY <1>2, <1>3, Lasting
  <2> QED
    BY <1>2, <1>3, <2>1, Moves
<1>4. CASE At(p, "reconfig")
  <2>1. tx[p] \in Txs /\ Ready(tx[p], "reconfig")
    BY <1>4, Arrived
  <2>2. PICK t : t = [tx[p] EXCEPT !.told = TRUE]
    OBVIOUS
  <2>3. /\ t \in Txs /\ t.cmd = tx[p].cmd /\ t.goal = tx[p].goal
        /\ t.heard = tx[p].heard /\ t.backup = tx[p].backup /\ t.written = tx[p].written
    BY <2>1, <2>2 DEF Txs
  <2>4. Ready(t, "reconfig") /\ "reconfig" \in Undoable
    BY <2>1, <2>3 DEF Ready, Undoable
  <2>5. CASE Go(p, t, "zonestatus")
    <3>1. Ready(t, "zonestatus") /\ "zonestatus" \in Stages
      BY <2>4 DEF Ready, Placed, Changing, Stages
    <3> QED
      BY <1>3, <2>3, <2>5, <3>1
  <2>6. CASE Fail(p, t)
    BY <1>3, <2>3, <2>4, <2>6, FailReady
  <2> QED
    BY <1>4, <2>2, <2>5, <2>6 DEF Reconfig, ReconfigFails, At
<1>5. CASE At(p, "undo-reconfig")
  <2>1. tx[p] \in Txs /\ Ready(tx[p], "undo-reconfig")
    BY <1>5, Arrived
  <2>2. PICK t : t = [tx[p] EXCEPT !.ok = FALSE]
    OBVIOUS
  <2>3. /\ t \in Txs /\ t.cmd = tx[p].cmd /\ t.goal = tx[p].goal
        /\ t.heard = tx[p].heard /\ t.backup = tx[p].backup /\ t.written = tx[p].written
    BY <2>1, <2>2 DEF Txs
  <2>4. Ready(t, "undo-reconfig") /\ "undo-reconfig" \in Undoable /\ UndoFiles(t) = UndoFiles(tx[p])
    BY <2>1, <2>3 DEF Ready, Undoable, UndoFiles
  <2>5. /\ Ready(t, UndoFiles(t)) /\ UndoFiles(t) \in Stages
        /\ Ready(tx[p], UndoFiles(tx[p])) /\ UndoFiles(tx[p]) \in Stages
    BY <2>1, <2>3, <2>4, UndoReady
  <2>6. CASE Go(p, tx[p], UndoFiles(tx[p]))
    BY <1>3, <2>1, <2>5, <2>6
  <2>7. CASE Go(p, t, UndoFiles(t))
    BY <1>3, <2>3, <2>5, <2>7
  <2> QED
    BY <1>5, <2>2, <2>4, <2>6, <2>7 DEF Reconfig, ReconfigFails, At
<1> QED
  BY <1>4, <1>5 DEF Reconfig, ReconfigFails

\* The rollback of enable removes keys nobody can need: no DS is published.
LEMMA RemoveSound ==
    ASSUME DnssecInv, NEW p \in Procs, UNCHANGED <<parent, edits, issued>>, Remove(p)
    PROVE  DnssecInv'
<1>1. UNCHANGED <<decl, named, world, histories, issued, edits>>
  BY DEF Remove, world
<1>2. (Safe => Safe') /\ (Unpublished => Unpublished')
  BY <1>1, Steady
<1>3. PICK t : t = tx[p]
  OBVIOUS
<1>4. t \in Txs /\ Ready(t, "remove") /\ t.cmd = "enable" /\ Safe
  BY <1>3, Arrived DEF Remove, Ready, Placed
<1>5. /\ files' \in [Places -> Nat] /\ journal' \in Nat
      /\ keys' = keys \/ keys' = None
  BY DEF Remove, DnssecInv, TypeOK, DataOK, Places
<1>6. DataOK' /\ PolicySound'
  BY <1>1, <1>2, <1>5 DEF DnssecInv, TypeOK, DataOK, PolicySound, world, histories
<1>7. KeysSound'
  BY <1>1, <1>2, <1>4, <1>5 DEF DnssecInv, KeysSound, world, histories
<1>8. Ready(t, "rolled-back") /\ "rolled-back" \in Stages
  BY <1>4 DEF Ready, Placed, Changing, Stages
<1>9. Ready(t, "rolled-back")'
  BY <1>2, <1>8, Lasting
<1> QED
  BY <1>2, <1>3, <1>4, <1>6, <1>7, <1>8, <1>9, Moves DEF Remove

\* The invariant survives any one step of a running command: one lemma for each kind of step.
LEMMA StepSound ==
    ASSUME DnssecInv, NEW p \in Procs, Step(p)
    PROVE  DnssecInv'
<1>1. UNCHANGED <<parent, edits, issued>>
  BY DEF Step
<1> QED
  BY <1>1, GateSound, CheckSound, EndSound, AskSound, CheckDsSound, KaspSound, FileSound,
     ReconfigSound, RemoveSound DEF Step

\* A command that starts has established nothing, and does not disturb others.
LEMMA StartSound ==
    ASSUME DnssecInv, NEW p \in Procs, Start(p)
    PROVE  DnssecInv'
<1>1. UNCHANGED <<bind, world, edits, histories>> /\ issued' \in Nat
  BY DEF Start, DnssecInv, TypeOK, DataOK
<1>2. (Safe => Safe') /\ (Unpublished => Unpublished')
  BY <1>1, Steady
<1>3. DataOK' /\ KeysSound' /\ PolicySound'
  BY <1>1, <1>2 DEF DnssecInv, TypeOK, DataOK, KeysSound, PolicySound, bind, world, histories
<1>4. PICK cmd \in Commands, ack \in BOOLEAN, activate \in BOOLEAN :
        tx' = [q \in Procs |->
                IF q = p THEN NewTx(cmd, ack, activate)
                ELSE IF Running(q) THEN [tx[q] EXCEPT !.alone = FALSE] ELSE tx[q]]
  BY DEF Start, Begin, EnableCommand, ConfirmCommand, WithdrawalCommand, SerialCommand,
         DisableCommand
<1>5. PICK t : t = NewTx(cmd, ack, activate)
  OBVIOUS
<1>6. t \in Txs /\ Established(t)
  <2>1. cmd \in Changing \cup {"confirm", "withdraw", "serial"} /\ decl \in Decls
    BY DnssecAssumption DEF Changing, DnssecInv, TypeOK, DataOK
  <2>2. Goal(cmd) \in Decls /\ (cmd \in {"enable", "insecure"} => Goal(cmd).mode # "plain")
    BY <2>1 DEF Goal, Decls, Modes, Places
  <2>3. First(cmd) \in Stages /\ Placed(cmd, First(cmd))
        /\ (cmd = "enable" \/ cmd = "finalize" => First(cmd) = "preflight")
        /\ First(cmd) \in {"preflight", "ask", "served"}
    BY <2>1 DEF First, Changing, Stages, Placed
  <2>4. t \in Txs
    BY <1>5, <2>1, <2>2, <2>3 DEF NewTx, Txs
  <2>5. /\ t.cmd = cmd /\ t.goal = Goal(cmd) /\ t.heard = {} /\ t.backup = None
        /\ t.written = FALSE /\ t.at = First(cmd)
    BY <1>5 DEF NewTx
  <2> QED
    BY <2>2, <2>3, <2>4, <2>5 DEF Established, Ready
<1>7. ASSUME NEW q \in Procs
      PROVE  /\ tx'[q] \in Txs \cup {None}
             /\ Running(q)' => Established(tx[q])'
  <2>1. CASE q = p
    <3>1. Established(t)'
      BY <1>2, <1>6, Lasting DEF Established
    <3> QED
      BY <1>4, <1>5, <1>6, <2>1, <3>1
  <2>2. CASE q # p /\ ~Running(q)
    BY <1>4, <2>2 DEF Running
  <2>3. CASE q # p /\ Running(q)
    <3>1. PICK u : u = [tx[q] EXCEPT !.alone = FALSE]
      OBVIOUS
    <3>2. tx[q] \in Txs /\ Established(tx[q])
      BY <2>3 DEF Running, DnssecInv, TypeOK
    <3>3. /\ u \in Txs /\ u.at = tx[q].at /\ u.cmd = tx[q].cmd /\ u.goal = tx[q].goal
          /\ u.heard = tx[q].heard /\ u.backup = tx[q].backup /\ u.written = tx[q].written
      BY <3>1, <3>2 DEF Txs
    <3>4. Established(u)
      BY <3>2, <3>3 DEF Established, Ready
    <3>5. Established(u)'
      BY <1>2, <3>4, Lasting DEF Established
    <3> QED
      BY <1>4, <2>3, <3>1, <3>3, <3>5
  <2> QED
    BY <2>1, <2>2, <2>3
<1> QED
  BY <1>3, <1>4, <1>7 DEF DnssecInv, TypeOK

\* A step of the surroundings that keeps a zone safe.
LEMMA Around ==
    ASSUME DnssecInv, UNCHANGED tx, DataOK', KeysSound', PolicySound',
           Safe => Safe', Unpublished => Unpublished'
    PROVE  DnssecInv'
<1>1. ASSUME NEW q \in Procs, Running(q)' PROVE Established(tx[q])'
  <2>1. PICK t : t = tx[q]
    OBVIOUS
  <2>2. Established(t)
    BY <1>1, <2>1 DEF DnssecInv, Running
  <2>3. Established(t)'
    BY <2>2, Lasting DEF Established
  <2> QED
    BY <2>1, <2>3
<1> QED
  BY <1>1 DEF DnssecInv, TypeOK

\* The key manager: it hides the DS only when it was withdrawn everywhere.
LEMMA KeySound ==
    ASSUME DnssecInv, UNCHANGED <<tx, issued, histories, world, edits>>,
           GenerateKeys \/ KeyAppears \/ KeyGoes
    PROVE  DnssecInv'
<1>1. (Safe => Safe') /\ (Unpublished => Unpublished')
  BY Steady
<1>2. /\ named \in [mode : Modes, at : Places, serial : Nat] /\ journal \in Nat
      /\ keys \in KeyStates \cup {None}
  BY DEF DnssecInv, TypeOK, DataOK
<1>3. Bump(1) => named' \in [mode : Modes, at : Places, serial : Nat] /\ journal' \in Nat
                 /\ named'.mode = named.mode
  BY <1>2, LargerIsNat DEF Bump
<1>4. /\ named' \in [mode : Modes, at : Places, serial : Nat] /\ journal' \in Nat
      /\ named'.mode = named.mode /\ UNCHANGED <<decl, files>>
  BY <1>2, <1>3 DEF GenerateKeys, KeyAppears, KeyGoes
<1>5. PolicySound'
  BY <1>1, <1>4 DEF DnssecInv, PolicySound
<1>6. keys' \in KeyStates /\ KeysSound'
  <2>1. CASE GenerateKeys
    <3>1. Safe /\ keys' = NewKeys
      BY <2>1 DEF GenerateKeys, DnssecInv, KeysSound
    <3>2. NewKeys \in KeyStates
      BY DEF NewKeys, KeyStates
    <3> QED
      BY <1>1, <3>1, <3>2, NoneAssumption DEF KeysSound, NewKeys
  <2>2. CASE KeyAppears
    <3>1. keys \in KeyStates
      BY <1>2, <2>2 DEF KeyAppears
    <3>2. \/ /\ keys.dnskey \in {"hidden", "rumoured"} /\ keys.ds = "hidden"
             /\ keys' = [keys EXCEPT !.dnskey = "omnipresent", !.ds = "rumoured"]
          \/ keys.ds = "rumoured" /\ keys' = [keys EXCEPT !.ds = "omnipresent"]
          \/ keys.ds = "unretentive" /\ keys' = [keys EXCEPT !.ds = "rumoured"]
      BY <2>2 DEF KeyAppears
    <3>3. /\ keys' \in KeyStates /\ keys'.ds # "hidden" /\ keys'.withdrawn = keys.withdrawn
          /\ keys'.wait = keys.wait /\ (keys.ds # "hidden" => keys'.dnskey = keys.dnskey)
          /\ (keys.ds = "hidden" => keys'.dnskey = "omnipresent")
      BY <3>1, <3>2 DEF KeyStates
    <3> QED
      BY <2>2, <3>3, NoneAssumption DEF DnssecInv, KeysSound, KeyAppears, world, histories
  <2>3. CASE KeyGoes
    <3>1. keys \in KeyStates /\ keys # None
      BY <1>2, <2>3 DEF KeyGoes
    <3>2. \/ keys.ds \in {"rumoured", "omnipresent"} /\ keys' = [keys EXCEPT !.ds = "unretentive"]
          \/ /\ keys.ds = "unretentive" /\ keys.withdrawn /\ keys.wait = {}
             /\ keys' = [keys EXCEPT !.ds = "hidden"]
          \/ keys.ds = "hidden" /\ keys' = [keys EXCEPT !.dnskey = "hidden"]
      BY <2>3 DEF KeyGoes
    <3>3. /\ keys' \in KeyStates /\ keys'.withdrawn = keys.withdrawn /\ keys'.wait = keys.wait
          /\ keys.ds # "hidden" => keys'.dnskey = keys.dnskey
          /\ keys.ds = "hidden" => keys'.ds = "hidden" /\ keys'.dnskey = "hidden"
          /\ keys.ds # "hidden" /\ keys'.ds = "hidden" => keys.withdrawn /\ keys.wait = {}
      BY <3>1, <3>2 DEF KeyStates
    <3>4. keys.withdrawn /\ keys.wait = {} => Safe
      BY <3>1 DEF DnssecInv, KeysSound, Safe
    <3> QED
      BY <1>1, <3>1, <3>3, <3>4, NoneAssumption DEF DnssecInv, KeysSound, world, histories
  <2> QED
    BY <2>1, <2>2, <2>3
<1>7. DataOK'
  BY <1>4, <1>6 DEF DnssecInv, TypeOK, DataOK, world, histories
<1> QED
  BY <1>1, <1>5, <1>6, <1>7, Around

\* The registrar publishes the DS only while nothing needs its absence.
LEMMA ParentSound ==
    ASSUME DnssecInv, UNCHANGED <<tx, issued, histories, bind, cache, edits>>,
           PublishDs \/ RemoveDs
    PROVE  DnssecInv'
<1>1. DataOK'
  BY DEF DnssecInv, TypeOK, DataOK, bind, histories, PublishDs, RemoveDs
<1>2. CASE RemoveDs
  <2>1. (Safe => Safe') /\ (Unpublished => Unpublished')
    BY <1>2 DEF RemoveDs, Safe, Unpublished, histories
  <2>2. KeysSound' /\ PolicySound'
    BY <1>2, <2>1 DEF RemoveDs, DnssecInv, KeysSound, PolicySound, bind, histories
  <2> QED
    BY <1>1, <2>1, <2>2, Around
<1>3. CASE PublishDs
  <2>1. /\ keys # None /\ keys.dnskey = "omnipresent" /\ ~keys.withdrawn
        /\ decl.mode # "plain" /\ named.mode # "plain"
    <3>1. decl.mode \in Modes
      BY DEF DnssecInv, TypeOK, DataOK, Decls
    <3>2. ~ReportFails /\ Stage = "READY_FOR_DS" /\ ~keys.withdrawn
      BY <1>3 DEF PublishDs, Publishable, Stage
    <3>3. decl.mode = "signed" /\ keys.dnskey = "omnipresent"
      BY <3>1, <3>2 DEF Stage, Modes
    <3> QED
      BY <3>2, <3>3 DEF ReportFails, Signed
  <2>2. keys.ds # "hidden"
    BY <2>1 DEF DnssecInv, KeysSound
  <2>3. KeysSound' /\ PolicySound'
    BY <2>1, <2>2 DEF KeysSound, PolicySound, bind
  <2>4. ASSUME NEW q \in Procs, Running(q)' PROVE Established(tx[q])'
    <3>1. PICK t : t = tx[q]
      OBVIOUS
    <3>2. Established(t) /\ t.cmd \notin Changing \cup {"withdraw"}
      BY <1>3, <2>4, <3>1 DEF PublishDs, RunningIn, Running, DnssecInv
    <3>3. t.backup = None
      BY <3>2 DEF Established, Ready
    <3>4. Placed(t.cmd, t.at)'
      BY <3>2 DEF Established, Ready, Placed, Changing, Stages
    <3>5. Established(t)'
      BY <3>2, <3>3, <3>4 DEF Established, Ready, Changing
    <3> QED
      BY <3>1, <3>5
  <2> QED
    BY <1>1, <2>3, <2>4 DEF DnssecInv, TypeOK
<1> QED
  BY <1>2, <1>3

\* The caches of the resolvers.
LEMMA CacheSound ==
    ASSUME DnssecInv, UNCHANGED <<tx, issued, histories, decl, files, journal, named, parent, edits>>,
           NEW c \in Caches, (Query(c) /\ UNCHANGED bind) \/ Expire(c)
    PROVE  DnssecInv'
<1>1. /\ cache' \in [Caches -> {"empty", "ds", "no"}]
      /\ parent # "published" => \A d \in Caches : cache'[d] = "ds" => cache[d] = "ds"
  BY DEF DnssecInv, TypeOK, DataOK, Query, Expire, Answer
<1>2. (Safe => Safe') /\ (Unpublished => Unpublished')
  BY <1>1 DEF Safe, Unpublished, histories
<1>3. PolicySound'
  BY <1>2 DEF DnssecInv, PolicySound
<1>4. CASE Query(c) /\ UNCHANGED bind
  <2>1. KeysSound' /\ DataOK'
    BY <1>1, <1>2, <1>4 DEF DnssecInv, TypeOK, DataOK, KeysSound, bind, histories
  <2> QED
    BY <1>2, <1>3, <2>1, Around
<1>5. CASE Expire(c) /\ keys = None
  <2>1. KeysSound' /\ DataOK'
    BY <1>1, <1>2, <1>5 DEF DnssecInv, TypeOK, DataOK, KeysSound, Expire, histories
  <2> QED
    BY <1>2, <1>3, <2>1, Around
<1>6. CASE Expire(c) /\ keys # None
  <2>1. /\ keys \in KeyStates /\ keys' \in KeyStates /\ keys'.ds = keys.ds
        /\ keys'.dnskey = keys.dnskey /\ keys'.withdrawn = keys.withdrawn
        /\ keys'.wait = keys.wait \ {c}
    BY <1>6 DEF DnssecInv, TypeOK, DataOK, Expire, KeyStates
  <2>2. cache'[c] # "ds"
    BY <1>6 DEF Expire, DnssecInv, TypeOK, DataOK
  <2>3. KeysSound'
    BY <1>1, <1>2, <1>6, <2>1, <2>2, NoneAssumption DEF DnssecInv, KeysSound, histories
  <2>4. DataOK'
    BY <1>1, <2>1 DEF DnssecInv, TypeOK, DataOK, histories
  <2> QED
    BY <1>2, <1>3, <2>3, <2>4, Around
<1> QED
  BY <1>4, <1>5, <1>6

\* The editor raises serials and nothing else.
LEMMA SaveSound ==
    ASSUME DnssecInv, UNCHANGED <<tx, issued, histories, world>>, SaveZone
    PROVE  DnssecInv'
<1>1. (Safe => Safe') /\ (Unpublished => Unpublished')
  BY Steady
<1>2. /\ named \in [mode : Modes, at : Places, serial : Nat] /\ journal \in Nat
      /\ files \in [Places -> Nat] /\ decl.at \in Places /\ edits \in Nat
  BY DEF DnssecInv, TypeOK, DataOK, Decls
<1>3. PICK serial \in Nat : serial = files[decl.at] + 1
  BY <1>2
<1>4. /\ UNCHANGED <<decl, keys>> /\ files' \in [Places -> Nat] /\ edits' \in Nat
  BY <1>2 DEF SaveZone
<1>5. \A n \in Nat : Bump(n) =>
        /\ named' \in [mode : Modes, at : Places, serial : Nat] /\ journal' \in Nat
        /\ named'.mode = named.mode
  BY <1>2, LargerIsNat DEF Bump
<1>6. /\ named' \in [mode : Modes, at : Places, serial : Nat] /\ journal' \in Nat
      /\ named'.mode = named.mode
  <2>1. (IF serial > named.serial THEN serial - named.serial ELSE 1) \in Nat
    BY <1>2, <1>3
  <2> QED
    BY <1>2, <1>3, <1>5, <2>1 DEF SaveZone
<1>7. DataOK'
  BY <1>4, <1>6 DEF DnssecInv, TypeOK, DataOK, world, histories
<1>8. KeysSound' /\ PolicySound'
  BY <1>1, <1>4, <1>6 DEF DnssecInv, KeysSound, PolicySound, world, histories
<1> QED
  BY <1>1, <1>7, <1>8, Around

\* The invariant survives every step: a command starting or going on, BIND's key maintenance, the
\* parent's DS record, resolvers' caches, an edit of the zone, and stuttering.
LEMMA Inductive ==
    DnssecInv /\ [Next]_vars => DnssecInv'
<1> SUFFICES ASSUME DnssecInv, [Next]_vars PROVE DnssecInv'
  OBVIOUS
<1>1. CASE \E p \in Procs : Start(p) \/ Step(p)
  BY <1>1, StartSound, StepSound
<1>2. CASE Surroundings /\ UNCHANGED <<tx, issued, histories>>
  <2>1. CASE (GenerateKeys \/ KeyAppears \/ KeyGoes) /\ UNCHANGED <<world, edits>>
    BY <1>2, <2>1, KeySound
  <2>2. CASE (PublishDs \/ RemoveDs) /\ UNCHANGED <<bind, cache, edits>>
    BY <1>2, <2>2, ParentSound
  <2>3. ASSUME NEW c \in Caches, UNCHANGED <<parent, edits>>,
               \/ Query(c) /\ UNCHANGED bind
               \/ Expire(c) /\ UNCHANGED <<decl, files, journal, named>>
        PROVE  DnssecInv'
    <3>1. UNCHANGED <<tx, issued, histories, decl, files, journal, named, parent, edits>>
      BY <1>2, <2>3 DEF bind
    <3> QED
      BY <2>3, <3>1, CacheSound
  <2>4. CASE SaveZone /\ UNCHANGED world
    BY <1>2, <2>4, SaveSound
  <2> QED
    BY <1>2, <2>1, <2>2, <2>3, <2>4 DEF Surroundings
<1>3. CASE UNCHANGED vars
  <2>1. (Safe => Safe') /\ (Unpublished => Unpublished')
    BY <1>3, Steady DEF vars
  <2>2. DataOK' /\ KeysSound' /\ PolicySound'
    BY <1>3, <2>1 DEF DnssecInv, TypeOK, DataOK, KeysSound, PolicySound, vars, bind, world, histories
  <2> QED
    BY <1>3, <2>1, <2>2, Around DEF vars
<1> QED
  BY <1>1, <1>2, <1>3 DEF Next

\* The inductive invariant holds in every state.
THEOREM DnssecInvariant == Spec => []DnssecInv
  BY Initially, Inductive, PTL DEF Spec

\* The types of the variables, for every value of the constants.
THEOREM TypeCorrect == Spec => []TypeOK
<1>1. DnssecInv => TypeOK
  BY DEF DnssecInv
<1> QED
  BY <1>1, DnssecInvariant, PTL

\* As long as a resolver holds the DS, the zone is served signed, unless an
\* operator overrode an unread state or a resolver denied what it should know
\* (the gates of dnssec_withdrawal_confirm.py and dnssec_disable_transaction.py).
THEOREM ServedSigned == Spec => []NeverBogus
<1>1. DnssecInv => NeverBogus
  <2> SUFFICES ASSUME DnssecInv, NEW c \in Caches, cache[c] = "ds", ~overridden, ~fooled
               PROVE  Signed
    BY DEF NeverBogus
  <2>1. ~Safe
    BY DEF Safe
  <2>2. named.mode # "plain" /\ keys # None
    BY <2>1 DEF DnssecInv, PolicySound, KeysSound
  <2>3. keys.ds # "hidden"
    BY <2>1, <2>2 DEF DnssecInv, KeysSound
  <2> QED
    BY <2>2, <2>3 DEF DnssecInv, KeysSound, Signed
<1> QED
  BY <1>1, DnssecInvariant, PTL

(* A command that runs alone ***********************************************)

Unwritten == {"preflight", "ask", "kasp", "serial-gate", "snapshot", "backup", "copy-zone",
              "checkzone", "declare"}
Written == {"checkconf", "reconfig", "zonestatus", "dnssec-status", "commit"}
Undone == {"undo-reconfig", "remove", "rolled-back"}
Gated == {"backup", "declare", "checkconf", "reconfig"}

\* The declaration: the planned one until the command writes its own, and again
\* once the rollback has put it back.
DeclKept(t, place) ==
    /\ t.backup \in {None, t.plan}
    /\ ~t.written => decl = t.plan /\ ~t.told
    /\ place \in Unwritten => ~t.written
    /\ place \in Written => t.written /\ decl = t.goal
    /\ place = "declare-back" => t.written
    /\ place \in Undone /\ t.ok => decl = t.plan

\* What named runs once it was told of the declaration that is back.
NamedKept(t, place) ==
    place \in {"remove", "rolled-back"} /\ t.ok /\ t.told
        => named.mode = decl.mode /\ named.at = decl.at

\* What enable finds and leaves at its target.
FilesKept(t, place) ==
    t.cmd = "enable" =>
        /\ place # "backup" /\ t.plan = [mode |-> "plain", at |-> "source"]
        /\ t.written \/ place \in {"checkzone", "declare"} => t.copied
        /\ ~t.copied /\ place # "preflight" => files["target"] = 0
        /\ place = "rolled-back" /\ t.ok =>
              /\ files["target"] = 0
              /\ named.mode = "plain" => Beside \subseteq t.found

\* What finalize has checked: the keys are gone and can bring no new serial, the
\* file is ahead of the zone that is served until somebody edits it.
KeysGone == keys # None /\ AllHidden
Ahead == SourceSerial > named.serial

SerialKept(t, place) ==
    t.cmd = "finalize" =>
        /\ t.goal.mode = "plain" /\ t.goal.at = t.plan.at
        /\ place \in Gated \cup {"serial-gate"} => overridden \/ KeysGone
        /\ place \in Gated => t.gate <= edits /\ (t.gate = edits => overridden \/ Ahead)

Kept(t, place) ==
    DeclKept(t, place) /\ NamedKept(t, place) /\ FilesKept(t, place) /\ SerialKept(t, place)

Alone(t) == t.alone /\ t.cmd \in Changing

\* A command that was alone from its beginning is, and keeps what it found.
SoloInv ==
    \A p \in Procs : Running(p) /\ tx[p].alone =>
        /\ \A q \in Procs \ {p} : ~Running(q)
        /\ Alone(tx[p]) => Kept(tx[p], tx[p].at)

\* The invariant survives a step of p that leaves the other commands alone.
LEMMA SoloStep ==
    ASSUME DnssecInv, SoloInv, NEW p \in Procs, Running(p),
           \A q \in Procs \ {p} : tx'[q] = tx[q],
           Running(p)' /\ tx'[p].alone =>
               tx[p].alone /\ (Alone(tx[p])' => Kept(tx[p], tx[p].at)')
    PROVE  SoloInv'
<1> SUFFICES ASSUME NEW q \in Procs, Running(q)', tx'[q].alone
             PROVE  /\ \A r \in Procs \ {q} : ~Running(r)'
                    /\ Alone(tx[q])' => Kept(tx[q], tx[q].at)'
  BY DEF SoloInv
<1>1. q = p
  BY DEF SoloInv, Running
<1>2. tx[p].alone /\ (Alone(tx[p])' => Kept(tx[p], tx[p].at)')
  BY <1>1
<1>3. \A r \in Procs \ {p} : ~Running(r)'
  BY <1>2 DEF SoloInv, Running
<1> QED
  BY <1>1, <1>2, <1>3

\* A command that goes on keeps what it found.
LEMMA SoloGoes ==
    ASSUME DnssecInv, SoloInv, NEW p \in Procs, Running(p),
           NEW t \in Txs, NEW place \in Stages, Go(p, t, place),
           t.alone => tx[p].alone, Alone(t) => Kept(t, place)'
    PROVE  SoloInv'
<1>1. PICK u : u = [t EXCEPT !.at = place]
  OBVIOUS
<1>2. /\ u.at = place /\ u.alone = t.alone /\ u.cmd = t.cmd /\ u.backup = t.backup
      /\ u.plan = t.plan /\ u.goal = t.goal /\ u.written = t.written /\ u.told = t.told
      /\ u.ok = t.ok /\ u.copied = t.copied /\ u.found = t.found /\ u.gate = t.gate
  BY <1>1 DEF Txs
<1>3. tx' = [tx EXCEPT ![p] = u] /\ tx \in [Procs -> Txs \cup {None}]
  BY <1>1 DEF Go, DnssecInv, TypeOK
<1>4. Alone(t) => Kept(u, place)'
  BY <1>2 DEF Kept, DeclKept, NamedKept, FilesKept, SerialKept
<1>5. tx'[p] = u /\ \A q \in Procs \ {p} : tx'[q] = tx[q]
  BY <1>3
<1>6. tx'[p].alone => tx[p].alone /\ (Alone(tx[p])' => Kept(tx[p], tx[p].at)')
  <2>1. Alone(u) => Alone(t)
    BY <1>2 DEF Alone
  <2> QED
    BY <1>2, <1>4, <1>5, <2>1 DEF Alone
<1> QED
  BY <1>5, <1>6, SoloStep

\* A command that ends keeps nothing.
LEMMA SoloEnds ==
    ASSUME DnssecInv, SoloInv, NEW p \in Procs, Running(p), End(p)
    PROVE  SoloInv'
<1>1. ~Running(p)' /\ \A q \in Procs \ {p} : tx'[q] = tx[q]
  BY DEF End, Running, DnssecInv, TypeOK
<1> QED
  BY <1>1, SoloStep

\* What a command that is alone keeps at the place where it is.
LEMMA SoloAt ==
    ASSUME SoloInv, NEW p \in Procs, NEW place, At(p, place), Alone(tx[p])
    PROVE  Kept(tx[p], place)
  BY DEF SoloInv, At, Alone

\* What a command keeps outlives a step that leaves BIND and the editor alone.
LEMMA KeptLasts ==
    ASSUME NEW t, NEW place, Kept(t, place), UNCHANGED <<bind, edits>>, overridden => overridden'
    PROVE  Kept(t, place)'
<1>1. DeclKept(t, place)' /\ NamedKept(t, place)' /\ FilesKept(t, place)'
  BY DEF Kept, DeclKept, NamedKept, FilesKept, bind, Beside
<1>2. SerialKept(t, place)'
  BY DEF Kept, SerialKept, KeysGone, AllHidden, Ahead, SourceSerial, bind
<1> QED
  BY <1>1, <1>2 DEF Kept

\* A command that goes on and leaves BIND and the editor alone.
LEMMA SoloReads ==
    ASSUME DnssecInv, SoloInv, NEW p \in Procs, Running(p),
           UNCHANGED <<bind, edits>>, overridden => overridden',
           NEW t \in Txs, NEW place \in Stages, Go(p, t, place),
           t.alone => tx[p].alone, Alone(t) => Kept(t, place)
    PROVE  SoloInv'
  BY KeptLasts, SoloGoes

\* A command that fails keeps what its rollback needs.
LEMMA KeptFails ==
    ASSUME NEW t \in Txs, NEW place \in Undoable, Ready(t, place), Kept(t, place),
           NEW p, Fail(p, t)
    PROVE  \E next \in Stages : Go(p, t, next) /\ Kept(t, next)
<1>1. CASE t.written
  <2>1. Kept(t, "declare-back") /\ "declare-back" \in Stages
    <3>1. DeclKept(t, "declare-back")
      BY <1>1 DEF Kept, DeclKept, Unwritten, Written, Undone
    <3>2. NamedKept(t, "declare-back")
      BY DEF NamedKept
    <3>3. FilesKept(t, "declare-back")
      BY <1>1 DEF Kept, FilesKept
    <3>4. SerialKept(t, "declare-back")
      BY DEF Kept, SerialKept, Gated
    <3> QED
      BY <3>1, <3>2, <3>3, <3>4 DEF Kept, Stages
  <2> QED
    BY <1>1, <2>1 DEF Fail
<1>2. CASE ~t.written
  <2>1. decl = t.plan /\ ~t.told /\ t.backup \in {None, t.plan}
    BY <1>2 DEF Kept, DeclKept
  <2>2. ASSUME NEW next \in {"remove", "rolled-back"}, next = "remove" <=> t.cmd = "enable"
        PROVE  Kept(t, next) /\ next \in Stages
    <3>1. DeclKept(t, next) /\ NamedKept(t, next)
      BY <1>2, <2>1 DEF DeclKept, NamedKept, Unwritten, Written, Undone
    <3>2. FilesKept(t, next)
      <4>1. t.cmd = "enable" => place # "preflight"
        BY DEF Undoable
      <4> QED
        BY <1>2, <2>2, <4>1 DEF Kept, FilesKept
    <3>3. SerialKept(t, next)
      BY DEF Kept, SerialKept, Gated
    <3> QED
      BY <3>1, <3>2, <3>3 DEF Kept, Stages
  <2>3. Go(p, t, UndoFiles(t))
    BY <1>2, <2>1 DEF Fail, UndoNamed
  <2>4. UndoFiles(t) \in {"remove", "rolled-back"} /\ (UndoFiles(t) = "remove" <=> t.cmd = "enable")
    BY DEF UndoFiles
  <2> QED
    BY <2>2, <2>3, <2>4
<1> QED
  BY <1>1, <1>2

\* The first gates.
LEMMA SoloGates ==
    ASSUME DnssecInv, SoloInv, NEW p \in Procs, UNCHANGED <<parent, edits, issued>>,
           Preflight(p) \/ Decide(p) \/ KaspGate(p) \/ SerialGate(p)
    PROVE  SoloInv'
<1>1. /\ UNCHANGED <<bind, edits>> /\ Running(p) /\ tx[p] \in Txs
  BY DEF Preflight, Decide, KaspGate, SerialGate, At, Running, DnssecInv, TypeOK
<1>2. CASE End(p)
  BY <1>1, <1>2, SoloEnds
<1>3. CASE Preflight(p) /\ ~End(p)
  <2>1. PICK next \in {"snapshot", "ask", "kasp"} :
          /\ Go(p, tx[p], next) /\ tx[p].cmd \in Changing
          /\ next = "snapshot" => tx[p].cmd = "enable" /\ files["target"] = 0
          /\ next = "ask" => tx[p].cmd = "insecure"
          /\ next = "kasp" => tx[p].cmd = "finalize"
    <3>1. tx[p].cmd \in {"enable", "insecure", "finalize"}
      BY <1>3, Arrived DEF Preflight, Ready, Placed, Stages, Changing
    <3> QED
      BY <1>3, <3>1 DEF Preflight, Changing
  <2>2. ASSUME Alone(tx[p]) PROVE Kept(tx[p], next)
    <3>1. Kept(tx[p], "preflight")
      BY <1>3, <2>2, SoloAt DEF Preflight
    <3>2. DeclKept(tx[p], next) /\ NamedKept(tx[p], next)
      BY <3>1 DEF Kept, DeclKept, NamedKept, Unwritten, Written, Undone
    <3>3. FilesKept(tx[p], next)
      BY <2>1, <3>1 DEF Kept, FilesKept
    <3>4. SerialKept(tx[p], next)
      BY <2>1, <3>1 DEF Kept, SerialKept, Gated
    <3> QED
      BY <3>2, <3>3, <3>4 DEF Kept
  <2>3. next \in Stages /\ UNCHANGED overridden
    BY <1>3 DEF Stages, Preflight, histories
  <2> QED
    BY <1>1, <2>1, <2>2, <2>3, SoloReads
<1>4. CASE Decide(p) /\ ~End(p)
  <2>1. PICK next \in {"published", "withdrawn", "backup"} :
          Go(p, tx[p], next) /\ (next = "backup" <=> tx[p].cmd = "insecure")
    <3>1. tx[p].cmd \in {"confirm", "withdraw", "insecure"}
      BY <1>4, Arrived DEF Decide, Ready, Placed
    <3> QED
      BY <1>4, <3>1 DEF Decide
  <2>2. ASSUME Alone(tx[p]) PROVE Kept(tx[p], next)
    <3>1. Kept(tx[p], "ask") /\ tx[p].cmd = "insecure"
      BY <1>4, <2>2, SoloAt, Arrived DEF Decide, Ready, Placed, Alone, Changing
    <3>2. next = "backup"
      BY <2>1, <3>1
    <3>3. DeclKept(tx[p], next) /\ NamedKept(tx[p], next)
      BY <3>1, <3>2 DEF Kept, DeclKept, NamedKept, Unwritten, Written, Undone
    <3> QED
      BY <3>1, <3>3 DEF Kept, FilesKept, SerialKept
  <2>3. next \in Stages /\ UNCHANGED overridden
    BY <1>4 DEF Stages, Decide, histories
  <2> QED
    BY <1>1, <2>1, <2>2, <2>3, SoloReads
<1>5. CASE KaspGate(p) /\ ~End(p)
  <2>1. /\ Go(p, tx[p], "serial-gate") /\ At(p, "kasp")
        /\ overridden' = overridden \/ overridden' = (overridden \/ tx[p].ack)
        /\ overridden' \/ KeysGone
    BY <1>5 DEF KaspGate, KeysGone
  <2>2. overridden => overridden'
    BY <2>1
  <2>3. PICK t : t = tx[p]
    OBVIOUS
  <2>4. ASSUME Alone(t) PROVE Kept(t, "serial-gate")'
    <3>1. Kept(t, "kasp") /\ t.cmd = "finalize"
      BY <2>1, <2>3, <2>4, SoloAt, Arrived DEF Ready, Placed
    <3>2. DeclKept(t, "serial-gate") /\ NamedKept(t, "serial-gate")
      BY <3>1 DEF Kept, DeclKept, NamedKept, Unwritten, Written, Undone
    <3>3. DeclKept(t, "serial-gate")' /\ NamedKept(t, "serial-gate")' /\ FilesKept(t, "serial-gate")'
      BY <1>1, <3>1, <3>2 DEF DeclKept, NamedKept, FilesKept, bind
    <3>4. t.goal.mode = "plain" /\ t.goal.at = t.plan.at
      BY <3>1 DEF Kept, SerialKept
    <3>5. overridden' \/ KeysGone'
      BY <1>1, <2>1 DEF KeysGone, AllHidden, bind
    <3>6. SerialKept(t, "serial-gate")'
      BY <3>4, <3>5 DEF SerialKept, Gated
    <3> QED
      BY <3>3, <3>6 DEF Kept
  <2> QED
    BY <1>1, <2>1, <2>3, <2>4, SoloGoes DEF Stages
<1>6. CASE SerialGate(p) /\ ~End(p)
  <2>1. /\ Go(p, [tx[p] EXCEPT !.gate = edits], "backup") /\ At(p, "serial-gate") /\ Ahead
        /\ UNCHANGED overridden
    BY <1>6 DEF SerialGate, Ahead, Newer, histories
  <2>2. PICK t : t = [tx[p] EXCEPT !.gate = edits]
    OBVIOUS
  <2>3. /\ t \in Txs /\ t.alone = tx[p].alone /\ t.cmd = tx[p].cmd /\ t.backup = tx[p].backup
        /\ t.plan = tx[p].plan /\ t.goal = tx[p].goal /\ t.written = tx[p].written
        /\ t.told = tx[p].told /\ t.ok = tx[p].ok /\ t.copied = tx[p].copied
        /\ t.found = tx[p].found /\ t.gate = edits /\ edits \in Nat
    BY <1>1, <2>2 DEF Txs, DnssecInv, TypeOK, DataOK
  <2>4. ASSUME Alone(t) PROVE Kept(t, "backup")
    <3>1. Kept(tx[p], "serial-gate") /\ t.cmd = "finalize"
      BY <2>1, <2>3, <2>4, SoloAt, Arrived DEF Ready, Placed, Alone
    <3>2. DeclKept(t, "backup") /\ NamedKept(t, "backup")
      BY <2>3, <3>1 DEF Kept, DeclKept, NamedKept, Unwritten, Written, Undone
    <3>3. FilesKept(t, "backup")
      BY <3>1 DEF FilesKept
    <3>4. SerialKept(t, "backup")
      BY <2>1, <2>3, <3>1 DEF Kept, SerialKept, Gated
    <3> QED
      BY <3>2, <3>3, <3>4 DEF Kept
  <2> QED
    BY <1>1, <2>1, <2>2, <2>3, <2>4, SoloReads DEF Stages
<1> QED
  BY <1>2, <1>3, <1>4, <1>5, <1>6

\* What a step that does not look at a command leaves of what it keeps.
LEMMA KeptLike ==
    ASSUME NEW t, NEW u, NEW place, Kept(t, place),
           u.cmd = t.cmd, u.backup = t.backup, u.plan = t.plan, u.goal = t.goal,
           u.written = t.written, u.told = t.told, u.ok = t.ok, u.copied = t.copied,
           u.found = t.found, u.gate = t.gate
    PROVE  Kept(u, place)
  BY DEF Kept, DeclKept, NamedKept, FilesKept, SerialKept

\* The copies of the declaration.
LEMMA SoloBackup ==
    ASSUME DnssecInv, SoloInv, NEW p \in Procs, UNCHANGED <<parent, edits, issued>>, Backup(p)
    PROVE  SoloInv'
<1>1. /\ UNCHANGED <<bind, edits, overridden>> /\ Running(p) /\ tx[p] \in Txs
      /\ decl \in Decls
  BY DEF Backup, At, Running, DnssecInv, TypeOK, DataOK, histories
<1>2. CASE At(p, "snapshot") /\ Go(p, [tx[p] EXCEPT !.backup = decl, !.found = Beside], "copy-zone")
  <2>1. PICK t : t = [tx[p] EXCEPT !.backup = decl, !.found = Beside]
    OBVIOUS
  <2>2. /\ t \in Txs /\ t.alone = tx[p].alone /\ t.cmd = tx[p].cmd /\ t.backup = decl
        /\ t.plan = tx[p].plan /\ t.goal = tx[p].goal /\ t.written = tx[p].written
        /\ t.told = tx[p].told /\ t.ok = tx[p].ok /\ t.copied = tx[p].copied
        /\ t.gate = tx[p].gate
    BY <1>1, <2>1 DEF Txs, Beside
  <2>3. ASSUME Alone(t) PROVE Kept(t, "copy-zone")
    <3>1. Kept(tx[p], "snapshot") /\ t.cmd = "enable"
      BY <1>2, <2>2, <2>3, SoloAt, Arrived DEF Ready, Placed, Alone
    <3>2. DeclKept(t, "copy-zone") /\ NamedKept(t, "copy-zone")
      BY <2>2, <3>1 DEF Kept, DeclKept, NamedKept, Unwritten, Written, Undone
    <3>3. FilesKept(t, "copy-zone")
      BY <2>2, <3>1 DEF Kept, FilesKept
    <3>4. SerialKept(t, "copy-zone")
      BY <3>1 DEF SerialKept
    <3> QED
      BY <3>2, <3>3, <3>4 DEF Kept
  <2> QED
    BY <1>1, <1>2, <2>1, <2>2, <2>3, SoloReads DEF Stages
<1>3. CASE At(p, "backup") /\ Go(p, [tx[p] EXCEPT !.backup = decl], "declare")
  <2>1. PICK t : t = [tx[p] EXCEPT !.backup = decl]
    OBVIOUS
  <2>2. /\ t \in Txs /\ t.alone = tx[p].alone /\ t.cmd = tx[p].cmd /\ t.backup = decl
        /\ t.plan = tx[p].plan /\ t.goal = tx[p].goal /\ t.written = tx[p].written
        /\ t.told = tx[p].told /\ t.ok = tx[p].ok /\ t.copied = tx[p].copied
        /\ t.found = tx[p].found /\ t.gate = tx[p].gate
    BY <1>1, <2>1 DEF Txs
  <2>3. ASSUME Alone(t), t.cmd # "enable" PROVE Kept(t, "declare")
    <3>1. Kept(tx[p], "backup")
      BY <1>3, <2>2, <2>3, SoloAt DEF Alone
    <3>2. DeclKept(t, "declare") /\ NamedKept(t, "declare")
      BY <2>2, <3>1 DEF Kept, DeclKept, NamedKept, Unwritten, Written, Undone
    <3>3. SerialKept(t, "declare")
      BY <2>2, <3>1 DEF Kept, SerialKept, Gated
    <3> QED
      BY <2>3, <3>2, <3>3 DEF Kept, FilesKept
  <2>4. Alone(t) => t.cmd # "enable"
    BY <1>3, <2>2, SoloAt DEF Kept, FilesKept, Alone
  <2> QED
    BY <1>1, <1>3, <2>1, <2>2, <2>3, <2>4, SoloReads DEF Stages
<1> QED
  BY <1>2, <1>3 DEF Backup

\* The checks of BIND, and files that cannot be written.
LEMMA SoloChecks ==
    ASSUME DnssecInv, SoloInv, NEW p \in Procs, UNCHANGED <<parent, edits, issued>>,
           Verify(p) \/ FileFails(p)
    PROVE  SoloInv'
<1>1. UNCHANGED <<bind, edits, overridden>> /\ Running(p) /\ tx[p] \in Txs
  BY DEF Verify, FileFails, Running, DnssecInv, TypeOK, histories
<1>2. PICK place \in Undoable : At(p, place)
  BY DEF Verify, FileFails, At, Undoable
<1>3. Ready(tx[p], place)
  BY <1>2, Arrived
<1>4. CASE Fail(p, tx[p])
  <2>1. PICK next \in Stages : Go(p, tx[p], next) /\ (Alone(tx[p]) => Kept(tx[p], next))
    <3>1. CASE Alone(tx[p])
      <4>1. Kept(tx[p], place)
        BY <1>2, <3>1, SoloAt
      <4> QED
        BY <1>1, <1>3, <1>4, <4>1, KeptFails
    <3>2. CASE ~Alone(tx[p])
      BY <1>1, <1>3, <1>4, <3>2, FailReady
    <3> QED
      BY <3>1, <3>2
  <2> QED
    BY <1>1, <2>1, SoloReads
<1>5. ASSUME NEW next \in {"declare", "reconfig", "dnssec-status", "commit"}, Go(p, tx[p], next),
             place \in {"checkzone", "checkconf", "zonestatus", "dnssec-status"},
             next = "declare" <=> place = "checkzone",
             next = "reconfig" => place = "checkconf"
      PROVE  SoloInv'
  <2>1. ASSUME Alone(tx[p]) PROVE Kept(tx[p], next)
    <3>1. Kept(tx[p], place)
      BY <1>2, <2>1, SoloAt
    <3>2. DeclKept(tx[p], next) /\ NamedKept(tx[p], next)
      <4>1. CASE next = "declare"
        BY <1>5, <3>1, <4>1 DEF Kept, DeclKept, NamedKept, Unwritten, Written, Undone
      <4>2. CASE next # "declare"
        BY <1>5, <3>1, <4>2 DEF Kept, DeclKept, NamedKept, Unwritten, Written, Undone
      <4> QED
        BY <4>1, <4>2
    <3>3. FilesKept(tx[p], next)
      BY <1>5, <3>1 DEF Kept, FilesKept
    <3>4. SerialKept(tx[p], next)
      <4>1. place = "checkzone" => tx[p].cmd = "enable"
        BY <1>3 DEF Ready, Placed
      <4> QED
        BY <1>5, <3>1, <4>1 DEF Kept, SerialKept, Gated
    <3> QED
      BY <3>2, <3>3, <3>4 DEF Kept
  <2>2. next \in Stages
    BY DEF Stages
  <2> QED
    BY <1>1, <1>5, <2>1, <2>2, SoloReads
<1>6. CASE Verify(p) /\ ~Fail(p, tx[p])
  <2>1. place \in {"checkzone", "checkconf", "zonestatus", "dnssec-status"}
    BY <1>2, <1>6 DEF Verify, At
  <2>2. PICK next \in {"declare", "reconfig", "dnssec-status", "commit"} :
          /\ Go(p, tx[p], next)
          /\ next = "declare" <=> place = "checkzone"
          /\ next = "reconfig" => place = "checkconf"
    BY <1>2, <1>6, <2>1 DEF Verify, At
  <2> QED
    BY <1>5, <2>1, <2>2
<1> QED
  BY <1>4, <1>6 DEF FileFails

\* A rollback that gives up, and the steps that end a command.
LEMMA SoloStops ==
    ASSUME DnssecInv, SoloInv, NEW p \in Procs, UNCHANGED <<parent, edits, issued>>,
           UndoFails(p) \/ Finish(p) \/ PrepareSerial(p) \/ SerialFails(p) \/ Crash(p)
           \/ ReplaceFile(p) \/ CheckDs(p)
    PROVE  SoloInv'
<1>1. Running(p) /\ tx[p] \in Txs
  BY DEF UndoFails, Finish, PrepareSerial, SerialFails, Crash, ReplaceFile, CheckDs,
         At, Running, DnssecInv, TypeOK
<1>2. CASE End(p)
  BY <1>1, <1>2, SoloEnds
<1>3. CASE UndoFails(p)
  <2>1. UNCHANGED <<bind, edits, overridden>>
    BY <1>3 DEF UndoFails, histories
  <2>2. PICK place \in {"declare-back", "remove"} : At(p, place)
    BY <1>3 DEF UndoFails
  <2>3. PICK t : t = [tx[p] EXCEPT !.ok = FALSE]
    OBVIOUS
  <2>4. /\ t \in Txs /\ t.alone = tx[p].alone /\ t.cmd = tx[p].cmd /\ t.backup = tx[p].backup
        /\ t.plan = tx[p].plan /\ t.goal = tx[p].goal /\ t.written = tx[p].written
        /\ t.told = tx[p].told /\ t.ok = FALSE /\ t.copied = tx[p].copied
        /\ t.found = tx[p].found /\ t.gate = tx[p].gate
    BY <1>1, <2>3 DEF Txs
  <2>5. ASSUME Alone(t) PROVE Kept(t, "rolled-back")
    <3>1. Kept(tx[p], place)
      BY <2>2, <2>4, <2>5, SoloAt DEF Alone
    <3>2. DeclKept(t, "rolled-back") /\ NamedKept(t, "rolled-back")
      BY <2>4, <3>1 DEF Kept, DeclKept, NamedKept, Unwritten, Written, Undone
    <3>3. FilesKept(t, "rolled-back")
      BY <2>2, <2>4, <3>1 DEF Kept, FilesKept
    <3>4. SerialKept(t, "rolled-back")
      BY <2>4, <3>1 DEF Kept, SerialKept, Gated
    <3> QED
      BY <3>2, <3>3, <3>4 DEF Kept
  <2> QED
    BY <1>1, <1>3, <2>1, <2>3, <2>4, <2>5, SoloReads DEF UndoFails, Stages
<1>4. CASE PrepareSerial(p) /\ ~End(p)
  <2>1. PICK n : Go(p, [tx[p] EXCEPT !.raised = n], "replace") /\ n \in Nat
    <3>1. files \in [Places -> Nat] /\ named.serial \in Nat
      BY DEF DnssecInv, TypeOK, DataOK
    <3>2. Larger(files[tx[p].plan.at], named.serial) + 1 \in Nat
      BY <1>1, <3>1 DEF Larger, Txs, Decls
    <3> QED
      BY <1>4, <3>2 DEF PrepareSerial
  <2>2. PICK t : t = [tx[p] EXCEPT !.raised = n]
    OBVIOUS
  <2>3. t \in Txs /\ t.alone = tx[p].alone /\ t.cmd = tx[p].cmd
    BY <1>1, <2>1, <2>2 DEF Txs
  <2>4. ~Alone(t)
    BY <1>4, <2>3, Arrived DEF PrepareSerial, Ready, Placed, Alone, Changing
  <2> QED
    BY <1>1, <1>4, <2>1, <2>2, <2>3, <2>4, SoloGoes DEF Stages
<1> QED
  BY <1>2, <1>3, <1>4 DEF Finish, SerialFails, Crash, ReplaceFile, CheckDs

\* An answer of a resolver.
LEMMA SoloAsks ==
    ASSUME DnssecInv, SoloInv, NEW p \in Procs, UNCHANGED <<parent, edits, issued>>, Ask(p)
    PROVE  SoloInv'
<1>1. /\ UNCHANGED <<bind, edits, overridden>> /\ At(p, "ask") /\ Running(p) /\ tx[p] \in Txs
      /\ tx \in [Procs -> Txs \cup {None}]
  BY DEF Ask, At, Running, DnssecInv, TypeOK
<1>2. PICK c, heard :
        tx' = [tx EXCEPT ![p].asked = @ \cup {c}, ![p].heard = @ \cup {heard}]
  BY DEF Ask
<1>3. PICK t : t = [tx[p] EXCEPT !.asked = @ \cup {c}, !.heard = @ \cup {heard}]
  OBVIOUS
<1>4. /\ t.alone = tx[p].alone /\ t.cmd = tx[p].cmd /\ t.backup = tx[p].backup
      /\ t.plan = tx[p].plan /\ t.goal = tx[p].goal /\ t.written = tx[p].written
      /\ t.told = tx[p].told /\ t.ok = tx[p].ok /\ t.copied = tx[p].copied
      /\ t.found = tx[p].found /\ t.gate = tx[p].gate /\ t.at = "ask"
  BY <1>1, <1>3 DEF Txs, At
<1>5. Alone(t) => Kept(t, "ask")'
  <2>1. Alone(t) => Kept(tx[p], "ask")
    BY <1>1, <1>4, SoloAt DEF Alone
  <2>2. Alone(t) => Kept(t, "ask")
    BY <1>4, <2>1, KeptLike
  <2> QED
    BY <1>1, <2>2, KeptLasts
<1>6. tx'[p] = t /\ \A q \in Procs \ {p} : tx'[q] = tx[q]
  BY <1>1, <1>2, <1>3
<1>7. tx'[p].alone => tx[p].alone /\ (Alone(tx[p])' => Kept(tx[p], tx[p].at)')
  BY <1>4, <1>5, <1>6 DEF Alone
<1> QED
  BY <1>1, <1>6, <1>7, SoloStep

\* enable copies the zone file.
LEMMA SoloCopies ==
    ASSUME DnssecInv, SoloInv, NEW p \in Procs, UNCHANGED <<parent, edits, issued>>, CopyZone(p)
    PROVE  SoloInv'
<1>1. /\ UNCHANGED <<decl, keys, journal, named, edits, overridden>>
      /\ At(p, "copy-zone") /\ Running(p) /\ tx[p] \in Txs /\ tx[p].cmd = "enable"
  BY Arrived DEF CopyZone, At, Running, histories, Ready, Placed
<1>2. PICK t : t = [tx[p] EXCEPT !.copied = TRUE]
  OBVIOUS
<1>3. /\ t \in Txs /\ t.alone = tx[p].alone /\ t.cmd = tx[p].cmd /\ t.backup = tx[p].backup
      /\ t.plan = tx[p].plan /\ t.goal = tx[p].goal /\ t.written = tx[p].written
      /\ t.told = tx[p].told /\ t.ok = tx[p].ok /\ t.copied
      /\ t.found = tx[p].found /\ t.gate = tx[p].gate
  BY <1>1, <1>2 DEF Txs
<1>4. ASSUME Alone(t) PROVE Kept(t, "checkzone")'
  <2>1. Kept(tx[p], "copy-zone")
    BY <1>1, <1>3, <1>4, SoloAt DEF Alone
  <2>2. DeclKept(t, "checkzone")' /\ NamedKept(t, "checkzone")'
    BY <1>1, <1>3, <2>1 DEF Kept, DeclKept, NamedKept, Unwritten, Written, Undone
  <2>3. FilesKept(t, "checkzone")'
    BY <1>3, <2>1 DEF Kept, FilesKept
  <2>4. SerialKept(t, "checkzone")'
    BY <1>1, <1>3 DEF SerialKept
  <2> QED
    BY <2>2, <2>3, <2>4 DEF Kept
<1> QED
  BY <1>1, <1>2, <1>3, <1>4, SoloGoes DEF CopyZone, Stages

\* A command writes its declaration.
LEMMA SoloDeclares ==
    ASSUME DnssecInv, SoloInv, NEW p \in Procs, UNCHANGED <<parent, edits, issued>>, Declare(p)
    PROVE  SoloInv'
<1>1. /\ UNCHANGED <<files, keys, journal, named, edits, overridden>> /\ decl' = tx[p].goal
      /\ At(p, "declare") /\ Running(p) /\ tx[p] \in Txs
  BY Arrived DEF Declare, At, Running, histories
<1>2. PICK t : t = [tx[p] EXCEPT !.written = TRUE]
  OBVIOUS
<1>3. /\ t \in Txs /\ t.alone = tx[p].alone /\ t.cmd = tx[p].cmd /\ t.backup = tx[p].backup
      /\ t.plan = tx[p].plan /\ t.goal = tx[p].goal /\ t.written
      /\ t.told = tx[p].told /\ t.ok = tx[p].ok /\ t.copied = tx[p].copied
      /\ t.found = tx[p].found /\ t.gate = tx[p].gate
  BY <1>1, <1>2 DEF Txs
<1>4. ASSUME Alone(t) PROVE Kept(t, "checkconf")'
  <2>1. Kept(tx[p], "declare")
    BY <1>1, <1>3, <1>4, SoloAt DEF Alone
  <2>2. DeclKept(t, "checkconf")' /\ NamedKept(t, "checkconf")'
    BY <1>1, <1>3, <2>1 DEF Kept, DeclKept, NamedKept, Unwritten, Written, Undone
  <2>3. FilesKept(t, "checkconf")'
    BY <1>1, <1>3, <2>1 DEF Kept, FilesKept
  <2>4. t.cmd = "finalize" => (Ahead => Ahead') /\ (KeysGone => KeysGone')
    <3>1. t.cmd = "finalize" => decl.at = decl'.at
      BY <1>1, <1>3, <2>1 DEF Kept, DeclKept, SerialKept, Unwritten
    <3> QED
      BY <1>1, <3>1 DEF Ahead, SourceSerial, KeysGone, AllHidden
  <2>5. SerialKept(t, "checkconf")'
    BY <1>1, <1>3, <2>1, <2>4 DEF Kept, SerialKept, Gated
  <2> QED
    BY <2>2, <2>3, <2>5 DEF Kept
<1> QED
  BY <1>1, <1>2, <1>3, <1>4, SoloGoes DEF Declare, Stages

\* The rollback puts the declaration back.
LEMMA SoloDeclaresBack ==
    ASSUME DnssecInv, SoloInv, NEW p \in Procs, UNCHANGED <<parent, edits, issued>>, DeclareBack(p)
    PROVE  SoloInv'
<1>1. PICK t : t = tx[p]
  OBVIOUS
<1>2. /\ UNCHANGED <<files, keys, journal, named, edits, overridden>> /\ decl' = t.backup
      /\ At(p, "declare-back") /\ Running(p) /\ t \in Txs /\ Ready(t, "declare-back")
  BY <1>1, Arrived DEF DeclareBack, At, Running, histories
<1>3. PICK next \in {"undo-reconfig", "remove", "rolled-back"} :
        /\ Go(p, t, next)
        /\ next # "undo-reconfig" => ~t.told
        /\ t.cmd = "enable" => next # "rolled-back"
  BY <1>1 DEF DeclareBack, UndoNamed, UndoFiles
<1>4. ASSUME Alone(t) PROVE Kept(t, next)'
  <2>1. Kept(t, "declare-back")
    BY <1>1, <1>2, <1>4, SoloAt
  <2>2. t.backup # None
    BY <1>2 DEF Ready
  <2>3. DeclKept(t, next)' /\ NamedKept(t, next)'
    BY <1>2, <1>3, <2>1, <2>2 DEF Kept, DeclKept, NamedKept, Unwritten, Written, Undone
  <2>4. FilesKept(t, next)'
    BY <1>2, <1>3, <2>1 DEF Kept, FilesKept
  <2>5. SerialKept(t, next)'
    BY <1>3, <2>1 DEF Kept, SerialKept, Gated
  <2> QED
    BY <2>3, <2>4, <2>5 DEF Kept
<1> QED
  BY <1>1, <1>2, <1>3, <1>4, SoloGoes DEF Stages

\* named is told.
LEMMA SoloReconfigs ==
    ASSUME DnssecInv, SoloInv, NEW p \in Procs, UNCHANGED <<parent, edits, issued>>, Reconfig(p)
    PROVE  SoloInv'
<1>1. /\ UNCHANGED <<decl, files, edits, overridden>>
      /\ named'.mode = decl.mode /\ named'.at = decl.at
  BY DEF Reconfig, Reloads, Loaded, histories
<1>2. CASE At(p, "reconfig") /\ Go(p, [tx[p] EXCEPT !.told = TRUE], "zonestatus")
  <2>1. Running(p) /\ tx[p] \in Txs
    BY <1>2, Arrived DEF At
  <2>2. PICK t : t = [tx[p] EXCEPT !.told = TRUE]
    OBVIOUS
  <2>3. /\ t \in Txs /\ t.alone = tx[p].alone /\ t.cmd = tx[p].cmd /\ t.backup = tx[p].backup
        /\ t.plan = tx[p].plan /\ t.goal = tx[p].goal /\ t.written = tx[p].written
        /\ t.ok = tx[p].ok /\ t.copied = tx[p].copied /\ t.found = tx[p].found
        /\ t.gate = tx[p].gate
    BY <2>1, <2>2 DEF Txs
  <2>4. ASSUME Alone(t) PROVE Kept(t, "zonestatus")'
    <3>1. Kept(tx[p], "reconfig")
      BY <1>2, <2>3, <2>4, SoloAt DEF Alone
    <3>2. DeclKept(t, "zonestatus")' /\ NamedKept(t, "zonestatus")'
      BY <1>1, <2>3, <3>1 DEF Kept, DeclKept, NamedKept, Unwritten, Written, Undone
    <3>3. FilesKept(t, "zonestatus")'
      BY <1>1, <2>3, <3>1 DEF Kept, FilesKept
    <3>4. SerialKept(t, "zonestatus")'
      BY <2>3, <3>1 DEF Kept, SerialKept, Gated
    <3> QED
      BY <3>2, <3>3, <3>4 DEF Kept
  <2> QED
    BY <1>2, <2>1, <2>2, <2>3, <2>4, SoloGoes DEF Stages
<1>3. CASE At(p, "undo-reconfig") /\ Go(p, tx[p], UndoFiles(tx[p]))
  <2>1. PICK t : t = tx[p]
    OBVIOUS
  <2>2. Running(p) /\ t \in Txs
    BY <1>3, <2>1, Arrived DEF At
  <2>3. PICK next \in {"remove", "rolled-back"} :
          Go(p, t, next) /\ (t.cmd = "enable" => next = "remove")
    BY <1>3, <2>1 DEF UndoFiles
  <2>4. ASSUME Alone(t) PROVE Kept(t, next)'
    <3>1. Kept(t, "undo-reconfig")
      BY <1>3, <2>1, <2>4, SoloAt
    <3>2. DeclKept(t, next)' /\ NamedKept(t, next)'
      BY <1>1, <3>1 DEF Kept, DeclKept, NamedKept, Unwritten, Written, Undone
    <3>3. FilesKept(t, next)'
      BY <1>1, <2>3, <3>1 DEF Kept, FilesKept
    <3>4. SerialKept(t, next)'
      BY <3>1 DEF Kept, SerialKept, Gated
    <3> QED
      BY <3>2, <3>3, <3>4 DEF Kept
  <2> QED
    BY <2>1, <2>2, <2>3, <2>4, SoloGoes DEF Stages
<1> QED
  BY <1>2, <1>3 DEF Reconfig

\* named is not told, or only seems not to be.
LEMMA SoloReconfigFails ==
    ASSUME DnssecInv, SoloInv, NEW p \in Procs, UNCHANGED <<parent, edits, issued>>,
           ReconfigFails(p)
    PROVE  SoloInv'
<1>1. UNCHANGED <<decl, files, edits, overridden>>
  BY DEF ReconfigFails, Reloads, bind, histories
<1>2. CASE At(p, "reconfig") /\ Fail(p, [tx[p] EXCEPT !.told = TRUE])
  <2>1. Running(p) /\ tx[p] \in Txs /\ Ready(tx[p], "reconfig")
    BY <1>2, Arrived DEF At
  <2>2. PICK t : t = [tx[p] EXCEPT !.told = TRUE]
    OBVIOUS
  <2>3. /\ t \in Txs /\ t.alone = tx[p].alone /\ t.cmd = tx[p].cmd /\ t.backup = tx[p].backup
        /\ t.plan = tx[p].plan /\ t.goal = tx[p].goal /\ t.written = tx[p].written
        /\ t.ok = tx[p].ok /\ t.copied = tx[p].copied /\ t.found = tx[p].found
        /\ t.gate = tx[p].gate /\ t.heard = tx[p].heard
    BY <2>1, <2>2 DEF Txs
  <2>4. PICK next \in Stages : Go(p, t, next) /\ (t.written => next = "declare-back")
    <3>1. Ready(t, "reconfig") /\ "reconfig" \in Undoable
      BY <2>1, <2>3 DEF Ready, Undoable
    <3>2. CASE t.written
      BY <1>2, <2>2, <3>2 DEF Fail, Stages
    <3>3. CASE ~t.written
      BY <1>2, <2>2, <2>3, <3>1, <3>3, FailReady
    <3> QED
      BY <3>2, <3>3
  <2>5. ASSUME Alone(t) PROVE Kept(t, next)'
    <3>1. Kept(tx[p], "reconfig")
      BY <1>2, <2>3, <2>5, SoloAt DEF Alone
    <3>2. t.written /\ next = "declare-back"
      BY <2>3, <2>4, <3>1 DEF Kept, DeclKept, Written
    <3>3. DeclKept(t, "declare-back")' /\ NamedKept(t, "declare-back")'
      BY <2>3, <3>1, <3>2 DEF Kept, DeclKept, NamedKept, Unwritten, Written, Undone
    <3>4. FilesKept(t, "declare-back")'
      BY <1>1, <2>3, <3>1 DEF Kept, FilesKept
    <3>5. SerialKept(t, "declare-back")'
      BY <2>3, <3>1 DEF Kept, SerialKept, Gated
    <3> QED
      BY <3>2, <3>3, <3>4, <3>5 DEF Kept
  <2> QED
    BY <2>1, <2>3, <2>4, <2>5, SoloGoes
<1>3. CASE At(p, "undo-reconfig") /\ Go(p, [tx[p] EXCEPT !.ok = FALSE], UndoFiles(tx[p]))
  <2>1. Running(p) /\ tx[p] \in Txs
    BY <1>3, Arrived DEF At
  <2>2. PICK t : t = [tx[p] EXCEPT !.ok = FALSE]
    OBVIOUS
  <2>3. /\ t \in Txs /\ t.alone = tx[p].alone /\ t.cmd = tx[p].cmd /\ t.backup = tx[p].backup
        /\ t.plan = tx[p].plan /\ t.goal = tx[p].goal /\ t.written = tx[p].written
        /\ t.ok = FALSE /\ t.told = tx[p].told /\ t.copied = tx[p].copied
        /\ t.found = tx[p].found /\ t.gate = tx[p].gate
    BY <2>1, <2>2 DEF Txs
  <2>4. PICK next \in {"remove", "rolled-back"} : Go(p, t, next)
    BY <1>3, <2>2 DEF UndoFiles
  <2>5. ASSUME Alone(t) PROVE Kept(t, next)'
    <3>1. Kept(tx[p], "undo-reconfig")
      BY <1>3, <2>3, <2>5, SoloAt DEF Alone
    <3>2. DeclKept(t, next)' /\ NamedKept(t, next)'
      BY <1>1, <2>3, <3>1 DEF Kept, DeclKept, NamedKept, Unwritten, Written, Undone
    <3>3. FilesKept(t, next)'
      BY <1>1, <2>3, <3>1 DEF Kept, FilesKept
    <3>4. SerialKept(t, next)'
      BY <2>3, <3>1 DEF Kept, SerialKept, Gated
    <3> QED
      BY <3>2, <3>3, <3>4 DEF Kept
  <2> QED
    BY <2>1, <2>3, <2>4, <2>5, SoloGoes DEF Stages
<1> QED
  BY <1>2, <1>3 DEF ReconfigFails

\* The rollback of enable removes what enable brought.
LEMMA SoloRemoves ==
    ASSUME DnssecInv, SoloInv, NEW p \in Procs, UNCHANGED <<parent, edits, issued>>, Remove(p)
    PROVE  SoloInv'
<1>1. PICK t : t = tx[p]
  OBVIOUS
<1>2. /\ UNCHANGED <<decl, named, edits, overridden>> /\ At(p, "remove") /\ Go(p, t, "rolled-back")
      /\ files' = IF t.copied THEN [files EXCEPT !["target"] = 0] ELSE files
      /\ keys' = IF "keys" \in t.found THEN keys ELSE None
      /\ journal' = IF "journal" \in t.found THEN journal ELSE 0
  BY <1>1 DEF Remove, histories
<1>3. /\ Running(p) /\ t \in Txs /\ t.cmd = "enable" /\ files \in [Places -> Nat]
  BY <1>1, <1>2, Arrived DEF At, Ready, Placed, DnssecInv, TypeOK, DataOK
<1>4. ASSUME Alone(t) PROVE Kept(t, "rolled-back")'
  <2>1. Kept(t, "remove")
    BY <1>1, <1>2, <1>4, SoloAt
  <2>2. DeclKept(t, "rolled-back")' /\ NamedKept(t, "rolled-back")'
    BY <1>2, <2>1 DEF Kept, DeclKept, NamedKept, Unwritten, Written, Undone
  <2>3. files'["target"] = 0
    BY <1>2, <1>3, <2>1 DEF Kept, FilesKept, Places
  <2>4. Beside' \subseteq t.found
    BY <1>2 DEF Beside
  <2>5. FilesKept(t, "rolled-back")'
    BY <2>1, <2>3, <2>4 DEF Kept, FilesKept
  <2>6. SerialKept(t, "rolled-back")'
    BY <1>3 DEF SerialKept
  <2> QED
    BY <2>2, <2>5, <2>6 DEF Kept
<1> QED
  BY <1>1, <1>2, <1>3, <1>4, SoloGoes DEF Stages

\* A command begins alone when no other runs, and none is alone beside it.
LEMMA SoloStarts ==
    ASSUME DnssecInv, SoloInv, NEW p \in Procs, Start(p)
    PROVE  SoloInv'
<1>1. PICK cmd \in Commands, ack \in BOOLEAN, activate \in BOOLEAN :
        /\ Plans(cmd)
        /\ tx' = [q \in Procs |->
                IF q = p THEN NewTx(cmd, ack, activate)
                ELSE IF Running(q) THEN [tx[q] EXCEPT !.alone = FALSE] ELSE tx[q]]
  BY DEF Start, Begin, EnableCommand, ConfirmCommand, WithdrawalCommand, SerialCommand,
         DisableCommand
<1>2. UNCHANGED <<bind, edits, overridden>> /\ ~Running(p)
  BY DEF Start, histories
<1>3. PICK t : t = NewTx(cmd, ack, activate)
  OBVIOUS
<1>4. /\ t.cmd = cmd /\ t.at = First(cmd) /\ t.plan = decl /\ t.goal = Goal(cmd)
      /\ t.backup = None /\ ~t.written /\ ~t.told /\ ~t.copied
      /\ t.alone <=> \A q \in Procs : ~Running(q)
  BY <1>3 DEF NewTx
<1>5. Alone(t) => Kept(t, t.at)'
  <2> SUFFICES ASSUME Alone(t) PROVE Kept(t, "preflight")
    <3>1. Alone(t) => t.at = "preflight"
      BY <1>4 DEF First, Alone, Changing
    <3>2. Kept(t, "preflight") => Kept(t, "preflight")'
      BY <1>2, KeptLasts
    <3> QED
      BY <3>1, <3>2
  <2>1. DeclKept(t, "preflight") /\ NamedKept(t, "preflight")
    BY <1>4 DEF DeclKept, NamedKept, Unwritten, Written, Undone
  <2>2. FilesKept(t, "preflight")
    BY <1>1, <1>4 DEF FilesKept, Plans, EnablePlans
  <2>3. SerialKept(t, "preflight")
    <3>1. decl \in Decls
      BY DEF DnssecInv, TypeOK, DataOK
    <3>2. cmd = "finalize" => Goal(cmd).mode = "plain" /\ Goal(cmd).at = decl.at
      BY <3>1 DEF Goal, Decls
    <3> QED
      BY <1>4, <3>2 DEF SerialKept, Gated
  <2> QED
    BY <2>1, <2>2, <2>3 DEF Kept
<1> SUFFICES ASSUME NEW q \in Procs, Running(q)', tx'[q].alone
             PROVE  /\ \A r \in Procs \ {q} : ~Running(r)'
                    /\ Alone(tx[q])' => Kept(tx[q], tx[q].at)'
  BY DEF SoloInv
<1>6. q = p
  <2>1. CASE q # p /\ Running(q)
    <3>1. tx[q] \in Txs /\ tx'[q] = [tx[q] EXCEPT !.alone = FALSE]
      BY <1>1, <2>1 DEF DnssecInv, TypeOK, Running
    <3>2. ~tx'[q].alone
      BY <3>1 DEF Txs
    <3> QED
      BY <3>2
  <2>2. CASE q # p /\ ~Running(q)
    BY <1>1, <2>2 DEF Running
  <2> QED
    BY <2>1, <2>2
<1>7. tx'[q] = t
  BY <1>1, <1>3, <1>6
<1>8. \A r \in Procs \ {q} : ~Running(r)'
  BY <1>1, <1>4, <1>6, <1>7 DEF Running
<1>9. Alone(tx[q])' => Kept(tx[q], tx[q].at)'
  BY <1>5, <1>7 DEF Alone
<1> QED
  BY <1>8, <1>9

\* What a command keeps outlives a step of its surroundings that leaves the
\* declaration and what named runs alone, brings nothing to the target of an
\* enable, no key of a signed zone that is gone and, without an edit, no serial.
LEMMA SoloAround ==
    ASSUME DnssecInv, SoloInv, UNCHANGED <<tx, decl, overridden>>,
           named'.mode = named.mode, named'.at = named.at,
           decl.at = "source" => files'["target"] = files["target"],
           named.mode = "plain" => Beside' \subseteq Beside,
           KeysGone => KeysGone',
           edits' \in Nat, edits <= edits',
           edits' = edits /\ KeysGone /\ Ahead => Ahead'
    PROVE  SoloInv'
<1> SUFFICES ASSUME NEW p \in Procs, Running(p), tx[p].alone
             PROVE  /\ \A q \in Procs \ {p} : ~Running(q)
                    /\ Alone(tx[p]) => Kept(tx[p], tx[p].at)'
  BY DEF SoloInv, Running, Alone
<1>1. \A q \in Procs \ {p} : ~Running(q)
  BY DEF SoloInv
<1>2. PICK t : t = tx[p]
  OBVIOUS
<1>3. ASSUME Alone(t) PROVE Kept(t, t.at)'
  <2>1. Kept(t, t.at) /\ t \in Txs /\ edits \in Nat
    BY <1>2, <1>3 DEF SoloInv, DnssecInv, TypeOK, DataOK, Running
  <2>2. DeclKept(t, t.at)' /\ NamedKept(t, t.at)'
    BY <2>1 DEF Kept, DeclKept, NamedKept
  <2>3. FilesKept(t, t.at)'
    <3> SUFFICES ASSUME t.cmd = "enable"
                 PROVE  /\ ~t.copied /\ t.at # "preflight" => files'["target"] = 0
                        /\ t.at = "rolled-back" /\ t.ok =>
                              /\ files'["target"] = 0
                              /\ named'.mode = "plain" => Beside' \subseteq t.found
      BY <2>1 DEF Kept, FilesKept
    <3>1. ~t.copied \/ (t.at = "rolled-back" /\ t.ok) => decl.at = "source"
      BY <2>1 DEF Kept, DeclKept, FilesKept, Undone
    <3> QED
      BY <2>1, <3>1 DEF Kept, FilesKept
  <2>4. SerialKept(t, t.at)'
    <3>1. t.gate \in Nat
      BY <2>1 DEF Txs
    <3> SUFFICES ASSUME t.cmd = "finalize"
                 PROVE  SerialKept(t, t.at)'
      BY DEF SerialKept
    <3>2. t.goal.mode = "plain" /\ t.goal.at = t.plan.at
      BY <2>1 DEF Kept, SerialKept
    <3>3. t.at \in Gated \cup {"serial-gate"} => overridden' \/ KeysGone'
      BY <2>1 DEF Kept, SerialKept
    <3>4. ASSUME t.at \in Gated PROVE t.gate <= edits' /\ (t.gate = edits' => overridden' \/ Ahead')
      <4>1. t.gate <= edits /\ (t.gate = edits => overridden \/ Ahead) /\ (overridden \/ KeysGone)
        BY <2>1, <3>4 DEF Kept, SerialKept
      <4>2. t.gate <= edits' /\ (t.gate = edits' => edits = edits')
        BY <2>1, <3>1, <4>1
      <4> QED
        BY <4>1, <4>2
    <3> QED
      BY <3>2, <3>3, <3>4 DEF SerialKept
  <2> QED
    BY <2>2, <2>3, <2>4 DEF Kept
<1> QED
  BY <1>1, <1>2, <1>3

\* The key manager, the registrar, the caches and the editor.
LEMMA SoloSurroundings ==
    ASSUME DnssecInv, SoloInv, Surroundings, UNCHANGED <<tx, issued, histories>>
    PROVE  SoloInv'
<1>1. /\ UNCHANGED overridden /\ edits \in Nat /\ files \in [Places -> Nat]
      /\ named \in [mode : Modes, at : Places, serial : Nat]
      /\ keys \in KeyStates \cup {None} /\ decl \in Decls
  BY DEF histories, DnssecInv, TypeOK, DataOK
<1>2. CASE GenerateKeys /\ UNCHANGED edits
  <2>1. /\ UNCHANGED <<decl, files>> /\ named'.mode = named.mode /\ named'.at = named.at
        /\ named.mode # "plain" /\ ~KeysGone
    BY <1>1, <1>2 DEF GenerateKeys, Bump, KeysGone
  <2> QED
    BY <1>1, <1>2, <2>1, SoloAround
<1>3. CASE KeyAppears /\ UNCHANGED edits
  <2>1. UNCHANGED <<decl, files, named, journal>> /\ ~KeysGone /\ named.mode # "plain"
    BY <1>3 DEF KeyAppears, KeysGone, AllHidden, Signing
  <2> QED
    BY <1>1, <1>3, <2>1, SoloAround
<1>4. CASE KeyGoes /\ UNCHANGED edits
  <2>1. /\ UNCHANGED <<decl, files>> /\ named'.mode = named.mode /\ named'.at = named.at
        /\ named.mode # "plain" /\ ~KeysGone
    BY <1>1, <1>4 DEF KeyGoes, Bump, KeysGone, AllHidden, Signing
  <2> QED
    BY <1>1, <1>4, <2>1, SoloAround
<1>5. CASE (PublishDs \/ RemoveDs) /\ UNCHANGED <<bind, cache, edits>>
  <2>1. UNCHANGED <<decl, files, named>> /\ Beside' = Beside /\ KeysGone' = KeysGone
        /\ Ahead' = Ahead
    BY <1>5 DEF bind, Beside, KeysGone, AllHidden, Ahead, SourceSerial
  <2> QED
    BY <1>1, <1>5, <2>1, SoloAround
<1>6. ASSUME NEW c \in Caches, UNCHANGED <<parent, edits>>,
             \/ Query(c) /\ UNCHANGED bind
             \/ Expire(c) /\ UNCHANGED <<decl, files, journal, named>>
      PROVE  SoloInv'
  <2>1. UNCHANGED <<decl, files, journal, named>> /\ Ahead' = Ahead
    BY <1>6 DEF bind, Ahead, SourceSerial
  <2>2. /\ keys' = None <=> keys = None
        /\ keys # None => keys'.goal = keys.goal /\ keys'.dnskey = keys.dnskey /\ keys'.ds = keys.ds
    <3>1. CASE UNCHANGED keys
      BY <3>1
    <3>2. CASE keys # None /\ keys' = [keys EXCEPT !.wait = @ \ {c}]
      <4>1. keys \in KeyStates /\ keys' \in KeyStates
        BY <1>1, <3>2 DEF KeyStates
      <4> QED
        BY <3>2, <4>1, NoneAssumption DEF KeyStates
    <3> QED
      BY <1>6, <3>1, <3>2 DEF bind, Expire
  <2>3. Beside' = Beside /\ (KeysGone => KeysGone')
    BY <2>1, <2>2 DEF Beside, KeysGone, AllHidden
  <2> QED
    BY <1>1, <1>6, <2>1, <2>3, SoloAround
<1>7. CASE SaveZone /\ UNCHANGED world
  <2>1. /\ UNCHANGED <<decl, keys>> /\ edits' = edits + 1
        /\ decl.at = "source" => files'["target"] = files["target"]
    BY <1>1, <1>7 DEF SaveZone, Places
  <2>2. named'.mode = named.mode /\ named'.at = named.at /\ (named.mode = "plain" => journal' = journal)
    BY <1>1, <1>7 DEF SaveZone, Bump, Signing
  <2>3. (named.mode = "plain" => Beside' = Beside) /\ KeysGone' = KeysGone
    BY <2>1, <2>2 DEF Beside, KeysGone, AllHidden
  <2>4. edits' \in Nat /\ edits <= edits' /\ edits' # edits
    BY <1>1, <2>1
  <2> QED
    BY <1>1, <2>1, <2>2, <2>3, <2>4, SoloAround
<1> QED
  BY <1>2, <1>3, <1>4, <1>5, <1>6, <1>7 DEF Surroundings

\* The claims about commands that run alone survive every step.
LEMMA SoloInductive ==
    ASSUME DnssecInv, SoloInv, [Next]_vars
    PROVE  SoloInv'
<1>1. ASSUME NEW p \in Procs, Step(p) PROVE SoloInv'
  <2>1. UNCHANGED <<parent, edits, issued>>
    BY <1>1 DEF Step
  <2> QED
    BY <1>1, <2>1, SoloGates, SoloBackup, SoloChecks, SoloStops, SoloAsks, SoloCopies,
       SoloDeclares, SoloDeclaresBack, SoloReconfigs, SoloReconfigFails, SoloRemoves DEF Step
<1>2. CASE UNCHANGED vars
  <2>1. /\ UNCHANGED <<tx, decl, overridden, named, files, edits>> /\ Beside' = Beside
        /\ KeysGone' = KeysGone /\ Ahead' = Ahead /\ edits \in Nat
    BY <1>2 DEF vars, bind, histories, Beside, KeysGone, AllHidden, Ahead, SourceSerial,
                DnssecInv, TypeOK, DataOK
  <2> QED
    BY <2>1, SoloAround
<1> QED
  BY <1>1, <1>2, SoloStarts, SoloSurroundings DEF Next

\* In every state, a command that ran alone from its beginning has kept what its
\* rollback and its last gate rely on.
THEOREM SoloInvariant == Spec => []SoloInv
<1>1. Init => SoloInv
  BY DEF Init, SoloInv, Running
<1>2. DnssecInv /\ SoloInv /\ [Next]_vars => SoloInv'
  BY SoloInductive
<1> QED
  BY <1>1, <1>2, DnssecInvariant, PTL DEF Spec

\* A rollback that reports success has restored the declaration, what named runs
\* and, of enable, the files (_rollback of dnssec_enable_transaction.py and
\* dnssec_disable_transaction.py), beside any edits, keys and resolvers, as long
\* as no other command ran.
THEOREM RollbackRestores == Spec => []RolledBackRestores
<1>1. DnssecInv /\ SoloInv => RolledBackRestores
  <2> SUFFICES ASSUME DnssecInv, SoloInv, NEW p \in Procs,
                      At(p, "rolled-back"), tx[p].ok, tx[p].alone
               PROVE  /\ decl = tx[p].plan
                      /\ tx[p].told => named.mode = decl.mode /\ named.at = decl.at
                      /\ tx[p].cmd = "enable" /\ named.mode = "plain" =>
                            files["target"] = 0 /\ Beside \subseteq tx[p].found
    BY DEF RolledBackRestores
  <2>1. Alone(tx[p])
    BY Arrived DEF Ready, Placed, Stages, Alone
  <2>2. Kept(tx[p], "rolled-back")
    BY <2>1, SoloAt
  <2> QED
    BY <2>2 DEF Kept, DeclKept, NamedKept, FilesKept, Undone
<1> QED
  BY <1>1, DnssecInvariant, SoloInvariant, PTL

\* The last stage of disable raises the serial that is served (_serial_gate of
\* dnssec_disable_transaction.py), whatever named, its keys and the resolvers do
\* meanwhile, unless the zone was edited since or another command ran beside it.
THEOREM SerialRises == Spec => SerialNeverFalls
<1> DEFINE Rises ==
      \A p \in Procs :
          /\ At(p, "reconfig") /\ tx[p].cmd = "finalize" /\ tx[p].alone /\ tx'[p] # tx[p]
          /\ named.mode # "plain" /\ named'.mode = "plain"
          => named'.serial > named.serial \/ overridden \/ edits # tx[p].gate
<1>1. DnssecInv /\ SoloInv /\ [Next]_vars => [Rises]_vars
  <2> SUFFICES ASSUME DnssecInv, SoloInv, Next, NEW p \in Procs,
                      At(p, "reconfig"), tx[p].cmd = "finalize", tx[p].alone, tx'[p] # tx[p],
                      named.mode # "plain", named'.mode = "plain", ~overridden,
                      edits = tx[p].gate
               PROVE  named'.serial > named.serial
    OBVIOUS
  <2>1. Kept(tx[p], "reconfig") /\ tx[p] \in Txs
    BY SoloAt, Arrived DEF Alone, Changing
  <2>2. Ahead
    BY <2>1 DEF Kept, SerialKept, Gated
  <2>3. named' = Loaded /\ decl.mode = "plain"
    <3>1. decl.mode = "plain"
      BY <2>1 DEF Kept, DeclKept, SerialKept, Written
    <3>2. Reloads
      <4>1. ASSUME NEW q \in Procs, Start(q) PROVE FALSE
        BY <4>1 DEF Start, bind
      <4>2. ASSUME NEW q \in Procs, Step(q) PROVE Reloads
        <5>1. q = p
          <6>1. Running(q)
            BY <4>2 DEF Step, Preflight, Ask, Decide, CheckDs, KaspGate, SerialGate, Backup,
                   CopyZone, Declare, Verify, Reconfig, ReconfigFails, FileFails, DeclareBack,
                   Remove, UndoFails, Finish, PrepareSerial, ReplaceFile, SerialFails, Crash, At
          <6> QED
            BY <6>1 DEF SoloInv, At
        <5>2. ~UNCHANGED named /\ tx[q].at = "reconfig"
          BY <5>1 DEF At
        <5> QED
          BY <4>2, <5>2 DEF Step, Preflight, Ask, Decide, CheckDs, KaspGate, SerialGate, Backup,
                 CopyZone, Declare, Verify, Reconfig, ReconfigFails, FileFails, DeclareBack,
                 Remove, UndoFails, Finish, PrepareSerial, ReplaceFile, SerialFails, Crash, bind
      <4>3. ~Surroundings \/ ~UNCHANGED tx
        OBVIOUS
      <4> QED
        BY <4>1, <4>2 DEF Next
    <3> QED
      BY <3>1, <3>2 DEF Reloads
  <2>4. files \in [Places -> Nat] /\ decl \in Decls /\ named.serial \in Nat
    BY DEF DnssecInv, TypeOK, DataOK
  <2>5. SourceSerial \in Nat /\ SourceSerial > named.serial
    BY <2>2, <2>4 DEF Ahead, SourceSerial, Decls
  <2> QED
    BY <2>3, <2>4, <2>5 DEF Loaded
<1>2. SerialNeverFalls <=> [][Rises]_vars
  BY PTL DEF SerialNeverFalls
<1> HIDE DEF Rises
<1> QED
  BY <1>1, <1>2, DnssecInvariant, SoloInvariant, PTL DEF Spec
=============================================================================
