-------------------------- MODULE DnssecLifecycle --------------------------
(* The life of a signed zone: dnssec enable, confirm-ds, withdrawal-confirm, *)
(* the two stages of disable and the serial prepared for the last one        *)
(* (dnssec_enable_transaction.py, dnssec_confirm_ds.py,                      *)
(* dnssec_withdrawal_confirm.py, dnssec_disable_transaction.py,              *)
(* dnssec_finalize_serial.py).  The commands take no lock; beside them run   *)
(* named with its key manager (KASP), the registrar, the caches of the       *)
(* resolvers and the editor of the zone.                                     *)
EXTENDS Naturals, Sequences, FiniteSets

CONSTANTS
    Procs,       \* processes that run commands
    Caches,      \* resolvers of the world
    Resolvers,   \* those the commands ask
    Commands,    \* the commands that may be started
    Faults,      \* subset of {"command", "io", "undo", "crash", "silent"}
    MaxTx,       \* commands started
    MaxEdits,    \* saves of the editor
    None

ASSUME DnssecAssumption ==
    /\ Resolvers \subseteq Caches /\ Resolvers # {}
    /\ Commands \subseteq {"enable", "confirm", "withdraw", "insecure", "serial", "finalize"}
    /\ Faults \subseteq {"command", "io", "undo", "crash", "silent"}
    /\ MaxTx \in Nat /\ MaxEdits \in Nat

Modes == {"plain", "signed", "insecure"}
Places == {"source", "target"}
Changing == {"enable", "insecure", "finalize"}
Stages == {"preflight", "ask", "published", "withdrawn", "kasp", "serial-gate", "snapshot",
           "backup", "copy-zone", "checkzone", "declare", "checkconf", "reconfig",
           "zonestatus", "dnssec-status", "commit", "declare-back", "undo-reconfig",
           "remove", "rolled-back", "served", "replace"}

Decls == [mode : Modes, at : Places]
KeyStates == [goal : {"omnipresent", "hidden"},
              dnskey : {"rumoured", "omnipresent", "hidden"},
              ds : {"rumoured", "omnipresent", "unretentive", "hidden"},
              published : BOOLEAN, withdrawn : BOOLEAN, wait : SUBSET Caches]
Txs == [cmd : Changing \cup {"confirm", "withdraw", "serial"}, at : Stages,
        plan : Decls, goal : Decls, ack : BOOLEAN, activate : BOOLEAN,
        asked : SUBSET Resolvers, heard : SUBSET {"ds", "no", "error"},
        backup : Decls \cup {None}, raised : Nat, found : SUBSET {"keys", "journal"},
        copied : BOOLEAN, written : BOOLEAN, told : BOOLEAN, gate : Nat,
        ok : BOOLEAN, alone : BOOLEAN]

ASSUME NoneAssumption == None \notin Decls /\ None \notin KeyStates /\ None \notin Txs

VARIABLES
    decl,      \* the declaration: [mode, at], its policy and its zone file
    files,     \* place -> the serial of the zone file there, 0 for none
    keys,      \* the key files and their KASP state, or None
    journal,   \* the serial of the signed copy on disk, 0 when there is none
    named,     \* [mode, at, serial]: what named runs and serves
    parent,    \* the DS at the registrar: "never", "published", "removed"
    cache,     \* resolver -> "empty", "ds" or "no" for a cached denial
    tx,        \* process -> its command or None
    issued, edits,   \* bounded counters
    overridden,  \* history: an unread KASP state was overridden
    fooled       \* history: a resolver denied a DS that was published

bind == <<decl, files, keys, journal, named>>
world == <<parent, cache>>
histories == <<overridden, fooled>>
vars == <<bind, world, tx, issued, edits, histories>>

DataOK ==
    /\ decl \in Decls
    /\ files \in [Places -> Nat] /\ journal \in Nat
    /\ keys \in KeyStates \cup {None}
    /\ named \in [mode : Modes, at : Places, serial : Nat]
    /\ parent \in {"never", "published", "removed"}
    /\ cache \in [Caches -> {"empty", "ds", "no"}]
    /\ issued \in Nat /\ edits \in Nat
    /\ overridden \in BOOLEAN /\ fooled \in BOOLEAN

TypeOK == DataOK /\ tx \in [Procs -> Txs \cup {None}]

Running(p) == tx[p] # None
At(p, place) == Running(p) /\ tx[p].at = place
RunningIn(cmds) == \E p \in Procs : Running(p) /\ tx[p].cmd \in cmds

\* The DNSKEY and its signatures are in the zone named serves.
Signed == named.mode # "plain" /\ keys # None /\ keys.dnskey # "hidden"

Larger(m, n) == IF m > n THEN m ELSE n

NewKeys == [goal |-> "omnipresent", dnskey |-> "rumoured", ds |-> "hidden",
            published |-> FALSE, withdrawn |-> FALSE, wait |-> {}]

\* A zone without DNSSEC, one signed long ago with its DS everywhere, or one
\* whose keys are withdrawn and that waits for the last stage of disable.
Init ==
    /\ parent \in {"never", "published", "removed"}
    /\ LET mode == CASE parent = "never" -> "plain"
                      [] parent = "published" -> "signed"
                      [] parent = "removed" -> "insecure"
           at == IF parent = "never" THEN "source" ELSE "target"
           old == [goal |-> "omnipresent", dnskey |-> "omnipresent", ds |-> "omnipresent",
                   published |-> TRUE, withdrawn |-> FALSE, wait |-> {}]
       IN /\ decl = [mode |-> mode, at |-> at]
          /\ files = [f \in Places |-> IF f = at THEN 1 ELSE 0]
          /\ named = [mode |-> mode, at |-> at, serial |-> IF parent = "never" THEN 1 ELSE 2]
          /\ journal = IF parent = "never" THEN 0 ELSE 2
          /\ keys = CASE parent = "never" -> None
                       [] parent = "published" -> old
                       [] parent = "removed" ->
                            [old EXCEPT !.goal = "hidden", !.dnskey = "hidden",
                                        !.ds = "hidden", !.withdrawn = TRUE]
    /\ cache \in [Caches -> IF parent = "published" THEN {"ds"} ELSE {"empty", "no"}]
    /\ tx = [p \in Procs |-> None]
    /\ issued = 0 /\ edits = 0
    /\ overridden = FALSE /\ fooled = FALSE

(* The commands ************************************************************)

\* The planners: enable wants an unsigned zone and moves it into its own
\* directory, the stages of disable a declaration with a policy.
EnablePlans == decl = [mode |-> "plain", at |-> "source"] /\ files["target"] = 0
DisablePlans == decl.mode # "plain"
Plans(cmd) ==
    /\ cmd = "enable" => EnablePlans
    /\ cmd \in {"insecure", "finalize"} => DisablePlans

\* The declaration a command writes.
Goal(cmd) ==
    CASE cmd = "enable" -> [mode |-> "signed", at |-> "target"]
      [] cmd = "insecure" -> [decl EXCEPT !.mode = "insecure"]
      [] cmd = "finalize" -> [decl EXCEPT !.mode = "plain"]
      [] OTHER -> decl

First(cmd) ==
    CASE cmd \in Changing -> "preflight"
      [] cmd \in {"confirm", "withdraw"} -> "ask"
      [] cmd = "serial" -> "served"

NewTx(cmd, ack, activate) ==
    [cmd |-> cmd, at |-> First(cmd), plan |-> decl, goal |-> Goal(cmd), ack |-> ack,
     activate |-> activate, asked |-> {}, heard |-> {}, backup |-> None, raised |-> 0,
     found |-> {}, copied |-> FALSE, written |-> FALSE, told |-> FALSE, gate |-> 0,
     ok |-> TRUE, alone |-> \A q \in Procs : ~Running(q)]

\* Plan and begin.
Begin(p, cmd, ack, activate) ==
    /\ cmd \in Commands /\ Plans(cmd)
    /\ tx' = [q \in Procs |->
          IF q = p THEN NewTx(cmd, ack, activate)
          ELSE IF Running(q) THEN [tx[q] EXCEPT !.alone = FALSE] ELSE tx[q]]

\* The command line. enable takes commit only with activate; disable may be told
\* not to activate, and to go on when a state cannot be read
\* (acknowledge_unsigned).
EnableCommand(p) == Begin(p, "enable", FALSE, TRUE)
ConfirmCommand(p) == Begin(p, "confirm", FALSE, TRUE)
WithdrawalCommand(p) == Begin(p, "withdraw", FALSE, TRUE)
SerialCommand(p) == Begin(p, "serial", FALSE, TRUE)
DisableCommand(p) ==
    \E stage \in {"insecure", "finalize"}, ack, activate \in BOOLEAN :
        Begin(p, stage, ack, activate)

Start(p) ==
    /\ ~Running(p) /\ issued < MaxTx
    /\ issued' = issued + 1
    /\ \/ EnableCommand(p) \/ ConfirmCommand(p) \/ WithdrawalCommand(p)
       \/ SerialCommand(p) \/ DisableCommand(p)
    /\ UNCHANGED <<bind, world, edits, histories>>

Go(p, t, place) == tx' = [tx EXCEPT ![p] = [t EXCEPT !.at = place]]

\* The command is over: refused, failed, rolled back, committed or dead.
End(p) == tx' = [tx EXCEPT ![p] = None]

\* The rollback of enable and of disable.
UndoFiles(t) == IF t.cmd = "enable" THEN "remove" ELSE "rolled-back"

\* Mutant: named is not told of the declaration that is back.
UndoNamed_Silent(t) == UndoFiles(t)

UndoNamed(t) == IF t.told THEN "undo-reconfig" ELSE UndoFiles(t)
Fail(p, t) == Go(p, t, IF t.written THEN "declare-back" ELSE UndoNamed(t))

\* What stands beside the zone file: the keys and the signed copy.
Beside == (IF keys = None THEN {} ELSE {"keys"}) \cup (IF journal = 0 THEN {} ELSE {"journal"})

\* The declaration must be the planned one; enable wants neither a zone file at
\* its target nor keys or signed copies of an earlier life; disable a change.
Preflight(p) ==
    /\ At(p, "preflight")
    /\ IF \/ decl # tx[p].plan \/ tx[p].goal = tx[p].plan
          \/ tx[p].cmd = "enable" /\ (files["target"] # 0 \/ Beside # {})
       THEN End(p)
       ELSE Go(p, tx[p], CASE tx[p].cmd = "enable" -> "snapshot"
                           [] tx[p].cmd = "insecure" -> "ask"
                           [] tx[p].cmd = "finalize" -> "kasp")
    /\ UNCHANGED <<bind, cache, histories>>

\* A resolver answers from its cache or asks the parent.
Answer(c) == IF cache[c] # "empty" THEN cache[c]
             ELSE IF parent = "published" THEN "ds" ELSE "no"

\* One resolver after the other; one that fails to answer counts as an error.
\* dig also succeeds when the server reports a failure of its own: no DS is
\* read then.
Ask(p) ==
    /\ At(p, "ask") /\ tx[p].asked # Resolvers
    /\ \E c \in Resolvers \ tx[p].asked, fault \in {"none", "no-answer", "servfail"} :
          /\ fault # "none" => "silent" \in Faults
          /\ cache' = IF fault = "none" THEN [cache EXCEPT ![c] = Answer(c)] ELSE cache
          /\ LET heard == CASE fault = "none" -> Answer(c)
                            [] fault = "no-answer" -> "error"
                            [] fault = "servfail" -> "no"
             IN /\ tx' = [tx EXCEPT ![p].asked = @ \cup {c}, ![p].heard = @ \cup {heard}]
                /\ fooled' = (fooled \/ (heard = "no" /\ (parent = "published" \/ cache[c] = "ds")))
    /\ UNCHANGED <<bind, overridden>>

\* Mutant: a resolver that does not answer does not count.
AskGate_ErrorsPass(t) ==
    CASE t.cmd = "confirm" -> t.heard = {"ds"} /\ Signed
      [] t.cmd \in {"withdraw", "insecure"} -> "ds" \notin t.heard

\* confirm-ds wants the DS from every resolver and the keys from the served
\* zone; withdrawal-confirm its absence everywhere; the first stage of disable
\* the same, unless the operator overrides an answer that is missing.
DsEverywhere(t) == t.heard = {"ds"} /\ Signed
DsNowhere(t) == t.heard = {"no"}
InsecureGate(t) == DsNowhere(t) \/ ("error" \in t.heard /\ t.ack)

AskGate(t) ==
    CASE t.cmd = "confirm" -> DsEverywhere(t)
      [] t.cmd = "withdraw" -> DsNowhere(t)
      [] t.cmd = "insecure" -> InsecureGate(t)

Decide(p) ==
    /\ At(p, "ask") /\ tx[p].asked = Resolvers
    /\ IF AskGate(tx[p])
       THEN Go(p, tx[p], CASE tx[p].cmd = "confirm" -> "published"
                           [] tx[p].cmd = "withdraw" -> "withdrawn"
                           [] tx[p].cmd = "insecure" -> "backup")
       ELSE End(p)
    /\ UNCHANGED <<bind, cache, histories>>

\* rndc dnssec -checkds; it may fail, or time out after its effect.
CheckDs(p) ==
    /\ At(p, "published") \/ At(p, "withdrawn")
    /\ \/ /\ keys # None /\ named.mode # "plain"
          /\ keys' = IF At(p, "published") THEN [keys EXCEPT !.published = TRUE]
                     ELSE [keys EXCEPT !.withdrawn = TRUE,
                                       !.wait = {c \in Caches : cache[c] = "ds"}]
       \/ /\ "command" \in Faults \/ keys = None \/ named.mode = "plain"
          /\ UNCHANGED keys
    /\ End(p)
    /\ UNCHANGED <<decl, files, journal, named, cache, histories>>

AllHidden == keys.goal = "hidden" /\ keys.dnskey = "hidden" /\ keys.ds = "hidden"

\* The states of the keys as named reports them; only a report that cannot be
\* read may be overridden.
KaspGate(p) ==
    /\ At(p, "kasp")
    /\ LET readable == named.mode # "plain" /\ keys # None
       IN \/ /\ readable
             /\ IF AllHidden THEN Go(p, tx[p], "serial-gate") ELSE End(p)
             /\ UNCHANGED overridden
          \/ /\ ~readable \/ "command" \in Faults
             /\ IF tx[p].ack THEN Go(p, tx[p], "serial-gate") ELSE End(p)
             /\ overridden' = (overridden \/ tx[p].ack)
    /\ UNCHANGED <<bind, cache, fooled>>

SourceSerial == files[decl.at]

\* Mutant: an equal serial passes.
Newer_OrEqual(source, served) == source >= served

Newer(source, served) == source > served

\* The serial of the source against the serial named serves.
SerialGate(p) ==
    /\ At(p, "serial-gate")
    /\ \/ /\ Newer(SourceSerial, named.serial)
          /\ Go(p, [tx[p] EXCEPT !.gate = edits], "backup")
       \/ /\ ~Newer(SourceSerial, named.serial) \/ "command" \in Faults
          /\ End(p)
    /\ UNCHANGED <<bind, cache, histories>>

\* The copies of the declaration, and of the zone file for enable.
Backup(p) ==
    /\ \/ /\ At(p, "snapshot")
          /\ Go(p, [tx[p] EXCEPT !.backup = decl, !.found = Beside], "copy-zone")
       \/ /\ At(p, "backup")
          /\ Go(p, [tx[p] EXCEPT !.backup = decl], "declare")
    /\ UNCHANGED <<bind, cache, histories>>

CopyZone(p) ==
    /\ At(p, "copy-zone")
    /\ files' = [files EXCEPT !["target"] = files["source"]]
    /\ Go(p, [tx[p] EXCEPT !.copied = TRUE], "checkzone")
    /\ UNCHANGED <<decl, keys, journal, named, cache, histories>>

\* The declaration is written as it was planned.
Declare(p) ==
    /\ At(p, "declare")
    /\ decl' = tx[p].goal
    /\ Go(p, [tx[p] EXCEPT !.written = TRUE], "checkconf")
    /\ UNCHANGED <<files, keys, journal, named, cache, histories>>

\* named-checkzone, named-checkconf, zonestatus and the signing status only
\* read; they may fail for reasons of their own.  Without the flag activate the
\* command ends after named-checkconf.
Verify(p) ==
    /\ Running(p) /\ tx[p].at \in {"checkzone", "checkconf", "zonestatus", "dnssec-status"}
    /\ LET possible == CASE At(p, "zonestatus") -> named.serial # 0
                         [] At(p, "dnssec-status") -> named.mode # "plain"
                         [] OTHER -> TRUE
           next == CASE At(p, "checkzone") -> "declare"
                     [] At(p, "checkconf") /\ tx[p].activate -> "reconfig"
                     [] At(p, "zonestatus") /\ tx[p].cmd = "enable" -> "dnssec-status"
                     [] OTHER -> "commit"
       IN \/ possible /\ Go(p, tx[p], next)
          \/ (~possible \/ "command" \in Faults) /\ Fail(p, tx[p])
    /\ UNCHANGED <<bind, cache, histories>>

\* A zone that loses its policy is loaded from its file, one that gets a policy
\* starts from its signed copy.
Loaded ==
    LET raw == SourceSerial
    IN [mode |-> decl.mode, at |-> decl.at,
        serial |-> IF raw = 0 THEN 0
                   ELSE IF decl.mode = "plain"
                   THEN IF named.mode = "plain" /\ named.at = decl.at THEN named.serial ELSE raw
                   ELSE IF named.mode # "plain" THEN named.serial
                   ELSE IF journal = 0 THEN raw ELSE Larger(raw, journal + 1)]

\* rndc reconfig; the built-in policy insecure asks for the keys to be
\* withdrawn.
Reloads ==
    /\ named' = Loaded
    /\ keys' = IF keys = None \/ decl.mode = "plain" THEN keys
               ELSE [keys EXCEPT !.goal = IF decl.mode = "insecure" THEN "hidden"
                                          ELSE "omnipresent"]
    /\ journal' = IF decl.mode = "plain" THEN journal ELSE Larger(journal, Loaded.serial)
    /\ UNCHANGED <<decl, files>>

Reconfig(p) ==
    /\ \/ At(p, "reconfig") /\ Go(p, [tx[p] EXCEPT !.told = TRUE], "zonestatus")
       \/ At(p, "undo-reconfig") /\ Go(p, tx[p], UndoFiles(tx[p]))
    /\ Reloads
    /\ UNCHANGED <<cache, histories>>

\* rndc reconfig fails, or its time is over after it took effect.
ReconfigFails(p) ==
    /\ \/ /\ At(p, "reconfig") /\ "command" \in Faults
          /\ Fail(p, [tx[p] EXCEPT !.told = TRUE])
       \/ /\ At(p, "undo-reconfig") /\ "undo" \in Faults
          /\ Go(p, [tx[p] EXCEPT !.ok = FALSE], UndoFiles(tx[p]))
    /\ Reloads \/ UNCHANGED bind
    /\ UNCHANGED <<cache, histories>>

\* A backup, a copy or a write fails, or the report of a COMMIT.
FileFails(p) ==
    /\ Running(p) /\ "io" \in Faults
    /\ tx[p].at \in {"backup", "snapshot", "copy-zone", "declare", "commit"}
    /\ Fail(p, tx[p])
    /\ UNCHANGED <<bind, cache, histories>>

DeclareBack(p) ==
    /\ At(p, "declare-back")
    /\ decl' = tx[p].backup
    /\ Go(p, tx[p], UndoNamed(tx[p]))
    /\ UNCHANGED <<files, keys, journal, named, cache, histories>>

\* enable removes its copy and what has appeared beside it since.
Remove(p) ==
    /\ At(p, "remove")
    /\ files' = IF tx[p].copied THEN [files EXCEPT !["target"] = 0] ELSE files
    /\ keys' = IF "keys" \in tx[p].found THEN keys ELSE None
    /\ journal' = IF "journal" \in tx[p].found THEN journal ELSE 0
    /\ Go(p, tx[p], "rolled-back")
    /\ UNCHANGED <<decl, named, cache, histories>>

\* A file of the rollback fails: the rest is skipped.
UndoFails(p) ==
    /\ At(p, "declare-back") \/ At(p, "remove")
    /\ "undo" \in Faults
    /\ Go(p, [tx[p] EXCEPT !.ok = FALSE], "rolled-back")
    /\ UNCHANGED <<bind, cache, histories>>

Finish(p) ==
    /\ At(p, "commit") \/ At(p, "rolled-back")
    /\ End(p)
    /\ UNCHANGED <<bind, cache, histories>>

\* prepare-finalize-serial: the serial goes above the one served, in a copy of
\* the file that later takes its place.  No lock is held and named is not told.
PrepareSerial(p) ==
    /\ At(p, "served")
    /\ IF named.serial = 0 \/ files[tx[p].plan.at] = 0
       THEN End(p)
       ELSE Go(p, [tx[p] EXCEPT !.raised = Larger(files[tx[p].plan.at], named.serial) + 1],
               "replace")
    /\ UNCHANGED <<bind, cache, histories>>

ReplaceFile(p) ==
    /\ At(p, "replace")
    /\ files' = [files EXCEPT ![tx[p].plan.at] = tx[p].raised]
    /\ End(p)
    /\ UNCHANGED <<decl, keys, journal, named, cache, histories>>

SerialFails(p) ==
    /\ At(p, "served") \/ At(p, "replace")
    /\ "io" \in Faults
    /\ End(p)
    /\ UNCHANGED <<bind, cache, histories>>

Crash(p) ==
    /\ Running(p) /\ "crash" \in Faults
    /\ End(p)
    /\ UNCHANGED <<bind, cache, histories>>

Step(p) ==
    /\ \/ Preflight(p) \/ Ask(p) \/ Decide(p) \/ CheckDs(p) \/ KaspGate(p)
       \/ SerialGate(p) \/ Backup(p) \/ CopyZone(p) \/ Declare(p) \/ Verify(p)
       \/ Reconfig(p) \/ ReconfigFails(p) \/ FileFails(p) \/ DeclareBack(p)
       \/ Remove(p) \/ UndoFails(p) \/ Finish(p) \/ PrepareSerial(p)
       \/ ReplaceFile(p) \/ SerialFails(p) \/ Crash(p)
    /\ UNCHANGED <<parent, edits, issued>>

(* named, the registrar, the caches and the editor *************************)

Signing == named.mode # "plain"

\* The serial of the signed copy grows with every change of it.
Bump(n) ==
    /\ named' = [named EXCEPT !.serial = @ + n]
    /\ journal' = Larger(journal, named.serial + n)

GenerateKeys ==
    /\ named.mode = "signed" /\ keys = None /\ named.serial # 0
    /\ keys' = NewKeys
    /\ Bump(1)
    /\ UNCHANGED <<decl, files>>

\* The key manager moves one state of the key when its time has come; a DS
\* goes only after -checkds withdrawn and the time to live of its copies.
KeyAppears ==
    /\ Signing /\ keys # None /\ keys.goal = "omnipresent"
    /\ \/ keys.dnskey \in {"hidden", "rumoured"} /\ keys.ds = "hidden"
          /\ keys' = [keys EXCEPT !.dnskey = "omnipresent", !.ds = "rumoured"]
       \/ keys.ds = "rumoured" /\ keys.published
          /\ keys' = [keys EXCEPT !.ds = "omnipresent"]
       \/ keys.ds = "unretentive"
          /\ keys' = [keys EXCEPT !.ds = "rumoured"]
    /\ UNCHANGED <<decl, files, named, journal>>

KeyGoes ==
    /\ Signing /\ keys # None /\ keys.goal = "hidden"
    /\ \/ keys.ds \in {"rumoured", "omnipresent"}
          /\ keys' = [keys EXCEPT !.ds = "unretentive"]
          /\ UNCHANGED <<named, journal>>
       \/ keys.ds = "unretentive" /\ keys.withdrawn /\ keys.wait = {}
          /\ keys' = [keys EXCEPT !.ds = "hidden"]
          /\ UNCHANGED <<named, journal>>
       \/ keys.ds = "hidden" /\ keys.dnskey # "hidden"
          /\ keys' = [keys EXCEPT !.dnskey = "hidden"]
          /\ Bump(1)
    /\ UNCHANGED <<decl, files>>

\* The resolver the report asks for the DS, the first of the list.
MainResolver == CHOOSE c \in Resolvers : TRUE

\* The report is FAIL: a zone that is not loaded, one that should be signed and
\* is not, one that is not and has a DS.
ReportFails ==
    \/ named.serial = 0
    \/ decl.mode = "signed" /\ ~Signed
    \/ decl.mode = "plain" /\ Answer(MainResolver) = "ds"

\* The next step the guidance names.
Stage ==
    IF ReportFails THEN "ERROR"
    ELSE CASE decl.mode = "plain" -> "UNSIGNED"
           [] decl.mode = "insecure" ->
                 IF Signing /\ keys # None /\ AllHidden THEN "READY_TO_FINALIZE"
                 ELSE "WITHDRAWING"
           [] decl.mode = "signed" ->
                 IF Answer(MainResolver) = "ds" THEN "ACTIVE"
                 ELSE IF keys.dnskey = "omnipresent" THEN "READY_FOR_DS"
                 ELSE "PROPAGATING"

\* The status screen allows the DS to be published: the guidance does and no
\* resolver has it yet.
Publishable == Stage = "READY_FOR_DS" /\ \A c \in Resolvers : Answer(c) = "no"

\* The operator hands the DS over as the screen allows it and no command that
\* goes the other way was begun, and has it removed at any time.
PublishDs ==
    /\ parent = "never" /\ Publishable
    /\ keys.goal = "omnipresent" /\ ~keys.withdrawn
    /\ ~RunningIn(Changing \cup {"withdraw"})
    /\ parent' = "published"

RemoveDs == parent = "published" /\ parent' = "removed"

\* A client asks a resolver; a cached answer grows old.
Query(c) == cache[c] = "empty" /\ cache' = [cache EXCEPT ![c] = Answer(c)]

Expire(c) ==
    /\ cache[c] # "empty"
    /\ cache' = [cache EXCEPT ![c] = "empty"]
    /\ keys' = IF keys = None THEN keys ELSE [keys EXCEPT !.wait = @ \ {c}]

\* The zone is edited: its file gets the next serial and named loads it.
SaveZone ==
    /\ edits < MaxEdits /\ files[decl.at] # 0
    /\ edits' = edits + 1
    /\ LET serial == files[decl.at] + 1
       IN /\ files' = [files EXCEPT ![decl.at] = serial]
          /\ IF named.at # decl.at \/ named.serial = 0
             THEN UNCHANGED <<named, journal>>
             ELSE IF Signing
             THEN Bump(IF serial > named.serial THEN serial - named.serial ELSE 1)
             ELSE named' = [named EXCEPT !.serial = serial] /\ UNCHANGED journal
    /\ UNCHANGED <<decl, keys>>

Surroundings ==
    \/ /\ GenerateKeys \/ KeyAppears \/ KeyGoes
       /\ UNCHANGED <<world, edits>>
    \/ (PublishDs \/ RemoveDs) /\ UNCHANGED <<bind, cache, edits>>
    \/ \E c \in Caches : \/ Query(c) /\ UNCHANGED bind
                         \/ Expire(c) /\ UNCHANGED <<decl, files, journal, named>>
       /\ UNCHANGED <<parent, edits>>
    \/ SaveZone /\ UNCHANGED world

Next ==
    \/ \E p \in Procs : Start(p) \/ Step(p)
    \/ Surroundings /\ UNCHANGED <<tx, issued, histories>>

Spec == Init /\ [][Next]_vars

(* Properties **************************************************************)

\* As long as some resolver of the world holds the DS, the zone is served
\* signed, whatever is started in which order, fails or dies (the gates of
\* withdrawal-confirm and of both stages of disable).  Excepted are an operator
\* who overrides KASP states that could not be read and a resolver that denies
\* a DS it should know, from an old denial or as its failure goes unnoticed.
NeverBogus ==
    (\E c \in Caches : cache[c] = "ds") => Signed \/ overridden \/ fooled

\* The last stage of disable leaves named with a serial above the one of the
\* signed zone, so that the secondaries follow (_serial_gate), unless the zone
\* was saved between the gate and the reconfiguration or another command ran
\* beside it: a prepare-finalize-serial that began earlier may put back an older
\* file after the gate.
SerialNeverFalls ==
    [][\A p \in Procs :
          /\ At(p, "reconfig") /\ tx[p].cmd = "finalize" /\ tx[p].alone /\ tx'[p] # tx[p]
          /\ named.mode # "plain" /\ named'.mode = "plain"
          => named'.serial > named.serial \/ overridden \/ edits # tx[p].gate]_vars

\* A rollback that reports success leaves the declaration as planned, named
\* running what it declares as soon as named had been told, and of enable
\* neither the copy of the zone nor new keys nor a new signed copy, as long as no other
\* command ran beside it and named does not go on signing after an earlier one
\* that died or could not be rolled back.
RolledBackRestores ==
    \A p \in Procs : At(p, "rolled-back") /\ tx[p].ok /\ tx[p].alone =>
        /\ decl = tx[p].plan
        /\ tx[p].told => named.mode = decl.mode /\ named.at = decl.at
        /\ tx[p].cmd = "enable" /\ named.mode = "plain" => files["target"] = 0 /\ Beside \subseteq tx[p].found
=============================================================================
