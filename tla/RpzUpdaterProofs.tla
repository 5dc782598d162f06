------------------------- MODULE RpzUpdaterProofs -------------------------
(***************************************************************************)
(* Theorems about RpzUpdater, for any faults, any number of transactions   *)
(* and any serials: the two updaters are never both scheduled, an edit of  *)
(* the configuration survives, and a rolled-back transaction has restored  *)
(* what it changed.                                                        *)
(***************************************************************************)
EXTENDS RpzUpdater, SequenceTheorems, TLAPS

(* The order of the steps **************************************************)

\* The steps of every script, in an order that each script follows.
Rank(step) ==
    CASE step = "recheck" -> 1
      [] step = "backup" -> 2
      [] step = "zone" -> 3
      [] step = "declaration" -> 4
      [] step = "updater" -> 5
      [] step = "service" -> 6
      [] step = "timer" -> 7
      [] step = "options" -> 8
      [] step = "root" -> 9
      [] step = "checkconf" -> 10
      [] step = "disable-managed" -> 11
      [] step = "options-back" -> 12
      [] step = "root-back" -> 13
      [] step = "remove" -> 14
      [] step = "daemon-reload" -> 15
      [] step = "reconfig" -> 16
      [] step = "zonestatus" -> 17
      [] step = "disable-external" -> 18
      [] step = "enable-managed" -> 19
      [] step = "start-managed" -> 20
      [] step = "await-managed" -> 21
      [] step = "gate" -> 22
      [] step = "commit" -> 23
      [] OTHER -> 24

Ordered(s) == \A i, j \in 1..Len(s) : i < j => Rank(s[i]) < Rank(s[j])

\* The steps still to come.
Pending(s) == {s[i] : i \in 1..Len(s)}
Due(step) == step \in Pending(tx.todo)

\* A step still due keeps the ones that must follow it due.
Closed(s) ==
    /\ "options-back" \in Pending(s) => "root-back" \in Pending(s)
    /\ "root-back" \in Pending(s) => "remove" \in Pending(s)

(* The inductive invariant *************************************************)

Between == tx = None \/ tx.outcome \in {"BLOCKED", "ROLLED-BACK"}
Forward == tx # None /\ tx.todo # <<>> /\ ~tx.undoing
Undoing == tx # None /\ tx.undoing /\ tx.ok /\ tx.outcome \in {None, "ROLLED-BACK"}

Unscheduled == "managed" \notin timers.enabled \cup timers.active
Stopped == "external" \notin timers.enabled \cup timers.active

InstallForward == {"recheck", "backup", "zone", "declaration", "updater",
    "service", "timer", "options", "root", "checkconf", "daemon-reload",
    "reconfig", "zonestatus", "enable-managed", "start-managed",
    "await-managed", "gate", "commit"}
MigrateForward == {"recheck", "backup", "updater", "service", "timer",
    "daemon-reload", "disable-external", "enable-managed", "start-managed",
    "await-managed", "gate", "commit"}
InstallBack == {"disable-managed", "options-back", "root-back", "remove",
    "daemon-reload", "reconfig"}
MigrateBack == {"disable-managed", "remove", "daemon-reload", "restore-external"}

\* Before the rollback every step after one that is due is due.
AllFollow ==
    \A x \in Pending(tx.todo),
       y \in IF tx.kind = "install" THEN InstallForward ELSE MigrateForward :
          Rank(x) < Rank(y) => Due(y)

\* The script of a transaction is in order and made of the steps of its kind
\* and direction; it is empty exactly when the transaction is over.
Scripted ==
    tx # None =>
      /\ Ordered(tx.todo)
      /\ tx.todo = <<>> <=> tx.outcome # None
      /\ Pending(tx.todo) \subseteq
           IF tx.kind = "install"
           THEN IF tx.undoing THEN InstallBack ELSE InstallForward
           ELSE IF tx.undoing THEN MigrateBack ELSE MigrateForward
      /\ ~tx.undoing => tx.ok
      /\ Forward => Due("commit") /\ AllFollow
      /\ Closed(tx.todo)
      /\ tx.outcome = "BLOCKED" => ~tx.undoing /\ tx.ok
      /\ tx.outcome = "ROLLED-BACK" => tx.undoing /\ tx.ok

\* The origin of a site decides which transactions it sees and which jobs run.
OriginKept ==
    /\ site.origin = "none" => Stopped /\ jobs["external"] = 0
    /\ tx # None => /\ tx.kind = "install" <=> site.origin = "none"
                    /\ "managed" \notin tx.was.timers.enabled \cup tx.was.timers.active
                    /\ site.origin = "none" =>
                         "external" \notin tx.was.timers.enabled \cup tx.was.timers.active

\* Which of the two timers may be scheduled at which step.
Scheduled ==
    /\ Between => Unscheduled
    /\ tx # None /\ tx.kind = "migrate" =>
         /\ timers.enabled \ {"managed"} \subseteq tx.was.timers.enabled
         /\ timers.active \ {"managed"} \subseteq tx.was.timers.active
    /\ Forward /\ tx.kind = "install" =>
         IF Due("checkconf") THEN ~tx.started /\ Unscheduled ELSE tx.started
    /\ Forward /\ tx.kind = "migrate" =>
         IF Due("disable-external")
         THEN ~tx.switched /\ timers = tx.was.timers
         ELSE tx.switched /\ Stopped
    /\ Undoing => Unscheduled \/ Due("disable-managed")
    /\ Undoing /\ tx.kind = "migrate" =>
         /\ Unscheduled \/ Stopped
         /\ \/ Due("restore-external")
            \/ tx.cut
            \/ /\ tx.was.timers.enabled \subseteq timers.enabled
               /\ tx.was.timers.active \subseteq timers.active

\* What an administrator wrote before the second comparison is in what was read.
EditsRead ==
    /\ Forward /\ Due("backup") => tx.read = {}
    /\ Running /\ tx.kind = "install" /\ ~Due("recheck") =>
         /\ \A f \in ConfFiles : "edit" \in conf[f] => "edit" \in tx.was.conf[f]
         /\ "edit" \in tx.read => "edit" \in tx.was.conf[site.options]
         /\ Due("options") /\ ~Due("backup") /\ "edit" \in conf[site.options] =>
              "edit" \in tx.read

Same(f) == conf[f] \ {"late-edit"} = tx.was.conf[f] \ {"late-edit"}

\* What the transaction has changed of the configuration, or has yet to put back.
ConfKept ==
    /\ tx # None /\ tx.kind = "migrate" => conf = tx.was.conf
    /\ Forward /\ tx.kind = "install" /\ ~Due("recheck") =>
         \A f \in ConfFiles \ {site.options, "root"} : Same(f)
    /\ Undoing /\ tx.kind = "install" /\ Running =>
         \A f \in ConfFiles :
           \/ f = site.options /\ Due("options-back")
           \/ f = "root" /\ Due("root-back")
           \/ Same(f)

\* The MANAGED files present are those the transaction found or has written.
FilesKept ==
    /\ Between /\ site.origin = "none" => disk = {}
    /\ tx # None /\ tx.kind = "install" =>
         /\ tx.was.disk = {}
         /\ tx.installed = {} \/ "zone" \in tx.installed
    /\ Forward /\ tx.kind = "install" =>
         /\ disk \subseteq tx.installed
         /\ Due("zone") => tx.installed = {}
         /\ ~Due("zone") => "zone" \in tx.installed
    /\ Undoing /\ tx.kind = "install" =>
         disk = {} \/ (Due("remove") /\ disk \subseteq tx.installed)
    /\ (Forward \/ Undoing) /\ tx.kind = "migrate" => disk \ Units = tx.was.disk
    /\ Undoing /\ tx.kind = "migrate" => Due("remove") \/ disk = tx.was.disk

\* Without the operator's own integration named serves the zone, and its file
\* is there, only by the work of a transaction or of a job that outlived one.
ZoneKept ==
    site.origin = "none" =>
      /\ Between => named.serial = 0
      /\ tx = None \/ (Between /\ ~tx.loose) => zone = 0 /\ jobs["managed"] = 0
      /\ Forward => named.serial = 0 \/ tx.started
      /\ Undoing => named.serial = 0 \/ Due("reconfig")
      /\ (Forward \/ Undoing) /\ ~tx.loose =>
           \/ zone = 0 /\ jobs["managed"] = 0
           \/ "zone" \in tx.installed /\ (Undoing => Due("remove"))

UpdaterInv ==
    /\ OneUpdater
    /\ Scripted /\ OriginKept /\ Scheduled
    /\ EditsRead /\ ConfKept /\ FilesKept /\ ZoneKept

(* Scripts *****************************************************************)

\* The ranks are positive numbers.
LEMMA RankNat == \A step : Rank(step) \in Nat \ {0}
BY DEF Rank

\* The steps of Steps have the ranks of their place in the order.
LEMMA RankValues ==
    /\ Rank("recheck") = 1 /\ Rank("backup") = 2 /\ Rank("zone") = 3
    /\ Rank("declaration") = 4 /\ Rank("updater") = 5 /\ Rank("service") = 6
    /\ Rank("timer") = 7 /\ Rank("options") = 8 /\ Rank("root") = 9
    /\ Rank("checkconf") = 10 /\ Rank("disable-managed") = 11
    /\ Rank("options-back") = 12 /\ Rank("root-back") = 13
    /\ Rank("remove") = 14 /\ Rank("daemon-reload") = 15
    /\ Rank("reconfig") = 16 /\ Rank("zonestatus") = 17
    /\ Rank("disable-external") = 18 /\ Rank("enable-managed") = 19
    /\ Rank("start-managed") = 20 /\ Rank("await-managed") = 21
    /\ Rank("gate") = 22 /\ Rank("commit") = 23
    /\ Rank("restore-external") = 24
BY DEF Rank

\* Taking the first step off an ordered script: it was the one of least rank.
LEMMA TailScript ==
    ASSUME NEW S, NEW s \in Seq(S), s # <<>>, Ordered(s)
    PROVE  /\ Tail(s) \in Seq(S) /\ Ordered(Tail(s))
           /\ Head(s) \in S /\ Head(s) \in Pending(s)
           /\ Pending(Tail(s)) = Pending(s) \ {Head(s)}
           /\ \A x \in Pending(Tail(s)) : Rank(Head(s)) < Rank(x)
<1>1. /\ Tail(s) \in Seq(S) /\ Len(s) \in Nat \ {0} /\ Len(Tail(s)) = Len(s) - 1
      /\ Head(s) = s[1] /\ Head(s) \in S
      /\ \A i \in 1..Len(s) - 1 : Tail(s)[i] = s[i + 1]
  BY HeadTailProperties, LenProperties, EmptySeq
<1>2. Ordered(Tail(s))
  BY <1>1 DEF Ordered
<1>3. Head(s) \in Pending(s)
  BY <1>1 DEF Pending
<1>4. \A x \in Pending(Tail(s)) : Rank(Head(s)) < Rank(x) /\ x \in Pending(s)
  BY <1>1 DEF Pending, Ordered
<1>5. ASSUME NEW x \in Pending(s), x # Head(s)
      PROVE  x \in Pending(Tail(s))
  <2>1. PICK i \in 1..Len(s) : s[i] = x
    BY DEF Pending
  <2>2. i - 1 \in 1..Len(Tail(s)) /\ Tail(s)[i - 1] = x
    BY <2>1, <1>1, <1>5
  <2> QED
    BY <2>2 DEF Pending
<1>6. Head(s) \notin Pending(Tail(s))
  BY <1>4, RankNat
<1> QED
  BY <1>1, <1>2, <1>3, <1>4, <1>5, <1>6

\* What is left of an ordered script when its first steps are skipped.
LEMMA SkipScript ==
    ASSUME NEW S, NEW s \in Seq(S), Ordered(s), NEW n \in 1..Len(s)
    PROVE  /\ SubSeq(s, n, Len(s)) \in Seq(S) /\ SubSeq(s, n, Len(s)) # <<>>
           /\ Ordered(SubSeq(s, n, Len(s)))
           /\ Pending(SubSeq(s, n, Len(s))) \subseteq Pending(s)
           /\ \A x \in Pending(SubSeq(s, n, Len(s))), y \in Pending(s) :
                Rank(x) < Rank(y) => y \in Pending(SubSeq(s, n, Len(s)))
<1> DEFINE r == SubSeq(s, n, Len(s))
<1>1. Len(s) \in Nat /\ \A i \in 1..Len(s) : s[i] \in S
  BY LenProperties, ElementOfSeq
<1>2. /\ r \in Seq(S) /\ Len(r) = Len(s) - n + 1
      /\ \A i \in 1..Len(s) - n + 1 : r[i] = s[n + i - 1]
  BY <1>1, SubSeqProperties
<1>3. Ordered(r)
  BY <1>1, <1>2 DEF Ordered
<1>4. Pending(r) \subseteq Pending(s)
  BY <1>1, <1>2 DEF Pending
<1>5. ASSUME NEW x \in Pending(r), NEW y \in Pending(s), Rank(x) < Rank(y)
      PROVE  y \in Pending(r)
  <2>1. PICK i \in 1..Len(r) : r[i] = x
    BY DEF Pending
  <2>2. PICK j \in 1..Len(s) : s[j] = y
    BY DEF Pending
  <2>3. n + i - 1 \in 1..Len(s) /\ s[n + i - 1] = x
    BY <1>1, <1>2, <2>1
  <2> DEFINE k == n + i - 1
  <2>4. k <= j
    <3> HIDE DEF k
    <3>1. k \in 1..Len(s) /\ s[k] = x
      BY <2>3 DEF k
    <3>2. Rank(x) \in Nat /\ Rank(y) \in Nat
      BY RankNat
    <3>3. ASSUME j < k PROVE FALSE
      <4>1. Rank(s[j]) < Rank(s[k])
        BY <3>1, <3>3 DEF Ordered
      <4>2. Rank(y) < Rank(x)
        BY <4>1, <3>1, <2>2
      <4> QED
        BY <4>2, <3>2, <1>5
    <3> QED
      BY <3>1, <3>3, <1>1
  <2>5. j - n + 1 \in 1..Len(r) /\ r[j - n + 1] = y
    BY <1>1, <1>2, <2>2, <2>4
  <2> QED
    BY <2>5 DEF Pending
<1>6. r # <<>>
  <2> HIDE DEF r
  <2>1. Len(r) # 0
    BY <1>1, <1>2
  <2> QED
    BY <2>1, EmptySeq
<1> QED
  BY <1>2, <1>3, <1>4, <1>5, <1>6

\* One script after another.
LEMMA JoinScripts ==
    ASSUME NEW S, NEW s \in Seq(S), NEW t \in Seq(S), Ordered(s), Ordered(t),
           \A x \in Pending(s), y \in Pending(t) : Rank(x) < Rank(y)
    PROVE  /\ s \o t \in Seq(S) /\ Ordered(s \o t)
           /\ Pending(s \o t) = Pending(s) \cup Pending(t)
<1>1. Len(s) \in Nat /\ Len(t) \in Nat
  BY LenProperties
<1>2. /\ s \o t \in Seq(S) /\ Len(s \o t) = Len(s) + Len(t)
      /\ \A i \in 1..Len(s) + Len(t) :
            (s \o t)[i] = IF i <= Len(s) THEN s[i] ELSE t[i - Len(s)]
  BY ConcatProperties
<1>3. Pending(s \o t) \subseteq Pending(s) \cup Pending(t)
  BY <1>1, <1>2 DEF Pending
<1>4. Pending(s) \subseteq Pending(s \o t)
  BY <1>1, <1>2 DEF Pending
<1>5. ASSUME NEW x \in Pending(t) PROVE x \in Pending(s \o t)
  <2>1. PICK i \in 1..Len(t) : t[i] = x
    BY DEF Pending
  <2>2. i + Len(s) \in 1..Len(s \o t) /\ (s \o t)[i + Len(s)] = x
    BY <1>1, <1>2, <2>1
  <2> QED
    BY <2>2 DEF Pending
<1>6. Ordered(s \o t)
  <2> SUFFICES ASSUME NEW i \in 1..Len(s) + Len(t), NEW j \in 1..Len(s) + Len(t), i < j
               PROVE  Rank((s \o t)[i]) < Rank((s \o t)[j])
    BY <1>1, <1>2 DEF Ordered
  <2>1. CASE j <= Len(s)
    BY <2>1, <1>1, <1>2 DEF Ordered
  <2>2. CASE i > Len(s)
    <3>1. i - Len(s) \in 1..Len(t) /\ j - Len(s) \in 1..Len(t)
      BY <2>2, <1>1
    <3>2. Rank(t[i - Len(s)]) < Rank(t[j - Len(s)])
      BY <3>1, <1>1 DEF Ordered
    <3> QED
      BY <3>2, <2>2, <1>1, <1>2
  <2>3. CASE i <= Len(s) /\ j > Len(s)
    <3>1. s[i] \in Pending(s) /\ t[j - Len(s)] \in Pending(t)
      BY <2>3, <1>1 DEF Pending
    <3> QED
      BY <3>1, <2>3, <1>1, <1>2
  <2> QED
    BY <2>1, <2>2, <2>3, <1>1
<1> QED
  BY <1>2, <1>3, <1>4, <1>5, <1>6

\* The empty script.
LEMMA NoScript ==
    <<>> \in Seq(Steps) /\ Ordered(<<>>) /\ Pending(<<>>) = {}
BY DEF Ordered, Pending

\* A script is empty when no step is due.
LEMMA NothingDue ==
    ASSUME NEW S, NEW s \in Seq(S)
    PROVE  s = <<>> <=> Pending(s) = {}
BY LenProperties, EmptySeq DEF Pending

\* The scripts of the two transactions.
LEMMA ForwardScripts ==
    /\ InstallSteps \in Seq(Steps) /\ Ordered(InstallSteps)
    /\ Pending(InstallSteps) = InstallForward
    /\ MigrateSteps \in Seq(Steps) /\ Ordered(MigrateSteps)
    /\ Pending(MigrateSteps) = MigrateForward
<1>1. InstallSteps \in Seq(Steps) /\ MigrateSteps \in Seq(Steps)
  BY DEF InstallSteps, MigrateSteps, Steps
<1>2. Ordered(InstallSteps)
  BY DEF InstallSteps, Ordered, Rank
<1>3. Ordered(MigrateSteps)
  BY DEF MigrateSteps, Ordered, Rank
<1>4. Pending(InstallSteps) = InstallForward
  BY DEF InstallSteps, InstallForward, Pending
<1>5. Pending(MigrateSteps) = MigrateForward
  BY DEF MigrateSteps, MigrateForward, Pending
<1> QED
  BY <1>1, <1>2, <1>3, <1>4, <1>5

\* A script of one step.
LEMMA OneStep ==
    ASSUME NEW x \in Steps
    PROVE  <<x>> \in Seq(Steps) /\ Ordered(<<x>>) /\ Pending(<<x>>) = {x}
<1>1. <<x>> \in Seq(Steps) /\ Len(<<x>>) = 1 /\ <<x>>[1] = x
  OBVIOUS
<1> QED
  BY <1>1 DEF Ordered, Pending

\* The rollback of the installation.
LEMMA InstallUndoScript ==
    ASSUME NEW t \in Transactions
    PROVE  /\ InstallUndo(t) \in Seq(Steps) /\ Ordered(InstallUndo(t))
           /\ Pending(InstallUndo(t)) =
                IF t.started THEN InstallBack ELSE {"options-back", "root-back", "remove"}
<1> DEFINE a == IF t.started THEN <<"disable-managed">> ELSE <<>>
           b == <<"options-back", "root-back", "remove">>
           c == IF t.started THEN <<"daemon-reload", "reconfig">> ELSE <<>>
<1>1. /\ a \in Seq(Steps) /\ Ordered(a)
      /\ Pending(a) = IF t.started THEN {"disable-managed"} ELSE {}
  BY OneStep, NoScript DEF Steps
<1>2. b \in Seq(Steps) /\ Ordered(b) /\ Pending(b) = {"options-back", "root-back", "remove"}
  BY DEF Steps, Ordered, Pending, Rank
<1>3. /\ c \in Seq(Steps) /\ Ordered(c)
      /\ Pending(c) = IF t.started THEN {"daemon-reload", "reconfig"} ELSE {}
  <2>1. /\ <<"daemon-reload", "reconfig">> \in Seq(Steps)
        /\ Ordered(<<"daemon-reload", "reconfig">>)
        /\ Pending(<<"daemon-reload", "reconfig">>) = {"daemon-reload", "reconfig"}
    BY DEF Steps, Ordered, Pending, Rank
  <2> QED
    BY <2>1, NoScript
<1>4. /\ a \o b \in Seq(Steps) /\ Ordered(a \o b)
      /\ Pending(a \o b) = Pending(a) \cup Pending(b)
  <2>1. \A x \in Pending(a), y \in Pending(b) : Rank(x) < Rank(y)
    BY <1>1, <1>2, RankValues
  <2> HIDE DEF a, b
  <2> QED
    BY <2>1, <1>1, <1>2, JoinScripts
<1> DEFINE ab == a \o b
<1>5. /\ ab \o c \in Seq(Steps) /\ Ordered(ab \o c)
      /\ Pending(ab \o c) = Pending(a) \cup Pending(b) \cup Pending(c)
  <2>1. \A x \in Pending(ab), y \in Pending(c) : Rank(x) < Rank(y)
    BY <1>1, <1>2, <1>3, <1>4, RankValues
  <2>2. ab \in Seq(Steps) /\ Ordered(ab) /\ Pending(ab) = Pending(a) \cup Pending(b)
    BY <1>4
  <2> HIDE DEF a, b, c, ab
  <2> QED
    BY <2>1, <2>2, <1>3, JoinScripts
<1>6. InstallUndo(t) = ab \o c
  BY DEF InstallUndo
<1> HIDE DEF a, b, c, ab
<1> QED
  BY <1>1, <1>2, <1>3, <1>5, <1>6 DEF InstallBack

\* Whether the old timer has to be put back.
RestoreDue(t) ==
    t.switched /\ "external" \in t.was.timers.enabled \cup t.was.timers.active

\* The rollback of the migration.
LEMMA MigrateUndoScript ==
    ASSUME NEW t \in Transactions
    PROVE  /\ MigrateUndo(t) \in Seq(Steps) /\ Ordered(MigrateUndo(t))
           /\ Pending(MigrateUndo(t)) =
                {"remove", "daemon-reload"}
                \cup (IF t.switched THEN {"disable-managed"} ELSE {})
                \cup (IF RestoreDue(t) THEN {"restore-external"} ELSE {})
<1> DEFINE a == IF t.switched THEN <<"disable-managed">> ELSE <<>>
           b == <<"remove", "daemon-reload">>
           c == IF RestoreDue(t) THEN <<"restore-external">> ELSE <<>>
<1>1. /\ a \in Seq(Steps) /\ Ordered(a)
      /\ Pending(a) = IF t.switched THEN {"disable-managed"} ELSE {}
  BY OneStep, NoScript DEF Steps
<1>2. b \in Seq(Steps) /\ Ordered(b) /\ Pending(b) = {"remove", "daemon-reload"}
  BY DEF Steps, Ordered, Pending, Rank
<1>3. /\ c \in Seq(Steps) /\ Ordered(c)
      /\ Pending(c) = IF RestoreDue(t) THEN {"restore-external"} ELSE {}
  BY OneStep, NoScript DEF Steps
<1> DEFINE ab == a \o b
<1>4. /\ ab \in Seq(Steps) /\ Ordered(ab)
      /\ Pending(ab) = Pending(a) \cup Pending(b)
  <2>1. \A x \in Pending(a), y \in Pending(b) : Rank(x) < Rank(y)
    BY <1>1, <1>2, RankValues
  <2> HIDE DEF a, b
  <2> QED
    BY <2>1, <1>1, <1>2, JoinScripts
<1>5. /\ ab \o c \in Seq(Steps) /\ Ordered(ab \o c)
      /\ Pending(ab \o c) = Pending(a) \cup Pending(b) \cup Pending(c)
  <2>1. \A x \in Pending(ab), y \in Pending(c) : Rank(x) < Rank(y)
    BY SMTT(60), <1>1, <1>2, <1>3, <1>4, RankValues
  <2> HIDE DEF a, b, c, ab
  <2> QED
    BY <2>1, <1>3, <1>4, JoinScripts
<1>6. MigrateUndo(t) = ab \o c
  BY DEF MigrateUndo, RestoreDue
<1> HIDE DEF a, b, c, ab
<1> QED
  BY <1>1, <1>2, <1>3, <1>5, <1>6

(* What the ends of a step make of a transaction ***************************)

\* The fields no end of a step touches.
SameFields(t, r) ==
    /\ r.kind = t.kind /\ r.was = t.was /\ r.fetched = t.fetched
    /\ r.read = t.read /\ r.installed = t.installed /\ r.started = t.started
    /\ r.switched = t.switched /\ r.cut = t.cut /\ r.loose = t.loose

\* Advance takes the step off the script; a rollback at its end has a status.
LEMMA AdvanceFacts ==
    ASSUME NEW t \in Transactions, t.todo # <<>>, Ordered(t.todo)
    PROVE  /\ Advance(t) \in Transactions
           /\ SameFields(t, Advance(t))
           /\ Advance(t).undoing = t.undoing /\ Advance(t).ok = t.ok
           /\ Ordered(Advance(t).todo)
           /\ Pending(Advance(t).todo) = Pending(t.todo) \ {Head(t.todo)}
           /\ Advance(t).todo = <<>> <=> Pending(Advance(t).todo) = {}
           /\ Advance(t).outcome =
                IF t.undoing /\ Pending(Advance(t).todo) = {}
                THEN IF t.ok THEN "ROLLED-BACK" ELSE "ROLLBACK-FAILED"
                ELSE t.outcome
<1> DEFINE rest == Tail(t.todo)
<1>1. t.todo \in Seq(Steps)
  BY DEF Transactions
<1>2. /\ rest \in Seq(Steps) /\ Ordered(rest)
      /\ Pending(rest) = Pending(t.todo) \ {Head(t.todo)}
  BY <1>1, TailScript
<1>3. rest = <<>> <=> Pending(rest) = {}
  BY <1>2, NothingDue
<1>4. Advance(t) = [t EXCEPT !.todo = rest, !.outcome =
                        IF t.undoing /\ rest = <<>>
                        THEN IF t.ok THEN "ROLLED-BACK" ELSE "ROLLBACK-FAILED"
                        ELSE t.outcome]
  BY DEF Advance, Transactions
<1> HIDE DEF rest
<1>5. Advance(t) \in Transactions
  BY <1>2, <1>4 DEF Transactions, Outcomes
<1>6. SameFields(t, Advance(t))
  BY <1>4 DEF SameFields, Transactions
<1>7. Advance(t).todo = rest
  BY <1>4 DEF Transactions
<1> QED
  BY <1>2, <1>3, <1>4, <1>5, <1>6, <1>7 DEF Transactions

\* Fail turns to the script of the rollback, by the flags of the transaction.
LEMMA FailFacts ==
    ASSUME NEW t \in Transactions
    PROVE  /\ Fail(t) \in Transactions
           /\ SameFields(t, Fail(t))
           /\ Fail(t).undoing /\ Fail(t).ok = t.ok /\ Fail(t).outcome = t.outcome
           /\ Ordered(Fail(t).todo) /\ Fail(t).todo # <<>>
           /\ Pending(Fail(t).todo) =
                IF t.kind = "install"
                THEN IF t.started THEN InstallBack
                     ELSE {"options-back", "root-back", "remove"}
                ELSE {"remove", "daemon-reload"}
                     \cup (IF t.switched THEN {"disable-managed"} ELSE {})
                     \cup (IF RestoreDue(t) THEN {"restore-external"} ELSE {})
<1>1. /\ UndoSteps(t) \in Seq(Steps) /\ Ordered(UndoSteps(t))
      /\ Pending(UndoSteps(t)) =
                IF t.kind = "install"
                THEN IF t.started THEN InstallBack
                     ELSE {"options-back", "root-back", "remove"}
                ELSE {"remove", "daemon-reload"}
                     \cup (IF t.switched THEN {"disable-managed"} ELSE {})
                     \cup (IF RestoreDue(t) THEN {"restore-external"} ELSE {})
  BY InstallUndoScript, MigrateUndoScript DEF UndoSteps
<1>2. "remove" \in Pending(UndoSteps(t))
  BY <1>1 DEF InstallBack
<1>3. UndoSteps(t) # <<>>
  BY <1>2, NoScript
<1>4. Fail(t) = [t EXCEPT !.undoing = TRUE, !.todo = UndoSteps(t)]
  BY DEF Fail
<1>5. Fail(t) \in Transactions
  BY <1>1, <1>4 DEF Transactions
<1>6. Fail(t).todo = UndoSteps(t)
  BY <1>4 DEF Transactions
<1>7. SameFields(t, Fail(t))
  BY <1>4 DEF SameFields, Transactions
<1>8. Fail(t).undoing /\ Fail(t).ok = t.ok /\ Fail(t).outcome = t.outcome
  BY <1>4 DEF Transactions
<1> QED
  BY <1>1, <1>3, <1>5, <1>6, <1>7, <1>8

\* A failing step of the rollback leaves a part of the script.
LEMMA UndoFailsFacts ==
    ASSUME NEW t \in Transactions, t.todo # <<>>, Ordered(t.todo), t.undoing,
           Closed(t.todo)
    PROVE  /\ UndoFails(t) \in Transactions
           /\ SameFields(t, UndoFails(t))
           /\ UndoFails(t).undoing /\ ~UndoFails(t).ok
           /\ Ordered(UndoFails(t).todo) /\ Closed(UndoFails(t).todo)
           /\ Pending(UndoFails(t).todo) \subseteq Pending(t.todo)
           /\ UndoFails(t).todo = <<>> <=> Pending(UndoFails(t).todo) = {}
           /\ UndoFails(t).outcome =
                IF UndoFails(t).todo = <<>> THEN "ROLLBACK-FAILED" ELSE t.outcome
<1> DEFINE s == t.todo
           skipped == IF Head(s) = "options-back" THEN 2
                      ELSE IF Head(s) = "root-back" THEN 1 ELSE 0
           r == SubSeq(s, 1 + skipped, Len(s))
           u == [t EXCEPT !.ok = FALSE, !.todo = r]
<1>1. s \in Seq(Steps) /\ s # <<>> /\ Ordered(s) /\ Closed(s)
  BY DEF Transactions
<1>2. /\ Len(s) \in Nat \ {0} /\ Head(s) = s[1]
      /\ Head(s) = "root-back" => Len(s) >= 2
      /\ Head(s) = "options-back" => Len(s) >= 3
  <2> HIDE DEF s
  <2>1. Len(s) \in Nat \ {0} /\ Head(s) = s[1] /\ Head(s) \in Pending(s)
    BY <1>1, LenProperties, EmptySeq, TailScript
  <2>2. ASSUME Head(s) = "root-back" PROVE Len(s) >= 2
    <3>1. "remove" \in Pending(s)
      BY <1>1, <2>1, <2>2 DEF Closed
    <3> QED
      BY <2>1, <2>2, <3>1 DEF Pending
  <2>3. ASSUME Head(s) = "options-back" PROVE Len(s) >= 3
    <3>1. "remove" \in Pending(s) /\ "root-back" \in Pending(s)
      BY <1>1, <2>1, <2>3 DEF Closed
    <3> QED
      BY <2>1, <2>3, <3>1 DEF Pending
  <2> QED
    BY <2>1, <2>2, <2>3
<1>3. /\ r \in Seq(Steps) /\ r # <<>> /\ Ordered(r) /\ Pending(r) \subseteq Pending(s)
      /\ \A x \in Pending(r), y \in Pending(s) : Rank(x) < Rank(y) => y \in Pending(r)
  <2>1. 1 + skipped \in 1..Len(s)
    BY <1>2
  <2> DEFINE n == 1 + skipped
  <2> HIDE DEF skipped, s, n
  <2>2. /\ SubSeq(s, n, Len(s)) \in Seq(Steps) /\ SubSeq(s, n, Len(s)) # <<>>
        /\ Ordered(SubSeq(s, n, Len(s))) /\ Pending(SubSeq(s, n, Len(s))) \subseteq Pending(s)
        /\ \A x \in Pending(SubSeq(s, n, Len(s))), y \in Pending(s) :
              Rank(x) < Rank(y) => y \in Pending(SubSeq(s, n, Len(s)))
    BY <1>1, <2>1, SkipScript DEF n
  <2> QED
    BY <2>2 DEF n
<1>4. UndoFails(t) = Advance(u)
  BY DEF UndoFails, Transactions
<1>5. u \in Transactions /\ u.todo = r
  BY <1>3 DEF Transactions
<1>6. SameFields(t, u) /\ u.undoing /\ ~u.ok /\ u.outcome = t.outcome
  BY DEF SameFields, Transactions
<1>7. Closed(r)
  BY SMTT(60), <1>1, <1>3, RankValues DEF Closed
<1> HIDE DEF s, r, u, skipped
<1>8. /\ Advance(u) \in Transactions /\ SameFields(u, Advance(u))
      /\ Advance(u).undoing /\ ~Advance(u).ok
      /\ Ordered(Advance(u).todo)
      /\ Pending(Advance(u).todo) = Pending(r) \ {Head(r)}
      /\ Advance(u).todo = <<>> <=> Pending(Advance(u).todo) = {}
      /\ Advance(u).outcome =
           IF Advance(u).todo = <<>> THEN "ROLLBACK-FAILED" ELSE t.outcome
  BY <1>3, <1>5, <1>6, AdvanceFacts
<1>9. \A x \in Pending(r) \ {Head(r)} : Rank(Head(r)) < Rank(x)
  BY <1>3, TailScript
<1>10. Closed(Advance(u).todo)
  BY <1>7, <1>8, <1>9, RankValues DEF Closed
<1>11. Pending(Advance(u).todo) \subseteq Pending(t.todo)
  BY <1>3, <1>8 DEF s
<1>12. SameFields(t, Advance(u))
  BY <1>6, <1>8 DEF SameFields
<1> QED
  BY <1>4, <1>8, <1>10, <1>11, <1>12

Inv == TypeOK /\ UpdaterInv

\* What is known of a transaction that is running.
LEMMA RunningFacts ==
    ASSUME Inv, Running
    PROVE  /\ tx \in Transactions /\ tx # None /\ tx.outcome = None
           /\ tx.todo \in Seq(Steps) /\ tx.todo # <<>>
           /\ Ordered(tx.todo) /\ Closed(tx.todo)
           /\ Head(tx.todo) \in Steps /\ Due(Head(tx.todo))
           /\ \A x : Due(x) /\ x # Head(tx.todo) => Rank(Head(tx.todo)) < Rank(x)
<1>1. /\ tx \in Transactions /\ tx # None /\ tx.outcome = None
      /\ tx.todo \in Seq(Steps) /\ tx.todo # <<>>
      /\ Ordered(tx.todo) /\ Closed(tx.todo)
  BY DEF Inv, UpdaterInv, Scripted, Running, TypeOK, Transactions
<1> QED
  BY <1>1, TailScript DEF Due

\* The recheck is the first step of its script.
LEMMA NotRecheck ==
    ASSUME Inv, Running, Head(tx.todo) # "recheck"
    PROVE  ~Due("recheck")
<1>1. Rank(Head(tx.todo)) \in Nat \ {0} /\ Rank("recheck") = 1
  BY RankNat, RankValues
<1> QED
  BY <1>1, RunningFacts

\* Advance keeps the script in order.
LEMMA AdvanceScripted ==
    ASSUME Inv, Running, NEW t \in Transactions, tx' = Advance(t),
           t.todo = tx.todo, t.kind = tx.kind, t.undoing = tx.undoing,
           t.ok = tx.ok, t.outcome = tx.outcome, Head(tx.todo) # "commit"
    PROVE  /\ tx' \in Transactions /\ tx' # None
           /\ SameFields(t, tx')
           /\ tx'.undoing = tx.undoing /\ tx'.ok = tx.ok
           /\ \A x : Due(x)' <=> Due(x) /\ x # Head(tx.todo)
           /\ tx'.outcome = IF tx.undoing /\ tx'.todo = <<>>
                            THEN IF tx.ok THEN "ROLLED-BACK" ELSE "ROLLBACK-FAILED"
                            ELSE None
           /\ tx.undoing \/ tx'.todo # <<>>
           /\ tx'.todo = <<>> => \A x : ~Due(x)'
           /\ Scripted'
<1>1. /\ tx \in Transactions /\ tx # None /\ tx.outcome = None
      /\ tx.todo \in Seq(Steps) /\ tx.todo # <<>>
      /\ Ordered(tx.todo) /\ Closed(tx.todo)
      /\ Head(tx.todo) \in Steps /\ Due(Head(tx.todo))
      /\ \A x : Due(x) /\ x # Head(tx.todo) => Rank(Head(tx.todo)) < Rank(x)
  BY RunningFacts
<1>2. /\ tx' \in Transactions /\ SameFields(t, tx')
      /\ tx'.undoing = tx.undoing /\ tx'.ok = tx.ok
      /\ Ordered(tx'.todo)
      /\ Pending(tx'.todo) = Pending(tx.todo) \ {Head(tx.todo)}
      /\ tx'.todo = <<>> <=> Pending(tx'.todo) = {}
      /\ tx'.outcome =
                IF tx.undoing /\ tx'.todo = <<>>
                THEN IF tx.ok THEN "ROLLED-BACK" ELSE "ROLLBACK-FAILED"
                ELSE None
  BY <1>1, AdvanceFacts
<1>3. tx' # None
  BY <1>2, NoneAssumption
<1>4. \A x : Due(x)' <=> Due(x) /\ x # Head(tx.todo)
  BY <1>2 DEF Due
<1>5. tx.undoing \/ tx'.todo # <<>>
  BY <1>1, <1>2 DEF Inv, UpdaterInv, Scripted, Forward, Due
<1>6. Closed(tx'.todo)
  <2>1. ASSUME "options-back" \in Pending(tx'.todo)
        PROVE  "root-back" \in Pending(tx'.todo)
    <3>1. Due("options-back") /\ Head(tx.todo) # "options-back" /\ Due("root-back")
      BY <1>1, <1>2, <2>1 DEF Closed, Due
    <3>2. Rank(Head(tx.todo)) < Rank("options-back")
      BY <1>1, <3>1
    <3>3. Head(tx.todo) # "root-back"
      BY <3>2, RankValues
    <3> QED
      BY <1>2, <3>1, <3>3 DEF Due
  <2>2. ASSUME "root-back" \in Pending(tx'.todo)
        PROVE  "remove" \in Pending(tx'.todo)
    <3>1. Due("root-back") /\ Head(tx.todo) # "root-back" /\ Due("remove")
      BY <1>1, <1>2, <2>2 DEF Closed, Due
    <3>2. Rank(Head(tx.todo)) < Rank("root-back")
      BY <1>1, <3>1
    <3>3. Head(tx.todo) # "remove"
      BY <3>2, RankValues
    <3> QED
      BY <1>2, <3>1, <3>3 DEF Due
  <2> QED
    BY <2>1, <2>2 DEF Closed
<1>7. None \notin {"ROLLED-BACK", "ROLLBACK-FAILED"}
  BY NoneAssumption DEF Outcomes
<1>8. tx'.todo = <<>> => \A x : ~Due(x)'
  BY <1>2 DEF Due
<1>9. tx'.todo = <<>> <=> tx'.outcome # None
  BY <1>2, <1>5, <1>7
<1>10. Pending(tx'.todo) \subseteq
           IF tx'.kind = "install"
           THEN IF tx'.undoing THEN InstallBack ELSE InstallForward
           ELSE IF tx'.undoing THEN MigrateBack ELSE MigrateForward
  BY <1>1, <1>2 DEF Inv, UpdaterInv, Scripted, SameFields
<1>13. ~tx'.undoing => tx'.ok
  BY <1>1, <1>2 DEF Inv, UpdaterInv, Scripted
<1>14. ASSUME Forward' PROVE AllFollow'
  <2>1. Forward /\ AllFollow
    BY <1>1, <1>2, <1>14 DEF Forward, Inv, UpdaterInv, Scripted
  <2>2. SUFFICES ASSUME NEW x, Due(x)', NEW y, Rank(x) < Rank(y),
                        y \in IF tx.kind = "install" THEN InstallForward ELSE MigrateForward
                 PROVE  Due(y)'
    BY <1>2 DEF AllFollow, SameFields, Due
  <2>3. Due(x) /\ x # Head(tx.todo) /\ Due(y)
    BY <1>4, <2>1, <2>2 DEF AllFollow, Due
  <2>4. Rank(Head(tx.todo)) < Rank(x)
    BY <1>1, <2>3
  <2>5. y # Head(tx.todo)
    BY <2>2, <2>4, RankNat
  <2> QED
    BY <1>4, <2>3, <2>5
<1>11. Forward' => Due("commit")'
  BY <1>1, <1>2, <1>4 DEF Inv, UpdaterInv, Scripted, Forward, Due
<1>12. /\ tx'.outcome = "BLOCKED" => ~tx'.undoing /\ tx'.ok
       /\ tx'.outcome = "ROLLED-BACK" => tx'.undoing /\ tx'.ok
  BY <1>2, NoneAssumption DEF Outcomes
<1> QED
  BY <1>2, <1>3, <1>4, <1>5, <1>6, <1>8, <1>9, <1>10, <1>11, <1>12, <1>13, <1>14 DEF Scripted

\* An exception turns to a script in order.
LEMMA FailScripted ==
    ASSUME Inv, Running, ~tx.undoing, NEW t \in Transactions, tx' = Fail(t),
           t.kind = tx.kind, t.ok = tx.ok, t.outcome = tx.outcome
    PROVE  /\ tx' \in Transactions /\ tx' # None
           /\ SameFields(t, tx')
           /\ tx'.undoing /\ tx'.ok = tx.ok /\ tx'.outcome = None
           /\ tx'.todo # <<>>
           /\ \A x : Due(x)' <=>
                x \in IF tx.kind = "install"
                      THEN IF t.started THEN InstallBack
                           ELSE {"options-back", "root-back", "remove"}
                      ELSE {"remove", "daemon-reload"}
                           \cup (IF t.switched THEN {"disable-managed"} ELSE {})
                           \cup (IF RestoreDue(t) THEN {"restore-external"} ELSE {})
           /\ Scripted'
<1>1. tx \in Transactions /\ tx # None /\ tx.outcome = None
  BY RunningFacts
<1>2. /\ tx' \in Transactions /\ SameFields(t, tx')
      /\ tx'.undoing /\ tx'.ok = tx.ok /\ tx'.outcome = None
      /\ Ordered(tx'.todo) /\ tx'.todo # <<>>
      /\ Pending(tx'.todo) =
                IF tx.kind = "install"
                THEN IF t.started THEN InstallBack
                     ELSE {"options-back", "root-back", "remove"}
                ELSE {"remove", "daemon-reload"}
                     \cup (IF t.switched THEN {"disable-managed"} ELSE {})
                     \cup (IF RestoreDue(t) THEN {"restore-external"} ELSE {})
  BY <1>1, FailFacts
<1>3. tx' # None
  BY <1>2, NoneAssumption
<1>4. Closed(tx'.todo)
  BY <1>2 DEF Closed, InstallBack
<1>5. Pending(tx'.todo) \subseteq IF tx'.kind = "install" THEN InstallBack ELSE MigrateBack
  BY <1>2 DEF InstallBack, MigrateBack, SameFields
<1>6. tx'.outcome \notin {"BLOCKED", "ROLLED-BACK"}
  BY <1>2, NoneAssumption DEF Outcomes
<1>7. Scripted'
  BY <1>2, <1>4, <1>5, <1>6 DEF Scripted, Forward
<1> QED
  BY <1>2, <1>3, <1>7 DEF Due

\* A failing step of the rollback keeps the script in order.
LEMMA UndoFailsScripted ==
    ASSUME Inv, Running, tx.undoing, tx' = UndoFails(tx)
    PROVE  /\ tx' \in Transactions /\ tx' # None
           /\ SameFields(tx, tx')
           /\ tx'.undoing /\ ~tx'.ok
           /\ \A x : Due(x)' => Due(x)
           /\ tx'.outcome = IF tx'.todo = <<>> THEN "ROLLBACK-FAILED" ELSE None
           /\ Scripted'
<1>1. /\ tx \in Transactions /\ tx # None /\ tx.outcome = None
      /\ tx.todo \in Seq(Steps) /\ tx.todo # <<>>
      /\ Ordered(tx.todo) /\ Closed(tx.todo)
  BY RunningFacts
<1>2. /\ tx' \in Transactions /\ SameFields(tx, tx')
      /\ tx'.undoing /\ ~tx'.ok
      /\ Ordered(tx'.todo) /\ Closed(tx'.todo)
      /\ Pending(tx'.todo) \subseteq Pending(tx.todo)
      /\ tx'.outcome = IF tx'.todo = <<>> THEN "ROLLBACK-FAILED" ELSE None
  BY <1>1, UndoFailsFacts
<1>3. tx' # None
  BY <1>2, NoneAssumption
<1>4. Pending(tx'.todo) \subseteq IF tx'.kind = "install" THEN InstallBack ELSE MigrateBack
  BY <1>1, <1>2 DEF Inv, UpdaterInv, Scripted, SameFields
<1>5. /\ tx'.todo = <<>> <=> tx'.outcome # None
      /\ tx'.outcome \notin {"BLOCKED", "ROLLED-BACK"}
  BY <1>2, NoneAssumption DEF Outcomes
<1>6. Scripted'
  BY <1>2, <1>4, <1>5 DEF Scripted, Forward
<1> QED
  BY <1>2, <1>3, <1>6 DEF Due

\* Ending a transaction empties its script.
LEMMA EndFacts ==
    ASSUME Inv, Running, NEW outcome \in Outcomes \ {"ROLLED-BACK"},
           tx' = End(tx, outcome), outcome = "BLOCKED" => ~tx.undoing
    PROVE  /\ tx' \in Transactions /\ tx' # None /\ SameFields(tx, tx')
           /\ tx'.undoing = tx.undoing /\ tx'.ok = tx.ok
           /\ tx'.todo = <<>> /\ tx'.outcome = outcome
           /\ Scripted'
<1>1. tx \in Transactions /\ tx # None
  BY RunningFacts
<1>2. tx' = [tx EXCEPT !.todo = <<>>, !.outcome = outcome]
  BY DEF End
<1>3. tx' \in Transactions
  BY <1>1, <1>2, NoScript DEF Transactions
<1>4. /\ tx' # None /\ SameFields(tx, tx')
      /\ tx'.undoing = tx.undoing /\ tx'.ok = tx.ok
      /\ tx'.todo = <<>> /\ tx'.outcome = outcome
  <2>1. tx' # None
    BY <1>3, NoneAssumption
  <2>2. SameFields(tx, tx')
    BY <1>1, <1>2 DEF Transactions, SameFields
  <2> QED
    BY <1>1, <1>2, <2>1, <2>2 DEF Transactions
<1>5. ~tx.undoing => tx.ok
  BY <1>1 DEF Inv, UpdaterInv, Scripted
<1>6. outcome # None /\ outcome # "ROLLED-BACK"
  BY NoneAssumption
<1>7. Scripted'
  BY <1>4, <1>5, <1>6, NoScript DEF Scripted, Forward, Closed
<1> QED
  BY <1>3, <1>4, <1>7

\* What is due at a step of an installation or migration under way.
LEMMA ForwardFacts ==
    ASSUME Inv, Running, ~tx.undoing
    PROVE  /\ Forward /\ tx.ok
           /\ \A x : Due(x) =>
                x \in IF tx.kind = "install" THEN InstallForward ELSE MigrateForward
           /\ \A y \in IF tx.kind = "install" THEN InstallForward ELSE MigrateForward :
                Due(y) <=> y = Head(tx.todo) \/ Rank(Head(tx.todo)) < Rank(y)
<1>1. /\ tx # None /\ tx.todo # <<>> /\ Due(Head(tx.todo))
      /\ \A x : Due(x) /\ x # Head(tx.todo) => Rank(Head(tx.todo)) < Rank(x)
  BY RunningFacts
<1>2. Forward /\ tx.ok /\ AllFollow
  BY <1>1 DEF Forward, Inv, UpdaterInv, Scripted
<1>3. \A x : Due(x) => x \in IF tx.kind = "install" THEN InstallForward ELSE MigrateForward
  BY <1>1 DEF Due, Inv, UpdaterInv, Scripted
<1> QED
  BY <1>1, <1>2, <1>3 DEF AllFollow, Due

\* A step forward that leaves the timers alone leaves the schedule as it must be.
LEMMA ForwardSchedule ==
    ASSUME Inv, Running, ~tx.undoing, NEW t \in Transactions, tx' = Advance(t),
           t.todo = tx.todo, t.kind = tx.kind, t.was = tx.was, t.outcome = tx.outcome,
           t.undoing = tx.undoing, t.ok = tx.ok, t.switched = tx.switched,
           t.started = tx.started,
           Head(tx.todo) \notin {"checkconf", "disable-external", "commit"},
           UNCHANGED <<site, timers>>, jobs'["external"] = jobs["external"]
    PROVE  /\ tx' \in Transactions /\ tx' # None /\ SameFields(t, tx')
           /\ ~tx'.undoing /\ tx'.ok /\ tx'.outcome = None /\ tx'.todo # <<>>
           /\ \A x : Due(x)' <=> Due(x) /\ x # Head(tx.todo)
           /\ Forward /\ Forward' /\ ~Undoing' /\ ~Between'
           /\ OneUpdater' /\ Scripted' /\ OriginKept' /\ Scheduled'
<1>1. /\ tx' \in Transactions /\ tx' # None /\ SameFields(t, tx')
      /\ ~tx'.undoing /\ tx'.ok /\ tx'.outcome = None /\ tx'.todo # <<>>
      /\ \A x : Due(x)' <=> Due(x) /\ x # Head(tx.todo)
      /\ Scripted' /\ tx # None /\ tx.outcome = None
      /\ Forward
  BY AdvanceScripted, ForwardFacts, RunningFacts
<1>2. Forward' /\ ~Undoing' /\ ~Between'
  BY <1>1, NoneAssumption DEF Forward, Undoing, Between, Outcomes
<1>3. OneUpdater'
  BY <1>1 DEF Inv, UpdaterInv, OneUpdater, Scripted
<1>4. OriginKept'
  BY <1>1 DEF Inv, UpdaterInv, OriginKept, Stopped, SameFields
<1>5. Scheduled'
  BY <1>1, <1>2 DEF Inv, UpdaterInv, Scheduled, Unscheduled, Stopped, SameFields
<1> QED
  BY <1>1, <1>2, <1>3, <1>4, <1>5

\* The recheck of the configuration and the targets.
LEMMA RecheckKeeps ==
    ASSUME Inv, Recheck, UNCHANGED <<site, published, issued>>
    PROVE  Inv'
<1>1. /\ tx \in Transactions /\ tx # None /\ tx.outcome = None /\ tx.todo # <<>>
      /\ Running /\ Head(tx.todo) = "recheck" /\ Due("recheck")
  BY RunningFacts DEF Recheck, At
<1>2. ~tx.undoing
  BY <1>1 DEF Inv, UpdaterInv, Scripted, InstallBack, MigrateBack, Due
<1>3. /\ tx.ok /\ Forward
      /\ tx.kind = "install" => Due("checkconf") /\ Due("zone") /\ Due("backup")
      /\ tx.kind = "migrate" => Due("disable-external") /\ Due("backup")
  BY <1>1, <1>2, ForwardFacts, RankValues DEF InstallForward, MigrateForward
<1>4. CASE Blocked
  <2>1. /\ tx' \in Transactions /\ tx' # None /\ SameFields(tx, tx')
        /\ tx'.undoing = tx.undoing /\ tx'.ok = tx.ok
        /\ tx'.todo = <<>> /\ tx'.outcome = "BLOCKED" /\ Scripted'
    BY <1>1, <1>2, <1>4, EndFacts DEF Blocked, Outcomes
  <2>2. UNCHANGED <<conf, disk, zone, timers, jobs, result, named, site, published>>
    BY <1>4 DEF Blocked, system
  <2>3. TypeOK'
    BY <2>1, <2>2 DEF Inv, TypeOK
  <2>4. ~Forward' /\ ~Undoing' /\ ~Running'
    BY <2>1, <1>2 DEF Forward, Undoing, Running
  <2>5. OneUpdater' /\ OriginKept'
    <3>1. OneUpdater'
      BY <2>1, <2>2 DEF Inv, UpdaterInv, OneUpdater
    <3>2. OriginKept'
      BY <2>1, <2>2, <1>1 DEF Inv, UpdaterInv, OriginKept, Stopped, SameFields
    <3> QED
      BY <3>1, <3>2
  <2>6. Scheduled'
    <3>1. Unscheduled
      BY <1>1, <1>3 DEF Inv, UpdaterInv, Scheduled, OriginKept, Unscheduled, TypeOK, Transactions
    <3>2. tx'.kind = tx.kind /\ tx'.was = tx.was
      BY <2>1 DEF SameFields
    <3>3. tx.kind = "migrate" =>
            /\ timers.enabled \ {"managed"} \subseteq tx.was.timers.enabled
            /\ timers.active \ {"managed"} \subseteq tx.was.timers.active
      BY <1>1 DEF Scheduled, Inv, UpdaterInv
    <3> QED
      BY <2>2, <2>4, <3>1, <3>2, <3>3 DEF Scheduled, Unscheduled
  <2>7. EditsRead' /\ ConfKept' /\ FilesKept'
    BY <2>1, <2>2, <2>4, <1>1, <1>3 DEF EditsRead, ConfKept, FilesKept, Inv, UpdaterInv, SameFields, Between, OriginKept
  <2>8. ZoneKept'
    BY <2>1, <2>2, <2>4, <1>1, <1>2, <1>3 DEF ZoneKept, OriginKept, Scheduled, FilesKept, Inv, UpdaterInv, SameFields, Between
  <2> QED
    BY <2>1, <2>3, <2>5, <2>6, <2>7, <2>8 DEF Inv, UpdaterInv
<1>5. CASE ~Blocked
  <2> DEFINE t == IF tx.kind = "install" THEN tx
                  ELSE [tx EXCEPT !.serial = named.serial]
  <2>0. /\ t \in Transactions /\ t.todo = tx.todo /\ t.outcome = tx.outcome
        /\ t.undoing = tx.undoing /\ t.ok = tx.ok /\ t.kind = tx.kind
        /\ t.was = tx.was /\ t.switched = tx.switched /\ t.started = tx.started
        /\ t.installed = tx.installed /\ t.loose = tx.loose /\ t.read = tx.read
        /\ t.fetched = tx.fetched /\ t.cut = tx.cut
    BY <1>1 DEF Transactions, Inv, TypeOK
  <2>9. tx' = Advance(t) /\ UNCHANGED system /\ ~Changed
    BY <1>5 DEF Recheck
  <2> HIDE DEF t
  <2>1. /\ tx' \in Transactions /\ tx' # None /\ SameFields(tx, tx')
        /\ ~tx'.undoing /\ tx'.ok /\ tx'.outcome = None /\ tx'.todo # <<>>
        /\ \A x : Due(x)' <=> Due(x) /\ x # "recheck"
        /\ Scripted'
    BY <1>1, <1>2, <1>3, <2>0, <2>9, AdvanceScripted DEF SameFields
  <2>2. UNCHANGED <<conf, disk, zone, timers, jobs, result, named, site, published>>
    BY <2>9 DEF system
  <2>3. TypeOK'
    BY <2>1, <2>2 DEF Inv, TypeOK
  <2>4. OneUpdater' /\ OriginKept' /\ Scheduled' /\ Forward' /\ ~Undoing' /\ ~Between'
    BY <1>1, <1>2, <2>0, <2>2, <2>9, ForwardSchedule
  <2>5. conf = tx.was.conf
    BY <1>1, <2>9 DEF Changed, Inv, UpdaterInv, ConfKept, Transactions
  <2>6. EditsRead' /\ ConfKept'
    <3>1. EditsRead'
      BY <2>1, <2>2, <2>4, <2>5, <1>1, <1>3
         DEF EditsRead, SameFields, Inv, UpdaterInv, TypeOK, Transactions
    <3>2. ConfKept'
      BY <2>1, <2>2, <2>4, <2>5, <1>1, <1>3 DEF ConfKept, Same, SameFields
    <3> QED
      BY <3>1, <3>2
  <2>7. FilesKept' /\ ZoneKept'
    <3>1. FilesKept'
      BY <2>1, <2>2, <2>4, <1>1, <1>3 DEF FilesKept, SameFields, Inv, UpdaterInv
    <3>2. ZoneKept'
      BY <2>1, <2>2, <2>4, <1>1, <1>3 DEF ZoneKept, SameFields, Inv, UpdaterInv
    <3> QED
      BY <3>1, <3>2
  <2> QED
    BY <2>1, <2>3, <2>4, <2>6, <2>7 DEF Inv, UpdaterInv
<1> QED
  BY <1>4, <1>5 DEF Recheck

\* The copies and the second build of the candidates.
LEMMA BackupKeeps ==
    ASSUME Inv, Backup, UNCHANGED <<site, published, issued>>
    PROVE  Inv'
<1> DEFINE t == [tx EXCEPT !.read = conf[site.options]]
<1>1. /\ tx \in Transactions /\ tx # None /\ tx.outcome = None
      /\ Running /\ Head(tx.todo) = "backup" /\ Due("backup")
  BY RunningFacts DEF Backup, At
<1>2. ~tx.undoing
  BY <1>1 DEF Inv, UpdaterInv, Scripted, InstallBack, MigrateBack, Due
<1>3. /\ ~Due("recheck")
      /\ tx.kind = "install" => Due("options") /\ Due("zone")
  BY <1>1, <1>2, ForwardFacts, RankValues DEF InstallForward, MigrateForward
<1>4. UNCHANGED <<conf, disk, zone, timers, jobs, result, named, site, published>>
  BY DEF Backup, system
<1>5. /\ t \in Transactions /\ t.todo = tx.todo /\ t.outcome = tx.outcome
      /\ t.undoing = tx.undoing /\ t.ok = tx.ok /\ t.kind = tx.kind
      /\ t.was = tx.was /\ t.switched = tx.switched /\ t.started = tx.started
      /\ t.installed = tx.installed /\ t.loose = tx.loose
      /\ t.read = conf[site.options]
  BY <1>1 DEF Transactions, Inv, TypeOK, Configurations
<1>6. tx' = Advance(t)
  BY DEF Backup
<1> HIDE DEF t
<1>7. /\ tx' \in Transactions /\ tx' # None /\ SameFields(t, tx')
      /\ ~tx'.undoing /\ tx'.ok /\ tx'.outcome = None /\ tx'.todo # <<>>
      /\ \A x : Due(x)' <=> Due(x) /\ x # "backup"
      /\ Forward /\ Forward' /\ ~Undoing' /\ ~Between'
      /\ OneUpdater' /\ Scripted' /\ OriginKept' /\ Scheduled'
  BY <1>1, <1>2, <1>4, <1>5, <1>6, ForwardSchedule
<1>8. TypeOK'
  BY <1>4, <1>7 DEF Inv, TypeOK
<1>9. EditsRead'
  BY <1>1, <1>3, <1>4, <1>5, <1>7
     DEF EditsRead, SameFields, Running, Inv, UpdaterInv, TypeOK
<1>10. ConfKept' /\ FilesKept'
  BY <1>1, <1>3, <1>4, <1>5, <1>7
     DEF ConfKept, FilesKept, Same, SameFields, Inv, UpdaterInv
<1>11. ZoneKept'
  BY <1>1, <1>3, <1>4, <1>5, <1>7 DEF ZoneKept, SameFields, Inv, UpdaterInv
<1> QED
  BY <1>7, <1>8, <1>9, <1>10, <1>11 DEF Inv, UpdaterInv

\* The files of the MANAGED integration and the zone's.
LEMMA WriteArtifactKeeps ==
    ASSUME Inv, WriteArtifact, UNCHANGED <<site, published, issued>>
    PROVE  Inv'
<1> DEFINE step == Head(tx.todo)
           t == [tx EXCEPT !.installed = @ \cup {step}]
<1>1. /\ tx \in Transactions /\ tx # None /\ tx.outcome = None
      /\ Running /\ ~tx.undoing /\ step \in Artifacts \cup {"zone"} /\ Due(step)
  BY RunningFacts DEF WriteArtifact
<1>2. /\ step \notin {"recheck", "backup", "checkconf", "disable-external", "commit"}
      /\ ~Due("recheck") /\ ~Due("backup")
      /\ step # "zone" => ~Due("zone")
      /\ tx.kind = "migrate" => step \in Units
      /\ tx.ok
  BY <1>1, ForwardFacts, RankValues DEF InstallForward, MigrateForward, Artifacts, Units
<1>3. UNCHANGED <<conf, timers, jobs, result, named, site, published>>
  BY DEF WriteArtifact
<1>4. /\ disk' = disk \cup ({step} \cap Artifacts)
      /\ zone' = IF step = "zone" THEN tx.fetched ELSE zone
  BY DEF WriteArtifact
<1>5. /\ t \in Transactions /\ t.todo = tx.todo /\ t.outcome = tx.outcome
      /\ t.undoing = tx.undoing /\ t.ok = tx.ok /\ t.kind = tx.kind
      /\ t.was = tx.was /\ t.switched = tx.switched /\ t.started = tx.started
      /\ t.installed = tx.installed \cup {step} /\ t.loose = tx.loose
      /\ t.read = tx.read
  BY <1>1 DEF Transactions
<1>6. tx' = Advance(t)
  BY DEF WriteArtifact
<1> HIDE DEF t, step
<1>7. /\ tx' \in Transactions /\ tx' # None /\ SameFields(t, tx')
      /\ ~tx'.undoing /\ tx'.ok /\ tx'.outcome = None /\ tx'.todo # <<>>
      /\ \A x : Due(x)' <=> Due(x) /\ x # step
      /\ Forward /\ Forward' /\ ~Undoing' /\ ~Between'
      /\ OneUpdater' /\ Scripted' /\ OriginKept' /\ Scheduled'
  BY <1>1, <1>2, <1>3, <1>5, <1>6, ForwardSchedule DEF step
<1>8. TypeOK'
  <2>1. disk' \in SUBSET Artifacts /\ zone' \in Nat
    BY <1>1, <1>4 DEF Inv, TypeOK, Transactions
  <2> QED
    BY <1>3, <1>7, <2>1 DEF Inv, TypeOK
<1>9. EditsRead'
  BY <1>1, <1>2, <1>3, <1>5, <1>7
     DEF EditsRead, SameFields, Running, Inv, UpdaterInv, TypeOK
<1>10. ConfKept'
  BY <1>1, <1>2, <1>3, <1>5, <1>7
     DEF ConfKept, Same, SameFields, Inv, UpdaterInv
<1>11. FilesKept'
  BY <1>1, <1>2, <1>3, <1>4, <1>5, <1>7
     DEF FilesKept, SameFields, Inv, UpdaterInv
<1>12. ZoneKept'
  BY <1>1, <1>2, <1>3, <1>4, <1>5, <1>7
     DEF ZoneKept, FilesKept, SameFields, Inv, UpdaterInv
<1> QED
  BY <1>7, <1>8, <1>9, <1>10, <1>11, <1>12 DEF Inv, UpdaterInv

\* The configuration files with the zone in them.
LEMMA WriteConfKeeps ==
    ASSUME Inv, WriteConf, UNCHANGED <<site, published, issued>>
    PROVE  Inv'
<1> DEFINE step == Head(tx.todo)
<1>1. /\ tx \in Transactions /\ tx # None /\ tx.outcome = None
      /\ Running /\ step \in {"options", "root"} /\ Due(step)
  BY RunningFacts DEF WriteConf, At
<1>2. ~tx.undoing
  BY <1>1 DEF Inv, UpdaterInv, Scripted, InstallBack, MigrateBack, Due
<1>3. /\ ~Due("recheck") /\ ~Due("backup") /\ ~Due("zone")
      /\ step = "root" => ~Due("options")
      /\ tx.kind = "install" /\ tx.ok
  <2>1. tx.kind = "install" /\ tx.ok
    BY <1>1, <1>2, ForwardFacts DEF MigrateForward, Transactions
  <2> QED
    BY <2>1, <1>1, <1>2, ForwardFacts, RankValues DEF InstallForward
<1>4. UNCHANGED <<disk, zone, timers, jobs, result, named, site, published>>
  BY DEF WriteConf
<1>5. \/ step = "options" /\ conf' = [conf EXCEPT ![site.options] = tx.read \cup {"policy"}]
      \/ step = "root" /\ conf' = [conf EXCEPT !["root"] = tx.was.conf["root"] \cup {"include"}]
  BY DEF WriteConf, At
<1>6. /\ tx' \in Transactions /\ tx' # None /\ SameFields(tx, tx')
      /\ ~tx'.undoing /\ tx'.ok /\ tx'.outcome = None /\ tx'.todo # <<>>
      /\ \A x : Due(x)' <=> Due(x) /\ x # step
      /\ Forward /\ Forward' /\ ~Undoing' /\ ~Between'
      /\ OneUpdater' /\ Scripted' /\ OriginKept' /\ Scheduled'
  <2>1. tx' = Advance(tx)
    BY DEF WriteConf
  <2> QED
    BY <1>1, <1>2, <1>3, <1>4, <2>1, ForwardSchedule
<1>7. /\ conf \in Configurations /\ site.options \in ConfFiles /\ "root" \in ConfFiles
      /\ tx.read \in SUBSET Words /\ tx.was.conf \in Configurations
  BY <1>1 DEF Inv, TypeOK, Transactions, Snapshots, ConfFiles
<1> HIDE DEF step
<1>8. TypeOK'
  <2>1. conf' \in Configurations
    BY <1>5, <1>7 DEF Configurations, Words
  <2> QED
    BY <1>4, <1>6, <2>1 DEF Inv, TypeOK
<1>9. EditsRead'
  <2>1. /\ \A f \in ConfFiles : "edit" \in conf[f] => "edit" \in tx.was.conf[f]
        /\ "edit" \in tx.read => "edit" \in tx.was.conf[site.options]
        /\ Due("options") /\ "edit" \in conf[site.options] => "edit" \in tx.read
    BY <1>1, <1>3 DEF EditsRead, Inv, UpdaterInv
  <2>2. \A f \in ConfFiles : "edit" \in conf'[f] => "edit" \in tx.was.conf[f]
    BY <2>1, <1>5, <1>7 DEF Configurations
  <2> QED
    BY <2>1, <2>2, <1>1, <1>3, <1>4, <1>5, <1>6, <1>7 DEF EditsRead, SameFields, Configurations
<1>10. ConfKept'
  <2>1. \A f \in ConfFiles \ {site.options, "root"} : conf'[f] = conf[f] /\ Same(f)
    BY <1>1, <1>3, <1>5, <1>6, <1>7 DEF ConfKept, Inv, UpdaterInv, Configurations
  <2> QED
    BY <2>1, <1>1, <1>3, <1>4, <1>6 DEF ConfKept, Same, SameFields
<1>11. FilesKept' /\ ZoneKept'
  BY <1>1, <1>3, <1>4, <1>6
     DEF FilesKept, ZoneKept, SameFields, Inv, UpdaterInv
<1> QED
  BY <1>6, <1>8, <1>9, <1>10, <1>11 DEF Inv, UpdaterInv

\* The facts about files and contents that a step forward after the files were
\* written leaves alone.
LEMMA ForwardContents ==
    ASSUME Inv, Forward, Forward', ~Undoing', ~Between',
           \A x \in {"recheck", "backup", "zone", "options"} : Due(x)' <=> Due(x),
           tx' # None, SameFields([tx EXCEPT !.started = tx'.started,
                                             !.switched = tx'.switched], tx'),
           UNCHANGED <<site, conf, disk, zone>>,
           tx.started => tx'.started,
           named'.serial = named.serial \/ tx'.started,
           \/ jobs'["managed"] = jobs["managed"]
           \/ {"updater", "service"} \subseteq disk
    PROVE  EditsRead' /\ ConfKept' /\ FilesKept' /\ ZoneKept'
<1>1. tx \in Transactions
  BY DEF Inv, TypeOK, Forward
<1>2. /\ tx'.kind = tx.kind /\ tx'.was = tx.was /\ tx'.read = tx.read
      /\ tx'.installed = tx.installed /\ tx'.loose = tx.loose
  BY <1>1 DEF SameFields, Transactions
<1>3. EditsRead'
  BY <1>2 DEF EditsRead, Running, Inv, UpdaterInv, Forward
<1>4. ConfKept'
  BY <1>2 DEF ConfKept, Same, Inv, UpdaterInv, Forward
<1>5. FilesKept'
  BY <1>2 DEF FilesKept, Inv, UpdaterInv, Forward
<1>6. ZoneKept'
  BY <1>1, <1>2 DEF ZoneKept, FilesKept, OriginKept, Inv, UpdaterInv, Forward
<1> QED
  BY <1>3, <1>4, <1>5, <1>6

\* What a command of a transaction under way may be.
LEMMA CommandSteps ==
    ASSUME Inv, Running, ~tx.undoing, Head(tx.todo) \in Commands
    PROVE  /\ tx.kind = "install" =>
                Head(tx.todo) \in {"checkconf", "daemon-reload", "reconfig",
                                   "zonestatus", "enable-managed"}
           /\ tx.kind = "migrate" =>
                Head(tx.todo) \in {"daemon-reload", "disable-external", "enable-managed"}
           /\ ~Due("recheck") /\ ~Due("backup") /\ ~Due("zone") /\ ~Due("options")
           /\ tx.kind = "install" =>
                IF Head(tx.todo) = "checkconf" THEN ~tx.started /\ Unscheduled ELSE tx.started
           /\ tx.kind = "migrate" /\ Head(tx.todo) = "enable-managed" => tx.switched /\ Stopped
<1>1. Due(Head(tx.todo)) /\ tx.kind \in {"install", "migrate"} /\ tx # None
  BY RunningFacts DEF Transactions
<1>2. Head(tx.todo) \in IF tx.kind = "install" THEN InstallForward ELSE MigrateForward
  BY <1>1, ForwardFacts
<1>3. /\ tx.kind = "install" =>
           Head(tx.todo) \in {"checkconf", "daemon-reload", "reconfig",
                              "zonestatus", "enable-managed"}
      /\ tx.kind = "migrate" =>
           Head(tx.todo) \in {"daemon-reload", "disable-external", "enable-managed"}
  BY <1>1, <1>2 DEF Commands, InstallForward, MigrateForward
<1>4. ~Due("recheck") /\ ~Due("backup") /\ ~Due("zone") /\ ~Due("options")
  BY <1>1, <1>3, ForwardFacts, RankValues DEF InstallForward, MigrateForward
<1>5. tx.kind = "install" /\ Head(tx.todo) # "checkconf" => ~Due("checkconf")
  BY <1>1, <1>3, ForwardFacts, RankValues DEF InstallForward
<1>6. tx.kind = "migrate" /\ Head(tx.todo) = "enable-managed" => ~Due("disable-external")
  BY <1>1, ForwardFacts, RankValues DEF MigrateForward
<1> QED
  BY <1>1, <1>3, <1>4, <1>5, <1>6, ForwardFacts DEF Scheduled, Inv, UpdaterInv

\* A command of a transaction under way that succeeds.
LEMMA CommandKeeps ==
    ASSUME Inv, Command, ~tx.undoing, UNCHANGED <<site, published, issued>>
    PROVE  Inv'
<1> DEFINE step == Head(tx.todo)
           t == Noted(tx, step)
<1>1. /\ tx \in Transactions /\ tx # None /\ tx.outcome = None
      /\ Running /\ step \in Commands /\ Due(step) /\ tx.ok /\ Forward
      /\ tx.kind \in {"install", "migrate"}
  BY RunningFacts, ForwardFacts DEF Command, Transactions
<1>2. /\ tx.kind = "install" =>
           step \in {"checkconf", "daemon-reload", "reconfig", "zonestatus", "enable-managed"}
      /\ tx.kind = "migrate" =>
           step \in {"daemon-reload", "disable-external", "enable-managed"}
      /\ ~Due("recheck") /\ ~Due("backup") /\ ~Due("zone") /\ ~Due("options")
      /\ tx.kind = "install" =>
           IF step = "checkconf" THEN ~tx.started /\ Unscheduled ELSE tx.started
      /\ tx.kind = "migrate" /\ step = "enable-managed" => tx.switched /\ Stopped
  BY <1>1, CommandSteps
<1>3. UNCHANGED <<conf, disk, zone, jobs, result, site, published>>
  BY DEF Command, Effect
<1>4. /\ t \in Transactions /\ t.todo = tx.todo /\ t.outcome = tx.outcome
      /\ t.undoing = tx.undoing /\ t.ok = tx.ok /\ t.kind = tx.kind
      /\ t.was = tx.was /\ t.installed = tx.installed /\ t.loose = tx.loose
      /\ t.read = tx.read /\ t.cut = tx.cut /\ t.fetched = tx.fetched
      /\ t.switched = (tx.switched \/ step = "disable-external")
      /\ t.started = (tx.started \/ step = "checkconf")
  BY <1>1 DEF Transactions, Noted
<1>5. tx' = Advance(t)
  BY DEF Command
<1> HIDE DEF t
<1>6. /\ tx' \in Transactions /\ tx' # None /\ SameFields(t, tx')
      /\ ~tx'.undoing /\ tx'.ok /\ tx'.outcome = None /\ tx'.todo # <<>>
      /\ \A x : Due(x)' <=> Due(x) /\ x # step
      /\ Scripted'
  <2>1. step # "commit"
    BY <1>1 DEF Commands
  <2> QED
    BY <2>1, <1>1, <1>4, <1>5, AdvanceScripted
<1>7. Forward' /\ ~Undoing' /\ ~Between'
  BY <1>6, NoneAssumption DEF Forward, Undoing, Between, Outcomes
<1>8. timers' = CASE step = "enable-managed" ->
                        [enabled |-> timers.enabled \cup {"managed"},
                         active |-> timers.active \cup {"managed"}]
                  [] step = "disable-external" ->
                        [enabled |-> timers.enabled \ {"external"},
                         active |-> timers.active \ {"external"}]
                  [] OTHER -> timers
  BY <1>1, <1>2 DEF Command, Effect
<1>9. /\ named' \in [policy : BOOLEAN, serial : Nat]
      /\ step # "reconfig" => named' = named
  BY DEF Command, Effect, Loaded, Inv, TypeOK, Policy
<1>10. timers' \in Schedules
  BY <1>8 DEF Inv, TypeOK, Schedules, Updaters
<1>11. TypeOK'
  BY <1>3, <1>6, <1>9, <1>10 DEF Inv, TypeOK
<1>12. EditsRead' /\ ConfKept' /\ FilesKept' /\ ZoneKept'
  <2>1. SameFields([tx EXCEPT !.started = tx'.started, !.switched = tx'.switched], tx')
    BY <1>1, <1>4, <1>6 DEF SameFields, Transactions
  <2>2. tx.started => tx'.started
    BY <1>4, <1>6 DEF SameFields
  <2>3. named'.serial = named.serial \/ tx'.started
    BY <1>1, <1>2, <1>9, <2>2
  <2>4. \A x \in {"recheck", "backup", "zone", "options"} : Due(x)' <=> Due(x)
    BY <1>2, <1>6
  <2> QED
    BY <1>1, <1>3, <1>6, <1>7, <2>1, <2>2, <2>3, <2>4, ForwardContents
<1>13. OriginKept'
  <2>1. site.origin = "none" => Stopped'
    BY <1>1, <1>3, <1>8 DEF OriginKept, Stopped, Inv, UpdaterInv
  <2> QED
    BY <2>1, <1>1, <1>3, <1>4, <1>6 DEF OriginKept, SameFields, Inv, UpdaterInv
<1>14. Scheduled'
  <2>1. /\ tx'.kind = tx.kind /\ tx'.was = tx.was
        /\ tx'.switched = (tx.switched \/ step = "disable-external")
        /\ tx'.started = (tx.started \/ step = "checkconf")
    BY <1>4, <1>6 DEF SameFields
  <2>2. ASSUME tx.kind = "install"
        PROVE  IF Due("checkconf")' THEN ~tx'.started /\ Unscheduled' ELSE tx'.started
    <3>1. step # "checkconf" => ~Due("checkconf") /\ tx.started
      BY <2>2, <1>1, <1>2 DEF Scheduled, Inv, UpdaterInv
    <3> QED
      BY <2>1, <3>1, <1>1, <1>6
  <2>3. ASSUME tx.kind = "migrate"
        PROVE  IF Due("disable-external")'
               THEN ~tx'.switched /\ timers' = tx'.was.timers
               ELSE tx'.switched /\ Stopped'
    <3>1. step = "daemon-reload" => timers' = timers
      BY <1>8
    <3>2. step = "disable-external" => Stopped'
      BY <1>8 DEF Stopped
    <3>3. step = "enable-managed" => Stopped' /\ ~Due("disable-external")
      BY <1>1, <1>2, <1>8, <2>3, ForwardFacts, RankValues DEF Stopped, MigrateForward
    <3> QED
      BY <2>1, <2>3, <3>1, <3>2, <3>3, <1>1, <1>2, <1>6 DEF Scheduled, Stopped, Inv, UpdaterInv
  <2>4. ASSUME tx.kind = "migrate"
        PROVE  /\ timers'.enabled \ {"managed"} \subseteq tx'.was.timers.enabled
               /\ timers'.active \ {"managed"} \subseteq tx'.was.timers.active
    BY <2>1, <2>4, <1>1, <1>2, <1>8 DEF Scheduled, Inv, UpdaterInv
  <2> QED
    BY <2>1, <2>2, <2>3, <2>4, <1>1, <1>6, <1>7 DEF Scheduled
<1>15. OneUpdater'
  <2>1. ASSUME tx.kind = "install" PROVE "external" \notin timers'.active
    BY <2>1, <1>1, <1>13, <1>3, <1>4, <1>6 DEF OriginKept, Stopped, SameFields
  <2>2. ASSUME tx.kind = "migrate" PROVE timers'.active # Updaters
    <3>1. CASE Stopped'
      BY <3>1 DEF Stopped, Updaters
    <3>2. CASE ~Stopped'
      <4>1. timers' = tx.was.timers
        BY <1>4, <1>6, <1>7, <1>14, <2>2, <3>2 DEF Scheduled, SameFields
      <4> QED
        BY <4>1, <1>1 DEF OriginKept, Inv, UpdaterInv, Updaters
    <3> QED
      BY <3>1, <3>2
  <2> QED
    BY <2>1, <2>2, <1>1 DEF OneUpdater, Updaters
<1> QED
  BY <1>6, <1>11, <1>12, <1>13, <1>14, <1>15 DEF Inv, UpdaterInv

\* A transaction that turns to its rollback, with what the failing step did to
\* the timers and to named.
LEMMA FailKeeps ==
    ASSUME Inv, Running, ~tx.undoing, ~Due("recheck"), NEW cut \in BOOLEAN,
           tx' = Fail([tx EXCEPT !.cut = cut]),
           UNCHANGED <<site, conf, disk, zone, jobs, result, published>>,
           timers' \in Schedules, named' \in [policy : BOOLEAN, serial : Nat],
           timers'.enabled \cap {"external"} \subseteq timers.enabled,
           timers'.active \cap {"external"} \subseteq timers.active,
           Unscheduled \/ tx.started \/ tx.switched,
           Unscheduled' \/ (IF tx.kind = "install" THEN tx.started ELSE tx.switched),
           tx.kind = "migrate" /\ tx.switched => Stopped',
           tx.kind = "migrate" /\ ~tx.switched =>
              cut \/ (tx.was.timers.enabled \subseteq timers'.enabled
                       /\ tx.was.timers.active \subseteq timers'.active),
           named'.serial = named.serial \/ tx.started
    PROVE  Inv'
<1> DEFINE t == [tx EXCEPT !.cut = cut]
<1>1. tx \in Transactions /\ tx # None /\ tx.outcome = None /\ Forward /\ tx.ok
      /\ tx.kind \in {"install", "migrate"}
  BY RunningFacts, ForwardFacts DEF Transactions
<1>2. /\ t \in Transactions /\ t.kind = tx.kind /\ t.was = tx.was
      /\ t.ok = tx.ok /\ t.outcome = tx.outcome /\ t.installed = tx.installed
      /\ t.read = tx.read /\ t.loose = tx.loose /\ t.started = tx.started
      /\ t.switched = tx.switched /\ t.cut = cut
  BY <1>1 DEF Transactions
<1> HIDE DEF t
<1>3. /\ tx' \in Transactions /\ tx' # None /\ SameFields(t, tx')
      /\ tx'.undoing /\ tx'.ok /\ tx'.outcome = None /\ tx'.todo # <<>>
      /\ \A x : Due(x)' <=>
            x \in IF tx.kind = "install"
                  THEN IF tx.started THEN InstallBack
                       ELSE {"options-back", "root-back", "remove"}
                  ELSE {"remove", "daemon-reload"}
                       \cup (IF tx.switched THEN {"disable-managed"} ELSE {})
                       \cup (IF RestoreDue(t) THEN {"restore-external"} ELSE {})
      /\ Scripted'
  <2>1. tx' = Fail(t)
    BY DEF t
  <2> QED
    BY <2>1, <1>1, <1>2, FailScripted
<1>4. ~Forward' /\ Undoing' /\ ~Between'
  BY <1>3, NoneAssumption DEF Forward, Undoing, Between, Outcomes
<1>5. /\ tx'.kind = tx.kind /\ tx'.was = tx.was /\ tx'.read = tx.read
      /\ tx'.installed = tx.installed /\ tx'.loose = tx.loose /\ tx'.cut = cut
      /\ tx'.started = tx.started /\ tx'.switched = tx.switched
  BY <1>2, <1>3 DEF SameFields
<1>6. TypeOK'
  BY <1>3 DEF Inv, TypeOK
<1>7. OriginKept'
  <2>1. site.origin = "none" => Stopped'
    BY DEF OriginKept, Stopped, Inv, UpdaterInv
  <2> QED
    BY <2>1, <1>1, <1>5 DEF OriginKept, Inv, UpdaterInv
<1>8. EditsRead'
  BY <1>1, <1>3, <1>4, <1>5 DEF EditsRead, Running, InstallBack, Inv, UpdaterInv
<1>9. ConfKept'
  BY <1>1, <1>3, <1>4, <1>5 DEF ConfKept, Same, InstallBack, Inv, UpdaterInv
<1>10. FilesKept'
  BY <1>1, <1>3, <1>4, <1>5 DEF FilesKept, InstallBack, Inv, UpdaterInv
<1>11. ZoneKept'
  BY <1>1, <1>3, <1>4, <1>5, <1>7 DEF ZoneKept, OriginKept, InstallBack, Inv, UpdaterInv
<1>12. Scheduled'
  <2>1. Unscheduled' \/ Due("disable-managed")'
    BY <1>1, <1>3 DEF InstallBack
  <2>2. ASSUME tx.kind = "migrate"
        PROVE  /\ timers'.enabled \ {"managed"} \subseteq tx.was.timers.enabled
               /\ timers'.active \ {"managed"} \subseteq tx.was.timers.active
               /\ Unscheduled' \/ Stopped'
    BY <2>2, <1>1 DEF Scheduled, Inv, UpdaterInv, Schedules, Updaters
  <2>3. ASSUME tx.kind = "migrate"
        PROVE  \/ Due("restore-external")'
               \/ cut
               \/ /\ tx.was.timers.enabled \subseteq timers'.enabled
                  /\ tx.was.timers.active \subseteq timers'.active
    <3>1. CASE RestoreDue(t)
      BY <2>3, <3>1, <1>3
    <3>2. CASE ~RestoreDue(t) /\ tx.switched
      <4>1. "external" \notin tx.was.timers.enabled \cup tx.was.timers.active
        BY <3>2, <1>2 DEF RestoreDue
      <4>2. tx.was.timers.enabled = {} /\ tx.was.timers.active = {}
        BY <4>1, <1>1 DEF OriginKept, Inv, UpdaterInv, Transactions, Snapshots, Schedules, Updaters
      <4> QED
        BY <4>2
    <3> QED
      BY <2>3, <3>1, <3>2
  <2> QED
    BY <2>1, <2>2, <2>3, <1>1, <1>3, <1>4, <1>5 DEF Scheduled
<1>13. OneUpdater'
  <2>1. tx.kind = "install" => Stopped'
    BY <1>5, <1>7, <1>3 DEF OriginKept
  <2>2. tx.kind = "migrate" => Unscheduled' \/ Stopped'
    BY <1>3, <1>4, <1>5, <1>12 DEF Scheduled
  <2> QED
    BY <2>1, <2>2, <1>1 DEF OneUpdater, Updaters, Stopped, Unscheduled
<1> QED
  BY <1>3, <1>6, <1>7, <1>8, <1>9, <1>10, <1>11, <1>12, <1>13 DEF Inv, UpdaterInv

\* What the flags of a transaction under way say of the timers.
LEMMA ForwardFlags ==
    ASSUME Inv, Running, ~tx.undoing
    PROVE  /\ Unscheduled \/ (IF tx.kind = "install" THEN tx.started ELSE tx.switched)
           /\ tx.kind = "migrate" /\ tx.switched => Stopped
           /\ tx.kind = "migrate" /\ ~tx.switched => timers = tx.was.timers /\ Unscheduled
<1>1. Forward /\ tx.kind \in {"install", "migrate"} /\ tx # None
  BY ForwardFacts, RunningFacts DEF Transactions
<1>2. tx.kind = "install" => Unscheduled \/ tx.started
  BY <1>1 DEF Scheduled, Inv, UpdaterInv
<1>3. tx.kind = "migrate" /\ ~tx.switched => timers = tx.was.timers
  BY <1>1 DEF Scheduled, Inv, UpdaterInv
<1>4. tx.kind = "migrate" /\ ~tx.switched => Unscheduled
  BY <1>1, <1>3 DEF Unscheduled, OriginKept, Inv, UpdaterInv
<1>5. tx.kind = "migrate" /\ tx.switched => Stopped
  BY <1>1 DEF Scheduled, Inv, UpdaterInv
<1> QED
  BY <1>1, <1>2, <1>3, <1>4, <1>5

\* A step that fails and has changed nothing.
LEMMA PlainFailKeeps ==
    ASSUME Inv, Running, ~tx.undoing, ~Due("recheck"), tx' = Fail(tx),
           UNCHANGED <<site, system, published>>
    PROVE  Inv'
<1>1. UNCHANGED <<conf, disk, zone, timers, jobs, result, named>>
  BY DEF system
<1>2. tx.cut \in BOOLEAN /\ tx = [tx EXCEPT !.cut = tx.cut]
  BY RunningFacts DEF Transactions
<1>3. timers \in Schedules /\ named \in [policy : BOOLEAN, serial : Nat]
  BY DEF Inv, TypeOK
<1>4. tx.kind \in {"install", "migrate"}
  BY RunningFacts DEF Transactions
<1>5. Unscheduled' = Unscheduled /\ Stopped' = Stopped
  BY <1>1 DEF Unscheduled, Stopped
<1> QED
  BY <1>1, <1>2, <1>3, <1>4, <1>5, ForwardFlags, FailKeeps

\* A command that fails, before or after its effect.
LEMMA CommandFailsKeeps ==
    ASSUME Inv, CommandFails, ~tx.undoing, UNCHANGED <<site, published, issued>>
    PROVE  Inv'
<1> DEFINE step == Head(tx.todo)
           cut == step = "disable-external" /\ "external" \notin timers'.active
<1>1. /\ tx \in Transactions /\ tx # None /\ tx.outcome = None
      /\ Running /\ step \in Commands /\ Due(step) /\ tx.ok /\ Forward
      /\ tx.kind \in {"install", "migrate"}
  BY RunningFacts, ForwardFacts DEF CommandFails, Transactions
<1>2. /\ tx.kind = "install" =>
           step \in {"checkconf", "daemon-reload", "reconfig", "zonestatus", "enable-managed"}
      /\ tx.kind = "migrate" =>
           step \in {"daemon-reload", "disable-external", "enable-managed"}
      /\ ~Due("recheck")
      /\ tx.kind = "install" =>
           IF step = "checkconf" THEN ~tx.started /\ Unscheduled ELSE tx.started
      /\ tx.kind = "migrate" /\ step = "enable-managed" => tx.switched /\ Stopped
  BY <1>1, CommandSteps
<1>3. UNCHANGED system \/ Effect(step)
  BY DEF CommandFails
<1>4. UNCHANGED <<conf, disk, zone, jobs, result, site, published>>
  BY <1>3 DEF Effect, system
<1>5. tx' = Fail([tx EXCEPT !.cut = cut])
  BY DEF CommandFails
<1>6. \/ timers' = timers
      \/ step = "enable-managed" /\ timers' = [enabled |-> timers.enabled \cup {"managed"},
                                               active |-> timers.active \cup {"managed"}]
      \/ step = "disable-external" /\ timers' = [enabled |-> timers.enabled \ {"external"},
                                                 active |-> timers.active \ {"external"}]
  BY <1>1, <1>2, <1>3 DEF Effect, system
<1>7. /\ named' \in [policy : BOOLEAN, serial : Nat]
      /\ step # "reconfig" => named' = named
  <2>1. CASE UNCHANGED system
    BY <2>1 DEF Inv, TypeOK, system
  <2>2. CASE Effect(step)
    BY <2>2 DEF Effect, Loaded, Inv, TypeOK, Policy
  <2> QED
    BY <1>3, <2>1, <2>2
<1>8. timers' \in Schedules
  BY <1>6 DEF Inv, TypeOK, Schedules, Updaters
<1>9. /\ timers'.enabled \cap {"external"} \subseteq timers.enabled
      /\ timers'.active \cap {"external"} \subseteq timers.active
  BY <1>6
<1>10. /\ Unscheduled \/ (IF tx.kind = "install" THEN tx.started ELSE tx.switched)
       /\ tx.kind = "migrate" /\ tx.switched => Stopped
       /\ tx.kind = "migrate" /\ ~tx.switched => timers = tx.was.timers /\ Unscheduled
  BY <1>1, ForwardFlags
<1>11. Unscheduled' \/ (IF tx.kind = "install" THEN tx.started ELSE tx.switched)
  BY <1>1, <1>2, <1>6, <1>10 DEF Unscheduled
<1>12. tx.kind = "migrate" /\ tx.switched => Stopped'
  BY <1>6, <1>10 DEF Stopped
<1>13. tx.kind = "migrate" /\ ~tx.switched =>
              cut \/ (tx.was.timers.enabled \subseteq timers'.enabled
                       /\ tx.was.timers.active \subseteq timers'.active)
  BY <1>2, <1>6, <1>10
<1>14. named'.serial = named.serial \/ tx.started
  BY <1>1, <1>2, <1>7
<1>15. cut \in BOOLEAN
  OBVIOUS
<1> HIDE DEF cut, step
<1> QED
  BY <1>1, <1>2, <1>4, <1>5, <1>7, <1>8, <1>9, <1>10, <1>11, <1>12, <1>13, <1>14, <1>15,
     FailKeeps

\* A file that cannot be written.
LEMMA FileFailsKeeps ==
    ASSUME Inv, FileFails, UNCHANGED <<site, published, issued>>
    PROVE  Inv'
<1>1. /\ Running /\ ~tx.undoing /\ tx' = Fail(tx) /\ UNCHANGED system
      /\ Head(tx.todo) \in Artifacts \cup {"backup", "zone", "options", "root", "commit"}
  BY DEF FileFails
<1>2. ~Due("recheck")
  BY <1>1, NotRecheck DEF Artifacts
<1> QED
  BY <1>1, <1>2, PlainFailKeeps

\* A step forward from the start of the service on that changes no file, no
\* timer and not what named serves.
LEMMA QuietKeeps ==
    ASSUME Inv, Running, tx' = Advance(tx),
           Head(tx.todo) \in {"start-managed", "await-managed", "gate"},
           UNCHANGED <<site, conf, disk, zone, timers, named, published>>,
           jobs' \in [Updaters -> Nat], jobs'["external"] = jobs["external"],
           result' \in {"success", "failed"},
           \/ jobs'["managed"] = jobs["managed"]
           \/ {"updater", "service"} \subseteq disk
    PROVE  Inv'
<1>1. /\ tx \in Transactions /\ tx # None /\ tx.outcome = None /\ Due(Head(tx.todo))
  BY RunningFacts
<1>2. ~tx.undoing
  BY <1>1 DEF Inv, UpdaterInv, Scripted, InstallBack, MigrateBack, Due
<1>3. \A x \in {"recheck", "backup", "zone", "options"} : ~Due(x)
  BY <1>1, <1>2, ForwardFacts, RankValues DEF InstallForward, MigrateForward
<1>4. /\ tx' \in Transactions /\ tx' # None /\ SameFields(tx, tx')
      /\ ~tx'.undoing /\ tx'.ok /\ tx'.outcome = None /\ tx'.todo # <<>>
      /\ \A x : Due(x)' <=> Due(x) /\ x # Head(tx.todo)
      /\ Forward /\ Forward' /\ ~Undoing' /\ ~Between'
      /\ OneUpdater' /\ Scripted' /\ OriginKept' /\ Scheduled'
  BY <1>1, <1>2, ForwardSchedule
<1>5. TypeOK'
  BY <1>4 DEF Inv, TypeOK
<1>6. EditsRead' /\ ConfKept' /\ FilesKept' /\ ZoneKept'
  <2>1. SameFields([tx EXCEPT !.started = tx'.started, !.switched = tx'.switched], tx')
    BY <1>1, <1>4 DEF SameFields, Transactions
  <2>2. tx.started => tx'.started
    BY <1>4 DEF SameFields
  <2> QED
    BY <1>3, <1>4, <2>1, <2>2, ForwardContents
<1> QED
  BY <1>4, <1>5, <1>6 DEF Inv, UpdaterInv

\* What a start of an update job does.
LEMMA LaunchedFacts ==
    ASSUME Inv, NEW u \in Updaters, Launched(u)
    PROVE  /\ jobs' \in [Updaters -> Nat] /\ result' \in {"success", "failed"}
           /\ \A v \in Updaters \ {u} : jobs'[v] = jobs[v]
           /\ \/ jobs' = jobs
              \/ u = "managed" => {"updater", "service"} \subseteq disk
BY DEF Launched, Inv, TypeOK

\* Starting the service.
LEMMA StartServiceKeeps ==
    ASSUME Inv, StartService, UNCHANGED <<site, published, issued>>
    PROVE  Inv'
<1>1. /\ Running /\ Head(tx.todo) = "start-managed" /\ tx' = Advance(tx)
      /\ UNCHANGED <<site, conf, disk, zone, timers, named, published>>
      /\ UNCHANGED <<jobs, result>> \/ Launched("managed")
  BY DEF StartService, At
<1>2. /\ jobs' \in [Updaters -> Nat] /\ result' \in {"success", "failed"}
      /\ jobs'["external"] = jobs["external"]
      /\ jobs' = jobs \/ {"updater", "service"} \subseteq disk
  BY <1>1, LaunchedFacts DEF Inv, TypeOK, Updaters
<1> QED
  BY <1>1, <1>2, QuietKeeps

\* Waiting for the service, and the gate.
LEMMA GateKeeps ==
    ASSUME Inv, ServiceEnds \/ Gate, UNCHANGED <<site, published, issued>>
    PROVE  Inv'
<1>1. /\ Running /\ Head(tx.todo) \in {"await-managed", "gate"}
      /\ UNCHANGED system /\ (tx' = Advance(tx) \/ tx' = Fail(tx))
  BY DEF ServiceEnds, Gate, At
<1>2. CASE tx' = Advance(tx)
  <2>1. /\ UNCHANGED <<conf, disk, zone, timers, named, jobs, result>>
        /\ jobs \in [Updaters -> Nat] /\ result \in {"success", "failed"}
    BY <1>1 DEF system, Inv, TypeOK
  <2> QED
    BY <1>1, <1>2, <2>1, QuietKeeps
<1>3. CASE tx' = Fail(tx)
  <2>1. Due(Head(tx.todo)) /\ tx # None
    BY <1>1, RunningFacts
  <2>2. ~tx.undoing
    BY <2>1, <1>1 DEF Inv, UpdaterInv, Scripted, InstallBack, MigrateBack, Due
  <2>3. ~Due("recheck")
    BY <1>1, <2>2, ForwardFacts, RankValues DEF InstallForward, MigrateForward
  <2> QED
    BY <1>1, <1>3, <2>2, <2>3, PlainFailKeeps
<1> QED
  BY <1>1, <1>2, <1>3

\* A transaction that is over and has neither been refused nor rolled back.
LEMMA OverKeeps ==
    ASSUME Inv, Running, NEW outcome \in {"COMMIT", "DEAD"},
           tx' = End(tx, outcome), UNCHANGED <<site, system, published>>
    PROVE  Inv'
<1>1. /\ tx' \in Transactions /\ tx' # None /\ SameFields(tx, tx')
      /\ tx'.undoing = tx.undoing /\ tx'.ok = tx.ok
      /\ tx'.todo = <<>> /\ tx'.outcome = outcome /\ Scripted'
  BY EndFacts DEF Outcomes
<1>2. UNCHANGED <<conf, disk, zone, timers, jobs, result, named>>
  BY DEF system
<1>3. ~Forward' /\ ~Undoing' /\ ~Between' /\ ~Running' /\ tx'.outcome # None
  BY <1>1, NoneAssumption DEF Forward, Undoing, Between, Running, Outcomes
<1>4. tx # None
  BY RunningFacts
<1>5. TypeOK'
  BY <1>1, <1>2 DEF Inv, TypeOK
<1>6. OneUpdater'
  BY <1>1, <1>2 DEF OneUpdater, Inv, UpdaterInv
<1>7. OriginKept'
  BY <1>1, <1>2, <1>4 DEF OriginKept, Stopped, SameFields, Inv, UpdaterInv
<1>8. Scheduled' /\ EditsRead' /\ FilesKept' /\ ZoneKept'
  BY <1>1, <1>2, <1>3, <1>4 DEF Scheduled, EditsRead, FilesKept, ZoneKept, SameFields, Inv, UpdaterInv
<1>9. ConfKept'
  BY <1>1, <1>2, <1>3, <1>4 DEF ConfKept, SameFields, Inv, UpdaterInv
<1> QED
  BY <1>1, <1>5, <1>6, <1>7, <1>8, <1>9 DEF Inv, UpdaterInv

(* The rollback ************************************************************)

\* What a rollback none of whose steps has failed keeps at each of its steps.
UndoSound ==
    /\ Unscheduled \/ Due("disable-managed")
    /\ tx.kind = "migrate" =>
         /\ Unscheduled \/ Stopped
         /\ \/ Due("restore-external")
            \/ tx.cut
            \/ /\ tx.was.timers.enabled \subseteq timers.enabled
               /\ tx.was.timers.active \subseteq timers.active
         /\ disk \ Units = tx.was.disk
         /\ Due("remove") \/ disk = tx.was.disk
    /\ tx.kind = "install" =>
         /\ \A f \in ConfFiles :
                 \/ f = site.options /\ Due("options-back")
                 \/ f = "root" /\ Due("root-back")
                 \/ Same(f)
         /\ disk = {} \/ (Due("remove") /\ disk \subseteq tx.installed)
         /\ named.serial = 0 \/ Due("reconfig")
         /\ ~tx.loose => \/ zone = 0 /\ jobs["managed"] = 0
                         \/ "zone" \in tx.installed /\ Due("remove")

\* A rollback under way is sound.
LEMMA UndoingSound ==
    ASSUME Inv, Running, tx.undoing, tx.ok
    PROVE  UndoSound
<1>1. /\ tx \in Transactions /\ tx # None /\ tx.outcome = None
      /\ tx.kind = "install" <=> site.origin = "none"
  BY RunningFacts DEF OriginKept, Inv, UpdaterInv
<1>2. Undoing
  BY <1>1 DEF Undoing
<1> QED
  BY <1>1, <1>2 DEF UndoSound, Scheduled, ConfKept, FilesKept, ZoneKept, Inv, UpdaterInv

\* A step of the rollback keeps the invariant if it keeps the rollback sound.
LEMMA UndoKeeps ==
    ASSUME Inv, Running, tx.undoing, NEW t \in Transactions,
           \/ /\ tx' = Advance(t)
              /\ t.todo = tx.todo /\ t.kind = tx.kind /\ t.was = tx.was
              /\ t.outcome = tx.outcome /\ t.undoing = tx.undoing /\ t.ok = tx.ok
              /\ t.read = tx.read /\ t.installed = tx.installed
           \/ t = tx /\ tx' = UndoFails(tx),
           tx' \in Transactions => TypeOK',
           UNCHANGED <<site, published>>,
           jobs'["external"] = jobs["external"],
           tx.kind = "install" => Stopped',
           tx.kind = "migrate" =>
              /\ timers'.enabled \ {"managed"} \subseteq tx.was.timers.enabled
              /\ timers'.active \ {"managed"} \subseteq tx.was.timers.active
              /\ conf' = conf,
           tx.kind = "install" =>
              \A f \in ConfFiles : "edit" \in conf'[f] => "edit" \in tx.was.conf[f],
           tx'.ok => UndoSound'
    PROVE  Inv'
<1>1. /\ tx \in Transactions /\ tx # None /\ tx.outcome = None
      /\ tx.kind \in {"install", "migrate"}
      /\ tx.kind = "install" <=> site.origin = "none"
  BY RunningFacts DEF OriginKept, Inv, UpdaterInv, Transactions
<1>2. /\ tx' \in Transactions /\ tx' # None /\ tx'.undoing
      /\ tx'.kind = tx.kind /\ tx'.was = tx.was /\ tx'.read = tx.read
      /\ tx'.installed = tx.installed
      /\ \A x : Due(x)' => Due(x)
      /\ tx'.outcome = IF tx'.todo = <<>>
                       THEN IF tx'.ok THEN "ROLLED-BACK" ELSE "ROLLBACK-FAILED"
                       ELSE None
      /\ Scripted'
  <2>1. CASE t = tx /\ tx' = UndoFails(tx)
    BY <2>1, <1>1, UndoFailsScripted DEF SameFields
  <2>2. CASE ~(t = tx /\ tx' = UndoFails(tx))
    <3>1. Head(tx.todo) # "commit"
      BY <1>1, RunningFacts DEF Inv, UpdaterInv, Scripted, InstallBack, MigrateBack, Due
    <3> QED
      BY <2>2, <3>1, <1>1, AdvanceScripted DEF SameFields
  <2> QED
    BY <2>1, <2>2
<1>3. ~Forward' /\ (Undoing' <=> tx'.ok) /\ (Between' <=> tx'.outcome = "ROLLED-BACK")
  BY <1>2, NoneAssumption DEF Forward, Undoing, Between, Outcomes
<1>4. Between' => tx'.ok /\ \A x : ~Due(x)'
  BY <1>2, <1>3, NoneAssumption, NoScript DEF Due, Outcomes
<1>5. TypeOK'
  BY <1>2 DEF Inv
<1>6. OriginKept'
  BY <1>1, <1>2 DEF OriginKept, Inv, UpdaterInv
<1>7. Scheduled'
  BY <1>1, <1>2, <1>3, <1>4 DEF Scheduled, UndoSound
<1>8. OneUpdater'
  <2>1. ASSUME tx'.ok PROVE Unscheduled' \/ Stopped'
    BY <2>1, <1>1, <1>2 DEF UndoSound
  <2> QED
    BY <2>1 DEF OneUpdater, Unscheduled, Stopped, Updaters
<1>9. EditsRead'
  <2>1. ~Due("recheck") /\ ~Due("options")
    BY <1>1 DEF Inv, UpdaterInv, Scripted, InstallBack, MigrateBack, Due
  <2>2. tx.kind = "install" => ("edit" \in tx.read => "edit" \in tx.was.conf[site.options])
    BY <1>1, <2>1 DEF EditsRead, Inv, UpdaterInv
  <2> QED
    BY <2>1, <2>2, <1>1, <1>2, <1>3 DEF EditsRead
<1>10. ConfKept'
  BY <1>1, <1>2, <1>3 DEF ConfKept, UndoSound, Inv, UpdaterInv
<1>11. FilesKept'
  BY <1>1, <1>2, <1>3, <1>4 DEF FilesKept, UndoSound, Inv, UpdaterInv
<1>12. ZoneKept'
  BY <1>1, <1>2, <1>3, <1>4 DEF ZoneKept, UndoSound
<1> QED
  BY <1>2, <1>5, <1>6, <1>7, <1>8, <1>9, <1>10, <1>11, <1>12 DEF Inv, UpdaterInv

\* What is known at a step of a rollback.
LEMMA UndoFacts ==
    ASSUME Inv, Running, tx.undoing
    PROVE  /\ tx \in Transactions /\ tx # None /\ tx.outcome = None
           /\ tx.kind \in {"install", "migrate"}
           /\ tx.kind = "install" => Stopped
           /\ tx.kind = "migrate" =>
                /\ timers.enabled \ {"managed"} \subseteq tx.was.timers.enabled
                /\ timers.active \ {"managed"} \subseteq tx.was.timers.active
           /\ tx.kind = "install" =>
                \A f \in ConfFiles : "edit" \in conf[f] => "edit" \in tx.was.conf[f]
           /\ \A x : Due(x) => x \in IF tx.kind = "install" THEN InstallBack ELSE MigrateBack
           /\ Due(Head(tx.todo))
<1>1. /\ tx \in Transactions /\ tx # None /\ tx.outcome = None
      /\ tx.kind \in {"install", "migrate"} /\ Due(Head(tx.todo))
  BY RunningFacts DEF Transactions
<1>2. tx.kind = "install" => Stopped
  BY <1>1 DEF OriginKept, Inv, UpdaterInv
<1>3. tx.kind = "migrate" =>
         /\ timers.enabled \ {"managed"} \subseteq tx.was.timers.enabled
         /\ timers.active \ {"managed"} \subseteq tx.was.timers.active
  BY <1>1 DEF Scheduled, Inv, UpdaterInv
<1>4. \A x : Due(x) => x \in IF tx.kind = "install" THEN InstallBack ELSE MigrateBack
  BY <1>1 DEF Inv, UpdaterInv, Scripted, Due
<1>5. ~Due("recheck")
  BY <1>1, <1>4 DEF InstallBack, MigrateBack
<1>6. tx.kind = "install" =>
         \A f \in ConfFiles : "edit" \in conf[f] => "edit" \in tx.was.conf[f]
  BY <1>1, <1>5 DEF EditsRead, Inv, UpdaterInv
<1> QED
  BY <1>1, <1>2, <1>3, <1>4, <1>6

\* A command of a rollback, whether it succeeds or fails.
LEMMA UndoCommandKeeps ==
    ASSUME Inv, tx.undoing, Command \/ CommandFails, UNCHANGED <<site, published, issued>>
    PROVE  Inv'
<1> DEFINE step == Head(tx.todo)
<1>1. /\ Running /\ step \in Commands /\ (UNCHANGED system \/ Effect(step))
      /\ \/ tx' = Advance(tx) /\ Effect(step) /\ Possible(step)
         \/ tx' = UndoFails(tx)
  BY DEF Command, CommandFails
<1>2. /\ tx \in Transactions /\ tx # None /\ tx.outcome = None
      /\ tx.kind \in {"install", "migrate"} /\ Due(step)
      /\ step \in IF tx.kind = "install"
                  THEN {"disable-managed", "daemon-reload", "reconfig"}
                  ELSE {"disable-managed", "daemon-reload", "restore-external"}
      /\ tx.kind = "install" => Stopped
      /\ tx.kind = "migrate" =>
            /\ timers.enabled \ {"managed"} \subseteq tx.was.timers.enabled
            /\ timers.active \ {"managed"} \subseteq tx.was.timers.active
      /\ tx.kind = "install" =>
            \A f \in ConfFiles : "edit" \in conf[f] => "edit" \in tx.was.conf[f]
  BY <1>1, UndoFacts DEF InstallBack, MigrateBack, Commands
<1>3. UNCHANGED <<conf, disk, zone, jobs, result, site, published>>
  BY <1>1 DEF Effect, system
<1>4. \/ timers' = timers
      \/ /\ step = "disable-managed"
         /\ timers' = [enabled |-> timers.enabled \ {"managed"},
                       active |-> timers.active \ {"managed"}]
      \/ /\ step = "restore-external"
         /\ timers' = [enabled |-> timers.enabled \cup (tx.was.timers.enabled \cap {"external"}),
                       active |-> timers.active \cup (tx.was.timers.active \cap {"external"})]
  BY <1>1, <1>2 DEF Effect, system
<1>5. named' \in [policy : BOOLEAN, serial : Nat]
  <2>1. CASE UNCHANGED system
    BY <2>1 DEF Inv, TypeOK, system
  <2>2. CASE Effect(step)
    BY <2>2 DEF Effect, Loaded, Inv, TypeOK, Policy
  <2> QED
    BY <1>1, <2>1, <2>2
<1>6. tx' \in Transactions => TypeOK'
  <2>1. timers' \in Schedules
    BY <1>4 DEF Inv, TypeOK, Schedules, Updaters
  <2> QED
    BY <2>1, <1>3, <1>5 DEF Inv, TypeOK
<1>7. tx.kind = "install" => Stopped'
  BY <1>2, <1>4 DEF Stopped
<1>8. tx.kind = "migrate" =>
            /\ timers'.enabled \ {"managed"} \subseteq tx.was.timers.enabled
            /\ timers'.active \ {"managed"} \subseteq tx.was.timers.active
  BY <1>2, <1>4
<1>9. ASSUME tx'.ok PROVE UndoSound'
  <2>1. ~UndoFails(tx).ok
    BY <1>1, <1>2, UndoFailsFacts, RunningFacts
  <2>2. tx' = Advance(tx) /\ Effect(step) /\ Possible(step)
    BY <1>1, <1>9, <2>1
  <2>3. /\ SameFields(tx, tx') /\ tx.ok
        /\ \A x : Due(x)' <=> Due(x) /\ x # step
        /\ \A x : Due(x) /\ x # step => Rank(step) < Rank(x)
    BY <1>1, <1>2, <1>9, <2>2, AdvanceScripted, RunningFacts DEF Commands, step
  <2>4. UndoSound
    BY <1>1, <2>3, UndoingSound
  <2>5. /\ step = "disable-managed" =>
              timers' = [enabled |-> timers.enabled \ {"managed"},
                         active |-> timers.active \ {"managed"}]
        /\ step = "restore-external" =>
              timers' = [enabled |-> timers.enabled \cup (tx.was.timers.enabled \cap {"external"}),
                         active |-> timers.active \cup (tx.was.timers.active \cap {"external"})]
        /\ step \in {"daemon-reload", "reconfig"} => timers' = timers
        /\ step # "reconfig" => named' = named
    BY <2>2 DEF Effect
  <2>6. Unscheduled' \/ Due("disable-managed")'
    BY <1>2, <2>3, <2>4, <2>5 DEF UndoSound, Unscheduled
  <2>7. ASSUME tx.kind = "migrate"
        PROVE  /\ Unscheduled' \/ Stopped'
               /\ \/ Due("restore-external")'
                  \/ tx'.cut
                  \/ /\ tx'.was.timers.enabled \subseteq timers'.enabled
                     /\ tx'.was.timers.active \subseteq timers'.active
               /\ disk' \ Units = tx'.was.disk
               /\ Due("remove")' \/ disk' = tx'.was.disk
    <3>1. step = "restore-external" => ~Due("disable-managed")
      BY <2>3, RankValues
    <3>2. Unscheduled' \/ Stopped'
      BY <1>2, <2>4, <2>5, <2>7, <3>1 DEF UndoSound, Unscheduled, Stopped
    <3>3. \/ Due("restore-external")'
          \/ tx'.cut
          \/ /\ tx'.was.timers.enabled \subseteq timers'.enabled
             /\ tx'.was.timers.active \subseteq timers'.active
      <4>1. "managed" \notin tx.was.timers.enabled \cup tx.was.timers.active
        BY <1>2 DEF OriginKept, Inv, UpdaterInv
      <4>2. /\ tx.was.timers.enabled \subseteq Updaters
            /\ tx.was.timers.active \subseteq Updaters
        BY <1>2 DEF Transactions, Snapshots, Schedules
      <4>3. tx'.was = tx.was /\ tx'.cut = tx.cut
        BY <2>3 DEF SameFields
      <4>4. CASE step = "restore-external"
        BY <4>1, <4>2, <4>3, <4>4, <2>5 DEF Updaters
      <4>5. CASE step # "restore-external"
        BY <4>1, <4>3, <4>5, <1>2, <2>3, <2>4, <2>5, <2>7 DEF UndoSound
      <4> QED
        BY <4>4, <4>5
    <3>4. disk' \ Units = tx'.was.disk /\ (Due("remove")' \/ disk' = tx'.was.disk)
      BY <1>2, <1>3, <2>3, <2>4, <2>7 DEF UndoSound, SameFields
    <3> QED
      BY <3>2, <3>3, <3>4
  <2>8. ASSUME tx.kind = "install"
        PROVE  /\ \A f \in ConfFiles :
                       \/ f = site.options' /\ Due("options-back")'
                       \/ f = "root" /\ Due("root-back")'
                       \/ Same(f)'
               /\ disk' = {} \/ (Due("remove")' /\ disk' \subseteq tx'.installed)
               /\ named'.serial = 0 \/ Due("reconfig")'
               /\ ~tx'.loose => \/ zone' = 0 /\ jobs'["managed"] = 0
                                \/ "zone" \in tx'.installed /\ Due("remove")'
    <3>1. \A f \in ConfFiles :
               \/ f = site.options' /\ Due("options-back")'
               \/ f = "root" /\ Due("root-back")'
               \/ Same(f)'
      <4>1. tx'.was = tx.was /\ \A f \in ConfFiles : conf'[f] = conf[f]
        BY <1>3, <2>3 DEF SameFields
      <4>2. \A f \in ConfFiles : Same(f)' <=> Same(f)
        BY <4>1 DEF Same
      <4>3. step \notin {"options-back", "root-back"}
        BY <1>2, <2>8
      <4>4. /\ Due("options-back")' <=> Due("options-back")
            /\ Due("root-back")' <=> Due("root-back")
        BY <2>3, <4>3
      <4>5. site' = site
        BY <1>3
      <4>6. \A f \in ConfFiles :
                 \/ f = site.options /\ Due("options-back")
                 \/ f = "root" /\ Due("root-back")
                 \/ Same(f)
        BY <2>4, <2>8 DEF UndoSound
      <4> SUFFICES ASSUME NEW f \in ConfFiles
                   PROVE  \/ f = site.options' /\ Due("options-back")'
                          \/ f = "root" /\ Due("root-back")'
                          \/ Same(f)'
        OBVIOUS
      <4> HIDE DEF step
      <4> QED
        BY <4>2, <4>4, <4>5, <4>6
    <3>2. /\ disk' = {} \/ (Due("remove")' /\ disk' \subseteq tx'.installed)
          /\ ~tx'.loose => \/ zone' = 0 /\ jobs'["managed"] = 0
                           \/ "zone" \in tx'.installed /\ Due("remove")'
      BY <1>2, <1>3, <2>3, <2>4, <2>8 DEF UndoSound, SameFields
    <3>3. CASE step # "reconfig"
      <4>1. named'.serial = 0 \/ Due("reconfig")'
        BY <3>3, <2>3, <2>4, <2>5, <2>8 DEF UndoSound
      <4> QED
        BY <3>1, <3>2, <4>1
    <3>4. CASE step = "reconfig"
      <4>1. ~Due("remove")
        BY <2>3, <3>4, RankValues
      <4>2. disk = {}
        BY <2>4, <2>8, <4>1 DEF UndoSound
      <4>3. ~Declared
        BY <4>2 DEF Declared
      <4>4. site.origin = "none"
        BY <1>2, <2>8 DEF OriginKept, Inv, UpdaterInv
      <4>5. named' = Loaded
        BY <2>2, <3>4 DEF Effect, Possible
      <4>6. named'.serial = 0
        BY <4>3, <4>4, <4>5 DEF Loaded
      <4> QED
        BY <3>1, <3>2, <4>6
    <3> QED
      BY <3>3, <3>4
  <2>9. tx'.kind = tx.kind
    BY <2>3 DEF SameFields
  <2> HIDE DEF step
  <2> QED
    BY <2>6, <2>7, <2>8, <2>9, <1>2 DEF UndoSound
<1> HIDE DEF step
<1>10. \/ tx' = Advance(tx)
       \/ tx' = UndoFails(tx)
  BY <1>1
<1> QED
  BY <1>1, <1>2, <1>3, <1>6, <1>7, <1>8, <1>9, <1>10, UndoKeeps

\* Putting a configuration file back.
LEMMA RestoreConfKeeps ==
    ASSUME Inv, RestoreConf, UNCHANGED <<site, published, issued>>
    PROVE  Inv'
<1> DEFINE step == Head(tx.todo)
<1>1. /\ Running /\ step \in {"options-back", "root-back"} /\ tx' = Advance(tx)
      /\ UNCHANGED <<disk, zone, timers, jobs, result, named>>
      /\ \/ /\ step = "options-back"
            /\ conf' = [conf EXCEPT ![site.options] = tx.was.conf[site.options]]
         \/ /\ step = "root-back"
            /\ conf' = [conf EXCEPT !["root"] = tx.was.conf["root"]]
  BY DEF RestoreConf, At
<1>2. tx.undoing /\ tx.kind = "install"
  BY <1>1, RunningFacts
     DEF Inv, UpdaterInv, Scripted, Due, InstallForward, MigrateForward, MigrateBack, Transactions
<1>3. /\ tx \in Transactions /\ Due(step) /\ Stopped
      /\ \A f \in ConfFiles : "edit" \in conf[f] => "edit" \in tx.was.conf[f]
  BY <1>1, <1>2, UndoFacts
<1>4. /\ conf \in Configurations /\ tx.was.conf \in Configurations
      /\ site.options \in ConfFiles /\ "root" \in ConfFiles
  BY <1>3 DEF Inv, TypeOK, Transactions, Snapshots, ConfFiles
<1> HIDE DEF step
<1>5. /\ conf' \in Configurations
      /\ step = "options-back" =>
           /\ conf'[site.options] = tx.was.conf[site.options]
           /\ \A f \in ConfFiles \ {site.options} : conf'[f] = conf[f]
      /\ step = "root-back" =>
           /\ conf'["root"] = tx.was.conf["root"]
           /\ \A f \in ConfFiles \ {"root"} : conf'[f] = conf[f]
  BY <1>1, <1>4 DEF Configurations
<1>6. tx' \in Transactions => TypeOK'
  BY <1>1, <1>5 DEF Inv, TypeOK
<1>7. \A f \in ConfFiles : "edit" \in conf'[f] => "edit" \in tx.was.conf[f]
  BY <1>1, <1>3, <1>5
<1>8. ASSUME tx'.ok PROVE UndoSound'
  <2>1. /\ SameFields(tx, tx') /\ tx.ok
        /\ \A x : Due(x)' <=> Due(x) /\ x # step
    BY <1>1, <1>2, <1>3, <1>8, AdvanceScripted DEF step
  <2>2. UndoSound
    BY <1>1, <1>2, <2>1, UndoingSound
  <2>3. \A f \in ConfFiles :
             \/ f = site.options /\ Due("options-back")
             \/ f = "root" /\ Due("root-back")
             \/ Same(f)
    BY <1>2, <2>2 DEF UndoSound
  <2>4. ASSUME NEW f \in ConfFiles
        PROVE  \/ f = site.options' /\ Due("options-back")'
               \/ f = "root" /\ Due("root-back")'
               \/ Same(f)'
    <3>1. CASE conf'[f] = tx.was.conf[f]
      BY <3>1, <2>1 DEF Same, SameFields
    <3>2. CASE conf'[f] = conf[f] /\ step = "options-back" /\ f # site.options
      BY <3>2, <2>1, <2>3 DEF Same, SameFields
    <3>3. CASE conf'[f] = conf[f] /\ step = "root-back" /\ f # "root"
      BY <3>3, <2>1, <2>3 DEF Same, SameFields
    <3> QED
      BY <1>1, <1>5, <3>1, <3>2, <3>3
  <2>5. /\ Due("disable-managed")' <=> Due("disable-managed")
        /\ Due("remove")' <=> Due("remove")
        /\ Due("reconfig")' <=> Due("reconfig")
    BY <1>1, <2>1
  <2> QED
    BY <1>1, <1>2, <2>1, <2>2, <2>4, <2>5 DEF UndoSound, SameFields, Unscheduled
<1> QED
  BY <1>1, <1>2, <1>3, <1>6, <1>7, <1>8, UndoKeeps DEF Stopped

\* Removing the files of the MANAGED integration.
LEMMA RemoveKeeps ==
    ASSUME Inv, Remove, UNCHANGED <<site, published, issued>>
    PROVE  Inv'
<1> DEFINE t == [tx EXCEPT !.loose = @ \/ jobs["managed"] # 0]
<1>1. /\ Running /\ Head(tx.todo) = "remove"
      /\ disk' = disk \ Removed
      /\ zone' = IF "zone" \in Removed THEN 0 ELSE zone
      /\ tx' = Advance(t)
      /\ UNCHANGED <<conf, timers, jobs, result, named>>
  BY DEF Remove, At
<1>2. tx.undoing
  BY <1>1, RunningFacts
     DEF Inv, UpdaterInv, Scripted, Due, InstallForward, MigrateForward, Transactions
<1>3. /\ tx \in Transactions /\ Due("remove") /\ tx.kind \in {"install", "migrate"}
      /\ tx.kind = "install" => Stopped
      /\ tx.kind = "migrate" =>
            /\ timers.enabled \ {"managed"} \subseteq tx.was.timers.enabled
            /\ timers.active \ {"managed"} \subseteq tx.was.timers.active
      /\ tx.kind = "install" =>
            \A f \in ConfFiles : "edit" \in conf[f] => "edit" \in tx.was.conf[f]
  BY <1>1, <1>2, UndoFacts
<1>4. /\ t \in Transactions /\ t.todo = tx.todo /\ t.kind = tx.kind /\ t.was = tx.was
      /\ t.outcome = tx.outcome /\ t.undoing = tx.undoing /\ t.ok = tx.ok
      /\ t.read = tx.read /\ t.installed = tx.installed /\ t.cut = tx.cut
      /\ t.loose = (tx.loose \/ jobs["managed"] # 0)
  BY <1>3 DEF Transactions
<1> HIDE DEF t
<1>5. tx' \in Transactions => TypeOK'
  BY <1>1 DEF Inv, TypeOK
<1>6. ASSUME tx'.ok PROVE UndoSound'
  <2>1. /\ SameFields(t, tx') /\ tx.ok
        /\ \A x : Due(x)' <=> Due(x) /\ x # "remove"
    BY <1>1, <1>2, <1>4, <1>6, AdvanceScripted
  <2>2. UndoSound
    BY <1>1, <1>2, <2>1, UndoingSound
  <2>3. /\ tx'.kind = tx.kind /\ tx'.was = tx.was /\ tx'.installed = tx.installed
        /\ tx'.cut = tx.cut /\ tx'.loose = (tx.loose \/ jobs["managed"] # 0)
    BY <1>4, <2>1 DEF SameFields
  <2>4. ASSUME tx.kind = "install" PROVE UndoSound'
    <3>1. disk' = {}
      BY <1>1, <2>2, <2>4 DEF UndoSound, Removed
    <3>2. ~tx'.loose => zone' = 0 /\ jobs'["managed"] = 0
      BY <1>1, <2>2, <2>3, <2>4 DEF UndoSound, Removed
    <3>3. \A f \in ConfFiles : Same(f)' <=> Same(f)
      BY <1>1, <2>3 DEF Same
    <3>4. \A f \in ConfFiles :
             \/ f = site.options /\ Due("options-back")
             \/ f = "root" /\ Due("root-back")
             \/ Same(f)
      BY <2>2, <2>4 DEF UndoSound
    <3>5. \A f \in ConfFiles :
             \/ f = site.options' /\ Due("options-back")'
             \/ f = "root" /\ Due("root-back")'
             \/ Same(f)'
      BY <2>1, <3>3, <3>4
    <3>6. named'.serial = 0 \/ Due("reconfig")'
      BY <1>1, <2>1, <2>2, <2>4 DEF UndoSound
    <3>7. Unscheduled' \/ Due("disable-managed")'
      BY <1>1, <2>1, <2>2 DEF UndoSound, Unscheduled
    <3> QED
      BY <2>3, <2>4, <3>1, <3>2, <3>5, <3>6, <3>7 DEF UndoSound
  <2>5. ASSUME tx.kind = "migrate" PROVE UndoSound'
    <3>1. disk' = disk \ Units
      BY <1>1, <2>5 DEF Removed
    <3>2. disk' \ Units = tx'.was.disk /\ disk' = tx'.was.disk
      BY <2>2, <2>3, <2>5, <3>1 DEF UndoSound
    <3>3. Unscheduled' \/ Due("disable-managed")'
      BY <1>1, <2>1, <2>2 DEF UndoSound, Unscheduled
    <3> QED
      BY <1>1, <2>1, <2>2, <2>3, <2>5, <3>2, <3>3 DEF UndoSound, Unscheduled, Stopped
  <2> QED
    BY <1>3, <2>4, <2>5
<1> QED
  BY <1>1, <1>2, <1>3, <1>4, <1>5, <1>6, UndoKeeps DEF Stopped

\* A file that cannot be put back or removed.
LEMMA RestoreFailsKeeps ==
    ASSUME Inv, RestoreFails, UNCHANGED <<site, published, issued>>
    PROVE  Inv'
<1>1. /\ Running /\ tx.undoing /\ tx' = UndoFails(tx)
      /\ UNCHANGED <<conf, timers, jobs, result, named>>
      /\ disk' \subseteq disk /\ zone' \in {0, zone}
  BY DEF RestoreFails
<1>2. /\ tx \in Transactions
      /\ tx.kind = "install" => Stopped
      /\ tx.kind = "migrate" =>
            /\ timers.enabled \ {"managed"} \subseteq tx.was.timers.enabled
            /\ timers.active \ {"managed"} \subseteq tx.was.timers.active
      /\ tx.kind = "install" =>
            \A f \in ConfFiles : "edit" \in conf[f] => "edit" \in tx.was.conf[f]
  BY <1>1, UndoFacts
<1>3. tx' \in Transactions => TypeOK'
  BY <1>1 DEF Inv, TypeOK
<1>4. ~tx'.ok
  BY <1>1, UndoFailsScripted
<1> QED
  BY <1>1, <1>2, <1>3, <1>4, UndoKeeps DEF Stopped

(* The surroundings ********************************************************)

\* A step of the surroundings leaves the transaction where it is.
LEMMA SurroundingsKeep ==
    ASSUME Inv, UNCHANGED <<site, conf, disk, timers, tx>>, TypeOK',
           site.origin = "none" => jobs'["external"] = 0,
           ZoneKept'
    PROVE  Inv'
<1>1. /\ \A x : Due(x)' <=> Due(x)
      /\ Between' = Between /\ Forward' = Forward /\ Undoing' = Undoing
      /\ Running' = Running /\ Unscheduled' = Unscheduled /\ Stopped' = Stopped
  BY DEF Due, Between, Forward, Undoing, Running, Unscheduled, Stopped
<1>2. OneUpdater' /\ Scripted'
  <2>1. Scripted' = Scripted
    BY <1>1 DEF Scripted, AllFollow, Due
  <2> QED
    BY <2>1 DEF OneUpdater, Inv, UpdaterInv
<1>3. OriginKept'
  BY <1>1 DEF OriginKept, Inv, UpdaterInv
<1>4. Scheduled'
  BY <1>1 DEF Scheduled, Inv, UpdaterInv
<1>5. EditsRead' /\ FilesKept'
  BY <1>1 DEF EditsRead, FilesKept, Inv, UpdaterInv
<1>6. ConfKept'
  <2>1. \A f \in ConfFiles : Same(f)' <=> Same(f)
    BY DEF Same
  <2> QED
    BY <2>1, <1>1 DEF ConfKept, Inv, UpdaterInv
<1> QED
  BY <1>2, <1>3, <1>4, <1>5, <1>6 DEF Inv, UpdaterInv

\* What ZoneKept reads of a state in which the transaction stays as it is.
LEMMA StillFacts ==
    ASSUME UNCHANGED tx
    PROVE  /\ \A x : Due(x)' <=> Due(x)
           /\ Between' = Between /\ Forward' = Forward /\ Undoing' = Undoing
BY DEF Due, Between, Forward, Undoing

\* A timer starts a job.
LEMMA TimerFiresKeeps ==
    ASSUME Inv, NEW u \in Updaters, TimerFires(u)
    PROVE  Inv'
<1>1. /\ u \in timers.active /\ Launched(u)
      /\ UNCHANGED <<site, conf, disk, zone, timers, named, published, tx>>
  BY DEF TimerFires
<1>2. /\ jobs' \in [Updaters -> Nat] /\ result' \in {"success", "failed"}
      /\ \A v \in Updaters \ {u} : jobs'[v] = jobs[v]
      /\ \/ jobs' = jobs
         \/ u = "managed" => {"updater", "service"} \subseteq disk
  BY <1>1, LaunchedFacts
<1>3. TypeOK'
  BY <1>1, <1>2 DEF Inv, TypeOK
<1>4. site.origin = "none" => u = "managed" /\ jobs'["external"] = 0
  BY <1>1, <1>2 DEF OriginKept, Stopped, Inv, UpdaterInv, Updaters
<1>5. ZoneKept'
  <2> SUFFICES ASSUME site.origin = "none" PROVE ZoneKept'
    BY <1>1 DEF ZoneKept
  <2>1. CASE jobs' = jobs
    BY <1>1, <2>1, StillFacts DEF ZoneKept, Inv, UpdaterInv
  <2>2. CASE jobs' # jobs
    <3>1. {"updater", "service"} \subseteq disk /\ tx # None /\ ~Between
      BY <1>2, <1>4, <2>2 DEF FilesKept, Between, Inv, UpdaterInv
    <3>2. tx.kind = "install"
      BY <3>1 DEF OriginKept, Inv, UpdaterInv
    <3>3. Forward => "zone" \in tx.installed
      BY <3>1, <3>2 DEF FilesKept, Inv, UpdaterInv
    <3>4. Undoing => "zone" \in tx.installed /\ Due("remove")
      BY <3>1, <3>2 DEF FilesKept, Inv, UpdaterInv
    <3> QED
      BY <1>1, <3>1, <3>3, <3>4, StillFacts DEF ZoneKept, Inv, UpdaterInv
  <2> QED
    BY <2>1, <2>2
<1> QED
  BY <1>1, <1>3, <1>4, <1>5, SurroundingsKeep

\* A job ends.
LEMMA JobEndsKeeps ==
    ASSUME Inv, NEW u \in Updaters, Update(u) \/ UpdateFails(u)
    PROVE  Inv'
<1>1. /\ jobs[u] # 0 /\ jobs' = [jobs EXCEPT ![u] = 0] /\ zone' = jobs[u]
      /\ result' \in {result, "success", "failed"}
      /\ \/ named' = named
         \/ named.serial # 0 /\ named' = [named EXCEPT !.serial = jobs[u]]
      /\ UNCHANGED <<site, conf, disk, timers, published, tx>>
  BY DEF Update, UpdateFails, JobEnds
<1>2. TypeOK'
  <2>1. /\ jobs' \in [Updaters -> Nat] /\ zone' \in Nat
        /\ named' \in [policy : BOOLEAN, serial : Nat]
    BY <1>1 DEF Inv, TypeOK
  <2> QED
    BY <1>1, <2>1 DEF Inv, TypeOK
<1>3. site.origin = "none" => u = "managed" /\ jobs'["external"] = 0
  BY <1>1 DEF OriginKept, Inv, UpdaterInv, TypeOK, Updaters
<1>4. named'.serial = named.serial \/ named.serial # 0
  BY <1>1
<1>5. ZoneKept'
  BY <1>1, <1>3, <1>4, StillFacts DEF ZoneKept, Inv, UpdaterInv
<1> QED
  BY <1>1, <1>2, <1>3, <1>5, SurroundingsKeep

\* A job that finds its directory gone.
LEMMA NoDirectoryKeeps ==
    ASSUME Inv, UpdateFindsNoDirectory
    PROVE  Inv'
<1>1. /\ jobs' = [jobs EXCEPT !["managed"] = 0] /\ result' = "failed"
      /\ UNCHANGED <<site, conf, disk, zone, timers, named, published, tx>>
  BY DEF UpdateFindsNoDirectory
<1>2. /\ jobs' \in [Updaters -> Nat] /\ jobs'["managed"] = 0
      /\ jobs'["external"] = jobs["external"]
  BY <1>1 DEF Inv, TypeOK, Updaters
<1>3. TypeOK'
  BY <1>1, <1>2 DEF Inv, TypeOK
<1>4. ZoneKept'
  BY <1>1, <1>2, StillFacts DEF ZoneKept, Inv, UpdaterInv
<1>5. site.origin = "none" => jobs'["external"] = 0
  BY <1>2 DEF OriginKept, Inv, UpdaterInv
<1> QED
  BY <1>1, <1>3, <1>4, <1>5, SurroundingsKeep

\* A serial is published.
LEMMA PublishKeeps ==
    ASSUME Inv, Publish
    PROVE  Inv'
<1>1. /\ published' = published + 1
      /\ UNCHANGED <<site, conf, disk, zone, timers, jobs, result, named, tx>>
  BY DEF Publish, system
<1>2. TypeOK'
  BY <1>1 DEF Inv, TypeOK
<1>3. ZoneKept' /\ (site.origin = "none" => jobs'["external"] = 0)
  BY <1>1, StillFacts DEF ZoneKept, OriginKept, Inv, UpdaterInv
<1> QED
  BY <1>1, <1>2, <1>3, SurroundingsKeep

\* An administrator edits a configuration file.
LEMMA EditKeeps ==
    ASSUME Inv, NEW f \in ConfFiles, Edit(f)
    PROVE  Inv'
<1> DEFINE word == IF InWindow THEN "late-edit" ELSE "edit"
<1>1. /\ site.origin = "none" /\ conf' = [conf EXCEPT ![f] = @ \cup {word}]
      /\ UNCHANGED <<site, disk, zone, timers, jobs, result, named, published, tx>>
  BY DEF Edit
<1>2. /\ conf \in Configurations /\ word \in Words
  BY DEF Inv, TypeOK, Words
<1>3. /\ conf' \in Configurations
      /\ \A g \in ConfFiles : conf'[g] = conf[g] \/ conf'[g] = conf[g] \cup {word}
  BY <1>1, <1>2 DEF Configurations
<1>4. TypeOK'
  BY <1>1, <1>3 DEF Inv, TypeOK
<1>5. /\ \A x : Due(x)' <=> Due(x)
      /\ Between' = Between /\ Forward' = Forward /\ Undoing' = Undoing
      /\ Running' = Running /\ Unscheduled' = Unscheduled /\ Stopped' = Stopped
  BY <1>1 DEF Due, Between, Forward, Undoing, Running, Unscheduled, Stopped
<1>6. /\ tx # None => tx.kind = "install"
      /\ Running /\ ~Due("recheck") => word = "late-edit"
      /\ Running /\ tx.undoing => ~Due("recheck")
  <2>1. tx # None => tx.kind = "install"
    BY <1>1 DEF OriginKept, Inv, UpdaterInv
  <2>2. Running /\ ~Due("recheck") => InWindow
    BY <2>1, RunningFacts DEF InWindow
  <2>3. Running /\ tx.undoing => ~Due("recheck")
    BY <2>1, UndoFacts DEF InstallBack, MigrateBack
  <2> QED
    BY <2>1, <2>2, <2>3
<1> HIDE DEF word
<1>7. OneUpdater' /\ Scripted'
  <2>1. Scripted' = Scripted
    BY <1>1, <1>5 DEF Scripted, AllFollow, Due
  <2> QED
    BY <1>1, <2>1 DEF OneUpdater, Inv, UpdaterInv
<1>8. OriginKept' /\ Scheduled'
  BY <1>1, <1>5 DEF OriginKept, Scheduled, Inv, UpdaterInv
<1>9. FilesKept' /\ ZoneKept'
  BY <1>1, <1>5 DEF FilesKept, ZoneKept, Inv, UpdaterInv
<1>10. EditsRead'
  <2>1. Running /\ ~Due("recheck") =>
            \A g \in ConfFiles : "edit" \in conf'[g] => "edit" \in conf[g]
    BY <1>3, <1>6
  <2> QED
    BY <2>1, <1>1, <1>4, <1>5 DEF EditsRead, Inv, UpdaterInv, TypeOK
<1>11. ConfKept'
  <2>1. ASSUME Running, ~Due("recheck"), NEW g \in ConfFiles, Same(g)
        PROVE  Same(g)'
    BY <2>1, <1>1, <1>3, <1>6 DEF Same
  <2>2. tx # None => tx.kind # "migrate"
    BY <1>6
  <2>3. Forward => Running
    BY DEF Forward, Running
  <2> QED
    BY <2>1, <2>2, <2>3, <1>1, <1>5, <1>6 DEF ConfKept, Inv, UpdaterInv, Undoing
<1> QED
  BY <1>4, <1>7, <1>8, <1>9, <1>10, <1>11 DEF Inv, UpdaterInv

(* The invariant ***********************************************************)

\* The initial states satisfy the invariant.
LEMMA InitKeeps == Init => Inv
<1> SUFFICES ASSUME Init PROVE Inv
  OBVIOUS
<1>1. /\ tx = None /\ disk = {} /\ jobs = [u \in Updaters |-> 0]
      /\ conf = [f \in ConfFiles |-> {}] /\ result = "success" /\ published = 1
      /\ site \in [origin : {"none", "external"}, options : ConfFiles]
      /\ zone \in {0, 1}
      /\ named \in [policy : BOOLEAN, serial : {0, 1}]
      /\ timers \in [enabled : SUBSET {"external"}, active : SUBSET {"external"}]
      /\ site.origin = "none" => /\ zone = 0 /\ named.serial = 0
                                 /\ timers = [enabled |-> {}, active |-> {}]
  <2>1. CASE site.origin = "none"
    <3>1. /\ zone = 0 /\ timers = [enabled |-> {}, active |-> {}]
          /\ named = [policy |-> FALSE, serial |-> 0]
      BY <2>1 DEF Init
    <3>2. timers \in [enabled : SUBSET {"external"}, active : SUBSET {"external"}]
      BY <3>1
    <3>3. site \in [origin : {"none", "external"}, options : ConfFiles]
      BY <2>1 DEF Init, ConfFiles
    <3> QED
      BY <3>1, <3>2, <3>3 DEF Init
  <2>2. CASE site.origin # "none"
    <3>1. /\ zone = 1 /\ named = [policy |-> TRUE, serial |-> 1]
          /\ timers \in [enabled : SUBSET {"external"}, active : SUBSET {"external"}]
      BY <2>2 DEF Init
    <3>2. site = [origin |-> "external", options |-> "options"]
      BY <2>2 DEF Init
    <3>3. site \in [origin : {"none", "external"}, options : ConfFiles]
      BY <3>2 DEF ConfFiles
    <3> QED
      BY <2>2, <3>1, <3>3 DEF Init
  <2> QED
    BY <2>1, <2>2
<1>2. timers \in Schedules
  BY <1>1 DEF Schedules, Updaters
<1>3. conf \in Configurations /\ jobs \in [Updaters -> Nat]
  BY <1>1 DEF Configurations
<1>4. TypeOK
  BY <1>1, <1>2, <1>3 DEF TypeOK
<1>5. ~Forward /\ ~Undoing /\ ~Running /\ Between
  BY <1>1 DEF Forward, Undoing, Running, Between
<1>6. Unscheduled /\ OneUpdater
  BY <1>1 DEF Unscheduled, OneUpdater, Updaters
<1>7. Scripted
  BY <1>1 DEF Scripted
<1>8. OriginKept
  BY <1>1 DEF OriginKept, Stopped, Updaters
<1>9. Scheduled /\ EditsRead
  BY <1>1, <1>5, <1>6 DEF Scheduled, EditsRead
<1>10. ConfKept /\ FilesKept
  BY <1>1, <1>5 DEF ConfKept, FilesKept
<1>11. ZoneKept
  BY <1>1, <1>5 DEF ZoneKept, Updaters
<1> QED
  BY <1>4, <1>6, <1>7, <1>8, <1>9, <1>10, <1>11 DEF Inv, UpdaterInv

\* A transaction begins where the last one has left nothing behind.
LEMMA StartKeeps ==
    ASSUME Inv, Start
    PROVE  Inv'
<1>1. PICK kind \in {"install", "migrate"} :
         /\ Begin(kind)
         /\ kind = "install" => InstallPlans
         /\ kind = "migrate" => MigratePlans
  BY DEF Start, InstallCommand, MigrateCommand
<1>2. /\ tx' = NewTx(kind)
      /\ UNCHANGED <<site, conf, disk, zone, timers, jobs, result, named, published>>
      /\ Between
  BY <1>1 DEF Begin, Between, system
<1>3. /\ kind = "install" <=> site.origin = "none"
      /\ kind = "install" => disk = {} /\ zone = 0
      /\ kind = "migrate" => disk \cap Units = {}
  BY <1>1 DEF InstallPlans, MigratePlans, Mode, Inv, TypeOK
<1>4. /\ tx'.kind = kind /\ tx'.outcome = None /\ ~tx'.undoing /\ tx'.ok
      /\ tx'.todo = IF kind = "install" THEN InstallSteps ELSE MigrateSteps
      /\ tx'.was = [conf |-> conf, disk |-> disk, zone |-> zone, timers |-> timers]
      /\ tx'.read = {} /\ tx'.installed = {} /\ ~tx'.started /\ ~tx'.switched
      /\ tx'.loose = (tx # None /\ tx.loose)
      /\ tx'.cut = FALSE /\ tx'.fetched = published
  BY <1>2 DEF NewTx
<1>5. /\ tx'.todo \in Seq(Steps) /\ Ordered(tx'.todo)
      /\ Pending(tx'.todo) = IF kind = "install" THEN InstallForward ELSE MigrateForward
  BY <1>4, ForwardScripts
<1>6. tx' \in Transactions /\ tx' # None
  <2>1. tx'.was \in Snapshots
    BY <1>4 DEF Snapshots, Inv, TypeOK
  <2>2. published \in Nat /\ (tx # None => tx.loose \in BOOLEAN)
    BY DEF Inv, TypeOK, Transactions
  <2>3. tx' \in Transactions
    BY <1>2, <1>4, <1>5, <2>1, <2>2 DEF Transactions, NewTx
  <2> QED
    BY <2>3, NoneAssumption
<1>7. TypeOK'
  BY <1>2, <1>6 DEF Inv, TypeOK
<1>8. \A x : Due(x)' <=> x \in IF kind = "install" THEN InstallForward ELSE MigrateForward
  BY <1>5 DEF Due
<1>9. tx'.todo # <<>>
  BY <1>5, NoScript DEF InstallForward, MigrateForward
<1>10. Forward' /\ ~Undoing' /\ ~Between'
  BY <1>4, <1>6, <1>9, NoneAssumption DEF Forward, Undoing, Between, Outcomes
<1>11. Unscheduled
  BY <1>2 DEF Scheduled, Inv, UpdaterInv
<1>12. OneUpdater'
  BY <1>2, <1>11 DEF OneUpdater, Unscheduled, Updaters
<1>13. Scripted'
  <2>1. Closed(tx'.todo)
    BY <1>5 DEF Closed, InstallForward, MigrateForward
  <2>2. Due("commit")' /\ AllFollow'
    BY <1>4, <1>5, <1>8 DEF AllFollow, InstallForward, MigrateForward
  <2> QED
    BY <1>4, <1>5, <1>9, <2>1, <2>2, NoneAssumption DEF Scripted, Outcomes
<1>14. OriginKept'
  BY <1>2, <1>3, <1>4, <1>11 DEF OriginKept, Stopped, Unscheduled, Inv, UpdaterInv
<1>15. Scheduled'
  <2>1. kind = "install" => Due("checkconf")'
    BY <1>8 DEF InstallForward
  <2>2. kind = "migrate" => Due("disable-external")'
    BY <1>8 DEF MigrateForward
  <2>3. tx'.was.timers = timers' /\ Unscheduled'
    BY <1>2, <1>4, <1>11 DEF Unscheduled
  <2> QED
    BY <1>4, <1>10, <2>1, <2>2, <2>3 DEF Scheduled
<1>16. EditsRead' /\ ConfKept'
  <2>1. Due("recheck")'
    BY <1>8 DEF InstallForward, MigrateForward
  <2> QED
    BY <1>2, <1>4, <1>10, <2>1 DEF EditsRead, ConfKept
<1>17. FilesKept'
  <2>1. kind = "install" => Due("zone")'
    BY <1>8 DEF InstallForward
  <2>2. kind = "migrate" => disk' \ Units = tx'.was.disk
    BY <1>2, <1>3, <1>4
  <2> QED
    BY <1>2, <1>3, <1>4, <1>10, <2>1, <2>2 DEF FilesKept
<1>18. ZoneKept'
  <2>1. site.origin = "none" => named.serial = 0
    BY <1>2 DEF ZoneKept, Inv, UpdaterInv
  <2>2. site.origin = "none" /\ ~tx'.loose => zone = 0 /\ jobs["managed"] = 0
    <3>1. tx = None \/ (Between /\ ~tx.loose) \/ tx'.loose
      BY <1>2, <1>4
    <3> QED
      BY <3>1 DEF ZoneKept, Inv, UpdaterInv
  <2>3. site.origin = "none" /\ ~tx'.loose => zone' = 0 /\ jobs'["managed"] = 0
    BY <1>2, <2>2
  <2>4. site.origin = "none" => named'.serial = 0
    BY <1>2, <2>1
  <2>5. tx' # None /\ site' = site
    BY <1>2, <1>6
  <2> QED
    BY <1>10, <2>3, <2>4, <2>5 DEF ZoneKept
<1> QED
  BY <1>7, <1>12, <1>13, <1>14, <1>15, <1>16, <1>17, <1>18 DEF Inv, UpdaterInv

\* A step of the transaction.
LEMMA StepKeeps ==
    ASSUME Inv, Step
    PROVE  Inv'
<1>1. UNCHANGED <<site, published, issued>>
  BY DEF Step
<1>2. CASE Recheck
  BY <1>1, <1>2, RecheckKeeps
<1>3. CASE Backup
  BY <1>1, <1>3, BackupKeeps
<1>4. CASE WriteArtifact
  BY <1>1, <1>4, WriteArtifactKeeps
<1>5. CASE WriteConf
  BY <1>1, <1>5, WriteConfKeeps
<1>6. CASE Command
  BY <1>1, <1>6, CommandKeeps, UndoCommandKeeps
<1>7. CASE CommandFails
  BY <1>1, <1>7, CommandFailsKeeps, UndoCommandKeeps
<1>8. CASE FileFails
  BY <1>1, <1>8, FileFailsKeeps
<1>9. CASE StartService
  BY <1>1, <1>9, StartServiceKeeps
<1>10. CASE ServiceEnds \/ Gate
  BY <1>1, <1>10, GateKeeps
<1>11. CASE Commit
  <2>1. Running /\ tx' = End(tx, "COMMIT") /\ UNCHANGED <<site, system, published>>
    BY <1>1, <1>11 DEF Commit, At
  <2> QED
    BY <2>1, OverKeeps
<1>12. CASE RestoreConf
  BY <1>1, <1>12, RestoreConfKeeps
<1>13. CASE Remove
  BY <1>1, <1>13, RemoveKeeps
<1>14. CASE RestoreFails
  BY <1>1, <1>14, RestoreFailsKeeps
<1> QED
  BY <1>2, <1>3, <1>4, <1>5, <1>6, <1>7, <1>8, <1>9, <1>10, <1>11, <1>12, <1>13, <1>14
     DEF Step

\* Every step keeps the invariant.
LEMMA NextKeeps == Inv /\ [Next]_vars => Inv'
<1> SUFFICES ASSUME Inv, [Next]_vars PROVE Inv'
  OBVIOUS
<1>1. CASE Start
  BY <1>1, StartKeeps
<1>2. CASE Step
  BY <1>2, StepKeeps
<1>3. CASE Crash
  <2>1. Running /\ tx' = End(tx, "DEAD") /\ UNCHANGED <<site, system, published>>
    BY <1>3 DEF Crash
  <2> QED
    BY <2>1, OverKeeps
<1>4. CASE Publish
  BY <1>4, PublishKeeps
<1>5. ASSUME NEW u \in Updaters, TimerFires(u) PROVE Inv'
  BY <1>5, TimerFiresKeeps
<1>6. ASSUME NEW u \in Updaters, Update(u) \/ UpdateFails(u) PROVE Inv'
  BY <1>6, JobEndsKeeps
<1>7. CASE UpdateFindsNoDirectory
  BY <1>7, NoDirectoryKeeps
<1>8. ASSUME NEW f \in ConfFiles, Edit(f) PROVE Inv'
  BY <1>8, EditKeeps
<1>9. CASE UNCHANGED vars
  <2>1. UNCHANGED <<site, conf, disk, zone, timers, jobs, result, named, published, tx>>
    BY <1>9 DEF vars, system
  <2>2. TypeOK' /\ ZoneKept'
    BY <2>1, StillFacts DEF TypeOK, ZoneKept, Inv, UpdaterInv
  <2>3. site.origin = "none" => jobs'["external"] = 0
    BY <2>1 DEF OriginKept, Inv, UpdaterInv
  <2> QED
    BY <2>1, <2>2, <2>3, SurroundingsKeep
<1> QED
  BY <1>1, <1>2, <1>3, <1>4, <1>5, <1>6, <1>7, <1>8, <1>9 DEF Next

\* In every reachable state the script, the timers, the configuration, the
\* files and what named serves agree with the step the transaction has reached
\* (apply() and _rollback() of both transactions).
THEOREM UpdaterInvariant == Spec => []Inv
<1> QED
  BY InitKeeps, NextKeeps, PTL DEF Spec

\* Every variable keeps its type.
THEOREM TypeCorrect == Spec => []TypeOK
<1>1. Inv => TypeOK
  BY DEF Inv
<1> QED
  BY <1>1, UpdaterInvariant, PTL

\* The two updaters are never both scheduled, unless a step of the rollback has
\* failed (the order of the steps of the migration and of its _rollback).
THEOREM UpdatersExcluded == Spec => []OneUpdater
<1>1. Inv => OneUpdater
  BY DEF Inv, UpdaterInv
<1> QED
  BY <1>1, UpdaterInvariant, PTL

(* The edits of an administrator *******************************************)

\* A write of the transaction keeps the edits that were made before it.
LEMMA WritesKeepEdits ==
    ASSUME Inv, WriteConf \/ RestoreConf, NEW f \in ConfFiles, "edit" \in conf[f]
    PROVE  "edit" \in conf'[f]
<1>1. Running /\ tx' = Advance(tx)
  BY DEF WriteConf, RestoreConf, At
<1>2. /\ tx \in Transactions /\ Due(Head(tx.todo)) /\ tx.kind \in {"install", "migrate"}
      /\ \A x : Due(x) /\ x # Head(tx.todo) => Rank(Head(tx.todo)) < Rank(x)
  BY <1>1, RunningFacts DEF Transactions
<1>3. conf \in Configurations /\ site.options \in ConfFiles /\ "root" \in ConfFiles
  BY DEF Inv, TypeOK, ConfFiles
<1>4. ~Due("recheck") /\ (Head(tx.todo) = "options" => ~Due("backup")) /\ tx.kind = "install"
  <2>1. Head(tx.todo) \in {"options", "root", "options-back", "root-back"}
    BY DEF WriteConf, RestoreConf, At
  <2>2. tx.kind = "install"
    BY <1>1, <1>2, <2>1 DEF Inv, UpdaterInv, Scripted, Due, MigrateForward, MigrateBack, Running
  <2>3. ~Due("recheck") /\ (Head(tx.todo) = "options" => ~Due("backup"))
    BY <1>2, <2>1, RankValues
  <2> QED
    BY <2>2, <2>3
<1>5. "edit" \in tx.was.conf[f]
  BY <1>1, <1>4 DEF EditsRead, Inv, UpdaterInv
<1>6. CASE conf'[f] = conf[f]
  BY <1>6
<1>7. CASE conf'[f] = tx.was.conf[f] \/ conf'[f] = tx.was.conf[f] \cup {"include"}
  BY <1>5, <1>7
<1>8. CASE /\ Head(tx.todo) = "options" /\ f = site.options
           /\ conf'[f] = tx.read \cup {"policy"}
  <2>1. "edit" \in tx.read
    BY <1>1, <1>2, <1>4, <1>8 DEF EditsRead, Inv, UpdaterInv
  <2> QED
    BY <1>8, <2>1
<1> QED
  BY <1>3, <1>6, <1>7, <1>8 DEF WriteConf, RestoreConf, At, Configurations

\* What an administrator wrote into the configuration before or during the long
\* download and dry run stays in it, whatever fails (the second comparison of
\* apply(), the candidates of its second build, and the copies _rollback puts
\* back).
THEOREM EditsSurvive == Spec => EditsKept
<1>1. Inv /\ [Next]_vars =>
         [\A f \in ConfFiles : "edit" \in conf[f] => "edit" \in conf'[f]]_vars
  <2> SUFFICES ASSUME Inv, Next, NEW f \in ConfFiles, "edit" \in conf[f]
               PROVE  "edit" \in conf'[f]
    OBVIOUS
  <2>1. CASE Start \/ Crash \/ Publish \/ UpdateFindsNoDirectory
    BY <2>1 DEF Start, InstallCommand, MigrateCommand, Begin, Crash, Publish,
                UpdateFindsNoDirectory, system
  <2>2. CASE \E u \in Updaters : TimerFires(u) \/ Update(u) \/ UpdateFails(u)
    BY <2>2 DEF TimerFires, Update, UpdateFails, JobEnds
  <2>3. CASE \E g \in ConfFiles : Edit(g)
    BY <2>3 DEF Edit, Inv, TypeOK, Configurations
  <2>4. CASE WriteConf \/ RestoreConf
    BY <2>4, WritesKeepEdits
  <2>5. CASE Recheck \/ Backup \/ WriteArtifact \/ FileFails
    BY <2>5 DEF Recheck, Blocked, Backup, WriteArtifact, FileFails, system
  <2>6. CASE Command \/ CommandFails
    BY <2>6 DEF Command, CommandFails, Effect, system
  <2>7. CASE StartService \/ ServiceEnds \/ Gate \/ Commit \/ Remove \/ RestoreFails
    BY <2>7 DEF StartService, ServiceEnds, Gate, Commit, Remove, RestoreFails, system
  <2> QED
    BY <2>1, <2>2, <2>3, <2>4, <2>5, <2>6, <2>7 DEF Next, Step
<1> QED
  BY <1>1, UpdaterInvariant, PTL DEF Spec, EditsKept

(* A rollback that is complete *********************************************)

\* Only a step of the rollback ends a transaction ROLLED-BACK.
LEMMA RolledBackStep ==
    ASSUME Inv, Next, Ends("ROLLED-BACK")
    PROVE  /\ Running /\ tx.undoing /\ (Command \/ RestoreConf \/ Remove)
           /\ UNCHANGED <<site, published>>
<1>1. tx # None /\ tx.outcome = None /\ tx' # tx /\ tx'.outcome = "ROLLED-BACK"
  BY DEF Ends
<1>2. "ROLLED-BACK" # None
  BY NoneAssumption DEF Outcomes
<1>3. ~Start
  BY <1>1, NoneAssumption DEF Start, InstallCommand, MigrateCommand, Begin, Outcomes
<1>4. ~Crash
  BY <1>1 DEF Crash, End, Inv, TypeOK, Transactions
<1>5. Step
  BY <1>1, <1>3, <1>4 DEF Next, Publish, TimerFires, Update, UpdateFails, JobEnds,
                        UpdateFindsNoDirectory, Edit
<1>6. Running
  BY <1>5 DEF Step, Recheck, Backup, WriteArtifact, WriteConf, Command, CommandFails,
     FileFails, StartService, ServiceEnds, Gate, Commit, RestoreConf, Remove, RestoreFails, At
<1>7. tx \in Transactions
  BY <1>6, RunningFacts
<1>8. tx.undoing
  <2> SUFFICES ASSUME ~tx.undoing PROVE tx'.outcome \in {None, "BLOCKED", "COMMIT"}
    BY <1>1, <1>2
  <2>1. CASE Recheck
    BY <2>1, <1>1, <1>7 DEF Recheck, Blocked, End, Advance, Transactions
  <2>2. CASE Backup
    BY <2>2, <1>1, <1>7 DEF Backup, Advance, Transactions
  <2>3. CASE WriteArtifact \/ WriteConf
    BY <2>3, <1>1, <1>7 DEF WriteArtifact, WriteConf, Advance, Transactions
  <2>4. CASE Command
    BY <2>4, <1>1, <1>7 DEF Command, Noted, Advance, Transactions
  <2>5. CASE CommandFails
    BY <2>5, <1>1, <1>7 DEF CommandFails, Fail, Transactions
  <2>6. CASE FileFails
    BY <2>6, <1>1, <1>7 DEF FileFails, Fail, Transactions
  <2>7. CASE StartService \/ ServiceEnds \/ Gate
    BY <2>7, <1>1, <1>7 DEF StartService, ServiceEnds, Gate, Advance, Fail, Transactions
  <2>8. CASE Commit
    BY <2>8, <1>1, <1>7 DEF Commit, End, Transactions
  <2>9. ~RestoreConf /\ ~Remove /\ ~RestoreFails
    <3>1. Head(tx.todo) \notin {"options-back", "root-back", "remove"}
      BY <1>6, <1>7, RunningFacts
         DEF Inv, UpdaterInv, Scripted, Due, InstallForward, MigrateForward
    <3> QED
      BY <3>1 DEF RestoreConf, Remove, RestoreFails, At
  <2> QED
    BY <1>5, <2>1, <2>2, <2>3, <2>4, <2>5, <2>6, <2>7, <2>8, <2>9 DEF Step
<1>9. tx' # UndoFails(tx)
  <2>1. tx' = UndoFails(tx) => tx'.outcome \in {"ROLLBACK-FAILED", None}
    BY <1>6, <1>8, UndoFailsScripted
  <2> QED
    BY <1>1, <1>2, <2>1
<1>10. Head(tx.todo) \in InstallBack \cup MigrateBack
  BY <1>6, <1>8, UndoFacts
<1>11. ~CommandFails /\ ~RestoreFails
  BY <1>8, <1>9 DEF CommandFails, RestoreFails
<1>12. /\ ~Recheck /\ ~Backup /\ ~WriteArtifact /\ ~WriteConf /\ ~FileFails
       /\ ~StartService /\ ~ServiceEnds /\ ~Gate /\ ~Commit
  BY <1>8, <1>10 DEF Recheck, Backup, WriteArtifact, WriteConf, FileFails, StartService,
     ServiceEnds, Gate, Commit, At, InstallBack, MigrateBack
<1> QED
  BY <1>5, <1>6, <1>8, <1>11, <1>12 DEF Step

\* The step that ends a transaction ROLLED-BACK finds the configuration as it
\* was and changes neither the copies nor the flags the rollback goes by.
LEMMA LastUndoStep ==
    ASSUME Inv, Next, Ends("ROLLED-BACK")
    PROVE  /\ Inv' /\ tx' # None /\ tx' \in Transactions
           /\ tx'.kind = tx.kind /\ tx'.was = tx.was /\ tx'.cut = tx.cut
           /\ Undoing' /\ Between' /\ \A x : ~Due(x)'
           /\ tx.kind = "install" =>
                /\ \A f \in ConfFiles :
                        conf'[f] \ {"late-edit"} = tx.was.conf[f] \ {"late-edit"}
                /\ ~tx.loose => zone' = 0
<1> DEFINE t == [tx EXCEPT !.loose = @ \/ jobs["managed"] # 0]
           step == Head(tx.todo)
<1>1. /\ tx # None /\ tx.outcome = None /\ tx'.outcome = "ROLLED-BACK"
      /\ Running /\ tx.undoing /\ (Command \/ RestoreConf \/ Remove)
      /\ UNCHANGED <<site, published>>
  BY RolledBackStep DEF Ends
<1>2. Inv'
  BY NextKeeps
<1>3. /\ tx \in Transactions /\ Due(step) /\ Ordered(tx.todo) /\ Closed(tx.todo)
      /\ tx.kind = "install" <=> site.origin = "none"
  BY <1>1, RunningFacts DEF OriginKept, Inv, UpdaterInv
<1>4. /\ t \in Transactions /\ t.kind = tx.kind /\ t.was = tx.was /\ t.cut = tx.cut
      /\ t.todo = tx.todo /\ t.undoing = tx.undoing /\ t.ok = tx.ok
      /\ t.outcome = tx.outcome
  BY <1>3 DEF Transactions
<1>5. \/ tx' = Advance(t) /\ Remove
      \/ tx' = Advance(tx) /\ (Command \/ RestoreConf)
  BY <1>1 DEF Command, RestoreConf, Remove
<1>6. Head(tx.todo) # "commit"
  BY <1>1, UndoFacts DEF InstallBack, MigrateBack
<1>7. /\ tx' \in Transactions /\ tx' # None /\ tx'.undoing /\ tx'.ok = tx.ok
      /\ tx'.kind = tx.kind /\ tx'.was = tx.was /\ tx'.cut = tx.cut
      /\ \A x : Due(x)' <=> Due(x) /\ x # step
      /\ tx' = Advance(tx) => tx'.loose = tx.loose
  <2> HIDE DEF t
  <2>1. CASE tx' = Advance(t)
    <3>1. /\ tx' \in Transactions /\ tx' # None /\ SameFields(t, tx')
          /\ tx'.undoing = tx.undoing /\ tx'.ok = tx.ok
          /\ \A x : Due(x)' <=> Due(x) /\ x # step
      BY <1>1, <1>4, <1>6, <2>1, AdvanceScripted
    <3>2. tx' = Advance(tx) => tx'.loose = tx.loose
      BY <1>1, <1>3, <1>6, AdvanceScripted DEF SameFields
    <3> QED
      BY <1>1, <1>4, <3>1, <3>2 DEF SameFields
  <2>2. CASE tx' = Advance(tx)
    BY <1>1, <1>3, <1>6, <2>2, AdvanceScripted DEF SameFields
  <2> QED
    BY <1>5, <2>1, <2>2
<1>8. tx'.ok /\ tx'.todo = <<>>
  BY <1>1, <1>2, <1>7, NoneAssumption DEF Inv, UpdaterInv, Scripted, Outcomes
<1>9. Undoing' /\ Between' /\ \A x : ~Due(x)'
  BY <1>1, <1>7, <1>8, NoScript DEF Undoing, Between, Due
<1>10. step \notin {"options-back", "root-back"}
  BY <1>3, <1>7, <1>9 DEF Closed, Due
<1> HIDE DEF t, step
<1>11. conf' = conf
  BY <1>1, <1>10 DEF Command, Effect, RestoreConf, Remove, At, step
<1>12. ASSUME tx.kind = "install", NEW f \in ConfFiles
       PROVE  conf'[f] \ {"late-edit"} = tx.was.conf[f] \ {"late-edit"}
  <2>1. Undoing
    BY <1>1, <1>7, <1>8 DEF Undoing
  <2>2. ~Due("options-back") /\ ~Due("root-back")
    BY <1>7, <1>9, <1>10
  <2>3. Same(f)
    BY <1>1, <1>12, <2>1, <2>2 DEF ConfKept, Inv, UpdaterInv
  <2> QED
    BY <1>11, <2>3 DEF Same
<1>13. ASSUME tx.kind = "install", ~tx.loose
       PROVE  zone' = 0
  <2>1. CASE Remove
    <3>1. zone = 0 \/ "zone" \in tx.installed
      BY <1>1, <1>3, <1>7, <1>8, <1>13 DEF ZoneKept, Undoing, Inv, UpdaterInv
    <3> QED
      BY <1>13, <2>1, <3>1 DEF Remove, Removed
  <2>2. CASE tx' = Advance(tx)
    <3>1. ~tx'.loose /\ site'.origin = "none"
      BY <1>1, <1>3, <1>7, <1>13, <2>2
    <3> QED
      BY <1>2, <1>9, <3>1 DEF ZoneKept, Inv, UpdaterInv
  <2> QED
    BY <1>5, <2>1, <2>2
<1> QED
  BY <1>2, <1>7, <1>9, <1>12, <1>13

\* A transaction that ends ROLLED-BACK has left the configuration, the files of
\* the integration, what named serves and the timers as they were, whatever had
\* failed before (_rollback of both transactions), with the two exceptions the
\* property names.
THEOREM RollbackRestores == Spec => RolledBackRestores
<1>1. ASSUME Inv, Next, Ends("ROLLED-BACK")
      PROVE  /\ \A f \in ConfFiles :
                  conf'[f] \ {"late-edit"} = tx.was.conf[f] \ {"late-edit"}
             /\ disk' = tx.was.disk
             /\ tx.kind = "install" => named'.serial = 0 /\ (~tx.loose => zone' = 0)
             /\ ~tx.cut => timers' = tx.was.timers
  <2>1. /\ Inv' /\ tx' # None /\ tx' \in Transactions
        /\ tx'.kind = tx.kind /\ tx'.was = tx.was /\ tx'.cut = tx.cut
        /\ Undoing' /\ Between' /\ \A x : ~Due(x)'
        /\ tx.kind = "install" =>
             /\ \A f \in ConfFiles :
                     conf'[f] \ {"late-edit"} = tx.was.conf[f] \ {"late-edit"}
             /\ ~tx.loose => zone' = 0
    BY <1>1, LastUndoStep
  <2>2. tx.kind \in {"install", "migrate"} /\ (tx.kind = "install" <=> site'.origin = "none")
    BY <2>1 DEF OriginKept, Inv, UpdaterInv, Transactions
  <2>3. \A f \in ConfFiles : conf'[f] \ {"late-edit"} = tx.was.conf[f] \ {"late-edit"}
    <3>1. CASE tx.kind = "install"
      BY <3>1, <2>1
    <3>2. CASE tx.kind = "migrate"
      BY <3>2, <2>1 DEF ConfKept, Inv, UpdaterInv
    <3> QED
      BY <2>2, <3>1, <3>2
  <2>4. disk' = tx.was.disk
    BY <2>1, <2>2 DEF FilesKept, Inv, UpdaterInv
  <2>5. tx.kind = "install" => named'.serial = 0
    BY <2>1, <2>2 DEF ZoneKept, Inv, UpdaterInv
  <2>6. ASSUME ~tx.cut PROVE timers' = tx.was.timers
    <3>1. /\ timers' \in Schedules /\ tx.was.timers \in Schedules /\ Unscheduled'
      BY <2>1 DEF Scheduled, Inv, UpdaterInv, TypeOK, Transactions, Snapshots
    <3>2. "managed" \notin tx.was.timers.enabled \cup tx.was.timers.active
      BY <2>1 DEF OriginKept, Inv, UpdaterInv
    <3>3. CASE tx.kind = "install"
      <4>1. /\ Stopped'
            /\ "external" \notin tx.was.timers.enabled \cup tx.was.timers.active
        BY <2>1, <2>2, <3>3 DEF OriginKept, Inv, UpdaterInv
      <4>2. /\ timers'.enabled = {} /\ timers'.active = {}
            /\ tx.was.timers.enabled = {} /\ tx.was.timers.active = {}
        BY <3>1, <3>2, <4>1 DEF Stopped, Unscheduled, Schedules, Updaters
      <4> QED
        BY <3>1, <4>2 DEF Schedules
    <3>4. CASE tx.kind = "migrate"
      <4>1. /\ timers'.enabled \ {"managed"} \subseteq tx.was.timers.enabled
            /\ timers'.active \ {"managed"} \subseteq tx.was.timers.active
            /\ tx.was.timers.enabled \subseteq timers'.enabled
            /\ tx.was.timers.active \subseteq timers'.active
        BY <2>1, <2>6, <3>4 DEF Scheduled, Inv, UpdaterInv
      <4>2. /\ timers'.enabled = tx.was.timers.enabled
            /\ timers'.active = tx.was.timers.active
        BY <3>1, <4>1 DEF Unscheduled
      <4> QED
        BY <3>1, <4>2 DEF Schedules
    <3> QED
      BY <2>2, <3>3, <3>4
  <2> QED
    BY <2>1, <2>3, <2>4, <2>5, <2>6
<1>2. Inv /\ [Next]_vars =>
        [Ends("ROLLED-BACK") =>
            /\ \A f \in ConfFiles :
                 conf'[f] \ {"late-edit"} = tx.was.conf[f] \ {"late-edit"}
            /\ disk' = tx.was.disk
            /\ tx.kind = "install" => named'.serial = 0 /\ (~tx.loose => zone' = 0)
            /\ ~tx.cut => timers' = tx.was.timers]_vars
  BY <1>1
<1> QED
  BY <1>2, UpdaterInvariant, PTL DEF Spec, RolledBackRestores
=============================================================================
