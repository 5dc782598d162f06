---------------------- MODULE ConfigTransactionProofs ----------------------
(***************************************************************************)
(* Theorems about ConfigTransaction, for any number of processes, lists,   *)
(* hosts, commands and versions and any faults: its types, that the zone's *)
(* declaration leads to its latest data, that a rollback restores what it  *)
(* reports, and that no change of a list takes away the last access.       *)
(***************************************************************************)
EXTENDS ConfigTransaction, SequenceTheorems, FiniteSetTheorems, TLAPS

(* Scripts *****************************************************************)

\* A script goes forward or, in a rollback, back.
Ways == {"forward", "back"}
Way(t) == IF t.undoing THEN "back" ELSE "forward"

\* The order of the steps.
Rank(way, step) ==
    IF way = "back"
    THEN CASE step = "local" -> 1
           [] step = "decl" -> 3
           [] step = "bring-back" -> 4
           [] step = "remove-copy" -> 5
           [] step = "reconfig" -> 6
           [] step = "read-back" -> 7
           [] OTHER -> 2
    ELSE CASE step = "dry-run" -> 1
           [] step = "preflight" -> 2
           [] step = "backup" -> 3
           [] step = "copy" -> 4
           [] step = "checkzone" -> 5
           [] step = "decl" -> 6
           [] step = "local" -> 7
           [] step = "checkconf" -> 9
           [] step = "reconfig" -> 10
           [] step = "verify" -> 11
           [] step = "retire" -> 12
           [] OTHER -> 8

Ordered(way, s) ==
    \A i, j \in 1..Len(s) : i < j => Rank(way, s[i]) < Rank(way, s[j])

\* The steps still to come.
Pending(s) == {s[i] : i \in 1..Len(s)}
Due(t, step) == step \in Pending(t.todo)

ForwardSteps(t) ==
    {"preflight", "checkconf", "reconfig", "verify"} \cup t.files
        \cup (IF t.kind = "relocate" THEN {"backup", "copy", "checkzone", "retire"} ELSE {})

BackSteps(t) ==
    {"reconfig"} \cup t.files
        \cup (CASE t.kind = "relocate" -> {"bring-back", "remove-copy"}
                [] t.kind = "migrate" -> {}
                [] OTHER -> {"read-back"})

\* A script is in order and made of the steps of its direction; before the
\* rollback every step after one that is due is due.
Scripted(t) ==
    /\ Ordered(Way(t), t.todo)
    /\ Pending(t.todo) \subseteq
          (IF t.undoing THEN BackSteps(t) ELSE {"dry-run"} \cup ForwardSteps(t))
    /\ ~t.undoing =>
          /\ t.ok
          /\ \A x \in Pending(t.todo), y \in ForwardSteps(t) :
                Rank("forward", x) < Rank("forward", y) => Due(t, y)
    /\ ~t.ok => t.todo = <<>>

(* The inductive invariant *************************************************)

\* The path of the zone's data that a file names.
DataOf(g) == IF g # None /\ "zone" \in DOMAIN g THEN g["zone"].data ELSE "nowhere"

\* What plan() has found: the files that will change, where the zone's data is
\* before and after, and that the change of a list may be made.
Planned(t) ==
    /\ \A f \in Files \ t.files : t.new[f] = t.old[f]
    /\ t.kind \in {"acl", "group", "assign"} =>
          \E f \in Files : t.files = {f} /\ DataOf(t.new[f]) = DataOf(t.old[f])
    /\ t.kind = "migrate" =>
          /\ t.files = {"decl", "local", "index"} /\ t.old["decl"] = None
          /\ DataOf(t.new["decl"]) = "old" /\ DataOf(t.new["local"]) = "nowhere"
    /\ t.kind = "relocate" =>
          /\ t.files = {"decl"} /\ DataOf(t.old["local"]) = "nowhere"
          /\ DataOf(t.old["decl"]) = "old" /\ DataOf(t.new["decl"]) = "new"
    /\ t.kind \in {"acl", "group"} =>
          \E l \in Lists, entries \in SUBSET (Hosts \cup Lists) :
             /\ t.files = {Home[l]} /\ t.new = SetItem(t.old, Home[l], l, entries)
             /\ ~High(Config(t.old), l, entries) /\ CheckConf(t.new)

\* A command that has not compared its files has done nothing.
Applying(t) == t.todo # <<>> => Head(t.todo) \notin {"dry-run", "preflight"}

Sound(t) ==
    /\ Scripted(t) /\ Planned(t)
    /\ ~Applying(t) => ~t.undoing /\ t.saved = 0

\* The files of a command are those of its plan, and those it has written.
FilesKept(t, files) ==
    \A f \in t.files :
        /\ ~t.undoing => files[f] = IF Due(t, f) THEN t.old[f] ELSE t.new[f]
        /\ t.undoing => files[f] \in {t.old[f], t.new[f]}
        /\ t.undoing /\ t.ok /\ ~Due(t, f) => files[f] = t.old[f]

\* The data of the zone a relocation moves: the old copy is the latest until it
\* is retired, the new one from the copy on.
DataKept(t, files, data, version) ==
    t.kind = "relocate" =>
        /\ t.saved = 0 => files["decl"] = t.old["decl"]
        /\ ~t.undoing /\ ~Due(t, "backup") => t.saved # 0
        /\ data["old"] = version \/ (~t.undoing /\ ~Due(t, "retire"))
        /\ ~t.undoing /\ ~Due(t, "copy") => data["new"] = version
        /\ t.undoing /\ t.ok /\ ~Due(t, "remove-copy") => data["new"] = 0

\* What the plan has read outside its files still holds.
Fresh(t, files) == \A f \in Files \ t.files : files[f] = t.old[f]

Kept(t, files, data, version) == FilesKept(t, files) /\ DataKept(t, files, data, version)

CommandInv ==
    \A p \in Procs : tx[p] # None =>
        Sound(tx[p]) /\ (Applying(tx[p]) /\ ~crossed => Kept(tx[p], file, disk, latest))

\* Where the zone's declaration leads: to the old path, with the latest data,
OldLeads(files, data, version) ==
    DataOf(files["decl"]) # "new" => data["old"] = version

\* or to the new one, and then no other clause leads back.
NewLeads(files, data, version) ==
    DataOf(files["decl"]) = "new" =>
        data["new"] = version /\ DataOf(files["local"]) = "nowhere"

ZoneInv ==
    ~crossed => /\ OldLeads(file, disk, latest)
                /\ ~stale => NewLeads(file, disk, latest)

ConfigInv == TypeOK /\ CommandInv /\ ZoneInv

(* Lemmas about scripts ****************************************************)

\* Names of files are no names of steps, and the declaration is no list's home.
LEMMA FileNames ==
    /\ Files \cap Steps = {} /\ \A l \in Lists : Home[l] \in Files \ {"decl"}
    /\ {"local", "index", "decl"} \subseteq Files
    /\ "zone" \notin Lists /\ "include" \notin Lists
<1>1. Home \in [Lists -> STRING \ ({"decl"} \union Steps)]
  BY ConfigAssumption
<1>2. \A l \in Lists : Home[l] \in Range(Home) /\ Home[l] \notin {"decl"} \union Steps
  BY <1>1 DEF Range
<1>3. \A f \in Range(Home) : \E l \in Lists : f = Home[l]
  BY <1>1 DEF Range
<1>4. {"local", "index", "decl"} \cap Steps = {}
  BY DEF Steps
<1>5. Range(Home) \cap Steps = {}
  BY <1>2, <1>3
<1>6. "zone" \notin Lists /\ "include" \notin Lists
  BY ConfigAssumption
<1> QED
  BY <1>2, <1>4, <1>5, <1>6 DEF Files

\* The two ways, by name.
LEMMA Directions == "forward" \in Ways /\ "back" \in Ways
BY DEF Ways

\* The ranks are positive numbers; those of steps that matter below.
LEMMA Ranks ==
    /\ \A u \in Ways : \A x : Rank(u, x) \in 1..12
    /\ Rank("forward", "dry-run") = 1 /\ Rank("forward", "preflight") = 2
    /\ \A x : x \notin {"dry-run", "preflight"} => Rank("forward", x) \in 3..12
    /\ Rank("forward", "backup") = 3 /\ Rank("forward", "copy") = 4 /\ Rank("forward", "decl") = 6
    /\ Rank("forward", "retire") = 12 /\ \A x : x # "retire" => Rank("forward", x) \in 1..11
    /\ Rank("back", "decl") = 3 /\ Rank("back", "remove-copy") = 5
BY DEF Rank, Ways

\* A script is empty when no step is due.
LEMMA NothingDue ==
    ASSUME NEW S, NEW s \in Seq(S)
    PROVE  s = <<>> <=> Pending(s) = {}
BY LenProperties, EmptySeq DEF Pending

\* The first step of a script is one of its steps.
LEMMA HeadPending ==
    ASSUME NEW S, NEW s \in Seq(S), s # <<>>
    PROVE  Head(s) \in Pending(s)
<1>1. Head(s) = s[1] /\ Len(s) \in Nat \ {0}
  BY HeadTailProperties, LenProperties, EmptySeq
<1>2. 1 \in 1..Len(s)
  BY <1>1
<1> QED
  BY <1>1, <1>2 DEF Pending

\* Taking the first step off an ordered script: it was the one of least rank.
LEMMA TailScript ==
    ASSUME NEW S, NEW s \in Seq(S), s # <<>>, NEW u \in Ways, Ordered(u, s)
    PROVE  /\ Tail(s) \in Seq(S) /\ Ordered(u, Tail(s))
           /\ Head(s) \in S /\ Head(s) \in Pending(s)
           /\ Pending(Tail(s)) = Pending(s) \ {Head(s)}
           /\ \A x \in Pending(Tail(s)) : Rank(u, Head(s)) < Rank(u, x)
<1>1. /\ Tail(s) \in Seq(S) /\ Len(s) \in Nat \ {0} /\ Len(Tail(s)) = Len(s) - 1
      /\ Head(s) = s[1] /\ Head(s) \in S
      /\ \A i \in 1..Len(s) - 1 : Tail(s)[i] = s[i + 1]
  BY HeadTailProperties, LenProperties, EmptySeq
<1>2. Ordered(u, Tail(s))
  BY <1>1 DEF Ordered
<1>3. Head(s) \in Pending(s)
  BY <1>1 DEF Pending
<1>4. \A x \in Pending(Tail(s)) : Rank(u, Head(s)) < Rank(u, x) /\ x \in Pending(s)
  BY <1>1 DEF Pending, Ordered
<1>5. ASSUME NEW x \in Pending(s), x # Head(s)
      PROVE  x \in Pending(Tail(s))
  <2>1. PICK i \in 1..Len(s) : s[i] = x
    BY DEF Pending
  <2>2. i - 1 \in 1..Len(Tail(s)) /\ Tail(s)[i - 1] = x
    BY <2>1, <1>1, <1>5
  <2> QED
    BY <2>2 DEF Pending
<1>6. Head(s) \notin Pending(Tail(s))
  BY <1>4, Ranks
<1> QED
  BY <1>1, <1>2, <1>3, <1>4, <1>5, <1>6

\* One script after another.
LEMMA JoinScripts ==
    ASSUME NEW u \in Ways,
           NEW s \in Seq(Files \cup Steps), NEW t \in Seq(Files \cup Steps),
           Ordered(u, s), Ordered(u, t),
           \A x \in Pending(s), y \in Pending(t) : Rank(u, x) < Rank(u, y)
    PROVE  /\ s \o t \in Seq(Files \cup Steps) /\ Ordered(u, s \o t)
           /\ Pending(s \o t) = Pending(s) \cup Pending(t)
<1>1. Len(s) \in Nat /\ Len(t) \in Nat
  BY LenProperties
<1>2. /\ s \o t \in Seq(Files \cup Steps) /\ Len(s \o t) = Len(s) + Len(t)
      /\ \A i \in 1..Len(s) + Len(t) :
            (s \o t)[i] = IF i <= Len(s) THEN s[i] ELSE t[i - Len(s)]
  BY ConcatProperties
<1>3. Pending(s \o t) \subseteq Pending(s) \cup Pending(t)
  BY <1>1, <1>2 DEF Pending
<1>4. Pending(s) \subseteq Pending(s \o t)
  BY <1>1, <1>2 DEF Pending
<1>5. ASSUME NEW x \in Pending(t) PROVE x \in Pending(s \o t)
  <2>1. PICK i \in 1..Len(t) : t[i] = x
    BY DEF Pending
  <2>2. i + Len(s) \in 1..Len(s \o t) /\ (s \o t)[i + Len(s)] = x
    BY <1>1, <1>2, <2>1
  <2> QED
    BY <2>2 DEF Pending
<1>6. Ordered(u, s \o t)
  <2> SUFFICES ASSUME NEW i \in 1..Len(s) + Len(t), NEW j \in 1..Len(s) + Len(t), i < j
               PROVE  Rank(u, (s \o t)[i]) < Rank(u, (s \o t)[j])
    BY <1>1, <1>2 DEF Ordered
  <2>1. CASE j <= Len(s)
    BY <2>1, <1>1, <1>2 DEF Ordered
  <2>2. CASE i > Len(s)
    <3>1. i - Len(s) \in 1..Len(t) /\ j - Len(s) \in 1..Len(t)
      BY <2>2, <1>1
    <3>2. Rank(u, t[i - Len(s)]) < Rank(u, t[j - Len(s)])
      BY <3>1, <1>1 DEF Ordered
    <3> QED
      BY <3>2, <2>2, <1>1, <1>2
  <2>3. CASE i <= Len(s) /\ j > Len(s)
    <3>1. s[i] \in Pending(s) /\ t[j - Len(s)] \in Pending(t)
      BY <2>3, <1>1 DEF Pending
    <3> QED
      BY <3>1, <2>3, <1>1, <1>2
  <2> QED
    BY <2>1, <2>2, <2>3, <1>1
<1> QED
  BY <1>2, <1>3, <1>4, <1>5, <1>6

\* A command record is made of typed fields.
LEMMA TxFields ==
    ASSUME NEW t, IsTx(t)
    PROVE  /\ t.kind \in Kinds /\ t.files \subseteq Files
           /\ t.todo \in Seq(Files \cup Steps) /\ t.undoing \in BOOLEAN
           /\ t.activated \in BOOLEAN /\ t.ok \in BOOLEAN /\ t.saved \in Versions
           /\ WellFormed(t.old) /\ WellFormed(t.new)
BY DEF IsTx

\* A script of one step, and of none.
LEMMA ShortScripts ==
    ASSUME NEW S, NEW u \in Ways
    PROVE  /\ <<>> \in Seq(S) /\ Ordered(u, <<>>) /\ Pending(<<>>) = {}
           /\ \A x \in S : /\ <<x>> \in Seq(S) /\ Ordered(u, <<x>>)
                           /\ Pending(<<x>>) = {x}
<1>1. <<>> \in Seq(S) /\ Ordered(u, <<>>) /\ Pending(<<>>) = {}
  BY DEF Ordered, Pending
<1>2. ASSUME NEW x \in S
      PROVE  <<x>> \in Seq(S) /\ Ordered(u, <<x>>) /\ Pending(<<x>>) = {x}
  <2>1. <<x>> \in Seq(S) /\ Len(<<x>>) = 1 /\ <<x>>[1] = x
    OBVIOUS
  <2> QED
    BY <2>1 DEF Ordered, Pending
<1> QED
  BY <1>1, <1>2

\* What every command that commits also does.
LEMMA ActivationScript ==
    /\ Activation \in Seq(Files \cup Steps) /\ Ordered("forward", Activation)
    /\ Pending(Activation) = {"checkconf", "reconfig", "verify"}
<1>1. Activation \in Seq(Files \cup Steps)
  BY DEF Activation, Steps
<1>2. Ordered("forward", Activation)
  BY DEF Activation, Ordered, Rank
<1>3. Pending(Activation) = {"checkconf", "reconfig", "verify"}
  BY DEF Activation, Pending
<1> QED
  BY <1>1, <1>2, <1>3

\* The script of a command on one file.
LEMMA ListScripts ==
    ASSUME NEW f \in Files
    PROVE  /\ ListScript(f) \in Seq(Files \cup Steps) /\ Ordered("forward", ListScript(f))
           /\ Pending(ListScript(f)) = {"preflight", f, "checkconf", "reconfig", "verify"}
<1> DEFINE a == <<"preflight", f>>
<1>1. f \notin Steps /\ "preflight" \in Steps
  BY FileNames DEF Steps
<1>2. Rank("forward", "preflight") = 2 /\ Rank("forward", f) \in 3..8
  BY <1>1 DEF Rank, Steps
<1>3. a \in Seq(Files \cup Steps) /\ Len(a) = 2 /\ a[1] = "preflight" /\ a[2] = f
  BY <1>1
<1>4. Pending(a) = {"preflight", f}
  BY <1>3 DEF Pending
<1>5. Ordered("forward", a)
  <2> HIDE DEF a
  <2> QED
    BY <1>2, <1>3 DEF Ordered
<1>6. \A x \in Pending(a), y \in Pending(Activation) : Rank("forward", x) < Rank("forward", y)
  <2>1. \A y \in Pending(Activation) : Rank("forward", y) \in 9..11
    BY ActivationScript DEF Rank
  <2>2. \A x \in Pending(a) : Rank("forward", x) \in 1..8
    <3> HIDE DEF a
    <3> QED
      BY <1>2, <1>4
  <2> HIDE DEF a
  <2> QED
    BY <2>1, <2>2
<1>7. ListScript(f) = a \o Activation
  BY DEF ListScript
<1> HIDE DEF a
<1>8. /\ a \o Activation \in Seq(Files \cup Steps) /\ Ordered("forward", a \o Activation)
      /\ Pending(a \o Activation) = Pending(a) \cup Pending(Activation)
  BY SMTT(60), <1>3, <1>5, <1>6, ActivationScript, JoinScripts, Directions
<1> QED
  BY <1>4, <1>7, <1>8, ActivationScript

\* The script of a migration.
LEMMA MigrationScript ==
    /\ MigrateScript \in Seq(Files \cup Steps) /\ Ordered("forward", MigrateScript)
    /\ Pending(MigrateScript) =
         {"preflight", "decl", "local", "index", "checkconf", "reconfig", "verify"}
<1> DEFINE a == <<"preflight", "decl", "local", "index">>
<1>1. a \in Seq(Files \cup Steps) /\ Ordered("forward", a)
  BY FileNames DEF Ordered, Rank, Steps
<1>2. Pending(a) = {"preflight", "decl", "local", "index"}
  BY DEF Pending
<1>3. \A x \in Pending(a), y \in Pending(Activation) : Rank("forward", x) < Rank("forward", y)
  BY <1>2, ActivationScript DEF Rank
<1>4. MigrateScript = a \o Activation
  BY DEF MigrateScript
<1> HIDE DEF a
<1>5. /\ a \o Activation \in Seq(Files \cup Steps) /\ Ordered("forward", a \o Activation)
      /\ Pending(a \o Activation) = Pending(a) \cup Pending(Activation)
  BY SMTT(60), <1>1, <1>3, ActivationScript, JoinScripts, Directions
<1> QED
  BY <1>2, <1>4, <1>5, ActivationScript

\* The script of a relocation.
LEMMA RelocationScript ==
    /\ RelocateScript \in Seq(Files \cup Steps) /\ Ordered("forward", RelocateScript)
    /\ Pending(RelocateScript) =
         {"preflight", "backup", "copy", "checkzone", "decl", "checkconf", "reconfig",
          "verify", "retire"}
<1> DEFINE a == <<"preflight", "backup", "copy", "checkzone", "decl">>
           b == a \o Activation
<1>1. a \in Seq(Files \cup Steps) /\ Ordered("forward", a)
  BY FileNames DEF Ordered, Rank, Steps
<1>2. Pending(a) = {"preflight", "backup", "copy", "checkzone", "decl"}
  BY DEF Pending
<1>3. \A x \in Pending(a), y \in Pending(Activation) : Rank("forward", x) < Rank("forward", y)
  BY <1>2, ActivationScript DEF Rank
<1>4. /\ b \in Seq(Files \cup Steps) /\ Ordered("forward", b)
      /\ Pending(b) = Pending(a) \cup Pending(Activation)
  <2> HIDE DEF a
  <2> QED
    BY SMTT(60), <1>1, <1>3, ActivationScript, JoinScripts, Directions
<1>5. /\ <<"retire">> \in Seq(Files \cup Steps) /\ Ordered("forward", <<"retire">>)
      /\ Pending(<<"retire">>) = {"retire"}
  BY ShortScripts, Directions DEF Steps
<1>6. \A x \in Pending(b) : x # "retire"
  BY <1>4, <1>2, ActivationScript
<1>7. \A x \in Pending(b), y \in Pending(<<"retire">>) : Rank("forward", x) < Rank("forward", y)
  BY <1>5, <1>6, Ranks
<1>8. RelocateScript = b \o <<"retire">>
  BY DEF RelocateScript
<1> HIDE DEF a, b
<1>9. /\ b \o <<"retire">> \in Seq(Files \cup Steps) /\ Ordered("forward", b \o <<"retire">>)
      /\ Pending(b \o <<"retire">>) = Pending(b) \cup Pending(<<"retire">>)
  BY ZenonT(60), <1>4, <1>5, <1>7, JoinScripts, Directions
<1> QED
  BY <1>2, <1>4, <1>5, <1>8, <1>9, ActivationScript

\* Showing a plan first puts one step before its script.
LEMMA ShownScript ==
    ASSUME NEW s \in Seq(Files \cup Steps), Ordered("forward", s), "dry-run" \notin Pending(s)
    PROVE  /\ <<"dry-run">> \o s \in Seq(Files \cup Steps)
           /\ Ordered("forward", <<"dry-run">> \o s)
           /\ Pending(<<"dry-run">> \o s) = {"dry-run"} \cup Pending(s)
<1> DEFINE a == <<"dry-run">>
<1>1. a \in Seq(Files \cup Steps) /\ Ordered("forward", a) /\ Pending(a) = {"dry-run"}
  BY ShortScripts, Directions DEF Steps
<1>2. \A x \in Pending(a), y \in Pending(s) : Rank("forward", x) < Rank("forward", y)
  <2>1. \A y : y # "dry-run" => Rank("forward", y) > 1
    BY DEF Rank
  <2> HIDE DEF a
  <2> QED
    BY <2>1, <1>1, Ranks
<1>3. /\ a \o s \in Seq(Files \cup Steps) /\ Ordered("forward", a \o s)
      /\ Pending(a \o s) = Pending(a) \cup Pending(s)
  <2> HIDE DEF a
  <2> QED
    BY SMTT(60), <1>1, <1>2, JoinScripts, Directions
<1> QED
  BY <1>1, <1>3

\* The sequence of the one file of a set.
LEMMA OneFile ==
    ASSUME NEW f PROVE SetToSeq({f}) = <<f>>
<1>1. Cardinality({f}) = 1
  BY FS_Singleton
<1>2. <<f>> \in [1..1 -> {f}] /\ IsInjective(<<f>>)
  BY DEF IsInjective
<1>3. \A s \in [1..1 -> {f}] : s = <<f>>
  OBVIOUS
<1> QED
  BY <1>1, <1>2, <1>3 DEF SetToSeq

\* What named is told in a rollback.
LEMMA ToldScript ==
    ASSUME NEW told, told = <<>> \/ told = <<"reconfig">>
    PROVE  /\ told \in Seq(Files \cup Steps) /\ Ordered("back", told)
           /\ Pending(told) \subseteq {"reconfig"}
<1>1. "reconfig" \in Files \cup Steps
  BY DEF Steps
<1>2. CASE told = <<>>
  BY <1>2, ShortScripts, Directions
<1>3. CASE told = <<"reconfig">>
  BY <1>1, <1>3, ShortScripts, Directions
<1> QED
  BY <1>2, <1>3

\* The rollback of a command on one file.
LEMMA ListUndoScript ==
    ASSUME NEW t, NEW f \in Files, t.files = {f},
           NEW told \in Seq(Files \cup Steps), Ordered("back", told),
           Pending(told) \subseteq {"reconfig"}
    PROVE  LET s == ListUndo(t, told) IN
           /\ s \in Seq(Files \cup Steps) /\ Ordered("back", s)
           /\ Pending(s) \subseteq {f, "reconfig", "read-back"} /\ f \in Pending(s)
<1> DEFINE a == <<f>>
           c == <<"read-back">>
           b == a \o told
<1>1. f \notin Steps /\ "read-back" \in Files \cup Steps
  BY FileNames DEF Steps
<1>2. /\ a \in Seq(Files \cup Steps) /\ Ordered("back", a) /\ Pending(a) = {f}
      /\ c \in Seq(Files \cup Steps) /\ Ordered("back", c) /\ Pending(c) = {"read-back"}
  BY <1>1, ShortScripts, Directions
<1>3. /\ Rank("back", f) \in 1..3 /\ Rank("back", "reconfig") = 6
      /\ Rank("back", "read-back") = 7
  BY <1>1 DEF Rank, Steps
<1>4. ListUndo(t, told) = b \o c
  BY OneFile DEF ListUndo
<1> HIDE DEF a, c
<1>5. \A x \in Pending(a), y \in Pending(told) : Rank("back", x) < Rank("back", y)
  BY <1>2, <1>3
<1>6. /\ b \in Seq(Files \cup Steps) /\ Ordered("back", b)
      /\ Pending(b) = Pending(a) \cup Pending(told)
  BY SMTT(60), <1>2, <1>5, JoinScripts, Directions
<1> HIDE DEF b
<1>7. \A x \in Pending(b), y \in Pending(c) : Rank("back", x) < Rank("back", y)
  BY <1>2, <1>3, <1>6
<1>8. /\ b \o c \in Seq(Files \cup Steps) /\ Ordered("back", b \o c)
      /\ Pending(b \o c) = Pending(b) \cup Pending(c)
  BY SMTT(60), <1>2, <1>6, <1>7, JoinScripts, Directions
<1> QED
  BY <1>2, <1>4, <1>6, <1>8

\* The rollback of a migration, and that of a relocation.
LEMMA DataUndoScripts ==
    ASSUME NEW told \in Seq(Files \cup Steps), Ordered("back", told),
           Pending(told) \subseteq {"reconfig"}
    PROVE  /\ LET s == MigrateUndo(told) IN
              /\ s \in Seq(Files \cup Steps) /\ Ordered("back", s)
              /\ Pending(s) \subseteq {"local", "index", "decl", "reconfig"}
              /\ {"local", "index", "decl"} \subseteq Pending(s)
           /\ LET s == RelocateUndo(told) IN
              /\ s \in Seq(Files \cup Steps) /\ Ordered("back", s)
              /\ Pending(s) \subseteq {"decl", "bring-back", "remove-copy", "reconfig"}
              /\ {"decl", "bring-back", "remove-copy"} \subseteq Pending(s)
<1> DEFINE a == <<"local", "index", "decl">>
           b == <<"decl", "bring-back", "remove-copy">>
<1>1. /\ a \in Seq(Files \cup Steps) /\ Ordered("back", a)
      /\ b \in Seq(Files \cup Steps) /\ Ordered("back", b)
  BY FileNames DEF Ordered, Rank, Steps
<1>2. /\ Pending(a) = {"local", "index", "decl"}
      /\ Pending(b) = {"decl", "bring-back", "remove-copy"}
  BY DEF Pending
<1>3. MigrateUndo(told) = a \o told /\ RelocateUndo(told) = b \o told
  BY DEF MigrateUndo, RelocateUndo
<1>4. \A x \in Pending(a) \cup Pending(b), y \in Pending(told) :
         Rank("back", x) < Rank("back", y)
  <2>1. \A x \in Pending(a) \cup Pending(b) : Rank("back", x) \in 1..5
    BY <1>2 DEF Rank
  <2>2. Rank("back", "reconfig") = 6
    BY DEF Rank
  <2> QED
    BY <2>1, <2>2
<1> HIDE DEF a, b
<1>5. /\ a \o told \in Seq(Files \cup Steps) /\ Ordered("back", a \o told)
      /\ Pending(a \o told) = Pending(a) \cup Pending(told)
  BY SMTT(60), <1>1, <1>4, JoinScripts, Directions
<1>6. /\ b \o told \in Seq(Files \cup Steps) /\ Ordered("back", b \o told)
      /\ Pending(b \o told) = Pending(b) \cup Pending(told)
  BY SMTT(60), <1>1, <1>4, JoinScripts, Directions
<1> QED
  BY <1>2, <1>3, <1>5, <1>6

\* Every rollback is in order and puts back the files of its command.
LEMMA UndoScripts ==
    ASSUME NEW t, IsTx(t), Planned(t),
           NEW told \in Seq(Files \cup Steps), Ordered("back", told),
           Pending(told) \subseteq {"reconfig"}
    PROVE  LET s == UndoScript(t, told) IN
           /\ s \in Seq(Files \cup Steps) /\ Ordered("back", s)
           /\ Pending(s) \subseteq BackSteps(t) /\ t.files \subseteq Pending(s)
           /\ t.kind = "relocate" => "remove-copy" \in Pending(s)
<1>1. t.kind \in Kinds
  BY TxFields
<1>2. CASE t.kind \in {"acl", "group", "assign"}
  <2>1. PICK f \in Files : t.files = {f}
    BY <1>2 DEF Planned
  <2>2. UndoScript(t, told) = ListUndo(t, told)
    BY <1>2 DEF UndoScript
  <2>3. BackSteps(t) = {"reconfig", f, "read-back"}
    BY <1>2, <2>1 DEF BackSteps
  <2> QED
    BY <1>2, <2>1, <2>2, <2>3, ListUndoScript
<1>3. CASE t.kind = "migrate"
  <2>1. UndoScript(t, told) = MigrateUndo(told)
    BY <1>3 DEF UndoScript
  <2>2. t.files = {"decl", "local", "index"}
    BY <1>3 DEF Planned
  <2>3. BackSteps(t) = {"reconfig"} \cup t.files
    BY <1>3 DEF BackSteps
  <2> QED
    BY <1>3, <2>1, <2>2, <2>3, DataUndoScripts
<1>4. CASE t.kind = "relocate"
  <2>1. UndoScript(t, told) = RelocateUndo(told)
    BY <1>4 DEF UndoScript
  <2>2. t.files = {"decl"}
    BY <1>4 DEF Planned
  <2>3. BackSteps(t) = {"reconfig", "bring-back", "remove-copy"} \cup t.files
    BY <1>4 DEF BackSteps
  <2> QED
    BY <1>4, <2>1, <2>2, <2>3, DataUndoScripts
<1> QED
  BY <1>1, <1>2, <1>3, <1>4 DEF Kinds

(* One step of a command ***************************************************)

\* A command whose plan does not change: u is t with another script.
SamePlan(u, t) ==
    u.kind = t.kind /\ u.files = t.files /\ u.old = t.old /\ u.new = t.new

\* Planned is about the plan only.
LEMMA PlanStays ==
    ASSUME NEW t, NEW u, SamePlan(u, t), Planned(t)
    PROVE  Planned(u) /\ ForwardSteps(u) = ForwardSteps(t) /\ BackSteps(u) = BackSteps(t)
BY DEF SamePlan, Planned, ForwardSteps, BackSteps

\* A command that has done its first step has the rest to do, in the same order.
LEMMA Passing ==
    ASSUME NEW t, IsTx(t), Sound(t), t.todo # <<>>,
           NEW u, SamePlan(u, t), u.todo = Tail(t.todo),
           u.undoing = t.undoing, u.ok = t.ok
    PROVE  /\ Scripted(u) /\ Planned(u)
           /\ u.todo \in Seq(Files \cup Steps)
           /\ Head(t.todo) \in Files \cup Steps /\ Due(t, Head(t.todo))
           /\ Pending(u.todo) = Pending(t.todo) \ {Head(t.todo)}
           /\ \A x \in Pending(u.todo) : Rank(Way(t), Head(t.todo)) < Rank(Way(t), x)
           /\ t.undoing => Head(t.todo) \in BackSteps(t) /\ t.ok
           /\ ~t.undoing => Head(t.todo) \in {"dry-run"} \cup ForwardSteps(t)
<1>1. /\ t.todo \in Seq(Files \cup Steps) /\ t.undoing \in BOOLEAN /\ Way(t) \in Ways
      /\ Ordered(Way(t), t.todo) /\ Way(u) = Way(t)
  BY TxFields, Directions DEF Sound, Scripted, Way
<1>2. /\ u.todo \in Seq(Files \cup Steps) /\ Ordered(Way(t), u.todo)
      /\ Head(t.todo) \in Files \cup Steps /\ Head(t.todo) \in Pending(t.todo)
      /\ Pending(u.todo) = Pending(t.todo) \ {Head(t.todo)}
      /\ \A x \in Pending(u.todo) : Rank(Way(t), Head(t.todo)) < Rank(Way(t), x)
  BY <1>1, TailScript
<1>3. Planned(u) /\ ForwardSteps(u) = ForwardSteps(t) /\ BackSteps(u) = BackSteps(t)
  BY PlanStays DEF Sound
<1>4. /\ t.undoing => Head(t.todo) \in BackSteps(t)
      /\ ~t.undoing => Head(t.todo) \in {"dry-run"} \cup ForwardSteps(t)
      /\ t.ok
  BY <1>2 DEF Sound, Scripted
<1>5. Scripted(u)
  <2>1. Pending(u.todo) \subseteq
          (IF u.undoing THEN BackSteps(u) ELSE {"dry-run"} \cup ForwardSteps(u))
    BY <1>2, <1>3 DEF Sound, Scripted
  <2>2. ASSUME ~u.undoing, NEW x \in Pending(u.todo), NEW y \in ForwardSteps(u),
               Rank("forward", x) < Rank("forward", y)
        PROVE  Due(u, y)
    <3>1. Way(t) = "forward" /\ ~t.undoing
      BY <2>2 DEF Way
    <3>2. Rank("forward", Head(t.todo)) < Rank("forward", x)
      BY <1>2, <3>1, <2>2
    <3>3. y # Head(t.todo)
      BY <2>2, <3>2, Ranks, Directions
    <3>4. Due(t, y)
      BY <1>2, <1>3, <2>2, <3>1 DEF Sound, Scripted
    <3> QED
      BY <1>2, <3>3, <3>4 DEF Due
  <2> QED
    BY <1>1, <1>2, <1>4, <2>1, <2>2 DEF Sound, Scripted
<1> QED
  BY <1>2, <1>3, <1>4, <1>5 DEF Due

\* A command that has compared its files goes on applying its plan.
LEMMA StillApplying ==
    ASSUME NEW t, IsTx(t), Sound(t), t.todo # <<>>, Applying(t),
           NEW u, SamePlan(u, t), u.todo = Tail(t.todo),
           u.undoing = t.undoing, u.ok = t.ok
    PROVE  Applying(u) /\ Sound(u)
<1>1. /\ Scripted(u) /\ Planned(u) /\ u.todo \in Seq(Files \cup Steps)
      /\ \A x \in Pending(u.todo) : Rank(Way(t), Head(t.todo)) < Rank(Way(t), x)
      /\ Head(t.todo) \in Files \cup Steps
      /\ Pending(u.todo) \subseteq Pending(t.todo)
  BY Passing
<1>2. ASSUME u.todo # <<>>, Head(u.todo) \in {"dry-run", "preflight"} PROVE FALSE
  <2>1. Head(u.todo) \in Pending(u.todo)
    BY <1>1, <1>2, HeadPending
  <2>2. CASE t.undoing
    <3>1. Head(u.todo) \in BackSteps(t)
      BY <1>1, <2>1, <2>2 DEF Sound, Scripted
    <3>2. t.files \cap Steps = {}
      BY FileNames, TxFields
    <3> QED
      BY <1>2, <3>1, <3>2 DEF BackSteps, Steps
  <2>3. CASE ~t.undoing
    <3>1. PICK h : h = Head(t.todo) /\ h \notin {"dry-run", "preflight"}
      BY DEF Applying
    <3>2. PICK x \in Pending(u.todo) : x \in {"dry-run", "preflight"}
      BY <1>2, <2>1
    <3>3. Rank("forward", h) < Rank("forward", x)
      BY <1>1, <2>3, <3>1, <3>2 DEF Way
    <3>4. Rank("forward", h) \in 3..12 /\ Rank("forward", x) \in 1..2
      BY <3>1, <3>2, Ranks
    <3> QED
      BY <3>3, <3>4
  <2> QED
    BY <2>2, <2>3
<1> QED
  BY <1>1, <1>2 DEF Applying, Sound

\* A step of a command that applies its plan fails.
LEMMA Failing ==
    ASSUME NEW t, IsTx(t), Sound(t), t.todo # <<>>, Applying(t), NEW u, u = Undone(t)
    PROVE  /\ IsTx(u) /\ Sound(u) /\ Applying(u)
           /\ SamePlan(u, t) /\ u.undoing /\ u.saved = t.saved
           /\ u.ok => /\ ~t.undoing /\ \A f \in t.files : Due(u, f)
                      /\ t.kind = "relocate" => Due(u, "remove-copy")
<1>0. <<>> \in Seq(Files \cup Steps) /\ Ordered("back", <<>>) /\ Pending(<<>>) = {}
  BY ShortScripts, Directions
<1>1. CASE t.undoing
  <2>1. u = [t EXCEPT !.todo = <<>>, !.ok = FALSE]
    BY <1>1 DEF Undone
  <2>2. /\ IsTx(u) /\ SamePlan(u, t) /\ u.todo = <<>>
        /\ u.undoing = t.undoing /\ u.ok = FALSE /\ u.saved = t.saved
    BY <1>0, <2>1 DEF IsTx, SamePlan
  <2>3. Planned(u) /\ Applying(u) /\ Way(u) = "back"
    BY <1>1, <2>2, PlanStays DEF Sound, Applying, Way
  <2>4. Scripted(u)
    BY <1>0, <1>1, <2>2, <2>3 DEF Scripted
  <2> QED
    BY <1>1, <2>2, <2>3, <2>4 DEF Sound
<1>2. CASE ~t.undoing
  <2>1. PICK told : /\ told = <<>> \/ told = <<"reconfig">>
                    /\ u = [t EXCEPT !.undoing = TRUE, !.todo = UndoScript(t, told)]
    BY <1>2 DEF Undone
  <2>2. PICK s : s = UndoScript(t, told) /\ u = [t EXCEPT !.undoing = TRUE, !.todo = s]
    BY <2>1
  <2>3. /\ s \in Seq(Files \cup Steps) /\ Ordered("back", s)
        /\ Pending(s) \subseteq BackSteps(t) /\ t.files \subseteq Pending(s)
        /\ t.kind = "relocate" => "remove-copy" \in Pending(s)
    BY <2>1, <2>2, ToldScript, UndoScripts DEF Sound
  <2>4. /\ IsTx(u) /\ SamePlan(u, t) /\ u.todo = s
        /\ u.undoing = TRUE /\ u.ok = t.ok /\ u.saved = t.saved
    BY <2>2, <2>3 DEF IsTx, SamePlan
  <2>5. t.ok
    BY <1>2 DEF Sound, Scripted
  <2>6. Planned(u) /\ BackSteps(u) = BackSteps(t) /\ Way(u) = "back"
    BY <2>4, PlanStays DEF Sound, Way
  <2>7. Scripted(u)
    BY <2>3, <2>4, <2>5, <2>6 DEF Scripted
  <2>8. Applying(u)
    <3> SUFFICES ASSUME s # <<>>, Head(s) \in {"dry-run", "preflight"} PROVE FALSE
      BY <2>4 DEF Applying
    <3>1. Head(s) \in Pending(s)
      BY <2>3, HeadPending
    <3>2. Head(s) \in BackSteps(t) /\ t.files \cap Steps = {}
      BY <2>3, <3>1, FileNames, TxFields
    <3> QED
      BY <3>2 DEF BackSteps, Steps
  <2> QED
    BY <1>2, <2>3, <2>4, <2>7, <2>8, <2>6 DEF Sound, Due
<1> QED
  BY <1>1, <1>2, TxFields

\* What a command has found and done still holds when it goes back.
LEMMA FailKept ==
    ASSUME NEW t, IsTx(t), Sound(t), t.todo # <<>>, Applying(t), NEW u, u = Undone(t),
           NEW fs, NEW data, NEW version, Kept(t, fs, data, version)
    PROVE  Kept(u, fs, data, version)
<1>1. /\ SamePlan(u, t) /\ u.undoing /\ u.saved = t.saved
      /\ u.ok => /\ ~t.undoing /\ \A f \in t.files : Due(u, f)
                 /\ t.kind = "relocate" => Due(u, "remove-copy")
  BY Failing
<1>2. FilesKept(u, fs)
  <2> SUFFICES ASSUME NEW f \in t.files
               PROVE  /\ fs[f] \in {t.old[f], t.new[f]}
                      /\ u.ok /\ ~Due(u, f) => fs[f] = t.old[f]
    BY <1>1 DEF FilesKept, SamePlan
  <2> QED
    BY <1>1 DEF Kept, FilesKept
<1>3. ASSUME t.kind = "relocate" PROVE data["old"] = version
  <2>1. CASE t.undoing
    BY <1>3, <2>1 DEF Kept, DataKept
  <2>2. CASE ~t.undoing
    <3>1. PICK x \in Pending(t.todo) : TRUE
      BY NothingDue, TxFields
    <3>2. "retire" \in ForwardSteps(t)
      BY <1>3 DEF ForwardSteps
    <3>3. Due(t, "retire")
      <4>1. CASE x = "retire"
        BY <3>1, <4>1 DEF Due
      <4>2. CASE x # "retire"
        <5>1. Rank("forward", x) \in 1..11 /\ Rank("forward", "retire") = 12
          BY <4>2, Ranks
        <5>2. Rank("forward", x) < Rank("forward", "retire")
          BY <5>1
        <5> QED
          BY <2>2, <3>1, <3>2, <5>2 DEF Sound, Scripted
      <4> QED
        BY <4>1, <4>2
    <3> QED
      BY <1>3, <2>2, <3>3 DEF Kept, DataKept
  <2> QED
    BY <2>1, <2>2
<1>4. DataKept(u, fs, data, version)
  BY <1>1, <1>3 DEF Kept, DataKept, SamePlan
<1> QED
  BY <1>2, <1>4 DEF Kept

\* And when it passes a step that is no part of it.
LEMMA PassKept ==
    ASSUME NEW t, IsTx(t), Sound(t), t.todo # <<>>, Applying(t),
           NEW u, SamePlan(u, t), u.todo = Tail(t.todo),
           u.undoing = t.undoing, u.ok = t.ok, u.saved = t.saved,
           Head(t.todo) \notin Files \cup {"backup", "copy", "retire", "remove-copy"},
           NEW fs, NEW data, NEW version, Kept(t, fs, data, version)
    PROVE  Kept(u, fs, data, version)
<1>1. \A y : y # Head(t.todo) => (Due(u, y) <=> Due(t, y))
  BY Passing DEF Due
<1>2. /\ \A f \in t.files : Due(u, f) <=> Due(t, f)
      /\ \A y \in {"backup", "copy", "retire", "remove-copy"} : Due(u, y) <=> Due(t, y)
  BY <1>1, TxFields
<1>3. FilesKept(u, fs)
  BY <1>2 DEF Kept, FilesKept, SamePlan
<1>4. DataKept(u, fs, data, version)
  BY <1>2 DEF Kept, DataKept, SamePlan
<1> QED
  BY <1>3, <1>4 DEF Kept

\* What the invariant says of a command.
LEMMA Commands ==
    ASSUME ConfigInv, NEW p \in Procs, tx[p] # None
    PROVE  /\ IsTx(tx[p]) /\ Sound(tx[p])
           /\ Applying(tx[p]) /\ ~crossed => Kept(tx[p], file, disk, latest)
BY DEF ConfigInv, TypeOK, CommandInv

\* A step that only moves one command on.
LEMMA TxStep ==
    ASSUME ConfigInv, NEW p \in Procs, NEW u, tx' = [tx EXCEPT ![p] = u],
           u # None => /\ IsTx(u) /\ Sound(u)
                       /\ Applying(u) /\ ~crossed' => Kept(u, file, disk, latest),
           file' = file, disk' = disk, latest' = latest, stale' = stale,
           crossed' \in BOOLEAN, crossed => crossed',
           started' \in 0..MaxTx, DOMAIN loaded' \subseteq Items
    PROVE  ConfigInv'
<1>1. tx = [q \in Procs |-> tx[q]]
  BY DEF ConfigInv, TypeOK
<1>2. /\ tx' = [q \in Procs |-> tx'[q]] /\ tx'[p] = u
      /\ \A q \in Procs \ {p} : tx'[q] = tx[q]
  BY <1>1
<1>3. ASSUME NEW q \in Procs, tx'[q] # None
      PROVE  /\ IsTx(tx'[q]) /\ Sound(tx'[q])
             /\ Applying(tx'[q]) /\ ~crossed' => Kept(tx'[q], file', disk', latest')
  <2>1. CASE q = p
    BY <1>2, <1>3, <2>1
  <2>2. CASE q # p
    <3>1. tx'[q] = tx[q]
      BY <1>2, <2>2
    <3>2. /\ IsTx(tx[q]) /\ Sound(tx[q])
          /\ Applying(tx[q]) /\ ~crossed => Kept(tx[q], file, disk, latest)
      BY <1>3, <3>1, Commands
    <3> QED
      BY <3>1, <3>2
  <2> QED
    BY <2>1, <2>2
<1>4. CommandInv'
  BY <1>3 DEF CommandInv
<1>5. TypeOK'
  <2>1. \A q \in Procs : tx'[q] # None => IsTx(tx'[q])
    BY <1>3
  <2> QED
    BY <1>2, <2>1 DEF ConfigInv, TypeOK, WellFormed
<1>6. ZoneInv'
  BY DEF ConfigInv, ZoneInv
<1> QED
  BY <1>4, <1>5, <1>6 DEF ConfigInv

\* A command ends or dies.
LEMMA Ended ==
    ASSUME ConfigInv, NEW p \in Procs, tx' = [tx EXCEPT ![p] = None],
           UNCHANGED <<file, zonedata, loaded, started, stale, crossed>>
    PROVE  ConfigInv'
<1>1. /\ file' = file /\ disk' = disk /\ latest' = latest /\ stale' = stale
      /\ crossed' = crossed /\ crossed \in BOOLEAN
      /\ started' \in 0..MaxTx /\ DOMAIN loaded' \subseteq Items
  BY DEF zonedata, ConfigInv, TypeOK
<1>2. PICK u : u = None /\ tx' = [tx EXCEPT ![p] = u]
  OBVIOUS
<1>3. crossed' \in BOOLEAN /\ (crossed => crossed')
  BY <1>1
<1> QED
  BY <1>1, <1>2, <1>3, TxStep

\* A step of a command that applies its plan: passed or failed, it moves on.
LEMMA Moved ==
    ASSUME ConfigInv, NEW p \in Procs, tx[p] # None, tx[p].todo # <<>>, Applying(tx[p]),
           Head(tx[p].todo) \notin Files \cup {"backup", "copy", "retire", "remove-copy"},
           NEW u, SamePlan(u, tx[p]), IsTx(u), u.todo = Tail(tx[p].todo),
           u.undoing = tx[p].undoing, u.ok = tx[p].ok, u.saved = tx[p].saved
    PROVE  Sound(u) /\ Applying(u) /\ (~crossed => Kept(u, file, disk, latest))
<1>1. /\ IsTx(tx[p]) /\ Sound(tx[p])
      /\ ~crossed => Kept(tx[p], file, disk, latest)
  BY Commands
<1>2. Sound(u) /\ Applying(u)
  BY <1>1, StillApplying
<1>3. ~crossed => Kept(u, file, disk, latest)
  BY <1>1, PassKept
<1> QED
  BY <1>2, <1>3

\* Taking one step off the script.
LEMMA PassedTx ==
    ASSUME ConfigInv, NEW p \in Procs, tx[p] # None, tx[p].todo # <<>>
    PROVE  LET u == [tx[p] EXCEPT !.todo = Tail(@)] IN
           /\ IsTx(u) /\ SamePlan(u, tx[p]) /\ u.todo = Tail(tx[p].todo)
           /\ u.undoing = tx[p].undoing /\ u.ok = tx[p].ok /\ u.saved = tx[p].saved
           /\ Passed(p) => tx' = [tx EXCEPT ![p] = u]
<1>1. PICK t : t = tx[p]
  OBVIOUS
<1>2. IsTx(t) /\ t.todo \in Seq(Files \cup Steps) /\ t.todo # <<>>
  BY <1>1, Commands, TxFields
<1>3. PICK s : s = Tail(t.todo) /\ s \in Seq(Files \cup Steps)
  BY <1>2, HeadTailProperties
<1>4. PICK u : u = [t EXCEPT !.todo = s]
  OBVIOUS
<1>5. /\ IsTx(u) /\ SamePlan(u, t) /\ u.todo = s
      /\ u.undoing = t.undoing /\ u.ok = t.ok /\ u.saved = t.saved
  BY <1>2, <1>3, <1>4 DEF IsTx, SamePlan
<1>6. u = [tx[p] EXCEPT !.todo = Tail(@)]
  BY <1>1, <1>3, <1>4
<1>7. Passed(p) => tx' = [tx EXCEPT ![p] = u]
  <2>1. tx = [q \in Procs |-> tx[q]]
    BY DEF ConfigInv, TypeOK
  <2> QED
    BY <1>6, <2>1 DEF Passed
<1> QED
  BY <1>1, <1>3, <1>5, <1>6, <1>7

(* The steps of apply() that write nothing *********************************)

\* Where a command is.
LEMMA AtStep ==
    ASSUME ConfigInv, NEW p \in Procs, NEW step, At(p, step)
    PROVE  /\ tx[p] # None /\ tx[p].todo # <<>> /\ Head(tx[p].todo) = step
           /\ step \in Files \cup Steps
           /\ Applying(tx[p]) <=> step \notin {"dry-run", "preflight"}
<1>1. tx[p] # None /\ tx[p].todo # <<>> /\ Head(tx[p].todo) = step
  BY DEF At
<1>2. tx[p].todo \in Seq(Files \cup Steps)
  BY <1>1, Commands, TxFields
<1> QED
  BY <1>1, <1>2, HeadTailProperties DEF Applying

\* A command that passes a step beside its plan.
LEMMA PassStep ==
    ASSUME ConfigInv, NEW p \in Procs, NEW step, At(p, step), Passed(p),
           step \notin Files \cup {"dry-run", "preflight", "backup", "copy", "retire",
                                   "remove-copy"},
           UNCHANGED <<file, zonedata, loaded, started, stale, crossed>>
    PROVE  ConfigInv'
<1>1. /\ tx[p] # None /\ tx[p].todo # <<>> /\ Head(tx[p].todo) = step
      /\ Applying(tx[p])
  BY AtStep
<1>2. PICK u : u = [tx[p] EXCEPT !.todo = Tail(@)]
  OBVIOUS
<1>3. /\ IsTx(u) /\ SamePlan(u, tx[p]) /\ u.todo = Tail(tx[p].todo)
      /\ u.undoing = tx[p].undoing /\ u.ok = tx[p].ok /\ u.saved = tx[p].saved
      /\ tx' = [tx EXCEPT ![p] = u]
  BY <1>1, <1>2, PassedTx
<1>4. Sound(u) /\ (~crossed => Kept(u, file, disk, latest))
  BY <1>1, <1>3, Moved
<1>5. /\ file' = file /\ disk' = disk /\ latest' = latest /\ stale' = stale
      /\ crossed' = crossed /\ crossed' \in BOOLEAN
      /\ started' \in 0..MaxTx /\ DOMAIN loaded' \subseteq Items
  BY DEF zonedata, ConfigInv, TypeOK
<1>6. crossed' \in BOOLEAN /\ (crossed => crossed')
  BY <1>5
<1>7. u # None => /\ IsTx(u) /\ Sound(u)
                  /\ Applying(u) /\ ~crossed' => Kept(u, file, disk, latest)
  BY <1>3, <1>4, <1>5
<1> QED
  BY <1>3, <1>5, <1>6, <1>7, TxStep

\* A command whose step fails goes back, or ends its rollback.
LEMMA FailStep ==
    ASSUME ConfigInv, NEW p \in Procs, NEW step, At(p, step), Failed(p),
           step \notin {"dry-run", "preflight"},
           UNCHANGED <<file, zonedata, loaded, started, stale, crossed>>
    PROVE  ConfigInv'
<1>1. /\ tx[p] # None /\ tx[p].todo # <<>> /\ Head(tx[p].todo) = step
      /\ Applying(tx[p])
  BY AtStep
<1>2. PICK u : u = Undone(tx[p])
  OBVIOUS
<1>3. tx' = [tx EXCEPT ![p] = u]
  <2>1. tx = [q \in Procs |-> tx[q]]
    BY DEF ConfigInv, TypeOK
  <2> QED
    BY <1>2, <2>1 DEF Failed
<1>4. IsTx(u) /\ Sound(u) /\ (~crossed => Kept(u, file, disk, latest))
  BY <1>1, <1>2, Commands, Failing, FailKept
<1>5. /\ file' = file /\ disk' = disk /\ latest' = latest /\ stale' = stale
      /\ crossed' = crossed /\ crossed' \in BOOLEAN
      /\ started' \in 0..MaxTx /\ DOMAIN loaded' \subseteq Items
  BY DEF zonedata, ConfigInv, TypeOK
<1>6. crossed' \in BOOLEAN /\ (crossed => crossed')
  BY <1>5
<1>7. u # None => /\ IsTx(u) /\ Sound(u)
                  /\ Applying(u) /\ ~crossed' => Kept(u, file, disk, latest)
  BY <1>3, <1>4, <1>5
<1> QED
  BY <1>3, <1>5, <1>6, <1>7, TxStep

\* A command whose dry run passes still has its comparison to make.
LEMMA BeforePreflight ==
    ASSUME NEW t, IsTx(t), Sound(t), t.todo # <<>>, Head(t.todo) = "dry-run",
           NEW u, SamePlan(u, t), u.todo = Tail(t.todo),
           u.undoing = t.undoing, u.ok = t.ok, u.saved = t.saved
    PROVE  Sound(u) /\ ~Applying(u)
<1>1. /\ Scripted(u) /\ Planned(u) /\ u.todo \in Seq(Files \cup Steps)
      /\ Due(t, "dry-run") /\ Pending(u.todo) = Pending(t.todo) \ {"dry-run"}
      /\ \A x \in Pending(u.todo) : Rank(Way(t), "dry-run") < Rank(Way(t), x)
  BY Passing
<1>2. ~t.undoing /\ t.saved = 0 /\ Way(t) = "forward"
  BY DEF Sound, Applying, Way
<1>3. Due(t, "preflight")
  <2>1. Rank("forward", "dry-run") < Rank("forward", "preflight")
    BY Ranks
  <2> QED
    BY <1>1, <1>2, <2>1 DEF Sound, Scripted, ForwardSteps, Due
<1>4. "preflight" \in Pending(u.todo)
  BY <1>1, <1>3 DEF Due
<1>5. PICK s : s = u.todo
  OBVIOUS
<1>6. s # <<>> /\ s \in Seq(Files \cup Steps) /\ Ordered("forward", s)
  BY <1>1, <1>2, <1>4, <1>5, NothingDue DEF Scripted, Way
<1>7. Head(s) = "preflight"
  <2>1. /\ Head(s) \in Pending(s) /\ Pending(Tail(s)) = Pending(s) \ {Head(s)}
        /\ \A x \in Pending(Tail(s)) : Rank("forward", Head(s)) < Rank("forward", x)
    BY <1>6, TailScript, Directions
  <2>2. Head(s) # "dry-run"
    BY <1>1, <1>5, <2>1
  <2> SUFFICES ASSUME Head(s) # "preflight" PROVE FALSE
    OBVIOUS
  <2>3. Rank("forward", Head(s)) < Rank("forward", "preflight")
    BY <1>4, <1>5, <2>1
  <2>4. Rank("forward", Head(s)) \in 3..12 /\ Rank("forward", "preflight") = 2
    BY <2>2, Ranks
  <2> QED
    BY <2>3, <2>4
<1> QED
  BY <1>1, <1>2, <1>5, <1>6, <1>7 DEF Sound, Applying

\* Comparing the files is the first step that counts: all the others are due.
LEMMA AfterPreflight ==
    ASSUME NEW t, IsTx(t), Sound(t), t.todo # <<>>, Head(t.todo) = "preflight",
           NEW u, SamePlan(u, t), u.todo = Tail(t.todo),
           u.undoing = t.undoing, u.ok = t.ok, u.saved = t.saved
    PROVE  /\ Sound(u) /\ Applying(u) /\ ~u.undoing /\ u.saved = 0
           /\ \A y \in ForwardSteps(t) \ {"preflight"} : Due(u, y)
<1>1. /\ Scripted(u) /\ Planned(u) /\ u.todo \in Seq(Files \cup Steps)
      /\ Due(t, "preflight") /\ Pending(u.todo) = Pending(t.todo) \ {"preflight"}
      /\ \A x \in Pending(u.todo) : Rank(Way(t), "preflight") < Rank(Way(t), x)
  BY Passing
<1>2. ~t.undoing /\ t.saved = 0 /\ Way(t) = "forward"
  BY DEF Sound, Applying, Way
<1>3. t.files \cap Steps = {}
  BY FileNames, TxFields
<1>4. ASSUME NEW y \in ForwardSteps(t) \ {"preflight"} PROVE Due(u, y)
  <2>1. y # "dry-run"
    BY <1>3 DEF ForwardSteps, Steps
  <2>2. Rank("forward", "preflight") = 2 /\ Rank("forward", y) \in 3..12
    BY <2>1, Ranks
  <2>3. Rank("forward", "preflight") < Rank("forward", y)
    BY <2>2
  <2>4. Due(t, y)
    BY <1>1, <1>2, <2>3 DEF Sound, Scripted, Due
  <2> QED
    BY <1>1, <2>4 DEF Due
<1>5. PICK s : s = u.todo
  OBVIOUS
<1>6. ASSUME s # <<>>, Head(s) \in {"dry-run", "preflight"} PROVE FALSE
  <2>1. Head(s) \in Pending(s)
    BY <1>1, <1>5, <1>6, HeadPending
  <2>2. PICK x \in Pending(s) : x \in {"dry-run", "preflight"}
    BY <1>6, <2>1
  <2>3. Rank("forward", "preflight") < Rank("forward", x)
    BY <1>1, <1>2, <1>5, <2>2
  <2>4. Rank("forward", "preflight") = 2 /\ Rank("forward", x) \in 1..2
    BY <2>2, Ranks
  <2> QED
    BY <2>3, <2>4
<1>7. Applying(u)
  BY <1>5, <1>6 DEF Applying
<1> QED
  BY <1>1, <1>2, <1>4, <1>7 DEF Sound

\* The steps that write nothing leave these as they are.
LEMMA Quiet ==
    ASSUME ConfigInv, UNCHANGED <<file, zonedata, loaded, started, histories>>
    PROVE  /\ UNCHANGED <<file, zonedata, loaded, started, stale, crossed>>
           /\ file' = file /\ disk' = disk /\ latest' = latest /\ stale' = stale
           /\ crossed' \in BOOLEAN /\ (crossed => crossed') /\ (crossed' => crossed)
           /\ started' \in 0..MaxTx /\ DOMAIN loaded' \subseteq Items
BY DEF zonedata, histories, ConfigInv, TypeOK

\* A dry run shows its result or ends the command.
LEMMA DryRunStep ==
    ASSUME ConfigInv, NEW p \in Procs, DryRun(p)
    PROVE  ConfigInv'
<1>1. At(p, "dry-run") /\ UNCHANGED <<file, zonedata, loaded, started, histories>>
  BY DEF DryRun
<1>2. /\ UNCHANGED <<file, zonedata, loaded, started, stale, crossed>>
      /\ file' = file /\ disk' = disk /\ latest' = latest /\ stale' = stale
      /\ crossed' \in BOOLEAN /\ (crossed => crossed') /\ (crossed' => crossed)
      /\ started' \in 0..MaxTx /\ DOMAIN loaded' \subseteq Items
  BY <1>1, Quiet
<1>3. tx[p] # None /\ tx[p].todo # <<>> /\ Head(tx[p].todo) = "dry-run"
  BY <1>1, AtStep
<1>4. CASE tx' = [tx EXCEPT ![p] = None]
  BY <1>2, <1>4, Ended
<1>5. CASE Passed(p)
  <2>1. PICK u : u = [tx[p] EXCEPT !.todo = Tail(@)]
    OBVIOUS
  <2>2. /\ IsTx(u) /\ SamePlan(u, tx[p]) /\ u.todo = Tail(tx[p].todo)
        /\ u.undoing = tx[p].undoing /\ u.ok = tx[p].ok /\ u.saved = tx[p].saved
        /\ tx' = [tx EXCEPT ![p] = u]
    BY <1>3, <1>5, <2>1, PassedTx
  <2>3. Sound(u) /\ ~Applying(u)
    BY <1>3, <2>2, Commands, BeforePreflight
  <2>4. u # None => /\ IsTx(u) /\ Sound(u)
                    /\ Applying(u) /\ ~crossed' => Kept(u, file, disk, latest)
    BY <2>2, <2>3
  <2> QED
    BY <1>2, <2>2, <2>4, TxStep
<1> QED
  BY <1>4, <1>5 DEF DryRun

\* The comparison of the files is where a command starts to hold something.
LEMMA PreflightStep ==
    ASSUME ConfigInv, NEW p \in Procs, Preflight(p)
    PROVE  ConfigInv'
<1>1. At(p, "preflight") /\ UNCHANGED <<file, zonedata, loaded, started, histories>>
  BY DEF Preflight
<1>2. /\ UNCHANGED <<file, zonedata, loaded, started, stale, crossed>>
      /\ file' = file /\ disk' = disk /\ latest' = latest /\ stale' = stale
      /\ crossed' \in BOOLEAN /\ (crossed => crossed') /\ (crossed' => crossed)
      /\ started' \in 0..MaxTx /\ DOMAIN loaded' \subseteq Items
  BY <1>1, Quiet
<1>3. tx[p] # None /\ tx[p].todo # <<>> /\ Head(tx[p].todo) = "preflight"
  BY <1>1, AtStep
<1>4. CASE Conflict(tx[p])
  <2>1. tx' = [tx EXCEPT ![p] = None]
    BY <1>4 DEF Preflight
  <2> QED
    BY <1>2, <2>1, Ended
<1>5. CASE ~Conflict(tx[p])
  <2>1. Passed(p)
    BY <1>5 DEF Preflight
  <2>2. PICK t : t = tx[p] /\ IsTx(t) /\ Sound(t)
    BY <1>3, Commands
  <2>3. PICK u : u = [tx[p] EXCEPT !.todo = Tail(@)]
    OBVIOUS
  <2>4. /\ IsTx(u) /\ SamePlan(u, t) /\ u.todo = Tail(t.todo)
        /\ u.undoing = t.undoing /\ u.ok = t.ok /\ u.saved = t.saved
        /\ tx' = [tx EXCEPT ![p] = u]
    BY <1>3, <2>1, <2>2, <2>3, PassedTx
  <2>5. /\ Sound(u) /\ Applying(u) /\ ~u.undoing /\ u.saved = 0
        /\ \A y \in ForwardSteps(t) \ {"preflight"} : Due(u, y)
    BY <1>3, <2>2, <2>4, AfterPreflight
  <2>6. \A f \in t.files : file[f] = t.old[f]
    BY <1>5, <2>2 DEF Conflict
  <2>7. \A f \in t.files : Due(u, f)
    <3>1. t.files \cap Steps = {}
      BY <2>2, FileNames, TxFields
    <3> QED
      BY <2>5, <3>1 DEF ForwardSteps, Steps
  <2>8. FilesKept(u, file)
    BY <2>4, <2>5, <2>6, <2>7 DEF FilesKept, SamePlan
  <2>9. ASSUME ~crossed, t.kind = "relocate"
        PROVE  DataKept(u, file, disk, latest)
    <3>1. t.files = {"decl"} /\ DataOf(t.old["decl"]) = "old"
      BY <2>2, <2>9 DEF Sound, Planned
    <3>2. file["decl"] = t.old["decl"]
      BY <2>6, <3>1
    <3>3. disk["old"] = latest
      BY <2>9, <3>1, <3>2 DEF ConfigInv, ZoneInv, OldLeads
    <3>4. Due(u, "backup") /\ Due(u, "copy") /\ Due(u, "retire")
      BY <2>5, <2>9 DEF ForwardSteps
    <3> QED
      BY <2>4, <2>5, <3>2, <3>3, <3>4 DEF DataKept, SamePlan
  <2>10. ~crossed => Kept(u, file, disk, latest)
    <3>1. t.kind # "relocate" => DataKept(u, file, disk, latest)
      BY <2>4 DEF DataKept, SamePlan
    <3> QED
      BY <2>8, <2>9, <3>1 DEF Kept
  <2>11. u # None => /\ IsTx(u) /\ Sound(u)
                     /\ Applying(u) /\ ~crossed' => Kept(u, file, disk, latest)
    BY <1>2, <2>4, <2>5, <2>10
  <2> QED
    BY <1>2, <2>4, <2>11, TxStep
<1> QED
  BY <1>4, <1>5

\* Nothing of it depends on whether named has been told.
LEMMA ToldTx ==
    ASSUME NEW t, IsTx(t), Sound(t), NEW u, u = [t EXCEPT !.activated = TRUE]
    PROVE  /\ IsTx(u) /\ Sound(u) /\ SamePlan(u, t) /\ u.todo = t.todo
           /\ Applying(u) <=> Applying(t)
           /\ Kept(t, file, disk, latest) => Kept(u, file, disk, latest)
<1>1. /\ IsTx(u) /\ SamePlan(u, t) /\ u.todo = t.todo
      /\ u.undoing = t.undoing /\ u.ok = t.ok /\ u.saved = t.saved
  BY DEF IsTx, SamePlan
<1>2. Planned(u) /\ ForwardSteps(u) = ForwardSteps(t) /\ BackSteps(u) = BackSteps(t)
  BY <1>1, PlanStays DEF Sound
<1>3. Way(u) = Way(t) /\ \A y : Due(u, y) <=> Due(t, y)
  BY <1>1 DEF Way, Due
<1>4. Scripted(u)
  BY <1>1, <1>2, <1>3 DEF Sound, Scripted
<1>5. Applying(u) <=> Applying(t)
  BY <1>1 DEF Applying
<1>6. Kept(t, file, disk, latest) => Kept(u, file, disk, latest)
  BY <1>1, <1>3 DEF Kept, FilesKept, DataKept, SamePlan
<1> QED
  BY <1>1, <1>2, <1>4, <1>5, <1>6 DEF Sound

\* named is told, or fails to obey.
LEMMA ReconfigStep ==
    ASSUME ConfigInv, NEW p \in Procs, Reconfig(p)
    PROVE  ConfigInv'
<1>1. At(p, "reconfig") /\ UNCHANGED <<file, zonedata, started, stale>>
  BY DEF Reconfig
<1>2. /\ tx[p] # None /\ tx[p].todo # <<>> /\ Head(tx[p].todo) = "reconfig"
      /\ Applying(tx[p])
  BY <1>1, AtStep
<1>3. file' = file /\ disk' = disk /\ latest' = latest /\ stale' = stale
      /\ started' \in 0..MaxTx
  BY <1>1 DEF zonedata, ConfigInv, TypeOK
<1>4. DOMAIN loaded' \subseteq Items
  <2>1. DOMAIN Config(file) \subseteq Items
    BY DEF Config
  <2>2. DOMAIN loaded \subseteq Items
    BY DEF ConfigInv, TypeOK
  <2> QED
    BY <2>1, <2>2 DEF Reconfig
<1>5. crossed' \in BOOLEAN /\ (crossed => crossed')
  <2>1. crossed' = (crossed \/ \E q \in Procs \ {p} : Underway(q))
    BY DEF Reconfig
  <2> QED
    BY <2>1 DEF ConfigInv, TypeOK
<1>6. tx = [q \in Procs |-> tx[q]]
  BY DEF ConfigInv, TypeOK
<1>7. PICK t : t = tx[p] /\ IsTx(t) /\ Sound(t) /\ (~crossed => Kept(t, file, disk, latest))
  BY <1>2, Commands
<1>8. PICK v : v = [t EXCEPT !.activated = TRUE]
  OBVIOUS
<1>9. /\ IsTx(v) /\ Sound(v) /\ SamePlan(v, t) /\ v.todo = t.todo
      /\ v.todo # <<>> /\ Head(v.todo) = "reconfig" /\ Applying(v)
      /\ ~crossed => Kept(v, file, disk, latest)
  BY <1>2, <1>7, <1>8, ToldTx
<1>10. CASE tx' = [tx EXCEPT ![p].todo = Tail(@), ![p].activated = TRUE]
  <2>0. PICK s : s = Tail(v.todo) /\ s \in Seq(Files \cup Steps)
    BY <1>9, TxFields, HeadTailProperties
  <2>1. PICK u : u = [v EXCEPT !.todo = s]
    OBVIOUS
  <2>2. /\ IsTx(u) /\ SamePlan(u, v) /\ u.todo = s
        /\ u.undoing = v.undoing /\ u.ok = v.ok /\ u.saved = v.saved
    BY <1>9, <2>0, <2>1 DEF IsTx, SamePlan
  <2>3. tx' = [tx EXCEPT ![p] = u]
    <3>1. u = [t EXCEPT !.todo = Tail(@), !.activated = TRUE]
      BY <1>7, <1>8, <1>9, <2>0, <2>1 DEF IsTx
    <3> QED
      BY <1>6, <1>7, <1>10, <3>1
  <2>4. Sound(u) /\ Applying(u)
    BY <1>9, <2>0, <2>2, StillApplying
  <2>5. "reconfig" \notin Files \cup {"backup", "copy", "retire", "remove-copy"}
    BY FileNames DEF Steps
  <2>6. ~crossed => Kept(u, file, disk, latest)
    BY <1>9, <2>0, <2>2, <2>5, PassKept
  <2>7. u # None => /\ IsTx(u) /\ Sound(u)
                    /\ Applying(u) /\ ~crossed' => Kept(u, file, disk, latest)
    BY <1>5, <2>2, <2>4, <2>6
  <2> QED
    BY <1>3, <1>4, <1>5, <2>3, <2>7, TxStep
<1>11. CASE tx' = [tx EXCEPT ![p] = Undone([@ EXCEPT !.activated = TRUE])]
  <2>1. PICK u : u = Undone(v)
    OBVIOUS
  <2>2. tx' = [tx EXCEPT ![p] = u]
    BY <1>6, <1>7, <1>8, <1>11, <2>1
  <2>3. IsTx(u) /\ Sound(u) /\ (~crossed => Kept(u, file, disk, latest))
    BY <1>9, <2>1, Failing, FailKept
  <2>4. u # None => /\ IsTx(u) /\ Sound(u)
                    /\ Applying(u) /\ ~crossed' => Kept(u, file, disk, latest)
    BY <1>5, <2>3
  <2> QED
    BY <1>3, <1>4, <1>5, <2>2, <2>4, TxStep
<1> QED
  BY <1>10, <1>11 DEF Reconfig

\* A check passes or sends the command back.
LEMMA CheckStep ==
    ASSUME ConfigInv, NEW p \in Procs, Check(p)
    PROVE  ConfigInv'
<1>1. /\ UNCHANGED <<file, zonedata, loaded, started, histories>>
      /\ Passed(p) \/ Failed(p)
  BY DEF Check
<1>2. UNCHANGED <<file, zonedata, loaded, started, stale, crossed>>
  BY <1>1, Quiet
<1>3. PICK step \in CheckSteps : At(p, step)
  BY DEF Check
<1>4. step \notin Files \cup {"dry-run", "preflight", "backup", "copy", "retire",
                             "remove-copy"}
  BY <1>3, FileNames DEF CheckSteps, Steps
<1> QED
  BY <1>1, <1>2, <1>3, <1>4, PassStep, FailStep

\* A file operation raises.
LEMMA FileStepFailsStep ==
    ASSUME ConfigInv, NEW p \in Procs, FileStepFails(p)
    PROVE  ConfigInv'
<1>1. Failed(p) /\ UNCHANGED <<file, zonedata, loaded, started, histories>>
  BY DEF FileStepFails
<1>2. UNCHANGED <<file, zonedata, loaded, started, stale, crossed>>
  BY <1>1, Quiet
<1>3. PICK step \in FileSteps : At(p, step)
  BY DEF FileStepFails
<1>4. step \notin {"dry-run", "preflight"}
  BY <1>3, FileNames DEF FileSteps, Steps
<1> QED
  BY <1>1, <1>2, <1>3, <1>4, FailStep

\* A command reports, or its process dies.
LEMMA EndStep ==
    ASSUME ConfigInv, NEW p \in Procs, Finish(p) \/ Crash(p)
    PROVE  ConfigInv'
<1>1. /\ tx' = [tx EXCEPT ![p] = None]
      /\ UNCHANGED <<file, zonedata, loaded, started, stale, crossed>>
  BY DEF Finish, Crash
<1> QED
  BY <1>1, Ended

\* Before the rollback all that comes after the first step is still due.
LEMMA AtForward ==
    ASSUME NEW t, IsTx(t), Sound(t), t.todo # <<>>, ~t.undoing,
           NEW y \in ForwardSteps(t), Rank("forward", Head(t.todo)) < Rank("forward", y)
    PROVE  Due(t, y)
<1>1. PICK s : s = t.todo
  OBVIOUS
<1>2. s \in Seq(Files \cup Steps) /\ s # <<>> /\ Head(s) \in Pending(s)
  BY <1>1, TxFields, HeadPending
<1> QED
  BY <1>1, <1>2 DEF Sound, Scripted

\* The backup of the data is the latest one.
LEMMA BackupStep ==
    ASSUME ConfigInv, NEW p \in Procs, Backup(p)
    PROVE  ConfigInv'
<1>1. At(p, "backup") /\ UNCHANGED <<file, zonedata, loaded, started, histories>>
  BY DEF Backup
<1>2. /\ file' = file /\ disk' = disk /\ latest' = latest /\ stale' = stale
      /\ crossed' \in BOOLEAN /\ (crossed => crossed') /\ (crossed' => crossed)
      /\ started' \in 0..MaxTx /\ DOMAIN loaded' \subseteq Items
  BY <1>1, Quiet
<1>3. /\ tx[p] # None /\ tx[p].todo # <<>> /\ Head(tx[p].todo) = "backup"
      /\ Applying(tx[p])
  BY <1>1, AtStep
<1>4. PICK t : t = tx[p] /\ IsTx(t) /\ Sound(t) /\ (~crossed => Kept(t, file, disk, latest))
  BY <1>3, Commands
<1>5. t.todo # <<>> /\ Head(t.todo) = "backup" /\ Applying(t)
  BY <1>3, <1>4
<1>6. PICK s : s = Tail(t.todo) /\ s \in Seq(Files \cup Steps)
  BY <1>4, <1>5, TxFields, HeadTailProperties
<1>7. disk["old"] \in Versions /\ latest \in 1..MaxVersions
  BY DEF ConfigInv, TypeOK
<1>8. PICK u : u = [t EXCEPT !.todo = s, !.saved = disk["old"]]
  OBVIOUS
<1>9. /\ IsTx(u) /\ SamePlan(u, t) /\ u.todo = s
      /\ u.undoing = t.undoing /\ u.ok = t.ok /\ u.saved = disk["old"]
  BY <1>4, <1>6, <1>7, <1>8 DEF IsTx, SamePlan
<1>10. tx' = [tx EXCEPT ![p] = u]
  <2>1. tx = [q \in Procs |-> tx[q]]
    BY DEF ConfigInv, TypeOK
  <2> QED
    BY <1>4, <1>6, <1>8, <2>1 DEF Backup
<1>11. Sound(u) /\ Applying(u)
  BY <1>4, <1>5, <1>6, <1>9, StillApplying
<1>12. ~t.undoing /\ t.kind = "relocate"
  <2>1. t.files \cap Steps = {}
    BY <1>4, FileNames, TxFields
  <2>2. /\ t.undoing => "backup" \in BackSteps(t)
        /\ ~t.undoing => "backup" \in {"dry-run"} \cup ForwardSteps(t)
    BY <1>4, <1>5, <1>6, <1>9, Passing
  <2> QED
    BY <2>1, <2>2 DEF BackSteps, ForwardSteps, Steps
<1>13. /\ t.files = {"decl"} /\ DataOf(t.old["decl"]) = "old"
       /\ {"decl", "copy", "retire"} \subseteq ForwardSteps(t)
  BY <1>4, <1>12 DEF Sound, Planned, ForwardSteps
<1>14. Due(t, "decl") /\ Due(t, "copy") /\ Due(t, "retire")
  BY <1>4, <1>5, <1>12, <1>13, AtForward, Ranks
<1>15. \A y : y # "backup" => (Due(u, y) <=> Due(t, y))
  BY <1>4, <1>5, <1>6, <1>9, Passing DEF Due
<1>16. ASSUME ~crossed PROVE Kept(u, file, disk, latest)
  <2>1. "decl" # "backup"
    OBVIOUS
  <2>2. file["decl"] = t.old["decl"]
    BY <1>4, <1>12, <1>13, <1>14, <1>16 DEF Kept, FilesKept
  <2>3. disk["old"] = latest
    BY <1>13, <1>16, <2>2 DEF ConfigInv, ZoneInv, OldLeads
  <2>4. FilesKept(u, file)
    BY <1>4, <1>9, <1>12, <1>13, <1>14, <1>15, <2>2 DEF FilesKept, SamePlan
  <2>5. DataKept(u, file, disk, latest)
    BY <1>7, <1>9, <1>12, <1>14, <1>15, <2>2, <2>3 DEF DataKept, SamePlan
  <2> QED
    BY <2>4, <2>5 DEF Kept
<1>17. u # None => /\ IsTx(u) /\ Sound(u)
                   /\ Applying(u) /\ ~crossed' => Kept(u, file, disk, latest)
  BY <1>2, <1>9, <1>11, <1>16
<1> QED
  BY <1>2, <1>10, <1>17, TxStep

\* What comes before the first step has been done.
LEMMA BeforeHead ==
    ASSUME NEW t, IsTx(t), Sound(t), t.todo # <<>>,
           NEW y, Rank(Way(t), y) < Rank(Way(t), Head(t.todo))
    PROVE  ~Due(t, y)
<1>1. PICK s, u : s = t.todo /\ u = Way(t) /\ u \in Ways
  BY Directions DEF Way
<1>2. /\ s \in Seq(Files \cup Steps) /\ s # <<>> /\ Ordered(u, s)
  BY <1>1, TxFields DEF Sound, Scripted
<1>3. /\ Pending(Tail(s)) = Pending(s) \ {Head(s)}
      /\ \A x \in Pending(Tail(s)) : Rank(u, Head(s)) < Rank(u, x)
  BY <1>1, <1>2, TailScript
<1>4. PICK m, n : m = Rank(u, y) /\ n = Rank(u, Head(s)) /\ m \in Nat /\ n \in Nat
  BY <1>1, Ranks
<1>5. m < n
  BY <1>1, <1>4
<1> SUFFICES ASSUME y \in Pending(s) PROVE FALSE
  BY <1>1 DEF Due
<1>6. y # Head(s)
  BY <1>4, <1>5
<1>7. n < m
  BY <1>3, <1>4, <1>6
<1> QED
  BY <1>4, <1>5, <1>7

\* A step of one command, whatever it does to files and data.
LEMMA AnyStep ==
    ASSUME ConfigInv, NEW p \in Procs, NEW u, tx' = [tx EXCEPT ![p] = u],
           u # None => /\ IsTx(u) /\ Sound(u)
                       /\ Applying(u) /\ ~crossed' => Kept(u, file', disk', latest'),
           \A q \in Procs \ {p} : tx[q] # None /\ Applying(tx[q]) /\ ~crossed'
              => Kept(tx[q], file', disk', latest'),
           WellFormed(file'), disk' \in [{"old", "new"} -> Versions],
           latest' \in 1..MaxVersions, stale' \in BOOLEAN, crossed' \in BOOLEAN,
           started' \in 0..MaxTx, DOMAIN loaded' \subseteq Items, ZoneInv'
    PROVE  ConfigInv'
<1>1. tx = [q \in Procs |-> tx[q]]
  BY DEF ConfigInv, TypeOK
<1>2. /\ tx' = [q \in Procs |-> tx'[q]] /\ tx'[p] = u
      /\ \A q \in Procs \ {p} : tx'[q] = tx[q]
  BY <1>1
<1>3. ASSUME NEW q \in Procs, tx'[q] # None
      PROVE  /\ IsTx(tx'[q]) /\ Sound(tx'[q])
             /\ Applying(tx'[q]) /\ ~crossed' => Kept(tx'[q], file', disk', latest')
  <2>1. CASE q = p
    BY <1>2, <1>3, <2>1
  <2>2. CASE q # p
    <3>1. tx'[q] = tx[q]
      BY <1>2, <2>2
    <3>2. IsTx(tx[q]) /\ Sound(tx[q])
      BY <1>3, <3>1, Commands
    <3>3. Applying(tx[q]) /\ ~crossed' => Kept(tx[q], file', disk', latest')
      BY <1>3, <2>2, <3>1
    <3> QED
      BY <3>1, <3>2, <3>3
  <2> QED
    BY <2>1, <2>2
<1>4. CommandInv'
  BY <1>3 DEF CommandInv
<1>5. TypeOK'
  <2>1. \A q \in Procs : tx'[q] # None => IsTx(tx'[q])
    BY <1>3
  <2> QED
    BY <1>2, <2>1 DEF TypeOK, WellFormed
<1> QED
  BY <1>4, <1>5 DEF ConfigInv

(* The steps that write ****************************************************)

\* The files a command on one zone and one file works on.
LEMMA PlanFiles ==
    ASSUME NEW t, IsTx(t), Sound(t)
    PROVE  /\ t.files \subseteq Files /\ t.files \cap Steps = {}
           /\ \A f \in Files \ t.files : t.new[f] = t.old[f]
           /\ t.kind \in {"acl", "group", "assign"} =>
                 \A f \in t.files : DataOf(t.new[f]) = DataOf(t.old[f])
           /\ t.kind = "relocate" => t.files = {"decl"}
BY FileNames, TxFields DEF Sound, Planned

\* What a command writes, and what it then has to do.
LEMMA WriteOwn ==
    ASSUME NEW t, IsTx(t), Sound(t), Applying(t), t.todo # <<>>,
           NEW f \in Files, Head(t.todo) = f,
           NEW u, SamePlan(u, t), u.todo = Tail(t.todo),
           u.undoing = t.undoing, u.ok = t.ok, u.saved = t.saved,
           NEW fs, WellFormed(fs), NEW data, NEW version, Kept(t, fs, data, version),
           NEW gs, gs = [fs EXCEPT ![f] = IF t.undoing THEN t.old[f] ELSE t.new[f]]
    PROVE  f \in t.files /\ Kept(u, gs, data, version)
<1>1. /\ t.undoing \in BOOLEAN /\ t.files \subseteq Files /\ Files \cap Steps = {}
      /\ t.kind = "relocate" => t.files = {"decl"}
  BY TxFields, PlanFiles, FileNames
<1>2. /\ Due(t, f) /\ Pending(u.todo) = Pending(t.todo) \ {f}
      /\ t.undoing => f \in BackSteps(t) /\ t.ok
      /\ ~t.undoing => f \in {"dry-run"} \cup ForwardSteps(t)
  BY Passing
<1>3. f \in t.files
  BY <1>1, <1>2 DEF BackSteps, ForwardSteps, Steps
<1>4. ~Due(u, f) /\ \A y : y # f => (Due(u, y) <=> Due(t, y))
  BY <1>2 DEF Due
<1>5. /\ gs[f] = IF t.undoing THEN t.old[f] ELSE t.new[f]
      /\ \A g \in Files \ {f} : gs[g] = fs[g]
  BY DEF WellFormed
<1>6. FilesKept(u, gs)
  <2> SUFFICES ASSUME NEW g \in t.files
               PROVE  /\ ~t.undoing => gs[g] = IF Due(u, g) THEN t.old[g] ELSE t.new[g]
                      /\ t.undoing => gs[g] \in {t.old[g], t.new[g]}
                      /\ t.undoing /\ t.ok /\ ~Due(u, g) => gs[g] = t.old[g]
    BY DEF FilesKept, SamePlan
  <2>1. CASE g = f
    BY <1>4, <1>5, <2>1
  <2>2. CASE g # f
    <3>1. gs[g] = fs[g] /\ (Due(u, g) <=> Due(t, g))
      BY <1>1, <1>4, <1>5, <2>2
    <3> QED
      BY <3>1 DEF Kept, FilesKept
  <2> QED
    BY <2>1, <2>2
<1>7. ASSUME t.kind = "relocate", ~t.undoing PROVE ~Due(t, "backup")
  <2>1. Head(t.todo) = "decl"
    BY <1>1, <1>3, <1>7
  <2> QED
    BY <1>7, <2>1, BeforeHead, Ranks DEF Way
<1>8. ASSUME t.kind = "relocate" PROVE DataKept(u, gs, data, version)
  <2>1. f = "decl"
    BY <1>1, <1>3, <1>8
  <2>2. \A y \in {"backup", "copy", "retire", "remove-copy"} : Due(u, y) <=> Due(t, y)
    BY <1>4, <2>1
  <2>3. t.saved = 0 => gs["decl"] = t.old["decl"]
    BY <1>5, <1>7, <1>8, <2>1 DEF Kept, DataKept
  <2> QED
    BY <1>8, <2>2, <2>3 DEF Kept, DataKept, SamePlan
<1>9. t.kind # "relocate" => DataKept(u, gs, data, version)
  BY DEF DataKept, SamePlan
<1> QED
  BY <1>3, <1>6, <1>7, <1>8, <1>9 DEF Kept

\* Where the zone's declaration leads after a file is written.
LEMMA WriteZone ==
    ASSUME NEW t, IsTx(t), Sound(t), Applying(t), t.todo # <<>>,
           NEW f \in Files, Head(t.todo) = f, f \in t.files,
           NEW fs, WellFormed(fs), NEW data, NEW version, Kept(t, fs, data, version),
           NEW gs, gs = [fs EXCEPT ![f] = IF t.undoing THEN t.old[f] ELSE t.new[f]],
           OldLeads(fs, data, version)
    PROVE  /\ OldLeads(gs, data, version)
           /\ NewLeads(fs, data, version) /\ Fresh(t, fs) => NewLeads(gs, data, version)
<1>1. /\ t.kind \in Kinds /\ t.undoing \in BOOLEAN
      /\ "decl" \in Files /\ "local" \in Files /\ "decl" # "local"
  BY TxFields, FileNames
<1>2. /\ gs[f] = IF t.undoing THEN t.old[f] ELSE t.new[f]
      /\ \A g \in Files \ {f} : gs[g] = fs[g]
  BY DEF WellFormed
<1>3. \A g \in t.files : fs[g] \in {t.old[g], t.new[g]}
  BY <1>1 DEF Kept, FilesKept
<1>4. CASE t.kind \in {"acl", "group", "assign"}
  <2>1. DataOf(t.new[f]) = DataOf(t.old[f])
    BY <1>4, PlanFiles
  <2>2. DataOf(gs[f]) = DataOf(fs[f])
    BY <1>2, <1>3, <2>1
  <2>3. DataOf(gs["decl"]) = DataOf(fs["decl"]) /\ DataOf(gs["local"]) = DataOf(fs["local"])
    BY <1>1, <1>2, <2>2
  <2> QED
    BY <2>3 DEF OldLeads, NewLeads
<1>5. CASE t.kind = "migrate"
  <2>1. /\ t.files = {"decl", "local", "index"} /\ t.old["decl"] = None
        /\ DataOf(t.new["decl"]) = "old"
    BY <1>5 DEF Sound, Planned
  <2>2. DataOf(t.old["decl"]) # "new" /\ DataOf(t.new["decl"]) # "new"
    BY <2>1 DEF DataOf
  <2>3. DataOf(fs["decl"]) # "new"
    BY <1>3, <2>1, <2>2
  <2>4. DataOf(gs["decl"]) # "new"
    BY <1>1, <1>2, <2>2, <2>3
  <2> QED
    BY <2>3, <2>4 DEF OldLeads, NewLeads
<1>6. CASE t.kind = "relocate"
  <2>1. /\ t.files = {"decl"} /\ f = "decl" /\ DataOf(t.old["local"]) = "nowhere"
        /\ DataOf(t.old["decl"]) = "old" /\ DataOf(t.new["decl"]) = "new"
    BY <1>6 DEF Sound, Planned
  <2>2. CASE t.undoing
    BY <1>2, <1>6, <2>1, <2>2 DEF Kept, DataKept, OldLeads, NewLeads
  <2>3. CASE ~t.undoing
    <3>1. ~Due(t, "copy")
      BY <2>1, <2>3, BeforeHead, Ranks DEF Way
    <3>2. DataOf(gs["decl"]) = "new" /\ data["new"] = version
      BY <1>2, <1>6, <2>1, <2>3, <3>1 DEF Kept, DataKept
    <3>3. gs["local"] = fs["local"] /\ "local" \in Files \ t.files
      BY <1>1, <1>2, <2>1
    <3> QED
      BY <2>1, <3>2, <3>3 DEF OldLeads, NewLeads, Fresh
  <2> QED
    BY <2>2, <2>3
<1> QED
  BY <1>1, <1>4, <1>5, <1>6 DEF Kinds

\* The file of another command is left alone.
LEMMA WriteOther ==
    ASSUME NEW t, IsTx(t), Sound(t), NEW fs, NEW data, NEW version,
           Kept(t, fs, data, version),
           NEW gs, \A g \in t.files : gs[g] = fs[g]
    PROVE  Kept(t, gs, data, version)
<1>1. FilesKept(t, gs)
  BY DEF Kept, FilesKept
<1>2. t.kind = "relocate" => gs["decl"] = fs["decl"]
  BY PlanFiles
<1>3. DataKept(t, gs, data, version)
  BY <1>2 DEF Kept, DataKept
<1> QED
  BY <1>1, <1>3 DEF Kept

\* A file is replaced, or put back.
LEMMA WriteStep ==
    ASSUME ConfigInv, NEW p \in Procs, Write(p)
    PROVE  ConfigInv'
<1>1. PICK t : t = tx[p]
  OBVIOUS
<1>2. PICK f \in Files :
        /\ At(p, f)
        /\ file' = [file EXCEPT ![f] = IF t.undoing THEN t.old[f] ELSE t.new[f]]
        /\ stale' = (stale \/ \E g \in Files \ t.files : file[g] # t.old[g])
        /\ crossed' = (crossed \/ \E q \in Procs \ {p} : Holds(q, f))
        /\ Passed(p)
        /\ UNCHANGED <<zonedata, loaded, started>>
  BY <1>1 DEF Write
<1>3. f \notin {"dry-run", "preflight"}
  BY FileNames DEF Steps
<1>4. tx[p] # None /\ tx[p].todo # <<>> /\ Head(tx[p].todo) = f /\ Applying(tx[p])
  BY <1>2, <1>3, AtStep
<1>5. /\ t # None /\ t.todo # <<>> /\ Head(t.todo) = f /\ Applying(t)
      /\ IsTx(t) /\ Sound(t) /\ (~crossed => Kept(t, file, disk, latest))
  BY <1>1, <1>4, Commands
<1>6. PICK u : u = [tx[p] EXCEPT !.todo = Tail(@)]
  OBVIOUS
<1>7. /\ IsTx(u) /\ SamePlan(u, t) /\ u.todo = Tail(t.todo)
      /\ u.undoing = t.undoing /\ u.ok = t.ok /\ u.saved = t.saved
      /\ tx' = [tx EXCEPT ![p] = u]
  BY <1>1, <1>2, <1>4, <1>6, PassedTx
<1>8. Sound(u) /\ Applying(u)
  BY <1>5, <1>7, StillApplying
<1>9. /\ WellFormed(file) /\ stale \in BOOLEAN /\ crossed \in BOOLEAN
      /\ disk \in [{"old", "new"} -> Versions] /\ latest \in 1..MaxVersions
      /\ started \in 0..MaxTx /\ DOMAIN loaded \subseteq Items
  BY DEF ConfigInv, TypeOK
<1>10. disk' = disk /\ latest' = latest /\ started' = started /\ loaded' = loaded
  BY <1>2 DEF zonedata
<1>11. /\ stale' \in BOOLEAN /\ crossed' \in BOOLEAN /\ (crossed => crossed')
       /\ ~stale' => ~stale /\ Fresh(t, file)
       /\ ~crossed' => \A q \in Procs \ {p} : ~Holds(q, f)
  BY <1>2, <1>9 DEF Fresh
<1>12. WellFormed(file')
  <2>1. Holdable(f, t.old[f]) /\ Holdable(f, t.new[f])
    BY <1>5, TxFields DEF WellFormed
  <2>2. \A g \in Files : Holdable(g, file[g])
    BY <1>9 DEF WellFormed
  <2>3. /\ file' = [g \in Files |-> file'[g]]
        /\ file'[f] = IF t.undoing THEN t.old[f] ELSE t.new[f]
        /\ \A g \in Files \ {f} : file'[g] = file[g]
    BY <1>2, <1>9 DEF WellFormed
  <2>4. Holdable(f, file'[f])
    BY <2>1, <2>3
  <2>5. \A g \in Files : Holdable(g, file'[g])
    BY <2>2, <2>3, <2>4
  <2> QED
    BY <2>3, <2>5 DEF WellFormed
<1>13. ~crossed => f \in t.files /\ Kept(u, file', disk, latest)
  BY <1>2, <1>5, <1>7, <1>9, WriteOwn
<1>14. u # None => /\ IsTx(u) /\ Sound(u)
                   /\ Applying(u) /\ ~crossed' => Kept(u, file', disk', latest')
  BY <1>7, <1>8, <1>10, <1>11, <1>13
<1>15. ASSUME NEW q \in Procs \ {p}, tx[q] # None, Applying(tx[q]), ~crossed'
       PROVE  Kept(tx[q], file', disk', latest')
  <2>1. f \notin tx[q].files
    BY <1>11, <1>15 DEF Holds, Applies, Applying
  <2>2. IsTx(tx[q]) /\ Sound(tx[q]) /\ Kept(tx[q], file, disk, latest)
    BY <1>11, <1>15, Commands
  <2>3. \A g \in tx[q].files : file'[g] = file[g]
    BY <1>2, <1>9, <2>1, <2>2, TxFields DEF WellFormed
  <2> QED
    BY <1>10, <2>2, <2>3, WriteOther
<1>16. ZoneInv'
  <2> SUFFICES ASSUME ~crossed'
               PROVE  /\ OldLeads(file', disk, latest)
                      /\ ~stale' => NewLeads(file', disk, latest)
    BY <1>10 DEF ZoneInv, OldLeads, NewLeads, DataOf
  <2>1. ~crossed
    BY <1>11
  <2>2. OldLeads(file, disk, latest) /\ (~stale => NewLeads(file, disk, latest))
    BY <2>1 DEF ConfigInv, ZoneInv
  <2>3. /\ OldLeads(file', disk, latest)
        /\ NewLeads(file, disk, latest) /\ Fresh(t, file) => NewLeads(file', disk, latest)
    <3>1. /\ IsTx(t) /\ Sound(t) /\ Applying(t) /\ t.todo # <<>> /\ Head(t.todo) = f
          /\ f \in Files /\ f \in t.files
          /\ WellFormed(file) /\ Kept(t, file, disk, latest)
      BY <1>2, <1>5, <1>9, <1>13, <2>1
    <3>2. PICK gs : /\ gs = file'
                    /\ gs = [file EXCEPT ![f] = IF t.undoing THEN t.old[f] ELSE t.new[f]]
      BY <1>2
    <3>3. /\ OldLeads(gs, disk, latest)
          /\ NewLeads(file, disk, latest) /\ Fresh(t, file) => NewLeads(gs, disk, latest)
      BY <2>2, <3>1, <3>2, WriteZone
    <3> QED
      BY <3>2, <3>3
  <2> QED
    BY <1>11, <2>2, <2>3
<1> QED
  BY <1>7, <1>9, <1>10, <1>11, <1>12, <1>14, <1>15, <1>16, AnyStep

\* A step of the data belongs to a relocation.
LEMMA AtData ==
    ASSUME NEW t, IsTx(t), Sound(t), t.todo # <<>>,
           Head(t.todo) \in {"copy", "retire", "bring-back", "remove-copy"}
    PROVE  /\ t.kind = "relocate" /\ t.files = {"decl"}
           /\ DataOf(t.old["decl"]) = "old" /\ DataOf(t.new["decl"]) = "new"
           /\ t.undoing => Head(t.todo) \in {"bring-back", "remove-copy"} /\ t.ok
           /\ ~t.undoing => Head(t.todo) \in {"copy", "retire"}
<1>1. PICK h : h = Head(t.todo)
  OBVIOUS
<1>2. t.files \cap Steps = {} /\ h \in Steps
  BY <1>1, PlanFiles DEF Steps
<1>3. PICK s : s = Tail(t.todo) /\ s \in Seq(Files \cup Steps)
  BY TxFields, HeadTailProperties
<1>4. PICK u : u = [t EXCEPT !.todo = s]
  OBVIOUS
<1>5. /\ SamePlan(u, t) /\ u.todo = Tail(t.todo)
      /\ u.undoing = t.undoing /\ u.ok = t.ok
  BY <1>3, <1>4 DEF IsTx, SamePlan
<1>6. /\ t.undoing => h \in BackSteps(t) /\ t.ok
      /\ ~t.undoing => h \in {"dry-run"} \cup ForwardSteps(t)
  BY <1>1, <1>5, Passing
<1>7. /\ t.undoing => h \in {"bring-back", "remove-copy"} /\ t.kind = "relocate"
      /\ ~t.undoing => h \in {"copy", "retire"} /\ t.kind = "relocate"
  BY <1>1, <1>2, <1>6 DEF BackSteps, ForwardSteps
<1>8. t.kind = "relocate"
  BY <1>7
<1> QED
  BY <1>1, <1>6, <1>7, <1>8 DEF Sound, Planned

\* What a relocation does to the data keeps what it has to keep, and where the
\* declaration leads.
LEMMA MoveOwn ==
    ASSUME NEW t, IsTx(t), Sound(t), Applying(t), t.todo # <<>>,
           NEW step \in {"copy", "retire", "bring-back", "remove-copy"},
           Head(t.todo) = step,
           NEW u, SamePlan(u, t), u.todo = Tail(t.todo),
           u.undoing = t.undoing, u.ok = t.ok, u.saved = t.saved,
           NEW fs, NEW version \in 1..MaxVersions,
           NEW data \in [{"old", "new"} -> Versions], Kept(t, fs, data, version),
           OldLeads(fs, data, version),
           NEW moved,
           step = "copy" => moved = [data EXCEPT !["new"] = data["old"]],
           step = "retire" => moved = [data EXCEPT !["old"] = 0],
           step = "bring-back" => (data["old"] # 0 => moved = data),
           step = "remove-copy" => moved = [data EXCEPT !["new"] = 0]
    PROVE  /\ Kept(u, fs, moved, version)
           /\ OldLeads(fs, moved, version)
           /\ NewLeads(fs, data, version) => NewLeads(fs, moved, version)
<1>1. /\ t.kind = "relocate" /\ t.files = {"decl"}
      /\ DataOf(t.old["decl"]) = "old" /\ DataOf(t.new["decl"]) = "new"
      /\ t.undoing => step \in {"bring-back", "remove-copy"} /\ t.ok
      /\ ~t.undoing => step \in {"copy", "retire"}
      /\ t.undoing \in BOOLEAN
  BY AtData, TxFields
<1>2. /\ ~Due(u, step) /\ \A y : y # step => (Due(u, y) <=> Due(t, y))
  <2>1. Pending(u.todo) = Pending(t.todo) \ {Head(t.todo)}
    BY Passing
  <2> QED
    BY <2>1 DEF Due
<1>3. FilesKept(u, fs)
  <2>1. \A f \in t.files : Due(u, f) <=> Due(t, f)
    BY <1>1, <1>2
  <2> QED
    BY <2>1 DEF Kept, FilesKept, SamePlan
<1>4. CASE step = "copy"
  <2>1. ~t.undoing /\ "retire" \in ForwardSteps(t)
    BY <1>1, <1>4 DEF ForwardSteps
  <2>2. Due(t, "retire")
    BY <1>4, <2>1, AtForward, Ranks
  <2>3. data["old"] = version
    BY <1>1, <2>1, <2>2 DEF Kept, DataKept
  <2>4. moved["old"] = version /\ moved["new"] = version
    BY <1>4, <2>3
  <2>5. DataKept(u, fs, moved, version)
    BY <1>1, <1>2, <1>4, <2>1, <2>4 DEF Kept, DataKept, SamePlan
  <2> QED
    BY <1>3, <2>4, <2>5 DEF Kept, OldLeads, NewLeads
<1>5. CASE step = "retire"
  <2>1. ~t.undoing
    BY <1>1, <1>5
  <2>2. ~Due(t, "decl")
    BY <1>5, <2>1, BeforeHead, Ranks DEF Way
  <2>3. DataOf(fs["decl"]) = "new"
    BY <1>1, <2>1, <2>2 DEF Kept, FilesKept
  <2>4. moved["new"] = data["new"]
    BY <1>5
  <2>5. DataKept(u, fs, moved, version)
    BY <1>1, <1>2, <1>5, <2>1, <2>4 DEF Kept, DataKept, SamePlan
  <2> QED
    BY <1>3, <2>3, <2>4, <2>5 DEF Kept, OldLeads, NewLeads
<1>6. CASE step = "bring-back"
  <2>1. t.undoing
    BY <1>1, <1>6
  <2>2. data["old"] = version /\ version # 0
    BY <1>1, <2>1 DEF Kept, DataKept
  <2>3. moved = data
    BY <1>6, <2>2
  <2>4. DataKept(u, fs, moved, version)
    BY <1>1, <1>2, <1>6, <2>1, <2>3 DEF Kept, DataKept, SamePlan
  <2> QED
    BY <1>3, <2>3, <2>4 DEF Kept, OldLeads, NewLeads
<1>7. CASE step = "remove-copy"
  <2>1. t.undoing /\ t.ok
    BY <1>1, <1>7
  <2>2. ~Due(t, "decl")
    BY <1>7, <2>1, BeforeHead, Ranks DEF Way
  <2>3. DataOf(fs["decl"]) = "old"
    BY <1>1, <2>1, <2>2 DEF Kept, FilesKept
  <2>4. moved["old"] = data["old"] /\ moved["new"] = 0
    BY <1>7
  <2>5. DataKept(u, fs, moved, version)
    BY <1>1, <1>2, <1>7, <2>1, <2>4 DEF Kept, DataKept, SamePlan
  <2> QED
    BY <1>3, <2>3, <2>4, <2>5 DEF Kept, OldLeads, NewLeads
<1> QED
  BY <1>4, <1>5, <1>6, <1>7

\* The data is copied, retired or put back.
LEMMA MoveStep ==
    ASSUME ConfigInv, NEW p \in Procs, Move(p)
    PROVE  ConfigInv'
<1>1. PICK t : t = tx[p]
  OBVIOUS
<1>2. /\ Passed(p)
      /\ crossed' = (crossed \/ \E q \in Procs \ {p} : Relocates(q))
      /\ UNCHANGED <<file, loaded, latest, started, stale>>
  BY DEF Move
<1>3. PICK step \in {"copy", "retire", "bring-back", "remove-copy"} : DataStep(p, step)
  BY DEF Move
<1>4. At(p, step)
  BY <1>3 DEF DataStep
<1>5. /\ step = "copy" => disk' = [disk EXCEPT !["new"] = disk["old"]]
      /\ step = "retire" => disk' = [disk EXCEPT !["old"] = 0]
      /\ step = "bring-back" =>
            disk' = IF disk["old"] = 0 THEN [disk EXCEPT !["old"] = t.saved] ELSE disk
      /\ step = "remove-copy" => disk' = [disk EXCEPT !["new"] = 0]
  BY <1>1, <1>3 DEF DataStep
<1>6. tx[p] # None /\ tx[p].todo # <<>> /\ Head(tx[p].todo) = step /\ Applying(tx[p])
  BY <1>3, <1>4, AtStep
<1>7. /\ t # None /\ t.todo # <<>> /\ Head(t.todo) = step /\ Applying(t)
      /\ IsTx(t) /\ Sound(t) /\ (~crossed => Kept(t, file, disk, latest))
  BY <1>1, <1>6, Commands
<1>8. PICK u : u = [tx[p] EXCEPT !.todo = Tail(@)]
  OBVIOUS
<1>9. /\ IsTx(u) /\ SamePlan(u, t) /\ u.todo = Tail(t.todo)
      /\ u.undoing = t.undoing /\ u.ok = t.ok /\ u.saved = t.saved
      /\ tx' = [tx EXCEPT ![p] = u]
  BY <1>1, <1>2, <1>6, <1>8, PassedTx
<1>10. Sound(u) /\ Applying(u)
  BY <1>7, <1>9, StillApplying
<1>11. /\ WellFormed(file) /\ stale \in BOOLEAN /\ crossed \in BOOLEAN
       /\ disk \in [{"old", "new"} -> Versions] /\ latest \in 1..MaxVersions
       /\ started \in 0..MaxTx /\ DOMAIN loaded \subseteq Items
  BY DEF ConfigInv, TypeOK
<1>12. /\ file' = file /\ latest' = latest /\ started' = started /\ loaded' = loaded
       /\ stale' = stale
  BY <1>2
<1>13. /\ crossed' \in BOOLEAN /\ (crossed => crossed')
       /\ ~crossed' => \A q \in Procs \ {p} : ~Relocates(q)
  BY <1>2, <1>11
<1>14. disk' \in [{"old", "new"} -> Versions]
  <2>1. t.saved \in Versions /\ 0 \in Versions
    BY <1>7, TxFields, ConfigAssumption DEF Versions
  <2> QED
    BY <1>3, <1>5, <1>11, <2>1
<1>15. ASSUME ~crossed
       PROVE  /\ Kept(u, file, disk', latest) /\ OldLeads(file, disk', latest)
              /\ NewLeads(file, disk, latest) => NewLeads(file, disk', latest)
  <2>1. OldLeads(file, disk, latest)
    BY <1>15 DEF ConfigInv, ZoneInv
  <2>2. PICK moved : moved = disk'
    OBVIOUS
  <2>3. /\ step = "copy" => moved = [disk EXCEPT !["new"] = disk["old"]]
        /\ step = "retire" => moved = [disk EXCEPT !["old"] = 0]
        /\ step = "bring-back" => (disk["old"] # 0 => moved = disk)
        /\ step = "remove-copy" => moved = [disk EXCEPT !["new"] = 0]
    BY <1>5, <2>2
  <2>4. Kept(t, file, disk, latest)
    BY <1>7, <1>15
  <2>5. /\ Kept(u, file, moved, latest) /\ OldLeads(file, moved, latest)
        /\ NewLeads(file, disk, latest) => NewLeads(file, moved, latest)
    BY ZenonT(60), <1>3, <1>7, <1>9, <1>11, <2>1, <2>3, <2>4, MoveOwn
  <2> QED
    BY <2>2, <2>5
<1>16. u # None => /\ IsTx(u) /\ Sound(u)
                   /\ Applying(u) /\ ~crossed' => Kept(u, file', disk', latest')
  BY <1>9, <1>10, <1>12, <1>13, <1>15
<1>17. ASSUME NEW q \in Procs \ {p}, tx[q] # None, Applying(tx[q]), ~crossed'
       PROVE  Kept(tx[q], file', disk', latest')
  <2>1. tx[q].kind # "relocate"
    BY <1>13, <1>17 DEF Relocates, Applies, Applying
  <2>2. Kept(tx[q], file, disk, latest)
    BY <1>13, <1>17, Commands
  <2> QED
    BY <1>12, <2>1, <2>2 DEF Kept, DataKept
<1>18. ZoneInv'
  <2> SUFFICES ASSUME ~crossed'
               PROVE  /\ OldLeads(file, disk', latest)
                      /\ ~stale => NewLeads(file, disk', latest)
    BY <1>12 DEF ZoneInv, OldLeads, NewLeads, DataOf
  <2>1. ~stale => NewLeads(file, disk, latest)
    BY <1>13 DEF ConfigInv, ZoneInv
  <2> QED
    BY <1>13, <1>15, <2>1
<1> QED
  BY <1>9, <1>11, <1>12, <1>13, <1>14, <1>16, <1>17, <1>18, AnyStep

(* The zone's data is edited ***********************************************)

\* Where a file that declares the zone may lead.
LEMMA ZonePlaces ==
    ASSUME NEW fs, WellFormed(fs), NEW f \in Places(fs, "zone")
    PROVE  /\ f \in {"local", "decl"} /\ fs[f] # None /\ "zone" \in DOMAIN fs[f]
           /\ fs[f]["zone"] \in Definitions /\ DataOf(fs[f]) = fs[f]["zone"].data
           /\ DataOf(fs[f]) \in {"old", "new"} /\ (f = "local" => DataOf(fs[f]) = "old")
<1>1. f \in Files /\ fs[f] # None /\ "zone" \in DOMAIN fs[f]
  BY DEF Places, Included
<1>2. /\ f \in {"local", "decl"} /\ fs[f]["zone"] \in Definitions
      /\ f = "local" => fs[f]["zone"].data = "old"
  BY <1>1 DEF WellFormed, Holdable
<1> QED
  BY <1>1, <1>2 DEF DataOf, Definitions

\* A command that has no copy of the data still has its backup to make.
LEMMA EditKept ==
    ASSUME NEW t, IsTx(t), Sound(t), t.saved = 0,
           NEW fs, NEW data, NEW version, Kept(t, fs, data, version),
           NEW edited, NEW later,
           DataOf(fs["decl"]) = "old" =>
              edited["old"] = later /\ edited["new"] = data["new"]
    PROVE  Kept(t, fs, edited, later)
<1>1. t.kind # "relocate" => DataKept(t, fs, edited, later)
  BY DEF DataKept
<1>2. ASSUME t.kind = "relocate" PROVE DataKept(t, fs, edited, later)
  <2>1. fs["decl"] = t.old["decl"] /\ DataOf(t.old["decl"]) = "old"
    BY <1>2 DEF Kept, DataKept, Sound, Planned
  <2>2. edited["old"] = later /\ edited["new"] = data["new"]
    BY <2>1
  <2>3. ~t.undoing => Due(t, "backup")
    BY <1>2 DEF Kept, DataKept
  <2>4. ~t.undoing => Due(t, "copy")
    <3>1. /\ "copy" \in ForwardSteps(t)
          /\ Rank("forward", "backup") < Rank("forward", "copy")
      BY <1>2, Ranks DEF ForwardSteps
    <3> QED
      BY <2>3, <3>1 DEF Sound, Scripted, Due
  <2> QED
    BY <1>2, <2>1, <2>2, <2>3, <2>4 DEF Kept, DataKept
<1> QED
  BY <1>1, <1>2 DEF Kept

\* The zone's data is replaced by a newer version.
LEMMA EditStep ==
    ASSUME ConfigInv, EditZone
    PROVE  ConfigInv'
<1>1. /\ WellFormed(file) /\ stale \in BOOLEAN /\ crossed \in BOOLEAN
      /\ disk \in [{"old", "new"} -> Versions] /\ latest \in 1..MaxVersions
      /\ tx = [p \in Procs |-> tx[p]] /\ \A p \in Procs : tx[p] # None => IsTx(tx[p])
      /\ started \in 0..MaxTx /\ DOMAIN loaded \subseteq Items
  BY DEF ConfigInv, TypeOK
<1>2. PICK f \in Places(file, "zone") :
         disk' = [disk EXCEPT ![file[f]["zone"].data] = latest + 1]
  BY DEF EditZone
<1>3. /\ latest < MaxVersions /\ latest' = latest + 1
      /\ crossed' = (crossed \/ \E p \in Procs : tx[p] # None /\ tx[p].saved # 0)
      /\ file' = file /\ loaded' = loaded /\ tx' = tx /\ started' = started
      /\ stale' = stale
  BY DEF EditZone
<1>4. /\ crossed' \in BOOLEAN /\ (crossed => crossed')
      /\ ~crossed' => \A p \in Procs : tx[p] # None => tx[p].saved = 0
  BY <1>1, <1>3
<1>5. PICK path : /\ path = DataOf(file[f]) /\ path \in {"old", "new"}
                  /\ f = "local" => path = "old"
                  /\ f \in {"local", "decl"} /\ disk' = [disk EXCEPT ![path] = latest + 1]
  BY <1>1, <1>2, ZonePlaces
<1>6. /\ latest' \in 1..MaxVersions /\ latest' \in Versions
  BY <1>1, <1>3, ConfigAssumption DEF Versions
<1>7. /\ disk' \in [{"old", "new"} -> Versions] /\ disk'[path] = latest'
      /\ path = "old" => disk'["new"] = disk["new"]
  BY <1>1, <1>3, <1>5, <1>6
<1>8. DataOf(file["decl"]) # "new" => path = "old"
  BY <1>5
<1>9. ASSUME NEW q \in Procs, tx[q] # None, Applying(tx[q]), ~crossed'
      PROVE  Kept(tx[q], file, disk', latest')
  <2>1. /\ IsTx(tx[q]) /\ Sound(tx[q]) /\ tx[q].saved = 0
        /\ Kept(tx[q], file, disk, latest)
    BY <1>4, <1>9, Commands
  <2>2. PICK edited, later : edited = disk' /\ later = latest'
    OBVIOUS
  <2>3. DataOf(file["decl"]) = "old" => edited["old"] = later /\ edited["new"] = disk["new"]
    BY <1>7, <1>8, <2>2
  <2>4. Kept(tx[q], file, edited, later)
    BY <2>1, <2>3, EditKept
  <2> QED
    BY <2>2, <2>4
<1>10. CommandInv'
  BY <1>3, <1>9 DEF CommandInv, ConfigInv
<1>11. TypeOK'
  BY <1>1, <1>3, <1>4, <1>6, <1>7 DEF TypeOK, WellFormed
<1>12. ASSUME ~crossed'
       PROVE  /\ OldLeads(file, disk', latest')
              /\ ~stale => NewLeads(file, disk', latest')
  <2>1. OldLeads(file, disk', latest')
    BY <1>7, <1>8 DEF OldLeads
  <2>2. ASSUME ~stale, DataOf(file["decl"]) = "new"
        PROVE  disk'["new"] = latest' /\ DataOf(file["local"]) = "nowhere"
    <3>1. DataOf(file["local"]) = "nowhere"
      BY <1>4, <1>12, <2>2 DEF ConfigInv, ZoneInv, NewLeads
    <3>2. f = "decl"
      BY <1>5, <3>1
    <3> QED
      BY <1>5, <1>7, <2>2, <3>1, <3>2
  <2> QED
    BY <2>1, <2>2 DEF NewLeads
<1>13. ZoneInv'
  BY <1>3, <1>12 DEF ZoneInv, OldLeads, NewLeads, DataOf
<1> QED
  BY <1>10, <1>11, <1>13 DEF ConfigInv

(* Plans *******************************************************************)

\* A command that has only been planned.
Planning(t) == IsTx(t) /\ Sound(t) /\ ~Applying(t)

\* A forward script that has its first steps to do starts with one of them.
LEMMA FirstStep ==
    ASSUME NEW S, NEW s \in Seq(S), Ordered("forward", s),
           NEW x \in {"dry-run", "preflight"}, x \in Pending(s)
    PROVE  s # <<>> /\ Head(s) \in {"dry-run", "preflight"}
<1>1. s # <<>>
  BY NothingDue
<1>2. /\ Pending(Tail(s)) = Pending(s) \ {Head(s)}
      /\ \A y \in Pending(Tail(s)) : Rank("forward", Head(s)) < Rank("forward", y)
  BY <1>1, TailScript, Directions
<1> SUFFICES ASSUME Head(s) \notin {"dry-run", "preflight"} PROVE FALSE
  BY <1>1
<1>3. Rank("forward", Head(s)) < Rank("forward", x)
  BY <1>2
<1>4. Rank("forward", Head(s)) \in 3..12 /\ Rank("forward", x) \in 1..2
  BY Ranks
<1> QED
  BY <1>3, <1>4

\* A plan with the whole script of its kind before it is a sound command, shown
\* first or not.
LEMMA NewTxPlanning ==
    ASSUME ConfigInv, NEW kind \in Kinds, NEW files \in SUBSET Files, NEW new,
           WellFormed(new), NEW script \in Seq(Files \cup Steps),
           Ordered("forward", script), NEW t, t = NewTx(kind, files, new, script),
           Pending(script) = ForwardSteps(t), Planned(t)
    PROVE  Planning(t) /\ Planning([t EXCEPT !.todo = <<"dry-run">> \o @])
<1>1. WellFormed(file) /\ 0 \in Versions
  BY ConfigAssumption DEF ConfigInv, TypeOK, Versions
<1>2. /\ IsTx(t) /\ t.todo = script /\ ~t.undoing /\ t.ok /\ t.saved = 0
      /\ t.undoing \in BOOLEAN /\ t.files = files
  BY <1>1 DEF NewTx, IsTx
<1>3. PICK s : s = <<"dry-run">> \o script
  OBVIOUS
<1>4. files \cap Steps = {} /\ "dry-run" \in Steps
  BY FileNames DEF Steps
<1>5. "dry-run" \notin Pending(script) /\ "preflight" \in Pending(script)
  BY <1>2, <1>4 DEF ForwardSteps
<1>6. /\ s \in Seq(Files \cup Steps) /\ Ordered("forward", s)
      /\ Pending(s) = {"dry-run"} \cup Pending(script)
  BY <1>3, <1>5, ShownScript
<1>7. PICK u : u = [t EXCEPT !.todo = s]
  OBVIOUS
<1>8. /\ IsTx(u) /\ SamePlan(u, t) /\ u.todo = s
      /\ u.undoing = t.undoing /\ u.ok = t.ok /\ u.saved = t.saved
  BY <1>2, <1>6, <1>7 DEF IsTx, SamePlan
<1>9. Planned(u) /\ ForwardSteps(u) = ForwardSteps(t)
  BY <1>8, PlanStays
<1>10. Way(t) = "forward" /\ Way(u) = "forward"
  BY <1>2, <1>8 DEF Way
<1>11. Scripted(t) /\ Scripted(u)
  <2>1. \A y \in ForwardSteps(t) : Due(t, y) /\ Due(u, y)
    BY <1>2, <1>6, <1>8 DEF Due
  <2> QED
    BY <1>2, <1>6, <1>8, <1>9, <1>10, <2>1 DEF Scripted
<1>12. ~Applying(t) /\ ~Applying(u)
  <2>1. script # <<>> /\ Head(script) \in {"dry-run", "preflight"}
    BY <1>5, FirstStep
  <2>2. s # <<>> /\ Head(s) \in {"dry-run", "preflight"}
    BY <1>6, FirstStep
  <2> QED
    BY <1>2, <1>8, <2>1, <2>2 DEF Applying
<1>13. u = [t EXCEPT !.todo = <<"dry-run">> \o @]
  BY <1>2, <1>3, <1>7 DEF IsTx
<1> QED
  BY <1>2, <1>8, <1>9, <1>11, <1>12, <1>13 DEF Planning, Sound

\* A file that is there defines its items by values.
LEMMA Defined ==
    ASSUME NEW items \in SUBSET Items, NEW g, g \in [items -> Values]
    PROVE  g # None
BY NoneAssumption

\* Other entries for a list in the file that defines it.
LEMMA SetList ==
    ASSUME NEW fs, WellFormed(fs), NEW l \in Lists, NEW entries \in SUBSET (Hosts \cup Lists)
    PROVE  LET gs == SetItem(fs, Home[l], l, entries) IN
           /\ WellFormed(gs)
           /\ \A f \in Files \ {Home[l]} : gs[f] = fs[f]
           /\ gs[Home[l]] # None /\ fs[Home[l]] # None
           /\ l \in DOMAIN fs[Home[l]] /\ DOMAIN gs[Home[l]] = DOMAIN fs[Home[l]]
           /\ gs[Home[l]][l] = entries
           /\ \A i \in DOMAIN fs[Home[l]] \ {l} : gs[Home[l]][i] = fs[Home[l]][i]
           /\ DataOf(gs[Home[l]]) = DataOf(fs[Home[l]])
<1>1. PICK h : h = Home[l] /\ h \in Files \ {"decl"}
  BY FileNames
<1>2. fs = [f \in Files |-> fs[f]] /\ \A f \in Files : Holdable(f, fs[f])
  BY DEF WellFormed
<1>3. PICK g : g = fs[h] /\ g # None /\ Holdable(h, g)
  BY <1>1, <1>2 DEF Holdable
<1>4. /\ DOMAIN g \subseteq Items /\ g = [i \in DOMAIN g |-> g[i]]
      /\ l \in DOMAIN g
  BY <1>1, <1>3 DEF Holdable
<1>5. PICK k : k = [i \in DOMAIN g |-> IF i = l THEN entries ELSE g[i]]
  OBVIOUS
<1>6. /\ DOMAIN k = DOMAIN g /\ k = [i \in DOMAIN k |-> k[i]]
      /\ k[l] = entries /\ \A i \in DOMAIN g \ {l} : k[i] = g[i]
  BY <1>4, <1>5
<1>7. l # "zone" /\ l # "include"
  BY FileNames
<1>8. k # None
  <2>1. \A i \in DOMAIN g : g[i] \in Values
    BY <1>3, <1>4 DEF Holdable, Values, Items
  <2>2. entries \in Values
    BY DEF Values
  <2>3. k \in [DOMAIN g -> Values]
    BY <1>5, <2>1, <2>2
  <2> QED
    BY <1>4, <2>3, Defined
<1>9. Holdable(h, k)
  BY <1>1, <1>3, <1>6, <1>7, <1>8 DEF Holdable
<1>10. PICK gs : gs = SetItem(fs, Home[l], l, entries)
  OBVIOUS
<1>11. gs[h] = k /\ gs = [f \in Files |-> gs[f]] /\ \A f \in Files \ {h} : gs[f] = fs[f]
  <2>1. DOMAIN g \union {l} = DOMAIN g
    BY <1>4
  <2>2. gs = [fs EXCEPT ![h] = k]
    BY <1>1, <1>3, <1>5, <1>10, <2>1 DEF SetItem
  <2> QED
    BY <1>1, <1>2, <2>2
<1>12. WellFormed(gs)
  <2>1. \A f \in Files : Holdable(f, gs[f])
    BY <1>2, <1>9, <1>11
  <2> QED
    BY <1>11, <2>1 DEF WellFormed
<1>13. DataOf(k) = DataOf(g)
  BY <1>3, <1>6, <1>7, <1>8 DEF DataOf
<1> QED
  BY <1>1, <1>3, <1>4, <1>6, <1>8, <1>10, <1>11, <1>12, <1>13

\* Another clause for the zone in a file that declares it.
LEMMA SetClause ==
    ASSUME NEW fs, WellFormed(fs), NEW f \in Places(fs, "zone"),
           NEW clause \in Definitions, f = "local" => clause.data = "old"
    PROVE  LET gs == SetItem(fs, f, "zone", clause) IN
           /\ WellFormed(gs) /\ f \in Files
           /\ \A g \in Files \ {f} : gs[g] = fs[g]
           /\ DataOf(gs[f]) = clause.data
<1>1. /\ f \in Files /\ fs[f] # None /\ "zone" \in DOMAIN fs[f] /\ f \in {"local", "decl"}
  BY ZonePlaces DEF Places, Included
<1>2. fs = [g \in Files |-> fs[g]] /\ \A g \in Files : Holdable(g, fs[g])
  BY DEF WellFormed
<1>3. PICK g : g = fs[f] /\ g # None /\ Holdable(f, g)
  BY <1>1, <1>2
<1>4. /\ DOMAIN g \subseteq Items /\ g = [i \in DOMAIN g |-> g[i]]
      /\ "zone" \in DOMAIN g
  BY <1>1, <1>3 DEF Holdable
<1>5. PICK k : k = [i \in DOMAIN g |-> IF i = "zone" THEN clause ELSE g[i]]
  OBVIOUS
<1>6. /\ DOMAIN k = DOMAIN g /\ k = [i \in DOMAIN k |-> k[i]]
      /\ k["zone"] = clause /\ \A i \in DOMAIN g \ {"zone"} : k[i] = g[i]
  BY <1>4, <1>5
<1>7. "zone" \notin Lists
  BY FileNames
<1>8. k # None
  <2>1. \A i \in DOMAIN g : g[i] \in Values
    BY <1>3, <1>4 DEF Holdable, Values, Items
  <2>2. clause \in Values
    BY DEF Values
  <2>3. k \in [DOMAIN g -> Values]
    BY <1>5, <2>1, <2>2
  <2> QED
    BY <1>4, <2>3, Defined
<1>9. Holdable(f, k)
  BY <1>1, <1>3, <1>6, <1>7, <1>8 DEF Holdable
<1>10. PICK gs : gs = SetItem(fs, f, "zone", clause)
  OBVIOUS
<1>11. gs[f] = k /\ gs = [h \in Files |-> gs[h]] /\ \A h \in Files \ {f} : gs[h] = fs[h]
  <2>1. DOMAIN g \union {"zone"} = DOMAIN g
    BY <1>4
  <2>2. gs = [fs EXCEPT ![f] = k]
    BY <1>3, <1>5, <1>10, <2>1 DEF SetItem
  <2> QED
    BY <1>1, <1>2, <2>2
<1>12. WellFormed(gs)
  <2>1. \A h \in Files : Holdable(h, gs[h])
    BY <1>2, <1>9, <1>11
  <2> QED
    BY <1>11, <2>1 DEF WellFormed
<1>13. DataOf(k) = clause.data
  BY <1>4, <1>6, <1>8 DEF DataOf
<1> QED
  BY <1>1, <1>10, <1>11, <1>12, <1>13

\* The clause of named.conf.local moves to its declaration.
LEMMA Declaring ==
    ASSUME NEW fs, WellFormed(fs), "zone" \in DOMAIN fs["local"]
    PROVE  LET gs == Declared(fs) IN
           /\ WellFormed(gs)
           /\ \A f \in Files \ {"decl", "local", "index"} : gs[f] = fs[f]
           /\ DataOf(gs["decl"]) = "old" /\ DataOf(gs["local"]) = "nowhere"
<1>1. {"local", "index", "decl"} \subseteq Files /\ "zone" \notin Lists /\ "include" \notin Lists
  BY FileNames
<1>2. fs = [f \in Files |-> fs[f]] /\ \A f \in Files : Holdable(f, fs[f])
  BY DEF WellFormed
<1>3. PICK b : b = fs["local"] /\ b # None /\ Holdable("local", b) /\ "zone" \in DOMAIN b
  BY <1>1, <1>2 DEF Holdable
<1>4. PICK c : c = fs["index"] /\ c # None /\ Holdable("index", c)
  BY <1>1, <1>2 DEF Holdable
<1>5. PICK a1, b1, c1 :
         /\ a1 = [i \in {"zone"} |-> b[i]]
         /\ b1 = [i \in DOMAIN b \ {"zone"} |-> b[i]]
         /\ c1 = [i \in DOMAIN c \union {"include"} |-> IF i = "include" THEN TRUE ELSE c[i]]
  OBVIOUS
<1>6. PICK gs : gs = Declared(fs)
  OBVIOUS
<1>7. gs = [[[fs EXCEPT !["decl"] = a1] EXCEPT !["local"] = b1] EXCEPT !["index"] = c1]
  <2>1. PICK f1 : f1 = [fs EXCEPT !["decl"] = a1] /\ f1["local"] = b /\ f1["index"] = c
                  /\ f1 = [f \in Files |-> f1[f]]
    BY ZenonT(60), <1>1, <1>2, <1>3, <1>4
  <2>2. PICK f2 : f2 = [f1 EXCEPT !["local"] = b1] /\ f2["index"] = c
                  /\ f2 = [f \in Files |-> f2[f]]
    <3>1. PICK f2 : f2 = [f1 EXCEPT !["local"] = b1]
      OBVIOUS
    <3>2. f2["index"] = c /\ f2 = [f \in Files |-> f2[f]]
      BY <1>1, <2>1, <3>1
    <3> QED
      BY <3>1, <3>2
  <2>3. f1 = [fs EXCEPT !["decl"] = Restrict(fs["local"], {"zone"})]
    BY <1>3, <1>5, <2>1 DEF Restrict
  <2>4. f2 = DropItem(f1, "local", "zone")
    BY <1>5, <2>1, <2>2 DEF DropItem, Restrict
  <2>5. gs = SetItem(f2, "index", "include", TRUE)
    BY <1>6, <2>3, <2>4 DEF Declared
  <2>6. SetItem(f2, "index", "include", TRUE) = [f2 EXCEPT !["index"] = c1]
    BY <1>5, <2>2 DEF SetItem
  <2> QED
    BY <2>1, <2>2, <2>5, <2>6
<1>8. /\ gs = [f \in Files |-> gs[f]]
      /\ gs["decl"] = a1 /\ gs["local"] = b1 /\ gs["index"] = c1
      /\ \A f \in Files \ {"decl", "local", "index"} : gs[f] = fs[f]
  BY <1>1, <1>2, <1>7
<1>9. /\ b["zone"] \in Definitions /\ b["zone"].data = "old"
      /\ DOMAIN b \subseteq Items /\ DOMAIN c \subseteq Items
      /\ \A i \in DOMAIN b : b[i] \in Values
      /\ \A i \in DOMAIN c : c[i] \in Values
  BY <1>3, <1>4 DEF Holdable, Values, Items
<1>10. {"zone", "include"} \subseteq Items /\ TRUE \in Values
  BY DEF Items, Values
<1>11. a1 # None /\ b1 # None /\ c1 # None
  <2>1. a1 \in [{"zone"} -> Values]
    BY <1>3, <1>5, <1>9
  <2>2. b1 \in [DOMAIN b \ {"zone"} -> Values]
    BY <1>5, <1>9
  <2>3. c1 \in [DOMAIN c \union {"include"} -> Values]
    BY <1>5, <1>9, <1>10
  <2>4. {"zone"} \in SUBSET Items
    BY <1>10
  <2>5. DOMAIN b \ {"zone"} \in SUBSET Items
    BY <1>9
  <2>6. DOMAIN c \union {"include"} \in SUBSET Items
    BY <1>9, <1>10
  <2>7. a1 # None
    BY <2>1, <2>4, Defined
  <2>8. b1 # None
    BY <2>2, <2>5, Defined
  <2>9. c1 # None
    BY <2>3, <2>6, Defined
  <2> QED
    BY <2>7, <2>8, <2>9
<1>12. Holdable("decl", a1)
  <2>1. /\ DOMAIN a1 = {"zone"} /\ a1["zone"] = b["zone"] /\ a1 = [i \in DOMAIN a1 |-> a1[i]]
    BY <1>5
  <2>2. \A l \in Lists : Home[l] # "decl"
    BY FileNames
  <2> QED
    BY <1>1, <1>9, <1>10, <1>11, <2>1, <2>2 DEF Holdable
<1>13. Holdable("local", b1)
  <2>1. /\ DOMAIN b1 = DOMAIN b \ {"zone"} /\ b1 = [i \in DOMAIN b1 |-> b1[i]]
        /\ \A i \in DOMAIN b1 : b1[i] = b[i]
    BY <1>5
  <2> QED
    BY <1>1, <1>3, <1>9, <1>11, <2>1 DEF Holdable
<1>14. Holdable("index", c1)
  <2>1. /\ DOMAIN c1 = DOMAIN c \union {"include"} /\ c1 = [i \in DOMAIN c1 |-> c1[i]]
        /\ c1["include"] = TRUE
        /\ \A i \in DOMAIN c \ {"include"} : c1[i] = c[i]
    BY <1>5
  <2> QED
    BY <1>1, <1>4, <1>9, <1>10, <1>11, <2>1 DEF Holdable
<1>15. WellFormed(gs)
  <2>1. \A f \in Files : Holdable(f, gs[f])
    BY <1>2, <1>8, <1>12, <1>13, <1>14
  <2> QED
    BY <1>8, <2>1 DEF WellFormed
<1>16. DataOf(a1) = "old" /\ DataOf(b1) = "nowhere"
  BY <1>5, <1>9, <1>11 DEF DataOf
<1> QED
  BY <1>6, <1>8, <1>15, <1>16

\* The plans of lists and groups.
LEMMA ListPlan ==
    ASSUME ConfigInv, NEW kind \in {"acl", "group"}, NEW l \in Lists,
           NEW edits \in SUBSET Edits[l], NEW t \in EntriesPlans(kind, l, edits)
    PROVE  Planning(t) /\ Planning([t EXCEPT !.todo = <<"dry-run">> \o @])
<1>1. WellFormed(file) /\ kind \in Kinds
  BY DEF ConfigInv, TypeOK, Kinds
<1>2. PICK entries \in edits :
        /\ t = NewTx(kind, {Home[l]}, SetItem(file, Home[l], l, entries), ListScript(Home[l]))
        /\ ~High(Config(file), l, entries)
        /\ CheckConf(SetItem(file, Home[l], l, entries))
  BY DEF EntriesPlans
<1>3. entries \in SUBSET (Hosts \cup Lists)
  BY ConfigAssumption
<1>4. PICK h : h = Home[l] /\ h \in Files
  BY FileNames
<1>5. PICK new : new = SetItem(file, h, l, entries)
  OBVIOUS
<1>6. /\ WellFormed(new) /\ \A f \in Files \ {h} : new[f] = file[f]
      /\ DataOf(new[h]) = DataOf(file[h])
  BY <1>1, <1>3, <1>4, <1>5, SetList
<1>7. PICK script : /\ script = ListScript(h) /\ script \in Seq(Files \cup Steps)
                    /\ Ordered("forward", script)
                    /\ Pending(script) = {"preflight", h, "checkconf", "reconfig", "verify"}
  BY <1>4, ListScripts
<1>8. PICK files : files = {h} /\ files \in SUBSET Files
  BY <1>4
<1>9. t = NewTx(kind, files, new, script)
  BY <1>2, <1>4, <1>5, <1>7, <1>8
<1>10. t.kind = kind /\ t.files = files /\ t.old = file /\ t.new = new
  BY <1>9 DEF NewTx
<1>11. Planned(t)
  <2>1. ~High(Config(t.old), l, entries) /\ CheckConf(t.new)
    BY <1>2, <1>4, <1>5, <1>10
  <2>2. t.files = {Home[l]} /\ t.new = SetItem(t.old, Home[l], l, entries)
    BY <1>4, <1>5, <1>8, <1>10
  <2> QED
    BY <1>3, <1>4, <1>6, <1>8, <1>10, <2>1, <2>2 DEF Planned
<1>12. Pending(script) = ForwardSteps(t)
  BY <1>7, <1>8, <1>10 DEF ForwardSteps
<1> QED
  BY <1>1, <1>6, <1>7, <1>8, <1>9, <1>11, <1>12, NewTxPlanning

\* The plan of the groups of the zone.
LEMMA AssignPlan ==
    ASSUME ConfigInv, NEW t \in AssignPlans
    PROVE  Planning(t) /\ Planning([t EXCEPT !.todo = <<"dry-run">> \o @])
<1>1. WellFormed(file) /\ "assign" \in Kinds
  BY DEF ConfigInv, TypeOK, Kinds
<1>2. Places(file, "zone") # {}
  BY DEF AssignPlans
<1>3. PICK f : f = ZoneFile /\ f \in Places(file, "zone")
  BY <1>2 DEF ZoneFile
<1>4. PICK clause : \E uses \in SUBSET Lists :
        /\ clause = [Config(file)["zone"] EXCEPT !.uses = uses]
        /\ t = NewTx("assign", {f}, SetItem(file, f, "zone", clause), ListScript(f))
  BY <1>2, <1>3 DEF AssignPlans
<1>4b. PICK uses \in SUBSET Lists :
        /\ clause = [Config(file)["zone"] EXCEPT !.uses = uses]
        /\ t = NewTx("assign", {f}, SetItem(file, f, "zone", clause), ListScript(f))
  BY <1>4
<1>5. /\ f \in Files /\ f \in {"local", "decl"} /\ file[f]["zone"] \in Definitions
      /\ DataOf(file[f]) = file[f]["zone"].data /\ (f = "local" => DataOf(file[f]) = "old")
  BY <1>1, <1>3, ZonePlaces, FileNames
<1>6. Config(file)["zone"] = file[f]["zone"]
  <2>1. "zone" \in {i \in Items : Places(file, i) # {}}
    BY <1>2 DEF Items
  <2> QED
    BY <1>3, <2>1 DEF Config, ZoneFile
<1>7. clause \in Definitions /\ clause.data = DataOf(file[f])
  BY <1>4b, <1>5, <1>6 DEF Definitions
<1>8. PICK new : new = SetItem(file, f, "zone", clause)
  OBVIOUS
<1>9. /\ WellFormed(new) /\ \A g \in Files \ {f} : new[g] = file[g]
      /\ DataOf(new[f]) = DataOf(file[f])
  <2>1. f = "local" => clause.data = "old"
    BY <1>5, <1>7
  <2>2. /\ WellFormed(new) /\ \A g \in Files \ {f} : new[g] = file[g]
        /\ DataOf(new[f]) = clause.data
    BY <1>1, <1>3, <1>7, <1>8, <2>1, SetClause
  <2> QED
    BY <1>7, <2>2
<1>10. PICK script : /\ script = ListScript(f) /\ script \in Seq(Files \cup Steps)
                     /\ Ordered("forward", script)
                     /\ Pending(script) = {"preflight", f, "checkconf", "reconfig", "verify"}
  BY <1>5, ListScripts
<1>11. PICK files : files = {f} /\ files \in SUBSET Files
  BY <1>5
<1>12. t = NewTx("assign", files, new, script)
  BY <1>4b, <1>8, <1>10, <1>11
<1>13. t.kind = "assign" /\ t.files = files /\ t.old = file /\ t.new = new
  BY <1>12 DEF NewTx
<1>14. Planned(t)
  BY <1>5, <1>9, <1>11, <1>13 DEF Planned
<1>15. Pending(script) = ForwardSteps(t)
  BY <1>10, <1>11, <1>13 DEF ForwardSteps
<1> QED
  BY <1>1, <1>9, <1>10, <1>11, <1>12, <1>14, <1>15, NewTxPlanning

\* The plan of a migration.
LEMMA MigratePlan ==
    ASSUME ConfigInv, NEW t \in MigratePlans
    PROVE  Planning(t) /\ Planning([t EXCEPT !.todo = <<"dry-run">> \o @])
<1>1. WellFormed(file) /\ "migrate" \in Kinds
  BY DEF ConfigInv, TypeOK, Kinds
<1>2. /\ Places(file, "zone") = {"local"} /\ file["decl"] = None
      /\ t = NewTx("migrate", {"decl", "local", "index"}, Declared(file), MigrateScript)
  BY DEF MigratePlans, ZoneAt
<1>3. "zone" \in DOMAIN file["local"]
  BY <1>2 DEF Places
<1>4. PICK new : new = Declared(file)
  OBVIOUS
<1>5. /\ WellFormed(new)
      /\ \A f \in Files \ {"decl", "local", "index"} : new[f] = file[f]
      /\ DataOf(new["decl"]) = "old" /\ DataOf(new["local"]) = "nowhere"
  BY <1>1, <1>3, <1>4, Declaring
<1>6. PICK files : files = {"decl", "local", "index"} /\ files \in SUBSET Files
  BY FileNames
<1>7. PICK script : script = MigrateScript
  OBVIOUS
<1>8. t = NewTx("migrate", files, new, script)
  BY <1>2, <1>4, <1>6, <1>7
<1>9. t.kind = "migrate" /\ t.files = files /\ t.old = file /\ t.new = new
  BY <1>8 DEF NewTx
<1>10. Planned(t)
  BY <1>2, <1>5, <1>6, <1>9 DEF Planned
<1>11. /\ script \in Seq(Files \cup Steps) /\ Ordered("forward", script)
       /\ Pending(script) = ForwardSteps(t)
  BY <1>6, <1>7, <1>9, MigrationScript DEF ForwardSteps
<1> QED
  BY <1>1, <1>5, <1>6, <1>8, <1>10, <1>11, NewTxPlanning

\* The plan of a relocation.
LEMMA RelocatePlan ==
    ASSUME ConfigInv, NEW t \in RelocatePlans
    PROVE  Planning(t) /\ Planning([t EXCEPT !.todo = <<"dry-run">> \o @])
<1>1. WellFormed(file) /\ "relocate" \in Kinds
  BY DEF ConfigInv, TypeOK, Kinds
<1>2. /\ Places(file, "zone") = {"decl"} /\ file["decl"]["zone"].data = "old"
      /\ t = NewTx("relocate", {"decl"},
                   SetItem(file, "decl", "zone", [file["decl"]["zone"] EXCEPT !.data = "new"]),
                   RelocateScript)
  BY DEF RelocatePlans, ZoneAt
<1>3. "decl" \in Places(file, "zone")
  BY <1>2
<1>4. /\ file["decl"]["zone"] \in Definitions
      /\ DataOf(file["decl"]) = file["decl"]["zone"].data
  BY <1>1, <1>3, ZonePlaces
<1>5. PICK clause : clause = [file["decl"]["zone"] EXCEPT !.data = "new"]
  OBVIOUS
<1>6. clause \in Definitions /\ clause.data = "new"
  BY <1>4, <1>5 DEF Definitions
<1>7. PICK new : new = SetItem(file, "decl", "zone", clause)
  OBVIOUS
<1>8. /\ WellFormed(new) /\ \A g \in Files \ {"decl"} : new[g] = file[g]
      /\ DataOf(new["decl"]) = "new"
  BY <1>1, <1>3, <1>6, <1>7, SetClause
<1>9. DataOf(file["local"]) = "nowhere"
  <2>1. "local" \notin Places(file, "zone") /\ "local" \in Files
    BY <1>2, FileNames
  <2> QED
    BY <2>1 DEF Places, Included, DataOf
<1>10. PICK files : files = {"decl"} /\ files \in SUBSET Files
  BY FileNames
<1>11. PICK script : script = RelocateScript
  OBVIOUS
<1>12. t = NewTx("relocate", files, new, script)
  BY <1>2, <1>5, <1>7, <1>10, <1>11
<1>13. t.kind = "relocate" /\ t.files = files /\ t.old = file /\ t.new = new
  BY <1>12 DEF NewTx
<1>14. Planned(t)
  BY <1>2, <1>4, <1>8, <1>9, <1>10, <1>13 DEF Planned
<1>15. /\ script \in Seq(Files \cup Steps) /\ Ordered("forward", script)
       /\ Pending(script) = ForwardSteps(t)
  BY <1>10, <1>11, <1>13, RelocationScript DEF ForwardSteps
<1> QED
  BY <1>1, <1>8, <1>10, <1>12, <1>14, <1>15, NewTxPlanning

\* Every plan, of a command or of a screen, is a sound command.
LEMMA Plans ==
    ASSUME ConfigInv,
           NEW t \in AclPlans \cup GroupPlans \cup AssignPlans \cup MigratePlans
                        \cup RelocatePlans
    PROVE  Planning(t) /\ Planning([t EXCEPT !.todo = <<"dry-run">> \o @])
<1>1. CASE t \in AclPlans
  <2>1. PICK l \in Lists : t \in EntriesPlans("acl", l, AclEdits(l))
    BY <1>1 DEF AclPlans
  <2>2. AclEdits(l) \in SUBSET Edits[l]
    BY DEF AclEdits
  <2> QED
    BY <2>1, <2>2, ListPlan
<1>2. CASE t \in GroupPlans
  <2>1. PICK l \in Lists : t \in EntriesPlans("group", l, GroupEdits(l))
    BY <1>2 DEF GroupPlans
  <2>2. GroupEdits(l) \in SUBSET Edits[l]
    BY DEF GroupEdits
  <2> QED
    BY <2>1, <2>2, ListPlan
<1> QED
  BY <1>1, <1>2, AssignPlan, MigratePlan, RelocatePlan

\* A command starts.
LEMMA CommandStep ==
    ASSUME ConfigInv, NEW p \in Procs, Command(p)
    PROVE  ConfigInv'
<1>1. /\ started < MaxTx /\ started' = started + 1
      /\ UNCHANGED <<file, zonedata, loaded, histories>>
  BY DEF Command
<1>2. \E plans \in {AclPlans, GroupPlans, AssignPlans, MigratePlans, RelocatePlans} :
         Started(p, plans) \/ Shown(p, plans)
  BY DEF Command, AclApply, SecondaryApply, ZoneSecondaryApply, ZoneMigrationApply,
         BindAccessView, EditAcl, EditSecondaryGroup, ZoneSecondaryView,
         ZoneMigrationView, ApplyZoneMigration, ApplyZoneRelocation
<1>3. PICK u : tx' = [tx EXCEPT ![p] = u] /\ Planning(u)
  <2>1. PICK plans \in {AclPlans, GroupPlans, AssignPlans, MigratePlans, RelocatePlans} :
           Started(p, plans) \/ Shown(p, plans)
    BY <1>2
  <2>2. CASE Started(p, plans)
    <3>1. PICK u \in plans : tx' = [tx EXCEPT ![p] = u]
      BY <2>2 DEF Started
    <3> QED
      BY <2>1, <3>1, Plans
  <2>3. CASE Shown(p, plans)
    <3>1. PICK t \in plans : tx' = [tx EXCEPT ![p] = [t EXCEPT !.todo = <<"dry-run">> \o @]]
      BY <2>3 DEF Shown, Started
    <3>2. Planning([t EXCEPT !.todo = <<"dry-run">> \o @])
      BY <2>1, <3>1, Plans
    <3> QED
      BY <3>1, <3>2
  <2> QED
    BY <2>1, <2>2, <2>3
<1>4. /\ file' = file /\ disk' = disk /\ latest' = latest /\ stale' = stale
      /\ crossed' \in BOOLEAN /\ (crossed => crossed')
      /\ started' \in 0..MaxTx /\ DOMAIN loaded' \subseteq Items
  BY <1>1, ConfigAssumption DEF zonedata, histories, ConfigInv, TypeOK
<1>5. u # None => /\ IsTx(u) /\ Sound(u)
                  /\ Applying(u) /\ ~crossed' => Kept(u, file, disk, latest)
  BY <1>3 DEF Planning
<1> QED
  BY <1>3, <1>4, <1>5, TxStep

(* The start ***************************************************************)

\* What is installed is well formed and declares the zone in named.conf.local.
LEMMA InstalledFiles == WellFormed(Installed) /\ "zone" \in DOMAIN Installed["local"]
                        /\ DataOf(Installed["decl"]) = "nowhere"
<1>1. /\ {"local", "index", "decl"} \subseteq Files /\ "zone" \notin Lists
      /\ "include" \notin Lists /\ \A l \in Lists : Home[l] \in Files \ {"decl"}
  BY FileNames
<1>2. PICK fs : fs = Installed
  OBVIOUS
<1>3. fs = [f \in Files |-> fs[f]]
  BY <1>2 DEF Installed
<1>4. fs["decl"] = None
  BY <1>1, <1>2 DEF Installed
<1>5. PICK clause : clause = [data |-> "old", uses |-> Uses]
  OBVIOUS
<1>6. clause \in Definitions /\ clause.data = "old"
  BY <1>5, ConfigAssumption DEF Definitions
<1>7. fs["local"] = [i \in {"zone"} \union {l \in Lists : Home[l] = "local"} |->
                        IF i = "zone" THEN clause ELSE Entries[i]]
  BY <1>1, <1>2, <1>5 DEF Installed
<1>8. \A f \in Files \ {"decl", "local"} :
         fs[f] = [l \in {l \in Lists : Home[l] = f} |-> Entries[l]]
  BY <1>2 DEF Installed
<1>9. \A l \in Lists : Entries[l] \subseteq Hosts \union Lists
  BY ConfigAssumption
<1>10. Holdable("local", fs["local"])
  <2>1. PICK g : g = fs["local"]
    OBVIOUS
  <2>2. /\ DOMAIN g = {"zone"} \union {l \in Lists : Home[l] = "local"}
        /\ g = [i \in DOMAIN g |-> g[i]] /\ g["zone"] = clause
        /\ \A l \in Lists \cap DOMAIN g : g[l] = Entries[l]
    BY <1>1, <1>7, <2>1
  <2>3. DOMAIN g \in SUBSET Items
    BY <2>2 DEF Items
  <2>4. g # None
    <3>1. \A i \in DOMAIN g : g[i] \in Values
      BY <1>6, <1>9, <2>2 DEF Values
    <3>2. g \in [DOMAIN g -> Values]
      BY <2>2, <3>1
    <3> QED
      BY <2>3, <3>2, Defined
  <2>5. Holdable("local", g)
    BY <1>1, <1>6, <1>9, <2>2, <2>3, <2>4 DEF Holdable
  <2> QED
    BY <2>1, <2>5
<1>11. ASSUME NEW f \in Files \ {"decl", "local"} PROVE Holdable(f, fs[f])
  <2>1. PICK g : g = fs[f]
    OBVIOUS
  <2>2. /\ DOMAIN g = {l \in Lists : Home[l] = f}
        /\ g = [i \in DOMAIN g |-> g[i]]
        /\ \A l \in DOMAIN g : g[l] = Entries[l]
    BY ZenonT(60), <1>8, <1>11, <2>1
  <2>3. DOMAIN g \in SUBSET Items
    BY <2>2 DEF Items
  <2>4. g # None
    <3>1. \A i \in DOMAIN g : g[i] \in Values
      BY <1>9, <2>2 DEF Values
    <3>2. g \in [DOMAIN g -> Values]
      BY <2>2, <3>1
    <3> QED
      BY <2>3, <3>2, Defined
  <2>5. Holdable(f, g)
    BY <1>1, <1>9, <1>11, <2>2, <2>3, <2>4 DEF Holdable
  <2> QED
    BY <2>1, <2>5
<1>12. Holdable("decl", fs["decl"])
  BY <1>4 DEF Holdable
<1>13. WellFormed(fs)
  <2>1. \A f \in Files : Holdable(f, fs[f])
    BY <1>10, <1>11, <1>12
  <2> QED
    BY <1>3, <2>1 DEF WellFormed
<1>14. "zone" \in DOMAIN fs["local"]
  BY <1>7
<1>15. DataOf(fs["decl"]) = "nowhere"
  BY <1>4 DEF DataOf
<1> QED
  BY <1>2, <1>13, <1>14, <1>15

\* The invariant holds at the start.
LEMMA ConfigInit == Init => ConfigInv
<1> SUFFICES ASSUME Init PROVE ConfigInv
  OBVIOUS
<1>1. WellFormed(file) /\ DataOf(file["decl"]) # "new"
  <2>1. CASE file = Installed
    BY <2>1, InstalledFiles
  <2>2. CASE file = Declared(Installed)
    <3>1. WellFormed(Declared(Installed)) /\ DataOf(Declared(Installed)["decl"]) = "old"
      BY InstalledFiles, Declaring
    <3> QED
      BY <2>2, <3>1
  <2> QED
    BY <2>1, <2>2 DEF Init
<1>2. /\ disk = [old |-> 1, new |-> 0] /\ loaded = Config(file)
      /\ tx = [p \in Procs |-> None] /\ started = 0 /\ latest = 1
      /\ stale = FALSE /\ crossed = FALSE
  BY DEF Init
<1>3. disk \in [{"old", "new"} -> Versions] /\ disk["old"] = latest
      /\ latest \in 1..MaxVersions /\ started \in 0..MaxTx
  BY <1>2, ConfigAssumption DEF Versions
<1>4. DOMAIN loaded \subseteq Items
  BY <1>2 DEF Config
<1>5. TypeOK
  BY <1>1, <1>2, <1>3, <1>4 DEF TypeOK
<1>6. CommandInv
  BY <1>2 DEF CommandInv
<1>7. ZoneInv
  BY <1>1, <1>3 DEF ZoneInv, OldLeads, NewLeads
<1> QED
  BY <1>5, <1>6, <1>7 DEF ConfigInv

(* Theorems ****************************************************************)

\* Every step keeps the invariant.
LEMMA ConfigNext == ConfigInv /\ [Next]_vars => ConfigInv'
<1> SUFFICES ASSUME ConfigInv, [Next]_vars PROVE ConfigInv'
  OBVIOUS
<1>1. ASSUME NEW p \in Procs, Command(p) PROVE ConfigInv'
  BY <1>1, CommandStep
<1>2. ASSUME NEW p \in Procs, Step(p) PROVE ConfigInv'
  BY <1>2, DryRunStep, PreflightStep, WriteStep, ReconfigStep, CheckStep, MoveStep,
     BackupStep, FileStepFailsStep, EndStep DEF Step
<1>3. ASSUME NEW p \in Procs, Crash(p) PROVE ConfigInv'
  BY <1>3, EndStep
<1>4. CASE EditZone
  BY <1>4, EditStep
<1>5. CASE UNCHANGED vars
  <2>1. /\ file' = file /\ disk' = disk /\ latest' = latest /\ loaded' = loaded
        /\ tx' = tx /\ started' = started /\ stale' = stale /\ crossed' = crossed
    BY <1>5 DEF vars, zonedata, histories
  <2>2. TypeOK'
    BY <2>1 DEF ConfigInv, TypeOK, WellFormed
  <2>3. CommandInv' /\ ZoneInv'
    BY <2>1 DEF ConfigInv, CommandInv, ZoneInv
  <2> QED
    BY <2>2, <2>3 DEF ConfigInv
<1> QED
  BY <1>1, <1>2, <1>3, <1>4, <1>5 DEF Next

\* The invariant holds in every state.
THEOREM ConfigInvariant == Spec => []ConfigInv
<1>1. Init => ConfigInv
  BY ConfigInit
<1>2. ConfigInv /\ [Next]_vars => ConfigInv'
  BY ConfigNext
<1> QED
  BY <1>1, <1>2, PTL DEF Spec

\* Every variable keeps its type: the files define what their place allows.
THEOREM TypeCorrect == Spec => []TypeOK
<1>1. ConfigInv => TypeOK
  BY DEF ConfigInv
<1> QED
  BY <1>1, ConfigInvariant, PTL

\* A zone's declaration leads to the data committed last, whatever the commands
\* do and whenever they fail or die.
THEOREM DeclarationLeads == Spec => []DataSurvives
<1>1. ConfigInv => DataSurvives
  <2> SUFFICES ASSUME ConfigInv, ~crossed, ~stale, NEW f \in Files, file[f] # None,
                      "zone" \in DOMAIN file[f]
               PROVE  disk[file[f]["zone"].data] = latest
    BY DEF DataSurvives
  <2>1. /\ WellFormed(file) /\ OldLeads(file, disk, latest)
        /\ NewLeads(file, disk, latest)
    BY DEF ConfigInv, TypeOK, ZoneInv
  <2>2. /\ f \in {"local", "decl"} /\ DataOf(file[f]) = file[f]["zone"].data
        /\ file[f]["zone"].data \in {"old", "new"}
        /\ f = "local" => file[f]["zone"].data = "old"
    BY <2>1 DEF WellFormed, Holdable, DataOf, Definitions
  <2> QED
    BY <2>1, <2>2 DEF OldLeads, NewLeads
<1> QED
  BY <1>1, ConfigInvariant, PTL

\* A command that reports ROLLED-BACK has put its files, and the data, back.
THEOREM RollbackRestores == Spec => RolledBackRestores
<1>1. ASSUME ConfigInv, [Next]_vars, NEW p \in Procs, Finish(p), tx[p].undoing, tx[p].ok,
             ~crossed
      PROVE  /\ \A f \in tx[p].files : file[f] = tx[p].old[f]
             /\ tx[p].kind = "relocate" => disk["new"] = 0 /\ disk["old"] = latest
  <2>1. tx[p] # None /\ tx[p].todo = <<>>
    BY <1>1 DEF Finish
  <2>2. Kept(tx[p], file, disk, latest)
    BY <1>1, <2>1, Commands DEF Applying
  <2>3. \A y : ~Due(tx[p], y)
    BY <2>1 DEF Due, Pending
  <2> QED
    BY <1>1, <2>2, <2>3 DEF Kept, FilesKept, DataKept
<1>2. ConfigInv /\ [Next]_vars =>
        [\A p \in Procs : Finish(p) /\ tx[p].undoing /\ tx[p].ok /\ ~crossed =>
          /\ \A f \in tx[p].files : file[f] = tx[p].old[f]
          /\ tx[p].kind = "relocate" => disk["new"] = 0 /\ disk["old"] = latest]_vars
  BY <1>1
<1> QED
  BY <1>2, ConfigInvariant, PTL DEF Spec, RolledBackRestores

(* What lists name *********************************************************)

\* The lists named by entries are the least closed set of those they name.
LEMMA UnderLeast ==
    ASSUME NEW c, NEW entries
    PROVE  /\ Under(c, entries) \in ClosedSets(c) /\ entries \cap Lists \subseteq Under(c, entries)
           /\ \A ls \in ClosedSets(c) : entries \cap Lists \subseteq ls
                 => Under(c, entries) \subseteq ls
BY DEF Under, ClosedSets

\* A list named by entries is in their closure.
LEMMA UnderClosure ==
    ASSUME NEW c, NEW entries
    PROVE  Under(c, entries) \subseteq Closure(c, entries)
<1> DEFINE ls == Under(c, entries) \cap Closure(c, entries)
<1>1. ls \in ClosedSets(c)
  BY UnderLeast DEF ClosedSets, Closure
<1>2. entries \cap Lists \subseteq ls
  BY UnderLeast DEF Closure
<1> QED
  BY <1>1, <1>2, UnderLeast

\* More entries name more.
LEMMA ClosureGrows ==
    ASSUME NEW c, NEW d, \A l \in Lists : c[l] \subseteq d[l], NEW entries
    PROVE  Closure(c, entries) \subseteq Closure(d, entries)
<1>1. Under(d, entries) \in ClosedSets(c)
  BY UnderLeast DEF ClosedSets
<1>2. Under(c, entries) \subseteq Under(d, entries)
  BY <1>1, UnderLeast
<1>3. \A l \in Under(c, entries) : l \in Lists /\ c[l] \subseteq d[l]
  BY DEF Under
<1> QED
  BY <1>2, <1>3 DEF Closure

\* What does not name a list does not change with it.
LEMMA ClosureApart ==
    ASSUME NEW c, NEW d, NEW l \in Lists, \A k \in Lists \ {l} : c[k] = d[k],
           NEW entries, l \notin Under(c, entries)
    PROVE  Closure(c, entries) = Closure(d, entries)
<1>1. Under(c, entries) \in ClosedSets(d)
  BY UnderLeast DEF ClosedSets
<1>2. Under(d, entries) \subseteq Under(c, entries)
  BY <1>1, UnderLeast
<1>3. Under(d, entries) \in ClosedSets(c)
  BY <1>2, UnderLeast DEF ClosedSets
<1>4. Under(c, entries) = Under(d, entries)
  BY <1>2, <1>3, UnderLeast
<1>5. \A k \in Under(c, entries) : c[k] = d[k]
  BY DEF Under
<1> QED
  BY <1>4, <1>5 DEF Closure

\* A list that entries name is named whatever it holds itself.
LEMMA ReachStays ==
    ASSUME NEW c, NEW d, NEW l \in Lists, \A k \in Lists \ {l} : c[k] = d[k],
           NEW entries, l \in Under(c, entries)
    PROVE  l \in Under(d, entries)
<1> SUFFICES ASSUME l \notin Under(d, entries) PROVE FALSE
  OBVIOUS
<1>1. Under(d, entries) \in ClosedSets(c)
  BY UnderLeast DEF ClosedSets
<1>2. Under(c, entries) \subseteq Under(d, entries)
  BY <1>1, UnderLeast
<1> QED
  BY <1>2

\* Entries name all that a list they name does.
LEMMA ClosureThrough ==
    ASSUME NEW c, NEW entries, NEW l \in Under(c, entries)
    PROVE  Closure(c, c[l]) \subseteq Closure(c, entries)
<1>1. c[l] \cap Lists \subseteq Under(c, entries)
  BY UnderLeast DEF ClosedSets
<1>2. Under(c, c[l]) \subseteq Under(c, entries)
  BY <1>1, UnderLeast
<1> QED
  BY <1>2 DEF Closure

\* Where a list is defined, and what the configuration holds for it.
LEMMA ListConfig ==
    ASSUME NEW fs, WellFormed(fs), NEW l \in Lists
    PROVE  Places(fs, l) = {Home[l]} /\ Config(fs)[l] = fs[Home[l]][l]
<1>1. /\ Home[l] \in Files \ {"decl"}
      /\ \A f \in Files : Holdable(f, fs[f])
  BY FileNames DEF WellFormed
<1>2. fs[Home[l]] # None /\ l \in DOMAIN fs[Home[l]]
  BY <1>1 DEF Holdable
<1>3. Home[l] \in Places(fs, l)
  BY <1>1, <1>2 DEF Places, Included
<1>4. \A f \in Places(fs, l) : f = Home[l]
  BY ZenonT(60), <1>1 DEF Places, Included, Holdable
<1>5. Places(fs, l) = {Home[l]}
  BY <1>3, <1>4
<1>6. l \in {i \in Items : Places(fs, i) # {}}
  BY <1>3 DEF Items
<1>7. (CHOOSE g \in Places(fs, l) : TRUE) = Home[l]
  BY <1>5
<1>8. Config(fs)[l] = LET f == CHOOSE g \in Places(fs, l) : TRUE IN fs[f][l]
  BY <1>6 DEF Config
<1> QED
  BY <1>5, <1>7, <1>8

\* Changing the entries of a list changes nothing else of the configuration.
LEMMA SetListConfig ==
    ASSUME NEW fs, WellFormed(fs), NEW l \in Lists, NEW entries \in SUBSET (Hosts \cup Lists),
           NEW gs, gs = SetItem(fs, Home[l], l, entries)
    PROVE  /\ Config(gs)[l] = entries
           /\ \A k \in Lists \ {l} : Config(gs)[k] = Config(fs)[k]
<1>1. /\ WellFormed(gs) /\ \A f \in Files \ {Home[l]} : gs[f] = fs[f]
      /\ gs[Home[l]][l] = entries
      /\ \A i \in DOMAIN fs[Home[l]] \ {l} : gs[Home[l]][i] = fs[Home[l]][i]
  BY SetList
<1>2. Config(gs)[l] = entries
  BY <1>1, ListConfig
<1>3. ASSUME NEW k \in Lists \ {l} PROVE Config(gs)[k] = Config(fs)[k]
  <2>1. Config(gs)[k] = gs[Home[k]][k] /\ Config(fs)[k] = fs[Home[k]][k]
    BY <1>1, ListConfig
  <2>2. Home[k] \in Files /\ k \in DOMAIN fs[Home[k]]
    <3>1. Home[k] \in Files \ {"decl"} /\ Holdable(Home[k], fs[Home[k]])
      BY FileNames DEF WellFormed
    <3> QED
      BY <3>1 DEF Holdable
  <2>3. CASE Home[k] = Home[l]
    BY <1>1, <1>3, <2>1, <2>2, <2>3
  <2>4. CASE Home[k] # Home[l]
    BY <1>1, <2>1, <2>2, <2>4
  <2> QED
    BY <2>3, <2>4
<1> QED
  BY <1>2, <1>3

\* A change of a list whose impact is not HIGH takes away no access.
LEMMA AccessStays ==
    ASSUME NEW c, NEW d, NEW l \in Lists, NEW entries, d[l] = entries,
           \A k \in Lists \ {l} : d[k] = c[k],
           ~High(c, l, entries), l \notin Closure(d, d[l]), ZoneUses(c) \subseteq Lists
    PROVE  KeepsAccess(c, d)
<1>1. CASE c[l] \ entries = {}
  <2>1. \A k \in Lists : c[k] \subseteq d[k]
    BY <1>1
  <2>2. \A names : Closure(c, names) \subseteq Closure(d, names)
    BY <2>1, ClosureGrows
  <2> QED
    BY <2>2 DEF KeepsAccess, RemoteCapable
<1>2. CASE c[l] \ entries # {}
  <2>1. Affected(c, l) \cap Admin = {}
    BY <1>2 DEF High
  <2>2. Affected(c, l) \cap ZoneUses(c) # {} => RemoteCapable(c, entries)
    BY <1>2 DEF High
  <2>3. \A k \in Lists : l \in Under(c, {k}) => k \in Affected(c, l)
    BY UnderClosure DEF Affected
  <2>4. ASSUME NEW k \in Lists, l \notin Under(c, {k})
        PROVE  Closure(c, {k}) = Closure(d, {k})
    BY <2>4, ClosureApart
  <2>5. ASSUME NEW k \in ZoneUses(c), RemoteCapable(c, {k})
        PROVE  RemoteCapable(d, {k})
    <3>1. CASE l \notin Under(c, {k})
      <4>1. Closure(c, {k}) = Closure(d, {k})
        BY <2>4, <3>1
      <4> QED
        BY <2>5, <4>1 DEF RemoteCapable
    <3>2. CASE l \in Under(c, {k})
      <4>1. RemoteCapable(c, entries)
        BY <2>2, <2>3, <3>2
      <4>2. l \notin Under(d, entries)
        BY UnderClosure
      <4>3. Closure(d, entries) = Closure(c, entries)
        BY <4>2, ClosureApart
      <4>4. l \in Under(d, {k})
        BY <3>2, ReachStays
      <4>5. Closure(d, entries) \subseteq Closure(d, {k})
        BY <4>4, ClosureThrough
      <4> QED
        BY <4>1, <4>3, <4>5 DEF RemoteCapable
    <3> QED
      BY <3>1, <3>2
  <2>6. ASSUME NEW k \in Admin
        PROVE  Closure(c, {k}) \cap Hosts \subseteq Closure(d, {k})
    <3>1. k \in Lists
      BY ConfigAssumption
    <3>2. l \notin Under(c, {k})
      BY <2>1, <2>3, <3>1
    <3> QED
      BY <2>4, <3>1, <3>2
  <2> QED
    BY <2>5, <2>6 DEF KeepsAccess
<1> QED
  BY <1>1, <1>2

\* No write of a plan that still holds takes away the last remote host of a
\* list in use, or a host of one that administers.
THEOREM LastAccessKept == Spec => AccessKept
<1>1. ASSUME ConfigInv, NEW p \in Procs, Write(p), tx[p].kind \in {"acl", "group"},
             ~tx[p].undoing, ~stale', ~crossed'
      PROVE  KeepsAccess(Config(file), Config(file'))
  <2>1. PICK t : t = tx[p]
    OBVIOUS
  <2>2. PICK f \in Files :
          /\ At(p, f)
          /\ file' = [file EXCEPT ![f] = IF t.undoing THEN t.old[f] ELSE t.new[f]]
          /\ stale' = (stale \/ \E g \in Files \ t.files : file[g] # t.old[g])
          /\ crossed' = (crossed \/ \E q \in Procs \ {p} : Holds(q, f))
    BY <1>1, <2>1 DEF Write
  <2>3. f \notin {"dry-run", "preflight"}
    BY FileNames DEF Steps
  <2>4. tx[p] # None /\ tx[p].todo # <<>> /\ Head(tx[p].todo) = f /\ Applying(tx[p])
    BY <1>1, <2>2, <2>3, AtStep
  <2>5. ~crossed /\ Fresh(t, file)
    BY <1>1, <2>2 DEF Fresh
  <2>6. /\ t.todo # <<>> /\ Head(t.todo) = f /\ IsTx(t) /\ Sound(t) /\ ~t.undoing
        /\ t.kind \in {"acl", "group"} /\ Kept(t, file, disk, latest)
    BY <1>1, <2>1, <2>4, <2>5, Commands
  <2>7. PICK l \in Lists, entries \in SUBSET (Hosts \cup Lists) :
          /\ t.files = {Home[l]} /\ t.new = SetItem(t.old, Home[l], l, entries)
          /\ ~High(Config(t.old), l, entries) /\ CheckConf(t.new)
    BY <2>6 DEF Sound, Planned
  <2>8. Due(t, f)
    <3>1. PICK s : s = t.todo /\ s \in Seq(Files \cup Steps) /\ s # <<>>
      BY <2>6, TxFields
    <3>2. Head(s) \in Pending(s)
      BY <3>1, HeadPending
    <3> QED
      BY <2>6, <3>1, <3>2 DEF Due
  <2>9. f = Home[l]
    <3>1. f \in {"dry-run"} \cup ForwardSteps(t)
      BY <2>6, <2>8 DEF Sound, Scripted, Due
    <3> QED
      BY <2>6, <2>7, <3>1, FileNames DEF ForwardSteps, Steps
  <2>10. file[f] = t.old[f]
    BY <2>6, <2>7, <2>8, <2>9 DEF Kept, FilesKept
  <2>11. WellFormed(file) /\ WellFormed(t.old)
    BY <1>1, <2>6, TxFields DEF ConfigInv, TypeOK
  <2>12. file = t.old
    BY <2>5, <2>7, <2>9, <2>10, <2>11 DEF WellFormed, Fresh
  <2>13. file' = t.new
    <3>1. WellFormed(t.new) /\ \A g \in Files \ {f} : t.new[g] = t.old[g]
      BY <2>7, <2>9, <2>11, SetList
    <3>2. file' = [file EXCEPT ![f] = t.new[f]]
      BY <2>2, <2>6
    <3> QED
      BY <2>11, <2>12, <3>1, <3>2 DEF WellFormed
  <2>14. PICK fs, gs : fs = t.old /\ gs = t.new
    OBVIOUS
  <2>15. PICK c, d : c = Config(fs) /\ d = Config(gs)
    OBVIOUS
  <2>16. d[l] = entries /\ \A k \in Lists \ {l} : d[k] = c[k]
    <3>1. /\ WellFormed(fs) /\ gs = SetItem(fs, Home[l], l, entries)
          /\ l \in Lists /\ entries \in SUBSET (Hosts \cup Lists)
      BY <2>7, <2>11, <2>14
    <3>2. /\ Config(gs)[l] = entries
          /\ \A k \in Lists \ {l} : Config(gs)[k] = Config(fs)[k]
      BY <3>1, SetListConfig
    <3> QED
      BY <2>15, <3>2
  <2>17. ~High(c, l, entries) /\ l \notin Closure(d, d[l])
    BY <2>7, <2>14, <2>15 DEF CheckConf
  <2>18. ZoneUses(c) \subseteq Lists
    <3>1. ASSUME "zone" \in DOMAIN c PROVE c["zone"] \in Definitions
      <4>1. "zone" \in Items /\ Places(fs, "zone") # {}
        BY <2>15, <3>1 DEF Config
      <4>2. PICK g : g = (CHOOSE h \in Places(fs, "zone") : TRUE) /\ g \in Places(fs, "zone")
        BY <4>1
      <4>3. c["zone"] = fs[g]["zone"]
        BY <2>15, <4>1, <4>2 DEF Config
      <4> QED
        BY <2>11, <2>14, <4>2, <4>3, ZonePlaces
    <3> QED
      BY <3>1 DEF ZoneUses, Definitions
  <2>19. KeepsAccess(c, d)
    BY <2>16, <2>17, <2>18, AccessStays
  <2> QED
    BY <2>12, <2>13, <2>14, <2>15, <2>19
<1>2. ConfigInv /\ [Next]_vars =>
        [\A p \in Procs : Write(p) /\ tx[p].kind \in {"acl", "group"} /\ ~tx[p].undoing
          /\ ~stale' /\ ~crossed' => KeepsAccess(Config(file), Config(file'))]_vars
  BY <1>1
<1> QED
  BY <1>2, ConfigInvariant, PTL DEF Spec, AccessKept
=============================================================================
