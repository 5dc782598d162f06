------------------------ MODULE MCConfigTransaction ------------------------
(* ConfigTransaction for TLC: the group secondaries, which the zone uses,  *)
(* a list it may name, defined in another file, and one that administers.   *)
EXTENDS ConfigTransaction, TLC

CONSTANTS p1, p2, here, away

MCProcs == {p1, p2}
MCLists == {"secondaries", "nested", "trusted"}

MCHome == [secondaries |-> "local", nested |-> "lists", trusted |-> "lists"]

MCEntries == [secondaries |-> {here, away}, nested |-> {away}, trusted |-> {here}]

MCEdits == [secondaries |-> {{here}, {here, "nested"}}, nested |-> {{here}},
            trusted |-> {{here, "nested"}}]
=============================================================================
