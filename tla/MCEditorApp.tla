---------------------------- MODULE MCEditorApp ----------------------------
(* EditorApp for TLC: two zones of one group and records that can break a    *)
(* zone in the ways validate_zone() tells apart.                             *)
EXTENDS EditorApp, TLC

CONSTANTS z1, z2, home, apex, a, None0

LOCAL Rec(o, t, to, c) == [owner |-> o, type |-> t, target |-> to, copy |-> c]

soa == Rec(apex, "SOA", None0, 1)
soaSlow == Rec(apex, "SOA", None0, 2)
ns == Rec(apex, "NS", a, 1)
nsLost == Rec(apex, "NS", apex, 1)
mx == Rec(apex, "MX", a, 1)
mxApex == Rec(apex, "MX", apex, 1)
addr == Rec(a, "A", None0, 1)
alias == Rec(a, "CNAME", apex, 1)

MCOrder == <<z1, z2>>
MCGroup == [z \in {z1, z2} |-> home]
MCRecords == {soa, soaSlow, ns, nsLost, addr, alias, mx, mxApex}
MCContents == {{soa, ns, addr}}
MCLimits == [edit |-> 2, save |-> 1, key |-> 2, other |-> 1, all |-> 3]
=============================================================================
