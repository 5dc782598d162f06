------------------------ MODULE MCDnssecLifecycle ------------------------
(* DnssecLifecycle for TLC: two processes, interchangeable.                *)
EXTENDS DnssecLifecycle, TLC

CONSTANTS p1, p2

MCProcs == {p1, p2}

Symmetry == Permutations(MCProcs)
=============================================================================
