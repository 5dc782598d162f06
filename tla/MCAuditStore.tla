---------------------------- MODULE MCAuditStore ----------------------------
(* AuditStore for TLC.                                                       *)
EXTENDS AuditStore, TLC

CONSTANTS p1, p2, x1, x2

Symmetry == Permutations({p1, p2})
=============================================================================
