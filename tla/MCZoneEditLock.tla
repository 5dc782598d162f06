--------------------------- MODULE MCZoneEditLock ---------------------------
(* ZoneEditLock for TLC: processes and inodes are interchangeable.           *)
EXTENDS ZoneEditLock, TLC

Symmetry == Permutations(Procs) \union Permutations(Inodes)
=============================================================================
