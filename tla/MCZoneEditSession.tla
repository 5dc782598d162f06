------------------------- MODULE MCZoneEditSession -------------------------
(* ZoneEditSession for TLC.                                                  *)
EXTENDS ZoneEditSession

CONSTANTS d1, d2, s1, s2

\* A zone with its SOA and one ordinary record.
MCFile == <<[data |-> s1, serial |-> 2], [data |-> d1, serial |-> 0]>>
=============================================================================
