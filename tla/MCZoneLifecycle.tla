-------------------------- MODULE MCZoneLifecycle --------------------------
(* ZoneLifecycle for TLC: who works on which zone.                           *)
EXTENDS ZoneLifecycle, TLC

CONSTANTS p1, p2, z1, z2

MCGrouped == {z1}
OneOperator == p1 :> {z1, z2}

AllCommands == CommandNames
NoRestore == CommandNames \ {"restore"}
=============================================================================
