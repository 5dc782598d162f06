-------------------------- MODULE LifecycleStates --------------------------
(***************************************************************************)
(* What the lifecycle commands promise about a managed zone: it is in one  *)
(* of four states, and each successful command moves one zone along one    *)
(* edge. A command that fails moves nothing. The promise ends when one     *)
(* dies or cannot take back its steps.                                     *)
(***************************************************************************)
CONSTANT Zones

VARIABLES
    state,     \* state[z]: absent, active, disabled or quarantined
    damaged    \* a command died or could not take back its steps

Edges ==
    {<<"absent", "active">>,            \* zone create
     <<"active", "disabled">>,          \* zone disable
     <<"disabled", "active">>,          \* zone restore
     <<"disabled", "quarantined">>,     \* zone quarantine
     <<"quarantined", "active">>,       \* zone quarantine-restore, zone create
     <<"quarantined", "absent">>}       \* zone quarantine-purge

Init ==
    /\ state \in [Zones -> {"absent", "active", "disabled", "quarantined"}]
    /\ damaged = FALSE

Move(z) ==
    \E e \in Edges :
        /\ state[z] = e[1]
        /\ state' = [state EXCEPT ![z] = e[2]]

Next == (~damaged /\ UNCHANGED damaged /\ \E z \in Zones : Move(z)) \/ damaged'

Spec == Init /\ [][Next]_<<state, damaged>>
=============================================================================
