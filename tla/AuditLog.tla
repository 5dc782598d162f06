------------------------------ MODULE AuditLog ------------------------------
(***************************************************************************)
(* What the audit v1 registry promises: records are added one by one, and  *)
(* only retention removes any, which spares a newest result of every       *)
(* resource. The promise ends with the first write that is cut off.        *)
(***************************************************************************)
EXTENDS Naturals

CONSTANT Records

VARIABLES
    recorded,    \* records a reader finds
    damaged      \* some write was cut off

Init == recorded = {} /\ damaged = FALSE

Add ==
    /\ \E r \in Records \ recorded : recorded' = recorded \union {r}
    /\ UNCHANGED damaged

Results(records, x) == {r \in records : r.kind = "RESULT" /\ r.resource = x}

Retain ==
    /\ recorded' \subseteq recorded
    /\ \A r \in recorded :
          \A s \in Results(recorded, r.resource) :
              \E t \in Results(recorded', r.resource) : t.at >= s.at
    /\ UNCHANGED damaged

\* After a write that was cut off nothing is promised.
Next == (~damaged /\ (Add \/ Retain)) \/ damaged'

Spec == Init /\ [][Next]_<<recorded, damaged>>
=============================================================================
