------------------------- MODULE MCPolicyMigration -------------------------
(* PolicyMigration for TLC: a blocked policy and two others, two resolvers. *)
EXTENDS PolicyMigration, TLC

CONSTANTS p1, p2, old, new, weak, r1, r2

MCPolicies == {old, new, weak}
MCBlocked == {weak}
MCReview == {new}
MCResolvers == {r1, r2}

\* One operator runs the migration, another one looks on, starts over or takes
\* it back.
MCAssigned == p1 :> CommandNames \ {"check"} @@ p2 :> {"start", "check", "rollback"}

\* bound: after a command died, lost its state, overwrote another's or went by
\* old keys, one command less.
Bound == stale \/ torn \/ outdated => issued < MaxCommands

Symmetry == Permutations(MCResolvers)
=============================================================================
