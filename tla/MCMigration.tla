------------------------------ MODULE MCMigration ------------------------------
(***************************************************************************)
(* Two replicas that migrate, one that does not, and a writer on each of   *)
(* two of them.                                                            *)
(***************************************************************************)
EXTENDS Migration

CONSTANTS a, b, c, u, v

MCReplicas == {a, b, c}

MCMigrating == {a, b}

MCWriters == {u, v}

MCHome == [w \in MCWriters |-> IF w = u THEN a ELSE c]

=============================================================================
