--------------------------- MODULE MCPoolManager ---------------------------
(* Tasks that are alike, the default database and two tenants. *)
EXTENDS PoolManager, TLC

TaskSymmetry == Permutations(Tasks)
=============================================================================
