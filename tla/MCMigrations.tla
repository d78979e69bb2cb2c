----------------------------- MODULE MCMigrations -----------------------------
(* Instance of Migrations: an older and a newer deployment and their probes. *)
EXTENDS Migrations, TLC

CONSTANTS d1, d2, d3, p1

MCSymmetry == Permutations(Deploys)
=============================================================================
