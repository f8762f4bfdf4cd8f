----------------------------- MODULE MCMigrations -----------------------------
(* Two shipments, and commands without bound. *)
EXTENDS Migrations, TLC

Symmetry == Permutations(Shipments)
===============================================================================
