--------------------------- MODULE MCMaintenance ---------------------------
(* Instances of Maintenance for TLC. *)
EXTENDS Maintenance, TLC

Symmetry == Permutations(Workspaces) \cup Permutations(Callers)
=============================================================================
