---------------------------- MODULE MCJobSystem ----------------------------
(* Instances of JobSystem for TLC. *)
EXTENDS JobSystem, TLC

Symmetry == Permutations(Jobs)
=============================================================================
