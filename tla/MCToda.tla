------------------------------- MODULE MCToda -------------------------------
(* Instances of Toda for TLC. *)
EXTENDS Toda, TLC

Symmetry == Permutations(Procs)
=============================================================================
