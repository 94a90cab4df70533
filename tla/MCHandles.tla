----------------------------- MODULE MCHandles -----------------------------
(* Instances of Handles for TLC. *)
EXTENDS Handles, TLC

Symmetry ==
  Permutations(Open) \cup Permutations(Task) \cup Permutations(Path) \cup Permutations(Fd) \cup Permutations(Fh)
=============================================================================
