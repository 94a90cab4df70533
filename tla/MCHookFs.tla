------------------------------ MODULE MCHookFs ------------------------------
(* Small instances of HookFs for TLC. *)
EXTENDS HookFs, TLC

Symmetry == Permutations(Names) \cup Permutations(FileInos) \cup Permutations(DirInos)
=============================================================================
