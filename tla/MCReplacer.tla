----------------------------- MODULE MCReplacer -----------------------------
(* Replacer with two processes; the bound on threads gives one of them three, or two and the other one. *)
EXTENDS Replacer, TLC

Symmetry == Permutations(Pids)

Old(n) == [on |-> "old", pos |-> n]

MCUses == {
  [fds |-> 0 :> Closed @@ 1 :> Closed, cwd |-> "out", maps |-> "old"],
  [fds |-> 0 :> Closed @@ 1 :> Old(1), cwd |-> "old", maps |-> "none"]}
=============================================================================
