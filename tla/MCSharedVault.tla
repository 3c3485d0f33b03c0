--------------------------- MODULE MCSharedVault ---------------------------
(* SharedVault on small instances. *)
EXTENDS SharedVault, TLC

Symmetry == Permutations(Busy) \cup Permutations(Person \ Busy)
=============================================================================
