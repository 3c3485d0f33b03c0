------------------------- MODULE MCFilecoinBackup -------------------------
(* FilecoinBackup on small instances. *)
EXTENDS FilecoinBackup, TLC

Symmetry == Permutations(Provider) \cup Permutations(Network) \cup Permutations(Run)
=============================================================================
