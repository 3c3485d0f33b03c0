---------------------------- MODULE MCVaultIndex ----------------------------
(* The runs of VaultIndex take handlers as model values.                      *)
EXTENDS VaultIndex, TLC

Symmetry == Permutations(Worker)
=============================================================================
