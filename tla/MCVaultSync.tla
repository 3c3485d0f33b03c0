----------------------------- MODULE MCVaultSync -----------------------------
(* The runs of VaultSync: devices and ids are alike.                           *)
EXTENDS VaultSync, TLC

Symmetry == Permutations(Device) \cup Permutations(Id)
=============================================================================
