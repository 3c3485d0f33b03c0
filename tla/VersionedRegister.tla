-------------------------- MODULE VersionedRegister --------------------------
(***************************************************************************)
(* What the vault index promises its devices: one value with a version     *)
(* that is counted up by one with every write, and a write is accepted     *)
(* only from a device that knows the current version.                      *)
(***************************************************************************)
EXTENDS Naturals

CONSTANTS Value, NoValue          \* NoValue: nothing was written yet

VARIABLES version, value

regVars == <<version, value>>

RegTypeOK == version \in Nat /\ value \in Value \cup {NoValue}

RegInit == version = 0 /\ value = NoValue

\* A write on top of version `base`.
Accept(base, d) ==
  /\ base = version
  /\ version' = version + 1
  /\ value' = d

RegNext == \E d \in Value : Accept(version, d)

RegSpec == RegInit /\ [][RegNext]_regVars
=============================================================================
