--------------------------- MODULE MCTeamRecovery ---------------------------
(* TeamRecovery on a small team.                                             *)
EXTENDS TeamRecovery, TLC

Symmetry == Permutations(Handler) \cup Permutations(Request) \cup Permutations(Tab)
                \cup Permutations(FirstAdmins)
=============================================================================
