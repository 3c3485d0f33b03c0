---------------------------- MODULE MCFamilyPool ----------------------------
(* FamilyPool on small instances: the state space is finite because a check  *)
(* fails once the pool is full, and MaxChanges bounds the departures and so  *)
(* the joins.                                                                *)
EXTENDS FamilyPool, TLC

MCPoolQuota == [p \in GroupPlan |-> IF p = "family" THEN 1 ELSE 2]
MCSeats     == [p \in GroupPlan \cup {"free"} |-> IF p = "business" THEN 3 ELSE 2]

Symmetry == Permutations(Upload) \cup Permutations(S3Upload) \cup Permutations(Sync) \cup Permutations(Invitee)
=============================================================================
