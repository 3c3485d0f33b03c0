------------------------------ MODULE MCS3History -----------------------------
(* The runs of S3History: objects and handlers are alike.                        *)
EXTENDS S3History, TLC

Symmetry == Permutations(Object) \cup Permutations(Request)
=============================================================================
