-------------------------- MODULE MCObjectLifecycle --------------------------
(* Model values and symmetry for the runs of ObjectLifecycle.  The actions    *)
(* treat all objects, all pieces and all request handlers alike.              *)
EXTENDS ObjectLifecycle, TLC

Symmetry == Permutations(Object) \cup Permutations(Piece) \cup Permutations(Request)
=============================================================================
