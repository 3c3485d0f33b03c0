---------------------------- MODULE MCTwoEditors ----------------------------
(* The run of TwoEditors.                                                      *)
EXTENDS TwoEditors
=============================================================================
