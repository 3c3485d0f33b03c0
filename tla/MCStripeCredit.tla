--------------------------- MODULE MCStripeCredit ---------------------------
(* StripeCredit on small instances.  Requests overlap, and Stripe sends all  *)
(* it can about a top-up, before a month ends; once one has, the constraint  *)
(* keeps two events and one request at a time, and once two have, Pay-as-    *)
(* you-go is off.                                                            *)
EXTENDS StripeCredit, TLC

Bounded ==
  /\ Cardinality(sent) <= IF month = 2 THEN 5 ELSE 2
  /\ month > 2 => Cardinality({h \in Handler : ~At(h, "idle")}) <= 1
  /\ month # 3 => ~(payg \/ looked)

Symmetry == Permutations(Handler) \cup Permutations(Closer)
=============================================================================
