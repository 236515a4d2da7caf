------------------------- MODULE MCSupereventEvents -------------------------
(* Instances of SupereventEvents: three events, two of them of one pipeline. *)
EXTENDS SupereventEvents, TLC

CONSTANTS e1, e2, e3

TwoPipelines == [e \in Events |-> IF e = e3 THEN "spiir" ELSE "gstlal"]

\* e1 and e2 are alike: of one pipeline, and neither is external or mismatched.
Symmetry == Permutations(Workers) \cup Permutations(Superevents) \cup Permutations({e1, e2})
=============================================================================
