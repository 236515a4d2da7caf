--------------------------- MODULE MCSupereventId ---------------------------
(* Instances of SupereventId: whom each request is about, and the gw_ids    *)
(* users supply.                                                            *)
EXTENDS SupereventId, TLC

CONSTANTS c1, c2, f1, f2, p1

\* One confirmation of each of two superevents, and a PATCH of one of them.
TargetMixed == f1 :> c1 @@ f2 :> c2 @@ p1 :> c1
\* Two confirmations of one superevent.
TargetSame == f1 :> c1 @@ f2 :> c1

\* An ID of the user's own, and the one the first default confirmation makes.
GivenGw == {<<"N", 1>>, <<"GW", 1>>}
=============================================================================
