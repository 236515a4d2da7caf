------------------------------ MODULE MCAlerts ------------------------------
(* Instances of Alerts for TLC.                                            *)
EXTENDS Alerts, TLC

CONSTANTS e1, e2, e3

FarOfEvents == (e1 :> 20) @@ (e2 :> 5) @@ (e3 :> 0)

For(category, far, ns, ls, query, contacts) ==
    [category |-> category, far |-> far, ns |-> ns, query |-> query,
     labels |-> ls \cup LabelsOf(query), groups |-> {}, contacts |-> contacts]

Lit(l, w) == [label |-> l, wanted |-> w]

\* One phone number gets the first two, and an e-mail address of its own each other one.
Notifications6 ==
    ("below 10"  :> For("superevent", 10, FALSE, {}, {}, {"phone"})) @@
    ("any ns"    :> For("superevent", None, TRUE, {}, {}, {"phone"})) @@
    ("below 20"  :> For("superevent", 20, FALSE, {}, {}, {"phone", "mail1"})) @@
    ("labelled"  :> For("superevent", 10, FALSE, {"A"}, {}, {"mail2"})) @@
    ("queried"   :> For("superevent", 30, FALSE, {}, {{Lit("A", TRUE), Lit("B", FALSE)}}, {"mail3"})) @@
    ("of events" :> For("event", None, FALSE, {}, {}, {"mail4"}))

Phone == {"phone"}
=============================================================================
