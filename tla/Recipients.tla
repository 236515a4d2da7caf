----------------------------- MODULE Recipients -----------------------------
(***************************************************************************)
(* Which notifications of the users an alert about an event or superevent  *)
(* sets off (alerts/recipients.py).                                        *)
(*                                                                         *)
(* A notification is a record [category, far, ns, labels, query, groups]:  *)
(* the FAR threshold or None, whether it asks for a neutron star candidate,*)
(* the labels it lists, its label query and the groups it asks for.  A     *)
(* subject is what the getter reads of the event, or of the preferred event*)
(* of the superevent: [category, far, ns, labels, group].  Pipelines and   *)
(* searches are filtered as groups are.  The table of notifications is a   *)
(* function from their names to these records.                             *)
(*                                                                         *)
(* A label query has no parentheses and AND binds stronger than OR: it is  *)
(* a set of clauses, each a set of literals [label, wanted].  A            *)
(* notification without a query has no clause.                             *)
(***************************************************************************)
EXTENDS Naturals

CONSTANT None     \* no FAR, no threshold

\* evaluate_label_queries.
Satisfied(query, ls) ==
    \E clause \in query : \A l \in clause : (l.label \in ls) = l.wanted

\* The labels a query mentions, negated or not, which the form copies to `labels'.
LabelsOf(query) == {l.label : l \in UNION query}

\* A FAR of zero is falsy: it passes no threshold.
FarFilter(n, s) == n.far = None \/ (s.far \notin {None, 0} /\ n.far > s.far)

NscandFilter(n, s) == n.ns => s.ns

GroupFilter(n, s) == s.category = "event" => (n.groups = {} \/ s.group \in n.groups)

FilterQuery(n, s) == /\ n.category = s.category
                     /\ FarFilter(n, s)
                     /\ NscandFilter(n, s)
                     /\ GroupFilter(n, s)

FilterForLabels(n, s) == IF n.query = {} THEN n.labels \subseteq s.labels
                                         ELSE Satisfied(n.query, s.labels)

\* The trigger query of an update: the threshold lies between the new FAR and the old
\* one, or the subject has become a neutron star candidate.
Crossed(n, s, old) ==
    \/ /\ n.far # None /\ s.far # None /\ s.far < n.far
       /\ old.far = None \/ n.far <= old.far
    \/ n.ns /\ s.ns /\ ~ old.ns

\* get_notifications, for each type of alert that has recipients.
GetNotifications(table, alert, s) ==
    {i \in DOMAIN table :
        LET n == table[i]
        IN  /\ FilterQuery(n, s)
            /\ CASE alert.type = "new"     -> FilterForLabels(n, s)
                 [] alert.type = "update"  -> Crossed(n, s, alert.old) /\ FilterForLabels(n, s)
                 [] alert.type = "label_added"   -> alert.label \in n.labels /\ FilterForLabels(n, s)
                 [] alert.type = "label_removed" -> /\ alert.label \in n.labels
                                                    /\ Satisfied(n.query, s.labels)}

\* What the notification asks for, whatever has just happened.
Matches(n, s) == FilterQuery(n, s) /\ FilterForLabels(n, s)
=============================================================================
