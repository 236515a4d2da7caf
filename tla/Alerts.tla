------------------------------- MODULE Alerts -------------------------------
(***************************************************************************)
(* E-mail and phone alerts about one superevent: requests that create it,  *)
(* change its preferred event and add and remove labels put alerts on the  *)
(* queue; workers take them off, in any order and as late as they like,    *)
(* work out the recipients and send.                                       *)
(*                                                                         *)
(* A request holds the instance it loaded and runs a sequence of steps.  A *)
(* task holds the instance of the request that made it, so its preferred   *)
(* event is the one of that moment; the labels are read when it runs.  The *)
(* broker hands a task out once: it is lost if its worker dies, and an     *)
(* alert that fails in one channel is not tried again.                     *)
(***************************************************************************)
EXTENDS Recipients, Sequences, FiniteSets

CONSTANTS
    Events,          \* the events that may be preferred
    FarOf,           \* the FAR of each event, or None
    NsCandidates,    \* the events that are neutron star candidates
    Offline,         \* the events that are offline
    Labels,
    Table,           \* the notifications of all users, with the contacts they name,
                     \* verified and of internal users
    Phones,          \* the contacts that are phone numbers; the others are e-mails
    LabelsAtCreation,  \* the labels a superevent may be created with, None for none
    Web,             \* web workers, which run requests
    MaxRequests,     \* bound on the requests
    MaxFaults        \* bound on the tasks that are lost or fail

ASSUME LabelsAssumption == LabelsAtCreation \subseteq Labels \cup {None}
ASSUME BoundsAssumption == MaxRequests \in Nat /\ MaxFaults \in Nat

\* TLC evaluates a definition once, and a constant that a configuration replaces every time.
Asks == Table
Far == FarOf

Notifications == DOMAIN Asks
ContactsOf(n) == Asks[n].contacts
Contacts == UNION {ContactsOf(n) : n \in Notifications}

VARIABLES
    pref,       \* the preferred event, None before the superevent is created
    labels,     \* the labels of the superevent
    inst,       \* the preferred event of the instance each request holds
    todo,       \* the steps each request has still to run
    queue,      \* the tasks on the queue
    requests,   \* the number of requests so far
    faults,     \* the number of faults so far
    sent,       \* history: how many alerts each contact has got
    expected,   \* history: how often a notification of each contact came to match
    due,        \* history: the notifications that came to match and are not reported yet
    calm,       \* history: no two requests have overlapped
    plain       \* history: no preferred event so far was offline or had a FAR of zero

vars == <<pref, labels, inst, todo, queue, requests, faults,
          sent, expected, due, calm, plain>>

Steps == [do : {"create", "save"}, event : Events] \cup
         [do : {"label", "unlabel"}, label : Labels] \cup
         [do : {"new"}] \cup [do : {"update"}, old : Events] \cup
         [do : {"label_added", "label_removed"}, label : Labels]

Idle(w) == todo[w] = <<>>
Quiet == queue = {} /\ \A w \in Web : Idle(w)

\* Every task is about an event the superevent was saved with, and no two tasks have
\* one number.
TypeOK ==
    /\ pref \in Events \cup {None}
    /\ labels \subseteq Labels
    /\ inst \in [Web -> Events \cup {None}]
    /\ \A w \in Web : todo[w] \in Seq(Steps)
    /\ \A t \in queue : t.pref \in Events /\ pref # None
    /\ \A t, u \in queue : t.id = u.id => t = u
    /\ requests \in 0 .. MaxRequests
    /\ faults \in 0 .. MaxFaults
    /\ due \subseteq Notifications
    /\ calm \in BOOLEAN /\ plain \in BOOLEAN

-----------------------------------------------------------------------------
(* What the recipient getter reads.                                        *)

Subject(e, ls) == [category |-> "superevent", group |-> None,
                   far |-> Far[e], ns |-> e \in NsCandidates, labels |-> ls]

\* Does the notification match, and is anything sent at all?
Wants(n, e, ls) == e # None /\ e \notin Offline /\ Matches(Asks[n], Subject(e, ls))

\* History, at every change of the superevent.
Write(e, ls) ==
    LET now == {n \in Notifications : Wants(n, e, ls)}
        new == now \ {n \in Notifications : Wants(n, pref, labels)}
    IN  /\ pref' = e
        /\ labels' = ls
        /\ due' = (due \cap now) \cup new
        /\ expected' = [c \in Contacts |->
               expected[c] + IF \E n \in new : c \in ContactsOf(n) THEN 1 ELSE 0]
        /\ plain' = (plain /\ e \notin Offline /\ Far[e] # 0)

-----------------------------------------------------------------------------
(* Requests.                                                               *)

Request(w, e, steps) ==
    /\ Idle(w)
    /\ requests < MaxRequests
    /\ requests' = requests + 1
    /\ inst' = [inst EXCEPT ![w] = e]
    /\ todo' = [todo EXCEPT ![w] = steps]
    /\ calm' = (calm /\ \A v \in Web : Idle(v))
    /\ UNCHANGED <<pref, labels, queue, faults, sent, expected, due, plain>>

\* A bug: the alert is put on the queue before there is a row.
AlertFirst(e, l) ==
    <<[do |-> "new"], [do |-> "create", event |-> e]>> \o
    IF l = None THEN <<>> ELSE <<[do |-> "label", label |-> l]>>

\* create_superevent: the row, the alert, then the labels.
CreateSuperevent(e, l) ==
    <<[do |-> "create", event |-> e], [do |-> "new"]>> \o
    IF l = None THEN <<>> ELSE <<[do |-> "label", label |-> l]>>

Create(w) ==
    /\ pref = None /\ \A v \in Web : Idle(v)
    /\ \E e \in Events, l \in LabelsAtCreation : Request(w, e, CreateSuperevent(e, l))

\* A bug: the old FAR is that of the instance after it has taken the new values.
UpdateFromNew(e) == <<[do |-> "save", event |-> e], [do |-> "update", old |-> e]>>

\* update_superevent.
UpdateSuperevent(e) == <<[do |-> "save", event |-> e], [do |-> "update", old |-> pref]>>

\* A PATCH that names an event as the preferred one, the old one included.
Patch(w) == pref # None /\ \E e \in Events : Request(w, e, UpdateSuperevent(e))

\* The request for a label the superevent has is refused, and so is the removal of one it
\* does not have.
Label(w) ==
    /\ pref # None
    /\ \/ \E l \in Labels \ labels : Request(w, pref, <<[do |-> "label", label |-> l]>>)
       \/ \E l \in labels : Request(w, pref, <<[do |-> "unlabel", label |-> l]>>)

\* The instance goes with the request.
Continue(w, more, i) ==
    /\ todo' = [todo EXCEPT ![w] = more \o Tail(@)]
    /\ inst' = [inst EXCEPT ![w] = IF todo'[w] = <<>> THEN None ELSE i]

\* The step that changes the superevent.  A save takes the new event into the instance.
\* get_or_create makes a label once, and only the request that made it sends an alert.
ChangeStep(w, s) ==
    /\ CASE s.do \in {"create", "save"} -> Write(s.event, labels) /\ Continue(w, <<>>, s.event)
         [] s.do = "label" /\ s.label \in labels ->
                Write(pref, labels) /\ Continue(w, <<>>, inst[w])
         [] s.do = "label" /\ s.label \notin labels ->
                /\ Write(pref, labels \cup {s.label})
                /\ Continue(w, <<[do |-> "label_added", label |-> s.label]>>, inst[w])
         [] s.do = "unlabel" ->
                /\ Write(pref, labels \ {s.label})
                /\ Continue(w, <<[do |-> "label_removed", label |-> s.label]>>, inst[w])
    /\ UNCHANGED queue

\* The arguments the issuer passes on.
AlertOf(s) ==
    CASE s.do = "new"    -> [type |-> "new"]
      [] s.do = "update" -> [type |-> "update",
                             old |-> [far |-> Far[s.old], ns |-> s.old \in NsCandidates]]
      [] OTHER           -> [type |-> s.do, label |-> s.label]

\* The number of a new task.
Fresh == CHOOSE i \in 0 .. Cardinality(queue) : \A t \in queue : t.id # i

\* sync_or_async_task, with the queue.
AsyncTask(w, s) ==
    /\ queue' = queue \cup {[id |-> Fresh, pref |-> inst[w], alert |-> AlertOf(s)]}
    /\ Continue(w, <<>>, inst[w])
    /\ UNCHANGED <<pref, labels, expected, due, plain>>

Step(w) ==
    /\ ~ Idle(w)
    /\ LET s == Head(todo[w])
       IN  IF s.do \in {"create", "save", "label", "unlabel"}
           THEN ChangeStep(w, s) ELSE AsyncTask(w, s)
    /\ UNCHANGED <<requests, faults, sent, calm>>

-----------------------------------------------------------------------------
(* Workers of the queue.                                                   *)

\* issue_phone_and_email_alerts: what it sets off, and whom it reaches if phones and
\* e-mails are reached as given.  The XMPP message goes first, then phones, then e-mails;
\* an exception in one keeps the next from being sent.
Notified(t) == IF t.pref \in Offline THEN {}
               ELSE GetNotifications(Asks, t.alert, Subject(t.pref, labels))

\* A bug: a contact gets an alert for each of its notifications.
AllOfThem(hit, c) == Cardinality({n \in hit : c \in ContactsOf(n)})

\* Contacts are distinct: one alert, however many notifications name it.
AlertsTo(hit, c) == IF \E n \in hit : c \in ContactsOf(n) THEN 1 ELSE 0

IssueAlerts(t, reached) ==
    LET hit == Notified(t)
    IN  /\ queue' = queue \ {t}
        /\ sent' = [c \in Contacts |-> sent[c] + IF c \in reached THEN AlertsTo(hit, c) ELSE 0]
        /\ due' = due \ {n \in hit : ContactsOf(n) \subseteq reached}
        /\ UNCHANGED <<pref, labels, inst, todo, requests, expected, calm, plain>>

RunTask == \E t \in queue : IssueAlerts(t, Contacts) /\ UNCHANGED faults

\* The worker dies before anything is sent, or an exception stops what is left to send.
FailTask == /\ faults < MaxFaults
            /\ faults' = faults + 1
            /\ \E t \in queue, reached \in {{}, Phones} : IssueAlerts(t, reached)

-----------------------------------------------------------------------------
Init ==
    /\ pref = None
    /\ labels = {}
    /\ inst = [w \in Web |-> None]
    /\ todo = [w \in Web |-> <<>>]
    /\ queue = {}
    /\ requests = 0
    /\ faults = 0
    /\ sent = [c \in Contacts |-> 0]
    /\ expected = [c \in Contacts |-> 0]
    /\ due = {}
    /\ calm = TRUE
    /\ plain = TRUE

Next == \/ \E w \in Web : Create(w) \/ Patch(w) \/ Label(w) \/ Step(w)
        \/ RunTask \/ FailTask

Spec == Init /\ [][Next]_vars

\* A request that has begun is carried through, and the workers go on working.
FairSpec == Spec /\ WF_vars(RunTask \/ \E w \in Web : Step(w))

-----------------------------------------------------------------------------
(* Properties.                                                             *)

Unlabelled(n) == Asks[n].labels = {} /\ Asks[n].query = {}

\* A contact whose notifications ask for no label gets exactly one alert each time one of
\* them comes to match, or none if it is lost, even where the queue runs late and out of
\* order: each task has the old values with it and the new ones in its instance.  This
\* takes requests that do not overlap, and no event that is offline or has a FAR of zero.
ReportedOnce ==
    /\ TypeOK
    /\ (Quiet /\ calm /\ plain) =>
           \A c \in Contacts :
               (\A n \in Notifications : c \in ContactsOf(n) => Unlabelled(n))
                   => sent[c] \in (IF faults = 0 THEN expected[c] ELSE 0) .. expected[c]

\* However requests overlap, whoever has a notification without labels that the superevent
\* meets in the end has been told of it.
NobodyIsMissed ==
    (Quiet /\ plain /\ faults = 0) =>
        \A n \in Notifications : Unlabelled(n) /\ Wants(n, pref, labels)
            => \A c \in ContactsOf(n) : sent[c] > 0

\* Sooner or later each notification that has come to match is reported or no longer
\* matches, labels included: an alert is put on the queue after the change it is about,
\* and whichever alert runs last finds what those before it could not see.
MatchesAreReported ==
    due # {} ~> (due = {} \/ ~ calm \/ ~ plain \/ faults > 0)
=============================================================================
