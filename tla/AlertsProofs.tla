---------------------------- MODULE AlertsProofs ----------------------------
(***************************************************************************)
(* Proofs about Alerts, for any events, notifications, number of requests  *)
(* that overlap, and number of tasks that are lost.                        *)
(***************************************************************************)
EXTENDS Alerts, FiniteSetTheorems, SequenceTheorems, TLAPS

\* FARs and thresholds are numbers, or there is none.
Sane ==
    /\ None \notin Events /\ None \notin Nat
    /\ FarOf \in [Events -> Nat \cup {None}]
    /\ \A n \in Notifications : Asks[n].far \in Nat \cup {None} /\ Asks[n].ns \in BOOLEAN

-----------------------------------------------------------------------------
(* The inductive invariant.                                                *)

\* An event that raises no question: alerts go out about it, and its FAR passes thresholds.
Fine(e) == e \notin Offline /\ Far[e] # 0

\* Does an alert about event e set off notification n, which asks for no label?
Hits(n, e, alert) == e \notin Offline /\ n \in GetNotifications(Asks, alert, Subject(e, {}))

\* Does an alert about event e reach contact c?
Reaches(c, e, alert) == \E n \in Notifications : c \in ContactsOf(n) /\ Hits(n, e, alert)

Doing(w, kinds) == ~ Idle(w) /\ Head(todo[w]).do \in kinds

\* A change of the preferred event under way, and the event it is compared with.
Comparing(w) == Doing(w, {"save", "update"})
OldOf(w) == IF Head(todo[w]).do = "update" THEN Head(todo[w]).old ELSE Head(Tail(todo[w])).old

\* What is left of a request when a step is to be run.
Shape(w) ==
    LET step == Head(todo[w])
        rest == Tail(todo[w])
        labelOrNothing(q) == q = <<>> \/ \E l \in Labels : q = <<[do |-> "label", label |-> l]>>
    IN  ~ Idle(w) =>
          /\ step.do \in {"create", "new", "save", "update",
                          "label", "unlabel", "label_added", "label_removed"}
          /\ step.do = "create" => /\ step.event \in Events /\ rest # <<>>
                                   /\ Head(rest) = [do |-> "new"] /\ labelOrNothing(Tail(rest))
          /\ step.do = "new"    => labelOrNothing(rest)
          /\ step.do = "save"   => /\ step.event \in Events
                                   /\ \E o \in Events : rest = <<[do |-> "update", old |-> o]>>
          /\ step.do = "update" => step.old \in Events /\ rest = <<>>
          /\ step.do \in {"label", "unlabel", "label_added", "label_removed"} =>
                 step.label \in Labels /\ rest = <<>>
          /\ inst[w] \in Events
          /\ pref = None <=> step.do = "create"

\* Nothing else runs while the superevent is created.
Birth == \A v, w \in Web : Doing(v, {"create"}) /\ ~ Idle(w) => v = w

AlertTypes == {"new", "update", "label_added", "label_removed"}

\* The numbers of tasks, requests and alerts.
Counters ==
    /\ IsFiniteSet(queue)
    /\ \A t \in queue : t.id \in Nat /\ t.alert.type \in AlertTypes
    /\ todo \in [Web -> Seq(Steps)]
    /\ sent \in [Contacts -> Nat] /\ expected \in [Contacts -> Nat]

\* Nothing the superevent was compared with raises a question, as long as none has.
PlainInv ==
    plain => /\ pref # None => Fine(pref)
             /\ \A w \in Web : Comparing(w) => Fine(OldOf(w))

\* Requests that do not overlap compare with the event that is preferred.
CalmInv ==
    calm => /\ \A v, w \in Web : ~ Idle(v) /\ ~ Idle(w) => v = w
            /\ \A w \in Web : Doing(w, {"save"}) => OldOf(w) = pref

\* The notification is met, or was by an event that something is compared with.
Met(n) == \/ Wants(n, pref, {})
          \/ \E w \in Web : Comparing(w) /\ Wants(n, OldOf(w), {})

Told(n) == \A c \in ContactsOf(n) : sent[c] > 0

\* An alert that sets it off is on the queue, or about to be put there.
Coming(n) == \/ \E t \in queue : Hits(n, t.pref, t.alert)
             \/ \E w \in Web : Doing(w, {"new", "update"}) /\ Hits(n, inst[w], AlertOf(Head(todo[w])))

MissInv ==
    plain /\ faults = 0 =>
        \A n \in Notifications : Unlabelled(n) /\ Met(n) => Told(n) \/ Coming(n)

\* The alerts that will reach a contact.
Waiting(c) == {t \in queue : Reaches(c, t.pref, t.alert)}
Owed(c) == IF \E w \in Web : /\ Doing(w, {"new", "update"})
                             /\ Reaches(c, inst[w], AlertOf(Head(todo[w])))
           THEN 1 ELSE 0

AsksNoLabel(c) == \A n \in Notifications : c \in ContactsOf(n) => Unlabelled(n)

CountInv ==
    calm /\ plain =>
        \A c \in Contacts : AsksNoLabel(c) =>
            /\ sent[c] + Cardinality(Waiting(c)) + Owed(c) <= expected[c]
            /\ faults = 0 => sent[c] + Cardinality(Waiting(c)) + Owed(c) = expected[c]

AlertInv ==
    /\ TypeOK /\ Counters
    /\ \A w \in Web : Shape(w)
    /\ Birth /\ PlainInv /\ CalmInv /\ MissInv /\ CountInv

-----------------------------------------------------------------------------
(* What sets off a notification that asks for no label.                    *)

LEMMA WantsPlainly ==
    ASSUME NEW n \in Notifications, Unlabelled(n), NEW e, NEW ls
    PROVE  /\ Wants(n, e, ls) <=> Wants(n, e, {})
           /\ Wants(n, e, {}) <=> /\ e # None /\ e \notin Offline
                                  /\ FilterQuery(Asks[n], Subject(e, {}))
BY DEF Unlabelled, Wants, Matches, FilterForLabels, FilterQuery, FarFilter, NscandFilter, GroupFilter,
       Subject

LEMMA NewHits ==
    ASSUME Sane, NEW n \in Notifications, Unlabelled(n), NEW e \in Events
    PROVE  Hits(n, e, [type |-> "new"]) <=> Wants(n, e, {})
<1>1. e # None
    BY DEF Sane
<1>2. FilterForLabels(Asks[n], Subject(e, {}))
    BY DEF Unlabelled, FilterForLabels
<1>3. n \in GetNotifications(Asks, [type |-> "new"], Subject(e, {})) <=>
          FilterQuery(Asks[n], Subject(e, {}))
    BY <1>2 DEF GetNotifications, Notifications
<1> QED BY <1>1, <1>3, WantsPlainly DEF Hits

LEMMA LabelsHitNothing ==
    ASSUME NEW n \in Notifications, Unlabelled(n), NEW e, NEW alert,
           alert.type \in {"label_added", "label_removed"}
    PROVE  ~ Hits(n, e, alert)
<1>1. alert.label \notin Asks[n].labels
    BY DEF Unlabelled
<1>2. n \notin GetNotifications(Asks, alert, Subject(e, {}))
    BY <1>1 DEF GetNotifications
<1> QED BY <1>2 DEF Hits

UpdateOf(o) == [type |-> "update", old |-> [far |-> Far[o], ns |-> o \in NsCandidates]]

\* An update sets off what the new event meets and the old one did not: the notifications that
\* come to match.
LEMMA UpdateHits ==
    ASSUME Sane, NEW n \in Notifications, Unlabelled(n), NEW e \in Events, NEW o \in Events, Fine(o)
    PROVE  Hits(n, e, UpdateOf(o)) <=> Wants(n, e, {}) /\ ~ Wants(n, o, {})
<1> DEFINE s == Subject(e, {})
           so == Subject(o, {})
           old == [far |-> Far[o], ns |-> o \in NsCandidates]
<1>1. FilterForLabels(Asks[n], s)
    BY DEF Unlabelled, FilterForLabels
<1>2. n \in GetNotifications(Asks, UpdateOf(o), s) <=>
          FilterQuery(Asks[n], s) /\ Crossed(Asks[n], s, old)
    BY <1>1 DEF GetNotifications, Notifications, UpdateOf
<1>3. Asks[n].far \in Nat \cup {None} /\ Asks[n].ns \in BOOLEAN /\ None \notin Nat
      /\ Far[e] \in Nat \cup {None} /\ Far[o] \in Nat \cup {None} /\ Far[o] # 0 /\ o \notin Offline
      /\ e # None /\ o # None
    BY DEF Sane, Far, Fine
<1>4. ASSUME FilterQuery(Asks[n], s)
      PROVE  Crossed(Asks[n], s, old) <=> ~ FilterQuery(Asks[n], so)
    <2>1. /\ s.far = Far[e] /\ so.far = Far[o] /\ old.far = Far[o]
          /\ s.ns = (e \in NsCandidates) /\ so.ns = (o \in NsCandidates) /\ old.ns = (o \in NsCandidates)
          /\ so.category = s.category /\ so.group = s.group
        BY DEF Subject
    <2> HIDE DEF s, so, old
    <2>2. FilterQuery(Asks[n], so) <=> FarFilter(Asks[n], so) /\ NscandFilter(Asks[n], so)
        BY <1>4, <2>1 DEF FilterQuery, GroupFilter
    <2>3. FarFilter(Asks[n], s) /\ NscandFilter(Asks[n], s)
        BY <1>4 DEF FilterQuery
    <2>4. ~ FarFilter(Asks[n], so) <=>
              /\ Asks[n].far # None /\ s.far # None /\ s.far < Asks[n].far
              /\ old.far = None \/ Asks[n].far <= old.far
        BY <1>3, <2>1, <2>3 DEF FarFilter
    <2>5. ~ NscandFilter(Asks[n], so) <=> Asks[n].ns /\ s.ns /\ ~ old.ns
        BY <1>3, <2>1, <2>3 DEF NscandFilter
    <2> QED BY <2>2, <2>4, <2>5 DEF Crossed
<1> QED BY <1>2, <1>3, <1>4, WantsPlainly DEF Hits

\* The labels at the time a task runs make no difference.
LEMMA TaskHits ==
    ASSUME NEW n \in Notifications, Unlabelled(n), NEW t, t.alert.type \in AlertTypes
    PROVE  n \in Notified(t) <=> Hits(n, t.pref, t.alert)
<1>1. \A ls : FilterForLabels(Asks[n], Subject(t.pref, ls))
    BY DEF Unlabelled, FilterForLabels
<1>2. \A ls : FilterQuery(Asks[n], Subject(t.pref, ls)) <=> FilterQuery(Asks[n], Subject(t.pref, {}))
    BY DEF FilterQuery, FarFilter, NscandFilter, GroupFilter, Subject
<1>3. \A ls : Crossed(Asks[n], Subject(t.pref, ls), t.alert.old)
                  <=> Crossed(Asks[n], Subject(t.pref, {}), t.alert.old)
    BY DEF Crossed, Subject
<1>4. t.alert.label \notin Asks[n].labels
    BY DEF Unlabelled
<1>5. ASSUME NEW ls
      PROVE  n \in GetNotifications(Asks, t.alert, Subject(t.pref, ls)) <=>
                 n \in GetNotifications(Asks, t.alert, Subject(t.pref, {}))
    <2>1. CASE t.alert.type = "new"
        BY <1>1, <1>2, <2>1 DEF GetNotifications
    <2>2. CASE t.alert.type = "update"
        BY <1>1, <1>2, <1>3, <2>2 DEF GetNotifications
    <2>3. CASE t.alert.type \in {"label_added", "label_removed"}
        BY <1>4, <2>3 DEF GetNotifications
    <2> QED BY <2>1, <2>2, <2>3 DEF AlertTypes
<1> QED BY <1>5 DEF Notified, Hits

-----------------------------------------------------------------------------
(* The parts of a request.                                                 *)

LEMMA OneStep ==
    ASSUME NEW a
    PROVE  /\ Head(<<a>>) = a /\ Tail(<<a>>) = <<>> /\ <<a>> # <<>>
           /\ <<a>> \o <<>> = <<a>>
<1> DEFINE q == <<a>>
<1>1. q \in Seq({a}) /\ q # <<>> /\ Len(q) = 1 /\ Head(q) = a
    OBVIOUS
<1> HIDE DEF q
<1>2. Tail(q) \in Seq({a}) /\ Len(Tail(q)) = 0
    BY <1>1, HeadTailProperties
<1>3. Tail(q) = <<>>
    BY <1>2, EmptySeq
<1>4. q \o <<>> = q
    BY <1>1, ConcatEmptySeq
<1> QED BY <1>1, <1>3, <1>4 DEF q

LEMMA TwoSteps ==
    ASSUME NEW a, NEW b
    PROVE  /\ Head(<<a, b>>) = a /\ Tail(<<a, b>>) = <<b>> /\ <<a, b>> # <<>>
           /\ <<a, b>> \o <<>> = <<a, b>> /\ <<a>> \o <<b>> = <<a, b>>
<1> DEFINE S == {a, b}
           q == <<a, b>>
           x == <<a>>
           y == <<b>>
<1>1. /\ q \in Seq(S) /\ q # <<>> /\ Len(q) = 2 /\ q[1] = a /\ q[2] = b /\ Head(q) = a
      /\ x \in Seq(S) /\ x # <<>> /\ Len(x) = 1 /\ x[1] = a
      /\ y \in Seq(S) /\ Len(y) = 1 /\ y[1] = b /\ b \in S
    OBVIOUS
<1>2. Tail(x) = <<>> /\ Append(<<>>, b) = y
    BY OneStep
<1> HIDE DEF q, x, S
<1>3. x \o y = q
    <2> HIDE DEF y
    <2>1. /\ x \o y \in Seq(S) /\ Len(x \o y) = Len(x) + Len(y)
          /\ \A i \in 1 .. Len(x) + Len(y) : (x \o y)[i] = IF i <= Len(x) THEN x[i] ELSE y[i - Len(x)]
        BY <1>1, ConcatProperties
    <2>2. (x \o y)[1] = a /\ (x \o y)[2] = b /\ Len(x \o y) = 2
        BY <1>1, <2>1
    <2>3. \A i \in 1 .. Len(q) : (x \o y)[i] = q[i]
        BY <1>1, <2>2
    <2> QED BY <1>1, <2>1, <2>2, <2>3, SeqEqual
<1>4. Append(x, b) = q
    BY <1>1, <1>3, AppendIsConcat
<1>5. Tail(q) = y
    <2>1. Tail(Append(x, b)) = Append(Tail(x), b)
        BY <1>1, HeadTailAppend
    <2> HIDE DEF y
    <2> QED BY <1>2, <1>4, <2>1
<1>6. q \o <<>> = q
    BY <1>1, ConcatEmptySeq
<1> QED BY <1>1, <1>3, <1>5, <1>6 DEF q, x

LEMMA ThreeSteps ==
    ASSUME NEW a, NEW b, NEW c
    PROVE  /\ Head(<<a, b, c>>) = a /\ Tail(<<a, b, c>>) = <<b, c>> /\ <<a, b, c>> # <<>>
           /\ <<a, b>> \o <<c>> = <<a, b, c>>
<1> DEFINE S == {a, b, c}
           q == <<a, b, c>>
           x == <<a, b>>
           y == <<c>>
           z == <<b>>
<1>1. /\ q \in Seq(S) /\ q # <<>> /\ Len(q) = 3 /\ q[1] = a /\ q[2] = b /\ q[3] = c /\ Head(q) = a
      /\ x \in Seq(S) /\ x # <<>> /\ Len(x) = 2 /\ x[1] = a /\ x[2] = b
      /\ y \in Seq(S) /\ Len(y) = 1 /\ y[1] = c /\ c \in S
      /\ z \in Seq(S) /\ z # <<>>
    OBVIOUS
<1>2. Tail(x) = z /\ Tail(z) = <<>> /\ Append(<<>>, c) = y
    BY OneStep, TwoSteps
<1>3. Append(z, c) = <<b, c>>
    <2>1. z \o y = <<b>> \o <<c>>
        OBVIOUS
    <2>2. Append(z, c) = z \o y
        BY <1>1, AppendIsConcat
    <2> QED BY <2>1, <2>2, TwoSteps
<1> HIDE DEF q, x, z, S
<1>4. x \o y = q
    <2> HIDE DEF y
    <2>1. /\ x \o y \in Seq(S) /\ Len(x \o y) = Len(x) + Len(y)
          /\ \A i \in 1 .. Len(x) + Len(y) : (x \o y)[i] = IF i <= Len(x) THEN x[i] ELSE y[i - Len(x)]
        BY <1>1, ConcatProperties
    <2>2. (x \o y)[1] = a /\ (x \o y)[2] = b /\ (x \o y)[3] = c /\ Len(x \o y) = 3
        BY <1>1, <2>1
    <2>3. \A i \in 1 .. Len(q) : (x \o y)[i] = q[i]
        BY <1>1, <2>2
    <2> QED BY <1>1, <2>1, <2>2, <2>3, SeqEqual
<1>5. Append(x, c) = q
    BY <1>1, <1>4, AppendIsConcat
<1>6. Tail(q) = <<b, c>>
    <2>1. Tail(Append(x, c)) = Append(Tail(x), c)
        BY <1>1, HeadTailAppend
    <2> QED BY <1>2, <1>3, <1>5, <2>1
<1> QED BY <1>1, <1>4, <1>6 DEF q, x

LEMMA NothingBefore ==
    ASSUME NEW S, NEW q \in Seq(S)
    PROVE  <<>> \o q = q
BY ConcatEmptySeq

LEMMA StepTypes ==
    /\ \A e \in Events : [do |-> "create", event |-> e] \in Steps /\ [do |-> "save", event |-> e] \in Steps
    /\ \A l \in Labels : /\ [do |-> "label", label |-> l] \in Steps
                         /\ [do |-> "unlabel", label |-> l] \in Steps
                         /\ [do |-> "label_added", label |-> l] \in Steps
                         /\ [do |-> "label_removed", label |-> l] \in Steps
    /\ [do |-> "new"] \in Steps
    /\ \A o \in Events : [do |-> "update", old |-> o] \in Steps
BY DEF Steps

\* What a step does to one worker it does to no other.
LEMMA OthersStill ==
    ASSUME NEW v \in Web, todo'[v] = todo[v], inst'[v] = inst[v]
    PROVE  /\ Idle(v)' <=> Idle(v)
           /\ \A kinds : Doing(v, kinds)' <=> Doing(v, kinds)
           /\ Comparing(v)' <=> Comparing(v)
           /\ OldOf(v)' = OldOf(v)
BY DEF Idle, Doing, Comparing, OldOf

-----------------------------------------------------------------------------
(* A request begins.                                                       *)

LEMMA AlertInit == ASSUME Sane, Init PROVE AlertInv
<1> USE DEF Init
<1>1. <<>> \in Seq(Steps)
    OBVIOUS
<1>2. \A w \in Web : Idle(w)
    BY DEF Idle
<1>3. TypeOK
    BY <1>1, BoundsAssumption DEF TypeOK
<1>4. Counters
    BY <1>1, FS_EmptySet DEF Counters
<1>5. (\A w \in Web : Shape(w)) /\ Birth /\ PlainInv /\ CalmInv
    BY <1>2 DEF Shape, Birth, PlainInv, CalmInv, Doing, Comparing
<1>6. MissInv
    BY <1>2 DEF MissInv, Met, Comparing, Doing, Wants
<1>7. CountInv
    <2>1. ASSUME NEW c \in Contacts
          PROVE  sent[c] = 0 /\ expected[c] = 0 /\ Cardinality(Waiting(c)) = 0 /\ Owed(c) = 0
        <3>1. Waiting(c) = {} /\ Owed(c) = 0
            BY <1>2 DEF Waiting, Owed, Doing
        <3> QED BY <3>1, FS_EmptySet
    <2>2. \A c \in Contacts : sent[c] + Cardinality(Waiting(c)) + Owed(c) = expected[c]
        BY <2>1
    <2>3. \A c \in Contacts : sent[c] + Cardinality(Waiting(c)) + Owed(c) <= expected[c]
        BY <2>1
    <2> QED BY <2>2, <2>3 DEF CountInv
<1> QED BY <1>3, <1>4, <1>5, <1>6, <1>7 DEF AlertInv

LEMMA RequestKeeps ==
    ASSUME Sane, AlertInv, NEW w \in Web, NEW e \in Events, NEW steps \in Seq(Steps), steps # <<>>,
           Request(w, e, steps), Head(steps).do \in {"create", "save", "label", "unlabel"},
           Shape(w)', Head(steps).do = "save" => OldOf(w)' = pref,
           Head(steps).do = "create" => \A v \in Web : Idle(v)
    PROVE  AlertInv'
<1>1. /\ Idle(w) /\ requests < MaxRequests /\ requests' = requests + 1
      /\ inst' = [inst EXCEPT ![w] = e] /\ todo' = [todo EXCEPT ![w] = steps]
      /\ calm' = (calm /\ \A v \in Web : Idle(v))
      /\ UNCHANGED <<pref, labels, queue, faults, sent, expected, due, plain>>
    BY DEF Request
<1>2. TypeOK /\ Counters /\ (\A v \in Web : Shape(v)) /\ Birth /\ PlainInv /\ CalmInv /\ MissInv /\ CountInv
    BY DEF AlertInv
<1>3. /\ todo'[w] = steps /\ inst'[w] = e
      /\ \A v \in Web : v # w => todo'[v] = todo[v] /\ inst'[v] = inst[v]
      /\ todo' \in [Web -> Seq(Steps)]
    BY <1>1, <1>2 DEF Counters, TypeOK
<1>4. ASSUME NEW v \in Web, v # w
      PROVE  /\ Idle(v)' <=> Idle(v)
             /\ \A kinds : Doing(v, kinds)' <=> Doing(v, kinds)
             /\ Comparing(v)' <=> Comparing(v)
             /\ OldOf(v)' = OldOf(v)
    BY <1>3, <1>4, OthersStill
<1>5. /\ Comparing(w)' => Head(steps).do = "save" /\ OldOf(w)' = pref
      /\ ~ Idle(w)' /\ ~ Doing(w, {"new", "update"})'
      /\ Doing(w, {"create"})' => Head(steps).do = "create"
      /\ ~ Comparing(w) /\ ~ Doing(w, {"new", "update"})
    BY <1>1, <1>3 DEF Comparing, Doing, Idle
<1>6. TypeOK'
    <2>1. requests' \in 0 .. MaxRequests
        BY <1>1, <1>2, BoundsAssumption DEF TypeOK
    <2>2. inst' \in [Web -> Events \cup {None}] /\ calm' \in BOOLEAN /\ \A v \in Web : todo'[v] \in Seq(Steps)
        BY <1>1, <1>2, <1>3 DEF TypeOK
    <2> QED BY <1>1, <1>2, <2>1, <2>2 DEF TypeOK
<1>7. Counters'
    BY <1>1, <1>2, <1>3 DEF Counters
<1>8. ASSUME NEW v \in Web PROVE Shape(v)'
    <2>1. CASE v = w
        BY <2>1
    <2>2. CASE v # w
        <3>1. Shape(v) /\ todo'[v] = todo[v] /\ inst'[v] = inst[v] /\ pref' = pref
            BY <1>1, <1>2, <1>3, <2>2
        <3> QED BY <3>1 DEF Shape, Idle
    <2> QED BY <2>1, <2>2
<1>9. Birth'
    <2>1. ASSUME NEW u \in Web, NEW v \in Web, Doing(u, {"create"})', ~ Idle(v)', u # v PROVE FALSE
        <3>1. CASE u = w
            BY <1>4, <1>5, <2>1, <3>1
        <3>2. CASE u # w
            <4>1. Doing(u, {"create"}) /\ pref = None
                BY <1>2, <1>4, <2>1, <3>2 DEF Shape, Doing
            <4>2. CASE v = w
                <5>1. Head(steps).do = "create"
                    BY <1>1, <1>3, <1>5, <4>1 DEF Shape
                <5> QED BY <4>1, <5>1 DEF Doing
            <4>3. CASE v # w
                BY <1>2, <1>4, <2>1, <4>1, <4>3 DEF Birth
            <4> QED BY <4>2, <4>3
        <3> QED BY <3>1, <3>2
    <2> QED BY <2>1 DEF Birth
<1>10. PlainInv'
    <2>1. ASSUME plain, NEW v \in Web, Comparing(v)' PROVE Fine(OldOf(v)')
        <3>1. CASE v = w
            <4>1. OldOf(w)' = pref /\ pref # None
                BY <1>1, <1>3, <1>5, <2>1, <3>1 DEF Shape
            <4> QED BY <1>2, <2>1, <3>1, <4>1 DEF PlainInv
        <3>2. CASE v # w
            BY <1>2, <1>4, <2>1, <3>2 DEF PlainInv
        <3> QED BY <3>1, <3>2
    <2> QED BY <1>1, <1>2, <2>1 DEF PlainInv, Fine
<1>11. CalmInv'
    <2>1. SUFFICES ASSUME calm' PROVE /\ \A u, v \in Web : ~ Idle(u)' /\ ~ Idle(v)' => u = v
                                      /\ \A v \in Web : Doing(v, {"save"})' => OldOf(v)' = pref
        BY <1>1 DEF CalmInv
    <2>2. \A v \in Web : v # w => Idle(v)'
        BY <1>1, <1>4, <2>1
    <2>3. Doing(w, {"save"})' => OldOf(w)' = pref
        BY <1>3, <1>5 DEF Doing
    <2> QED BY <2>2, <2>3 DEF Doing
<1>12. ASSUME NEW n \in Notifications PROVE /\ Met(n)' => Met(n)
                                            /\ Told(n)' <=> Told(n)
                                            /\ Coming(n) => Coming(n)'
    <2>1. Met(n)' => Met(n)
        <3>1. ASSUME NEW v \in Web, Comparing(v)', Wants(n, OldOf(v)', {}) PROVE Met(n)
            <4>1. CASE v = w
                BY <1>5, <3>1, <4>1 DEF Met
            <4>2. CASE v # w
                BY <1>4, <3>1, <4>2 DEF Met
            <4> QED BY <4>1, <4>2
        <3> QED BY <1>1, <3>1 DEF Met, Wants
    <2>2. Told(n)' <=> Told(n)
        BY <1>1 DEF Told
    <2>3. ASSUME NEW v \in Web, Doing(v, {"new", "update"}), Hits(n, inst[v], AlertOf(Head(todo[v])))
          PROVE  Doing(v, {"new", "update"})' /\ Hits(n, inst'[v], AlertOf(Head(todo'[v])))
        <3>1. v # w
            BY <1>5, <2>3
        <3> QED BY <1>3, <1>4, <2>3, <3>1
    <2>4. Coming(n) => Coming(n)'
        BY <1>1, <2>3 DEF Coming, Hits, AlertOf
    <2> QED BY <2>1, <2>2, <2>4
<1>13. MissInv'
    BY <1>1, <1>2, <1>12 DEF MissInv
<1>14. CountInv'
    <2>1. SUFFICES ASSUME calm', plain, NEW c \in Contacts, AsksNoLabel(c)
          PROVE  /\ sent[c] + Cardinality(Waiting(c))' + Owed(c)' <= expected[c]
                 /\ faults = 0 => sent[c] + Cardinality(Waiting(c))' + Owed(c)' = expected[c]
        BY <1>1 DEF CountInv
    <2>2. Waiting(c)' = Waiting(c)
        BY <1>1 DEF Waiting
    <2>3. Owed(c)' = 0 /\ Owed(c) = 0
        <3>1. \A v \in Web : Idle(v) /\ ~ Doing(v, {"new", "update"})'
            BY <1>1, <1>4, <1>5, <2>1 DEF Doing
        <3> QED BY <3>1 DEF Owed, Doing
    <2>4. calm
        BY <1>1, <2>1
    <2> QED BY <1>2, <2>1, <2>2, <2>3, <2>4 DEF CountInv
<1> QED BY <1>6, <1>7, <1>8, <1>9, <1>10, <1>11, <1>13, <1>14 DEF AlertInv

LEMMA CreateStep ==
    ASSUME Sane, AlertInv, NEW w \in Web, Create(w)
    PROVE  AlertInv'
<1>1. PICK e \in Events, l \in LabelsAtCreation : Request(w, e, CreateSuperevent(e, l))
    BY DEF Create
<1> DEFINE made == [do |-> "create", event |-> e]
           told == [do |-> "new"]
           lab == [do |-> "label", label |-> l]
           q == CreateSuperevent(e, l)
<1>2. made \in Steps /\ told \in Steps /\ (l # None => lab \in Steps /\ l \in Labels)
    BY StepTypes, LabelsAssumption
<1>3. q = IF l = None THEN <<made, told>> ELSE <<made, told, lab>>
    <2>1. q = <<made, told>> \o IF l = None THEN <<>> ELSE <<lab>>
        BY DEF CreateSuperevent
    <2> HIDE DEF made, told, lab, q
    <2>2. <<made, told>> \o <<>> = <<made, told>>
        BY TwoSteps, Zenon
    <2>3. <<made, told>> \o <<lab>> = <<made, told, lab>>
        BY ThreeSteps, Zenon
    <2> QED BY <2>1, <2>2, <2>3
<1>4. q \in Seq(Steps) /\ q # <<>> /\ Head(q) = made
    BY <1>2, <1>3
<1>5. Tail(q) = IF l = None THEN <<told>> ELSE <<told, lab>>
    BY <1>3, TwoSteps, ThreeSteps
<1>6. /\ Tail(q) # <<>> /\ Head(Tail(q)) = told
      /\ Tail(Tail(q)) = IF l = None THEN <<>> ELSE <<lab>>
    BY <1>5, OneStep, TwoSteps
<1>7. todo'[w] = q /\ inst'[w] = e /\ pref' = pref /\ pref = None /\ \A v \in Web : Idle(v)
    BY <1>1 DEF Create, Request, AlertInv, Counters, TypeOK
<1>8. Shape(w)'
    <2> HIDE DEF q
    <2> QED BY <1>2, <1>4, <1>6, <1>7 DEF Shape
<1>9. Head(q).do = "create"
    BY <1>4
<1> HIDE DEF q
<1> QED BY <1>1, <1>4, <1>7, <1>8, <1>9, RequestKeeps DEF q

LEMMA PatchStep ==
    ASSUME Sane, AlertInv, NEW w \in Web, Patch(w)
    PROVE  AlertInv'
<1>1. PICK e \in Events : Request(w, e, UpdateSuperevent(e))
    BY DEF Patch
<1> DEFINE q == UpdateSuperevent(e)
           save == [do |-> "save", event |-> e]
           update == [do |-> "update", old |-> pref]
<1>2. pref # None /\ pref \in Events
    BY DEF Patch, AlertInv, TypeOK
<1>3. q = <<save, update>> /\ save \in Steps /\ update \in Steps
    BY <1>2, StepTypes DEF UpdateSuperevent
<1>4. q \in Seq(Steps) /\ q # <<>> /\ Head(q) = save /\ Tail(q) = <<update>> /\ Head(Tail(q)) = update
    BY <1>3, OneStep, TwoSteps
<1>5. todo'[w] = q /\ inst'[w] = e /\ pref' = pref
    BY <1>1 DEF Request, AlertInv, Counters, TypeOK
<1>6. Shape(w)'
    <2> HIDE DEF q
    <2> QED BY <1>2, <1>4, <1>5 DEF Shape
<1>7. OldOf(w)' = pref /\ Head(q).do = "save"
    <2> HIDE DEF q
    <2> QED BY <1>4, <1>5 DEF OldOf
<1> HIDE DEF q
<1> QED BY <1>1, <1>4, <1>6, <1>7, RequestKeeps DEF q

LEMMA LabelStep ==
    ASSUME Sane, AlertInv, NEW w \in Web, Label(w)
    PROVE  AlertInv'
<1>1. PICK l \in Labels : \E s \in {[do |-> "label", label |-> l], [do |-> "unlabel", label |-> l]} :
          Request(w, pref, <<s>>)
    BY DEF Label, AlertInv, TypeOK
<1> PICK s \in {[do |-> "label", label |-> l], [do |-> "unlabel", label |-> l]} :
          Request(w, pref, <<s>>)
    BY <1>1
<1>2. pref # None /\ pref \in Events /\ s \in Steps /\ s.do \in {"label", "unlabel"} /\ s.label = l
    <2>1. pref # None /\ pref \in Events
        BY DEF Label, AlertInv, TypeOK
    <2>2. CASE s = [do |-> "label", label |-> l]
        BY <2>1, <2>2, StepTypes
    <2>3. CASE s = [do |-> "unlabel", label |-> l]
        BY <2>1, <2>3, StepTypes
    <2> QED BY <2>2, <2>3
<1> DEFINE q == <<s>>
<1>3. q \in Seq(Steps) /\ q # <<>> /\ Head(q) = s /\ Tail(q) = <<>>
    BY <1>2, OneStep
<1>4. todo'[w] = q /\ inst'[w] = pref /\ pref' = pref
    BY DEF Request, AlertInv, Counters, TypeOK
<1> HIDE DEF q
<1>5. Shape(w)'
    BY <1>2, <1>3, <1>4 DEF Shape
<1> QED BY <1>1, <1>2, <1>3, <1>5, RequestKeeps DEF q

-----------------------------------------------------------------------------
(* The steps of a request.                                                 *)

\* A contact whose notifications ask for no label is expected to get one more alert when one of
\* them comes to match.
LEMMA WriteIs ==
    ASSUME Sane, TypeOK, Counters, NEW e, NEW ls, Write(e, ls)
    PROVE  /\ pref' = e /\ labels' = ls /\ due' \subseteq Notifications
           /\ plain' = (plain /\ e \notin Offline /\ Far[e] # 0)
           /\ expected' \in [Contacts -> Nat]
           /\ \A c \in Contacts : AsksNoLabel(c) => expected'[c] = expected[c] +
                  IF \E n \in Notifications : c \in ContactsOf(n) /\ Wants(n, e, {}) /\ ~ Wants(n, pref, {})
                  THEN 1 ELSE 0
<1> DEFINE now == {n \in Notifications : Wants(n, e, ls)}
           new == now \ {n \in Notifications : Wants(n, pref, labels)}
<1>1. /\ pref' = e /\ labels' = ls /\ due' = (due \cap now) \cup new
      /\ expected' = [c \in Contacts |-> expected[c] + IF \E n \in new : c \in ContactsOf(n) THEN 1 ELSE 0]
      /\ plain' = (plain /\ e \notin Offline /\ Far[e] # 0)
    BY DEF Write
<1>2. due' \subseteq Notifications
    BY <1>1
<1>3. expected' \in [Contacts -> Nat]
    <2>1. \A c \in Contacts : expected[c] \in Nat
        BY DEF Counters
    <2> HIDE DEF new
    <2> QED BY <1>1, <2>1
<1>4. ASSUME NEW c \in Contacts, AsksNoLabel(c)
      PROVE  (\E n \in new : c \in ContactsOf(n)) <=>
                 \E n \in Notifications : c \in ContactsOf(n) /\ Wants(n, e, {}) /\ ~ Wants(n, pref, {})
    <2>1. ASSUME NEW n \in Notifications, c \in ContactsOf(n)
          PROVE  /\ Wants(n, e, ls) <=> Wants(n, e, {})
                 /\ Wants(n, pref, labels) <=> Wants(n, pref, {})
        <3>1. Unlabelled(n)
            BY <1>4, <2>1 DEF AsksNoLabel
        <3> QED BY <3>1, WantsPlainly
    <2>2. \A n : n \in new <=> n \in Notifications /\ Wants(n, e, ls) /\ ~ Wants(n, pref, labels)
        OBVIOUS
    <2> HIDE DEF new
    <2> QED BY <2>1, <2>2
<1> HIDE DEF new, now
<1> QED BY <1>1, <1>2, <1>3, <1>4

\* A step that writes the superevent: what it makes match, compared with the event base, is what
\* the alert that follows sets off.
LEMMA ChangeKeeps ==
    ASSUME Sane, AlertInv, NEW w \in Web, Doing(w, {"create", "save", "label", "unlabel"}),
           NEW e \in Events, NEW ls \in SUBSET Labels, Write(e, ls),
           NEW q \in Seq(Steps), todo' = [todo EXCEPT ![w] = q],
           NEW i \in Events \cup {None}, inst' = [inst EXCEPT ![w] = i],
           UNCHANGED <<queue, requests, faults, sent, calm>>, Shape(w)',
           Doing(w, {"create"}) \/ pref # None,
           ~ Doing(w, {"create", "save"})',
           Comparing(w)' => Doing(w, {"save"}) /\ OldOf(w)' = OldOf(w),
           NEW base \in {pref, OldOf(w)}, base = pref \/ Doing(w, {"save"}),
           Doing(w, {"save"}) => base = OldOf(w),
           plain' => \A n \in Notifications : Unlabelled(n) =>
               (Doing(w, {"new", "update"})' /\ Hits(n, i, AlertOf(Head(q)))
                    <=> Wants(n, e, {}) /\ ~ Wants(n, base, {}))
    PROVE  AlertInv'
<1>1. TypeOK /\ Counters /\ (\A v \in Web : Shape(v)) /\ Birth /\ PlainInv /\ CalmInv /\ MissInv /\ CountInv
    BY DEF AlertInv
<1>2. /\ pref' = e /\ labels' = ls /\ due' \subseteq Notifications
      /\ plain' = (plain /\ e \notin Offline /\ Far[e] # 0)
      /\ expected' \in [Contacts -> Nat]
      /\ \A c \in Contacts : AsksNoLabel(c) => expected'[c] = expected[c] +
             IF \E n \in Notifications : c \in ContactsOf(n) /\ Wants(n, e, {}) /\ ~ Wants(n, pref, {})
             THEN 1 ELSE 0
    BY <1>1, WriteIs
<1>3. /\ todo'[w] = q /\ inst'[w] = i
      /\ \A v \in Web : v # w => todo'[v] = todo[v] /\ inst'[v] = inst[v]
      /\ todo' \in [Web -> Seq(Steps)]
    BY <1>1 DEF Counters, TypeOK
<1>4. ASSUME NEW v \in Web, v # w
      PROVE  /\ Idle(v)' <=> Idle(v)
             /\ \A kinds : Doing(v, kinds)' <=> Doing(v, kinds)
             /\ Comparing(v)' <=> Comparing(v)
             /\ OldOf(v)' = OldOf(v)
    BY <1>3, <1>4, OthersStill
<1>5. ~ Doing(w, {"new", "update"}) /\ ~ Idle(w) /\ e # None
    BY DEF Doing, Sane
<1>6. TypeOK'
    <2>1. inst' \in [Web -> Events \cup {None}] /\ \A v \in Web : todo'[v] \in Seq(Steps)
        BY <1>1, <1>3 DEF TypeOK
    <2> QED BY <1>1, <1>2, <1>5, <2>1 DEF TypeOK
<1>7. Counters'
    BY <1>1, <1>2, <1>3 DEF Counters
<1>8. ASSUME NEW v \in Web PROVE Shape(v)'
    <2>1. CASE v = w
        BY <2>1
    <2>2. CASE v # w
        <3>1. Shape(v) /\ todo'[v] = todo[v] /\ inst'[v] = inst[v] /\ pref' # None
            BY <1>1, <1>2, <1>3, <1>5, <2>2
        <3>2. ~ Idle(v) => pref # None
            BY <1>1, <1>5, <2>2 DEF Birth
        <3> QED BY <3>1, <3>2 DEF Shape, Idle
    <2> QED BY <2>1, <2>2
<1>9. Birth'
    <2>1. \A v \in Web : ~ Doing(v, {"create"})'
        BY <1>2, <1>5, <1>8 DEF Shape, Doing
    <2> QED BY <2>1 DEF Birth
<1>10. PlainInv'
    <2>1. ASSUME plain', NEW v \in Web, Comparing(v)' PROVE Fine(OldOf(v)')
        <3>1. CASE v = w
            <4>1. OldOf(w)' = OldOf(w) /\ Comparing(w)
                BY <2>1, <3>1 DEF Comparing, Doing
            <4> QED BY <1>1, <1>2, <2>1, <3>1, <4>1 DEF PlainInv
        <3>2. CASE v # w
            BY <1>1, <1>2, <1>4, <2>1, <3>2 DEF PlainInv
        <3> QED BY <3>1, <3>2
    <2> QED BY <1>2, <2>1 DEF PlainInv, Fine
<1>11. CalmInv'
    <2>1. SUFFICES ASSUME calm PROVE /\ \A u, v \in Web : ~ Idle(u)' /\ ~ Idle(v)' => u = v
                                     /\ \A v \in Web : ~ Doing(v, {"save"})'
        BY DEF CalmInv
    <2>2. \A v \in Web : v # w => Idle(v) /\ Idle(v)'
        BY <1>1, <1>4, <1>5, <2>1 DEF CalmInv
    <2>3. ~ Doing(w, {"save"})'
        BY DEF Doing
    <2> QED BY <2>2, <2>3 DEF Doing
<1>12. MissInv'
    <2>1. SUFFICES ASSUME plain', faults = 0, NEW n \in Notifications, Unlabelled(n), Met(n)'
          PROVE  Told(n)' \/ Coming(n)'
        BY DEF MissInv
    <2>2. Told(n) => Told(n)'
        BY DEF Told
    <2>3. Coming(n) => Coming(n)'
        <3>1. ASSUME NEW v \in Web, Doing(v, {"new", "update"}), Hits(n, inst[v], AlertOf(Head(todo[v])))
              PROVE  Doing(v, {"new", "update"})' /\ Hits(n, inst'[v], AlertOf(Head(todo'[v])))
            <4>1. v # w
                BY <1>5, <3>1
            <4> QED BY <1>3, <1>4, <3>1, <4>1
        <3> QED BY <3>1 DEF Coming, Hits, AlertOf
    <2>4. Met(n) => Told(n)' \/ Coming(n)'
        BY <1>1, <1>2, <2>1, <2>2, <2>3 DEF MissInv
    <2>5. CASE Wants(n, e, {}) /\ ~ Wants(n, base, {})
        <3>1. Doing(w, {"new", "update"})' /\ Hits(n, i, AlertOf(Head(q)))
            BY <2>1, <2>5
        <3>2. Coming(n)'
            BY <1>3, <3>1 DEF Coming, Hits, AlertOf
        <3> QED BY <3>2
    <2>6. CASE Wants(n, base, {})
        <3>1. Met(n)
            BY <2>6 DEF Met, Comparing, Doing
        <3> QED BY <2>4, <3>1
    <2>7. ASSUME NEW v \in Web, Comparing(v)', Wants(n, OldOf(v)', {}) PROVE Met(n)
        <3>1. CASE v = w
            <4>1. OldOf(w)' = OldOf(w) /\ Comparing(w)
                BY <2>7, <3>1 DEF Comparing, Doing
            <4> QED BY <2>7, <3>1, <4>1 DEF Met
        <3>2. CASE v # w
            BY <1>4, <2>7, <3>2 DEF Met
        <3> QED BY <3>1, <3>2
    <2>8. Wants(n, e, {}) \/ \E v \in Web : Comparing(v)' /\ Wants(n, OldOf(v)', {})
        BY <1>2, <2>1 DEF Met, Wants
    <2> QED BY <2>4, <2>5, <2>6, <2>7, <2>8
<1>13. CountInv'
    <2>1. SUFFICES ASSUME calm, plain', NEW c \in Contacts, AsksNoLabel(c)
          PROVE  /\ sent[c] + Cardinality(Waiting(c))' + Owed(c)' <= expected'[c]
                 /\ faults = 0 => sent[c] + Cardinality(Waiting(c))' + Owed(c)' = expected'[c]
        BY DEF CountInv
    <2>2. Waiting(c)' = Waiting(c)
        BY DEF Waiting
    <2>3. \A v \in Web : v # w => Idle(v) /\ Idle(v)'
        BY <1>1, <1>4, <1>5, <2>1 DEF CalmInv
    <2>4. base = pref
        BY <1>1, <2>1 DEF CalmInv
    <2>5. Owed(c) = 0
        BY <1>5, <2>3 DEF Owed, Doing
    <2>6. ASSUME NEW n \in Notifications, c \in ContactsOf(n)
          PROVE  (Doing(w, {"new", "update"})' /\ Hits(n, i, AlertOf(Head(q))))
                     <=> (Wants(n, e, {}) /\ ~ Wants(n, pref, {}))
        BY <2>1, <2>4, <2>6 DEF AsksNoLabel
    <2>7. Doing(w, {"new", "update"})' /\ Reaches(c, i, AlertOf(Head(q)))
              <=> \E n \in Notifications : c \in ContactsOf(n) /\ Wants(n, e, {}) /\ ~ Wants(n, pref, {})
        BY <2>6 DEF Reaches
    <2>8. Owed(c)' = IF Doing(w, {"new", "update"})' /\ Reaches(c, i, AlertOf(Head(q))) THEN 1 ELSE 0
        <3>1. \A v \in Web : v # w => ~ Doing(v, {"new", "update"})'
            BY <2>3 DEF Doing
        <3> QED BY <1>3, <3>1 DEF Owed, Reaches, Hits, AlertOf
    <2>9. expected'[c] = expected[c] + Owed(c)'
        BY <1>2, <2>1, <2>7, <2>8
    <2>10. /\ sent[c] + Cardinality(Waiting(c)) <= expected[c]
           /\ faults = 0 => sent[c] + Cardinality(Waiting(c)) = expected[c]
           /\ sent[c] \in Nat /\ expected[c] \in Nat /\ Cardinality(Waiting(c)) \in Nat
        <3>1. sent[c] \in Nat /\ expected[c] \in Nat /\ Cardinality(Waiting(c)) \in Nat
            <4>1. Waiting(c) \subseteq queue
                BY DEF Waiting
            <4> QED BY <1>1, <4>1, FS_Subset, FS_CardinalityType DEF Counters
        <3>2. /\ sent[c] + Cardinality(Waiting(c)) + Owed(c) <= expected[c]
              /\ faults = 0 => sent[c] + Cardinality(Waiting(c)) + Owed(c) = expected[c]
            BY <1>1, <1>2, <2>1 DEF CountInv
        <3> QED BY <2>5, <3>1, <3>2
    <2>11. Owed(c)' \in Nat
        BY DEF Owed
    <2> QED BY <2>2, <2>9, <2>10, <2>11
<1> QED BY <1>6, <1>7, <1>8, <1>9, <1>10, <1>11, <1>12, <1>13 DEF AlertInv

\* create_superevent makes the row.
LEMMA MakeStep ==
    ASSUME Sane, AlertInv, NEW w \in Web, Step(w), Head(todo[w]).do = "create"
    PROVE  AlertInv'
<1> DEFINE s == Head(todo[w])
           q == Tail(todo[w])
           e == s.event
<1>1. /\ ~ Idle(w) /\ Write(e, labels) /\ Continue(w, <<>>, e)
      /\ UNCHANGED <<queue, requests, faults, sent, calm>>
    BY DEF Step, ChangeStep
<1>2. /\ Shape(w) /\ TypeOK /\ Counters /\ Doing(w, {"create"})
    BY <1>1 DEF AlertInv, Doing
<1>3. /\ e \in Events /\ e # None /\ q # <<>> /\ Head(q) = [do |-> "new"] /\ pref = None
      /\ Tail(q) = <<>> \/ \E l \in Labels : Tail(q) = <<[do |-> "label", label |-> l]>>
    BY <1>1, <1>2 DEF Shape, Sane
<1>4. q \in Seq(Steps) /\ <<>> \o q = q
    <2>1. todo[w] \in Seq(Steps) /\ todo[w] # <<>>
        BY <1>1, <1>2 DEF Counters, Idle
    <2>2. q \in Seq(Steps)
        BY <2>1, HeadTailProperties
    <2> QED BY <2>2, NothingBefore
<1>5. todo' = [todo EXCEPT ![w] = q] /\ todo'[w] = q
    BY <1>1, <1>2, <1>4 DEF Continue, Counters
<1>6. inst' = [inst EXCEPT ![w] = e] /\ inst'[w] = e
    BY <1>1, <1>2, <1>3, <1>5 DEF Continue, TypeOK
<1>7. pref' = e /\ (plain' => plain /\ Fine(e))
    BY <1>1 DEF Write, Fine
<1> HIDE DEF q
<1>8. Shape(w)' /\ ~ Doing(w, {"create", "save"})' /\ ~ Comparing(w)' /\ Doing(w, {"new", "update"})'
    BY <1>3, <1>5, <1>6, <1>7 DEF Shape, Doing, Comparing, Idle
<1>9. ASSUME NEW n \in Notifications, Unlabelled(n)
      PROVE  (Doing(w, {"new", "update"})' /\ Hits(n, e, AlertOf(Head(q))))
                 <=> (Wants(n, e, {}) /\ ~ Wants(n, pref, {}))
    <2>1. AlertOf(Head(q)) = [type |-> "new"]
        BY <1>3 DEF AlertOf
    <2>2. ~ Wants(n, pref, {})
        BY <1>3 DEF Wants
    <2> QED BY <1>3, <1>8, <1>9, <2>1, <2>2, NewHits
<1> HIDE DEF e
<1>10. /\ Doing(w, {"create", "save", "label", "unlabel"}) /\ ~ Doing(w, {"save"})
       /\ labels \in SUBSET Labels
    BY <1>2 DEF Doing, TypeOK
<1> QED BY <1>1, <1>2, <1>3, <1>4, <1>5, <1>6, <1>8, <1>9, <1>10, ChangeKeeps

\* update_superevent saves the new preferred event.
LEMMA SaveStep ==
    ASSUME Sane, AlertInv, NEW w \in Web, Step(w), Head(todo[w]).do = "save"
    PROVE  AlertInv'
<1> DEFINE s == Head(todo[w])
           q == Tail(todo[w])
           e == s.event
           old == OldOf(w)
<1>1. /\ ~ Idle(w) /\ Write(e, labels) /\ Continue(w, <<>>, e)
      /\ UNCHANGED <<queue, requests, faults, sent, calm>>
    BY DEF Step, ChangeStep
<1>2. /\ Shape(w) /\ TypeOK /\ Counters /\ Doing(w, {"save"}) /\ Comparing(w) /\ PlainInv
    BY <1>1 DEF AlertInv, Doing, Comparing
<1>3. e \in Events /\ e # None /\ pref # None
    BY <1>1, <1>2 DEF Shape, Sane
<1>4. PICK o \in Events : q = <<[do |-> "update", old |-> o]>>
    BY <1>1, <1>2 DEF Shape
<1>5. q \in Seq(Steps) /\ <<>> \o q = q
    <2>1. [do |-> "update", old |-> o] \in Steps
        BY StepTypes
    <2>2. <<[do |-> "update", old |-> o]>> \in Seq(Steps)
        BY <2>1
    <2> HIDE DEF q
    <2>3. q \in Seq(Steps)
        BY <1>4, <2>2
    <2> QED BY <2>3, NothingBefore
<1>6. q # <<>> /\ Head(q) = [do |-> "update", old |-> o] /\ Tail(q) = <<>> /\ old = o
    <2>1. q # <<>> /\ Head(q) = [do |-> "update", old |-> o] /\ Tail(q) = <<>>
        BY <1>4, OneStep
    <2>2. old = Head(q).old
        BY DEF OldOf
    <2> HIDE DEF q, old
    <2> QED BY <2>1, <2>2
<1>7. todo' = [todo EXCEPT ![w] = q] /\ todo'[w] = q
    BY <1>1, <1>2, <1>5 DEF Continue, Counters
<1>8. inst' = [inst EXCEPT ![w] = e] /\ inst'[w] = e
    BY <1>1, <1>2, <1>3, <1>6, <1>7 DEF Continue, TypeOK
<1>9. pref' = e /\ (plain' => plain)
    BY <1>1 DEF Write
<1> HIDE DEF q
<1>10. /\ Shape(w)' /\ ~ Doing(w, {"create", "save"})' /\ OldOf(w)' = OldOf(w)
       /\ Doing(w, {"new", "update"})'
    <2>1. Head(todo'[w]).do = "update" /\ Head(todo'[w]).old = o /\ ~ Idle(w)'
        BY <1>6, <1>7 DEF Idle
    <2>2. OldOf(w)' = OldOf(w)
        BY <1>6, <2>1 DEF OldOf
    <2>3. Shape(w)'
        BY <1>3, <1>6, <1>7, <1>8, <1>9, <2>1 DEF Shape
    <2> QED BY <2>1, <2>2, <2>3 DEF Doing
<1>11. ASSUME plain', NEW n \in Notifications, Unlabelled(n)
       PROVE  (Doing(w, {"new", "update"})' /\ Hits(n, e, AlertOf(Head(q))))
                  <=> (Wants(n, e, {}) /\ ~ Wants(n, old, {}))
    <2>1. AlertOf(Head(q)) = UpdateOf(o)
        BY <1>6 DEF AlertOf, UpdateOf
    <2>2. Fine(o)
        BY <1>2, <1>6, <1>9, <1>11 DEF PlainInv
    <2>3. Hits(n, e, UpdateOf(o)) <=> (Wants(n, e, {}) /\ ~ Wants(n, o, {}))
        BY <1>3, <1>11, <2>2, UpdateHits
    <2> QED BY <1>6, <1>10, <2>1, <2>3
<1> HIDE DEF e, old
<1>12. Doing(w, {"create", "save", "label", "unlabel"}) /\ labels \in SUBSET Labels /\ old = OldOf(w)
    BY <1>2 DEF Doing, TypeOK, old
<1> QED BY <1>1, <1>2, <1>3, <1>5, <1>7, <1>8, <1>10, <1>11, <1>12, ChangeKeeps

\* Labels are added and removed: no notification that asks for none comes to match.
LEMMA RelabelStep ==
    ASSUME Sane, AlertInv, NEW w \in Web, Step(w), Head(todo[w]).do \in {"label", "unlabel"}
    PROVE  AlertInv'
<1> DEFINE s == Head(todo[w])
<1>1. /\ ~ Idle(w) /\ ChangeStep(w, s) /\ UNCHANGED <<requests, faults, sent, calm>>
    BY DEF Step
<1>2. /\ Shape(w) /\ TypeOK /\ Counters /\ Doing(w, {"label", "unlabel"}) /\ inst[w] \in Events
    BY <1>1 DEF AlertInv, Doing, Shape
<1>3. pref # None /\ pref \in Events /\ s.label \in Labels /\ Tail(todo[w]) = <<>>
    BY <1>1, <1>2 DEF Shape, TypeOK
<1> DEFINE added == <<[do |-> "label_added", label |-> s.label]>>
           removed == <<[do |-> "label_removed", label |-> s.label]>>
<1>4. PICK q \in {<<>>, added, removed} :
          /\ \E ls \in SUBSET Labels : Write(pref, ls)
          /\ Continue(w, q, inst[w]) /\ UNCHANGED queue
    <2>1. labels \in SUBSET Labels /\ labels \cup {s.label} \in SUBSET Labels
          /\ labels \ {s.label} \in SUBSET Labels
        BY <1>2, <1>3 DEF TypeOK
    <2>2. CASE s.do = "label" /\ s.label \in labels
        BY <1>1, <2>1, <2>2 DEF ChangeStep
    <2>3. CASE s.do = "label" /\ s.label \notin labels
        BY <1>1, <2>1, <2>3 DEF ChangeStep
    <2>4. CASE s.do = "unlabel"
        BY <1>1, <2>1, <2>4 DEF ChangeStep
    <2> QED BY <2>2, <2>3, <2>4
<1>5. PICK ls \in SUBSET Labels : Write(pref, ls)
    BY <1>4
<1>6. /\ q \in Seq(Steps) /\ q \o <<>> = q
      /\ q # <<>> => /\ Head(q).do \in {"label_added", "label_removed"} /\ Head(q).label \in Labels
                     /\ Tail(q) = <<>>
    <2>1. CASE q = <<>>
        BY <2>1
    <2>2. CASE q = added
        <3> DEFINE x == [do |-> "label_added", label |-> s.label]
        <3>1. x \in Steps /\ x.do = "label_added" /\ x.label \in Labels
            BY <1>3, StepTypes
        <3>2. q = <<x>>
            BY <2>2
        <3> HIDE DEF x
        <3>3. q \in Seq(Steps) /\ Head(q) = x /\ Tail(q) = <<>> /\ q \o <<>> = q
            BY <3>1, <3>2, OneStep
        <3> QED BY <3>1, <3>3
    <2>3. CASE q = removed
        <3> DEFINE x == [do |-> "label_removed", label |-> s.label]
        <3>1. x \in Steps /\ x.do = "label_removed" /\ x.label \in Labels
            BY <1>3, StepTypes
        <3>2. q = <<x>>
            BY <2>3
        <3> HIDE DEF x
        <3>3. q \in Seq(Steps) /\ Head(q) = x /\ Tail(q) = <<>> /\ q \o <<>> = q
            BY <3>1, <3>2, OneStep
        <3> QED BY <3>1, <3>3
    <2> QED BY <1>4, <2>1, <2>2, <2>3
<1> HIDE DEF added, removed
<1>7. todo' = [todo EXCEPT ![w] = q] /\ todo'[w] = q
    BY <1>2, <1>3, <1>4, <1>6 DEF Continue, Counters
<1> DEFINE i == IF q = <<>> THEN None ELSE inst[w]
<1>8. inst' = [inst EXCEPT ![w] = i] /\ inst'[w] = i
    BY <1>2, <1>4, <1>7 DEF Continue, TypeOK
<1>9. pref' = pref
    BY <1>5 DEF Write
<1>10. /\ Shape(w)' /\ ~ Doing(w, {"create", "save"})' /\ ~ Comparing(w)'
       /\ ~ Doing(w, {"new", "update"})'
    BY <1>2, <1>3, <1>6, <1>7, <1>8, <1>9 DEF Shape, Doing, Comparing, Idle
<1>11. /\ Doing(w, {"create", "save", "label", "unlabel"}) /\ ~ Doing(w, {"save"})
       /\ i \in Events \cup {None}
    BY <1>2 DEF Doing
<1> HIDE DEF i
<1>12. \A n \in Notifications : Unlabelled(n) =>
           (Doing(w, {"new", "update"})' /\ Hits(n, i, AlertOf(Head(q)))
                <=> Wants(n, pref, {}) /\ ~ Wants(n, pref, {}))
    BY <1>10
<1> QED BY <1>1, <1>3, <1>4, <1>5, <1>6, <1>7, <1>8, <1>10, <1>11, <1>12, ChangeKeeps

\* A task is put on the queue: what was owed is waiting.
LEMMA AsyncStep ==
    ASSUME Sane, AlertInv, NEW w \in Web, Step(w),
           Head(todo[w]).do \in {"new", "update", "label_added", "label_removed"}
    PROVE  AlertInv'
<1> DEFINE s == Head(todo[w])
           q == Tail(todo[w])
           t == [id |-> Fresh, pref |-> inst[w], alert |-> AlertOf(s)]
           i == IF q = <<>> THEN None ELSE inst[w]
<1>1. /\ ~ Idle(w) /\ AsyncTask(w, s) /\ UNCHANGED <<requests, faults, sent, calm>>
    BY DEF Step
<1>2. TypeOK /\ Counters /\ (\A v \in Web : Shape(v)) /\ Birth /\ PlainInv /\ CalmInv /\ MissInv /\ CountInv
    BY DEF AlertInv
<1>3. /\ queue' = queue \cup {t} /\ UNCHANGED <<pref, labels, expected, due, plain>>
      /\ Continue(w, <<>>, inst[w])
    BY <1>1 DEF AsyncTask
<1>4. /\ pref # None /\ inst[w] \in Events
      /\ q = <<>> \/ \E l \in Labels : q = <<[do |-> "label", label |-> l]>>
    BY <1>1, <1>2 DEF Shape
<1>5. q \in Seq(Steps) /\ <<>> \o q = q
    <2>1. todo[w] \in Seq(Steps) /\ todo[w] # <<>>
        BY <1>1, <1>2 DEF Counters, Idle
    <2>2. q \in Seq(Steps)
        BY <2>1, HeadTailProperties
    <2> QED BY <2>2, NothingBefore
<1> HIDE DEF q
<1>6. q # <<>> => Head(q).do = "label" /\ Head(q).label \in Labels /\ Tail(q) = <<>>
    <2>1. SUFFICES ASSUME NEW l \in Labels, q = <<[do |-> "label", label |-> l]>>
                   PROVE  Head(q).do = "label" /\ Head(q).label \in Labels /\ Tail(q) = <<>>
        BY <1>4
    <2>2. Head(q) = [do |-> "label", label |-> l] /\ Tail(q) = <<>>
        BY <2>1, OneStep
    <2> QED BY <2>2
<1>7. todo' = [todo EXCEPT ![w] = q] /\ todo'[w] = q
    BY <1>2, <1>3, <1>5 DEF Continue, Counters, q
<1>8. /\ inst' = [inst EXCEPT ![w] = i] /\ inst'[w] = i /\ i \in Events \cup {None}
    BY <1>2, <1>3, <1>4, <1>7 DEF Continue, TypeOK
<1> HIDE DEF i
<1>9. /\ \A v \in Web : v # w => todo'[v] = todo[v] /\ inst'[v] = inst[v]
      /\ todo' \in [Web -> Seq(Steps)] /\ inst' \in [Web -> Events \cup {None}]
    BY <1>2, <1>5, <1>7, <1>8 DEF Counters, TypeOK
<1>10. ASSUME NEW v \in Web, v # w
       PROVE  /\ Idle(v)' <=> Idle(v)
              /\ \A kinds : Doing(v, kinds)' <=> Doing(v, kinds)
              /\ Comparing(v)' <=> Comparing(v)
              /\ OldOf(v)' = OldOf(v)
    BY <1>9, <1>10, OthersStill
\* The number of the task is a new one.
<1>11. Fresh \in Nat /\ \A u \in queue : u.id # Fresh
    <2> DEFINE k == Cardinality(queue)
               ids == {u.id : u \in queue}
    <2>1. IsFiniteSet(queue) /\ k \in Nat
        BY <1>2, FS_CardinalityType DEF Counters
    <2>2. IsFiniteSet(ids) /\ Cardinality(ids) <= k
        <3> DEFINE f == [u \in queue |-> u.id]
        <3>1. f \in [queue -> ids] /\ \A n \in ids : \E u \in queue : f[u] = n
            OBVIOUS
        <3>2. f \in Surjection(queue, ids)
            BY <3>1 DEF Surjection
        <3> QED BY <2>1, <3>2, FS_Surjection
    <2>3. \E n \in 0 .. k : n \notin ids
        <3>1. SUFFICES ASSUME 0 .. k \subseteq ids PROVE FALSE
            OBVIOUS
        <3>2. Cardinality(0 .. k) = k + 1
            BY <2>1, FS_Interval
        <3>3. Cardinality(0 .. k) <= Cardinality(ids) /\ Cardinality(ids) \in Nat
            BY <2>2, <3>1, FS_Subset, FS_CardinalityType
        <3> QED BY <2>1, <2>2, <3>2, <3>3
    <2>4. \E n \in 0 .. k : \A u \in queue : u.id # n
        BY <2>3
    <2>5. Fresh \in 0 .. k /\ \A u \in queue : u.id # Fresh
        BY <2>4 DEF Fresh
    <2> QED BY <2>1, <2>5
<1>12. t.id = Fresh /\ t.pref = inst[w] /\ t.alert = AlertOf(s) /\ t \notin queue
    BY <1>11
<1> HIDE DEF t
<1>13. t.alert.type = s.do
    <2>1. s.do \in {"new", "update", "label_added", "label_removed"}
        OBVIOUS
    <2> QED BY <1>12, <2>1 DEF AlertOf
<1>14. /\ Doing(w, {"new", "update"}) <=> s.do \in {"new", "update"}
       /\ ~ Doing(w, {"save", "create", "label", "unlabel"})
       /\ ~ Doing(w, {"new", "update", "save", "create"})'
    BY <1>1, <1>6, <1>7 DEF Doing, Idle
\* It sets off what was about to be set off.
<1>15. ASSUME NEW n \in Notifications, Unlabelled(n)
       PROVE  Hits(n, t.pref, t.alert) <=>
                  (Doing(w, {"new", "update"}) /\ Hits(n, inst[w], AlertOf(s)))
    <2>1. CASE s.do \in {"new", "update"}
        BY <1>12, <1>14, <2>1
    <2>2. CASE s.do \notin {"new", "update"}
        BY <1>12, <1>13, <1>14, <1>15, <2>2, LabelsHitNothing
    <2> QED BY <2>1, <2>2
<1>16. TypeOK'
    BY <1>1, <1>2, <1>3, <1>4, <1>9, <1>11, <1>12 DEF TypeOK
<1>17. Counters'
    <2>1. IsFiniteSet(queue')
        BY <1>2, <1>3, FS_AddElement DEF Counters
    <2>2. t.alert.type \in AlertTypes
        BY <1>13 DEF AlertTypes
    <2> QED BY <1>1, <1>2, <1>3, <1>9, <1>11, <1>12, <2>1, <2>2 DEF Counters
<1>18. ASSUME NEW v \in Web PROVE Shape(v)'
    <2>1. CASE v = w
        <3>1. q # <<>> => i = inst[w]
            BY DEF i
        <3> QED BY <1>3, <1>4, <1>6, <1>7, <1>8, <2>1, <3>1 DEF Shape, Idle
    <2>2. CASE v # w
        <3>1. Shape(v) /\ todo'[v] = todo[v] /\ inst'[v] = inst[v] /\ pref' = pref
            BY <1>2, <1>3, <1>9, <2>2
        <3> QED BY <3>1 DEF Shape, Idle
    <2> QED BY <2>1, <2>2
<1>19. Birth'
    <2>1. \A v \in Web : ~ Doing(v, {"create"})'
        BY <1>3, <1>4, <1>18 DEF Shape, Doing
    <2> QED BY <2>1 DEF Birth
<1>20. ~ Comparing(w)' /\ ~ Doing(w, {"save"})' /\ ~ Doing(w, {"new", "update"})'
    BY <1>14 DEF Comparing, Doing
<1>21. PlainInv'
    <2>1. ASSUME plain, NEW v \in Web, Comparing(v)' PROVE Fine(OldOf(v)')
        BY <1>2, <1>10, <1>20, <2>1 DEF PlainInv
    <2> QED BY <1>2, <1>3, <2>1 DEF PlainInv, Fine
<1>22. CalmInv'
    <2>1. SUFFICES ASSUME calm PROVE /\ \A u, v \in Web : ~ Idle(u)' /\ ~ Idle(v)' => u = v
                                     /\ \A v \in Web : ~ Doing(v, {"save"})'
        BY <1>1 DEF CalmInv
    <2>2. \A v \in Web : v # w => Idle(v) /\ Idle(v)'
        BY <1>1, <1>2, <1>10, <2>1 DEF CalmInv
    <2> QED BY <1>20, <2>2 DEF Doing
<1>23. MissInv'
    <2>1. SUFFICES ASSUME plain, faults = 0, NEW n \in Notifications, Unlabelled(n), Met(n)'
          PROVE  Told(n)' \/ Coming(n)'
        BY <1>1, <1>3 DEF MissInv
    <2>2. Met(n)
        <3>1. ASSUME NEW v \in Web, Comparing(v)', Wants(n, OldOf(v)', {})
              PROVE  Comparing(v) /\ Wants(n, OldOf(v), {})
            BY <1>10, <1>20, <3>1
        <3> QED BY <1>3, <2>1, <3>1 DEF Met, Wants
    <2>3. Told(n) => Told(n)'
        BY <1>1 DEF Told
    <2>4. Coming(n) => Coming(n)'
        <3>1. ASSUME NEW u \in queue, Hits(n, u.pref, u.alert) PROVE Coming(n)'
            BY <1>3, <3>1 DEF Coming, Hits
        <3>2. ASSUME NEW v \in Web, Doing(v, {"new", "update"}), Hits(n, inst[v], AlertOf(Head(todo[v])))
              PROVE  Coming(n)'
            <4>1. CASE v = w
                <5>1. Hits(n, t.pref, t.alert) /\ t \in queue'
                    BY <1>3, <1>15, <2>1, <3>2, <4>1
                <5> QED BY <5>1 DEF Coming, Hits
            <4>2. CASE v # w
                <5>1. Doing(v, {"new", "update"})' /\ Hits(n, inst'[v], AlertOf(Head(todo'[v])))
                    BY <1>9, <1>10, <3>2, <4>2
                <5> QED BY <5>1 DEF Coming, Hits, AlertOf
            <4> QED BY <4>1, <4>2
        <3> QED BY <3>1, <3>2 DEF Coming
    <2> QED BY <1>2, <2>1, <2>2, <2>3, <2>4 DEF MissInv
<1>24. CountInv'
    <2>1. SUFFICES ASSUME calm, plain, NEW c \in Contacts, AsksNoLabel(c)
          PROVE  /\ sent[c] + Cardinality(Waiting(c))' + Owed(c)' <= expected[c]
                 /\ faults = 0 => sent[c] + Cardinality(Waiting(c))' + Owed(c)' = expected[c]
        BY <1>1, <1>3 DEF CountInv
    <2>2. /\ sent[c] + Cardinality(Waiting(c)) + Owed(c) <= expected[c]
          /\ faults = 0 => sent[c] + Cardinality(Waiting(c)) + Owed(c) = expected[c]
        BY <1>2, <2>1 DEF CountInv
    <2>3. \A v \in Web : v # w => Idle(v) /\ Idle(v)'
        BY <1>1, <1>2, <1>10, <2>1 DEF CalmInv
    <2>4. Reaches(c, t.pref, t.alert) <=> Doing(w, {"new", "update"}) /\ Reaches(c, inst[w], AlertOf(s))
        BY <1>15, <2>1 DEF Reaches, AsksNoLabel
    <2>5. Owed(c) = IF Reaches(c, t.pref, t.alert) THEN 1 ELSE 0
        BY <2>3, <2>4 DEF Owed, Doing
    <2>6. Owed(c)' = 0
        BY <1>20, <2>3 DEF Owed, Doing
    <2>7. IsFiniteSet(Waiting(c)) /\ Cardinality(Waiting(c)) \in Nat /\ t \notin Waiting(c)
        <3>1. Waiting(c) \subseteq queue
            BY DEF Waiting
        <3> QED BY <1>2, <1>12, <3>1, FS_Subset, FS_CardinalityType DEF Counters
    <2>8. Waiting(c)' = IF Reaches(c, t.pref, t.alert) THEN Waiting(c) \cup {t} ELSE Waiting(c)
        BY <1>3 DEF Waiting, Reaches, Hits
    <2>9. Cardinality(Waiting(c))' = Cardinality(Waiting(c)) + Owed(c)
        <3>1. CASE Reaches(c, t.pref, t.alert)
            <4>1. Waiting(c)' = Waiting(c) \cup {t}
                BY <2>8, <3>1
            <4>2. Cardinality(Waiting(c) \cup {t}) = Cardinality(Waiting(c)) + 1
                BY <2>7, FS_AddElement
            <4> QED BY <2>5, <3>1, <4>1, <4>2
        <3>2. CASE ~ Reaches(c, t.pref, t.alert)
            BY <2>5, <2>7, <2>8, <3>2
        <3> QED BY <3>1, <3>2
    <2>10. sent[c] \in Nat /\ Owed(c) \in Nat
        BY <1>2 DEF Counters, Owed
    <2> QED BY <2>2, <2>6, <2>7, <2>9, <2>10
<1> QED BY <1>16, <1>17, <1>18, <1>19, <1>21, <1>22, <1>23, <1>24 DEF AlertInv

-----------------------------------------------------------------------------
(* The workers of the queue.                                               *)

\* A task is run, or lost: what was waiting is sent, in full if there was no fault.
LEMMA IssueKeeps ==
    ASSUME Sane, AlertInv, NEW t \in queue, NEW reached, IssueAlerts(t, reached),
           \/ reached = Contacts /\ faults' = faults
           \/ faults' = faults + 1 /\ faults < MaxFaults
    PROVE  AlertInv'
<1>1. TypeOK /\ Counters /\ (\A v \in Web : Shape(v)) /\ Birth /\ PlainInv /\ CalmInv /\ MissInv /\ CountInv
    BY DEF AlertInv
<1> DEFINE hit == Notified(t)
<1>2. /\ queue' = queue \ {t} /\ due' \subseteq due
      /\ sent' = [c \in Contacts |-> sent[c] + IF c \in reached THEN AlertsTo(hit, c) ELSE 0]
      /\ UNCHANGED <<pref, labels, inst, todo, requests, expected, calm, plain>>
    BY DEF IssueAlerts
<1>3. \A c : AlertsTo(hit, c) \in {0, 1} /\ (AlertsTo(hit, c) = 1 <=> \E n \in hit : c \in ContactsOf(n))
    BY DEF AlertsTo
<1>4. faults \in Nat /\ faults' \in 0 .. MaxFaults
    BY <1>1, BoundsAssumption DEF TypeOK
<1>5. t.alert.type \in AlertTypes
    BY <1>1 DEF Counters
<1>6. \A c \in Contacts : sent[c] \in Nat
    BY <1>1 DEF Counters
<1> HIDE DEF hit
<1>7. /\ \A c \in Contacts : sent'[c] = sent[c] + (IF c \in reached THEN AlertsTo(hit, c) ELSE 0)
      /\ \A c \in Contacts : sent'[c] \in Nat /\ sent'[c] >= sent[c]
    <2>1. ASSUME NEW c \in Contacts
          PROVE  sent'[c] = sent[c] + (IF c \in reached THEN AlertsTo(hit, c) ELSE 0)
        BY <1>2
    <2>2. ASSUME NEW c \in Contacts PROVE sent'[c] \in Nat /\ sent'[c] >= sent[c]
        BY <1>3, <1>6, <2>1
    <2> QED BY <2>1, <2>2
<1>8. TypeOK'
    BY <1>1, <1>2, <1>4 DEF TypeOK
<1>9. Counters'
    <2>1. IsFiniteSet(queue')
        BY <1>1, <1>2, FS_RemoveElement DEF Counters
    <2>2. sent' \in [Contacts -> Nat]
        BY <1>2, <1>7
    <2> QED BY <1>1, <1>2, <2>1, <2>2 DEF Counters
<1>10. (\A v \in Web : Shape(v)') /\ Birth' /\ PlainInv' /\ CalmInv'
    BY <1>1, <1>2 DEF Shape, Birth, PlainInv, CalmInv, Doing, Comparing, OldOf, Idle, Fine
<1>11. MissInv'
    <2>1. SUFFICES ASSUME plain, faults' = 0, NEW n \in Notifications, Unlabelled(n), Met(n)'
          PROVE  Told(n)' \/ Coming(n)'
        BY <1>2 DEF MissInv
    <2>2. faults = 0 /\ reached = Contacts
        BY <1>4, <2>1
    <2>3. Met(n)
        BY <1>2, <2>1 DEF Met, Wants, Comparing, Doing, OldOf, Idle
    <2>4. ContactsOf(n) \subseteq Contacts
        BY DEF Contacts
    <2>5. Told(n) => Told(n)'
        BY <1>6, <1>7, <2>4 DEF Told
    <2>6. Hits(n, t.pref, t.alert) => Told(n)'
        <3>1. SUFFICES ASSUME Hits(n, t.pref, t.alert), NEW c \in ContactsOf(n) PROVE sent'[c] > 0
            BY DEF Told
        <3>2. n \in hit /\ c \in Contacts
            BY <1>5, <2>1, <2>4, <3>1, TaskHits DEF hit
        <3>3. AlertsTo(hit, c) = 1
            BY <1>3, <3>2
        <3> QED BY <1>6, <1>7, <2>2, <3>2, <3>3
    <2>7. ASSUME NEW u \in queue, u # t, Hits(n, u.pref, u.alert) PROVE Coming(n)'
        BY <1>2, <2>7 DEF Coming, Hits
    <2>8. ASSUME NEW v \in Web, Doing(v, {"new", "update"}), Hits(n, inst[v], AlertOf(Head(todo[v])))
          PROVE  Coming(n)'
        BY <1>2, <2>8 DEF Coming, Hits, AlertOf, Doing, Idle
    <2>9. Told(n) \/ Coming(n)
        BY <1>1, <2>1, <2>2, <2>3 DEF MissInv
    <2> QED BY <2>5, <2>6, <2>7, <2>8, <2>9 DEF Coming
<1>12. CountInv'
    <2>1. SUFFICES ASSUME calm, plain, NEW c \in Contacts, AsksNoLabel(c)
          PROVE  /\ sent'[c] + Cardinality(Waiting(c))' + Owed(c)' <= expected[c]
                 /\ faults' = 0 => sent'[c] + Cardinality(Waiting(c))' + Owed(c)' = expected[c]
        BY <1>2 DEF CountInv
    <2>2. /\ sent[c] + Cardinality(Waiting(c)) + Owed(c) <= expected[c]
          /\ faults = 0 => sent[c] + Cardinality(Waiting(c)) + Owed(c) = expected[c]
        BY <1>1, <2>1 DEF CountInv
    <2>3. Owed(c)' = Owed(c) /\ Owed(c) \in Nat
        BY <1>2 DEF Owed, Doing, Idle, Reaches, Hits, AlertOf
    <2>4. Reaches(c, t.pref, t.alert) <=> AlertsTo(hit, c) = 1
        <3>1. ASSUME NEW n \in Notifications, c \in ContactsOf(n)
              PROVE  n \in hit <=> Hits(n, t.pref, t.alert)
            <4>1. Unlabelled(n)
                BY <2>1, <3>1 DEF AsksNoLabel
            <4> QED BY <1>5, <4>1, TaskHits DEF hit
        <3>2. hit \subseteq Notifications
            BY DEF hit, Notified, GetNotifications, Notifications
        <3> QED BY <1>3, <3>1, <3>2 DEF Reaches
    <2>5. IsFiniteSet(Waiting(c)) /\ Cardinality(Waiting(c)) \in Nat
        <3>1. Waiting(c) \subseteq queue
            BY DEF Waiting
        <3> QED BY <1>1, <3>1, FS_Subset, FS_CardinalityType DEF Counters
    <2>6. Waiting(c)' = Waiting(c) \ {t} /\ (t \in Waiting(c) <=> Reaches(c, t.pref, t.alert))
        BY <1>2 DEF Waiting, Reaches, Hits
    <2>7. Cardinality(Waiting(c))' = Cardinality(Waiting(c)) - AlertsTo(hit, c)
        <3>1. CASE t \in Waiting(c)
            <4>1. Cardinality(Waiting(c) \ {t}) = Cardinality(Waiting(c)) - 1
                BY <2>5, <3>1, FS_RemoveElement
            <4> QED BY <2>4, <2>6, <3>1, <4>1
        <3>2. CASE t \notin Waiting(c)
            <4>1. AlertsTo(hit, c) = 0 /\ Waiting(c)' = Waiting(c)
                BY <1>3, <2>4, <2>6, <3>2
            <4> QED BY <2>5, <4>1
        <3> QED BY <3>1, <3>2
    <2>8. sent'[c] <= sent[c] + AlertsTo(hit, c) /\ (faults' = 0 => sent'[c] = sent[c] + AlertsTo(hit, c))
        <3>1. c \in reached \/ faults' # 0
            BY <1>4, <2>1
        <3> QED BY <1>3, <1>6, <1>7, <2>1, <3>1
    <2>9. sent[c] \in Nat /\ sent'[c] \in Nat /\ AlertsTo(hit, c) \in {0, 1} /\ (faults' = 0 => faults = 0)
          /\ expected[c] \in Nat
        BY <1>1, <1>3, <1>4, <1>6, <1>7, <2>1 DEF Counters
    <2> DEFINE a == AlertsTo(hit, c)
               k == Cardinality(Waiting(c))
               k2 == Cardinality(Waiting(c))'
    <2> HIDE DEF a, k, k2
    <2>10. /\ sent[c] + k + Owed(c) <= expected[c]
           /\ faults = 0 => sent[c] + k + Owed(c) = expected[c]
           /\ k2 = k - a /\ a \in {0, 1} /\ k \in Nat
           /\ sent'[c] <= sent[c] + a /\ (faults' = 0 => sent'[c] = sent[c] + a)
        BY <2>2, <2>5, <2>7, <2>8, <2>9 DEF a, k, k2
    <2>11. /\ sent'[c] + k2 + Owed(c) <= expected[c]
           /\ faults' = 0 => sent'[c] + k2 + Owed(c) = expected[c]
        BY <2>3, <2>9, <2>10
    <2> QED BY <2>3, <2>11 DEF k2
<1> QED BY <1>8, <1>9, <1>10, <1>11, <1>12 DEF AlertInv

LEMMA AlertStutter == ASSUME AlertInv, UNCHANGED vars PROVE AlertInv'
<1> USE DEF vars, AlertInv
<1>1. TypeOK' /\ Counters'
    BY DEF TypeOK, Counters
<1>2. (\A v \in Web : Shape(v)') /\ Birth' /\ PlainInv' /\ CalmInv'
    BY DEF Shape, Birth, PlainInv, CalmInv, Doing, Comparing, OldOf, Idle, Fine
<1>3. \A n \in Notifications : (Met(n)' <=> Met(n)) /\ (Told(n)' <=> Told(n)) /\ (Coming(n)' <=> Coming(n))
    BY DEF Met, Told, Coming, Wants, Hits, AlertOf, Comparing, Doing, OldOf, Idle
<1>4. MissInv'
    BY <1>3 DEF MissInv
<1>5. \A c : Waiting(c)' = Waiting(c) /\ Owed(c)' = Owed(c)
    BY DEF Waiting, Owed, Reaches, Hits, AlertOf, Doing, Idle
<1>6. CountInv'
    BY <1>5 DEF CountInv
<1> QED BY <1>1, <1>2, <1>4, <1>6

-----------------------------------------------------------------------------
(* The theorems.                                                           *)

LEMMA AlertStep == ASSUME Sane, AlertInv, [Next]_vars PROVE AlertInv'
<1>1. ASSUME NEW w \in Web, Step(w) PROVE AlertInv'
    <2>1. Head(todo[w]).do \in {"create", "new", "save", "update",
                                "label", "unlabel", "label_added", "label_removed"}
        BY <1>1 DEF Step, AlertInv, Shape
    <2> QED BY <1>1, <2>1, MakeStep, SaveStep, RelabelStep, AsyncStep
<1>2. ASSUME NEW w \in Web, Create(w) \/ Patch(w) \/ Label(w) PROVE AlertInv'
    BY <1>2, CreateStep, PatchStep, LabelStep
<1>3. ASSUME RunTask PROVE AlertInv'
    BY <1>3, IssueKeeps DEF RunTask
<1>4. ASSUME FailTask PROVE AlertInv'
    BY <1>4, IssueKeeps DEF FailTask
<1> QED BY <1>1, <1>2, <1>3, <1>4, AlertStutter DEF Next

LEMMA AlertAlways == ASSUME Sane PROVE Spec => []AlertInv
<1>1. Init => AlertInv
    BY AlertInit
<1>2. AlertInv /\ [Next]_vars => AlertInv'
    BY AlertStep
<1> QED BY <1>1, <1>2, PTL DEF Spec

\* However late and in whatever order the queue runs, and whatever labels come and go: a contact
\* whose notifications ask for no label gets one alert each time one of them comes to match, and
\* never more.
THEOREM OneAlertEach == ASSUME Sane PROVE Spec => []ReportedOnce
<1>1. AlertInv => ReportedOnce
    <2> SUFFICES ASSUME AlertInv PROVE ReportedOnce
        OBVIOUS
    <2>1. TypeOK /\ Counters /\ CountInv
        BY DEF AlertInv
    <2>2. ASSUME Quiet, calm, plain, NEW c \in Contacts, AsksNoLabel(c)
          PROVE  sent[c] \in (IF faults = 0 THEN expected[c] ELSE 0) .. expected[c]
        <3>1. /\ sent[c] + Cardinality(Waiting(c)) + Owed(c) <= expected[c]
              /\ faults = 0 => sent[c] + Cardinality(Waiting(c)) + Owed(c) = expected[c]
            BY <2>1, <2>2 DEF CountInv
        <3>2. Waiting(c) = {} /\ Owed(c) = 0
            BY <2>2 DEF Quiet, Waiting, Owed, Doing
        <3>3. sent[c] \in Nat /\ expected[c] \in Nat /\ Cardinality(Waiting(c)) = 0
            BY <2>1, <3>2, FS_EmptySet DEF Counters
        <3> QED BY <3>1, <3>2, <3>3
    <2> QED BY <2>1, <2>2 DEF ReportedOnce, AsksNoLabel
<1> QED BY <1>1, AlertAlways, PTL

\* However requests overlap, when all is done everybody has been told whose notification, without
\* labels, the superevent meets: the update that made it match, or the one it is compared with in
\* the end, carried the alert.
THEOREM NobodyIsForgotten == ASSUME Sane PROVE Spec => []NobodyIsMissed
<1>1. AlertInv => NobodyIsMissed
    <2>1. SUFFICES ASSUME AlertInv, Quiet, plain, faults = 0,
                          NEW n \in Notifications, Unlabelled(n), Wants(n, pref, labels)
                   PROVE  \A c \in ContactsOf(n) : sent[c] > 0
        BY DEF NobodyIsMissed
    <2>2. Met(n)
        BY <2>1, WantsPlainly DEF Met
    <2>3. ~ Coming(n)
        BY <2>1 DEF Coming, Quiet, Doing
    <2>4. Told(n)
        BY <2>1, <2>2, <2>3 DEF AlertInv, MissInv
    <2> QED BY <2>4 DEF Told
<1> QED BY <1>1, AlertAlways, PTL
=============================================================================
