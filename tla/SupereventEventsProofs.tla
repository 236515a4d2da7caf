----------------------- MODULE SupereventEventsProofs -----------------------
(***************************************************************************)
(* Proofs about SupereventEvents, for any superevents, events, pipelines   *)
(* and workers, with crashes and without.                                  *)
(***************************************************************************)
EXTENDS SupereventEvents, TLAPS

-----------------------------------------------------------------------------
(* The inductive invariant.                                                *)

\* Each step belongs to some kinds of request.
StepOfKind ==
    \A r \in Workers :
        /\ pc[r] \in {"save", "attach"} => op[r].kind \in {"create", "update"}
        /\ pc[r] = "events" => op[r].kind \in {"create", "add"}
        /\ pc[r] \in {"remove", "unlist"} => op[r].kind = "remove"
        /\ pc[r] \in {"boot", "list"} => op[r].kind = "addPP"
        /\ pc[r] = "unpp" => op[r].kind = "removePP"

\* A superevent no request is at work on.
Settled(s) ==
    /\ Listed(s) \subseteq Members(s)
    /\ Exists(s) => preferred_event[s] \in Members(s)
    /\ ~ Exists(s) => Members(s) = {}

\* How far a request that nobody disturbs has come, and what it relies on.
Work(r) ==
    LET s == op[r].s
    IN  /\ pc[r] \notin {"attach", "unlist"} => Settled(s)
        /\ pc[r] # "save" => Exists(s)
        /\ pc[r] \in {"save", "attach"} => inst[r].members = Members(s)
        /\ pc[r] = "save" =>
               /\ inst[r].pref = preferred_event[s]
               /\ op[r].kind = "update" => Exists(s)
        /\ pc[r] = "attach" =>
               /\ preferred_event[s] = Preferred(r)
               /\ Listed(s) \subseteq Members(s)
               /\ op[r].e = None => Preferred(r) \in Members(s)
        /\ pc[r] \in {"save", "attach", "events"} =>
               \A e \in EventsOf(op[r]) : superevent[e] \in {None, s}
        /\ pc[r] \in {"remove", "unlist"} =>
               /\ preferred_event[s] # op[r].e
               /\ pipeline_preferred[op[r].e] = s => inst[r].pp = s
        /\ pc[r] = "unlist" =>
               /\ preferred_event[s] \in Members(s)
               /\ Listed(s) \ {op[r].e} \subseteq Members(s)
        /\ pc[r] \in {"boot", "list"} => superevent[op[r].e] = s
        /\ pc[r] = "list" => SamePipeline(r) = {}

CalmInv ==
    calm => /\ \A q, r \in Active : q # r => Apart(op[q], op[r])
            /\ \A s \in Superevents : (\A r \in Active : op[r].s # s) => Settled(s)
            /\ \A r \in Active : Work(r)
            /\ OnePerPipeline

\* What a PATCH that no other request overlaps has made sure of.
AloneInv ==
    \A r \in alone :
        /\ Active = {r}
        /\ op[r].kind = "update" /\ pc[r] \in {"save", "attach"} =>
               inst[r].members = Members(op[r].s)
        /\ op[r].kind = "update" /\ pc[r] = "attach" =>
               /\ preferred_event[op[r].s] = Preferred(r)
               /\ Listed(op[r].s) \subseteq Members(op[r].s)

EventsInv == TypeOK /\ StepOfKind /\ CalmInv /\ AloneInv

-----------------------------------------------------------------------------
LEMMA OpTypes ==
    ASSUME NEW o \in Op
    PROVE  /\ o.kind \in AllKinds /\ o.s \in Superevents /\ o.e \in Events \cup {None}
           /\ o.more \subseteq Events /\ EventsOf(o) \subseteq Events
           /\ o.e = None => o.kind = "update"
           /\ o.more # {} => o.kind = "create" /\ \E e \in Events \ {o.e} : o.more = {e}
           /\ o # NoOp
<1>1. /\ o \in [kind : Kinds, s : Superevents, e : Events \cup {None}, more : SUBSET Events]
      /\ o.e = None => o.kind = "update"
      /\ o.more = {} \/ (o.kind = "create" /\ \E e \in Events \ {o.e} : o.more = {e})
    BY DEF Op
<1>2. /\ o.kind \in AllKinds /\ o.s \in Superevents /\ o.e \in Events \cup {None}
      /\ o.more \subseteq Events
    BY <1>1, KindsAssumption
<1>3. EventsOf(o) \subseteq Events
    BY <1>2, NoneAssumption DEF EventsOf
<1>4. o # NoOp
    BY <1>2 DEF NoOp, AllKinds
<1> QED BY <1>1, <1>2, <1>3, <1>4

LEMMA ActiveTypes ==
    ASSUME TypeOK, NEW r \in Active
    PROVE  /\ r \in Workers /\ op[r] \in Op /\ inst[r] \in Inst
           /\ pc[r] \in Steps
BY DEF TypeOK, Active, Steps

LEMMA EventsInit == Init => EventsInv
<1> SUFFICES ASSUME Init PROVE EventsInv
    OBVIOUS
<1> USE DEF Init
<1>1. Active = {}
    BY DEF Active
<1>2. TypeOK
    BY <1>1 DEF TypeOK, Inst, NoInst, NoOp, Preferred, Steps
<1>3. StepOfKind
    BY DEF StepOfKind
<1>4. CalmInv
    BY <1>1, NoneAssumption DEF CalmInv, Settled, Listed, Members, Exists, OnePerPipeline
<1>5. AloneInv
    BY DEF AloneInv
<1> QED BY <1>2, <1>3, <1>4, <1>5 DEF EventsInv

-----------------------------------------------------------------------------
(* What a step of one request leaves alone.                                *)

\* Other superevents have their events and their preferred event, and no event more on their
\* list; and only the events of the request get into a superevent or out of it.
Local(q) ==
    /\ \A s \in Superevents \ {op[q].s} :
           /\ Members(s)' = Members(s)
           /\ Listed(s)' \subseteq Listed(s)
           /\ preferred_event'[s] = preferred_event[s]
    /\ \A e \in Events : superevent'[e] # superevent[e] => e \in EventsOf(op[q])

LEMMA OthersWork ==
    ASSUME TypeOK, StepOfKind, NEW q \in Active, NEW r \in Active, Work(r), Apart(op[q], op[r]), Local(q),
           op'[r] = op[r], inst'[r] = inst[r], pc'[r] = pc[r]
    PROVE  Work(r)'
<1> DEFINE s == op[r].s
<1>1. s \in Superevents /\ s # op[q].s
    BY ActiveTypes, OpTypes DEF Apart
<1>2. /\ Members(s)' = Members(s) /\ Listed(s)' \subseteq Listed(s)
      /\ preferred_event'[s] = preferred_event[s]
    BY <1>1 DEF Local, Members, Listed
<1>3. \A e \in EventsOf(op[r]) : e \in Events /\ superevent'[e] = superevent[e]
    BY ActiveTypes, OpTypes DEF Local, Apart
<1>4. Settled(s) => Settled(s)'
    BY <1>2 DEF Settled, Exists
<1>5. op[r].kind # "update" => op[r].e \in EventsOf(op[r])
    BY ActiveTypes, OpTypes, NoneAssumption DEF EventsOf
<1>6. pc'[r] \notin {"attach", "unlist"} => Settled(s)'
    BY <1>4 DEF Work
<1>7. pc'[r] # "save" => Exists(s)'
    BY <1>2 DEF Work, Exists
<1>8. /\ pc'[r] \in {"save", "attach"} => inst'[r].members = Members(s)'
      /\ pc'[r] = "save" => /\ inst'[r].pref = preferred_event'[s]
                            /\ op'[r].kind = "update" => Exists(s)'
    BY <1>2 DEF Work, Exists
<1>9. pc'[r] = "attach" =>
          /\ preferred_event'[s] = Preferred(r)'
          /\ Listed(s)' \subseteq Members(s)'
          /\ op'[r].e = None => Preferred(r)' \in Members(s)'
    BY <1>2 DEF Work, Preferred
<1>10. pc'[r] \in {"save", "attach", "events"} =>
           \A e \in EventsOf(op'[r]) : superevent'[e] \in {None, s}
    BY <1>3 DEF Work
<1>11. pc'[r] \in {"remove", "unlist"} =>
           /\ preferred_event'[s] # op'[r].e
           /\ pipeline_preferred'[op'[r].e] = s => inst'[r].pp = s
    <2> SUFFICES ASSUME pc[r] \in {"remove", "unlist"}
                 PROVE  /\ preferred_event'[s] # op[r].e
                        /\ pipeline_preferred'[op[r].e] = s => inst[r].pp = s
        OBVIOUS
    <2>1. op[r].e \in Events
        BY <1>3, <1>5, ActiveTypes DEF StepOfKind
    <2> QED BY <1>2, <2>1 DEF Work, Listed
<1>12. pc'[r] = "unlist" =>
           /\ preferred_event'[s] \in Members(s)'
           /\ Listed(s)' \ {op'[r].e} \subseteq Members(s)'
    BY <1>2 DEF Work
<1>13. pc'[r] \in {"boot", "list"} => superevent'[op'[r].e] = s
    BY <1>3, <1>5, ActiveTypes DEF Work, StepOfKind
<1>14. pc'[r] = "list" => SamePipeline(r)' = {}
    BY <1>2 DEF Work, SamePipeline
<1> QED BY <1>6, <1>7, <1>8, <1>9, <1>10, <1>11, <1>12, <1>13, <1>14 DEF Work

\* The columns.
ColumnTypes ==
    /\ superevent \in [Events -> Superevents \cup {None}]
    /\ pipeline_preferred \in [Events -> Superevents \cup {None}]
    /\ preferred_event \in [Superevents -> Events \cup {None}]

\* A request that goes on.
LEMMA GoingOn ==
    ASSUME EventsInv, NEW q \in Active, NEW st \in Steps, Goto(q, st), ColumnTypes',
           st \in {"save", "attach"} => pc[q] \in {"save", "attach"},
           /\ st = "events" => op[q].kind \in {"create", "add"}
           /\ st = "unlist" => op[q].kind = "remove"
           /\ st = "list" => op[q].kind = "addPP"
           /\ st \in {"save", "attach", "events", "unlist", "list"}
    PROVE  TypeOK' /\ StepOfKind' /\ Active' = Active
<1>1. /\ pc' = [pc EXCEPT ![q] = st] /\ UNCHANGED <<op, inst, alone, calm>>
      /\ q \in Workers /\ pc \in [Workers -> Steps \cup {"idle"}]
    BY DEF Goto, EventsInv, TypeOK, Active
<1>2. pc' \in [Workers -> Steps \cup {"idle"}] /\ pc'[q] = st /\ st # "idle"
    BY <1>1 DEF Steps
<1>3. \A r \in Workers \ {q} : pc'[r] = pc[r]
    BY <1>1
<1>4. Active' = Active
    BY <1>1, <1>2, <1>3 DEF Active
<1>5. TypeOK'
    <2>1. \A r \in Workers : pc'[r] = "idle" <=> op'[r] = NoOp
        BY <1>1, <1>2, <1>3 DEF EventsInv, TypeOK, Active
    <2>2. \A r \in Workers : pc'[r] \in {"save", "attach"} => Preferred(r)' # None
        BY <1>1, <1>2, <1>3 DEF EventsInv, TypeOK, Preferred
    <2> QED BY <1>1, <1>2, <1>4, <2>1, <2>2 DEF EventsInv, TypeOK, ColumnTypes
<1>6. StepOfKind'
    <2> SUFFICES ASSUME NEW r \in Workers
                 PROVE  /\ pc'[r] \in {"save", "attach"} => op'[r].kind \in {"create", "update"}
                        /\ pc'[r] = "events" => op'[r].kind \in {"create", "add"}
                        /\ pc'[r] \in {"remove", "unlist"} => op'[r].kind = "remove"
                        /\ pc'[r] \in {"boot", "list"} => op'[r].kind = "addPP"
                        /\ pc'[r] = "unpp" => op'[r].kind = "removePP"
        BY DEF StepOfKind
    <2>1. CASE r = q
        BY <2>1, <1>1, <1>2 DEF EventsInv, StepOfKind
    <2>2. CASE r # q
        BY <2>2, <1>1, <1>3 DEF EventsInv, StepOfKind
    <2> QED BY <2>1, <2>2
<1> QED BY <1>4, <1>5, <1>6

LEMMA GoingOnCalm ==
    ASSUME EventsInv, NEW q \in Active, NEW st \in Steps, Goto(q, st), Active' = Active,
           calm => Local(q) /\ Work(q)' /\ OnePerPipeline'
    PROVE  CalmInv'
<1> SUFFICES ASSUME calm
             PROVE  /\ \A r, u \in Active' : r # u => Apart(op[r], op[u])
                    /\ \A s \in Superevents : (\A r \in Active' : op[r].s # s) => Settled(s)'
                    /\ \A r \in Active' : Work(r)'
                    /\ OnePerPipeline'
    BY DEF CalmInv, Goto
<1>1. \A r, u \in Active' : r # u => Apart(op[r], op[u])
    BY DEF EventsInv, CalmInv
<1>2. ASSUME NEW s \in Superevents, \A r \in Active' : op[r].s # s
      PROVE  Settled(s)'
    BY <1>2 DEF EventsInv, CalmInv, Settled, Local, Exists
<1>3. ASSUME NEW r \in Active', r # q
      PROVE  Work(r)'
    <2>1. r \in Workers /\ r \in Active /\ Apart(op[q], op[r]) /\ Work(r)
        BY <1>3 DEF EventsInv, CalmInv, Active
    <2>2. op'[r] = op[r] /\ inst'[r] = inst[r] /\ pc'[r] = pc[r]
        BY <1>3, <2>1 DEF Goto, EventsInv, TypeOK
    <2> QED BY <2>1, <2>2, OthersWork DEF EventsInv
<1> QED BY <1>1, <1>2, <1>3

\* A request that ends.
LEMMA AtEnd ==
    ASSUME EventsInv, NEW q \in Active, End(q), calm' \in BOOLEAN, ColumnTypes'
    PROVE  TypeOK' /\ StepOfKind' /\ AloneInv' /\ Active' = Active \ {q}
<1>1. /\ pc' = [pc EXCEPT ![q] = "idle"] /\ op' = [op EXCEPT ![q] = NoOp]
      /\ inst' = [inst EXCEPT ![q] = NoInst] /\ alone' = alone \ {q} /\ q \in Workers
    BY DEF End, Active
<1>2. /\ pc'[q] = "idle" /\ op'[q] = NoOp
      /\ \A r \in Workers \ {q} : pc'[r] = pc[r] /\ op'[r] = op[r] /\ inst'[r] = inst[r]
    BY <1>1 DEF EventsInv, TypeOK
<1>3. Active' = Active \ {q}
    BY <1>1, <1>2 DEF Active
<1>4. alone' = {}
    BY <1>1 DEF EventsInv, AloneInv
<1>5. TypeOK'
    <2>1. NoInst \in Inst
        BY DEF NoInst, Inst
    <2>2. \A r \in Workers : pc'[r] \in {"save", "attach"} => Preferred(r)' # None
        BY <1>2 DEF EventsInv, TypeOK, Preferred
    <2>3. /\ pc' \in [Workers -> Steps \cup {"idle"}]
          /\ op' \in [Workers -> Op \cup {NoOp}] /\ inst' \in [Workers -> Inst]
        BY <1>1, <2>1 DEF EventsInv, TypeOK
    <2>4. \A r \in Workers : pc'[r] = "idle" <=> op'[r] = NoOp
        BY <1>2 DEF EventsInv, TypeOK
    <2> QED BY <1>4, <2>2, <2>3, <2>4 DEF TypeOK, ColumnTypes
<1>6. StepOfKind'
    BY <1>2 DEF EventsInv, StepOfKind
<1> QED BY <1>3, <1>4, <1>5, <1>6 DEF AloneInv

LEMMA AtEndCalm ==
    ASSUME EventsInv, NEW q \in Active, End(q), Active' = Active \ {q},
           NEW s \in Superevents, s = op[q].s,
           calm' => calm /\ Local(q) /\ Settled(s)' /\ OnePerPipeline'
    PROVE  CalmInv'
<1> SUFFICES ASSUME calm, calm'
             PROVE  /\ \A r, u \in Active' : r # u => Apart(op'[r], op'[u])
                    /\ \A z \in Superevents : (\A r \in Active' : op'[r].s # z) => Settled(z)'
                    /\ \A r \in Active' : Work(r)'
                    /\ OnePerPipeline'
    BY DEF CalmInv
<1>1. \A r \in Active' : /\ r \in Workers /\ r \in Active /\ r # q
                         /\ op'[r] = op[r] /\ inst'[r] = inst[r] /\ pc'[r] = pc[r]
    BY DEF End, EventsInv, TypeOK, Active
<1>2. \A r, u \in Active' : r # u => Apart(op'[r], op'[u])
    BY <1>1 DEF EventsInv, CalmInv
<1>3. ASSUME NEW z \in Superevents, \A r \in Active' : op'[r].s # z
      PROVE  Settled(z)'
    <2>1. CASE z = s
        BY <2>1
    <2>2. CASE z # s
        <3>1. \A r \in Active : op[r].s # z
            BY <1>1, <1>3, <2>2
        <3> QED BY <2>2, <3>1 DEF EventsInv, CalmInv, Settled, Local, Exists
    <2> QED BY <2>1, <2>2
<1>4. \A r \in Active' : Work(r)'
    <2> SUFFICES ASSUME NEW r \in Active' PROVE Work(r)'
        OBVIOUS
    <2>1. r \in Active /\ Apart(op[q], op[r]) /\ Work(r)
        BY <1>1 DEF EventsInv, CalmInv
    <2> QED BY <1>1, <2>1, OthersWork DEF EventsInv
<1> QED BY <1>2, <1>3, <1>4

LEMMA GoingOnAlone ==
    ASSUME EventsInv, NEW q \in Active, NEW st \in Steps, Goto(q, st), Active' = Active,
           NEW s, s = op[q].s,
           q \in alone /\ op[q].kind = "update" =>
               /\ st = "attach" => /\ preferred_event'[s] = Preferred(q)
                                   /\ Listed(s)' \subseteq Members(s)'
               /\ st \in {"save", "attach"} => inst[q].members = Members(s)'
    PROVE  AloneInv'
<1>1. \A r \in alone : r = q
    BY DEF EventsInv, AloneInv
<1>2. alone' = alone /\ op'[q] = op[q] /\ inst'[q] = inst[q] /\ pc'[q] = st
    BY DEF Goto, EventsInv, TypeOK, Active
<1>3. Preferred(q)' = Preferred(q)
    BY <1>2 DEF Preferred
<1>4. \A r \in alone : Active' = {r}
    BY DEF EventsInv, AloneInv
<1>5. ASSUME NEW r \in alone', op'[r].kind = "update", pc'[r] \in {"save", "attach"}
      PROVE  inst'[r].members = Members(op[r].s)'
    BY <1>1, <1>2, <1>5 DEF Members
<1>6. ASSUME NEW r \in alone', op'[r].kind = "update", pc'[r] = "attach"
      PROVE  /\ preferred_event'[op'[r].s] = Preferred(r)'
             /\ Listed(op[r].s)' \subseteq Members(op[r].s)'
    BY <1>1, <1>2, <1>3, <1>6 DEF Members, Listed
<1> QED BY <1>2, <1>4, <1>5, <1>6 DEF AloneInv

\* A list of pipeline preferred events that only gets shorter.
LEMMA Shrinks ==
    ASSUME EventsInv, ColumnTypes', calm,
           \A e \in Events : pipeline_preferred'[e] \in {pipeline_preferred[e], None}
    PROVE  OnePerPipeline' /\ \A s \in Superevents : Listed(s)' \subseteq Listed(s)
<1>1. \A s \in Superevents : Listed(s)' \subseteq Listed(s)
    BY NoneAssumption DEF Listed
<1> QED BY <1>1 DEF EventsInv, CalmInv, OnePerPipeline

LEMMA RequestTypes ==
    ASSUME EventsInv, NEW q \in Active
    PROVE  /\ q \in Workers /\ op[q] \in Op /\ op[q].s \in Superevents
           /\ op[q].e \in Events \cup {None} /\ op[q].more \subseteq Events
           /\ op[q].e = None => op[q].kind = "update"
           /\ EventsOf(op[q]) \subseteq Events
           /\ op[q].e # None => op[q].e \in EventsOf(op[q])
           /\ ColumnTypes /\ calm \in BOOLEAN
           /\ pc[q] \in {"save", "attach"} => Preferred(q) \in Events
           /\ calm => Work(q)
<1>1. /\ q \in Workers /\ op[q] \in Op /\ inst[q] \in Inst
    BY ActiveTypes DEF EventsInv
<1>2. op[q].e # None => op[q].e \in EventsOf(op[q])
    BY DEF EventsOf
<1>3. ColumnTypes /\ calm \in BOOLEAN
    BY DEF EventsInv, TypeOK, ColumnTypes
<1>4. pc[q] \in {"save", "attach"} => Preferred(q) \in Events
    <2>1. pc[q] \in {"save", "attach"} => Preferred(q) # None
        BY <1>1 DEF EventsInv, TypeOK
    <2>2. Preferred(q) \in Events \cup {None}
        BY <1>1, OpTypes DEF Preferred, Inst
    <2> QED BY <2>1, <2>2
<1>5. calm => Work(q)
    BY DEF EventsInv, CalmInv
<1> QED BY <1>1, <1>2, <1>3, <1>4, <1>5, OpTypes

-----------------------------------------------------------------------------
(* The steps.                                                              *)

LEMMA SaveKeeps ==
    ASSUME EventsInv, NEW q \in Workers, Save(q)
    PROVE  EventsInv'
<1>0. q \in Active /\ pc[q] = "save"
    BY DEF Save, Active
<1> DEFINE s == op[q].s
<1>1. s \in Superevents /\ ColumnTypes /\ calm \in BOOLEAN /\ superevent' = superevent
      /\ Preferred(q) \in Events
    BY <1>0, RequestTypes DEF Save
<1>2. CASE End(q) /\ UNCHANGED <<calm, pipeline_preferred, preferred_event>>
    <2>1. ColumnTypes'
        BY <1>1, <1>2 DEF ColumnTypes
    <2>2. TypeOK' /\ StepOfKind' /\ AloneInv' /\ Active' = Active \ {q}
        BY <1>0, <1>1, <1>2, <2>1, AtEnd
    <2>3. calm => Local(q) /\ OnePerPipeline'
        BY <1>0, <1>1, <1>2 DEF Local, Members, Listed, EventsInv, CalmInv, OnePerPipeline
    <2>4. ASSUME NEW z \in Superevents, z = op[q].s, calm
          PROVE  Settled(z)'
        BY <1>0, <1>1, <1>2, <2>4, RequestTypes DEF Work, Settled, Members, Listed, Exists
    <2>5. CalmInv'
        BY <1>0, <1>1, <1>2, <2>2, <2>3, <2>4, AtEndCalm
    <2> QED BY <2>2, <2>5 DEF EventsInv
<1>3. ASSUME NEW e \in Strays(s), End(q), UNCHANGED <<calm, preferred_event>>,
             pipeline_preferred' = [pipeline_preferred EXCEPT ![e] = None]
      PROVE  EventsInv'
    <2>1. ColumnTypes'
        BY <1>1, <1>3 DEF ColumnTypes
    <2>2. TypeOK' /\ StepOfKind' /\ AloneInv' /\ Active' = Active \ {q}
        BY <1>0, <1>1, <1>3, <2>1, AtEnd
    <2>3. ~ calm
        BY <1>0, <1>3, RequestTypes DEF Work, Settled, Strays
    <2>4. CalmInv'
        BY <1>3, <2>3 DEF CalmInv
    <2> QED BY <2>2, <2>4 DEF EventsInv
<1>4. CASE /\ Strays(s) = {} /\ Goto(q, "attach") /\ UNCHANGED pipeline_preferred
           /\ preferred_event' = [preferred_event EXCEPT ![s] = Preferred(q)]
    <2>1. ColumnTypes'
        BY <1>1, <1>4 DEF ColumnTypes
    <2>2. TypeOK' /\ StepOfKind' /\ Active' = Active
        BY <1>0, <1>4, <2>1, GoingOn DEF Steps
    <2>3. /\ preferred_event'[s] = Preferred(q) /\ Preferred(q)' = Preferred(q)
          /\ \A z \in Superevents : z # s => preferred_event'[z] = preferred_event[z]
          /\ \A z : Members(z)' = Members(z) /\ Listed(z)' = Listed(z)
          /\ op' = op /\ inst' = inst /\ pc'[q] = "attach"
        BY <1>0, <1>1, <1>4 DEF ColumnTypes, Members, Listed, Goto, Preferred, EventsInv, TypeOK
    <2>4. calm => Local(q) /\ OnePerPipeline'
        BY <1>1, <1>4, <2>3 DEF Local, EventsInv, CalmInv, OnePerPipeline
    <2>5. ASSUME calm
          PROVE  Work(q)'
        <3>1. Work(q) /\ Settled(s)
            BY <1>0, <2>5, RequestTypes DEF Work
        <3>2. inst[q].members = Members(s)'
            BY <1>0, <2>3, <3>1 DEF Work
        <3>3. Listed(s)' \subseteq Members(s)'
            BY <2>3, <3>1 DEF Settled
        <3>4. op[q].e = None => Preferred(q) \in Members(s)
            BY <1>0, <3>1, RequestTypes DEF Work, Settled, Preferred
        <3>5. \A e \in EventsOf(op[q]) : superevent[e] \in {None, s}
            BY <1>0, <3>1 DEF Work
        <3>6. preferred_event'[s] # None
            BY <1>1, <2>3, NoneAssumption
        <3> QED BY <1>1, <2>3, <3>2, <3>3, <3>4, <3>5, <3>6 DEF Work, Exists
    <2>6. CalmInv'
        BY <1>0, <1>4, <2>2, <2>4, <2>5, GoingOnCalm DEF Steps
    <2>7. AloneInv'
        <3>1. q \in alone /\ op[q].kind = "update" => inst[q].members = Members(s)
            BY <1>0 DEF EventsInv, AloneInv
        <3>2. Listed(s)' \subseteq Members(s)'
            BY <1>4, <2>3 DEF Strays
        <3> QED BY <1>0, <1>4, <2>2, <2>3, <3>1, <3>2, GoingOnAlone DEF Steps
    <2> QED BY <2>2, <2>6, <2>7 DEF EventsInv
<1> QED BY <1>1, <1>2, <1>3, <1>4 DEF Save, Respond

LEMMA AttachKeeps ==
    ASSUME EventsInv, NEW q \in Workers, Attach(q)
    PROVE  EventsInv'
<1>0. q \in Active /\ pc[q] = "attach"
    BY DEF Attach, Active
<1> DEFINE s == op[q].s
           e == Preferred(q)
<1>1. s \in Superevents /\ e \in Events /\ ColumnTypes /\ calm \in BOOLEAN
    BY <1>0, RequestTypes
<1>2. /\ UNCHANGED <<pipeline_preferred, preferred_event>>
      /\ superevent' = IF e \notin inst[q].members THEN [superevent EXCEPT ![e] = s]
                       ELSE superevent
    BY DEF Attach, MustAttach
<1>3. ColumnTypes'
    BY <1>1, <1>2 DEF ColumnTypes
<1>4. ASSUME calm
      PROVE  /\ Local(q) /\ OnePerPipeline'
             /\ \A x \in Events : x \in Members(s) => superevent'[x] = s
             /\ superevent'[e] = s
             /\ \A x \in EventsOf(op[q]) : superevent'[x] \in {None, s}
             /\ Listed(s) \subseteq Members(s) /\ preferred_event[s] = e
    <2>1. /\ inst[q].members = Members(s) /\ preferred_event[s] = e
          /\ Listed(s) \subseteq Members(s)
          /\ op[q].e = None => e \in Members(s)
          /\ \A x \in EventsOf(op[q]) : superevent[x] \in {None, s}
        BY <1>0, <1>4, RequestTypes DEF Work
    <2>2. superevent'[e] = s /\ \A x \in Events \ {e} : superevent'[x] = superevent[x]
        BY <1>1, <1>2, <2>1 DEF ColumnTypes, Members
    <2>3. superevent'[e] # superevent[e] => e \in EventsOf(op[q]) /\ superevent[e] = None
        <3>1. superevent'[e] # superevent[e] => e \notin Members(s)
            BY <1>1, <2>2 DEF Members
        <3>2. e \notin Members(s) => e = op[q].e
            BY <2>1 DEF Preferred
        <3>3. e = op[q].e => e \in EventsOf(op[q])
            BY <1>0, <1>1, RequestTypes, NoneAssumption
        <3> QED BY <2>1, <2>2, <3>1, <3>2, <3>3
    <2>4. \A z \in Superevents \ {s} : Members(z)' = Members(z)
        BY <1>1, <2>2, <2>3, NoneAssumption DEF Members
    <2>5. Local(q)
        BY <1>2, <2>2, <2>3, <2>4 DEF Local, Listed
    <2>6. OnePerPipeline'
        BY <1>2, <1>4 DEF EventsInv, CalmInv, OnePerPipeline, Listed
    <2>7. \A x \in Events : x \in Members(s) => superevent'[x] = s
        BY <2>2 DEF Members
    <2>8. \A x \in EventsOf(op[q]) : superevent'[x] \in {None, s}
        BY <1>0, <2>1, <2>2, RequestTypes
    <2> QED BY <2>1, <2>2, <2>5, <2>6, <2>7, <2>8
<1>5. ASSUME calm, NEW z \in Superevents, z = s
      PROVE  Settled(z)'
    <2>1. preferred_event'[z] \in Members(z)'
        BY <1>1, <1>2, <1>4, <1>5 DEF Members
    <2>2. Listed(z)' \subseteq Members(z)'
        BY <1>2, <1>4, <1>5 DEF Members, Listed
    <2>3. preferred_event'[z] # None
        BY <1>1, <1>2, <1>4, <1>5, NoneAssumption
    <2> QED BY <2>1, <2>2, <2>3 DEF Settled, Exists
<1>6. CASE End(q) /\ UNCHANGED calm
    <2>1. TypeOK' /\ StepOfKind' /\ AloneInv' /\ Active' = Active \ {q}
        BY <1>0, <1>1, <1>3, <1>6, AtEnd
    <2>2. CalmInv'
        BY <1>0, <1>1, <1>4, <1>5, <1>6, <2>1, AtEndCalm
    <2> QED BY <2>1, <2>2 DEF EventsInv
<1>7. CASE Goto(q, "events") /\ op[q].more # {}
    <2>0. op[q].kind = "create"
        BY <1>0, <1>7, RequestTypes, OpTypes
    <2>1. TypeOK' /\ StepOfKind' /\ Active' = Active
        BY <1>0, <1>3, <1>7, <2>0, GoingOn DEF Steps
    <2>2. pc'[q] = "events" /\ op' = op /\ inst' = inst
        BY <1>7 DEF Goto, EventsInv, TypeOK
    <2>3. ASSUME calm
          PROVE  Work(q)'
        <3>1. Settled(s)'
            BY <1>1, <1>5, <2>2, <2>3 DEF Settled, Members, Listed, Exists
        <3>2. Exists(s)'
            BY <1>1, <1>2, <1>4, <2>2, <2>3, NoneAssumption DEF Exists
        <3> QED BY <1>4, <2>2, <2>3, <3>1, <3>2 DEF Work
    <2>4. CalmInv'
        BY <1>0, <1>4, <1>7, <2>1, <2>3, GoingOnCalm DEF Steps
    <2>5. AloneInv'
        BY <1>0, <1>7, <2>0, <2>1, GoingOnAlone DEF Steps
    <2> QED BY <2>1, <2>4, <2>5 DEF EventsInv
<1> QED BY <1>6, <1>7 DEF Attach, Respond

LEMMA AddEventKeeps ==
    ASSUME EventsInv, NEW q \in Workers, AddEvent(q)
    PROVE  EventsInv'
<1>0. q \in Active /\ pc[q] = "events" /\ End(q) /\ UNCHANGED calm
    BY DEF AddEvent, Active, Respond
<1> DEFINE s == op[q].s
<1>1. s \in Superevents /\ ColumnTypes /\ calm \in BOOLEAN
    BY <1>0, RequestTypes
<1>2. PICK e \in EventsOf(op[q]) :
          /\ superevent' = [superevent EXCEPT ![e] = s] /\ e \in Events
          /\ UNCHANGED <<pipeline_preferred, preferred_event>>
    <2>1. op[q].kind # "create" => op[q].e \in EventsOf(op[q])
        BY <1>0, RequestTypes DEF EventsInv, StepOfKind
    <2>2. op[q].more \ {None} \subseteq EventsOf(op[q]) /\ op[q].more \subseteq Events
        BY <1>0, RequestTypes DEF EventsOf
    <2>3. None \notin Events
        BY NoneAssumption
    <2> QED BY <1>0, <2>1, <2>2, <2>3, RequestTypes DEF AddEvent
<1>3. ColumnTypes'
    BY <1>1, <1>2 DEF ColumnTypes
<1>4. TypeOK' /\ StepOfKind' /\ AloneInv' /\ Active' = Active \ {q}
    BY <1>0, <1>1, <1>3, AtEnd
<1>5. superevent'[e] = s /\ \A x \in Events \ {e} : superevent'[x] = superevent[x]
    BY <1>1, <1>2 DEF ColumnTypes
<1>6. ASSUME calm
      PROVE  Local(q) /\ OnePerPipeline'
    <2>1. superevent[e] \in {None, s}
        BY <1>0, <1>2, <1>6, RequestTypes DEF Work
    <2>2. \A z \in Superevents \ {s} : Members(z)' = Members(z)
        BY <1>1, <1>5, <2>1, NoneAssumption DEF Members
    <2>3. Local(q)
        BY <1>2, <1>5, <2>2 DEF Local, Listed
    <2> QED BY <1>2, <1>6, <2>3 DEF EventsInv, CalmInv, OnePerPipeline, Listed
<1>7. ASSUME calm, NEW z \in Superevents, z = s
      PROVE  Settled(z)'
    <2>1. Settled(s) /\ Exists(s)
        BY <1>0, <1>7, RequestTypes DEF Work
    <2>2. Members(s) \subseteq Members(z)'
        BY <1>1, <1>2, <1>5, <1>7 DEF Members
    <2> QED BY <1>2, <1>7, <2>1, <2>2 DEF Settled, Exists, Listed
<1>8. CalmInv'
    BY <1>0, <1>1, <1>4, <1>6, <1>7, AtEndCalm
<1> QED BY <1>4, <1>8 DEF EventsInv

LEMMA RemoveEventKeeps ==
    ASSUME EventsInv, NEW q \in Workers, RemoveEvent(q)
    PROVE  EventsInv'
<1>0. q \in Active /\ pc[q] = "remove" /\ Goto(q, "unlist")
    BY DEF RemoveEvent, Active
<1> DEFINE s == op[q].s
           e == op[q].e
<1>1. /\ s \in Superevents /\ ColumnTypes /\ op[q].kind = "remove"
      /\ e \in Events /\ e \in EventsOf(op[q])
    BY <1>0, RequestTypes DEF EventsInv, StepOfKind
<1>2. /\ UNCHANGED <<pipeline_preferred, preferred_event>>
      /\ superevent'[e] = IF superevent[e] = s THEN None ELSE superevent[e]
      /\ \A x \in Events \ {e} : superevent'[x] = superevent[x]
      /\ superevent' \in [Events -> Superevents \cup {None}]
    BY <1>1 DEF RemoveEvent, ColumnTypes
<1>3. ColumnTypes'
    BY <1>1, <1>2 DEF ColumnTypes
<1>4. TypeOK' /\ StepOfKind' /\ Active' = Active
    BY <1>0, <1>1, <1>3, GoingOn DEF Steps
<1>5. pc'[q] = "unlist" /\ op' = op /\ inst' = inst
    BY <1>0 DEF Goto, EventsInv, TypeOK
<1>6. ASSUME calm
      PROVE  Local(q) /\ OnePerPipeline' /\ Work(q)'
    <2>1. /\ Settled(s) /\ Exists(s) /\ preferred_event[s] # e
          /\ pipeline_preferred[e] = s => inst[q].pp = s
        BY <1>0, <1>6, RequestTypes DEF Work
    <2>2. \A z \in Superevents \ {s} : Members(z)' = Members(z)
        BY <1>1, <1>2, NoneAssumption DEF Members
    <2>3. Local(q)
        BY <1>1, <1>2, <2>2 DEF Local, Listed
    <2>4. Members(s)' = Members(s) \ {e}
        BY <1>1, <1>2, <1>5, NoneAssumption DEF Members
    <2>5. Listed(s)' = Listed(s) /\ preferred_event'[s] = preferred_event[s] /\ Exists(s)'
        BY <1>2, <1>5, <2>1 DEF Listed, Exists
    <2>6. preferred_event'[s] \in Members(s)' /\ Listed(s)' \ {e} \subseteq Members(s)'
        BY <2>1, <2>4, <2>5 DEF Settled
    <2>7. Work(q)'
        BY <1>2, <1>5, <2>1, <2>5, <2>6 DEF Work
    <2>8. OnePerPipeline'
        BY <1>2, <1>6 DEF EventsInv, CalmInv, OnePerPipeline, Listed
    <2> QED BY <2>3, <2>7, <2>8
<1>7. CalmInv'
    BY <1>0, <1>4, <1>6, GoingOnCalm DEF Steps
<1>8. AloneInv'
    BY <1>0, <1>1, <1>4, GoingOnAlone DEF Steps
<1> QED BY <1>4, <1>7, <1>8 DEF EventsInv

LEMMA UnlistKeeps ==
    ASSUME EventsInv, NEW q \in Workers, Unlist(q)
    PROVE  EventsInv'
<1>0. q \in Active /\ pc[q] = "unlist" /\ End(q) /\ UNCHANGED calm
    BY DEF Unlist, Active, Respond
<1> DEFINE s == op[q].s
           e == op[q].e
<1>1. s \in Superevents /\ ColumnTypes /\ calm \in BOOLEAN /\ e \in Events
    BY <1>0, RequestTypes DEF EventsInv, StepOfKind
<1>2. /\ UNCHANGED <<superevent, preferred_event>>
      /\ pipeline_preferred' = IF e \in Listed(s) /\ inst[q].pp = s
                               THEN [pipeline_preferred EXCEPT ![e] = None]
                               ELSE pipeline_preferred
    BY DEF Unlist, Unlisted
<1>3. ColumnTypes' /\ \A x \in Events : pipeline_preferred'[x] \in {pipeline_preferred[x], None}
    BY <1>1, <1>2 DEF ColumnTypes
<1>4. TypeOK' /\ StepOfKind' /\ AloneInv' /\ Active' = Active \ {q}
    BY <1>0, <1>1, <1>3, AtEnd
<1>5. ASSUME calm
      PROVE  Local(q) /\ OnePerPipeline'
    BY <1>2, <1>3, <1>5, Shrinks DEF Local, Members
<1>6. ASSUME calm, NEW z \in Superevents, z = s
      PROVE  Settled(z)'
    <2>1. /\ Exists(s) /\ preferred_event[s] \in Members(s)
          /\ Listed(s) \ {e} \subseteq Members(s)
          /\ pipeline_preferred[e] = s => inst[q].pp = s
        BY <1>0, <1>6, RequestTypes DEF Work
    <2>2. Listed(z)' \subseteq Listed(s) \ {e}
        BY <1>1, <1>2, <1>6, <2>1, NoneAssumption DEF Listed, ColumnTypes
    <2>3. Members(z)' = Members(s)
        BY <1>2, <1>6 DEF Members
    <2> QED BY <1>2, <1>6, <2>1, <2>2, <2>3 DEF Settled, Exists
<1>7. CalmInv'
    BY <1>0, <1>1, <1>4, <1>5, <1>6, AtEndCalm
<1> QED BY <1>4, <1>7 DEF EventsInv

LEMMA BootKeeps ==
    ASSUME EventsInv, NEW q \in Workers, Boot(q)
    PROVE  EventsInv'
<1>0. q \in Active /\ pc[q] = "boot"
    BY DEF Boot, Active
<1> DEFINE s == op[q].s
           e == op[q].e
<1>1. /\ s \in Superevents /\ ColumnTypes /\ calm \in BOOLEAN /\ op[q].kind = "addPP"
      /\ UNCHANGED <<superevent, preferred_event>>
    BY <1>0, RequestTypes DEF EventsInv, StepOfKind, Boot
<1>2. CASE End(q) /\ UNCHANGED <<calm, pipeline_preferred>>
    <2>1. ColumnTypes'
        BY <1>1, <1>2 DEF ColumnTypes
    <2>2. TypeOK' /\ StepOfKind' /\ AloneInv' /\ Active' = Active \ {q}
        BY <1>0, <1>1, <1>2, <2>1, AtEnd
    <2>3. calm => Local(q) /\ OnePerPipeline'
        BY <1>1, <1>2 DEF Local, Members, Listed, EventsInv, CalmInv, OnePerPipeline
    <2>4. ASSUME NEW z \in Superevents, z = s, calm
          PROVE  Settled(z)'
        BY <1>0, <1>1, <1>2, <2>4, RequestTypes DEF Work, Settled, Members, Listed, Exists
    <2>5. CalmInv'
        BY <1>0, <1>1, <1>2, <2>2, <2>3, <2>4, AtEndCalm
    <2> QED BY <2>2, <2>5 DEF EventsInv
<1>3. CASE /\ Goto(q, "list")
           /\ pipeline_preferred' =
                [x \in Events |-> IF x \in SamePipeline(q) THEN None ELSE pipeline_preferred[x]]
    <2>1. ColumnTypes' /\ \A x \in Events : pipeline_preferred'[x] \in {pipeline_preferred[x], None}
        BY <1>1, <1>3 DEF ColumnTypes
    <2>2. TypeOK' /\ StepOfKind' /\ Active' = Active
        BY <1>0, <1>1, <1>3, <2>1, GoingOn DEF Steps
    <2>3. pc'[q] = "list" /\ op' = op /\ inst' = inst
        BY <1>0, <1>3 DEF Goto, EventsInv, TypeOK
    <2>4. ASSUME calm
          PROVE  Local(q) /\ OnePerPipeline' /\ Work(q)'
        <3>1. Settled(s) /\ Exists(s) /\ superevent[e] = s
            BY <1>0, <2>4, RequestTypes DEF Work
        <3>2. Local(q) /\ OnePerPipeline' /\ Listed(s)' \subseteq Listed(s)
            BY <1>1, <2>1, <2>3, <2>4, Shrinks DEF Local, Members, Listed
        <3>3. Settled(s)' /\ Exists(s)'
            BY <1>1, <2>3, <3>1, <3>2 DEF Settled, Exists, Members
        <3>4. SamePipeline(q)' = {}
            BY <1>1, <1>3, <2>3, NoneAssumption DEF SamePipeline, Listed
        <3> QED BY <1>1, <2>3, <3>1, <3>2, <3>3, <3>4 DEF Work
    <2>5. CalmInv'
        BY <1>0, <1>3, <2>2, <2>4, GoingOnCalm DEF Steps
    <2>6. AloneInv'
        BY <1>0, <1>1, <1>3, <2>2, GoingOnAlone DEF Steps
    <2> QED BY <2>2, <2>5, <2>6 DEF EventsInv
<1> QED BY <1>2, <1>3 DEF Boot, Respond

LEMMA ListKeeps ==
    ASSUME EventsInv, NEW q \in Workers, List(q)
    PROVE  EventsInv'
<1>0. q \in Active /\ pc[q] = "list" /\ End(q) /\ UNCHANGED calm
    BY DEF List, Active, Respond
<1> DEFINE s == op[q].s
           e == op[q].e
<1>1. s \in Superevents /\ ColumnTypes /\ calm \in BOOLEAN /\ e \in Events
    BY <1>0, RequestTypes DEF EventsInv, StepOfKind
<1>2. /\ UNCHANGED <<superevent, preferred_event>>
      /\ pipeline_preferred'[e] = s
      /\ \A x \in Events \ {e} : pipeline_preferred'[x] = pipeline_preferred[x]
      /\ pipeline_preferred' \in [Events -> Superevents \cup {None}]
    BY <1>1 DEF List, ColumnTypes
<1>3. ColumnTypes'
    BY <1>1, <1>2 DEF ColumnTypes
<1>4. TypeOK' /\ StepOfKind' /\ AloneInv' /\ Active' = Active \ {q}
    BY <1>0, <1>1, <1>3, AtEnd
<1>5. \A z \in Superevents : Listed(z)' = IF z = s THEN Listed(z) \cup {e} ELSE Listed(z) \ {e}
    BY <1>1, <1>2 DEF Listed
<1>6. ASSUME calm
      PROVE  Local(q) /\ OnePerPipeline'
    <2>1. Local(q)
        BY <1>2, <1>5 DEF Local, Members
    <2>2. ASSUME NEW z \in Superevents, NEW x \in Listed(z)', NEW y \in Listed(z)',
                 Pipeline[x] = Pipeline[y]
          PROVE  x = y
        <3>1. CASE z # s
            BY <1>5, <1>6, <2>2, <3>1 DEF EventsInv, CalmInv, OnePerPipeline
        <3>2. CASE z = s
            <4>1. \A u \in Listed(s) : Pipeline[u] # Pipeline[e]
                BY <1>0, <1>6, RequestTypes DEF Work, SamePipeline
            <4> QED BY <1>5, <1>6, <2>2, <3>2, <4>1 DEF EventsInv, CalmInv, OnePerPipeline
        <3> QED BY <3>1, <3>2
    <2> QED BY <2>1, <2>2 DEF OnePerPipeline
<1>7. ASSUME calm, NEW z \in Superevents, z = s
      PROVE  Settled(z)'
    <2>1. Settled(s) /\ Exists(s) /\ superevent[e] = s
        BY <1>0, <1>7, RequestTypes DEF Work
    <2>2. Members(z)' = Members(s) /\ e \in Members(s)
        BY <1>1, <1>2, <1>7, <2>1 DEF Members
    <2> QED BY <1>2, <1>5, <1>7, <2>1, <2>2 DEF Settled, Exists
<1>8. CalmInv'
    BY <1>0, <1>1, <1>4, <1>6, <1>7, AtEndCalm
<1> QED BY <1>4, <1>8 DEF EventsInv

LEMMA RemovePipelinePreferredKeeps ==
    ASSUME EventsInv, NEW q \in Workers, RemovePipelinePreferred(q)
    PROVE  EventsInv'
<1>0. q \in Active /\ pc[q] = "unpp" /\ End(q) /\ UNCHANGED calm
    BY DEF RemovePipelinePreferred, Active, Respond
<1> DEFINE s == op[q].s
           e == op[q].e
<1>1. s \in Superevents /\ ColumnTypes /\ calm \in BOOLEAN /\ e \in Events
    BY <1>0, RequestTypes DEF EventsInv, StepOfKind
<1>2. /\ UNCHANGED <<superevent, preferred_event>>
      /\ \A x \in Events : pipeline_preferred'[x] \in {pipeline_preferred[x], None}
      /\ pipeline_preferred' \in [Events -> Superevents \cup {None}]
    BY <1>1 DEF RemovePipelinePreferred, ColumnTypes
<1>3. ColumnTypes'
    BY <1>1, <1>2 DEF ColumnTypes
<1>4. TypeOK' /\ StepOfKind' /\ AloneInv' /\ Active' = Active \ {q}
    BY <1>0, <1>1, <1>3, AtEnd
<1>5. calm => Local(q) /\ OnePerPipeline' /\ \A z \in Superevents : Listed(z)' \subseteq Listed(z)
    BY <1>2, <1>3, Shrinks DEF Local, Members
<1>6. ASSUME calm, NEW z \in Superevents, z = s
      PROVE  Settled(z)'
    <2>1. Settled(s) /\ Exists(s)
        BY <1>0, <1>6, RequestTypes DEF Work
    <2> QED BY <1>2, <1>5, <1>6, <2>1 DEF Settled, Exists, Members
<1>7. CalmInv'
    BY <1>0, <1>1, <1>4, <1>5, <1>6, AtEndCalm
<1> QED BY <1>4, <1>7 DEF EventsInv

LEMMA CrashKeeps ==
    ASSUME EventsInv, NEW q \in Workers, Crash(q)
    PROVE  EventsInv'
<1>1. q \in Active /\ End(q) /\ calm' = FALSE
      /\ UNCHANGED <<superevent, pipeline_preferred, preferred_event>>
    BY DEF Crash
<1>2. ColumnTypes'
    BY <1>1, RequestTypes DEF ColumnTypes
<1>3. TypeOK' /\ StepOfKind' /\ AloneInv'
    BY <1>1, <1>2, AtEnd
<1> QED BY <1>1, <1>3 DEF EventsInv, CalmInv

\* What validation has made sure of when the request of a worker starts.
LEMMA StartedWork ==
    ASSUME EventsInv, NEW r \in Workers, NEW o \in Op,
           Exists(o.s) = (o.kind # "create"), Valid(o), Settled(o.s),
           NEW st, st = FirstStep(o.kind), NEW i, i.members = Members(o.s), i.pref = preferred_event[o.s],
           i.pp = IF o.e = None THEN None ELSE pipeline_preferred[o.e],
           UNCHANGED <<superevent, pipeline_preferred, preferred_event>>,
           op'[r] = o, inst'[r] = i, pc'[r] = st
    PROVE  Work(r)'
<1> DEFINE s == o.s
<1>1. /\ o.kind \in AllKinds /\ s \in Superevents /\ o.e \in Events \cup {None}
      /\ o.more \subseteq Events /\ EventsOf(o) = (o.more \cup {o.e}) \ {None}
      /\ o.e = None => o.kind = "update"
      /\ o.more # {} => o.kind = "create"
    BY OpTypes DEF EventsOf
<1>2. /\ o.kind \in {"create", "update"} => st = "save"
      /\ o.kind = "add" => st = "events"
      /\ o.kind = "remove" => st = "remove"
      /\ o.kind = "addPP" => st = "boot"
      /\ o.kind = "removePP" => st = "unpp"
    BY DEF FirstStep
<1>3. st \in {"save", "events", "remove", "boot", "unpp"}
    BY <1>1, <1>2 DEF AllKinds
<1>4. Settled(s)'
    BY DEF Settled, Members, Listed, Exists
<1>5. st # "save" => Exists(s)'
    BY <1>1, <1>2 DEF AllKinds, Exists
<1>6. st = "save" => /\ i.members = Members(s)' /\ i.pref = preferred_event'[s]
                     /\ o.kind = "update" => Exists(s)'
    BY DEF Members, Exists
<1>7. st \in {"save", "events"} => \A e \in EventsOf(o) : superevent'[e] \in {None, s}
    <2>1. CASE o.kind = "create"
        BY <1>1, <2>1 DEF Valid, Unassigned
    <2>2. CASE o.kind = "update"
        BY <1>1, <2>2 DEF Valid, MayPrefer
    <2>3. CASE o.kind = "add"
        BY <1>1, <2>3 DEF Valid, Unassigned
    <2> QED BY <1>1, <1>2, <2>1, <2>2, <2>3 DEF AllKinds
<1>8. st = "remove" => /\ preferred_event'[s] # o.e
                       /\ pipeline_preferred'[o.e] = s => i.pp = s
    <2> SUFFICES ASSUME o.kind = "remove"
                 PROVE  /\ preferred_event[s] # o.e
                        /\ pipeline_preferred[o.e] = s => i.pp = s
        BY <1>1, <1>2 DEF AllKinds
    <2>1. PreferredFor(o.e) = {}
        BY DEF Valid, MayRemove
    <2> QED BY <1>1, <2>1 DEF PreferredFor
<1>9. st = "boot" => superevent'[o.e] = s
    <2> SUFFICES ASSUME o.kind = "addPP" PROVE superevent[o.e] = s
        BY <1>1, <1>2 DEF AllKinds
    <2> QED BY DEF Valid, MayList
<1> QED BY <1>3, <1>4, <1>5, <1>6, <1>7, <1>8, <1>9 DEF Work

\* Other workers do not notice a request that starts.
LEMMA WorkUnread ==
    ASSUME NEW q, Work(q), UNCHANGED <<superevent, pipeline_preferred, preferred_event>>,
           op'[q] = op[q], inst'[q] = inst[q], pc'[q] = pc[q]
    PROVE  Work(q)'
<1>1. \A s : Settled(s) => Settled(s)'
    BY DEF Settled, Members, Listed, Exists
<1>2. \A s : Members(s)' = Members(s) /\ Listed(s)' = Listed(s) /\ Exists(s)' = Exists(s)
    BY DEF Members, Listed, Exists
<1>3. Preferred(q)' = Preferred(q) /\ SamePipeline(q)' = SamePipeline(q)
    BY DEF Preferred, SamePipeline, Listed
<1> QED BY <1>1, <1>2, <1>3 DEF Work

LEMMA StartKeeps ==
    ASSUME EventsInv, NEW r \in Workers, Start(r)
    PROVE  EventsInv'
<1>1. PICK o \in Op :
         /\ Exists(o.s) = (o.kind # "create")
         /\ Valid(o)
         /\ op' = [op EXCEPT ![r] = o]
         /\ inst' = [inst EXCEPT ![r] =
              [members |-> Members(o.s), pref |-> preferred_event[o.s],
               pp |-> IF o.e = None THEN None ELSE pipeline_preferred[o.e]]]
         /\ pc' = [pc EXCEPT ![r] = FirstStep(o.kind)]
         /\ calm' = (calm /\ \A q \in Active : Apart(o, op[q]))
    BY DEF Start
<1>2. /\ pc[r] = "idle" /\ alone' = IF Active = {} THEN {r} ELSE {}
      /\ UNCHANGED <<superevent, pipeline_preferred, preferred_event>>
    BY DEF Start
<1> DEFINE i == inst'[r]
<1>3. TypeOK
    BY DEF EventsInv
<1>4. /\ o.kind \in AllKinds /\ o.s \in Superevents /\ o.e \in Events \cup {None}
      /\ o.e = None => o.kind = "update"
      /\ o # NoOp
    BY OpTypes
<1>5. /\ op'[r] = o /\ pc'[r] = FirstStep(o.kind)
      /\ i.members = Members(o.s) /\ i.pref = preferred_event[o.s]
      /\ i.pp = (IF o.e = None THEN None ELSE pipeline_preferred[o.e])
      /\ i \in Inst
    <2>1. /\ Members(o.s) \subseteq Events /\ preferred_event[o.s] \in Events \cup {None}
          /\ (IF o.e = None THEN None ELSE pipeline_preferred[o.e]) \in Superevents \cup {None}
        BY <1>3, <1>4 DEF TypeOK, Members
    <2>2. i = [members |-> Members(o.s), pref |-> preferred_event[o.s],
               pp |-> IF o.e = None THEN None ELSE pipeline_preferred[o.e]]
        BY <1>1, <1>3 DEF TypeOK
    <2>3. op'[r] = o /\ pc'[r] = FirstStep(o.kind)
        BY <1>1, <1>3 DEF TypeOK
    <2> QED BY <2>1, <2>2, <2>3 DEF Inst
<1>6. \A q \in Workers \ {r} : op'[q] = op[q] /\ inst'[q] = inst[q] /\ pc'[q] = pc[q]
    BY <1>1, <1>3 DEF TypeOK
<1>7. FirstStep(o.kind) \in Steps \ {"attach", "unlist", "list"}
    BY <1>4 DEF FirstStep, Steps, AllKinds
<1>8. r \notin Active /\ Active' = Active \cup {r}
    BY <1>2, <1>5, <1>6, <1>7 DEF Active, Steps
<1> HIDE DEF i
<1>9. TypeOK'
    <2>1. /\ pc' \in [Workers -> Steps \cup {"idle"}]
          /\ op' \in [Workers -> Op \cup {NoOp}]
          /\ inst' \in [Workers -> Inst]
        <3>1. inst' = [inst EXCEPT ![r] = i]
            BY <1>1, <1>3 DEF TypeOK, i
        <3> QED BY <1>1, <1>3, <1>5, <1>7, <3>1 DEF TypeOK
    <2>2. \A q \in Workers : pc'[q] = "idle" <=> op'[q] = NoOp
        BY <1>3, <1>4, <1>5, <1>6, <1>7 DEF TypeOK, Steps
    <2>3. ASSUME NEW q \in Workers, pc'[q] \in {"save", "attach"}
          PROVE  Preferred(q)' # None
        <3>1. CASE q # r
            BY <1>3, <1>6, <2>3, <3>1 DEF TypeOK, Preferred
        <3>2. CASE q = r
            <4>1. o.e = None => i.pref # None
                BY <1>1, <1>4, <1>5 DEF Exists
            <4>2. Preferred(r)' = IF o.e = None THEN i.pref ELSE o.e
                BY <1>5 DEF Preferred, i
            <4> QED BY <3>2, <4>1, <4>2
        <3> QED BY <3>1, <3>2
    <2>4. alone' \subseteq Active' /\ calm' \in BOOLEAN
        BY <1>1, <1>2, <1>3, <1>8 DEF TypeOK
    <2> QED BY <1>2, <1>3, <2>1, <2>2, <2>3, <2>4 DEF TypeOK
<1>10. StepOfKind'
    <2> SUFFICES ASSUME NEW q \in Workers
                 PROVE  /\ pc'[q] \in {"save", "attach"} => op'[q].kind \in {"create", "update"}
                        /\ pc'[q] = "events" => op'[q].kind \in {"create", "add"}
                        /\ pc'[q] \in {"remove", "unlist"} => op'[q].kind = "remove"
                        /\ pc'[q] \in {"boot", "list"} => op'[q].kind = "addPP"
                        /\ pc'[q] = "unpp" => op'[q].kind = "removePP"
        BY DEF StepOfKind
    <2>1. CASE q = r
        BY <1>4, <1>5, <2>1 DEF FirstStep, AllKinds
    <2>2. CASE q # r
        BY <1>6, <2>2 DEF EventsInv, StepOfKind
    <2> QED BY <2>1, <2>2
<1>11. CalmInv'
    <2> SUFFICES ASSUME calm, \A q \in Active : Apart(o, op[q])
                 PROVE  /\ \A q, u \in Active' : q # u => Apart(op'[q], op'[u])
                        /\ \A z \in Superevents : (\A q \in Active' : op'[q].s # z) => Settled(z)'
                        /\ \A q \in Active' : Work(q)'
                        /\ OnePerPipeline'
        BY <1>1 DEF CalmInv
    <2>1. \A q \in Active : q \in Workers \ {r}
        BY <1>8 DEF Active
    <2>2. \A q \in Active : Apart(op[q], o)
        BY DEF Apart
    <2>3. \A q, u \in Active' : q # u => Apart(op'[q], op'[u])
        <3>1. \A q, u \in Active : q # u => Apart(op[q], op[u])
            BY DEF EventsInv, CalmInv
        <3> QED BY <1>5, <1>6, <1>8, <2>1, <2>2, <3>1
    <2>4. ASSUME NEW z \in Superevents, \A q \in Active : op[q].s # z
          PROVE  Settled(z)
        BY <2>4 DEF EventsInv, CalmInv
    <2>5. ASSUME NEW z \in Superevents, \A q \in Active' : op'[q].s # z
          PROVE  Settled(z)'
        <3>1. \A q \in Active : op[q].s # z
            BY <1>6, <1>8, <2>1, <2>5
        <3>2. Settled(z)
            BY <2>4, <3>1
        <3> QED BY <1>2, <3>2 DEF Settled, Members, Listed, Exists
    <2>6. Work(r)'
        <3>1. Settled(o.s)
            BY <1>4, <2>4 DEF Apart
        <3> QED BY <1>1, <1>2, <1>5, <3>1, StartedWork DEF i
    <2>7. ASSUME NEW q \in Active
          PROVE  Work(q)'
        <3>1. Work(q)
            BY DEF EventsInv, CalmInv
        <3>2. op'[q] = op[q] /\ inst'[q] = inst[q] /\ pc'[q] = pc[q]
            BY <1>6, <2>1
        <3> QED BY <1>2, <3>1, <3>2, WorkUnread
    <2>8. OnePerPipeline'
        BY <1>1, <1>2 DEF EventsInv, CalmInv, OnePerPipeline, Listed
    <2> QED BY <1>8, <2>3, <2>5, <2>6, <2>7, <2>8
<1>12. AloneInv'
    <2> SUFFICES ASSUME Active = {}
                 PROVE  /\ Active' = {r}
                        /\ i.members = Members(o.s)'
                        /\ pc'[r] # "attach"
        BY <1>2, <1>5 DEF AloneInv, Members, i
    <2> QED BY <1>2, <1>5, <1>7, <1>8 DEF Members
<1> QED BY <1>9, <1>10, <1>11, <1>12 DEF EventsInv

-----------------------------------------------------------------------------
(* The theorems.                                                           *)

LEMMA Unmoved ==
    ASSUME EventsInv, UNCHANGED vars
    PROVE  EventsInv'
<1> USE DEF vars
<1>1. TypeOK' /\ StepOfKind' /\ Active' = Active
    BY DEF EventsInv, TypeOK, StepOfKind, Active, Preferred
<1>2. CalmInv'
    <2>1. \A s \in Superevents : Settled(s) => Settled(s)'
        BY DEF Settled, Members, Listed, Exists
    <2>2. \A r \in Active : Work(r) => Work(r)'
        BY WorkUnread
    <2>3. OnePerPipeline => OnePerPipeline'
        BY DEF OnePerPipeline, Listed
    <2> QED BY <1>1, <2>1, <2>2, <2>3 DEF EventsInv, CalmInv
<1>3. AloneInv'
    BY <1>1 DEF EventsInv, AloneInv, Members, Listed, Preferred
<1> QED BY <1>1, <1>2, <1>3 DEF EventsInv

LEMMA EventsStep == EventsInv /\ [Next]_vars => EventsInv'
<1> SUFFICES ASSUME EventsInv, [Next]_vars PROVE EventsInv'
    OBVIOUS
<1>1. ASSUME NEW r \in Workers, Start(r) PROVE EventsInv'
    BY <1>1, StartKeeps
<1>2. ASSUME NEW r \in Workers, Save(r) PROVE EventsInv'
    BY <1>2, SaveKeeps
<1>3. ASSUME NEW r \in Workers, Attach(r) PROVE EventsInv'
    BY <1>3, AttachKeeps
<1>4. ASSUME NEW r \in Workers, AddEvent(r) PROVE EventsInv'
    BY <1>4, AddEventKeeps
<1>5. ASSUME NEW r \in Workers, RemoveEvent(r) PROVE EventsInv'
    BY <1>5, RemoveEventKeeps
<1>6. ASSUME NEW r \in Workers, Unlist(r) PROVE EventsInv'
    BY <1>6, UnlistKeeps
<1>7. ASSUME NEW r \in Workers, Boot(r) PROVE EventsInv'
    BY <1>7, BootKeeps
<1>8. ASSUME NEW r \in Workers, List(r) PROVE EventsInv'
    BY <1>8, ListKeeps
<1>9. ASSUME NEW r \in Workers, RemovePipelinePreferred(r) PROVE EventsInv'
    BY <1>9, RemovePipelinePreferredKeeps
<1>10. ASSUME NEW r \in Workers, Crash(r) PROVE EventsInv'
    BY <1>10, CrashKeeps
<1>11. CASE UNCHANGED vars
    BY <1>11, Unmoved
<1> QED BY <1>1, <1>2, <1>3, <1>4, <1>5, <1>6, <1>7, <1>8, <1>9, <1>10, <1>11 DEF Next, Step

LEMMA EventsInvariant == Spec => []EventsInv
BY EventsInit, EventsStep, PTL DEF Spec

\* As long as no process has died and overlapping requests were about different
\* superevents and different events, the lists of events a superevent keeps agree
\* between requests: its preferred event and its pipeline preferred events are among
\* its events, and it has at most one pipeline preferred event of each pipeline.
THEOREM EventListsAgree == Spec => []MembersAgree
<1>1. EventsInv => MembersAgree
    <2> SUFFICES ASSUME EventsInv PROVE MembersAgree
        OBVIOUS
    <2>1. TypeOK
        BY DEF EventsInv
    <2>2. OnePerPipeline
        BY DEF EventsInv, CalmInv, OnePerPipeline
    <2>3. ASSUME calm, Active = {}, NEW s \in Superevents
          PROVE  Settled(s)
        BY <2>3 DEF EventsInv, CalmInv
    <2>4. PreferredIsMember
        BY <2>3 DEF PreferredIsMember, Settled
    <2>5. ListedAreMembers
        BY <2>3 DEF ListedAreMembers, Settled
    <2> QED BY <2>1, <2>2, <2>4, <2>5 DEF MembersAgree
<1> QED BY <1>1, EventsInvariant, PTL

\* Under the same condition no request takes an event from one superevent into another:
\* an event that a step puts into a superevent was in none, or in that one.
THEOREM EventsStayPut == Spec => EventsAreNotTaken
<1> DEFINE Stay == \A e \in Events : superevent'[e] \in {superevent[e], None} \/ superevent[e] = None
<1>1. EventsInv /\ [Next]_vars => [calm => Stay]_vars
    <2> SUFFICES ASSUME EventsInv, Next, calm PROVE Stay
        BY DEF vars
    <2>1. PICK r \in Workers : Step(r) \/ Crash(r)
        BY DEF Next
    <2>2. superevent \in [Events -> Superevents \cup {None}]
        BY DEF EventsInv, TypeOK
    <2>3. CASE superevent' = superevent
        BY <2>3
    <2>4. CASE RemoveEvent(r)
        BY <2>2, <2>4 DEF RemoveEvent
    <2>5. ASSUME r \in Active, Work(r), pc[r] \in {"attach", "events"},
                 NEW x \in EventsOf(op[r]), superevent' = [superevent EXCEPT ![x] = op[r].s]
          PROVE  Stay
        BY <2>2, <2>5 DEF Work
    <2>6. CASE Attach(r) /\ MustAttach(r)
        <3>1. r \in Active /\ Work(r) /\ pc[r] = "attach"
            BY <2>6 DEF Attach, Active, EventsInv, CalmInv
        <3>2. superevent' = [superevent EXCEPT ![Preferred(r)] = op[r].s]
            BY <2>6 DEF Attach
        <3>3. Preferred(r) # None /\ op[r].e # None
            BY <2>6, <3>1 DEF EventsInv, TypeOK, Work, MustAttach, Active
        <3>4. Preferred(r) \in EventsOf(op[r])
            BY <3>3 DEF Preferred, EventsOf
        <3> HIDE DEF Stay
        <3> QED BY <2>5, <3>1, <3>2, <3>4
    <2>7. CASE AddEvent(r)
        <3>1. r \in Active /\ Work(r) /\ pc[r] = "events"
            BY <2>7 DEF AddEvent, Active, EventsInv, CalmInv
        <3>2. PICK x \in (IF op[r].kind = "create" THEN op[r].more ELSE {op[r].e}) :
                  superevent' = [superevent EXCEPT ![x] = op[r].s]
            BY <2>7 DEF AddEvent
        <3>3. op[r] \in Op /\ op[r].kind \in {"create", "add"}
            BY <3>1, ActiveTypes DEF EventsInv, StepOfKind
        <3>4. x \in EventsOf(op[r])
            BY <3>3, OpTypes, NoneAssumption DEF EventsOf
        <3> HIDE DEF Stay
        <3> QED BY <2>5, <3>1, <3>2, <3>4
    <2> QED BY <2>1, <2>3, <2>4, <2>6, <2>7
            DEF Step, Crash, Start, Save, Attach, Unlist, Boot, List, RemovePipelinePreferred
<1> QED BY <1>1, EventsInvariant, PTL DEF Spec, EventsAreNotTaken

\* Whatever overlaps and crashes have made of a superevent before, a PATCH that no other
\* request overlaps and that reaches the end leaves the preferred event among the events
\* of the superevent, and only events of it on its list.
THEOREM PatchMakesWhole == Spec => PatchRepairs
<1> DEFINE Repair == \A r \in Workers, s \in Superevents :
          Attach(r) /\ alone = {r} /\ op[r].kind = "update" /\ op[r].s = s =>
              preferred_event'[s] \in Members(s)' /\ (Listed(s) \subseteq Members(s))'
<1>1. EventsInv => [Repair]_vars
    <2> SUFFICES ASSUME EventsInv, NEW r \in Workers, NEW s \in Superevents,
                        Attach(r), alone = {r}, op[r].kind = "update", op[r].s = s
                 PROVE  preferred_event'[s] \in Members(s)' /\ Listed(s)' \subseteq Members(s)'
        OBVIOUS
    <2>1. /\ inst[r].members = Members(s) /\ preferred_event[s] = Preferred(r)
          /\ Listed(s) \subseteq Members(s) /\ pc[r] = "attach"
        BY DEF EventsInv, AloneInv, Attach
    <2>2. Preferred(r) \in Events
        BY <2>1 DEF EventsInv, TypeOK
    <2>3. /\ UNCHANGED <<pipeline_preferred, preferred_event>>
          /\ superevent' = IF MustAttach(r)
                           THEN [superevent EXCEPT ![Preferred(r)] = s] ELSE superevent
        BY DEF Attach
    <2>4. superevent \in [Events -> Superevents \cup {None}]
        BY DEF EventsInv, TypeOK
    <2>5. Members(s)' = Members(s) \cup {Preferred(r)}
        BY <2>1, <2>2, <2>3, <2>4 DEF Members, MustAttach
    <2>6. Listed(s)' = Listed(s)
        BY <2>3 DEF Listed
    <2> QED BY <2>1, <2>3, <2>5, <2>6
<1> QED BY <1>1, EventsInvariant, PTL DEF Spec, PatchRepairs
=============================================================================
