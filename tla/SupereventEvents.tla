-------------------------- MODULE SupereventEvents --------------------------
(***************************************************************************)
(* Which events are in which superevent, which one is a superevent's       *)
(* preferred event and which are its pipeline preferred events: creation,  *)
(* PATCH of the preferred event, and POST and DELETE on the events and on  *)
(* the pipeline preferred events of a superevent.                          *)
(*                                                                         *)
(* A worker takes one request after another.  A request reads what its     *)
(* validation needs into its instances, and then runs its UPDATEs one by   *)
(* one; nothing is locked in between.                                      *)
(***************************************************************************)
EXTENDS Naturals, FiniteSets

CONSTANTS
    Superevents,
    Events,
    None,
    Workers,      \* what runs the requests
    Kinds,        \* the kinds of request that are made
    Pipeline,     \* [Events -> pipelines]
    External,     \* the events of the external analysis group
    Mismatched,   \* events that are not of the superevents' category
    MayCrash      \* may a web process die between two statements?

AllKinds == {"create", "update", "add", "remove", "addPP", "removePP"}

ASSUME KindsAssumption  == Kinds \subseteq AllKinds
ASSUME EventsAssumption == External \subseteq Events /\ Mismatched \subseteq Events
ASSUME NoneAssumption   == None \notin Superevents \cup Events
ASSUME PipelineAssumption == DOMAIN Pipeline = Events
ASSUME SwitchAssumption == MayCrash \in BOOLEAN

VARIABLES
    superevent,           \* Event.superevent
    pipeline_preferred,   \* Event.pipeline_preferred
    preferred_event,      \* Superevent.preferred_event, None when there is no such row
    pc,
    op,                   \* what the request of each worker asks for
    inst,                 \* what the request has read
    alone,                \* history: the worker whose request no other overlaps
    calm                  \* history: no process died, and no two requests about one
                          \* superevent, or about one event, overlapped

vars == <<superevent, pipeline_preferred, preferred_event, pc, op, inst, alone, calm>>

\* Only a PATCH need not name an event; a new superevent may be given one more.
Op == {o \in [kind : Kinds, s : Superevents, e : Events \cup {None}, more : SUBSET Events] :
         /\ o.e = None => o.kind = "update"
         /\ o.more = {} \/ (o.kind = "create" /\ \E e \in Events \ {o.e} : o.more = {e})}
Inst == [members : SUBSET Events, pref : Events \cup {None}, pp : Superevents \cup {None}]
NoOp == [kind |-> "none", s |-> None, e |-> None, more |-> {}]
NoInst == [members |-> {}, pref |-> None, pp |-> None]

EventsOf(o) == (o.more \cup {o.e}) \ {None}
Apart(o, p) == o.s # p.s /\ EventsOf(o) \cap EventsOf(p) = {}

Steps == {"save", "attach", "events", "remove", "unlist", "boot", "list", "unpp"}

Active == {r \in Workers : pc[r] # "idle"}

\* A bug: a PATCH without a preferred event clears the one there is.
AsGiven(r) == op[r].e

\* The preferred event as the instance has it when it is saved.
Preferred(r) == IF op[r].e = None THEN inst[r].pref ELSE op[r].e

TypeOK ==
    /\ superevent \in [Events -> Superevents \cup {None}]
    /\ pipeline_preferred \in [Events -> Superevents \cup {None}]
    /\ preferred_event \in [Superevents -> Events \cup {None}]
    /\ pc \in [Workers -> Steps \cup {"idle"}]
    /\ op \in [Workers -> Op \cup {NoOp}]
    /\ inst \in [Workers -> Inst]
    /\ alone \subseteq Active
    /\ calm \in BOOLEAN
    /\ \A r \in Workers : pc[r] = "idle" <=> op[r] = NoOp
    /\ \A r \in Workers : pc[r] \in {"save", "attach"} => Preferred(r) # None

Exists(s)  == preferred_event[s] # None
Members(s) == {e \in Events : superevent[e] = s}
Listed(s)  == {e \in Events : pipeline_preferred[e] = s}
PreferredFor(e) == {s \in Superevents : preferred_event[s] = e}

Goto(r, step) == /\ pc' = [pc EXCEPT ![r] = step]
                 /\ UNCHANGED <<op, inst, alone, calm>>

\* The response, whatever its status, ends the request.
End(r) == /\ pc' = [pc EXCEPT ![r] = "idle"]
          /\ op' = [op EXCEPT ![r] = NoOp]
          /\ inst' = [inst EXCEPT ![r] = NoInst]
          /\ alone' = alone \ {r}
Respond(r) == End(r) /\ UNCHANGED calm

-----------------------------------------------------------------------------
(* Validation, by the serializers and validate_destroy.                    *)

\* A bug: only an event that is a preferred event counts as assigned.
NotPreferred(e) == PreferredFor(e) = {}

\* SupereventSerializer.validate and SupereventEventSerializer.validate.
Unassigned(e) == superevent[e] = None /\ PreferredFor(e) = {}

\* A bug: the preferred event can be removed.
RemoveAny(o) == superevent[o.e] = o.s

MayRemove(o) == superevent[o.e] = o.s /\ PreferredFor(o.e) = {}

\* A bug: the event need not be in the superevent.
ListAny(o) == pipeline_preferred[o.e] # o.s /\ o.e \notin Mismatched

MayList(o) == /\ pipeline_preferred[o.e] # o.s
              /\ superevent[o.e] = o.s
              /\ o.e \notin Mismatched

MayUnlist(o) == pipeline_preferred[o.e] = o.s /\ PreferredFor(o.e) = {}

\* SupereventUpdateSerializer.validate; there is no check of the category.
MayPrefer(o) ==
    /\ superevent[o.e] \in {None, o.s}
    /\ PreferredFor(o.e) \subseteq {o.s}

Valid(o) ==
    CASE o.kind = "create"   -> /\ Unassigned(o.e) /\ o.e \notin Mismatched
                                /\ \A e \in o.more : Unassigned(e) /\ e \notin Mismatched
      [] o.kind = "update"   -> o.e # None => MayPrefer(o)
      [] o.kind = "add"      -> Unassigned(o.e) /\ o.e \notin Mismatched
      [] o.kind = "remove"   -> MayRemove(o)
      [] o.kind = "addPP"    -> MayList(o)
      [] o.kind = "removePP" -> MayUnlist(o)

FirstStep(kind) ==
    CASE kind \in {"create", "update"} -> "save"
      [] kind = "add"      -> "events"
      [] kind = "remove"   -> "remove"
      [] kind = "addPP"    -> "boot"
      [] kind = "removePP" -> "unpp"

\* A request is made, the instances are loaded, and validation passes (a request
\* it refuses changes nothing).  A create makes a row of its own; a PATCH that
\* names the preferred event the superevent has is one that names none.
Start(r) ==
    /\ pc[r] = "idle"
    /\ \E o \in Op :
         /\ Exists(o.s) = (o.kind # "create")
         /\ o.kind = "create" => \A q \in Active : op[q].kind = "create" => op[q].s # o.s
         /\ o.kind = "update" => o.e # preferred_event[o.s]
         /\ Valid(o)
         /\ op' = [op EXCEPT ![r] = o]
         /\ inst' = [inst EXCEPT ![r] =
              [members |-> Members(o.s), pref |-> preferred_event[o.s],
               pp |-> IF o.e = None THEN None ELSE pipeline_preferred[o.e]]]
         /\ pc' = [pc EXCEPT ![r] = FirstStep(o.kind)]
         /\ calm' = (calm /\ \A q \in Active : Apart(o, op[q]))
    /\ alone' = IF Active = {} THEN {r} ELSE {}
    /\ UNCHANGED <<superevent, pipeline_preferred, preferred_event>>

-----------------------------------------------------------------------------
(* Superevent.save.                                                        *)

Strays(s) == Listed(s) \ Members(s)

\* Superevent.clean, which drops a stray from the list and refuses the save; and
\* the INSERT or UPDATE, with preferred_event as the request's instance has it.
Save(r) ==
    LET s == op[r].s
    IN  /\ pc[r] = "save"
        /\ \/ /\ \/ Preferred(r) \in External
                 \/ PreferredFor(Preferred(r)) \ {s} # {}
              /\ Respond(r)
              /\ UNCHANGED <<pipeline_preferred, preferred_event>>
           \/ \E e \in Strays(s) :
                 /\ Preferred(r) \notin External
                 /\ pipeline_preferred' = [pipeline_preferred EXCEPT ![e] = None]
                 /\ Respond(r)
                 /\ UNCHANGED preferred_event
           \/ /\ Preferred(r) \notin External
              /\ PreferredFor(Preferred(r)) \subseteq {s}
              /\ Strays(s) = {}
              /\ preferred_event' = [preferred_event EXCEPT ![s] = Preferred(r)]
              /\ Goto(r, "attach")
              /\ UNCHANGED pipeline_preferred
        /\ UNCHANGED superevent

\* A bug: the preferred event is only attached when the superevent is created.
AttachOnCreate(r) == op[r].kind = "create"

\* `self.preferred_event not in self.events.all()', with the events a PATCH has
\* fetched before.
MustAttach(r) == Preferred(r) \notin inst[r].members

Attach(r) ==
    /\ pc[r] = "attach"
    /\ superevent' = IF MustAttach(r)
                     THEN [superevent EXCEPT ![Preferred(r)] = op[r].s] ELSE superevent
    /\ IF op[r].more = {} THEN Respond(r) ELSE Goto(r, "events")
    /\ UNCHANGED <<pipeline_preferred, preferred_event>>

\* add_event_to_superevent, for the events of a new superevent or the one of a POST.
AddEvent(r) ==
    /\ pc[r] = "events"
    /\ \E e \in IF op[r].kind = "create" THEN op[r].more ELSE {op[r].e} :
         superevent' = [superevent EXCEPT ![e] = op[r].s]
    /\ Respond(r)
    /\ UNCHANGED <<pipeline_preferred, preferred_event>>

-----------------------------------------------------------------------------
(* remove_event_from_superevent.                                           *)

\* superevent.events.remove(event): an UPDATE of the rows still in the superevent.
RemoveEvent(r) ==
    /\ pc[r] = "remove"
    /\ superevent' = [superevent EXCEPT ![op[r].e] = IF @ = op[r].s THEN None ELSE @]
    /\ Goto(r, "unlist")
    /\ UNCHANGED <<pipeline_preferred, preferred_event>>

Unlisted(e) == [pipeline_preferred EXCEPT ![e] = None]

\* An event found on the list is taken off it.  The instance decides whether it
\* can be: one loaded before it was listed raises DoesNotExist.
Unlist(r) ==
    /\ pc[r] = "unlist"
    /\ pipeline_preferred' =
         IF op[r].e \in Listed(op[r].s) /\ inst[r].pp = op[r].s
         THEN Unlisted(op[r].e) ELSE pipeline_preferred
    /\ Respond(r)
    /\ UNCHANGED <<superevent, preferred_event>>

-----------------------------------------------------------------------------
(* add_event_as_pipeline_preferred and                                     *)
(* remove_pipeline_preferred_event_from_superevent.                        *)

\* A bug: the event of the pipeline that is listed is not looked for.
NoneListed(r) == {}

SamePipeline(r) == {e \in Listed(op[r].s) : Pipeline[e] = Pipeline[op[r].e]}

\* The event of the same pipeline is booted from the list; `get' raises an error
\* when there are two.
Boot(r) ==
    /\ pc[r] = "boot"
    /\ \/ /\ Cardinality(SamePipeline(r)) > 1
          /\ Respond(r)
          /\ UNCHANGED pipeline_preferred
       \/ /\ Cardinality(SamePipeline(r)) <= 1
          /\ pipeline_preferred' =
               [e \in Events |-> IF e \in SamePipeline(r) THEN None ELSE pipeline_preferred[e]]
          /\ Goto(r, "list")
    /\ UNCHANGED <<superevent, preferred_event>>

List(r) ==
    /\ pc[r] = "list"
    /\ pipeline_preferred' = [pipeline_preferred EXCEPT ![op[r].e] = op[r].s]
    /\ Respond(r)
    /\ UNCHANGED <<superevent, preferred_event>>

\* The view passes the superevent the event was in when it was loaded, not the one
\* of the URL.
RemovePipelinePreferred(r) ==
    /\ pc[r] = "unpp"
    /\ pipeline_preferred' = [pipeline_preferred EXCEPT ![op[r].e] =
         IF op[r].e \in inst[r].members /\ @ = op[r].s THEN None ELSE @]
    /\ Respond(r)
    /\ UNCHANGED <<superevent, preferred_event>>

\* The web process dies.
Crash(r) ==
    /\ MayCrash
    /\ r \in Active
    /\ End(r)
    /\ calm' = FALSE
    /\ UNCHANGED <<superevent, pipeline_preferred, preferred_event>>

-----------------------------------------------------------------------------
Init ==
    /\ superevent = [e \in Events |-> None]
    /\ pipeline_preferred = [e \in Events |-> None]
    /\ preferred_event = [s \in Superevents |-> None]
    /\ pc = [r \in Workers |-> "idle"]
    /\ op = [r \in Workers |-> NoOp]
    /\ inst = [r \in Workers |-> NoInst]
    /\ alone = {}
    /\ calm = TRUE

Step(r) == \/ Start(r) \/ Save(r) \/ Attach(r) \/ AddEvent(r) \/ RemoveEvent(r)
           \/ Unlist(r) \/ Boot(r) \/ List(r) \/ RemovePipelinePreferred(r)

Next == \E r \in Workers : Step(r) \/ Crash(r)

Spec == Init /\ [][Next]_vars

-----------------------------------------------------------------------------
(* Properties.                                                             *)

\* Requests about different superevents and events may overlap; then, between
\* requests, the preferred event of a superevent is one of its events.
PreferredIsMember ==
    calm /\ Active = {} =>
        \A s \in Superevents : Exists(s) => preferred_event[s] \in Members(s)

\* Likewise the pipeline preferred events of a superevent are in it: what takes an
\* event out of a superevent takes it off the list.
ListedAreMembers ==
    calm /\ Active = {} => \A s \in Superevents : Listed(s) \subseteq Members(s)

\* A superevent has at most one preferred event of each pipeline; with two, no
\* event of the pipeline can be made preferred any more.
OnePerPipeline ==
    calm => \A s \in Superevents : \A e, f \in Listed(s) : Pipeline[e] = Pipeline[f] => e = f

\* The three lists of events a superevent keeps agree with each other.
MembersAgree == TypeOK /\ PreferredIsMember /\ ListedAreMembers /\ OnePerPipeline

\* An event gets from one superevent to another only by being removed first.
EventsAreNotTaken ==
    [][ calm => \A e \in Events :
            superevent'[e] \in {superevent[e], None} \/ superevent[e] = None ]_vars

\* The events of a superevent are of its category.
CategoriesMatch == \A s \in Superevents : Members(s) \cap Mismatched = {}

\* Whatever races and crashes made of a superevent, a PATCH that runs alone and is
\* accepted leaves its preferred event in it, and no event it lists outside of it.
PatchRepairs ==
    [][ \A r \in Workers, s \in Superevents :
          Attach(r) /\ alone = {r} /\ op[r].kind = "update" /\ op[r].s = s =>
              preferred_event'[s] \in Members(s)' /\ (Listed(s) \subseteq Members(s))' ]_vars
=============================================================================
