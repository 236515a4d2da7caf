------------------------- MODULE SupereventExposure -------------------------
(***************************************************************************)
(* Exposing a superevent to LV-EM observers and the public, and hiding it: *)
(* POST superevents/<id>/permissions/modify/ next to PATCH requests of the *)
(* same superevent.                                                        *)
(*                                                                         *)
(* Who may see the superevent is a set of permission rows, one INSERT or   *)
(* DELETE each; is_exposed is a column of the superevent that tracks them. *)
(* A request works with the instance it loaded, `modify' saves is_exposed  *)
(* alone, and a PATCH saves every column of its instance.                  *)
(***************************************************************************)
EXTENDS Integers, Sequences

CONSTANTS
    Modifiers,   \* modify requests
    Updaters,    \* PATCH requests
    MaxStrays    \* bound on the strays (see Stray)

Requests == Modifiers \cup Updaters

\* SUPEREVENT_PERMS, in the order expose_superevent and hide_superevent go through it.
SUPEREVENT_PERMS == << <<"lvem", "view">>, <<"lvem", "annotate">>, <<"public", "view">> >>

AllPerms == {SUPEREVENT_PERMS[i] : i \in 1 .. Len(SUPEREVENT_PERMS)}

VARIABLES
    is_exposed,   \* the column
    granted,      \* the SupereventGroupObjectPermission rows
    pc,           \* where each request is
    want,         \* what each modify request asks for
    inst,         \* is_exposed of the instance each request holds
    next,         \* the index of the next permission of each modify request
    stray,        \* is some event pipeline preferred without being in the superevent?
    strays,       \* how often that came to be
    alone,        \* history: the last request to start, if no other was active then
    calm          \* history: no save was refused, and no two requests that get in
                  \* each other's way overlapped

vars == <<is_exposed, granted, pc, want, inst, next, stray, strays, alone, calm>>

TypeOK ==
    /\ is_exposed \in BOOLEAN
    /\ granted \subseteq AllPerms
    /\ pc \in [Requests -> {"start", "perms", "save", "done", "failed"}]
    /\ want \in [Modifiers -> {"expose", "hide"}]
    /\ inst \in [Requests -> BOOLEAN]
    /\ next \in [Modifiers -> 1 .. Len(SUPEREVENT_PERMS) + 1]
    /\ stray \in BOOLEAN
    /\ strays \in 0 .. MaxStrays
    /\ alone \subseteq Requests
    /\ calm \in BOOLEAN
    /\ \A r \in Modifiers : pc[r] = "perms" => next[r] <= Len(SUPEREVENT_PERMS)
    /\ \A r \in Modifiers : pc[r] = "save" => next[r] = Len(SUPEREVENT_PERMS) + 1

Active == {r \in Requests : pc[r] \in {"perms", "save"}}

\* Two PATCHes, or two modify requests that ask for the same thing.
Compatible(q, r) == IF r \in Updaters THEN q \in Updaters
                    ELSE q \in Modifiers /\ want[q] = want[r]

Goto(r, l) == pc' = [pc EXCEPT ![r] = l]
Start(r) == /\ pc[r] = "start"
            /\ inst' = [inst EXCEPT ![r] = is_exposed]
            /\ alone' = IF Active = {} THEN {r} ELSE {}
            /\ calm' = (calm /\ \A q \in Active : Compatible(q, r))

-----------------------------------------------------------------------------
(* modify.                                                                 *)

\* A bug: the test of is_exposed is the wrong way round for hiding.
ActsOnHidden(r, exposed) == ~ exposed

\* Exposing what is exposed and hiding what is hidden do nothing.
Acts(r, exposed) == (want[r] = "expose") = ~ exposed

LoadModify(r) ==
    /\ Start(r)
    /\ Goto(r, IF Acts(r, is_exposed) THEN "perms" ELSE "done")
    /\ UNCHANGED <<is_exposed, granted, want, next, stray, strays>>

\* A bug: LV-EM observers keep the permission to annotate.
ViewOnly(p) == IF p[2] = "view" THEN {p} ELSE {}

\* The rows a call of remove_perm deletes.
RemovePerm(p) == {p}

\* A bug: the last permission is not reached.
AllButOne(i) == i >= Len(SUPEREVENT_PERMS)
AllChanged(i) == i > Len(SUPEREVENT_PERMS)

\* One turn of the loops of assign_perms_to_obj and remove_perms_from_obj.
ChangePerm(r) ==
    /\ pc[r] = "perms"
    /\ LET p == SUPEREVENT_PERMS[next[r]]
       IN  granted' = IF want[r] = "expose" THEN granted \cup {p}
                      ELSE granted \ RemovePerm(p)
    /\ next' = [next EXCEPT ![r] = @ + 1]
    /\ Goto(r, IF AllChanged(next'[r]) THEN "save" ELSE "perms")
    /\ UNCHANGED <<is_exposed, want, inst, stray, strays, alone, calm>>

\* A bug: the flag is set before the permissions are changed.
FlagFirst(r) ==
    /\ Start(r)
    /\ Goto(r, IF Acts(r, is_exposed) THEN "perms" ELSE "done")
    /\ is_exposed' = (want[r] = "expose")
    /\ UNCHANGED <<granted, want, next, stray, strays>>

StartModify(r) == LoadModify(r)

\* Superevent.clean, run by every save: an event that is pipeline preferred but
\* not in the superevent is dropped from the list and the save is refused.
Refused(r) ==
    /\ stray
    /\ stray' = FALSE
    /\ calm' = FALSE
    /\ Goto(r, "failed")
    /\ UNCHANGED is_exposed

\* superevent.save(update_fields=['is_exposed'])
SaveModify(r) ==
    /\ pc[r] = "save"
    /\ \/ Refused(r)
       \/ /\ ~ stray
          /\ is_exposed' = (want[r] = "expose")
          /\ Goto(r, "done")
          /\ UNCHANGED <<stray, calm>>
    /\ UNCHANGED <<granted, want, inst, next, strays, alone>>

Modify(r) == StartModify(r) \/ ChangePerm(r) \/ SaveModify(r)

-----------------------------------------------------------------------------
(* PATCH.                                                                  *)

StartUpdate(r) ==
    /\ Start(r)
    /\ Goto(r, "save")
    /\ UNCHANGED <<is_exposed, granted, want, next, stray, strays>>

\* superevent.save() of update_superevent: is_exposed goes back to what it was
\* when the request loaded its instance.
SaveUpdate(r) ==
    /\ pc[r] = "save"
    /\ \/ Refused(r)
       \/ /\ ~ stray
          /\ is_exposed' = inst[r]
          /\ Goto(r, "done")
          /\ UNCHANGED <<stray, calm>>
    /\ UNCHANGED <<granted, want, inst, next, strays, alone>>

Update(r) == StartUpdate(r) \/ SaveUpdate(r)

\* Another request takes a pipeline preferred event out of the superevent
\* without taking it off the list (see SupereventEvents).
Stray ==
    /\ strays < MaxStrays
    /\ strays' = strays + 1
    /\ stray' = TRUE
    /\ UNCHANGED <<is_exposed, granted, pc, want, inst, next, alone, calm>>

-----------------------------------------------------------------------------
Init ==
    /\ is_exposed \in BOOLEAN
    /\ granted = IF is_exposed THEN AllPerms ELSE {}
    /\ pc = [r \in Requests |-> "start"]
    /\ want \in [Modifiers -> {"expose", "hide"}]
    /\ inst = [r \in Requests |-> FALSE]
    /\ next = [r \in Modifiers |-> 1]
    /\ stray = FALSE
    /\ strays = 0
    /\ alone = {}
    /\ calm = TRUE

Next == \/ \E r \in Modifiers : Modify(r)
        \/ \E r \in Updaters : Update(r)
        \/ Stray

Spec == Init /\ [][Next]_vars

\* A request that was let in is carried through, unless its process dies.
FairSpec == /\ Spec
            /\ \A r \in Modifiers : WF_vars(Modify(r))
            /\ \A r \in Updaters : WF_vars(Update(r))

-----------------------------------------------------------------------------
(* Properties.                                                             *)

\* Between requests, is_exposed says who may see the superevent.  Where it does
\* not, the superevent can be public and every request to hide it does nothing.
FlagTracksPermissions ==
    Active = {} => granted = IF is_exposed THEN AllPerms ELSE {}

\* Requests that ask for the same thing may overlap, and so may PATCHes; only a
\* PATCH next to a modify request, requests that contradict each other, and a
\* refused save part the flag from the permissions.
CalmKeepsFlag == calm => FlagTracksPermissions

\* Whatever overlaps and refusals made of the superevent, a modify request that
\* then runs alone, acts and is not refused puts it right.
RunAloneRepairs ==
    \A r \in Modifiers : (alone = {r} /\ pc[r] = "done" /\ next[r] > 1) =>
        /\ is_exposed = (want[r] = "expose")
        /\ granted = IF is_exposed THEN AllPerms ELSE {}

\* The flag agrees with the permissions, or a request that runs alone makes it agree.
FlagIsTrue == TypeOK /\ CalmKeepsFlag /\ RunAloneRepairs

AllWant(w) == \A r \in Modifiers : want[r] = w

\* Where all modify requests ask for the same thing, the superevent is not flagged
\* as exposed, or as hidden, before the groups have all the permissions, or none,
\* whatever the overlaps, and a PATCH with an old flag does not change that.
FlagComesLast ==
    /\ AllWant("expose") /\ is_exposed => granted = AllPerms
    /\ AllWant("hide") /\ ~ is_exposed => granted = {}

\* Requests that ask for the same thing get it, for good, unless a PATCH next to
\* one of them or a refused save is in the way.
EveryoneAgrees ==
    \A w \in {"expose", "hide"} :
        AllWant(w) => <>[](is_exposed = (w = "expose") \/ ~ calm)
=============================================================================
