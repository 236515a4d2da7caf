------------------------------- MODULE Signoff -------------------------------
(***************************************************************************)
(* One kind of signoff of one superevent (the advocate's, or that of the   *)
(* operators of one instrument) and the three labels that go with it: the  *)
(* one that requests the signoff, and the ones for its two statuses.       *)
(* Kinds of signoff share no row and no label.                             *)
(*                                                                         *)
(* A worker takes one request after another; each step of a request is a   *)
(* database statement, and nothing is locked between two of them.          *)
(***************************************************************************)
EXTENDS Naturals

CONSTANTS
    Users,
    None,
    Workers,       \* what runs the requests
    MayCrash       \* may a web process die between two statements?

Statuses == {"OK", "NO"}
Req == "REQ"                       \* ADVREQ, H1OPS, L1OPS or V1OPS
Labels == Statuses \cup {Req}      \* a status label is named for its status

VARIABLES
    signoff,       \* the status of the signoff, None when there is none
    labelling,     \* who put each label on the superevent, None when it is not there
    pc,
    op,            \* what the request of each worker asks for
    inst,          \* is the row of the instance it has loaded still there?
    alone,         \* history: the worker whose request no other overlaps
    calm           \* history: no process died, and only compatible requests overlapped

vars == <<signoff, labelling, pc, op, inst, alone, calm>>

Kinds == {"postLabel", "deleteLabel", "post", "put", "delete"}
Op == [kind : Kinds, user : Users, status : Statuses \cup {None}]
NoOp == [kind |-> "none", user |-> None, status |-> None]
NoInst == [signoff |-> FALSE, labelling |-> FALSE]

\* Requests that may overlap: about the label that requests the signoff, or signoffs
\* being made, changed to the same status, or deleted.
Compatible(o, p) ==
    \/ {o.kind, p.kind} \subseteq {"postLabel", "deleteLabel"}
    \/ o.kind = p.kind /\ (o.kind = "put" => o.status = p.status)

Applied == {l \in Labels : labelling[l] # None}
Active == {w \in Workers : pc[w] # "idle"}

\* A bug: the label of the opposite status is looked up under the status itself.
Same(status) == status

Opposite(status) == IF status = "OK" THEN "NO" ELSE "OK"

\* The label a request takes off, and the one it puts on.
Out(w) == CASE op[w].kind \in {"post", "deleteLabel"} -> Req
            [] op[w].kind = "put"                     -> Opposite(op[w].status)
            [] op[w].kind = "delete"                  -> op[w].status
            [] OTHER                                  -> None

\* A bug: the label is that of the status the signoff had.
InOld(w) == IF op[w].kind = "put" THEN Opposite(op[w].status)
            ELSE IF op[w].kind = "post" THEN op[w].status ELSE Req

In(w) == IF op[w].kind \in {"post", "put"} THEN op[w].status ELSE Req

TypeOK ==
    /\ signoff \in Statuses \cup {None}
    /\ labelling \in [Labels -> Users \cup {None}]
    /\ pc \in [Workers -> {"idle", "row", "find", "remove", "look", "add"}]
    /\ op \in [Workers -> Op \cup {NoOp}]
    /\ inst \in [Workers -> [signoff : BOOLEAN, labelling : BOOLEAN]]
    /\ alone \subseteq Active
    /\ calm \in BOOLEAN
    /\ \A w \in Workers : op[w].kind \in {"post", "put", "delete"} => Out(w) # In(w)
    /\ \A w \in Workers : inst[w].labelling => pc[w] = "remove" /\ Out(w) \in Applied

Goto(w, step) == pc' = [pc EXCEPT ![w] = step]

\* The response, whatever its status, ends the request.
Respond(w) ==
    /\ Goto(w, "idle")
    /\ op' = [op EXCEPT ![w] = NoOp]
    /\ alone' = alone \ {w}

\* A label is taken off: its row is gone for whoever has loaded it.
TakeOff(l) ==
    /\ labelling' = [labelling EXCEPT ![l] = None]
    /\ inst' = [v \in Workers |-> [inst[v] EXCEPT !.labelling = @ /\ Out(v) # l]]

-----------------------------------------------------------------------------
(* Validation.                                                             *)

\* A bug: a signoff may be requested when there is one.
MayRequestAnyway == Req \notin Applied

\* SupereventLabelSerializer.validate, for the label that requests the signoff.
MayRequest == Applied = {}

\* SupereventSignoffSerializer.validate.
MaySign == Req \in Applied /\ signoff = None

Valid(o) ==
    CASE o.kind = "postLabel"   -> MayRequest /\ o.status = None
      [] o.kind = "deleteLabel" -> Req \in Applied /\ o.status = None
      [] o.kind = "post"        -> MaySign /\ o.status \in Statuses
      [] o.kind = "put"         -> signoff # None /\ o.status = Opposite(signoff)
      [] o.kind = "delete"      -> signoff # None /\ o.status = signoff

FirstStep(kind) == CASE kind = "postLabel"   -> "add"
                     [] kind = "deleteLabel" -> "remove"
                     [] OTHER                -> "row"

\* A request is made, its instance is loaded, and validation passes (one that is
\* refused changes nothing, and so does a PUT of the comment alone here).
Start(w) ==
    /\ pc[w] = "idle"
    /\ \E o \in Op :
         /\ Valid(o)
         /\ op' = [op EXCEPT ![w] = o]
         /\ Goto(w, FirstStep(o.kind))
         /\ calm' = (calm /\ \A v \in Active : Compatible(o, op[v]))
         /\ inst' = [inst EXCEPT ![w] = [signoff |-> o.kind \in {"put", "delete"},
                                         labelling |-> o.kind = "deleteLabel"]]
    /\ alone' = IF Active = {} THEN {w} ELSE {}
    /\ UNCHANGED <<signoff, labelling>>

-----------------------------------------------------------------------------
(* The steps.                                                              *)

\* Signoff.objects.create; a second signoff violates the unique constraint.
CreateRow(w) ==
    /\ op[w].kind = "post"
    /\ IF signoff = None
       THEN signoff' = op[w].status /\ Goto(w, "find") /\ UNCHANGED <<op, alone>>
       ELSE Respond(w) /\ UNCHANGED signoff
    /\ UNCHANGED inst

\* signoff.save(update_fields=...), an error when the row is gone.
SaveRow(w) ==
    /\ op[w].kind = "put"
    /\ IF inst[w].signoff
       THEN signoff' = op[w].status /\ Goto(w, "find") /\ UNCHANGED <<op, alone>>
       ELSE Respond(w) /\ UNCHANGED signoff
    /\ UNCHANGED inst

\* signoff.delete(), which does nothing when the row is gone.
DeleteRow(w) ==
    /\ op[w].kind = "delete"
    /\ IF inst[w].signoff
       THEN /\ signoff' = None
            /\ inst' = [v \in Workers |-> [inst[v] EXCEPT !.signoff = FALSE]]
       ELSE UNCHANGED <<signoff, inst>>
    /\ Goto(w, "find")
    /\ UNCHANGED <<op, alone>>

Row(w) ==
    /\ pc[w] = "row"
    /\ CreateRow(w) \/ SaveRow(w) \/ DeleteRow(w)
    /\ UNCHANGED <<labelling, calm>>

\* labelling_set.filter(...).first(); delete_signoff expects to find the label.
Find(w) ==
    /\ pc[w] = "find"
    /\ \/ /\ Out(w) \in Applied
          /\ inst' = [inst EXCEPT ![w].labelling = TRUE]
          /\ Goto(w, "remove")
          /\ UNCHANGED <<op, alone>>
       \/ /\ Out(w) \notin Applied
          /\ CASE op[w].kind = "post"   -> Goto(w, "add") /\ UNCHANGED <<op, alone>>
               [] op[w].kind = "put"    -> Goto(w, "look") /\ UNCHANGED <<op, alone>>
               [] op[w].kind = "delete" -> Respond(w)
          /\ UNCHANGED inst
    /\ UNCHANGED <<signoff, labelling, calm>>

\* remove_label_from_superevent.
Remove(w) ==
    /\ pc[w] = "remove"
    /\ IF inst[w].labelling THEN TakeOff(Out(w)) ELSE UNCHANGED <<labelling, inst>>
    /\ CASE op[w].kind = "deleteLabel" -> Respond(w)
         [] op[w].kind = "put"         -> Goto(w, "look") /\ UNCHANGED <<op, alone>>
         [] OTHER                      -> Goto(w, "add") /\ UNCHANGED <<op, alone>>
    /\ UNCHANGED <<signoff, calm>>

\* `label_to_add not in superevent.labels.all()'.
Look(w) ==
    /\ pc[w] = "look"
    /\ IF In(w) \in Applied THEN Respond(w) ELSE Goto(w, "add") /\ UNCHANGED <<op, alone>>
    /\ UNCHANGED <<signoff, labelling, inst, calm>>

\* The get_or_create of add_label_to_superevent asks for a row with the user as its
\* creator: a row that someone else has made is not found, and making another raises
\* an error.
Add(w) ==
    /\ pc[w] = "add"
    /\ labelling' = [labelling EXCEPT ![In(w)] = IF @ = None THEN op[w].user ELSE @]
    /\ Respond(w)
    /\ UNCHANGED <<signoff, inst, calm>>

\* The web process dies.
Crash(w) ==
    /\ MayCrash
    /\ pc[w] # "idle"
    /\ Respond(w)
    /\ inst' = [inst EXCEPT ![w] = NoInst]
    /\ calm' = FALSE
    /\ UNCHANGED <<signoff, labelling>>

-----------------------------------------------------------------------------
Init ==
    /\ signoff = None
    /\ labelling = [l \in Labels |-> None]
    /\ pc = [w \in Workers |-> "idle"]
    /\ op = [w \in Workers |-> NoOp]
    /\ inst = [w \in Workers |-> NoInst]
    /\ alone = {}
    /\ calm = TRUE

Step(w) == Start(w) \/ Row(w) \/ Find(w) \/ Remove(w) \/ Look(w) \/ Add(w)

Next == \E w \in Workers : Step(w) \/ Crash(w)

Spec == Init /\ [][Next]_vars

-----------------------------------------------------------------------------
(* Properties.                                                             *)

\* Between requests, a signoff has the label of its status and no other, and where
\* there is no signoff there is at most a request for one.
LabelsMatchSignoff ==
    calm /\ Active = {} =>
        IF signoff = None THEN Applied \subseteq {Req} ELSE Applied = {signoff}

\* Whatever races and crashes made of the labels, a PUT that runs alone and changes the
\* status leaves the label of that status and not the other.
PutRepairs ==
    [][ \A w \in Workers, s \in Statuses :
          alone = {w} /\ op[w].kind = "put" /\ op[w].status = s
                      /\ (Add(w) \/ (Look(w) /\ pc'[w] = "idle")) =>
              signoff' = s /\ Applied' \cap Statuses = {s} ]_vars
=============================================================================
