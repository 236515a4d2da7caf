-------------------------- MODULE EventSubmission --------------------------
(***************************************************************************)
(* The life of one event: it is submitted, or the submission fails and is  *)
(* undone, its data are replaced, its permissions are changed, and it is   *)
(* put into a superevent and taken out of it.                              *)
(*                                                                         *)
(* A request loads the event first and works with that instance; a save    *)
(* of an event writes all its columns.  Nothing is in a transaction.       *)
(*                                                                         *)
(* Most events belong to a subclass of Event and have two sets of          *)
(* permission rows, of the subclass and of the event that underlies it.    *)
(* Pages look at those of the subclass; lists and searches look at a       *)
(* column of the event that caches the others.  Of the permissions of a    *)
(* group only the one to view is modelled.                                 *)
(***************************************************************************)
EXTENDS Naturals, Sequences, SequencesExt

CONSTANTS
    Workers,
    Internal,        \* the groups every event is shown to
    Observers,       \* the groups it may be shown to as well
    Submitted,       \* the uploads: their name, their FAR, and whether their content is "good",
                     \* has "no table" or is "unreadable"
    Coinc, LogFile,  \* the files that are made from an upload: coinc.xml and event.log
    LabelNames,
    MaxUploads,      \* bound on the uploads
    MaxRequests,     \* bound on the requests
    MaxFaults,       \* bound on the steps that fail
    None

Groups == Internal \cup Observers
Files == {up.name : up \in Submitted} \cup {Coinc, LogFile}
Fars == {up.far : up \in Submitted}

VARIABLES
    row,        \* the event, or None
    subclass,   \* does it belong to a subclass?
    sub, base,  \* the groups with a permission row, of the subclass and of the event
    dir,        \* does it have a directory?
    files,      \* the number of versions of each file in it
    logs,       \* the files and versions the log messages name, in order
    labels,     \* its labels
    todo,       \* the steps each request has still to run
    inst,       \* the event as the request holds it
    under,      \* the underlying event as the request holds it
    requests, uploads, faults,
    announced,  \* the alert for the new event has been issued
    crashed,    \* history: a worker died in the middle of a request
    calm,       \* history: no requests overlapped in a way that is not allowed for
    refused,    \* history: the submission has failed
    want        \* history: the superevent and the FAR that were last asked for

vars == <<row, subclass, sub, base, dir, files, logs, labels, todo, inst, under,
          requests, uploads, faults, announced, crashed, calm, refused, want>>

perms   == <<sub, base>>
details == <<dir, files, logs, labels>>
bounds  == <<requests, uploads, faults>>
history == <<crashed, calm, refused, want>>

Row == [cache : SUBSET Groups, sv : BOOLEAN, far : Fars \cup {None}]

Idle(w) == todo[w] = <<>>
Rest == \A w \in Workers : Idle(w)

\* The files of an event are in its directory, its log messages name versions that are
\* there, and a request holds an instance.
TypeOK ==
    /\ row \in Row \cup {None}
    /\ sub \in SUBSET Groups /\ base \in SUBSET Groups
    /\ subclass \in BOOLEAN /\ (~ subclass => sub = {})
    /\ \A f \in Files : files[f] > 0 => dir
    /\ refused \/ \A i \in DOMAIN logs : logs[i].version < files[logs[i].file]
    /\ labels \subseteq LabelNames
    /\ \A w \in Workers : ~ Idle(w) => inst[w] \in Row
    /\ requests \in 0 .. MaxRequests /\ uploads \in 0 .. MaxUploads /\ faults \in 0 .. MaxFaults

-----------------------------------------------------------------------------
(* Steps.                                                                  *)

Do(s) == [do |-> s]
Give(of, gs) == [do |-> "give", of |-> of, groups |-> gs]
Take(of, g) == [do |-> "take", of |-> of, group |-> g]
Label(l) == [do |-> "label", label |-> l]
Log(f, v) == [do |-> "log", file |-> f, version |-> v]
Write(f) == [do |-> "write", file |-> f]
Save(far) == [do |-> "save", far |-> far]

\* handle_uploaded_data, after the log message of the upload.  The other pipelines log
\* their data and save the event.
HandleUploadedData(s, up) ==
    IF up.content # "good" THEN <<>>
    ELSE IF s
    THEN <<Write(Coinc), Write(LogFile), Log(LogFile, 0),
           Log(Coinc, IF up.name = Coinc THEN 1 ELSE 0), Save(up.far)>>
    ELSE <<Save(up.far)>>

\* assign_default_event_perms: an MDC event is shown to the observers as well.
AssignDefaults(of, mdc) ==
    <<Give(of, Internal)>> \o IF mdc THEN <<Give(of, Observers)>> ELSE <<>>

\* A bug: the event is refreshed before the rows of the underlying event are there.
RefreshFirst(s, mdc) ==
    IF s THEN AssignDefaults("sub", mdc) \o
              <<Do("underlying"), Do("refresh under"), Do("refresh")>> \o
              AssignDefaults("base", mdc)
    ELSE AssignDefaults("base", mdc) \o <<Do("refresh")>>

\* The permissions of a new event.
NewPermissions(s, mdc) ==
    IF s THEN AssignDefaults("sub", mdc) \o <<Do("underlying")>> \o
              AssignDefaults("base", mdc) \o <<Do("refresh under"), Do("refresh")>>
    ELSE AssignDefaults("base", mdc) \o <<Do("refresh")>>

\* A bug: the event is saved once more when its labels are there.
SavedLast(s, up, ls) ==
    <<[do |-> "store", up |-> up, new |-> TRUE]>> \o HandleUploadedData(s, up) \o
    IF up.content = "unreadable" THEN <<>>
    ELSE <<Do("reload"), Do("new")>> \o SetToSeq({Label(l) : l \in ls}) \o <<Do("resave")>>

\* What _createEventFromForm does with the file.  If it cannot be read there is no alert,
\* and no label.
NewData(s, up, ls) ==
    <<[do |-> "store", up |-> up, new |-> TRUE]>> \o HandleUploadedData(s, up) \o
    IF up.content = "unreadable" THEN <<>>
    ELSE <<Do("reload"), Do("new")>> \o SetToSeq({Label(l) : l \in ls})

CreateEvent(s, mdc, up, ls) ==
    <<Do("insert")>> \o NewPermissions(s, mdc) \o <<Do("mkdir")>> \o NewData(s, up, ls)

\* The steps of a submission that are undone: the file has not been stored.
IsUndone(steps) == \E i \in DOMAIN steps : steps[i].do = "store" /\ steps[i].new

\* A bug: the permissions stay.
DeleteButPerms == <<Do("delete row"), Do("rmtree")>>

\* Event.delete with purge, as _createEventFromForm calls it.
DeleteEvent == <<Do("delete row"), Do("rmtree"), Do("delete perms")>>

\* EventDetail.put.
ReplaceEvent(s, up) ==
    <<[do |-> "store", up |-> up, new |-> FALSE]>> \o HandleUploadedData(s, up) \o
    <<Do("resave"), Do("alert")>>

\* update_event_perms_for_group, for the instance of the page and for what underlies it.
UpdateEventPerms(s, g, action) ==
    LET Change(of) == IF action = "expose" THEN Give(of, {g}) ELSE Take(of, g)
    IN  IF s THEN <<Change("sub"), Do("alert"), Do("refresh"), Do("underlying"),
                    Change("base"), Do("alert"), Do("refresh under")>>
        ELSE <<Change("base"), Do("alert"), Do("refresh")>>

\* GroupEventPermissionDetail.put.
PutPermission(s, g) ==
    IF s THEN <<Give("sub", {g}), Do("refresh"), Do("underlying"), Give("base", {g}),
                Do("refresh under")>>
    ELSE <<Give("base", {g}), Do("refresh")>>

\* GroupEventPermissionDetail.delete: the issuer of the alert gets a permission instead of
\* an event and raises, before the rows of the underlying event.
DeletePermission(s, g) == <<Take(IF s THEN "sub" ELSE "base", g), Do("refresh")>>

-----------------------------------------------------------------------------
(* Requests.                                                               *)

Begin(w, steps, i) ==
    /\ Idle(w) /\ requests < MaxRequests
    /\ requests' = requests + 1
    /\ todo' = [todo EXCEPT ![w] = steps \o <<Do("end")>>]
    /\ inst' = [inst EXCEPT ![w] = i]
    /\ calm' = (calm /\ Rest)
    /\ UNCHANGED <<row, perms, details, under, faults, announced, crashed, refused, want>>

Fresh == [cache |-> {}, sv |-> FALSE, far |-> None]

Submit(w) ==
    /\ requests = 0 /\ uploads < MaxUploads
    /\ uploads' = uploads + 1
    /\ \E s \in BOOLEAN, mdc \in BOOLEAN, up \in Submitted, ls \in SUBSET LabelNames :
        subclass' = s /\ Begin(w, CreateEvent(s, mdc, up, ls), Fresh)

Replace(w) ==
    /\ row # None /\ uploads < MaxUploads
    /\ uploads' = uploads + 1
    /\ \E up \in Submitted : Begin(w, ReplaceEvent(subclass, up), row)
    /\ UNCHANGED subclass

\* The pages and resources that change the permissions of a group.  A permission that is
\* not there is not found.
ChangePermissions(w) ==
    /\ row # None
    /\ \E g \in Observers :
        \/ \E action \in {"expose", "protect"} :
               Begin(w, UpdateEventPerms(subclass, g, action), row)
        \/ Begin(w, PutPermission(subclass, g), row)
        \/ /\ g \in (IF subclass THEN sub ELSE base)
           /\ Begin(w, DeletePermission(subclass, g), row)
    /\ UNCHANGED <<subclass, uploads>>

\* A superevent takes the event or drops it: one column is written.  That may happen as
\* soon as the event is announced.
SetSuperevent ==
    /\ row # None
    /\ row' = [row EXCEPT !.sv = ~ @]
    /\ want' = [want EXCEPT !.sv = ~ row.sv]
    /\ calm' = (calm /\ (Rest \/ (announced /\ requests = 1)))
    /\ UNCHANGED <<perms, subclass, details, todo, inst, under, bounds, announced,
                   crashed, refused>>

-----------------------------------------------------------------------------
(* The steps, one after the other.                                         *)

Granted(of, gs) == IF of = "sub" THEN sub' = sub \cup gs /\ UNCHANGED base
                   ELSE base' = base \cup gs /\ UNCHANGED sub
Taken(of, g) == IF of = "sub" THEN sub' = sub \ {g} /\ UNCHANGED base
                ELSE base' = base \ {g} /\ UNCHANGED sub

\* The instances go with the request.
End(w, s) == /\ s.do = "end"
             /\ inst' = [inst EXCEPT ![w] = Fresh] /\ under' = [under EXCEPT ![w] = Fresh]
             /\ UNCHANGED <<row, perms, details, announced, refused, want>>

Insert(w, s) == /\ s.do = "insert"
                /\ row' = inst[w]
                /\ UNCHANGED <<perms, details, inst, under, announced, refused, want>>

PermissionStep(w, s) ==
    /\ \/ s.do = "give" /\ Granted(s.of, s.groups)
       \/ s.do = "take" /\ Taken(s.of, s.group)
    /\ UNCHANGED <<row, details, inst, under, announced, refused, want>>

\* refresh_perms reads the rows of the underlying event, whatever instance it has.
RefreshPerms(w, s) ==
    /\ \/ /\ s.do = "refresh"
          /\ inst' = [inst EXCEPT ![w].cache = base]
          /\ row' = inst'[w] /\ UNCHANGED under
       \/ /\ s.do = "refresh under"
          /\ under' = [under EXCEPT ![w].cache = base]
          /\ row' = under'[w] /\ UNCHANGED inst
    /\ UNCHANGED <<perms, details, announced, refused, want>>

\* objects.get and refresh_from_db; they raise where the event is gone.
LoadStep(w, s) ==
    /\ row # None
    /\ \/ s.do = "underlying" /\ under' = [under EXCEPT ![w] = row] /\ UNCHANGED inst
       \/ s.do = "reload" /\ inst' = [inst EXCEPT ![w] = row] /\ UNCHANGED under
    /\ UNCHANGED <<row, perms, details, announced, refused, want>>

SaveStep(w, s) ==
    /\ s.do \in {"save", "resave"}
    /\ inst' = [inst EXCEPT ![w].far = IF s.do = "save" THEN s.far ELSE @]
    /\ row' = inst'[w]
    /\ want' = [want EXCEPT !.far = IF s.do = "save" THEN s.far ELSE @]
    /\ UNCHANGED <<perms, details, under, announced, refused>>

\* A stored upload is logged next, with its version.
DiskStep(w, s) ==
    /\ \/ s.do = "mkdir" /\ dir' = TRUE /\ UNCHANGED files
       \/ s.do = "rmtree" /\ dir' = FALSE /\ files' = [f \in Files |-> 0]
       \/ s.do = "store" /\ dir /\ files' = [files EXCEPT ![s.up.name] = @ + 1] /\ UNCHANGED dir
       \/ s.do = "write" /\ dir /\ files' = [files EXCEPT ![s.file] = @ + 1] /\ UNCHANGED dir
    /\ UNCHANGED <<row, perms, logs, labels, inst, under, announced, refused, want>>

Annotate(w, s) ==
    /\ row # None
    /\ \/ s.do = "log" /\ logs' = Append(logs, [file |-> s.file, version |-> s.version])
                       /\ UNCHANGED <<labels, announced>>
       \/ s.do = "label" /\ labels' = labels \cup {s.label} /\ UNCHANGED <<logs, announced>>
       \/ s.do = "new" /\ announced' = TRUE /\ UNCHANGED <<logs, labels>>
       \/ s.do = "alert" /\ UNCHANGED <<logs, labels, announced>>
    /\ UNCHANGED <<row, perms, dir, files, inst, under, refused, want>>

\* The row takes its log messages and labels with it.  Only the permissions of the class
\* of the instance go, and of its subclasses.
DeleteStep(w, s) ==
    /\ \/ /\ s.do = "delete row"
          /\ row' = None /\ logs' = <<>> /\ labels' = {} /\ refused' = TRUE
          /\ UNCHANGED perms
       \/ /\ s.do = "delete perms"
          /\ sub' = {} /\ base' = IF subclass THEN base ELSE {}
          /\ UNCHANGED <<row, logs, labels, refused>>
    /\ UNCHANGED <<dir, files, inst, under, announced, want>>

Step(w) ==
    /\ ~ Idle(w)
    /\ LET s == Head(todo[w])
       IN  /\ \/ End(w, s) \/ Insert(w, s) \/ PermissionStep(w, s) \/ RefreshPerms(w, s)
              \/ LoadStep(w, s) \/ SaveStep(w, s) \/ DiskStep(w, s)
              \/ Annotate(w, s) \/ DeleteStep(w, s)
           /\ todo' = [todo EXCEPT ![w] =
                  (IF s.do = "store" THEN <<Log(s.up.name, files[s.up.name])>> ELSE <<>>)
                  \o Tail(@)]
    /\ UNCHANGED <<subclass, bounds, crashed, calm>>

\* What is left of a request when one of its steps raises.  Until the file is stored a
\* submission is undone; the alert of a new event is not waited for; the rest is dropped.
AfterError(steps) ==
    CASE Head(steps).do = "insert" -> <<Do("end")>>
      [] IsUndone(steps) /\ Head(steps).do # "insert" -> DeleteEvent \o <<Do("end")>>
      [] Head(steps).do = "new" -> Tail(steps)
      [] OTHER -> <<Do("end")>>

\* A step raises: because it fails, or because the event or its directory is gone.
Raises(s) == \/ row = None /\ s.do \in {"underlying", "reload", "log", "label", "new", "alert"}
             \/ ~ dir /\ s.do \in {"store", "write"}

Fail(w) ==
    /\ ~ Idle(w) /\ Head(todo[w]).do # "end"
    /\ \/ Raises(Head(todo[w])) /\ UNCHANGED faults
       \/ faults < MaxFaults /\ faults' = faults + 1
    /\ todo' = [todo EXCEPT ![w] = AfterError(@)]
    /\ refused' = (refused \/ Head(todo[w]).do = "insert")
    /\ UNCHANGED <<row, subclass, perms, details, inst, under, requests, uploads,
                   announced, crashed, calm, want>>

Crash(w) ==
    /\ ~ Idle(w) /\ faults < MaxFaults /\ Head(todo[w]).do # "end"
    /\ faults' = faults + 1
    /\ todo' = [todo EXCEPT ![w] = <<Do("end")>>]
    /\ crashed' = TRUE
    /\ UNCHANGED <<row, subclass, perms, details, inst, under, requests, uploads,
                   announced, calm, refused, want>>

-----------------------------------------------------------------------------
Init ==
    /\ row = None /\ subclass = FALSE
    /\ sub = {} /\ base = {}
    /\ dir = FALSE /\ files = [f \in Files |-> 0]
    /\ logs = <<>> /\ labels = {}
    /\ todo = [w \in Workers |-> <<>>]
    /\ inst = [w \in Workers |-> Fresh] /\ under = [w \in Workers |-> Fresh]
    /\ requests = 0 /\ uploads = 0 /\ faults = 0
    /\ announced = FALSE /\ crashed = FALSE /\ calm = TRUE /\ refused = FALSE
    /\ want = [sv |-> FALSE, far |-> None]

Next == \/ \E w \in Workers : \/ Submit(w) \/ Replace(w) \/ ChangePermissions(w)
                              \/ Step(w) \/ Fail(w) \/ Crash(w)
        \/ SetSuperevent

Spec == Init /\ [][Next]_vars

-----------------------------------------------------------------------------
(* Properties.                                                             *)

\* A submission that fails at any step leaves no event, no directory, no log message, no
\* label and no permission of the event's own class, if nothing fails on the way back.
RefusedLeavesNothing ==
    /\ TypeOK
    /\ (Rest /\ calm /\ refused /\ ~ crashed /\ faults = 1) =>
           /\ row = None /\ ~ dir /\ logs = <<>> /\ labels = {}
           /\ (IF subclass THEN sub ELSE base) = {}

\* Between requests that do not overlap and do not fail, lists show an event to the groups
\* with a row of the underlying event, and to every group that can open its page.
ListsShowWhatOpens ==
    (Rest /\ calm /\ faults = 0 /\ row # None) => row.cache = base /\ sub \subseteq base

\* No save of a whole event takes back what was asked for: the superevent, even if it took
\* the event when it was announced and before its labels were there, and the FAR.
NothingIsOverwritten ==
    (calm /\ faults = 0 /\ row # None) => row.sv = want.sv /\ row.far = want.far

\* What the docstring of Event.delete says: the permissions of the event are gone as well.
PurgeTakesPermissions ==
    (Rest /\ calm /\ refused /\ ~ crashed /\ faults = 1) => sub = {} /\ base = {}

\* What the comment in _createEventFromForm says of a submission that is undone: "Wiki page and
\* data directories remain."
DirectoriesRemain == [][refused' /\ dir => dir']_vars

\* What the comment in check_external_file_access says: one message for each version.
OneLogPerVersion ==
    (calm /\ faults = 0) => \A i, j \in DOMAIN logs : logs[i] = logs[j] => i = j

\* What the comment in GroupEventPermissionDetail.delete says: the permission on the
\* underlying event goes with that on the subclass.
RemovedBelowAsWell ==
    (Rest /\ calm /\ faults = 0 /\ row # None /\ subclass) => base \subseteq sub
=============================================================================
