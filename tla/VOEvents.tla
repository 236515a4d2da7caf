------------------------------ MODULE VOEvents ------------------------------
(***************************************************************************)
(* The VOEvents of an event and of a superevent, and the tag `em_follow'   *)
(* of the log messages about them.                                         *)
(*                                                                         *)
(* A request inserts a row, which gives the VOEvent its number, builds the *)
(* text, which cites the other VOEvents by the identifiers in their rows,  *)
(* writes the file, and only then saves the identifier and the file in the *)
(* row.  A log message with the tag and the alert come last.  The tag is   *)
(* one row for all log messages, and the API of events deletes it.         *)
(***************************************************************************)
EXTENDS Naturals

CONSTANTS
    Workers,
    MaxVOEvents,    \* bound on the VOEvents of both
    MaxUntags,      \* bound on the removals of the tag
    MaxFaults,      \* bound on the steps that fail
    None

Owners == {"event", "superevent"}
Numbers == 1 .. MaxVOEvents
Ids == Owners \X Numbers
Tags == 1 .. MaxUntags + 1     \* the rows the tag has been, one after the other

VARIABLES
    count,      \* the VOEvents of each: they are numbered from 1
    filled,     \* those whose row has its identifier and its file
    texts,      \* the text in the file: the VOEvents it cites, and by which identifier
    logged,     \* those with a log message
    tagged,     \* those whose log message has the tag
    tag,        \* the row of the tag, or None
    jobs,       \* what each worker's request has come to
    announced,  \* those whose alert has been issued
    faults, untags,
    past,       \* history: what was announced when the row was inserted
    excused     \* history: a step of it failed, or the tag was deleted, missing
                \* or made by another request at the same time

vars == <<count, filled, texts, logged, tagged, tag, jobs, announced, faults, untags,
          past, excused>>

Citations == [n : Numbers, known : BOOLEAN]
Steps == {"build", "write", "fill", "log", "get tag", "make tag", "add tag", "alert"}
Jobs == [do : Steps, id : Ids, text : SUBSET Citations, tag : Tags \cup {None}]
        \cup [do : {"look", "delete"}, tag : Tags]

There(id) == id[2] <= count[id[1]]
InMaking == {jobs[w].id : w \in {v \in Workers : jobs[v] # None /\ "id" \in DOMAIN jobs[v]}}

\* A row is filled when the file is there, and a log message comes after that.
TypeOK ==
    /\ count \in [Owners -> 0 .. MaxVOEvents]
    /\ texts \in [Ids -> (SUBSET Citations) \cup {None}]
    /\ \A id \in filled : There(id) /\ texts[id] # None
    /\ logged \subseteq filled /\ tagged \subseteq logged
    /\ tag \in Tags \cup {None} /\ (tag = None => tagged = {})
    /\ \A w \in Workers : jobs[w] \in Jobs \cup {None}
    /\ faults \in 0 .. MaxFaults /\ untags \in 0 .. MaxUntags

-----------------------------------------------------------------------------
Goes(w, step) == jobs' = [jobs EXCEPT ![w].do = step]
Ends(w) == jobs' = [jobs EXCEPT ![w] = None]
At(w, step) == jobs[w] # None /\ jobs[w].do = step
Found(w) ==
    jobs' = [jobs EXCEPT ![w].do = IF jobs[w].id[1] = "event" THEN "add tag" ELSE "log",
                         ![w].tag = tag]

\* The row is inserted with the next number.
Insert(w, o) ==
    /\ jobs[w] = None /\ count["event"] + count["superevent"] < MaxVOEvents
    /\ LET id == <<o, count[o] + 1>>
       IN  /\ count' = [count EXCEPT ![o] = @ + 1]
           /\ jobs' = [jobs EXCEPT ![w] = [do |-> "build", id |-> id, text |-> {}, tag |-> None]]
           /\ past' = [past EXCEPT ![id] = {n \in Numbers : <<o, n>> \in announced}]
           /\ excused' = IF o = "superevent" /\ tag = None THEN excused \cup {id} ELSE excused
    /\ UNCHANGED <<filled, texts, logged, tagged, tag, announced, faults, untags>>

\* A bug: those with a later number are cited.
CiteLater(id) ==
    {[n |-> n, known |-> <<id[1], n>> \in filled] : n \in (id[2] + 1) .. count[id[1]]}

\* construct_voevent_file: it cites every other row by its identifier, which is blank until
\* the row is filled.
Cite(id) == {[n |-> n, known |-> <<id[1], n>> \in filled] : n \in (1 .. count[id[1]]) \ {id[2]}}

Build(w) ==
    /\ At(w, "build")
    /\ jobs' = [jobs EXCEPT ![w].do = "write", ![w].text = Cite(jobs[w].id)]
    /\ UNCHANGED <<count, filled, texts, logged, tagged, tag, announced, faults, untags,
                   past, excused>>

\* The number is part of the name of the file: no other VOEvent writes to it.
Write(w) ==
    /\ At(w, "write")
    /\ texts' = [texts EXCEPT ![jobs[w].id] = jobs[w].text]
    /\ Goes(w, "fill")
    /\ UNCHANGED <<count, filled, logged, tagged, tag, announced, faults, untags, past,
                   excused>>

\* For a superevent the tag is looked up before the log message is made, for an event after.
Fill(w) ==
    /\ At(w, "fill")
    /\ filled' = filled \cup {jobs[w].id}
    /\ Goes(w, IF jobs[w].id[1] = "event" THEN "log" ELSE "get tag")
    /\ UNCHANGED <<count, texts, logged, tagged, tag, announced, faults, untags, past,
                   excused>>

Log(w) ==
    /\ At(w, "log")
    /\ logged' = logged \cup {jobs[w].id}
    /\ Goes(w, IF jobs[w].id[1] = "event" THEN "get tag" ELSE "add tag")
    /\ UNCHANGED <<count, filled, texts, tagged, tag, announced, faults, untags, past,
                   excused>>

\* A bug: a tag that is missing is not made.
GetTagOnly(w) ==
    /\ At(w, "get tag")
    /\ IF tag = None THEN Ends(w) ELSE Found(w)
    /\ UNCHANGED <<count, filled, texts, logged, tagged, tag, announced, faults, untags, past,
                   excused>>

\* An event makes the tag when it is missing; for a superevent that is the end.
GetTag(w) ==
    /\ At(w, "get tag")
    /\ CASE tag # None -> Found(w)
         [] tag = None /\ jobs[w].id[1] = "event" -> Goes(w, "make tag")
         [] OTHER -> Ends(w)
    /\ UNCHANGED <<count, filled, texts, logged, tagged, tag, announced, faults, untags, past,
                   excused>>

\* Another request may have made the tag since.  The row is validated first: if that finds the
\* other tag the request ends with an error; if only the INSERT does, the other one is taken.
MakeTag(w) ==
    /\ At(w, "make tag")
    /\ \/ /\ tag = None
          /\ tag' = untags + 1
          /\ jobs' = [jobs EXCEPT ![w].do = "add tag", ![w].tag = tag']
          /\ UNCHANGED excused
       \/ /\ tag # None /\ Found(w)
          /\ UNCHANGED <<tag, excused>>
       \/ /\ tag # None /\ Ends(w)
          /\ excused' = excused \cup {jobs[w].id}
          /\ UNCHANGED tag
    /\ UNCHANGED <<count, filled, texts, logged, tagged, announced, faults, untags, past>>

\* The tag that was found may have been deleted: then the request ends with an error.
AddTag(w) ==
    /\ At(w, "add tag")
    /\ IF jobs[w].tag = tag THEN tagged' = tagged \cup {jobs[w].id} /\ Goes(w, "alert")
       ELSE Ends(w) /\ UNCHANGED tagged
    /\ UNCHANGED <<count, filled, texts, logged, tag, announced, faults, untags, past, excused>>

Alert(w) ==
    /\ At(w, "alert")
    /\ announced' = announced \cup {jobs[w].id}
    /\ Ends(w)
    /\ UNCHANGED <<count, filled, texts, logged, tagged, tag, faults, untags, past, excused>>

\* A step fails, or the worker dies.  What the request has made stays.
Fail(w) ==
    /\ jobs[w] # None /\ faults < MaxFaults
    /\ faults' = faults + 1
    /\ excused' = IF jobs[w].do \in Steps THEN excused \cup {jobs[w].id} ELSE excused
    /\ Ends(w)
    /\ UNCHANGED <<count, filled, texts, logged, tagged, tag, announced, untags, past>>

-----------------------------------------------------------------------------
(* The tag is taken from a log message.                                    *)

\* The API of superevents and the page of an event only remove the link.
Untag(id) ==
    /\ untags < MaxUntags /\ id \in tagged
    /\ tagged' = tagged \ {id}
    /\ untags' = untags + 1
    /\ UNCHANGED <<count, filled, texts, logged, tag, jobs, announced, faults, past, excused>>

\* The API of events then looks whether another log message of an event has the tag ...
UntagEvent(w, id) ==
    /\ jobs[w] = None /\ id[1] = "event"
    /\ untags < MaxUntags /\ id \in tagged
    /\ tagged' = tagged \ {id}
    /\ untags' = untags + 1
    /\ jobs' = [jobs EXCEPT ![w] = [do |-> "look", tag |-> tag]]
    /\ UNCHANGED <<count, filled, texts, logged, tag, announced, faults, past, excused>>

Look(w) ==
    /\ At(w, "look")
    /\ IF jobs[w].tag = tag /\ \E id \in tagged : id[1] = "event" THEN Ends(w)
       ELSE Goes(w, "delete")
    /\ UNCHANGED <<count, filled, texts, logged, tagged, tag, announced, faults, untags, past,
                   excused>>

\* ... and deletes its row, which takes it from all log messages.
DeleteTag(w) ==
    /\ At(w, "delete")
    /\ IF jobs[w].tag = tag
       THEN tag' = None /\ tagged' = {} /\ excused' = excused \cup InMaking
       ELSE UNCHANGED <<tag, tagged, excused>>
    /\ Ends(w)
    /\ UNCHANGED <<count, filled, texts, logged, announced, faults, untags, past>>

\* The tag comes with the first migrations, and may have been deleted since.
Init ==
    /\ count = [o \in Owners |-> 0]
    /\ filled = {} /\ logged = {} /\ tagged = {} /\ announced = {} /\ excused = {}
    /\ texts = [id \in Ids |-> None]
    /\ tag \in {1, None}
    /\ jobs = [w \in Workers |-> None]
    /\ faults = 0 /\ untags = 0
    /\ past = [id \in Ids |-> {}]

Next ==
    \/ \E w \in Workers :
         \/ \E o \in Owners : Insert(w, o)
         \/ Build(w) \/ Write(w) \/ Fill(w) \/ Log(w)
         \/ GetTag(w) \/ MakeTag(w) \/ AddTag(w) \/ Alert(w) \/ Fail(w)
         \/ \E id \in Ids : UntagEvent(w, id)
         \/ Look(w) \/ DeleteTag(w)
    \/ \E id \in Ids : Untag(id)

Spec == Init /\ [][Next]_vars

-----------------------------------------------------------------------------
(* Properties.                                                             *)

\* The text of a VOEvent cites, by its identifier, each one of the same object that had gone
\* out when the request began: a retraction retracts them all, and an update supersedes them,
\* whatever else is in the making or has failed half-way.
CitesTheirPast ==
    \A id \in Ids : texts[id] # None => \A n \in past[id] : [n |-> n, known |-> TRUE] \in texts[id]

\* Those that have gone out have their file, and a log message that leads to it.
AnnouncedAreLogged == announced \subseteq logged

\* What those that go out cite and leave behind.
AlertsCiteTheirPast == TypeOK /\ CitesTheirPast /\ AnnouncedAreLogged

\* A VOEvent whose request has come to its end has gone out, unless one of its steps failed,
\* the tag was deleted in the meantime or made by two at once, or, for a superevent, was
\* missing from the start.
VOEventsGoOut == \A id \in Ids : There(id) => id \in InMaking \cup announced \cup excused

\* "Is the tag empty now?  If so we can delete it."
DeletedTagsAreEmpty == [][tag # None /\ tag' = None => tagged = {}]_vars
=============================================================================
