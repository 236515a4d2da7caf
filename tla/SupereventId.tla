---------------------------- MODULE SupereventId ----------------------------
(***************************************************************************)
(* How the superevents of one date and category get their IDs, keep them   *)
(* and are looked up by them: Superevent.save (two saves on creation),     *)
(* Superevent.confirm_as_gw behind POST .../confirm-as-gw, and PATCH with  *)
(* a gw_id.  Requests run concurrently; nothing is locked and every SQL    *)
(* statement commits on its own.                                           *)
(*                                                                         *)
(* A letter suffix stands for the number it is computed from (the letters  *)
(* of two numbers differ), and the empty suffix for 0.  No superevent is   *)
(* deleted here, so the two queries of updated_autofield_value (see        *)
(* AutoIncrement) give what one query at the time of the deciding one      *)
(* gives, and are one step.                                                *)
(***************************************************************************)
EXTENDS Integers, FiniteSets

CONSTANTS
    Creators,    \* POST superevents/ requests; also names the row each makes
    Confirmers,  \* POST .../confirm-as-gw requests
    Patchers,    \* PATCH requests
    Target,      \* [Confirmers \cup Patchers -> Creators]: the superevent of each
    GivenIds,    \* gw_ids a user may supply
    NoId,        \* None: no gw_id in the request, or in the row
    EmptyId,     \* the empty string as a gw_id in the request
    MaxTries,    \* retries of auto_increment_insert (6)
    MayCrash     \* may a web process die between two saves?

Updaters == Confirmers \cup Patchers
Requests == Creators \cup Updaters

SID(n) == <<"S", n>>
GWID(n) == <<"GW", n>>

ASSUME TargetAssumption == Target \in [Updaters -> Creators]
ASSUME TriesAssumption  == MaxTries \in Nat
ASSUME CrashAssumption  == MayCrash \in BOOLEAN
ASSUME IdsAssumption    == {NoId, EmptyId} \cap GivenIds = {}

VARIABLES
    row,     \* the table: the row of each creator, number 0 when there is none
    pc,      \* where each request is
    inst,    \* the model instance each request holds in memory
    given,   \* the gw_id in each request
    tries,   \* number_of_tries of each creation
    had      \* history: the IDs each superevent has had

vars == <<row, pc, inst, given, tries, had>>

NoRow == [num |-> 0, suffix |-> 0, isGw |-> FALSE, gwNum |-> 0, gwId |-> NoId]

Ids == GivenIds \cup {SID(n) : n \in 0 .. Cardinality(Creators)}
                \cup {GWID(n) : n \in 1 .. Cardinality(Updaters)}

RowType == [num : 0 .. Cardinality(Creators), suffix : 0 .. Cardinality(Creators),
            isGw : BOOLEAN, gwNum : 0 .. Cardinality(Updaters), gwId : Ids \cup {NoId}]

TypeOK ==
    /\ row \in [Creators -> RowType]
    /\ pc \in [Requests -> {"start", "clean", "number", "insert", "rename",
                            "update", "done", "refused", "failed", "crashed"}]
    /\ inst \in [Requests -> RowType]
    /\ given \in [Requests -> GivenIds \cup {NoId, EmptyId}]
    /\ tries \in [Creators -> 0 .. MaxTries + 1]
    /\ had \in [Creators -> SUBSET Ids]

-----------------------------------------------------------------------------
(* The table, and the ID columns.                                          *)

Rows == {c \in Creators : row[c].num # 0}
Unnamed == {c \in Rows : row[c].suffix = 0}

\* The computed columns default_superevent_id and superevent_id.
DefaultSupereventId(r) == SID(r.suffix)
SupereventIdOf(r) == IF r.isGw THEN r.gwId ELSE DefaultSupereventId(r)

\* A bug: an ID is only looked up in superevent_id.
LookupCurrentOnly(id) == {c \in Rows : id = SupereventIdOf(row[c])}

\* get_superevent_by_sid_or_gwid_or_404; more than one row is a server error.
Lookup(id) == {c \in Rows : id \in {SupereventIdOf(row[c]), DefaultSupereventId(row[c])}}

Maximum(S) == IF S = {} THEN 0 ELSE CHOOSE m \in S : \A n \in S : n <= m

\* A bug: only the numbers are unique.
NumbersClash(c, r) == \E d \in Rows \ {c} : r.num = row[d].num

\* A bug: numbers need not be unique.
LettersClash(c, r) == \E d \in Rows \ {c} : r.suffix = row[d].suffix

\* unique_together and gw_id's unique, as full_clean and as the database checks
\* them for row r of superevent c.  None never clashes.
Clash(c, r) == \E d \in Rows \ {c} :
    \/ r.num = row[d].num
    \/ r.suffix = row[d].suffix
    \/ r.gwNum # 0 /\ r.gwNum = row[d].gwNum
    \/ r.gwId # NoId /\ r.gwId = row[d].gwId

Write(c, r) == /\ row' = [row EXCEPT ![c] = r]
               /\ had' = [had EXCEPT ![c] = @ \cup {SupereventIdOf(r)}]

Goto(q, l) == pc' = [pc EXCEPT ![q] = l]
Hold(q, r) == inst' = [inst EXCEPT ![q] = r]

-----------------------------------------------------------------------------
(* Creation.                                                               *)

\* CleanSaveModel.save: full_clean, outside the retry loop.  The instance has no
\* number yet, but its empty suffix is checked against the table.
CreateClean(c) ==
    /\ pc[c] = "start"
    /\ Goto(c, IF Unnamed # {} THEN "failed" ELSE "number")
    /\ UNCHANGED <<row, inst, given, tries, had>>

\* updated_autofield_value over the date and category.
CreateNumber(c) ==
    /\ pc[c] = "number"
    /\ Hold(c, [NoRow EXCEPT !.num = 1 + Maximum({row[d].num : d \in Rows})])
    /\ Goto(c, "insert")
    /\ UNCHANGED <<row, given, tries, had>>

\* A bug: nothing stops the loop.
RetryForever(c) == tries' = [tries EXCEPT ![c] = @ + 1] /\ Goto(c, "number")

Retry(c) == /\ tries' = [tries EXCEPT ![c] = @ + 1]
            /\ Goto(c, IF tries'[c] > MaxTries THEN "failed" ELSE "number")

\* The INSERT; a number or an empty suffix that is taken is retried.
CreateInsert(c) ==
    /\ pc[c] = "insert"
    /\ IF Clash(c, inst[c])
       THEN Retry(c) /\ UNCHANGED <<row, had>>
       ELSE /\ row' = [row EXCEPT ![c] = inst[c]]
            /\ Goto(c, "rename")
            /\ UNCHANGED <<tries, had>>
    /\ UNCHANGED <<inst, given>>

\* A bug: the letters are computed but the column is not among update_fields.
NotNamed(c) == UNCHANGED <<row, had>>

Named(c) == Write(c, [row[c] EXCEPT !.suffix = inst[c].num])

\* The second save, of base_letter_suffix alone.
CreateRename(c) ==
    /\ pc[c] = "rename"
    /\ Named(c)
    /\ Goto(c, "done")
    /\ UNCHANGED <<inst, given, tries>>

\* The process dies between the two saves.
Crash(c) ==
    /\ MayCrash
    /\ pc[c] = "rename"
    /\ Goto(c, "crashed")
    /\ UNCHANGED <<row, inst, given, tries, had>>

-----------------------------------------------------------------------------
(* Confirmation and PATCH.                                                 *)

MayConfirm(r) == ~ r.isGw

\* get_object loads the row; confirm_as_gw refuses a superevent that is a GW.
Load(u) ==
    /\ pc[u] = "start"
    /\ row[Target[u]].suffix # 0
    /\ \E id \in GivenIds \cup {NoId, EmptyId} :
         /\ u \in Patchers => id \in GivenIds
         /\ given' = [given EXCEPT ![u] = id]
    /\ Hold(u, row[Target[u]])
    /\ Goto(u, IF u \in Confirmers /\ ~ MayConfirm(row[Target[u]]) THEN "refused"
               ELSE "number")
    /\ UNCHANGED <<row, tries, had>>

\* A bug: the numbers of all superevents are looked at, not those of the GWs.
NextByDate == 1 + Maximum({row[d].num : d \in Rows})

\* auto_increment_update of gw_date_number over the confirmed superevents.
NextGwNumber == 1 + Maximum({row[d].gwNum : d \in {e \in Rows : row[e].isGw}})

\* Superevent.confirm_as_gw.  The empty string skips the numbering and then needs
\* the suffix that the numbering would have set: a TypeError.
ConfirmNumber(u) ==
    /\ u \in Confirmers
    /\ pc[u] = "number"
    /\ \/ /\ given[u] = EmptyId
          /\ Goto(u, "failed")
          /\ UNCHANGED inst
       \/ /\ given[u] = NoId
          /\ Hold(u, [inst[u] EXCEPT !.isGw = TRUE, !.gwNum = NextGwNumber,
                                     !.gwId = GWID(NextGwNumber)])
          /\ Goto(u, "clean")
       \/ /\ given[u] \in GivenIds
          /\ Hold(u, [inst[u] EXCEPT !.isGw = TRUE, !.gwId = given[u]])
          /\ Goto(u, "clean")
    /\ UNCHANGED <<row, given, tries, had>>

\* SupereventUpdateSerializer.validate passes a changed gw_id through, and
\* update_superevent sets it on the instance.
PatchSet(u) ==
    /\ u \in Patchers
    /\ pc[u] = "number"
    /\ Hold(u, [inst[u] EXCEPT !.gwId = given[u]])
    /\ Goto(u, IF inst[u].gwId = given[u] THEN "refused" ELSE "clean")
    /\ UNCHANGED <<row, given, tries, had>>

\* full_clean of the changed instance.
UpdateClean(u) ==
    /\ u \in Updaters
    /\ pc[u] = "clean"
    /\ Goto(u, IF Clash(Target[u], inst[u]) THEN "refused" ELSE "update")
    /\ UNCHANGED <<row, inst, given, tries, had>>

\* The UPDATE: of the GW columns by a confirmation, and by a PATCH of all the
\* columns, as they were when the request loaded the row.
UpdateWrite(u) ==
    /\ u \in Updaters
    /\ pc[u] = "update"
    /\ IF Clash(Target[u], inst[u])
       THEN Goto(u, "failed") /\ UNCHANGED <<row, had>>
       ELSE Write(Target[u], inst[u]) /\ Goto(u, "done")
    /\ UNCHANGED <<inst, given, tries>>

-----------------------------------------------------------------------------
Init ==
    /\ row = [c \in Creators |-> NoRow]
    /\ pc = [q \in Requests |-> "start"]
    /\ inst = [q \in Requests |-> NoRow]
    /\ given = [q \in Requests |-> NoId]
    /\ tries = [c \in Creators |-> 0]
    /\ had = [c \in Creators |-> {}]

Create(c) == CreateClean(c) \/ CreateNumber(c) \/ CreateInsert(c) \/ CreateRename(c)
Update(u) == Load(u) \/ ConfirmNumber(u) \/ PatchSet(u) \/ UpdateClean(u) \/ UpdateWrite(u)

Next == \/ \E c \in Creators : Create(c) \/ Crash(c)
        \/ \E u \in Updaters : Update(u)

Spec == Init /\ [][Next]_vars

FairSpec == Spec /\ \A c \in Creators : WF_vars(Create(c))

-----------------------------------------------------------------------------
(* Properties.                                                             *)

Patched == {p \in Patchers : pc[p] = "done"}

\* An ID a superevent ever had still finds that superevent, whatever it was
\* renamed to since: "accessible by both its old and new IDs".  A PATCH that
\* replaces the gw_id is let off: it is asked to replace the ID.
IdsStayAccessible ==
    \A c \in Creators : c \notin {Target[p] : p \in Patched} =>
        \A id \in had[c] : c \in Lookup(id)

\* No ID finds two superevents, which would be a server error.  The ID columns
\* are unique one by one, and nothing compares the gw_id of one row with the
\* superevent_id of another.
IdsUnambiguous == \A id \in Ids : Cardinality(Lookup(id) \ Unnamed) <= 1

\* IDs are names: one ID finds one superevent, and always the same.
IdsFindOne == TypeOK /\ IdsStayAccessible /\ IdsUnambiguous

\* The superevents that were numbered as GWs have the numbers 1, 2, ..., as long
\* as no PATCH wrote the columns it had loaded earlier over a confirmation.
GwNumbersContiguous ==
    LET numbers == {row[c].gwNum : c \in {d \in Rows : row[d].isGw}} \ {0}
    IN  Patched = {} => numbers = 1 .. Cardinality(numbers)

\* The creations implement a sequence of numbers handed out one at a time, the same as the
\* calls of AutoIncrement do: each takes, with its INSERT, the least number no superevent of the
\* date has, and no update, whatever it writes back, ever changes a number.
NumberOf == [c \in Creators |-> row[c].num]
DateSequence == INSTANCE NumberSequence WITH
    Saves <- Creators, Groups <- {"date"}, group <- [c \in Creators |-> "date"],
    N <- NumberOf, taken <- Rows, deletes <- 0
CreationsImplementSequence == DateSequence!Spec

\* A superevent without letters turns away every other creation for its date.
\* It always gets them, unless the process dies between the two saves.
DateStaysOpen ==
    \A c \in Creators : c \in Unnamed ~> (c \notin Unnamed \/ pc[c] = "crashed")
=============================================================================
