---------------------------- MODULE AutoIncrement ----------------------------
(***************************************************************************)
(* core.models.AutoIncrementModel: how the rows of a group (the logs of an *)
(* event, the VOEvents of a superevent, the superevents of a date and      *)
(* category, the versions of a GWTC catalog) get the numbers 1, 2, 3, ...  *)
(*                                                                         *)
(* Every element of Saves is one call of save() on a new instance, run by  *)
(* a web process.  The database is in autocommit mode, so each query of    *)
(* the call is a step of its own: the test for an empty group, the         *)
(* aggregate, the stamping of `created' in Python and the INSERT.  The     *)
(* unique constraint on (group, number) is the only thing the processes    *)
(* share.                                                                  *)
(***************************************************************************)
EXTENDS Integers, FiniteSets

CONSTANTS
    Saves,       \* calls of save() on a new instance
    Groups,      \* values of the AUTO_CONSTRAINTS fields
    MaxTries,    \* number_of_tries past which the exception is re-raised (6)
    MaxDeletes   \* bound on the rows removed while the saves run

ASSUME SavesAssumption   == IsFiniteSet(Saves)
ASSUME TriesAssumption   == MaxTries \in Nat
ASSUME DeletesAssumption == MaxDeletes \in Nat

VARIABLES
    group,    \* the group of each save's instance, fixed by the caller
    N,        \* the number of the save's row, 0 when the table has no such row
    created,  \* LogBase.created: the reading of the clock put in the row
    pc,       \* where each call is
    value,    \* the AUTO_FIELD value the call has computed
    tries,    \* number_of_tries
    clock,    \* readings of the clock so far
    deletes   \* rows removed so far

vars == <<group, N, created, pc, value, tries, clock, deletes>>

Running  == {"exists", "max", "stamp", "insert"}
Finished == {"done", "failed", "error"}

TypeOK ==
    /\ group \in [Saves -> Groups]
    /\ N \in [Saves -> Nat]
    /\ created \in [Saves -> Nat]
    /\ pc \in [Saves -> Running \cup Finished]
    /\ value \in [Saves -> Nat]
    /\ tries \in [Saves -> 0 .. MaxTries + 1]
    /\ \A s \in Saves : pc[s] \in Running => tries[s] <= MaxTries
    /\ clock \in Nat
    /\ deletes \in 0 .. MaxDeletes

-----------------------------------------------------------------------------
(* The table.                                                              *)

Rows(g)    == {s \in Saves : group[s] = g /\ N[s] # 0}
Numbers(g) == {N[s] : s \in Rows(g)}
Done(g)    == {s \in Saves : group[s] = g /\ pc[s] = "done"}

Maximum(g) == {n \in Numbers(g) : \A m \in Numbers(g) : m <= n}

\* The value of the aggregate plus one, {} when the aggregate is None.
UpdatedAutofieldValue(g) == {n + 1 : n \in Maximum(g)}

-----------------------------------------------------------------------------
(* updated_autofield_value and the loop of auto_increment_insert.          *)

Goto(s, l) == pc' = [pc EXCEPT ![s] = l]

\* `if query_set:' - an empty group gives 1 without a second query.
Exists(s) ==
    /\ pc[s] = "exists"
    /\ IF Rows(group[s]) = {}
       THEN value' = [value EXCEPT ![s] = 1] /\ Goto(s, "stamp")
       ELSE UNCHANGED value /\ Goto(s, "max")
    /\ UNCHANGED <<group, N, created, tries, clock, deletes>>

\* The aggregate.  On a group emptied since the first query it is None, and
\* None + 1 raises a TypeError, which the loop does not catch.
Aggregate(s) ==
    /\ pc[s] = "max"
    /\ \/ /\ UpdatedAutofieldValue(group[s]) = {}
          /\ Goto(s, "error")
          /\ UNCHANGED value
       \/ \E n \in UpdatedAutofieldValue(group[s]) :
            /\ value' = [value EXCEPT ![s] = n]
            /\ Goto(s, "stamp")
    /\ UNCHANGED <<group, N, created, tries, clock, deletes>>

\* A bug: the clock is read once for all the tries (default= instead of auto_now_add=).
StampOnce(s) ==
    IF created[s] # 0 THEN UNCHANGED <<clock, created>>
    ELSE clock' = clock + 1 /\ created' = [created EXCEPT ![s] = clock']

StampNow(s) == clock' = clock + 1 /\ created' = [created EXCEPT ![s] = clock']

\* auto_now_add: the clock is read while the INSERT statement is built.
Stamp(s) ==
    /\ pc[s] = "stamp"
    /\ StampNow(s)
    /\ Goto(s, "insert")
    /\ UNCHANGED <<group, N, value, tries, deletes>>

Taken(s) == value[s] \in Numbers(group[s])

\* A bug: the unique constraint is not there.
NotTaken(s) == FALSE

Conflict(s) == Taken(s)

\* The INSERT succeeds.
Insert(s) ==
    /\ pc[s] = "insert"
    /\ ~ Conflict(s)
    /\ N' = [N EXCEPT ![s] = value[s]]
    /\ Goto(s, "done")
    /\ UNCHANGED <<group, created, value, tries, clock, deletes>>

\* A bug: the value is not computed again, and the try is not counted.
RetrySameValue(s) == tries' = tries /\ Goto(s, "insert")
\* A bug: the exception is re-raised when the counter reaches the limit.
GiveUpEarly(s) ==
    /\ tries' = [tries EXCEPT ![s] = @ + 1]
    /\ Goto(s, IF tries'[s] >= MaxTries THEN "failed" ELSE "exists")
\* A bug: nothing stops the loop.
RetryForever(s) == tries' = [tries EXCEPT ![s] = @ + 1] /\ Goto(s, "exists")

\* The except clause: sleep, count the try, and re-raise or go round again.
Retry(s) ==
    /\ tries' = [tries EXCEPT ![s] = @ + 1]
    /\ Goto(s, IF tries'[s] > MaxTries THEN "failed" ELSE "exists")

\* The INSERT violates the unique constraint.
IntegrityError(s) ==
    /\ pc[s] = "insert"
    /\ Conflict(s)
    /\ Retry(s)
    /\ UNCHANGED <<group, N, created, value, clock, deletes>>

\* A row is removed (Superevent.delete, an administrator).
Delete(s) ==
    /\ N[s] # 0
    /\ deletes < MaxDeletes
    /\ deletes' = deletes + 1
    /\ N' = [N EXCEPT ![s] = 0]
    /\ UNCHANGED <<group, created, pc, value, tries, clock>>

-----------------------------------------------------------------------------
Init ==
    /\ group \in [Saves -> Groups]
    /\ N = [s \in Saves |-> 0]
    /\ created = [s \in Saves |-> 0]
    /\ pc = [s \in Saves |-> "exists"]
    /\ value = [s \in Saves |-> 0]
    /\ tries = [s \in Saves |-> 0]
    /\ clock = 0
    /\ deletes = 0

Step(s) == Exists(s) \/ Aggregate(s) \/ Stamp(s) \/ Insert(s) \/ IntegrityError(s)

Next == \E s \in Saves : Step(s) \/ Delete(s)

Spec == Init /\ [][Next]_vars

\* Every process goes on with its own call.
FairSpec == Spec /\ \A s \in Saves : WF_vars(Step(s))

-----------------------------------------------------------------------------
(* Properties.                                                             *)

\* As long as no row was removed the numbers of a group have no gap: they are
\* 1, 2, ..., one for each row.  A save that loses a race must not skip one.
NumbersContiguous ==
    deletes = 0 =>
        \A g \in Groups : \A n \in Numbers(g) : \A m \in 1 .. n : m \in Numbers(g)

\* Logs are listed by LogBase.Meta.ordering, ['-created', '-N'].  As long as no
\* row was removed the two keys agree, although `created' is read from the clock
\* before the INSERT and after another process may have computed the same number.
NumbersFollowTime ==
    deletes = 0 =>
        \A s, t \in Saves :
            (group[s] = group[t] /\ N[s] # 0 /\ N[s] < N[t]) => created[s] < created[t]

\* The retry limit turns a call away only after more than MaxTries other
\* calls put a row in its group: a burst of MaxTries + 1 calls never loses one.
FailureNeedsBurst ==
    \A s \in Saves : pc[s] = "failed" => Cardinality(Done(group[s])) > MaxTries

\* The calls implement a sequence of numbers handed out one at a time.
Sequence == INSTANCE NumberSequence WITH taken <- {s \in Saves : pc[s] = "done"}
ImplementsSequence == Sequence!Spec

\* Every call ends.
EveryCallEnds == \A s \in Saves : <>(pc[s] \in Finished)

=============================================================================
