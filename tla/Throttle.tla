------------------------------ MODULE Throttle ------------------------------
(***************************************************************************)
(* The throttle of one user's POST and PUT requests: the times of those    *)
(* that went through are kept in a table that all workers share.  A        *)
(* request reads the list, decides, and writes the list back, without a    *)
(* lock; the table may drop a list at any time to make room.               *)
(***************************************************************************)
EXTENDS Naturals, Sequences, SequencesExt, FiniteSets

CONSTANTS
    Workers,
    Limit,           \* num_requests
    Duration,        \* in ticks
    MaxTime,         \* bound on the clock
    MaxRequests      \* bound on the requests

VARIABLES
    clock,
    cached,     \* the list in the table, the newest time first
    expires,    \* when the table forgets it
    own,        \* the list a request holds
    now,        \* the time it has looked at
    phase,      \* what it does next
    accepted,   \* history: the times of the requests that went through
    refusals,   \* history: for each refusal, how many had gone through in the span before
    calm        \* history: no two requests have overlapped and no list was dropped

vars == <<clock, cached, expires, own, now, phase, accepted, refusals, calm>>

\* The newest time comes first.
TypeOK ==
    /\ clock \in 0 .. MaxTime
    /\ \A i, j \in DOMAIN cached : i < j => cached[i] >= cached[j]
    /\ phase \in [Workers -> {"idle", "store"}]
    /\ Len(accepted) <= MaxRequests

Rest == \A w \in Workers : phase[w] = "idle"

\* How many went through since the time.
Since(t) == Cardinality({i \in DOMAIN accepted : accepted[i] > t})

-----------------------------------------------------------------------------
Tick == /\ clock < MaxTime
        /\ clock' = clock + 1
        /\ UNCHANGED <<cached, expires, own, now, phase, accepted, refusals, calm>>

\* cache.get: a list that has expired is not found.
Stored == IF clock < expires THEN cached ELSE <<>>

\* The list up to the last time that is not older than the duration at the time t.
KeptAt(list, t) == SubSeq(list, 1, Max({0} \cup {i \in DOMAIN list : list[i] + Duration > t}))

\* A bug: times are popped a moment too early.
PopNewest(list) == KeptAt(list, clock + 1)

\* A bug: nothing is popped.
KeepAll(list) == list

\* What is older than the duration is popped from the end.
Pop(list) == KeptAt(list, clock)

\* allow_request, for a user who is throttled.
Ask(w) ==
    /\ phase[w] = "idle" /\ Len(accepted) < MaxRequests /\ Len(refusals) < MaxRequests
    /\ calm' = (calm /\ Rest)
    /\ LET list == Pop(Stored)
       IN  IF Len(list) >= Limit
           THEN /\ refusals' = Append(refusals, Since(IF clock < Duration THEN 0
                                                     ELSE clock - Duration))
                /\ UNCHANGED <<own, now, phase, accepted>>
           ELSE /\ own' = [own EXCEPT ![w] = <<clock>> \o list]
                /\ now' = [now EXCEPT ![w] = clock]
                /\ phase' = [phase EXCEPT ![w] = "store"]
                /\ accepted' = Append(accepted, clock)
                /\ UNCHANGED refusals
    /\ UNCHANGED <<clock, cached, expires>>

\* throttle_success.
Store(w) ==
    /\ phase[w] = "store"
    /\ cached' = own[w]
    /\ expires' = clock + Duration
    /\ own' = [own EXCEPT ![w] = <<>>] /\ now' = [now EXCEPT ![w] = 0]
    /\ phase' = [phase EXCEPT ![w] = "idle"]
    /\ UNCHANGED <<clock, accepted, refusals, calm>>

\* The table is full and drops lists.
Cull == /\ cached # <<>>
        /\ cached' = <<>>
        /\ calm' = FALSE
        /\ UNCHANGED <<clock, expires, own, now, phase, accepted, refusals>>

\* The clock starts late enough for subtraction.
Init == /\ clock = 1
        /\ cached = <<>> /\ expires = 0
        /\ own = [w \in Workers |-> <<>>] /\ now = [w \in Workers |-> 0]
        /\ phase = [w \in Workers |-> "idle"]
        /\ accepted = <<>> /\ refusals = <<>> /\ calm = TRUE

Next == Tick \/ Cull \/ \E w \in Workers : Ask(w) \/ Store(w)

Spec == Init /\ [][Next]_vars

-----------------------------------------------------------------------------
\* One after the other, no more requests go through in any span of the duration than the
\* limit; and however they overlap, a request is only refused if as many have gone
\* through in the span before it.
RateIsKept ==
    /\ calm => \A i \in DOMAIN accepted :
                   Cardinality({j \in DOMAIN accepted :
                       accepted[i] <= accepted[j] /\ accepted[j] < accepted[i] + Duration}) <= Limit
    /\ \A i \in DOMAIN refusals : refusals[i] >= Limit
=============================================================================
