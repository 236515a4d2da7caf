----------------------------- MODULE ControlRoom -----------------------------
(***************************************************************************)
(* ControlRoomMiddleware: a user who asks from a control room is in its    *)
(* group while the request runs.  The group is a row like any other, and   *)
(* all requests of the user share it.                                      *)
(***************************************************************************)
EXTENDS Naturals, FiniteSets

CONSTANTS
    Requests,        \* requests of one user that may run at a time
    Rooms,           \* the control rooms
    MaxRequests,     \* bound on the requests
    MaxFaults,       \* bound on the requests that are cut off
    Elsewhere        \* a request from another address

VARIABLES
    groups,     \* the control room groups the user is in
    at,         \* where each request comes from
    phase,      \* how far it is
    found,      \* the groups its response has found to leave
    made, faults,
    cut,        \* history: the last request to end was cut off
    calm        \* history: no two requests have overlapped

vars == <<groups, at, phase, found, made, faults, cut, calm>>

\* Only rooms are entered, found and left.
TypeOK ==
    /\ groups \subseteq Rooms
    /\ at \in [Requests -> Rooms \cup {Elsewhere}]
    /\ phase \in [Requests -> {"idle", "request", "view", "leave"}]
    /\ found \in [Requests -> SUBSET Rooms]
    /\ made \in 0 .. MaxRequests /\ faults \in 0 .. MaxFaults

Rest == \A r \in Requests : phase[r] = "idle"

-----------------------------------------------------------------------------
\* get_client_ip.
Arrive(r) ==
    /\ phase[r] = "idle" /\ made < MaxRequests
    /\ made' = made + 1
    /\ \E place \in Rooms \cup {Elsewhere} : at' = [at EXCEPT ![r] = place]
    /\ phase' = [phase EXCEPT ![r] = "request"]
    /\ calm' = (calm /\ Rest)
    /\ UNCHANGED <<groups, found, faults, cut>>

\* process_request.
Enter(r) ==
    /\ phase[r] = "request"
    /\ groups' = groups \cup ({at[r]} \cap Rooms)
    /\ phase' = [phase EXCEPT ![r] = "view"]
    /\ UNCHANGED <<at, found, made, faults, cut, calm>>

\* A bug: the groups are not looked for again, only the first one is left.
FirstOnly(r) == IF at[r] \in groups THEN {at[r]} ELSE {}

\* All groups with the suffix, whoever put the user there.
GroupsToLeave(r) == groups

\* process_response: the groups are looked for ...
Find(r) ==
    /\ phase[r] = "view"
    /\ found' = [found EXCEPT ![r] = GroupsToLeave(r)]
    /\ phase' = [phase EXCEPT ![r] = "leave"]
    /\ UNCHANGED <<groups, at, made, faults, cut, calm>>

\* ... and left.
Leave(r) ==
    /\ phase[r] = "leave"
    /\ groups' = groups \ found[r]
    /\ phase' = [phase EXCEPT ![r] = "idle"]
    /\ cut' = FALSE
    /\ UNCHANGED <<at, found, made, faults, calm>>

\* The worker dies before the response, or the response is never processed.
CutOff(r) ==
    /\ phase[r] # "idle" /\ faults < MaxFaults
    /\ faults' = faults + 1
    /\ cut' = TRUE
    /\ phase' = [phase EXCEPT ![r] = "idle"]
    /\ UNCHANGED <<groups, at, found, made, calm>>

Init == /\ groups = {}
        /\ at = [r \in Requests |-> Elsewhere]
        /\ phase = [r \in Requests |-> "idle"]
        /\ found = [r \in Requests |-> {}]
        /\ made = 0 /\ faults = 0 /\ cut = FALSE /\ calm = TRUE

Next == \E r \in Requests : Arrive(r) \/ Enter(r) \/ Find(r) \/ Leave(r) \/ CutOff(r)

Spec == Init /\ [][Next]_vars

-----------------------------------------------------------------------------
Viewing == {r \in Requests : phase[r] = "view"}

\* While requests come one after the other, the user is in the control room a request
\* comes from and, unless the one before was cut off, in no other; and a request that ends
\* leaves the user in none, whatever one that was cut off left behind.  However requests
\* overlap, when all have ended the user is in none, if none was cut off.
InRoomWhileAsking ==
    /\ calm => \A r \in Viewing : {at[r]} \cap Rooms \subseteq groups
    /\ calm /\ ~ cut => \A r \in Viewing : groups \subseteq {at[r]}
    /\ calm /\ ~ cut /\ Rest => groups = {}
    /\ faults = 0 /\ Rest => groups = {}
=============================================================================
