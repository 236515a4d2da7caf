--------------------------- MODULE NumberSequence ---------------------------
(***************************************************************************)
(* What AutoIncrementModel promises, and the versions of files and the     *)
(* numbers of superevents as well: each call that succeeds takes, in one   *)
(* step, a number nobody in its group holds - the least one, as long as no *)
(* row was ever removed.                                                   *)
(***************************************************************************)
EXTENDS Naturals

CONSTANTS Saves, Groups
VARIABLES group, N, taken, deletes

vars == <<group, N, taken, deletes>>

Numbers(g) == {N[s] : s \in {t \in Saves : group[t] = g /\ N[t] # 0}}

Init ==
    /\ group \in [Saves -> Groups]
    /\ N = [s \in Saves |-> 0]
    /\ taken = {}
    /\ deletes = 0

Take(s) ==
    /\ s \notin taken
    /\ taken' = taken \cup {s}
    /\ N' = [N EXCEPT ![s] = N'[s]]
    /\ N'[s] \in Nat \ (Numbers(group[s]) \cup {0})
    /\ deletes = 0 => \A m \in 1 .. N'[s] - 1 : m \in Numbers(group[s])
    /\ UNCHANGED <<group, deletes>>

Remove(s) ==
    /\ N[s] # 0
    /\ N' = [N EXCEPT ![s] = 0]
    /\ deletes' = deletes + 1
    /\ UNCHANGED <<group, taken>>

Next == \E s \in Saves : Take(s) \/ Remove(s)

Spec == Init /\ [][Next]_vars
=============================================================================
