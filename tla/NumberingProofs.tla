-------------------------- MODULE NumberingProofs --------------------------
(***************************************************************************)
(* Proofs about the two places where processes race for the greatest       *)
(* number there is plus one, and try again when it is taken: the rows of a *)
(* group (AutoIncrement, for any number of calls, groups, retries and      *)
(* removals) and the versions of a file (VersionedFile, for any number of  *)
(* uploads and downloads, any number of attempts, with or without          *)
(* crashes).  The two are about different variables.                       *)
(***************************************************************************)
EXTENDS AutoIncrement, VersionedFile, FiniteSetTheorems, TLAPS

-----------------------------------------------------------------------------
(* Type correctness.                                                       *)

\* The numbers of a group are positive naturals.
LEMMA NumbersType == TypeOK => \A g : Numbers(g) \subseteq Nat \ {0}
BY DEF TypeOK, Numbers, Rows

LEMMA TypeOKInit == Init => TypeOK
BY TriesAssumption, DeletesAssumption
   DEF Init, TypeOK, Running, Finished

LEMMA TypeOKNext == TypeOK /\ [Next]_vars => TypeOK'
<1> SUFFICES ASSUME TypeOK, [Next]_vars PROVE TypeOK'
    OBVIOUS
<1> USE TriesAssumption, DeletesAssumption
    DEF TypeOK, Running, Finished, Goto
<1>1. ASSUME NEW s \in Saves, Exists(s) PROVE TypeOK'
    BY <1>1 DEF Exists
<1>2. ASSUME NEW s \in Saves, Aggregate(s) PROVE TypeOK'
    <2>1. UpdatedAutofieldValue(group[s]) \subseteq Nat
        BY NumbersType DEF UpdatedAutofieldValue, Maximum
    <2> QED BY <1>2, <2>1 DEF Aggregate
<1>3. ASSUME NEW s \in Saves, Stamp(s) PROVE TypeOK'
    BY <1>3 DEF Stamp, StampNow
<1>4. ASSUME NEW s \in Saves, Insert(s) PROVE TypeOK'
    BY <1>4 DEF Insert
<1>5. ASSUME NEW s \in Saves, IntegrityError(s) PROVE TypeOK'
    BY <1>5 DEF IntegrityError, Retry
<1>6. ASSUME NEW s \in Saves, Delete(s) PROVE TypeOK'
    BY <1>6 DEF Delete
<1>7. CASE UNCHANGED vars
    BY <1>7 DEF vars
<1> QED BY <1>1, <1>2, <1>3, <1>4, <1>5, <1>6, <1>7 DEF Next, Step

\* Every variable keeps its type; a call never counts more than MaxTries + 1
\* tries, and goes on only with at most MaxTries.
THEOREM TypeCorrect == Spec => []TypeOK
BY TypeOKInit, TypeOKNext, PTL DEF Spec

-----------------------------------------------------------------------------
(* The numbers of a group, as long as nothing was removed.                 *)

\* A call that is not done has no row.
RowsAreDone == \A s \in Saves : N[s] # 0 => pc[s] = "done"

\* The unique constraint.
NumbersUnique ==
    \A s, t \in Saves :
        (group[s] = group[t] /\ N[s] # 0 /\ N[s] = N[t]) => s = t

\* The value a call holds has every smaller number below it in the table.
NoGapBelowValue ==
    \A s \in Saves : pc[s] \in {"stamp", "insert"} =>
        /\ value[s] # 0
        /\ deletes = 0 => \A m \in 1 .. value[s] - 1 : m \in Numbers(group[s])

\* The rows with a smaller number than a call's value were stamped before it.
StampedAfterSmaller ==
    /\ \A s \in Saves : created[s] <= clock
    /\ deletes = 0 =>
        \A s, t \in Saves :
            (pc[s] = "insert" /\ group[s] = group[t] /\ N[t] # 0 /\ N[t] < value[s])
                => created[t] < created[s]

NumberInv == /\ TypeOK /\ RowsAreDone /\ NumbersUnique /\ NumbersContiguous
             /\ NoGapBelowValue /\ StampedAfterSmaller /\ NumbersFollowTime

LEMMA NumberInvInit == Init => NumberInv
BY TypeOKInit
   DEF Init, NumberInv, RowsAreDone, NumbersUnique, NumbersContiguous, Numbers, Rows,
       NoGapBelowValue, StampedAfterSmaller, NumbersFollowTime

\* What an INSERT does to the numbers of the groups.
LEMMA InsertNumbers ==
    ASSUME NumberInv, NEW s \in Saves, Insert(s)
    PROVE  /\ \A g : g # group[s] => Numbers(g)' = Numbers(g)
           /\ value[s] # 0 => Numbers(group[s])' = Numbers(group[s]) \cup {value[s]}
           /\ value[s] \notin Numbers(group[s])
BY DEF NumberInv, TypeOK, RowsAreDone, Insert, Conflict, Taken, Goto, Numbers, Rows

\* The table keeps its properties in a step that does not touch it.
LEMMA SameTable ==
    ASSUME UNCHANGED <<group, N, deletes>>
    PROVE  /\ NumbersUnique => NumbersUnique'
           /\ NumbersContiguous => NumbersContiguous'
           /\ created' = created /\ NumbersFollowTime => NumbersFollowTime'
<1>1. \A g : Numbers(g)' = Numbers(g)
    BY DEF Numbers, Rows
<1> QED BY <1>1 DEF NumbersUnique, NumbersContiguous, NumbersFollowTime

LEMMA NumberInvNext == NumberInv /\ [Next]_vars => NumberInv'
<1> SUFFICES ASSUME NumberInv, [Next]_vars PROVE NumberInv'
    OBVIOUS
<1>t. TypeOK'
    BY TypeOKNext DEF NumberInv
<1> USE DEF NumberInv, TypeOK
<1>1. ASSUME NEW s \in Saves, Exists(s) PROVE NumberInv'
    <2>1. Rows(group[s]) = {} => \A t \in Saves : ~(group[t] = group[s] /\ N[t] # 0)
        BY DEF Rows
    <2>2. NoGapBelowValue'
        BY <1>1, <2>1 DEF Exists, Goto, NoGapBelowValue, Numbers, Rows
    <2>3. StampedAfterSmaller'
        BY <1>1 DEF Exists, Goto, StampedAfterSmaller
    <2>4. UNCHANGED <<group, N, created, deletes>> /\ RowsAreDone'
        BY <1>1 DEF Exists, Goto, RowsAreDone
    <2> QED BY <1>t, <2>2, <2>3, <2>4, SameTable
<1>2. ASSUME NEW s \in Saves, Aggregate(s) PROVE NumberInv'
    <2>1. ASSUME NEW n \in UpdatedAutofieldValue(group[s])
          PROVE  n # 0 /\ (deletes = 0 => \A m \in 1 .. n - 1 : m \in Numbers(group[s]))
        <3>1. PICK k \in Numbers(group[s]) : n = k + 1
            BY DEF UpdatedAutofieldValue, Maximum
        <3>2. k \in Nat \ {0}
            BY NumbersType, <3>1
        <3> QED BY <2>1, <3>1, <3>2 DEF NumbersContiguous
    <2>2. NoGapBelowValue'
        BY <1>2, <2>1 DEF Aggregate, Goto, NoGapBelowValue, Numbers, Rows
    <2>3. StampedAfterSmaller'
        BY <1>2 DEF Aggregate, Goto, StampedAfterSmaller
    <2>4. UNCHANGED <<group, N, created, deletes>> /\ RowsAreDone'
        BY <1>2 DEF Aggregate, Goto, RowsAreDone
    <2> QED BY <1>t, <2>2, <2>3, <2>4, SameTable
<1>3. ASSUME NEW s \in Saves, Stamp(s) PROVE NumberInv'
    <2>1. N[s] = 0
        BY <1>3 DEF Stamp, StampNow, RowsAreDone
    <2>2. StampedAfterSmaller'
        BY <1>3, <2>1 DEF Stamp, StampNow, Goto, StampedAfterSmaller
    <2>3. NumbersFollowTime'
        BY <1>3, <2>1 DEF Stamp, StampNow, NumbersFollowTime
    <2>4. UNCHANGED <<group, N, value, deletes>> /\ RowsAreDone'
        BY <1>3 DEF Stamp, StampNow, Goto, RowsAreDone
    <2>5. NoGapBelowValue'
        BY <1>3 DEF Stamp, StampNow, Goto, NoGapBelowValue, Numbers, Rows
    <2> QED BY <1>t, <2>2, <2>3, <2>4, <2>5, SameTable
<1>4. ASSUME NEW s \in Saves, Insert(s) PROVE NumberInv'
    <2>1. RowsAreDone'
        BY <1>4 DEF Insert, Goto, RowsAreDone
    <2>2. value[s] \notin Numbers(group[s])
        BY <1>4, InsertNumbers
    <2>3. \A t \in Saves : group[t] = group[s] /\ N[t] # 0 => N[t] # value[s]
        BY <2>2 DEF Numbers, Rows
    <2>4. NumbersUnique'
        BY <1>4, <2>3 DEF Insert, NumbersUnique
    <2>5. \A g : Numbers(g) \subseteq Numbers(g)'
        BY <1>4, InsertNumbers DEF Insert, RowsAreDone, Numbers, Rows
    <2>6. NoGapBelowValue'
        BY <1>4, <2>5 DEF Insert, Goto, NoGapBelowValue
    <2>7. ASSUME deletes = 0
          PROVE  /\ value[s] # 0
                 /\ \A m \in 1 .. value[s] - 1 : m \in Numbers(group[s])
                 /\ \A t \in Saves : group[t] = group[s] => N[t] < value[s]
        <3>1. /\ value[s] # 0
              /\ \A m \in 1 .. value[s] - 1 : m \in Numbers(group[s])
            BY <1>4, <2>7 DEF Insert, NoGapBelowValue
        <3>2. ASSUME NEW t \in Saves, group[t] = group[s], N[t] >= value[s]
              PROVE  FALSE
            <4>1. N[t] \in Numbers(group[s])
                BY <3>1, <3>2 DEF Numbers, Rows
            <4> QED BY <2>2, <2>7, <3>1, <3>2, <4>1 DEF NumbersContiguous
        <3> QED BY <3>1, <3>2
    <2>8. NumbersContiguous'
        <3>1. deletes' = deletes /\ group' = group
            BY <1>4 DEF Insert
        <3>2. ASSUME deletes = 0, NEW g \in Groups, NEW n \in Numbers(g)', NEW m \in 1 .. n
              PROVE  m \in Numbers(g)'
            <4>1. CASE n \in Numbers(g)
                BY <2>5, <3>2, <4>1 DEF NumbersContiguous
            <4>2. CASE n \notin Numbers(g)
                <5>0. /\ \A h : h # group[s] => Numbers(h)' = Numbers(h)
                      /\ Numbers(group[s])' = Numbers(group[s]) \cup {value[s]}
                    BY <1>4, <2>7, <3>2, InsertNumbers
                <5>1. g = group[s] /\ n = value[s]
                    BY <3>1, <3>2, <4>2, <5>0
                <5>2. m = n \/ m \in 1 .. value[s] - 1
                    BY <3>2, <5>1
                <5> QED BY <2>5, <2>7, <3>2, <5>1, <5>2
            <4> QED BY <4>1, <4>2
        <3> QED BY <3>1, <3>2 DEF NumbersContiguous
    <2>9. StampedAfterSmaller'
        <3>1. ASSUME deletes = 0, NEW t \in Saves, pc[t] = "insert", group[t] = group[s],
                     value[s] < value[t]
              PROVE  FALSE
            <4>1. value[s] \in Numbers(group[t])
                BY <2>7, <3>1 DEF NoGapBelowValue
            <4> QED BY <2>2, <3>1, <4>1
        <3> QED BY <1>4, <3>1 DEF Insert, Goto, StampedAfterSmaller
    <2>10. NumbersFollowTime'
        BY <1>4, <2>7 DEF Insert, NumbersFollowTime, StampedAfterSmaller
    <2> QED BY <1>t, <2>1, <2>4, <2>6, <2>8, <2>9, <2>10
<1>5. ASSUME NEW s \in Saves, IntegrityError(s) PROVE NumberInv'
    <2>1. /\ UNCHANGED <<group, N, created, value, clock, deletes>>
          /\ pc' \in [Saves -> Running \cup Finished]
          /\ pc[s] = "insert" /\ pc'[s] \in {"exists", "failed"}
          /\ \A t \in Saves : t # s => pc'[t] = pc[t]
        BY <1>5, <1>t DEF IntegrityError, Retry, Goto
    <2>2. NoGapBelowValue' /\ StampedAfterSmaller' /\ RowsAreDone'
        BY <2>1 DEF NoGapBelowValue, StampedAfterSmaller, RowsAreDone, Numbers, Rows
    <2> QED BY <1>t, <2>1, <2>2, SameTable
<1>6. ASSUME NEW s \in Saves, Delete(s) PROVE NumberInv'
    <2>1. deletes' # 0
        BY <1>6 DEF Delete
    <2> QED BY <1>6, <1>t, <2>1
            DEF Delete, RowsAreDone, NumbersUnique, NumbersContiguous, NoGapBelowValue,
                StampedAfterSmaller, NumbersFollowTime
<1>7. CASE UNCHANGED vars
    <2>1. NoGapBelowValue' /\ StampedAfterSmaller' /\ RowsAreDone'
        BY <1>7 DEF vars, NoGapBelowValue, StampedAfterSmaller, RowsAreDone, Numbers, Rows
    <2> QED BY <1>7, <1>t, <2>1, SameTable DEF vars
<1> QED BY <1>1, <1>2, <1>3, <1>4, <1>5, <1>6, <1>7 DEF Next, Step

LEMMA NumberInvariant == Spec => []NumberInv
BY NumberInvInit, NumberInvNext, PTL DEF Spec

\* As long as no row was removed the numbers of a group have no gap.
THEOREM Contiguous == Spec => []NumbersContiguous
<1>1. NumberInv => NumbersContiguous
    BY DEF NumberInv
<1> QED BY <1>1, NumberInvariant, PTL

\* The order of the numbers is the order of the timestamps.
THEOREM FollowTime == Spec => []NumbersFollowTime
<1>1. NumberInv => NumbersFollowTime
    BY DEF NumberInv
<1> QED BY <1>1, NumberInvariant, PTL

-----------------------------------------------------------------------------
(* The retry limit.                                                        *)

\* Between two tries of a call another call puts a row in its group: the value
\* was free when it was computed and is taken when the INSERT fails.
BurstInv ==
    \A s \in Saves :
        /\ tries[s] <= Cardinality(Done(group[s]))
        /\ pc[s] \in {"stamp", "insert"} /\ value[s] \in Numbers(group[s])
             => tries[s] < Cardinality(Done(group[s]))
        /\ pc[s] = "failed" => tries[s] > MaxTries

LEMMA DoneFinite == \A g : IsFiniteSet(Done(g)) /\ Cardinality(Done(g)) \in Nat
<1>1. \A g : Done(g) \subseteq Saves
    BY DEF Done
<1> QED BY <1>1, SavesAssumption, FS_Subset, FS_CardinalityType

LEMMA BurstInvInit == Init => BurstInv
<1> SUFFICES ASSUME Init PROVE BurstInv
    OBVIOUS
<1>1. \A s \in Saves : tries[s] = 0 /\ pc[s] = "exists"
    BY DEF Init
<1> QED BY <1>1, DoneFinite DEF BurstInv

\* The value the two queries give is free.
LEMMA ComputedValueIsFree ==
    ASSUME TypeOK
    PROVE  /\ \A g : Rows(g) = {} => 1 \notin Numbers(g)
           /\ \A g : \A n \in UpdatedAutofieldValue(g) : n \notin Numbers(g)
<1>1. \A g : Rows(g) = {} => 1 \notin Numbers(g)
    BY DEF Numbers
<1>2. ASSUME NEW g, NEW n \in UpdatedAutofieldValue(g) PROVE n \notin Numbers(g)
    <2>1. PICK k \in Numbers(g) : n = k + 1 /\ \A m \in Numbers(g) : m <= k
        BY DEF UpdatedAutofieldValue, Maximum
    <2>2. k \in Nat
        BY <2>1, NumbersType
    <2> QED BY <2>1, <2>2
<1> QED BY <1>1, <1>2

LEMMA BurstInvNext == NumberInv /\ BurstInv /\ [Next]_vars => BurstInv'
<1> SUFFICES ASSUME NumberInv, BurstInv, [Next]_vars PROVE BurstInv'
    OBVIOUS
<1>t. TypeOK /\ TypeOK'
    BY NumberInvNext DEF NumberInv, TypeOK
<1>d. \A g : Cardinality(Done(g)) \in Nat
    BY DoneFinite
\* A step that adds no row and ends no call with success.
<1>q. ASSUME NEW s \in Saves, UNCHANGED group,
             \A g : Numbers(g)' \subseteq Numbers(g),
             \A t \in Saves : (pc'[t] = "done") <=> (pc[t] = "done"),
             \A t \in Saves \ {s} : UNCHANGED <<pc[t], value[t], tries[t]>>,
             /\ tries'[s] <= Cardinality(Done(group[s]))
             /\ pc'[s] \in {"stamp", "insert"} /\ value'[s] \in Numbers(group[s])
                  => tries'[s] < Cardinality(Done(group[s]))
             /\ pc'[s] = "failed" => tries'[s] > MaxTries
      PROVE  BurstInv'
    <2>1. \A g : Done(g)' = Done(g)
        BY <1>q DEF Done
    <2>2. ASSUME NEW t \in Saves
          PROVE  /\ Numbers(group[t])' \subseteq Numbers(group[t])
                 /\ Cardinality(Done(group[t]))' = Cardinality(Done(group[t]))
        BY <1>q, <2>1
    <2>3. \A t \in Saves \ {s} :
            /\ tries'[t] = tries[t] /\ pc'[t] = pc[t] /\ value'[t] = value[t]
        BY <1>q
    <2> QED BY <1>q, <2>2, <2>3 DEF BurstInv
<1>1. ASSUME NEW s \in Saves, Exists(s) PROVE BurstInv'
    <2>1. \A g : Numbers(g)' = Numbers(g)
        BY <1>1 DEF Exists, Numbers, Rows
    <2>2. pc'[s] = "stamp" => value'[s] \notin Numbers(group[s])
        BY <1>1, <1>t, ComputedValueIsFree DEF Exists, Goto, TypeOK
    <2>3. /\ UNCHANGED <<group, tries>>
          /\ pc[s] = "exists" /\ pc'[s] \in {"stamp", "max"}
          /\ \A t \in Saves \ {s} : UNCHANGED <<pc[t], value[t]>>
        BY <1>1, <1>t DEF Exists, Goto, TypeOK
    <2> QED BY <1>q, <2>1, <2>2, <2>3 DEF BurstInv
<1>2. ASSUME NEW s \in Saves, Aggregate(s) PROVE BurstInv'
    <2>1. \A g : Numbers(g)' = Numbers(g)
        BY <1>2 DEF Aggregate, Numbers, Rows
    <2>2. pc'[s] = "stamp" => value'[s] \notin Numbers(group[s])
        BY <1>2, <1>t, ComputedValueIsFree DEF Aggregate, Goto, TypeOK
    <2>3. /\ UNCHANGED <<group, tries>>
          /\ pc[s] = "max" /\ pc'[s] \in {"stamp", "error"}
          /\ \A t \in Saves \ {s} : UNCHANGED <<pc[t], value[t]>>
        BY <1>2, <1>t DEF Aggregate, Goto, TypeOK
    <2> QED BY <1>q, <2>1, <2>2, <2>3 DEF BurstInv
<1>3. ASSUME NEW s \in Saves, Stamp(s) PROVE BurstInv'
    <2>1. \A g : Numbers(g)' = Numbers(g)
        BY <1>3 DEF Stamp, StampNow, Numbers, Rows
    <2>2. /\ UNCHANGED <<group, tries, value>>
          /\ pc[s] = "stamp" /\ pc'[s] = "insert"
          /\ \A t \in Saves \ {s} : UNCHANGED pc[t]
        BY <1>3, <1>t DEF Stamp, StampNow, Goto, TypeOK
    <2> QED BY <1>q, <2>1, <2>2 DEF BurstInv
<1>4. ASSUME NEW s \in Saves, Insert(s) PROVE BurstInv'
    <2>1. /\ UNCHANGED <<group, tries, value>>
          /\ pc[s] = "insert" /\ pc'[s] = "done"
          /\ \A t \in Saves \ {s} : UNCHANGED pc[t]
        BY <1>4, <1>t DEF Insert, Goto, TypeOK
    <2>2. s \notin Done(group[s]) /\ Done(group[s])' = Done(group[s]) \cup {s}
        BY <2>1 DEF Done
    <2>3. Cardinality(Done(group[s]))' = Cardinality(Done(group[s])) + 1
        BY <2>2, DoneFinite, FS_AddElement
    <2>4. ASSUME NEW t \in Saves, group[t] # group[s]
          PROVE  Done(group[t])' = Done(group[t]) /\ Numbers(group[t])' = Numbers(group[t])
        <3>1. \A g : g # group[s] => Numbers(g)' = Numbers(g)
            BY <1>4, InsertNumbers
        <3> QED BY <2>1, <2>4, <3>1 DEF Done
    <2>5. ASSUME NEW t \in Saves, group[t] = group[s]
          PROVE  Cardinality(Done(group[t]))' = Cardinality(Done(group[t])) + 1
        BY <2>1, <2>3, <2>5
    <2>6. \A t \in Saves : tries[t] \in Nat
        BY <1>t, TriesAssumption DEF TypeOK
    <2>7. ASSUME NEW t \in Saves
          PROVE  /\ tries'[t] <= Cardinality(Done(group[t]))'
                 /\ pc'[t] \in {"stamp", "insert"} /\ value'[t] \in Numbers(group[t])'
                      => tries'[t] < Cardinality(Done(group[t]))'
                 /\ pc'[t] = "failed" => tries'[t] > MaxTries
        <3>1. CASE group[t] = group[s]
            BY <2>1, <2>5, <2>6, <3>1, <1>d DEF BurstInv
        <3>2. CASE group[t] # group[s]
            BY <2>1, <2>4, <3>2 DEF BurstInv
        <3> QED BY <3>1, <3>2
    <2> QED BY <2>7 DEF BurstInv
<1>5. ASSUME NEW s \in Saves, IntegrityError(s) PROVE BurstInv'
    <2>1. \A g : Numbers(g)' = Numbers(g)
        BY <1>5 DEF IntegrityError, Numbers, Rows
    <2>2. /\ UNCHANGED <<group, value>>
          /\ tries'[s] = tries[s] + 1
          /\ pc[s] = "insert" /\ pc'[s] \in {"exists", "failed"}
          /\ pc'[s] = "failed" => tries'[s] > MaxTries
          /\ \A t \in Saves \ {s} : UNCHANGED <<pc[t], tries[t]>>
        BY <1>5, <1>t, TriesAssumption DEF IntegrityError, Retry, Goto, TypeOK
    <2>3. value[s] \in Numbers(group[s])
        BY <1>5 DEF IntegrityError, Conflict, Taken
    <2>4. tries[s] \in Nat
        BY <1>t, TriesAssumption DEF TypeOK
    <2>5. tries'[s] <= Cardinality(Done(group[s]))
        BY <2>2, <2>3, <2>4, <1>d DEF BurstInv
    <2> QED BY <1>q, <2>1, <2>2, <2>5
<1>6. ASSUME NEW s \in Saves, Delete(s) PROVE BurstInv'
    <2>1. \A g : Numbers(g)' \subseteq Numbers(g)
        BY <1>6, <1>t DEF Delete, Numbers, Rows, TypeOK
    <2>2. UNCHANGED <<group, pc, value, tries>>
        BY <1>6 DEF Delete
    <2> QED BY <1>q, <2>1, <2>2 DEF BurstInv
<1>7. CASE UNCHANGED vars
    BY <1>7 DEF vars, BurstInv, Numbers, Rows, Done
<1> QED BY <1>1, <1>2, <1>3, <1>4, <1>5, <1>6, <1>7 DEF Next, Step

\* A call is turned away only after more than MaxTries other calls put a row in
\* its group: with at most MaxTries + 1 calls on a group no call is lost.
THEOREM NoNeedlessFailure == Spec => []FailureNeedsBurst
<1>1. NumberInv /\ BurstInv => FailureNeedsBurst
    <2> SUFFICES ASSUME NumberInv, BurstInv, NEW s \in Saves, pc[s] = "failed"
                 PROVE  Cardinality(Done(group[s])) > MaxTries
        BY DEF FailureNeedsBurst
    <2> QED BY DoneFinite, TriesAssumption DEF BurstInv, NumberInv, TypeOK
<1>2. Init => NumberInv /\ BurstInv
    BY NumberInvInit, BurstInvInit
<1>3. NumberInv /\ BurstInv /\ [Next]_vars => (NumberInv /\ BurstInv)'
    BY NumberInvNext, BurstInvNext
<1> QED BY <1>1, <1>2, <1>3, PTL DEF Spec

-----------------------------------------------------------------------------
(* Refinement.                                                             *)

\* Each step of the calls is one number handed out, one row removed or nothing.
THEOREM Implements == Spec => ImplementsSequence
<1> USE DEF Sequence!Numbers, Numbers, Rows
<1>1. Init => Sequence!Init
    BY DEF Init, Sequence!Init
<1>2. NumberInv /\ [Next]_vars => [Sequence!Next]_(Sequence!vars)
    <2> SUFFICES ASSUME NumberInv, [Next]_vars PROVE [Sequence!Next]_(Sequence!vars)
        OBVIOUS
    <2> USE DEF NumberInv, TypeOK, Sequence!vars
    <2>1. ASSUME NEW s \in Saves, Exists(s) \/ Aggregate(s) \/ Stamp(s) \/ IntegrityError(s)
          PROVE  UNCHANGED Sequence!vars
        BY <2>1 DEF Exists, Aggregate, Stamp, IntegrityError, Retry, Goto
    <2>2. ASSUME NEW s \in Saves, Insert(s) PROVE Sequence!Take(s)
        BY <2>2 DEF Insert, Goto, Conflict, Taken, NoGapBelowValue, RowsAreDone, Sequence!Take
    <2>3. ASSUME NEW s \in Saves, Delete(s) PROVE Sequence!Remove(s)
        BY <2>3 DEF Delete, Sequence!Remove
    <2>4. CASE UNCHANGED vars
        BY <2>4 DEF vars
    <2> QED BY <2>1, <2>2, <2>3, <2>4 DEF Next, Step, Sequence!Next
<1> QED BY <1>1, <1>2, NumberInvariant, PTL DEF Spec, ImplementsSequence, Sequence!Spec

-----------------------------------------------------------------------------
(* The versions of a file: the inductive invariant.                        *)

\* The uploads that have their version and are not through with it.
Holding == {"list", "unlink", "symlink", "close", "log"}

AtType == at \in [Writers \cup Readers -> WriterSteps \cup {"serve"}]

\* O_EXCL: every version has one creator, and an upload creates one version at most.
OneVersionEach ==
    /\ \A u, v \in known_versions : writer[u] = writer[v] => u = v
    /\ \A w \in Writers :
         /\ at[w] \in {"start", "open", "failed"} => \A v \in Versions : writer[v] # w
         /\ at[w] \in Holding => version[w] \in Versions /\ writer[version[w]] = w

\* The versions below the one an upload tries are all there.
NoGapBelow ==
    \A w \in Writers : at[w] \in {"open", "failed"} =>
        /\ version[w] <= Cardinality(Writers)
        /\ \A u \in 0 .. version[w] - 1 : u \in known_versions

\* What an upload has seen is below every version it has tried.
SeenBelow ==
    \A w \in Writers :
        /\ at[w] = "start" => attempts[w] = 0
        /\ attempts[w] <= version[w]
        /\ \A u \in seen[w] : u + attempts[w] < version[w]

\* The log message comes after the close.
ClosedBeforeLog == \A w \in Writers : at[w] = "log" => version[w] \in complete

\* Without a crash, a missing link is about to be made.
LinkComing ==
    Crashed = {} /\ known_versions # {} /\ link = None =>
        \E w \in Writers : at[w] \in {"list", "unlink", "symlink"}

ServingAfterLog == \A r \in Readers : at[r] = "serve" => logged # {}

\* How far an upload that runs alone has come with the link.
AloneWorks ==
    \A w \in alone :
        /\ Active \subseteq {w}
        /\ at[w] # "start"
        /\ at[w] = "open" => \A u \in known_versions : u < version[w]
        /\ at[w] \in Holding => version[w] \in Latest(known_versions)
        /\ at[w] \in {"unlink", "symlink"} => last[w] = version[w]
        /\ at[w] = "symlink" => link = None
        /\ at[w] \in {"close", "log"} => link = version[w]

FileInv == /\ FileTypeOK /\ AtType /\ OneVersionEach /\ NoGapBelow /\ SeenBelow
           /\ VersionsContiguous /\ ClosedBeforeLog /\ LoggedAreComplete
           /\ LinkComing /\ ServingAfterLog /\ ServedAfterLog /\ AloneWorks

-----------------------------------------------------------------------------
(* Numbers and sets.                                                       *)

LEMMA VersionsType ==
    /\ Cardinality(Writers) \in Nat
    /\ Versions \subseteq Nat
    /\ IsFiniteSet(Versions)
    /\ Cardinality(Versions) = Cardinality(Writers)
<1>1. Cardinality(Writers) \in Nat
    BY WritersAssumption, FS_CardinalityType
<1>2. /\ IsFiniteSet(0 .. Cardinality(Writers) - 1)
      /\ Cardinality(0 .. Cardinality(Writers) - 1) =
           IF 0 > Cardinality(Writers) - 1 THEN 0 ELSE (Cardinality(Writers) - 1) - 0 + 1
    BY <1>1, FS_Interval
<1> QED BY <1>1, <1>2 DEF Versions

\* Without one of the uploads there are too few to create all versions.
LEMMA CreatorTwice ==
    ASSUME NEW w \in Writers, NEW creator \in [Versions -> Writers \ {w}]
    PROVE  \E u, v \in Versions : u # v /\ creator[u] = creator[v]
<1>1. /\ IsFiniteSet(Writers \ {w})
      /\ Cardinality(Writers \ {w}) = Cardinality(Writers) - 1
    BY WritersAssumption, FS_RemoveElement
<1>2. Cardinality(Writers \ {w}) < Cardinality(Versions)
    BY <1>1, VersionsType
<1> QED BY <1>1, <1>2, VersionsType, FS_PigeonHole

\* An upload that looks for a version finds one: the others have at most one each, and
\* so cannot have them all.
LEMMA TriedVersionIsThere ==
    ASSUME FileInv, NEW w \in Writers, at[w] = "open"
    PROVE  version[w] \in Versions
<1> USE VersionsType
<1>1. version[w] \in Nat
    BY DEF FileInv, FileTypeOK, Attempted
<1>2. SUFFICES ASSUME version[w] \notin Versions PROVE FALSE
    OBVIOUS
<1>3. \A v \in Versions : v \in known_versions
    BY <1>1, <1>2 DEF Versions, FileInv, NoGapBelow
<1>4. \A v \in Versions : writer[v] \in Writers \ {w}
    BY <1>3 DEF FileInv, FileTypeOK, OneVersionEach, known_versions
<1>5. [v \in Versions |-> writer[v]] \in [Versions -> Writers \ {w}]
    BY <1>4
<1>6. \E u, v \in Versions : u # v /\ writer[u] = writer[v]
    BY <1>5, CreatorTwice
<1> QED BY <1>3, <1>6 DEF FileInv, OneVersionEach

\* Only opening a version changes which there are.
LEMMA OpenAddsVersion ==
    ASSUME FileTypeOK, NEW w \in Writers, Open(w)
    PROVE  /\ version[w] \in Versions
           /\ known_versions' = known_versions \cup {version[w]}
           /\ version[w] \notin known_versions
           /\ writer' = [writer EXCEPT ![version[w]] = w]
           /\ w # None
BY NoneAssumption DEF Open, MayOpen, known_versions, FileTypeOK

LEMMA SameVersions == writer' = writer => known_versions' = known_versions
BY DEF known_versions

\* The next version is above all there are.
LEMMA NextVersionAbove ==
    ASSUME NEW v \in NextVersion
    PROVE  /\ v \in 0 .. Cardinality(Writers)
           /\ \A u \in known_versions : u < v
           /\ v # 0 => v - 1 \in known_versions
BY VersionsType DEF NextVersion, Latest, known_versions, Versions

-----------------------------------------------------------------------------
(* Initial states.                                                         *)

LEMMA FileInvInit == FileInit => FileInv
<1> SUFFICES ASSUME FileInit PROVE FileInv
    OBVIOUS
<1> USE VersionsType, AttemptsAssumption DEF FileInit
<1>1. known_versions = {}
    BY DEF known_versions
<1>2. \A w \in Writers : at[w] = "start"
    OBVIOUS
<1>3. FileTypeOK
    <2>1. version \in [Writers -> Attempted] /\ attempts \in [Writers -> 0 .. MaxAttempts]
        BY DEF Attempted
    <2>2. \A w \in Writers : Writers # {} /\ 0 \in Versions
        BY WritersAssumption, FS_EmptySet DEF Versions
    <2> QED BY <2>1, <2>2 DEF FileTypeOK, WriterSteps
<1>4. AtType
    BY DEF AtType, WriterSteps
<1>5. OneVersionEach
    BY <1>1, <1>2, NoneAssumption DEF OneVersionEach, Holding
<1> QED BY <1>1, <1>2, <1>3, <1>4, <1>5, WritersAssumption
    DEF FileInv, NoGapBelow, SeenBelow, VersionsContiguous, ClosedBeforeLog,
        LoggedAreComplete, LinkComing, ServingAfterLog, ServedAfterLog, AloneWorks

-----------------------------------------------------------------------------
(* Steps: one lemma for each part of the invariant.                        *)

\* Every variable keeps its type.
LEMMA FileTypeNext == FileInv /\ [FileNext]_fileVars => FileTypeOK'
<1> SUFFICES ASSUME FileInv, [FileNext]_fileVars PROVE FileTypeOK'
    OBVIOUS
<1> USE VersionsType, AttemptsAssumption, WritersAssumption
    DEF FileInv, FileTypeOK, AtType, GoOn, files, Active, Resting, WriterSteps, OneVersionEach,
        Holding
<1>1. ASSUME NEW w \in Writers, Start(w) PROVE FileTypeOK'
    <2>1. \A v \in NextVersion : v \in Attempted
        BY NextVersionAbove DEF Attempted
    <2>2. known_versions \subseteq Versions
        BY DEF known_versions
    <2> QED BY <1>1, <2>1, <2>2, SameVersions DEF Start
<1>2. ASSUME NEW w \in Writers, Open(w) PROVE FileTypeOK'
    <2>1. /\ version[w] \in Versions
          /\ known_versions' = known_versions \cup {version[w]}
        BY <1>2, OpenAddsVersion
    <2> QED BY <1>2, <2>1 DEF Open
<1>3. ASSUME NEW w \in Writers, VersionExists(w) PROVE FileTypeOK'
    <2>1. version[w] \in Versions
        BY <1>3, TriedVersionIsThere DEF VersionExists
    <2>2. version[w] + 1 \in Attempted
        BY <2>1 DEF Versions, Attempted
    <2>3. attempts[w] \in 0 .. MaxAttempts - 1
        BY <1>3 DEF VersionExists
    <2>4. CASE OutOfAttempts(w)
        BY <1>3, <2>2, <2>3, <2>4, SameVersions DEF VersionExists, OutOfAttempts
    <2>5. CASE ~ OutOfAttempts(w)
        BY <1>3, <2>2, <2>3, <2>5, SameVersions DEF VersionExists, OutOfAttempts
    <2> QED BY <2>4, <2>5
<1>4. ASSUME NEW w \in Writers, List(w) PROVE FileTypeOK'
    BY <1>4, SameVersions DEF List, LastVersion, Latest, known_versions
<1>5. ASSUME NEW w \in Writers, Unlink(w) PROVE FileTypeOK'
    BY <1>5, SameVersions DEF Unlink
<1>6. ASSUME NEW w \in Writers, Symlink(w) PROVE FileTypeOK'
    BY <1>6, SameVersions DEF Symlink
<1>7. ASSUME NEW w \in Writers, Close(w) PROVE FileTypeOK'
    <2>1. version[w] \in known_versions
        BY <1>7, NoneAssumption DEF Close, known_versions
    <2> QED BY <1>7, <2>1, SameVersions DEF Close
<1>8. ASSUME NEW w \in Writers, Log(w) PROVE FileTypeOK'
    <2>1. version[w] \in known_versions
        BY <1>8 DEF Log, ClosedBeforeLog
    <2> QED BY <1>8, <2>1, SameVersions DEF Log
<1>9. ASSUME NEW w \in Writers, Crash(w) PROVE FileTypeOK'
    BY <1>9, SameVersions DEF Crash
<1>10. ASSUME NEW r \in Readers, Resolve(r) PROVE FileTypeOK'
    BY <1>10, SameVersions DEF Resolve
<1>11. ASSUME NEW r \in Readers, Serve(r) PROVE FileTypeOK'
    BY <1>11, SameVersions DEF Serve
<1>12. ASSUME NEW r \in Readers, ServeVersion(r) PROVE FileTypeOK'
    <2>1. LoggedVersions \subseteq Versions
        BY DEF LoggedVersions, known_versions
    <2> QED BY <1>12, <2>1, SameVersions DEF ServeVersion
<1>13. CASE UNCHANGED fileVars
    BY <1>13, SameVersions DEF fileVars
<1> QED BY <1>1, <1>2, <1>3, <1>4, <1>5, <1>6, <1>7, <1>8, <1>9, <1>10, <1>11, <1>12, <1>13
   DEF FileNext, Upload, Download

\* Uploads and downloads go from step to step.
LEMMA AtTypeNext == FileInv /\ [FileNext]_fileVars => AtType'
<1> SUFFICES ASSUME FileInv, [FileNext]_fileVars PROVE AtType'
    OBVIOUS
<1> USE DEF FileInv, AtType, GoOn, WriterSteps
<1>1. ASSUME NEW w \in Writers, Start(w) PROVE AtType'
    BY <1>1, SameVersions DEF Start
<1>2. ASSUME NEW w \in Writers, Open(w) PROVE AtType'
    BY <1>2, OpenAddsVersion DEF Open
<1>3. ASSUME NEW w \in Writers, VersionExists(w) PROVE AtType'
    BY <1>3, SameVersions DEF VersionExists
<1>4. ASSUME NEW w \in Writers, List(w) PROVE AtType'
    BY <1>4, SameVersions DEF List
<1>5. ASSUME NEW w \in Writers, Unlink(w) PROVE AtType'
    BY <1>5, SameVersions DEF Unlink
<1>6. ASSUME NEW w \in Writers, Symlink(w) PROVE AtType'
    BY <1>6, SameVersions DEF Symlink
<1>7. ASSUME NEW w \in Writers, Close(w) PROVE AtType'
    BY <1>7, SameVersions DEF Close
<1>8. ASSUME NEW w \in Writers, Log(w) PROVE AtType'
    BY <1>8, SameVersions DEF Log
<1>9. ASSUME NEW w \in Writers, Crash(w) PROVE AtType'
    BY <1>9, SameVersions DEF Crash
<1>10. ASSUME NEW r \in Readers, Resolve(r) PROVE AtType'
    BY <1>10, SameVersions DEF Resolve
<1>11. ASSUME NEW r \in Readers, Serve(r) PROVE AtType'
    BY <1>11, SameVersions DEF Serve
<1>12. ASSUME NEW r \in Readers, ServeVersion(r) PROVE AtType'
    BY <1>12, SameVersions DEF ServeVersion
<1>13. CASE UNCHANGED fileVars
    BY <1>13, SameVersions DEF fileVars
<1> QED BY <1>1, <1>2, <1>3, <1>4, <1>5, <1>6, <1>7, <1>8, <1>9, <1>10, <1>11, <1>12, <1>13
   DEF FileNext, Upload, Download

\* A version has one creator, whatever races for it.
LEMMA OneVersionEachNext == FileInv /\ [FileNext]_fileVars => OneVersionEach'
<1> SUFFICES ASSUME FileInv, [FileNext]_fileVars PROVE OneVersionEach'
    OBVIOUS
<1> USE VersionsType, NoneAssumption, WritersAssumption
    DEF FileInv, FileTypeOK, AtType, GoOn, files, Active, Resting, OneVersionEach, Holding
<1>1. ASSUME NEW w \in Writers, Start(w) PROVE OneVersionEach'
    BY <1>1, SameVersions DEF Start
<1>2. ASSUME NEW w \in Writers, Open(w) PROVE OneVersionEach'
    <2>1. /\ version[w] \in Versions
          /\ known_versions' = known_versions \cup {version[w]}
          /\ writer' = [writer EXCEPT ![version[w]] = w]
        BY <1>2, OpenAddsVersion
    <2>2. \A v \in Versions : writer[v] # w
        BY <1>2 DEF Open
    <2>3. known_versions \subseteq Versions
        BY DEF known_versions
    <2>4. (\A u, v \in known_versions : writer[u] = writer[v] => u = v)'
        BY <2>1, <2>2, <2>3
    <2>5. ASSUME NEW x \in Writers, at'[x] \in {"start", "open", "failed"}
          PROVE  \A v \in Versions : writer'[v] # x
        BY <1>2, <2>1, <2>5 DEF Open
    <2>6. ASSUME NEW x \in Writers, at'[x] \in Holding
          PROVE  version'[x] \in Versions /\ writer'[version'[x]] = x
        <3>1. CASE x = w
            BY <1>2, <2>1, <3>1 DEF Open
        <3>2. CASE x # w
            <4>1. version[x] \in Versions /\ writer[version[x]] = x
                BY <1>2, <2>6, <3>2 DEF Open
            <4>2. writer[version[w]] = None
                BY <1>2 DEF Open, MayOpen
            <4> QED BY <1>2, <2>1, <3>2, <4>1, <4>2, NoneAssumption DEF Open
        <3> QED BY <3>1, <3>2
    <2> QED BY <2>4, <2>5, <2>6
<1>3. ASSUME NEW w \in Writers, VersionExists(w) PROVE OneVersionEach'
    BY <1>3, SameVersions DEF VersionExists
<1>4. ASSUME NEW w \in Writers, List(w) PROVE OneVersionEach'
    BY <1>4, SameVersions DEF List
<1>5. ASSUME NEW w \in Writers, Unlink(w) PROVE OneVersionEach'
    BY <1>5, SameVersions DEF Unlink
<1>6. ASSUME NEW w \in Writers, Symlink(w) PROVE OneVersionEach'
    BY <1>6, SameVersions DEF Symlink
<1>7. ASSUME NEW w \in Writers, Close(w) PROVE OneVersionEach'
    BY <1>7, SameVersions DEF Close
<1>8. ASSUME NEW w \in Writers, Log(w) PROVE OneVersionEach'
    BY <1>8, SameVersions DEF Log
<1>9. ASSUME NEW w \in Writers, Crash(w) PROVE OneVersionEach'
    BY <1>9, SameVersions DEF Crash
<1>10. ASSUME NEW r \in Readers, Resolve(r) PROVE OneVersionEach'
    BY <1>10, SameVersions DEF Resolve
<1>11. ASSUME NEW r \in Readers, Serve(r) PROVE OneVersionEach'
    BY <1>11, SameVersions DEF Serve
<1>12. ASSUME NEW r \in Readers, ServeVersion(r) PROVE OneVersionEach'
    BY <1>12, SameVersions DEF ServeVersion
<1>13. CASE UNCHANGED fileVars
    BY <1>13, SameVersions DEF fileVars
<1> QED BY <1>1, <1>2, <1>3, <1>4, <1>5, <1>6, <1>7, <1>8, <1>9, <1>10, <1>11, <1>12, <1>13
   DEF FileNext, Upload, Download

\* The version an upload tries next has no gap below it, and no other upload makes one.
LEMMA NoGapBelowNext == FileInv /\ [FileNext]_fileVars => NoGapBelow'
<1> SUFFICES ASSUME FileInv, [FileNext]_fileVars PROVE NoGapBelow'
    OBVIOUS
<1> USE VersionsType
    DEF FileInv, FileTypeOK, AtType, GoOn, files, Active, Resting, NoGapBelow
<1>1. ASSUME NEW w \in Writers, Start(w) PROVE NoGapBelow'
    <2>1. \A v \in NextVersion : \A u \in 0 .. v - 1 : u \in known_versions
        BY NextVersionAbove DEF VersionsContiguous
    <2> QED BY <1>1, <2>1, NextVersionAbove, SameVersions DEF Start
<1>2. ASSUME NEW w \in Writers, Open(w) PROVE NoGapBelow'
    BY <1>2, OpenAddsVersion DEF Open
<1>3. ASSUME NEW w \in Writers, VersionExists(w) PROVE NoGapBelow'
    <2>1. version[w] \in known_versions /\ version[w] + 1 <= Cardinality(Writers)
        BY <1>3, TriedVersionIsThere DEF VersionExists, MayOpen, known_versions, Versions
    <2>2. version[w] \in Nat /\ \A u \in 0 .. version[w] - 1 : u \in known_versions
        BY <1>3 DEF VersionExists, Attempted
    <2>3. \A u \in 0 .. (version[w] + 1) - 1 : u \in known_versions
        BY <2>1, <2>2
    <2> QED BY <1>3, <2>1, <2>3, SameVersions DEF VersionExists
<1>4. ASSUME NEW w \in Writers, List(w) PROVE NoGapBelow'
    BY <1>4, SameVersions DEF List
<1>5. ASSUME NEW w \in Writers, Unlink(w) PROVE NoGapBelow'
    BY <1>5, SameVersions DEF Unlink
<1>6. ASSUME NEW w \in Writers, Symlink(w) PROVE NoGapBelow'
    BY <1>6, SameVersions DEF Symlink
<1>7. ASSUME NEW w \in Writers, Close(w) PROVE NoGapBelow'
    BY <1>7, SameVersions DEF Close
<1>8. ASSUME NEW w \in Writers, Log(w) PROVE NoGapBelow'
    BY <1>8, SameVersions DEF Log
<1>9. ASSUME NEW w \in Writers, Crash(w) PROVE NoGapBelow'
    BY <1>9, SameVersions DEF Crash
<1>10. ASSUME NEW r \in Readers, Resolve(r) PROVE NoGapBelow'
    BY <1>10, SameVersions DEF Resolve
<1>11. ASSUME NEW r \in Readers, Serve(r) PROVE NoGapBelow'
    BY <1>11, SameVersions DEF Serve
<1>12. ASSUME NEW r \in Readers, ServeVersion(r) PROVE NoGapBelow'
    BY <1>12, SameVersions DEF ServeVersion
<1>13. CASE UNCHANGED fileVars
    BY <1>13, SameVersions DEF fileVars
<1> QED BY <1>1, <1>2, <1>3, <1>4, <1>5, <1>6, <1>7,
          <1>8, <1>9, <1>10, <1>11, <1>12, <1>13
   DEF FileNext, Upload, Download

\* The versions that are there have no gap.
LEMMA VersionsContiguousNext == FileInv /\ [FileNext]_fileVars => VersionsContiguous'
<1> SUFFICES ASSUME FileInv, [FileNext]_fileVars PROVE VersionsContiguous'
    OBVIOUS
<1> USE DEF FileInv, files, VersionsContiguous
<1>1. ASSUME NEW w \in Writers, Start(w) PROVE VersionsContiguous'
    BY <1>1, SameVersions DEF Start
<1>2. ASSUME NEW w \in Writers, Open(w) PROVE VersionsContiguous'
    <2>1. \A u \in 0 .. version[w] - 1 : u \in known_versions
        BY <1>2 DEF Open, NoGapBelow
    <2>2. version[w] \in Nat
        BY <1>2, OpenAddsVersion, VersionsType
    <2>3. \A u \in 0 .. version[w] : u \in known_versions \cup {version[w]}
        BY <2>1, <2>2
    <2> QED BY <1>2, <2>3, OpenAddsVersion
<1>3. ASSUME NEW w \in Writers, VersionExists(w) PROVE VersionsContiguous'
    BY <1>3, SameVersions DEF VersionExists
<1>4. ASSUME NEW w \in Writers, List(w) PROVE VersionsContiguous'
    BY <1>4, SameVersions DEF List
<1>5. ASSUME NEW w \in Writers, Unlink(w) PROVE VersionsContiguous'
    BY <1>5, SameVersions DEF Unlink
<1>6. ASSUME NEW w \in Writers, Symlink(w) PROVE VersionsContiguous'
    BY <1>6, SameVersions DEF Symlink
<1>7. ASSUME NEW w \in Writers, Close(w) PROVE VersionsContiguous'
    BY <1>7, SameVersions DEF Close
<1>8. ASSUME NEW w \in Writers, Log(w) PROVE VersionsContiguous'
    BY <1>8, SameVersions DEF Log
<1>9. ASSUME NEW w \in Writers, Crash(w) PROVE VersionsContiguous'
    BY <1>9, SameVersions DEF Crash
<1>10. ASSUME NEW r \in Readers, Resolve(r) PROVE VersionsContiguous'
    BY <1>10, SameVersions DEF Resolve
<1>11. ASSUME NEW r \in Readers, Serve(r) PROVE VersionsContiguous'
    BY <1>11, SameVersions DEF Serve
<1>12. ASSUME NEW r \in Readers, ServeVersion(r) PROVE VersionsContiguous'
    BY <1>12, SameVersions DEF ServeVersion
<1>13. CASE UNCHANGED fileVars
    BY <1>13, SameVersions DEF fileVars
<1> QED BY <1>1, <1>2, <1>3, <1>4, <1>5, <1>6, <1>7,
          <1>8, <1>9, <1>10, <1>11, <1>12, <1>13
   DEF FileNext, Upload, Download

\* Every version tried is above the versions seen.
LEMMA SeenBelowNext == FileInv /\ [FileNext]_fileVars => SeenBelow'
<1> SUFFICES ASSUME FileInv, [FileNext]_fileVars PROVE SeenBelow'
    OBVIOUS
<1> USE VersionsType, AttemptsAssumption
    DEF FileInv, FileTypeOK, AtType, GoOn, files, Active, Resting, SeenBelow, Attempted
<1>1. ASSUME NEW w \in Writers, Start(w) PROVE SeenBelow'
    <2>1. \A v \in NextVersion : v \in Nat /\ \A u \in known_versions : u + 0 < v
        BY NextVersionAbove DEF known_versions
    <2> QED BY <1>1, <2>1 DEF Start
<1>2. ASSUME NEW w \in Writers, Open(w) PROVE SeenBelow'
    BY <1>2, OpenAddsVersion DEF Open
<1>3. ASSUME NEW w \in Writers, VersionExists(w) PROVE SeenBelow'
    <2>1. \A u \in seen[w] : u + (attempts[w] + 1) < version[w] + 1
        OBVIOUS
    <2> QED BY <1>3, <2>1, SameVersions DEF VersionExists, OutOfAttempts
<1>4. ASSUME NEW w \in Writers, List(w) PROVE SeenBelow'
    BY <1>4, SameVersions DEF List
<1>5. ASSUME NEW w \in Writers, Unlink(w) PROVE SeenBelow'
    BY <1>5, SameVersions DEF Unlink
<1>6. ASSUME NEW w \in Writers, Symlink(w) PROVE SeenBelow'
    BY <1>6, SameVersions DEF Symlink
<1>7. ASSUME NEW w \in Writers, Close(w) PROVE SeenBelow'
    BY <1>7, SameVersions DEF Close
<1>8. ASSUME NEW w \in Writers, Log(w) PROVE SeenBelow'
    BY <1>8, SameVersions DEF Log
<1>9. ASSUME NEW w \in Writers, Crash(w) PROVE SeenBelow'
    BY <1>9, SameVersions DEF Crash
<1>10. ASSUME NEW r \in Readers, Resolve(r) PROVE SeenBelow'
    BY <1>10, SameVersions DEF Resolve
<1>11. ASSUME NEW r \in Readers, Serve(r) PROVE SeenBelow'
    BY <1>11, SameVersions DEF Serve
<1>12. ASSUME NEW r \in Readers, ServeVersion(r) PROVE SeenBelow'
    BY <1>12, SameVersions DEF ServeVersion
<1>13. CASE UNCHANGED fileVars
    BY <1>13, SameVersions DEF fileVars
<1> QED BY <1>1, <1>2, <1>3, <1>4, <1>5, <1>6, <1>7,
          <1>8, <1>9, <1>10, <1>11, <1>12, <1>13
   DEF FileNext, Upload, Download

\* No upload comes to its log message without the close.
LEMMA ClosedBeforeLogNext == FileInv /\ [FileNext]_fileVars => ClosedBeforeLog'
<1> SUFFICES ASSUME FileInv, [FileNext]_fileVars PROVE ClosedBeforeLog'
    OBVIOUS
<1> USE DEF FileInv, FileTypeOK, AtType, GoOn, files, Active, Resting, ClosedBeforeLog
<1>1. ASSUME NEW w \in Writers, Start(w) PROVE ClosedBeforeLog'
    BY <1>1, SameVersions DEF Start
<1>2. ASSUME NEW w \in Writers, Open(w) PROVE ClosedBeforeLog'
    BY <1>2, OpenAddsVersion DEF Open
<1>3. ASSUME NEW w \in Writers, VersionExists(w) PROVE ClosedBeforeLog'
    BY <1>3, SameVersions DEF VersionExists
<1>4. ASSUME NEW w \in Writers, List(w) PROVE ClosedBeforeLog'
    BY <1>4, SameVersions DEF List
<1>5. ASSUME NEW w \in Writers, Unlink(w) PROVE ClosedBeforeLog'
    BY <1>5, SameVersions DEF Unlink
<1>6. ASSUME NEW w \in Writers, Symlink(w) PROVE ClosedBeforeLog'
    BY <1>6, SameVersions DEF Symlink
<1>7. ASSUME NEW w \in Writers, Close(w) PROVE ClosedBeforeLog'
    BY <1>7, SameVersions DEF Close
<1>8. ASSUME NEW w \in Writers, Log(w) PROVE ClosedBeforeLog'
    BY <1>8, SameVersions DEF Log
<1>9. ASSUME NEW w \in Writers, Crash(w) PROVE ClosedBeforeLog'
    BY <1>9, SameVersions DEF Crash
<1>10. ASSUME NEW r \in Readers, Resolve(r) PROVE ClosedBeforeLog'
    BY <1>10, SameVersions DEF Resolve
<1>11. ASSUME NEW r \in Readers, Serve(r) PROVE ClosedBeforeLog'
    BY <1>11, SameVersions DEF Serve
<1>12. ASSUME NEW r \in Readers, ServeVersion(r) PROVE ClosedBeforeLog'
    BY <1>12, SameVersions DEF ServeVersion
<1>13. CASE UNCHANGED fileVars
    BY <1>13, SameVersions DEF fileVars
<1> QED BY <1>1, <1>2, <1>3, <1>4, <1>5, <1>6, <1>7,
          <1>8, <1>9, <1>10, <1>11, <1>12, <1>13
   DEF FileNext, Upload, Download

\* What is logged has been closed, and stays complete.
LEMMA LoggedAreCompleteNext == FileInv /\ [FileNext]_fileVars => LoggedAreComplete'
<1> SUFFICES ASSUME FileInv, [FileNext]_fileVars PROVE LoggedAreComplete'
    OBVIOUS
<1> USE DEF FileInv, files, ClosedBeforeLog, LoggedAreComplete
<1>1. ASSUME NEW w \in Writers, Start(w) PROVE LoggedAreComplete'
    BY <1>1, SameVersions DEF Start
<1>2. ASSUME NEW w \in Writers, Open(w) PROVE LoggedAreComplete'
    BY <1>2, OpenAddsVersion DEF Open
<1>3. ASSUME NEW w \in Writers, VersionExists(w) PROVE LoggedAreComplete'
    BY <1>3, SameVersions DEF VersionExists
<1>4. ASSUME NEW w \in Writers, List(w) PROVE LoggedAreComplete'
    BY <1>4, SameVersions DEF List
<1>5. ASSUME NEW w \in Writers, Unlink(w) PROVE LoggedAreComplete'
    BY <1>5, SameVersions DEF Unlink
<1>6. ASSUME NEW w \in Writers, Symlink(w) PROVE LoggedAreComplete'
    BY <1>6, SameVersions DEF Symlink
<1>7. ASSUME NEW w \in Writers, Close(w) PROVE LoggedAreComplete'
    BY <1>7, SameVersions DEF Close
<1>8. ASSUME NEW w \in Writers, Log(w) PROVE LoggedAreComplete'
    BY <1>8, SameVersions DEF Log
<1>9. ASSUME NEW w \in Writers, Crash(w) PROVE LoggedAreComplete'
    BY <1>9, SameVersions DEF Crash
<1>10. ASSUME NEW r \in Readers, Resolve(r) PROVE LoggedAreComplete'
    BY <1>10, SameVersions DEF Resolve
<1>11. ASSUME NEW r \in Readers, Serve(r) PROVE LoggedAreComplete'
    BY <1>11, SameVersions DEF Serve
<1>12. ASSUME NEW r \in Readers, ServeVersion(r) PROVE LoggedAreComplete'
    BY <1>12, SameVersions DEF ServeVersion
<1>13. CASE UNCHANGED fileVars
    BY <1>13, SameVersions DEF fileVars
<1> QED BY <1>1, <1>2, <1>3, <1>4, <1>5, <1>6, <1>7,
          <1>8, <1>9, <1>10, <1>11, <1>12, <1>13
   DEF FileNext, Upload, Download

\* Whoever takes the link away is about to put one back.
LEMMA LinkComingNext == FileInv /\ [FileNext]_fileVars => LinkComing'
<1> SUFFICES ASSUME FileInv, [FileNext]_fileVars PROVE LinkComing'
    OBVIOUS
<1> USE VersionsType, NoneAssumption
    DEF FileInv, FileTypeOK, AtType, GoOn, files, Active, Resting, LinkComing, Crashed
<1>1. ASSUME NEW w \in Writers, Start(w) PROVE LinkComing'
    BY <1>1, SameVersions DEF Start
<1>2. ASSUME NEW w \in Writers, Open(w) PROVE LinkComing'
    BY <1>2, OpenAddsVersion DEF Open
<1>3. ASSUME NEW w \in Writers, VersionExists(w) PROVE LinkComing'
    BY <1>3, SameVersions DEF VersionExists
<1>4. ASSUME NEW w \in Writers, List(w) PROVE LinkComing'
    BY <1>4, SameVersions DEF List
<1>5. ASSUME NEW w \in Writers, Unlink(w) PROVE LinkComing'
    BY <1>5, SameVersions DEF Unlink
<1>6. ASSUME NEW w \in Writers, Symlink(w) PROVE LinkComing'
    BY <1>6, SameVersions DEF Symlink
<1>7. ASSUME NEW w \in Writers, Close(w) PROVE LinkComing'
    BY <1>7, SameVersions DEF Close
<1>8. ASSUME NEW w \in Writers, Log(w) PROVE LinkComing'
    BY <1>8, SameVersions DEF Log
<1>9. ASSUME NEW w \in Writers, Crash(w) PROVE LinkComing'
    BY <1>9, SameVersions DEF Crash
<1>10. ASSUME NEW r \in Readers, Resolve(r) PROVE LinkComing'
    BY <1>10, SameVersions DEF Resolve
<1>11. ASSUME NEW r \in Readers, Serve(r) PROVE LinkComing'
    BY <1>11, SameVersions DEF Serve
<1>12. ASSUME NEW r \in Readers, ServeVersion(r) PROVE LinkComing'
    BY <1>12, SameVersions DEF ServeVersion
<1>13. CASE UNCHANGED fileVars
    BY <1>13, SameVersions DEF fileVars
<1> QED BY <1>1, <1>2, <1>3, <1>4, <1>5, <1>6, <1>7,
          <1>8, <1>9, <1>10, <1>11, <1>12, <1>13
   DEF FileNext, Upload, Download

\* A download goes on only with a version that has a log message.
LEMMA ServingAfterLogNext == FileInv /\ [FileNext]_fileVars => (ServingAfterLog /\ ServedAfterLog)'
<1> SUFFICES ASSUME FileInv, [FileNext]_fileVars PROVE (ServingAfterLog /\ ServedAfterLog)'
    OBVIOUS
<1> USE DEF FileInv, FileTypeOK, AtType, GoOn, files, Active, Resting, ServingAfterLog,
            ServedAfterLog
<1>1. ASSUME NEW w \in Writers, Start(w) PROVE (ServingAfterLog /\ ServedAfterLog)'
    BY <1>1, SameVersions DEF Start
<1>2. ASSUME NEW w \in Writers, Open(w) PROVE (ServingAfterLog /\ ServedAfterLog)'
    BY <1>2, OpenAddsVersion DEF Open
<1>3. ASSUME NEW w \in Writers, VersionExists(w) PROVE (ServingAfterLog /\ ServedAfterLog)'
    BY <1>3, SameVersions DEF VersionExists
<1>4. ASSUME NEW w \in Writers, List(w) PROVE (ServingAfterLog /\ ServedAfterLog)'
    BY <1>4, SameVersions DEF List
<1>5. ASSUME NEW w \in Writers, Unlink(w) PROVE (ServingAfterLog /\ ServedAfterLog)'
    BY <1>5, SameVersions DEF Unlink
<1>6. ASSUME NEW w \in Writers, Symlink(w) PROVE (ServingAfterLog /\ ServedAfterLog)'
    BY <1>6, SameVersions DEF Symlink
<1>7. ASSUME NEW w \in Writers, Close(w) PROVE (ServingAfterLog /\ ServedAfterLog)'
    BY <1>7, SameVersions DEF Close
<1>8. ASSUME NEW w \in Writers, Log(w) PROVE (ServingAfterLog /\ ServedAfterLog)'
    BY <1>8, SameVersions DEF Log
<1>9. ASSUME NEW w \in Writers, Crash(w) PROVE (ServingAfterLog /\ ServedAfterLog)'
    BY <1>9, SameVersions DEF Crash
<1>10. ASSUME NEW r \in Readers, Resolve(r) PROVE (ServingAfterLog /\ ServedAfterLog)'
    BY <1>10, SameVersions DEF Resolve
<1>11. ASSUME NEW r \in Readers, Serve(r) PROVE (ServingAfterLog /\ ServedAfterLog)'
    BY <1>11, SameVersions DEF Serve
<1>12. ASSUME NEW r \in Readers, ServeVersion(r) PROVE (ServingAfterLog /\ ServedAfterLog)'
    BY <1>12 DEF ServeVersion, LoggedVersions
<1>13. CASE UNCHANGED fileVars
    BY <1>13, SameVersions DEF fileVars
<1> QED BY <1>1, <1>2, <1>3, <1>4, <1>5, <1>6, <1>7,
          <1>8, <1>9, <1>10, <1>11, <1>12, <1>13
   DEF FileNext, Upload, Download

\* An upload that runs alone takes the link to its own version.
LEMMA AloneWorksNext == FileInv /\ [FileNext]_fileVars => AloneWorks'
<1> SUFFICES ASSUME FileInv, [FileNext]_fileVars PROVE AloneWorks'
    OBVIOUS
<1> USE VersionsType, NoneAssumption, WritersAssumption
    DEF FileInv, FileTypeOK, AtType, GoOn, files, Active, Resting, Holding, AloneWorks, WriterSteps
<1>1. ASSUME NEW w \in Writers, Start(w) PROVE AloneWorks'
    <2>1. CASE Active = {}
        <3>1. Active' \subseteq {w}
            BY <1>1, <2>1 DEF Start
        <3>2. \A v \in NextVersion : \A u \in known_versions : u < v
            BY NextVersionAbove
        <3> QED BY <1>1, <2>1, <3>1, <3>2, SameVersions DEF Start
    <2>2. CASE Active # {}
        <3>1. alone' = {}
            BY <1>1, <2>2 DEF Start
        <3> QED BY <3>1
    <2> QED BY <2>1, <2>2
<1>2. ASSUME NEW w \in Writers, Open(w) PROVE AloneWorks'
    <2>1. \A x \in alone : x = w
        BY <1>2 DEF Open
    <2>2. /\ version[w] \in Versions
          /\ known_versions' = known_versions \cup {version[w]}
          /\ known_versions \subseteq Versions
        BY <1>2, OpenAddsVersion DEF known_versions
    <2>3. w \in alone => version[w] \in Latest(known_versions)'
        <3>1. /\ w \in alone => \A u \in known_versions : u < version[w]
              /\ version[w] \in Nat
              /\ known_versions \subseteq Nat
            BY <1>2, <2>2 DEF Open
        <3>2. w \in alone => \A u \in known_versions \cup {version[w]} : u <= version[w]
            <4> HIDE DEF AloneWorks, FileInv, FileTypeOK, AtType
            <4> QED BY <3>1
        <3>3. Latest(known_versions)' =
                {v \in known_versions \cup {version[w]} :
                   \A u \in known_versions \cup {version[w]} : u <= v}
            BY <2>2 DEF Latest
        <3> QED BY <3>2, <3>3
    <2> QED BY <1>2, <2>1, <2>3 DEF Open
<1>3. ASSUME NEW w \in Writers, VersionExists(w) PROVE AloneWorks'
    <2>1. \A x \in alone : x = w
        BY <1>3 DEF VersionExists
    <2>2. version[w] \in known_versions
        BY <1>3, TriedVersionIsThere DEF VersionExists, MayOpen, known_versions
    <2>3. ~ (version[w] < version[w])
        BY DEF Attempted
    <2>4. w \notin alone
        BY <1>3, <2>2, <2>3 DEF VersionExists
    <2>5. alone' = {}
        BY <1>3, <2>1, <2>4 DEF VersionExists
    <2> QED BY <2>5
<1>4. ASSUME NEW w \in Writers, List(w) PROVE AloneWorks'
    <2>1. \A x \in alone : x = w
        BY <1>4 DEF List
    <2>2. \A u, v \in Latest(known_versions) : u = v
        BY DEF Latest, known_versions
    <2>3. w \in alone => last'[w] = version[w]
        BY <1>4, <2>2 DEF List, LastVersion
    <2> QED BY <1>4, <2>1, <2>3, SameVersions DEF List
<1>5. ASSUME NEW w \in Writers, Unlink(w) PROVE AloneWorks'
    BY <1>5, SameVersions DEF Unlink
<1>6. ASSUME NEW w \in Writers, Symlink(w) PROVE AloneWorks'
    BY <1>6, SameVersions DEF Symlink
<1>7. ASSUME NEW w \in Writers, Close(w) PROVE AloneWorks'
    BY <1>7, SameVersions DEF Close
<1>8. ASSUME NEW w \in Writers, Log(w) PROVE AloneWorks'
    BY <1>8, SameVersions DEF Log
<1>9. ASSUME NEW w \in Writers, Crash(w) PROVE AloneWorks'
    BY <1>9, SameVersions DEF Crash
<1>10. ASSUME NEW r \in Readers, Resolve(r) PROVE AloneWorks'
    BY <1>10, SameVersions DEF Resolve
<1>11. ASSUME NEW r \in Readers, Serve(r) PROVE AloneWorks'
    BY <1>11, SameVersions DEF Serve
<1>12. ASSUME NEW r \in Readers, ServeVersion(r) PROVE AloneWorks'
    BY <1>12, SameVersions DEF ServeVersion
<1>13. CASE UNCHANGED fileVars
    BY <1>13, SameVersions DEF fileVars
<1> QED BY <1>1, <1>2, <1>3, <1>4, <1>5, <1>6, <1>7,
          <1>8, <1>9, <1>10, <1>11, <1>12, <1>13
   DEF FileNext, Upload, Download

-----------------------------------------------------------------------------
(* The theorems about the versions of a file.                              *)

LEMMA FileInvNext == FileInv /\ [FileNext]_fileVars => FileInv'
BY FileTypeNext, AtTypeNext, OneVersionEachNext, NoGapBelowNext, SeenBelowNext,
   VersionsContiguousNext, ClosedBeforeLogNext, LoggedAreCompleteNext, LinkComingNext,
   ServingAfterLogNext, AloneWorksNext
   DEF FileInv

\* All of it holds in every state uploads, downloads and crashes lead to.
THEOREM FilesCorrect == FileSpec => []FileInv
BY FileInvInit, FileInvNext, PTL DEF FileSpec

\* Every variable keeps its type, and an upload has tried MaxAttempts versions exactly
\* when it has failed.
THEOREM FileTypeCorrect == FileSpec => []FileTypeOK
<1>1. FileInv => FileTypeOK
    BY DEF FileInv
<1> QED BY <1>1, FilesCorrect, PTL

\* The versions of a file have no gap, whatever uploads race, fail or crash.
THEOREM FileContiguous == FileSpec => []VersionsContiguous
<1>1. FileInv => VersionsContiguous
    BY DEF FileInv
<1> QED BY <1>1, FilesCorrect, PTL

\* A log message is only about a version that is written to the end.
THEOREM LogsAreTrue == FileSpec => []LoggedAreComplete
<1>1. FileInv => LoggedAreComplete
    BY DEF FileInv
<1> QED BY <1>1, FilesCorrect, PTL

\* The versions an upload that fails has tried are there, and it has seen none of them.
LEMMA FailureSawCrowd == FileInv => FailureNeedsCrowd
<1> SUFFICES ASSUME FileInv, NEW w \in Writers, at[w] = "failed"
             PROVE  Cardinality(known_versions \ seen[w]) >= MaxAttempts
    BY DEF FailureNeedsCrowd
<1> USE VersionsType, AttemptsAssumption
<1> DEFINE tried == version[w] - MaxAttempts .. version[w] - 1
<1>1. /\ version[w] \in Nat
      /\ attempts[w] = MaxAttempts
      /\ MaxAttempts <= version[w]
      /\ \A u \in 0 .. version[w] - 1 : u \in known_versions
      /\ \A u \in seen[w] : u + MaxAttempts < version[w]
      /\ seen[w] \subseteq Nat
    <2>1. /\ version[w] \in Nat
          /\ attempts[w] = MaxAttempts
          /\ seen[w] \subseteq Nat
        <3>1. version[w] \in Nat
            BY DEF FileInv, FileTypeOK, Attempted
        <3>2. attempts[w] = MaxAttempts
            BY DEF FileInv, FileTypeOK
        <3>3. seen[w] \subseteq Versions
            BY DEF FileInv, FileTypeOK
        <3> QED BY <3>1, <3>2, <3>3
    <2>2. \A u \in 0 .. version[w] - 1 : u \in known_versions
        BY DEF FileInv, NoGapBelow
    <2>3. /\ attempts[w] <= version[w]
          /\ \A u \in seen[w] : u + attempts[w] < version[w]
        BY DEF FileInv, SeenBelow
    <2> HIDE DEF tried
    <2> QED BY <2>1, <2>2, <2>3
<1>2. tried \subseteq known_versions \ seen[w]
    BY <1>1
<1>3. Cardinality(tried) = MaxAttempts
    <2>1. Cardinality(tried) =
            IF version[w] - MaxAttempts > version[w] - 1 THEN 0
            ELSE (version[w] - 1) - (version[w] - MaxAttempts) + 1
        <3>1. version[w] - MaxAttempts \in Int /\ version[w] - 1 \in Int
            BY <1>1
        <3> QED BY <3>1, FS_Interval
    <2> HIDE DEF tried
    <2> QED BY <1>1, <2>1
<1>4. IsFiniteSet(known_versions \ seen[w])
    <2>1. known_versions \ seen[w] \in SUBSET Versions
        BY DEF known_versions
    <2> QED BY <2>1, FS_Subset
<1>5. /\ Cardinality(tried) <= Cardinality(known_versions \ seen[w])
      /\ Cardinality(known_versions \ seen[w]) \in Nat
    <2> HIDE DEF tried
    <2> QED BY <1>2, <1>4, FS_Subset, FS_CardinalityType
<1> HIDE DEF tried
<1> QED BY <1>3, <1>5

\* An upload fails only when MaxAttempts others have created a version since it began.
THEOREM NoLonelyFailure == FileSpec => []FailureNeedsCrowd
BY FailureSawCrowd, FilesCorrect, PTL

\* Without a crash the link is never lost for good.
THEOREM LinkSurvives == FileSpec => []LinkIsThere
<1>1. FileInv => LinkIsThere
    BY DEF FileInv, LinkComing, LinkIsThere, Active, Resting
<1> QED BY <1>1, FilesCorrect, PTL

\* Nothing is served of a file before its first log message.
THEOREM NothingServedUnlogged == FileSpec => []ServedAfterLog
<1>1. FileInv => ServedAfterLog
    BY DEF FileInv
<1> QED BY <1>1, FilesCorrect, PTL

\* An upload that runs alone leaves the link on its own version, the latest, whatever
\* others made of the link before.
THEOREM LoneUploadRepairs == FileSpec => UploadRepairsLink
<1>1. FileInv =>
        [\A w \in Writers :
           Log(w) /\ alone = {w} => link = version[w] /\ link \in Latest(known_versions)]_fileVars
    BY DEF FileInv, AloneWorks, Holding, Log
<1> QED BY <1>1, FilesCorrect, PTL DEF UploadRepairsLink

LEMMA NumberOfOwn ==
    /\ NumberOf({}) = 0
    /\ \A v : NumberOf({v}) = 1 + v
    /\ \A S : S # {} => \E v \in S : NumberOf(S) = 1 + v
    BY DEF NumberOf

\* The uploads of a file implement the sequence of numbers: only open takes one, it takes the
\* least version nobody has, and no version changes hands, whatever races, fails or crashes.
THEOREM UploadsTakeVersions == FileSpec => UploadsImplementSequence
<1> USE DEF FileSequence!vars
<1>1. FileInit => FileSequence!Init
    <2> SUFFICES ASSUME FileInit PROVE FileSequence!Init
        OBVIOUS
    <2>1. \A w \in Writers : Own(w) = {}
        BY NoneAssumption DEF FileInit, Own
    <2>2. FileNumbers = [w \in Writers |-> 0] /\ Takers = {}
        BY <2>1, NumberOfOwn DEF FileNumbers, Takers
    <2> QED BY <2>2 DEF FileSequence!Init
<1>2. ASSUME writer' = writer PROVE UNCHANGED FileSequence!vars
    <2>1. \A w : Own(w)' = Own(w)
        BY <1>2 DEF Own
    <2> QED BY <2>1 DEF FileNumbers, Takers
<1>3. ASSUME FileInv, NEW w \in Writers, Open(w) PROVE FileSequence!Take(w)
    <2> DEFINE new == version[w]
               S == FileSequence!Numbers("file")
    <2>1. /\ new \in Versions /\ new \in Nat /\ new \notin known_versions
          /\ writer' = [writer EXCEPT ![new] = w] /\ at[w] = "open"
          /\ writer \in [Versions -> Writers \cup {None}]
        BY <1>3, OpenAddsVersion, VersionsType DEF Open, FileInv, FileTypeOK
    <2>2. Own(w) = {} /\ Own(w)' = {new} /\ writer[new] = None
        <3>1. \A v \in Versions : writer[v] # w
            BY <1>3, <2>1 DEF FileInv, OneVersionEach
        <3> QED BY <2>1, <3>1 DEF Own, known_versions
    <2>3. \A u \in Writers : u # w => Own(u)' = Own(u)
        BY <2>1, <2>2, NoneAssumption DEF Own
    <2>4. FileNumbers' = [FileNumbers EXCEPT ![w] = new + 1] /\ FileNumbers'[w] = new + 1
        <3>1. NumberOf(Own(w)') = new + 1
            BY <2>1, <2>2, NumberOfOwn
        <3>2. FileNumbers'[w] = new + 1
            BY <3>1 DEF FileNumbers
        <3>3. \A u \in Writers : u # w => FileNumbers'[u] = FileNumbers[u]
            BY <2>3 DEF FileNumbers
        <3> QED BY <3>2, <3>3 DEF FileNumbers
    <2>5. Takers' = Takers \cup {w} /\ w \notin Takers
        BY <2>2, <2>3 DEF Takers
    <2>6. S = {v + 1 : v \in known_versions}
        <3>1. \A u \in Writers : Own(u) # {} => \E v \in known_versions : FileNumbers[u] = 1 + v
            <4>1. \A u \in Writers : Own(u) \subseteq known_versions
                BY <2>1, NoneAssumption DEF Own, known_versions
            <4> QED BY <4>1, NumberOfOwn DEF FileNumbers
        <3>2. \A v \in known_versions : writer[v] \in Writers /\ v \in Own(writer[v]) /\ v \in Nat
            BY <2>1, VersionsType DEF Own, known_versions
        <3>3. \A u \in Writers : \A v, x \in Own(u) : v = x
            BY <1>3, <2>1, NoneAssumption DEF FileInv, OneVersionEach, Own, known_versions
        <3>4. ASSUME NEW n \in S PROVE n \in {v + 1 : v \in known_versions}
            <4>1. PICK u \in Writers : n = FileNumbers[u] /\ FileNumbers[u] # 0
                BY <3>4 DEF FileSequence!Numbers
            <4>2. Own(u) # {}
                BY <4>1, NumberOfOwn DEF FileNumbers
            <4> QED BY <3>1, <3>2, <4>1, <4>2
        <3>5. ASSUME NEW v \in known_versions PROVE v + 1 \in S
            <4> DEFINE u == writer[v]
            <4>1. u \in Writers /\ v \in Own(u) /\ v \in Nat
                BY <3>2
            <4>2. Own(u) = {v}
                BY <3>3, <4>1
            <4>3. FileNumbers[u] = v + 1 /\ FileNumbers[u] # 0
                BY <4>1, <4>2, NumberOfOwn DEF FileNumbers
            <4> HIDE DEF u
            <4> QED BY <4>1, <4>3 DEF FileSequence!Numbers
        <3> QED BY <3>4, <3>5
    <2>7. new + 1 \in Nat \ (S \cup {0})
        BY <2>1, <2>6, VersionsType DEF known_versions
    <2>8. \A m \in 1 .. new + 1 - 1 : m \in S
        <3> SUFFICES ASSUME NEW m \in 1 .. new PROVE m \in S
            BY <2>1
        <3>1. m - 1 \in 0 .. new - 1 /\ m = (m - 1) + 1
            BY <2>1
        <3>2. m - 1 \in known_versions
            BY <1>3, <2>1, <3>1 DEF FileInv, NoGapBelow
        <3> QED BY <2>6, <3>1, <3>2
    <2>9. [u \in Writers |-> "file"][w] = "file"
        OBVIOUS
    <2> HIDE DEF S, new
    <2>10. FileNumbers' = [FileNumbers EXCEPT ![w] = FileNumbers'[w]]
        BY <2>4
    <2>11. FileNumbers'[w] \in Nat \ (S \cup {0}) /\ \A m \in 1 .. FileNumbers'[w] - 1 : m \in S
        BY <2>1, <2>4, <2>7, <2>8
    <2> QED BY <2>5, <2>9, <2>10, <2>11 DEF FileSequence!Take, S
<1>4. FileInv /\ [FileNext]_fileVars => [FileSequence!Next]_(FileSequence!vars)
    <2> SUFFICES ASSUME FileInv, [FileNext]_fileVars
                 PROVE  [FileSequence!Next]_(FileSequence!vars)
        OBVIOUS
    <2>1. ASSUME NEW w \in Writers, Upload(w), ~ Open(w) PROVE writer' = writer
        BY <2>1 DEF Upload, Start, VersionExists, List, Unlink, Symlink, Close, Log, files
    <2>2. ASSUME NEW w \in Writers, Crash(w) PROVE writer' = writer
        BY <2>2 DEF Crash, files
    <2>3. ASSUME NEW r \in Readers, Download(r) PROVE writer' = writer
        BY <2>3 DEF Download, Resolve, Serve, ServeVersion, files
    <2>4. CASE UNCHANGED fileVars
        BY <1>2, <2>4 DEF fileVars
    <2>5. ASSUME NEW w \in Writers, Open(w) PROVE FileSequence!Next
        BY <1>3, <2>5 DEF FileSequence!Next
    <2> QED BY <1>2, <2>1, <2>2, <2>3, <2>4, <2>5 DEF FileNext
<1> QED BY <1>1, <1>4, FilesCorrect, PTL DEF FileSpec, UploadsImplementSequence, FileSequence!Spec
=============================================================================
