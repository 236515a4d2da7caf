------------------------- MODULE SupereventIdProofs -------------------------
(***************************************************************************)
(* Proofs about SupereventId, for any number of creations, confirmations   *)
(* and PATCHes, with crashes and without.                                  *)
(***************************************************************************)
EXTENDS SupereventId, FiniteSetTheorems, TLAPS

\* Requests are finitely many and of one kind; a superevent is confirmed by one request; no user
\* supplies a gw_id that is the superevent_id of a superevent; and None is not a GW ID.
Sane ==
    /\ IsFiniteSet(Creators) /\ IsFiniteSet(Updaters)
    /\ Creators \cap Updaters = {} /\ Confirmers \cap Patchers = {}
    /\ \A f, g \in Confirmers : Target[f] = Target[g] => f = g
    /\ \A n \in Nat : SID(n) \notin GivenIds /\ GWID(n) # NoId

-----------------------------------------------------------------------------
(* The inductive invariant.                                                *)

GwIds == GivenIds \cup {GWID(n) : n \in 1 .. Cardinality(Updaters)}
Nums == {row[c].num : c \in Rows}
GwNums == {row[c].gwNum : c \in {d \in Rows : row[d].isGw}} \ {0}

\* The confirmations that have looked for a number.
Numbered == {f \in Confirmers : pc[f] \notin {"start", "number"}}

UpTo(S) == \E n \in Nat : S = 1 .. n

\* One more than a number there is, or the first.
Follows(m, S) == m = 1 \/ m - 1 \in S

\* A superevent that is a GW has a gw_id.
Sound(r) == /\ r.gwId \in GwIds \cup {NoId}
            /\ r.isGw => r.gwId # NoId
            /\ r.gwNum <= Cardinality(Numbered)

\* A creation makes its row with the first save and names it with the second.
CreationInv(c) ==
    /\ pc[c] \in {"start", "number", "insert", "rename", "done", "failed", "crashed"}
    /\ row[c].num # 0 <=> pc[c] \in {"rename", "done", "crashed"}
    /\ row[c].suffix = IF pc[c] = "done" THEN row[c].num ELSE 0
    /\ pc[c] # "done" => had[c] = {} /\ ~ row[c].isGw /\ row[c].gwNum = 0 /\ row[c].gwId = NoId
    /\ pc[c] = "insert" => /\ inst[c] = [NoRow EXCEPT !.num = inst[c].num]
                           /\ Follows(inst[c].num, Nums)
    /\ pc[c] = "rename" => inst[c].num = row[c].num
    /\ pc[c] \in {"start", "number", "insert"} => tries[c] <= MaxTries

\* An update holds the number and the letters of its superevent.
UpdateInv(u) ==
    /\ pc[u] \in {"start", "number", "clean", "update", "done", "refused", "failed"}
    /\ pc[u] # "start" => /\ pc[Target[u]] = "done"
                          /\ inst[u].num = row[Target[u]].num
                          /\ inst[u].suffix = row[Target[u]].suffix
    /\ u \in Patchers /\ pc[u] # "start" => given[u] \in GivenIds
    /\ u \in Confirmers /\ pc[u] \in {"clean", "update"} => inst[u].isGw

\* The columns that are unique.
Unique ==
    \A c, d \in Rows : c # d =>
        /\ row[c].num # row[d].num
        /\ row[c].gwNum # 0 => row[c].gwNum # row[d].gwNum
        /\ row[c].gwId # NoId => row[c].gwId # row[d].gwId

\* A superevent no PATCH has changed.
Unpatched(c) == c \notin {Target[p] : p \in Patched}

UnpatchedInv(c) ==
    Unpatched(c) =>
        /\ had[c] \subseteq {SID(row[c].suffix), SupereventIdOf(row[c])}
        /\ row[c].isGw \/ row[c].gwNum # 0 =>
               \E f \in Confirmers : Target[f] = c /\ pc[f] = "done"
        /\ \A f \in Confirmers : Target[f] = c /\ pc[f] = "number" => inst[f].gwNum = 0

GwInv ==
    Patched = {} =>
        /\ UpTo(GwNums)
        /\ \A f \in Confirmers : pc[f] \in {"clean", "update"} =>
               inst[f].gwNum = 0 \/ Follows(inst[f].gwNum, GwNums)

IdInv ==
    /\ TypeOK
    /\ \A c \in Creators : CreationInv(c) /\ Sound(row[c]) /\ UnpatchedInv(c)
    /\ \A u \in Updaters : UpdateInv(u) /\ Sound(inst[u])
    /\ Unique
    /\ UpTo(Nums)
    /\ GwInv

-----------------------------------------------------------------------------
(* IDs, numbers and rows.                                                  *)

LEMMA IdFacts ==
    /\ \A a, b : SID(a) = SID(b) => a = b
    /\ \A a, b : SID(a) # GWID(b)
<1>1. ASSUME NEW a, NEW b, SID(a) = SID(b) PROVE a = b
    <2>1. <<"S", a>>[2] = <<"S", b>>[2]
        BY <1>1 DEF SID
    <2> QED BY <2>1
<1>2. ASSUME NEW a, NEW b PROVE SID(a) # GWID(b)
    <2>1. <<"S", a>>[1] # <<"GW", b>>[1]
        OBVIOUS
    <2> QED BY <2>1 DEF SID, GWID
<1> QED BY <1>1, <1>2

LEMMA MaximumIs ==
    ASSUME NEW n \in Nat, NEW S \in SUBSET (0 .. n), S # {} => n \in S, S = {} => n = 0
    PROVE  Maximum(S) = n
<1>1. CASE S = {}
    BY <1>1 DEF Maximum
<1>2. CASE S # {}
    <2>1. n \in S /\ \A m \in S : m <= n
        BY <1>2
    <2>2. ASSUME NEW m \in S, \A k \in S : k <= m PROVE m = n
        BY <2>1, <2>2
    <2>3. Maximum(S) = CHOOSE m \in S : \A k \in S : k <= m
        BY <1>2 DEF Maximum
    <2> QED BY <2>1, <2>2, <2>3
<1> QED BY <1>1, <1>2

LEMMA UpToGrows ==
    ASSUME NEW S, UpTo(S), NEW m \in Nat, m # 0, m \notin S, Follows(m, S)
    PROVE  UpTo(S \cup {m})
<1>1. PICK n \in Nat : S = 1 .. n
    BY DEF UpTo
<1>2. m = n + 1
    BY <1>1 DEF Follows
<1>3. S \cup {m} = 1 .. n + 1
    BY <1>1, <1>2
<1> QED BY <1>3 DEF UpTo

LEMMA FollowsStays ==
    ASSUME NEW S, NEW T, S \subseteq T, NEW m, Follows(m, S)
    PROVE  Follows(m, T)
BY DEF Follows

\* The types of the rows and instances, and of the sets.
LEMMA RowTypes ==
    ASSUME NEW r \in RowType
    PROVE  /\ r.num \in Nat /\ r.num <= Cardinality(Creators)
           /\ r.suffix \in Nat /\ r.isGw \in BOOLEAN /\ r.gwNum \in Nat
           /\ r.gwNum <= Cardinality(Updaters) /\ r.gwId \in Ids \cup {NoId}
BY DEF RowType

LEMMA Counts ==
    ASSUME Sane
    PROVE  /\ Cardinality(Creators) \in Nat /\ Cardinality(Updaters) \in Nat
           /\ Cardinality(Numbered) \in Nat /\ Cardinality(Numbered) <= Cardinality(Updaters)
           /\ IsFiniteSet(Numbered) /\ IsFiniteSet(Rows)
<1>1. Numbered \subseteq Updaters /\ Rows \subseteq Creators
    BY DEF Numbered, Updaters, Rows
<1> QED BY <1>1, FS_Subset, FS_CardinalityType DEF Sane

LEMMA NoRowTypes ==
    ASSUME Sane
    PROVE  /\ NoRow \in RowType
           /\ \A n \in 0 .. Cardinality(Creators) : [NoRow EXCEPT !.num = n] \in RowType
<1>1. 0 \in 0 .. Cardinality(Creators) /\ 0 \in 0 .. Cardinality(Updaters)
      /\ NoId \in Ids \cup {NoId}
    BY Counts
<1>2. NoRow \in RowType
    BY <1>1 DEF NoRow, RowType
<1>3. ASSUME NEW n \in 0 .. Cardinality(Creators) PROVE [NoRow EXCEPT !.num = n] \in RowType
    BY <1>2 DEF RowType
<1> QED BY <1>2, <1>3

\* The numbers of the rows that there are go up to the number of the rows.
LEMMA NumsBound ==
    ASSUME Sane, TypeOK, NEW n \in Nat, Nums = 1 .. n
    PROVE  n <= Cardinality(Rows) /\ Maximum(Nums) = n
<1>1. IsFiniteSet(Rows)
    BY Counts
<1> DEFINE f == [c \in Rows |-> row[c].num]
<1>2. f \in Surjection(Rows, Nums)
    <2>1. f \in [Rows -> Nums] /\ \A m \in Nums : \E c \in Rows : f[c] = m
        BY DEF Nums
    <2> QED BY <2>1 DEF Surjection
<1>3. Cardinality(Nums) <= Cardinality(Rows)
    BY <1>1, <1>2, FS_Surjection
<1>4. Cardinality(Nums) = n
    BY FS_Interval
<1>5. Nums \in SUBSET (0 .. n) /\ (Nums # {} => n \in Nums) /\ (Nums = {} => n = 0)
    OBVIOUS
<1> QED BY <1>3, <1>4, <1>5, MaximumIs

LEMMA SoundStays ==
    ASSUME Sane, NEW r \in RowType, Sound(r), Numbered \subseteq Numbered', IsFiniteSet(Numbered')
    PROVE  Sound(r)'
<1>1. Cardinality(Numbered) <= Cardinality(Numbered') /\ Cardinality(Numbered) \in Nat
      /\ Cardinality(Numbered') \in Nat
    BY Counts, FS_Subset, FS_CardinalityType
<1>2. r.gwNum \in Nat
    BY RowTypes
<1> QED BY <1>1, <1>2 DEF Sound, GwIds

LEMMA IdInit == ASSUME Sane, Init PROVE IdInv
<1> USE DEF Init
<1>1. Rows = {} /\ Patched = {} /\ Nums = {} /\ GwNums = {}
    BY DEF Rows, Patched, Nums, GwNums, NoRow, Requests, Updaters
<1>2. TypeOK
    BY NoRowTypes, TriesAssumption DEF TypeOK
<1>3. \A c \in Creators : CreationInv(c)
    BY TriesAssumption DEF CreationInv, NoRow, Requests
<1>4. Sound(NoRow)
    BY Counts DEF Sound, NoRow
<1>5. \A c \in Creators : UnpatchedInv(c)
    BY DEF UnpatchedInv, NoRow, Requests, Updaters
<1>6. \A u \in Updaters : UpdateInv(u)
    BY DEF UpdateInv, Requests, Updaters
<1>7. Unique
    BY <1>1 DEF Unique
<1>8. UpTo({})
    BY DEF UpTo
<1>9. GwInv
    BY <1>1, <1>8 DEF GwInv, Requests, Updaters
<1> QED BY <1>1, <1>2, <1>3, <1>4, <1>5, <1>6, <1>7, <1>8, <1>9 DEF IdInv, Requests

-----------------------------------------------------------------------------
(* Steps that write no row.                                                *)

LEMMA RowsStill ==
    ASSUME row' = row
    PROVE  Rows' = Rows /\ Nums' = Nums /\ GwNums' = GwNums
BY DEF Rows, Nums, GwNums

\* A creation goes on.
LEMMA CreatorMoves ==
    ASSUME Sane, IdInv, NEW c \in Creators, NEW l \in {"number", "insert", "failed", "crashed"},
           pc' = [pc EXCEPT ![c] = l], pc[c] \in {"start", "number", "insert", "rename"},
           UNCHANGED <<row, had, given>>,
           inst' \in [Requests -> RowType], \A q \in Requests : q # c => inst'[q] = inst[q],
           tries' \in [Creators -> 0 .. MaxTries + 1],
           \A d \in Creators : d # c => tries'[d] = tries[d],
           CreationInv(c)'
    PROVE  IdInv'
<1>1. TypeOK /\ c \in Requests /\ c \notin Updaters
    BY DEF IdInv, Requests, Sane
<1>2. pc'[c] = l /\ \A q \in Requests : q # c => pc'[q] = pc[q]
    BY <1>1 DEF TypeOK
<1>3. Rows' = Rows /\ Nums' = Nums /\ GwNums' = GwNums
    BY RowsStill
<1>4. \A u \in Updaters : /\ pc'[u] = pc[u] /\ inst'[u] = inst[u] /\ given'[u] = given[u]
    BY <1>1, <1>2 DEF Requests
<1>5. Confirmers \subseteq Updaters /\ Patchers \subseteq Updaters
    BY DEF Updaters
<1>6. Numbered' = Numbered /\ Patched' = Patched
    BY <1>4, <1>5 DEF Numbered, Patched
<1>7. TypeOK'
    BY <1>1 DEF TypeOK
<1>8. ASSUME NEW d \in Creators, d # c PROVE CreationInv(d)'
    <2>1. pc'[d] = pc[d] /\ inst'[d] = inst[d] /\ tries'[d] = tries[d]
        BY <1>2, <1>8 DEF Requests
    <2>2. CreationInv(d)
        BY DEF IdInv
    <2> QED BY <1>3, <2>1, <2>2 DEF CreationInv
<1>9. ASSUME NEW d \in Creators PROVE Sound(row[d])'
    <2>1. Sound(row[d])
        BY DEF IdInv
    <2> QED BY <1>6, <2>1 DEF Sound, GwIds
<1>10. ASSUME NEW d \in Creators PROVE UnpatchedInv(d)'
    <2>1. UnpatchedInv(d)
        BY DEF IdInv
    <2> QED BY <1>4, <1>5, <1>6, <2>1 DEF UnpatchedInv, Unpatched, SupereventIdOf, DefaultSupereventId
<1>11. ASSUME NEW u \in Updaters PROVE UpdateInv(u)'
    <2>1. UpdateInv(u)
        BY DEF IdInv
    <2>2. Target[u] \in Creators
        BY TargetAssumption
    <2>3. pc[Target[u]] = "done" => pc'[Target[u]] = "done"
        BY <1>2, <2>2 DEF Requests
    <2> QED BY <1>4, <2>1, <2>3 DEF UpdateInv
<1>12. ASSUME NEW u \in Updaters PROVE Sound(inst[u])'
    <2>1. Sound(inst[u])
        BY DEF IdInv
    <2> QED BY <1>4, <1>6, <2>1 DEF Sound, GwIds
<1>13. Unique' /\ UpTo(Nums)'
    BY <1>3 DEF IdInv, Unique, UpTo
<1>14. GwInv'
    <2>1. GwInv
        BY DEF IdInv
    <2> QED BY <1>3, <1>4, <1>5, <1>6, <2>1 DEF GwInv, UpTo
<1> QED BY <1>7, <1>8, <1>9, <1>10, <1>11, <1>12, <1>13, <1>14 DEF IdInv

\* A confirmation or a PATCH goes on.
LEMMA UpdaterMoves ==
    ASSUME Sane, IdInv, NEW u \in Updaters,
           NEW l \in {"number", "clean", "update", "refused", "failed"},
           pc' = [pc EXCEPT ![u] = l], pc[u] # "done", l = "number" => pc[u] = "start",
           UNCHANGED <<row, had, tries>>,
           inst' \in [Requests -> RowType], \A q \in Requests : q # u => inst'[q] = inst[q],
           given' \in [Requests -> GivenIds \cup {NoId, EmptyId}],
           \A q \in Requests : q # u => given'[q] = given[q],
           UpdateInv(u)', Sound(inst[u])',
           u \in Confirmers /\ l = "number" /\ Unpatched(Target[u]) => inst'[u].gwNum = 0,
           u \in Confirmers /\ l \in {"clean", "update"} /\ Patched = {} =>
               inst'[u].gwNum = 0 \/ Follows(inst'[u].gwNum, GwNums)
    PROVE  IdInv'
<1>1. TypeOK /\ u \in Requests /\ u \notin Creators
    BY DEF IdInv, Requests, Sane
<1>2. pc'[u] = l /\ \A q \in Requests : q # u => pc'[q] = pc[q]
    BY <1>1 DEF TypeOK
<1>3. Rows' = Rows /\ Nums' = Nums /\ GwNums' = GwNums
    BY RowsStill
<1>4. \A c \in Creators : pc'[c] = pc[c] /\ inst'[c] = inst[c]
    BY <1>1, <1>2 DEF Requests
<1>5. /\ Confirmers \subseteq Updaters /\ Patchers \subseteq Updaters /\ Updaters \subseteq Requests
    BY DEF Updaters, Requests
<1>6. Patched' = Patched
    BY <1>2, <1>5 DEF Patched
<1>7. Numbered \subseteq Numbered' /\ IsFiniteSet(Numbered')
    <2>1. Numbered \subseteq Numbered'
        BY <1>2, <1>5 DEF Numbered
    <2>2. Numbered' \subseteq Updaters
        BY <1>5 DEF Numbered
    <2> QED BY <2>1, <2>2, FS_Subset DEF Sane
<1>8. TypeOK'
    BY <1>1 DEF TypeOK
<1>9. ASSUME NEW d \in Creators PROVE CreationInv(d)'
    <2>1. CreationInv(d)
        BY DEF IdInv
    <2> QED BY <1>3, <1>4, <2>1 DEF CreationInv
<1>10. ASSUME NEW d \in Creators PROVE Sound(row[d])'
    <2>1. Sound(row[d]) /\ row[d] \in RowType
        BY <1>1 DEF IdInv, TypeOK
    <2>2. Sound(row[d])'
        <3> DEFINE r == row[d]
        <3>1. r' = r
            OBVIOUS
        <3>2. /\ Cardinality(Numbered) <= Cardinality(Numbered') /\ Cardinality(Numbered) \in Nat
              /\ Cardinality(Numbered') \in Nat /\ r.gwNum \in Nat
            BY <1>7, <2>1, Counts, FS_Subset, FS_CardinalityType, RowTypes
        <3> QED BY <2>1, <3>2 DEF Sound, GwIds
    <2> QED BY <2>2
<1>11. ASSUME NEW d \in Creators PROVE UnpatchedInv(d)'
    <2>1. UnpatchedInv(d)
        BY DEF IdInv
    <2>2. \A f \in Confirmers : pc[f] = "done" => pc'[f] = "done"
        BY <1>2, <1>5
    <2>3. ASSUME NEW f \in Confirmers, Target[f] = d, pc'[f] = "number", Unpatched(d)
          PROVE inst'[f].gwNum = 0
        <3>1. CASE f = u
            BY <1>2, <2>3, <3>1
        <3>2. CASE f # u
            BY <1>2, <1>5, <2>1, <2>3, <3>2 DEF UnpatchedInv
        <3> QED BY <3>1, <3>2
    <2> QED BY <1>6, <2>1, <2>2, <2>3
        DEF UnpatchedInv, Unpatched, SupereventIdOf, DefaultSupereventId
<1>12. ASSUME NEW v \in Updaters, v # u PROVE UpdateInv(v)' /\ Sound(inst[v])'
    <2>1. UpdateInv(v) /\ Sound(inst[v])
        BY DEF IdInv
    <2>2. pc'[v] = pc[v] /\ inst'[v] = inst[v] /\ given'[v] = given[v] /\ Target[v] \in Creators
        BY <1>2, <1>5, <1>12, TargetAssumption
    <2>3. /\ Cardinality(Numbered) <= Cardinality(Numbered') /\ Cardinality(Numbered) \in Nat
          /\ Cardinality(Numbered') \in Nat
        BY <1>7, Counts, FS_Subset, FS_CardinalityType
    <2>4. inst[v].gwNum \in Nat
        BY <1>1, <1>5, RowTypes DEF TypeOK
    <2>5. Sound(inst[v])'
        BY <2>1, <2>2, <2>3, <2>4 DEF Sound, GwIds
    <2>6. UpdateInv(v)'
        BY <1>4, <2>1, <2>2 DEF UpdateInv
    <2> QED BY <2>5, <2>6
<1>13. Unique' /\ UpTo(Nums)'
    BY <1>3 DEF IdInv, Unique, UpTo
<1>14. GwInv'
    <2>1. SUFFICES ASSUME Patched = {}
                   PROVE  /\ UpTo(GwNums)
                          /\ \A f \in Confirmers : pc'[f] \in {"clean", "update"} =>
                                 inst'[f].gwNum = 0 \/ Follows(inst'[f].gwNum, GwNums)
        BY <1>3, <1>6 DEF GwInv, UpTo
    <2>2. GwInv
        BY DEF IdInv
    <2>3. ASSUME NEW f \in Confirmers, pc'[f] \in {"clean", "update"}
          PROVE  inst'[f].gwNum = 0 \/ Follows(inst'[f].gwNum, GwNums)
        <3>1. CASE f = u
            BY <1>2, <2>1, <2>3, <3>1
        <3>2. CASE f # u
            BY <1>2, <1>5, <2>1, <2>2, <2>3, <3>2 DEF GwInv
        <3> QED BY <3>1, <3>2
    <2> QED BY <2>1, <2>2, <2>3 DEF GwInv
<1> QED BY <1>8, <1>9, <1>10, <1>11, <1>12, <1>13, <1>14 DEF IdInv

-----------------------------------------------------------------------------
(* The steps of a creation.                                                *)

LEMMA CreateCleanStep ==
    ASSUME Sane, IdInv, NEW c \in Creators, CreateClean(c)
    PROVE  IdInv'
<1>1. TypeOK /\ CreationInv(c) /\ c \in Requests
    BY DEF IdInv, Requests
<1>2. PICK l \in {"number", "failed"} : pc' = [pc EXCEPT ![c] = l]
    BY DEF CreateClean, Goto
<1>3. pc[c] = "start" /\ UNCHANGED <<row, inst, given, tries, had>>
    BY DEF CreateClean
<1>4. pc'[c] = l
    BY <1>1, <1>2 DEF TypeOK
<1>5. CreationInv(c)'
    BY <1>1, <1>3, <1>4 DEF CreationInv
<1> QED BY <1>1, <1>2, <1>3, <1>5, CreatorMoves DEF TypeOK

LEMMA CreateNumberStep ==
    ASSUME Sane, IdInv, NEW c \in Creators, CreateNumber(c)
    PROVE  IdInv'
<1>1. TypeOK /\ CreationInv(c) /\ c \in Requests
    BY DEF IdInv, Requests
<1>2. pc[c] = "number" /\ pc' = [pc EXCEPT ![c] = "insert"] /\ pc'[c] = "insert"
      /\ UNCHANGED <<row, given, tries, had>>
    BY <1>1 DEF CreateNumber, Goto, TypeOK
<1>3. PICK n \in Nat : Nums = 1 .. n
    BY DEF IdInv, UpTo
<1>4. n <= Cardinality(Rows) /\ Maximum(Nums) = n
    BY <1>1, <1>3, NumsBound
<1>5. n + 1 \in 0 .. Cardinality(Creators)
    <2>1. c \notin Rows
        BY <1>1, <1>2 DEF CreationInv, Rows
    <2>2. Rows \subseteq Creators /\ IsFiniteSet(Creators)
        BY DEF Rows, Sane
    <2>3. Rows # Creators
        BY <2>1
    <2>4. /\ Cardinality(Rows) <= Cardinality(Creators)
          /\ Cardinality(Rows) = Cardinality(Creators) => Rows = Creators
        BY <2>2, FS_Subset
    <2>5. /\ Cardinality(Rows) \in Nat /\ Cardinality(Creators) \in Nat
        BY <2>2, FS_Subset, FS_CardinalityType
    <2> QED BY <1>4, <2>3, <2>4, <2>5
<1> DEFINE r == [NoRow EXCEPT !.num = n + 1]
<1>6. inst' = [inst EXCEPT ![c] = r]
    <2>1. inst' = [inst EXCEPT ![c] = [NoRow EXCEPT !.num = 1 + Maximum(Nums)]]
        BY DEF CreateNumber, Hold, Nums
    <2>2. 1 + Maximum(Nums) = n + 1
        BY <1>4
    <2> QED BY <2>1, <2>2
<1>7. r \in RowType /\ r.num = n + 1
    BY <1>5, NoRowTypes DEF NoRow
<1>8. inst' \in [Requests -> RowType] /\ inst'[c] = r
      /\ \A q \in Requests : q # c => inst'[q] = inst[q]
    BY <1>1, <1>6, <1>7 DEF TypeOK
<1>9. Nums' = Nums /\ Follows(n + 1, Nums)
    BY <1>2, <1>3, RowsStill DEF Follows
<1>10. inst'[c] = [NoRow EXCEPT !.num = inst'[c].num]
    BY <1>7, <1>8
<1>11. CreationInv(c)'
    BY <1>1, <1>2, <1>7, <1>8, <1>9, <1>10 DEF CreationInv, Follows
<1> QED BY <1>1, <1>2, <1>8, <1>11, CreatorMoves DEF TypeOK

LEMMA CrashStep ==
    ASSUME Sane, IdInv, NEW c \in Creators, Crash(c)
    PROVE  IdInv'
<1>1. TypeOK /\ CreationInv(c) /\ c \in Requests
    BY DEF IdInv, Requests
<1>2. pc[c] = "rename" /\ pc' = [pc EXCEPT ![c] = "crashed"] /\ pc'[c] = "crashed"
      /\ UNCHANGED <<row, inst, given, tries, had>>
    BY <1>1 DEF Crash, Goto, TypeOK
<1>3. CreationInv(c)'
    BY <1>1, <1>2 DEF CreationInv
<1> QED BY <1>1, <1>2, <1>3, CreatorMoves DEF TypeOK

\* The INSERT fails.
LEMMA RetryStep ==
    ASSUME Sane, IdInv, NEW c \in Creators, CreateInsert(c), Clash(c, inst[c])
    PROVE  IdInv'
<1>1. TypeOK /\ CreationInv(c) /\ c \in Requests
    BY DEF IdInv, Requests
<1>2. pc[c] = "insert" /\ UNCHANGED <<row, had, inst, given>> /\ Retry(c)
    BY DEF CreateInsert
<1>3. tries[c] \in Nat /\ tries[c] <= MaxTries /\ MaxTries \in Nat
    BY <1>1, <1>2, TriesAssumption DEF CreationInv, TypeOK
<1>4. /\ tries' \in [Creators -> 0 .. MaxTries + 1] /\ tries'[c] = tries[c] + 1
      /\ \A d \in Creators : d # c => tries'[d] = tries[d]
    <2>1. tries' = [tries EXCEPT ![c] = tries[c] + 1] /\ tries \in [Creators -> 0 .. MaxTries + 1]
        BY <1>1, <1>2 DEF Retry, TypeOK
    <2>2. tries[c] + 1 \in 0 .. MaxTries + 1
        BY <1>3
    <2> QED BY <2>1, <2>2
<1>5. PICK l \in {"number", "failed"} :
          pc' = [pc EXCEPT ![c] = l] /\ (l = "number" => ~ tries'[c] > MaxTries)
    BY <1>2 DEF Retry, Goto
<1>6. pc'[c] = l
    BY <1>1, <1>5 DEF TypeOK
<1>7. CreationInv(c)'
    BY <1>1, <1>2, <1>3, <1>4, <1>5, <1>6 DEF CreationInv
<1> QED BY <1>1, <1>2, <1>4, <1>5, <1>7, CreatorMoves DEF TypeOK

\* The INSERT makes the row.
LEMMA InsertStep ==
    ASSUME Sane, IdInv, NEW c \in Creators, CreateInsert(c), ~ Clash(c, inst[c])
    PROVE  IdInv'
<1> DEFINE n == inst[c].num
<1>1. TypeOK /\ CreationInv(c) /\ c \in Requests /\ c \notin Updaters
    BY DEF IdInv, Requests, Sane
<1>2. /\ pc[c] = "insert" /\ pc' = [pc EXCEPT ![c] = "rename"] /\ row' = [row EXCEPT ![c] = inst[c]]
      /\ UNCHANGED <<had, inst, given, tries>>
    BY DEF CreateInsert, Goto
<1>3. /\ pc'[c] = "rename" /\ \A q \in Requests : q # c => pc'[q] = pc[q]
      /\ row'[c] = inst[c] /\ \A d \in Creators : d # c => row'[d] = row[d]
    BY <1>1, <1>2 DEF TypeOK
<1>4. /\ inst[c] = [NoRow EXCEPT !.num = n] /\ Follows(n, Nums) /\ n \in Nat
      /\ inst[c].suffix = 0 /\ inst[c].isGw = FALSE /\ inst[c].gwNum = 0 /\ inst[c].gwId = NoId
    <2>1. inst[c] = [NoRow EXCEPT !.num = n] /\ Follows(n, Nums)
        BY <1>1, <1>2 DEF CreationInv
    <2>2. inst[c] \in RowType
        BY <1>1 DEF TypeOK
    <2> QED BY <2>1, <2>2, RowTypes DEF NoRow
<1>5. c \notin Rows /\ row[c].num = 0
    BY <1>1, <1>2 DEF CreationInv, Rows
<1>6. n # 0 /\ n \notin Nums
    <2>1. \A m \in Nums : m \in Nat /\ m # 0
        BY <1>1, RowTypes DEF TypeOK, Nums, Rows
    <2>2. n # 0
        BY <1>4, <2>1 DEF Follows
    <2>3. ~ \E d \in Rows \ {c} : n = row[d].num
        BY DEF Clash
    <2> QED BY <1>5, <2>2, <2>3 DEF Nums
<1>7. Rows' = Rows \cup {c}
    BY <1>3, <1>6 DEF Rows
<1>8. Nums' = Nums \cup {n}
    <2>1. \A d \in Rows : row'[d] = row[d]
        BY <1>3, <1>5 DEF Rows
    <2> QED BY <1>3, <1>7, <2>1 DEF Nums
<1>9. GwNums' = GwNums
    <2>1. \A d \in Rows : row'[d] = row[d]
        BY <1>3, <1>5 DEF Rows
    <2>2. {d \in Rows' : row'[d].isGw} = {d \in Rows : row[d].isGw}
        BY <1>3, <1>4, <1>7, <2>1
    <2> QED BY <2>1, <2>2 DEF GwNums
<1>10. Confirmers \subseteq Updaters /\ Patchers \subseteq Updaters /\ Updaters \subseteq Requests
    BY DEF Updaters, Requests
<1>11. \A u \in Updaters : u \in Requests /\ u # c /\ pc'[u] = pc[u]
    BY <1>1, <1>3, <1>10
<1>12. Numbered' = Numbered /\ Patched' = Patched
    BY <1>10, <1>11 DEF Numbered, Patched
<1>13. TypeOK'
    BY <1>1, <1>2 DEF TypeOK
<1>14. ASSUME NEW d \in Creators PROVE CreationInv(d)'
    <2>1. CASE d = c
        BY <1>1, <1>2, <1>3, <1>4, <1>6, <2>1 DEF CreationInv
    <2>2. CASE d # c
        <3>1. CreationInv(d) /\ pc'[d] = pc[d] /\ row'[d] = row[d]
            BY <1>3, <2>2 DEF IdInv, Requests
        <3>2. Follows(inst[d].num, Nums) => Follows(inst[d].num, Nums')
            BY <1>8, FollowsStays
        <3> QED BY <1>2, <3>1, <3>2 DEF CreationInv
    <2> QED BY <2>1, <2>2
<1>15. ASSUME NEW d \in Creators PROVE Sound(row[d])'
    <2>1. CASE d = c
        <3>1. 0 <= Cardinality(Numbered)
            BY Counts
        <3> QED BY <1>3, <1>4, <1>12, <2>1, <3>1 DEF Sound
    <2>2. CASE d # c
        <3>1. Sound(row[d])
            BY DEF IdInv
        <3> QED BY <1>3, <1>12, <2>2, <3>1 DEF Sound, GwIds
    <2> QED BY <2>1, <2>2
<1>16. ASSUME NEW u \in Updaters PROVE UpdateInv(u)'
    <2>1. UpdateInv(u) /\ Target[u] \in Creators
        BY TargetAssumption DEF IdInv
    <2>2. pc[u] # "start" => Target[u] # c
        BY <1>2, <2>1 DEF UpdateInv
    <2>3. pc[u] # "start" => row'[Target[u]] = row[Target[u]] /\ pc'[Target[u]] = pc[Target[u]]
        BY <1>3, <2>1, <2>2 DEF Requests
    <2> QED BY <1>2, <1>11, <2>1, <2>3 DEF UpdateInv
<1>17. ASSUME NEW u \in Updaters PROVE Sound(inst[u])'
    <2>1. Sound(inst[u])
        BY DEF IdInv
    <2> QED BY <1>2, <1>12, <2>1 DEF Sound, GwIds
<1>18. ASSUME NEW d \in Creators PROVE UnpatchedInv(d)'
    <2>1. UnpatchedInv(d)
        BY DEF IdInv
    <2>2. CASE d = c
        <3>1. had'[c] = {} /\ row'[c].isGw = FALSE /\ row'[c].gwNum = 0
            BY <1>1, <1>2, <1>3, <1>4 DEF CreationInv
        <3>2. ASSUME NEW f \in Confirmers PROVE ~ (Target[f] = c /\ pc'[f] = "number")
            <4>1. UpdateInv(f)
                BY <1>10 DEF IdInv
            <4> QED BY <1>2, <1>10, <1>11, <4>1 DEF UpdateInv
        <3> QED BY <2>2, <3>1, <3>2 DEF UnpatchedInv
    <2>3. CASE d # c
        BY <1>2, <1>3, <1>10, <1>11, <1>12, <2>1, <2>3
            DEF UnpatchedInv, Unpatched, SupereventIdOf, DefaultSupereventId
    <2> QED BY <2>2, <2>3
<1>19. Unique'
    <2>1. \A d \in Rows : row[d].num \in Nums /\ row'[d] = row[d]
        BY <1>3, <1>5 DEF Nums, Rows
    <2> QED BY <1>3, <1>4, <1>6, <1>7, <2>1 DEF IdInv, Unique
<1>20. UpTo(Nums)'
    <2>1. UpTo(Nums)
        BY DEF IdInv
    <2>2. UpTo(Nums \cup {n})
        BY <1>4, <1>6, <2>1, UpToGrows
    <2> QED BY <1>8, <2>2 DEF UpTo
<1>21. GwInv'
    <2>1. GwInv
        BY DEF IdInv
    <2> QED BY <1>2, <1>9, <1>10, <1>11, <1>12, <2>1 DEF GwInv, UpTo
<1> QED BY <1>13, <1>14, <1>15, <1>16, <1>17, <1>18, <1>19, <1>20, <1>21 DEF IdInv

\* The second save gives the row its letters.
LEMMA CreateRenameStep ==
    ASSUME Sane, IdInv, NEW c \in Creators, CreateRename(c)
    PROVE  IdInv'
<1> DEFINE r == [row[c] EXCEPT !.suffix = inst[c].num]
<1>1. TypeOK /\ CreationInv(c) /\ c \in Requests /\ c \notin Updaters
    BY DEF IdInv, Requests, Sane
<1>2. /\ pc[c] = "rename" /\ pc' = [pc EXCEPT ![c] = "done"] /\ row' = [row EXCEPT ![c] = r]
      /\ had' = [had EXCEPT ![c] = had[c] \cup {SupereventIdOf(r)}]
      /\ UNCHANGED <<inst, given, tries>>
    BY <1>1 DEF CreateRename, Goto, Named, Write, TypeOK
<1>3. /\ pc'[c] = "done" /\ \A q \in Requests : q # c => pc'[q] = pc[q]
      /\ row'[c] = r /\ \A d \in Creators : d # c => row'[d] = row[d]
      /\ had'[c] = had[c] \cup {SupereventIdOf(r)} /\ \A d \in Creators : d # c => had'[d] = had[d]
    BY <1>1, <1>2 DEF TypeOK
<1>4. row[c] \in RowType /\ inst[c] \in RowType /\ inst[c].num = row[c].num /\ row[c].num # 0
      /\ had[c] = {} /\ row[c].isGw = FALSE /\ row[c].gwNum = 0 /\ row[c].gwId = NoId
    BY <1>1, <1>2 DEF TypeOK, CreationInv, RowType
<1>5. /\ r \in RowType /\ r.num = row[c].num /\ r.suffix = row[c].num
      /\ r.isGw = FALSE /\ r.gwNum = 0 /\ r.gwId = NoId
    BY <1>4 DEF RowType
<1>6. had'[c] = {SID(row[c].num)} /\ SID(row[c].num) \in Ids
    <2>1. SupereventIdOf(r) = SID(row[c].num)
        BY <1>5 DEF SupereventIdOf, DefaultSupereventId
    <2>2. row[c].num \in 0 .. Cardinality(Creators)
        BY <1>4 DEF RowType
    <2> QED BY <1>3, <1>4, <2>1, <2>2 DEF Ids
<1> HIDE DEF r
<1>7. /\ \A d \in Creators : row'[d].num = row[d].num /\ row'[d].isGw = row[d].isGw
                             /\ row'[d].gwNum = row[d].gwNum /\ row'[d].gwId = row[d].gwId
    BY <1>3, <1>4, <1>5
<1>8. Rows' = Rows /\ Nums' = Nums /\ GwNums' = GwNums
    <2>1. Rows' = Rows /\ Rows \subseteq Creators
        BY <1>7 DEF Rows
    <2>2. Nums' = Nums
        BY <1>7, <2>1 DEF Nums
    <2>3. {d \in Rows' : row'[d].isGw} = {d \in Rows : row[d].isGw}
        BY <1>7, <2>1
    <2>4. GwNums' = GwNums
        BY <1>7, <2>1, <2>3 DEF GwNums
    <2> QED BY <2>1, <2>2, <2>4
<1>9. Confirmers \subseteq Updaters /\ Patchers \subseteq Updaters /\ Updaters \subseteq Requests
    BY DEF Updaters, Requests
<1>10. \A u \in Updaters : u \in Requests /\ u # c /\ pc'[u] = pc[u]
    BY <1>1, <1>3, <1>9
<1>11. Numbered' = Numbered /\ Patched' = Patched
    BY <1>9, <1>10 DEF Numbered, Patched
<1>12. TypeOK'
    <2>1. row' \in [Creators -> RowType]
        BY <1>1, <1>2, <1>5 DEF TypeOK
    <2>2. had' \in [Creators -> SUBSET Ids]
        <3>1. \A d \in Creators : had'[d] \in SUBSET Ids
            BY <1>1, <1>3, <1>6 DEF TypeOK
        <3>2. had' = [d \in Creators |-> had'[d]]
            BY <1>1, <1>2 DEF TypeOK
        <3> QED BY <3>1, <3>2
    <2> QED BY <1>1, <1>2, <2>1, <2>2 DEF TypeOK
<1>13. ASSUME NEW d \in Creators PROVE CreationInv(d)'
    <2>1. CASE d = c
        BY <1>3, <1>4, <1>5, <2>1 DEF CreationInv
    <2>2. CASE d # c
        <3>1. CreationInv(d) /\ pc'[d] = pc[d] /\ row'[d] = row[d] /\ had'[d] = had[d]
            BY <1>3, <2>2 DEF IdInv, Requests
        <3> QED BY <1>2, <1>8, <3>1 DEF CreationInv
    <2> QED BY <2>1, <2>2
<1>14. ASSUME NEW d \in Creators PROVE Sound(row[d])'
    <2>1. Sound(row[d])
        BY DEF IdInv
    <2> QED BY <1>7, <1>11, <2>1 DEF Sound, GwIds
<1>15. ASSUME NEW u \in Updaters PROVE UpdateInv(u)'
    <2>1. UpdateInv(u) /\ Target[u] \in Creators
        BY TargetAssumption DEF IdInv
    <2>2. pc[u] # "start" => Target[u] # c
        BY <1>2, <2>1 DEF UpdateInv
    <2>3. pc[u] # "start" => row'[Target[u]] = row[Target[u]] /\ pc'[Target[u]] = pc[Target[u]]
        BY <1>3, <2>1, <2>2 DEF Requests
    <2> QED BY <1>2, <1>10, <2>1, <2>3 DEF UpdateInv
<1>16. ASSUME NEW u \in Updaters PROVE Sound(inst[u])'
    <2>1. Sound(inst[u])
        BY DEF IdInv
    <2> QED BY <1>2, <1>11, <2>1 DEF Sound, GwIds
<1>17. ASSUME NEW d \in Creators PROVE UnpatchedInv(d)'
    <2>1. UnpatchedInv(d)
        BY DEF IdInv
    <2>2. CASE d = c
        <3>1. had'[c] \subseteq {SID(row'[c].suffix), SupereventIdOf(row'[c])}
            BY <1>3, <1>5, <1>6
        <3>2. row'[c].isGw = FALSE /\ row'[c].gwNum = 0
            BY <1>3, <1>5
        <3>3. ASSUME NEW f \in Confirmers PROVE ~ (Target[f] = c /\ pc'[f] = "number")
            <4>1. UpdateInv(f)
                BY <1>9 DEF IdInv
            <4> QED BY <1>2, <1>9, <1>10, <4>1 DEF UpdateInv
        <3> QED BY <2>2, <3>1, <3>2, <3>3
            DEF UnpatchedInv, SupereventIdOf, DefaultSupereventId
    <2>3. CASE d # c
        BY <1>2, <1>3, <1>9, <1>10, <1>11, <2>1, <2>3
            DEF UnpatchedInv, Unpatched, SupereventIdOf, DefaultSupereventId
    <2> QED BY <2>2, <2>3
<1>18. Unique'
    <2>1. Rows \subseteq Creators
        BY DEF Rows
    <2> QED BY <1>7, <1>8, <2>1 DEF IdInv, Unique
<1>19. UpTo(Nums)'
    BY <1>8 DEF IdInv, UpTo
<1>20. GwInv'
    <2>1. GwInv
        BY DEF IdInv
    <2> QED BY <1>2, <1>8, <1>9, <1>10, <1>11, <2>1 DEF GwInv, UpTo
<1> QED BY <1>12, <1>13, <1>14, <1>15, <1>16, <1>17, <1>18, <1>19, <1>20 DEF IdInv

-----------------------------------------------------------------------------
(* The steps of a confirmation and of a PATCH.                             *)

\* Numbers that are not above n have a greatest one.
LEMMA MaximumBound ==
    ASSUME NEW n \in Nat, NEW S \in SUBSET (0 .. n)
    PROVE  Maximum(S) \in S \/ (S = {} /\ Maximum(S) = 0)
<1>1. CASE S = {}
    BY <1>1 DEF Maximum
<1>2. CASE S # {}
    <2> DEFINE D == {k \in 1 .. n + 1 : \E m \in S : k <= m + 1}
               d == Cardinality(D)
    <2>1. IsFiniteSet(1 .. n + 1) /\ D \subseteq 1 .. n + 1
        BY FS_Interval
    <2>2. IsFiniteSet(D) /\ d \in Nat
        BY <2>1, FS_Subset, FS_CardinalityType
    <2>3. ASSUME NEW k \in D PROVE k \in 1 .. d
        <3>1. 1 .. k \subseteq D
            BY <2>1
        <3>2. Cardinality(1 .. k) <= d
            BY <2>2, <3>1, FS_Subset
        <3>3. Cardinality(1 .. k) = k /\ k \in Nat /\ 1 <= k
            BY <2>1, FS_Interval
        <3> QED BY <2>2, <3>2, <3>3
    <2>4. IsFiniteSet(1 .. d) /\ Cardinality(1 .. d) = d
        BY <2>2, FS_Interval
    <2>5. D = 1 .. d
        BY <2>3, <2>4, FS_Subset
    <2> HIDE DEF d
    <2>6. \A m \in S : m + 1 \in 1 .. d
        <3>1. \A m \in S : m + 1 \in D
            OBVIOUS
        <3> QED BY <2>5, <3>1
    <2>7. d \in D
        <3>1. PICK m \in S : m + 1 \in 1 .. d
            BY <1>2, <2>6
        <3>2. d \in 1 .. d
            BY <2>2, <3>1
        <3> QED BY <2>5, <3>2
    <2>8. PICK m \in S : d <= m + 1
        BY <2>7
    <2>9. \A k \in S : k <= m
        BY <2>2, <2>6, <2>8
    <2> QED BY <1>2, <2>8, <2>9 DEF Maximum
<1> QED BY <1>1, <1>2

LEMMA LoadStep ==
    ASSUME Sane, IdInv, NEW u \in Updaters, Load(u)
    PROVE  IdInv'
<1> DEFINE t == Target[u]
<1>1. /\ TypeOK /\ u \in Requests /\ t \in Creators /\ CreationInv(t) /\ Sound(row[t])
      /\ UnpatchedInv(t) /\ row[t] \in RowType /\ u \notin Creators /\ t \in Requests
    BY TargetAssumption DEF IdInv, Requests, TypeOK, Sane
<1>2. PICK l \in {"number", "refused"} :
          /\ pc' = [pc EXCEPT ![u] = l]
          /\ l = "number" /\ u \in Confirmers => ~ row[t].isGw
    BY DEF Load, Goto, MayConfirm
<1>3. pc[u] = "start" /\ row[t].suffix # 0 /\ UNCHANGED <<row, tries, had>>
      /\ inst' = [inst EXCEPT ![u] = row[t]]
    BY DEF Load, Hold
<1>4. PICK id \in GivenIds \cup {NoId, EmptyId} :
          (u \in Patchers => id \in GivenIds) /\ given' = [given EXCEPT ![u] = id]
    BY DEF Load
<1>5. pc[t] = "done"
    BY <1>1, <1>3 DEF CreationInv
<1>6. /\ pc'[u] = l /\ pc'[t] = "done" /\ inst'[u] = row[t] /\ given'[u] = id
      /\ \A q \in Requests : q # u => inst'[q] = inst[q]
      /\ \A q \in Requests : q # u => given'[q] = given[q]
      /\ inst' \in [Requests -> RowType]
      /\ given' \in [Requests -> GivenIds \cup {NoId, EmptyId}]
    BY <1>1, <1>2, <1>3, <1>4, <1>5 DEF TypeOK
<1>7. UpdateInv(u)'
    BY <1>2, <1>3, <1>4, <1>6 DEF UpdateInv
<1>8. Numbered \subseteq Numbered' /\ IsFiniteSet(Numbered')
    <2>1. Confirmers \subseteq Updaters /\ Updaters \subseteq Requests
        BY DEF Updaters, Requests
    <2>2. \A f \in Confirmers : f # u => pc'[f] = pc[f]
        BY <1>1, <1>2, <2>1 DEF TypeOK
    <2>3. Numbered \subseteq Numbered' /\ Numbered' \subseteq Updaters
        BY <1>3, <2>1, <2>2 DEF Numbered
    <2> QED BY <2>3, FS_Subset DEF Sane
<1>9. Sound(inst[u])'
    <2>1. /\ Cardinality(Numbered) <= Cardinality(Numbered') /\ Cardinality(Numbered) \in Nat
          /\ Cardinality(Numbered') \in Nat /\ row[t].gwNum \in Nat
        BY <1>1, <1>8, Counts, FS_Subset, FS_CardinalityType, RowTypes
    <2> QED BY <1>1, <1>6, <2>1 DEF Sound, GwIds
<1>10. ASSUME u \in Confirmers, l = "number", Unpatched(t) PROVE inst'[u].gwNum = 0
    <2>1. row[t].gwNum # 0 => \E f \in Confirmers : Target[f] = t /\ pc[f] = "done"
        BY <1>1, <1>10 DEF UnpatchedInv
    <2>2. \A f \in Confirmers : Target[f] = t => f = u
        BY <1>10 DEF Sane
    <2> QED BY <1>3, <1>6, <2>1, <2>2
<1> QED BY <1>1, <1>2, <1>3, <1>6, <1>7, <1>9, <1>10, UpdaterMoves

\* An update whose instance is u's, with another gw_id.
LEMMA PatchSetStep ==
    ASSUME Sane, IdInv, NEW u \in Updaters, PatchSet(u)
    PROVE  IdInv'
<1> DEFINE r == [inst[u] EXCEPT !.gwId = given[u]]
<1>1. /\ TypeOK /\ u \in Requests /\ UpdateInv(u) /\ Sound(inst[u]) /\ inst[u] \in RowType
      /\ u \in Patchers /\ u \notin Confirmers /\ pc[u] = "number"
      /\ Target[u] \in Creators /\ u \notin Creators
    BY TargetAssumption DEF IdInv, Requests, TypeOK, Sane, PatchSet
<1>2. PICK l \in {"clean", "refused"} : pc' = [pc EXCEPT ![u] = l]
    BY DEF PatchSet, Goto
<1>3. inst' = [inst EXCEPT ![u] = r] /\ UNCHANGED <<row, given, tries, had>>
    BY <1>1 DEF PatchSet, Hold, TypeOK
<1>4. given[u] \in GivenIds /\ given[u] # NoId /\ given[u] \in Ids
    BY <1>1, IdsAssumption DEF UpdateInv, Ids
<1>5. /\ r \in RowType /\ r.num = inst[u].num /\ r.suffix = inst[u].suffix /\ r.isGw = inst[u].isGw
      /\ r.gwNum = inst[u].gwNum /\ r.gwId = given[u]
    BY <1>1, <1>4 DEF RowType
<1> HIDE DEF r
<1>6. /\ pc'[u] = l /\ inst'[u] = r /\ pc'[Target[u]] = pc[Target[u]]
      /\ inst' \in [Requests -> RowType] /\ \A q \in Requests : q # u => inst'[q] = inst[q]
    BY <1>1, <1>2, <1>3, <1>5 DEF TypeOK, Requests
<1>7. UpdateInv(u)'
    BY <1>1, <1>2, <1>3, <1>5, <1>6 DEF UpdateInv
<1>8. Numbered' = Numbered
    <2>1. \A f \in Confirmers : pc'[f] = pc[f]
        BY <1>1, <1>2 DEF TypeOK, Requests, Updaters
    <2> QED BY <2>1 DEF Numbered
<1>9. Sound(inst[u])'
    BY <1>1, <1>4, <1>5, <1>6, <1>8 DEF Sound, GwIds
<1> QED BY <1>1, <1>2, <1>3, <1>6, <1>7, <1>9, UpdaterMoves DEF TypeOK

LEMMA UpdateCleanStep ==
    ASSUME Sane, IdInv, NEW u \in Updaters, UpdateClean(u)
    PROVE  IdInv'
<1>1. /\ TypeOK /\ u \in Requests /\ UpdateInv(u) /\ Sound(inst[u]) /\ GwInv
      /\ pc[u] = "clean" /\ Target[u] \in Creators /\ u \notin Creators
    BY TargetAssumption DEF IdInv, Requests, Sane, UpdateClean
<1>2. PICK l \in {"update", "refused"} : pc' = [pc EXCEPT ![u] = l]
    BY DEF UpdateClean, Goto
<1>3. UNCHANGED <<row, inst, given, tries, had>>
    BY DEF UpdateClean
<1>4. pc'[u] = l /\ pc'[Target[u]] = pc[Target[u]]
    BY <1>1, <1>2 DEF TypeOK, Requests
<1>5. UpdateInv(u)'
    BY <1>1, <1>2, <1>3, <1>4 DEF UpdateInv
<1>6. Numbered' = Numbered
    <2>1. \A f \in Confirmers : f # u => pc'[f] = pc[f]
        BY <1>1, <1>2 DEF TypeOK, Requests, Updaters
    <2> QED BY <1>1, <1>2, <1>4, <2>1 DEF Numbered
<1>7. Sound(inst[u])'
    BY <1>1, <1>3, <1>6 DEF Sound, GwIds
<1>8. u \in Confirmers /\ Patched = {} => inst'[u].gwNum = 0 \/ Follows(inst'[u].gwNum, GwNums)
    BY <1>1, <1>3 DEF GwInv
<1> QED BY <1>1, <1>2, <1>3, <1>5, <1>7, <1>8, UpdaterMoves DEF TypeOK

\* The number a confirmation takes follows those that are taken, and there are no more numbers
\* than confirmations that took one.
LEMMA NextGwNumberIs ==
    ASSUME Sane, IdInv
    PROVE  /\ NextGwNumber \in Nat /\ 1 <= NextGwNumber
           /\ NextGwNumber <= Cardinality(Numbered) + 1
           /\ Patched = {} => Follows(NextGwNumber, GwNums)
<1> DEFINE S == {row[d].gwNum : d \in {e \in Rows : row[e].isGw}}
<1>1. NextGwNumber = 1 + Maximum(S)
    BY DEF NextGwNumber
<1>2. GwNums = S \ {0}
    BY DEF GwNums
<1>3. Cardinality(Numbered) \in Nat
    BY Counts
<1>4. S \in SUBSET (0 .. Cardinality(Numbered))
    <2>1. \A c \in Creators : row[c] \in RowType /\ Sound(row[c])
        BY DEF IdInv, TypeOK
    <2>2. \A c \in Creators : row[c].gwNum \in 0 .. Cardinality(Numbered)
        BY <1>3, <2>1, RowTypes DEF Sound
    <2>3. \A m \in S : m \in 0 .. Cardinality(Numbered)
        BY <2>2 DEF Rows
    <2> QED BY <2>3
<1> HIDE DEF S
<1>5. Maximum(S) \in S \/ (S = {} /\ Maximum(S) = 0)
    BY <1>3, <1>4, MaximumBound
<1>6. Maximum(S) \in 0 .. Cardinality(Numbered)
    <2>1. \A m \in S : m \in 0 .. Cardinality(Numbered)
        BY <1>4
    <2>2. 0 \in 0 .. Cardinality(Numbered)
        BY <1>3
    <2> QED BY <1>5, <2>1, <2>2
<1>7. Follows(1 + Maximum(S), GwNums)
    BY <1>2, <1>5, <1>6 DEF Follows
<1> QED BY <1>1, <1>3, <1>6, <1>7

LEMMA ConfirmNumberStep ==
    ASSUME Sane, IdInv, NEW u \in Updaters, ConfirmNumber(u)
    PROVE  IdInv'
<1>1. /\ TypeOK /\ u \in Requests /\ UpdateInv(u) /\ Sound(inst[u]) /\ inst[u] \in RowType
      /\ u \in Confirmers /\ u \notin Patchers /\ pc[u] = "number"
      /\ Target[u] \in Creators /\ u \notin Creators /\ UnpatchedInv(Target[u])
    BY TargetAssumption DEF IdInv, Requests, TypeOK, Sane, ConfirmNumber
<1>2. PICK l \in {"clean", "failed"} : pc' = [pc EXCEPT ![u] = l]
    BY DEF ConfirmNumber, Goto
<1>3. UNCHANGED <<row, given, tries, had>>
    BY DEF ConfirmNumber
<1>4. pc'[u] = l /\ pc'[Target[u]] = pc[Target[u]]
    BY <1>1, <1>2 DEF TypeOK, Requests
<1>5. /\ Numbered' = Numbered \cup {u} /\ IsFiniteSet(Numbered')
      /\ Cardinality(Numbered') = Cardinality(Numbered) + 1
      /\ Cardinality(Numbered') \in Nat /\ Cardinality(Numbered') <= Cardinality(Updaters)
      /\ Cardinality(Updaters) \in Nat /\ Cardinality(Numbered) \in Nat
    <2>1. \A f \in Confirmers : f # u => pc'[f] = pc[f]
        BY <1>1, <1>2 DEF TypeOK, Requests, Updaters
    <2>2. Numbered' = Numbered \cup {u} /\ u \notin Numbered
        BY <1>1, <1>4, <2>1 DEF Numbered
    <2>3. Numbered' \subseteq Updaters
        BY DEF Numbered, Updaters
    <2> QED BY <2>2, <2>3, Counts, FS_AddElement, FS_Subset, FS_CardinalityType DEF Sane
<1> DEFINE n == NextGwNumber
           r == [inst[u] EXCEPT !.isGw = TRUE, !.gwNum = n, !.gwId = GWID(n)]
           g == [inst[u] EXCEPT !.isGw = TRUE, !.gwId = given[u]]
<1>6. n \in Nat /\ 1 <= n /\ n <= Cardinality(Numbered) + 1 /\ (Patched = {} => Follows(n, GwNums))
    BY NextGwNumberIs
<1> HIDE DEF n
<1>7. n \in 1 .. Cardinality(Updaters)
    BY <1>5, <1>6
<1>8. /\ GWID(n) \in Ids /\ GWID(n) \in GwIds /\ GWID(n) # NoId
    <2>1. GWID(n) \in Ids /\ GWID(n) \in GwIds
        BY <1>7 DEF Ids, GwIds
    <2>2. GWID(n) # NoId
        BY <1>6 DEF Sane
    <2> QED BY <2>1, <2>2
<1>9. CASE given[u] = NoId /\ inst' = [inst EXCEPT ![u] = r]
    <2>1. r \in RowType /\ r.num = inst[u].num /\ r.suffix = inst[u].suffix /\ r.isGw = TRUE
          /\ r.gwNum = n /\ r.gwId = GWID(n)
        <3>1. inst[u].num \in 0 .. Cardinality(Creators) /\ inst[u].suffix \in 0 .. Cardinality(Creators)
              /\ n \in 0 .. Cardinality(Updaters) /\ GWID(n) \in Ids \cup {NoId}
            BY <1>1, <1>5, <1>7, <1>8 DEF RowType
        <3>2. /\ r \in RowType /\ r.num = inst[u].num /\ r.suffix = inst[u].suffix /\ r.isGw = TRUE
              /\ r.gwNum = n /\ r.gwId = GWID(n)
            <4> DEFINE a == [inst[u] EXCEPT !.isGw = TRUE, !.gwId = GWID(n)]
            <4>1. a \in RowType /\ a.num = inst[u].num /\ a.suffix = inst[u].suffix /\ a.isGw = TRUE
                  /\ a.gwId = GWID(n)
                BY <1>1, <3>1 DEF RowType
            <4>2. r = [a EXCEPT !.gwNum = n]
                BY <1>1 DEF RowType
            <4> HIDE DEF a, r
            <4>3. [a EXCEPT !.gwNum = n] \in RowType
                BY <3>1, <4>1 DEF RowType
            <4>4. r.num = a.num /\ r.suffix = a.suffix /\ r.isGw = a.isGw /\ r.gwNum = n
                  /\ r.gwId = a.gwId
                BY <4>1, <4>2 DEF RowType
            <4> QED BY <4>1, <4>2, <4>3, <4>4
        <3> QED BY <3>2
    <2> HIDE DEF r
    <2>2. /\ inst'[u] = r /\ inst' \in [Requests -> RowType]
          /\ \A q \in Requests : q # u => inst'[q] = inst[q]
        BY <1>1, <1>9, <2>1 DEF TypeOK
    <2>3. UpdateInv(u)'
        BY <1>1, <1>2, <1>3, <1>4, <2>1, <2>2 DEF UpdateInv
    <2>4. Sound(inst[u])'
        BY <1>5, <1>6, <1>8, <2>1, <2>2 DEF Sound, GwIds
    <2> QED BY <1>1, <1>2, <1>3, <1>6, <2>1, <2>2, <2>3, <2>4, UpdaterMoves DEF TypeOK
<1>10. CASE given[u] \in GivenIds /\ inst' = [inst EXCEPT ![u] = g]
    <2>1. /\ g \in RowType /\ g.num = inst[u].num /\ g.suffix = inst[u].suffix /\ g.isGw = TRUE
          /\ g.gwNum = inst[u].gwNum /\ g.gwId = given[u]
        BY <1>1, <1>10 DEF RowType, Ids
    <2> HIDE DEF g
    <2>2. /\ inst'[u] = g /\ inst' \in [Requests -> RowType]
          /\ \A q \in Requests : q # u => inst'[q] = inst[q]
        BY <1>1, <1>10, <2>1 DEF TypeOK
    <2>3. UpdateInv(u)'
        BY <1>1, <1>2, <1>3, <1>4, <2>1, <2>2 DEF UpdateInv
    <2>4. Sound(inst[u])'
        <3>1. inst[u].gwNum \in Nat /\ given[u] # NoId
            BY <1>1, <1>10, RowTypes, IdsAssumption
        <3> QED BY <1>1, <1>5, <1>10, <2>1, <2>2, <3>1 DEF Sound, GwIds
    <2>5. Patched = {} => inst'[u].gwNum = 0
        BY <1>1, <2>1, <2>2 DEF UnpatchedInv, Unpatched
    <2> QED BY <1>1, <1>2, <1>3, <2>2, <2>3, <2>4, <2>5, UpdaterMoves DEF TypeOK
<1>11. CASE inst' = inst /\ l = "failed"
    <2>1. UpdateInv(u)'
        BY <1>1, <1>3, <1>4, <1>11 DEF UpdateInv
    <2>2. Sound(inst[u])'
        <3>1. inst[u].gwNum \in Nat
            BY <1>1, RowTypes
        <3> QED BY <1>1, <1>5, <1>11, <3>1 DEF Sound, GwIds
    <2> QED BY <1>1, <1>2, <1>3, <1>11, <2>1, <2>2, UpdaterMoves DEF TypeOK
<1>12. \/ inst' = inst /\ l = "failed"
       \/ given[u] = NoId /\ inst' = [inst EXCEPT ![u] = r]
       \/ given[u] \in GivenIds /\ inst' = [inst EXCEPT ![u] = g]
    <2>1. pc' = [pc EXCEPT ![u] = "failed"] => l = "failed"
        BY <1>1, <1>4 DEF TypeOK
    <2> QED BY <1>1, <2>1 DEF ConfirmNumber, Hold, Goto, TypeOK, n
<1> QED BY <1>9, <1>10, <1>11, <1>12

\* The UPDATE is refused by the database.
LEMMA UpdateClashStep ==
    ASSUME Sane, IdInv, NEW u \in Updaters, UpdateWrite(u), Clash(Target[u], inst[u])
    PROVE  IdInv'
<1>1. /\ TypeOK /\ u \in Requests /\ UpdateInv(u) /\ Sound(inst[u])
      /\ pc[u] = "update" /\ Target[u] \in Creators /\ u \notin Creators
    BY TargetAssumption DEF IdInv, Requests, Sane, UpdateWrite
<1>2. pc' = [pc EXCEPT ![u] = "failed"] /\ UNCHANGED <<row, inst, given, tries, had>>
    BY DEF UpdateWrite, Goto
<1>3. pc'[u] = "failed" /\ pc'[Target[u]] = pc[Target[u]]
    BY <1>1, <1>2 DEF TypeOK, Requests
<1>4. UpdateInv(u)'
    BY <1>1, <1>2, <1>3 DEF UpdateInv
<1>5. Numbered' = Numbered
    <2>1. \A f \in Confirmers : f # u => pc'[f] = pc[f]
        BY <1>1, <1>2 DEF TypeOK, Requests, Updaters
    <2> QED BY <1>1, <1>3, <2>1 DEF Numbered
<1>6. Sound(inst[u])'
    BY <1>1, <1>2, <1>5 DEF Sound, GwIds
<1> QED BY <1>1, <1>2, <1>4, <1>6, UpdaterMoves DEF TypeOK

\* The UPDATE is written: the superevent keeps its number and its letters.  A confirmation that
\* no PATCH has come before finds a superevent that is no GW, and its number, if it took one, was
\* free; a PATCH lets its superevent off, and the numbers of the GWs with it.
LEMMA UpdateWriteStep ==
    ASSUME Sane, IdInv, NEW u \in Updaters, UpdateWrite(u), ~ Clash(Target[u], inst[u])
    PROVE  IdInv'
<1> DEFINE t == Target[u]
           r == inst[u]
<1>1. /\ TypeOK /\ u \in Requests /\ t \in Creators /\ t \in Requests /\ u \notin Creators
      /\ CreationInv(t) /\ UnpatchedInv(t) /\ UpdateInv(u) /\ Sound(r) /\ r \in RowType
    BY TargetAssumption DEF IdInv, Requests, TypeOK, Sane
<1>2. /\ pc[u] = "update" /\ pc' = [pc EXCEPT ![u] = "done"] /\ row' = [row EXCEPT ![t] = r]
      /\ had' = [had EXCEPT ![t] = had[t] \cup {SupereventIdOf(r)}]
      /\ UNCHANGED <<inst, given, tries>>
    BY <1>1 DEF UpdateWrite, Goto, Write, TypeOK
<1>3. /\ pc'[u] = "done" /\ \A q \in Requests : q # u => pc'[q] = pc[q]
      /\ row'[t] = r /\ \A d \in Creators : d # t => row'[d] = row[d]
      /\ had'[t] = had[t] \cup {SupereventIdOf(r)} /\ \A d \in Creators : d # t => had'[d] = had[d]
    BY <1>1, <1>2 DEF TypeOK
<1>4. pc[t] = "done" /\ r.num = row[t].num /\ r.suffix = row[t].suffix /\ t \in Rows
    BY <1>1, <1>2 DEF UpdateInv, CreationInv, Rows
<1>5. \A d \in Creators : pc'[d] = pc[d] /\ row'[d].num = row[d].num /\ row'[d].suffix = row[d].suffix
    BY <1>1, <1>3, <1>4 DEF Requests
<1>6. Rows' = Rows /\ Nums' = Nums
    <2>1. Rows' = Rows /\ Rows \subseteq Creators
        BY <1>5 DEF Rows
    <2>2. Nums' = Nums
        BY <1>5, <2>1 DEF Nums
    <2> QED BY <2>1, <2>2
<1>7. /\ Confirmers \subseteq Updaters /\ Patchers \subseteq Updaters /\ Updaters \subseteq Requests
      /\ Confirmers \cap Patchers = {}
    BY DEF Updaters, Requests, Sane
<1>8. /\ Numbered' = Numbered
      /\ Patched \subseteq Patched' /\ (u \in Patchers => u \in Patched')
      /\ u \in Confirmers => Patched' = Patched
    <2>1. \A v \in Updaters : v # u => pc'[v] = pc[v]
        BY <1>3, <1>7
    <2>2. Numbered' = Numbered
        BY <1>2, <1>3, <1>7, <2>1 DEF Numbered
    <2> QED BY <1>3, <1>7, <2>1, <2>2 DEF Patched
\* What a confirmation of a superevent that no PATCH has changed finds.
<1>9. ASSUME u \in Confirmers, Unpatched(t)
      PROVE  /\ row[t].isGw = FALSE /\ row[t].gwNum = 0
             /\ \A f \in Confirmers : Target[f] = t => f = u
    <2>1. \A f \in Confirmers : Target[f] = t => f = u
        BY <1>9 DEF Sane
    <2>2. ~ (row[t].isGw \/ row[t].gwNum # 0)
        BY <1>1, <1>2, <1>9, <2>1 DEF UnpatchedInv
    <2>3. row[t].isGw \in BOOLEAN
        BY <1>1, RowTypes DEF TypeOK
    <2> QED BY <2>1, <2>2, <2>3
<1>10. TypeOK'
    <2>1. row' \in [Creators -> RowType]
        BY <1>1, <1>2 DEF TypeOK
    <2>2. SupereventIdOf(r) \in Ids
        <3>1. CASE r.isGw
            BY <1>1, <3>1 DEF Sound, GwIds, Ids, SupereventIdOf
        <3>2. CASE ~ r.isGw
            <4>1. r.suffix \in 0 .. Cardinality(Creators)
                BY <1>1 DEF RowType
            <4> QED BY <3>2, <4>1 DEF SupereventIdOf, DefaultSupereventId, Ids
        <3> QED BY <3>1, <3>2
    <2>3. had' \in [Creators -> SUBSET Ids]
        BY <1>1, <1>2, <2>2 DEF TypeOK
    <2> QED BY <1>1, <1>2, <2>1, <2>3 DEF TypeOK
<1>11. ASSUME NEW d \in Creators PROVE CreationInv(d)'
    <2>1. CreationInv(d)
        BY DEF IdInv
    <2>2. CASE d = t
        BY <1>3, <1>4, <1>5, <2>1, <2>2 DEF CreationInv
    <2>3. CASE d # t
        BY <1>2, <1>3, <1>5, <1>6, <2>1, <2>3 DEF CreationInv
    <2> QED BY <2>2, <2>3
<1>12. ASSUME NEW d \in Creators PROVE Sound(row[d])'
    <2>1. Sound(row[d])
        BY DEF IdInv
    <2>2. CASE d = t
        BY <1>1, <1>3, <1>8, <2>2 DEF Sound, GwIds
    <2>3. CASE d # t
        BY <1>3, <1>8, <2>1, <2>3 DEF Sound, GwIds
    <2> QED BY <2>2, <2>3
<1>13. ASSUME NEW v \in Updaters PROVE UpdateInv(v)'
    <2>1. UpdateInv(v) /\ Target[v] \in Creators
        BY TargetAssumption DEF IdInv
    <2>2. pc'[Target[v]] = pc[Target[v]] /\ row'[Target[v]].num = row[Target[v]].num
          /\ row'[Target[v]].suffix = row[Target[v]].suffix
        BY <1>5, <2>1
    <2>3. CASE v = u
        BY <1>2, <1>3, <2>1, <2>2, <2>3 DEF UpdateInv
    <2>4. CASE v # u
        <3>1. pc'[v] = pc[v]
            BY <1>3, <1>7, <2>4
        <3> QED BY <1>2, <2>1, <2>2, <3>1 DEF UpdateInv
    <2> QED BY <2>3, <2>4
<1>14. ASSUME NEW v \in Updaters PROVE Sound(inst[v])'
    <2>1. Sound(inst[v])
        BY DEF IdInv
    <2> QED BY <1>2, <1>8, <2>1 DEF Sound, GwIds
<1>15. ASSUME NEW d \in Creators PROVE UnpatchedInv(d)'
    <2>1. SUFFICES ASSUME Unpatched(d)'
          PROVE  /\ had'[d] \subseteq {SID(row'[d].suffix), SupereventIdOf(row'[d])}
                 /\ row'[d].isGw \/ row'[d].gwNum # 0 =>
                        \E f \in Confirmers : Target[f] = d /\ pc'[f] = "done"
                 /\ \A f \in Confirmers : Target[f] = d /\ pc'[f] = "number" => inst'[f].gwNum = 0
        BY DEF UnpatchedInv, SupereventIdOf, DefaultSupereventId
    <2>2. Unpatched(d) /\ (u \in Patchers => d # t)
        BY <1>8, <2>1 DEF Unpatched
    <2>3. UnpatchedInv(d)
        BY DEF IdInv
    <2>4. CASE d = t
        <3>1. u \in Confirmers
            BY <2>2, <2>4 DEF Updaters
        <3>2. row[t].isGw = FALSE
            BY <1>9, <2>2, <2>4, <3>1
        <3>3. had[t] \subseteq {SID(row[t].suffix)}
            BY <2>2, <2>3, <2>4, <3>2 DEF UnpatchedInv, SupereventIdOf, DefaultSupereventId
        <3>4. \A f \in Confirmers : Target[f] = t => f = u
            BY <1>9, <2>2, <2>4, <3>1
        <3> QED BY <1>3, <1>4, <2>4, <3>1, <3>3, <3>4
    <2>5. CASE d # t
        <3>1. row'[d] = row[d] /\ had'[d] = had[d]
            BY <1>3, <2>5
        <3>2. ASSUME NEW f \in Confirmers, Target[f] = d PROVE pc'[f] = pc[f] /\ inst'[f] = inst[f]
            <4>1. f # u
                BY <2>5, <3>2
            <4> QED BY <1>2, <1>3, <1>7, <4>1
        <3>3. row'[d].isGw \/ row'[d].gwNum # 0 =>
                  \E f \in Confirmers : Target[f] = d /\ pc'[f] = "done"
            BY <2>2, <2>3, <3>1, <3>2 DEF UnpatchedInv
        <3>4. had'[d] \subseteq {SID(row'[d].suffix), SupereventIdOf(row'[d])}
            BY <2>2, <2>3, <3>1 DEF UnpatchedInv
        <3>5. \A f \in Confirmers : Target[f] = d /\ pc'[f] = "number" => inst'[f].gwNum = 0
            BY <2>2, <2>3, <3>2 DEF UnpatchedInv
        <3> QED BY <3>3, <3>4, <3>5
    <2> QED BY <2>4, <2>5
<1>16. Unique'
    <2>1. ASSUME NEW d \in Rows, d # t
          PROVE  /\ r.num # row[d].num
                 /\ r.gwNum # 0 => r.gwNum # row[d].gwNum
                 /\ r.gwId # NoId => r.gwId # row[d].gwId
        BY <2>1 DEF Clash
    <2>2. \A d \in Rows : d # t => row'[d] = row[d]
        BY <1>3 DEF Rows
    <2>3. Unique
        BY DEF IdInv
    <2>4. ASSUME NEW c \in Rows, NEW d \in Rows, c # d
          PROVE  /\ row'[c].num # row'[d].num
                 /\ row'[c].gwNum # 0 => row'[c].gwNum # row'[d].gwNum
                 /\ row'[c].gwId # NoId => row'[c].gwId # row'[d].gwId
        <3>1. CASE c = t
            <4>1. d # t
                BY <2>4, <3>1
            <4> QED BY <1>3, <2>1, <2>2, <3>1, <4>1
        <3>2. CASE d = t
            <4>1. c # t
                BY <2>4, <3>2
            <4>2. row'[c] = row[c] /\ row'[d] = r
                BY <1>3, <2>2, <3>2, <4>1
            <4>3. /\ r.num # row[c].num
                  /\ r.gwNum # 0 => r.gwNum # row[c].gwNum
                  /\ r.gwId # NoId => r.gwId # row[c].gwId
                BY <2>1, <4>1
            <4> QED BY <4>2, <4>3
        <3>3. CASE c # t /\ d # t
            BY <2>2, <2>3, <2>4, <3>3 DEF Unique
        <3> QED BY <3>1, <3>2, <3>3
    <2> QED BY <1>6, <2>4 DEF Unique
<1>17. UpTo(Nums)'
    BY <1>6 DEF IdInv, UpTo
<1>18. GwInv'
    <2>1. SUFFICES ASSUME Patched' = {}
          PROVE  /\ UpTo(GwNums)'
                 /\ \A f \in Confirmers : pc'[f] \in {"clean", "update"} =>
                        inst'[f].gwNum = 0 \/ Follows(inst'[f].gwNum, GwNums')
        BY DEF GwInv, Follows
    <2>2. Patched = {} /\ u \in Confirmers
        BY <1>8, <2>1 DEF Updaters
    <2>3. GwInv /\ Unpatched(t)
        BY <2>2 DEF IdInv, Unpatched
    <2>4. row[t].isGw = FALSE
        BY <1>9, <2>2, <2>3
    <2>5. r.isGw = TRUE
        <3>1. r.isGw
            BY <1>1, <1>2, <2>2 DEF UpdateInv
        <3> QED BY <1>1, <3>1, RowTypes
    <2>6. {d \in Rows' : row'[d].isGw} = {d \in Rows : row[d].isGw} \cup {t}
        <3>1. \A d \in Rows : d # t => row'[d] = row[d]
            BY <1>3 DEF Rows
        <3> QED BY <1>3, <1>4, <1>6, <2>5, <3>1
    <2>7. GwNums' = GwNums \cup ({r.gwNum} \ {0})
        <3>1. \A d \in {e \in Rows : row[e].isGw} : row'[d] = row[d]
            BY <1>3, <2>4 DEF Rows
        <3>2. {row'[d].gwNum : d \in {e \in Rows' : row'[e].isGw}} =
                  {row[d].gwNum : d \in {e \in Rows : row[e].isGw}} \cup {r.gwNum}
            BY <1>3, <2>6, <3>1
        <3> QED BY <3>2 DEF GwNums
    <2>8. UpTo(GwNums)'
        <3>1. CASE r.gwNum = 0
            BY <2>2, <2>3, <2>7, <3>1 DEF GwInv, UpTo
        <3>2. CASE r.gwNum # 0
            <4>1. r.gwNum \notin GwNums
                <5>1. \A d \in {e \in Rows : row[e].isGw} : d \in Rows \ {t}
                    BY <2>4
                <5>2. ~ \E d \in Rows \ {t} : r.gwNum = row[d].gwNum
                    BY <3>2 DEF Clash
                <5> QED BY <5>1, <5>2 DEF GwNums
            <4>2. Follows(r.gwNum, GwNums) /\ r.gwNum \in Nat /\ UpTo(GwNums)
                BY <1>1, <1>2, <2>2, <2>3, <3>2, RowTypes DEF GwInv
            <4>3. UpTo(GwNums \cup {r.gwNum})
                BY <3>2, <4>1, <4>2, UpToGrows
            <4> QED BY <2>7, <3>2, <4>3 DEF UpTo
        <3> QED BY <3>1, <3>2
    <2>9. ASSUME NEW f \in Confirmers, pc'[f] \in {"clean", "update"}
          PROVE  inst'[f].gwNum = 0 \/ Follows(inst'[f].gwNum, GwNums')
        <3>1. f # u
            BY <1>3, <2>9
        <3>2. pc'[f] = pc[f] /\ inst'[f] = inst[f]
            BY <1>2, <1>3, <1>7, <3>1
        <3>3. inst[f].gwNum = 0 \/ Follows(inst[f].gwNum, GwNums)
            BY <2>2, <2>3, <2>9, <3>2 DEF GwInv
        <3> QED BY <2>7, <3>2, <3>3, FollowsStays
    <2> QED BY <2>8, <2>9
<1> QED BY <1>10, <1>11, <1>12, <1>13, <1>14, <1>15, <1>16, <1>17, <1>18 DEF IdInv

-----------------------------------------------------------------------------
(* The theorems.                                                           *)

LEMMA IdStutter == ASSUME IdInv, UNCHANGED vars PROVE IdInv'
<1> USE DEF vars
<1>1. Rows' = Rows /\ Nums' = Nums /\ GwNums' = GwNums /\ Numbered' = Numbered /\ Patched' = Patched
    BY DEF Rows, Nums, GwNums, Numbered, Patched
<1>2. TypeOK'
    BY DEF IdInv, TypeOK
<1>3. ASSUME NEW c \in Creators PROVE (CreationInv(c) /\ Sound(row[c]) /\ UnpatchedInv(c))'
    <2>1. CreationInv(c) /\ Sound(row[c]) /\ UnpatchedInv(c)
        BY DEF IdInv
    <2>2. CreationInv(c)'
        BY <1>1, <2>1 DEF CreationInv
    <2>3. Sound(row[c])'
        BY <1>1, <2>1 DEF Sound, GwIds
    <2>4. UnpatchedInv(c)'
        BY <1>1, <2>1 DEF UnpatchedInv, Unpatched, SupereventIdOf, DefaultSupereventId
    <2> QED BY <2>2, <2>3, <2>4
<1>4. ASSUME NEW u \in Updaters PROVE (UpdateInv(u) /\ Sound(inst[u]))'
    <2>1. UpdateInv(u) /\ Sound(inst[u])
        BY DEF IdInv
    <2>2. UpdateInv(u)'
        BY <2>1 DEF UpdateInv
    <2>3. Sound(inst[u])'
        BY <1>1, <2>1 DEF Sound, GwIds
    <2> QED BY <2>2, <2>3
<1>5. Unique' /\ UpTo(Nums)' /\ GwInv'
    BY <1>1 DEF IdInv, Unique, UpTo, GwInv
<1> QED BY <1>2, <1>3, <1>4, <1>5 DEF IdInv

LEMMA IdStep == ASSUME Sane, IdInv, [Next]_vars PROVE IdInv'
<1>1. ASSUME NEW c \in Creators, Create(c) \/ Crash(c) PROVE IdInv'
    BY <1>1, CreateCleanStep, CreateNumberStep, RetryStep, InsertStep, CreateRenameStep, CrashStep
       DEF Create
<1>2. ASSUME NEW u \in Updaters, Update(u) PROVE IdInv'
    BY <1>2, LoadStep, ConfirmNumberStep, PatchSetStep, UpdateCleanStep, UpdateClashStep,
       UpdateWriteStep DEF Update
<1> QED BY <1>1, <1>2, IdStutter DEF Next

LEMMA IdAlways == ASSUME Sane PROVE Spec => []IdInv
<1>1. Init => IdInv
    BY IdInit
<1>2. IdInv /\ [Next]_vars => IdInv'
    BY IdStep
<1> QED BY <1>1, <1>2, PTL DEF Spec

\* IDs are names: an ID that a superevent has had keeps finding it (unless a PATCH replaced its
\* gw_id), and no ID finds two superevents that have their letters.
THEOREM IdsName == ASSUME Sane PROVE Spec => []IdsFindOne
<1>1. IdInv => IdsFindOne
    <2> SUFFICES ASSUME IdInv PROVE IdsFindOne
        OBVIOUS
    <2>1. TypeOK
        BY DEF IdInv
    <2>2. ASSUME NEW c \in Creators, c \notin {Target[p] : p \in Patched}, NEW id \in had[c]
          PROVE  c \in Lookup(id)
        <3>1. UnpatchedInv(c) /\ CreationInv(c)
            BY DEF IdInv
        <3>2. id \in {SID(row[c].suffix), SupereventIdOf(row[c])}
            BY <2>2, <3>1 DEF UnpatchedInv, Unpatched
        <3>3. c \in Rows
            BY <2>2, <3>1 DEF CreationInv, Rows
        <3> QED BY <3>2, <3>3 DEF Lookup, DefaultSupereventId
    <2>3. ASSUME NEW id \in Ids, NEW c \in Lookup(id) \ Unnamed, NEW d \in Lookup(id) \ Unnamed
          PROVE  c = d
        <3>1. /\ c \in Creators /\ d \in Creators /\ c \in Rows /\ d \in Rows
              /\ row[c].suffix # 0 /\ row[d].suffix # 0
            BY DEF Lookup, Rows, Unnamed
        <3>2. /\ row[c].suffix = row[c].num /\ row[d].suffix = row[d].num
              /\ Sound(row[c]) /\ Sound(row[d])
              /\ row[c].suffix \in Nat /\ row[d].suffix \in Nat
            BY <2>1, <3>1, RowTypes DEF IdInv, CreationInv, TypeOK
        <3>3. SUFFICES ASSUME c # d PROVE FALSE
            OBVIOUS
        <3>4. /\ row[c].num # row[d].num
              /\ row[c].gwId # NoId => row[c].gwId # row[d].gwId
            BY <3>1, <3>3 DEF IdInv, Unique
        <3>5. \A n \in Nat : SID(n) \notin GwIds
            BY IdFacts DEF GwIds, Sane
        <3>6. id \in {SID(row[c].suffix), SupereventIdOf(row[c])}
              /\ id \in {SID(row[d].suffix), SupereventIdOf(row[d])}
            BY DEF Lookup, DefaultSupereventId
        <3>7. SID(row[c].suffix) # SID(row[d].suffix)
            BY <3>2, <3>4, IdFacts
        <3>8. /\ SupereventIdOf(row[c]) = SID(row[c].suffix) \/
                     (SupereventIdOf(row[c]) = row[c].gwId /\ row[c].gwId \in GwIds
                      /\ row[c].gwId # NoId)
              /\ SupereventIdOf(row[d]) = SID(row[d].suffix) \/
                     (SupereventIdOf(row[d]) = row[d].gwId /\ row[d].gwId \in GwIds)
            BY <3>2 DEF Sound, SupereventIdOf, DefaultSupereventId
        <3> QED BY <3>2, <3>4, <3>5, <3>6, <3>7, <3>8
    <2>4. ASSUME NEW id \in Ids PROVE Cardinality(Lookup(id) \ Unnamed) <= 1
        <3>1. CASE Lookup(id) \ Unnamed = {}
            BY <3>1, FS_EmptySet
        <3>2. CASE Lookup(id) \ Unnamed # {}
            <4>1. PICK c : Lookup(id) \ Unnamed = {c}
                BY <2>3, <3>2
            <4> QED BY <4>1, FS_Singleton
        <3> QED BY <3>1, <3>2
    <2>5. IdsStayAccessible
        BY <2>2 DEF IdsStayAccessible
    <2>6. IdsUnambiguous
        BY <2>4 DEF IdsUnambiguous
    <2> QED BY <2>1, <2>5, <2>6 DEF IdsFindOne
<1> QED BY <1>1, IdAlways, PTL

\* The numbers of the superevents that were confirmed as GWs are 1, 2, ... with no gap, as long as
\* no PATCH wrote: concurrent confirmations may take the same number, and all but one are refused.
THEOREM GwNumbersHaveNoGap == ASSUME Sane PROVE Spec => []GwNumbersContiguous
<1>1. IdInv => GwNumbersContiguous
    <2> SUFFICES ASSUME IdInv, Patched = {} PROVE GwNums = 1 .. Cardinality(GwNums)
        BY DEF GwNumbersContiguous, GwNums
    <2>1. PICK n \in Nat : GwNums = 1 .. n
        BY DEF IdInv, GwInv, UpTo
    <2>2. Cardinality(1 .. n) = n
        BY FS_Interval
    <2> QED BY <2>1, <2>2
<1> QED BY <1>1, IdAlways, PTL

-----------------------------------------------------------------------------
(* The abstract sequence of numbers.                                       *)

\* The creations of a date implement the sequence of numbers: only the INSERT takes a number,
\* it takes the least one nobody has, and what confirmations and PATCHes write back leaves every
\* number as it is.
THEOREM CreationsTakeNumbers == ASSUME Sane PROVE Spec => CreationsImplementSequence
<1> USE DEF DateSequence!vars
<1>1. Init => DateSequence!Init
    <2> SUFFICES ASSUME Init PROVE DateSequence!Init
        OBVIOUS
    <2>1. \A c \in Creators : row[c].num = 0
        BY DEF Init, NoRow
    <2>2. NumberOf = [c \in Creators |-> 0] /\ Rows = {}
        BY <2>1 DEF NumberOf, Rows
    <2> QED BY <2>2 DEF DateSequence!Init
<1>2. IdInv /\ [Next]_vars => [DateSequence!Next]_(DateSequence!vars)
    <2> SUFFICES ASSUME IdInv, [Next]_vars PROVE [DateSequence!Next]_(DateSequence!vars)
        OBVIOUS
    <2>1. TypeOK
        BY DEF IdInv
    <2>2. ASSUME \A c \in Creators : row'[c].num = row[c].num PROVE UNCHANGED DateSequence!vars
        BY <2>2 DEF NumberOf, Rows
    <2>3. ASSUME NEW c \in Creators,
                 CreateClean(c) \/ CreateNumber(c) \/ CreateRename(c) \/ Crash(c)
                     \/ (CreateInsert(c) /\ Clash(c, inst[c]))
          PROVE  UNCHANGED DateSequence!vars
        <3>1. row' = row \/ row' = [row EXCEPT ![c] = [row[c] EXCEPT !.suffix = inst[c].num]]
            BY <2>3 DEF CreateClean, CreateNumber, CreateRename, Crash, CreateInsert, Named, Write
        <3>2. row[c] \in RowType
            BY <2>1 DEF TypeOK
        <3>3. [row[c] EXCEPT !.suffix = inst[c].num].num = row[c].num
            BY <3>2 DEF RowType
        <3>4. \A d \in Creators : row'[d].num = row[d].num
            BY <2>1, <3>1, <3>3 DEF TypeOK
        <3> QED BY <2>2, <3>4
    <2>4. ASSUME NEW u \in Updaters, Update(u) PROVE UNCHANGED DateSequence!vars
        <3>1. row' = row \/ (UpdateWrite(u) /\ row' = [row EXCEPT ![Target[u]] = inst[u]])
            BY <2>4 DEF Update, Load, ConfirmNumber, PatchSet, UpdateClean, UpdateWrite, Write
        <3>2. UpdateWrite(u) => inst[u].num = row[Target[u]].num
            BY DEF UpdateWrite, IdInv, UpdateInv
        <3>3. \A d \in Creators : row'[d].num = row[d].num
            BY <2>1, <3>1, <3>2 DEF TypeOK
        <3> QED BY <2>2, <3>3
    <2>5. ASSUME NEW c \in Creators, CreateInsert(c), ~ Clash(c, inst[c])
          PROVE  DateSequence!Next
        <3> DEFINE n == inst[c].num
                   S == DateSequence!Numbers("date")
        <3>1. /\ row' = [row EXCEPT ![c] = inst[c]]
              /\ pc[c] = "insert" /\ CreationInv(c) /\ inst[c] \in RowType
            BY <2>1, <2>5 DEF CreateInsert, IdInv, Requests, TypeOK
        <3>2. row[c].num = 0 /\ Follows(n, Nums) /\ n \in Nat
            <4>1. n \in Nat
                BY <3>1, RowTypes
            <4> QED BY <3>1, <4>1 DEF CreationInv
        <3>3. c \notin Rows
            BY <3>2 DEF Rows
        <3>4. row'[c].num = n /\ \A d \in Creators : d # c => row'[d].num = row[d].num
            BY <2>1, <3>1 DEF TypeOK
        <3>5. S = Nums
            BY DEF DateSequence!Numbers, NumberOf, Nums, Rows
        <3>6. PICK m \in Nat : Nums = 1 .. m
            BY DEF IdInv, UpTo
        <3>7. n \notin Nums
            BY <2>5, <3>3 DEF Clash, Nums
        <3>8. n = m + 1
            BY <3>2, <3>6, <3>7 DEF Follows
        <3>9. NumberOf' = [NumberOf EXCEPT ![c] = n] /\ NumberOf'[c] = n
            BY <3>4 DEF NumberOf
        <3>10. Rows' = Rows \cup {c}
            BY <3>4, <3>8 DEF Rows
        <3>11. n \in Nat \ (S \cup {0}) /\ \A k \in 1 .. n - 1 : k \in S
            BY <3>5, <3>6, <3>8
        <3>12. DateSequence!Take(c)
            <4> HIDE DEF n, S
            <4> QED BY <3>3, <3>9, <3>10, <3>11 DEF DateSequence!Take, S
        <3> QED BY <3>12 DEF DateSequence!Next
    <2>6. CASE UNCHANGED vars
        BY <2>2, <2>6 DEF vars
    <2> QED BY <2>3, <2>4, <2>5, <2>6 DEF Next, Create
<1> QED BY <1>1, <1>2, IdAlways, PTL DEF Spec, CreationsImplementSequence, DateSequence!Spec
=============================================================================
