---------------------------- MODULE AccountsProofs ----------------------------
(***************************************************************************)
(* Proofs about Accounts, for any directories, commands, changes, logins   *)
(* and interruptions.                                                      *)
(***************************************************************************)
EXTENDS Accounts, FiniteSetTheorems, SequenceTheorems, TLAPS

-----------------------------------------------------------------------------
(* The inductive invariant.                                                *)

Certificate == [user : Users, entry : Entries \cup {None}]
Hold == [row : Users \cup {None}, inst : Row \cup {None}, created : BOOLEAN]
Login == [phase : {"out", "update", "add", "remove"}, row : Users \cup {None},
          inst : Row \cup {None}, name : Names \cup {None}, member : SUBSET Memberships]

Types ==
    /\ directory \in [Entries -> Entry]
    /\ user \in [Users -> Row \cup {None}]
    /\ linked \in [Entries -> Users \cup {None}]
    /\ cert \in [Subjects -> Certificate \cup {None}]
    /\ command \in DOMAIN Runs
    /\ result \in Seq([entry : Entries, data : Entry])
    /\ step \in {"query", "look", "make", "save", "add", "remove", "certs"}
    /\ held \in Hold
    /\ login \in Login
    /\ changes \in Nat /\ logins \in Nat /\ faults \in Nat

\* No two accounts have the same name.
NamesAreUnique == \A u, v \in Rows : user[u].name = user[v].name => u = v

\* The rows that something refers to are there.
RowsAreThere ==
    /\ \A e \in Entries : linked[e] # None => linked[e] \in Rows
    /\ \A s \in Subjects : cert[s] # None => cert[s].user \in Rows

\* What the command holds.
HoldsUser ==
    /\ step # "query" => result # <<>>
    /\ step = "make" => held.row \in Rows \cup {None}
    /\ step \in {"save", "add", "remove", "certs"} => held.row \in Rows /\ held.inst \in Row

\* Nobody is staff who is not active, on the row and on the instance a login writes back.
ActiveStaff(inst) == inst.staff => inst.active

LoginHolds ==
    login.phase # "out" => login.row \in Rows /\ login.inst \in Row /\ ActiveStaff(login.inst)

StaffIsActive == \A u \in Rows : ActiveStaff(user[u])

AccountsInv == /\ Types /\ NamesAreUnique /\ RowsAreThere /\ HoldsUser
               /\ LoginHolds /\ StaffIsActive

-----------------------------------------------------------------------------
(* Lemmas about rows.                                                      *)

\* As long as names are unique there is a row for a name nobody has.
LEMMA FreeRowIsFree ==
    ASSUME user \in [Users -> Row \cup {None}], NamesAreUnique, NEW n \in Names, Named(n) = {}
    PROVE  FreeRow \in Users /\ user[FreeRow] = None
<1>1. SUFFICES ASSUME Rows = Users PROVE FALSE
    <2>1. (\E u \in Users : user[u] = None) => FreeRow \in Users /\ user[FreeRow] = None
        BY DEF FreeRow
    <2> QED BY <2>1 DEF Rows
<1>2. PICK f \in Injection(Names, Users) : TRUE
    BY NamesAssumption
<1> DEFINE T == Names \ {n}
           g == [m \in Names |-> user[f[m]].name]
<1>3. \A u \in Users : user[u] \in Row /\ user[u].name \in Names /\ user[u].name # n
    BY <1>1 DEF Rows, Row, Named
<1>4. g \in [Names -> T]
    BY <1>2, <1>3 DEF Injection
<1>5. ASSUME NEW x \in Names, NEW y \in Names, g[x] = g[y] PROVE x = y
    <2>1. f[x] \in Rows /\ f[y] \in Rows
        BY <1>1, <1>2 DEF Injection
    <2>2. f[x] = f[y]
        BY <1>5, <2>1 DEF NamesAreUnique
    <2> QED BY <1>2, <2>2 DEF Injection, IsInjective
<1>6. IsFiniteSet(T) /\ Cardinality(T) = Cardinality(Names) - 1 /\ Cardinality(Names) \in Nat
    BY NamesAssumption, FS_RemoveElement, FS_CardinalityType
<1> HIDE DEF g, T
<1>7. Cardinality(T) < Cardinality(Names)
    BY <1>6
<1>8. \E x, y \in Names : x # y /\ g[x] = g[y]
    BY <1>4, <1>6, <1>7, NamesAssumption, FS_PigeonHole
<1> QED BY <1>5, <1>8

\* A row is written, with a name nobody else has.
LEMMA WriteRow ==
    ASSUME AccountsInv, NEW u \in Users, NEW r \in Row, user' = [user EXCEPT ![u] = r],
           ActiveStaff(r), \A v \in Rows \ {u} : user[v].name # r.name
    PROVE  /\ user' \in [Users -> Row \cup {None}] /\ Rows' = Rows \cup {u} /\ user'[u] = r
           /\ NamesAreUnique' /\ StaffIsActive'
<1>1. user \in [Users -> Row \cup {None}]
    BY DEF AccountsInv, Types
<1>2. user' \in [Users -> Row \cup {None}] /\ user'[u] = r /\ \A v \in Users \ {u} : user'[v] = user[v]
    BY <1>1
<1>3. Rows' = Rows \cup {u}
    BY <1>2, ValuesAssumption DEF Rows
<1>4. NamesAreUnique'
    BY <1>2, <1>3 DEF AccountsInv, NamesAreUnique, Rows
<1>5. StaffIsActive'
    BY <1>2, <1>3 DEF AccountsInv, StaffIsActive, Rows
<1> QED BY <1>2, <1>3, <1>4, <1>5

\* Only the groups of a row change.
LEMMA WriteGroups ==
    ASSUME AccountsInv, NEW u \in Rows, NEW g \in SUBSET (Memberships \cup {Manual}),
           user' = [user EXCEPT ![u].groups = g]
    PROVE  /\ user' \in [Users -> Row \cup {None}] /\ Rows' = Rows
           /\ NamesAreUnique' /\ StaffIsActive'
<1> DEFINE r == [user[u] EXCEPT !.groups = g]
<1>1. u \in Users /\ user \in [Users -> Row \cup {None}] /\ user[u] \in Row
    BY DEF AccountsInv, Types, Rows
<1>2. r \in Row /\ r.name = user[u].name /\ r.staff = user[u].staff /\ r.active = user[u].active
    BY <1>1 DEF Row
<1>3. user' = [user EXCEPT ![u] = r]
    BY <1>1
<1>4. ActiveStaff(r)
    BY <1>2 DEF AccountsInv, StaffIsActive, ActiveStaff
<1>5. \A v \in Rows \ {u} : user[v].name # r.name
    BY <1>2 DEF AccountsInv, NamesAreUnique
<1> HIDE DEF r
<1>6. /\ user' \in [Users -> Row \cup {None}] /\ Rows' = Rows \cup {u}
      /\ NamesAreUnique' /\ StaffIsActive'
    BY <1>1, <1>2, <1>3, <1>4, <1>5, WriteRow
<1> QED BY <1>6

\* What refers to rows still does when rows are written.
LEMMA ReferencesStay ==
    ASSUME AccountsInv, Rows \subseteq Rows', UNCHANGED <<linked, cert>>
    PROVE  RowsAreThere' /\ linked' \in [Entries -> Users \cup {None}]
           /\ cert' \in [Subjects -> Certificate \cup {None}]
    BY DEF AccountsInv, RowsAreThere, Types

LEMMA LoginStays ==
    ASSUME AccountsInv, Rows \subseteq Rows', UNCHANGED login
    PROVE  LoginHolds' /\ login' \in Login
<1>1. login' \in Login
    BY DEF AccountsInv, Types
<1>2. LoginHolds'
    BY DEF AccountsInv, LoginHolds, ActiveStaff
<1> QED BY <1>1, <1>2

LEMMA CommandStays ==
    ASSUME AccountsInv, Rows \subseteq Rows', UNCHANGED sync
    PROVE  /\ HoldsUser' /\ command' \in DOMAIN Runs
           /\ result' \in Seq([entry : Entries, data : Entry])
           /\ step' \in {"query", "look", "make", "save", "add", "remove", "certs"}
           /\ held' \in Hold
<1>1. UNCHANGED <<command, result, step, held>>
    BY DEF sync
<1> QED BY <1>1 DEF AccountsInv, HoldsUser, Types

\* The command goes on with the next entry, or ends.
LEMMA NextCommand ==
    ASSUME AccountsInv PROVE (command % Len(Runs)) + 1 \in DOMAIN Runs
<1>1. Len(Runs) \in Nat \ {0} /\ DOMAIN Runs = 1 .. Len(Runs) /\ command \in 1 .. Len(Runs)
    BY CommandsAssumption DEF Runs, AccountsInv, Types
<1> QED BY <1>1

LEMMA NothingHeld == NoHold \in Hold /\ NoLogin \in Login
    BY ValuesAssumption DEF NoHold, Hold, NoLogin, Login

LEMMA DieKeeps ==
    ASSUME AccountsInv, Die
    PROVE  /\ HoldsUser' /\ command' \in DOMAIN Runs
           /\ result' \in Seq([entry : Entries, data : Entry])
           /\ step' \in {"query", "look", "make", "save", "add", "remove", "certs"}
           /\ held' \in Hold
    BY NextCommand, NothingHeld DEF Die, HoldsUser

LEMMA AdvanceKeeps ==
    ASSUME AccountsInv, step # "query", Advance
    PROVE  /\ HoldsUser' /\ command' \in DOMAIN Runs
           /\ result' \in Seq([entry : Entries, data : Entry])
           /\ step' \in {"query", "look", "make", "save", "add", "remove", "certs"}
           /\ held' \in Hold
<1> DEFINE S == [entry : Entries, data : Entry]
<1>1. result \in Seq(S) /\ result # <<>>
    BY DEF AccountsInv, Types, HoldsUser
<1> HIDE DEF S
<1>2. Tail(result) \in Seq(S) /\ Len(Tail(result)) = Len(result) - 1 /\ Len(result) \in Nat \ {0}
    BY <1>1
<1>3. Len(result) # 1 => Tail(result) # <<>>
    <2>1. Len(<<>>) = 0
        OBVIOUS
    <2>2. Len(result) # 1 => Len(Tail(result)) # 0
        BY <1>2
    <2> QED BY <2>1, <2>2, Zenon
<1>4. /\ result' = Tail(result) /\ held' = NoHold
      /\ step' = IF Len(result) = 1 THEN "query" ELSE "look"
      /\ command' = IF Len(result) = 1 THEN (command % Len(Runs)) + 1 ELSE command
    BY DEF Advance
<1>5. command' \in DOMAIN Runs
    BY <1>4, NextCommand DEF AccountsInv, Types
<1>6. HoldsUser'
    BY <1>3, <1>4 DEF HoldsUser
<1> QED BY <1>2, <1>4, <1>5, <1>6, NothingHeld DEF S

\* The entry the command is at, and what it has found of it.
LEMMA ThisAndData ==
    ASSUME AccountsInv, step # "query"
    PROVE  /\ this \in Entries /\ data \in Entry /\ data.name \in Names
           /\ data.member \subseteq Memberships /\ data.certs \subseteq Subjects
<1> DEFINE S == [entry : Entries, data : Entry]
<1>1. result \in Seq(S) /\ result # <<>>
    BY DEF AccountsInv, Types, HoldsUser
<1> HIDE DEF S
<1>2. Head(result) \in S
    BY <1>1
<1>3. Head(result) \in [entry : Entries, data : Entry]
    BY <1>2 DEF S
<1> QED BY <1>3 DEF this, data, Entry

\* All of the invariant from its parts.
LEMMA AllKept ==
    ASSUME directory' \in [Entries -> Entry],
           user' \in [Users -> Row \cup {None}], NamesAreUnique', StaffIsActive',
           RowsAreThere', linked' \in [Entries -> Users \cup {None}],
           cert' \in [Subjects -> Certificate \cup {None}],
           HoldsUser', command' \in DOMAIN Runs,
           result' \in Seq([entry : Entries, data : Entry]),
           step' \in {"query", "look", "make", "save", "add", "remove", "certs"},
           held' \in Hold, LoginHolds', login' \in Login,
           changes' \in Nat, logins' \in Nat, faults' \in Nat
    PROVE  AccountsInv'
    BY DEF AccountsInv, Types

-----------------------------------------------------------------------------
(* The steps.                                                              *)

LEMMA AccountsInit == Init => AccountsInv
<1> SUFFICES ASSUME Init PROVE AccountsInv
    OBVIOUS
<1>1. \A e \in Entries : NameBefore[e] \in Names
    BY NamesAssumption DEF NameBefore
<1>2. directory \in [Entries -> Entry]
    BY <1>1, ValuesAssumption DEF Init, Entry
<1>3. linked \in [Entries -> Users \cup {None}] /\ linked = AccountOf
    BY AccountsAssumption DEF Init
<1> DEFINE Of(u) == {e \in Entries : linked[e] = u}
           first(u) == CHOOSE e \in Of(u) : TRUE
           r(u) == [NewRow(NameBefore[first(u)], TRUE) EXCEPT !.groups = {Lvc}]
<1>4. /\ \A u \in Users : user[u] = IF Of(u) = {} THEN None ELSE r(u)
      /\ user = [u \in Users |-> IF Of(u) = {} THEN None ELSE r(u)]
    BY DEF Init
<1>5. ASSUME NEW u \in Users, Of(u) # {}
      PROVE  /\ r(u) \in Row /\ ~ r(u).staff /\ r(u).name = NameBefore[first(u)]
             /\ first(u) \in Entries /\ linked[first(u)] = u
    <2>1. first(u) \in Entries /\ linked[first(u)] = u
        BY <1>5
    <2>2. NameBefore[first(u)] \in Names
        BY <1>1, <2>1
    <2> HIDE DEF first
    <2>3. r(u) \in Row /\ ~ r(u).staff /\ r(u).name = NameBefore[first(u)]
        BY <2>2, ValuesAssumption DEF NewRow, Row
    <2> QED BY <2>1, <2>3
<1> HIDE DEF r, first
<1>6. user \in [Users -> Row \cup {None}]
    BY <1>4, <1>5
<1>7. Rows = {u \in Users : Of(u) # {}}
    BY <1>4, <1>5, ValuesAssumption DEF Rows
<1>8. NamesAreUnique
    <2> SUFFICES ASSUME NEW u \in Rows, NEW v \in Rows, user[u].name = user[v].name PROVE u = v
        BY DEF NamesAreUnique
    <2>1. /\ u \in Users /\ v \in Users /\ Of(u) # {} /\ Of(v) # {}
          /\ NameBefore[first(u)] = NameBefore[first(v)]
        BY <1>4, <1>5, <1>7
    <2>2. /\ first(u) \in Entries /\ first(v) \in Entries
          /\ AccountOf[first(u)] = u /\ AccountOf[first(v)] = v
        BY <1>3, <1>5, <2>1
    <2> QED BY <2>1, <2>2, AccountsAssumption, ValuesAssumption DEF NameBefore
<1>9. StaffIsActive
    BY <1>4, <1>5, <1>7 DEF StaffIsActive, ActiveStaff
<1>10. RowsAreThere
    <2>1. \A s \in Subjects : cert[s] = None
        BY DEF Init
    <2>2. \A e \in Entries : linked[e] # None => linked[e] \in Rows
        BY <1>3, <1>7
    <2> QED BY <2>1, <2>2 DEF RowsAreThere
<1>11. cert \in [Subjects -> Certificate \cup {None}]
    BY DEF Init
<1>12. command \in DOMAIN Runs /\ result \in Seq([entry : Entries, data : Entry])
    BY CommandsAssumption DEF Init, Runs
<1>13. step = "query" /\ held \in Hold /\ login \in Login /\ login.phase = "out"
    BY NothingHeld DEF Init, NoLogin
<1>14. HoldsUser /\ LoginHolds
    BY <1>13 DEF HoldsUser, LoginHolds
<1>15. changes \in Nat /\ logins \in Nat /\ faults \in Nat
    BY DEF Init
<1> QED BY <1>2, <1>3, <1>6, <1>8, <1>9, <1>10, <1>11, <1>12, <1>13, <1>14, <1>15
        DEF AccountsInv, Types

\* The rows, and what is beside the command, stay.
LEMMA OnlyCommand ==
    ASSUME AccountsInv, UNCHANGED <<directory, user, linked, login, bounds>>
    PROVE  /\ directory' \in [Entries -> Entry]
           /\ user' \in [Users -> Row \cup {None}] /\ NamesAreUnique' /\ StaffIsActive'
           /\ Rows' = Rows
           /\ LoginHolds' /\ login' \in Login
           /\ changes' \in Nat /\ logins' \in Nat /\ faults' \in Nat
<1>1. Rows' = Rows
    BY DEF Rows
<1>2. NamesAreUnique' /\ StaffIsActive'
    BY <1>1 DEF AccountsInv, NamesAreUnique, StaffIsActive, ActiveStaff
<1>3. LoginHolds' /\ login' \in Login
    BY <1>1, LoginStays
<1> QED BY <1>1, <1>2, <1>3 DEF AccountsInv, Types, bounds

LEMMA QueryKeeps == ASSUME AccountsInv, Query PROVE AccountsInv'
<1> DEFINE E == {e \in Runs[command].entries : Found(e)}
           S == [entry : Entries, data : Entry]
<1>1. PICK found \in SetToSeqs(E) :
          /\ result' = [i \in DOMAIN found |-> [entry |-> found[i], data |-> directory[found[i]]]]
          /\ step' = IF found = <<>> THEN "query" ELSE "look"
          /\ command' = IF found = <<>> THEN (command % Len(Runs)) + 1 ELSE command
    BY DEF Query
<1>2. UNCHANGED <<directory, user, linked, login, bounds>> /\ UNCHANGED <<cert, held>>
    BY DEF Query, db
<1>3. command \in DOMAIN Runs /\ held \in Hold /\ directory \in [Entries -> Entry]
    BY DEF AccountsInv, Types
<1>4. E \subseteq Entries
    BY <1>3 DEF Entries
<1>5. IsFiniteSet(E)
    BY <1>3, CommandsAssumption, FS_Subset DEF Runs
<1>6. Cardinality(E) \in Nat
    BY <1>5, FS_CardinalityType
<1> HIDE DEF E
<1>7. found \in [1 .. Cardinality(E) -> E]
    BY DEF SetToSeqs
<1>8. found \in Seq(E) /\ DOMAIN found = 1 .. Cardinality(E) /\ Len(found) = Cardinality(E)
    BY <1>6, <1>7
<1>9. \A i \in 1 .. Cardinality(E) : [entry |-> found[i], data |-> directory[found[i]]] \in S
    BY <1>3, <1>4, <1>7
<1> HIDE DEF S
<1>10. result' \in Seq(S) /\ Len(result') = Cardinality(E)
    BY <1>1, <1>6, <1>8, <1>9
<1>11. step' = "look" => result' # <<>>
    <2>1. Len(<<>>) = 0
        OBVIOUS
    <2>2. found # <<>> => Len(found) # 0
        BY <1>8, EmptySeq
    <2> QED BY <1>1, <1>8, <1>10, <2>1, <2>2
<1>12. command' \in DOMAIN Runs
    BY <1>1, <1>3, NextCommand
<1>13. HoldsUser'
    BY <1>1, <1>11 DEF HoldsUser
<1>14. /\ directory' \in [Entries -> Entry]
       /\ user' \in [Users -> Row \cup {None}] /\ NamesAreUnique' /\ StaffIsActive'
       /\ Rows' = Rows /\ LoginHolds' /\ login' \in Login
       /\ changes' \in Nat /\ logins' \in Nat /\ faults' \in Nat
    BY <1>2, OnlyCommand
<1>15. RowsAreThere' /\ linked' \in [Entries -> Users \cup {None}]
       /\ cert' \in [Subjects -> Certificate \cup {None}]
    BY <1>2, <1>14, ReferencesStay
<1>16. held' \in Hold /\ step' \in {"query", "look"}
    BY <1>1, <1>2, <1>3
<1> QED BY <1>10, <1>12, <1>13, <1>14, <1>15, <1>16, AllKept DEF S

\* The row a lookup by name finds.
LEMMA TheNamedIsThere ==
    ASSUME NEW n
    PROVE  /\ TheNamed(n) \in Rows \cup {None}
           /\ TheNamed(n) = None => Named(n) = {}
<1>1. CASE Named(n) = {}
    BY <1>1 DEF TheNamed
<1>2. CASE Named(n) # {}
    <2>1. TheNamed(n) \in Named(n)
        BY <1>2 DEF TheNamed
    <2> QED BY <2>1, ValuesAssumption DEF Named, Rows
<1> QED BY <1>1, <1>2

LEMMA LookKeeps == ASSUME AccountsInv, Look PROVE AccountsInv'
<1>1. step = "look" /\ UNCHANGED <<directory, linked, cert, login, bounds>>
    BY DEF Look
<1>2. /\ this \in Entries /\ data \in Entry /\ data.name \in Names
    BY <1>1, ThisAndData
<1>3. CASE Renamed(this) # None /\ Named(data.name) # {}
    <2>1. Die /\ UNCHANGED user
        BY <1>3 DEF Look
    <2>2. /\ directory' \in [Entries -> Entry]
          /\ user' \in [Users -> Row \cup {None}] /\ NamesAreUnique' /\ StaffIsActive'
          /\ Rows' = Rows /\ LoginHolds' /\ login' \in Login
          /\ changes' \in Nat /\ logins' \in Nat /\ faults' \in Nat
        BY <1>1, <2>1, OnlyCommand
    <2>3. RowsAreThere' /\ linked' \in [Entries -> Users \cup {None}]
          /\ cert' \in [Subjects -> Certificate \cup {None}]
        BY <1>1, <2>2, ReferencesStay
    <2> QED BY <2>1, <2>2, <2>3, DieKeeps, AllKept
<1>4. CASE ~ (Renamed(this) # None /\ Named(data.name) # {})
    <2>1. /\ user' = IF Renamed(this) = None THEN user
                     ELSE [user EXCEPT ![Renamed(this)].name = data.name]
          /\ step' = "make"
          /\ held' = [NoHold EXCEPT !.row = IF linked[this] # None THEN linked[this]
                                            ELSE TheNamed(data.name)]
          /\ UNCHANGED <<command, result>>
        BY <1>4 DEF Look
    <2>2. /\ user' \in [Users -> Row \cup {None}] /\ Rows' = Rows
          /\ NamesAreUnique' /\ StaffIsActive'
        <3>1. CASE Renamed(this) = None
            BY <1>1, <2>1, <3>1, OnlyCommand
               DEF AccountsInv, Types, Rows, NamesAreUnique, StaffIsActive, ActiveStaff
        <3>2. CASE Renamed(this) # None
            <4> DEFINE u == Renamed(this)
                       r == [user[u] EXCEPT !.name = data.name]
            <4>1. u \in Rows
                BY <3>2, TheNamedIsThere DEF Renamed
            <4>2. u \in Users /\ user[u] \in Row /\ user \in [Users -> Row \cup {None}]
                BY <4>1 DEF AccountsInv, Types, Rows
            <4> HIDE DEF u
            <4>3. r \in Row /\ r.name = data.name /\ r.staff = user[u].staff /\ r.active = user[u].active
                BY <1>2, <4>2 DEF Row
            <4>4. user' = [user EXCEPT ![u] = r]
                BY <2>1, <3>2, <4>2 DEF u
            <4>5. ActiveStaff(r)
                BY <4>1, <4>3 DEF AccountsInv, StaffIsActive, ActiveStaff
            <4>6. \A v \in Rows \ {u} : user[v].name # r.name
                BY <1>4, <3>2, <4>3 DEF Named
            <4> HIDE DEF r
            <4>7. /\ user' \in [Users -> Row \cup {None}] /\ Rows' = Rows \cup {u}
                  /\ NamesAreUnique' /\ StaffIsActive'
                BY <4>2, <4>3, <4>4, <4>5, <4>6, WriteRow
            <4> QED BY <4>1, <4>7
        <3> QED BY <3>1, <3>2
    <2>3. held' \in Hold /\ held'.row \in Rows \cup {None}
        <3> DEFINE w == IF linked[this] # None THEN linked[this] ELSE TheNamed(data.name)
        <3>1. w \in Rows \cup {None}
            BY <1>2, TheNamedIsThere DEF AccountsInv, RowsAreThere
        <3>2. held' = [row |-> w, inst |-> None, created |-> FALSE]
            BY <2>1 DEF NoHold
        <3> HIDE DEF w
        <3> QED BY <3>1, <3>2 DEF Hold, Rows
    <2>4. HoldsUser'
        BY <1>1, <2>1, <2>2, <2>3 DEF AccountsInv, HoldsUser
    <2>5. command' \in DOMAIN Runs /\ result' \in Seq([entry : Entries, data : Entry])
        BY <2>1 DEF AccountsInv, Types
    <2>6. RowsAreThere' /\ linked' \in [Entries -> Users \cup {None}]
          /\ cert' \in [Subjects -> Certificate \cup {None}]
        BY <1>1, <2>2, ReferencesStay
    <2>7. LoginHolds' /\ login' \in Login
        BY <1>1, <2>2, LoginStays
    <2>8. /\ directory' \in [Entries -> Entry]
          /\ changes' \in Nat /\ logins' \in Nat /\ faults' \in Nat
        BY <1>1 DEF AccountsInv, Types, bounds
    <2> QED BY <2>1, <2>2, <2>3, <2>4, <2>5, <2>6, <2>7, <2>8, AllKept
<1> QED BY <1>3, <1>4

\* A new row has the name it is made for, and is nobody of the staff.
LEMMA NewRowType ==
    ASSUME NEW n \in Names, NEW a \in BOOLEAN
    PROVE  NewRow(n, a) \in Row /\ NewRow(n, a).name = n /\ ActiveStaff(NewRow(n, a))
    BY DEF NewRow, Row, ActiveStaff

\* A row is made for a name that nobody has.
LEMMA RowIsMade ==
    ASSUME AccountsInv, NEW n \in Names, NEW a \in BOOLEAN, Named(n) = {},
           user' = [user EXCEPT ![FreeRow] = NewRow(n, a)]
    PROVE  /\ FreeRow \in Users
           /\ user' \in [Users -> Row \cup {None}] /\ Rows' = Rows \cup {FreeRow}
           /\ user'[FreeRow] = NewRow(n, a)
           /\ NamesAreUnique' /\ StaffIsActive'
<1>1. FreeRow \in Users
    BY FreeRowIsFree DEF AccountsInv, Types
<1>2. NewRow(n, a) \in Row /\ NewRow(n, a).name = n /\ ActiveStaff(NewRow(n, a))
    BY NewRowType
<1>3. \A v \in Rows \ {FreeRow} : user[v].name # NewRow(n, a).name
    BY <1>2 DEF Named
<1> QED BY <1>1, <1>2, <1>3, WriteRow

LEMMA MakeKeeps == ASSUME AccountsInv, Make PROVE AccountsInv'
<1>1. step = "make" /\ UNCHANGED <<directory, cert, login, bounds>>
    BY DEF Make
<1>2. /\ this \in Entries /\ data \in Entry /\ data.name \in Names
    BY <1>1, ThisAndData
<1>3. CASE held.row = None /\ Named(data.name) # {}
    <2>1. Die /\ UNCHANGED <<user, linked>>
        BY <1>3 DEF Make
    <2>2. /\ directory' \in [Entries -> Entry]
          /\ user' \in [Users -> Row \cup {None}] /\ NamesAreUnique' /\ StaffIsActive'
          /\ Rows' = Rows /\ LoginHolds' /\ login' \in Login
          /\ changes' \in Nat /\ logins' \in Nat /\ faults' \in Nat
        BY <1>1, <2>1, OnlyCommand
    <2>3. RowsAreThere' /\ linked' \in [Entries -> Users \cup {None}]
          /\ cert' \in [Subjects -> Certificate \cup {None}]
        BY <1>1, <2>1, <2>2, ReferencesStay
    <2> QED BY <2>1, <2>2, <2>3, DieKeeps, AllKept
<1>4. CASE ~ (held.row = None /\ Named(data.name) # {})
    <2> DEFINE w == IF held.row = None THEN FreeRow ELSE held.row
    <2>1. /\ user' = IF held.row = None
                     THEN [user EXCEPT ![w] = NewRow(data.name, Lvc \in data.member)]
                     ELSE user
          /\ linked' = [linked EXCEPT ![this] = w]
          /\ held' = [row |-> w, inst |-> user'[w], created |-> held.row = None]
          /\ step' = "save"
          /\ UNCHANGED <<command, result>>
        BY <1>4 DEF Make
    <2>2. /\ user' \in [Users -> Row \cup {None}] /\ Rows \subseteq Rows' /\ w \in Rows'
          /\ NamesAreUnique' /\ StaffIsActive'
        <3>1. CASE held.row = None
            <4>1. user' = [user EXCEPT ![FreeRow] = NewRow(data.name, Lvc \in data.member)]
                BY <2>1, <3>1
            <4>2. (Lvc \in data.member) \in BOOLEAN /\ Named(data.name) = {}
                BY <1>4, <3>1
            <4> QED BY <1>2, <3>1, <4>1, <4>2, RowIsMade
        <3>2. CASE held.row # None
            <4>1. user' = user /\ w \in Rows
                BY <1>1, <2>1, <3>2 DEF AccountsInv, HoldsUser
            <4> QED BY <4>1
                    DEF AccountsInv, Types, Rows, NamesAreUnique, StaffIsActive, ActiveStaff
        <3> QED BY <3>1, <3>2
    <2> HIDE DEF w
    <2>3. w \in Users /\ user'[w] \in Row
        BY <2>2 DEF Rows
    <2>4. held' \in Hold /\ held'.row = w /\ held'.inst \in Row
        BY <2>1, <2>3 DEF Hold
    <2>5. HoldsUser'
        BY <1>1, <2>1, <2>2, <2>4 DEF AccountsInv, HoldsUser
    <2>6. command' \in DOMAIN Runs /\ result' \in Seq([entry : Entries, data : Entry])
        BY <2>1 DEF AccountsInv, Types
    <2>7. linked' \in [Entries -> Users \cup {None}]
        BY <2>1, <2>3 DEF AccountsInv, Types
    <2>8. RowsAreThere'
        <3>1. \A e \in Entries : linked'[e] # None => linked'[e] \in Rows'
            BY <2>1, <2>2 DEF AccountsInv, Types, RowsAreThere
        <3>2. \A c \in Subjects : cert'[c] # None => cert'[c].user \in Rows'
            BY <1>1, <2>2 DEF AccountsInv, RowsAreThere
        <3> QED BY <3>1, <3>2 DEF RowsAreThere
    <2>9. LoginHolds' /\ login' \in Login
        BY <1>1, <2>2, LoginStays
    <2>10. /\ directory' \in [Entries -> Entry] /\ cert' \in [Subjects -> Certificate \cup {None}]
           /\ changes' \in Nat /\ logins' \in Nat /\ faults' \in Nat
        BY <1>1 DEF AccountsInv, Types, bounds
    <2> QED BY <2>1, <2>2, <2>4, <2>5, <2>6, <2>7, <2>8, <2>9, <2>10, AllKept
<1> QED BY <1>3, <1>4

\* Steps of the command that write the rows and then go on.
LEMMA SyncWrites ==
    ASSUME AccountsInv, user' \in [Users -> Row \cup {None}], Rows \subseteq Rows',
           NamesAreUnique', StaffIsActive',
           UNCHANGED <<directory, linked, cert, login, bounds>>,
           HoldsUser', command' \in DOMAIN Runs,
           result' \in Seq([entry : Entries, data : Entry]),
           step' \in {"query", "look", "make", "save", "add", "remove", "certs"},
           held' \in Hold
    PROVE  AccountsInv'
<1>1. RowsAreThere' /\ linked' \in [Entries -> Users \cup {None}]
      /\ cert' \in [Subjects -> Certificate \cup {None}]
    BY ReferencesStay
<1>2. LoginHolds' /\ login' \in Login
    BY LoginStays
<1>3. /\ directory' \in [Entries -> Entry]
      /\ changes' \in Nat /\ logins' \in Nat /\ faults' \in Nat
    BY DEF AccountsInv, Types, bounds
<1> QED BY <1>1, <1>2, <1>3, AllKept

\* The command goes on with the user it holds.
LEMMA GoesOn ==
    ASSUME AccountsInv, step \in {"save", "add", "remove"}, Rows \subseteq Rows',
           step' \in {"add", "remove", "certs"}, UNCHANGED <<command, result, held>>
    PROVE  /\ HoldsUser' /\ command' \in DOMAIN Runs
           /\ result' \in Seq([entry : Entries, data : Entry])
           /\ held' \in Hold
<1>1. HoldsUser'
    BY DEF AccountsInv, HoldsUser
<1> QED BY <1>1 DEF AccountsInv, Types

LEMMA SaveKeeps == ASSUME AccountsInv, Save PROVE AccountsInv'
<1>1. step = "save" /\ UNCHANGED <<directory, linked, cert, login, bounds>>
    BY DEF Save
<1>2. data \in Entry /\ data.name \in Names
    BY <1>1, ThisAndData
<1>3. held.row \in Rows /\ held.inst \in Row
    BY <1>1 DEF AccountsInv, HoldsUser
<1>4. CASE Named(data.name) \ {held.row} # {}
    <2>1. Die /\ UNCHANGED user
        BY <1>4 DEF Save
    <2>2. /\ user' \in [Users -> Row \cup {None}] /\ NamesAreUnique' /\ StaffIsActive'
          /\ Rows' = Rows
        BY <1>1, <2>1, OnlyCommand
    <2> QED BY <1>1, <2>1, <2>2, DieKeeps, SyncWrites
<1>5. CASE Named(data.name) \ {held.row} = {}
    <2> DEFINE u == held.row
               r == [name |-> data.name, active |-> Lvc \in data.member,
                     staff |-> StaffAfter(held.inst), groups |-> user[u].groups]
    <2>1. /\ user' = IF held.created THEN user ELSE [user EXCEPT ![u] = r]
          /\ step' = "add" /\ UNCHANGED <<command, result, held>>
        BY <1>3, <1>5 DEF Save, AccountsInv, Types, Rows
    <2>2. /\ user' \in [Users -> Row \cup {None}] /\ Rows' = Rows
          /\ NamesAreUnique' /\ StaffIsActive'
        <3>1. CASE held.created
            BY <2>1, <3>1 DEF AccountsInv, Types, Rows, NamesAreUnique, StaffIsActive, ActiveStaff
        <3>2. CASE ~ held.created
            <4>1. u \in Users /\ u \in Rows /\ user[u] \in Row
                BY <1>3 DEF AccountsInv, Types, Rows
            <4> HIDE DEF u
            <4>2. StaffAfter(held.inst) \in BOOLEAN /\ user[u].groups \in SUBSET (Memberships \cup {Manual})
                BY <1>3, <4>1 DEF StaffAfter, Row
            <4>3. r \in Row /\ r.name = data.name /\ ActiveStaff(r)
                <5> DEFINE s == StaffAfter(held.inst)
                           a == Lvc \in data.member
                <5>1. s \in BOOLEAN /\ a \in BOOLEAN /\ (s => a)
                    BY <4>2 DEF StaffAfter
                <5>2. r = [name |-> data.name, active |-> a, staff |-> s, groups |-> user[u].groups]
                    OBVIOUS
                <5> HIDE DEF s, a, r
                <5> QED BY <1>2, <4>2, <5>1, <5>2 DEF Row, ActiveStaff
            <4>4. \A v \in Rows \ {u} : user[v].name # r.name
                BY <1>5, <4>3 DEF Named, u
            <4>5. user' = [user EXCEPT ![u] = r]
                BY <2>1, <3>2
            <4> HIDE DEF r
            <4>6. /\ user' \in [Users -> Row \cup {None}] /\ Rows' = Rows \cup {u}
                  /\ NamesAreUnique' /\ StaffIsActive'
                BY <4>1, <4>3, <4>4, <4>5, WriteRow
            <4> QED BY <4>1, <4>6
        <3> QED BY <3>1, <3>2
    <2>3. /\ HoldsUser' /\ command' \in DOMAIN Runs
          /\ result' \in Seq([entry : Entries, data : Entry]) /\ held' \in Hold
        BY <1>1, <2>1, <2>2, GoesOn
    <2> QED BY <1>1, <2>1, <2>2, <2>3, SyncWrites
<1> QED BY <1>4, <1>5

LEMMA AddGroupsKeeps == ASSUME AccountsInv, AddGroups PROVE AccountsInv'
<1>1. /\ step = "add" /\ step' = "remove" /\ UNCHANGED <<command, result, held>>
      /\ UNCHANGED <<directory, linked, cert, login, bounds>>
      /\ user' = [user EXCEPT ![held.row].groups = @ \cup data.member]
    BY DEF AddGroups
<1>2. data.member \subseteq Memberships
    BY <1>1, ThisAndData
<1>3. held.row \in Rows /\ user[held.row] \in Row /\ user \in [Users -> Row \cup {None}]
    BY <1>1 DEF AccountsInv, HoldsUser, Rows, Types
<1> DEFINE g == user[held.row].groups \cup data.member
<1>4. g \in SUBSET (Memberships \cup {Manual})
    BY <1>2, <1>3 DEF Row
<1>5. user' = [user EXCEPT ![held.row].groups = g]
    BY <1>1, <1>3 DEF Rows
<1> HIDE DEF g
<1>6. /\ user' \in [Users -> Row \cup {None}] /\ Rows' = Rows
      /\ NamesAreUnique' /\ StaffIsActive'
    BY <1>3, <1>4, <1>5, WriteGroups
<1>7. /\ HoldsUser' /\ command' \in DOMAIN Runs
      /\ result' \in Seq([entry : Entries, data : Entry]) /\ held' \in Hold
    BY <1>1, <1>6, GoesOn
<1> QED BY <1>1, <1>6, <1>7, SyncWrites

LEMMA RemoveGroupsKeeps == ASSUME AccountsInv, RemoveGroups PROVE AccountsInv'
<1>1. /\ step = "remove" /\ UNCHANGED <<directory, linked, cert, login, bounds>>
      /\ user' = [user EXCEPT ![held.row].groups = @ \ Leaves(@)]
      /\ Advance \/ (step' = "certs" /\ UNCHANGED <<command, result, held>>)
    BY DEF RemoveGroups
<1>2. held.row \in Rows /\ user[held.row] \in Row /\ user \in [Users -> Row \cup {None}]
    BY <1>1 DEF AccountsInv, HoldsUser, Rows, Types
<1> DEFINE g == user[held.row].groups \ Leaves(user[held.row].groups)
<1>3. g \in SUBSET (Memberships \cup {Manual})
    BY <1>2 DEF Row
<1>4. user' = [user EXCEPT ![held.row].groups = g]
    BY <1>1, <1>2 DEF Rows
<1> HIDE DEF g
<1>5. /\ user' \in [Users -> Row \cup {None}] /\ Rows' = Rows
      /\ NamesAreUnique' /\ StaffIsActive'
    BY <1>2, <1>3, <1>4, WriteGroups
<1>6. /\ HoldsUser' /\ command' \in DOMAIN Runs
      /\ result' \in Seq([entry : Entries, data : Entry]) /\ held' \in Hold
      /\ step' \in {"query", "look", "make", "save", "add", "remove", "certs"}
    <2>1. CASE Advance
        BY <1>1, <2>1, AdvanceKeeps
    <2>2. CASE step' = "certs" /\ UNCHANGED <<command, result, held>>
        BY <1>1, <1>5, <2>2, GoesOn
    <2> QED BY <1>1, <2>1, <2>2
<1> QED BY <1>1, <1>5, <1>6, SyncWrites

LEMMA CertificatesKeeps == ASSUME AccountsInv, Certificates PROVE AccountsInv'
<1>1. step = "certs" /\ Advance /\ UNCHANGED <<directory, user, linked, login, bounds>>
    BY DEF Certificates
<1>2. this \in Entries
    BY <1>1, ThisAndData
<1>3. held.row \in Rows
    BY <1>1 DEF AccountsInv, HoldsUser
<1>4. /\ directory' \in [Entries -> Entry]
      /\ user' \in [Users -> Row \cup {None}] /\ NamesAreUnique' /\ StaffIsActive'
      /\ Rows' = Rows /\ LoginHolds' /\ login' \in Login
      /\ changes' \in Nat /\ logins' \in Nat /\ faults' \in Nat
    BY <1>1, OnlyCommand
<1>5. /\ HoldsUser' /\ command' \in DOMAIN Runs
      /\ result' \in Seq([entry : Entries, data : Entry]) /\ held' \in Hold
      /\ step' \in {"query", "look", "make", "save", "add", "remove", "certs"}
    BY <1>1, AdvanceKeeps
<1>6. ASSUME NEW s \in Subjects
      PROVE  Assigned[s] = None \/ (Assigned[s] \in Certificate /\ Assigned[s].user \in Rows)
    <2>1. cert[s] = None \/ (cert[s] \in Certificate /\ cert[s].user \in Rows)
        BY DEF AccountsInv, Types, RowsAreThere
    <2>2. \/ Assigned[s] = cert[s]
          \/ cert[s] # None /\ Assigned[s] = [cert[s] EXCEPT !.entry = this]
        BY DEF Assigned
    <2> QED BY <1>2, <2>1, <2>2 DEF Certificate
<1>7. ASSUME NEW s \in Subjects
      PROVE  cert'[s] = None \/ (cert'[s] \in Certificate /\ cert'[s].user \in Rows)
    <2>1. \/ cert'[s] = [user |-> held.row, entry |-> this]
          \/ cert'[s] = None
          \/ cert'[s] = Assigned[s]
        <3> DEFINE known(t) == IF LdapOf[this] = "kagra" THEN cert[t] # None /\ cert[t].user = held.row
                               ELSE Assigned[t] # None /\ Assigned[t].entry = this
        <3>1. cert' = [t \in Subjects |->
                 CASE t \in data.certs /\ ~ known(t)  -> [user |-> held.row, entry |-> this]
                   [] t \notin data.certs /\ known(t)
                        /\ Assigned[t].entry = this   -> None
                   [] OTHER                           -> Assigned[t]]
            BY DEF Certificates
        <3> HIDE DEF known
        <3>2. cert'[s] = CASE s \in data.certs /\ ~ known(s)  -> [user |-> held.row, entry |-> this]
                           [] s \notin data.certs /\ known(s)
                                /\ Assigned[s].entry = this   -> None
                           [] OTHER                           -> Assigned[s]
            BY <3>1
        <3> QED BY <3>2
    <2> QED BY <1>2, <1>3, <1>6, <2>1 DEF Certificate, Rows
<1>8. DOMAIN cert' = Subjects /\ cert' = [s \in Subjects |-> cert'[s]]
    BY DEF Certificates
<1>9. cert' \in [Subjects -> Certificate \cup {None}]
    BY <1>7, <1>8
<1>10. RowsAreThere' /\ linked' \in [Entries -> Users \cup {None}]
    BY <1>1, <1>4, <1>7 DEF AccountsInv, Types, RowsAreThere
<1> QED BY <1>4, <1>5, <1>9, <1>10, AllKept

LEMMA AbortKeeps == ASSUME AccountsInv, Abort PROVE AccountsInv'
<1>1. Die /\ faults' = faults + 1 /\ UNCHANGED <<directory, user, linked, cert, login, changes, logins>>
    BY DEF Abort, db
<1>2. /\ user' \in [Users -> Row \cup {None}] /\ Rows' = Rows
      /\ NamesAreUnique' /\ StaffIsActive'
    BY <1>1 DEF AccountsInv, Types, Rows, NamesAreUnique, StaffIsActive, ActiveStaff
<1>3. RowsAreThere' /\ linked' \in [Entries -> Users \cup {None}]
      /\ cert' \in [Subjects -> Certificate \cup {None}] /\ LoginHolds' /\ login' \in Login
    BY <1>1, <1>2, ReferencesStay, LoginStays
<1>4. /\ directory' \in [Entries -> Entry]
      /\ changes' \in Nat /\ logins' \in Nat /\ faults' \in Nat
    BY <1>1 DEF AccountsInv, Types
<1> QED BY <1>1, <1>2, <1>3, <1>4, DieKeeps, AllKept

\* Steps beside the command that write the rows.
LEMMA LoginWrites ==
    ASSUME AccountsInv, user' \in [Users -> Row \cup {None}], Rows \subseteq Rows',
           NamesAreUnique', StaffIsActive', UNCHANGED <<directory, linked, cert, sync>>,
           LoginHolds', login' \in Login, changes' \in Nat, logins' \in Nat, faults' \in Nat
    PROVE  AccountsInv'
<1>1. RowsAreThere' /\ linked' \in [Entries -> Users \cup {None}]
      /\ cert' \in [Subjects -> Certificate \cup {None}]
    BY ReferencesStay
<1>2. directory' \in [Entries -> Entry]
    BY DEF AccountsInv, Types
<1>3. /\ HoldsUser' /\ command' \in DOMAIN Runs
      /\ result' \in Seq([entry : Entries, data : Entry])
      /\ step' \in {"query", "look", "make", "save", "add", "remove", "certs"}
      /\ held' \in Hold
    BY CommandStays
<1> QED BY <1>1, <1>2, <1>3, AllKept

LEMMA LogInKeeps == ASSUME AccountsInv, NEW e \in Entries, LogIn(e) PROVE AccountsInv'
<1> DEFINE n == directory[e].name
           w == IF Named(n) = {} THEN FreeRow ELSE TheNamed(n)
<1>1. /\ logins' = logins + 1 /\ UNCHANGED <<directory, linked, cert, sync, changes, faults>>
      /\ user' = IF Named(n) = {} THEN [user EXCEPT ![w] = NewRow(n, TRUE)] ELSE user
      /\ login' = [phase |-> "update", row |-> w, inst |-> user'[w], name |-> n,
                   member |-> directory[e].member]
    BY DEF LogIn
<1>2. n \in Names /\ directory[e].member \subseteq Memberships
    BY DEF AccountsInv, Types, Entry
<1>3. /\ user' \in [Users -> Row \cup {None}] /\ Rows \subseteq Rows' /\ w \in Rows'
      /\ NamesAreUnique' /\ StaffIsActive'
    <2>1. CASE Named(n) = {}
        <3>1. user' = [user EXCEPT ![FreeRow] = NewRow(n, TRUE)]
            BY <1>1, <2>1
        <3> HIDE DEF n
        <3> QED BY <1>2, <2>1, <3>1, RowIsMade
    <2>2. CASE Named(n) # {}
        <3>1. user' = user /\ w = TheNamed(n)
            BY <1>1, <2>2
        <3>2. w \in Rows
            <4>1. TheNamed(n) \in Named(n)
                BY <2>2 DEF TheNamed
            <4> QED BY <3>1, <4>1 DEF Named
        <3> QED BY <3>1, <3>2
                DEF AccountsInv, Types, Rows, NamesAreUnique, StaffIsActive, ActiveStaff
    <2> QED BY <2>1, <2>2
<1> HIDE DEF n, w
<1>4. w \in Users /\ user'[w] \in Row /\ ActiveStaff(user'[w])
    BY <1>3 DEF Rows, StaffIsActive, ActiveStaff
<1>5. LoginHolds' /\ login' \in Login
    <2>1. login'.row = w /\ login'.inst = user'[w]
        BY <1>1
    <2>2. login' \in Login
        BY <1>1, <1>2, <1>4 DEF Login
    <2> QED BY <1>3, <1>4, <2>1, <2>2 DEF LoginHolds, ActiveStaff
<1>6. changes' \in Nat /\ logins' \in Nat /\ faults' \in Nat
    BY <1>1 DEF AccountsInv, Types
<1> QED BY <1>1, <1>3, <1>5, <1>6, LoginWrites

\* A login that goes on, or is over.
LEMMA LoginGoesOn ==
    ASSUME AccountsInv, login.phase # "out", Rows \subseteq Rows',
           login' = NoLogin \/ \E p \in {"add", "remove"} : login' = [login EXCEPT !.phase = p]
    PROVE  LoginHolds' /\ login' \in Login
<1>1. CASE login' = NoLogin
    BY <1>1, NothingHeld DEF LoginHolds, NoLogin
<1>2. ASSUME NEW p \in {"add", "remove"}, login' = [login EXCEPT !.phase = p]
      PROVE  LoginHolds' /\ login' \in Login
    <2>1. login \in Login
        BY DEF AccountsInv, Types
    <2>2. login' \in Login /\ login'.row = login.row /\ login'.inst = login.inst
        BY <1>2, <2>1 DEF Login
    <2> QED BY <2>2 DEF AccountsInv, LoginHolds, ActiveStaff
<1> QED BY <1>1, <1>2

LEMMA UpdateFromSessionKeeps == ASSUME AccountsInv, UpdateFromSession PROVE AccountsInv'
<1>1. /\ login.phase = "update" /\ UNCHANGED <<directory, linked, cert, sync, bounds>>
      /\ login' = NoLogin \/ login' = [login EXCEPT !.phase = "add"]
      /\ \/ UNCHANGED user
         \/ /\ Named(login.inst.name) \ {login.row} = {}
            /\ user' = [user EXCEPT ![login.row] =
                          [login.inst EXCEPT !.groups = user[login.row].groups]]
    BY DEF UpdateFromSession
<1>2. login.row \in Rows /\ login.inst \in Row /\ ActiveStaff(login.inst)
    BY <1>1 DEF AccountsInv, LoginHolds
<1>3. /\ user' \in [Users -> Row \cup {None}] /\ Rows' = Rows
      /\ NamesAreUnique' /\ StaffIsActive'
    <2>1. CASE UNCHANGED user
        BY <2>1 DEF AccountsInv, Types, Rows, NamesAreUnique, StaffIsActive, ActiveStaff
    <2>2. CASE /\ Named(login.inst.name) \ {login.row} = {}
               /\ user' = [user EXCEPT ![login.row] =
                             [login.inst EXCEPT !.groups = user[login.row].groups]]
        <3> DEFINE u == login.row
                   r == [login.inst EXCEPT !.groups = user[u].groups]
        <3>1. u \in Users /\ user[u] \in Row
            BY <1>2 DEF Rows, AccountsInv, Types
        <3>2. r \in Row /\ r.name = login.inst.name /\ ActiveStaff(r)
            <4> HIDE DEF u
            <4> QED BY <1>2, <3>1 DEF Row, ActiveStaff
        <3>3. \A v \in Rows \ {u} : user[v].name # r.name
            BY <2>2, <3>2 DEF Named
        <3>4. user' = [user EXCEPT ![u] = r]
            BY <2>2
        <3> HIDE DEF r, u
        <3>5. /\ user' \in [Users -> Row \cup {None}] /\ Rows' = Rows \cup {u}
              /\ NamesAreUnique' /\ StaffIsActive'
            BY <3>1, <3>2, <3>3, <3>4, WriteRow
        <3> QED BY <1>2, <3>5 DEF u
    <2> QED BY <1>1, <2>1, <2>2
<1>4. LoginHolds' /\ login' \in Login
    BY <1>1, <1>3, LoginGoesOn
<1>5. changes' \in Nat /\ logins' \in Nat /\ faults' \in Nat
    BY <1>1 DEF AccountsInv, Types, bounds
<1> QED BY <1>1, <1>3, <1>4, <1>5, LoginWrites

\* A login that writes the groups of its row.
LEMMA GroupsFromSession ==
    ASSUME AccountsInv, login.phase # "out", NEW g \in SUBSET (Memberships \cup {Manual}),
           user' = [user EXCEPT ![login.row].groups = g],
           login' = NoLogin \/ login' = [login EXCEPT !.phase = "remove"],
           UNCHANGED <<directory, linked, cert, sync, bounds>>
    PROVE  AccountsInv'
<1>1. login.row \in Rows
    BY DEF AccountsInv, LoginHolds
<1>2. /\ user' \in [Users -> Row \cup {None}] /\ Rows' = Rows
      /\ NamesAreUnique' /\ StaffIsActive'
    BY <1>1, WriteGroups
<1>3. LoginHolds' /\ login' \in Login
    BY <1>2, LoginGoesOn
<1>4. changes' \in Nat /\ logins' \in Nat /\ faults' \in Nat
    BY DEF AccountsInv, Types, bounds
<1> QED BY <1>2, <1>3, <1>4, LoginWrites

LEMMA AddFromSessionKeeps == ASSUME AccountsInv, AddFromSession PROVE AccountsInv'
<1>1. /\ login.phase = "add" /\ UNCHANGED <<directory, linked, cert, sync, bounds>>
      /\ login' = [login EXCEPT !.phase = "remove"]
      /\ user' = [user EXCEPT ![login.row].groups = @ \cup login.member]
    BY DEF AddFromSession
<1>2. login.row \in Rows /\ login \in Login /\ user \in [Users -> Row \cup {None}]
    BY <1>1 DEF AccountsInv, LoginHolds, Types
<1>3. login.row \in Users /\ user[login.row] \in Row /\ login.member \subseteq Memberships
    BY <1>2 DEF Rows, Login
<1> DEFINE g == user[login.row].groups \cup login.member
<1>4. g \in SUBSET (Memberships \cup {Manual})
    BY <1>3 DEF Row
<1>5. user' = [user EXCEPT ![login.row].groups = g]
    BY <1>1, <1>2, <1>3
<1> HIDE DEF g
<1> QED BY <1>1, <1>4, <1>5, GroupsFromSession

LEMMA RemoveFromSessionKeeps == ASSUME AccountsInv, RemoveFromSession PROVE AccountsInv'
<1>1. /\ login.phase = "remove" /\ UNCHANGED <<directory, linked, cert, sync, bounds>>
      /\ login' = NoLogin
      /\ user' = [user EXCEPT ![login.row].groups = @ \ (WithLdapName \ login.member)]
    BY DEF RemoveFromSession
<1>2. login.row \in Rows /\ user \in [Users -> Row \cup {None}]
    BY <1>1 DEF AccountsInv, LoginHolds, Types
<1>3. login.row \in Users /\ user[login.row] \in Row
    BY <1>2 DEF Rows
<1> DEFINE g == user[login.row].groups \ (WithLdapName \ login.member)
<1>4. g \in SUBSET (Memberships \cup {Manual})
    BY <1>3 DEF Row
<1>5. user' = [user EXCEPT ![login.row].groups = g]
    BY <1>1, <1>2, <1>3
<1> HIDE DEF g
<1> QED BY <1>1, <1>4, <1>5, GroupsFromSession

LEMMA ChangeEntryKeeps == ASSUME AccountsInv, NEW e \in Entries, ChangeEntry(e) PROVE AccountsInv'
<1>1. /\ changes' = changes + 1 /\ UNCHANGED <<user, linked, cert, sync, login, logins, faults>>
      /\ \/ \E m \in Memberships :
                directory' = [directory EXCEPT ![e].member =
                                IF m \in directory[e].member THEN directory[e].member \ {m}
                                ELSE directory[e].member \cup {m}]
         \/ directory' = [directory EXCEPT ![e].name = NameAfter[e]]
         \/ \E s \in Subjects :
                directory' = [directory EXCEPT ![e].certs = IF s \in @ THEN @ \ {s} ELSE @ \cup {s}]
    BY DEF ChangeEntry, db
<1>2. directory \in [Entries -> Entry] /\ directory[e] \in Entry /\ NameAfter[e] \in Names
    BY NamesAssumption DEF AccountsInv, Types, NameAfter
<1>3. directory' \in [Entries -> Entry]
    <2>1. ASSUME NEW m \in Memberships,
                 directory' = [directory EXCEPT ![e].member =
                                 IF m \in directory[e].member THEN directory[e].member \ {m}
                                 ELSE directory[e].member \cup {m}]
          PROVE  directory' \in [Entries -> Entry]
        BY <1>2, <2>1 DEF Entry
    <2>2. CASE directory' = [directory EXCEPT ![e].name = NameAfter[e]]
        BY <1>2, <2>2 DEF Entry
    <2>3. ASSUME NEW s \in Subjects,
                 directory' = [directory EXCEPT ![e].certs = IF s \in @ THEN @ \ {s} ELSE @ \cup {s}]
          PROVE  directory' \in [Entries -> Entry]
        BY <1>2, <2>3 DEF Entry
    <2> QED BY <1>1, <2>1, <2>2, <2>3
<1>4. /\ user' \in [Users -> Row \cup {None}] /\ Rows' = Rows
      /\ NamesAreUnique' /\ StaffIsActive'
    BY <1>1 DEF AccountsInv, Types, Rows, NamesAreUnique, StaffIsActive, ActiveStaff
<1>5. /\ RowsAreThere' /\ linked' \in [Entries -> Users \cup {None}]
      /\ cert' \in [Subjects -> Certificate \cup {None}] /\ LoginHolds' /\ login' \in Login
    BY <1>1, <1>4, ReferencesStay, LoginStays
<1>6. /\ HoldsUser' /\ command' \in DOMAIN Runs
      /\ result' \in Seq([entry : Entries, data : Entry])
      /\ step' \in {"query", "look", "make", "save", "add", "remove", "certs"}
      /\ held' \in Hold
    BY <1>1, <1>4, CommandStays
<1>7. changes' \in Nat /\ logins' \in Nat /\ faults' \in Nat
    BY <1>1 DEF AccountsInv, Types
<1> QED BY <1>3, <1>4, <1>5, <1>6, <1>7, AllKept

LEMMA AppointKeeps == ASSUME AccountsInv, NEW u \in Users, Appoint(u) PROVE AccountsInv'
<1>1. /\ user[u] # None /\ user[u].active /\ changes' = changes + 1
      /\ user' = [user EXCEPT ![u].staff = TRUE, ![u].groups = @ \cup {Manual}]
      /\ UNCHANGED <<directory, linked, cert, sync, login, logins, faults>>
    BY DEF Appoint
<1>2. u \in Rows /\ user[u] \in Row /\ user \in [Users -> Row \cup {None}]
    BY <1>1 DEF AccountsInv, Types, Rows
<1> DEFINE r == [user[u] EXCEPT !.staff = TRUE, !.groups = user[u].groups \cup {Manual}]
<1>3. r \in Row /\ r.name = user[u].name /\ ActiveStaff(r)
    BY <1>1, <1>2 DEF Row, ActiveStaff
<1>4. \A v \in Rows \ {u} : user[v].name # r.name
    BY <1>2, <1>3 DEF AccountsInv, NamesAreUnique
<1>5. user' = [user EXCEPT ![u] = r]
    BY <1>1, <1>2
<1> HIDE DEF r
<1>6. /\ user' \in [Users -> Row \cup {None}] /\ Rows' = Rows \cup {u}
      /\ NamesAreUnique' /\ StaffIsActive'
    BY <1>3, <1>4, <1>5, WriteRow
<1>7. LoginHolds' /\ login' \in Login
    BY <1>1, <1>6, LoginStays
<1>8. changes' \in Nat /\ logins' \in Nat /\ faults' \in Nat
    BY <1>1 DEF AccountsInv, Types
<1> QED BY <1>1, <1>6, <1>7, <1>8, LoginWrites

LEMMA AccountsStep == ASSUME AccountsInv, [Next]_vars PROVE AccountsInv'
<1>1. CASE UNCHANGED vars
    <2>1. UNCHANGED <<directory, user, linked, login, bounds>> /\ UNCHANGED sync /\ UNCHANGED cert
        BY <1>1 DEF vars, bounds, sync
    <2>2. /\ directory' \in [Entries -> Entry]
          /\ user' \in [Users -> Row \cup {None}] /\ NamesAreUnique' /\ StaffIsActive'
          /\ Rows' = Rows /\ LoginHolds' /\ login' \in Login
          /\ changes' \in Nat /\ logins' \in Nat /\ faults' \in Nat
        BY <2>1, OnlyCommand
    <2> QED BY <2>1, <2>2, LoginWrites
<1>2. CASE Sync
    BY <1>2, QueryKeeps, LookKeeps, MakeKeeps, SaveKeeps, AddGroupsKeeps, RemoveGroupsKeeps,
       CertificatesKeeps DEF Sync
<1>3. CASE FinishLogin
    BY <1>3, UpdateFromSessionKeeps, AddFromSessionKeeps, RemoveFromSessionKeeps DEF FinishLogin
<1> QED BY <1>1, <1>2, <1>3, AbortKeeps, LogInKeeps, ChangeEntryKeeps, AppointKeeps DEF Next

-----------------------------------------------------------------------------
(* The theorem.                                                            *)

\* However the synchronisation, logins and administrators write the same rows, names of users
\* stay unique, links and certificates refer to users there are, and nobody is staff who is
\* not active.
THEOREM AccountsStayInOrder == Spec => []AccountsInOrder
<1>1. AccountsInv => AccountsInOrder
    BY DEF AccountsInv, Types, NamesAreUnique, RowsAreThere, StaffIsActive, ActiveStaff,
           AccountsInOrder, Named
<1> QED BY <1>1, AccountsInit, AccountsStep, PTL DEF Spec
=============================================================================
