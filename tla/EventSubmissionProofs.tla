------------------------ MODULE EventSubmissionProofs ------------------------
(***************************************************************************)
(* Proofs about EventSubmission, for any number of workers, requests and   *)
(* faults, any groups and any uploads.                                     *)
(*                                                                         *)
(* A request is the list of the steps it has still to run.  The invariant  *)
(* says of such a list, whatever is left of it, what its steps will do to  *)
(* the rows, the files, the log messages and the column that caches them,  *)
(* and what a request has done that comes to the end of its list.          *)
(***************************************************************************)
EXTENDS EventSubmission, FiniteSetTheorems, SequenceTheorems, TLAPS

\* The bounds are numbers, None is no event, and the labels are finitely many.
Sane == /\ MaxUploads \in Nat /\ MaxRequests \in Nat /\ MaxFaults \in Nat
        /\ None \notin Row /\ IsFiniteSet(LabelNames)

-----------------------------------------------------------------------------
(* The inductive invariant.                                                *)

Deletes == {"delete row", "rmtree", "delete perms"}
PlainKinds == Deletes \cup {"insert", "underlying", "refresh under", "refresh", "mkdir", "reload",
                            "new", "resave", "alert", "end"}

\* Every step a list of a request can have.
AnyStep == [do : PlainKinds]
           \cup [do : {"give"}, of : {"sub", "base"}, groups : SUBSET Groups]
           \cup [do : {"take"}, of : {"sub", "base"}, group : Groups]
           \cup [do : {"label"}, label : LabelNames]
           \cup [do : {"log"}, file : Files, version : Nat]
           \cup [do : {"write"}, file : Files]
           \cup [do : {"save"}, far : Fars]
           \cup [do : {"store"}, up : Submitted, new : BOOLEAN]

\* The variables whose types TypeOK leaves open.
Types ==
    /\ todo \in [Workers -> Seq(AnyStep)]
    /\ inst \in [Workers -> Row] /\ under \in [Workers -> Row]
    /\ files \in [Files -> Nat]
    /\ logs \in Seq([file : Files, version : Nat])
    /\ want \in [sv : BOOLEAN, far : Fars \cup {None}]
    /\ dir \in BOOLEAN /\ announced \in BOOLEAN /\ crashed \in BOOLEAN /\ calm \in BOOLEAN
    /\ refused \in BOOLEAN

\* Steps that save the instance of the request, and those that write the row.
Saves == {"insert", "save", "resave", "refresh"}
Writes == Saves \cup {"refresh under"}
OnBase(s) == s.do \in {"give", "take"} /\ s.of = "base"

\* What a list of steps has, and has before its i-th.
Has(t, kinds) == \E i \in 1 .. Len(t) : t[i].do \in kinds
HasBefore(t, i, d) == \E j \in 1 .. i - 1 : t[j].do = d

\* An event is inserted first, a request ends last, and when the alert for a new event is out
\* there is nothing to come but labels.
WellMade(t, specific) ==
    /\ \A i \in 1 .. Len(t) : t[i].do = "insert" => i = 1
    /\ \A i \in 1 .. Len(t) : t[i].do = "end" => i = Len(t)
    /\ \A i, j \in 1 .. Len(t) : i < j /\ t[i].do = "new" => t[j].do \in {"label", "end"}
    /\ \A i \in 1 .. Len(t) : t[i].do \in {"give", "take"} /\ t[i].of = "sub" => specific

\* The version that the i-th step logs will be there when it does, given the versions there are.
LogComes(t, i, versions) ==
    LET f == t[i].file
        v == t[i].version
    IN  \/ v < versions[f]
        \/ v <= versions[f] /\ \E j \in 1 .. i - 1 : t[j] = Write(f)
        \/ v = 1 /\ \E k \in 1 .. i - 1 :
                       t[k] = Write(f) /\ \E j \in 1 .. k - 1 : t[j].do = "store" /\ t[j].up.name = f

LogsCome(t, versions) == \A i \in 1 .. Len(t) : t[i].do = "log" => LogComes(t, i, versions)

\* The rests of a submission that is undone.
Ended == <<Do("end")>>
LeavesPerms == <<Do("delete perms"), Do("end")>>
LeavesDir == <<Do("rmtree"), Do("delete perms"), Do("end")>>
LeavesAll == <<Do("delete row"), Do("rmtree"), Do("delete perms"), Do("end")>>

\* Nothing has happened.
Blank == /\ row = None /\ sub = {} /\ base = {} /\ ~ dir /\ files = [f \in Files |-> 0]
         /\ logs = <<>> /\ labels = {} /\ faults = 0
         /\ ~ announced /\ ~ crashed /\ ~ refused /\ calm
         /\ want = [sv |-> FALSE, far |-> None]

Alone(w) == \A v \in Workers \ {w} : Idle(v)

\* The request is on its way back.
Undoes(t, gone) == t = LeavesAll \/ (gone /\ t \in {LeavesDir, LeavesPerms})

\* What the steps a request has left rely on, whatever else overlaps or fails.
Going(w) ==
    /\ WellMade(todo[w], subclass)
    /\ ~ refused => LogsCome(todo[w], files)
    /\ Has(todo[w], Deletes) => Undoes(todo[w], refused)
    /\ Has(todo[w], {"insert"}) => /\ Blank /\ requests = 1 /\ Alone(w)
                                   /\ Has(todo[w], {"mkdir"}) /\ inst[w] = Fresh

\* How many requests are at work, and what they can still do.
Turns ==
    /\ requests = 0 => Blank /\ Rest
    /\ calm \/ requests = 1 => \A v, w \in Workers : ~ Idle(v) /\ ~ Idle(w) => v = w
    /\ calm => \A w \in Workers : IsUndone(todo[w]) => faults = 0
    /\ requests = 1 /\ announced => \A w \in Workers : ~ Has(todo[w], Writes \cup {"new"})

\* What a failed submission has left so far.
Own == IF subclass THEN sub ELSE base

Undone ==
    (calm /\ ~ crashed /\ refused /\ faults = 1) =>
        /\ requests > 0
        /\ row = None /\ logs = <<>> /\ labels = {}
        /\ \A w \in Workers : todo[w] \in {<<>>, Ended, LeavesDir, LeavesPerms}
        /\ ~ dir \/ \E w \in Workers : todo[w] = LeavesDir
        /\ Own = {} \/ \E w \in Workers : todo[w] \in {LeavesDir, LeavesPerms}

\* While nothing overlaps and nothing fails.  There is a directory to write to.
Needs(t, there) ==
    /\ \A i \in 1 .. Len(t) : t[i].do \in {"store", "write"} => there \/ HasBefore(t, i, "mkdir")
    /\ ~ Has(t, Deletes)

\* The cache is right, or will be, and what is saved after that has it right.
RefreshedLater(t) ==
    \/ \E i \in 1 .. Len(t) :
           /\ t[i].do = "refresh"
           /\ \A j \in i + 1 .. Len(t) : ~ OnBase(t[j]) /\ t[j].do # "refresh under"
    \/ \E i \in 1 .. Len(t) :
           /\ t[i].do = "refresh under"
           /\ \A j \in i + 1 .. Len(t) : ~ OnBase(t[j]) /\ t[j].do \notin Writes

Cached(t, r, i, b) ==
    \/ RefreshedLater(t)
    \/ /\ r # None /\ r.cache = b
       /\ \A j \in 1 .. Len(t) : ~ OnBase(t[j]) /\ t[j].do # "refresh under"
       /\ Has(t, Saves) => i.cache = b

\* The permissions of the subclass are among those of the event, once all steps are done.
Gives(t, of) == UNION {t[i].groups : i \in {j \in 1 .. Len(t) : t[j].do = "give" /\ t[j].of = of}}
Takes(t, of) == {t[i].group : i \in {j \in 1 .. Len(t) : t[j].do = "take" /\ t[j].of = of}}

Shown(t, s, b) ==
    \/ ~ Has(t, {"take"}) /\ s \cup Gives(t, "sub") \subseteq b \cup Gives(t, "base")
    \/ ~ Has(t, {"give"}) /\ s \ Takes(t, "sub") \subseteq b \ Takes(t, "base")

\* What will be saved has the superevent and the FAR that are wanted.
AsWanted(r, wanted) == r.sv = wanted.sv /\ r.far = wanted.far

Kept(t, i, u, wanted) ==
    /\ Has(t, Saves) => AsWanted(i, wanted)
    /\ \A k \in 1 .. Len(t) : t[k].do = "refresh under" =>
          /\ HasBefore(t, k, "underlying") \/ AsWanted(u, wanted)
          /\ ~ HasBefore(t, k, "save")

Undisturbed ==
    calm /\ faults = 0 =>
        /\ ~ refused
        /\ \A w \in Workers : ~ Idle(w) =>
               /\ Needs(todo[w], dir) /\ Cached(todo[w], row, inst[w], base)
               /\ Shown(todo[w], sub, base) /\ Kept(todo[w], inst[w], under[w], want)
        /\ row = None => requests = 0 \/ \E w \in Workers : Has(todo[w], {"insert"})
        /\ row # None => /\ AsWanted(row, want)
                         /\ dir \/ \E w \in Workers : Has(todo[w], {"mkdir"})
        /\ row # None /\ Rest => row.cache = base /\ sub \subseteq base

SubmissionInv ==
    /\ TypeOK /\ Types /\ (\A w \in Workers : Going(w)) /\ Turns /\ Undone /\ Undisturbed

-----------------------------------------------------------------------------
(* Steps and lists of steps.                                               *)

Kinds == PlainKinds \cup {"give", "take", "label", "log", "write", "save", "store"}

\* What the fields of a step are.
LEMMA StepFields ==
    ASSUME NEW s \in AnyStep
    PROVE  /\ s.do \in Kinds
           /\ s.do = "give" => s.of \in {"sub", "base"} /\ s.groups \subseteq Groups
           /\ s.do = "take" => s.of \in {"sub", "base"} /\ s.group \in Groups
           /\ s.do = "label" => s.label \in LabelNames
           /\ s.do = "log" => s.file \in Files /\ s.version \in Nat /\ s = Log(s.file, s.version)
           /\ s.do = "write" => s.file \in Files /\ s = Write(s.file)
           /\ s.do = "save" => s.far \in Fars
           /\ s.do = "store" => s.up \in Submitted /\ s.new \in BOOLEAN
           /\ s.do \in PlainKinds => s = Do(s.do)
BY DEF AnyStep, PlainKinds, Kinds, Deletes, Log, Write, Do

\* Steps, made.
LEMMA MadeSteps ==
    /\ \A d \in PlainKinds : Do(d) \in AnyStep
    /\ \A of \in {"sub", "base"}, gs \in SUBSET Groups : Give(of, gs) \in AnyStep
    /\ \A of \in {"sub", "base"}, g \in Groups : Take(of, g) \in AnyStep
    /\ \A l \in LabelNames : Label(l) \in AnyStep
    /\ \A f \in Files, v \in Nat : Log(f, v) \in AnyStep
    /\ \A f \in Files : Write(f) \in AnyStep
    /\ \A far \in Fars : Save(far) \in AnyStep
    /\ \A up \in Submitted, new \in BOOLEAN : [do |-> "store", up |-> up, new |-> new] \in AnyStep
BY DEF AnyStep, Do, Give, Take, Label, Log, Write, Save

\* The first step is done.
Tailed(t, r) == /\ t \in Seq(AnyStep) /\ r \in Seq(AnyStep) /\ Len(t) > 0
                /\ Len(r) = Len(t) - 1 /\ \A i \in 1 .. Len(r) : r[i] = t[i + 1]

\* The first step stored a file, which is logged next.
Stored(t, r) == /\ t \in Seq(AnyStep) /\ r \in Seq(AnyStep) /\ Len(t) > 0 /\ t[1].do = "store"
                /\ Len(r) = Len(t) /\ r[1].do = "log" /\ \A i \in 2 .. Len(r) : r[i] = t[i]

\* A list with a step has a first one, and a rest.
LEMMA HeadIs ==
    ASSUME NEW t \in Seq(AnyStep), t # <<>>
    PROVE  Head(t) = t[1] /\ Head(t) \in AnyStep /\ Len(t) \in Nat \ {0} /\ Tailed(t, Tail(t))
BY HeadTailProperties, EmptySeq, LenProperties DEF Tailed

\* What the first step is, the list has.
LEMMA HasFirst ==
    ASSUME NEW t \in Seq(AnyStep), t # <<>>, NEW D, t[1].do \in D
    PROVE  Has(t, D)
<1>1. Len(t) \in Nat \ {0}
    BY HeadIs
<1>2. 1 \in 1 .. Len(t)
    BY <1>1
<1> QED BY <1>2 DEF Has

\* What is left of a list has nothing that the list had not.
LEMMA HasOnly ==
    ASSUME NEW t, NEW r, Tailed(t, r) \/ Stored(t, r), NEW D, "log" \notin D, Has(r, D)
    PROVE  Has(t, D)
<1>1. Len(t) \in Nat /\ Len(r) \in Nat
    BY LenProperties DEF Tailed, Stored
<1>2. CASE Tailed(t, r)
    <2>1. PICK i \in 1 .. Len(r) : r[i].do \in D
        BY DEF Has
    <2>2. i + 1 \in 1 .. Len(t) /\ t[i + 1] = r[i]
        BY <1>1, <1>2, <2>1 DEF Tailed
    <2> QED BY <2>1, <2>2 DEF Has
<1>3. CASE Stored(t, r)
    <2>1. PICK i \in 1 .. Len(r) : r[i].do \in D
        BY DEF Has
    <2>2. i # 1
        BY <2>1, <1>3 DEF Stored
    <2> QED BY <1>1, <1>3, <2>1, <2>2 DEF Stored, Has
<1> QED BY <1>2, <1>3

\* What was there and was not the first step is still to come.
LEMMA HasStill ==
    ASSUME NEW t, NEW r, Tailed(t, r) \/ Stored(t, r), NEW D, Has(t, D), t[1].do \notin D
    PROVE  Has(r, D)
<1>1. Len(t) \in Nat /\ Len(r) \in Nat
    BY LenProperties DEF Tailed, Stored
<1>2. PICK i \in 1 .. Len(t) : t[i].do \in D
    BY DEF Has
<1>3. i # 1
    BY <1>2
<1>4. CASE Tailed(t, r)
    <2>1. i - 1 \in 1 .. Len(r) /\ r[i - 1] = t[i]
        BY <1>1, <1>3, <1>4 DEF Tailed
    <2> QED BY <1>2, <2>1 DEF Has
<1>5. CASE Stored(t, r)
    BY <1>1, <1>2, <1>3, <1>5 DEF Stored, Has
<1> QED BY <1>4, <1>5

\* ... and the same for what was there before the i-th step.
LEMMA HasBeforeStill ==
    ASSUME NEW t, NEW r, NEW d, NEW i \in Nat, HasBefore(t, i, d), t[1].do # d
    PROVE  /\ Tailed(t, r) /\ i <= Len(t) => HasBefore(r, i - 1, d)
           /\ Stored(t, r) /\ i <= Len(t) => HasBefore(r, i, d)
<1>1. PICK j \in 1 .. i - 1 : t[j].do = d
    BY DEF HasBefore
<1>2. j # 1
    BY <1>1
<1>3. ASSUME Tailed(t, r), i <= Len(t) PROVE HasBefore(r, i - 1, d)
    <2>1. Len(t) \in Nat /\ Len(r) \in Nat
        BY <1>3, LenProperties DEF Tailed
    <2>2. j - 1 \in 1 .. i - 2 /\ r[j - 1] = t[j]
        BY <1>2, <1>3, <2>1 DEF Tailed
    <2> QED BY <1>1, <2>2 DEF HasBefore
<1>4. ASSUME Stored(t, r), i <= Len(t) PROVE HasBefore(r, i, d)
    <2>1. Len(t) \in Nat /\ Len(r) \in Nat
        BY <1>4, LenProperties DEF Stored
    <2> QED BY <1>1, <1>2, <1>4, <2>1 DEF HasBefore, Stored
<1> QED BY <1>3, <1>4

\* ... nor before any of its steps.
LEMMA HasBeforeOnly ==
    ASSUME NEW t, NEW r, NEW d, d # "log", NEW i \in Nat
    PROVE  /\ Tailed(t, r) /\ i < Len(t) /\ HasBefore(r, i, d) => HasBefore(t, i + 1, d)
           /\ Stored(t, r) /\ i <= Len(t) /\ HasBefore(r, i, d) => HasBefore(t, i, d)
<1>1. ASSUME Tailed(t, r), i < Len(t), HasBefore(r, i, d) PROVE HasBefore(t, i + 1, d)
    <2>1. Len(t) \in Nat /\ Len(r) \in Nat
        BY <1>1, LenProperties DEF Tailed
    <2>2. PICK j \in 1 .. i - 1 : r[j].do = d
        BY <1>1 DEF HasBefore
    <2>3. j + 1 \in 1 .. (i + 1) - 1 /\ t[j + 1] = r[j]
        BY <1>1, <2>1, <2>2 DEF Tailed
    <2> QED BY <2>2, <2>3 DEF HasBefore
<1>2. ASSUME Stored(t, r), i <= Len(t), HasBefore(r, i, d) PROVE HasBefore(t, i, d)
    <2>1. Len(t) \in Nat /\ Len(r) \in Nat
        BY <1>2, LenProperties DEF Stored
    <2>2. PICK j \in 1 .. i - 1 : r[j].do = d
        BY <1>2 DEF HasBefore
    <2>3. j # 1
        BY <1>2, <2>2 DEF Stored
    <2> QED BY <1>2, <2>1, <2>2, <2>3 DEF HasBefore, Stored
<1> QED BY <1>1, <1>2

\* What is left of a list that is well made is well made.
LEMMA WellMadeStill ==
    ASSUME NEW t, NEW r, NEW b, Tailed(t, r) \/ Stored(t, r), WellMade(t, b)
    PROVE  WellMade(r, b) /\ ~ Has(r, {"insert"})
<1>1. Len(t) \in Nat /\ Len(r) \in Nat
    BY LenProperties DEF Tailed, Stored
<1>2. CASE Tailed(t, r)
    <2>1. \A i \in 1 .. Len(r) : i + 1 \in 1 .. Len(t) /\ r[i] = t[i + 1] /\ i + 1 # 1
        BY <1>1, <1>2 DEF Tailed
    <2>2. \A i \in 1 .. Len(r) : r[i].do # "insert"
        BY <2>1 DEF WellMade
    <2>3. \A i \in 1 .. Len(r) : r[i].do = "end" => i = Len(r)
        <3>1. \A i \in 1 .. Len(r) : r[i].do = "end" => i + 1 = Len(t)
            BY <2>1 DEF WellMade
        <3> QED BY <1>1, <1>2, <3>1 DEF Tailed
    <2>4. \A i, j \in 1 .. Len(r) :
              i < j /\ r[i].do = "new" => r[j].do \in {"label", "end"}
        <3> SUFFICES ASSUME NEW i \in 1 .. Len(r), NEW j \in 1 .. Len(r), i < j, r[i].do = "new"
                     PROVE  r[j].do \in {"label", "end"}
            OBVIOUS
        <3>1. i + 1 < j + 1 /\ t[i + 1].do = "new" /\ r[j] = t[j + 1]
            BY <2>1
        <3> QED BY <2>1, <3>1 DEF WellMade
    <2>5. \A i \in 1 .. Len(r) : r[i].do \in {"give", "take"} /\ r[i].of = "sub" => b
        BY <2>1 DEF WellMade
    <2> QED BY <2>2, <2>3, <2>4, <2>5 DEF WellMade, Has
<1>3. CASE Stored(t, r)
    <2>1. Len(t) = Len(r) /\ r[1].do = "log" /\ \A i \in 1 .. Len(r) : i # 1 => r[i] = t[i]
        BY <1>1, <1>3 DEF Stored
    <2>2. \A i \in 1 .. Len(r) : r[i].do # "insert"
        BY <2>1 DEF WellMade
    <2>3. \A i \in 1 .. Len(r) : r[i].do = "end" => i = Len(r)
        BY <2>1 DEF WellMade
    <2>4. \A i, j \in 1 .. Len(r) :
              i < j /\ r[i].do = "new" => r[j].do \in {"label", "end"}
        <3> SUFFICES ASSUME NEW i \in 1 .. Len(r), NEW j \in 1 .. Len(r), i < j, r[i].do = "new"
                     PROVE  r[j].do \in {"label", "end"}
            OBVIOUS
        <3>1. t[i].do = "new" /\ r[j] = t[j]
            BY <2>1
        <3> QED BY <2>1, <3>1 DEF WellMade
    <2>5. \A i \in 1 .. Len(r) : r[i].do \in {"give", "take"} /\ r[i].of = "sub" => b
        BY <2>1 DEF WellMade
    <2> QED BY <2>2, <2>3, <2>4, <2>5 DEF WellMade, Has
<1> QED BY <1>2, <1>3

\* What happens to the versions when the first step is done.
LEMMA LogsStill ==
    ASSUME NEW t, NEW r, NEW old \in [Files -> Nat], NEW new \in [Files -> Nat],
           LogsCome(t, old), \A f \in Files : new[f] >= old[f],
           \/ Tailed(t, r) /\ t[1].do # "store"
           \/ Stored(t, r) /\ r[1].version < new[r[1].file],
           t[1].do = "write" => new[t[1].file] = old[t[1].file] + 1,
           t[1].do = "store" => new[t[1].up.name] = old[t[1].up.name] + 1
    PROVE  LogsCome(r, new)
<1> SUFFICES ASSUME NEW i \in 1 .. Len(r), r[i].do = "log" PROVE LogComes(r, i, new)
    BY DEF LogsCome
<1> DEFINE f == r[i].file
           v == r[i].version
<1>1. Len(t) \in Nat /\ Len(r) \in Nat /\ r[i] \in AnyStep
    BY LenProperties, ElementOfSeq DEF Tailed, Stored
<1>2. f \in Files /\ v \in Nat
    BY <1>1, StepFields
<1>3. new[f] >= old[f] /\ new[f] \in Nat /\ old[f] \in Nat
    BY <1>2
<1>4. CASE Tailed(t, r) /\ t[1].do # "store"
    <2>1. /\ i + 1 \in 1 .. Len(t) /\ t[i + 1] = r[i]
          /\ \A j \in 1 .. i : j # 1 => j - 1 \in 1 .. i - 1 /\ r[j - 1] = t[j]
        BY <1>1, <1>4 DEF Tailed
    <2>2. LogComes(t, i + 1, old)
        BY <2>1 DEF LogsCome
    <2>3. t[1] = Write(f) => new[f] = old[f] + 1
        BY DEF Write
    <2>4. CASE v < old[f]
        BY <1>2, <1>3, <2>4 DEF LogComes
    <2>5. CASE v <= old[f] /\ \E j \in 1 .. i : t[j] = Write(f)
        <3>1. PICK j \in 1 .. i : t[j] = Write(f)
            BY <2>5
        <3>2. CASE j = 1
            <4>1. t[1] = Write(f)
                BY <3>1, <3>2
            <4>2. v < new[f]
                BY <1>2, <1>3, <2>3, <2>5, <4>1
            <4> QED BY <4>2 DEF LogComes
        <3>3. CASE j # 1
            <4>1. j - 1 \in 1 .. i - 1 /\ r[j - 1] = Write(f)
                BY <2>1, <3>1, <3>3
            <4>2. v <= new[f]
                BY <1>2, <1>3, <2>5
            <4> QED BY <4>1, <4>2 DEF LogComes
        <3> QED BY <3>2, <3>3
    <2>6. CASE v = 1 /\ \E k \in 1 .. i : t[k] = Write(f)
                   /\ \E j \in 1 .. k - 1 : t[j].do = "store" /\ t[j].up.name = f
        <3>0. PICK k \in 1 .. i : t[k] = Write(f)
                   /\ \E j \in 1 .. k - 1 : t[j].do = "store" /\ t[j].up.name = f
            BY <2>6
        <3>1. PICK j \in 1 .. k - 1 : t[k] = Write(f) /\ t[j].do = "store" /\ t[j].up.name = f
            BY <3>0
        <3>2. j # 1 /\ k # 1 /\ j \in 1 .. i
            BY <1>4, <3>1
        <3>3. /\ k - 1 \in 1 .. i - 1 /\ r[k - 1] = Write(f)
              /\ j - 1 \in 1 .. (k - 1) - 1 /\ r[j - 1].do = "store" /\ r[j - 1].up.name = f
            BY <2>1, <3>1, <3>2
        <3> QED BY <2>6, <3>3 DEF LogComes
    <2> QED BY <2>1, <2>2, <2>4, <2>5, <2>6 DEF LogComes
<1>5. CASE Stored(t, r) /\ r[1].version < new[r[1].file]
    <2>1. CASE i = 1
        BY <1>5, <2>1 DEF LogComes
    <2>2. CASE i # 1
        <3>1. /\ i \in 1 .. Len(t) /\ r[i] = t[i]
              /\ \A j \in 1 .. i - 1 : j # 1 => r[j] = t[j]
            BY <1>1, <1>5, <2>2 DEF Stored
        <3>2. LogComes(t, i, old)
            BY <3>1 DEF LogsCome
        <3>3. t[1].do = "store" /\ t[1] # Write(f)
            BY <1>5 DEF Stored, Write
        <3>4. CASE v < old[f]
            BY <1>2, <1>3, <3>4 DEF LogComes
        <3>5. CASE v <= old[f] /\ \E j \in 1 .. i - 1 : t[j] = Write(f)
            BY <1>2, <1>3, <3>1, <3>3, <3>5, SMTT(30) DEF LogComes
        <3>6. CASE v = 1 /\ \E k \in 1 .. i - 1 : t[k] = Write(f)
                       /\ \E j \in 1 .. k - 1 : t[j].do = "store" /\ t[j].up.name = f
            <4>0. PICK k \in 1 .. i - 1 : t[k] = Write(f)
                       /\ \E j \in 1 .. k - 1 : t[j].do = "store" /\ t[j].up.name = f
                BY <3>6
            <4>1. PICK j \in 1 .. k - 1 : t[k] = Write(f) /\ t[j].do = "store" /\ t[j].up.name = f
                BY <4>0
            <4>2. k # 1 /\ r[k] = Write(f) /\ j \in 1 .. i - 1
                BY <3>1, <3>3, <4>1
            <4>3. CASE j = 1
                BY <1>2, <1>3, <3>3, <3>6, <4>1, <4>2, <4>3 DEF LogComes
            <4>4. CASE j # 1
                BY <3>1, <3>6, <4>1, <4>2, <4>4 DEF LogComes
            <4> QED BY <4>3, <4>4
        <3> QED BY <3>1, <3>2, <3>4, <3>5, <3>6 DEF LogComes
    <2> QED BY <2>1, <2>2
<1> QED BY <1>4, <1>5

\* More versions do no harm.
LEMMA LogsComeMore ==
    ASSUME NEW t \in Seq(AnyStep), NEW old \in [Files -> Nat], NEW new \in [Files -> Nat],
           LogsCome(t, old), \A f \in Files : new[f] >= old[f]
    PROVE  LogsCome(t, new)
<1> SUFFICES ASSUME NEW i \in 1 .. Len(t), t[i].do = "log" PROVE LogComes(t, i, new)
    BY DEF LogsCome
<1>1. t[i] \in AnyStep
    BY ElementOfSeq
<1>2. t[i].file \in Files /\ t[i].version \in Nat
    BY <1>1, StepFields
<1>3. /\ new[t[i].file] >= old[t[i].file]
      /\ new[t[i].file] \in Nat /\ old[t[i].file] \in Nat
    BY <1>2
<1> DEFINE f == t[i].file
           v == t[i].version
<1>4. LogComes(t, i, old)
    BY DEF LogsCome
<1>5. v < old[f] => v < new[f]
    BY <1>2, <1>3
<1>6. v <= old[f] => v <= new[f]
    BY <1>2, <1>3
<1> QED BY <1>4, <1>5, <1>6 DEF LogComes

\* The directory a step needs is there or will be, as it was before.
LEMMA NeedsStill ==
    ASSUME NEW t, NEW r, Tailed(t, r) \/ Stored(t, r), NEW old, NEW new, Needs(t, old),
           old => new, t[1].do = "mkdir" => new
    PROVE  Needs(r, new)
<1>1. Len(t) \in Nat /\ Len(r) \in Nat
    BY LenProperties DEF Tailed, Stored
<1>2. ~ Has(r, Deletes)
    BY HasOnly DEF Needs, Deletes
<1>3. ASSUME NEW i \in 1 .. Len(r), r[i].do \in {"store", "write"}, ~ new
      PROVE  HasBefore(r, i, "mkdir")
    <2>1. t[1].do # "mkdir" /\ ~ old
        BY <1>3
    <2>2. CASE Tailed(t, r)
        <3>1. i + 1 \in 1 .. Len(t) /\ t[i + 1] = r[i]
            BY <1>1, <2>2 DEF Tailed
        <3>2. HasBefore(t, i + 1, "mkdir")
            BY <1>3, <2>1, <3>1 DEF Needs
        <3>3. HasBefore(r, (i + 1) - 1, "mkdir")
            BY <1>1, <2>1, <2>2, <3>1, <3>2, HasBeforeStill
        <3>4. (i + 1) - 1 = i
            OBVIOUS
        <3> QED BY <3>3, <3>4
    <2>3. CASE Stored(t, r)
        <3>1. i \in 1 .. Len(t) /\ t[i] = r[i]
            BY <1>1, <1>3, <2>3 DEF Stored
        <3>2. HasBefore(t, i, "mkdir")
            BY <1>3, <2>1, <3>1 DEF Needs
        <3>3. i \in Nat /\ i <= Len(t)
            BY <1>1, <3>1
        <3> QED BY <2>1, <2>3, <3>2, <3>3, HasBeforeStill
    <2> QED BY <2>2, <2>3
<1> QED BY <1>2, <1>3 DEF Needs

\* No step of some kinds, and none on the permissions of the event.
Without(t, kinds) == \A j \in 1 .. Len(t) : ~ OnBase(t[j]) /\ t[j].do \notin kinds

\* What a list is without, its rest is without.
LEMMA WithoutStill ==
    ASSUME NEW t, NEW r, Tailed(t, r) \/ Stored(t, r), NEW D, "log" \notin D, Without(t, D)
    PROVE  Without(r, D)
<1>1. Len(t) \in Nat /\ Len(r) \in Nat
    BY LenProperties DEF Tailed, Stored
<1>2. CASE Tailed(t, r)
    <2>1. \A j \in 1 .. Len(r) : j + 1 \in 1 .. Len(t) /\ r[j] = t[j + 1]
        BY <1>1, <1>2 DEF Tailed
    <2> QED BY <2>1 DEF Without
<1>3. CASE Stored(t, r)
    <2>1. \A j \in 1 .. Len(r) : j \in 1 .. Len(t) /\ (r[j] = t[j] \/ r[j].do = "log")
        BY <1>1, <1>3 DEF Stored
    <2>2. \A j \in 1 .. Len(r) : r[j].do = "log" => ~ OnBase(r[j])
        BY DEF OnBase
    <2> QED BY <2>1, <2>2 DEF Without
<1> QED BY <1>2, <1>3

\* Some step of kind d after which there is none of the others.
LastOf(t, d, kinds) ==
    \E i \in 1 .. Len(t) : /\ t[i].do = d
                           /\ \A j \in i + 1 .. Len(t) : ~ OnBase(t[j]) /\ t[j].do \notin kinds

\* What comes last in a list comes last in its rest.
LEMMA LastStill ==
    ASSUME NEW t, NEW r, Tailed(t, r) \/ Stored(t, r), NEW d, NEW D, d # "log", "log" \notin D,
           LastOf(t, d, D)
    PROVE  LastOf(r, d, D) \/ (t[1].do = d /\ Without(r, D))
<1>1. Len(t) \in Nat /\ Len(r) \in Nat
    BY LenProperties DEF Tailed, Stored
<1>2. PICK i \in 1 .. Len(t) : /\ t[i].do = d
                               /\ \A j \in i + 1 .. Len(t) : ~ OnBase(t[j]) /\ t[j].do \notin D
    BY DEF LastOf
<1>3. CASE Tailed(t, r)
    <2>1. \A j \in 1 .. Len(r) : j + 1 \in 1 .. Len(t) /\ r[j] = t[j + 1]
        BY <1>1, <1>3 DEF Tailed
    <2>2. CASE i = 1
        <3>1. \A j \in 1 .. Len(r) : j + 1 \in i + 1 .. Len(t)
            BY <1>1, <2>1, <2>2
        <3> QED BY <1>2, <2>1, <2>2, <3>1 DEF Without
    <2>3. CASE i # 1
        <3>1. i - 1 \in 1 .. Len(r) /\ r[i - 1] = t[i]
            BY <1>1, <1>3, <2>3 DEF Tailed
        <3>2. \A j \in (i - 1) + 1 .. Len(r) : j + 1 \in i + 1 .. Len(t) /\ r[j] = t[j + 1]
            BY <1>1, <1>3, <2>3 DEF Tailed
        <3>3. \A j \in (i - 1) + 1 .. Len(r) : ~ OnBase(r[j]) /\ r[j].do \notin D
            BY <1>2, <3>2
        <3> QED BY <1>2, <3>1, <3>3 DEF LastOf
    <2> QED BY <2>2, <2>3
<1>4. CASE Stored(t, r)
    <2>1. \A j \in 1 .. Len(r) : j \in 1 .. Len(t) /\ (r[j] = t[j] \/ (j = 1 /\ r[j].do = "log"))
        BY <1>1, <1>4 DEF Stored
    <2>2. \A j \in 1 .. Len(r) : r[j].do = "log" => ~ OnBase(r[j])
        BY DEF OnBase
    <2>3. CASE i = 1
        <3>1. \A j \in 1 .. Len(r) : j = 1 \/ j \in i + 1 .. Len(t)
            BY <1>1, <2>1, <2>3
        <3> QED BY <1>2, <1>4, <2>1, <2>2, <2>3, <3>1 DEF Without, Stored
    <2>4. CASE i # 1
        <3>1. i \in 1 .. Len(r) /\ r[i] = t[i] /\ Len(r) = Len(t)
            BY <1>1, <1>4, <2>4 DEF Stored
        <3>2. \A j \in i + 1 .. Len(r) : ~ OnBase(r[j]) /\ r[j].do \notin D
            BY <1>1, <1>2, <2>1, <2>4, <3>1
        <3> QED BY <1>2, <3>1, <3>2 DEF LastOf
    <2> QED BY <2>3, <2>4
<1> QED BY <1>3, <1>4

\* Whom the steps of a list give a row, and from whom they take one.
LEMMA GivesAre ==
    ASSUME NEW t, NEW of, NEW x
    PROVE  /\ x \in Gives(t, of) <=>
                  \E i \in 1 .. Len(t) : t[i].do = "give" /\ t[i].of = of /\ x \in t[i].groups
           /\ x \in Takes(t, of) <=>
                  \E i \in 1 .. Len(t) : t[i].do = "take" /\ t[i].of = of /\ x = t[i].group
BY DEF Gives, Takes

Given(s, of) == IF s.do = "give" /\ s.of = of THEN s.groups ELSE {}
Taken1(s, of) == IF s.do = "take" /\ s.of = of THEN {s.group} ELSE {}

\* The rows of the first step, and those of the rest.
LEMMA GivesSplit ==
    ASSUME NEW t, NEW r, Tailed(t, r) \/ Stored(t, r), NEW of
    PROVE  /\ Gives(t, of) = Given(t[1], of) \cup Gives(r, of)
           /\ Takes(t, of) = Taken1(t[1], of) \cup Takes(r, of)
<1>1. Len(t) \in Nat \ {0} /\ Len(r) \in Nat
    BY LenProperties DEF Tailed, Stored
<1>2. \A i \in 1 .. Len(t) : i = 1 \/ \E j \in 1 .. Len(r) : r[j] = t[i]
    <2>1. CASE Tailed(t, r)
        <3>1. \A i \in 1 .. Len(t) : i = 1 \/ (i - 1 \in 1 .. Len(r) /\ r[i - 1] = t[i])
            BY <1>1, <2>1 DEF Tailed
        <3> QED BY <3>1
    <2>2. CASE Stored(t, r)
        BY <1>1, <2>2 DEF Stored
    <2> QED BY <2>1, <2>2
<1>3. \A j \in 1 .. Len(r) : r[j].do = "log" \/ \E i \in 1 .. Len(t) : r[j] = t[i]
    <2>1. CASE Tailed(t, r)
        <3>1. \A j \in 1 .. Len(r) : j + 1 \in 1 .. Len(t) /\ r[j] = t[j + 1]
            BY <1>1, <2>1 DEF Tailed
        <3> QED BY <3>1
    <2>2. CASE Stored(t, r)
        BY <1>1, <2>2 DEF Stored
    <2> QED BY <2>1, <2>2
<1>4. 1 \in 1 .. Len(t)
    BY <1>1
<1>5. ASSUME NEW x PROVE x \in Gives(t, of) <=> x \in Given(t[1], of) \cup Gives(r, of)
    BY <1>2, <1>3, <1>4, GivesAre DEF Given
<1>6. ASSUME NEW x PROVE x \in Takes(t, of) <=> x \in Taken1(t[1], of) \cup Takes(r, of)
    BY <1>2, <1>3, <1>4, GivesAre DEF Taken1
<1> QED BY <1>5, <1>6

\* A first step that is done takes its rows from the list to the tables.
LEMMA ShownStill ==
    ASSUME NEW t, NEW r, Tailed(t, r) \/ Stored(t, r), NEW s, NEW b, NEW s2, NEW b2, Shown(t, s, b),
           s2 = (s \cup Given(t[1], "sub")) \ Taken1(t[1], "sub"),
           b2 = (b \cup Given(t[1], "base")) \ Taken1(t[1], "base")
    PROVE  Shown(r, s2, b2)
<1>1. /\ Gives(t, "sub") = Given(t[1], "sub") \cup Gives(r, "sub")
      /\ Takes(t, "sub") = Taken1(t[1], "sub") \cup Takes(r, "sub")
      /\ Gives(t, "base") = Given(t[1], "base") \cup Gives(r, "base")
      /\ Takes(t, "base") = Taken1(t[1], "base") \cup Takes(r, "base")
    BY GivesSplit
<1>2. Len(t) \in Nat \ {0} /\ t \in Seq(AnyStep)
    BY LenProperties DEF Tailed, Stored
<1>3. 1 \in 1 .. Len(t)
    BY <1>2
<1>4. CASE ~ Has(t, {"take"}) /\ s \cup Gives(t, "sub") \subseteq b \cup Gives(t, "base")
    <2>1. ~ Has(r, {"take"})
        BY <1>4, HasOnly
    <2>2. Taken1(t[1], "sub") = {} /\ Taken1(t[1], "base") = {}
        BY <1>3, <1>4 DEF Has, Taken1
    <2> QED BY <1>1, <1>4, <2>1, <2>2 DEF Shown
<1>5. CASE ~ Has(t, {"give"}) /\ s \ Takes(t, "sub") \subseteq b \ Takes(t, "base")
    <2>1. ~ Has(r, {"give"})
        BY <1>5, HasOnly
    <2>2. Given(t[1], "sub") = {} /\ Given(t[1], "base") = {}
        BY <1>3, <1>5 DEF Has, Given
    <2> QED BY <1>1, <1>5, <2>1, <2>2 DEF Shown
<1> QED BY <1>4, <1>5 DEF Shown

\* What is left of a list will save what is wanted, if the list would.
LEMMA KeptStill ==
    ASSUME NEW t, NEW r, Tailed(t, r) \/ Stored(t, r), NEW i, NEW u, NEW wanted, Kept(t, i, u, wanted),
           NEW i2, NEW u2, NEW wanted2,
           Len(r) = 0 \/ AsWanted(i2, wanted2) \/ (t[1].do \notin Saves
                                                   /\ i2 = i /\ wanted2 = wanted),
           t[1].do = "underlying" => AsWanted(u2, wanted2), t[1].do = "end" => Len(r) = 0,
           t[1].do \in {"save", "end", "underlying"} \/ (u2.sv = u.sv /\ u2.far = u.far /\ wanted2 = wanted)
    PROVE  Kept(r, i2, u2, wanted2)
<1>1. Len(t) \in Nat /\ Len(r) \in Nat
    BY LenProperties DEF Tailed, Stored
<1>2. Has(r, Saves) => AsWanted(i2, wanted2)
    <2> SUFFICES ASSUME Has(r, Saves) PROVE AsWanted(i2, wanted2)
        OBVIOUS
    <2>1. Len(r) # 0
        BY <1>1 DEF Has
    <2>2. Has(t, Saves)
        BY HasOnly DEF Saves
    <2> QED BY <2>1, <2>2 DEF Kept
<1>3. Len(r) = 0 => ~ \E k \in 1 .. Len(r) : TRUE
    OBVIOUS
<1>4. ASSUME NEW k \in 1 .. Len(r), r[k].do = "refresh under", t[1].do # "end"
      PROVE  /\ HasBefore(r, k, "underlying") \/ AsWanted(u2, wanted2)
             /\ ~ HasBefore(r, k, "save")
    <2>1. CASE Tailed(t, r)
        <3>1. k + 1 \in 1 .. Len(t) /\ t[k + 1] = r[k] /\ k < Len(t) /\ (k + 1) - 1 = k /\ k + 1 \in Nat
              /\ k + 1 <= Len(t)
            BY <1>1, <2>1 DEF Tailed
        <3>2. /\ HasBefore(t, k + 1, "underlying") \/ AsWanted(u, wanted)
              /\ ~ HasBefore(t, k + 1, "save")
            BY <1>4, <3>1 DEF Kept
        <3>3. ~ HasBefore(r, k, "save")
            BY <2>1, <3>1, <3>2, HasBeforeOnly
        <3>4. t[1].do # "save"
            <4>1. 1 \in 1 .. (k + 1) - 1
                BY <3>1
            <4> QED BY <3>2, <4>1 DEF HasBefore
        <3>5. ASSUME t[1].do # "underlying", HasBefore(t, k + 1, "underlying")
              PROVE  HasBefore(r, k, "underlying")
            <4>1. HasBefore(r, (k + 1) - 1, "underlying")
                BY <2>1, <3>1, <3>5, HasBeforeStill
            <4> QED BY <3>1, <4>1
        <3> QED BY <1>4, <3>2, <3>3, <3>4, <3>5 DEF AsWanted
    <2>2. CASE Stored(t, r)
        <3>0. k # 1
            BY <1>4, <2>2 DEF Stored
        <3>1. /\ k \in 1 .. Len(t) /\ t[k] = r[k] /\ k <= Len(t) /\ k \in Nat
              /\ t[1].do = "store"
            BY <1>1, <2>2, <3>0 DEF Stored
        <3>2. /\ HasBefore(t, k, "underlying") \/ AsWanted(u, wanted)
              /\ ~ HasBefore(t, k, "save")
            BY <1>4, <3>1 DEF Kept
        <3>3. ~ HasBefore(r, k, "save")
            BY <2>2, <3>1, <3>2, HasBeforeOnly
        <3>4. HasBefore(t, k, "underlying") => HasBefore(r, k, "underlying")
            BY <2>2, <3>1, HasBeforeStill
        <3> QED BY <3>1, <3>2, <3>3, <3>4 DEF AsWanted
    <2> QED BY <2>1, <2>2
<1> QED BY <1>2, <1>3, <1>4 DEF Kept
-----------------------------------------------------------------------------
(* What a step does.                                                       *)

\* To the list of the request, ...
LEMMA StepList ==
    ASSUME Types, NEW w \in Workers, Step(w)
    PROVE  /\ todo[w] \in Seq(AnyStep) /\ todo[w] # <<>> /\ Head(todo[w]) = todo[w][1]
           /\ todo[w][1] \in AnyStep /\ Len(todo[w]) \in Nat \ {0}
           /\ todo' \in [Workers -> Seq(AnyStep)]
           /\ \A v \in Workers \ {w} : todo'[v] = todo[v]
           /\ \/ /\ todo[w][1].do # "store"
                 /\ todo'[w] = Tail(todo[w]) /\ Tailed(todo[w], todo'[w])
              \/ /\ todo[w][1].do = "store" /\ Stored(todo[w], todo'[w])
                 /\ todo'[w][1] = Log(todo[w][1].up.name, files[todo[w][1].up.name])
           /\ UNCHANGED <<subclass, requests, uploads, faults, crashed, calm>>
<1> DEFINE t == todo[w]
           s == Head(t)
<1>1. t \in Seq(AnyStep) /\ t # <<>>
    BY DEF Types, Step, Idle
<1>2. Head(t) = t[1] /\ t[1] \in AnyStep /\ Len(t) \in Nat \ {0} /\ Tailed(t, Tail(t))
    BY <1>1, HeadIs
<1>3. /\ todo' = [todo EXCEPT ![w] = (IF s.do = "store" THEN <<Log(s.up.name, files[s.up.name])>>
                                      ELSE <<>>) \o Tail(@)]
      /\ UNCHANGED <<subclass, requests, uploads, faults, crashed, calm>>
    BY DEF Step, bounds
<1>4. CASE t[1].do # "store"
    <2>1. Tail(t) \in Seq(AnyStep)
        BY <1>2 DEF Tailed
    <2>2. <<>> \o Tail(t) = Tail(t)
        BY <2>1, ConcatEmptySeq
    <2>3. todo' = [todo EXCEPT ![w] = Tail(t)]
        BY <1>2, <1>3, <1>4, <2>2
    <2> QED BY <1>1, <1>2, <1>3, <1>4, <2>1, <2>3 DEF Types
<1>5. CASE t[1].do = "store"
    <2> DEFINE l == Log(t[1].up.name, files[t[1].up.name])
               r == <<l>> \o Tail(t)
    <2>1. l \in AnyStep /\ l.do = "log"
        <3>1. t[1].up.name \in Files
            BY <1>2, <1>5, StepFields DEF Files
        <3> QED BY <3>1, MadeSteps DEF Types, Log
    <2>2. todo' = [todo EXCEPT ![w] = r]
        BY <1>2, <1>3, <1>5
    <2> HIDE DEF l
    <2>3. <<l>> \in Seq(AnyStep) /\ Len(<<l>>) = 1 /\ <<l>>[1] = l
        BY <2>1
    <2> DEFINE one == <<l>>
    <2>4. one \in Seq(AnyStep) /\ Len(one) = 1 /\ one[1] = l
        BY <2>3
    <2>5. r = one \o Tail(t)
        OBVIOUS
    <2> DEFINE tl == Tail(t)
    <2>0. tl \in Seq(AnyStep)
        BY <1>2 DEF Tailed
    <2> HIDE DEF one, tl
    <2>10. /\ one \o tl \in Seq(AnyStep) /\ Len(one \o tl) = Len(one) + Len(tl)
          /\ \A i \in 1 .. Len(one) + Len(tl) :
                 (one \o tl)[i] = IF i <= Len(one) THEN one[i] ELSE tl[i - Len(one)]
        BY <2>4, <2>0, ConcatProperties
    <2>11. r = one \o tl
        BY <2>5 DEF tl
    <2> HIDE DEF r
    <2>6. /\ r \in Seq(AnyStep) /\ Len(r) = 1 + Len(Tail(t))
          /\ \A i \in 1 .. 1 + Len(Tail(t)) : r[i] = IF i <= 1 THEN l ELSE Tail(t)[i - 1]
        <3>1. /\ r \in Seq(AnyStep) /\ Len(r) = 1 + Len(tl)
              /\ \A i \in 1 .. 1 + Len(tl) : r[i] = IF i <= 1 THEN one[i] ELSE tl[i - 1]
            BY <2>4, <2>10, <2>11
        <3>2. Len(tl) \in Nat
            BY <2>0, LenProperties
        <3>3. \A i \in 1 .. 1 + Len(tl) : i <= 1 => one[i] = l
            BY <2>4, <3>2
        <3>4. \A i \in 1 .. 1 + Len(tl) : r[i] = IF i <= 1 THEN l ELSE tl[i - 1]
            BY <3>1, <3>3
        <3> QED BY <3>1, <3>4 DEF tl
    <2>7. Len(Tail(t)) = Len(t) - 1 /\ \A i \in 1 .. Len(Tail(t)) : Tail(t)[i] = t[i + 1]
        BY <1>2 DEF Tailed
    <2>8. Len(r) = Len(t) /\ r[1] = l /\ \A i \in 2 .. Len(r) : r[i] = t[i]
        <3>1. ASSUME NEW i \in 2 .. Len(t) PROVE r[i] = t[i]
            <4>1. i \in 1 .. 1 + Len(Tail(t)) /\ i - 1 \in 1 .. Len(Tail(t)) /\ ~ i <= 1 /\ (i - 1) + 1 = i
                BY <1>2, <2>7
            <4> QED BY <2>6, <2>7, <4>1
        <3> QED BY <1>2, <2>6, <2>7, <3>1
    <2>9. Stored(t, r)
        BY <1>1, <1>2, <1>5, <2>1, <2>6, <2>8 DEF Stored
    <2> QED BY <1>1, <1>2, <1>3, <1>5, <2>2, <2>6, <2>8, <2>9, ZenonT(40) DEF Types, l
<1> QED BY <1>4, <1>5

\* ... to the permissions and the instances, ...
Loads(w, s) ==
    /\ s.do \notin {"refresh", "reload", "save", "resave", "end"} => inst' = inst
    /\ s.do = "refresh" => inst' = [inst EXCEPT ![w].cache = base]
    /\ s.do = "reload" => row # None /\ inst' = [inst EXCEPT ![w] = row]
    /\ s.do = "save" => inst' = [inst EXCEPT ![w].far = s.far]
    /\ s.do = "resave" => inst' = [inst EXCEPT ![w].far = @]
    /\ s.do = "end" => inst' = [inst EXCEPT ![w] = Fresh]
    /\ s.do \notin {"refresh under", "underlying", "end"} => under' = under
    /\ s.do = "refresh under" => under' = [under EXCEPT ![w].cache = base]
    /\ s.do = "underlying" => row # None /\ under' = [under EXCEPT ![w] = row]
    /\ s.do = "end" => under' = [under EXCEPT ![w] = Fresh]

\* ... to the row and what is wanted, ...
Rows(w, s) ==
    /\ s.do \notin {"insert", "refresh", "save", "resave", "refresh under", "delete row"} => row' = row
    /\ s.do \in {"insert", "refresh", "save", "resave"} => row' = inst'[w]
    /\ s.do = "refresh under" => row' = under'[w]
    /\ s.do = "delete row" => row' = None /\ logs' = <<>> /\ labels' = {} /\ refused'
    /\ s.do # "delete row" => refused' = refused
    /\ s.do = "save" => want' = [want EXCEPT !.far = s.far]
    /\ s.do = "resave" => want' = [want EXCEPT !.far = @]
    /\ s.do \notin {"save", "resave"} => want' = want
    /\ s.do \in {"log", "label", "new", "alert"} => row # None

Permits(s) ==
    /\ s.do \notin {"give", "take", "delete perms"} => sub' = sub /\ base' = base
    /\ s.do = "give" => /\ s.of = "sub" => sub' = sub \cup s.groups /\ base' = base
                        /\ s.of # "sub" => base' = base \cup s.groups /\ sub' = sub
    /\ s.do = "take" => /\ s.of = "sub" => sub' = sub \ {s.group} /\ base' = base
                        /\ s.of # "sub" => base' = base \ {s.group} /\ sub' = sub
    /\ s.do = "delete perms" => sub' = {} /\ base' = IF subclass THEN base ELSE {}

\* ... and to the files and what is said about them.
Notes(s) ==
    /\ s.do = "mkdir" => dir' = TRUE /\ files' = files
    /\ s.do = "rmtree" => dir' = FALSE /\ files' = [f \in Files |-> 0]
    /\ s.do = "store" => dir /\ dir' = dir /\ files' = [files EXCEPT ![s.up.name] = @ + 1]
    /\ s.do = "write" => dir /\ dir' = dir /\ files' = [files EXCEPT ![s.file] = @ + 1]
    /\ s.do \notin {"mkdir", "rmtree", "store", "write"} => dir' = dir /\ files' = files
    /\ s.do = "log" => logs' = Append(logs, [file |-> s.file, version |-> s.version])
    /\ s.do \notin {"log", "delete row"} => logs' = logs
    /\ s.do = "label" => labels' = labels \cup {s.label}
    /\ s.do \notin {"label", "delete row"} => labels' = labels
    /\ s.do = "new" => announced' = TRUE
    /\ s.do # "new" => announced' = announced

\* What a step does, one set of variables at a time.
LEMMA StepEffect ==
    ASSUME Types, NEW w \in Workers, Step(w)
    PROVE  /\ Loads(w, todo[w][1]) /\ Rows(w, todo[w][1])
           /\ Permits(todo[w][1]) /\ Notes(todo[w][1])
<1> DEFINE s == todo[w][1]
<1>1. Head(todo[w]) = s
    BY StepList
<1>2. \/ End(w, s) \/ Insert(w, s) \/ PermissionStep(w, s) \/ RefreshPerms(w, s)
      \/ LoadStep(w, s) \/ SaveStep(w, s) \/ DiskStep(w, s)
      \/ Annotate(w, s) \/ DeleteStep(w, s)
    BY <1>1 DEF Step
<1> HIDE DEF s
<1> USE DEF Loads, Rows, Permits, Notes, perms, details
<1> SUFFICES Loads(w, s) /\ Rows(w, s) /\ Permits(s) /\ Notes(s)
    BY DEF s
<1>3. CASE End(w, s)
    BY <1>3 DEF End
<1>4. CASE Insert(w, s)
    BY <1>4 DEF Insert
<1>5. CASE PermissionStep(w, s)
    BY <1>5 DEF PermissionStep, Granted, Taken
<1>6. CASE RefreshPerms(w, s)
    BY <1>6 DEF RefreshPerms
<1>7. CASE LoadStep(w, s)
    BY <1>7 DEF LoadStep
<1>8. CASE SaveStep(w, s)
    BY <1>8 DEF SaveStep
<1>9. CASE DiskStep(w, s)
    BY <1>9 DEF DiskStep
<1>10. CASE Annotate(w, s)
    BY <1>10 DEF Annotate
<1>11. CASE DeleteStep(w, s)
    BY <1>11 DEF DeleteStep
<1> QED BY <1>2, <1>3, <1>4, <1>5, <1>6, <1>7, <1>8, <1>9, <1>10, <1>11

\* The rests of a submission that is undone are lists, each the tail of the one before.
LEMMA LeavesAre ==
    /\ Ended \in Seq(AnyStep) /\ Len(Ended) = 1 /\ Ended[1].do = "end"
    /\ LeavesPerms \in Seq(AnyStep) /\ Len(LeavesPerms) = 2
    /\ LeavesPerms[1].do = "delete perms" /\ LeavesPerms[2].do = "end"
    /\ LeavesDir \in Seq(AnyStep) /\ Len(LeavesDir) = 3 /\ LeavesDir[1].do = "rmtree"
    /\ LeavesDir[2].do = "delete perms" /\ LeavesDir[3].do = "end"
    /\ LeavesAll \in Seq(AnyStep) /\ Len(LeavesAll) = 4 /\ LeavesAll[1].do = "delete row"
    /\ LeavesAll[2].do = "rmtree" /\ LeavesAll[3].do = "delete perms" /\ LeavesAll[4].do = "end"
<1> DEFINE e == Do("end")
           p == Do("delete perms")
           d == Do("rmtree")
           a == Do("delete row")
<1>1. e \in AnyStep /\ p \in AnyStep /\ d \in AnyStep /\ a \in AnyStep
    BY MadeSteps DEF PlainKinds, Deletes
<1>2. e.do = "end" /\ p.do = "delete perms" /\ d.do = "rmtree" /\ a.do = "delete row"
    BY DEF Do
<1>3. /\ Ended = <<e>> /\ LeavesPerms = <<p, e>> /\ LeavesDir = <<d, p, e>>
      /\ LeavesAll = <<a, d, p, e>>
    BY DEF Ended, LeavesPerms, LeavesDir, LeavesAll
<1> HIDE DEF e, p, d, a
<1>4. /\ <<e>> \in Seq(AnyStep) /\ Len(<<e>>) = 1
      /\ <<e>>[1] = e
    BY <1>1
<1>5. /\ <<p, e>> \in Seq(AnyStep) /\ Len(<<p, e>>) = 2
      /\ <<p, e>>[1] = p /\ <<p, e>>[2] = e
    BY <1>1
<1>6. /\ <<d, p, e>> \in Seq(AnyStep) /\ Len(<<d, p, e>>) = 3
      /\ <<d, p, e>>[1] = d /\ <<d, p, e>>[2] = p /\ <<d, p, e>>[3] = e
    BY <1>1
<1>7. /\ <<a, d, p, e>> \in Seq(AnyStep) /\ Len(<<a, d, p, e>>) = 4
      /\ <<a, d, p, e>>[1] = a /\ <<a, d, p, e>>[2] = d /\ <<a, d, p, e>>[3] = p /\ <<a, d, p, e>>[4] = e
    BY <1>1
<1> QED BY <1>2, <1>3, <1>4, <1>5, <1>6, <1>7

\* The steps back, one after the other.
LEMMA LeavesTail ==
    Tail(LeavesAll) = LeavesDir /\ Tail(LeavesDir) = LeavesPerms /\ Tail(LeavesPerms) = Ended
<1> DEFINE e == Do("end")
           p == Do("delete perms")
           d == Do("rmtree")
           a == Do("delete row")
<1>1. /\ Ended = <<e>> /\ LeavesPerms = <<p, e>> /\ LeavesDir = <<d, p, e>>
      /\ LeavesAll = <<a, d, p, e>>
    BY DEF Ended, LeavesPerms, LeavesDir, LeavesAll
<1> HIDE DEF e, p, d, a
<1>2. Tail(<<a, d, p, e>>) = <<d, p, e>>
    OBVIOUS
<1>3. Tail(<<d, p, e>>) = <<p, e>>
    OBVIOUS
<1>4. Tail(<<p, e>>) = <<e>>
    OBVIOUS
<1> QED BY <1>1, <1>2, <1>3, <1>4

\* One step more at the end.
LEMMA OneMore ==
    ASSUME NEW t \in Seq(AnyStep), NEW s \in AnyStep
    PROVE  /\ t \o <<s>> \in Seq(AnyStep) /\ Len(t \o <<s>>) = Len(t) + 1
           /\ \A i \in 1 .. Len(t) : (t \o <<s>>)[i] = t[i]
           /\ (t \o <<s>>)[Len(t) + 1] = s
<1> DEFINE one == <<s>>
<1>1. one \in Seq(AnyStep) /\ Len(one) = 1 /\ one[1] = s
    OBVIOUS
<1>2. Len(t) \in Nat
    BY LenProperties
<1> HIDE DEF one
<1>3. /\ t \o one \in Seq(AnyStep) /\ Len(t \o one) = Len(t) + Len(one)
      /\ \A i \in 1 .. Len(t) + Len(one) : (t \o one)[i] = IF i <= Len(t) THEN t[i]
                                                             ELSE one[i - Len(t)]
    BY <1>1, ConcatProperties
<1>4. /\ t \o one \in Seq(AnyStep) /\ Len(t \o one) = Len(t) + 1
      /\ \A i \in 1 .. Len(t) : (t \o one)[i] = t[i]
      /\ (t \o one)[Len(t) + 1] = s
    BY <1>1, <1>2, <1>3
<1> QED BY <1>4 DEF one

\* The steps back end the request.
LEMMA DeleteEnds == DeleteEvent \o <<Do("end")>> = LeavesAll
<1> DEFINE e == Do("end")
           p == Do("delete perms")
           d == Do("rmtree")
           a == Do("delete row")
           t == <<a, d, p>>
           u == <<a, d, p, e>>
<1>1. DeleteEvent = t /\ LeavesAll = u
    BY DEF DeleteEvent, LeavesAll
<1>2. e \in AnyStep /\ p \in AnyStep /\ d \in AnyStep /\ a \in AnyStep
    BY MadeSteps DEF PlainKinds, Deletes
<1> HIDE DEF e, p, d, a
<1>3. t \in Seq(AnyStep) /\ Len(t) = 3 /\ t[1] = a /\ t[2] = d /\ t[3] = p
    BY <1>2
<1>4. u \in Seq(AnyStep) /\ Len(u) = 4 /\ u[1] = a /\ u[2] = d /\ u[3] = p /\ u[4] = e
    BY <1>2
<1> HIDE DEF t, u
<1> DEFINE r == t \o <<e>>
<1>5. r \in Seq(AnyStep) /\ Len(r) = 4 /\ (\A i \in 1 .. 3 : r[i] = t[i]) /\ r[4] = e
    <2>1. /\ r \in Seq(AnyStep) /\ Len(r) = Len(t) + 1
          /\ \A i \in 1 .. Len(t) : r[i] = t[i]
          /\ r[Len(t) + 1] = e
        BY <1>2, <1>3, OneMore
    <2> HIDE DEF r
    <2>2. Len(t) + 1 = 4
        BY <1>3
    <2> QED BY <1>3, <2>1, <2>2
<1> HIDE DEF r
<1>6. \A i \in 1 .. Len(r) : r[i] = u[i]
    BY <1>3, <1>4, <1>5
<1>7. r = u
    BY <1>4, <1>5, <1>6, SeqEqual
<1> QED BY <1>1, <1>7 DEF r, e

\* The rest of a submission that is not undone is not undone.
LEMMA IsUndoneOnly ==
    ASSUME NEW t, NEW r, Tailed(t, r) \/ Stored(t, r), IsUndone(r)
    PROVE  IsUndone(t)
<1>1. t \in Seq(AnyStep) /\ r \in Seq(AnyStep) /\ Len(t) \in Nat /\ Len(r) \in Nat
      /\ DOMAIN t = 1 .. Len(t) /\ DOMAIN r = 1 .. Len(r)
    BY LenProperties DEF Tailed, Stored
<1>2. PICK i \in 1 .. Len(r) : r[i].do = "store" /\ r[i].new
    BY <1>1 DEF IsUndone
<1>3. CASE Tailed(t, r)
    <2>1. i + 1 \in 1 .. Len(t) /\ t[i + 1] = r[i]
        BY <1>1, <1>3 DEF Tailed
    <2> QED BY <1>1, <1>2, <2>1 DEF IsUndone
<1>4. CASE Stored(t, r)
    <2>1. i \in 1 .. Len(t) /\ t[i] = r[i]
        BY <1>1, <1>2, <1>4 DEF Stored
    <2> QED BY <1>1, <1>2, <2>1 DEF IsUndone
<1> QED BY <1>3, <1>4

\* The instance of a new event.
LEMMA FreshIs == Fresh \in Row /\ Fresh.cache = {} /\ Fresh.sv = FALSE /\ Fresh.far = None
BY DEF Fresh, Row

\* Steps keep the types, ...
LEMMA StepTypes ==
    ASSUME Sane, TypeOK, Types, NEW w \in Workers, Step(w)
    PROVE  Types' /\ row' \in Row \cup {None}
<1> DEFINE s == todo[w][1]
<1>1. /\ s \in AnyStep /\ todo' \in [Workers -> Seq(AnyStep)]
      /\ UNCHANGED <<subclass, requests, uploads, faults, crashed, calm>>
    BY StepList
<1>2. Loads(w, s) /\ Rows(w, s) /\ Permits(s) /\ Notes(s)
    BY StepEffect
<1>3. /\ s.do \in Kinds
      /\ s.do = "log" => s.file \in Files /\ s.version \in Nat
      /\ s.do = "write" => s.file \in Files
      /\ s.do = "save" => s.far \in Fars
      /\ s.do = "store" => s.up \in Submitted
    BY <1>1, StepFields
<1> HIDE DEF s
<1>4. inst' \in [Workers -> Row]
    <2>1. base \in SUBSET Groups /\ row \in Row \cup {None} /\ inst \in [Workers -> Row]
        BY DEF TypeOK, Types
    <2>2. inst[w] \in Row
        BY <2>1
    <2>3. [inst[w] EXCEPT !.cache = base] \in Row /\ [inst[w] EXCEPT !.far = @] \in Row
        BY <2>1, <2>2 DEF Row
    <2>4. s.do = "save" => [inst[w] EXCEPT !.far = s.far] \in Row
        BY <1>3, <2>2 DEF Row
    <2>5. CASE s.do = "refresh"
        BY <1>2, <2>1, <2>3, <2>5 DEF Loads
    <2>6. CASE s.do = "reload"
        BY <1>2, <2>1, <2>6 DEF Loads
    <2>7. CASE s.do = "save"
        BY <1>2, <2>1, <2>4, <2>7 DEF Loads
    <2>8. CASE s.do = "resave"
        BY <1>2, <2>1, <2>3, <2>8 DEF Loads
    <2>9. CASE s.do = "end"
        BY <1>2, <2>1, <2>9, FreshIs DEF Loads
    <2> QED BY <1>2, <2>1, <2>5, <2>6, <2>7, <2>8, <2>9 DEF Loads
<1>5. under' \in [Workers -> Row]
    <2>1. base \in SUBSET Groups /\ row \in Row \cup {None} /\ under \in [Workers -> Row]
        BY DEF TypeOK, Types
    <2>2. [under[w] EXCEPT !.cache = base] \in Row
        BY <2>1 DEF Row
    <2>3. CASE s.do = "refresh under"
        BY <1>2, <2>1, <2>2, <2>3 DEF Loads
    <2>4. CASE s.do = "underlying"
        BY <1>2, <2>1, <2>4 DEF Loads
    <2>5. CASE s.do = "end"
        BY <1>2, <2>1, <2>5, FreshIs DEF Loads
    <2> QED BY <1>2, <2>1, <2>3, <2>4, <2>5 DEF Loads
<1>6. files' \in [Files -> Nat] /\ dir' \in BOOLEAN /\ announced' \in BOOLEAN
    <2>1. files \in [Files -> Nat] /\ dir \in BOOLEAN /\ announced \in BOOLEAN
        BY DEF Types
    <2>2. s.do = "store" => s.up.name \in Files
        BY <1>3 DEF Files
    <2>3. files' \in [Files -> Nat]
        <3>1. CASE s.do = "store"
            BY <1>2, <2>1, <2>2, <3>1 DEF Notes
        <3>2. CASE s.do = "write"
            BY <1>2, <1>3, <2>1, <3>2 DEF Notes
        <3>3. CASE s.do = "rmtree"
            BY <1>2, <3>3 DEF Notes
        <3>4. CASE s.do \notin {"store", "write", "rmtree"}
            BY <1>2, <2>1, <3>4 DEF Notes
        <3> QED BY <3>1, <3>2, <3>3, <3>4
    <2>4. dir' \in BOOLEAN
        BY <1>2, <2>1 DEF Notes
    <2>5. announced' \in BOOLEAN
        BY <1>2, <2>1 DEF Notes
    <2> QED BY <2>3, <2>4, <2>5
<1>7. logs' \in Seq([file : Files, version : Nat])
    <2>1. logs \in Seq([file : Files, version : Nat])
        BY DEF Types
    <2>2. CASE s.do = "log"
        <3>1. [file |-> s.file, version |-> s.version] \in [file : Files, version : Nat]
            BY <1>3, <2>2
        <3> DEFINE e == [file |-> s.file, version |-> s.version]
        <3>2. logs' = Append(logs, e)
            BY <1>2, <2>2 DEF Notes
        <3> HIDE DEF e
        <3>3. e \in [file : Files, version : Nat]
            BY <3>1 DEF e
        <3> QED BY <2>1, <3>2, <3>3, AppendProperties
    <2>3. CASE s.do = "delete row"
        BY <1>2, <2>3, EmptySeq DEF Rows
    <2> QED BY <1>2, <2>1, <2>2, <2>3 DEF Notes
<1>8. want' \in [sv : BOOLEAN, far : Fars \cup {None}]
    BY <1>2, <1>3 DEF Types, Rows
<1>9. refused' \in BOOLEAN
    <2>1. refused \in BOOLEAN
        BY DEF Types
    <2> QED BY <1>2, <2>1 DEF Rows
<1>10. row' \in Row \cup {None}
    BY <1>2, <1>4, <1>5, ZenonT(40) DEF Rows, TypeOK
<1>11. crashed' \in BOOLEAN /\ calm' \in BOOLEAN
    BY <1>1 DEF Types
<1> QED BY <1>1, <1>4, <1>5, <1>6, <1>7, <1>8, <1>9, <1>10, <1>11 DEF Types

\* The versions a step adds.
LEMMA StepFiles ==
    ASSUME Types, NEW w \in Workers, Step(w)
    PROVE  /\ todo[w][1].do # "rmtree" => \A f \in Files : files'[f] >= files[f]
           /\ todo[w][1].do = "store" =>
                  /\ todo[w][1].up.name \in Files
                  /\ files'[todo[w][1].up.name] = files[todo[w][1].up.name] + 1
           /\ todo[w][1].do = "write" =>
                  /\ todo[w][1].file \in Files
                  /\ files'[todo[w][1].file] = files[todo[w][1].file] + 1
           /\ \A f \in Files : files[f] \in Nat
<1> DEFINE s == todo[w][1]
<1>1. s \in AnyStep
    BY StepList
<1>2. Notes(s)
    BY StepEffect
<1>3. /\ s.do = "write" => s.file \in Files
      /\ s.do = "store" => s.up.name \in Files
    BY <1>1, StepFields DEF Files
<1>4. files \in [Files -> Nat]
    BY DEF Types
<1> HIDE DEF s
<1>5. s.do # "rmtree" => \A f \in Files : files'[f] >= files[f]
    <2>1. CASE s.do = "store"
        BY <1>2, <1>3, <1>4, <2>1 DEF Notes
    <2>2. CASE s.do = "write"
        BY <1>2, <1>3, <1>4, <2>2 DEF Notes
    <2>3. CASE s.do \notin {"store", "write", "rmtree"}
        <3>1. files' = files
            BY <1>2, <2>3 DEF Notes
        <3> QED BY <1>4, <3>1
    <2> QED BY <2>1, <2>2, <2>3
<1>6. s.do = "store" => files'[s.up.name] = files[s.up.name] + 1
    BY <1>2, <1>3, <1>4 DEF Notes
<1>7. s.do = "write" => files'[s.file] = files[s.file] + 1
    BY <1>2, <1>3, <1>4 DEF Notes
<1> QED BY <1>3, <1>4, <1>5, <1>6, <1>7 DEF s

\* What the first step of a list tells.
LEMMA FirstStep ==
    ASSUME NEW t \in Seq(AnyStep), t # <<>>, NEW b, WellMade(t, b)
    PROVE  /\ 1 \in 1 .. Len(t) /\ Len(t) \in Nat
           /\ t[1].do = "end" => Len(t) = 1
           /\ t[1].do \in {"give", "take"} /\ t[1].of = "sub" => b
           /\ Has(t, {"insert"}) => t[1].do = "insert"
           /\ t[1].do = "new" => \A i \in 2 .. Len(t) : t[i].do \in {"label", "end"}
<1>1. Len(t) \in Nat \ {0}
    BY HeadIs
<1>2. 1 \in 1 .. Len(t)
    BY <1>1
<1>3. t[1].do = "end" => Len(t) = 1
    BY <1>2 DEF WellMade
<1>4. Has(t, {"insert"}) => t[1].do = "insert"
    BY DEF WellMade, Has
<1>5. t[1].do = "new" => \A i \in 2 .. Len(t) : t[i].do \in {"label", "end"}
    BY <1>1, <1>2 DEF WellMade
<1> QED BY <1>1, <1>2, <1>3, <1>4, <1>5 DEF WellMade

\* A request that undoes a submission begins with a deletion.
LEMMA UndoesFirst ==
    ASSUME NEW t, NEW gone, Undoes(t, gone)
    PROVE  /\ t[1].do \in Deletes
           /\ t[1].do = "delete row" => t = LeavesAll
           /\ t[1].do = "rmtree" => gone /\ t = LeavesDir
           /\ t[1].do = "delete perms" => gone /\ t = LeavesPerms
BY LeavesAre DEF Undoes, Deletes

\* A request that deletes is on its way back.
LEMMA DeletesNow ==
    ASSUME Types, NEW w \in Workers, Going(w), ~ Idle(w), todo[w][1].do \in Deletes
    PROVE  Undoes(todo[w], refused)
<1>1. todo[w] \in Seq(AnyStep) /\ todo[w] # <<>>
    BY DEF Types, Idle
<1>2. Has(todo[w], Deletes)
    BY <1>1, HasFirst
<1> QED BY <1>2 DEF Going

\* ... and the type invariant with what it says about the files and the log messages.
LEMMA StepTypeOK ==
    ASSUME Sane, TypeOK, Types, NEW w \in Workers, Going(w), Step(w)
    PROVE  TypeOK'
<1> DEFINE s == todo[w][1]
           t == todo[w]
<1>1. /\ s \in AnyStep /\ t \in Seq(AnyStep) /\ t # <<>> /\ Len(t) \in Nat \ {0}
      /\ UNCHANGED <<subclass, requests, uploads, faults, crashed, calm>>
    BY StepList
<1>2. Loads(w, s) /\ Rows(w, s) /\ Permits(s) /\ Notes(s)
    BY StepEffect
<1>3. Types' /\ row' \in Row \cup {None}
    BY StepTypes
<1>4. /\ s.do = "give" => s.of \in {"sub", "base"} /\ s.groups \subseteq Groups
      /\ s.do = "label" => s.label \in LabelNames
      /\ s.do = "log" => s.file \in Files /\ s.version \in Nat
    BY <1>1, StepFields
<1>5. /\ s.do \in {"give", "take"} /\ s.of = "sub" => subclass
      /\ 1 \in 1 .. Len(t)
    BY <1>1, FirstStep DEF Going
<1>6. s.do = "rmtree" => refused
    BY DeletesNow, UndoesFirst DEF Deletes, Step
<1>7. /\ s.do # "rmtree" => \A f \in Files : files'[f] >= files[f]
      /\ \A f \in Files : files[f] \in Nat
    BY StepFiles
<1>8. s.do = "log" /\ ~ refused => s.version < files[s.file]
    <2> SUFFICES ASSUME s.do = "log", ~ refused PROVE s.version < files[s.file]
        OBVIOUS
    <2>1. LogComes(t, 1, files)
        BY <1>5 DEF Going, LogsCome
    <2> QED BY <2>1 DEF LogComes
<1> HIDE DEF s, t
<1>9. sub' \in SUBSET Groups /\ base' \in SUBSET Groups /\ (~ subclass' => sub' = {})
    <2>1. sub \in SUBSET Groups /\ base \in SUBSET Groups /\ (~ subclass => sub = {})
        BY DEF TypeOK
    <2>2. subclass' = subclass
        BY <1>1
    <2>3. CASE s.do = "give"
        BY <1>2, <1>4, <1>5, <2>1, <2>2, <2>3 DEF Permits
    <2>4. CASE s.do = "take"
        BY <1>2, <1>5, <2>1, <2>2, <2>4 DEF Permits
    <2>5. CASE s.do = "delete perms"
        BY <1>2, <2>1, <2>2, <2>5 DEF Permits
    <2>6. CASE s.do \notin {"give", "take", "delete perms"}
        BY <1>2, <2>1, <2>2, <2>6 DEF Permits
    <2> QED BY <2>3, <2>4, <2>5, <2>6
<1>10. \A f \in Files : files'[f] > 0 => dir'
    <2>1. CASE s.do = "rmtree"
        BY <1>2, <2>1 DEF Notes
    <2>2. CASE s.do \in {"mkdir", "store", "write"}
        <3>1. s.do = "mkdir" => dir'
            BY <1>2 DEF Notes
        <3>2. s.do # "mkdir" => dir' = dir /\ dir
            BY <1>2, <2>2 DEF Notes
        <3>3. dir'
            BY <3>1, <3>2
        <3> QED BY <3>3
    <2>3. CASE s.do \notin {"rmtree", "mkdir", "store", "write"}
        <3>1. dir' = dir /\ files' = files
            BY <1>2, <2>3 DEF Notes
        <3>2. \A f \in Files : files[f] > 0 => dir
            BY DEF TypeOK
        <3>3. \A f \in Files : files'[f] > 0 => dir
            BY <3>1, <3>2
        <3> QED BY <3>1, <3>3
    <2> QED BY <2>1, <2>2, <2>3
<1>11. refused' \/ \A i \in DOMAIN logs' : logs'[i].version < files'[logs'[i].file]
    <2> SUFFICES ASSUME ~ refused' PROVE \A i \in DOMAIN logs' : logs'[i].version < files'[logs'[i].file]
        OBVIOUS
    <2>0. s.do # "delete row"
        BY <1>2 DEF Rows
    <2>9. refused' = refused
        BY <1>2, <2>0 DEF Rows
    <2>1. ~ refused /\ s.do # "delete row" /\ s.do # "rmtree"
        BY <1>6, <2>0, <2>9
    <2>2. \A i \in DOMAIN logs : logs[i].version < files[logs[i].file]
        BY <2>1 DEF TypeOK
    <2>3. logs \in Seq([file : Files, version : Nat]) /\ DOMAIN logs = 1 .. Len(logs) /\ Len(logs) \in Nat
        BY LenProperties DEF Types
    <2>4. \A i \in DOMAIN logs : logs[i].file \in Files /\ logs[i].version \in Nat
        <3>1. \A i \in 1 .. Len(logs) : logs[i] \in [file : Files, version : Nat]
            BY <2>3, ElementOfSeq
        <3> QED BY <2>3, <3>1
    <2>5. \A f \in Files : files'[f] \in Nat /\ files[f] \in Nat /\ files'[f] >= files[f]
        BY <1>3, <1>7, <2>1 DEF Types
    <2>6. \A i \in DOMAIN logs : logs[i].version < files'[logs[i].file]
        BY <2>2, <2>4, <2>5
    <2>7. CASE s.do = "log"
        <3> DEFINE e == [file |-> s.file, version |-> s.version]
        <3>1. e \in [file : Files, version : Nat] /\ e.version < files'[e.file]
            <4>1. s.version < files[s.file] /\ s.file \in Files /\ s.version \in Nat
                BY <1>4, <1>8, <2>1, <2>7
            <4>2. s.version < files'[s.file]
                BY <2>5, <4>1
            <4> QED BY <4>1, <4>2
        <3>2. logs' = Append(logs, e)
            BY <1>2, <2>7 DEF Notes
        <3> HIDE DEF e
        <3>3. /\ logs' \in Seq([file : Files, version : Nat]) /\ Len(logs') = Len(logs) + 1
              /\ \A i \in 1 .. Len(logs) : logs'[i] = logs[i]
              /\ logs'[Len(logs) + 1] = e
            BY <2>3, <3>1, <3>2, AppendProperties
        <3>4. DOMAIN logs' = 1 .. Len(logs) + 1
            BY <3>3, LenProperties
        <3> QED BY <2>3, <2>6, <3>1, <3>3, <3>4
    <2>8. CASE s.do # "log"
        BY <1>2, <2>1, <2>6, <2>8 DEF Notes
    <2> QED BY <2>7, <2>8
<1>12. labels' \subseteq LabelNames
    BY <1>2, <1>4 DEF Notes, Rows, TypeOK
<1>13. \A v \in Workers : ~ Idle(v)' => inst'[v] \in Row
    BY <1>3 DEF Types
<1>14. /\ subclass' \in BOOLEAN
       /\ requests' \in 0 .. MaxRequests /\ uploads' \in 0 .. MaxUploads /\ faults' \in 0 .. MaxFaults
    <2>1. /\ subclass \in BOOLEAN
          /\ requests \in 0 .. MaxRequests /\ uploads \in 0 .. MaxUploads /\ faults \in 0 .. MaxFaults
        BY DEF TypeOK
    <2> QED BY <1>1, <2>1
<1> QED BY <1>3, <1>9, <1>10, <1>11, <1>12, <1>13, <1>14 DEF TypeOK

\* What was refused stays so.
LEMMA StepRefused ==
    ASSUME Types, NEW w \in Workers, Step(w)
    PROVE  /\ refused => refused'
           /\ todo[w][1].do = "delete row" => refused'
           /\ todo[w][1].do # "delete row" => (refused' <=> refused)
<1>1. Rows(w, todo[w][1])
    BY StepEffect
<1>2. todo[w][1].do = "delete row" => refused'
    BY <1>1 DEF Rows
<1>3. todo[w][1].do # "delete row" => refused' = refused
    BY <1>1 DEF Rows
<1>4. todo[w][1].do # "delete row" => (refused' <=> refused)
    BY <1>3, Zenon
<1>5. refused => refused'
    BY <1>2, <1>4, Zenon
<1> QED BY <1>2, <1>4, <1>5, Zenon

\* A step leaves its request as a request may be.
LEMMA StepGoingHere ==
    ASSUME Sane, TypeOK, Types, NEW w \in Workers, Going(w), Step(w)
    PROVE  Going(w)'
<1> DEFINE s == todo[w][1]
           t == todo[w]
           r == todo'[w]
<1>1. /\ s \in AnyStep /\ t \in Seq(AnyStep) /\ t # <<>> /\ Len(t) \in Nat \ {0}
      /\ UNCHANGED <<subclass, requests, uploads, faults, crashed, calm>>
      /\ \/ s.do # "store" /\ r = Tail(t) /\ Tailed(t, r)
         \/ s.do = "store" /\ Stored(t, r) /\ r[1] = Log(s.up.name, files[s.up.name])
    BY StepList
<1>2. files \in [Files -> Nat] /\ files' \in [Files -> Nat]
    BY StepTypes DEF Types
<1>3. WellMade(r, subclass') /\ ~ Has(r, {"insert"})
    BY <1>1, WellMadeStill DEF Going
<1>4. s.do = "rmtree" => refused /\ refused'
    BY StepRefused, DeletesNow, UndoesFirst DEF Deletes, Step
<1>5. ~ refused' => LogsCome(r, files')
    <2> SUFFICES ASSUME ~ refused' PROVE LogsCome(r, files')
        OBVIOUS
    <2>1. ~ refused /\ s.do # "rmtree"
        BY <1>4, StepRefused
    <2>2. LogsCome(t, files)
        BY <2>1 DEF Going
    <2>3. /\ \A f \in Files : files'[f] >= files[f] /\ files[f] \in Nat
          /\ s.do = "write" => files'[s.file] = files[s.file] + 1
          /\ s.do = "store" => files'[s.up.name] = files[s.up.name] + 1 /\ s.up.name \in Files
        BY <2>1, StepFiles
    <2>4. ASSUME s.do = "store"
          PROVE  Stored(t, r) /\ r[1].version < files'[r[1].file]
        <3>1. r[1].file = s.up.name /\ r[1].version = files[s.up.name]
            BY <1>1, <2>4 DEF Log
        <3>2. files[s.up.name] \in Nat /\ files'[s.up.name] = files[s.up.name] + 1
            BY <2>3, <2>4
        <3>3. r[1].version < files'[r[1].file]
            BY <3>1, <3>2
        <3> QED BY <1>1, <2>4, <3>3
    <2> HIDE DEF t, r
    <2>5. /\ t[1].do = "write" => files'[t[1].file] = files[t[1].file] + 1
          /\ t[1].do = "store" => files'[t[1].up.name] = files[t[1].up.name] + 1
          /\ (\/ Tailed(t, r) /\ t[1].do # "store"
              \/ Stored(t, r) /\ r[1].version < files'[r[1].file])
        BY <1>1, <2>3, <2>4 DEF t
    <2>6. \A f \in Files : files'[f] >= files[f]
        BY <2>3
    <2> QED BY <1>2, <2>2, <2>5, <2>6, LogsStill
<1>6. Has(r, Deletes) => Undoes(r, refused')
    <2> SUFFICES ASSUME Has(r, Deletes) PROVE Undoes(r, refused')
        OBVIOUS
    <2>1. Has(t, Deletes)
        BY <1>1, HasOnly DEF Deletes
    <2>2. Undoes(t, refused)
        BY <2>1 DEF Going
    <2>3. s.do # "store" /\ r = Tail(t)
        BY <1>1, <2>2, UndoesFirst DEF Deletes
    <2>4. CASE t = LeavesAll
        BY <2>3, <2>4, LeavesTail, LeavesAre, StepRefused DEF Undoes
    <2>5. CASE t = LeavesDir /\ refused
        BY <2>3, <2>5, LeavesTail, StepRefused DEF Undoes
    <2>6. CASE t = LeavesPerms /\ refused
        <3>1. r = Ended
            BY <2>3, <2>6, LeavesTail
        <3>2. ~ Has(Ended, Deletes)
            <4>1. \A i \in 1 .. Len(Ended) : Ended[i].do = "end"
                <5>1. Len(Ended) = 1 /\ Ended[1].do = "end"
                    BY LeavesAre
                <5>2. \A i \in 1 .. 1 : i = 1
                    OBVIOUS
                <5> QED BY <5>1, <5>2
            <4> QED BY <4>1 DEF Has, Deletes
        <3> QED BY <3>1, <3>2
    <2> QED BY <2>2, <2>4, <2>5, <2>6 DEF Undoes
<1>7. Has(r, {"insert"}) => FALSE
    BY <1>3
<1> QED BY <1>3, <1>5, <1>6, <1>7 DEF Going

\* ... and the requests of other workers as well.
LEMMA StepGoingThere ==
    ASSUME Sane, TypeOK, Types, NEW w \in Workers, Going(w), Step(w), NEW v \in Workers \ {w}, Going(v)
    PROVE  Going(v)'
<1>1. /\ todo'[v] = todo[v] /\ todo[v] \in Seq(AnyStep)
      /\ UNCHANGED <<subclass, requests>>
    BY StepList DEF Types
<1>2. files \in [Files -> Nat] /\ files' \in [Files -> Nat]
    BY StepTypes DEF Types
<1>3. todo[w][1].do = "rmtree" => refused /\ refused'
    BY StepRefused, DeletesNow, UndoesFirst DEF Deletes, Step
<1>4. ~ refused' => LogsCome(todo'[v], files')
    <2> SUFFICES ASSUME ~ refused' PROVE LogsCome(todo[v], files')
        BY <1>1
    <2>1. ~ refused /\ todo[w][1].do # "rmtree"
        BY <1>3, StepRefused
    <2>2. \A f \in Files : files'[f] >= files[f]
        BY <2>1, StepFiles
    <2>3. LogsCome(todo[v], files)
        BY <2>1 DEF Going
    <2> QED BY <1>1, <1>2, <2>2, <2>3, LogsComeMore
<1>5. WellMade(todo'[v], subclass')
    BY <1>1 DEF Going
<1>6. Has(todo'[v], Deletes) => Undoes(todo'[v], refused')
    <2>1. refused => refused'
        BY StepRefused
    <2> QED BY <1>1, <2>1 DEF Going, Undoes
<1>7. ~ Has(todo'[v], {"insert"})
    <2>1. ~ Idle(w)
        BY DEF Step
    <2>2. ~ Has(todo[v], {"insert"})
        BY <2>1 DEF Going, Alone
    <2> QED BY <1>1, <2>2
<1> QED BY <1>4, <1>5, <1>6, <1>7 DEF Going

\* Who has something to do.
LEMMA StepIdle ==
    ASSUME Types, NEW w \in Workers, Step(w)
    PROVE  /\ ~ Idle(w)
           /\ \A v \in Workers : ~ Idle(v)' => ~ Idle(v)
           /\ \A v \in Workers \ {w} : Idle(v)' <=> Idle(v)
BY StepList DEF Idle, Step

\* While requests do not overlap, a step keeps them apart.
LEMMA StepTurns ==
    ASSUME Sane, TypeOK, Types, NEW w \in Workers, \A v \in Workers : Going(v), Turns, Step(w)
    PROVE  Turns'
<1> DEFINE s == todo[w][1]
           t == todo[w]
           r == todo'[w]
<1>1. /\ s \in AnyStep /\ t \in Seq(AnyStep) /\ t # <<>> /\ Len(t) \in Nat \ {0}
      /\ UNCHANGED <<subclass, requests, uploads, faults, crashed, calm>>
      /\ \/ s.do # "store" /\ r = Tail(t) /\ Tailed(t, r)
         \/ s.do = "store" /\ Stored(t, r)
      /\ \A v \in Workers \ {w} : todo'[v] = todo[v]
      /\ todo' \in [Workers -> Seq(AnyStep)]
    BY StepList
<1>2. ~ Idle(w) /\ \A v \in Workers : ~ Idle(v)' => ~ Idle(v)
    BY StepIdle
<1>3. requests' # 0
    BY <1>1, <1>2 DEF Turns, Rest
<1>4. calm' \/ requests' = 1 => \A u, v \in Workers : ~ Idle(u)' /\ ~ Idle(v)' => u = v
    BY <1>1, <1>2 DEF Turns
<1>5. calm' => \A v \in Workers : IsUndone(todo'[v]) => faults' = 0
    <2>1. \A v \in Workers : IsUndone(todo'[v]) => IsUndone(todo[v])
        BY <1>1, IsUndoneOnly
    <2> QED BY <1>1, <2>1 DEF Turns
<1>6. ASSUME requests' = 1, announced', NEW v \in Workers
      PROVE  ~ Has(todo'[v], Writes \cup {"new"})
    <2>1. requests = 1 /\ (v # w => Idle(v))
        BY <1>1, <1>2, <1>6 DEF Turns
    <2>2. CASE announced
        <3>1. ~ Has(todo[v], Writes \cup {"new"})
            BY <2>1, <2>2 DEF Turns
        <3>2. v = w => ~ Has(r, Writes \cup {"new"})
            <4>1. "log" \notin Writes \cup {"new"}
                BY DEF Writes, Saves
            <4> QED BY <1>1, <3>1, <4>1, HasOnly
        <3> QED BY <1>1, <3>1, <3>2
    <2>3. CASE ~ announced
        <3>1. s.do = "new"
            <4>1. Notes(s)
                BY StepEffect
            <4> QED BY <1>6, <2>3, <4>1 DEF Notes
        <3>2. \A i \in 2 .. Len(t) : t[i].do \in {"label", "end"}
            BY <1>1, <3>1, FirstStep DEF Going
        <3>3. Tailed(t, r)
            BY <1>1, <3>1
        <3>4. \A i \in 1 .. Len(r) : r[i].do \in {"label", "end"}
            <4>1. Len(r) \in Nat /\ \A i \in 1 .. Len(r) : i + 1 \in 2 .. Len(t) /\ r[i] = t[i + 1]
                BY <3>3, LenProperties DEF Tailed
            <4> QED BY <3>2, <4>1
        <3>5. ~ Has(r, Writes \cup {"new"})
            BY <3>4 DEF Has, Writes, Saves
        <3>6. v # w => ~ Has(todo'[v], Writes \cup {"new"})
            <4>1. Len(<<>>) = 0
                OBVIOUS
            <4>2. v # w => Len(todo'[v]) = 0
                BY <1>1, <2>1, <4>1 DEF Idle
            <4> QED BY <4>2 DEF Has
        <3> QED BY <3>5, <3>6
    <2> QED BY <2>2, <2>3
<1> QED BY <1>3, <1>4, <1>5, <1>6 DEF Turns

\* Requests that do not overlap are alone.
LEMMA OthersIdle ==
    ASSUME Turns, calm \/ requests = 1, NEW w \in Workers, ~ Idle(w)
    PROVE  \A v \in Workers \ {w} : Idle(v)
BY DEF Turns

\* The steps back of a submission leave less and less of it.
LEMMA StepUndone ==
    ASSUME Sane, TypeOK, Types, NEW w \in Workers, Going(w), Turns, Undone, Step(w)
    PROVE  Undone'
<1> SUFFICES ASSUME calm', ~ crashed', refused', faults' = 1
             PROVE  /\ requests' > 0
                    /\ row' = None /\ logs' = <<>> /\ labels' = {}
                    /\ \A v \in Workers : todo'[v] \in {<<>>, Ended, LeavesDir, LeavesPerms}
                    /\ ~ dir' \/ \E v \in Workers : todo'[v] = LeavesDir
                    /\ Own' = {} \/ \E v \in Workers : todo'[v] \in {LeavesDir, LeavesPerms}
    BY DEF Undone
<1> DEFINE s == todo[w][1]
           t == todo[w]
           r == todo'[w]
<1>1. /\ s \in AnyStep /\ t \in Seq(AnyStep) /\ t # <<>> /\ Len(t) \in Nat \ {0}
      /\ UNCHANGED <<subclass, requests, uploads, faults, crashed, calm>>
      /\ s.do # "store" => r = Tail(t) /\ Tailed(t, r)
      /\ \A v \in Workers \ {w} : todo'[v] = todo[v]
      /\ todo' \in [Workers -> Seq(AnyStep)]
    BY StepList
<1>2. /\ ~ Idle(w) /\ \A v \in Workers \ {w} : Idle(v)
      /\ calm /\ ~ crashed /\ faults = 1 /\ requests > 0 /\ requests' > 0
    <2>1. calm /\ ~ crashed /\ faults = 1
        BY <1>1
    <2>2. ~ Idle(w) /\ \A v \in Workers \ {w} : Idle(v)
        BY <2>1, OthersIdle, StepIdle
    <2>3. requests # 0 /\ requests \in Nat
        BY <2>2 DEF Turns, Rest, TypeOK
    <2> QED BY <1>1, <2>1, <2>2, <2>3
<1>3. Loads(w, s) /\ Rows(w, s) /\ Permits(s) /\ Notes(s)
    BY StepEffect
<1>4. \A v \in Workers \ {w} : todo[v] = <<>> /\ todo'[v] = <<>>
    BY <1>1, <1>2 DEF Idle
<1>5. CASE ~ refused
    <2>1. s.do = "delete row"
        BY <1>5, StepRefused
    <2>2. t = LeavesAll
        BY <1>2, <2>1, DeletesNow, UndoesFirst DEF Deletes
    <2>3. r = LeavesDir
        BY <1>1, <2>1, <2>2, LeavesTail
    <2>4. row' = None /\ logs' = <<>> /\ labels' = {}
        BY <1>3, <2>1 DEF Rows
    <2>5. \A v \in Workers : todo'[v] \in {<<>>, LeavesDir}
        BY <1>4, <2>3
    <2> QED BY <1>2, <2>3, <2>4, <2>5
<1>6. CASE refused
    <2>1. /\ row = None /\ logs = <<>> /\ labels = {}
          /\ t \in {<<>>, Ended, LeavesDir, LeavesPerms}
          /\ ~ dir \/ \E v \in Workers : todo[v] = LeavesDir
          /\ Own = {} \/ \E v \in Workers : todo[v] \in {LeavesDir, LeavesPerms}
        BY <1>2, <1>6 DEF Undone
    <2>2. t # <<>>
        BY <1>1
    <2>3. \A v \in Workers : todo[v] \in {LeavesDir, LeavesPerms} => v = w
        BY <1>4, LeavesAre, EmptySeq
    <2>4. s.do \in {"end", "rmtree", "delete perms"}
        BY <2>1, <2>2, LeavesAre
    <2>5. row' = None /\ logs' = <<>> /\ labels' = {} /\ r = Tail(t) /\ Tailed(t, r)
        BY <1>1, <1>3, <2>1, <2>4 DEF Rows, Notes
    <2>6. CASE t = Ended
        <3>1. s.do = "end" /\ t # LeavesDir /\ t # LeavesPerms
            BY <2>6, LeavesAre
        <3>2. ~ dir /\ Own = {}
            BY <2>1, <2>3, <3>1
        <3>3. dir' = dir /\ sub' = sub /\ base' = base
            BY <1>3, <3>1 DEF Notes, Permits
        <3>4. ~ dir' /\ Own' = {}
            BY <1>1, <3>2, <3>3 DEF Own
        <3>5. r = <<>>
            <4>1. Len(r) = 0 /\ r \in Seq(AnyStep)
                <5>1. Len(t) = 1
                    BY <2>6, LeavesAre
                <5>2. Len(r) = Len(t) - 1 /\ r \in Seq(AnyStep)
                    BY <2>5 DEF Tailed
                <5> QED BY <5>1, <5>2
            <4> QED BY <4>1, EmptySeq
        <3> QED BY <1>2, <1>4, <2>5, <3>4, <3>5
    <2>7. CASE t = LeavesDir
        <3>1. s.do = "rmtree" /\ r = LeavesPerms
            BY <2>5, <2>7, LeavesAre, LeavesTail
        <3>2. dir' = FALSE
            BY <1>3, <3>1 DEF Notes
        <3> QED BY <1>2, <1>4, <2>5, <3>1, <3>2
    <2>8. CASE t = LeavesPerms
        <3>1. s.do = "delete perms" /\ r = Ended /\ t # LeavesDir
            BY <2>5, <2>8, LeavesAre, LeavesTail
        <3>2. sub' = {} /\ base' = (IF subclass THEN base ELSE {}) /\ dir' = dir
            BY <1>3, <3>1 DEF Permits, Notes
        <3>3. Own' = {}
            BY <1>1, <3>2 DEF Own
        <3>4. ~ dir
            BY <2>1, <2>3, <3>1
        <3>5. ~ dir'
            BY <3>2, <3>4
        <3> QED BY <1>2, <1>4, <2>5, <3>1, <3>3, <3>5
    <2> QED BY <2>1, <2>2, <2>6, <2>7, <2>8
<1> QED BY <1>5, <1>6

\* One column of an instance is set.
LEMMA SetFar ==
    ASSUME NEW f \in [Workers -> Row], NEW w \in Workers, NEW far, NEW g, g = [f EXCEPT ![w].far = far]
    PROVE  g[w].cache = f[w].cache /\ g[w].sv = f[w].sv /\ g[w].far = far
<1>1. f[w] \in [cache : SUBSET Groups, sv : BOOLEAN, far : Fars \cup {None}]
    BY DEF Row
<1> QED BY <1>1

\* An assignment that changes nothing.
LEMMA SetSame ==
    ASSUME NEW f \in [Workers -> Row], NEW w \in Workers, NEW g, g = [f EXCEPT ![w].far = @]
    PROVE  g = f
<1>1. f[w] \in [cache : SUBSET Groups, sv : BOOLEAN, far : Fars \cup {None}]
    BY DEF Row
<1> QED BY <1>1

\* The instances of a request after a step.
LEMMA StepLoads ==
    ASSUME Types, NEW w \in Workers, Step(w)
    PROVE  LET d == todo[w][1].do
               i == inst'[w]
               u == under'[w]
           IN  /\ d = "refresh" => i.cache = base /\ i.sv = inst[w].sv /\ i.far = inst[w].far
               /\ d = "save" => /\ i.cache = inst[w].cache /\ i.sv = inst[w].sv
                                /\ i.far = todo[w][1].far
               /\ d = "reload" => row # None /\ i = row
               /\ d \notin {"refresh", "save", "reload", "end"} => i = inst[w]
               /\ d = "refresh under" => u.cache = base /\ u.sv = under[w].sv /\ u.far = under[w].far
               /\ d = "underlying" => row # None /\ u = row
               /\ d \notin {"refresh under", "underlying", "end"} => u = under[w]
<1> DEFINE s == todo[w][1]
<1>1. Loads(w, s)
    BY StepEffect
<1>2. inst \in [Workers -> Row] /\ under \in [Workers -> Row]
    BY DEF Types
<1> HIDE DEF s
<1>3. s.do = "refresh" => inst'[w].cache = base /\ inst'[w].sv = inst[w].sv /\ inst'[w].far = inst[w].far
    <2> SUFFICES ASSUME s.do = "refresh"
                 PROVE  inst'[w].cache = base /\ inst'[w].sv = inst[w].sv /\ inst'[w].far = inst[w].far
        OBVIOUS
    <2> DEFINE g == inst'
               b == base
    <2>1. g = [inst EXCEPT ![w].cache = b]
        BY <1>1 DEF Loads
    <2> HIDE DEF g, b
    <2> DEFINE f == inst
    <2>3. f \in [Workers -> Row] /\ g = [f EXCEPT ![w].cache = b]
        BY <1>2, <2>1
    <2> HIDE DEF f
    <2>2. g[w].cache = b /\ g[w].sv = f[w].sv /\ g[w].far = f[w].far
        <3>1. f[w] \in [cache : SUBSET Groups, sv : BOOLEAN, far : Fars \cup {None}]
            BY <2>3 DEF Row
        <3> QED BY <2>3, <3>1
    <2> QED BY <2>2 DEF f, g, b
<1>4. s.do = "save" => /\ inst'[w].cache = inst[w].cache /\ inst'[w].sv = inst[w].sv
                       /\ inst'[w].far = s.far
    <2>1. s.do = "save" => inst' = [inst EXCEPT ![w].far = s.far]
        BY <1>1 DEF Loads
    <2> QED BY <1>2, <2>1, SetFar
<1>5. s.do = "reload" => row # None /\ inst'[w] = row
    BY <1>1, <1>2 DEF Loads
<1>6. s.do \notin {"refresh", "save", "reload", "end"} => inst'[w] = inst[w]
    <2>1. s.do = "resave" => inst' = inst
        <3>1. s.do = "resave" => inst' = [inst EXCEPT ![w].far = @]
            BY <1>1 DEF Loads
        <3> QED BY <1>2, <3>1, SetSame
    <2> QED BY <1>1, <2>1 DEF Loads
<1>7. s.do = "refresh under" =>
          under'[w].cache = base /\ under'[w].sv = under[w].sv /\ under'[w].far = under[w].far
    <2> SUFFICES ASSUME s.do = "refresh under"
                 PROVE  under'[w].cache = base /\ under'[w].sv = under[w].sv /\ under'[w].far = under[w].far
        OBVIOUS
    <2> DEFINE g == under'
               b == base
    <2>1. g = [under EXCEPT ![w].cache = b]
        BY <1>1 DEF Loads
    <2> HIDE DEF g, b
    <2> DEFINE f == under
    <2>3. f \in [Workers -> Row] /\ g = [f EXCEPT ![w].cache = b]
        BY <1>2, <2>1
    <2> HIDE DEF f
    <2>2. g[w].cache = b /\ g[w].sv = f[w].sv /\ g[w].far = f[w].far
        <3>1. f[w] \in [cache : SUBSET Groups, sv : BOOLEAN, far : Fars \cup {None}]
            BY <2>3 DEF Row
        <3> QED BY <2>3, <3>1
    <2> QED BY <2>2 DEF f, g, b
<1>8. s.do = "underlying" => row # None /\ under'[w] = row
    BY <1>1, <1>2 DEF Loads
<1>9. s.do \notin {"refresh under", "underlying", "end"} => under'[w] = under[w]
    BY <1>1 DEF Loads
<1> QED BY <1>3, <1>4, <1>5, <1>6, <1>7, <1>8, <1>9 DEF s

\* What a step does to the cache of the row, and to that of the instance that will be saved.
LEMMA StepCached ==
    ASSUME Sane, TypeOK, Types, NEW w \in Workers, Going(w), Step(w),
           Needs(todo[w], dir), Cached(todo[w], row, inst[w], base)
    PROVE  Cached(todo'[w], row', inst'[w], base')
<1> DEFINE s == todo[w][1]
           t == todo[w]
           r == todo'[w]
<1>1. /\ s \in AnyStep /\ t \in Seq(AnyStep) /\ t # <<>> /\ Len(t) \in Nat \ {0}
      /\ r \in Seq(AnyStep)
      /\ Tailed(t, r) \/ Stored(t, r)
    BY StepList
<1>2. Loads(w, s) /\ Rows(w, s) /\ Permits(s)
    BY StepEffect
<1>3. 1 \in 1 .. Len(t) /\ Len(t) \in Nat /\ (s.do = "end" => Len(t) = 1)
    BY <1>1, FirstStep DEF Going
<1>4. /\ inst \in [Workers -> Row] /\ under \in [Workers -> Row]
      /\ inst' \in [Workers -> Row] /\ under' \in [Workers -> Row]
    BY StepTypes DEF Types
<1>5. s.do \notin Deletes
    BY <1>1, HasFirst DEF Needs
<1>6. None \notin Row
    BY DEF Sane
<1>10. /\ s.do = "refresh" => inst'[w].cache = base
       /\ s.do = "save" => inst'[w].cache = inst[w].cache
       /\ s.do = "reload" => row # None /\ inst'[w] = row
       /\ s.do \notin {"refresh", "save", "reload", "end"} => inst'[w] = inst[w]
       /\ s.do = "refresh under" => under'[w].cache = base
    BY StepLoads
<1> HIDE DEF s, t, r
<1>7. CASE LastOf(t, "refresh", {"refresh under"})
    <2>1. LastOf(r, "refresh", {"refresh under"}) \/ (t[1].do = "refresh" /\ Without(r, {"refresh under"}))
        BY <1>1, <1>7, LastStill
    <2>2. CASE LastOf(r, "refresh", {"refresh under"})
        <3>1. RefreshedLater(r)
            BY <2>2 DEF LastOf, RefreshedLater
        <3> QED BY <3>1 DEF Cached, r
    <2>3. CASE t[1].do = "refresh" /\ Without(r, {"refresh under"})
        <3>1. s.do = "refresh"
            BY <2>3 DEF s, t
        <3>2. row' = inst'[w] /\ inst'[w].cache = base /\ base' = base /\ inst'[w] \in Row
            BY <1>2, <1>4, <1>10, <3>1 DEF Rows, Permits
        <3>3. row' # None /\ row'.cache = base' /\ inst'[w].cache = base'
            BY <1>6, <3>2
        <3> QED BY <2>3, <3>3 DEF Cached, Without, r
    <2> QED BY <2>1, <2>2, <2>3
<1>8. CASE LastOf(t, "refresh under", Writes)
    <2>1. LastOf(r, "refresh under", Writes) \/ (t[1].do = "refresh under" /\ Without(r, Writes))
        <3>1. "log" \notin Writes
            BY DEF Writes, Saves
        <3> QED BY <1>1, <1>8, <3>1, LastStill
    <2>2. CASE LastOf(r, "refresh under", Writes)
        <3>1. RefreshedLater(r)
            BY <2>2 DEF LastOf, RefreshedLater
        <3> QED BY <3>1 DEF Cached, r
    <2>3. CASE t[1].do = "refresh under" /\ Without(r, Writes)
        <3>1. s.do = "refresh under"
            BY <2>3 DEF s, t
        <3>2. row' = under'[w] /\ under'[w].cache = base /\ base' = base /\ under'[w] \in Row
            BY <1>2, <1>4, <1>10, <3>1 DEF Rows, Permits
        <3>3. row' # None /\ row'.cache = base'
            BY <1>6, <3>2
        <3>4. ~ Has(r, Saves)
            BY <2>3 DEF Without, Has, Writes
        <3>5. \A j \in 1 .. Len(r) : ~ OnBase(r[j]) /\ r[j].do # "refresh under"
            BY <2>3 DEF Without, Writes
        <3> QED BY <3>3, <3>4, <3>5 DEF Cached, r
    <2> QED BY <2>1, <2>2, <2>3
<1>9. CASE /\ row # None /\ row.cache = base
           /\ Without(t, {"refresh under"})
           /\ Has(t, Saves) => inst[w].cache = base
    <2>1. Without(r, {"refresh under"})
        BY <1>1, <1>9, WithoutStill
    <2>2. ~ OnBase(s) /\ s.do # "refresh under"
        BY <1>3, <1>9 DEF Without, s, t
    <2>3. base' = base
        <3>1. s.do # "delete perms"
            BY <1>5 DEF Deletes
        <3>2. s.do \in {"give", "take"} => s.of = "sub"
            <4>1. s.do \in {"give", "take"} => s.of \in {"sub", "base"}
                BY <1>1, StepFields
            <4> QED BY <2>2, <4>1 DEF OnBase
        <3>3. CASE s.do = "give"
            BY <1>2, <3>2, <3>3 DEF Permits
        <3>4. CASE s.do = "take"
            BY <1>2, <3>2, <3>4 DEF Permits
        <3> QED BY <1>2, <3>1, <3>3, <3>4 DEF Permits
    <2>4. s.do \in Saves => Has(t, Saves)
        BY <1>1, HasFirst DEF s, t
    <2>5. Has(r, Saves) => Has(t, Saves)
        <3>1. "log" \notin Saves
            BY DEF Saves
        <3> QED BY <1>1, <3>1, HasOnly
    <2>6. Has(t, Saves) /\ s.do # "end" => inst'[w].cache = base
        BY <1>9, <1>10
    <2>7. Has(r, Saves) => inst'[w].cache = base
        <3>1. s.do = "end" => ~ Has(r, Saves)
            <4>1. s.do = "end" => Tailed(t, r)
                BY <1>1 DEF Stored, s, t
            <4>2. s.do = "end" => Len(r) = 0
                BY <1>3, <4>1 DEF Tailed
            <4> QED BY <4>2 DEF Has
        <3> QED BY <2>5, <2>6, <3>1
    <2>8. row' # None /\ row'.cache = base
        <3>1. CASE s.do \in {"insert", "refresh", "save", "resave"}
            <4>1. row' = inst'[w] /\ inst'[w] \in Row
                BY <1>2, <1>4, <3>1 DEF Rows
            <4>2. inst'[w].cache = base
                BY <2>4, <2>6, <3>1 DEF Saves
            <4> QED BY <1>6, <4>1, <4>2
        <3>2. CASE s.do \notin {"insert", "refresh", "save", "resave"}
            <4>1. s.do # "delete row"
                BY <1>5 DEF Deletes
            <4> QED BY <1>2, <1>9, <2>2, <3>2, <4>1 DEF Rows
        <3> QED BY <3>1, <3>2
    <2> QED BY <2>1, <2>3, <2>7, <2>8 DEF Cached, Without, r
<1> QED
    <2>1. RefreshedLater(t) => LastOf(t, "refresh", {"refresh under"}) \/ LastOf(t, "refresh under", Writes)
        BY DEF RefreshedLater, LastOf
    <2>2. Cached(t, row, inst[w], base)
        BY DEF t
    <2>3. \/ RefreshedLater(t)
          \/ /\ row # None /\ row.cache = base
             /\ Without(t, {"refresh under"})
             /\ Has(t, Saves) => inst[w].cache = base
        BY <2>2 DEF Cached, Without
    <2> QED BY <1>7, <1>8, <1>9, <2>1, <2>3 DEF r

\* There is nothing before the first step.
LEMMA NoneBefore ==
    ASSUME NEW t, NEW d
    PROVE  ~ HasBefore(t, 1, d)
<1>1. \A j \in 1 .. 1 - 1 : FALSE
    OBVIOUS
<1> QED BY <1>1 DEF HasBefore

\* A step does not go behind what is wanted, ...
LEMMA StepWanted ==
    ASSUME Types, NEW w \in Workers, Step(w)
    PROVE  LET d == todo[w][1].do
           IN  /\ d # "save" => want' = want
               /\ d = "save" => want'.sv = want.sv /\ want'.far = todo[w][1].far
<1> DEFINE s == todo[w][1]
<1>1. Rows(w, s)
    BY StepEffect
<1>2. want \in [sv : BOOLEAN, far : Fars \cup {None}]
    BY DEF Types
<1> HIDE DEF s
<1>3. s.do = "resave" => want' = want
    BY <1>1, <1>2 DEF Rows
<1>4. s.do \notin {"save", "resave"} => want' = want
    BY <1>1 DEF Rows
<1>5. s.do = "save" => want'.sv = want.sv /\ want'.far = s.far
    BY <1>1, <1>2 DEF Rows
<1> QED BY <1>3, <1>4, <1>5 DEF s

\* After a step the request will still save what is wanted.
LEMMA StepKept ==
    ASSUME Sane, TypeOK, Types, NEW w \in Workers, Going(w), Step(w),
           Needs(todo[w], dir), Kept(todo[w], inst[w], under[w], want),
           row # None => AsWanted(row, want)
    PROVE  /\ Kept(todo'[w], inst'[w], under'[w], want')
           /\ todo[w][1].do \in Saves => AsWanted(inst'[w], want')
           /\ row' # None => AsWanted(row', want')
<1> DEFINE s == todo[w][1]
           t == todo[w]
           r == todo'[w]
           i == inst'[w]
           u == under'[w]
<1>1. /\ s \in AnyStep /\ t \in Seq(AnyStep) /\ t # <<>> /\ Len(t) \in Nat \ {0}
      /\ r \in Seq(AnyStep)
      /\ Tailed(t, r) \/ Stored(t, r)
    BY StepList
<1>2. /\ s.do = "refresh" => i.sv = inst[w].sv /\ i.far = inst[w].far
      /\ s.do = "save" => i.sv = inst[w].sv /\ i.far = s.far
      /\ s.do = "reload" => row # None /\ i = row
      /\ s.do \notin {"refresh", "save", "reload", "end"} => i = inst[w]
      /\ s.do = "refresh under" => u.sv = under[w].sv /\ u.far = under[w].far
      /\ s.do = "underlying" => row # None /\ u = row
      /\ s.do \notin {"refresh under", "underlying", "end"} => u = under[w]
    BY StepLoads
<1>3. /\ s.do # "save" => want' = want
      /\ s.do = "save" => want'.sv = want.sv /\ want'.far = s.far
    BY StepWanted
<1>4. 1 \in 1 .. Len(t) /\ (s.do = "end" => Len(t) = 1)
    BY <1>1, FirstStep DEF Going
<1>5. s.do = "end" => Len(r) = 0
    BY <1>1, <1>4 DEF Tailed, Stored
<1>6. s.do \notin Deletes
    BY <1>1, HasFirst DEF Needs
<1>7. s.do \in Saves => AsWanted(i, want')
    <2>1. s.do \in Saves => AsWanted(inst[w], want)
        <3>1. s.do \in Saves => Has(t, Saves)
            BY <1>1, HasFirst
        <3> QED BY <3>1 DEF Kept
    <2> QED BY <1>2, <1>3, <2>1 DEF AsWanted, Saves
<1>8. s.do = "refresh under" => AsWanted(u, want')
    <2> SUFFICES ASSUME s.do = "refresh under" PROVE AsWanted(u, want')
        OBVIOUS
    <2>1. ~ HasBefore(t, 1, "underlying")
        BY NoneBefore
    <2>2. AsWanted(under[w], want)
        BY <1>4, <2>1 DEF Kept
    <2> QED BY <1>2, <1>3, <2>2 DEF AsWanted
<1>9. Kept(r, i, u, want')
    <2>1. Len(r) = 0 \/ AsWanted(i, want') \/ (s.do \notin Saves /\ i = inst[w] /\ want' = want)
        <3>1. CASE s.do \in Saves
            BY <1>7, <3>1
        <3>2. CASE s.do = "end"
            BY <1>5, <3>2
        <3>3. CASE s.do = "reload"
            BY <1>2, <1>3, <3>3 DEF AsWanted
        <3>4. CASE s.do \notin Saves \cup {"end", "reload"}
            BY <1>2, <1>3, <3>4 DEF Saves
        <3> QED BY <3>1, <3>2, <3>3, <3>4
    <2>2. s.do = "underlying" => AsWanted(u, want')
        BY <1>2, <1>3 DEF AsWanted
    <2>3. s.do \in {"save", "end", "underlying"} \/ (u.sv = under[w].sv /\ u.far = under[w].far /\ want' = want)
        BY <1>2, <1>3
    <2>4. Kept(t, inst[w], under[w], want)
        OBVIOUS
    <2> DEFINE oi == inst[w]
               ou == under[w]
               ow == want
               nw == want'
    <2>5. /\ Kept(t, oi, ou, ow)
          /\ Len(r) = 0 \/ AsWanted(i, nw) \/ (t[1].do \notin Saves /\ i = oi /\ nw = ow)
          /\ t[1].do = "underlying" => AsWanted(u, nw)
          /\ t[1].do = "end" => Len(r) = 0
          /\ t[1].do \in {"save", "end", "underlying"} \/ (u.sv = ou.sv /\ u.far = ou.far /\ nw = ow)
        BY <1>5, <2>1, <2>2, <2>3, <2>4
    <2> HIDE DEF t, r, i, u, oi, ou, ow, nw, s
    <2>6. Kept(r, i, u, nw)
        BY <1>1, <2>5, KeptStill
    <2> QED BY <2>6 DEF nw
<1>10. row' # None => AsWanted(row', want')
    <2>1. Rows(w, s)
        BY StepEffect
    <2>2. CASE s.do \in {"insert", "refresh", "save", "resave"}
        BY <1>7, <2>1, <2>2 DEF Rows, Saves
    <2>3. CASE s.do = "refresh under"
        BY <1>8, <2>1, <2>3 DEF Rows
    <2>4. CASE s.do \notin {"insert", "refresh", "save", "resave", "refresh under"}
        <3>1. row' = row /\ want' = want
            BY <1>3, <1>6, <2>1, <2>4 DEF Rows, Deletes
        <3> QED BY <3>1 DEF AsWanted
    <2> QED BY <2>2, <2>3, <2>4
<1> QED BY <1>7, <1>9, <1>10

\* ... nor behind what is shown.
LEMMA StepShown ==
    ASSUME Types, NEW w \in Workers, Going(w), Step(w), Needs(todo[w], dir), Shown(todo[w], sub, base)
    PROVE  Shown(todo'[w], sub', base')
<1> DEFINE s == todo[w][1]
           t == todo[w]
           r == todo'[w]
<1>1. /\ s \in AnyStep /\ t \in Seq(AnyStep) /\ t # <<>>
      /\ Tailed(t, r) \/ Stored(t, r)
    BY StepList
<1>2. Permits(s)
    BY StepEffect
<1>3. s.do # "delete perms"
    BY <1>1, HasFirst DEF Needs, Deletes
<1>4. s.do \in {"give", "take"} => s.of \in {"sub", "base"}
    BY <1>1, StepFields
<1>5. /\ sub' = (sub \cup Given(s, "sub")) \ Taken1(s, "sub")
      /\ base' = (base \cup Given(s, "base")) \ Taken1(s, "base")
    <2> HIDE DEF s
    <2>1. CASE s.do = "give"
        BY <1>2, <1>4, <2>1 DEF Permits, Given, Taken1
    <2>2. CASE s.do = "take"
        BY <1>2, <1>4, <2>2 DEF Permits, Given, Taken1
    <2>3. CASE s.do \notin {"give", "take"}
        BY <1>2, <1>3, <2>3 DEF Permits, Given, Taken1
    <2> QED BY <2>1, <2>2, <2>3
<1> HIDE DEF r
<1> DEFINE b == base
           c == sub
           b2 == base'
           c2 == sub'
<1>6. Shown(t, c, b) /\ c2 = (c \cup Given(t[1], "sub")) \ Taken1(t[1], "sub")
      /\ b2 = (b \cup Given(t[1], "base")) \ Taken1(t[1], "base")
    BY <1>5
<1> HIDE DEF b, c, b2, c2, t
<1>7. Shown(r, c2, b2)
    BY <1>1, <1>6, ShownStill
<1> QED BY <1>7 DEF r, b2, c2

\* What is left undisturbed is so after a step.
LEMMA StepUndisturbed ==
    ASSUME Sane, TypeOK, Types, NEW w \in Workers, Going(w), Turns, Undisturbed, Step(w)
    PROVE  Undisturbed'
<1> SUFFICES ASSUME calm', faults' = 0
             PROVE  /\ ~ refused'
                    /\ \A v \in Workers : ~ Idle(v)' =>
                           /\ Needs(todo'[v], dir') /\ Cached(todo'[v], row', inst'[v], base')
                           /\ Shown(todo'[v], sub', base') /\ Kept(todo'[v], inst'[v], under'[v], want')
                    /\ row' = None => requests' = 0 \/ \E v \in Workers : Has(todo'[v], {"insert"})
                    /\ row' # None => /\ AsWanted(row', want')
                                      /\ dir' \/ \E v \in Workers : Has(todo'[v], {"mkdir"})
                    /\ row' # None /\ Rest' => row'.cache = base' /\ sub' \subseteq base'
    BY DEF Undisturbed
<1> DEFINE s == todo[w][1]
           t == todo[w]
           r == todo'[w]
<1>1. /\ s \in AnyStep /\ t \in Seq(AnyStep) /\ t # <<>> /\ Len(t) \in Nat \ {0}
      /\ UNCHANGED <<subclass, requests, uploads, faults, crashed, calm>>
      /\ Tailed(t, r) \/ Stored(t, r)
      /\ \A v \in Workers \ {w} : todo'[v] = todo[v]
    BY StepList
<1>2. /\ calm /\ faults = 0 /\ ~ Idle(w) /\ (\A v \in Workers \ {w} : Idle(v)) /\ requests # 0
      /\ \A v \in Workers : ~ Idle(v)' => v = w
    <2>1. calm /\ faults = 0
        BY <1>1
    <2>2. ~ Idle(w) /\ \A v \in Workers \ {w} : Idle(v)
        BY <2>1, OthersIdle, StepIdle
    <2>3. requests # 0
        BY <2>2 DEF Turns, Rest
    <2>4. \A v \in Workers \ {w} : Idle(v)'
        BY <2>2, StepIdle
    <2> QED BY <2>1, <2>2, <2>3, <2>4
<1>3. Notes(s) /\ Rows(w, s)
    BY StepEffect
<1>4. /\ ~ refused
      /\ Needs(t, dir) /\ Cached(t, row, inst[w], base)
      /\ Shown(t, sub, base) /\ Kept(t, inst[w], under[w], want)
      /\ row = None => \E v \in Workers : Has(todo[v], {"insert"})
      /\ row # None => /\ AsWanted(row, want)
                       /\ dir \/ \E v \in Workers : Has(todo[v], {"mkdir"})
    BY <1>2 DEF Undisturbed
<1>5. \A D : \A v \in Workers : Has(todo[v], D) => v = w
    <2>1. \A v \in Workers : v # w => Len(todo[v]) = 0
        <3>1. Len(<<>>) = 0
            OBVIOUS
        <3> QED BY <1>2, <3>1 DEF Idle
    <2> QED BY <2>1 DEF Has
<1>6. s.do \notin Deletes
    BY <1>1, <1>4, HasFirst DEF Needs
<1>7. ~ refused'
    BY <1>4, <1>6, StepRefused DEF Deletes
<1>8. Needs(r, dir')
    <2>1. dir => dir'
        <3>1. s.do = "mkdir" => dir'
            BY <1>3 DEF Notes
        <3>2. s.do # "mkdir" => dir' = dir
            BY <1>3, <1>6 DEF Notes, Deletes
        <3> QED BY <3>1, <3>2
    <2>2. s.do = "mkdir" => dir'
        BY <1>3 DEF Notes
    <2> DEFINE old == dir
               new == dir'
    <2>3. Needs(t, old) /\ (old => new) /\ (t[1].do = "mkdir" => new)
        BY <1>4, <2>1, <2>2
    <2> HIDE DEF old, new, t, r
    <2>4. Needs(r, new)
        BY <1>1, <2>3, NeedsStill
    <2> QED BY <2>4 DEF new
<1>9. Cached(r, row', inst'[w], base')
    BY <1>4, StepCached
<1>10. Shown(r, sub', base')
    BY <1>4, StepShown
<1>11. Kept(r, inst'[w], under'[w], want') /\ (row' # None => AsWanted(row', want'))
    BY <1>4, StepKept
<1>12. s.do = "insert" <=> row = None
    <2>1. row = None => s.do = "insert"
        <3>1. row = None => Has(t, {"insert"})
            BY <1>4, <1>5
        <3> QED BY <1>1, <3>1, FirstStep DEF Going
    <2>2. s.do = "insert" => row = None
        <3>1. s.do = "insert" => Has(t, {"insert"})
            BY <1>1, HasFirst
        <3> QED BY <3>1 DEF Going, Blank
    <2> QED BY <2>1, <2>2
<1>13. row' # None
    <2>1. inst'[w] \in Row /\ under'[w] \in Row /\ None \notin Row
        BY StepTypes DEF Types, Sane
    <2>2. CASE s.do \in {"insert", "refresh", "save", "resave", "refresh under"}
        <3>1. row' = inst'[w] \/ row' = under'[w]
            BY <1>3, <2>2 DEF Rows
        <3> QED BY <2>1, <3>1
    <2>3. CASE s.do \notin {"insert", "refresh", "save", "resave", "refresh under"}
        <3>1. row' = row
            BY <1>3, <1>6, <2>3 DEF Rows, Deletes
        <3> QED BY <1>12, <2>3, <3>1
    <2> QED BY <2>2, <2>3
<1>14. dir' \/ Has(r, {"mkdir"})
    <2>1. dir \/ Has(t, {"mkdir"})
        <3>1. row = None => Has(t, {"mkdir"})
            <4>1. row = None => Has(t, {"insert"})
                BY <1>4, <1>5
            <4> QED BY <4>1 DEF Going
        <3>2. row # None => dir \/ Has(t, {"mkdir"})
            BY <1>4, <1>5
        <3> QED BY <3>1, <3>2
    <2>2. s.do = "mkdir" => dir'
        BY <1>3 DEF Notes
    <2>3. s.do # "mkdir" /\ Has(t, {"mkdir"}) => Has(r, {"mkdir"})
        BY <1>1, HasStill
    <2>4. s.do # "mkdir" => dir' = dir
        BY <1>3, <1>6 DEF Notes, Deletes
    <2>5. CASE s.do = "mkdir"
        BY <2>2, <2>5
    <2>6. CASE s.do # "mkdir"
        BY <2>1, <2>3, <2>4, <2>6
    <2> QED BY <2>5, <2>6
<1>15. Rest' => row'.cache = base' /\ sub' \subseteq base'
    <2> SUFFICES ASSUME Rest' PROVE row'.cache = base' /\ sub' \subseteq base'
        OBVIOUS
    <2>1. Len(r) = 0
        <3>1. r = <<>>
            BY DEF Rest, Idle
        <3>2. Len(<<>>) = 0
            OBVIOUS
        <3> QED BY <3>1, <3>2
    <2>2. ~ RefreshedLater(r)
        BY <2>1 DEF RefreshedLater
    <2>3. row'.cache = base'
        BY <1>9, <2>2 DEF Cached
    <2>4. Gives(r, "base") = {} /\ Takes(r, "sub") = {}
        BY <2>1 DEF Gives, Takes
    <2> QED BY <1>10, <2>3, <2>4 DEF Shown
<1> QED BY <1>2, <1>7, <1>8, <1>9, <1>10, <1>11, <1>13, <1>14, <1>15

\* The invariant is kept by a step.
LEMMA StepHolds ==
    ASSUME Sane, SubmissionInv, NEW w \in Workers, Step(w)
    PROVE  SubmissionInv'
<1>1. TypeOK /\ Types /\ (\A v \in Workers : Going(v)) /\ Turns /\ Undone /\ Undisturbed
    BY DEF SubmissionInv
<1>2. TypeOK' /\ Types'
    BY <1>1, StepTypeOK, StepTypes
<1>3. \A v \in Workers : Going(v)'
    <2>1. Going(w)'
        BY <1>1, StepGoingHere
    <2>2. \A v \in Workers \ {w} : Going(v)'
        BY <1>1, StepGoingThere
    <2> QED BY <2>1, <2>2
<1>4. Turns'
    BY <1>1, StepTurns
<1>5. Undone'
    BY <1>1, StepUndone
<1>6. Undisturbed'
    BY <1>1, StepUndisturbed
<1> QED BY <1>2, <1>3, <1>4, <1>5, <1>6 DEF SubmissionInv

-----------------------------------------------------------------------------
(* What a failure leaves.                                                  *)

\* Short lists.
LEMMA EndedIs ==
    ASSUME NEW b, NEW f
    PROVE  /\ Ended # <<>> /\ WellMade(Ended, b) /\ LogsCome(Ended, f) /\ ~ IsUndone(Ended)
           /\ \A D : "end" \notin D => ~ Has(Ended, D)
<1>1. Ended \in Seq(AnyStep) /\ Len(Ended) = 1 /\ Ended[1].do = "end" /\ DOMAIN Ended = 1 .. 1
    BY LeavesAre, LenProperties
<1>2. \A i \in 1 .. Len(Ended) : i = 1 /\ Ended[i].do = "end"
    <2>1. \A i \in 1 .. 1 : i = 1
        OBVIOUS
    <2> QED BY <1>1, <2>1
<1>3. Ended # <<>>
    <2>1. Ended \in Seq(AnyStep) /\ Len(Ended) # 0
        BY <1>1
    <2> QED BY <2>1, EmptySeq
<1>4. WellMade(Ended, b)
    BY <1>1, <1>2 DEF WellMade
<1>5. LogsCome(Ended, f)
    BY <1>2 DEF LogsCome
<1>6. ~ IsUndone(Ended)
    BY <1>1, <1>2 DEF IsUndone
<1>7. \A D : "end" \notin D => ~ Has(Ended, D)
    BY <1>2 DEF Has
<1> QED BY <1>3, <1>4, <1>5, <1>6, <1>7

\* The whole way back as a list of steps.
LEMMA LeavesAllIs ==
    ASSUME NEW b, NEW f
    PROVE  /\ LeavesAll # <<>> /\ WellMade(LeavesAll, b) /\ LogsCome(LeavesAll, f)
           /\ ~ IsUndone(LeavesAll)
           /\ ~ Has(LeavesAll, {"insert"}) /\ ~ Has(LeavesAll, Writes \cup {"new"})
<1>1. /\ LeavesAll \in Seq(AnyStep) /\ Len(LeavesAll) = 4 /\ LeavesAll[1].do = "delete row"
      /\ LeavesAll[2].do = "rmtree" /\ LeavesAll[3].do = "delete perms" /\ LeavesAll[4].do = "end"
      /\ DOMAIN LeavesAll = 1 .. 4
    BY LeavesAre, LenProperties
<1>2. \A i \in 1 .. 4 : i \in {1, 2, 3, 4}
    OBVIOUS
<1>3. \A i \in 1 .. Len(LeavesAll) : LeavesAll[i].do \in Deletes \/ (LeavesAll[i].do = "end" /\ i = 4)
    BY <1>1, <1>2 DEF Deletes
<1>4. LeavesAll # <<>>
    <2>1. LeavesAll \in Seq(AnyStep)
        BY <1>1
    <2>2. Len(LeavesAll) = 4
        BY <1>1
    <2> QED BY <2>1, <2>2, EmptySeq
<1>5. WellMade(LeavesAll, b)
    BY <1>1, <1>3 DEF WellMade, Deletes
<1>6. LogsCome(LeavesAll, f)
    BY <1>3 DEF LogsCome, Deletes
<1>7. ~ IsUndone(LeavesAll)
    BY <1>1, <1>3 DEF IsUndone, Deletes
<1>8. ~ Has(LeavesAll, {"insert"}) /\ ~ Has(LeavesAll, Writes \cup {"new"})
    BY <1>3 DEF Has, Deletes, Writes, Saves
<1> QED BY <1>4, <1>5, <1>6, <1>7, <1>8

\* An error in a step leaves a request that ends, a submission that is undone, or what comes
\* after the alert.
LEMMA LeftAre ==
    ASSUME NEW t \in Seq(AnyStep), t # <<>>, NEW r, r = AfterError(t)
    PROVE  /\ t[1].do = "insert" => r = Ended
           /\ \/ r = Ended
              \/ r = LeavesAll /\ IsUndone(t) /\ t[1].do # "insert"
              \/ r = Tail(t) /\ t[1].do = "new"
<1>1. Head(t) = t[1]
    BY HeadIs
<1>2. DeleteEvent \o <<Do("end")>> = LeavesAll /\ <<Do("end")>> = Ended
    BY DeleteEnds DEF Ended
<1>3. r = CASE t[1].do = "insert" -> Ended
            [] IsUndone(t) /\ t[1].do # "insert" -> LeavesAll
            [] t[1].do = "new" -> Tail(t)
            [] OTHER -> Ended
    BY <1>1, <1>2 DEF AfterError
<1> HIDE DEF IsUndone
<1> QED BY <1>3

\* What is left of a request after an error is a request as it may be.
LEMMA LeftIs ==
    ASSUME Types, NEW w \in Workers, Going(w), ~ Idle(w),
           NEW r, r = Ended \/ (r = LeavesAll /\ IsUndone(todo[w]) /\ todo[w][1].do # "insert")
                            \/ (r = Tail(todo[w]) /\ todo[w][1].do = "new")
    PROVE  /\ r \in Seq(AnyStep) /\ WellMade(r, subclass) /\ (~ refused => LogsCome(r, files))
           /\ (Has(r, Deletes) => Undoes(r, refused)) /\ ~ Has(r, {"insert"})
           /\ ~ IsUndone(r)
           /\ ~ Has(todo[w], Writes \cup {"new"}) => ~ Has(r, Writes \cup {"new"})
<1> DEFINE t == todo[w]
<1>1. t \in Seq(AnyStep) /\ t # <<>>
    BY DEF Types, Idle
<1>2. CASE r = Ended
    <2>1. "end" \notin Deletes /\ "end" \notin Writes \cup {"new"}
        BY DEF Deletes, Writes, Saves
    <2> QED BY <1>2, <2>1, EndedIs, LeavesAre
<1>3. CASE r = LeavesAll
    <2>1. r \in Seq(AnyStep) /\ Undoes(r, refused)
        BY <1>3, LeavesAre DEF Undoes
    <2> QED BY <1>3, <2>1, LeavesAllIs
<1>4. CASE r = Tail(t) /\ t[1].do = "new"
    <2>1. Tailed(t, r) /\ r \in Seq(AnyStep)
        BY <1>1, <1>4, HeadIs DEF Tailed
    <2>2. WellMade(t, subclass) /\ \A i \in 2 .. Len(t) : t[i].do \in {"label", "end"}
        BY <1>1, <1>4, FirstStep DEF Going
    <2>3. \A i \in 1 .. Len(r) : r[i].do \in {"label", "end"}
        <3>1. Len(r) \in Nat /\ Len(t) \in Nat /\ \A i \in 1 .. Len(r) : i + 1 \in 2 .. Len(t) /\ r[i] = t[i + 1]
            BY <2>1, LenProperties DEF Tailed
        <3> QED BY <2>2, <3>1
    <2>4. WellMade(r, subclass) /\ ~ Has(r, {"insert"})
        BY <2>1, <2>2, WellMadeStill
    <2>5. LogsCome(r, files)
        BY <2>3 DEF LogsCome
    <2>6. ~ Has(r, Deletes) /\ ~ Has(r, Writes \cup {"new"})
        BY <2>3 DEF Has, Deletes, Writes, Saves
    <2>7. ~ IsUndone(r)
        <3>1. DOMAIN r = 1 .. Len(r)
            BY <2>1, LenProperties
        <3> QED BY <2>3, <3>1 DEF IsUndone
    <2> QED BY <2>1, <2>4, <2>5, <2>6, <2>7
<1> QED BY <1>2, <1>3, <1>4

\* Going and Turns, when a request is cut off in this way.
LEMMA CutOff ==
    ASSUME Types, (\A v \in Workers : Going(v)), Turns, NEW w \in Workers, ~ Idle(w),
           NEW r, r = Ended \/ (r = LeavesAll /\ IsUndone(todo[w]) /\ todo[w][1].do # "insert")
                            \/ (r = Tail(todo[w]) /\ todo[w][1].do = "new"),
           todo' = [todo EXCEPT ![w] = r], refused => refused',
           UNCHANGED <<subclass, files, requests, announced, calm>>
    PROVE  /\ todo' \in [Workers -> Seq(AnyStep)] /\ todo'[w] = r
           /\ \A v \in Workers \ {w} : todo'[v] = todo[v]
           /\ \A v \in Workers : Going(v)'
           /\ Turns'
<1>1. todo \in [Workers -> Seq(AnyStep)]
    BY DEF Types
<1>2. /\ r \in Seq(AnyStep) /\ WellMade(r, subclass) /\ (~ refused => LogsCome(r, files))
      /\ (Has(r, Deletes) => Undoes(r, refused)) /\ ~ Has(r, {"insert"})
      /\ ~ IsUndone(r)
      /\ ~ Has(todo[w], Writes \cup {"new"}) => ~ Has(r, Writes \cup {"new"})
    BY LeftIs
<1>3. /\ todo' \in [Workers -> Seq(AnyStep)] /\ todo'[w] = r
      /\ \A v \in Workers \ {w} : todo'[v] = todo[v]
    BY <1>1, <1>2
<1>4. ASSUME NEW v \in Workers PROVE Going(v)'
    <2>1. CASE v = w
        <3>1. Has(r, Deletes) => Undoes(r, refused')
            BY <1>2 DEF Undoes
        <3> QED BY <1>2, <1>3, <2>1, <3>1 DEF Going
    <2>2. CASE v # w
        <3>1. todo'[v] = todo[v] /\ Going(v)
            BY <1>3, <2>2
        <3>2. ~ Has(todo[v], {"insert"})
            BY <2>2, <3>1 DEF Going, Alone
        <3>3. Has(todo[v], Deletes) => Undoes(todo[v], refused')
            BY <3>1 DEF Going, Undoes
        <3> QED BY <3>1, <3>2, <3>3 DEF Going
    <2> QED BY <2>1, <2>2
<1>5. Turns'
    <2>1. requests' # 0
        BY DEF Turns, Rest
    <2>2. \A v \in Workers : ~ Idle(v)' => ~ Idle(v)
        BY <1>3 DEF Idle
    <2>3. calm' \/ requests' = 1 => \A u, v \in Workers : ~ Idle(u)' /\ ~ Idle(v)' => u = v
        BY <2>2 DEF Turns
    <2>4. calm' => \A v \in Workers : ~ IsUndone(todo'[v])
        <3> SUFFICES ASSUME calm', NEW v \in Workers PROVE ~ IsUndone(todo'[v])
            OBVIOUS
        <3>1. CASE v = w
            BY <1>2, <1>3, <3>1
        <3>2. CASE v # w
            <4>1. Idle(v)
                BY <3>2, OthersIdle
            <4>2. todo'[v] = <<>>
                BY <1>3, <3>2, <4>1 DEF Idle
            <4> QED BY <4>2 DEF IsUndone
        <3> QED BY <3>1, <3>2
    <2>5. requests' = 1 /\ announced' => \A v \in Workers : ~ Has(todo'[v], Writes \cup {"new"})
        BY <1>2, <1>3 DEF Turns
    <2> QED BY <2>1, <2>3, <2>4, <2>5 DEF Turns
<1> QED BY <1>3, <1>4, <1>5

\* The invariant is kept by a step that fails.
LEMMA FailHolds ==
    ASSUME Sane, SubmissionInv, NEW w \in Workers, Fail(w)
    PROVE  SubmissionInv'
<1> DEFINE t == todo[w]
           s == t[1]
           r == AfterError(t)
<1>1. TypeOK /\ Types /\ (\A v \in Workers : Going(v)) /\ Turns /\ Undone /\ Undisturbed
    BY DEF SubmissionInv
<1>2. /\ ~ Idle(w) /\ t \in Seq(AnyStep) /\ t # <<>> /\ Head(t) = s /\ s \in AnyStep
      /\ s.do # "end"
    <2>1. ~ Idle(w) /\ t \in Seq(AnyStep) /\ t # <<>> /\ Head(t).do # "end"
        BY <1>1 DEF Fail, Types, Idle
    <2> QED BY <2>1, HeadIs
<1>3. /\ (Raises(s) /\ faults' = faults) \/ (faults < MaxFaults /\ faults' = faults + 1)
      /\ todo' = [todo EXCEPT ![w] = r]
      /\ refused' = (refused \/ s.do = "insert")
      /\ UNCHANGED <<row, subclass, sub, base, dir, files, logs, labels, inst, under, requests, uploads,
                     announced, crashed, calm, want>>
    BY <1>2 DEF Fail, perms, details
<1>4. /\ s.do = "insert" => r = Ended
      /\ \/ r = Ended
         \/ r = LeavesAll /\ IsUndone(t) /\ s.do # "insert"
         \/ r = Tail(t) /\ s.do = "new"
    BY <1>2, LeftAre
<1>5. refused => refused'
    BY <1>3
<1>6. /\ todo' \in [Workers -> Seq(AnyStep)] /\ todo'[w] = r
      /\ \A v \in Workers \ {w} : todo'[v] = todo[v]
      /\ \A v \in Workers : Going(v)'
      /\ Turns'
    <2> HIDE DEF r
    <2> QED BY <1>1, <1>2, <1>3, <1>4, <1>5, CutOff
<1> HIDE DEF r
<1>7. faults \in Nat /\ faults' \in 0 .. MaxFaults /\ (faults' = faults \/ faults' = faults + 1)
    BY <1>1, <1>3 DEF TypeOK, Sane
<1>8. TypeOK'
    <2>1. \A v \in Workers : inst[v] \in Row
        BY <1>1 DEF Types
    <2>2. refused' \/ \A i \in DOMAIN logs' : logs'[i].version < files'[logs'[i].file]
        <3>1. refused \/ \A i \in DOMAIN logs : logs[i].version < files[logs[i].file]
            BY <1>1 DEF TypeOK
        <3> QED BY <1>3, <1>5, <3>1
    <2>3. /\ row \in Row \cup {None}
          /\ sub \in SUBSET Groups /\ base \in SUBSET Groups
          /\ subclass \in BOOLEAN /\ (~ subclass => sub = {})
          /\ \A f \in Files : files[f] > 0 => dir
          /\ labels \subseteq LabelNames
          /\ requests \in 0 .. MaxRequests /\ uploads \in 0 .. MaxUploads
        BY <1>1 DEF TypeOK
    <2>4. \A f \in Files : files'[f] > 0 => dir'
        BY <1>3, <2>3
    <2>5. \A v \in Workers : ~ Idle(v)' => inst'[v] \in Row
        BY <1>3, <2>1
    <2>6. /\ row' \in Row \cup {None}
          /\ sub' \in SUBSET Groups /\ base' \in SUBSET Groups
          /\ subclass' \in BOOLEAN /\ (~ subclass' => sub' = {})
          /\ labels' \subseteq LabelNames
          /\ requests' \in 0 .. MaxRequests /\ uploads' \in 0 .. MaxUploads
        BY <1>3, <2>3
    <2> QED BY <1>7, <2>2, <2>4, <2>5, <2>6 DEF TypeOK
<1>9. Types'
    <2>1. refused' \in BOOLEAN
        BY <1>3
    <2> QED BY <1>1, <1>3, <1>6, <2>1 DEF Types
<1>10. Undisturbed'
    <2> SUFFICES ASSUME calm', faults' = 0 PROVE FALSE
        BY DEF Undisturbed
    <2>1. calm /\ faults = 0 /\ Raises(s)
        <3>1. faults = 0
            BY <1>7
        <3> QED BY <1>3, <3>1
    <2>2. /\ Needs(t, dir)
          /\ row = None => requests = 0 \/ \E v \in Workers : Has(todo[v], {"insert"})
        BY <1>1, <1>2, <2>1 DEF Undisturbed
    <2>3. 1 \in 1 .. Len(t)
        BY <1>1, <1>2, FirstStep DEF Going
    <2>4. s.do \in {"store", "write"} => dir
        BY <2>2, <2>3, NoneBefore DEF Needs
    <2>5. row = None => s.do = "insert"
        <3> SUFFICES ASSUME row = None PROVE s.do = "insert"
            OBVIOUS
        <3>1. requests # 0
            BY <1>1, <1>2 DEF Turns, Rest
        <3>2. PICK v \in Workers : Has(todo[v], {"insert"})
            BY <2>2, <3>1
        <3>3. v = w
            BY <1>1, <1>2, <3>2 DEF Going, Alone
        <3> QED BY <1>1, <1>2, <3>2, <3>3, FirstStep DEF Going
    <2> QED BY <2>1, <2>4, <2>5 DEF Raises
<1>11. Undone'
    <2> SUFFICES ASSUME calm', ~ crashed', refused', faults' = 1
                 PROVE  /\ requests' > 0
                        /\ row' = None /\ logs' = <<>> /\ labels' = {}
                        /\ \A v \in Workers : todo'[v] \in {<<>>, Ended, LeavesDir, LeavesPerms}
                        /\ ~ dir' \/ \E v \in Workers : todo'[v] = LeavesDir
                        /\ Own' = {} \/ \E v \in Workers : todo'[v] \in {LeavesDir, LeavesPerms}
        BY DEF Undone
    <2>1. calm /\ ~ crashed /\ \A v \in Workers \ {w} : Idle(v)
        BY <1>1, <1>2, <1>3, OthersIdle
    <2>2. ~ refused
        <3> SUFFICES ASSUME refused PROVE FALSE
            OBVIOUS
        <3>1. faults # 0
            BY <1>1, <2>1 DEF Undisturbed
        <3>2. faults = 1 /\ Raises(s)
            BY <1>3, <1>7, <3>1
        <3>3. t \in {<<>>, Ended, LeavesDir, LeavesPerms}
            BY <1>1, <2>1, <3>2 DEF Undone
        <3>4. s.do \in {"rmtree", "delete perms"}
            BY <1>2, <3>3, LeavesAre
        <3> QED BY <3>2, <3>4 DEF Raises
    <2>3. s.do = "insert" /\ r = Ended
        BY <1>3, <1>4, <2>2
    <2>4. Blank /\ requests = 1
        <3>1. Has(t, {"insert"})
            BY <1>2, <2>3, HasFirst
        <3> QED BY <1>1, <3>1 DEF Going
    <2>5. \A v \in Workers : todo'[v] \in {<<>>, Ended}
        BY <1>6, <2>1, <2>3 DEF Idle
    <2>6. row = None /\ logs = <<>> /\ labels = {} /\ ~ dir /\ sub = {} /\ base = {}
        BY <2>4 DEF Blank
    <2>7. row' = None /\ logs' = <<>> /\ labels' = {} /\ ~ dir' /\ Own' = {} /\ requests' > 0
        BY <1>3, <2>4, <2>6 DEF Own
    <2> QED BY <2>5, <2>7
<1> QED BY <1>6, <1>8, <1>9, <1>10, <1>11 DEF SubmissionInv

\* The invariant is kept by the death of a worker.
LEMMA CrashHolds ==
    ASSUME Sane, SubmissionInv, NEW w \in Workers, Crash(w)
    PROVE  SubmissionInv'
<1>1. TypeOK /\ Types /\ (\A v \in Workers : Going(v)) /\ Turns /\ Undone /\ Undisturbed
    BY DEF SubmissionInv
<1>2. /\ ~ Idle(w) /\ faults < MaxFaults /\ faults' = faults + 1
      /\ todo' = [todo EXCEPT ![w] = Ended]
      /\ crashed' = TRUE
      /\ UNCHANGED <<row, subclass, sub, base, dir, files, logs, labels, inst, under, requests, uploads,
                     announced, calm, refused, want>>
    BY DEF Crash, perms, details, Ended
<1>3. /\ todo' \in [Workers -> Seq(AnyStep)] /\ todo'[w] = Ended
      /\ \A v \in Workers : Going(v)'
      /\ Turns'
    <2>1. Ended = Ended
        OBVIOUS
    <2>2. refused => refused'
        BY <1>2
    <2> HIDE DEF Ended
    <2> DEFINE r == Ended
    <2>3. r = Ended
        OBVIOUS
    <2>4. todo' = [todo EXCEPT ![w] = r] /\ UNCHANGED <<subclass, files, requests, announced, calm>>
        BY <1>2
    <2> HIDE DEF r
    <2>5. /\ todo' \in [Workers -> Seq(AnyStep)] /\ todo'[w] = r
          /\ \A v \in Workers : Going(v)'
          /\ Turns'
        BY <1>1, <1>2, <2>2, <2>3, <2>4, CutOff
    <2> QED BY <2>3, <2>5
<1>4. faults \in Nat /\ faults' \in 0 .. MaxFaults /\ faults' # 0
    BY <1>1, <1>2 DEF TypeOK, Sane
<1>5. TypeOK'
    <2>1. \A v \in Workers : inst[v] \in Row
        BY <1>1 DEF Types
    <2>3. /\ row \in Row \cup {None}
          /\ sub \in SUBSET Groups /\ base \in SUBSET Groups
          /\ subclass \in BOOLEAN /\ (~ subclass => sub = {})
          /\ labels \subseteq LabelNames
          /\ requests \in 0 .. MaxRequests /\ uploads \in 0 .. MaxUploads
        BY <1>1 DEF TypeOK
    <2>4. \A f \in Files : files'[f] > 0 => dir'
        <3>1. \A f \in Files : files[f] > 0 => dir
            BY <1>1 DEF TypeOK
        <3> QED BY <1>2, <3>1
    <2>5. \A v \in Workers : ~ Idle(v)' => inst'[v] \in Row
        BY <1>2, <2>1
    <2>2. refused' \/ \A i \in DOMAIN logs' : logs'[i].version < files'[logs'[i].file]
        <3>1. refused \/ \A i \in DOMAIN logs : logs[i].version < files[logs[i].file]
            BY <1>1 DEF TypeOK
        <3>2. refused' = refused /\ logs' = logs /\ files' = files
            BY <1>2
        <3> QED BY <3>1, <3>2
    <2>6. /\ row' \in Row \cup {None}
          /\ sub' \in SUBSET Groups /\ base' \in SUBSET Groups
          /\ subclass' \in BOOLEAN /\ (~ subclass' => sub' = {})
          /\ labels' \subseteq LabelNames
          /\ requests' \in 0 .. MaxRequests /\ uploads' \in 0 .. MaxUploads
        BY <1>2, <2>3
    <2> QED BY <1>4, <2>2, <2>4, <2>5, <2>6 DEF TypeOK
<1>6. Types'
    <2>1. crashed' \in BOOLEAN
        BY <1>2
    <2> QED BY <1>1, <1>2, <1>3, <2>1 DEF Types
<1>7. Undone'
    BY <1>2 DEF Undone
<1>8. Undisturbed'
    BY <1>4 DEF Undisturbed
<1> QED BY <1>3, <1>5, <1>6, <1>7, <1>8 DEF SubmissionInv

\* The invariant is kept when a superevent takes the event or drops it.
LEMMA SetSupereventHolds ==
    ASSUME Sane, SubmissionInv, SetSuperevent
    PROVE  SubmissionInv'
<1>1. TypeOK /\ Types /\ (\A v \in Workers : Going(v)) /\ Turns /\ Undone /\ Undisturbed
    BY DEF SubmissionInv
<1>2. /\ row # None /\ row' = [row EXCEPT !.sv = ~ @] /\ want' = [want EXCEPT !.sv = ~ row.sv]
      /\ calm' = (calm /\ (Rest \/ (announced /\ requests = 1)))
      /\ UNCHANGED <<sub, base, subclass, dir, files, logs, labels, todo, inst, under,
                     requests, uploads, faults, announced, crashed, refused>>
    BY DEF SetSuperevent, perms, details, bounds
<1>3. /\ row \in [cache : SUBSET Groups, sv : BOOLEAN, far : Fars \cup {None}]
      /\ want \in [sv : BOOLEAN, far : Fars \cup {None}]
    BY <1>1, <1>2 DEF TypeOK, Types, Row
<1>4. /\ row' \in Row /\ row'.cache = row.cache /\ row'.sv = ~ row.sv /\ row'.far = row.far
      /\ want' \in [sv : BOOLEAN, far : Fars \cup {None}] /\ want'.sv = ~ row.sv /\ want'.far = want.far
    BY <1>2, <1>3 DEF Row
<1>5. row' # None
    BY <1>4 DEF Sane
<1>6. calm' => calm
    BY <1>2
<1>7. TypeOK'
    <2>1. refused' \/ \A i \in DOMAIN logs' : logs'[i].version < files'[logs'[i].file]
        BY <1>1, <1>2 DEF TypeOK
    <2>2. \A f \in Files : files'[f] > 0 => dir'
        BY <1>1, <1>2 DEF TypeOK
    <2>3. \A v \in Workers : ~ Idle(v)' => inst'[v] \in Row
        BY <1>1, <1>2 DEF Types
    <2>4. /\ sub \in SUBSET Groups /\ base \in SUBSET Groups
          /\ subclass \in BOOLEAN /\ (~ subclass => sub = {})
          /\ labels \subseteq LabelNames
          /\ requests \in 0 .. MaxRequests /\ uploads \in 0 .. MaxUploads /\ faults \in 0 .. MaxFaults
        BY <1>1 DEF TypeOK
    <2>5. /\ sub' \in SUBSET Groups /\ base' \in SUBSET Groups
          /\ subclass' \in BOOLEAN /\ (~ subclass' => sub' = {})
          /\ labels' \subseteq LabelNames
          /\ requests' \in 0 .. MaxRequests /\ uploads' \in 0 .. MaxUploads /\ faults' \in 0 .. MaxFaults
        BY <1>2, <2>4
    <2> QED BY <1>4, <2>1, <2>2, <2>3, <2>5 DEF TypeOK
<1>8. Types'
    <2>1. calm' \in BOOLEAN
        BY <1>2
    <2> QED BY <1>1, <1>2, <1>4, <2>1 DEF Types
<1>9. \A v \in Workers : Going(v)'
    <2> SUFFICES ASSUME NEW v \in Workers PROVE Going(v)'
        OBVIOUS
    <2>1. Going(v) /\ ~ Has(todo[v], {"insert"})
        BY <1>1, <1>2 DEF Going, Blank
    <2> QED BY <1>2, <2>1 DEF Going
<1>10. Turns'
    <2>1. requests # 0
        BY <1>1, <1>2 DEF Turns, Blank
    <2>2. requests' # 0
        BY <1>2, <2>1
    <2>3. calm' \/ requests' = 1 => \A v, w \in Workers : ~ Idle(v)' /\ ~ Idle(w)' => v = w
        <3>1. calm' \/ requests' = 1 => calm \/ requests = 1
            BY <1>2, <1>6
        <3>2. \A v \in Workers : ~ Idle(v)' => ~ Idle(v)
            BY <1>2 DEF Idle
        <3> QED BY <1>1, <3>1, <3>2 DEF Turns
    <2>4. calm' => \A w \in Workers : IsUndone(todo'[w]) => faults' = 0
        <3>1. calm => \A w \in Workers : IsUndone(todo[w]) => faults = 0
            BY <1>1 DEF Turns
        <3>2. todo' = todo /\ faults' = faults
            BY <1>2
        <3> QED BY <1>6, <3>1, <3>2
    <2>5. requests' = 1 /\ announced' => \A w \in Workers : ~ Has(todo'[w], Writes \cup {"new"})
        BY <1>1, <1>2 DEF Turns
    <2> QED BY <2>2, <2>3, <2>4, <2>5 DEF Turns
<1>11. Undone'
    <2>1. ~ (calm /\ ~ crashed /\ refused /\ faults = 1)
        BY <1>1, <1>2 DEF Undone
    <2>2. ~ (calm' /\ ~ crashed' /\ refused' /\ faults' = 1)
        BY <1>2, <1>6, <2>1
    <2> QED BY <2>2 DEF Undone
<1>12. Undisturbed'
    <2> SUFFICES ASSUME calm', faults' = 0
                 PROVE  /\ ~ refused'
                        /\ \A v \in Workers : ~ Idle(v)' =>
                               /\ Needs(todo'[v], dir') /\ Cached(todo'[v], row', inst'[v], base')
                               /\ Shown(todo'[v], sub', base') /\ Kept(todo'[v], inst'[v], under'[v], want')
                        /\ row' = None => requests' = 0 \/ \E v \in Workers : Has(todo'[v], {"insert"})
                        /\ row' # None => /\ AsWanted(row', want')
                                          /\ dir' \/ \E v \in Workers : Has(todo'[v], {"mkdir"})
                        /\ row' # None /\ Rest' => row'.cache = base' /\ sub' \subseteq base'
        BY DEF Undisturbed
    <2>1. /\ calm /\ faults = 0
          /\ Rest \/ (announced /\ requests = 1)
        BY <1>2
    <2>2. /\ ~ refused
          /\ \A w \in Workers : ~ Idle(w) =>
                 /\ Needs(todo[w], dir) /\ Cached(todo[w], row, inst[w], base)
                 /\ Shown(todo[w], sub, base) /\ Kept(todo[w], inst[w], under[w], want)
          /\ AsWanted(row, want)
          /\ dir \/ \E w \in Workers : Has(todo[w], {"mkdir"})
          /\ Rest => row.cache = base /\ sub \subseteq base
        BY <1>1, <1>2, <2>1 DEF Undisturbed
    <2>3. AsWanted(row', want')
        BY <1>4, <2>2 DEF AsWanted
    <2>4. dir' \/ \E v \in Workers : Has(todo'[v], {"mkdir"})
        BY <1>2, <2>2
    <2>5. Rest' => row'.cache = base' /\ sub' \subseteq base'
        <3>1. Rest' => Rest
            BY <1>2 DEF Rest, Idle
        <3> QED BY <1>2, <1>4, <2>2, <3>1
    <2>6. ASSUME NEW v \in Workers, ~ Idle(v)'
          PROVE  /\ Needs(todo'[v], dir') /\ Cached(todo'[v], row', inst'[v], base')
                 /\ Shown(todo'[v], sub', base') /\ Kept(todo'[v], inst'[v], under'[v], want')
        <3>1. ~ Idle(v)
            BY <1>2, <2>6 DEF Idle
        <3>2. /\ Needs(todo[v], dir) /\ Cached(todo[v], row, inst[v], base)
              /\ Shown(todo[v], sub, base) /\ Kept(todo[v], inst[v], under[v], want)
            BY <2>2, <3>1
        <3>3. ~ Has(todo[v], Writes)
            <4>1. ~ Has(todo[v], Writes \cup {"new"})
                BY <1>1, <2>1, <3>1 DEF Turns, Rest
            <4> QED BY <4>1 DEF Has
        <3>4. \A i \in 1 .. Len(todo[v]) : todo[v][i].do \notin {"refresh", "refresh under"} \cup Saves
            BY <3>3 DEF Has, Writes, Saves
        <3>5. ~ RefreshedLater(todo[v]) /\ ~ Has(todo[v], Saves)
            BY <3>4 DEF RefreshedLater, Has
        <3>6. Cached(todo[v], row', inst[v], base)
            BY <1>4, <1>5, <3>2, <3>5 DEF Cached
        <3>7. Kept(todo[v], inst[v], under[v], want')
            BY <3>4, <3>5 DEF Kept
        <3> QED BY <1>2, <3>2, <3>6, <3>7
    <2> QED BY <1>2, <1>5, <2>2, <2>3, <2>4, <2>5, <2>6
<1> QED BY <1>7, <1>8, <1>9, <1>10, <1>11, <1>12 DEF SubmissionInv

-----------------------------------------------------------------------------
(* What a request begins with.                                             *)

\* The steps of a request, of a submission if it is the first, and of a later one.
Asks(r, specific) ==
    /\ r \in Seq(AnyStep) /\ r # <<>> /\ WellMade(r, specific) /\ ~ Has(r, Deletes)

Submits(r, specific) ==
    /\ Asks(r, specific)
    /\ LogsCome(r, [f \in Files |-> 0])
    /\ Has(r, {"insert"}) /\ Has(r, {"mkdir"})
    /\ Needs(r, FALSE) /\ RefreshedLater(r)
    /\ Shown(r, {}, {})
    /\ \A k \in 1 .. Len(r) : r[k].do = "refresh under" =>
          HasBefore(r, k, "underlying") /\ ~ HasBefore(r, k, "save")

\* ... on an event whose rows of permissions are s and b.
Changes(r, specific, s, b) ==
    /\ Asks(r, specific)
    /\ ~ IsUndone(r) /\ ~ Has(r, {"insert"})
    /\ \A f \in [Files -> Nat] : LogsCome(r, f)
    /\ \/ RefreshedLater(r)
       \/ \A j \in 1 .. Len(r) : ~ OnBase(r[j]) /\ r[j].do # "refresh under"
    /\ s \subseteq b => Shown(r, s, b)
    /\ \A k \in 1 .. Len(r) : r[k].do = "refresh under" =>
          HasBefore(r, k, "underlying") /\ ~ HasBefore(r, k, "save")

\* What is the same for both.
LEMMA BeginHas ==
    ASSUME Types, Turns, NEW w \in Workers, NEW i \in Row, NEW r \in Seq(AnyStep),
           todo' = [todo EXCEPT ![w] = r], inst' = [inst EXCEPT ![w] = i], calm' = (calm /\ Rest)
    PROVE  /\ todo' \in [Workers -> Seq(AnyStep)] /\ todo'[w] = r
           /\ inst' \in [Workers -> Row] /\ inst'[w] = i
           /\ \A v \in Workers \ {w} : todo'[v] = todo[v]
           /\ (calm' => calm /\ Rest) /\ (requests = 0 => Rest)
           /\ (Rest => \A v \in Workers : v # w => todo'[v] = <<>>)
<1>1. todo \in [Workers -> Seq(AnyStep)] /\ inst \in [Workers -> Row]
    BY DEF Types
<1>2. /\ todo' \in [Workers -> Seq(AnyStep)] /\ todo'[w] = r
      /\ inst' \in [Workers -> Row] /\ inst'[w] = i
      /\ \A v \in Workers \ {w} : todo'[v] = todo[v]
    BY <1>1
<1>3. requests = 0 => Rest
    BY DEF Turns
<1>4. Rest => \A v \in Workers : v # w => todo'[v] = <<>>
    BY <1>2 DEF Rest, Idle
<1> QED BY <1>2, <1>3, <1>4

\* The list of an idle worker.
LEMMA NothingToDo ==
    ASSUME NEW t, t = <<>>, NEW b, NEW f
    PROVE  WellMade(t, b) /\ LogsCome(t, f) /\ ~ IsUndone(t) /\ \A D : ~ Has(t, D)
<1>1. Len(t) = 0 /\ \A i \in 1 .. Len(t) : FALSE
    OBVIOUS
<1>2. DOMAIN t = {}
    OBVIOUS
<1> QED BY <1>1, <1>2 DEF WellMade, LogsCome, IsUndone, Has

\* A request has begun.
Begun(w, r, i) ==
    /\ requests < MaxRequests /\ requests' = requests + 1
    /\ todo' \in [Workers -> Seq(AnyStep)] /\ todo'[w] = r
    /\ inst' \in [Workers -> Row] /\ inst'[w] = i
    /\ \A v \in Workers \ {w} : todo'[v] = todo[v]
    /\ calm' = (calm /\ Rest) /\ (calm' => calm /\ Rest)
    /\ Rest => \A v \in Workers : v # w => todo'[v] = <<>>
    /\ UNCHANGED <<row, sub, base, dir, files, logs, labels, under, faults, announced,
                    crashed, refused, want>>

\* The invariant is kept when a submission begins.
LEMMA SubmitBegins ==
    ASSUME Sane, SubmissionInv, NEW w \in Workers, requests = 0, uploads < MaxUploads,
           uploads' = uploads + 1, subclass' \in BOOLEAN, NEW r, Submits(r, subclass'),
           NEW x \in Row, x = Fresh, Begun(w, r, x)
    PROVE  SubmissionInv'
<1>1. TypeOK /\ Types /\ (\A v \in Workers : Going(v)) /\ Turns /\ Undone /\ Undisturbed
    BY DEF SubmissionInv
<1>2. r \in Seq(AnyStep) /\ r # <<>> /\ Submits(r, subclass')
    BY DEF Submits, Asks
<1>3. Blank /\ Rest
    BY <1>1 DEF Turns
<1>4. /\ requests < MaxRequests /\ requests' = requests + 1
      /\ todo' \in [Workers -> Seq(AnyStep)] /\ todo'[w] = r
      /\ inst' \in [Workers -> Row] /\ inst'[w] = Fresh
      /\ \A v \in Workers : v # w => todo'[v] = <<>>
      /\ calm' = (calm /\ Rest)
      /\ UNCHANGED <<row, sub, base, dir, files, logs, labels, under, faults, announced,
                     crashed, refused, want>>
    BY <1>3 DEF Begun
<1>5. /\ row' = None /\ sub' = {} /\ base' = {} /\ ~ dir' /\ files' = [f \in Files |-> 0]
      /\ logs' = <<>> /\ labels' = {} /\ faults' = 0
      /\ ~ announced' /\ ~ crashed' /\ ~ refused' /\ calm'
      /\ want' = [sv |-> FALSE, far |-> None]
    BY <1>3, <1>4 DEF Blank
<1>6. Blank'
    BY <1>5 DEF Blank
<1>7. requests' = 1 /\ requests' \in 0 .. MaxRequests /\ uploads' \in 0 .. MaxUploads
    BY <1>1, <1>4 DEF TypeOK, Sane
<1>8. TypeOK'
    <2>1. \A f \in Files : ~ files'[f] > 0
        BY <1>5
    <2>2. \A i \in DOMAIN logs' : logs'[i].version < files'[logs'[i].file]
        <3>1. DOMAIN <<>> = {}
            OBVIOUS
        <3> QED BY <1>5, <3>1
    <2>3. \A v \in Workers : ~ Idle(v)' => inst'[v] \in Row
        BY <1>4
    <2>4. faults' \in 0 .. MaxFaults
        BY <1>5 DEF Sane
    <2>5. row' \in Row \cup {None} /\ sub' \in SUBSET Groups /\ base' \in SUBSET Groups /\ labels' \subseteq LabelNames
          /\ (~ subclass' => sub' = {})
        BY <1>5
    <2> QED BY <1>7, <2>1, <2>2, <2>3, <2>4, <2>5 DEF TypeOK
<1>9. Types'
    <2>1. calm' \in BOOLEAN
        BY <1>4
    <2> QED BY <1>1, <1>4, <2>1 DEF Types
<1>10. \A v \in Workers : v # w => Idle(v)'
    BY <1>4 DEF Idle
<1>11. \A v \in Workers : Going(v)'
    <2> SUFFICES ASSUME NEW v \in Workers PROVE Going(v)'
        OBVIOUS
    <2>1. CASE v = w
        <3>1. WellMade(r, subclass') /\ LogsCome(r, files') /\ ~ Has(r, Deletes) /\ Has(r, {"mkdir"})
            BY <1>2, <1>5 DEF Submits, Asks
        <3>2. Alone(v)'
            BY <1>10, <2>1 DEF Alone
        <3> QED BY <1>4, <1>6, <1>7, <2>1, <3>1, <3>2 DEF Going
    <2>2. CASE v # w
        BY <1>4, <2>2, NothingToDo DEF Going
    <2> QED BY <2>1, <2>2
<1>12. Turns'
    <2>1. \A u, v \in Workers : ~ Idle(u)' /\ ~ Idle(v)' => u = v
        BY <1>10
    <2> QED BY <1>5, <1>7, <2>1 DEF Turns
<1>13. Undone'
    BY <1>5 DEF Undone
<1>14. Undisturbed'
    <2>1. Needs(r, dir')
        <3>1. Needs(r, FALSE)
            BY <1>2 DEF Submits
        <3> QED BY <3>1 DEF Needs
    <2>2. Cached(r, row', inst'[w], base')
        BY <1>2 DEF Submits, Cached
    <2>3. Shown(r, sub', base')
        BY <1>2, <1>5 DEF Submits
    <2>4. Kept(r, inst'[w], under'[w], want')
        <3>1. AsWanted(inst'[w], want')
            BY <1>4, <1>5 DEF AsWanted, Fresh
        <3> QED BY <1>2, <3>1 DEF Kept, Submits
    <2>5. Has(r, {"insert"})
        BY <1>2 DEF Submits
    <2>6. \A v \in Workers : ~ Idle(v)' =>
              /\ Needs(todo'[v], dir') /\ Cached(todo'[v], row', inst'[v], base')
              /\ Shown(todo'[v], sub', base') /\ Kept(todo'[v], inst'[v], under'[v], want')
        BY <1>4, <1>10, <2>1, <2>2, <2>3, <2>4
    <2>7. \E v \in Workers : Has(todo'[v], {"insert"})
        BY <1>4, <2>5
    <2> QED BY <1>5, <2>6, <2>7 DEF Undisturbed
<1> QED BY <1>8, <1>9, <1>11, <1>12, <1>13, <1>14 DEF SubmissionInv

\* The invariant is kept when a request on an event begins.
LEMMA ChangeBegins ==
    ASSUME Sane, SubmissionInv, NEW w \in Workers, row # None, uploads' \in 0 .. MaxUploads,
           subclass' = subclass,
           NEW r, Changes(r, subclass, sub, base), NEW x \in Row, x = row, Begun(w, r, x)
    PROVE  SubmissionInv'
<1>1. TypeOK /\ Types /\ (\A v \in Workers : Going(v)) /\ Turns /\ Undone /\ Undisturbed
    BY DEF SubmissionInv
<1>2. r \in Seq(AnyStep) /\ r # <<>> /\ Changes(r, subclass, sub, base)
    BY DEF Changes, Asks
<1>3. requests # 0 /\ requests \in Nat
    BY <1>1 DEF Turns, Blank, TypeOK
<1>4. row \in Row
    BY <1>1 DEF TypeOK
<1>5. /\ requests < MaxRequests /\ requests' = requests + 1
      /\ todo' \in [Workers -> Seq(AnyStep)] /\ todo'[w] = r
      /\ inst' \in [Workers -> Row] /\ inst'[w] = row
      /\ \A v \in Workers \ {w} : todo'[v] = todo[v]
      /\ calm' = (calm /\ Rest)
      /\ (calm' => calm /\ Rest /\ \A v \in Workers : v # w => todo'[v] = <<>>)
      /\ UNCHANGED <<row, sub, base, dir, files, logs, labels, under, faults, announced,
                     crashed, refused, want>>
    BY DEF Begun
<1>6. requests' \in 0 .. MaxRequests /\ requests' # 0 /\ requests' # 1
    BY <1>3, <1>5 DEF Sane
<1>7. TypeOK'
    <2>1. refused' \/ \A i \in DOMAIN logs' : logs'[i].version < files'[logs'[i].file]
        BY <1>1, <1>5 DEF TypeOK
    <2>2. \A f \in Files : files'[f] > 0 => dir'
        BY <1>1, <1>5 DEF TypeOK
    <2>3. \A v \in Workers : ~ Idle(v)' => inst'[v] \in Row
        BY <1>5
    <2>4. /\ row \in Row \cup {None} /\ sub \in SUBSET Groups /\ base \in SUBSET Groups
          /\ subclass \in BOOLEAN /\ (~ subclass => sub = {})
          /\ labels \subseteq LabelNames /\ faults \in 0 .. MaxFaults
        BY <1>1 DEF TypeOK
    <2>5. /\ row' \in Row \cup {None} /\ sub' \in SUBSET Groups /\ base' \in SUBSET Groups
          /\ subclass' \in BOOLEAN /\ (~ subclass' => sub' = {})
          /\ labels' \subseteq LabelNames /\ faults' \in 0 .. MaxFaults
        BY <1>5, <2>4
    <2> QED BY <1>6, <2>1, <2>2, <2>3, <2>5 DEF TypeOK
<1>8. Types'
    <2>1. calm' \in BOOLEAN
        BY <1>5
    <2> QED BY <1>1, <1>5, <2>1 DEF Types
<1>9. \A v \in Workers : Going(v)'
    <2> SUFFICES ASSUME NEW v \in Workers PROVE Going(v)'
        OBVIOUS
    <2>1. CASE v = w
        <3>1. /\ WellMade(r, subclass) /\ ~ Has(r, Deletes) /\ ~ Has(r, {"insert"})
              /\ LogsCome(r, files)
            BY <1>1, <1>2 DEF Changes, Asks, Types
        <3>2. WellMade(r, subclass') /\ LogsCome(r, files')
            BY <1>5, <3>1
        <3> QED BY <1>5, <2>1, <3>1, <3>2 DEF Going
    <2>2. CASE v # w
        <3>1. todo'[v] = todo[v] /\ Going(v)
            BY <1>1, <1>5, <2>2
        <3>2. ~ Has(todo[v], {"insert"})
            BY <3>1 DEF Going, Blank
        <3> QED BY <1>5, <3>1, <3>2 DEF Going
    <2> QED BY <2>1, <2>2
<1>10. calm' => \A v \in Workers : v # w => Idle(v)'
    BY <1>5 DEF Idle
<1>11. Turns'
    <2>1. calm' => \A u, v \in Workers : ~ Idle(u)' /\ ~ Idle(v)' => u = v
        BY <1>10
    <2>2. calm' => \A v \in Workers : ~ IsUndone(todo'[v])
        BY <1>2, <1>5, NothingToDo DEF Changes
    <2> QED BY <1>6, <2>1, <2>2 DEF Turns
<1>12. Undone'
    <2>1. ~ (calm /\ ~ crashed /\ refused /\ faults = 1)
        BY <1>1 DEF Undone
    <2>2. ~ (calm' /\ ~ crashed' /\ refused' /\ faults' = 1)
        BY <1>5, <2>1
    <2> QED BY <2>2 DEF Undone
<1>13. Undisturbed'
    <2> SUFFICES ASSUME calm', faults' = 0
                 PROVE  /\ ~ refused'
                        /\ \A v \in Workers : ~ Idle(v)' =>
                               /\ Needs(todo'[v], dir') /\ Cached(todo'[v], row', inst'[v], base')
                               /\ Shown(todo'[v], sub', base') /\ Kept(todo'[v], inst'[v], under'[v], want')
                        /\ row' = None => requests' = 0 \/ \E v \in Workers : Has(todo'[v], {"insert"})
                        /\ row' # None => /\ AsWanted(row', want')
                                          /\ dir' \/ \E v \in Workers : Has(todo'[v], {"mkdir"})
                        /\ row' # None /\ Rest' => row'.cache = base' /\ sub' \subseteq base'
        BY DEF Undisturbed
    <2>1. /\ ~ refused /\ AsWanted(row, want) /\ row.cache = base /\ sub \subseteq base /\ dir
        <3>1. calm /\ faults = 0 /\ Rest
            BY <1>5
        <3>2. \A v \in Workers : ~ Has(todo[v], {"mkdir"})
            BY <3>1, NothingToDo DEF Rest, Idle
        <3> QED BY <1>1, <3>1, <3>2 DEF Undisturbed
    <2>2. Needs(r, dir')
        <3>1. dir' /\ ~ Has(r, Deletes)
            BY <1>2, <1>5, <2>1 DEF Changes, Asks
        <3> QED BY <3>1 DEF Needs
    <2>3. Cached(r, row', inst'[w], base')
        <3>1. Cached(r, row, row, base)
            BY <1>2, <2>1 DEF Changes, Cached
        <3> QED BY <1>5, <3>1
    <2>4. Shown(r, sub', base')
        <3>1. Shown(r, sub, base)
            BY <1>2, <2>1 DEF Changes
        <3> QED BY <1>5, <3>1
    <2>5. Kept(r, inst'[w], under'[w], want')
        <3>1. Kept(r, row, under[w], want)
            BY <1>2, <2>1 DEF Kept, Changes
        <3> QED BY <1>5, <3>1
    <2>6. \A v \in Workers : ~ Idle(v)' => v = w
        BY <1>10
    <2>7. ~ Rest'
        BY <1>2, <1>5 DEF Rest, Idle
    <2>8. ~ refused' /\ AsWanted(row', want') /\ dir' /\ row' # None
        BY <1>5, <2>1
    <2> QED BY <1>5, <2>2, <2>3, <2>4, <2>5, <2>6, <2>7, <2>8
<1> QED BY <1>7, <1>8, <1>9, <1>11, <1>12, <1>13 DEF SubmissionInv

-----------------------------------------------------------------------------
(* The steps of a submission, in order.                                    *)

\* Where a step has its place.  Nothing that takes or deletes has one.
Rank(s) ==
    IF s.do = "insert" THEN 1
    ELSE IF s.do = "give" /\ s.of = "sub" THEN 2
    ELSE IF s.do = "underlying" THEN 3
    ELSE IF s.do = "give" THEN 4
    ELSE IF s.do = "refresh under" THEN 5
    ELSE IF s.do = "refresh" THEN 6
    ELSE IF s.do = "mkdir" THEN 7
    ELSE IF s.do = "store" THEN 8
    ELSE IF s.do = "write" THEN 9
    ELSE IF s.do = "log" THEN 10
    ELSE IF s.do = "save" THEN 11
    ELSE IF s.do = "resave" THEN 12
    ELSE IF s.do = "alert" THEN 13
    ELSE IF s.do = "reload" THEN 14
    ELSE IF s.do = "new" THEN 15
    ELSE IF s.do = "label" THEN 16
    ELSE IF s.do = "end" THEN 17
    ELSE 0

\* The places there may be several steps in.
Shared == {2, 4, 9, 10, 16}

Part(t, low, high) ==
    /\ t \in Seq(AnyStep)
    /\ \A i \in 1 .. Len(t) : Rank(t[i]) \in low .. high
    /\ \A i, j \in 1 .. Len(t) :
           i < j => \/ Rank(t[i]) < Rank(t[j])
                    \/ Rank(t[i]) = Rank(t[j]) /\ Rank(t[i]) \in Shared

StepsOf(t) == {t[i] : i \in 1 .. Len(t)}

\* Places are numbers.
LEMMA RankIs ==
    ASSUME NEW s
    PROVE  Rank(s) \in 0 .. 17 /\ Rank(s) \in Nat
<1>1. Rank(s) \in 0 .. 17
    BY DEF Rank
<1> QED BY <1>1

\* Labels and the end come last.
LEMMA RankLast ==
    ASSUME NEW s, s.do # "end", s.do # "label"
    PROVE  Rank(s) \in 0 .. 15
BY DEF Rank

\* Parts of a list, put together.
LEMMA Joined ==
    ASSUME NEW a, NEW b, NEW low \in Nat, NEW mid \in Nat, NEW high \in Nat,
           low <= mid, mid <= high,
           Part(a, low, mid), Part(b, mid + 1, high)
    PROVE  Part(a \o b, low, high) /\ StepsOf(a \o b) = StepsOf(a) \cup StepsOf(b)
<1> DEFINE t == a \o b
<1>1. /\ a \in Seq(AnyStep) /\ b \in Seq(AnyStep) /\ Len(a) \in Nat /\ Len(b) \in Nat
    BY LenProperties DEF Part
<1>2. /\ t \in Seq(AnyStep) /\ Len(t) = Len(a) + Len(b)
      /\ \A i \in 1 .. Len(a) + Len(b) : t[i] = IF i <= Len(a) THEN a[i] ELSE b[i - Len(a)]
    BY <1>1, ConcatProperties
<1> HIDE DEF t
<1>3. /\ \A i \in 1 .. Len(a) : i \in 1 .. Len(t) /\ t[i] = a[i]
      /\ \A i \in 1 .. Len(b) : Len(a) + i \in 1 .. Len(t) /\ t[Len(a) + i] = b[i]
      /\ \A i \in 1 .. Len(t) : \/ i \in 1 .. Len(a) /\ t[i] = a[i]
                                \/ i > Len(a) /\ i - Len(a) \in 1 .. Len(b) /\ t[i] = b[i - Len(a)]
    <2>1. \A i \in 1 .. Len(a) : i \in 1 .. Len(t) /\ t[i] = a[i]
        <3> SUFFICES ASSUME NEW i \in 1 .. Len(a) PROVE i \in 1 .. Len(t) /\ t[i] = a[i]
            OBVIOUS
        <3>1. i \in 1 .. Len(a) + Len(b) /\ i <= Len(a)
            BY <1>1
        <3> QED BY <1>2, <3>1
    <2>2. \A i \in 1 .. Len(b) : Len(a) + i \in 1 .. Len(t) /\ t[Len(a) + i] = b[i]
        <3> SUFFICES ASSUME NEW i \in 1 .. Len(b) PROVE Len(a) + i \in 1 .. Len(t) /\ t[Len(a) + i] = b[i]
            OBVIOUS
        <3>1. Len(a) + i \in 1 .. Len(a) + Len(b) /\ ~ Len(a) + i <= Len(a) /\ (Len(a) + i) - Len(a) = i
            BY <1>1
        <3> QED BY <1>2, <3>1
    <2>3. ASSUME NEW i \in 1 .. Len(t)
          PROVE  \/ i \in 1 .. Len(a) /\ t[i] = a[i]
                 \/ i > Len(a) /\ i - Len(a) \in 1 .. Len(b) /\ t[i] = b[i - Len(a)]
        <3>1. i \in 1 .. Len(a) + Len(b) /\ t[i] = IF i <= Len(a) THEN a[i] ELSE b[i - Len(a)]
            BY <1>2
        <3>2. i <= Len(a) => i \in 1 .. Len(a)
            BY <1>1, <3>1
        <3>3. ~ i <= Len(a) => i > Len(a) /\ i - Len(a) \in 1 .. Len(b)
            BY <1>1, <3>1
        <3> QED BY <3>1, <3>2, <3>3
    <2> QED BY <2>1, <2>2, <2>3
<1>4. \A i \in 1 .. Len(t) : \/ i \in 1 .. Len(a) /\ t[i] = a[i] /\ Rank(t[i]) \in low .. mid
                             \/ /\ i > Len(a) /\ i - Len(a) \in 1 .. Len(b) /\ t[i] = b[i - Len(a)]
                                /\ Rank(t[i]) \in mid + 1 .. high
    BY <1>3 DEF Part
<1>5. \A i \in 1 .. Len(t) : Rank(t[i]) \in low .. high
    BY <1>4
<1>6. ASSUME NEW i \in 1 .. Len(t), NEW j \in 1 .. Len(t), i < j
      PROVE  \/ Rank(t[i]) < Rank(t[j])
             \/ Rank(t[i]) = Rank(t[j]) /\ Rank(t[i]) \in Shared
    <2>1. CASE i > Len(a)
        <3>0. /\ ~ i \in 1 .. Len(a) /\ ~ j \in 1 .. Len(a) /\ i - Len(a) < j - Len(a)
            BY <1>1, <1>6, <2>1
        <3>1. /\ i - Len(a) \in 1 .. Len(b) /\ t[i] = b[i - Len(a)]
              /\ j - Len(a) \in 1 .. Len(b) /\ t[j] = b[j - Len(a)]
            BY <1>3, <3>0
        <3> QED BY <3>0, <3>1, ZenonT(40) DEF Part
    <2>2. CASE ~ j > Len(a)
        <3>1. i \in 1 .. Len(a) /\ t[i] = a[i] /\ j \in 1 .. Len(a) /\ t[j] = a[j]
            BY <1>1, <1>3, <1>6, <2>2
        <3> QED BY <1>6, <3>1 DEF Part
    <2>3. CASE ~ i > Len(a) /\ j > Len(a)
        <3>1. Rank(t[i]) \in low .. mid /\ Rank(t[j]) \in mid + 1 .. high
            BY <1>4, <2>3
        <3> QED BY <3>1
    <2> QED BY <2>1, <2>2, <2>3
<1>7. Part(t, low, high)
    BY <1>2, <1>5, <1>6 DEF Part
<1>8. StepsOf(t) = StepsOf(a) \cup StepsOf(b)
    <2>1. \A x : x \in StepsOf(t) => x \in StepsOf(a) \cup StepsOf(b)
        BY <1>3 DEF StepsOf
    <2>2. \A x : x \in StepsOf(a) \cup StepsOf(b) => x \in StepsOf(t)
        <3>1. \A i \in 1 .. Len(a) : a[i] \in StepsOf(t)
            BY <1>3 DEF StepsOf
        <3>2. \A i \in 1 .. Len(b) : b[i] \in StepsOf(t)
            <4> SUFFICES ASSUME NEW i \in 1 .. Len(b) PROVE b[i] \in StepsOf(t)
                OBVIOUS
            <4>1. Len(a) + i \in 1 .. Len(t) /\ t[Len(a) + i] = b[i]
                BY <1>3
            <4> QED BY <4>1 DEF StepsOf
        <3> QED BY <3>1, <3>2 DEF StepsOf
    <2> QED BY <2>1, <2>2
<1> QED BY <1>7, <1>8 DEF t

\* Wider bounds.
LEMMA Widened ==
    ASSUME NEW t, NEW l \in Nat, NEW h \in Nat, NEW low \in Nat, NEW high \in Nat, low <= l, h <= high,
           Part(t, l, h)
    PROVE  Part(t, low, high)
<1>1. \A i \in 1 .. Len(t) : Rank(t[i]) \in low .. high
    BY DEF Part
<1> QED BY <1>1 DEF Part

\* Short parts.
LEMMA NoStep ==
    ASSUME NEW low, NEW high
    PROVE  Part(<<>>, low, high) /\ StepsOf(<<>>) = {}
<1> DEFINE t == <<>>
<1>1. t \in Seq(AnyStep) /\ Len(t) = 0
    OBVIOUS
<1> HIDE DEF t
<1>2. Part(t, low, high) /\ StepsOf(t) = {}
    BY <1>1 DEF Part, StepsOf
<1> QED BY <1>2 DEF t

\* A part of one step.
LEMMA OneStep ==
    ASSUME NEW s \in AnyStep
    PROVE  Part(<<s>>, Rank(s), Rank(s)) /\ StepsOf(<<s>>) = {s}
<1> DEFINE t == <<s>>
<1>1. t \in Seq(AnyStep) /\ Len(t) = 1 /\ t[1] = s
    OBVIOUS
<1> HIDE DEF t
<1>2. \A i \in 1 .. Len(t) : i = 1 /\ t[i] = s
    <2>1. \A i \in 1 .. 1 : i = 1
        OBVIOUS
    <2> QED BY <1>1, <2>1
<1>3. Rank(s) \in Rank(s) .. Rank(s)
    BY RankIs
<1>4. Part(t, Rank(s), Rank(s))
    BY <1>1, <1>2, <1>3 DEF Part
<1>5. StepsOf(t) = {s}
    BY <1>1, <1>2 DEF StepsOf
<1> QED BY <1>4, <1>5 DEF t

\* A part of two.
LEMMA TwoSteps ==
    ASSUME NEW s \in AnyStep, NEW u \in AnyStep, Rank(s) < Rank(u)
    PROVE  Part(<<s, u>>, Rank(s), Rank(u)) /\ StepsOf(<<s, u>>) = {s, u}
<1> DEFINE t == <<s, u>>
<1>1. t \in Seq(AnyStep) /\ Len(t) = 2 /\ t[1] = s /\ t[2] = u
    OBVIOUS
<1> HIDE DEF t
<1>2. \A i \in 1 .. Len(t) : (i = 1 /\ t[i] = s) \/ (i = 2 /\ t[i] = u)
    <2>1. \A i \in 1 .. 2 : i = 1 \/ i = 2
        OBVIOUS
    <2> QED BY <1>1, <2>1
<1>3. Rank(s) \in Nat /\ Rank(u) \in Nat
    BY RankIs
<1>4. Part(t, Rank(s), Rank(u))
    <2>1. \A i \in 1 .. Len(t) : Rank(t[i]) \in Rank(s) .. Rank(u)
        BY <1>2, <1>3
    <2>2. \A i, j \in 1 .. Len(t) : i < j => Rank(t[i]) < Rank(t[j])
        BY <1>2
    <2> QED BY <1>1, <2>1, <2>2 DEF Part
<1>5. StepsOf(t) = {s, u}
    <2>1. 1 \in 1 .. Len(t) /\ 2 \in 1 .. Len(t)
        BY <1>1
    <2> QED BY <1>1, <1>2, <2>1 DEF StepsOf
<1> QED BY <1>4, <1>5 DEF t

\* Steps come in the order of their places.
LEMMA Precedes ==
    ASSUME NEW t, NEW low, NEW high, Part(t, low, high), NEW i \in 1 .. Len(t), NEW j \in 1 .. Len(t),
           Rank(t[i]) < Rank(t[j])
    PROVE  i < j
<1>1. Rank(t[i]) \in Nat /\ Rank(t[j]) \in Nat
    BY RankIs
<1>2. Len(t) \in Nat
    BY LenProperties DEF Part
<1>3. j < i => Rank(t[j]) < Rank(t[i]) \/ Rank(t[j]) = Rank(t[i])
    BY DEF Part
<1>4. ~ j < i /\ i # j
    BY <1>1, <1>3
<1> QED BY <1>2, <1>4

\* What a list has is what its steps are.
LEMMA PartHas ==
    ASSUME NEW t, NEW D
    PROVE  Has(t, D) <=> \E s \in StepsOf(t) : s.do \in D
BY DEF Has, StepsOf

\* A list in order is well made.
LEMMA PartIsWellMade ==
    ASSUME NEW t, Part(t, 1, 17), NEW specific,
           \A s \in StepsOf(t) : s.do = "give" /\ s.of = "sub" => specific
    PROVE  WellMade(t, specific) /\ ~ Has(t, Deletes) /\ ~ Has(t, {"take"})
<1>1. Len(t) \in Nat
    BY LenProperties DEF Part
<1>2. \A i \in 1 .. Len(t) : Rank(t[i]) \in 1 .. 17
    BY DEF Part
<1>3. \A i, j \in 1 .. Len(t) : i < j => \/ Rank(t[i]) < Rank(t[j])
                                         \/ Rank(t[i]) = Rank(t[j]) /\ Rank(t[i]) \in Shared
    BY DEF Part
<1>4. \A i \in 1 .. Len(t) : t[i].do \notin Deletes /\ t[i].do # "take"
    <2>1. \A s : s.do \in Deletes \/ s.do = "take" => Rank(s) = 0
        BY DEF Rank, Deletes
    <2> QED BY <1>2, <2>1, SMTT(30)
<1>5. ASSUME NEW i \in 1 .. Len(t), t[i].do = "insert" PROVE i = 1
    <2>1. Rank(t[i]) = 1
        BY <1>5 DEF Rank
    <2>2. 1 \in 1 .. Len(t)
        BY <1>1
    <2>3. ~ 1 < i
        BY <1>2, <1>3, <2>1, <2>2 DEF Shared
    <2> QED BY <1>1, <2>3
<1>6. ASSUME NEW i \in 1 .. Len(t), t[i].do = "end" PROVE i = Len(t)
    <2>1. Rank(t[i]) = 17
        BY <1>6 DEF Rank
    <2>2. Len(t) \in 1 .. Len(t)
        BY <1>1
    <2>3. ~ i < Len(t)
        BY <1>2, <1>3, <2>1, <2>2 DEF Shared
    <2> QED BY <1>1, <2>3
<1>7. ASSUME NEW i \in 1 .. Len(t), NEW j \in 1 .. Len(t), i < j, t[i].do = "new"
      PROVE  t[j].do \in {"label", "end"}
    <2>1. Rank(t[i]) = 15
        BY <1>7 DEF Rank
    <2>2. Rank(t[j]) \in {16, 17}
        BY <1>2, <1>3, <1>7, <2>1 DEF Shared
    <2>3. t[j].do # "end" /\ t[j].do # "label" => Rank(t[j]) \in 0 .. 15
        BY RankLast
    <2> QED BY <2>2, <2>3, SMTT(30)
<1>8. \A i \in 1 .. Len(t) : t[i].do \in {"give", "take"} /\ t[i].of = "sub" => specific
    BY <1>4 DEF StepsOf
<1>9. WellMade(t, specific)
    BY <1>5, <1>6, <1>7, <1>8 DEF WellMade
<1> QED BY <1>4, <1>9 DEF Has

\* A list in order refreshes the event after the last row is given.
LEMMA PartRefreshes ==
    ASSUME NEW t, Part(t, 1, 17), Do("refresh") \in StepsOf(t)
    PROVE  RefreshedLater(t)
<1>1. PICK i \in 1 .. Len(t) : t[i] = Do("refresh")
    BY DEF StepsOf
<1>2. t[i].do = "refresh" /\ Rank(t[i]) = 6
    BY <1>1 DEF Do, Rank
<1>3. ASSUME NEW j \in i + 1 .. Len(t) PROVE ~ OnBase(t[j]) /\ t[j].do # "refresh under"
    <2>1. i < j /\ j \in 1 .. Len(t)
        <3>1. Len(t) \in Nat
            BY LenProperties DEF Part
        <3> QED BY <3>1
    <2>2. ~ Rank(t[j]) < Rank(t[i])
        <3>1. Rank(t[j]) < Rank(t[i]) => j < i
            BY <2>1, Precedes
        <3> QED BY <2>1, <3>1
    <2>3. Rank(t[j]) \in 1 .. 17
        BY <2>1 DEF Part
    <2>4. Rank(t[j]) >= 6
        BY <1>2, <2>2, <2>3, SMTT(30)
    <2>5. \A s : OnBase(s) \/ s.do = "refresh under" => Rank(s) \in {0, 4, 5}
        <3>1. \A s : s.do = "give" /\ s.of = "base" => Rank(s) = 4
            BY DEF Rank
        <3>2. \A s : s.do = "take" => Rank(s) = 0
            BY DEF Rank
        <3>3. \A s : s.do = "refresh under" => Rank(s) = 5
            BY DEF Rank
        <3> QED BY <3>1, <3>2, <3>3 DEF OnBase
    <2>6. OnBase(t[j]) \/ t[j].do = "refresh under" => Rank(t[j]) \in {0, 4, 5}
        BY <2>5
    <2>7. Rank(t[j]) \notin {0, 4, 5}
        BY <2>3, <2>4
    <2> QED BY <2>6, <2>7
<1> QED BY <1>2, <1>3 DEF RefreshedLater

\* A list in order loads the underlying event before it refreshes it, and saves no FAR before.
LEMMA PartUnder ==
    ASSUME NEW t, Part(t, 1, 17), Do("underlying") \in StepsOf(t)
    PROVE  \A k \in 1 .. Len(t) : t[k].do = "refresh under" =>
               HasBefore(t, k, "underlying") /\ ~ HasBefore(t, k, "save")
<1>1. PICK i \in 1 .. Len(t) : t[i] = Do("underlying")
    BY DEF StepsOf
<1>2. t[i].do = "underlying" /\ Rank(t[i]) = 3
    BY <1>1 DEF Do, Rank
<1>3. ASSUME NEW k \in 1 .. Len(t), t[k].do = "refresh under"
      PROVE  HasBefore(t, k, "underlying") /\ ~ HasBefore(t, k, "save")
    <2>1. Rank(t[k]) = 5
        BY <1>3 DEF Rank
    <2>2. Rank(t[i]) < Rank(t[k])
        BY <1>2, <2>1
    <2>3. i < k
        BY <2>2, Precedes
    <2>4. i \in 1 .. k - 1
        BY <2>3
    <2>5. HasBefore(t, k, "underlying")
        BY <1>2, <2>4 DEF HasBefore
    <2>6. ASSUME NEW j \in 1 .. k - 1, t[j].do = "save" PROVE FALSE
        <3>1. j \in 1 .. Len(t) /\ j < k
            <4>1. Len(t) \in Nat
                BY LenProperties DEF Part
            <4> QED BY <4>1
        <3>2. Rank(t[j]) = 11
            BY <2>6 DEF Rank
        <3>3. Rank(t[k]) < Rank(t[j])
            BY <2>1, <3>2
        <3>4. k < j
            BY <3>1, <3>3, Precedes
        <3> QED BY <3>1, <3>4
    <2> QED BY <2>5, <2>6 DEF HasBefore
<1> QED BY <1>3

\* A list in order makes the directory before it writes to it.
LEMMA PartNeeds ==
    ASSUME NEW t, Part(t, 1, 17), ~ Has(t, Deletes), Do("mkdir") \in StepsOf(t)
    PROVE  Needs(t, FALSE)
<1>1. PICK i \in 1 .. Len(t) : t[i] = Do("mkdir")
    BY DEF StepsOf
<1>2. t[i].do = "mkdir" /\ Rank(t[i]) = 7
    BY <1>1 DEF Do, Rank
<1>3. ASSUME NEW k \in 1 .. Len(t), t[k].do \in {"store", "write"} PROVE HasBefore(t, k, "mkdir")
    <2>1. Rank(t[k]) \in {8, 9}
        BY <1>3 DEF Rank
    <2>2. Rank(t[i]) < Rank(t[k])
        BY <1>2, <2>1
    <2>3. i < k
        BY <2>2, Precedes
    <2>4. i \in 1 .. k - 1
        BY <2>3
    <2> QED BY <1>2, <2>4 DEF HasBefore
<1> QED BY <1>3 DEF Needs

\* A list in order logs a file after it has written it.
LEMMA PartLogs ==
    ASSUME NEW t, Part(t, 1, 17), NEW f \in [Files -> Nat],
           \A s \in StepsOf(t) : s.do = "log" =>
               /\ Write(s.file) \in StepsOf(t)
               /\ \/ s.version = 0
                  \/ s.version = 1 /\ \E u \in StepsOf(t) : u.do = "store" /\ u.up.name = s.file
    PROVE  LogsCome(t, f)
<1> SUFFICES ASSUME NEW i \in 1 .. Len(t), t[i].do = "log" PROVE LogComes(t, i, f)
    BY DEF LogsCome
<1>1. t[i] \in AnyStep /\ t[i] \in StepsOf(t)
    BY ElementOfSeq DEF Part, StepsOf
<1>2. t[i].file \in Files
    BY <1>1, StepFields
<1>3. PICK k \in 1 .. Len(t) : t[k] = Write(t[i].file)
    BY <1>1 DEF StepsOf
<1>4. Rank(t[i]) = 10 /\ Rank(t[k]) = 9
    BY <1>3 DEF Rank, Write
<1>5. k < i
    BY <1>4, Precedes
<1>6. k \in 1 .. i - 1
    BY <1>5
<1>7. CASE t[i].version = 0
    <2>1. t[i].version <= f[t[i].file]
        BY <1>2, <1>7
    <2> QED BY <1>3, <1>6, <2>1 DEF LogComes
<1>8. CASE t[i].version = 1 /\ \E u \in StepsOf(t) : u.do = "store" /\ u.up.name = t[i].file
    <2>1. PICK j \in 1 .. Len(t) : t[j].do = "store" /\ t[j].up.name = t[i].file
        BY <1>8 DEF StepsOf
    <2>2. Rank(t[j]) = 8
        BY <2>1 DEF Rank
    <2>3. j < k
        BY <1>4, <2>2, Precedes
    <2>4. j \in 1 .. k - 1
        BY <2>3
    <2> QED BY <1>3, <1>6, <1>8, <2>1, <2>4 DEF LogComes
<1> QED BY <1>1, <1>7, <1>8

\* A list that gives each row twice shows no more than it should.
LEMMA PartShown ==
    ASSUME NEW t, ~ Has(t, {"take"}), NEW s, NEW b, s \subseteq b,
           \A u \in StepsOf(t) : u.do = "give" /\ u.of = "sub" =>
               \E v \in StepsOf(t) : v.do = "give" /\ v.of = "base" /\ v.groups = u.groups
    PROVE  Shown(t, s, b)
<1>1. ASSUME NEW x \in Gives(t, "sub") PROVE x \in Gives(t, "base")
    <2>1. PICK i \in 1 .. Len(t) : t[i].do = "give" /\ t[i].of = "sub" /\ x \in t[i].groups
        BY <1>1, GivesAre
    <2>2. PICK j \in 1 .. Len(t) : t[j].do = "give" /\ t[j].of = "base" /\ t[j].groups = t[i].groups
        BY <2>1 DEF StepsOf
    <2> QED BY <2>1, <2>2, GivesAre
<1> QED BY <1>1 DEF Shown

\* Steps without fields.
LEMMA DoIs ==
    ASSUME NEW d \in PlainKinds
    PROVE  Do(d) \in AnyStep /\ Do(d).do = d
BY MadeSteps DEF Do

\* The permissions of a new event.
LEMMA DefaultsAre ==
    ASSUME NEW of \in {"sub", "base"}, NEW mdc \in BOOLEAN, NEW n, n = IF of = "sub" THEN 2 ELSE 4
    PROVE  /\ Part(AssignDefaults(of, mdc), n, n)
           /\ StepsOf(AssignDefaults(of, mdc)) =
                  {Give(of, Internal)} \cup IF mdc THEN {Give(of, Observers)} ELSE {}
<1> DEFINE a == Give(of, Internal)
           b == Give(of, Observers)
<1>1. a \in AnyStep /\ b \in AnyStep
    <2>1. Internal \in SUBSET Groups /\ Observers \in SUBSET Groups
        BY DEF Groups
    <2> QED BY <2>1, MadeSteps
<1>2. n \in Nat /\ n \in Shared /\ n \in n .. n
    BY DEF Shared
<1>3. Rank(a) = n /\ Rank(b) = n
    BY DEF Rank, Give
<1> HIDE DEF a, b
<1>4. CASE ~ mdc
    <2>1. AssignDefaults(of, mdc) = <<a>> \o <<>>
        BY <1>4 DEF AssignDefaults, a
    <2>2. <<a>> \o <<>> = <<a>>
        <3>1. <<a>> \in Seq(AnyStep)
            BY <1>1
        <3> QED BY <3>1, ConcatEmptySeq
    <2> QED BY <1>1, <1>3, <1>4, <2>1, <2>2, OneStep DEF a
<1>5. CASE mdc
    <2> DEFINE t == <<a>> \o <<b>>
    <2>1. AssignDefaults(of, mdc) = t
        BY <1>5 DEF AssignDefaults, a, b
    <2>2. <<a>> \in Seq(AnyStep) /\ Len(<<a>>) = 1 /\ <<a>>[1] = a
        BY <1>1
    <2>3. t \in Seq(AnyStep) /\ Len(t) = 2 /\ t[1] = a /\ t[2] = b
        <3> DEFINE one == <<a>>
        <3>1. one \in Seq(AnyStep) /\ Len(one) = 1 /\ one[1] = a
            BY <2>2
        <3> HIDE DEF one
        <3> DEFINE u == one \o <<b>>
        <3>2. /\ u \in Seq(AnyStep) /\ Len(u) = Len(one) + 1
              /\ \A i \in 1 .. Len(one) : u[i] = one[i]
              /\ u[Len(one) + 1] = b
            BY <1>1, <3>1, OneMore
        <3> HIDE DEF u
        <3>3. Len(one) + 1 = 2 /\ 1 \in 1 .. Len(one)
            BY <3>1
        <3>4. u \in Seq(AnyStep) /\ Len(u) = 2 /\ u[1] = a /\ u[2] = b
            BY <3>1, <3>2, <3>3
        <3> QED BY <3>4 DEF u, one
    <2> HIDE DEF t
    <2>4. \A i \in 1 .. Len(t) : (i = 1 /\ t[i] = a) \/ (i = 2 /\ t[i] = b)
        <3>1. \A i \in 1 .. 2 : i = 1 \/ i = 2
            OBVIOUS
        <3> QED BY <2>3, <3>1
    <2>5. \A i \in 1 .. Len(t) : Rank(t[i]) = n
        BY <1>3, <2>4
    <2>6. Part(t, n, n)
        BY <1>2, <2>3, <2>5 DEF Part
    <2>7. StepsOf(t) = {a, b}
        <3>1. 1 \in 1 .. Len(t) /\ 2 \in 1 .. Len(t)
            BY <2>3
        <3> QED BY <2>3, <2>4, <3>1 DEF StepsOf
    <2> QED BY <1>5, <2>1, <2>6, <2>7 DEF a, b
<1> QED BY <1>4, <1>5

\* The permissions of a new event, and their order.
LEMMA PermissionsAre ==
    ASSUME NEW s \in BOOLEAN, NEW mdc \in BOOLEAN
    PROVE  LET t == NewPermissions(s, mdc)
               gs == {Internal} \cup IF mdc THEN {Observers} ELSE {}
           IN  /\ Part(t, 2, 6)
               /\ StepsOf(t) = {Give("base", g) : g \in gs} \cup {Do("refresh")} \cup
                      IF s THEN {Give("sub", g) : g \in gs} \cup {Do("underlying"), Do("refresh under")}
                      ELSE {}
<1> DEFINE gs == {Internal} \cup IF mdc THEN {Observers} ELSE {}
           a == AssignDefaults("sub", mdc)
           b == <<Do("underlying")>>
           c == AssignDefaults("base", mdc)
           d == <<Do("refresh under"), Do("refresh")>>
           e == <<Do("refresh")>>
<1>1. Part(a, 2, 2) /\ StepsOf(a) = {Give("sub", g) : g \in gs}
    <2>1. Part(a, 2, 2)
        BY DefaultsAre
    <2>2. StepsOf(a) = {Give("sub", Internal)} \cup IF mdc THEN {Give("sub", Observers)} ELSE {}
        BY DefaultsAre
    <2> QED BY <2>1, <2>2
<1>2. Part(c, 4, 4) /\ StepsOf(c) = {Give("base", g) : g \in gs}
    <2>1. Part(c, 4, 4)
        BY DefaultsAre
    <2>2. StepsOf(c) = {Give("base", Internal)} \cup IF mdc THEN {Give("base", Observers)} ELSE {}
        BY DefaultsAre
    <2> QED BY <2>1, <2>2
<1>3. /\ Do("underlying") \in AnyStep /\ Do("refresh under") \in AnyStep /\ Do("refresh") \in AnyStep
      /\ Rank(Do("underlying")) = 3 /\ Rank(Do("refresh under")) = 5 /\ Rank(Do("refresh")) = 6
    <2>1. /\ Do("underlying") \in AnyStep /\ Do("refresh under") \in AnyStep /\ Do("refresh") \in AnyStep
          /\ Do("underlying").do = "underlying" /\ Do("refresh under").do = "refresh under"
          /\ Do("refresh").do = "refresh"
        BY DoIs DEF PlainKinds
    <2>2. Rank(Do("underlying")) = 3
        BY <2>1 DEF Rank
    <2>3. Rank(Do("refresh under")) = 5
        BY <2>1 DEF Rank
    <2>4. Rank(Do("refresh")) = 6
        BY <2>1 DEF Rank
    <2> QED BY <2>1, <2>2, <2>3, <2>4
<1>4. Part(b, 3, 3) /\ StepsOf(b) = {Do("underlying")}
    BY <1>3, OneStep
<1>5. Part(d, 5, 6) /\ StepsOf(d) = {Do("refresh under"), Do("refresh")}
    <2> DEFINE x == Do("refresh under")
               y == Do("refresh")
    <2>1. x \in AnyStep /\ y \in AnyStep /\ Rank(x) = 5 /\ Rank(y) = 6
        BY <1>3
    <2> HIDE DEF x, y
    <2>2. Rank(x) < Rank(y)
        BY <2>1
    <2>3. Part(<<x, y>>, Rank(x), Rank(y)) /\ StepsOf(<<x, y>>) = {x, y}
        BY <2>1, <2>2, TwoSteps
    <2>4. Part(<<x, y>>, 5, 6)
        BY <2>1, <2>3
    <2> QED BY <2>3, <2>4 DEF x, y
<1>6. Part(e, 5, 6) /\ StepsOf(e) = {Do("refresh")}
    <2>1. Part(e, 6, 6) /\ StepsOf(e) = {Do("refresh")}
        BY <1>3, OneStep
    <2> QED BY <2>1, Widened
<1>7. NewPermissions(s, mdc) = IF s THEN a \o b \o c \o d ELSE c \o e
    BY DEF NewPermissions
<1>8. CASE s
    <2> HIDE DEF a, b, c, d, e, gs
    <2>1. Part(a \o b, 2, 3) /\ StepsOf(a \o b) = StepsOf(a) \cup StepsOf(b)
        BY <1>1, <1>4, Joined
    <2>2. Part(a \o b \o c, 2, 4) /\ StepsOf(a \o b \o c) = StepsOf(a \o b) \cup StepsOf(c)
        BY <1>2, <2>1, Joined
    <2>3. Part(a \o b \o c \o d, 2, 6) /\ StepsOf(a \o b \o c \o d) = StepsOf(a \o b \o c) \cup StepsOf(d)
        <3> DEFINE u == a \o b \o c
        <3>1. Part(u, 2, 4)
            BY <2>2
        <3>2. Part(d, 4 + 1, 6)
            <4>1. 4 + 1 = 5
                OBVIOUS
            <4> QED BY <1>5, <4>1, Zenon
        <3> HIDE DEF u
        <3>3. Part(u \o d, 2, 6) /\ StepsOf(u \o d) = StepsOf(u) \cup StepsOf(d)
            BY <3>1, <3>2, Joined
        <3> QED BY <3>3 DEF u
    <2>4. StepsOf(a \o b \o c \o d) = {Give("base", g) : g \in gs} \cup {Do("refresh")} \cup
              ({Give("sub", g) : g \in gs} \cup {Do("underlying"), Do("refresh under")})
        BY <1>1, <1>2, <1>4, <1>5, <2>1, <2>2, <2>3, Zenon
    <2> QED BY <1>7, <1>8, <2>3, <2>4 DEF gs
<1>9. CASE ~ s
    <2> HIDE DEF a, b, c, d, e, gs
    <2>1. Part(c \o e, 4, 6) /\ StepsOf(c \o e) = StepsOf(c) \cup StepsOf(e)
        BY <1>2, <1>6, Joined
    <2>2. Part(c \o e, 2, 6)
        BY <2>1, Widened
    <2> QED BY <1>2, <1>6, <1>7, <1>9, <2>1, <2>2 DEF gs
<1> QED BY <1>8, <1>9

\* The labels of a new event.
LEMMA LabelsAre ==
    ASSUME Sane, NEW ls \in SUBSET LabelNames
    PROVE  LET t == SetToSeq({Label(l) : l \in ls})
           IN  Part(t, 16, 16) /\ StepsOf(t) \subseteq {Label(l) : l \in LabelNames}
<1> DEFINE S == {Label(l) : l \in ls}
           f == [l \in ls |-> Label(l)]
<1>1. IsFiniteSet(ls)
    BY FS_Subset DEF Sane
<1>2. f \in Surjection(ls, S)
    BY DEF Surjection
<1>3. IsFiniteSet(S)
    BY <1>1, <1>2, FS_Surjection
<1>4. \A x \in S : x \in AnyStep /\ x.do = "label" /\ Rank(x) = 16
    <2> SUFFICES ASSUME NEW l \in ls PROVE Label(l) \in AnyStep /\ Label(l).do = "label" /\ Rank(Label(l)) = 16
        OBVIOUS
    <2>1. Label(l) \in AnyStep
        BY MadeSteps
    <2>2. Label(l).do = "label"
        BY DEF Label
    <2>3. Rank(Label(l)) = 16
        BY <2>2 DEF Rank
    <2> QED BY <2>1, <2>2, <2>3
<1>5. S \subseteq {Label(l) : l \in LabelNames}
    OBVIOUS
<1> HIDE DEF S
<1> DEFINE n == Cardinality(S)
           t == SetToSeq(S)
<1>6. n \in Nat /\ ExistsBijection(1 .. n, S)
    BY <1>3, FS_CardinalityType
<1>7. \E g \in [1 .. n -> S] : IsInjective(g)
    BY <1>6 DEF ExistsBijection, Bijection, Injection
<1>8. t \in [1 .. n -> S]
    BY <1>7 DEF SetToSeq
<1> HIDE DEF n, t
<1>9. t \in Seq(S) /\ Len(t) = n
    BY <1>6, <1>8
<1>10. t \in Seq(AnyStep)
    <2>1. \A i \in 1 .. Len(t) : t[i] \in AnyStep
        BY <1>4, <1>8, <1>9
    <2> QED BY <1>4, <1>6, <1>8, <1>9
<1>11. \A i \in 1 .. Len(t) : t[i] \in S /\ Rank(t[i]) = 16
    BY <1>4, <1>8, <1>9
<1>12. Part(t, 16, 16)
    BY <1>10, <1>11 DEF Part, Shared
<1>13. StepsOf(t) \subseteq S
    BY <1>11 DEF StepsOf
<1> QED BY <1>5, <1>12, <1>13 DEF t, S

\* What is made of an upload, and in which order.
LEMMA DataAre ==
    ASSUME NEW s \in BOOLEAN, NEW up \in Submitted
    PROVE  LET t == HandleUploadedData(s, up)
               v == IF up.name = Coinc THEN 1 ELSE 0
           IN  /\ Part(t, 9, 11)
               /\ StepsOf(t) =
                      IF up.content # "good" THEN {}
                      ELSE {Save(up.far)} \cup
                           IF s THEN {Write(Coinc), Write(LogFile), Log(LogFile, 0), Log(Coinc, v)} ELSE {}
<1> DEFINE v == IF up.name = Coinc THEN 1 ELSE 0
           a == Write(Coinc)
           b == Write(LogFile)
           c == Log(LogFile, 0)
           d == Log(Coinc, v)
           e == Save(up.far)
           t == HandleUploadedData(s, up)
<1>1. a \in AnyStep /\ b \in AnyStep /\ c \in AnyStep /\ d \in AnyStep /\ e \in AnyStep
    <2>1. Coinc \in Files /\ LogFile \in Files /\ up.far \in Fars /\ v \in Nat /\ 0 \in Nat
        BY DEF Files, Fars
    <2> QED BY <2>1, MadeSteps
<1>2. Rank(a) = 9 /\ Rank(b) = 9 /\ Rank(c) = 10 /\ Rank(d) = 10 /\ Rank(e) = 11
    <2>1. a.do = "write" /\ b.do = "write" /\ c.do = "log" /\ d.do = "log" /\ e.do = "save"
        BY DEF Write, Log, Save
    <2> HIDE DEF a, b, c, d, e
    <2>2. Rank(a) = 9 /\ Rank(b) = 9
        BY <2>1 DEF Rank
    <2>3. Rank(c) = 10 /\ Rank(d) = 10
        BY <2>1 DEF Rank
    <2>4. Rank(e) = 11
        BY <2>1 DEF Rank
    <2> QED BY <2>2, <2>3, <2>4
<1>3. t = IF up.content # "good" THEN <<>> ELSE IF s THEN <<a, b, c, d, e>> ELSE <<e>>
    BY DEF HandleUploadedData
<1> HIDE DEF a, b, c, d, e, t
<1>4. CASE up.content # "good"
    <2>1. t = <<>>
        BY <1>3, <1>4
    <2>2. Part(t, 9, 11) /\ StepsOf(t) = {}
        BY <2>1, NoStep
    <2> QED BY <1>4, <2>2 DEF t
<1>5. CASE ~ up.content # "good" /\ ~ s
    <2>1. t = <<e>>
        BY <1>3, <1>5
    <2>2. Part(t, 11, 11) /\ StepsOf(t) = {e}
        BY <1>1, <1>2, <2>1, OneStep
    <2>3. Part(t, 9, 11)
        BY <2>2, Widened
    <2> QED BY <1>5, <2>2, <2>3 DEF t, e
<1>6. CASE ~ up.content # "good" /\ s
    <2>1. t = <<a, b, c, d, e>>
        BY <1>3, <1>6
    <2> DEFINE u == <<a, b, c, d, e>>
    <2>2. u \in Seq(AnyStep) /\ Len(u) = 5
        BY <1>1
    <2>3. u[1] = a /\ u[2] = b /\ u[3] = c /\ u[4] = d /\ u[5] = e
        OBVIOUS
    <2> HIDE DEF u
    <2>4. \A i \in 1 .. 5 : i \in {1, 2, 3, 4, 5}
        OBVIOUS
    <2>5. \A i \in 1 .. Len(u) : \/ i \in {1, 2} /\ u[i] \in {a, b} /\ Rank(u[i]) = 9
                                 \/ i \in {3, 4} /\ u[i] \in {c, d} /\ Rank(u[i]) = 10
                                 \/ i = 5 /\ u[i] = e /\ Rank(u[i]) = 11
        BY <1>2, <2>2, <2>3, <2>4
    <2>6. \A i \in 1 .. Len(u) : Rank(u[i]) \in 9 .. 11
        BY <2>5
    <2>7. \A i, j \in 1 .. Len(u) : i < j => \/ Rank(u[i]) < Rank(u[j])
                                             \/ Rank(u[i]) = Rank(u[j]) /\ Rank(u[i]) \in Shared
        BY <2>5 DEF Shared
    <2>8. Part(u, 9, 11)
        BY <2>2, <2>6, <2>7 DEF Part
    <2>9. StepsOf(u) = {a, b, c, d, e}
        <3>1. \A x \in StepsOf(u) : x \in {a, b, c, d, e}
            BY <2>5 DEF StepsOf
        <3>2. 1 \in 1 .. Len(u) /\ 2 \in 1 .. Len(u) /\ 3 \in 1 .. Len(u) /\ 4 \in 1 .. Len(u) /\ 5 \in 1 .. Len(u)
            BY <2>2
        <3>3. \A x \in {a, b, c, d, e} : x \in StepsOf(u)
            BY <2>3, <3>2 DEF StepsOf
        <3> QED BY <3>1, <3>3
    <2>10. t = u
        BY <2>1 DEF u
    <2>11. Part(t, 9, 11) /\ StepsOf(t) = {e} \cup {a, b, c, d}
        BY <2>8, <2>9, <2>10
    <2> QED BY <1>6, <2>11 DEF t, a, b, c, d, e
<1> QED BY <1>4, <1>5, <1>6

\* What steps are made of.
LEMMA MadeIs ==
    /\ \A d : Do(d).do = d
    /\ \A of, gs : Give(of, gs).do = "give" /\ Give(of, gs).of = of /\ Give(of, gs).groups = gs
    /\ \A of, g : Take(of, g).do = "take" /\ Take(of, g).of = of /\ Take(of, g).group = g
    /\ \A l : Label(l).do = "label"
    /\ \A f, v : Log(f, v).do = "log" /\ Log(f, v).file = f /\ Log(f, v).version = v
    /\ \A f : Write(f).do = "write"
    /\ \A far : Save(far).do = "save"
BY DEF Do, Give, Take, Label, Log, Write, Save

\* Parts with places between them.
LEMMA Met ==
    ASSUME NEW a, NEW b, NEW low \in Nat, NEW mid \in Nat, NEW next \in Nat, NEW high \in Nat,
           low <= mid, mid < next, next <= high, Part(a, low, mid), Part(b, next, high)
    PROVE  Part(a \o b, low, high) /\ StepsOf(a \o b) = StepsOf(a) \cup StepsOf(b)
<1> DEFINE m == mid + 1
<1>1. m \in Nat /\ m <= next /\ mid <= high
    OBVIOUS
<1>2. high <= high
    OBVIOUS
<1> HIDE DEF m
<1>3. Part(b, m, high)
    BY <1>1, <1>2, Widened
<1>4. Part(b, mid + 1, high)
    BY <1>3 DEF m
<1> QED BY <1>1, <1>4, Joined

\* Whoever is given a row of the subclass is given one of the event.
Matched(s, P) ==
    \A x \in P : x.do = "give" /\ x.of = "sub" =>
        s /\ \E v \in P : v.do = "give" /\ v.of = "base" /\ v.groups = x.groups

\* What the permissions of a new event are made of.
LEMMA PermissionFacts ==
    ASSUME NEW s \in BOOLEAN, NEW mdc \in BOOLEAN, NEW P, P = StepsOf(NewPermissions(s, mdc))
    PROVE  /\ Do("refresh") \in P
           /\ \A x \in P : x.do \notin {"log", "store", "insert"}
           /\ Matched(s, P)
           /\ \A x \in P : x.do = "refresh under" => Do("underlying") \in P
<1> DEFINE gs == {Internal} \cup IF mdc THEN {Observers} ELSE {}
<1>1. P = {Give("base", g) : g \in gs} \cup {Do("refresh")} \cup
              IF s THEN {Give("sub", g) : g \in gs} \cup {Do("underlying"), Do("refresh under")} ELSE {}
    BY PermissionsAre
<1> HIDE DEF gs
<1>2. /\ Do("refresh").do = "refresh" /\ Do("underlying").do = "underlying"
      /\ Do("refresh under").do = "refresh under"
      /\ \A of, g : Give(of, g).do = "give" /\ Give(of, g).of = of /\ Give(of, g).groups = g
    BY DEF Do, Give
<1>3. Do("refresh") \in P
    BY <1>1
<1>4. ASSUME NEW x \in P
      PROVE  \/ \E g \in gs : x = Give("base", g)
             \/ x = Do("refresh")
             \/ s /\ \E g \in gs : x = Give("sub", g)
             \/ s /\ x = Do("underlying")
             \/ s /\ x = Do("refresh under")
    BY <1>1
<1>5. ASSUME NEW x \in P PROVE x.do \in {"give", "refresh", "underlying", "refresh under"}
    <2>1. \A g : x = Give("base", g) \/ x = Give("sub", g) => x.do = "give"
        BY DEF Give
    <2>2. \A d : x = Do(d) => x.do = d
        BY DEF Do
    <2>3. (\E g : x = Give("base", g) \/ x = Give("sub", g)) \/ x = Do("refresh") \/ x = Do("underlying")
          \/ x = Do("refresh under")
        BY <1>4, Zenon
    <2> QED BY <2>1, <2>2, <2>3, Zenon
<1>6. ASSUME NEW x \in P, x.do = "give", x.of = "sub"
      PROVE  s /\ \E v \in P : v.do = "give" /\ v.of = "base" /\ v.groups = x.groups
    <2>1. s /\ \E g \in gs : x = Give("sub", g)
        <3>1. x # Do("refresh") /\ x # Do("underlying") /\ x # Do("refresh under")
            BY <1>2, <1>6, Zenon
        <3>2. \A g : x # Give("base", g)
            BY <1>6 DEF Give
        <3> QED BY <1>4, <3>1, <3>2, Zenon
    <2>2. PICK g \in gs : x = Give("sub", g)
        BY <2>1
    <2>3. Give("base", g) \in P
        BY <1>1
    <2>4. Give("base", g).do = "give" /\ Give("base", g).of = "base" /\ Give("base", g).groups = x.groups
        BY <2>2 DEF Give
    <2> QED BY <2>1, <2>3, <2>4
<1>7. ASSUME NEW x \in P, x.do = "refresh under" PROVE Do("underlying") \in P
    <2>1. s
        <3>1. x # Do("refresh")
            BY <1>2, <1>7, Zenon
        <3>2. \A g : x # Give("base", g)
            BY <1>2, <1>7, Zenon
        <3> QED BY <1>4, <3>1, <3>2, Zenon
    <2> QED BY <1>1, <2>1
<1>8. Matched(s, P)
    BY <1>6 DEF Matched
<1> QED BY <1>3, <1>5, <1>7, <1>8

\* What is made of an upload.
LEMMA DataFacts ==
    ASSUME NEW s \in BOOLEAN, NEW up \in Submitted, NEW H, H = StepsOf(HandleUploadedData(s, up))
    PROVE  /\ \A x \in H : x.do \in {"save", "write", "log"}
           /\ \A x \in H : x.do = "log" =>
                  Write(x.file) \in H /\ (x.version = 0 \/ (x.version = 1 /\ up.name = x.file))
<1> DEFINE v == IF up.name = Coinc THEN 1 ELSE 0
<1>1. H = IF up.content # "good" THEN {}
          ELSE {Save(up.far)} \cup
               IF s THEN {Write(Coinc), Write(LogFile), Log(LogFile, 0), Log(Coinc, v)} ELSE {}
    BY DataAre
<1>2. v = 0 \/ (v = 1 /\ up.name = Coinc)
    OBVIOUS
<1> HIDE DEF v
<1>3. /\ Save(up.far).do = "save" /\ \A f : Write(f).do = "write"
      /\ \A f, n : Log(f, n).do = "log" /\ Log(f, n).file = f /\ Log(f, n).version = n
    BY MadeIs
<1>4. ASSUME NEW x \in H
      PROVE  \/ x = Save(up.far) \/ x = Write(Coinc) \/ x = Write(LogFile)
             \/ x = Log(LogFile, 0) /\ Write(LogFile) \in H
             \/ x = Log(Coinc, v) /\ Write(Coinc) \in H
    BY <1>1
<1>5. ASSUME NEW x \in H PROVE x.do \in {"save", "write", "log"}
    BY <1>3, <1>4
<1>6. ASSUME NEW x \in H, x.do = "log"
      PROVE  Write(x.file) \in H /\ (x.version = 0 \/ (x.version = 1 /\ up.name = x.file))
    <2>1. \/ x = Log(LogFile, 0) /\ Write(LogFile) \in H
          \/ x = Log(Coinc, v) /\ Write(Coinc) \in H
        BY <1>3, <1>4, <1>6
    <2>2. CASE x = Log(LogFile, 0) /\ Write(LogFile) \in H
        BY <1>3, <2>2
    <2>3. CASE x = Log(Coinc, v) /\ Write(Coinc) \in H
        BY <1>2, <1>3, <2>3
    <2> QED BY <2>1, <2>2, <2>3
<1> QED BY <1>5, <1>6

\* The steps for the file of a new event.
LEMMA NewDataIs ==
    ASSUME Sane, NEW s \in BOOLEAN, NEW up \in Submitted, NEW ls \in SUBSET LabelNames
    PROVE  LET t == NewData(s, up, ls)
               x == [do |-> "store", up |-> up, new |-> TRUE]
           IN  /\ Part(t, 8, 16)
               /\ \E X \in SUBSET ({Do("reload"), Do("new")} \cup {Label(l) : l \in LabelNames}) :
                      StepsOf(t) = {x} \cup StepsOf(HandleUploadedData(s, up)) \cup X
<1> DEFINE x == [do |-> "store", up |-> up, new |-> TRUE]
           h == HandleUploadedData(s, up)
           y == Do("reload")
           z == Do("new")
           ll == SetToSeq({Label(l) : l \in ls})
           two == <<y, z>>
           rest == IF up.content = "unreadable" THEN <<>> ELSE two \o ll
           A == {y, z} \cup {Label(l) : l \in LabelNames}
<1>1. x \in AnyStep /\ Rank(x) = 8
    <2>1. x \in AnyStep
        BY MadeSteps
    <2>2. x.do = "store"
        OBVIOUS
    <2> HIDE DEF x
    <2> QED BY <2>1, <2>2 DEF Rank
<1>2. y \in AnyStep /\ z \in AnyStep /\ Rank(y) = 14 /\ Rank(z) = 15
    <2>1. y \in AnyStep /\ z \in AnyStep /\ y.do = "reload" /\ z.do = "new"
        BY DoIs DEF PlainKinds
    <2> HIDE DEF y, z
    <2> QED BY <2>1 DEF Rank
<1>3. Part(h, 9, 11)
    BY DataAre
<1>4. Part(ll, 16, 16) /\ StepsOf(ll) \subseteq {Label(l) : l \in LabelNames}
    BY LabelsAre
<1>5. NewData(s, up, ls) = <<x>> \o h \o rest
    BY DEF NewData
<1>6. Part(<<x>>, 8, 8) /\ StepsOf(<<x>>) = {x}
    <2> HIDE DEF x
    <2> QED BY <1>1, OneStep
<1>7. Part(two, 14, 15) /\ StepsOf(two) = {y, z}
    <2> HIDE DEF y, z
    <2>1. Rank(y) < Rank(z)
        BY <1>2
    <2>2. Part(two, Rank(y), Rank(z)) /\ StepsOf(two) = {y, z}
        BY <1>2, <2>1, TwoSteps
    <2> QED BY <1>2, <2>2
<1>8. Part(two \o ll, 14, 16) /\ StepsOf(two \o ll) = StepsOf(two) \cup StepsOf(ll)
    <2> HIDE DEF two, ll
    <2> QED BY <1>4, <1>7, Met
<1>9. Part(rest, 14, 16) /\ StepsOf(rest) \in SUBSET A
    <2>1. CASE up.content = "unreadable"
        <3>1. rest = <<>>
            BY <2>1
        <3>2. Part(<<>>, 14, 16) /\ StepsOf(<<>>) = {}
            BY NoStep
        <3> HIDE DEF rest
        <3> QED BY <3>1, <3>2
    <2>2. CASE up.content # "unreadable"
        <3>1. rest = two \o ll
            BY <2>2
        <3> HIDE DEF rest, two, ll
        <3>2. StepsOf(two \o ll) \subseteq A
            BY <1>4, <1>7, <1>8
        <3> QED BY <1>8, <3>1, <3>2
    <2> QED BY <2>1, <2>2
<1> DEFINE u == <<x>>
<1> HIDE DEF x, h, rest, A, u
<1>10. Part(u \o h, 8, 11) /\ StepsOf(u \o h) = StepsOf(u) \cup StepsOf(h)
    BY <1>3, <1>6, Met DEF u
<1> DEFINE uh == u \o h
<1> HIDE DEF uh
<1>11. Part(uh, 8, 11) /\ StepsOf(uh) = {x} \cup StepsOf(h)
    BY <1>6, <1>10 DEF uh, u
<1>12. Part(uh \o rest, 8, 16) /\ StepsOf(uh \o rest) = StepsOf(uh) \cup StepsOf(rest)
    BY <1>9, <1>11, Met
<1>13. NewData(s, up, ls) = uh \o rest
    BY <1>5 DEF uh, u
<1>14. Part(NewData(s, up, ls), 8, 16)
    BY <1>12, <1>13
<1>15. StepsOf(NewData(s, up, ls)) = {x} \cup StepsOf(h) \cup StepsOf(rest)
    BY <1>11, <1>12, <1>13
<1>16. \E X \in SUBSET A : StepsOf(NewData(s, up, ls)) = {x} \cup StepsOf(h) \cup X
    BY <1>9, <1>15
<1> QED BY <1>14, <1>16 DEF x, h, A

\* A part of one step without fields.
LEMMA OnePlain ==
    ASSUME NEW d \in PlainKinds, NEW n \in Nat, \A s : s.do = d => Rank(s) = n
    PROVE  Part(<<Do(d)>>, n, n) /\ StepsOf(<<Do(d)>>) = {Do(d)}
<1> DEFINE s == Do(d)
<1>1. s \in AnyStep /\ s.do = d
    BY DoIs
<1>2. Rank(s) = n
    BY <1>1
<1> HIDE DEF s
<1>3. Part(<<s>>, Rank(s), Rank(s)) /\ StepsOf(<<s>>) = {s}
    BY <1>1, OneStep
<1> QED BY <1>2, <1>3 DEF s

\* The steps of a submission.
LEMMA CreateIs ==
    ASSUME Sane, NEW s \in BOOLEAN, NEW mdc \in BOOLEAN, NEW up \in Submitted, NEW ls \in SUBSET LabelNames
    PROVE  LET t == CreateEvent(s, mdc, up, ls) \o <<Do("end")>>
               x == [do |-> "store", up |-> up, new |-> TRUE]
           IN  /\ Part(t, 1, 17)
               /\ \E X \in SUBSET ({Do("reload"), Do("new")} \cup {Label(l) : l \in LabelNames}) :
                      StepsOf(t) = {Do("insert")} \cup StepsOf(NewPermissions(s, mdc)) \cup {Do("mkdir"), x}
                                   \cup StepsOf(HandleUploadedData(s, up)) \cup X \cup {Do("end")}
<1> DEFINE x == [do |-> "store", up |-> up, new |-> TRUE]
           h == StepsOf(HandleUploadedData(s, up))
           A == {Do("reload"), Do("new")} \cup {Label(l) : l \in LabelNames}
           a == <<Do("insert")>>
           p == NewPermissions(s, mdc)
           m == <<Do("mkdir")>>
           d == NewData(s, up, ls)
           e == <<Do("end")>>
           ap == a \o p
           apm == ap \o m
           apmd == apm \o d
           t == CreateEvent(s, mdc, up, ls) \o e
<1>1. /\ "insert" \in PlainKinds /\ "mkdir" \in PlainKinds /\ "end" \in PlainKinds
      /\ \A u : u.do = "insert" => Rank(u) = 1
      /\ \A u : u.do = "mkdir" => Rank(u) = 7
      /\ \A u : u.do = "end" => Rank(u) = 17
    BY DEF PlainKinds, Rank
<1>2. /\ Part(a, 1, 1) /\ StepsOf(a) = {Do("insert")}
      /\ Part(m, 7, 7) /\ StepsOf(m) = {Do("mkdir")}
      /\ Part(e, 17, 17) /\ StepsOf(e) = {Do("end")}
    BY <1>1, OnePlain
<1>3. Part(p, 2, 6)
    BY PermissionsAre
<1>4. Part(d, 8, 16) /\ \E X \in SUBSET A : StepsOf(d) = {x} \cup h \cup X
    BY NewDataIs, SMTT(30)
<1>5. t = apmd \o e
    BY DEF CreateEvent
<1> HIDE DEF x, h, A, a, p, m, d, e, t
<1>6. Part(ap, 1, 6) /\ StepsOf(ap) = StepsOf(a) \cup StepsOf(p)
    BY <1>2, <1>3, Met
<1> HIDE DEF ap
<1>7. Part(apm, 1, 7) /\ StepsOf(apm) = StepsOf(ap) \cup StepsOf(m)
    BY <1>2, <1>6, Met
<1> HIDE DEF apm
<1>8. Part(apmd, 1, 16) /\ StepsOf(apmd) = StepsOf(apm) \cup StepsOf(d)
    BY <1>4, <1>7, Met
<1> HIDE DEF apmd
<1>9. Part(t, 1, 17) /\ StepsOf(t) = StepsOf(apmd) \cup StepsOf(e)
    BY <1>2, <1>5, <1>8, Met
<1>10. PICK X \in SUBSET A : StepsOf(d) = {x} \cup h \cup X
    BY <1>4
<1>11. StepsOf(t) = {Do("insert")} \cup StepsOf(p) \cup {Do("mkdir"), x} \cup h \cup X \cup {Do("end")}
    BY <1>2, <1>6, <1>7, <1>8, <1>9, <1>10
<1>12. \E Y \in SUBSET A :
           StepsOf(t) = {Do("insert")} \cup StepsOf(p) \cup {Do("mkdir"), x} \cup h \cup Y \cup {Do("end")}
    BY <1>11
<1> QED BY <1>9, <1>12 DEF x, h, A, p, t, e

\* The steps of a replacement.
LEMMA ReplaceIs ==
    ASSUME NEW s \in BOOLEAN, NEW up \in Submitted
    PROVE  LET t == ReplaceEvent(s, up) \o <<Do("end")>>
               x == [do |-> "store", up |-> up, new |-> FALSE]
           IN  /\ Part(t, 1, 17)
               /\ StepsOf(t) = {x} \cup StepsOf(HandleUploadedData(s, up))
                               \cup {Do("resave"), Do("alert"), Do("end")}
<1> DEFINE x == [do |-> "store", up |-> up, new |-> FALSE]
           h == HandleUploadedData(s, up)
           y == Do("resave")
           z == Do("alert")
           b == <<x>>
           two == <<y, z>>
           e == <<Do("end")>>
           bh == b \o h
           bht == bh \o two
           t == ReplaceEvent(s, up) \o e
<1>1. Part(b, 8, 8) /\ StepsOf(b) = {x}
    <2>1. x \in AnyStep
        BY MadeSteps
    <2>2. x.do = "store"
        OBVIOUS
    <2> HIDE DEF x
    <2>3. Rank(x) = 8
        BY <2>2 DEF Rank
    <2>4. Part(<<x>>, Rank(x), Rank(x)) /\ StepsOf(<<x>>) = {x}
        BY <2>1, OneStep
    <2> QED BY <2>3, <2>4
<1>2. Part(h, 9, 11)
    BY DataAre
<1>3. Part(two, 12, 13) /\ StepsOf(two) = {y, z}
    <2>1. y \in AnyStep /\ z \in AnyStep /\ y.do = "resave" /\ z.do = "alert"
        BY DoIs DEF PlainKinds
    <2> HIDE DEF y, z
    <2>2. Rank(y) = 12 /\ Rank(z) = 13
        BY <2>1 DEF Rank
    <2>3. Rank(y) < Rank(z)
        BY <2>2
    <2>4. Part(<<y, z>>, Rank(y), Rank(z)) /\ StepsOf(<<y, z>>) = {y, z}
        BY <2>1, <2>3, TwoSteps
    <2> QED BY <2>2, <2>4
<1>4. Part(e, 17, 17) /\ StepsOf(e) = {Do("end")}
    <2>1. "end" \in PlainKinds /\ \A u : u.do = "end" => Rank(u) = 17
        BY DEF PlainKinds, Rank
    <2> QED BY <2>1, OnePlain
<1>5. t = bht \o e
    BY DEF ReplaceEvent
<1> HIDE DEF b, h, e, two, t, x
<1>6. Part(bh, 8, 11) /\ StepsOf(bh) = StepsOf(b) \cup StepsOf(h)
    BY <1>1, <1>2, Met
<1> HIDE DEF bh
<1>7. Part(bht, 8, 13) /\ StepsOf(bht) = StepsOf(bh) \cup StepsOf(two)
    BY <1>3, <1>6, Met
<1> HIDE DEF bht
<1>8. Part(t, 8, 17) /\ StepsOf(t) = StepsOf(bht) \cup StepsOf(e)
    BY <1>4, <1>5, <1>7, Met
<1>9. Part(t, 1, 17)
    BY <1>8, Widened
<1>10. StepsOf(t) = {x} \cup StepsOf(h) \cup {y, z, Do("end")}
    BY <1>1, <1>3, <1>4, <1>6, <1>7, <1>8
<1> QED BY <1>9, <1>10 DEF x, h, t, e

\* A submission is a list of steps as the invariant asks for it.
LEMMA CreateSubmits ==
    ASSUME Sane, NEW s \in BOOLEAN, NEW mdc \in BOOLEAN, NEW up \in Submitted, NEW ls \in SUBSET LabelNames
    PROVE  Submits(CreateEvent(s, mdc, up, ls) \o <<Do("end")>>, s)
<1> DEFINE t == CreateEvent(s, mdc, up, ls) \o <<Do("end")>>
           x == [do |-> "store", up |-> up, new |-> TRUE]
           P == StepsOf(NewPermissions(s, mdc))
           H == StepsOf(HandleUploadedData(s, up))
           f == [n \in Files |-> 0]
<1>1. /\ Part(t, 1, 17)
      /\ \E X \in SUBSET ({Do("reload"), Do("new")} \cup {Label(l) : l \in LabelNames}) :
             StepsOf(t) = {Do("insert")} \cup P \cup {Do("mkdir"), x} \cup H \cup X \cup {Do("end")}
    BY CreateIs, SMTT(30)
<1>2. x.do = "store" /\ x.up = up
    OBVIOUS
<1>3. up.name \in Files
    BY DEF Files
<1>4. f \in [Files -> Nat]
    OBVIOUS
<1> HIDE DEF t, x, P, H, f
<1>5. PICK X \in SUBSET ({Do("reload"), Do("new")} \cup {Label(l) : l \in LabelNames}) :
             StepsOf(t) = {Do("insert")} \cup P \cup {Do("mkdir"), x} \cup H \cup X \cup {Do("end")}
    BY <1>1
<1>6. \A d : Do(d).do = d
    BY DEF Do
<1>7. \A y \in X : y.do \in {"reload", "new", "label"}
    <2>1. \A l : Label(l).do = "label"
        BY DEF Label
    <2>2. \A y \in X : y = Do("reload") \/ y = Do("new") \/ \E l : y = Label(l)
        OBVIOUS
    <2> QED BY <1>6, <2>1, <2>2, Zenon
<1>8. \A y \in H : y.do \in {"save", "write", "log"}
    BY DataFacts DEF H
<1>9. \A y \in H : y.do = "log" =>
          Write(y.file) \in H /\ (y.version = 0 \/ (y.version = 1 /\ up.name = y.file))
    BY DataFacts DEF H
<1>10. /\ Do("refresh") \in P
       /\ Matched(s, P)
       /\ \A y \in P : y.do \notin {"log", "store", "insert"}
       /\ \A y \in P : y.do = "refresh under" => Do("underlying") \in P
    BY PermissionFacts DEF P
<1>11. \A y \in P : y.do = "give" /\ y.of = "sub" =>
           s /\ \E v \in P : v.do = "give" /\ v.of = "base" /\ v.groups = y.groups
    BY <1>10 DEF Matched
<1>12. ASSUME NEW y \in StepsOf(t)
       PROVE  y \in P \/ y \in H \/ y.do \in {"insert", "mkdir", "store", "reload", "new", "label", "end"}
    <2>1. y \in P \/ y \in H \/ y \in X \/ y = x \/ y = Do("insert") \/ y = Do("mkdir") \/ y = Do("end")
        BY <1>5
    <2> QED BY <1>2, <1>6, <1>7, <2>1, Zenon
<1>13. P \subseteq StepsOf(t) /\ H \subseteq StepsOf(t) /\ x \in StepsOf(t)
       /\ Do("insert") \in StepsOf(t) /\ Do("mkdir") \in StepsOf(t)
    BY <1>5
<1>14. ASSUME NEW y \in StepsOf(t), y.do = "give", y.of = "sub"
       PROVE  s /\ \E v \in StepsOf(t) : v.do = "give" /\ v.of = "base" /\ v.groups = y.groups
    <2>1. y \in P
        BY <1>8, <1>12, <1>14
    <2> QED BY <1>11, <1>13, <1>14, <2>1
<1>15. ASSUME NEW y \in StepsOf(t), y.do = "log"
       PROVE  /\ Write(y.file) \in StepsOf(t)
              /\ \/ y.version = 0
                 \/ y.version = 1 /\ \E u \in StepsOf(t) : u.do = "store" /\ u.up.name = y.file
    <2>1. y \in H
        BY <1>10, <1>12, <1>15
    <2>2. Write(y.file) \in H /\ (y.version = 0 \/ (y.version = 1 /\ up.name = y.file))
        BY <1>9, <1>15, <2>1
    <2>3. x.do = "store" /\ x.up.name = up.name
        BY <1>2
    <2> QED BY <1>13, <2>2, <2>3
<1>16. ASSUME NEW y \in StepsOf(t), y.do = "refresh under" PROVE Do("underlying") \in StepsOf(t)
    <2>1. y \in P
        BY <1>8, <1>12, <1>16
    <2> QED BY <1>10, <1>13, <1>16, <2>1
<1>17. WellMade(t, s) /\ ~ Has(t, Deletes) /\ ~ Has(t, {"take"})
    <2>1. \A y \in StepsOf(t) : y.do = "give" /\ y.of = "sub" => s
        BY <1>14
    <2> QED BY <1>1, <2>1, PartIsWellMade
<1>18. t \in Seq(AnyStep) /\ t # <<>>
    <2>1. t \in Seq(AnyStep)
        BY <1>1 DEF Part
    <2>2. StepsOf(<<>>) = {}
        BY NoStep
    <2> QED BY <1>13, <2>1, <2>2
<1>19. LogsCome(t, f)
    BY <1>1, <1>4, <1>15, PartLogs
<1>20. Has(t, {"insert"}) /\ Has(t, {"mkdir"})
    <2>1. Do("insert").do \in {"insert"} /\ Do("mkdir").do \in {"mkdir"}
        BY DEF Do
    <2> QED BY <1>13, <2>1, PartHas
<1>21. Needs(t, FALSE)
    BY <1>1, <1>13, <1>17, PartNeeds
<1>22. RefreshedLater(t)
    BY <1>1, <1>10, <1>13, PartRefreshes
<1>23. Shown(t, {}, {})
    <2>1. \A u \in StepsOf(t) : u.do = "give" /\ u.of = "sub" =>
              \E v \in StepsOf(t) : v.do = "give" /\ v.of = "base" /\ v.groups = u.groups
        BY <1>14
    <2> QED BY <1>17, <2>1, PartShown
<1>24. ASSUME NEW k \in 1 .. Len(t), t[k].do = "refresh under"
       PROVE  HasBefore(t, k, "underlying") /\ ~ HasBefore(t, k, "save")
    <2>1. t[k] \in StepsOf(t)
        BY DEF StepsOf
    <2>2. Do("underlying") \in StepsOf(t)
        BY <1>16, <1>24, <2>1
    <2> QED BY <1>1, <1>24, <2>2, PartUnder
<1> HIDE DEF t
<1>25. Submits(t, s)
    BY <1>17, <1>18, <1>19, <1>20, <1>21, <1>22, <1>23, <1>24 DEF Submits, Asks, f
<1> QED BY <1>25 DEF t

\* So is a replacement.
LEMMA ReplaceChanges ==
    ASSUME NEW s \in BOOLEAN, NEW up \in Submitted, NEW b, NEW c
    PROVE  Changes(ReplaceEvent(s, up) \o <<Do("end")>>, s, b, c)
<1> DEFINE t == ReplaceEvent(s, up) \o <<Do("end")>>
           x == [do |-> "store", up |-> up, new |-> FALSE]
           H == StepsOf(HandleUploadedData(s, up))
<1>1. /\ Part(t, 1, 17)
      /\ StepsOf(t) = {x} \cup H \cup {Do("resave"), Do("alert"), Do("end")}
    BY ReplaceIs
<1>2. x.do = "store" /\ x.up = up /\ ~ x.new
    OBVIOUS
<1> HIDE DEF t, x, H
<1>3. \A d : Do(d).do = d
    BY DEF Do
<1>4. \A y \in H : y.do \in {"save", "write", "log"}
    BY DataFacts DEF H
<1>5. \A y \in H : y.do = "log" =>
          Write(y.file) \in H /\ (y.version = 0 \/ (y.version = 1 /\ up.name = y.file))
    BY DataFacts DEF H
<1>6. ASSUME NEW y \in StepsOf(t)
      PROVE  y \in H \/ y = x \/ y.do \in {"resave", "alert", "end"}
    <2>1. y \in H \/ y = x \/ y = Do("resave") \/ y = Do("alert") \/ y = Do("end")
        BY <1>1
    <2> QED BY <1>3, <2>1, Zenon
<1>7. ASSUME NEW y \in StepsOf(t)
      PROVE  y.do \in {"save", "write", "log", "store", "resave", "alert", "end"}
    BY <1>2, <1>4, <1>6
<1>8. ASSUME NEW y \in StepsOf(t), y.do = "log"
      PROVE  /\ Write(y.file) \in StepsOf(t)
             /\ \/ y.version = 0
                \/ y.version = 1 /\ \E u \in StepsOf(t) : u.do = "store" /\ u.up.name = y.file
    <2>1. y \in H
        BY <1>2, <1>6, <1>8
    <2>2. Write(y.file) \in H /\ (y.version = 0 \/ (y.version = 1 /\ up.name = y.file))
        BY <1>5, <1>8, <2>1
    <2>3. x.do = "store" /\ x.up.name = up.name /\ x \in StepsOf(t) /\ H \subseteq StepsOf(t)
        BY <1>1, <1>2
    <2> QED BY <2>2, <2>3
<1>9. \A y \in StepsOf(t) : y.do # "give" /\ y.do # "insert" /\ y.do # "refresh under" /\ y.do # "take"
    BY <1>7
<1>10. WellMade(t, s) /\ ~ Has(t, Deletes) /\ ~ Has(t, {"take"})
    BY <1>1, <1>9, PartIsWellMade
<1>11. t \in Seq(AnyStep) /\ t # <<>>
    <2>1. t \in Seq(AnyStep)
        BY <1>1 DEF Part
    <2>2. StepsOf(<<>>) = {}
        BY NoStep
    <2>3. x \in StepsOf(t)
        BY <1>1
    <2> QED BY <2>1, <2>2, <2>3
<1>12. \A i \in 1 .. Len(t) : t[i] \in StepsOf(t)
    BY DEF StepsOf
<1>13. ~ IsUndone(t)
    <2>1. \A y \in StepsOf(t) : ~ (y.do = "store" /\ y.new)
        BY <1>2, <1>4, <1>6
    <2>2. DOMAIN t = 1 .. Len(t)
        BY <1>11, LenProperties
    <2> QED BY <1>12, <2>1, <2>2 DEF IsUndone
<1>14. ~ Has(t, {"insert"})
    BY <1>9, <1>12 DEF Has
<1>15. \A f \in [Files -> Nat] : LogsCome(t, f)
    BY <1>1, <1>8, PartLogs
<1>16. \A j \in 1 .. Len(t) : ~ OnBase(t[j]) /\ t[j].do # "refresh under"
    BY <1>9, <1>12 DEF OnBase
<1>17. b \subseteq c => Shown(t, b, c)
    <2>1. \A u \in StepsOf(t) : u.do = "give" /\ u.of = "sub" =>
              \E v \in StepsOf(t) : v.do = "give" /\ v.of = "base" /\ v.groups = u.groups
        BY <1>9
    <2> QED BY <1>10, <2>1, PartShown
<1>18. Changes(t, s, b, c)
    BY <1>10, <1>11, <1>13, <1>14, <1>15, <1>16, <1>17 DEF Changes, Asks
<1> QED BY <1>18 DEF t

\* What lies below a place.
LEMMA Below ==
    ASSUME NEW n \in Nat
    PROVE  \A k \in 1 .. n : \A j \in 1 .. k - 1 : j \in 1 .. n
OBVIOUS

\* The places of a list of permissions.
LEMMA Places ==
    ASSUME NEW n, NEW i \in Nat, NEW j \in Nat, NEW k \in Nat, 1 < i, i < j, j < k, n = k + 1
    PROVE  /\ n \in Nat /\ 1 \in 1 .. n /\ i \in 1 .. n /\ j \in 1 .. n /\ k \in 1 .. n /\ i \in 1 .. k - 1
           /\ (\A m \in k + 1 .. n : m = n) /\ n # 0
OBVIOUS

\* A step that gives rows, gives them.
LEMMA GivesAll ==
    ASSUME NEW t, NEW of
    PROVE  \A m \in 1 .. Len(t) : t[m].do = "give" /\ t[m].of = of => t[m].groups \subseteq Gives(t, of)
BY GivesAre

\* A list with one step that gives rows gives no others.
LEMMA GivesOnce ==
    ASSUME NEW t, NEW of, NEW m, \A n \in 1 .. Len(t) : t[n].do = "give" /\ t[n].of = of => n = m
    PROVE  \A x \in Gives(t, of) : x \in t[m].groups
<1>1. \A x \in Gives(t, of) : \E n \in 1 .. Len(t) : t[n].do = "give" /\ t[n].of = of /\ x \in t[n].groups
    BY GivesAre
<1> QED BY <1>1

\* A change of permissions.
LEMMA PermissionsChange ==
    ASSUME NEW t \in Seq(AnyStep), t # <<>>, NEW specific, NEW s, NEW b,
           \A i \in 1 .. Len(t) :
               t[i].do \in {"give", "take", "alert", "refresh", "underlying", "refresh under", "end"},
           \A i \in 1 .. Len(t) : t[i].do = "end" => i = Len(t),
           \A i \in 1 .. Len(t) : t[i].do \in {"give", "take"} /\ t[i].of = "sub" => specific,
           RefreshedLater(t),
           s \subseteq b => Shown(t, s, b),
           \A k \in 1 .. Len(t) : t[k].do = "refresh under" => HasBefore(t, k, "underlying")
    PROVE  Changes(t, specific, s, b)
<1>1. Len(t) \in Nat /\ DOMAIN t = 1 .. Len(t)
    BY LenProperties
<1>2. \A i \in 1 .. Len(t) : t[i].do \notin Deletes \cup {"insert", "new", "store", "log", "save"}
    BY DEF Deletes
<1>3. ~ Has(t, Deletes) /\ ~ Has(t, {"insert"})
    BY <1>2 DEF Has
<1>4. WellMade(t, specific)
    BY <1>2 DEF WellMade
<1>5. ~ IsUndone(t)
    BY <1>1, <1>2 DEF IsUndone
<1>6. \A f \in [Files -> Nat] : LogsCome(t, f)
    BY <1>2 DEF LogsCome
<1>7. ASSUME NEW k \in 1 .. Len(t) PROVE ~ HasBefore(t, k, "save")
    <2>1. \A j \in 1 .. k - 1 : j \in 1 .. Len(t)
        BY <1>1, Below
    <2> QED BY <1>2, <2>1 DEF HasBefore
<1> QED BY <1>3, <1>4, <1>5, <1>6, <1>7 DEF Changes, Asks

\* The same change for both sets of rows.
LEMMA BothChange ==
    ASSUME NEW t \in Seq(AnyStep), NEW i \in Nat, NEW j \in Nat, NEW k \in Nat,
           1 < i, i < j, j < k, Len(t) = k + 1,
           t[1].do \in {"give", "take"}, t[1].of = "sub", t[j].do = t[1].do, t[j].of = "base",
           t[1].do = "give" => t[j].groups = t[1].groups,
           t[1].do = "take" => t[j].group = t[1].group,
           t[i].do = "underlying", t[k].do = "refresh under", t[Len(t)].do = "end",
           \A n \in 1 .. Len(t) : n \notin {1, i, j, k, Len(t)} => t[n].do \in {"alert", "refresh"},
           NEW specific, specific, NEW s, NEW b
    PROVE  Changes(t, specific, s, b)
<1>0. Len(t) = k + 1
    OBVIOUS
<1>1. /\ Len(t) \in Nat /\ 1 \in 1 .. Len(t) /\ i \in 1 .. Len(t) /\ j \in 1 .. Len(t) /\ k \in 1 .. Len(t)
      /\ i \in 1 .. k - 1 /\ t # <<>> /\ \A m \in k + 1 .. Len(t) : m = Len(t)
    <2> DEFINE n == Len(t)
    <2>1. n = k + 1
        BY <1>0
    <2>2. Len(<<>>) = 0
        OBVIOUS
    <2> HIDE DEF n
    <2>3. /\ n \in Nat /\ 1 \in 1 .. n /\ i \in 1 .. n /\ j \in 1 .. n /\ k \in 1 .. n /\ i \in 1 .. k - 1
          /\ (\A m \in k + 1 .. n : m = n) /\ n # 0
        BY <2>1, Places
    <2> QED BY <2>2, <2>3, Zenon DEF n
<1>2. ASSUME NEW n \in 1 .. Len(t)
      PROVE  \/ n \in {1, j} /\ t[n].do = t[1].do
             \/ n = i /\ t[n].do = "underlying"
             \/ n = k /\ t[n].do = "refresh under"
             \/ n = Len(t) /\ t[n].do = "end"
             \/ t[n].do \in {"alert", "refresh"}
    BY <1>2
<1>3. \A n \in 1 .. Len(t) :
          t[n].do \in {"give", "take", "alert", "refresh", "underlying", "refresh under", "end"}
    BY <1>2
<1>4. \A n \in 1 .. Len(t) : t[n].do = "end" => n = Len(t)
    BY <1>2
<1>5. RefreshedLater(t)
    <2>1. \A n \in k + 1 .. Len(t) : n = Len(t)
        BY <1>1, Zenon
    <2>2. \A n \in k + 1 .. Len(t) : ~ OnBase(t[n]) /\ t[n].do \notin Writes
        BY <2>1 DEF OnBase, Writes, Saves
    <2> QED BY <1>1, <2>2 DEF RefreshedLater
<1>6. ASSUME NEW n \in 1 .. Len(t), t[n].do = "refresh under" PROVE HasBefore(t, n, "underlying")
    <2>1. n = k
        BY <1>2, <1>6
    <2>2. i \in 1 .. n - 1
        BY <1>1, <2>1
    <2> QED BY <2>2 DEF HasBefore
<1>7. s \subseteq b => Shown(t, s, b)
    <2>1. ASSUME s \subseteq b, t[1].do = "give" PROVE Shown(t, s, b)
        <3>1. ~ Has(t, {"take"})
            BY <1>2, <2>1 DEF Has
        <3>2. \A n \in 1 .. Len(t) : t[n].do = "give" /\ t[n].of = "sub" => n = 1
            BY <1>2, <2>1
        <3>3. ASSUME NEW x \in Gives(t, "sub") PROVE x \in Gives(t, "base")
            <4>1. x \in t[1].groups
                BY <3>2, <3>3, GivesOnce
            <4>2. x \in t[j].groups /\ t[j].do = "give"
                BY <2>1, <3>2, <4>1
            <4>3. t[j].groups \subseteq Gives(t, "base")
                BY <1>1, <4>2, GivesAll
            <4> QED BY <4>2, <4>3
        <3> QED BY <2>1, <3>1, <3>3 DEF Shown
    <2>2. ASSUME s \subseteq b, t[1].do = "take" PROVE Shown(t, s, b)
        <3>1. ~ Has(t, {"give"})
            BY <1>2, <2>2 DEF Has
        <3>2. \A n \in 1 .. Len(t) : t[n].do = "take" /\ t[n].of = "base" => n = j
            BY <1>2, <2>2
        <3>3. ASSUME NEW x \in Takes(t, "base") PROVE x \in Takes(t, "sub")
            <4>1. PICK n \in 1 .. Len(t) : t[n].do = "take" /\ t[n].of = "base" /\ x = t[n].group
                BY <3>3 DEF Takes
            <4>2. x = t[1].group
                BY <2>2, <3>2, <4>1
            <4> QED BY <1>1, <2>2, <4>2 DEF Takes
        <3> QED BY <2>2, <3>1, <3>3 DEF Shown
    <2> QED BY <2>1, <2>2
<1> QED BY <1>1, <1>3, <1>4, <1>5, <1>6, <1>7, PermissionsChange

\* One change, and a refresh.
LEMMA OneChange ==
    ASSUME NEW t \in Seq(AnyStep), NEW k \in 1 .. Len(t), 1 < k, Len(t) = k + 1,
           t[1].do \in {"give", "take"}, t[k].do = "refresh", t[Len(t)].do = "end",
           \A n \in 1 .. Len(t) : n \notin {1, k, Len(t)} => t[n].do \in {"alert", "refresh"},
           NEW specific, NEW s, NEW b, t[1].of = "sub" => specific, ~ specific => s = {},
           t[1].of \in {"sub", "base"},
           t[1].of = "sub" => t[1].do = "take", specific => t[1].of = "sub"
    PROVE  Changes(t, specific, s, b)
<1>1. Len(t) \in Nat /\ 1 \in 1 .. Len(t) /\ t # <<>>
    BY LenProperties
<1>2. ASSUME NEW n \in 1 .. Len(t)
      PROVE  \/ n = 1
             \/ n # 1 /\ n = Len(t) /\ t[n].do = "end"
             \/ n # 1 /\ t[n].do \in {"alert", "refresh"}
    BY <1>2
<1>3. \A n \in 1 .. Len(t) :
          t[n].do \in {"give", "take", "alert", "refresh", "underlying", "refresh under", "end"}
    BY <1>2
<1>4. \A n \in 1 .. Len(t) : t[n].do = "end" => n = Len(t)
    BY <1>2
<1>5. RefreshedLater(t)
    <2>1. \A n \in k + 1 .. Len(t) : n = Len(t)
        BY <1>1
    <2>2. \A n \in k + 1 .. Len(t) : ~ OnBase(t[n]) /\ t[n].do # "refresh under"
        BY <2>1 DEF OnBase
    <2> QED BY <2>2 DEF RefreshedLater
<1>6. \A n \in 1 .. Len(t) : t[n].do \in {"give", "take"} /\ t[n].of = "sub" => specific
    BY <1>2
<1>7. \A n \in 1 .. Len(t) : t[n].do # "refresh under"
    BY <1>2
<1>8. s \subseteq b => Shown(t, s, b)
    <2> SUFFICES ASSUME s \subseteq b PROVE Shown(t, s, b)
        OBVIOUS
    <2>1. CASE t[1].do = "give"
        <3>1. ~ Has(t, {"take"})
            BY <1>2, <2>1 DEF Has
        <3>2. \A n \in 1 .. Len(t) : ~ (t[n].do = "give" /\ t[n].of = "sub")
            BY <1>2, <2>1
        <3>3. Gives(t, "sub") \subseteq Gives(t, "base")
            BY <3>2, GivesAre
        <3> QED BY <3>1, <3>3 DEF Shown
    <2>2. CASE t[1].do = "take"
        <3>1. ~ Has(t, {"give"})
            BY <1>2, <2>2 DEF Has
        <3>2. CASE ~ specific
            BY <3>1, <3>2 DEF Shown
        <3>3. CASE specific
            <4>1. \A n \in 1 .. Len(t) : ~ (t[n].do = "take" /\ t[n].of = "base")
                BY <1>2, <3>3
            <4>2. Takes(t, "base") = {}
                BY <4>1 DEF Takes
            <4> QED BY <3>1, <4>2 DEF Shown
        <3> QED BY <3>2, <3>3
    <2> QED BY <2>1, <2>2
<1> QED BY <1>1, <1>3, <1>4, <1>5, <1>6, <1>7, <1>8, PermissionsChange

\* A change and the steps a list of which it is part has after it.
LEMMA AndEnds ==
    ASSUME NEW u \in Seq(AnyStep)
    PROVE  LET t == u \o <<Do("end")>>
           IN  /\ t \in Seq(AnyStep) /\ Len(t) = Len(u) + 1 /\ t[Len(t)].do = "end"
               /\ \A i \in 1 .. Len(u) : t[i] = u[i]
<1> DEFINE e == Do("end")
<1>1. e \in AnyStep /\ e.do = "end"
    BY DoIs DEF PlainKinds
<1> HIDE DEF e
<1> DEFINE t == u \o <<e>>
<1>2. /\ t \in Seq(AnyStep) /\ Len(t) = Len(u) + 1
      /\ \A i \in 1 .. Len(u) : t[i] = u[i]
      /\ t[Len(u) + 1] = e
    BY <1>1, OneMore
<1> HIDE DEF t
<1>3. t[Len(t)].do = "end"
    BY <1>1, <1>2
<1> QED BY <1>2, <1>3 DEF t, e

\* A change, of either set of rows.
Alters(a, of, kind, g) == /\ a \in AnyStep /\ a.do = kind /\ a.of = of
                          /\ kind = "give" => a.groups = {g}
                          /\ kind = "take" => a.group = g

\* The two steps that alter a row.
LEMMA Altering ==
    ASSUME NEW of \in {"sub", "base"}, NEW g \in Observers
    PROVE  Alters(Give(of, {g}), of, "give", g) /\ Alters(Take(of, g), of, "take", g)
<1>1. g \in Groups /\ {g} \in SUBSET Groups
    BY DEF Groups
<1>2. Give(of, {g}) \in AnyStep /\ Take(of, g) \in AnyStep
    BY <1>1, MadeSteps
<1> QED BY <1>2 DEF Alters, Give, Take

\* The other steps of a change of permissions.
LEMMA Others ==
    /\ Do("alert") \in AnyStep /\ Do("alert").do = "alert"
    /\ Do("refresh") \in AnyStep /\ Do("refresh").do = "refresh"
    /\ Do("underlying") \in AnyStep /\ Do("underlying").do = "underlying"
    /\ Do("refresh under") \in AnyStep /\ Do("refresh under").do = "refresh under"
BY DoIs DEF PlainKinds

\* Lists that are written out.
LEMMA ListsOf ==
    ASSUME NEW S, NEW a \in S, NEW b \in S, NEW c \in S, NEW d \in S, NEW e \in S, NEW f \in S, NEW g \in S
    PROVE  /\ <<a, b, c, d, e, f, g>> \in Seq(S) /\ Len(<<a, b, c, d, e, f, g>>) = 7
           /\ <<a, b, c, d, e>> \in Seq(S) /\ Len(<<a, b, c, d, e>>) = 5
OBVIOUS

\* expose or protect, where there are two sets of rows.
LEMMA BothUpdated ==
    ASSUME NEW kind \in {"give", "take"}, NEW g, NEW a, NEW c, Alters(a, "sub", kind, g), Alters(c, "base", kind, g),
           NEW specific, specific, NEW s, NEW b
    PROVE  Changes(<<a, Do("alert"), Do("refresh"), Do("underlying"), c, Do("alert"), Do("refresh under")>>
                   \o <<Do("end")>>, specific, s, b)
<1> DEFINE al == Do("alert")
           re == Do("refresh")
           un == Do("underlying")
           ru == Do("refresh under")
           e == Do("end")
           u == <<a, al, re, un, c, al, ru>>
           t == u \o <<e>>
<1>1. /\ al \in AnyStep /\ re \in AnyStep /\ un \in AnyStep /\ ru \in AnyStep
      /\ al.do = "alert" /\ re.do = "refresh" /\ un.do = "underlying" /\ ru.do = "refresh under"
    BY Others
<1>2. /\ a \in AnyStep /\ c \in AnyStep /\ a.do = kind /\ c.do = kind /\ a.of = "sub" /\ c.of = "base"
      /\ (kind = "give" => c.groups = a.groups) /\ (kind = "take" => c.group = a.group)
    BY DEF Alters
<1> HIDE DEF al, re, un, ru
<1>3. u \in Seq(AnyStep) /\ Len(u) = 7
    BY <1>1, <1>2, ListsOf
<1>4. u[1] = a /\ u[2] = al /\ u[3] = re /\ u[4] = un /\ u[5] = c /\ u[6] = al /\ u[7] = ru
    OBVIOUS
<1> HIDE DEF u
<1>5. /\ t \in Seq(AnyStep) /\ Len(t) = Len(u) + 1 /\ t[Len(t)].do = "end"
      /\ \A i \in 1 .. Len(u) : t[i] = u[i]
    BY <1>3, AndEnds
<1> HIDE DEF t
<1>6. /\ Len(t) = 8
      /\ t[1] = a /\ t[2] = al /\ t[3] = re /\ t[4] = un /\ t[5] = c /\ t[6] = al /\ t[7] = ru
    BY <1>3, <1>4, <1>5
<1>7. \A n \in 1 .. Len(t) : n \notin {1, 4, 5, 7, Len(t)} => n \in {2, 3, 6}
    <2>1. \A n \in 1 .. 8 : n \notin {1, 4, 5, 7, 8} => n \in {2, 3, 6}
        OBVIOUS
    <2> QED BY <1>6, <2>1
<1>8. \A n \in 1 .. Len(t) : n \notin {1, 4, 5, 7, Len(t)} => t[n].do \in {"alert", "refresh"}
    BY <1>1, <1>6, <1>7
<1>9. /\ t[1].do \in {"give", "take"} /\ t[1].of = "sub" /\ t[5].do = t[1].do /\ t[5].of = "base"
      /\ (t[1].do = "give" => t[5].groups = t[1].groups) /\ (t[1].do = "take" => t[5].group = t[1].group)
      /\ t[4].do = "underlying" /\ t[7].do = "refresh under" /\ t[Len(t)].do = "end"
    BY <1>1, <1>2, <1>5, <1>6
<1>10. 1 < 4 /\ 4 < 5 /\ 5 < 7 /\ Len(t) = 7 + 1 /\ 4 \in Nat /\ 5 \in Nat /\ 7 \in Nat
    BY <1>6
<1>11. Changes(t, specific, s, b)
    BY <1>5, <1>8, <1>9, <1>10, BothChange
<1> QED BY <1>11 DEF t, u, al, re, un, ru

\* PUT, where there are two sets of rows.
LEMMA BothPut ==
    ASSUME NEW g, NEW a, NEW c, Alters(a, "sub", "give", g), Alters(c, "base", "give", g),
           NEW specific, specific, NEW s, NEW b
    PROVE  Changes(<<a, Do("refresh"), Do("underlying"), c, Do("refresh under")>> \o <<Do("end")>>,
                   specific, s, b)
<1> DEFINE re == Do("refresh")
           un == Do("underlying")
           ru == Do("refresh under")
           e == Do("end")
           u == <<a, re, un, c, ru>>
           t == u \o <<e>>
<1>1. /\ re \in AnyStep /\ un \in AnyStep /\ ru \in AnyStep
      /\ re.do = "refresh" /\ un.do = "underlying" /\ ru.do = "refresh under"
    BY Others
<1>2. /\ a \in AnyStep /\ c \in AnyStep /\ a.do = "give" /\ c.do = "give" /\ a.of = "sub" /\ c.of = "base"
      /\ c.groups = a.groups
    BY DEF Alters
<1> HIDE DEF re, un, ru
<1>3. u \in Seq(AnyStep) /\ Len(u) = 5
    BY <1>1, <1>2, ListsOf
<1>4. u[1] = a /\ u[2] = re /\ u[3] = un /\ u[4] = c /\ u[5] = ru
    OBVIOUS
<1> HIDE DEF u
<1>5. /\ t \in Seq(AnyStep) /\ Len(t) = Len(u) + 1 /\ t[Len(t)].do = "end"
      /\ \A i \in 1 .. Len(u) : t[i] = u[i]
    BY <1>3, AndEnds
<1> HIDE DEF t
<1>6. /\ Len(t) = 6
      /\ t[1] = a /\ t[2] = re /\ t[3] = un /\ t[4] = c /\ t[5] = ru
    BY <1>3, <1>4, <1>5
<1>7. \A n \in 1 .. Len(t) : n \notin {1, 3, 4, 5, Len(t)} => n = 2
    <2>1. \A n \in 1 .. 6 : n \notin {1, 3, 4, 5, 6} => n = 2
        OBVIOUS
    <2> QED BY <1>6, <2>1
<1>8. \A n \in 1 .. Len(t) : n \notin {1, 3, 4, 5, Len(t)} => t[n].do \in {"alert", "refresh"}
    BY <1>1, <1>6, <1>7
<1>9. /\ t[1].do \in {"give", "take"} /\ t[1].of = "sub" /\ t[4].do = t[1].do /\ t[4].of = "base"
      /\ (t[1].do = "give" => t[4].groups = t[1].groups) /\ (t[1].do = "take" => t[4].group = t[1].group)
      /\ t[3].do = "underlying" /\ t[5].do = "refresh under" /\ t[Len(t)].do = "end"
    BY <1>1, <1>2, <1>5, <1>6
<1>10. 1 < 3 /\ 3 < 4 /\ 4 < 5 /\ Len(t) = 5 + 1 /\ 3 \in Nat /\ 4 \in Nat /\ 5 \in Nat
    BY <1>6
<1>11. Changes(t, specific, s, b)
    BY <1>5, <1>8, <1>9, <1>10, BothChange
<1> QED BY <1>11 DEF t, u, re, un, ru

\* A change of one set of rows, with an alert or without.
LEMMA OneUpdated ==
    ASSUME NEW kind \in {"give", "take"}, NEW of \in {"sub", "base"}, NEW g, NEW a, Alters(a, of, kind, g),
           NEW specific, NEW s, NEW b, (of = "sub") <=> specific, ~ specific => s = {},
           of = "sub" => kind = "take"
    PROVE  /\ Changes(<<a, Do("alert"), Do("refresh")>> \o <<Do("end")>>, specific, s, b)
           /\ Changes(<<a, Do("refresh")>> \o <<Do("end")>>, specific, s, b)
<1> DEFINE al == Do("alert")
           re == Do("refresh")
           e == Do("end")
           u == <<a, al, re>>
           v == <<a, re>>
           t == u \o <<e>>
           r == v \o <<e>>
<1>1. al \in AnyStep /\ re \in AnyStep /\ al.do = "alert" /\ re.do = "refresh"
    BY Others
<1>2. /\ a \in AnyStep /\ a.do = kind /\ a.of = of /\ (a.of = "sub" => a.do = "take")
      /\ a.do \in {"give", "take"} /\ a.of \in {"sub", "base"} /\ ((a.of = "sub") <=> specific)
    BY DEF Alters
<1> HIDE DEF al, re
<1>3. u \in Seq(AnyStep) /\ Len(u) = 3 /\ v \in Seq(AnyStep) /\ Len(v) = 2
    BY <1>1, <1>2
<1>4. u[1] = a /\ u[2] = al /\ u[3] = re /\ v[1] = a /\ v[2] = re
    OBVIOUS
<1> HIDE DEF u, v
<1>5. Changes(t, specific, s, b)
    <2>1. /\ t \in Seq(AnyStep) /\ Len(t) = Len(u) + 1 /\ t[Len(t)].do = "end"
          /\ \A i \in 1 .. Len(u) : t[i] = u[i]
        BY <1>3, AndEnds
    <2> HIDE DEF t
    <2>2. Len(t) = 4 /\ t[1] = a /\ t[2] = al /\ t[3] = re
        BY <1>3, <1>4, <2>1
    <2>3. \A n \in 1 .. Len(t) : n \notin {1, 3, Len(t)} => n = 2
        <3>1. \A n \in 1 .. 4 : n \notin {1, 3, 4} => n = 2
            OBVIOUS
        <3> QED BY <2>2, <3>1
    <2>4. \A n \in 1 .. Len(t) : n \notin {1, 3, Len(t)} => t[n].do \in {"alert", "refresh"}
        BY <1>1, <2>2, <2>3
    <2>5. /\ t[1].do \in {"give", "take"} /\ t[3].do = "refresh" /\ t[Len(t)].do = "end"
          /\ (t[1].of = "sub" => specific) /\ (specific => t[1].of = "sub")
          /\ (t[1].of = "sub" => t[1].do = "take") /\ t[1].of \in {"sub", "base"}
        BY <1>1, <1>2, <2>1, <2>2
    <2>6. 3 \in 1 .. Len(t) /\ 1 < 3 /\ Len(t) = 3 + 1
        BY <2>2
    <2> QED BY <2>1, <2>4, <2>5, <2>6, OneChange
<1>6. Changes(r, specific, s, b)
    <2>1. /\ r \in Seq(AnyStep) /\ Len(r) = Len(v) + 1 /\ r[Len(r)].do = "end"
          /\ \A i \in 1 .. Len(v) : r[i] = v[i]
        BY <1>3, AndEnds
    <2> HIDE DEF r
    <2>2. Len(r) = 3 /\ r[1] = a /\ r[2] = re
        BY <1>3, <1>4, <2>1
    <2>3. \A n \in 1 .. Len(r) : n \in {1, 2, Len(r)}
        <3>1. \A n \in 1 .. 3 : n \in {1, 2, 3}
            OBVIOUS
        <3> QED BY <2>2, <3>1
    <2>4. \A n \in 1 .. Len(r) : n \notin {1, 2, Len(r)} => r[n].do \in {"alert", "refresh"}
        BY <2>3
    <2>5. /\ r[1].do \in {"give", "take"} /\ r[2].do = "refresh" /\ r[Len(r)].do = "end"
          /\ (r[1].of = "sub" => specific) /\ (specific => r[1].of = "sub")
          /\ (r[1].of = "sub" => r[1].do = "take") /\ r[1].of \in {"sub", "base"}
        BY <1>1, <1>2, <2>1, <2>2
    <2>6. 2 \in 1 .. Len(r) /\ 1 < 2 /\ Len(r) = 2 + 1
        BY <2>2
    <2> QED BY <2>1, <2>4, <2>5, <2>6, OneChange
<1> QED BY <1>5, <1>6 DEF t, r, u, v, al, re

\* The changes of permissions are changes.
LEMMA UpdateChanges ==
    ASSUME NEW specific \in BOOLEAN, NEW s, NEW b, ~ specific => s = {}, NEW g \in Observers,
           NEW action \in {"expose", "protect"}
    PROVE  Changes(UpdateEventPerms(specific, g, action) \o <<Do("end")>>, specific, s, b)
<1> DEFINE kind == IF action = "expose" THEN "give" ELSE "take"
           c(of) == IF action = "expose" THEN Give(of, {g}) ELSE Take(of, g)
<1>1. kind \in {"give", "take"}
    OBVIOUS
<1>2. Alters(c("sub"), "sub", kind, g) /\ Alters(c("base"), "base", kind, g)
    BY Altering
<1>3. UpdateEventPerms(specific, g, action) =
          IF specific THEN <<c("sub"), Do("alert"), Do("refresh"), Do("underlying"), c("base"), Do("alert"),
                             Do("refresh under")>>
          ELSE <<c("base"), Do("alert"), Do("refresh")>>
    BY DEF UpdateEventPerms
<1> DEFINE x == c("sub")
           y == c("base")
<1>4. Alters(x, "sub", kind, g) /\ Alters(y, "base", kind, g)
    BY <1>2
<1>5. UpdateEventPerms(specific, g, action) =
          IF specific THEN <<x, Do("alert"), Do("refresh"), Do("underlying"), y, Do("alert"),
                             Do("refresh under")>>
          ELSE <<y, Do("alert"), Do("refresh")>>
    BY <1>3
<1> HIDE DEF kind, c, x, y
<1>6. CASE specific
    <2>1. Changes(<<x, Do("alert"), Do("refresh"), Do("underlying"), y, Do("alert"), Do("refresh under")>>
                  \o <<Do("end")>>, specific, s, b)
        BY <1>1, <1>4, <1>6, BothUpdated
    <2> QED BY <1>5, <1>6, <2>1, Zenon
<1>7. CASE ~ specific
    <2>1. Changes(<<y, Do("alert"), Do("refresh")>> \o <<Do("end")>>, specific, s, b)
        BY <1>1, <1>4, <1>7, OneUpdated
    <2> QED BY <1>5, <1>7, <2>1, Zenon
<1> QED BY <1>6, <1>7

\* So is the page of one permission, when it gives it,
LEMMA PutChanges ==
    ASSUME NEW specific \in BOOLEAN, NEW s, NEW b, ~ specific => s = {}, NEW g \in Observers
    PROVE  Changes(PutPermission(specific, g) \o <<Do("end")>>, specific, s, b)
<1> DEFINE x == Give("sub", {g})
           y == Give("base", {g})
<1>1. Alters(x, "sub", "give", g) /\ Alters(y, "base", "give", g)
    BY Altering
<1>2. PutPermission(specific, g) =
          IF specific THEN <<x, Do("refresh"), Do("underlying"), y, Do("refresh under")>> ELSE <<y, Do("refresh")>>
    BY DEF PutPermission
<1> HIDE DEF x, y
<1>3. CASE specific
    <2>1. Changes(<<x, Do("refresh"), Do("underlying"), y, Do("refresh under")>> \o <<Do("end")>>, specific, s, b)
        BY <1>1, <1>3, BothPut
    <2> QED BY <1>2, <1>3, <2>1, Zenon
<1>4. CASE ~ specific
    <2>1. Changes(<<y, Do("refresh")>> \o <<Do("end")>>, specific, s, b)
        BY <1>1, <1>4, OneUpdated
    <2> QED BY <1>2, <1>4, <2>1, Zenon
<1> QED BY <1>3, <1>4

\* ... and when it takes it.
LEMMA DeleteChanges ==
    ASSUME NEW specific \in BOOLEAN, NEW s, NEW b, ~ specific => s = {}, NEW g \in Observers
    PROVE  Changes(DeletePermission(specific, g) \o <<Do("end")>>, specific, s, b)
<1> DEFINE of == IF specific THEN "sub" ELSE "base"
           x == Take(of, g)
<1>1. of \in {"sub", "base"} /\ ((of = "sub") <=> specific)
    OBVIOUS
<1>2. DeletePermission(specific, g) = <<x, Do("refresh")>>
    BY DEF DeletePermission
<1> HIDE DEF of
<1>3. Alters(x, of, "take", g)
    BY <1>1, Altering
<1> HIDE DEF x
<1>4. Changes(<<x, Do("refresh")>> \o <<Do("end")>>, specific, s, b)
    BY <1>1, <1>3, OneUpdated
<1> QED BY <1>2, <1>4

\* What is the case when a request has begun.
LEMMA Begins ==
    ASSUME SubmissionInv, NEW w \in Workers, NEW steps, NEW i \in Row, steps \o <<Do("end")>> \in Seq(AnyStep),
           Begin(w, steps, i)
    PROVE  Begun(w, steps \o <<Do("end")>>, i)
<1> DEFINE r == steps \o <<Do("end")>>
<1>1. /\ requests < MaxRequests /\ requests' = requests + 1
      /\ todo' = [todo EXCEPT ![w] = r]
      /\ inst' = [inst EXCEPT ![w] = i] /\ calm' = (calm /\ Rest)
      /\ UNCHANGED <<row, sub, base, dir, files, logs, labels, under, faults, announced,
                     crashed, refused, want>>
    BY DEF Begin, perms, details
<1> HIDE DEF r
<1>2. /\ todo' \in [Workers -> Seq(AnyStep)] /\ todo'[w] = r
      /\ inst' \in [Workers -> Row] /\ inst'[w] = i
      /\ \A v \in Workers \ {w} : todo'[v] = todo[v]
      /\ (calm' => calm /\ Rest)
      /\ (Rest => \A v \in Workers : v # w => todo'[v] = <<>>)
    <2>1. r \in Seq(AnyStep) /\ Types /\ Turns
        BY DEF r, SubmissionInv
    <2> QED BY <1>1, <2>1, BeginHas
<1>3. Begun(w, r, i)
    BY <1>1, <1>2 DEF Begun
<1> QED BY <1>3 DEF r

\* The invariant is kept by Submit.
LEMMA SubmitHolds ==
    ASSUME Sane, SubmissionInv, NEW w \in Workers, Submit(w)
    PROVE  SubmissionInv'
<1>1. /\ requests = 0 /\ uploads < MaxUploads /\ uploads' = uploads + 1
      /\ \E s \in BOOLEAN, mdc \in BOOLEAN, up \in Submitted, ls \in SUBSET LabelNames :
             subclass' = s /\ Begin(w, CreateEvent(s, mdc, up, ls), Fresh)
    BY DEF Submit
<1>2. PICK s \in BOOLEAN, mdc \in BOOLEAN, up \in Submitted, ls \in SUBSET LabelNames :
          subclass' = s /\ Begin(w, CreateEvent(s, mdc, up, ls), Fresh)
    BY <1>1
<1> DEFINE steps == CreateEvent(s, mdc, up, ls)
           i == Fresh
           r == steps \o <<Do("end")>>
<1>3. Submits(r, s) /\ i \in Row /\ i = Fresh
    BY CreateSubmits, FreshIs
<1> HIDE DEF steps, i
<1>4. Begin(w, steps, i)
    BY <1>2 DEF steps, i
<1>5. Begun(w, r, i)
    BY <1>3, <1>4, Begins DEF Submits, Asks
<1> HIDE DEF r
<1>6. subclass' \in BOOLEAN /\ Submits(r, subclass')
    BY <1>2, <1>3
<1> QED BY <1>1, <1>3, <1>5, <1>6, SubmitBegins

\* The invariant is kept by a request on an event.
LEMMA BeginChanges ==
    ASSUME Sane, SubmissionInv, NEW w \in Workers, row # None, uploads' \in 0 .. MaxUploads,
           subclass' = subclass, NEW steps, Begin(w, steps, row),
           Changes(steps \o <<Do("end")>>, subclass, sub, base)
    PROVE  SubmissionInv'
<1> DEFINE i == row
           r == steps \o <<Do("end")>>
<1>1. i \in Row /\ i = row
    BY DEF SubmissionInv, TypeOK
<1> HIDE DEF i
<1>2. Begin(w, steps, i)
    BY DEF i
<1>3. Begun(w, r, i) /\ Changes(r, subclass, sub, base)
    BY <1>1, <1>2, Begins DEF Changes, Asks
<1> HIDE DEF r
<1> QED BY <1>1, <1>3, ChangeBegins

\* The invariant is kept by Replace.
LEMMA ReplaceHolds ==
    ASSUME Sane, SubmissionInv, NEW w \in Workers, Replace(w)
    PROVE  SubmissionInv'
<1>1. /\ row # None /\ uploads < MaxUploads /\ uploads' = uploads + 1 /\ subclass' = subclass
      /\ \E up \in Submitted : Begin(w, ReplaceEvent(subclass, up), row)
    BY DEF Replace
<1>2. PICK up \in Submitted : Begin(w, ReplaceEvent(subclass, up), row)
    BY <1>1
<1>3. uploads \in 0 .. MaxUploads /\ subclass \in BOOLEAN
    BY DEF SubmissionInv, TypeOK
<1>4. uploads' \in 0 .. MaxUploads
    BY <1>1, <1>3 DEF Sane
<1>5. Changes(ReplaceEvent(subclass, up) \o <<Do("end")>>, subclass, sub, base)
    BY <1>3, ReplaceChanges
<1> QED BY <1>1, <1>2, <1>4, <1>5, BeginChanges

\* The invariant is kept by ChangePermissions.
LEMMA ChangeHolds ==
    ASSUME Sane, SubmissionInv, NEW w \in Workers, ChangePermissions(w)
    PROVE  SubmissionInv'
<1>1. /\ row # None /\ uploads' = uploads /\ subclass' = subclass
      /\ \E g \in Observers :
             \/ \E action \in {"expose", "protect"} : Begin(w, UpdateEventPerms(subclass, g, action), row)
             \/ Begin(w, PutPermission(subclass, g), row)
             \/ Begin(w, DeletePermission(subclass, g), row)
    BY DEF ChangePermissions
<1>2. uploads' \in 0 .. MaxUploads /\ subclass \in BOOLEAN /\ (~ subclass => sub = {})
    BY <1>1 DEF SubmissionInv, TypeOK
<1>3. PICK g \in Observers :
          \/ \E action \in {"expose", "protect"} : Begin(w, UpdateEventPerms(subclass, g, action), row)
          \/ Begin(w, PutPermission(subclass, g), row)
          \/ Begin(w, DeletePermission(subclass, g), row)
    BY <1>1
<1>4. ASSUME NEW action \in {"expose", "protect"}, Begin(w, UpdateEventPerms(subclass, g, action), row)
      PROVE  SubmissionInv'
    <2>1. Changes(UpdateEventPerms(subclass, g, action) \o <<Do("end")>>, subclass, sub, base)
        BY <1>2, UpdateChanges
    <2> QED BY <1>1, <1>2, <1>4, <2>1, BeginChanges
<1>5. ASSUME Begin(w, PutPermission(subclass, g), row) PROVE SubmissionInv'
    <2>1. Changes(PutPermission(subclass, g) \o <<Do("end")>>, subclass, sub, base)
        BY <1>2, PutChanges
    <2> QED BY <1>1, <1>2, <1>5, <2>1, BeginChanges
<1>6. ASSUME Begin(w, DeletePermission(subclass, g), row) PROVE SubmissionInv'
    <2>1. Changes(DeletePermission(subclass, g) \o <<Do("end")>>, subclass, sub, base)
        BY <1>2, DeleteChanges
    <2> QED BY <1>1, <1>2, <1>6, <2>1, BeginChanges
<1> QED BY <1>3, <1>4, <1>5, <1>6

\* The invariant holds at first.
LEMMA BeginsHeld ==
    ASSUME Sane, Init
    PROVE  SubmissionInv
<1>1. /\ row = None /\ subclass = FALSE /\ sub = {} /\ base = {}
      /\ dir = FALSE /\ files = [f \in Files |-> 0] /\ logs = <<>> /\ labels = {}
      /\ todo = [w \in Workers |-> <<>>]
      /\ inst = [w \in Workers |-> Fresh] /\ under = [w \in Workers |-> Fresh]
      /\ requests = 0 /\ uploads = 0 /\ faults = 0
      /\ announced = FALSE /\ crashed = FALSE /\ calm = TRUE /\ refused = FALSE
      /\ want = [sv |-> FALSE, far |-> None]
    BY DEF Init
<1>2. \A w \in Workers : todo[w] = <<>> /\ Idle(w)
    BY <1>1 DEF Idle
<1>3. Rest /\ Blank
    BY <1>1, <1>2 DEF Rest, Blank
<1>4. TypeOK
    <2>1. \A f \in Files : ~ files[f] > 0
        BY <1>1
    <2>2. \A i \in DOMAIN logs : logs[i].version < files[logs[i].file]
        <3>1. DOMAIN <<>> = {}
            OBVIOUS
        <3> QED BY <1>1, <3>1
    <2>3. /\ requests \in 0 .. MaxRequests /\ uploads \in 0 .. MaxUploads /\ faults \in 0 .. MaxFaults
        BY <1>1 DEF Sane
    <2>4. row \in Row \cup {None} /\ sub \in SUBSET Groups /\ base \in SUBSET Groups /\ labels \subseteq LabelNames
          /\ subclass \in BOOLEAN /\ (~ subclass => sub = {})
        BY <1>1
    <2> QED BY <1>2, <2>1, <2>2, <2>3, <2>4 DEF TypeOK
<1>5. Types
    <2> DEFINE i == Fresh
    <2>1. i \in Row
        BY FreshIs
    <2> HIDE DEF i
    <2>2. inst = [w \in Workers |-> i] /\ under = [w \in Workers |-> i]
        BY <1>1 DEF i
    <2>3. inst \in [Workers -> Row] /\ under \in [Workers -> Row]
        BY <2>1, <2>2
    <2>4. todo \in [Workers -> Seq(AnyStep)]
        BY <1>1
    <2>5. files \in [Files -> Nat]
        BY <1>1
    <2>6. logs \in Seq([file : Files, version : Nat])
        BY <1>1
    <2>7. want \in [sv : BOOLEAN, far : Fars \cup {None}]
        BY <1>1
    <2>8. dir \in BOOLEAN /\ announced \in BOOLEAN /\ crashed \in BOOLEAN /\ calm \in BOOLEAN /\ refused \in BOOLEAN
        BY <1>1
    <2> QED BY <2>3, <2>4, <2>5, <2>6, <2>7, <2>8 DEF Types
<1>6. \A w \in Workers : Going(w)
    BY <1>2, NothingToDo DEF Going
<1>7. Turns
    <2>1. \A w \in Workers : ~ IsUndone(todo[w])
        BY <1>2, NothingToDo
    <2> QED BY <1>1, <1>2, <1>3, <2>1 DEF Turns
<1>8. Undone
    BY <1>1 DEF Undone
<1>9. Undisturbed
    BY <1>1, <1>2 DEF Undisturbed
<1> QED BY <1>4, <1>5, <1>6, <1>7, <1>8, <1>9 DEF SubmissionInv

\* The invariant is kept when nothing happens.
LEMMA StayHeld ==
    ASSUME SubmissionInv, UNCHANGED vars
    PROVE  SubmissionInv'
<1>1. UNCHANGED <<row, subclass, sub, base, dir, files, logs, labels, todo, inst, under,
                  requests, uploads, faults, announced, crashed, calm, refused, want>>
    BY DEF vars
<1>2. TypeOK'
    BY <1>1 DEF SubmissionInv, TypeOK, Idle
<1>3. Types'
    BY <1>1 DEF SubmissionInv, Types
<1>4. (\A w \in Workers : Going(w))'
    BY <1>1 DEF SubmissionInv, Going, Blank, Alone, Idle
<1>5. Turns'
    BY <1>1 DEF SubmissionInv, Turns, Blank, Rest, Idle
<1>6. Undone'
    BY <1>1 DEF SubmissionInv, Undone, Own
<1>7. Undisturbed'
    BY <1>1 DEF SubmissionInv, Undisturbed, Idle, Rest
<1> QED BY <1>2, <1>3, <1>4, <1>5, <1>6, <1>7 DEF SubmissionInv

\* The invariant is kept by every step.
LEMMA NextHolds ==
    ASSUME Sane, SubmissionInv, [Next]_vars
    PROVE  SubmissionInv'
<1>1. \/ \E w \in Workers : \/ Submit(w) \/ Replace(w) \/ ChangePermissions(w)
                            \/ Step(w) \/ Fail(w) \/ Crash(w)
      \/ SetSuperevent
      \/ UNCHANGED vars
    BY DEF Next
<1> QED BY <1>1, SubmitHolds, ReplaceHolds, ChangeHolds, StepHolds, FailHolds, CrashHolds,
           SetSupereventHolds, StayHeld

\* The invariant implies the three properties.
LEMMA HeldMeans ==
    ASSUME SubmissionInv
    PROVE  RefusedLeavesNothing /\ ListsShowWhatOpens /\ NothingIsOverwritten
<1>1. TypeOK /\ Undone /\ Undisturbed
    BY DEF SubmissionInv
<1>2. RefusedLeavesNothing
    <2> SUFFICES ASSUME Rest, calm, refused, ~ crashed, faults = 1
                 PROVE  /\ row = None /\ ~ dir /\ logs = <<>> /\ labels = {}
                        /\ (IF subclass THEN sub ELSE base) = {}
        BY <1>1 DEF RefusedLeavesNothing
    <2>1. \A w \in Workers : todo[w] = <<>>
        BY DEF Rest, Idle
    <2>2. LeavesDir # <<>> /\ LeavesPerms # <<>>
        BY LeavesAre
    <2>3. \A w \in Workers : todo[w] # LeavesDir /\ todo[w] # LeavesPerms
        BY <2>1, <2>2
    <2> QED BY <1>1, <2>3 DEF Undone, Own
<1>3. ListsShowWhatOpens
    BY <1>1 DEF Undisturbed, ListsShowWhatOpens
<1>4. NothingIsOverwritten
    BY <1>1 DEF Undisturbed, NothingIsOverwritten, AsWanted
<1> QED BY <1>2, <1>3, <1>4

-----------------------------------------------------------------------------
(* The theorems.                                                           *)

\* All of it holds in every state requests, faults and crashes lead to.
THEOREM SubmissionAlways == ASSUME Sane PROVE Spec => []SubmissionInv
<1>1. Init => SubmissionInv
    BY BeginsHeld
<1>2. (SubmissionInv /\ [Next]_vars) => SubmissionInv'
    BY NextHolds
<1> QED BY <1>1, <1>2, PTL DEF Spec

\* A submission that fails at any step leaves no event, no directory, no log message, no
\* label and no permission of the event's own class, if nothing fails on the way back.
THEOREM FailureLeavesNothing == ASSUME Sane PROVE Spec => []RefusedLeavesNothing
<1>1. SubmissionInv => RefusedLeavesNothing
    BY HeldMeans
<1> QED BY <1>1, SubmissionAlways, PTL

\* Between requests that do not overlap and do not fail, lists show an event to the groups
\* with a row of the underlying event, and to every group that can open its page.
THEOREM ListedIsOpened == ASSUME Sane PROVE Spec => []ListsShowWhatOpens
<1>1. SubmissionInv => ListsShowWhatOpens
    BY HeldMeans
<1> QED BY <1>1, SubmissionAlways, PTL

\* No save of a whole event takes back what was asked for.
THEOREM SavesKeepWishes == ASSUME Sane PROVE Spec => []NothingIsOverwritten
<1>1. SubmissionInv => NothingIsOverwritten
    BY HeldMeans
<1> QED BY <1>1, SubmissionAlways, PTL
=============================================================================
