------------------------------ MODULE Database ------------------------------
(***************************************************************************)
(* The tables that data migrations write, and what Django does with them.  *)
(* The database is a set of rows.  An account, certificate, group,         *)
(* pipeline, search, label, tag or group of observers is <<table, name>>;  *)
(* a row that links others is <<table, name, name>>, one that marks        *)
(* another <<table, name>>.                                                *)
(***************************************************************************)
EXTENDS Naturals, Sequences

Rows(table, S) == {<<table, x>> : x \in S}
Links(table, S, T) == {<<table, x, y>> : x \in S, y \in T}

Users(S) == Rows("user", S)
Certs(S) == Rows("cert", S)
Groups(S) == Rows("group", S)
Pipelines(S) == Rows("pipeline", S)
Searches(S) == Rows("search", S)
Labels(S) == Rows("label", S)
Tags(S) == Rows("tag", S)
EventGroups(S) == Rows("evgroup", S)
EmGroups(S) == Rows("emgroup", S)
LdapGroups(S) == Rows("ldap", S)

Robots(S) == Rows("robot", S)          \* of the model RobotUser, until 0046
AuthGroups(S) == Rows("auth", S)       \* of the model AuthGroup
Inactive(S) == Rows("off", S)

Members(gs, us) == Links("in", us, gs)
Uploaders(ps, us) == Links("perm", us, ps)     \* may populate the pipeline
GroupUploaders(ps, gs) == Links("gperm", gs, ps)
May(gs, perms) == Links("gp", gs, perms)
UserMay(perms, us) == Links("up", us, perms)
OfType(t, ps) == Links("type", ps, {t})
Held(u, cs) == Links("held", cs, {u})          \* X509Cert.users, until 0042
Owned(u, cs) == Links("owner", cs, {u})        \* X509Cert.user

\* What the migrations often create together.
NewHeld(u, cs) == Certs(cs) \cup Held(u, cs)
NewCerts(u, cs) == Certs(cs) \cup Owned(u, cs)
Uploads(ps, us) == Pipelines(ps) \cup Users(us) \cup Uploaders(ps, us)
RobotAccounts(us) == Users(us) \cup Members({"internal_users", "robot_accounts"}, us)

-----------------------------------------------------------------------------
\* The tables of the rows a row links or marks.
Ends == [robot |-> <<"user">>, off |-> <<"user">>, auth |-> <<"group">>,
         in |-> <<"user", "group">>, perm |-> <<"user", "pipeline">>, stray |-> <<"user">>,
         gperm |-> <<"group", "pipeline">>, gstray |-> <<"group">>,
         search2 |-> <<"search">>, pipeline2 |-> <<"pipeline">>, evgroup2 |-> <<"evgroup">>,
         gp |-> <<"group">>, up |-> <<"user">>, type |-> <<"pipeline">>,
         held |-> <<"cert", "user">>, owner |-> <<"cert", "user">>]

Parents(r) ==
    IF r[1] \notin DOMAIN Ends THEN {}
    ELSE {<<Ends[r[1]][i], r[i + 1]>> : i \in DOMAIN Ends[r[1]]}

\* The permission on a pipeline names the pipeline by its key, and is left behind when that is
\* deleted.
Stray == [perm |-> "stray", gperm |-> "gstray"]

\* A deleted row takes with it the rows that have a foreign key to it: links, marks, and the
\* certificates of a user.
RemoveRows(db, rows) ==
    LET gone == rows \cap db
        certs == {<<"cert", r[2]>> : r \in {s \in db : s[1] = "owner" /\ <<"user", s[3]>> \in gone}}
        all == gone \cup certs
        left == {r \in db \ all : r[1] \in DOMAIN Stray /\ <<Ends[r[1]][1], r[2]>> \notin all
                                                       /\ <<"pipeline", r[3]>> \in all}
    IN  {r \in db \ all : Parents(r) \cap all = {}}
        \cup {<<Stray[r[1]], r[2], r[3]>> : r \in left}

\* A certificate has one user, and a pipeline one type.
Single == {"owner", "type"}

AddRows(db, rows) ==
    LET there == db \cup {r \in rows : Parents(r) = {}}
        new == {r \in rows : Parents(r) \subseteq there}
        single == {<<r[1], r[2]>> : r \in {s \in new : s[1] \in Single}}
    IN  {r \in there : r[1] \notin Single \/ <<r[1], r[2]>> \notin single} \cup new

RenameIn(r, table, old, new) ==
    IF r[1] \notin DOMAIN Ends THEN IF r = <<table, old>> THEN <<table, new>> ELSE r
    ELSE [i \in DOMAIN r |-> IF /\ r[i] = old /\ i - 1 \in DOMAIN Ends[r[1]]
                                /\ Ends[r[1]][i - 1] = table
                             THEN new ELSE r[i]]

-----------------------------------------------------------------------------
(* What a migration does, step by step.                                    *)

Get(rows) == [do |-> "get", rows |-> rows]          \* objects.get
Create(rows) == [do |-> "create", rows |-> rows]    \* objects.create
Ensure(rows) == [do |-> "ensure", rows |-> rows]    \* get_or_create, or an added link
Delete(rows) == [do |-> "delete", rows |-> rows]    \* objects.get and delete
Drop(rows) == [do |-> "drop", rows |-> rows]        \* filter and delete, or a removed link
Rename(table, old, new) == [do |-> "rename", table |-> table, old |-> old, new |-> new]
Fails == [do |-> "fail"]
JoinRobots == [do |-> "join robots"]                \* of 0045
ForgetRobots == [do |-> "forget robots"]            \* of 0046
ClearMembers(g) == [do |-> "clear", table |-> "in", of |-> g]       \* user_set.clear
ClearUsersOf(perm) == [do |-> "clear", table |-> "up", of |-> perm]
CopyUploaders(p, q) == [do |-> "copy", from |-> p, to |-> q]          \* of 0013
OwnHeld == [do |-> "own held"]                      \* of 0042, and back
ShareOwned == [do |-> "share owned"]

\* Names of searches, pipelines and event groups need not be unique: what is created a second
\* time is there twice, and then neither get nor get_or_create finds the one.
Twice == [search |-> "search2", pipeline |-> "pipeline2", evgroup |-> "evgroup2"]
Doubles(rows) == {<<Twice[r[1]], r[2]>> : r \in {s \in rows : s[1] \in DOMAIN Twice}}

Can(db, op) == CASE op.do \in {"get", "delete"} ->
                        op.rows \subseteq db /\ Doubles(op.rows) \cap db = {}
                 [] op.do = "ensure" -> Doubles(op.rows) \cap db = {}
                 [] op.do = "create" -> \A r \in op.rows \cap db : r[1] \in DOMAIN Twice
                 [] op.do = "rename" -> <<op.table, op.old>> \in db
                 [] op.do = "fail" -> FALSE
                 [] OTHER -> TRUE

Moved(db, from, to) == {IF r[1] = from THEN <<to, r[2], r[3]>> ELSE r : r \in db}

Do(db, op) ==
    CASE op.do = "get" -> db
      [] op.do = "ensure" -> AddRows(db, op.rows)
      [] op.do = "create" -> AddRows(db, op.rows \cup Doubles(op.rows \cap db))
      [] op.do \in {"delete", "drop"} -> RemoveRows(db, op.rows)
      [] op.do = "rename" -> {RenameIn(r, op.table, op.old, op.new) : r \in db}
      [] op.do = "clear" -> {r \in db : ~ (r[1] = op.table /\ r[3] = op.of)}
      [] op.do = "copy" -> AddRows(db, {<<"perm", r[2], op.to>> :
                                         r \in {s \in db : s[1] = "perm" /\ s[3] = op.from}})
      [] op.do = "join robots" ->
             AddRows(db, {<<"in", r[2], "robot_accounts">> : r \in {s \in db : s[1] = "robot"}})
      [] op.do = "forget robots" -> {r \in db : r[1] # "robot"}
      [] op.do = "own held" -> Moved(db, "held", "owner")
      [] op.do = "share owned" -> Moved(db, "owner", "held")

\* A migration runs in a transaction: the steps that follow one that fails do nothing.
Stepped(s, op) == IF s.ok /\ Can(s.db, op) THEN [ok |-> TRUE, db |-> Do(s.db, op)]
                  ELSE [ok |-> FALSE, db |-> s.db]

RunSteps(db, ops) ==
    LET after[n \in 0 .. Len(ops)] ==
            IF n = 0 THEN [ok |-> TRUE, db |-> db] ELSE Stepped(after[n - 1], ops[n])
    IN  after[Len(ops)]
=============================================================================
