------------------------------- MODULE Accounts -------------------------------
(***************************************************************************)
(* The accounts of people and robots, which follow the LIGO and KAGRA      *)
(* directories.  Two things write them, next to each other:                *)
(*   - the command update_user_accounts_from_ligo_ldap, run again and again*)
(*     for one directory after the other: it asks for all entries and then *)
(*     goes through them one by one;                                       *)
(*   - a login through the web, with the memberships its session was given *)
(*     when it began.                                                      *)
(* Every statement is committed on its own, and a save writes the whole    *)
(* row of the user as it was loaded.                                       *)
(***************************************************************************)
EXTENDS Naturals, Sequences, SequencesExt

CONSTANTS
    Commands,      \* the commands of the cleanup job in order: [ldap, entries]
    Users,         \* the rows there may be
    Names,         \* the usernames
    FirstName, LaterName,   \* of each entry
    Memberships,   \* what entries are members of; each gives the group of its name
    AccountOf,     \* the users some entries have to begin with
    Lvc,           \* the membership that makes a user active
    WithLdapName,  \* the groups whose ldap_name is set
    Subjects,      \* subjects of certificates
    Verbose,       \* is the command run without --quiet?
    MaxChanges, MaxLogins, MaxFaults,   \* bounds on what happens to the system
    None

Manual == "executives"        \* a group no directory knows of

\* TLC evaluates a definition once, and a constant that a configuration replaces every time.
Runs == Commands
NameBefore == FirstName
NameAfter == LaterName

Entries == UNION {Runs[c].entries : c \in DOMAIN Runs}
CommandOf(e) == Runs[CHOOSE c \in DOMAIN Runs : e \in Runs[c].entries]
LdapOf == [e \in Entries |-> CommandOf(e).ldap]

Entry == [name : Names, member : SUBSET Memberships, certs : SUBSET Subjects]
Row == [name : Names, active : BOOLEAN, staff : BOOLEAN, groups : SUBSET (Memberships \cup {Manual})]

ASSUME CommandsAssumption ==
    /\ Len(Commands) \in Nat \ {0} /\ DOMAIN Commands = 1 .. Len(Commands)
    /\ \A c \in DOMAIN Commands : IsFiniteSet(Commands[c].entries)

\* The names are finitely many, and there are rows for all of them.
ASSUME NamesAssumption ==
    /\ FirstName \in [Entries -> Names] /\ LaterName \in [Entries -> Names]
    /\ IsFiniteSet(Names) /\ Injection(Names, Users) # {}

\* The accounts there are have different names.
ASSUME AccountsAssumption ==
    /\ AccountOf \in [Entries -> Users \cup {None}]
    /\ \A e, f \in Entries :
           AccountOf[e] # None /\ AccountOf[f] # None /\ FirstName[e] = FirstName[f]
               => AccountOf[e] = AccountOf[f]

ASSUME ValuesAssumption ==
    /\ Lvc \in Memberships /\ Verbose \in BOOLEAN
    /\ MaxChanges \in Nat /\ MaxLogins \in Nat /\ MaxFaults \in Nat
    /\ None \notin Users /\ None \notin Row

VARIABLES
    directory,   \* the entries
    user,        \* the users, None where there is no row
    linked,      \* the user of each entry's GenericLdapUser
    cert,        \* the certificates: [user, entry], None where there is none
    command,     \* the command that runs, or is the next to run
    result,      \* the entries it has still to go through, each with what it found
    step,        \* what it does next
    held,        \* the user it holds: the row, its instance, and was it created?
    login,       \* the login that runs
    changes, logins, faults

vars == <<directory, user, linked, cert, command, result, step, held, login, changes, logins, faults>>
db == <<user, linked, cert>>
sync == <<command, result, step, held>>
bounds == <<changes, logins, faults>>

NoHold == [row |-> None, inst |-> None, created |-> FALSE]
NoLogin == [phase |-> "out", row |-> None, inst |-> None, name |-> None, member |-> {}]

Rows == {u \in Users : user[u] # None}
Named(n) == {u \in Rows : user[u].name = n}
TheNamed(n) == IF Named(n) = {} THEN None ELSE CHOOSE u \in Named(n) : TRUE
FreeRow == CHOOSE u \in Users : user[u] = None

\* Names of users are unique, and nobody is staff who is not active.
AccountsInOrder ==
    /\ user \in [Users -> Row \cup {None}]
    /\ linked \in [Entries -> Rows \cup {None}]
    /\ \A n \in Names : \A u, v \in Named(n) : u = v
    /\ \A s \in Subjects : cert[s] # None => cert[s].user \in Rows
    /\ step \in {"query", "look", "make", "save", "add", "remove", "certs"}
    /\ \A u \in Rows : user[u].staff => user[u].active

-----------------------------------------------------------------------------
(* The command.                                                            *)

\* perform_query: of the robots only those that may read are found; a directory gives its
\* entries in any order.
Found(e) == LdapOf[e] = "robots" => Lvc \in directory[e].member

Query ==
    /\ step = "query"
    /\ \E found \in SetToSeqs({e \in Runs[command].entries : Found(e)}) :
           /\ result' = [i \in DOMAIN found |-> [entry |-> found[i], data |-> directory[found[i]]]]
           /\ step' = IF found = <<>> THEN "query" ELSE "look"
           /\ command' = IF found = <<>> THEN (command % Len(Runs)) + 1 ELSE command
    /\ UNCHANGED <<directory, db, held, login, bounds>>

this == Head(result).entry
data == Head(result).data

\* handle goes on with the next entry; after the last one the next command runs.
Advance ==
    /\ result' = Tail(result)
    /\ step' = IF Len(result) = 1 THEN "query" ELSE "look"
    /\ command' = IF Len(result) = 1 THEN (command % Len(Runs)) + 1 ELSE command
    /\ held' = NoHold

\* An exception that handle does not catch ends the command.
Die ==
    /\ result' = <<>>
    /\ step' = "query"
    /\ command' = (command % Len(Runs)) + 1
    /\ held' = NoHold

\* A KAGRA user who was named by the address is given the new name.
Renamed(e) ==
    LET old == TheNamed(NameBefore[e])
    IN  IF LdapOf[e] = "kagra" /\ old # None /\ data.name # NameBefore[e]
           /\ {f \in Entries : linked[f] = old} = {e}
        THEN old ELSE None

\* get_or_create_user: who is there already?
Look ==
    /\ step = "look"
    /\ IF Renamed(this) # None /\ Named(data.name) # {}
       THEN Die /\ UNCHANGED user
       ELSE /\ user' = IF Renamed(this) = None THEN user
                       ELSE [user EXCEPT ![Renamed(this)].name = data.name]
            /\ step' = "make"
            /\ held' = [NoHold EXCEPT !.row = IF linked[this] # None THEN linked[this]
                                              ELSE TheNamed(data.name)]
            /\ UNCHANGED <<command, result>>
    /\ UNCHANGED <<directory, linked, cert, login, bounds>>

NewRow(n, active) == [name |-> n, active |-> active, staff |-> FALSE, groups |-> {}]

\* ... and the user or what links it to the entry is made.  The error that
\* check_user_accounts may raise is caught, and then the user is updated all the same.
Make ==
    /\ step = "make"
    /\ IF held.row = None /\ Named(data.name) # {} THEN Die /\ UNCHANGED <<user, linked>>
       ELSE LET row == IF held.row = None THEN FreeRow ELSE held.row
            IN  /\ user' = IF held.row = None
                           THEN [user EXCEPT ![row] = NewRow(data.name, Lvc \in data.member)]
                           ELSE user
                /\ linked' = [linked EXCEPT ![this] = row]
                /\ held' = [row |-> row, inst |-> user'[row], created |-> held.row = None]
                /\ step' = "save"
                /\ UNCHANGED <<command, result>>
    /\ UNCHANGED <<directory, cert, login, bounds>>

\* A bug: the rights of staff are kept.
KeepStaff(inst) == inst.staff

\* Staff who are no longer active lose their rights.
StaffAfter(inst) == inst.staff /\ Lvc \in data.member

\* update_user_attributes: the user is saved, changed or not, unless it was just created.
Save ==
    /\ step = "save"
    /\ IF Named(data.name) \ {held.row} # {} THEN Die /\ UNCHANGED user
       ELSE /\ user' = IF held.created THEN user
                       ELSE [user EXCEPT ![held.row] =
                               [name |-> data.name, active |-> Lvc \in data.member,
                                staff |-> StaffAfter(held.inst), groups |-> @.groups]]
            /\ step' = "add"
            /\ UNCHANGED <<command, result, held>>
    /\ UNCHANGED <<directory, linked, cert, login, bounds>>

\* update_user_groups.
AddGroups ==
    /\ step = "add"
    /\ user' = [user EXCEPT ![held.row].groups = @ \cup data.member]
    /\ step' = "remove"
    /\ UNCHANGED <<directory, linked, cert, command, result, held, login, bounds>>

\* A bug: groups are only removed from those who are not active.
OnlyOfInactive(groups) == IF Lvc \in data.member THEN {} ELSE groups \cap Memberships

\* The groups of the directory that the entry is not a member of.
Leaves(groups) == (groups \cap Memberships) \ data.member

RemoveGroups ==
    /\ step = "remove"
    /\ user' = [user EXCEPT ![held.row].groups = @ \ Leaves(@)]
    /\ IF LdapOf[this] = "robots" \/ (LdapOf[this] = "kagra" /\ data.certs = {})
       THEN Advance
       ELSE step' = "certs" /\ UNCHANGED <<command, result, held>>
    /\ UNCHANGED <<directory, linked, cert, login, bounds>>

\* assign_genericldapuser_to_cert: done only where it is also written down.
Assigned ==
    LET mine == IF LdapOf[this] = "kagra" THEN data.certs
                ELSE {s \in Subjects : cert[s] # None /\ cert[s].user = held.row /\ cert[s].entry = None}
    IN  [s \in Subjects |-> IF Verbose /\ s \in mine /\ cert[s] # None
                            THEN [cert[s] EXCEPT !.entry = this] ELSE cert[s]]

\* update_user_certificates.
Certificates ==
    /\ step = "certs"
    /\ LET known(s) == IF LdapOf[this] = "kagra" THEN cert[s] # None /\ cert[s].user = held.row
                       ELSE Assigned[s] # None /\ Assigned[s].entry = this
       IN  cert' = [s \in Subjects |->
             CASE s \in data.certs /\ ~ known(s)  -> [user |-> held.row, entry |-> this]
               [] s \notin data.certs /\ known(s)
                    /\ Assigned[s].entry = this   -> None
               [] OTHER                           -> Assigned[s]]
    /\ Advance
    /\ UNCHANGED <<directory, user, linked, login, bounds>>

Sync == Query \/ Look \/ Make \/ Save \/ AddGroups \/ RemoveGroups \/ Certificates

\* The directory does not answer, or the command is stopped.
Abort ==
    /\ step # "query" /\ faults < MaxFaults
    /\ faults' = faults + 1
    /\ Die
    /\ UNCHANGED <<directory, db, login, changes, logins>>

-----------------------------------------------------------------------------
(* A login through the web.                                                *)

\* ShibbolethRemoteUserBackend.authenticate: get_or_create.
LogIn(e) ==
    /\ login.phase = "out" /\ logins < MaxLogins
    /\ LdapOf[e] # "robots"
    /\ logins' = logins + 1
    /\ LET name == directory[e].name
           row == IF Named(name) = {} THEN FreeRow ELSE TheNamed(name)
       IN  /\ user' = IF Named(name) = {} THEN [user EXCEPT ![row] = NewRow(name, TRUE)] ELSE user
           /\ login' = [phase |-> "update", row |-> row, inst |-> user'[row], name |-> name,
                        member |-> directory[e].member]
    /\ UNCHANGED <<directory, linked, cert, sync, changes, faults>>

\* update_user: if an attribute is not that of the session, the whole row is saved.
UpdateFromSession ==
    /\ login.phase = "update"
    /\ \/ UNCHANGED user
       \/ /\ Named(login.inst.name) \ {login.row} = {}
          /\ user' = [user EXCEPT ![login.row] = [login.inst EXCEPT !.groups = user[login.row].groups]]
    /\ login' = IF login.inst.active /\ login.member # {} THEN [login EXCEPT !.phase = "add"]
                ELSE NoLogin
    /\ UNCHANGED <<directory, linked, cert, sync, bounds>>

\* ShibbolethWebAuthMiddleware.update_user_groups.
AddFromSession ==
    /\ login.phase = "add"
    /\ user' = [user EXCEPT ![login.row].groups = @ \cup login.member]
    /\ login' = [login EXCEPT !.phase = "remove"]
    /\ UNCHANGED <<directory, linked, cert, sync, bounds>>

RemoveFromSession ==
    /\ login.phase = "remove"
    /\ user' = [user EXCEPT ![login.row].groups = @ \ (WithLdapName \ login.member)]
    /\ login' = NoLogin
    /\ UNCHANGED <<directory, linked, cert, sync, bounds>>

FinishLogin == UpdateFromSession \/ AddFromSession \/ RemoveFromSession

-----------------------------------------------------------------------------
(* What others do.                                                         *)

\* An entry changes in the directory: a membership, the name, or a certificate.
ChangeEntry(e) ==
    /\ changes < MaxChanges
    /\ changes' = changes + 1
    /\ \/ \E m \in Memberships : LET mine == directory[e].member
              IN  directory' = [directory EXCEPT ![e].member =
                                  IF m \in mine THEN mine \ {m} ELSE mine \cup {m}]
       \/ /\ directory[e].name # NameAfter[e]
          /\ directory' = [directory EXCEPT ![e].name = NameAfter[e]]
       \/ \E s \in Subjects :
              /\ LdapOf[e] # "robots" /\ \A f \in Entries \ {e} : s \notin directory[f].certs
              /\ directory' = [directory EXCEPT ![e].certs = IF s \in @ THEN @ \ {s} ELSE @ \cup {s}]
    /\ UNCHANGED <<db, sync, login, logins, faults>>

\* An administrator appoints staff and executives.
Appoint(u) ==
    /\ changes < MaxChanges
    /\ user[u] # None /\ user[u].active /\ ~ user[u].staff
    /\ changes' = changes + 1
    /\ user' = [user EXCEPT ![u].staff = TRUE, ![u].groups = @ \cup {Manual}]
    /\ UNCHANGED <<directory, linked, cert, sync, login, logins, faults>>

\* Some accounts are there and in step with the directory.
Init ==
    /\ directory = [e \in Entries |-> [name |-> NameBefore[e], member |-> {Lvc}, certs |-> {}]]
    /\ linked = AccountOf
    /\ user = [u \in Users |->
         LET mine == {e \in Entries : linked[e] = u}
         IN  IF mine = {} THEN None
             ELSE [NewRow(NameBefore[CHOOSE e \in mine : TRUE], TRUE) EXCEPT !.groups = {Lvc}]]
    /\ cert = [s \in Subjects |-> None]
    /\ command = 1 /\ result = <<>> /\ step = "query" /\ held = NoHold
    /\ login = NoLogin
    /\ changes = 0 /\ logins = 0 /\ faults = 0

Next == \/ Sync \/ Abort \/ FinishLogin
        \/ \E e \in Entries : LogIn(e) \/ ChangeEntry(e)
        \/ \E u \in Users : Appoint(u)

\* The cleanup job runs again and again; a login that has begun goes on.
Spec == /\ Init /\ [][Next]_vars
        /\ WF_vars(Sync)
        /\ WF_vars(FinishLogin)

-----------------------------------------------------------------------------
(* Who is let in.                                                          *)

\* GraceDbSciTokenAuthentication: a token for the name.
ByToken(n) == {u \in Named(n) : user[u].active}

\* GraceDbX509Authentication.
ByCertificate(s) == {u \in Rows : cert[s] # None /\ cert[s].user = u /\ user[u].active}

\* What an entry should come to: an active user with the groups of the entry, let in by
\* the name and the certificates of the entry; or nobody.
InStep(e) ==
    LET me == IF Lvc \in directory[e].member THEN {linked[e]} ELSE {}
    IN  /\ linked[e] # None
        /\ ByToken(directory[e].name) = me
        /\ \A s \in directory[e].certs : ByCertificate(s) = me
        /\ user[linked[e]].groups \cap Memberships = directory[e].member

\* Two users claim the name of an entry: the one linked to it and one that a login made.
Clashes(e) == /\ linked[e] # None
              /\ Named(directory[e].name) \ {linked[e]} # {}

\* When nothing changes any more, the accounts come to follow the directory, whatever
\* logins ran in between with older memberships, and wherever the command was cut off;
\* only a name that two users claim stops it, for other entries of the directory as well.
AccountsFollowDirectory ==
    \A e \in Entries :
        <>[](\/ InStep(e) \/ ~ Found(e)
             \/ \E f \in CommandOf(e).entries : Clashes(f))

\* "Get or create user - if an error occurs, continue."
NobodyStopsTheOthers ==
    \A e \in Entries : <>[](InStep(e) \/ ~ Found(e) \/ Clashes(e))
=============================================================================
