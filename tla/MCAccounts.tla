------------------------------ MODULE MCAccounts ------------------------------
(***************************************************************************)
(* Entries of three directories: one of KAGRA and one of LIGO whose names  *)
(* may change, and a robot.  The first two have an account.                *)
(***************************************************************************)
EXTENDS Accounts

OneOfEach == << [ldap |-> "kagra", entries |-> {"k"}],
                [ldap |-> "ligo", entries |-> {"p"}],
                [ldap |-> "robots", entries |-> {"r"}] >>

\* Two entries of one directory, for the command that goes through them.
TwoPeople == << [ldap |-> "ligo", entries |-> {"p", "q"}] >>

OwnName == [e \in Entries |-> e]
NewName == [e \in Entries |-> IF e = "r" THEN e ELSE e \o "2"]
AccountOfThree == [k |-> 1, p |-> 2, r |-> None]
AccountOfTwo == [p |-> 1, q |-> 2]
=============================================================================
