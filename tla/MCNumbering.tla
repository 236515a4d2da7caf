---------------------------- MODULE MCNumbering ----------------------------
(***************************************************************************)
(* The two places where processes race for the greatest number there is    *)
(* plus one and try again when it is taken: the rows of a group and the    *)
(* versions of a file.  They share nothing; a behaviour is one of one of   *)
(* them, `part' says of which, and the other stays as it begins.           *)
(***************************************************************************)
EXTENDS AutoIncrement, VersionedFile

VARIABLE part

numberingVars == <<part, vars, fileVars>>

\* While there are only uploads it makes no difference which groups the saves would be of.
NumberingInit ==
    /\ Init /\ FileInit
    /\ \/ part = "rows"
       \/ part = "files" /\ group = [s \in Saves |-> CHOOSE g \in Groups : TRUE]

NumberingNext ==
    \/ part = "rows" /\ Next /\ UNCHANGED <<part, fileVars>>
    \/ part = "files" /\ FileNext /\ UNCHANGED <<part, vars>>

\* Every process goes on with its own save.
NumberingSpec ==
    /\ NumberingInit /\ [][NumberingNext]_numberingVars
    /\ \A s \in Saves : WF_numberingVars(part = "rows" /\ Step(s) /\ UNCHANGED <<part, fileVars>>)

-----------------------------------------------------------------------------
\* However often saves run into each other and into a removal, every one of them ends: with its
\* row, or with the error the retry limit or the emptied group gives it.
EverySaveEnds == part = "rows" => EveryCallEnds
=============================================================================
