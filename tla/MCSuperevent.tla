---------------------------- MODULE MCSuperevent ----------------------------
(***************************************************************************)
(* Three components of a superevent that write no row of each other's: who *)
(* may see it, who may see its log messages, and its signoffs.  A behaviour*)
(* is one of one of them; `part' says of which, and the variables of the   *)
(* others keep the value Unused.                                           *)
(***************************************************************************)
EXTENDS Naturals, Sequences

CONSTANTS
    Modifiers, Updaters, MaxStrays,    \* of SupereventExposure
    Logs, Tags,                        \* of LogTags
    Users, None,                       \* of Signoff
    Workers, MayCrash,                 \* of LogTags and Signoff
    Unused

VARIABLES
    part,
    pc, inst, alone, calm,                                   \* exposure and signoffs
    is_exposed, granted, want, next, stray, strays,          \* exposure
    tags, perms, created, log, todo, removed, disturbed,     \* log tags
    signoff, labelling, op                                   \* signoffs

Exposure == INSTANCE SupereventExposure
Tagging == INSTANCE LogTags
Signing == INSTANCE Signoff

ofBoth == <<pc, inst, alone, calm>>
ofExposure == <<is_exposed, granted, want, next, stray, strays>>
ofTagging == <<tags, perms, created, log, todo, removed, disturbed>>
ofSigning == <<signoff, labelling, op>>

vars == <<part, ofBoth, ofExposure, ofTagging, ofSigning>>

NotBoth == pc = Unused /\ inst = Unused /\ alone = Unused /\ calm = Unused
NotExposure == /\ is_exposed = Unused /\ granted = Unused /\ want = Unused
               /\ next = Unused /\ stray = Unused /\ strays = Unused
NotTagging == /\ tags = Unused /\ perms = Unused /\ created = Unused /\ log = Unused
              /\ todo = Unused /\ removed = Unused /\ disturbed = Unused
NotSigning == signoff = Unused /\ labelling = Unused /\ op = Unused

Init == \/ part = "exposure" /\ Exposure!Init /\ NotTagging /\ NotSigning
        \/ part = "tagging" /\ Tagging!Init /\ NotBoth /\ NotExposure /\ NotSigning
        \/ part = "signing" /\ Signing!Init /\ NotExposure /\ NotTagging

Next == \/ part = "exposure" /\ Exposure!Next /\ UNCHANGED <<part, ofTagging, ofSigning>>
        \/ part = "tagging" /\ Tagging!Next /\ UNCHANGED <<part, ofBoth, ofExposure, ofSigning>>
        \/ part = "signing" /\ Signing!Next /\ UNCHANGED <<part, ofExposure, ofTagging>>

\* The fairness of SupereventExposure and LogTags.
Spec ==
    /\ Init /\ [][Next]_vars
    /\ \A r \in Modifiers : WF_vars(/\ part = "exposure" /\ Exposure!Modify(r)
                                    /\ UNCHANGED <<part, ofTagging, ofSigning>>)
    /\ \A r \in Updaters : WF_vars(/\ part = "exposure" /\ Exposure!Update(r)
                                   /\ UNCHANGED <<part, ofTagging, ofSigning>>)
    /\ \A w \in Workers : WF_vars(/\ part = "tagging" /\ Tagging!RunStatement(w)
                                  /\ UNCHANGED <<part, ofBoth, ofExposure, ofSigning>>)

-----------------------------------------------------------------------------
\* The column that flags the superevent as exposed agrees with the permissions unless
\* requests that disturb each other overlapped, and a request that then runs alone
\* makes them agree again.
FlagIsTrue == part = "exposure" => Exposure!FlagIsTrue

\* The flag is written after the last permission.
FlagComesLast == part = "exposure" => Exposure!FlagComesLast

\* Requests to expose or hide that agree get what they ask for.
EveryoneAgrees ==
    \A w \in {"expose", "hide"} :
        (part = "exposure" /\ Exposure!AllWant(w)) =>
            <>[](part = "exposure" /\ (is_exposed = (w = "expose") \/ ~ calm))

\* A log is shown to whom its tags say when no request is at work on it, and to nobody
\* else at any time before a tag is removed.
TagsTellWhoSees ==
    part = "tagging" =>
        Tagging!TypeOK /\ Tagging!TagsTrackPermissions /\ Tagging!ShownLogsAreTagged

\* A log tagged for the public comes to be seen by the LV-EM observers.
PublicTagReachesLvem ==
    \A l \in Logs :
        (part = "tagging" /\ Tagging!PublicTag \in tags[l]) ~>
            (part = "tagging" /\ (Tagging!LvemTag \in perms[l] \/ l \in removed \cup disturbed))

\* The labels are those of the signoff between requests of one kind.
LabelsMatchSignoff == part = "signing" => Signing!TypeOK /\ Signing!LabelsMatchSignoff

\* A change of a signoff that runs alone puts the labels right.
PutRepairs ==
    [][ part = "signing" => \A w \in Workers, s \in Signing!Statuses :
          alone = {w} /\ op[w].kind = "put" /\ op[w].status = s
                      /\ (Signing!Add(w) \/ (Signing!Look(w) /\ pc'[w] = "idle")) =>
              signoff' = s /\ Signing!Applied' \cap Signing!Statuses = {s} ]_vars
=============================================================================
