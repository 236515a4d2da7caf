------------------------------- MODULE LogTags -------------------------------
(***************************************************************************)
(* The tags of the log messages of a superevent, and the permissions that  *)
(* the two access tags stand for: a log is shown to the LV-EM observers    *)
(* when it has the `lvem' tag, and to the public when it has the `public'  *)
(* tag.                                                                    *)
(*                                                                         *)
(* Creating a log and adding or removing a tag is a sequence of database   *)
(* statements, each one committed on its own.  A worker keeps the ones its *)
(* request has still to run; what some of them do depends on the rows they *)
(* find, and makes the sequence longer.  The log that records a change of  *)
(* the tags has none of its own and is left out.                           *)
(***************************************************************************)
EXTENDS Naturals, Sequences

CONSTANTS
    Logs,
    Tags,          \* the tags that are used
    Workers,       \* what runs the requests
    MayCrash       \* may a web process die between two statements?

LvemTag == "lvem"
PublicTag == "public"
AccessTags == {LvemTag, PublicTag}   \* each stands for the group of its name

VARIABLES
    tags,      \* the tags of each log
    perms,     \* the groups that have the view permission on each log
    created,   \* the logs there are
    log,       \* the log each worker's request is about
    todo,      \* the statements the request has still to run
    removed,   \* history: the logs a tag was removed from
    disturbed  \* history: the logs a request was about that died, or that overlapped
               \* with the removal of a tag of the same log

vars == <<tags, perms, created, log, todo, removed, disturbed>>

Statements ==
    [do : {"tag", "untag"}, tag : Tags] \cup
    [do : {"expose", "hide", "followLvem", "followPublic"}, tag : AccessTags]

Idle(w) == todo[w] = <<>>
Busy(l) == {w \in Workers : ~ Idle(w) /\ log[w] = l}
Removing(w) == \E i \in DOMAIN todo[w] : todo[w][i].do \in {"untag", "hide", "followLvem"}

\* A request at work is about a log that has been created.
TypeOK ==
    /\ tags \in [Logs -> SUBSET Tags]
    /\ perms \in [Logs -> SUBSET AccessTags]
    /\ created \subseteq Logs
    /\ log \in [Workers -> Logs]
    /\ todo \in [Workers -> Seq(Statements)]
    /\ \A w \in Workers : ~ Idle(w) => log[w] \in created
    /\ removed \subseteq Logs
    /\ disturbed \subseteq Logs

-----------------------------------------------------------------------------
(* The statements of each function.                                        *)

Do(what, t) == <<[do |-> what, tag |-> t]>>

\* A bug: the public tag does not bring the LV-EM tag.
AddTagOnly(t) == Do("tag", t) \o IF t \in AccessTags THEN Do("expose", t) ELSE <<>>

\* A bug: the log is shown before it is tagged.
ExposeFirst(t) == (IF t \in AccessTags THEN Do("expose", t) ELSE <<>>) \o Do("tag", t)

\* add_tag_to_log.
AddTag(t) ==
    Do("tag", t) \o (IF t \in AccessTags THEN Do("expose", t) ELSE <<>>)
                 \o (IF t = PublicTag THEN Do("followPublic", t) ELSE <<>>)

\* A bug: taking a tag away does not take the permission away.
UntagOnly(t) == Do("untag", t)

\* remove_tag_from_log.
RemoveTag(t) ==
    Do("untag", t) \o (IF t \in AccessTags THEN Do("hide", t) ELSE <<>>)
                   \o (IF t = LvemTag THEN Do("followLvem", t) ELSE <<>>)

\* What create_log does about the tags the request gives, two at most.
TagsOfNew ==
    {<<>>} \cup {AddTag(t) : t \in Tags} \cup {AddTag(t) \o AddTag(u) : t, u \in Tags}

\* What a statement that looks at the tags first finds there is to do.
Follow(s, l) ==
    CASE s.do = "followPublic" /\ LvemTag \notin tags[l]   -> AddTag(LvemTag)
      [] s.do = "followLvem" /\ PublicTag \notin tags[l]   -> RemoveTag(PublicTag)
      [] OTHER                                             -> <<>>

-----------------------------------------------------------------------------
Request(w, l, statements) ==
    /\ Idle(w)
    /\ log' = [log EXCEPT ![w] = l]
    /\ todo' = [todo EXCEPT ![w] = statements]
    /\ UNCHANGED <<tags, perms>>

\* A log that an external user makes gets the `lvem' tag.
Create(w) ==
    \E l \in Logs \ created, given \in TagsOfNew, external \in BOOLEAN :
        /\ Request(w, l, given \o IF external THEN AddTag(LvemTag) ELSE <<>>)
        /\ created' = created \cup {l}
        /\ UNCHANGED <<removed, disturbed>>

\* A bug: the log of a POST is not looked up.
PostToAny(w) ==
    /\ \E l \in Logs : \E t \in Tags \ tags[l] : Request(w, l, AddTag(t))
    /\ UNCHANGED <<created, removed, disturbed>>

\* The serializer refuses a tag the log has.
PostTag(w) ==
    /\ \E l \in created :
         /\ \E t \in Tags \ tags[l] : Request(w, l, AddTag(t))
         /\ disturbed' = disturbed \cup {k \in {l} : \E v \in Busy(k) : Removing(v)}
    /\ UNCHANGED <<created, removed>>

\* A tag the log does not have is not found.
DeleteTag(w) ==
    /\ \E l \in created :
         /\ \E t \in tags[l] : Request(w, l, RemoveTag(t))
         /\ removed' = removed \cup {l}
         /\ disturbed' = disturbed \cup {k \in {l} : Busy(k) # {}}
    /\ UNCHANGED created

RunStatement(w) ==
    /\ ~ Idle(w)
    /\ LET s == Head(todo[w])
           l == log[w]
       IN  /\ tags' = [tags EXCEPT ![l] = CASE s.do = "tag"   -> @ \cup {s.tag}
                                            [] s.do = "untag" -> @ \ {s.tag}
                                            [] OTHER          -> @]
           /\ perms' = [perms EXCEPT ![l] = CASE s.do = "expose" -> @ \cup {s.tag}
                                              [] s.do = "hide"   -> @ \ {s.tag}
                                              [] OTHER           -> @]
           /\ todo' = [todo EXCEPT ![w] = Follow(s, l) \o Tail(@)]
    /\ UNCHANGED <<created, log, removed, disturbed>>

\* The web process dies.
Crash(w) ==
    /\ MayCrash
    /\ ~ Idle(w)
    /\ todo' = [todo EXCEPT ![w] = <<>>]
    /\ disturbed' = disturbed \cup {log[w]}
    /\ UNCHANGED <<tags, perms, created, log, removed>>

Init ==
    /\ tags = [l \in Logs |-> {}]
    /\ perms = [l \in Logs |-> {}]
    /\ created = {}
    /\ log \in [Workers -> Logs]
    /\ \A v, w \in Workers : log[v] = log[w]
    /\ todo = [w \in Workers |-> <<>>]
    /\ removed = {}
    /\ disturbed = {}

Next == \E w \in Workers :
            Create(w) \/ PostTag(w) \/ DeleteTag(w) \/ RunStatement(w) \/ Crash(w)

Spec == Init /\ [][Next]_vars

\* A request that has begun goes on; nobody has to make one.
FairSpec == Spec /\ \A w \in Workers : WF_vars(RunStatement(w))

-----------------------------------------------------------------------------
(* Properties.                                                             *)

\* When no request is at work on a log, it is shown to exactly the groups its tags
\* say.  Requests that add tags may overlap; no request may overlap with one that
\* removes a tag of the same log, and none may die.
TagsTrackPermissions ==
    \A l \in Logs \ disturbed : Busy(l) = {} => perms[l] = tags[l] \cap AccessTags

\* As long as no tag is removed from it, a log is at no time, between two statements
\* or after a crash, shown to a group that its tags do not tell of.
ShownLogsAreTagged == \A l \in Logs \ removed : perms[l] \subseteq tags[l]

\* When no request is at work on a log, what the public sees of it the LV-EM
\* observers see too.
PublicReachesLvem ==
    \A l \in Logs \ disturbed :
        Busy(l) = {} /\ PublicTag \in perms[l] => LvemTag \in perms[l]

\* What is tagged for the public comes to be seen by the LV-EM observers, whichever of
\* two overlapping requests adds the `lvem' tag, unless a process dies or a tag is
\* removed.
PublicTagReachesLvem ==
    \A l \in Logs : PublicTag \in tags[l] ~>
        (LvemTag \in perms[l] \/ l \in removed \cup disturbed)
=============================================================================
