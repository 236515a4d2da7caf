------------------------------ MODULE Services ------------------------------
(***************************************************************************)
(* Components beside events and superevents that do not run into each      *)
(* other: a contact for notifications, the throttle of the API, the groups *)
(* of the control rooms, the submission of an event, VOEvents, and the     *)
(* migrations that run while the server is down.  A behaviour is one of    *)
(* one of them; `part' says of which, and the variables of the others      *)
(* keep the value Unused.                                                  *)
(***************************************************************************)
EXTENDS Migrations, TLC

CONSTANTS
    Pages, Notifications, MaxCodes, MaxPosts, NoCode, Gone,         \* of Contacts
    Workers, Limit, Duration, MaxTime, MaxAsked,                    \* of Throttle
    Requests, Rooms, MaxVisits, MaxCuts, Elsewhere,                 \* of ControlRoom
    MaxVOEvents, MaxUntags, MaxFailures, None,                      \* of VOEvents
    Internal, Observers, Submitted, Coinc, LogFile, LabelNames, MaxUploads, MaxHandled, MaxFailed,
    Unused

VARIABLES
    part,
    made, phase, calm,                                                    \* of several
    row, step, valid, inbox, names, inst, notif, requests, earned,        \* contact
    clock, cached, expires, own, now, accepted, refusals,                 \* throttle
    groups, at, found, faults, cut,                                       \* control rooms
    count, filled, texts, logged, tagged, tag, jobs, announced, failures, \* VOEvents
    untags, past, excused,
    event, subclass, sub, base, dir, files, logs, labels, todo, held, under,   \* submission
    handled, uploads, failed, alerted, crashed, quiet, refused, want

Contact == INSTANCE Contacts WITH MaxRequests <- MaxPosts
Throttling == INSTANCE Throttle WITH MaxRequests <- MaxAsked
Room == INSTANCE ControlRoom WITH MaxRequests <- MaxVisits, MaxFaults <- MaxCuts
Alerting == INSTANCE VOEvents WITH MaxFaults <- MaxFailures, faults <- failures
Submission == INSTANCE EventSubmission WITH
    MaxRequests <- MaxHandled, MaxFaults <- MaxFailed,
    row <- event, inst <- held, requests <- handled, faults <- failed, announced <- alerted,
    calm <- quiet

ofContact == <<row, step, valid, inbox, names, inst, notif, requests, earned>>
ofThrottle == <<clock, cached, expires, own, now, accepted, refusals>>
ofRoom == <<groups, at, found, faults, cut>>
ofVOEvents == <<count, filled, texts, logged, tagged, tag, jobs, announced, failures, untags,
                past, excused>>
ofSubmission == <<event, subclass, sub, base, dir, files, logs, labels, todo, held, under,
                  handled, uploads, failed, alerted, crashed, quiet, refused, want>>
ofDeploy == vars

allVars == <<part, made, phase, calm, ofContact, ofThrottle, ofRoom, ofVOEvents,
             ofSubmission, ofDeploy>>

NotContact == /\ row = Unused /\ step = Unused /\ valid = Unused /\ inbox = Unused /\ names = Unused
              /\ inst = Unused /\ notif = Unused /\ requests = Unused /\ earned = Unused
NotThrottle == /\ clock = Unused /\ cached = Unused /\ expires = Unused /\ own = Unused
               /\ now = Unused /\ accepted = Unused /\ refusals = Unused
NotRoom == /\ groups = Unused /\ at = Unused /\ found = Unused /\ faults = Unused
           /\ cut = Unused
NotVOEvents == /\ count = Unused /\ filled = Unused /\ texts = Unused /\ logged = Unused
               /\ tagged = Unused /\ tag = Unused /\ jobs = Unused /\ announced = Unused
               /\ failures = Unused /\ untags = Unused /\ past = Unused /\ excused = Unused
NotSubmission == /\ event = Unused /\ subclass = Unused /\ sub = Unused /\ base = Unused
                 /\ dir = Unused /\ files = Unused /\ logs = Unused /\ labels = Unused
                 /\ todo = Unused /\ held = Unused /\ under = Unused /\ handled = Unused
                 /\ uploads = Unused /\ failed = Unused /\ alerted = Unused
                 /\ crashed = Unused /\ quiet = Unused /\ refused = Unused /\ want = Unused
NotDeploy == /\ applied = Unused /\ tables = Unused /\ top = Unused /\ straight = Unused
             /\ changes = Unused /\ rollbacks = Unused

ServicesInit ==
    \/ /\ part = "contact" /\ Contact!Init
       /\ phase = Unused /\ NotThrottle /\ NotRoom /\ NotVOEvents /\ NotSubmission /\ NotDeploy
    \/ /\ part = "throttle" /\ Throttling!Init
       /\ made = Unused /\ NotContact /\ NotRoom /\ NotVOEvents /\ NotSubmission /\ NotDeploy
    \/ /\ part = "room" /\ Room!Init
       /\ NotContact /\ NotThrottle /\ NotVOEvents /\ NotSubmission /\ NotDeploy
    \/ /\ part = "voevents" /\ Alerting!Init
       /\ made = Unused /\ phase = Unused /\ calm = Unused
       /\ NotContact /\ NotThrottle /\ NotRoom /\ NotSubmission /\ NotDeploy
    \/ /\ part = "submission" /\ Submission!Init
       /\ made = Unused /\ phase = Unused /\ calm = Unused
       /\ NotContact /\ NotThrottle /\ NotRoom /\ NotVOEvents /\ NotDeploy
    \/ /\ part = "deploy" /\ Init
       /\ made = Unused /\ phase = Unused /\ calm = Unused
       /\ NotContact /\ NotThrottle /\ NotRoom /\ NotVOEvents /\ NotSubmission

ServicesNext ==
    \/ /\ part = "contact" /\ Contact!Next
       /\ UNCHANGED <<part, phase, ofThrottle, ofRoom, ofVOEvents, ofSubmission, ofDeploy>>
    \/ /\ part = "throttle" /\ Throttling!Next
       /\ UNCHANGED <<part, made, ofContact, ofRoom, ofVOEvents, ofSubmission, ofDeploy>>
    \/ /\ part = "room" /\ Room!Next
       /\ UNCHANGED <<part, ofContact, ofThrottle, ofVOEvents, ofSubmission, ofDeploy>>
    \/ /\ part = "voevents" /\ Alerting!Next
       /\ UNCHANGED <<part, made, phase, calm, ofContact, ofThrottle, ofRoom, ofSubmission,
                      ofDeploy>>
    \/ /\ part = "submission" /\ Submission!Next
       /\ UNCHANGED <<part, made, phase, calm, ofContact, ofThrottle, ofRoom, ofVOEvents, ofDeploy>>
    \/ /\ part = "deploy" /\ Next
       /\ UNCHANGED <<part, made, phase, calm, ofContact, ofThrottle, ofRoom, ofVOEvents,
                      ofSubmission>>

ServicesSpec == ServicesInit /\ [][ServicesNext]_allVars

Up(n, c) == [name |-> n, content |-> c, far |-> 1]

SomeUploads == {Up("data.xml", "good"), Up("coinc.xml", "good"),
                Up("data.xml", "no table"), Up("data.xml", "unreadable")}

\* The properties of a submission say nothing any more once requests have overlapped.
Undisturbed == part = "submission" => quiet

\* Workers, pages and requests are told apart by nothing but what they do.
Symmetry == Permutations(Workers) \cup Permutations(Pages) \cup Permutations(Requests)

-----------------------------------------------------------------------------
\* A contact that alerts are sent to is one whose owner has entered the code that was sent
\* to it, however the requests of its pages overlap; and every column has its type.
VerifiedIsEarned == part = "contact" => Contact!TypeOK /\ Contact!VerifiedIsEarned

\* No more requests of a user go through in a span of time than the limit, one after the
\* other, and none is refused before.
RateIsKept == part = "throttle" => Throttling!TypeOK /\ Throttling!RateIsKept

\* A user is in the group of the control room a request comes from, and in none afterwards.
InRoomWhileAsking == part = "room" => Room!TypeOK /\ Room!InRoomWhileAsking

\* What a submission that fails leaves, what lists show, and what saves keep.
RefusedLeavesNothing == part = "submission" => Submission!RefusedLeavesNothing
ListsShowWhatOpens == part = "submission" => Submission!ListsShowWhatOpens
NothingIsOverwritten == part = "submission" => Submission!NothingIsOverwritten

\* A VOEvent cites each one that had gone out when its request began by its identifier, and
\* one that goes out has its file and its log message.
AlertsCiteTheirPast == part = "voevents" => Alerting!AlertsCiteTheirPast

\* A VOEvent whose request has ended has gone out, unless a step failed or its tag was not to be had.
VOEventsGoOut == part = "voevents" => Alerting!VOEventsGoOut

\* After any rollbacks the memberships and permissions are those that the applied migrations
\* gave, but for those of the named migrations; every row finds the rows it links.
AccessIsOfApplied == part = "deploy" => TypeOK /\ RollbacksUndo

\* A fresh database can be built by all migrations, and after rollbacks each can be applied
\* again, but for the one that cannot.
AllMigrationsRun == part = "deploy" => MigrationsRun

\* What migrations that are rolled back and applied again leave out of the database they made
\* before, and what they add to it, is what the named exceptions say.
RedoneIsTheSame == part = "deploy" => NothingIsLost /\ NobodyGains

\* What a comment says of a submission that is undone: "We need to make sure we clean up
\* EVERYTHING. We don't. Wiki page and data directories remain."
DirectoriesRemain == [][part = "submission" => (refused' /\ dir => dir')]_allVars

\* "Contacts can only be deleted if they aren't part of a notification."
NotificationsKeepContacts == [][part = "contact" => (names # {} => row' # Gone)]_allVars
=============================================================================
