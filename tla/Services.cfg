\* Contacts: two pages, two codes.  Throttle: two workers, a limit of two requests in two
\* ticks.  Control rooms: two requests, two rooms, one request cut off.
\* VOEvents: three of an event and a superevent, two removals of the tag, one failure.
\* Submission: one event, two workers, and a step that fails or a worker that dies.
\* Migrations: three rollbacks.
CONSTANTS
    Pages = {p1, p2}
    Notifications = {n1, n2}
    MaxCodes = 2
    MaxPosts = 5
    NoCode = NoCode
    Gone = Gone
    Workers = {w1, w2}
    Limit = 2
    Duration = 2
    MaxTime = 5
    MaxAsked = 4
    Requests = {r1, r2}
    Rooms = {h1, l1}
    MaxVisits = 3
    MaxCuts = 1
    Elsewhere = Elsewhere
    MaxVOEvents = 3
    MaxUntags = 2
    MaxFailures = 1
    None = None
    Internal = {lvc}
    Observers = {lvem}
    Submitted <- SomeUploads
    Coinc = "coinc.xml"
    LogFile = "event.log"
    LabelNames = {"A"}
    MaxUploads = 2
    MaxHandled = 3
    MaxFailed = 1
    MaxRollbacks = 3
    Unused = Unused
SYMMETRY Symmetry
CONSTRAINT Undisturbed
SPECIFICATION ServicesSpec
INVARIANTS VerifiedIsEarned RateIsKept InRoomWhileAsking RefusedLeavesNothing ListsShowWhatOpens NothingIsOverwritten AlertsCiteTheirPast VOEventsGoOut AccessIsOfApplied AllMigrationsRun RedoneIsTheSame
CHECK_DEADLOCK FALSE
