\* One event, one worker, and a step that fails; as little as can be of the other components.
CONSTANTS
    Pages = {p1}
    Notifications = {n1}
    MaxCodes = 1
    MaxPosts = 2
    NoCode = NoCode
    Gone = Gone
    Workers = {w1}
    Limit = 2
    Duration = 2
    MaxTime = 2
    MaxAsked = 2
    Requests = {r1}
    Rooms = {h1, l1}
    MaxVisits = 1
    MaxCuts = 0
    Elsewhere = Elsewhere
    MaxVOEvents = 1
    MaxUntags = 0
    MaxFailures = 0
    None = None
    Internal = {lvc}
    Observers = {lvem}
    Submitted <- SomeUploads
    Coinc = "coinc.xml"
    LogFile = "event.log"
    LabelNames = {"A"}
    MaxUploads = 1
    MaxHandled = 1
    MaxFailed = 1
    MaxRollbacks = 0
    Unused = Unused
SPECIFICATION ServicesSpec
PROPERTY DirectoriesRemain
CHECK_DEADLOCK FALSE
