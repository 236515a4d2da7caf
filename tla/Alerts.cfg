\* A superevent with requests that overlap or not, a queue without order, and a fault.
CONSTANTS
    None = None
    e1 = e1
    e2 = e2
    e3 = e3
    Events = {e1, e2, e3}
    FarOf <- FarOfEvents
    NsCandidates = {e2}
    Offline = {e3}
    Labels = {"A", "B"}
    LabelsAtCreation = {None, "A"}
    Table <- Notifications6
    Phones <- Phone
    Web = {w1, w2}
    MaxRequests = 3
    MaxFaults = 1
SPECIFICATION FairSpec
INVARIANTS ReportedOnce NobodyIsMissed
PROPERTIES MatchesAreReported
CHECK_DEADLOCK FALSE
