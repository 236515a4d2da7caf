\* Concurrent creations, a confirmation of each superevent and a PATCH of one.
CONSTANTS
    c1 = c1
    c2 = c2
    f1 = f1
    f2 = f2
    p1 = p1
    NoId = NoId
    EmptyId = EmptyId
    Creators = {c1, c2, c3}
    Confirmers = {f1, f2}
    Patchers = {p1}
    Target <- TargetMixed
    GivenIds <- GivenGw
    MaxTries = 1
    MayCrash = TRUE
SPECIFICATION FairSpec
INVARIANTS IdsFindOne GwNumbersContiguous
PROPERTIES DateStaysOpen CreationsImplementSequence
CHECK_DEADLOCK FALSE
