\* A superevent confirmed by two requests at once.
CONSTANTS
    c1 = c1
    c2 = c2
    f1 = f1
    f2 = f2
    p1 = p1
    NoId = NoId
    EmptyId = EmptyId
    Creators = {c1}
    Confirmers = {f1, f2}
    Patchers = {}
    Target <- TargetSame
    GivenIds <- GivenGw
    MaxTries = 1
    MayCrash = FALSE
SPECIFICATION Spec
INVARIANTS IdsStayAccessible
CHECK_DEADLOCK FALSE
