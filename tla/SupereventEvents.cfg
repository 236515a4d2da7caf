\* Requests of every kind, overlapping, and crashes.
CONSTANTS
    e1 = e1
    e2 = e2
    e3 = e3
    None = None
    Superevents = {s1, s2}
    Events = {e1, e2, e3}
    Workers = {w1, w2}
    Kinds = {"create", "update", "add", "remove", "addPP", "removePP"}
    Pipeline <- TwoPipelines
    External = {e3}
    Mismatched = {}
    MayCrash = TRUE
SPECIFICATION Spec
INVARIANTS MembersAgree
PROPERTIES EventsAreNotTaken PatchRepairs
SYMMETRY Symmetry
