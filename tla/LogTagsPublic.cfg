\* The lvem tag is removed from a public log.
CONSTANTS
    Logs = {l1}
    Tags = {"lvem", "public", "other"}
    Workers = {w1}
    MayCrash = FALSE
SPECIFICATION Spec
INVARIANTS PublicReachesLvem
