\* Exposure: three modify requests of whatever mix, two PATCHes and a refused save.
\* Log tags: two workers on one log, with crashes.  Signoffs: two users, two workers,
\* with crashes.
CONSTANTS
    Modifiers = {m1, m2, m3}
    Updaters = {u1, u2}
    MaxStrays = 1
    Logs = {l1}
    Tags = {"lvem", "public", "other"}
    Users = {usr1, usr2}
    None = None
    Workers = {w1, w2}
    MayCrash = TRUE
    Unused = Unused
SPECIFICATION Spec
INVARIANTS FlagIsTrue FlagComesLast TagsTellWhoSees LabelsMatchSignoff
PROPERTIES EveryoneAgrees PublicTagReachesLvem PutRepairs
CHECK_DEADLOCK FALSE
