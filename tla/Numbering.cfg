\* Rows: three saves in two groups, one row removed, and a retry limit small enough for a save
\* to be turned away.  Files: overlapping uploads, crashes and a download.
CONSTANTS
    Saves = {s1, s2, s3}
    Groups = {g1, g2}
    MaxTries = 1
    MaxDeletes = 1
    Writers = {w1, w2, w3}
    Readers = {r1}
    None = None
    MaxAttempts = 2
    MayCrash = TRUE
SPECIFICATION NumberingSpec
INVARIANTS NumbersFollowTime FailureNeedsBurst LoggedAreComplete FailureNeedsCrowd LinkIsThere ServedAfterLog
PROPERTIES ImplementsSequence EverySaveEnds UploadRepairsLink UploadsImplementSequence
CHECK_DEADLOCK FALSE
