\* Two entries of one directory, two changes, one login.
CONSTANTS
    Commands <- TwoPeople
    Users = {1, 2, 3, 4}
    Names = {"p", "p2", "q", "q2"}
    FirstName <- OwnName
    LaterName <- NewName
    Memberships = {"lvc", "rrt"}
    AccountOf <- AccountOfTwo
    Lvc = "lvc"
    WithLdapName = {"lvc"}
    Subjects = {"s"}
    Verbose = TRUE
    MaxChanges = 2
    MaxLogins = 1
    MaxFaults = 0
    None = None
SPECIFICATION Spec
PROPERTIES NobodyStopsTheOthers
