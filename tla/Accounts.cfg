\* One entry of each directory, whose names, memberships and certificates change twice,
\* one login, one interrupted command.
CONSTANTS
    Commands <- OneOfEach
    Users = {1, 2, 3, 4, 5}
    Names = {"k", "k2", "p", "p2", "r"}
    FirstName <- OwnName
    LaterName <- NewName
    Memberships = {"lvc", "rrt"}
    AccountOf <- AccountOfThree
    Lvc = "lvc"
    WithLdapName = {"lvc"}
    Subjects = {"s"}
    Verbose = TRUE
    MaxChanges = 2
    MaxLogins = 1
    MaxFaults = 1
    None = None
SPECIFICATION Spec
INVARIANTS AccountsInOrder
PROPERTIES AccountsFollowDirectory
