SPECIFICATION FairSpec
CONSTANTS
    Attempts = {t1, t2}
    Known = {a1}
    Shared = Shared
    Users = {u1}
    NoUser = NoUser
    MaxFails = 2
    SharedMaxFails = 2
    UserMaxFails = 1
    Window = 2
    Block = 2
    MaxKeys = 1
    t1 = t1
    t2 = t2
    a1 = a1
    u1 = u1
INVARIANTS TypeOK GuessesBounded
PROPERTIES BlocksEnd
