SPECIFICATION Spec
CONSTANTS
    Posts = {p1, p2, p3}
    Names = {n1, n2}
    Databases = {d1, d2}
    None = None
    Absent = Absent
    Empty = Empty
    Garbled = Garbled
    p1 = p1
    p2 = p2
    p3 = p3
    n1 = n1
    n2 = n2
    d1 = d1
    d2 = d2
SYMMETRY InstallSymmetry
CHECK_DEADLOCK FALSE
INVARIANTS InstalledIsUsable ClosedOnceDone RestartsIntoTheSameShop
