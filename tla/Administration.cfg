CONSTANTS
    Requests = {"r1", "r2", "r3", "r4"}
    Users = {u1, u2}
    Roles = {role}
    Script <- MCScript
    None = None
    MaxActive = 2
    MenuRequests = {"r1", "r2", "r3"}
    MenuScript <- MCMenuScript
    Names = {n1, n2}
    Paths = {p1}
    Marks = {m1}
    Looks = {l1, l2}
    Unset = Unset
    MaxId = 5
    MenuActive = 2
    DictRequests = {"r1", "r2", "r3"}
    DictScript <- MCDictScript
    Codes = {"c1", "c2"}
    Values = {"v1", "v2"}
    Faces = {"f1", "f2"}
    Nothing = Nothing
    Seed <- MCSeed
    MaxDictId = 8
    DictActive = 2
SPECIFICATION AllSpec
SYMMETRY MCSymmetry
\* The requests come to an end.
CHECK_DEADLOCK FALSE
INVARIANTS
    
    PublishedIsFrozen
    TreeConsistent
    DictConsistent
PROPERTIES
    ReadIsKept
