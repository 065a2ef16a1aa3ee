CONSTANTS
    Requests = {"r1", "r2", "r3", "r4"}
    Buttons = {b1, b2, b3}
    Roles = {role}
    Script <- MCScript
    First = {b1}
    None = None
    MaxTime = 1
    MaxActive = 2
    MaxFailures = 1
SYMMETRY MCSymmetry
SPECIFICATION Spec
CHECK_DEADLOCK FALSE
INVARIANTS
    MapSound
    OpensOnlyGranted
    RevokedIsGone
    KeepsGranted
