SPECIFICATION AllSpec
CONSTANTS
    Calls = {c1, c2, c3, c4}
    Users = {ann, bob}
    NoUser = nobody
    NoCall = none
    GateRequests = {"g1", "g2", "g3"}
    Resources = {x1, x2}
    Actions = {a1, a2}
    Param = param
    Keep = keep
    Wanted <- MCWanted
    Endpoints <- MCEndpoints
    Public <- MCPublic
    GateScript <- MCGateScript
    GateActive = 2
    ButtonChanges = 1
    GateFailures = 1
    Checks = {1, 2, 3, 4}
    Window = 2
    Limit = 2
    Interval = 2
    MaxWait = 3
    LastTime = 5
SYMMETRY MCSymmetry
CHECK_DEADLOCK FALSE
INVARIANTS
    OneSessionPerCode
    ConfirmedCanBePolled
    GuardedStaysGuarded
    PolicyCatchesUp
    
    
    
    
PROPERTIES
    SettledStays
