SPECIFICATION Spec
CONSTANTS
    r1 = r1  r2 = r2  r3 = r3  r4 = r4  r5 = r5  d1 = d1  d2 = d2  d3 = d3
    Requests = {r1, r2, r3, r4}
    Devices = {d1, d2, d3}
    None = None
    Script <- SerialScript
    AccessTimeout = 1
    ConcurrentLogin = TRUE
    MaxDevices = 2
    TicksPerSecond = 1
    MaxTime = 0
    MaxActive = 1
    MaxAborts = 1
SYMMETRY SerialSymmetry
CHECK_DEADLOCK FALSE
INVARIANTS
    SessionsShown
