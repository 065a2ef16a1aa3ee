SPECIFICATION Spec
CONSTANTS
    r1 = r1  r2 = r2  r3 = r3  r4 = r4  r5 = r5  d1 = d1  d2 = d2  d3 = d3
    Requests = {r1, r2, r3, r4}
    Devices = {d1}
    None = None
    Script <- RaceScript
    AccessTimeout = 2
    ConcurrentLogin = TRUE
    MaxDevices = 1
    TicksPerSecond = 1
    MaxTime = 2
    MaxActive = 3
    MaxAborts = 0
CHECK_DEADLOCK FALSE
INVARIANTS
    DeviceLeadsToSession
    UsedTokenIsDead
    RevokedStaysOut
    BanBlocksRefresh
