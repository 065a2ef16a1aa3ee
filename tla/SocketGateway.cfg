SPECIFICATION Spec
CONSTANTS
    s1 = s1
    s2 = s2
    web = web
    app = app
    Sockets = {s1, s2}
    Admins = {a1, a2}
    Devices = {web, app}
    DeviceOf <- TwoDevices
    MaxParties = 3
INVARIANTS
    SocketsFindable
    UsersArePutOut
PROPERTIES
    ClosedIsForgotten
