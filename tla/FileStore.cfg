SPECIFICATION AllSpec
CONSTANTS
    Requests = {p1, p2, p3, p4}
    Contents = {c}
    NoMd5 = NoMd5
    Workers = {w1, w2}
    QueueCapacity = 1
    Tasks = {t1, t2, t3}
    TaskWorkers = {k1, k2}
    TaskCapacity = 1
    Items = {i1, i2, i3}
    ItemCapacity = 2
    HandSize = 2
    MaxPanics = 2
SYMMETRY MCSymmetry
\* Every request is served once, after that the system may rest.
CHECK_DEADLOCK FALSE
INVARIANTS
    RowHadObject
    EarlierRowKeepsObject
    LeakHasCause
    SuccessIsTrue
    AtRestNothingWaits
PROPERTIES
    RelayImplementsSink
