SPECIFICATION FairSpec
CONSTANTS
    Pushes = {p1, p2}
    Capacity = 1
    BatchSize = 2
    Attempts = 2
\* After the shutdown hook the collector is done and nothing moves.
CHECK_DEADLOCK FALSE
INVARIANTS
    NoSendAfterExit
PROPERTIES
    
    DrainTerminates
    ImplementsLogSink
