SPECIFICATION Spec
CONSTANTS
    a = a  b = b  c = c
    Calls = {a, b, c}
    Cost <- MCCost
    Redis = {b, c}
    Listed = {b}
    Shadow = {b}
    Policies = {"FailOpen", "FailClosed", "FallbackMemory"}
    Emission = 1
    Burst = 2
    MaxTime = 2
    MaxBuckets = 2
CHECK_DEADLOCK FALSE
INVARIANTS
    QuotaBound
