SPECIFICATION Spec
CONSTANTS
    a = a  b = b  c = c
    Calls = {a, b, c}
    Cost <- MCCost
    Redis = {}
    Listed = {b}
    Shadow = {}
    Policies = {"FailOpen"}
    Emission = 1
    Burst = 2
    MaxTime = 1
    MaxBuckets = 2
INVARIANTS
    QuotaKept
CHECK_DEADLOCK FALSE
