SPECIFICATION Spec
CONSTANTS
    m1 = m1 m2 = m2 c1 = c1 c2 = c2 c3 = c3
    Process = {m1, m2}
    Caller = {c1, c3}
    ProcessOf <- TwoProcesses
    CacheOnly = {c3}
    TTL = 1
    MAX_RETRIES = 1
    MaxTime = 2
    Faults = {"refused"}
INVARIANTS ServedAge UnpricedOnlyWithoutData

