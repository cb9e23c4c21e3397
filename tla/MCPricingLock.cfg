SPECIFICATION FairSpec
CONSTANTS
    m1 = m1 m2 = m2 c1 = c1 c2 = c2 c3 = c3
    Process = {m1}
    Caller = {c1, c2}
    ProcessOf <- OneProcess
    CacheOnly = {}
    TTL = 1
    MAX_RETRIES = 2
    MaxTime = 1
    Faults = {"network_error", "server_error", "cancel", "save", "crash"}
INVARIANTS TypeOK RefreshInv
PROPERTIES RefreshesAreApart EveryTaskIsAnswered
