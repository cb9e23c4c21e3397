SPECIFICATION FairSpec
CONSTANTS
    p1 = p1 p2 = p2 a = a b = b c = c k = k u = u s1 = s1 s2 = s2
    Proc = {p1, p2}
    Path = {a}
    Shard = {s1}
    Key = {k}
    StableKey = {k}
    MaxUsage = 1
    MaxVersion = 1
    MaxGen = 3
    ShardOf <- OneShard
    Lane <- AllGemini
    OldestMigratable = 1
    UpgradeWhileRunning = FALSE
    Faults = {"parse", "write", "save_read"}

INVARIANTS StampBoundsParse
PROPERTIES LockIsReleased
