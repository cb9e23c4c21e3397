SPECIFICATION Spec
CONSTANTS
    p1 = p1 p2 = p2 a = a b = b c = c k = k u = u s1 = s1 s2 = s2
    Proc = {p1, p2}
    Path = {a, b, c}
    Shard = {s1, s2}
    Key = {k}
    StableKey = {k}
    MaxUsage = 1
    MaxVersion = 1
    MaxGen = 1
    ShardOf <- ShardEach
    Lane <- CheckFirstAndClaude
    OldestMigratable = 1
    UpgradeWhileRunning = FALSE
    Faults = {"crash"}
SYMMETRY SymmetricPair

PROPERTIES NoHistoryLost
