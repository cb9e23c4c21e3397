SPECIFICATION Spec
CONSTANTS
    p1 = p1 p2 = p2 a = a b = b c = c k = k u = u s1 = s1 s2 = s2
    Proc = {p1, p2}
    Path = {a}
    Shard = {s1}
    Key = {k, u}
    StableKey = {k}
    MaxUsage = 1
    MaxVersion = 3
    MaxGen = 2
    ShardOf <- OneShard
    Lane <- AllClaude
    OldestMigratable = 2
    UpgradeWhileRunning = FALSE
    Faults = {"write"}
SYMMETRY Symmetric
PROPERTIES NoTurnLost
