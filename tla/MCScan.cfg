SPECIFICATION ReportSpec
CONSTANTS
    NoKey = NoKey
    UnknownModel = UnknownModel
    NoWorkspace = NoWorkspace
    NoFile = NoFile
    Path <- ThreeFiles
    Contents <- FilesOf
    Lanes = {"claude", "codex", "simple", "copilot", "grok", "kiro", "antigravity", "trae"}
    None = None i = i j = j v = v w = w
    Databases <- TwoDatabases
    Files <- TwoFiles
    MaxDrifts = 1
    Reports = {"price", "time", "graph", "remote"}
    NoRate = NoRate
    Over <- Thresholds
    Usages <- SmallUsages
    Tables <- RatesOfModels
    s1 = s1 s2 = s2 s3 = s3
    Session = {s1, s2, s3}
    Timestamp = {0, 1, 2, 3, 4, 5, 6, 7}
    MaxMessages = 4
    IdleGap = 3
    DayLength = 3
    NoMidnight = {2}
    GraphMessages <- FiveTurns
    MAX = 5
    Mirror <- OneMirror
    RemoteMessages <- RemoteMix
    Queries <- RemoteQueries
    MAX_MESSAGES = 2
    MAX_LABEL_BYTES = 5
    MAX_RECORDS = 2
    MAX_COUNT = 3
    MaxFolded = 4
    MaxPushed = 3
INVARIANTS
    CacheIsTransparent ToldOnce NothingIsLost
    EveryRequestCountsOnce ReportedCostWins ChoiceIgnoresFilter
    EstimateIsHonest TimeMetricsAreExact PiecesAddUp TopCostsMost
    GateKeepsBundle OnlyAskedCanFail UnflaggedIsExact
CHECK_DEADLOCK FALSE
