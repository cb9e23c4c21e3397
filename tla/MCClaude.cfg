SPECIFICATION Spec
CONSTANTS
    None = None UnknownModel = UnknownModel Synthetic = Synthetic
    FileSession = FileSession FallbackTime = 9 Unattributed = Unattributed
    Agent = Agent k1 = k1 k2 = k2 t1 = t1 opus = opus haiku = haiku
    anthropic = anthropic relay = relay explorer = explorer planner = planner
    Scripts <- MCScripts
    MetaNames <- MCMetaNames
    ParentNames <- MCParentNames
    MaxRewrites = 1
    MaxAppends = 3
    Faults = {"read"}
INVARIANTS EntryIsFullParse TokensAreAssembled
PROPERTIES ServesAState QuietScanCaches
