SPECIFICATION Spec
CONSTANTS
    None = None UnknownModel = UnknownModel
    P = P C = C gpt = gpt older = older
    ParentTurn = ParentTurn TiedTurn = TiedTurn LegacyTurn = LegacyTurn ChildTurn = ChildTurn
    OrderKey <- MCOrderKey
    FallbackTime = 9
    Scripts <- MCScripts
    ParentLog <- MCParentLog
    MaxRewrites = 1
    MaxAppends = 2
    Faults = {"read"}
INVARIANTS EntryIsFullParse CountsOwnTokens
PROPERTIES ServesAState QuietScanCaches
