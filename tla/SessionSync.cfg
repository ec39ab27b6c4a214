CONSTANTS
    Paths = {"a", "a/b", "i"}
    AncestorsOf <- MCAncestorsOf
    Rank <- MCRank
    Contents = {"c1"}
    Hashes <- MCHashes
    Hash <- MCHash
    Modes = {420}
    DefaultMode = 420
    Umask <- MCUmask
    IgnoredDirs = {}
    Ignored = {"i"}
    WireCap = 2
    EventCap = 1
    PipeCap = 1
    MaxChatter = 0
    Chatter = {"assistant"}
    OversizeLines = FALSE
    AgentMayCrash = FALSE
    BackgroundWrites = FALSE
    MaxPrompts = 2
    IOErrors = FALSE
    UserPrompts = 2
    LocalEdits = 0
    ClientMayStop = TRUE
    LocalErrors = FALSE
CHECK_DEADLOCK FALSE
SPECIFICATION ClearSpec
INVARIANTS ClientTypeOK SyncedAtPrompt NoBaselineRace OneReturnPerTurn
PROPERTY ImplementsAnyClient
