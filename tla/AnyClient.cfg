CONSTANTS
    Paths = {"a"}
    AncestorsOf <- MCAncestorsOf
    Rank <- MCRank
    Contents = {"c1"}
    Hashes <- MCHashes
    Hash <- MCHash
    Modes = {420}
    DefaultMode = 420
    Umask <- MCUmask
    IgnoredDirs = {}
    Ignored = {}
    WireCap = 1
    EventCap = 1
    PipeCap = 1
    MaxChatter = 1
    Chatter = {"hook", "assistant"}
    OversizeLines = TRUE
    AgentMayCrash = TRUE
    BackgroundWrites = TRUE
    MaxPrompts = 1
    IOErrors = TRUE
SPECIFICATION Spec
CHECK_DEADLOCK FALSE
INVARIANTS TypeOK NoLeak AgentHasWorkspace
PROPERTIES OnlyAgentEdits StartsFromManifest
