CONSTANTS
    Paths = {"a"}
    AncestorsOf <- MCAncestorsOf
    Rank <- MCRank
    Contents = {"c1"}
    Hashes <- MCHashes
    Hash <- MCHash
    Modes = {420}
    DefaultMode = 420
    Umask <- MCUmask
    IgnoredDirs = {}
    Ignored = {}
    WireCap = 2
    EventCap = 2
    PipeCap = 1
    MaxChatter = 0
    Chatter = {"assistant"}
    OversizeLines = FALSE
    AgentMayCrash = FALSE
    BackgroundWrites = FALSE
    MaxPrompts = 2
    IOErrors = FALSE
    UserPrompts = 2
    LocalEdits = 0
    ClientMayStop = FALSE
    LocalErrors = FALSE
CHECK_DEADLOCK FALSE
SPECIFICATION Spec
INVARIANT ReturnsAfterTurn
