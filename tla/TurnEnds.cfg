CONSTANTS
    Paths = {"a"}
    AncestorsOf <- MCAncestorsOf
    Rank <- MCRank
    Contents = {"c1"}
    Hashes <- MCHashes
    Hash <- MCHash
    Modes = {420}
    DefaultMode = 420
    Umask <- MCUmask
    IgnoredDirs = {}
    Ignored = {}
    WireCap = 1
    EventCap = 1
    PipeCap = 1
    MaxChatter = 1
    Chatter = {"assistant"}
    OversizeLines = TRUE
    AgentMayCrash = TRUE
    BackgroundWrites = FALSE
    MaxPrompts = 2
    IOErrors = TRUE
    UserPrompts = 2
    LocalEdits = 0
    ClientMayStop = TRUE
    LocalErrors = FALSE
CHECK_DEADLOCK FALSE
SPECIFICATION FirstSession
PROPERTIES TurnEnds
