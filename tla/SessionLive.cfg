CONSTANTS
    Paths = {"a"}
    AncestorsOf <- MCAncestorsOf
    Rank <- MCRank
    Contents = {"c1", "c2"}
    Hashes <- MCHashes
    Hash <- MCHash
    Modes = {420}
    DefaultMode = 420
    Umask <- MCUmask
    IgnoredDirs = {}
    Ignored = {}
    WireCap = 1
    EventCap = 1
    PipeCap = 1
    MaxChatter = 3
    Chatter = {"assistant"}
    OversizeLines = FALSE
    AgentMayCrash = FALSE
    BackgroundWrites = FALSE
    MaxPrompts = 1
    IOErrors = TRUE
    UserPrompts = 1
    LocalEdits = 1
    ClientMayStop = TRUE
    LocalErrors = TRUE
CHECK_DEADLOCK FALSE
SPECIFICATION FirstSession
PROPERTIES StartsFromListed HandshakeEnds SessionEnds
