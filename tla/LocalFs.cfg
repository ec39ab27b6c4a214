CONSTANTS
    Paths <- MCPaths
    AncestorsOf <- MCAncestorsOf
    Rank <- MCRank
    Contents <- MCContents
    Hashes <- MCHashes
    Hash <- MCHash
    Modes <- MCModes
    DefaultMode = 420
    Umask <- MCUmask
    IgnoredDirs = {}
    Ignored = {}
    Temps <- MCTemps
    TempMode = 384
    Empty = ""
    MaxErrors = 1
    MaxKills = 1
SPECIFICATION Spec
INVARIANTS TypeOK NoSilentLoss TempsCleaned
PROPERTY RefinesTurnSync
