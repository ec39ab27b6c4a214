CONSTANTS
    Paths <- MCPaths
    AncestorsOf <- MCAncestorsOf
    Rank <- MCRank
    Contents <- MCContents
    Hashes <- MCHashes
    Hash <- MCHash
    Modes <- MCModes
    DefaultMode = 420
    Umask <- MCUmask
    IgnoredDirs = {"n"}
    Ignored = {"i"}
    AgentReplacesDirs = FALSE
    AgentWritesIgnored = FALSE
SPECIFICATION Spec
INVARIANTS TypeOK Synced
PROPERTY NeverSynced
