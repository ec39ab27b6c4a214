CONSTANTS
    Users = {u1, u2, u3}
    Contents = {"c1", "c2"}
    Hash <- MCHash
    TempNames = {1, 2, 3, 4}
    DiskErrors = TRUE
    Projects <- MCProjects
    MaxSessions = 2
    MaxEnds = 1
SPECIFICATION Spec
CHECK_DEADLOCK FALSE
INVARIANTS TypeOK AgentsBounded BlobsThere TempsOwned
PROPERTIES StoreIsMap SlotsComeBack
