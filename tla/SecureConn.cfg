CONSTANTS
    ClientWriters = {main}
    ServerWriters = {handler, pump}
    Bytes = {1, 2, 3}
    ToServer <- MCToServer
    ToClient <- MCToClient
    PSKs = {k1, k2}
    ChunkSize = 2
    NetCap = 2
    MaxSends <- MCMaxSends
    MaxFaults = 1
SPECIFICATION Spec
CHECK_DEADLOCK FALSE
INVARIANTS TypeOK NoFalseAlarm Authenticated
PROPERTIES RefinesLink Settles
