\* A read whose options were acknowledged, and a client that vanishes.
SPECIFICATION FairSpec
CONSTANTS
    Modulus = 3
    HeaderSize = 1
    DefaultBlockSize = 2
    MAX_TIMEOUTS = 1
    NDEBUG = TRUE
    FileSize = 5
    Requests <- ReadWithOptions
    MtuResults <- NoMtu
    Datagrams <- AckDatagrams
    MaxDatagrams = 0
    OlderConnections = 0
PROPERTY SessionEnds
CHECK_DEADLOCK FALSE
