\* A plain write of full blocks.
SPECIFICATION Spec
CONSTANTS
    Modulus = 3
    HeaderSize = 1
    DefaultBlockSize = 2
    MAX_TIMEOUTS = 1
    NDEBUG = TRUE
    FileSize = 5
    Requests <- WriteRequests
    MtuResults <- NoMtu
    Datagrams <- DataDatagrams
    MaxDatagrams = 1
    OlderConnections = 0
INVARIANT WholeBlockStored
