\* send_file of a full and a short block.
SPECIFICATION PutSpec
CONSTANTS
    Modulus = 4
    HeaderSize = 1
    DefaultBlockSize = 2
    MAX_TIMEOUTS = 1
    NDEBUG = TRUE
    FileSize = 0
    LocalSize = 3
    Requests <- PutRequests
    MtuResults <- NoMtu
    Datagrams <- DataBlocks
    MaxDatagrams = 2
    OlderConnections = 0
INVARIANT PutMeansStored
