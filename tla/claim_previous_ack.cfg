\* A plain read whose third block has number 0.
SPECIFICATION Spec
CONSTANTS
    Modulus = 3
    HeaderSize = 1
    DefaultBlockSize = 2
    MAX_TIMEOUTS = 1
    NDEBUG = TRUE
    FileSize = 5
    Requests <- ReadRequests
    MtuResults <- NoMtu
    Datagrams <- AckDatagrams
    MaxDatagrams = 3
    OlderConnections = 0
PROPERTY PreviousAckResends
